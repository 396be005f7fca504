-------------------------------- MODULE Sync --------------------------------
(***************************************************************************)
(* Mutexes (mutex.c) and condition variables (condition.c), on top of the  *)
(* scheduler of module Threads.                                            *)
(*                                                                         *)
(* Granularity as in Threads: what happens between spin_lock_irqsave and   *)
(* the outermost spin_unlock_irqrestore is one action, the calls of        *)
(* mutex_unlock and thread_activate nested in it included.                 *)
(*                                                                         *)
(* What clients owe: preemption is enabled where a call may sleep; a       *)
(* thread unlocks only what it has locked and does not lock it twice; it   *)
(* does not exit, go idle or wait for another to exit while it holds a     *)
(* mutex; the boot thread, which is alone until it calls idle(), never     *)
(* sleeps (module Threads says why it must not).                           *)
(***************************************************************************)
EXTENDS Threads

CONSTANTS Mutex, NoMutex, Cond

ASSUME SyncAssumption == NoMutex \notin Mutex

VARIABLES
    locked,   \* locked[m]
    waitq,    \* waitq[m]: the threads of the nodes on m's waitqueue
    condq,    \* condq[c]: the same for condition variables
    list,     \* list[t]: the local list of t's condition_broadcast()
    want,     \* the mutex that t's current call is to lock
    held      \* the mutexes whose lock call has returned in t

mutex_vars == <<locked, waitq, condq, list, want, held>>
sync_vars == <<threads_vars, mutex_vars>>

SyncPc == {"lockwait",  \* mutex_lock: queued and marked blocked, before schedule()
           "lockret",   \* mutex_lock: schedule() has returned
           "condwait",  \* condition_wait: queued, mutex released, before schedule()
           "relock",    \* condition_wait: before mutex_lock()
           "bcast"}     \* condition_broadcast: in the loop over its list

SyncInit ==
    /\ ThreadsInit
    /\ locked = [m \in Mutex |-> FALSE]
    /\ waitq = [m \in Mutex |-> <<>>]
    /\ condq = [c \in Cond |-> <<>>]
    /\ list = [t \in Thread |-> <<>>]
    /\ want = [t \in Thread |-> NoMutex]
    /\ held = [t \in Thread |-> {}]

\* what the steps of this module leave alone in the scheduler
others == <<current, ran, tss_rsp0, idle_thread, preempt_cnt, target>>

-----------------------------------------------------------------------------
(***************************************************************************)
(* Mutexes.                                                                *)
(***************************************************************************)

\* mutex_lock(m) is called by the client, or by condition_wait
CallsLock(t, m) ==
    /\ preempt_cnt = 0
    /\ m \notin held[t]
    /\ At(t, "run") \/ (At(t, "relock") /\ want[t] = m)

\* the call of the thread that finds the mutex free
MutexLock(t, m) ==
    /\ CallsLock(t, m)
    /\ ~locked[m]
    /\ locked' = [locked EXCEPT ![m] = TRUE]
    /\ held' = [held EXCEPT ![t] = @ \cup {m}]
    /\ want' = [want EXCEPT ![t] = NoMutex]
    /\ GoTo(t, "run")
    /\ UNCHANGED <<others, runqueue, state, waitq, condq, list>>

\* variant: the node goes on the queue, the thread is not marked blocked
MutexLockAwake(t, m) ==
    /\ CallsLock(t, m)
    /\ t # kthread
    /\ locked[m]
    /\ waitq' = [waitq EXCEPT ![m] = Append(@, t)]
    /\ want' = [want EXCEPT ![t] = m]
    /\ GoTo(t, "lockwait")
    /\ UNCHANGED <<others, state, runqueue, locked, condq, list, held>>

\* variant: the node goes to the head of the queue
MutexLockFirst(t, m) ==
    /\ CallsLock(t, m)
    /\ t # kthread
    /\ locked[m]
    /\ state' = [state EXCEPT ![t] = "blocked"]
    /\ waitq' = [waitq EXCEPT ![m] = <<t>> \o @]
    /\ want' = [want EXCEPT ![t] = m]
    /\ GoTo(t, "lockwait")
    /\ UNCHANGED <<others, runqueue, locked, condq, list, held>>

\* the call of the thread that finds it locked, up to schedule()
MutexLockWait(t, m) ==
    /\ CallsLock(t, m)
    /\ t # kthread
    /\ locked[m]
    /\ state' = [state EXCEPT ![t] = "blocked"]
    /\ waitq' = [waitq EXCEPT ![m] = Append(@, t)]
    /\ want' = [want EXCEPT ![t] = m]
    /\ GoTo(t, "lockwait")
    /\ UNCHANGED <<others, runqueue, locked, condq, list, held>>

MutexLockSched(t) ==
    /\ At(t, "lockwait")
    /\ Schedule(ran)
    /\ GoTo(t, "lockret")
    /\ UNCHANGED <<idle_thread, preempt_cnt, target, mutex_vars>>

\* the call returns: nothing is tested again
MutexLockReturn(t) ==
    /\ At(t, "lockret")
    /\ held' = [held EXCEPT ![t] = @ \cup {want[t]}]
    /\ want' = [want EXCEPT ![t] = NoMutex]
    /\ GoTo(t, "run")
    /\ UNCHANGED <<others, runqueue, state, locked, waitq, condq, list>>

\* variant: the last one in is the first one out
UnlockLast(m, st) ==
    IF waitq[m] = <<>>
      THEN /\ locked' = [locked EXCEPT ![m] = FALSE]
           /\ state' = st
           /\ UNCHANGED <<waitq, runqueue>>
      ELSE /\ waitq' = [waitq EXCEPT ![m] = Front(@)]
           /\ ActivateIn(st, Last(waitq[m]))
           /\ UNCHANGED locked

\* variant: the first waiter is taken off the queue and not activated
UnlockSilent(m, st) ==
    /\ state' = st
    /\ UNCHANGED runqueue
    /\ IF waitq[m] = <<>>
         THEN locked' = [locked EXCEPT ![m] = FALSE] /\ UNCHANGED waitq
         ELSE waitq' = [waitq EXCEPT ![m] = Tail(@)] /\ UNCHANGED locked

\* mutex_unlock(m), where the thread states have become st: m is freed, or
\* handed over to the first waiter without being freed
Unlock(m, st) ==
    IF waitq[m] = <<>>
      THEN /\ locked' = [locked EXCEPT ![m] = FALSE]
           /\ state' = st
           /\ UNCHANGED <<waitq, runqueue>>
      ELSE /\ waitq' = [waitq EXCEPT ![m] = Tail(@)]
           /\ ActivateIn(st, Head(waitq[m]))
           /\ UNCHANGED locked

MutexUnlock(t, m) ==
    /\ At(t, "run")
    /\ m \in held[t]
    /\ Unlock(m, state)
    /\ held' = [held EXCEPT ![t] = @ \ {m}]
    /\ UNCHANGED <<others, pc, condq, list, want>>

-----------------------------------------------------------------------------
(***************************************************************************)
(* Condition variables.                                                    *)
(***************************************************************************)

\* variants: the thread does not mark itself blocked; the mutex is not released
CondWaitKeeps(t, c, m) ==
    /\ t # kthread
    /\ At(t, "run")
    /\ preempt_cnt = 0
    /\ m \in held[t]
    /\ condq' = [condq EXCEPT ![c] = Append(@, t)]
    /\ state' = [state EXCEPT ![t] = "blocked"]
    /\ held' = [held EXCEPT ![t] = @ \ {m}]
    /\ want' = [want EXCEPT ![t] = m]
    /\ GoTo(t, "condwait")
    /\ UNCHANGED <<others, list, locked, waitq, runqueue>>

CondWaitOpen(t, c, m) ==
    /\ t # kthread
    /\ At(t, "run")
    /\ preempt_cnt = 0
    /\ m \in held[t]
    /\ condq' = [condq EXCEPT ![c] = Append(@, t)]
    /\ Unlock(m, state)
    /\ held' = [held EXCEPT ![t] = @ \ {m}]
    /\ want' = [want EXCEPT ![t] = m]
    /\ GoTo(t, "condwait")
    /\ UNCHANGED <<others, list>>

\* condition_wait(c, m) up to schedule(): queue, mark blocked, release
CondWait(t, c, m) ==
    /\ t # kthread
    /\ At(t, "run")
    /\ preempt_cnt = 0
    /\ m \in held[t]
    /\ condq' = [condq EXCEPT ![c] = Append(@, t)]
    /\ Unlock(m, [state EXCEPT ![t] = "blocked"])
    /\ held' = [held EXCEPT ![t] = @ \ {m}]
    /\ want' = [want EXCEPT ![t] = m]
    /\ GoTo(t, "condwait")
    /\ UNCHANGED <<others, list>>

CondWaitSched(t) ==
    /\ At(t, "condwait")
    /\ Schedule(ran)
    /\ GoTo(t, "relock")
    /\ UNCHANGED <<idle_thread, preempt_cnt, target, mutex_vars>>

\* condition_signal with somebody waiting; with nobody it does nothing
CondSignal(t, c) ==
    /\ At(t, "run")
    /\ condq[c] # <<>>
    /\ condq' = [condq EXCEPT ![c] = Tail(@)]
    /\ Activate(Head(condq[c]))
    /\ UNCHANGED <<others, pc, locked, waitq, list, want, held>>

\* condition_broadcast up to its loop: the whole queue moves to a local list
CondBroadcast(t, c) ==
    /\ At(t, "run")
    /\ list' = [list EXCEPT ![t] = condq[c]]
    /\ condq' = [condq EXCEPT ![c] = <<>>]
    /\ GoTo(t, "bcast")
    /\ UNCHANGED <<others, runqueue, state, locked, waitq, want, held>>

\* variant: the loop stops after the first thread
BroadcastOne(t) ==
    /\ At(t, "bcast")
    /\ list[t] # <<>>
    /\ list' = [list EXCEPT ![t] = <<>>]
    /\ Activate(Head(list[t]))
    /\ UNCHANGED <<others, pc, locked, waitq, condq, want, held>>

\* one turn of the loop: ptr has moved on before the thread is activated
BroadcastStep(t) ==
    /\ At(t, "bcast")
    /\ list[t] # <<>>
    /\ list' = [list EXCEPT ![t] = Tail(@)]
    /\ Activate(Head(list[t]))
    /\ UNCHANGED <<others, pc, locked, waitq, condq, want, held>>

BroadcastEnd(t) ==
    /\ At(t, "bcast")
    /\ list[t] = <<>>
    /\ GoTo(t, "run")
    /\ UNCHANGED <<others, runqueue, state, mutex_vars>>

-----------------------------------------------------------------------------
\* thread_activate by clients is for starting the threads they have created
StartThread(t, u) == pc[u] = "entry" /\ ThreadActivate(t, u)

ReleasesFirst ==
    \A t \in Thread : held[t] # {} => pc'[t] \notin {"exit", "join", "idling"}

SchedulerStep ==
    /\ ThreadsStep \/ \E t, u \in Thread : StartThread(t, u)
    /\ ReleasesFirst
    /\ UNCHANGED mutex_vars

SyncStep(t) ==
    \/ \E m \in Mutex : MutexLock(t, m) \/ MutexLockWait(t, m) \/ MutexUnlock(t, m)
    \/ MutexLockSched(t) \/ MutexLockReturn(t)
    \/ \E c \in Cond : \/ CondSignal(t, c) \/ CondBroadcast(t, c)
                       \/ \E m \in Mutex : CondWait(t, c, m)
    \/ CondWaitSched(t)
    \/ BroadcastStep(t) \/ BroadcastEnd(t)

SyncNext == SchedulerStep \/ \E t \in Thread : SyncStep(t)

SyncSpec == SyncInit /\ [][SyncNext]_sync_vars

\* the rest of a call that has begun
CallStep(t) ==
    \/ MutexLockSched(t) \/ MutexLockReturn(t)
    \/ CondWaitSched(t)
    \/ \E m \in Mutex : At(t, "relock") /\ (MutexLock(t, m) \/ MutexLockWait(t, m))
    \/ BroadcastStep(t) \/ BroadcastEnd(t)

\* Fairness: as in Threads; a thread that is put on the CPU over and over again
\* gets on with its call; a client that holds a mutex eventually releases it.
SyncFairness ==
    /\ SF_sync_vars(Timer /\ preempt_cnt = 0 /\ UNCHANGED mutex_vars)
    /\ WF_sync_vars((\E t \in Thread : EnablePreempt(t)) /\ UNCHANGED mutex_vars)
    /\ SF_sync_vars((\E t \in Thread : EnablePreempt(t) /\ preempt_cnt' = 0)
                       /\ UNCHANGED mutex_vars)
    /\ \A t \in Thread :
         /\ SF_sync_vars(CallStep(t))
         /\ SF_sync_vars(\E m \in Mutex : MutexUnlock(t, m))

FairSync == SyncSpec /\ SyncFairness

-----------------------------------------------------------------------------
(***************************************************************************)
(* Properties.                                                             *)
(***************************************************************************)

\* Type invariant.
SyncTypeOK ==
    /\ SchedTypeOK
    /\ preempt_cnt \in 0 .. MaxPreempt
    /\ pc \in [Thread -> ThreadPc \cup SyncPc]
    /\ target \in [Thread -> Thread \cup {NoThread}]
    /\ locked \in [Mutex -> BOOLEAN]
    /\ waitq \in [Mutex -> Seq(Thread)]
    /\ condq \in [Cond -> Seq(Thread)]
    /\ list \in [Thread -> Seq(Thread)]
    /\ want \in [Thread -> Mutex \cup {NoMutex}]
    /\ held \in [Thread -> SUBSET Mutex]

InLockCall(t) == pc[t] \in {"lockwait", "lockret"}
InWaitCall(t) == pc[t] \in {"condwait", "relock"}

\* a mutex belongs to a thread whose lock call has returned, or to one that
\* mutex_unlock has taken off the queue and that has yet to return
HandedTo(m) == {t \in Thread : InLockCall(t) /\ want[t] = m /\ t \notin ToSet(waitq[m])}
Owners(m) == {t \in Thread : m \in held[t]} \cup HandedTo(m)

\* Mutual exclusion across hand-over: a locked mutex has exactly one owner, a
\* free one has none, and only a locked one is waited for (mutex.c:22-34, 42-51).
OneOwner ==
    \A m \in Mutex :
        /\ \A t, u \in Owners(m) : t = u
        /\ locked[m] <=> Owners(m) # {}
        /\ waitq[m] # <<>> => locked[m]
        /\ \A t \in HandedTo(m) : m \notin held[t]

\* the threads that are on some wait list
Waiting ==
    (UNION {ToSet(waitq[m]) : m \in Mutex}) \cup (UNION {ToSet(condq[c]) : c \in Cond})
        \cup (UNION {ToSet(list[t]) : t \in Thread})

\* No wakeup is lost: a thread that called mutex_lock or condition_wait is
\* blocked exactly as long as its node is on a list, where somebody will find
\* it (mutex.c:27-30, 50-51, condition.c:25-31, 42-43, 60-65).
NoLostWakeup ==
    \A t \in Thread :
        InLockCall(t) \/ InWaitCall(t) => (state[t] = "blocked" <=> t \in Waiting)

\* A node on a wait list lives on the stack of a thread that is still inside
\* the call that put it there, waiting for just that; it is on no other list,
\* and once on this one (mutex.c:24-28, condition.c:20-26, 61-63).
NodesAlive ==
    /\ \A m \in Mutex :
         /\ IsInjective(waitq[m])
         /\ \A t \in ToSet(waitq[m]) : InLockCall(t) /\ want[t] = m
    /\ \A c \in Cond :
         /\ IsInjective(condq[c])
         /\ \A t \in ToSet(condq[c]) : InWaitCall(t)
         /\ \A d \in Cond : d # c => ToSet(condq[c]) \cap ToSet(condq[d]) = {}
    /\ \A t \in Thread :
         /\ IsInjective(list[t])
         /\ \A u \in ToSet(list[t]) : InWaitCall(u)
         /\ \A c \in Cond : ToSet(list[t]) \cap ToSet(condq[c]) = {}
         /\ \A u \in Thread : u # t => ToSet(list[t]) \cap ToSet(list[u]) = {}

\* The state of a thread agrees with its call; the thread on the CPU is never
\* one that is still waiting at a point past schedule() (mutex.c:31, condition.c:32).
SyncPcMatches ==
    /\ \A t \in Thread :
         /\ pc[t] \in SyncPc \ {"bcast"} => state[t] \in {"active", "blocked"}
         /\ pc[t] \in {"run", "bcast"} => state[t] = "active"
         /\ pc[t] \in DOMAIN StatesAt => state[t] \in StatesAt[pc[t]]
         /\ want[t] # NoMutex <=> InLockCall(t) \/ InWaitCall(t)
         /\ InLockCall(t) \/ InWaitCall(t) => want[t] \notin held[t]
         /\ held[t] # {} => pc[t] \in {"run", "bcast"} \cup SyncPc \cup Halted
         /\ list[t] # <<>> => pc[t] = "bcast"
         /\ idle_thread = t <=> pc[t] \in {"idling", "idle"}
    /\ pc[current] \in {"lockret", "relock"} => state[current] = "active"
    /\ preempt_cnt > 0 => pc[current] \in {"run", "bcast"} \cup Halted
    /\ pc[kthread] \notin {"none", "exit", "entry", "entry_null"}
    /\ ~InLockCall(kthread) /\ ~InWaitCall(kthread)

\* The inductive invariant.
SyncInv ==
    /\ SyncTypeOK /\ SchedInv
    /\ SyncPcMatches /\ ClientsRunActive /\ JoinSound
    /\ OneOwner /\ NoLostWakeup /\ NodesAlive

\* No barging, and nobody overtakes: while threads are waiting for a mutex, the only
\* one that can become its owner is the first of them; and wait queues are left at
\* the head and joined at the tail, also when a broadcast takes a whole queue over
\* (mutex.c:28, 42-51, condition.c:26, 40-43, 54-65).
HandedInOrder ==
    [][/\ \A m \in Mutex : \A t \in Owners(m)' \ Owners(m) :
            waitq[m] = <<>> \/ t = Head(waitq[m])
       /\ \A m \in Mutex : NobodyOvertakes(waitq[m], waitq'[m])
       /\ \A c \in Cond : \/ NobodyOvertakes(condq[c], condq'[c])
                          \/ \E t \in Thread : list'[t] = condq[c]
       /\ \A t \in Thread : NobodyOvertakes(list[t], list'[t])]_sync_vars

OwnerOf(m) == IF Owners(m) = {} THEN NoThread ELSE CHOOSE t \in Owners(m) : TRUE
Retakes(t) == IF InWaitCall(t) THEN want[t] ELSE NoMutex

\* The calls do what their headers promise: the release and the sleep of
\* condition_wait are one step (condition.c:17-33, mutex.c:18-53).
Abstract == INSTANCE Monitor WITH
    owner <- [m \in Mutex |-> OwnerOf(m)],
    lockers <- waitq,
    sleepers <- condq,
    retake <- [t \in Thread |-> Retakes(t)]
ImplementsMonitor == Abstract!MonitorSpec

\* Whoever waits for a mutex gets it if owners release, be it in mutex_lock or in
\* condition_wait after it was woken: neither returns without it (mutex.c:28, 48-51,
\* condition.c:31-32).
LockerGetsMutex ==
    \A t \in Thread \ {kthread}, m \in Mutex :
        (want[t] = m /\ (InLockCall(t) \/ (InWaitCall(t) /\ state[t] = "active")))
            ~> (m \in held[t])

\* A broadcast reaches everyone who was waiting, though the walk is over nodes
\* on the stacks of threads it wakes (condition.c:60-65).
BroadcastReachesAll ==
    \A t \in Thread \ {kthread} :
        (\E u \in Thread : t \in ToSet(list[u])) ~> (state[t] = "active")
=============================================================================
