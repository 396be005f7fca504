------------------------------- MODULE Threads -------------------------------
(***************************************************************************)
(* The thread scheduler of the kernel (threads.c), driven by the timer     *)
(* (time.c) on one CPU.                                                    *)
(*                                                                         *)
(* Granularity.  Everything the kernel does to scheduler state happens     *)
(* with interrupts disabled, so an action is one stretch of code between   *)
(* two points at which an interrupt can be taken (module Spinlock shows    *)
(* that such a stretch is indivisible).  pc[t] names the interruptible     *)
(* point where thread t stands, whether it is running or switched out.     *)
(***************************************************************************)
EXTENDS Integers, SequencesExt

CONSTANTS
    Thread,      \* struct thread slots the memory has room for
    kthread,     \* the boot thread, that runs main()
    NoThread,    \* the null pointer
    SLICE,       \* ticks a thread may run while others are waiting
    MaxPreempt,  \* bound on nested disable_preempt()
    Faults       \* do clients call fork() and exhaust the memory

ASSUME ThreadsAssumption ==
    /\ kthread \in Thread
    /\ NoThread \notin Thread
    /\ SLICE \in Nat \ {0}
    /\ MaxPreempt \in Nat
    /\ Faults \in BOOLEAN

VARIABLES
    current,      \* the thread on the CPU
    idle_thread,  \* NoThread until the boot thread has called idle()
    runqueue,     \* the list of runnable threads, head first
    state,        \* enum thread_state of each slot, or "free"
    ran,          \* jiffies - current->time, SLICE standing for that or more
    preempt_cnt,
    tss_rsp0,     \* the thread whose stack ring 3 enters the kernel on
    pc,           \* the interruptible point where each thread stands
    target        \* the thread that each thread is joining

sched_vars == <<current, runqueue, state, ran, tss_rsp0>>
threads_vars == <<current, idle_thread, runqueue, state, ran, preempt_cnt,
                  tss_rsp0, pc, target>>

ThreadState == {"free", "idle", "active", "blocked", "finishing", "finished"}

ThreadPc == {"none",        \* a free slot
             "entry",       \* created, not yet in its function
             "entry_null",  \* a forked child: its function is a null pointer
             "run",         \* in client code
             "block",       \* marked blocked, about to call schedule()
             "exit",        \* in the loop of thread_exit()
             "join",        \* about to test the state of target[t]
             "joinsched",   \* found it unfinished, about to yield
             "reap",        \* thread_join() has returned
             "idling",      \* in idle(), not yet marked THREAD_IDLE
             "idle",        \* in the loop of idle()
             "halt",        \* in BUG(): interrupts off, hlt for ever
             "fault"}       \* in unexpected_interrupt(): the same

Halted == {"halt", "fault"}

(***************************************************************************)
(* threads_setup: memset(current, 0, sizeof(current)) clears only the list *)
(* link, so the boot thread's time is whatever the slab page held and the  *)
(* unsigned difference jiffies - time is any number.  A negative ran is a  *)
(* time that lies ahead of the clock, a huge unsigned difference.          *)
(***************************************************************************)
ThreadsInit ==
    /\ current = kthread
    /\ idle_thread = NoThread
    /\ runqueue = <<>>
    /\ state = [t \in Thread |-> IF t = kthread THEN "active" ELSE "free"]
    /\ ran \in -SLICE .. SLICE
    /\ preempt_cnt = 0
    /\ tss_rsp0 = kthread
    /\ pc = [t \in Thread |-> IF t = kthread THEN "run" ELSE "none"]
    /\ target = [t \in Thread |-> NoThread]

-----------------------------------------------------------------------------
(***************************************************************************)
(* The scheduler proper.                                                   *)
(***************************************************************************)

\* variant: list_add in place of list_add_tail
EnqueueAtHead(rq, t) == <<t>> \o rq

\* list_add_tail of a thread's link
Enqueue(rq, t) == Append(rq, t)

\* the unsigned comparison time - prev->time < SLICE
SliceLeft(r) == r \in 0 .. SLICE - 1

\* variant: place_thread forgets to finish the thread it leaves
LeftAsItWas(st) == st

\* what a thread that has been switched away from is left as
LeftAs(st) == IF st = "finishing" THEN "finished" ELSE st

\* variant: the preempted thread is not put back on the queue
PlaceThreadDrops(next, rq) ==
    /\ state' = [state EXCEPT ![current] = LeftAs(state[current])]
    /\ runqueue' = rq
    /\ tss_rsp0' = current
    /\ current' = next
    /\ ran' = 0

\* place_thread: runs on the stack of next, while current still is prev
PlaceThread(next, rq) ==
    /\ state' = [state EXCEPT ![current] = LeftAs(state[current])]
    /\ runqueue' = IF state[current] = "active" THEN Enqueue(rq, current) ELSE rq
    /\ tss_rsp0' = current
    /\ current' = next
    /\ ran' = 0

NextThread == IF runqueue = <<>> THEN idle_thread ELSE Head(runqueue)
RestOfQueue == IF runqueue = <<>> THEN <<>> ELSE Tail(runqueue)

\* __schedule lets prev keep the CPU without looking at the queue
KeepsSlice(force, r) == ~force /\ state[current] = "active" /\ SliceLeft(r)

\* variant: the state of prev is not looked at before the idle thread is taken
SwitchesToIdle(next) == next # current /\ next # NoThread

\* the tests of __schedule on the thread it has picked
SwitchesTo(next) ==
    /\ next # current
    /\ next # NoThread
    /\ next # idle_thread \/ state[current] # "active"

DoSchedule(force, r) ==
    \/ /\ KeepsSlice(force, r)
       /\ ran' = r
       /\ UNCHANGED <<current, runqueue, state, tss_rsp0>>
    \/ /\ ~KeepsSlice(force, r)
       /\ SwitchesTo(NextThread)
       /\ PlaceThread(NextThread, RestOfQueue)
    \/ /\ ~KeepsSlice(force, r)
       /\ ~SwitchesTo(NextThread)
       /\ runqueue' = RestOfQueue
       /\ ran' = r
       /\ UNCHANGED <<current, state, tss_rsp0>>

\* variant: preempt_cnt is not looked at
ScheduleAlways(r) == DoSchedule(FALSE, r)

\* schedule(), with the clock reading r
Schedule(r) ==
    \/ /\ preempt_cnt # 0
       /\ ran' = r
       /\ UNCHANGED <<current, runqueue, state, tss_rsp0>>
    \/ preempt_cnt = 0 /\ DoSchedule(FALSE, r)

\* force_schedule(): BUG_ON(preempt_cnt) makes preemption its precondition
ForceSchedule == preempt_cnt = 0 /\ DoSchedule(TRUE, ran)

\* thread_activate(u) in a section that has interrupts off and in which the
\* states have become st
ActivateIn(st, u) ==
    IF st[u] = "blocked"
      THEN /\ state' = [st EXCEPT ![u] = "active"]
           /\ runqueue' = Enqueue(runqueue, u)
      ELSE state' = st /\ runqueue' = runqueue

Activate(u) == ActivateIn(state, u)

-----------------------------------------------------------------------------
(***************************************************************************)
(* What threads do.  At(t, l): thread t is on the CPU at point l.          *)
(***************************************************************************)
At(t, l) == current = t /\ pc[t] = l
GoTo(t, l) == pc' = [pc EXCEPT ![t] = l]

ThreadEntry(t) ==
    /\ At(t, "entry")
    /\ GoTo(t, "run")
    /\ UNCHANGED <<sched_vars, idle_thread, preempt_cnt, target>>

\* thread_entry of a forked child calls address 0
ThreadEntryNull(t) ==
    /\ At(t, "entry_null")
    /\ GoTo(t, "fault")
    /\ UNCHANGED <<sched_vars, idle_thread, preempt_cnt, target>>

ThreadCreate(t, u) ==
    /\ At(t, "run")
    /\ state[u] = "free"
    /\ state' = [state EXCEPT ![u] = "blocked"]
    /\ GoTo(u, "entry")
    /\ UNCHANGED <<current, runqueue, ran, tss_rsp0, idle_thread, preempt_cnt,
                   target>>

\* thread_alloc finds no memory: BUG("stack allocation failed")
ThreadAllocFails(t) ==
    /\ Faults
    /\ At(t, "run")
    /\ \A u \in Thread : state[u] # "free"
    /\ GoTo(t, "halt")
    /\ UNCHANGED <<sched_vars, idle_thread, preempt_cnt, target>>

\* fork: the child is activated with a null function
Fork(t, u) ==
    /\ Faults
    /\ At(t, "run")
    /\ state[u] = "free"
    /\ state' = [state EXCEPT ![u] = "active"]
    /\ runqueue' = Enqueue(runqueue, u)
    /\ GoTo(u, "entry_null")
    /\ UNCHANGED <<current, ran, tss_rsp0, idle_thread, preempt_cnt, target>>

\* thread_activate by a client that holds a live pointer
ThreadActivate(t, u) ==
    /\ At(t, "run")
    /\ state[u] # "free"
    /\ Activate(u)
    /\ UNCHANGED <<current, ran, tss_rsp0, idle_thread, preempt_cnt, pc, target>>

ThreadExit(t) ==
    /\ t # kthread
    /\ At(t, "run")
    /\ preempt_cnt = 0
    /\ state' = [state EXCEPT ![t] = "finishing"]
    /\ GoTo(t, "exit")
    /\ UNCHANGED <<current, runqueue, ran, tss_rsp0, idle_thread, preempt_cnt,
                   target>>

ThreadExitSched(t) ==
    /\ At(t, "exit")
    /\ ForceSchedule
    /\ UNCHANGED <<idle_thread, preempt_cnt, pc, target>>

\* thread_join(u), called by the one client that will destroy u
ThreadJoin(t, u) ==
    /\ At(t, "run")
    /\ preempt_cnt = 0
    /\ u # t /\ u # kthread
    /\ state[u] # "free"
    /\ \A v \in Thread : target[v] # u
    /\ target' = [target EXCEPT ![t] = u]
    /\ GoTo(t, "join")
    /\ UNCHANGED <<sched_vars, idle_thread, preempt_cnt>>

\* variant: the joiner tests itself
JoinTestSelf(t) ==
    /\ At(t, "join")
    /\ GoTo(t, IF state[t] = "finished" THEN "reap" ELSE "joinsched")
    /\ UNCHANGED <<sched_vars, idle_thread, preempt_cnt, target>>

JoinTest(t) ==
    /\ At(t, "join")
    /\ GoTo(t, IF state[target[t]] = "finished" THEN "reap" ELSE "joinsched")
    /\ UNCHANGED <<sched_vars, idle_thread, preempt_cnt, target>>

JoinSched(t) ==
    /\ At(t, "joinsched")
    /\ ForceSchedule
    /\ GoTo(t, "join")
    /\ UNCHANGED <<idle_thread, preempt_cnt, target>>

\* thread_destroy: the stack and the struct go back to the allocators
ThreadDestroy(t) ==
    /\ At(t, "reap")
    /\ state' = [state EXCEPT ![target[t]] = "free"]
    /\ pc' = [pc EXCEPT ![target[t]] = "none", ![t] = "run"]
    /\ target' = [target EXCEPT ![t] = NoThread]
    /\ UNCHANGED <<current, runqueue, ran, tss_rsp0, idle_thread, preempt_cnt>>

\* variant: the boot thread marks itself idle before it is the idle thread
IdleStartMarked(t) ==
    /\ t = kthread
    /\ At(t, "run")
    /\ idle_thread = NoThread
    /\ preempt_cnt = 0
    /\ state' = [state EXCEPT ![t] = "idle"]
    /\ GoTo(t, "idling")
    /\ UNCHANGED <<current, runqueue, ran, tss_rsp0, idle_thread, preempt_cnt, target>>

\* idle(), in three stretches: an interrupt may come between any two
IdleStart(t) ==
    /\ t = kthread
    /\ At(t, "run")
    /\ idle_thread = NoThread
    /\ preempt_cnt = 0
    /\ idle_thread' = t
    /\ GoTo(t, "idling")
    /\ UNCHANGED <<sched_vars, preempt_cnt, target>>

IdleMark(t) ==
    /\ At(t, "idling")
    /\ state' = [state EXCEPT ![t] = "idle"]
    /\ GoTo(t, "idle")
    /\ UNCHANGED <<current, runqueue, ran, tss_rsp0, idle_thread, preempt_cnt,
                   target>>

IdleSched(t) ==
    /\ At(t, "idle")
    /\ ForceSchedule
    /\ UNCHANGED <<idle_thread, preempt_cnt, pc, target>>

DisablePreempt(t) ==
    /\ At(t, "run")
    /\ preempt_cnt < MaxPreempt
    /\ preempt_cnt' = preempt_cnt + 1
    /\ UNCHANGED <<sched_vars, idle_thread, pc, target>>

EnablePreempt(t) ==
    /\ At(t, "run")
    /\ preempt_cnt > 0
    /\ preempt_cnt' = preempt_cnt - 1
    /\ UNCHANGED <<sched_vars, idle_thread, pc, target>>

\* the two stretches in which mutex_lock and condition_wait go to sleep; the
\* boot thread, that everyone falls back on before idle(), never sleeps
Block(t) ==
    /\ t # kthread
    /\ At(t, "run")
    /\ preempt_cnt = 0
    /\ state' = [state EXCEPT ![t] = "blocked"]
    /\ GoTo(t, "block")
    /\ UNCHANGED <<current, runqueue, ran, tss_rsp0, idle_thread, preempt_cnt,
                   target>>

BlockSched(t) ==
    /\ At(t, "block")
    /\ Schedule(ran)
    /\ GoTo(t, "run")
    /\ UNCHANGED <<idle_thread, preempt_cnt, target>>

\* pit_handler: ++jiffies; schedule()
Timer ==
    /\ pc[current] \notin Halted
    /\ Schedule(IF ran < SLICE THEN ran + 1 ELSE SLICE)
    /\ UNCHANGED <<idle_thread, preempt_cnt, pc, target>>

-----------------------------------------------------------------------------
\* the steps that module Sync shares
ThreadsStep ==
    \/ \E t \in Thread :
          \/ ThreadEntry(t) \/ ThreadEntryNull(t) \/ ThreadAllocFails(t)
          \/ ThreadExit(t) \/ ThreadExitSched(t)
          \/ JoinTest(t) \/ JoinSched(t) \/ ThreadDestroy(t)
          \/ IdleStart(t) \/ IdleMark(t) \/ IdleSched(t)
          \/ DisablePreempt(t) \/ EnablePreempt(t)
          \/ \E u \in Thread :
                ThreadCreate(t, u) \/ Fork(t, u) \/ ThreadJoin(t, u)
    \/ Timer

ThreadsNext ==
    \/ ThreadsStep
    \/ \E t \in Thread :
          \/ Block(t) \/ BlockSched(t)
          \/ \E u \in Thread : ThreadActivate(t, u)

ThreadsSpec == ThreadsInit /\ [][ThreadsNext]_threads_vars

(***************************************************************************)
(* Fairness.  The timer keeps ticking, and a client that keeps disabling   *)
(* preemption does not do so in step with the timer: enable_preempt() does *)
(* not catch up on a tick it has suppressed.  A client that has disabled   *)
(* preemption eventually enables it.  A thread that is put on the CPU over *)
(* and over again gets on with the kernel call it is in: it is given SLICE *)
(* ticks each time, and a step takes far less.  Nothing makes a client     *)
(* call the kernel.                                                        *)
(***************************************************************************)
ThreadsFairness ==
    /\ SF_threads_vars(Timer /\ preempt_cnt = 0)
    /\ WF_threads_vars(\E t \in Thread : EnablePreempt(t))
    /\ SF_threads_vars(\E t \in Thread : EnablePreempt(t) /\ preempt_cnt' = 0)
    /\ \A t \in Thread : SF_threads_vars(JoinTest(t) \/ JoinSched(t))

FairThreads == ThreadsSpec /\ ThreadsFairness

-----------------------------------------------------------------------------
(***************************************************************************)
(* Properties.                                                             *)
(***************************************************************************)
Queued == ToSet(runqueue)

\* Type invariant of the scheduler's variables.
ThreadsTypeOK ==
    /\ current \in Thread
    /\ idle_thread \in {NoThread, kthread}
    /\ runqueue \in Seq(Thread)
    /\ state \in [Thread -> ThreadState]
    /\ ran \in -SLICE .. SLICE
    /\ preempt_cnt \in 0 .. MaxPreempt
    /\ tss_rsp0 \in Thread
    /\ pc \in [Thread -> ThreadPc]
    /\ target \in [Thread -> Thread \cup {NoThread}]

\* The part of it that the scheduler proper touches.
SchedTypeOK ==
    /\ current \in Thread
    /\ idle_thread \in {NoThread, kthread}
    /\ runqueue \in Seq(Thread)
    /\ state \in [Thread -> ThreadState]
    /\ ran \in -SLICE .. SLICE
    /\ tss_rsp0 \in Thread

\* A thread has one list link: it is on the run queue at most once, never
\* while it runs, and only when it is runnable (threads.c:225, 320, 365).
RunqueueSound ==
    /\ IsInjective(runqueue)
    /\ current \notin Queued
    /\ \A t \in Queued : state[t] = "active"

\* A runnable thread is never lost: it runs, it is queued, or it is the one
\* that __schedule falls back on when the queue is empty (threads.c:357, 372).
NoRunnableLost ==
    \A t \in Thread : state[t] = "active" => t \in Queued \cup {current, idle_thread}

\* A thread counts as finished, and may be destroyed by whoever joined it,
\* only once the CPU has left its stack for good (threads.c:219-220, 336-340).
FinishedIsOffCpu ==
    \A t \in Thread :
        state[t] \in {"finished", "free"} => t # current /\ t \notin Queued

\* A thread that marked itself blocked does not return to its client before
\* somebody has activated it: schedule() never falls through (mutex.c:27-31).
ClientsRunActive ==
    pc[current] \in {"entry", "entry_null", "run", "join", "joinsched", "reap"}
        => state[current] = "active"

\* The boot thread is always runnable or idle, and nobody else is ever idle:
\* somebody can always be switched to (threads.c:357, 403-409).
BootThread ==
    /\ state[kthread] \in {"active", "idle"}
    /\ state[kthread] = "idle" => idle_thread = kthread
    /\ \A t \in Thread : state[t] = "idle" => t = kthread

\* the states a thread may be in at each point of its code
StatesAt ==
    [none |-> {"free"}, entry |-> {"blocked", "active"}, entry_null |-> {"active"},
     run |-> {"active", "blocked"}, block |-> {"active", "blocked"},
     exit |-> {"finishing", "finished"}, join |-> {"active"},
     joinsched |-> {"active"}, reap |-> {"active"}, idling |-> {"active"},
     idle |-> {"idle"}, halt |-> {"active"}, fault |-> {"active"}]

\* Which call a thread is in agrees with its scheduling state: a thread that
\* finished did so in thread_exit(), and preemption is only ever disabled in
\* client code (threads.c:327-340, 393).
PcMatchesState ==
    /\ \A t \in Thread : state[t] \in StatesAt[pc[t]]
    /\ preempt_cnt > 0 => pc[current] \in {"run"} \cup Halted
    /\ pc[kthread] \notin {"none", "block", "exit", "entry", "entry_null"}
    /\ \A t \in Thread : idle_thread = t <=> pc[t] \in {"idling", "idle"}

\* A joined thread has one joiner, which finds it finished before it destroys
\* it and never finds it gone (threads.c:304-305, 338).
JoinSound ==
    \A t \in Thread :
        /\ target[t] # NoThread <=> pc[t] \in {"join", "joinsched", "reap"}
        /\ target[t] # NoThread =>
              /\ target[t] \notin {t, kthread}
              /\ state[target[t]] # "free"
              /\ \A u \in Thread : target[u] = target[t] => u = t
        /\ pc[t] = "reap" => state[target[t]] = "finished"

\* The inductive invariant of the scheduler.
SchedInv == RunqueueSound /\ NoRunnableLost /\ FinishedIsOffCpu /\ BootThread
ThreadsInv ==
    /\ ThreadsTypeOK
    /\ SchedInv
    /\ PcMatchesState
    /\ ClientsRunActive
    /\ JoinSound

\* The boot thread gets the CPU back to idle only when no thread at all is
\* runnable (threads.c:357-374).
IdleOnlyWhenNothingRuns ==
    [][current' # current /\ state[current'] = "idle"
         => \A t \in Thread : state'[t] # "active"]_threads_vars

\* While preemption is disabled the CPU does not change hands, whatever
\* interrupts arrive (threads.c:380, 393).
PreemptHolds == [][preempt_cnt > 0 => current' = current]_threads_vars

\* When queue q becomes r each member moves at most one place towards the head, from
\* where it leaves
NobodyOvertakes(q, r) ==
    \A i \in DOMAIN q :
        \/ i = 1 /\ q[1] \notin ToSet(r)
        \/ \E j \in {i - 1, i} : j \in DOMAIN r /\ r[j] = q[i]

\* Nobody overtakes: a queued thread only ever moves one place towards the head,
\* from where it leaves the queue, so at most Len(runqueue) others run before it
\* (threads.c:226, 364).
QueueIsFair == [][NobodyOvertakes(runqueue, runqueue')]_threads_vars

\* the machine has stopped: BUG() or a fault of the thread on the CPU
Stopped == pc[current] \in Halted

\* Every queued thread gets the CPU unless the machine stops; the boot thread may
\* be dropped from the queue once it is the idle thread (threads.c:372).
QueuedRuns ==
    \A t \in Thread : (t \in Queued) ~> (current = t \/ idle_thread = t \/ Stopped)

\* A thread that exits is finished and off its stack some day (threads.c:332).
ExitingFinishes ==
    \A t \in Thread : (state[t] = "finishing") ~> (state[t] = "finished" \/ Stopped)

\* thread_join() on a thread that has finished returns (threads.c:338-339).
JoinReturns ==
    \A t \in Thread :
        (pc[t] \in {"join", "joinsched"} /\ state[target[t]] = "finished")
            ~> (pc[t] = "reap" \/ Stopped)
=============================================================================
