------------------------------- MODULE Monitor -------------------------------
(***************************************************************************)
(* What mutex.h and condition.h promise to their clients, with no          *)
(* scheduler, no thread states and no interrupts: a mutex has one owner    *)
(* and passes from owner to owner in the order of the requests, a wait     *)
(* releases the mutex and falls asleep in one step, a signal wakes the     *)
(* longest sleeper, a broadcast wakes all.                                 *)
(***************************************************************************)
EXTENDS Naturals, Sequences

CONSTANTS Thread, NoThread, Mutex, NoMutex, Cond

VARIABLES
    owner,     \* owner[m], NoThread if m is free
    lockers,   \* lockers[m]: who is waiting for m, first come first
    sleepers,  \* sleepers[c]: who is waiting for a signal on c
    retake     \* the mutex that each sleeping or woken thread will take again

monitor_vars == <<owner, lockers, sleepers, retake>>

MonitorInit ==
    /\ owner = [m \in Mutex |-> NoThread]
    /\ lockers = [m \in Mutex |-> <<>>]
    /\ sleepers = [c \in Cond |-> <<>>]
    /\ retake = [t \in Thread |-> NoMutex]

InSeq(t, s) == \E i \in 1 .. Len(s) : s[i] = t

\* free to ask for m: not asking already, and either awake or just woken
MayAsk(t, m) ==
    /\ owner[m] # t
    /\ \A n \in Mutex : ~InSeq(t, lockers[n])
    /\ \A c \in Cond : ~InSeq(t, sleepers[c])
    /\ retake[t] \in {NoMutex, m}

Acquire(t, m) ==
    /\ MayAsk(t, m)
    /\ owner[m] = NoThread
    /\ owner' = [owner EXCEPT ![m] = t]
    /\ retake' = [retake EXCEPT ![t] = NoMutex]
    /\ UNCHANGED <<lockers, sleepers>>

Ask(t, m) ==
    /\ MayAsk(t, m)
    /\ owner[m] # NoThread
    /\ lockers' = [lockers EXCEPT ![m] = Append(@, t)]
    /\ retake' = [retake EXCEPT ![t] = NoMutex]
    /\ UNCHANGED <<owner, sleepers>>

\* m passes to the one that has waited longest
PassOn(m) ==
    IF lockers[m] = <<>>
      THEN owner' = [owner EXCEPT ![m] = NoThread] /\ UNCHANGED lockers
      ELSE /\ owner' = [owner EXCEPT ![m] = Head(lockers[m])]
           /\ lockers' = [lockers EXCEPT ![m] = Tail(@)]

Release(t, m) ==
    /\ owner[m] = t
    /\ PassOn(m)
    /\ UNCHANGED <<sleepers, retake>>

Wait(t, c, m) ==
    /\ owner[m] = t
    /\ PassOn(m)
    /\ sleepers' = [sleepers EXCEPT ![c] = Append(@, t)]
    /\ retake' = [retake EXCEPT ![t] = m]

WakeOne(c) ==
    /\ sleepers[c] # <<>>
    /\ sleepers' = [sleepers EXCEPT ![c] = Tail(@)]
    /\ UNCHANGED <<owner, lockers, retake>>

WakeAll(c) ==
    /\ sleepers' = [sleepers EXCEPT ![c] = <<>>]
    /\ UNCHANGED <<owner, lockers, retake>>

MonitorNext ==
    \/ \E t \in Thread, m \in Mutex :
          \/ Acquire(t, m) \/ Ask(t, m) \/ Release(t, m)
          \/ \E c \in Cond : Wait(t, c, m)
    \/ \E c \in Cond : WakeOne(c) \/ WakeAll(c)

MonitorSpec == MonitorInit /\ [][MonitorNext]_monitor_vars
=============================================================================
