----------------------------- MODULE SyncProofs -----------------------------
(***************************************************************************)
(* Proofs about modules Threads and Sync, for every number of threads,     *)
(* mutexes and condition variables, every slice and every nesting of       *)
(* disable_preempt(): first the scheduler by itself, then with the calls   *)
(* that sleep.                                                             *)
(***************************************************************************)
EXTENDS Sync, QueueLemmas

USE ThreadsAssumption

-----------------------------------------------------------------------------
\* Whom __schedule may pick (threads.c:357-367): a runnable thread from the
\* head of the queue, or the idle thread when the queue is empty.
LEMMA NextThreadIs ==
    ASSUME SchedTypeOK, SchedInv
    PROVE  /\ RestOfQueue \in Seq(Thread)
           /\ IsInjective(RestOfQueue)
           /\ \/ /\ runqueue = <<>>
                 /\ NextThread = idle_thread
                 /\ RestOfQueue = <<>>
                 /\ Queued = {}
              \/ /\ NextThread \in Queued
                 /\ NextThread \in Thread
                 /\ ToSet(RestOfQueue) = Queued \ {NextThread}
<1>1. runqueue \in Seq(Thread) /\ IsInjective(runqueue)
  BY DEF SchedTypeOK, SchedInv, RunqueueSound
<1>2. CASE runqueue = <<>>
  BY <1>2, EmptyQueue DEF NextThread, RestOfQueue, Queued
<1>3. CASE runqueue # <<>>
  <2>1. NextThread = Head(runqueue) /\ RestOfQueue = Tail(runqueue)
    BY <1>3 DEF NextThread, RestOfQueue
  <2> QED
    BY <1>1, <1>3, <2>1, PopQueue DEF Queued
<1> QED
  BY <1>2, <1>3

\* place_thread keeps the scheduler's invariant when it is given the thread
\* that __schedule picked (threads.c:215-231).
LEMMA PlaceThreadKeeps ==
    ASSUME SchedTypeOK, SchedInv,
           SwitchesTo(NextThread),
           PlaceThread(NextThread, RestOfQueue),
           idle_thread' = idle_thread
    PROVE  SchedTypeOK' /\ SchedInv'
<1> USE DEF SchedTypeOK, SchedInv
<1> DEFINE n == NextThread
           rest == RestOfQueue
<1>1. /\ rest \in Seq(Thread)
      /\ IsInjective(rest)
      /\ \/ /\ n = idle_thread
            /\ rest = <<>>
            /\ Queued = {}
            /\ ToSet(rest) = {}
         \/ n \in Queued /\ ToSet(rest) = Queued \ {n}
  BY NextThreadIs, EmptyQueue
<1>2. n \in Thread /\ n # current
  BY <1>1, NextThreadIs DEF SwitchesTo, RunqueueSound
<1>3. /\ state' = [state EXCEPT ![current] = LeftAs(state[current])]
      /\ current' = n /\ ran' = 0 /\ tss_rsp0' = current
      /\ runqueue' = IF state[current] = "active" THEN Append(rest, current) ELSE rest
  BY DEF PlaceThread, Enqueue
<1>4. current \notin ToSet(rest) /\ n \notin ToSet(rest) /\ ToSet(rest) \subseteq Queued
  BY <1>1 DEF RunqueueSound
<1>5. /\ runqueue' \in Seq(Thread)
      /\ IsInjective(runqueue')
      /\ Queued' = IF state[current] = "active" THEN ToSet(rest) \cup {current} ELSE ToSet(rest)
  <2>1. /\ Append(rest, current) \in Seq(Thread)
        /\ IsInjective(Append(rest, current))
        /\ ToSet(Append(rest, current)) = ToSet(rest) \cup {current}
    BY <1>1, <1>4, AppendQueue
  <2>2. CASE state[current] = "active"
    BY <1>3, <2>1, <2>2 DEF Queued
  <2>3. CASE state[current] # "active"
    BY <1>1, <1>3, <2>3 DEF Queued
  <2> QED
    BY <2>2, <2>3
<1>6. LeftAs(state[current]) \in ThreadState
  BY DEF LeftAs, ThreadState
<1>7. /\ state' \in [Thread -> ThreadState]
      /\ \A t \in Thread : t # current => state'[t] = state[t]
      /\ state'[current] = LeftAs(state[current])
  BY <1>3, <1>6
<1>8. SchedTypeOK'
  BY <1>2, <1>3, <1>5, <1>7
<1>9. state[n] \in {"active", "idle"}
  BY <1>1, <1>2 DEF RunqueueSound, BootThread, SwitchesTo
<1>10. RunqueueSound'
  BY <1>2, <1>3, <1>4, <1>5, <1>7 DEF RunqueueSound, LeftAs
<1>11. NoRunnableLost'
  <2> SUFFICES ASSUME NEW t \in Thread, state'[t] = "active"
               PROVE  t \in Queued' \cup {current', idle_thread'}
    BY DEF NoRunnableLost
  <2>1. CASE t = current
    BY <1>5, <1>7, <2>1 DEF LeftAs
  <2>2. CASE t # current
    <3>1. t \in Queued \cup {idle_thread}
      BY <1>7, <2>2 DEF NoRunnableLost
    <3> QED
      BY <1>1, <1>3, <1>5, <3>1
  <2> QED
    BY <2>1, <2>2
<1>12. FinishedIsOffCpu'
  <2> SUFFICES ASSUME NEW t \in Thread, state'[t] \in {"finished", "free"}
               PROVE  t # n /\ t \notin Queued'
    BY <1>3 DEF FinishedIsOffCpu
  <2>1. t # n
    BY <1>2, <1>7, <1>9
  <2>2. t \notin Queued'
    BY <1>10 DEF RunqueueSound
  <2> QED
    BY <2>1, <2>2
<1>13. BootThread'
  BY <1>3, <1>7 DEF BootThread, LeftAs
<1> QED
  BY <1>8, <1>10, <1>11, <1>12, <1>13

\* A pass through __schedule that does not switch leaves everything in place,
\* except that a queued idle thread may have been dropped (threads.c:355-376).
LEMMA NoSwitchKeeps ==
    ASSUME SchedTypeOK, SchedInv,
           ~SwitchesTo(NextThread),
           runqueue' = RestOfQueue,
           UNCHANGED <<current, idle_thread, state, tss_rsp0>>,
           ran' \in -SLICE .. SLICE
    PROVE  SchedTypeOK' /\ SchedInv'
<1> USE DEF SchedTypeOK, SchedInv
<1>1. /\ RestOfQueue \in Seq(Thread)
      /\ IsInjective(RestOfQueue)
      /\ Queued' \subseteq Queued
      /\ Queued \subseteq Queued' \cup {idle_thread}
  <2>1. CASE runqueue = <<>>
    BY <2>1, NextThreadIs, EmptyQueue DEF Queued, RestOfQueue
  <2>2. CASE runqueue # <<>>
    <3>1. NextThread \in Queued /\ NextThread \in Thread /\ ToSet(RestOfQueue) = Queued \ {NextThread}
      BY <2>2, NextThreadIs
    <3>2. NextThread = idle_thread
      BY <3>1 DEF SwitchesTo, RunqueueSound
    <3> QED
      BY <3>1, <3>2, NextThreadIs DEF Queued
  <2> QED
    BY <2>1, <2>2
<1>2. SchedTypeOK'
  BY <1>1
<1>3. RunqueueSound'
  BY <1>1 DEF RunqueueSound
<1>4. NoRunnableLost'
  BY <1>1 DEF NoRunnableLost
<1>5. FinishedIsOffCpu'
  BY <1>1 DEF FinishedIsOffCpu
<1>6. BootThread'
  BY DEF BootThread
<1> QED
  BY <1>2, <1>3, <1>4, <1>5, <1>6

\* __schedule keeps the scheduler's invariant (threads.c:353-376).
LEMMA DoScheduleKeeps ==
    ASSUME SchedTypeOK, SchedInv,
           NEW force \in BOOLEAN, NEW r \in -SLICE .. SLICE,
           DoSchedule(force, r),
           idle_thread' = idle_thread
    PROVE  SchedTypeOK' /\ SchedInv'
<1>1. CASE KeepsSlice(force, r)
  <2>1. ran' = r /\ UNCHANGED <<current, runqueue, state, tss_rsp0, idle_thread>>
    BY <1>1 DEF DoSchedule
  <2> QED
    BY <2>1 DEF SchedTypeOK, SchedInv, RunqueueSound, NoRunnableLost,
                FinishedIsOffCpu, BootThread, Queued
<1>2. CASE ~KeepsSlice(force, r) /\ SwitchesTo(NextThread)
  <2>1. PlaceThread(NextThread, RestOfQueue)
    BY <1>2 DEF DoSchedule
  <2> QED
    BY <1>2, <2>1, PlaceThreadKeeps
<1>3. CASE ~KeepsSlice(force, r) /\ ~SwitchesTo(NextThread)
  <2>1. /\ runqueue' = RestOfQueue
        /\ UNCHANGED <<current, idle_thread, state, tss_rsp0>>
        /\ ran' \in -SLICE .. SLICE
    BY <1>3 DEF DoSchedule
  <2> QED
    BY <1>3, <2>1, NoSwitchKeeps
<1> QED
  BY <1>1, <1>2, <1>3

-----------------------------------------------------------------------------
\* A thread other than the boot thread that is no longer runnable is always
\* switched away from: __schedule finds somebody (threads.c:362-375).
LEMMA GivesUpCpu ==
    ASSUME SchedTypeOK, SchedInv, current # kthread, state[current] # "active"
    PROVE  SwitchesTo(NextThread)
<1> USE DEF SchedTypeOK, SchedInv
<1>1. CASE NextThread \in Queued /\ NextThread \in Thread
  BY <1>1 DEF SwitchesTo, RunqueueSound
<1>2. CASE NextThread = idle_thread /\ Queued = {}
  <2>1. idle_thread = kthread
    <3>1. state[kthread] = "active" => kthread \in Queued \cup {current, idle_thread}
      BY DEF NoRunnableLost
    <3> QED
      BY <1>2, <3>1 DEF BootThread
  <2> QED
    BY <1>2, <2>1 DEF SwitchesTo
<1> QED
  BY <1>1, <1>2, NextThreadIs

\* What __schedule does to the states of threads: only the thread that is
\* switched away from changes, and the one that gets the CPU is runnable or
\* idle (threads.c:219-220, 353-376).
LEMMA DoScheduleMoves ==
    ASSUME SchedTypeOK, SchedInv,
           NEW force, NEW r,
           DoSchedule(force, r)
    PROVE  /\ state' \in [Thread -> ThreadState]
           /\ \A t \in Thread : t # current => state'[t] = state[t]
           /\ state'[current] = IF current' = current THEN state[current]
                                                    ELSE LeftAs(state[current])
           /\ current' # current => state'[current'] \in {"active", "idle"}
           /\ current' = current /\ current # kthread => state[current] = "active"
<1> USE DEF SchedTypeOK, SchedInv
<1>1. CASE UNCHANGED <<current, state>>
  <2>1. current # kthread => state[current] = "active"
    BY <1>1, GivesUpCpu DEF DoSchedule, KeepsSlice, PlaceThread, SwitchesTo
  <2> QED
    BY <1>1, <2>1
<1>2. CASE SwitchesTo(NextThread) /\ PlaceThread(NextThread, RestOfQueue)
  <2>1. /\ current' = NextThread
        /\ NextThread # current
        /\ state' = [state EXCEPT ![current] = LeftAs(state[current])]
    BY <1>2 DEF PlaceThread, SwitchesTo
  <2>2. NextThread \in Thread /\ state[NextThread] \in {"active", "idle"}
    BY <1>2, NextThreadIs DEF SwitchesTo, RunqueueSound, BootThread
  <2>3. LeftAs(state[current]) \in ThreadState
    BY DEF LeftAs, ThreadState
  <2> QED
    BY <2>1, <2>2, <2>3
<1> QED
  BY <1>1, <1>2 DEF DoSchedule

\* thread_activate keeps the scheduler's invariant when its caller is runnable
\* (threads.c:317-325).
LEMMA ActivateKeeps ==
    ASSUME SchedTypeOK, SchedInv, state[current] = "active",
           NEW u \in Thread, Activate(u),
           UNCHANGED <<current, idle_thread, ran, tss_rsp0>>
    PROVE  SchedTypeOK' /\ SchedInv'
<1> USE DEF SchedTypeOK, SchedInv
<1>1. CASE state[u] = "blocked"
  <2>1. u # current /\ u \notin Queued
    BY <1>1 DEF RunqueueSound
  <2>2. state' = [state EXCEPT ![u] = "active"] /\ runqueue' = Append(runqueue, u)
    BY <1>1 DEF Activate, ActivateIn, Enqueue
  <2>3. runqueue' \in Seq(Thread) /\ IsInjective(runqueue') /\ Queued' = Queued \cup {u}
    BY <2>1, <2>2, AppendQueue DEF Queued, RunqueueSound
  <2>4. SchedTypeOK'
    BY <2>2, <2>3 DEF ThreadState
  <2>5. RunqueueSound'
    BY <2>1, <2>2, <2>3 DEF RunqueueSound
  <2>6. NoRunnableLost'
    BY <2>2, <2>3 DEF NoRunnableLost
  <2>7. FinishedIsOffCpu'
    BY <1>1, <2>2, <2>3 DEF FinishedIsOffCpu
  <2>8. BootThread'
    BY <1>1, <2>2 DEF BootThread
  <2> QED
    BY <2>4, <2>5, <2>6, <2>7, <2>8
<1>2. CASE state[u] # "blocked"
  <2>1. UNCHANGED <<current, idle_thread, ran, tss_rsp0, state, runqueue>>
    BY <1>2 DEF Activate, ActivateIn
  <2> QED
    BY <2>1 DEF RunqueueSound, NoRunnableLost, FinishedIsOffCpu, BootThread, Queued
<1> QED
  BY <1>1, <1>2

-----------------------------------------------------------------------------
\* A stretch of code that passes through __schedule, at any of the points the
\* code has one, keeps the whole invariant.
LEMMA ScheduleStep ==
    ASSUME ThreadsInv, preempt_cnt = 0,
           NEW force \in BOOLEAN, NEW r \in -SLICE .. SLICE,
           DoSchedule(force, r),
           NEW l, l = pc[current] \/ <<pc[current], l>> \in {<<"joinsched", "join">>, <<"block", "run">>},
           GoTo(current, l),
           UNCHANGED <<idle_thread, preempt_cnt, target>>
    PROVE  ThreadsInv'
<1>1. SchedTypeOK /\ SchedInv
  BY DEF ThreadsInv, ThreadsTypeOK, SchedTypeOK
<1>2. SchedTypeOK' /\ SchedInv'
  BY <1>1, DoScheduleKeeps
<1> DEFINE s == state[current]
<1>3. /\ \A t \in Thread : t # current => state'[t] = state[t]
      /\ state'[current] \in {s, LeftAs(s)}
  BY <1>1, DoScheduleMoves
<1>4. /\ current \in Thread
      /\ pc \in [Thread -> ThreadPc]
      /\ pc' = [pc EXCEPT ![current] = l]
      /\ l \in ThreadPc
      /\ s \in StatesAt[pc[current]]
  BY DEF ThreadsInv, ThreadsTypeOK, PcMatchesState, GoTo, ThreadPc
<1>5. ThreadsTypeOK'
  BY <1>2, <1>4 DEF ThreadsInv, ThreadsTypeOK, SchedTypeOK
<1>6. {s, LeftAs(s)} \subseteq StatesAt[l]
  BY <1>4 DEF StatesAt, LeftAs, ThreadPc
<1>7. PcMatchesState'
  BY <1>2, <1>3, <1>4, <1>6 DEF ThreadsInv, PcMatchesState
<1>8. s # "finished" /\ s # "free"
  BY <1>1, <1>4 DEF SchedInv, FinishedIsOffCpu
<1>9. \A t \in Thread : /\ state[t] = "finished" => state'[t] = "finished"
                        /\ state[t] # "free" => state'[t] # "free"
  BY <1>3, <1>8 DEF LeftAs
<1>10. JoinSound'
  BY <1>4, <1>9 DEF ThreadsInv, JoinSound, ThreadsTypeOK
<1>11. ClientsRunActive'
  <2>1. /\ current' # current => state'[current'] \in {"active", "idle"}
        /\ current' = current => state' = state
        /\ current' = current /\ current # kthread => state[current] = "active"
    BY <1>1, <1>3, DoScheduleMoves DEF DoSchedule, PlaceThread, SwitchesTo
  <2>2. state'[current'] \in {"active", "idle"}
    BY <2>1, <1>1 DEF SchedInv, BootThread
  <2>3. current' \in Thread /\ state'[current'] \in StatesAt[pc'[current']]
    BY <1>5, <1>7 DEF ThreadsTypeOK, PcMatchesState
  <2> QED
    BY <2>2, <2>3 DEF ClientsRunActive, StatesAt
<1> QED
  BY <1>2, <1>5, <1>7, <1>10, <1>11 DEF ThreadsInv

\* A step in which the running thread only moves to another point of its code.
LEMMA MoveStep ==
    ASSUME ThreadsInv, NEW l,
           \/ l \in Halted /\ state[current] = "active" /\ target[current] = NoThread
           \/ /\ preempt_cnt = 0
              /\ <<pc[current], l>> \in {<<"entry", "run">>, <<"join", "joinsched">>}
           \/ /\ preempt_cnt = 0
              /\ <<pc[current], l>> = <<"join", "reap">>
              /\ state[target[current]] = "finished",
           pc[current] # "idling",
           GoTo(current, l),
           UNCHANGED <<sched_vars, idle_thread, preempt_cnt, target>>
    PROVE  ThreadsInv'
<1> USE DEF sched_vars, ThreadsInv
<1>1. /\ current \in Thread /\ pc \in [Thread -> ThreadPc]
      /\ pc' = [pc EXCEPT ![current] = l]
      /\ l \in ThreadPc
  BY DEF ThreadsTypeOK, GoTo, ThreadPc, Halted
<1>2. ThreadsTypeOK'
  BY <1>1 DEF ThreadsTypeOK
<1>3. SchedInv'
  BY DEF SchedInv, RunqueueSound, NoRunnableLost, FinishedIsOffCpu, BootThread, Queued
<1>4. state[current] \in StatesAt[pc[current]]
  BY <1>1 DEF PcMatchesState
<1>5. state[current] \in StatesAt[l]
  <2>1. state[current] \in {"active", "blocked"} => state[current] \in StatesAt["run"]
    BY DEF StatesAt
  <2> QED
    BY <1>4, <2>1 DEF StatesAt, Halted
<1>6. PcMatchesState'
  BY <1>1, <1>5 DEF PcMatchesState, Halted, StatesAt, SchedInv, BootThread
<1>7. JoinSound'
  BY <1>1 DEF JoinSound, Halted, ThreadsTypeOK
<1>8. ClientsRunActive'
  BY <1>1 DEF ClientsRunActive, Halted
<1> QED
  BY <1>2, <1>3, <1>6, <1>7, <1>8

-----------------------------------------------------------------------------
LEMMA ThreadsInitInv == ThreadsInit => ThreadsInv
<1> SUFFICES ASSUME ThreadsInit
             PROVE  ThreadsInv
  OBVIOUS
<1> USE DEF ThreadsInit
<1>1. ThreadsTypeOK
  BY EmptyQueue DEF ThreadsTypeOK, ThreadState, ThreadPc
<1>2. SchedInv
  BY EmptyQueue DEF SchedInv, RunqueueSound, NoRunnableLost, FinishedIsOffCpu,
                    BootThread, Queued
<1>3. PcMatchesState
  BY DEF PcMatchesState, StatesAt
<1>4. ClientsRunActive /\ JoinSound
  BY DEF ClientsRunActive, JoinSound
<1> QED
  BY <1>1, <1>2, <1>3, <1>4 DEF ThreadsInv

\* A free slot is nobody's: not the boot thread's, not on the CPU, not queued.
LEMMA FreeSlot ==
    ASSUME ThreadsTypeOK, SchedInv, PcMatchesState, NEW u \in Thread, state[u] = "free"
    PROVE  u # current /\ u \notin Queued /\ u # kthread /\ pc[u] = "none"
<1>1. u # current /\ u \notin Queued
  BY DEF SchedInv, FinishedIsOffCpu
<1>2. u # kthread
  BY DEF SchedInv, BootThread
<1>3. pc[u] \in ThreadPc /\ state[u] \in StatesAt[pc[u]]
  BY DEF ThreadsTypeOK, PcMatchesState
<1>4. pc[u] = "none"
  BY <1>3 DEF ThreadPc, StatesAt
<1> QED
  BY <1>1, <1>2, <1>4

\* Every step that modules Threads and Sync share keeps the scheduler's invariant,
\* whatever else the threads are doing: of their points only two matter.
LEMMA StepKeepsSched ==
    ASSUME SchedTypeOK, SchedInv, ThreadsStep,
           pc[current] = "reap" => /\ target[current] \in Thread
                                   /\ state[target[current]] = "finished",
           pc[current] = "idling" => idle_thread = current
    PROVE  SchedTypeOK' /\ SchedInv'
<1> USE DEF At, SchedTypeOK, SchedInv
<1>1. ASSUME UNCHANGED <<sched_vars, idle_thread>>
      PROVE  SchedTypeOK' /\ SchedInv'
  BY <1>1 DEF sched_vars, RunqueueSound, NoRunnableLost, FinishedIsOffCpu, BootThread, Queued
<1>2. ASSUME NEW force \in BOOLEAN, NEW r \in -SLICE .. SLICE, DoSchedule(force, r),
             idle_thread' = idle_thread
      PROVE  SchedTypeOK' /\ SchedInv'
  BY <1>2, DoScheduleKeeps
<1>3. CASE \E t \in Thread :
             \/ ThreadEntry(t) \/ ThreadEntryNull(t) \/ ThreadAllocFails(t) \/ JoinTest(t)
             \/ DisablePreempt(t) \/ EnablePreempt(t)
             \/ \E u \in Thread : ThreadJoin(t, u)
  BY <1>1, <1>3 DEF ThreadEntry, ThreadEntryNull, ThreadAllocFails, JoinTest,
                    DisablePreempt, EnablePreempt, ThreadJoin
<1>4. CASE \E t \in Thread : ThreadExitSched(t) \/ JoinSched(t) \/ IdleSched(t)
  BY <1>2, <1>4 DEF ThreadExitSched, JoinSched, IdleSched, ForceSchedule
<1>5. CASE Timer
  <2> DEFINE r == IF ran < SLICE THEN ran + 1 ELSE SLICE
  <2>1. r \in -SLICE .. SLICE
    OBVIOUS
  <2>2. CASE preempt_cnt # 0
    BY <1>5, <2>1, <2>2 DEF Timer, Schedule, RunqueueSound, NoRunnableLost,
                            FinishedIsOffCpu, BootThread, Queued
  <2>3. CASE preempt_cnt = 0
    BY <1>2, <1>5, <2>1, <2>3 DEF Timer, Schedule
  <2> QED
    BY <2>2, <2>3
<1>6. CASE \E t \in Thread : ThreadExit(t)
  <2>1. /\ current # kthread /\ current \notin Queued
        /\ state' = [state EXCEPT ![current] = "finishing"]
        /\ UNCHANGED <<current, idle_thread, runqueue, ran, tss_rsp0>>
    BY <1>6 DEF ThreadExit, RunqueueSound
  <2> QED
    BY <2>1 DEF ThreadState, RunqueueSound, NoRunnableLost, FinishedIsOffCpu, BootThread, Queued
<1>7. CASE \E t \in Thread : ThreadDestroy(t)
  <2> DEFINE u == target[current]
  <2>1. /\ u \in Thread /\ u # current /\ u # kthread /\ u \notin Queued
        /\ state' = [state EXCEPT ![u] = "free"]
        /\ state[u] = "finished"
        /\ UNCHANGED <<current, idle_thread, runqueue, ran, tss_rsp0>>
    BY <1>7 DEF ThreadDestroy, FinishedIsOffCpu, BootThread
  <2> QED
    BY <2>1 DEF ThreadState, RunqueueSound, NoRunnableLost, FinishedIsOffCpu, BootThread, Queued
<1>8. CASE \E t \in Thread : IdleStart(t)
  BY <1>8 DEF IdleStart, sched_vars, RunqueueSound, NoRunnableLost, FinishedIsOffCpu,
              BootThread, Queued
<1>9. CASE \E t \in Thread : IdleMark(t)
  <2>1. /\ current = kthread /\ idle_thread = kthread /\ current \notin Queued
        /\ state' = [state EXCEPT ![current] = "idle"]
        /\ UNCHANGED <<current, idle_thread, runqueue, ran, tss_rsp0>>
    BY <1>9 DEF IdleMark, RunqueueSound
  <2> QED
    BY <2>1 DEF ThreadState, RunqueueSound, NoRunnableLost, FinishedIsOffCpu, BootThread, Queued
<1>10. CASE \E t, u \in Thread : ThreadCreate(t, u)
  <2> PICK u \in Thread : \E t \in Thread : ThreadCreate(t, u)
    BY <1>10
  <2>1. /\ u # current /\ u \notin Queued /\ u # kthread
        /\ state' = [state EXCEPT ![u] = "blocked"]
        /\ UNCHANGED <<current, idle_thread, runqueue, ran, tss_rsp0>>
    BY DEF ThreadCreate, FinishedIsOffCpu, BootThread
  <2> QED
    BY <2>1 DEF ThreadState, RunqueueSound, NoRunnableLost, FinishedIsOffCpu, BootThread, Queued
<1>11. CASE \E t, u \in Thread : Fork(t, u)
  <2> PICK u \in Thread : \E t \in Thread : Fork(t, u)
    BY <1>11
  <2>1. /\ u # current /\ u \notin Queued /\ u # kthread
        /\ state' = [state EXCEPT ![u] = "active"] /\ runqueue' = Append(runqueue, u)
        /\ UNCHANGED <<current, idle_thread, ran, tss_rsp0>>
    BY DEF Fork, Enqueue, FinishedIsOffCpu, BootThread
  <2>2. runqueue' \in Seq(Thread) /\ IsInjective(runqueue') /\ Queued' = Queued \cup {u}
    BY <2>1, AppendQueue DEF Queued, RunqueueSound
  <2> QED
    BY <2>1, <2>2 DEF ThreadState, RunqueueSound, NoRunnableLost, FinishedIsOffCpu, BootThread
<1> QED
  BY <1>3, <1>4, <1>5, <1>6, <1>7, <1>8, <1>9, <1>10, <1>11 DEF ThreadsStep

\* Every step of the kernel that modules Threads and Sync share keeps the
\* invariant.
LEMMA ThreadsStepInv == ThreadsInv /\ ThreadsStep => ThreadsInv'
<1> SUFFICES ASSUME ThreadsInv, ThreadsStep
             PROVE  ThreadsInv'
  OBVIOUS
<1> USE DEF At, GoTo
<1>0. /\ ThreadsTypeOK /\ SchedTypeOK /\ SchedInv /\ PcMatchesState /\ ClientsRunActive /\ JoinSound
      /\ state[current] \in StatesAt[pc[current]]
      /\ pc[current] \in {"run"} \cup Halted \/ preempt_cnt = 0
  BY DEF ThreadsInv, ThreadsTypeOK, SchedTypeOK, PcMatchesState
<1>s. SchedInv'
  <2>1. pc[current] = "reap" => target[current] \in Thread /\ state[target[current]] = "finished"
    BY <1>0 DEF JoinSound, ThreadsTypeOK
  <2>2. pc[current] = "idling" => idle_thread = current
    BY <1>0 DEF PcMatchesState, ThreadsTypeOK
  <2> QED
    BY <1>0, <2>1, <2>2, StepKeepsSched
<1>1. ASSUME NEW t \in Thread, ThreadEntry(t)
      PROVE  ThreadsInv'
  BY <1>0, <1>1, MoveStep DEF ThreadEntry, Halted
<1>2. ASSUME NEW t \in Thread, ThreadEntryNull(t)
      PROVE  ThreadsInv'
  BY <1>0, <1>2, MoveStep DEF ThreadEntryNull, ClientsRunActive, JoinSound, Halted
<1>3. ASSUME NEW t \in Thread, ThreadAllocFails(t)
      PROVE  ThreadsInv'
  BY <1>0, <1>3, MoveStep DEF ThreadAllocFails, ClientsRunActive, JoinSound, Halted
<1>4. ASSUME NEW t \in Thread, ThreadExitSched(t)
      PROVE  ThreadsInv'
  <2>1. pc' = [pc EXCEPT ![current] = pc[current]]
    BY <1>0, <1>4 DEF ThreadExitSched, ThreadsTypeOK
  <2>2. ran \in -SLICE .. SLICE
    BY <1>0 DEF ThreadsTypeOK
  <2> QED
    BY <1>4, <2>1, <2>2, ScheduleStep DEF ThreadExitSched, ForceSchedule
<1>5. ASSUME NEW t \in Thread, JoinTest(t)
      PROVE  ThreadsInv'
  BY <1>0, <1>5, MoveStep DEF JoinTest, Halted
<1>6. ASSUME NEW t \in Thread, JoinSched(t)
      PROVE  ThreadsInv'
  <2>1. ran \in -SLICE .. SLICE
    BY <1>0 DEF ThreadsTypeOK
  <2> QED
    BY <1>6, <2>1, ScheduleStep DEF JoinSched, ForceSchedule
<1>7. ASSUME NEW t \in Thread, IdleSched(t)
      PROVE  ThreadsInv'
  <2>1. pc' = [pc EXCEPT ![current] = pc[current]]
    BY <1>0, <1>7 DEF IdleSched, ThreadsTypeOK
  <2>2. ran \in -SLICE .. SLICE
    BY <1>0 DEF ThreadsTypeOK
  <2> QED
    BY <1>7, <2>1, <2>2, ScheduleStep DEF IdleSched, ForceSchedule
<1>8. ASSUME NEW t \in Thread, ThreadExit(t)
      PROVE  ThreadsInv'
  <2> USE <1>8 DEF ThreadExit
  <2>1. /\ state' = [state EXCEPT ![current] = "finishing"]
        /\ pc' = [pc EXCEPT ![current] = "exit"]
        /\ current \notin Queued /\ state[current] = "active"
    BY <1>0 DEF SchedInv, RunqueueSound, ClientsRunActive
  <2>2. ThreadsTypeOK'
    BY <1>0, <2>1 DEF ThreadsTypeOK, ThreadState, ThreadPc
  <2>3. SchedInv'
    BY <1>s
  <2>4. PcMatchesState' /\ ClientsRunActive'
    BY <1>0, <2>1 DEF ThreadsTypeOK, PcMatchesState, ClientsRunActive, StatesAt
  <2>5. JoinSound'
    BY <1>0, <2>1 DEF ThreadsTypeOK, JoinSound
  <2> QED
    BY <2>2, <2>3, <2>4, <2>5 DEF ThreadsInv
<1>9. ASSUME NEW t \in Thread, ThreadDestroy(t)
      PROVE  ThreadsInv'
  <2> USE <1>9 DEF ThreadDestroy
  <2> DEFINE u == target[t]
  <2>1. /\ u \in Thread /\ u # t /\ u # kthread /\ u # current
        /\ state[u] = "finished" /\ state[t] = "active" /\ u \notin Queued
        /\ \A v \in Thread : target[v] = u => v = t
        /\ target[u] = NoThread
    BY <1>0 DEF ThreadsTypeOK, JoinSound, PcMatchesState, StatesAt, SchedInv, FinishedIsOffCpu
  <2>2. /\ state' = [state EXCEPT ![u] = "free"]
        /\ pc' = [pc EXCEPT ![u] = "none", ![t] = "run"]
        /\ target' = [target EXCEPT ![t] = NoThread]
        /\ preempt_cnt = 0
    BY <1>0 DEF PcMatchesState, Halted, ThreadsTypeOK
  <2>3. ThreadsTypeOK'
    BY <1>0, <2>1, <2>2 DEF ThreadsTypeOK, ThreadState, ThreadPc
  <2>4. SchedInv'
    BY <1>s
  <2>5. PcMatchesState' /\ ClientsRunActive'
    BY <1>0, <2>1, <2>2 DEF ThreadsTypeOK, PcMatchesState, ClientsRunActive, StatesAt
  <2>6. JoinSound'
    BY <1>0, <2>1, <2>2 DEF ThreadsTypeOK, JoinSound
  <2> QED
    BY <2>3, <2>4, <2>5, <2>6 DEF ThreadsInv
<1>10. ASSUME NEW t \in Thread, IdleStart(t)
       PROVE  ThreadsInv'
  <2> USE <1>10 DEF IdleStart, sched_vars
  <2>1. ThreadsTypeOK'
    BY <1>0 DEF ThreadsTypeOK, ThreadPc
  <2>2. SchedInv'
    BY <1>s
  <2>3. PcMatchesState' /\ ClientsRunActive' /\ JoinSound'
    BY <1>0 DEF ThreadsTypeOK, PcMatchesState, ClientsRunActive, JoinSound, StatesAt
  <2> QED
    BY <2>1, <2>2, <2>3 DEF ThreadsInv
<1>11. ASSUME NEW t \in Thread, IdleMark(t)
       PROVE  ThreadsInv'
  <2> USE <1>11 DEF IdleMark
  <2>0. /\ state[t] = "active" /\ t \notin Queued /\ preempt_cnt = 0
        /\ t = kthread /\ idle_thread = kthread
    <3>1. t \notin Queued /\ preempt_cnt = 0 /\ state[t] = "active"
      BY <1>0 DEF SchedInv, RunqueueSound, PcMatchesState, Halted, StatesAt, ThreadsTypeOK
    <3>2. idle_thread = t
      BY <1>0 DEF PcMatchesState
    <3> QED
      BY <1>0, <3>1, <3>2 DEF ThreadsTypeOK
  <2>1. ThreadsTypeOK'
    BY <1>0 DEF ThreadsTypeOK, ThreadPc, ThreadState
  <2>2. SchedInv'
    BY <1>s
  <2>3. PcMatchesState' /\ ClientsRunActive' /\ JoinSound'
    BY <1>0, <2>0 DEF ThreadsTypeOK, PcMatchesState, ClientsRunActive, JoinSound, StatesAt
  <2> QED
    BY <2>1, <2>2, <2>3 DEF ThreadsInv
<1>12. ASSUME NEW t \in Thread, DisablePreempt(t) \/ EnablePreempt(t)
       PROVE  ThreadsInv'
  <2> USE <1>12 DEF DisablePreempt, EnablePreempt, sched_vars
  <2>1. ThreadsTypeOK'
    BY <1>0 DEF ThreadsTypeOK
  <2>2. SchedInv'
    BY <1>s
  <2>3. PcMatchesState' /\ ClientsRunActive' /\ JoinSound'
    BY <1>0 DEF PcMatchesState, ClientsRunActive, JoinSound
  <2> QED
    BY <2>1, <2>2, <2>3 DEF ThreadsInv
<1>13. ASSUME NEW t \in Thread, NEW u \in Thread, ThreadCreate(t, u)
       PROVE  ThreadsInv'
  <2> USE <1>13 DEF ThreadCreate
  <2>0. u # current /\ u \notin Queued /\ u # kthread /\ pc[u] = "none"
    BY <1>0, FreeSlot
  <2>1. ThreadsTypeOK'
    BY <1>0 DEF ThreadsTypeOK, ThreadPc, ThreadState
  <2>2. SchedInv'
    BY <1>s
  <2>3. PcMatchesState' /\ ClientsRunActive' /\ JoinSound'
    BY <1>0, <2>0 DEF ThreadsTypeOK, PcMatchesState, ClientsRunActive, JoinSound, StatesAt
  <2> QED
    BY <2>1, <2>2, <2>3 DEF ThreadsInv
<1>14. ASSUME NEW t \in Thread, NEW u \in Thread, Fork(t, u)
       PROVE  ThreadsInv'
  <2> USE <1>14 DEF Fork, Enqueue
  <2>0. u # current /\ u \notin Queued /\ u # kthread /\ pc[u] = "none"
    BY <1>0, FreeSlot
  <2>1. runqueue' \in Seq(Thread) /\ IsInjective(runqueue') /\ Queued' = Queued \cup {u}
    <3>1. runqueue \in Seq(Thread) /\ IsInjective(runqueue)
      BY <1>0 DEF SchedTypeOK, SchedInv, RunqueueSound
    <3>2. runqueue' = Append(runqueue, u) /\ u \notin ToSet(runqueue)
      BY <1>14, <2>0 DEF Queued
    <3> HIDE <1>14
    <3> QED
      BY <3>1, <3>2, AppendQueue DEF Queued
  <2>2. ThreadsTypeOK'
    <3>1. /\ state' \in [Thread -> ThreadState] /\ pc' \in [Thread -> ThreadPc]
          /\ UNCHANGED <<current, ran, tss_rsp0, idle_thread, preempt_cnt, target>>
      BY <1>0 DEF ThreadsTypeOK, ThreadPc, ThreadState
    <3> QED
      BY <1>0, <2>1, <3>1 DEF ThreadsTypeOK
  <2>3. SchedInv'
    BY <1>s
  <2>4. PcMatchesState' /\ ClientsRunActive' /\ JoinSound'
    BY <1>0, <2>0 DEF ThreadsTypeOK, PcMatchesState, ClientsRunActive, JoinSound, StatesAt
  <2> QED
    BY <2>2, <2>3, <2>4 DEF ThreadsInv
<1>15. ASSUME NEW t \in Thread, NEW u \in Thread, ThreadJoin(t, u)
       PROVE  ThreadsInv'
  <2> USE <1>15 DEF ThreadJoin, sched_vars
  <2>1. ThreadsTypeOK'
    BY <1>0 DEF ThreadsTypeOK, ThreadPc
  <2>2. SchedInv'
    BY <1>s
  <2>3. PcMatchesState' /\ ClientsRunActive'
    BY <1>0 DEF ThreadsTypeOK, PcMatchesState, ClientsRunActive, StatesAt
  <2>4. JoinSound'
    BY <1>0 DEF ThreadsTypeOK, JoinSound
  <2> QED
    BY <2>1, <2>2, <2>3, <2>4 DEF ThreadsInv
<1>16. ASSUME Timer
       PROVE  ThreadsInv'
  <2> DEFINE r == IF ran < SLICE THEN ran + 1 ELSE SLICE
  <2>1. r \in -SLICE .. SLICE /\ ran \in Int
    BY <1>0 DEF ThreadsTypeOK
  <2>2. CASE preempt_cnt # 0
    <3>1. /\ ran' = r
          /\ UNCHANGED <<current, runqueue, state, tss_rsp0, idle_thread, preempt_cnt, pc, target>>
      BY <1>16, <2>2 DEF Timer, Schedule
    <3>2. ThreadsTypeOK' /\ SchedInv'
      BY <1>0, <2>1, <3>1 DEF ThreadsTypeOK, SchedInv, RunqueueSound, NoRunnableLost,
                              FinishedIsOffCpu, BootThread, Queued
    <3>3. PcMatchesState' /\ ClientsRunActive' /\ JoinSound'
      BY <1>0, <3>1 DEF PcMatchesState, ClientsRunActive, JoinSound
    <3> QED
      BY <3>2, <3>3 DEF ThreadsInv
  <2>3. CASE preempt_cnt = 0
    <3>1. pc' = [pc EXCEPT ![current] = pc[current]]
      BY <1>0, <1>16 DEF Timer, ThreadsTypeOK
    <3>2. DoSchedule(FALSE, r) /\ UNCHANGED <<idle_thread, preempt_cnt, target>>
      BY <1>16, <2>3 DEF Timer, Schedule
    <3> QED
      BY <2>1, <2>3, <3>1, <3>2, ScheduleStep
  <2> QED
    BY <2>2, <2>3
<1> QED
  BY <1>1, <1>2, <1>3, <1>4, <1>5, <1>6, <1>7, <1>8, <1>9, <1>10, <1>11, <1>12,
     <1>13, <1>14, <1>15, <1>16
  DEF ThreadsStep

-----------------------------------------------------------------------------
\* ... and so does every step of a client that sleeps and wakes threads.
LEMMA ThreadsNextInv == ThreadsInv /\ [ThreadsNext]_threads_vars => ThreadsInv'
<1> SUFFICES ASSUME ThreadsInv, [ThreadsNext]_threads_vars
             PROVE  ThreadsInv'
  OBVIOUS
<1> USE DEF At, GoTo
<1>0. /\ ThreadsTypeOK /\ SchedTypeOK /\ SchedInv /\ PcMatchesState /\ ClientsRunActive /\ JoinSound
      /\ state[current] \in StatesAt[pc[current]]
      /\ pc[current] \in {"run"} \cup Halted \/ preempt_cnt = 0
      /\ ran \in -SLICE .. SLICE
  BY DEF ThreadsInv, ThreadsTypeOK, SchedTypeOK, PcMatchesState
<1>1. ASSUME NEW t \in Thread, Block(t)
      PROVE  ThreadsInv'
  <2> USE <1>1 DEF Block
  <2>1. /\ state' = [state EXCEPT ![current] = "blocked"]
        /\ pc' = [pc EXCEPT ![current] = "block"]
        /\ current \notin Queued /\ state[current] = "active"
    BY <1>0 DEF SchedInv, RunqueueSound, ClientsRunActive
  <2>2. ThreadsTypeOK'
    BY <1>0, <2>1 DEF ThreadsTypeOK, ThreadState, ThreadPc
  <2>3. SchedInv'
    BY <1>0, <2>1 DEF ThreadsTypeOK, SchedInv, RunqueueSound, NoRunnableLost,
                      FinishedIsOffCpu, BootThread, Queued
  <2>4. PcMatchesState' /\ ClientsRunActive'
    BY <1>0, <2>1 DEF ThreadsTypeOK, PcMatchesState, ClientsRunActive, StatesAt
  <2>5. JoinSound'
    BY <1>0, <2>1 DEF ThreadsTypeOK, JoinSound
  <2> QED
    BY <2>2, <2>3, <2>4, <2>5 DEF ThreadsInv
<1>2. ASSUME NEW t \in Thread, BlockSched(t)
      PROVE  ThreadsInv'
  <2>1. preempt_cnt = 0 /\ DoSchedule(FALSE, ran)
    BY <1>0, <1>2 DEF BlockSched, Schedule, Halted
  <2> QED
    BY <1>0, <1>2, <2>1, ScheduleStep DEF BlockSched
<1>3. ASSUME NEW t \in Thread, NEW u \in Thread, ThreadActivate(t, u)
      PROVE  ThreadsInv'
  <2> USE <1>3 DEF ThreadActivate
  <2>1. state[current] = "active"
    BY <1>0 DEF ClientsRunActive
  <2>2. SchedTypeOK' /\ SchedInv'
    BY <1>0, <2>1, ActivateKeeps
  <2>3. /\ \A v \in Thread : state'[v] = state[v] \/ (state[v] = "blocked" /\ state'[v] = "active")
        /\ UNCHANGED <<pc, target, current, preempt_cnt, idle_thread>>
    BY <1>0 DEF Activate, ActivateIn, ThreadsTypeOK
  <2>4. ThreadsTypeOK'
    BY <1>0, <2>2, <2>3 DEF ThreadsTypeOK, SchedTypeOK
  <2>5. PcMatchesState'
    <3>1. \A l \in ThreadPc : "blocked" \in StatesAt[l] => "active" \in StatesAt[l]
      BY DEF StatesAt, ThreadPc
    <3> QED
      BY <1>0, <2>3, <3>1 DEF PcMatchesState, ThreadsTypeOK
  <2>6. ClientsRunActive' /\ JoinSound'
    BY <1>0, <2>1, <2>3 DEF ClientsRunActive, JoinSound, ThreadsTypeOK
  <2> QED
    BY <2>2, <2>4, <2>5, <2>6 DEF ThreadsInv
<1>4. ASSUME UNCHANGED threads_vars
      PROVE  ThreadsInv'
  <2> USE <1>4 DEF threads_vars
  <2>1. ThreadsTypeOK' /\ SchedInv'
    BY <1>0 DEF ThreadsTypeOK, SchedInv, RunqueueSound, NoRunnableLost,
                FinishedIsOffCpu, BootThread, Queued
  <2>2. PcMatchesState' /\ ClientsRunActive' /\ JoinSound'
    BY <1>0 DEF PcMatchesState, ClientsRunActive, JoinSound
  <2> QED
    BY <2>1, <2>2 DEF ThreadsInv
<1> QED
  BY <1>1, <1>2, <1>3, <1>4, ThreadsStepInv DEF ThreadsNext

\* The inductive invariant holds: in particular the run queue, the CPU and the
\* states of the threads always agree, whatever the clients and the timer do.
THEOREM ThreadsInvariant == ThreadsSpec => []ThreadsInv
<1>1. ThreadsInit => ThreadsInv
  BY ThreadsInitInv
<1>2. ThreadsInv /\ [ThreadsNext]_threads_vars => ThreadsInv'
  BY ThreadsNextInv
<1> QED
  BY <1>1, <1>2, PTL DEF ThreadsSpec

\* Type correctness of the scheduler.
THEOREM ThreadsTyped == ThreadsSpec => []ThreadsTypeOK
<1>1. ThreadsInv => ThreadsTypeOK
  BY DEF ThreadsInv
<1> QED
  BY <1>1, ThreadsInvariant, PTL

\* No thread is on the run queue twice or while it runs, no runnable thread is
\* lost (threads.c:215-231, 317-325, 353-376).
THEOREM RunqueueCorrect == ThreadsSpec => [](RunqueueSound /\ NoRunnableLost)
<1>1. ThreadsInv => RunqueueSound /\ NoRunnableLost
  BY DEF ThreadsInv, SchedInv
<1> QED
  BY <1>1, ThreadsInvariant, PTL

\* A thread that counts as finished is off its stack for good, so the joiner
\* may free it (threads.c:219-220, 308-312).
THEOREM FinishedOffCpu == ThreadsSpec => []FinishedIsOffCpu
<1>1. ThreadsInv => FinishedIsOffCpu
  BY DEF ThreadsInv, SchedInv
<1> QED
  BY <1>1, ThreadsInvariant, PTL

\* A thread that went to sleep does not come back before it is activated
\* (mutex.c:27-31, condition.c:25-31).
THEOREM SleepersStay == ThreadsSpec => []ClientsRunActive
<1>1. ThreadsInv => ClientsRunActive
  BY DEF ThreadsInv
<1> QED
  BY <1>1, ThreadsInvariant, PTL

-----------------------------------------------------------------------------
(***************************************************************************)
(* What a single step may do to the CPU and the run queue.                 *)
(***************************************************************************)

\* The CPU changes hands and threads leave the queue only in __schedule, which
\* preempt_cnt guards; any other step can only add a thread to the queue.
LEMMA OnlyScheduleSwitches ==
    ASSUME ThreadsTypeOK, ThreadsNext
    PROVE  \/ preempt_cnt = 0 /\ \E force, r : DoSchedule(force, r)
           \/ /\ current' = current
              /\ runqueue' = runqueue \/ \E u \in Thread : runqueue' = Append(runqueue, u)
<1>1. CASE Timer \/ \E t \in Thread : BlockSched(t)
  BY <1>1 DEF Timer, BlockSched, Schedule
<1>2. CASE \E t \in Thread : ThreadExitSched(t) \/ JoinSched(t) \/ IdleSched(t)
  BY <1>2 DEF ThreadExitSched, JoinSched, IdleSched, ForceSchedule
<1>3. CASE \E t \in Thread : \/ ThreadEntry(t) \/ ThreadEntryNull(t) \/ ThreadAllocFails(t)
                             \/ JoinTest(t) \/ IdleStart(t)
                             \/ DisablePreempt(t) \/ EnablePreempt(t)
  BY <1>3 DEF ThreadEntry, ThreadEntryNull, ThreadAllocFails, JoinTest, IdleStart,
              DisablePreempt, EnablePreempt, sched_vars
<1>4. CASE \E t \in Thread : ThreadExit(t) \/ ThreadDestroy(t) \/ IdleMark(t) \/ Block(t)
  BY <1>4 DEF ThreadExit, ThreadDestroy, IdleMark, Block
<1>5. CASE \E t, u \in Thread : ThreadCreate(t, u) \/ ThreadJoin(t, u)
  BY <1>5 DEF ThreadCreate, ThreadJoin, sched_vars
<1>6. CASE \E t, u \in Thread : Fork(t, u) \/ ThreadActivate(t, u)
  BY <1>6 DEF Fork, ThreadActivate, Activate, ActivateIn, Enqueue
<1> QED
  BY <1>1, <1>2, <1>3, <1>4, <1>5, <1>6 DEF ThreadsNext, ThreadsStep

\* disable_preempt() keeps the CPU (threads.c:149-157, 378-401).
THEOREM PreemptionHolds == ThreadsSpec => PreemptHolds
<1>1. ThreadsInv /\ [ThreadsNext]_threads_vars
        => [preempt_cnt > 0 => current' = current]_threads_vars
  <2> SUFFICES ASSUME ThreadsInv, ThreadsNext, preempt_cnt > 0
               PROVE  current' = current
    BY DEF threads_vars
  <2>1. preempt_cnt # 0 /\ ThreadsTypeOK
    BY DEF ThreadsInv
  <2> QED
    BY <2>1, OnlyScheduleSwitches
<1> QED
  BY <1>1, ThreadsInvariant, PTL DEF ThreadsSpec, PreemptHolds

\* The boot thread gets the CPU back to idle only when no other thread could use it
\* (threads.c:357-374).
LEMMA IdleOnly ==
    ASSUME SchedTypeOK, SchedInv, NEW force, NEW r, DoSchedule(force, r),
           current' # current, state[current'] = "idle"
    PROVE  \A t \in Thread : state'[t] # "active"
<1> USE DEF SchedTypeOK, SchedInv
<1>1. SwitchesTo(NextThread) /\ PlaceThread(NextThread, RestOfQueue)
  BY DEF DoSchedule
<1>2. /\ current' = NextThread
      /\ state' = [state EXCEPT ![current] = LeftAs(state[current])]
  BY <1>1 DEF PlaceThread
<1>3. NextThread = idle_thread /\ Queued = {}
  BY <1>2, NextThreadIs DEF RunqueueSound
<1>4. state[current] # "active"
  BY <1>1, <1>3 DEF SwitchesTo
<1>5. \A t \in Thread : state[t] # "active"
  BY <1>2, <1>3, <1>4 DEF NoRunnableLost
<1> QED
  BY <1>2, <1>5 DEF LeftAs

THEOREM IdleIsLast == ThreadsSpec => IdleOnlyWhenNothingRuns
<1>1. ThreadsInv /\ [ThreadsNext]_threads_vars
        => [current' # current /\ state[current'] = "idle"
              => \A t \in Thread : state'[t] # "active"]_threads_vars
  <2> SUFFICES ASSUME ThreadsInv, ThreadsNext, current' # current, state[current'] = "idle"
               PROVE  \A t \in Thread : state'[t] # "active"
    BY DEF threads_vars
  <2>1. ThreadsTypeOK /\ SchedTypeOK /\ SchedInv
    BY DEF ThreadsInv, ThreadsTypeOK, SchedTypeOK
  <2>2. PICK force, r : DoSchedule(force, r)
    BY <2>1, OnlyScheduleSwitches
  <2> QED
    BY <2>1, <2>2, IdleOnly
<1> QED
  BY <1>1, ThreadsInvariant, PTL DEF ThreadsSpec, IdleOnlyWhenNothingRuns

\* The queue changes at its ends: joining it at the tail overtakes nobody, nor does
\* leaving it at the head.
LEMMA AppendOvertakes ==
    ASSUME NEW q \in Seq(Thread), NEW x \in Thread
    PROVE  NobodyOvertakes(q, q) /\ NobodyOvertakes(q, Append(q, x))
<1>1. \A i \in DOMAIN q : i \in DOMAIN Append(q, x) /\ Append(q, x)[i] = q[i]
  OBVIOUS
<1> QED
  BY <1>1 DEF NobodyOvertakes

LEMMA TailOvertakes ==
    ASSUME NEW q \in Seq(Thread), q # <<>>, IsInjective(q), NEW x \in Thread, x \notin ToSet(q)
    PROVE  NobodyOvertakes(q, Tail(q)) /\ NobodyOvertakes(q, Append(Tail(q), x))
<1>1. /\ Tail(q) \in Seq(Thread) /\ q[1] \in ToSet(q)
      /\ ToSet(Tail(q)) = ToSet(q) \ {q[1]}
      /\ ToSet(Append(Tail(q), x)) = ToSet(Tail(q)) \cup {x}
  <2>1. Head(q) = q[1]
    OBVIOUS
  <2>2. /\ Tail(q) \in Seq(Thread) /\ Head(q) \in ToSet(q)
        /\ ToSet(Tail(q)) = ToSet(q) \ {Head(q)}
    BY PopQueue
  <2>3. ToSet(Append(Tail(q), x)) = ToSet(Tail(q)) \cup {x}
    BY ZenonT(40), <2>2, AppendQueue
  <2> QED
    BY <2>1, <2>2, <2>3
<1>2. q[1] \notin ToSet(Tail(q)) /\ q[1] \notin ToSet(Append(Tail(q), x))
  BY <1>1
<1>3. \A i \in DOMAIN q : i # 1 => i - 1 \in DOMAIN Tail(q) /\ Tail(q)[i - 1] = q[i]
  OBVIOUS
<1>4. \A i \in DOMAIN Tail(q) :
         i \in DOMAIN Append(Tail(q), x) /\ Append(Tail(q), x)[i] = Tail(q)[i]
  BY <1>1
<1>5. NobodyOvertakes(q, Tail(q))
  BY <1>2, <1>3 DEF NobodyOvertakes
<1>6. NobodyOvertakes(q, Append(Tail(q), x))
  BY <1>2, <1>3, <1>4 DEF NobodyOvertakes
<1> QED
  BY <1>5, <1>6

\* __schedule takes the head of the queue and appends the thread that it leaves
\* (threads.c:225-226, 353-376).
LEMMA ScheduleOvertakes ==
    ASSUME SchedTypeOK, SchedInv, NEW force, NEW r, DoSchedule(force, r)
    PROVE  NobodyOvertakes(runqueue, runqueue')
<1> USE DEF SchedTypeOK, SchedInv
<1>1. /\ runqueue \in Seq(Thread) /\ current \in Thread
      /\ IsInjective(runqueue) /\ current \notin ToSet(runqueue)
  BY DEF RunqueueSound, Queued
<1>2. runqueue' \in {runqueue, RestOfQueue, Append(RestOfQueue, current)}
  BY DEF DoSchedule, PlaceThread, Enqueue
<1>3. CASE runqueue = <<>>
  BY <1>1, <1>2, <1>3, AppendOvertakes DEF RestOfQueue
<1>4. CASE runqueue # <<>>
  BY <1>1, <1>2, <1>4, AppendOvertakes, TailOvertakes DEF RestOfQueue
<1> QED
  BY <1>3, <1>4

\* The queue is first in, first out, whatever its members and the interrupts do
\* (threads.c:226, 364).
THEOREM QueueInOrder == ThreadsSpec => QueueIsFair
<1>1. ThreadsInv /\ [ThreadsNext]_threads_vars
        => [NobodyOvertakes(runqueue, runqueue')]_threads_vars
  <2> SUFFICES ASSUME ThreadsInv, ThreadsNext
               PROVE  NobodyOvertakes(runqueue, runqueue')
    OBVIOUS
  <2>1. ThreadsTypeOK /\ SchedTypeOK /\ SchedInv
    BY DEF ThreadsInv, ThreadsTypeOK, SchedTypeOK
  <2>2. CASE \E force, r : DoSchedule(force, r)
    BY <2>1, <2>2, ScheduleOvertakes
  <2>3. CASE runqueue' = runqueue \/ \E u \in Thread : runqueue' = Append(runqueue, u)
    BY <2>1, <2>3, AppendOvertakes DEF SchedTypeOK
  <2> QED
    BY <2>1, <2>2, <2>3, OnlyScheduleSwitches
<1> QED
  BY <1>1, ThreadsInvariant, PTL DEF ThreadsSpec, QueueIsFair

-----------------------------------------------------------------------------
(***************************************************************************)
(* The scheduler with mutexes and condition variables.                     *)
(***************************************************************************)

USE SyncAssumption


\* What a step needs to know of the scheduler's variables and of the points.
PointsInv == SyncTypeOK /\ SchedInv /\ SyncPcMatches /\ ClientsRunActive /\ JoinSound

\* A step that the calls do not see: threads inside of them stay where they are, as
\* they are, and nobody enters or leaves a call.
CallsUntouched ==
    \A t \in Thread :
        /\ pc[t] \in SyncPc => pc'[t] = pc[t] /\ state'[t] = state[t]
        /\ pc'[t] \in SyncPc => pc'[t] = pc[t]

-----------------------------------------------------------------------------
\* A pass through __schedule, at any point of any call (threads.c:353-376).
LEMMA SyncSchedule ==
    ASSUME PointsInv, preempt_cnt = 0,
           NEW force \in BOOLEAN, NEW r \in -SLICE .. SLICE,
           DoSchedule(force, r),
           NEW l, \/ l = pc[current]
                  \/ <<pc[current], l>> \in {<<"joinsched", "join">>, <<"lockwait", "lockret">>,
                                             <<"condwait", "relock">>},
           GoTo(current, l),
           UNCHANGED <<idle_thread, preempt_cnt, target, mutex_vars>>
    PROVE  /\ PointsInv'
           /\ \A t \in Thread : pc[t] \in SyncPc => state'[t] = state[t]
<1> USE DEF PointsInv
<1>1. /\ SchedTypeOK /\ SchedInv /\ current \in Thread
      /\ pc \in [Thread -> ThreadPc \cup SyncPc]
  BY DEF SyncTypeOK, SchedTypeOK
<1>2. SchedTypeOK' /\ SchedInv'
  BY <1>1, DoScheduleKeeps
<1> DEFINE s == state[current]
<1>3. /\ \A t \in Thread : t # current => state'[t] = state[t]
      /\ state'[current] \in {s, LeftAs(s)}
      /\ state'[current'] \in {"active", "idle"} \/ (current' = current /\ current = kthread)
  BY <1>1, DoScheduleMoves
<1>4. /\ l \in ThreadPc \cup SyncPc
      /\ pc' = [pc EXCEPT ![current] = l]
  BY <1>1 DEF GoTo, ThreadPc, SyncPc
<1>5. SyncTypeOK'
  BY <1>2, <1>4 DEF SyncTypeOK, mutex_vars
<1>6. /\ pc[current] \in SyncPc => state'[current] = s
      /\ l \in SyncPc \ {"bcast"} => state'[current] \in {"active", "blocked"}
      /\ l \in {"run", "bcast"} => state'[current] = "active"
      /\ l \in DOMAIN StatesAt => state'[current] \in StatesAt[l]
  BY <1>1, <1>3, <1>4 DEF SyncPcMatches, LeftAs, StatesAt, SyncPc, ThreadPc
<1>7. \A t \in Thread : /\ InLockCall(t)' <=> InLockCall(t)
                        /\ InWaitCall(t)' <=> InWaitCall(t)
                        /\ pc[t] = "bcast" <=> pc'[t] = "bcast"
                        /\ pc[t] \in {"idling", "idle"} <=> pc'[t] \in {"idling", "idle"}
                        /\ pc[t] \in {"join", "joinsched"} <=> pc'[t] \in {"join", "joinsched"}
                        /\ pc[t] \notin {"joinsched", "lockwait", "condwait"} \/ t # current => pc'[t] = pc[t]
  BY <1>1, <1>4 DEF InLockCall, InWaitCall
<1>8. state'[current'] \in {"active", "idle"}
  BY <1>2, <1>3 DEF SchedInv, BootThread
<1>9. current' \in Thread
  BY <1>2 DEF SchedTypeOK
<1>10. SyncPcMatches'
  <2>1. \A t \in Thread :
         /\ pc'[t] \in SyncPc \ {"bcast"} => state'[t] \in {"active", "blocked"}
         /\ pc'[t] \in {"run", "bcast"} => state'[t] = "active"
         /\ pc'[t] \in DOMAIN StatesAt => state'[t] \in StatesAt[pc'[t]]
    BY <1>1, <1>3, <1>4, <1>6 DEF SyncPcMatches
  <2>2. \A t \in Thread :
         /\ want'[t] # NoMutex <=> InLockCall(t)' \/ InWaitCall(t)'
         /\ InLockCall(t)' \/ InWaitCall(t)' => want'[t] \notin held'[t]
         /\ held'[t] # {} => pc'[t] \in {"run", "bcast"} \cup SyncPc \cup Halted
         /\ list'[t] # <<>> => pc'[t] = "bcast"
         /\ idle_thread' = t <=> pc'[t] \in {"idling", "idle"}
    BY <1>1, <1>4, <1>7 DEF SyncPcMatches, mutex_vars, SyncPc, Halted
  <2>3. pc'[kthread] \notin {"none", "exit", "entry", "entry_null"}
        /\ ~InLockCall(kthread)' /\ ~InWaitCall(kthread)'
    BY <1>1, <1>4 DEF SyncPcMatches, InLockCall, InWaitCall
  <2>4. pc'[current'] \in {"lockret", "relock"} => state'[current'] = "active"
    BY <1>8, <1>9, <2>1 DEF SyncPc
  <2> QED
    BY <2>1, <2>2, <2>3, <2>4 DEF SyncPcMatches, InLockCall, InWaitCall
<1>11. ClientsRunActive'
  <2>1. pc'[current'] \in DOMAIN StatesAt => state'[current'] \in StatesAt[pc'[current']]
    BY <1>9, <1>10 DEF SyncPcMatches
  <2> QED
    BY <1>8, <2>1 DEF ClientsRunActive, StatesAt
<1>12. JoinSound'
  <2>1. s # "finished" /\ s # "free"
    BY <1>1 DEF SchedInv, FinishedIsOffCpu
  <2>2. \A t \in Thread : /\ state[t] = "finished" => state'[t] = "finished"
                          /\ state[t] # "free" => state'[t] # "free"
    BY <1>3, <2>1 DEF LeftAs
  <2>3. \A t \in Thread : /\ pc'[t] = "reap" => pc[t] = "reap"
                          /\ pc'[t] \in {"join", "joinsched", "reap"} <=> pc[t] \in {"join", "joinsched", "reap"}
    BY <1>1, <1>4
  <2> QED
    BY <1>1, <2>2, <2>3 DEF JoinSound, SyncTypeOK
<1> QED
  BY <1>2, <1>3, <1>5, <1>6, <1>10, <1>11, <1>12

\* A thread that has finished, or a slot that is free, is at no point of this module.
LEMMA OffCpuPoints ==
    ASSUME PointsInv, NEW u \in Thread, state[u] \in {"finished", "free"}
    PROVE  /\ pc[u] = IF state[u] = "free" THEN "none" ELSE "exit"
           /\ u # current /\ u \notin Queued /\ u # kthread
           /\ held[u] = {} /\ list[u] = <<>> /\ want[u] = NoMutex
           /\ target[u] = NoThread
<1> USE DEF PointsInv
<1>1. u # current /\ u \notin Queued /\ u # kthread
  BY DEF SchedInv, FinishedIsOffCpu, BootThread
<1>2. pc[u] \in ThreadPc \cup SyncPc
  BY DEF SyncTypeOK
<1>3. pc[u] = IF state[u] = "free" THEN "none" ELSE "exit"
  BY <1>2 DEF SyncPcMatches, StatesAt, SyncPc, ThreadPc
<1>4. held[u] = {} /\ list[u] = <<>> /\ want[u] = NoMutex
  BY <1>3 DEF SyncPcMatches, SyncPc, Halted, InLockCall, InWaitCall
<1>5. target[u] = NoThread
  BY <1>3 DEF JoinSound
<1> QED
  BY <1>1, <1>3, <1>4, <1>5

\* What a step must do to the threads whose point or state it changes, for these
\* to agree again.
LEMMA PointsMatch ==
    ASSUME SyncPcMatches, NEW X \in SUBSET Thread, current \in Thread,
           \A v \in Thread \ X : pc'[v] = pc[v] /\ state'[v] = state[v],
           \A v \in X :
              /\ pc[v] \notin SyncPc /\ list[v] = <<>> /\ want[v] = NoMutex
              /\ pc'[v] # "run" => held[v] = {}
              /\ <<pc'[v], state'[v]>> \in {<<"exit", "finishing">>, <<"none", "free">>,
                                           <<"entry", "blocked">>, <<"entry_null", "active">>,
                                           <<"idle", "idle">>, <<"run", "active">>}
              /\ pc'[v] = "idle" <=> pc[v] \in {"idling", "idle"}
              /\ v = kthread => pc'[v] \in {"idle", "run"},
           current \in X => preempt_cnt = 0,
           UNCHANGED <<current, idle_thread, preempt_cnt, held, want, list>>
    PROVE  SyncPcMatches'
<1>1. ASSUME NEW v \in Thread \ X
      PROVE  /\ pc'[v] \in SyncPc \ {"bcast"} => state'[v] \in {"active", "blocked"}
             /\ pc'[v] \in {"run", "bcast"} => state'[v] = "active"
             /\ pc'[v] \in DOMAIN StatesAt => state'[v] \in StatesAt[pc'[v]]
             /\ want'[v] # NoMutex <=> InLockCall(v)' \/ InWaitCall(v)'
             /\ InLockCall(v)' \/ InWaitCall(v)' => want'[v] \notin held'[v]
             /\ held'[v] # {} => pc'[v] \in {"run", "bcast"} \cup SyncPc \cup Halted
             /\ list'[v] # <<>> => pc'[v] = "bcast"
             /\ idle_thread' = v <=> pc'[v] \in {"idling", "idle"}
  BY <1>1 DEF SyncPcMatches, InLockCall, InWaitCall
<1>2. ASSUME NEW v \in X
      PROVE  /\ pc'[v] \in SyncPc \ {"bcast"} => state'[v] \in {"active", "blocked"}
             /\ pc'[v] \in {"run", "bcast"} => state'[v] = "active"
             /\ pc'[v] \in DOMAIN StatesAt => state'[v] \in StatesAt[pc'[v]]
             /\ want'[v] # NoMutex <=> InLockCall(v)' \/ InWaitCall(v)'
             /\ InLockCall(v)' \/ InWaitCall(v)' => want'[v] \notin held'[v]
             /\ held'[v] # {} => pc'[v] \in {"run", "bcast"} \cup SyncPc \cup Halted
             /\ list'[v] # <<>> => pc'[v] = "bcast"
             /\ idle_thread' = v <=> pc'[v] \in {"idling", "idle"}
  <2>1. pc'[v] \in {"exit", "none", "entry", "entry_null", "idle", "run"}
        /\ pc'[v] \notin SyncPc
    BY <1>2 DEF SyncPc
  <2>2. state'[v] \in StatesAt[pc'[v]] /\ (pc'[v] = "run" => state'[v] = "active")
    BY <1>2 DEF StatesAt
  <2>3. ~InLockCall(v)' /\ ~InWaitCall(v)' /\ want'[v] = NoMutex
    BY <1>2, <2>1 DEF InLockCall, InWaitCall
  <2>4. idle_thread' = v <=> pc'[v] \in {"idling", "idle"}
    BY <1>2, <2>1 DEF SyncPcMatches
  <2> QED
    BY <1>2, <2>1, <2>2, <2>3, <2>4
<1>3. /\ pc'[current'] \in {"lockret", "relock"} => state'[current'] = "active"
      /\ preempt_cnt' > 0 => pc'[current'] \in {"run", "bcast"} \cup Halted
  <2>1. CASE current \in X
    BY <2>1 DEF SyncPc
  <2>2. CASE current \notin X
    BY <2>2 DEF SyncPcMatches
  <2> QED
    BY <2>1, <2>2
<1>4. /\ pc'[kthread] \notin {"none", "exit", "entry", "entry_null"}
      /\ pc'[kthread] \notin {"lockwait", "lockret", "condwait", "relock"}
  BY DEF SyncPcMatches, InLockCall, InWaitCall
<1> QED
  BY <1>1, <1>2, <1>3, <1>4 DEF SyncPcMatches, InLockCall, InWaitCall

\* The steps of the scheduler keep all this, and do not disturb the calls.
LEMMA SchedulerKeeps ==
    ASSUME PointsInv, SchedulerStep
    PROVE  PointsInv' /\ CallsUntouched
<1> USE DEF PointsInv, At, GoTo
<1>0. /\ SyncTypeOK /\ SchedTypeOK /\ SchedInv /\ SyncPcMatches /\ ClientsRunActive /\ JoinSound
      /\ current \in Thread
      /\ pc[current] \in {"run", "bcast"} \cup Halted \/ preempt_cnt = 0
      /\ ran \in -SLICE .. SLICE
      /\ ReleasesFirst /\ UNCHANGED <<locked, waitq, condq, list, want, held>>
  BY DEF SyncTypeOK, SchedTypeOK, SyncPcMatches, SchedulerStep, mutex_vars
<1>s. ThreadsStep => SchedTypeOK' /\ SchedInv'
  <2>1. pc[current] = "reap" => target[current] \in Thread /\ state[target[current]] = "finished"
    BY <1>0 DEF JoinSound, SyncTypeOK
  <2>2. pc[current] = "idling" => idle_thread = current
    BY <1>0 DEF SyncPcMatches
  <2> QED
    BY <1>0, <2>1, <2>2, StepKeepsSched
<1>1. ASSUME SyncTypeOK', SyncPcMatches', ClientsRunActive' /\ JoinSound', CallsUntouched, ThreadsStep
      PROVE  PointsInv' /\ CallsUntouched
  BY <1>s, <1>1
<1>2. ASSUME NEW t \in Thread, ThreadEntry(t)
      PROVE  PointsInv' /\ CallsUntouched
  <2> USE <1>0, <1>2 DEF ThreadEntry, sched_vars
  <2>1. SyncTypeOK'
    BY DEF SyncTypeOK, SchedTypeOK, ThreadPc
  <2>2. SyncPcMatches'
    BY DEF SyncTypeOK, SyncPcMatches, ClientsRunActive, StatesAt, SyncPc, InLockCall, InWaitCall
  <2>3. ClientsRunActive' /\ JoinSound'
    BY DEF SyncTypeOK, ClientsRunActive, JoinSound
  <2>4. CallsUntouched
    BY DEF SyncTypeOK, CallsUntouched, SyncPc
  <2> QED
    BY <2>1, <2>2, <2>3, <2>4, <1>1 DEF ThreadsStep
<1>3. ASSUME NEW t \in Thread, ThreadEntryNull(t)
      PROVE  PointsInv' /\ CallsUntouched
  <2> USE <1>0, <1>3 DEF ThreadEntryNull, sched_vars
  <2>1. SyncTypeOK'
    BY DEF SyncTypeOK, SchedTypeOK, ThreadPc
  <2>2. SyncPcMatches'
    BY DEF SyncTypeOK, SyncPcMatches, ClientsRunActive, StatesAt, SyncPc, Halted, InLockCall, InWaitCall
  <2>3. ClientsRunActive' /\ JoinSound'
    BY DEF SyncTypeOK, ClientsRunActive, JoinSound
  <2>4. CallsUntouched
    BY DEF SyncTypeOK, CallsUntouched, SyncPc
  <2> QED
    BY <2>1, <2>2, <2>3, <2>4, <1>1 DEF ThreadsStep
<1>4. ASSUME NEW t \in Thread, ThreadAllocFails(t)
      PROVE  PointsInv' /\ CallsUntouched
  <2> USE <1>0, <1>4 DEF ThreadAllocFails, sched_vars
  <2>1. SyncTypeOK'
    BY DEF SyncTypeOK, SchedTypeOK, ThreadPc
  <2>2. SyncPcMatches'
    BY DEF SyncTypeOK, SyncPcMatches, ClientsRunActive, StatesAt, SyncPc, Halted, InLockCall, InWaitCall
  <2>3. ClientsRunActive' /\ JoinSound'
    BY DEF SyncTypeOK, ClientsRunActive, JoinSound
  <2>4. CallsUntouched
    BY DEF SyncTypeOK, CallsUntouched, SyncPc
  <2> QED
    BY <2>1, <2>2, <2>3, <2>4, <1>1 DEF ThreadsStep
<1>5. ASSUME NEW t \in Thread, JoinTest(t)
      PROVE  PointsInv' /\ CallsUntouched
  <2> USE <1>0, <1>5 DEF JoinTest, sched_vars
  <2>1. SyncTypeOK'
    BY DEF SyncTypeOK, SchedTypeOK, ThreadPc
  <2>2. SyncPcMatches'
    BY DEF SyncTypeOK, SyncPcMatches, ClientsRunActive, StatesAt, SyncPc, Halted, InLockCall, InWaitCall
  <2>3. ClientsRunActive' /\ JoinSound'
    BY DEF SyncTypeOK, ClientsRunActive, JoinSound
  <2>4. CallsUntouched
    BY DEF SyncTypeOK, CallsUntouched, SyncPc
  <2> QED
    BY <2>1, <2>2, <2>3, <2>4, <1>1 DEF ThreadsStep
<1>6. ASSUME NEW t \in Thread, IdleStart(t)
      PROVE  PointsInv' /\ CallsUntouched
  <2> USE <1>0, <1>6 DEF IdleStart, sched_vars
  <2>1. SyncTypeOK'
    BY DEF SyncTypeOK, SchedTypeOK, ThreadPc
  <2>2. SyncPcMatches'
    BY DEF SyncTypeOK, SyncPcMatches, StatesAt, SyncPc, Halted, InLockCall, InWaitCall, ReleasesFirst
  <2>3. ClientsRunActive' /\ JoinSound'
    BY DEF SyncTypeOK, ClientsRunActive, JoinSound
  <2>4. CallsUntouched
    BY DEF SyncTypeOK, CallsUntouched, SyncPc
  <2> QED
    BY <2>1, <2>2, <2>3, <2>4, <1>1 DEF ThreadsStep
<1>7. ASSUME NEW t \in Thread, DisablePreempt(t) \/ EnablePreempt(t)
      PROVE  PointsInv' /\ CallsUntouched
  <2> USE <1>0, <1>7 DEF DisablePreempt, EnablePreempt, sched_vars
  <2>1. SyncTypeOK'
    BY DEF SyncTypeOK, SchedTypeOK
  <2>2. SyncPcMatches'
    BY DEF SyncPcMatches, InLockCall, InWaitCall
  <2>3. ClientsRunActive' /\ JoinSound'
    BY DEF ClientsRunActive, JoinSound
  <2>4. CallsUntouched
    BY DEF CallsUntouched
  <2> QED
    BY <2>1, <2>2, <2>3, <2>4, <1>1 DEF ThreadsStep
<1>8. ASSUME NEW t \in Thread, NEW u \in Thread, ThreadJoin(t, u)
      PROVE  PointsInv' /\ CallsUntouched
  <2> USE <1>0, <1>8 DEF ThreadJoin, sched_vars
  <2>1. SyncTypeOK'
    BY DEF SyncTypeOK, SchedTypeOK, ThreadPc, ThreadState
  <2>2. SyncPcMatches'
    BY DEF SyncTypeOK, SyncPcMatches, ClientsRunActive, StatesAt, SyncPc, Halted, InLockCall, InWaitCall, ReleasesFirst
  <2>3. ClientsRunActive' /\ JoinSound'
    BY DEF SyncTypeOK, ClientsRunActive, JoinSound
  <2>4. CallsUntouched
    BY DEF SyncTypeOK, CallsUntouched, SyncPc
  <2> QED
    BY <2>1, <2>2, <2>3, <2>4, <1>1 DEF ThreadsStep
<1>9. ASSUME NEW t \in Thread, ThreadExit(t)
      PROVE  PointsInv' /\ CallsUntouched
  <2> USE <1>0, <1>9 DEF ThreadExit
  <2>1. SyncTypeOK'
    BY DEF SyncTypeOK, SchedTypeOK, ThreadPc, ThreadState
  <2>2. SyncPcMatches'
    <3>1. pc'[t] = "exit" /\ state'[t] = "finishing" /\ held[t] = {} /\ list[t] = <<>> /\ want[t] = NoMutex
      BY DEF SyncTypeOK, SchedTypeOK, SyncPcMatches, ReleasesFirst, InLockCall, InWaitCall
    <3>2. \A v \in Thread \ {t} : pc'[v] = pc[v] /\ state'[v] = state[v]
      BY DEF SyncTypeOK, SchedTypeOK
    <3>3. /\ SyncPcMatches /\ current \in Thread /\ {t} \in SUBSET Thread
          /\ pc[t] = "run" /\ preempt_cnt = 0 /\ t # kthread
          /\ UNCHANGED <<current, idle_thread, preempt_cnt, held, want, list>>
      OBVIOUS
    <3> HIDE <1>0, <1>9
    <3>4. \A v \in {t} :
             /\ pc[v] \notin SyncPc /\ list[v] = <<>> /\ want[v] = NoMutex
             /\ held[v] = {}
             /\ pc'[v] = "exit" /\ state'[v] = "finishing"
             /\ pc'[v] = "idle" <=> pc[v] \in {"idling", "idle"}
             /\ v # kthread
      BY <3>1, <3>3 DEF SyncPc
    <3> QED
      BY ZenonT(40), <3>2, <3>3, <3>4, PointsMatch
  <2>3. ClientsRunActive' /\ JoinSound'
    BY DEF SyncTypeOK, ClientsRunActive, JoinSound
  <2>4. CallsUntouched
    BY DEF SyncTypeOK, CallsUntouched, SyncPc
  <2> QED
    BY <2>1, <2>2, <2>3, <2>4, <1>1 DEF ThreadsStep
<1>10. ASSUME NEW t \in Thread, ThreadDestroy(t)
      PROVE  PointsInv' /\ CallsUntouched
  <2> USE <1>0, <1>10 DEF ThreadDestroy
  <2> DEFINE u == target[t]
  <2>0. /\ u \in Thread /\ u # t /\ pc[u] = "exit" /\ u # kthread /\ state[t] = "active"
        /\ held[u] = {} /\ list[u] = <<>> /\ want[u] = NoMutex
        /\ target[u] = NoThread /\ preempt_cnt = 0
        /\ \A v \in Thread : target[v] = u => v = t
    <3>1. u \in Thread /\ u # t /\ state[u] = "finished" /\ \A v \in Thread : target[v] = u => v = t
      BY DEF SyncTypeOK, JoinSound
    <3>2. state[t] = "active" /\ preempt_cnt = 0
      BY DEF ClientsRunActive, Halted
    <3> QED
      BY <3>1, <3>2, OffCpuPoints
  <2>1. SyncTypeOK'
    BY <2>0 DEF SyncTypeOK, SchedTypeOK, ThreadPc, ThreadState
  <2>2. SyncPcMatches'
    <3>1. /\ pc'[t] = "run" /\ state'[t] = "active" /\ list[t] = <<>> /\ want[t] = NoMutex
          /\ pc'[u] = "none" /\ state'[u] = "free"
      <4>1. pc'[t] = "run" /\ pc'[u] = "none"
        BY <2>0 DEF SyncTypeOK
      <4>2. state'[t] = "active" /\ state'[u] = "free"
        BY <2>0 DEF SyncTypeOK, SchedTypeOK
      <4>3. list[t] = <<>> /\ want[t] = NoMutex
        BY <2>0 DEF SyncPcMatches, InLockCall, InWaitCall
      <4> QED
        BY <4>1, <4>2, <4>3
    <3>2. \A v \in Thread \ {t, u} : pc'[v] = pc[v] /\ state'[v] = state[v]
      BY <2>0 DEF SyncTypeOK, SchedTypeOK
    <3>3. /\ SyncPcMatches /\ current \in Thread /\ {t, u} \in SUBSET Thread
          /\ pc[t] = "reap"
          /\ UNCHANGED <<current, idle_thread, preempt_cnt, held, want, list>>
      BY <2>0
    <3> HIDE <1>0, <1>10
    <3> QED
      BY <2>0, <3>1, <3>2, <3>3, PointsMatch DEF SyncPc
  <2>3. ClientsRunActive' /\ JoinSound'
    BY <2>0 DEF SyncTypeOK, ClientsRunActive, JoinSound
  <2>4. CallsUntouched
    BY <2>0 DEF SyncTypeOK, CallsUntouched, SyncPc
  <2> QED
    BY <2>1, <2>2, <2>3, <2>4, <1>1 DEF ThreadsStep
<1>11. ASSUME NEW t \in Thread, IdleMark(t)
      PROVE  PointsInv' /\ CallsUntouched
  <2> USE <1>0, <1>11 DEF IdleMark
  <2>0. idle_thread = t /\ t = kthread /\ preempt_cnt = 0 /\ held[t] = {}
    BY DEF SyncPcMatches, SchedTypeOK, Halted, SyncPc
  <2>1. SyncTypeOK'
    BY <2>0 DEF SyncTypeOK, SchedTypeOK, ThreadPc, ThreadState
  <2>2. SyncPcMatches'
    <3>1. pc'[t] = "idle" /\ state'[t] = "idle" /\ list[t] = <<>> /\ want[t] = NoMutex
      BY <2>0 DEF SyncTypeOK, SchedTypeOK, SyncPcMatches, InLockCall, InWaitCall
    <3>2. \A v \in Thread \ {t} : pc'[v] = pc[v] /\ state'[v] = state[v]
      BY <2>0 DEF SyncTypeOK, SchedTypeOK
    <3>3. /\ SyncPcMatches /\ current \in Thread /\ {t} \in SUBSET Thread
          /\ pc[t] = "idling"
          /\ UNCHANGED <<current, idle_thread, preempt_cnt, held, want, list>>
      OBVIOUS
    <3> HIDE <1>0, <1>11
    <3> QED
      BY ZenonT(40), <2>0, <3>1, <3>2, <3>3, PointsMatch DEF SyncPc
  <2>3. ClientsRunActive' /\ JoinSound'
    BY <2>0 DEF SyncTypeOK, ClientsRunActive, JoinSound
  <2>4. CallsUntouched
    BY <2>0 DEF SyncTypeOK, CallsUntouched, SyncPc
  <2> QED
    BY <2>1, <2>2, <2>3, <2>4, <1>1 DEF ThreadsStep
<1>12. ASSUME NEW t \in Thread, NEW u \in Thread, ThreadCreate(t, u)
      PROVE  PointsInv' /\ CallsUntouched
  <2> USE <1>0, <1>12 DEF ThreadCreate
  <2>0. /\ u # current /\ u # kthread /\ pc[u] = "none"
        /\ held[u] = {} /\ list[u] = <<>> /\ want[u] = NoMutex /\ target[u] = NoThread
    BY OffCpuPoints DEF ThreadCreate
  <2>1. SyncTypeOK'
    BY <2>0 DEF SyncTypeOK, SchedTypeOK, ThreadPc, ThreadState
  <2>2. SyncPcMatches'
    <3>1. pc'[u] = "entry" /\ state'[u] = "blocked"
      BY DEF SyncTypeOK, SchedTypeOK
    <3>2. \A v \in Thread \ {u} : pc'[v] = pc[v] /\ state'[v] = state[v]
      BY <2>0 DEF SyncTypeOK, SchedTypeOK
    <3>3. /\ SyncPcMatches /\ current \in Thread /\ {u} \in SUBSET Thread
          /\ u \in Thread
          /\ UNCHANGED <<current, idle_thread, preempt_cnt, held, want, list>>
      OBVIOUS
    <3> HIDE <1>0, <1>12
    <3> QED
      BY <2>0, <3>1, <3>2, <3>3, PointsMatch DEF SyncPc
  <2>3. ClientsRunActive' /\ JoinSound'
    BY <2>0 DEF SyncTypeOK, ClientsRunActive, JoinSound
  <2>4. CallsUntouched
    BY <2>0 DEF SyncTypeOK, CallsUntouched, SyncPc
  <2> QED
    BY <2>1, <2>2, <2>3, <2>4, <1>1 DEF ThreadsStep
<1>13. ASSUME NEW t \in Thread, NEW u \in Thread, Fork(t, u)
      PROVE  PointsInv' /\ CallsUntouched
  <2> USE <1>0, <1>13 DEF Fork
  <2>0. /\ u # current /\ u # kthread /\ pc[u] = "none"
        /\ held[u] = {} /\ list[u] = <<>> /\ want[u] = NoMutex /\ target[u] = NoThread
    BY OffCpuPoints DEF Fork
  <2>1. SyncTypeOK'
    <3>1. SchedTypeOK' /\ pc' \in [Thread -> ThreadPc \cup SyncPc]
      BY <1>s DEF ThreadsStep, SyncTypeOK, ThreadPc
    <3> QED
      BY <3>1 DEF SyncTypeOK
  <2>2. SyncPcMatches'
    <3>1. pc'[u] = "entry_null" /\ state'[u] = "active"
      BY DEF SyncTypeOK, SchedTypeOK
    <3>2. \A v \in Thread \ {u} : pc'[v] = pc[v] /\ state'[v] = state[v]
      BY <2>0 DEF SyncTypeOK, SchedTypeOK
    <3>3. /\ SyncPcMatches /\ current \in Thread /\ {u} \in SUBSET Thread
          /\ u \in Thread
          /\ UNCHANGED <<current, idle_thread, preempt_cnt, held, want, list>>
      OBVIOUS
    <3> HIDE <1>0, <1>13
    <3> QED
      BY <2>0, <3>1, <3>2, <3>3, PointsMatch DEF SyncPc
  <2>3. ClientsRunActive' /\ JoinSound'
    BY <2>0 DEF SyncTypeOK, ClientsRunActive, JoinSound
  <2>4. CallsUntouched
    BY <2>0 DEF SyncTypeOK, CallsUntouched, SyncPc
  <2> QED
    BY <2>1, <2>2, <2>3, <2>4, <1>1 DEF ThreadsStep
<1>14. ASSUME NEW force \in BOOLEAN, NEW r \in -SLICE .. SLICE, DoSchedule(force, r),
              preempt_cnt = 0,
              \/ UNCHANGED pc
              \/ pc[current] = "joinsched" /\ GoTo(current, "join"),
              UNCHANGED <<idle_thread, preempt_cnt, target>>
       PROVE  PointsInv' /\ CallsUntouched
  <2> DEFINE l == IF pc[current] = "joinsched" /\ GoTo(current, "join") THEN "join" ELSE pc[current]
  <2>1. /\ l = pc[current] \/ <<pc[current], l>> = <<"joinsched", "join">>
        /\ pc' = [pc EXCEPT ![current] = l]
    BY <1>0, <1>14 DEF SyncTypeOK
  <2>2. UNCHANGED <<idle_thread, preempt_cnt, target, mutex_vars>>
    BY <1>0, <1>14 DEF mutex_vars
  <2> HIDE DEF l
  <2>3. PointsInv' /\ \A t \in Thread : pc[t] \in SyncPc => state'[t] = state[t]
    BY <1>14, <2>1, <2>2, SyncSchedule
  <2>4. \A t \in Thread : /\ pc[t] \in SyncPc => pc'[t] = pc[t]
                          /\ pc'[t] \in SyncPc => pc'[t] = pc[t]
    BY <1>0, <2>1 DEF SyncTypeOK, SyncPc
  <2> QED
    BY <2>3, <2>4 DEF CallsUntouched
<1>15. ASSUME NEW t \in Thread, ThreadExitSched(t) \/ JoinSched(t) \/ IdleSched(t)
       PROVE  PointsInv' /\ CallsUntouched
  BY <1>0, <1>14, <1>15 DEF ThreadExitSched, JoinSched, IdleSched, ForceSchedule
<1>16. ASSUME Timer
       PROVE  PointsInv' /\ CallsUntouched
  <2> DEFINE r == IF ran < SLICE THEN ran + 1 ELSE SLICE
  <2>1. r \in -SLICE .. SLICE
    BY <1>0
  <2>2. CASE preempt_cnt # 0
    <3>1. UNCHANGED <<current, runqueue, state, tss_rsp0, idle_thread, preempt_cnt, pc, target>>
      BY <1>16, <2>2 DEF Timer, Schedule
    <3>2. SchedTypeOK' /\ SchedInv'
      BY <1>16, <1>s DEF ThreadsStep
    <3>3. SyncTypeOK' /\ SyncPcMatches' /\ ClientsRunActive' /\ JoinSound' /\ CallsUntouched
      BY <1>0, <3>1, <3>2 DEF SyncTypeOK, SyncPcMatches, InLockCall, InWaitCall,
                              ClientsRunActive, JoinSound, CallsUntouched
    <3> QED
      BY <3>2, <3>3
  <2>3. CASE preempt_cnt = 0
    BY <1>14, <1>16, <2>1, <2>3 DEF Timer, Schedule
  <2> QED
    BY <2>2, <2>3
<1>17. ASSUME NEW t \in Thread, NEW u \in Thread, StartThread(t, u)
       PROVE  PointsInv' /\ CallsUntouched
  <2>1. /\ Activate(u) /\ pc[u] = "entry" /\ pc[current] = "run"
        /\ UNCHANGED <<current, ran, tss_rsp0, idle_thread, preempt_cnt, pc, target>>
    BY <1>17 DEF StartThread, ThreadActivate
  <2>2. SchedTypeOK' /\ SchedInv'
    BY <1>0, <2>1, ActivateKeeps DEF ClientsRunActive
  <2>3. /\ \A v \in Thread \ {u} : state'[v] = state[v]
        /\ state'[u] = state[u] \/ (state[u] = "blocked" /\ state'[u] = "active")
    BY <1>0, <2>1 DEF Activate, ActivateIn, SchedTypeOK
  <2>4. SyncTypeOK'
    BY <1>0, <2>1, <2>2 DEF SyncTypeOK
  <2>5. SyncPcMatches'
    <3>1. {"active", "blocked"} \subseteq StatesAt["entry"] /\ pc[u] \notin SyncPc \cup {"run"}
      BY <2>1 DEF StatesAt, SyncPc
    <3>2. \A v \in Thread :
             /\ pc'[v] \in SyncPc \ {"bcast"} => state'[v] \in {"active", "blocked"}
             /\ pc'[v] \in {"run", "bcast"} => state'[v] = "active"
             /\ pc'[v] \in DOMAIN StatesAt => state'[v] \in StatesAt[pc'[v]]
      BY <1>0, <2>1, <2>3, <3>1 DEF SyncPcMatches, SyncPc
    <3>3. pc'[current'] \notin {"lockret", "relock"}
      BY <2>1
    <3> QED
      BY <1>0, <2>1, <3>2, <3>3 DEF SyncPcMatches, InLockCall, InWaitCall
  <2>6. ClientsRunActive' /\ JoinSound'
    <3>1. ClientsRunActive'
      BY <1>0, <2>1, <2>3 DEF ClientsRunActive
    <3>2. \A v \in Thread : /\ state[v] = "finished" => state'[v] = "finished"
                            /\ state[v] # "free" => state'[v] # "free"
      BY <2>3
    <3>3. JoinSound'
      BY <1>0, <2>1, <3>2 DEF JoinSound, SyncTypeOK
    <3> QED
      BY <3>1, <3>3
  <2>7. CallsUntouched
    BY <1>0, <2>1, <2>3 DEF CallsUntouched, SyncPc
  <2> QED
    BY <2>2, <2>4, <2>5, <2>6, <2>7
<1> QED
  BY <1>2, <1>3, <1>4, <1>5, <1>6, <1>7, <1>8, <1>9, <1>10, <1>11, <1>12, <1>13,
     <1>15, <1>16, <1>17
  DEF SchedulerStep, ThreadsStep

-----------------------------------------------------------------------------
\* Who is waiting, list by list.
LEMMA WaitingIs ==
    ASSUME NEW t
    PROVE  /\ t \in Waiting <=> \/ \E m \in Mutex : t \in ToSet(waitq[m])
                                \/ \E c \in Cond : t \in ToSet(condq[c])
                                \/ \E u \in Thread : t \in ToSet(list[u])
           /\ t \in Waiting' <=> \/ \E m \in Mutex : t \in ToSet(waitq'[m])
                                 \/ \E c \in Cond : t \in ToSet(condq'[c])
                                 \/ \E u \in Thread : t \in ToSet(list'[u])
  BY DEF Waiting

\* The nodes on the lists are threads.
LEMMA NodesAreThreads ==
    ASSUME SyncTypeOK
    PROVE  /\ \A m \in Mutex : ToSet(waitq[m]) \subseteq Thread
           /\ \A c \in Cond : ToSet(condq[c]) \subseteq Thread
           /\ \A u \in Thread : ToSet(list[u]) \subseteq Thread
  BY DEF SyncTypeOK, ToSet

\* A node that is on some list is on no other; its thread is blocked inside a call.
LEMMA WaitersSleep ==
    ASSUME NodesAlive, NoLostWakeup, SyncTypeOK, NEW t \in Waiting
    PROVE  /\ t \in Thread /\ state[t] = "blocked"
           /\ InLockCall(t) \/ InWaitCall(t)
<1>1. /\ \A m \in Mutex : ToSet(waitq[m]) \subseteq Thread
      /\ \A c \in Cond : ToSet(condq[c]) \subseteq Thread
      /\ \A u \in Thread : ToSet(list[u]) \subseteq Thread
  BY DEF SyncTypeOK, ToSet
<1>2. t \in Thread /\ (InLockCall(t) \/ InWaitCall(t))
  BY <1>1, WaitingIs DEF NodesAlive
<1> QED
  BY <1>2 DEF NoLostWakeup

CallsInv == OneOwner /\ NoLostWakeup /\ NodesAlive

\* A step after which the same threads are in the same calls, in the same states,
\* on the same lists, changes nothing in all this.
LEMMA SameCalls ==
    ASSUME CallsInv,
           \A t \in Thread : /\ InLockCall(t)' <=> InLockCall(t)
                             /\ InWaitCall(t)' <=> InWaitCall(t)
                             /\ InLockCall(t) \/ InWaitCall(t) => state'[t] = state[t],
           UNCHANGED mutex_vars, SyncTypeOK
    PROVE  CallsInv' /\ \A m \in Mutex : Owners(m)' = Owners(m)
<1> USE DEF CallsInv, mutex_vars
<1>1. \A m \in Mutex : HandedTo(m)' = HandedTo(m) /\ Owners(m)' = Owners(m)
  BY DEF HandedTo, Owners
<1>2. OneOwner'
  BY <1>1 DEF OneOwner
<1>3. Waiting' = Waiting
  BY DEF Waiting
<1>4. NoLostWakeup'
  BY <1>3 DEF NoLostWakeup
<1>5. NodesAlive'
  <2>1. /\ \A m \in Mutex : ToSet(waitq[m]) \subseteq Thread
        /\ \A c \in Cond : ToSet(condq[c]) \subseteq Thread
        /\ \A u \in Thread : ToSet(list[u]) \subseteq Thread
    BY DEF SyncTypeOK, ToSet
  <2> QED
    BY <2>1 DEF NodesAlive
<1> QED
  BY <1>1, <1>2, <1>4, <1>5

-----------------------------------------------------------------------------
\* The nested critical sections: the running thread may have marked itself blocked
\* when it activates another one (threads.c:317-325, mutex.c:27, condition.c:25-29).
LEMMA ActivateInKeeps ==
    ASSUME SchedTypeOK, SchedInv, NEW u \in Thread, u # current,
           NEW st, \/ st = state
                   \/ current # kthread /\ st = [state EXCEPT ![current] = "blocked"],
           ActivateIn(st, u),
           UNCHANGED <<current, idle_thread, ran, tss_rsp0>>
    PROVE  SchedTypeOK' /\ SchedInv'
<1> USE DEF SchedTypeOK, SchedInv
<1>1. /\ st \in [Thread -> ThreadState]
      /\ \A t \in Thread : t # current => st[t] = state[t]
      /\ st[current] \in {state[current], "blocked"}
      /\ current = kthread => st[current] = state[current]
      /\ current \in Thread /\ current \notin Queued
  BY DEF ThreadState, RunqueueSound
<1>q. Queued \subseteq Thread
  BY DEF Queued, ToSet
<1>2. CASE state[u] = "blocked"
  <2>1. u \notin Queued
    BY <1>2 DEF RunqueueSound
  <2>2. state' = [st EXCEPT ![u] = "active"] /\ runqueue' = Append(runqueue, u)
    BY <1>1, <1>2 DEF ActivateIn, Enqueue
  <2>3. runqueue' \in Seq(Thread) /\ IsInjective(runqueue') /\ Queued' = Queued \cup {u}
    BY <2>1, <2>2, AppendQueue DEF Queued, RunqueueSound
  <2>4. /\ state'[u] = "active" /\ state' \in [Thread -> ThreadState]
        /\ \A t \in Thread : t # u => state'[t] = st[t]
    BY <1>1, <2>2 DEF ThreadState
  <2>5. SchedTypeOK'
    BY <2>3, <2>4
  <2>6. RunqueueSound'
    BY <1>1, <1>q, <2>3, <2>4 DEF RunqueueSound
  <2>7. NoRunnableLost'
    BY <1>1, <2>3, <2>4 DEF NoRunnableLost
  <2>8. FinishedIsOffCpu'
    BY <1>1, <1>2, <2>3, <2>4 DEF FinishedIsOffCpu
  <2>9. BootThread'
    BY <1>1, <1>2, <2>4 DEF BootThread
  <2> QED
    BY <2>5, <2>6, <2>7, <2>8, <2>9
<1>3. CASE state[u] # "blocked"
  <2>1. state' = st /\ UNCHANGED runqueue
    BY <1>1, <1>3 DEF ActivateIn
  <2>2. Queued' = Queued
    BY <2>1 DEF Queued
  <2>3. SchedTypeOK' /\ RunqueueSound' /\ BootThread'
    BY <1>1, <1>q, <2>1, <2>2 DEF RunqueueSound, BootThread
  <2>4. NoRunnableLost' /\ FinishedIsOffCpu'
    BY <1>1, <2>1, <2>2 DEF NoRunnableLost, FinishedIsOffCpu
  <2> QED
    BY <2>3, <2>4
<1> QED
  BY <1>2, <1>3

\* The running thread marks itself blocked (mutex.c:27, condition.c:25).
LEMMA SleepKeeps ==
    ASSUME SchedTypeOK, SchedInv, current # kthread,
           state' = [state EXCEPT ![current] = "blocked"],
           UNCHANGED <<current, idle_thread, runqueue, ran, tss_rsp0>>
    PROVE  SchedTypeOK' /\ SchedInv'
<1>1. current \notin Queued /\ Queued' = Queued
  BY DEF SchedInv, RunqueueSound, Queued
<1> QED
  BY <1>1 DEF SchedTypeOK, SchedInv, ThreadState, RunqueueSound, NoRunnableLost,
              FinishedIsOffCpu, BootThread

\* The running thread, at a point of a client or past schedule(), is on no list.
LEMMA RunnerOnNoList ==
    ASSUME SyncTypeOK, NodesAlive, NoLostWakeup, state[current] = "active"
    PROVE  current \notin Waiting
  BY WaitersSleep

\* The steps of the calls: the running thread moves on, perhaps to sleep, and may
\* wake threads; the points and the states still agree.
LEMMA CallMoves ==
    ASSUME PointsInv, SyncTypeOK', SchedInv',
           pc[current] \in {"run", "relock", "lockret", "bcast"}, state[current] = "active",
           NEW l \in {"run", "lockwait", "condwait", "bcast"},
           pc' = [pc EXCEPT ![current] = l],
           \/ state'[current] = "active"
           \/ l \in {"lockwait", "condwait"} /\ state'[current] = "blocked",
           \A v \in Thread \ {current} :
              /\ state'[v] = state[v] \/ (state[v] = "blocked" /\ state'[v] = "active")
              /\ want'[v] = want[v] /\ held'[v] = held[v] /\ list'[v] = list[v],
           want'[current] # NoMutex <=> l \in {"lockwait", "condwait"},
           l \in {"lockwait", "condwait"} => /\ want'[current] \notin held'[current]
                                             /\ current # kthread /\ preempt_cnt = 0,
           list'[current] # <<>> => l = "bcast",
           UNCHANGED <<current, idle_thread, preempt_cnt, target>>
    PROVE  PointsInv'
<1> USE DEF PointsInv
<1>1. /\ current \in Thread /\ pc \in [Thread -> ThreadPc \cup SyncPc]
      /\ pc'[current] = l /\ \A v \in Thread \ {current} : pc'[v] = pc[v]
  BY DEF SyncTypeOK, SchedTypeOK
<1>2. l # "relock" /\ l # "lockret" /\ l \notin {"idling", "idle", "join", "joinsched", "reap"}
  OBVIOUS
<1>3. \A v \in Thread \ {current} :
        /\ pc'[v] \in SyncPc \ {"bcast"} => state'[v] \in {"active", "blocked"}
        /\ pc'[v] \in {"run", "bcast"} => state'[v] = "active"
        /\ pc'[v] \in DOMAIN StatesAt => state'[v] \in StatesAt[pc'[v]]
        /\ want'[v] # NoMutex <=> InLockCall(v)' \/ InWaitCall(v)'
        /\ InLockCall(v)' \/ InWaitCall(v)' => want'[v] \notin held'[v]
        /\ held'[v] # {} => pc'[v] \in {"run", "bcast"} \cup SyncPc \cup Halted
        /\ list'[v] # <<>> => pc'[v] = "bcast"
        /\ idle_thread' = v <=> pc'[v] \in {"idling", "idle"}
  <2> SUFFICES ASSUME NEW v \in Thread, v # current
               PROVE  /\ pc[v] \in SyncPc \ {"bcast"} => state'[v] \in {"active", "blocked"}
                      /\ pc[v] \in {"run", "bcast"} => state'[v] = "active"
                      /\ pc[v] \in DOMAIN StatesAt => state'[v] \in StatesAt[pc[v]]
                      /\ want[v] # NoMutex <=> InLockCall(v) \/ InWaitCall(v)
                      /\ InLockCall(v) \/ InWaitCall(v) => want[v] \notin held[v]
                      /\ held[v] # {} => pc[v] \in {"run", "bcast"} \cup SyncPc \cup Halted
                      /\ list[v] # <<>> => pc[v] = "bcast"
                      /\ idle_thread = v <=> pc[v] \in {"idling", "idle"}
    BY <1>1 DEF InLockCall, InWaitCall
  <2>1. \A p \in DOMAIN StatesAt : "blocked" \in StatesAt[p] => "active" \in StatesAt[p]
    BY DEF StatesAt
  <2> QED
    BY <2>1 DEF SyncPcMatches
<1>4. /\ l \in {"run", "bcast"} => state'[current] = "active"
      /\ l \in SyncPc \ {"bcast"} => state'[current] \in {"active", "blocked"}
      /\ l \in DOMAIN StatesAt => state'[current] \in StatesAt[l]
      /\ want'[current] # NoMutex <=> l \in {"lockwait", "condwait"}
      /\ l \in {"run", "bcast"} \cup SyncPc
      /\ idle_thread # current
  BY <1>1 DEF StatesAt, SyncPc, SyncPcMatches
<1>5. SyncPcMatches'
  <2>1. InLockCall(current)' \/ InWaitCall(current)' <=> l \in {"lockwait", "condwait"}
    BY <1>1 DEF InLockCall, InWaitCall
  <2>2. \A v \in Thread :
        /\ pc'[v] \in SyncPc \ {"bcast"} => state'[v] \in {"active", "blocked"}
        /\ pc'[v] \in {"run", "bcast"} => state'[v] = "active"
        /\ pc'[v] \in DOMAIN StatesAt => state'[v] \in StatesAt[pc'[v]]
        /\ want'[v] # NoMutex <=> InLockCall(v)' \/ InWaitCall(v)'
        /\ InLockCall(v)' \/ InWaitCall(v)' => want'[v] \notin held'[v]
        /\ held'[v] # {} => pc'[v] \in {"run", "bcast"} \cup SyncPc \cup Halted
        /\ list'[v] # <<>> => pc'[v] = "bcast"
        /\ idle_thread' = v <=> pc'[v] \in {"idling", "idle"}
    <3>1. CASE l \in {"lockwait", "condwait"}
      BY <1>1, <1>2, <1>3, <1>4, <2>1, <3>1
    <3>2. CASE l \in {"run", "bcast"}
      BY <1>1, <1>2, <1>3, <1>4, <2>1, <3>2
    <3> QED
      BY <3>1, <3>2
  <2>3. preempt_cnt' > 0 => pc'[current'] \in {"run", "bcast"} \cup Halted
    BY <1>1
  <2>4. /\ pc'[kthread] \notin {"none", "exit", "entry", "entry_null"}
        /\ ~InLockCall(kthread)' /\ ~InWaitCall(kthread)'
    BY <1>1 DEF SyncPcMatches, InLockCall, InWaitCall
  <2>5. pc'[current'] \notin {"lockret", "relock"}
    BY <1>1, <1>2
  <2> QED
    BY <2>2, <2>3, <2>4, <2>5 DEF SyncPcMatches
<1>6. ClientsRunActive'
  BY <1>1, <1>2 DEF ClientsRunActive
<1>7. JoinSound'
  <2>1. \A v \in Thread : /\ state[v] = "finished" => state'[v] = "finished"
                          /\ state[v] # "free" => state'[v] # "free"
    OBVIOUS
  <2>2. \A v \in Thread : /\ pc'[v] = "reap" <=> pc[v] = "reap"
                          /\ pc'[v] \in {"join", "joinsched", "reap"} <=> pc[v] \in {"join", "joinsched", "reap"}
    BY <1>1, <1>2
  <2> QED
    BY <2>1, <2>2 DEF JoinSound, SyncTypeOK
<1> QED
  BY <1>5, <1>6, <1>7

-----------------------------------------------------------------------------
\* Ownership and the wait lists, action by action.  The first lemma is what every
\* action of a call starts from.
LEMMA RunnerIs ==
    ASSUME SyncInv, NEW t \in Thread, current = t,
           pc[t] \in {"run", "relock", "lockret", "bcast"}
    PROVE  /\ state[t] = "active" /\ t \notin Waiting
           /\ pc[t] # "bcast" => list[t] = <<>>
           /\ \A m \in Mutex : t \notin ToSet(waitq[m])
           /\ \A c \in Cond : t \notin ToSet(condq[c])
           /\ \A u \in Thread : t \notin ToSet(list[u])
<1>1. state[t] = "active"
  BY DEF SyncInv, SyncPcMatches
<1>2. t \notin Waiting
  BY <1>1, RunnerOnNoList DEF SyncInv
<1> QED
  BY <1>1, <1>2, WaitingIs DEF SyncInv, SyncPcMatches

\* The lists stay as they are and nobody on them leaves the call.
LEMMA ListsStay ==
    ASSUME SyncTypeOK, NodesAlive, UNCHANGED <<waitq, condq, list>>,
           \A v \in Thread : v \in Waiting =>
              /\ InLockCall(v) => InLockCall(v)' /\ want'[v] = want[v]
              /\ InWaitCall(v) => InWaitCall(v)'
    PROVE  NodesAlive'
<1>1. /\ \A m \in Mutex : \A v \in ToSet(waitq[m]) : v \in Thread /\ v \in Waiting
      /\ \A c \in Cond : \A v \in ToSet(condq[c]) : v \in Thread /\ v \in Waiting
      /\ \A u \in Thread : \A v \in ToSet(list[u]) : v \in Thread /\ v \in Waiting
  BY WaitingIs DEF SyncTypeOK, ToSet
<1>2. \A m \in Mutex : /\ IsInjective(waitq'[m])
                       /\ \A v \in ToSet(waitq'[m]) : InLockCall(v)' /\ want'[v] = m
  BY <1>1 DEF NodesAlive
<1>3. \A c \in Cond : /\ IsInjective(condq'[c])
                      /\ \A v \in ToSet(condq'[c]) : InWaitCall(v)'
                      /\ \A d \in Cond : d # c => ToSet(condq'[c]) \cap ToSet(condq'[d]) = {}
  BY <1>1 DEF NodesAlive
<1>4. \A u \in Thread : /\ IsInjective(list'[u])
                        /\ \A v \in ToSet(list'[u]) : InWaitCall(v)'
                        /\ \A c \in Cond : ToSet(list'[u]) \cap ToSet(condq'[c]) = {}
                        /\ \A v \in Thread : v # u => ToSet(list'[u]) \cap ToSet(list'[v]) = {}
  BY <1>1 DEF NodesAlive
<1> QED
  BY <1>2, <1>3, <1>4 DEF NodesAlive

\* mutex_lock() on a free mutex (mutex.c:22-34).
LEMMA LockKeeps ==
    ASSUME SyncInv, NEW t \in Thread, NEW m \in Mutex, MutexLock(t, m)
    PROVE  /\ SyncInv' /\ Owners(m) = {} /\ Owners(m)' = {t}
           /\ \A n \in Mutex : n # m => Owners(n)' = Owners(n)
<1>0. /\ SyncTypeOK /\ SchedTypeOK /\ SchedInv /\ PointsInv /\ CallsInv /\ SyncPcMatches
      /\ OneOwner /\ NoLostWakeup /\ NodesAlive
  BY DEF SyncInv, PointsInv, CallsInv, SyncTypeOK
<1>1. /\ t = current /\ pc[t] \in {"run", "relock"} /\ ~locked[m] /\ m \notin held[t]
      /\ locked' = [locked EXCEPT ![m] = TRUE]
      /\ held' = [held EXCEPT ![t] = @ \cup {m}]
      /\ want' = [want EXCEPT ![t] = NoMutex]
      /\ pc' = [pc EXCEPT ![t] = "run"]
      /\ UNCHANGED <<current, ran, tss_rsp0, idle_thread, preempt_cnt, target,
                     runqueue, state, waitq, condq, list>>
  BY DEF MutexLock, CallsLock, At, GoTo, others
<1>2. /\ state[t] = "active" /\ t \notin Waiting /\ list[t] = <<>>
      /\ \A n \in Mutex : t \notin ToSet(waitq[n])
      /\ \A c \in Cond : t \notin ToSet(condq[c])
      /\ \A u \in Thread : t \notin ToSet(list[u])
  BY <1>1, RunnerIs
<1>3. PointsInv'
  <2>1. SyncTypeOK'
    BY <1>0, <1>1 DEF SyncTypeOK, SchedTypeOK, ThreadPc
  <2>2. SchedInv'
    BY <1>0, <1>1 DEF SchedInv, RunqueueSound, NoRunnableLost, FinishedIsOffCpu, BootThread, Queued
  <2>3. want'[t] = NoMutex /\ list'[t] = <<>> /\ state'[t] = "active"
        /\ \A v \in Thread \ {t} : want'[v] = want[v] /\ held'[v] = held[v]
    BY <1>0, <1>1, <1>2 DEF SyncTypeOK
  <2> QED
    BY <1>0, <1>1, <1>2, <2>1, <2>2, <2>3, CallMoves
<1>4. /\ \A v \in Thread : v # t => (InLockCall(v)' <=> InLockCall(v)) /\ (InWaitCall(v)' <=> InWaitCall(v))
      /\ ~InLockCall(t)' /\ ~InWaitCall(t)' /\ ~InLockCall(t)
      /\ \A v \in Thread : v # t => want'[v] = want[v] /\ held'[v] = held[v]
      /\ held'[t] = held[t] \cup {m} /\ waitq' = waitq
      /\ locked'[m] = TRUE /\ \A n \in Mutex : n # m => locked'[n] = locked[n]
  BY <1>0, <1>1 DEF SyncTypeOK, InLockCall, InWaitCall
<1>5. Owners(m) = {} /\ waitq[m] = <<>>
  BY <1>0, <1>1 DEF OneOwner
<1>6. \A n \in Mutex : HandedTo(n)' = HandedTo(n)
  BY <1>4 DEF HandedTo
<1>7. /\ \A n \in Mutex : n # m => Owners(n)' = Owners(n)
      /\ Owners(m)' = {t}
  BY <1>4, <1>5, <1>6 DEF Owners
<1>8. OneOwner'
  <2>1. \A n \in Mutex : \A v \in HandedTo(n)' : v \in Thread /\ v # t
    BY <1>4 DEF HandedTo
  <2>2. \A n \in Mutex : \A v \in HandedTo(n)' : n \notin held'[v]
    BY <1>0, <1>4, <1>6, <2>1 DEF OneOwner
  <2>3. \A n \in Mutex : /\ \A v, u \in Owners(n)' : v = u
                         /\ locked'[n] <=> Owners(n)' # {}
                         /\ waitq'[n] # <<>> => locked'[n]
    BY <1>0, <1>4, <1>5, <1>7 DEF OneOwner
  <2> QED
    BY <2>2, <2>3 DEF OneOwner
<1>9. NoLostWakeup'
  <2>1. Waiting' = Waiting
    BY <1>1 DEF Waiting
  <2> QED
    BY <1>0, <1>1, <1>4, <2>1 DEF NoLostWakeup
<1>10. NodesAlive'
  BY <1>0, <1>1, <1>2, <1>4, ListsStay
<1> QED
  BY <1>3, <1>5, <1>7, <1>8, <1>9, <1>10 DEF SyncInv, PointsInv

\* mutex_lock() on a locked mutex, up to schedule() (mutex.c:22-31).
LEMMA LockWaitKeeps ==
    ASSUME SyncInv, NEW t \in Thread, NEW m \in Mutex, MutexLockWait(t, m)
    PROVE  SyncInv' /\ \A n \in Mutex : Owners(n)' = Owners(n)
<1>0. /\ SyncTypeOK /\ SchedTypeOK /\ SchedInv /\ PointsInv /\ SyncPcMatches
      /\ OneOwner /\ NoLostWakeup /\ NodesAlive
  BY DEF SyncInv, PointsInv, SyncTypeOK
<1>1. /\ t = current /\ pc[t] \in {"run", "relock"} /\ locked[m] /\ m \notin held[t]
      /\ t # kthread /\ preempt_cnt = 0
      /\ state' = [state EXCEPT ![t] = "blocked"]
      /\ waitq' = [waitq EXCEPT ![m] = Append(@, t)]
      /\ want' = [want EXCEPT ![t] = m]
      /\ pc' = [pc EXCEPT ![t] = "lockwait"]
      /\ UNCHANGED <<current, ran, tss_rsp0, idle_thread, preempt_cnt, target,
                     runqueue, locked, condq, list, held>>
  BY DEF MutexLockWait, CallsLock, At, GoTo, others
<1>2. /\ state[t] = "active" /\ t \notin Waiting /\ list[t] = <<>>
      /\ \A n \in Mutex : t \notin ToSet(waitq[n])
      /\ \A c \in Cond : t \notin ToSet(condq[c])
      /\ \A u \in Thread : t \notin ToSet(list[u])
  BY <1>1, RunnerIs
<1>3. /\ waitq'[m] = Append(waitq[m], t) /\ waitq'[m] \in Seq(Thread)
      /\ ToSet(waitq'[m]) = ToSet(waitq[m]) \cup {t}
      /\ IsInjective(waitq[m]) => IsInjective(waitq'[m])
      /\ \A n \in Mutex : n # m => waitq'[n] = waitq[n]
  <2>1. waitq[m] \in Seq(Thread) /\ waitq'[m] = Append(waitq[m], t)
    BY <1>0, <1>1 DEF SyncTypeOK
  <2>2. t \notin ToSet(waitq[m])
    BY <1>2
  <2>3. \A n \in Mutex : n # m => waitq'[n] = waitq[n]
    BY <1>0, <1>1 DEF SyncTypeOK
  <2> QED
    BY <2>1, <2>2, <2>3, AppendQueue
<1>4. PointsInv'
  <2>1. SchedTypeOK' /\ SchedInv'
    BY <1>0, <1>1, SleepKeeps
  <2>2. waitq' \in [Mutex -> Seq(Thread)]
    BY <1>0, <1>1, <1>3 DEF SyncTypeOK
  <2>3. SyncTypeOK'
    BY <1>0, <1>1, <2>1, <2>2 DEF SyncTypeOK, SyncPc
  <2>4. /\ want'[t] = m /\ m # NoMutex /\ list'[t] = <<>> /\ state'[t] = "blocked"
        /\ m \notin held'[t]
        /\ \A v \in Thread \ {t} : want'[v] = want[v] /\ state'[v] = state[v]
    BY <1>0, <1>1, <1>2 DEF SyncTypeOK, SchedTypeOK
  <2> QED
    BY <1>0, <1>1, <1>2, <2>1, <2>3, <2>4, CallMoves
<1>5. /\ \A v \in Thread : v # t => /\ InLockCall(v)' <=> InLockCall(v)
                                    /\ InWaitCall(v)' <=> InWaitCall(v)
                                    /\ want'[v] = want[v] /\ state'[v] = state[v]
      /\ InLockCall(t)' /\ ~InWaitCall(t)' /\ ~InLockCall(t)
      /\ want'[t] = m /\ state'[t] = "blocked"
  BY <1>0, <1>1 DEF SyncTypeOK, SchedTypeOK, InLockCall, InWaitCall
<1>6. \A n \in Mutex : HandedTo(n)' = HandedTo(n)
  <2> SUFFICES ASSUME NEW n \in Mutex, NEW v \in Thread
               PROVE  v \in HandedTo(n)' <=> v \in HandedTo(n)
    BY DEF HandedTo
  <2>1. CASE v = t
    BY <1>3, <1>5, <2>1 DEF HandedTo
  <2>2. CASE v # t
    <3>1. v \in ToSet(waitq'[n]) <=> v \in ToSet(waitq[n])
      BY <1>3, <2>2
    <3> QED
      BY <1>5, <2>2, <3>1 DEF HandedTo
  <2> QED
    BY <2>1, <2>2
<1>7. \A n \in Mutex : Owners(n)' = Owners(n)
  BY <1>1, <1>6 DEF Owners
<1>8. OneOwner'
  BY <1>0, <1>1, <1>3, <1>6, <1>7 DEF OneOwner
<1>9. NoLostWakeup'
  <2>1. \A v \in Thread : v \in Waiting' <=> v \in Waiting \/ v = t
    BY <1>1, <1>3, WaitingIs
  <2> QED
    BY <1>0, <1>5, <2>1 DEF NoLostWakeup
<1>10. NodesAlive'
  <2>1. /\ \A n \in Mutex : \A v \in ToSet(waitq[n]) : v \in Thread /\ v # t
        /\ \A c \in Cond : \A v \in ToSet(condq[c]) : v \in Thread /\ v # t
        /\ \A u \in Thread : \A v \in ToSet(list[u]) : v \in Thread /\ v # t
    BY <1>0, <1>2, NodesAreThreads
  <2>2. \A n \in Mutex : /\ IsInjective(waitq'[n])
                         /\ \A v \in ToSet(waitq'[n]) : InLockCall(v)' /\ want'[v] = n
    <3>1. \A n \in Mutex : \A v \in ToSet(waitq[n]) : InLockCall(v)' /\ want'[v] = n
      BY <1>0, <1>5, <2>1 DEF NodesAlive
    <3>2. \A n \in Mutex : IsInjective(waitq[n])
      BY <1>0 DEF NodesAlive
    <3>3. \A n \in Mutex : \A v \in ToSet(waitq'[n]) : v \in ToSet(waitq[n]) \/ (v = t /\ n = m)
      BY <1>3
    <3>4. \A n \in Mutex : IsInjective(waitq'[n])
      BY <1>3, <3>2
    <3> QED
      BY <1>5, <3>1, <3>3, <3>4
  <2>3. \A c \in Cond : /\ IsInjective(condq'[c])
                        /\ \A v \in ToSet(condq'[c]) : InWaitCall(v)'
                        /\ \A d \in Cond : d # c => ToSet(condq'[c]) \cap ToSet(condq'[d]) = {}
    BY SMTT(20), <1>0, <1>1, <1>5, <2>1 DEF NodesAlive
  <2>4. \A u \in Thread : /\ IsInjective(list'[u])
                          /\ \A v \in ToSet(list'[u]) : InWaitCall(v)'
                          /\ \A c \in Cond : ToSet(list'[u]) \cap ToSet(condq'[c]) = {}
                          /\ \A v \in Thread : v # u => ToSet(list'[u]) \cap ToSet(list'[v]) = {}
    <3>1. \A u \in Thread : \A v \in ToSet(list[u]) : InWaitCall(v)'
      BY <1>0, <1>5, <2>1 DEF NodesAlive
    <3> QED
      BY <1>0, <1>1, <3>1 DEF NodesAlive
  <2> QED
    BY <2>2, <2>3, <2>4 DEF NodesAlive
<1> QED
  BY <1>4, <1>7, <1>8, <1>9, <1>10 DEF SyncInv, PointsInv

\* mutex_lock() returns to a thread that has been handed the mutex (mutex.c:31-33).
LEMMA LockReturnKeeps ==
    ASSUME SyncInv, NEW t \in Thread, MutexLockReturn(t)
    PROVE  SyncInv' /\ \A n \in Mutex : Owners(n)' = Owners(n)
<1>0. /\ SyncTypeOK /\ SchedTypeOK /\ SchedInv /\ PointsInv /\ SyncPcMatches
      /\ OneOwner /\ NoLostWakeup /\ NodesAlive
  BY DEF SyncInv, PointsInv, SyncTypeOK
<1> DEFINE m == want[t]
<1>1. /\ t = current /\ pc[t] = "lockret"
      /\ held' = [held EXCEPT ![t] = @ \cup {m}]
      /\ want' = [want EXCEPT ![t] = NoMutex]
      /\ pc' = [pc EXCEPT ![t] = "run"]
      /\ UNCHANGED <<current, ran, tss_rsp0, idle_thread, preempt_cnt, target,
                     runqueue, state, locked, waitq, condq, list>>
  BY DEF MutexLockReturn, At, GoTo, others
<1>2. /\ state[t] = "active" /\ t \notin Waiting /\ list[t] = <<>>
      /\ \A n \in Mutex : t \notin ToSet(waitq[n])
  BY <1>1, RunnerIs
<1>3. InLockCall(t) /\ m \in Mutex /\ m \notin held[t]
  BY <1>0, <1>1 DEF InLockCall, SyncPcMatches, SyncTypeOK
<1>4. PointsInv'
  <2>1. SyncTypeOK'
    BY <1>0, <1>1, <1>3 DEF SyncTypeOK, SchedTypeOK, ThreadPc
  <2>2. SchedInv'
    BY <1>0, <1>1 DEF SchedInv, RunqueueSound, NoRunnableLost, FinishedIsOffCpu, BootThread, Queued
  <2>3. want'[t] = NoMutex /\ list'[t] = <<>> /\ state'[t] = "active"
        /\ \A v \in Thread \ {t} : want'[v] = want[v] /\ held'[v] = held[v]
    BY <1>0, <1>1, <1>2 DEF SyncTypeOK
  <2> QED
    BY <1>0, <1>1, <1>2, <2>1, <2>2, <2>3, CallMoves
<1>5. /\ \A v \in Thread : v # t => /\ InLockCall(v)' <=> InLockCall(v)
                                    /\ InWaitCall(v)' <=> InWaitCall(v)
                                    /\ want'[v] = want[v] /\ held'[v] = held[v]
      /\ ~InLockCall(t)' /\ ~InWaitCall(t)' /\ ~InWaitCall(t)
      /\ held'[t] = held[t] \cup {m}
  BY <1>0, <1>1 DEF SyncTypeOK, InLockCall, InWaitCall
<1>6. /\ t \in HandedTo(m)
      /\ \A n \in Mutex : HandedTo(n)' = HandedTo(n) \ {t}
      /\ \A n \in Mutex : t \in HandedTo(n) => n = m
  BY <1>1, <1>2, <1>3, <1>5 DEF HandedTo
<1>7. \A n \in Mutex : Owners(n)' = Owners(n)
  <2> SUFFICES ASSUME NEW n \in Mutex, NEW v \in Thread
               PROVE  v \in Owners(n)' <=> v \in Owners(n)
    BY DEF Owners, HandedTo
  <2> QED
    BY <1>3, <1>5, <1>6 DEF Owners
<1>8. OneOwner'
  <2>1. \A n \in Mutex : \A v \in HandedTo(n)' : n \notin held'[v]
    BY <1>0, <1>5, <1>6 DEF OneOwner, HandedTo
  <2> QED
    BY <1>0, <1>1, <1>7, <2>1 DEF OneOwner
<1>9. NoLostWakeup'
  <2>1. Waiting' = Waiting
    BY <1>1 DEF Waiting
  <2> QED
    BY <1>0, <1>1, <1>5, <2>1 DEF NoLostWakeup
<1>10. NodesAlive'
  BY <1>0, <1>1, <1>2, <1>5, ListsStay
<1> QED
  BY <1>4, <1>7, <1>8, <1>9, <1>10 DEF SyncInv, PointsInv

\* What mutex_unlock() does when t holds m: m is freed, or the first waiter, which
\* sleeps, is woken and owns it; other mutexes keep their owners.
HandsOver(t, m) ==
    /\ locked' \in [Mutex -> BOOLEAN] /\ waitq' \in [Mutex -> Seq(Thread)]
    /\ \A n \in Mutex : n # m => waitq'[n] = waitq[n]
    /\ IsInjective(waitq'[m])
    /\ Owners(m) = {t} /\ \A n \in Mutex : n # m => Owners(n)' = Owners(n)
    /\ \/ /\ waitq[m] = <<>> /\ UNCHANGED waitq
          /\ Owners(m)' = {}
          /\ \A v \in Thread \ {t} : state'[v] = state[v]
       \/ \E h \in Thread \ {t} :
             /\ waitq[m] # <<>> /\ h = Head(waitq[m]) /\ Owners(m)' = {h}
             /\ waitq'[m] = Tail(waitq[m])
             /\ ToSet(waitq'[m]) = ToSet(waitq[m]) \ {h} /\ h \in ToSet(waitq[m])
             /\ InLockCall(h) /\ want[h] = m
             /\ state[h] = "blocked" /\ state'[h] = "active"
             /\ \A v \in Thread \ {t, h} : state'[v] = state[v]

\* the states of the threads once t has marked itself blocked
Asleep(t) == [state EXCEPT ![t] = "blocked"]

\* mutex_unlock(), by a client or by condition_wait() after it has marked itself
\* blocked: the mutex has one owner before; it is freed, or the first waiter, which
\* sleeps, is woken and owns it (mutex.c:38-53).
LEMMA UnlockMoves ==
    ASSUME SyncInv, NEW t \in Thread, current = t, pc[t] = "run",
           NEW m \in Mutex, m \in held[t],
           NEW st, st = state \/ (t # kthread /\ st = Asleep(t)),
           Unlock(m, st),
           held' = [held EXCEPT ![t] = @ \ {m}],
           \E l \in {"run", "condwait"} : pc' = [pc EXCEPT ![t] = l],
           \A v \in Thread : v # t => want'[v] = want[v],
           UNCHANGED <<current, idle_thread, ran, tss_rsp0>>
    PROVE  SchedTypeOK' /\ SchedInv' /\ OneOwner' /\ HandsOver(t, m) /\ state'[t] = st[t]
<1>0. /\ SyncTypeOK /\ SchedTypeOK /\ SchedInv /\ SyncPcMatches
      /\ OneOwner /\ NoLostWakeup /\ NodesAlive
  BY DEF SyncInv, SyncTypeOK
<1>1. /\ waitq[m] \in Seq(Thread) /\ IsInjective(waitq[m])
      /\ waitq \in [Mutex -> Seq(Thread)] /\ locked \in [Mutex -> BOOLEAN]
      /\ state \in [Thread -> ThreadState]
  BY <1>0 DEF SyncTypeOK, SchedTypeOK, NodesAlive
<1>2. /\ st \in [Thread -> ThreadState]
      /\ \A v \in Thread \ {t} : st[v] = state[v]
  BY <1>1 DEF ThreadState, Asleep
<1>3. Owners(m) = {t} /\ locked[m] /\ HandedTo(m) = {}
  <2>1. t \in Owners(m)
    BY DEF Owners
  <2>2. \A v \in HandedTo(m) : v = t
    BY <1>0, <2>1 DEF OneOwner, Owners
  <2> QED
    BY <1>0, <2>1, <2>2 DEF OneOwner
<1>4. /\ \A v \in Thread \ {t} : /\ InLockCall(v)' <=> InLockCall(v)
                                 /\ want'[v] = want[v] /\ held'[v] = held[v]
      /\ ~InLockCall(t) /\ ~InLockCall(t)'
      /\ held'[t] = held[t] \ {m}
  BY <1>0 DEF SyncTypeOK, InLockCall
<1>5. ASSUME NEW n \in Mutex, n # m, waitq'[n] = waitq[n]
      PROVE  HandedTo(n)' = HandedTo(n) /\ Owners(n)' = Owners(n)
  <2>1. HandedTo(n)' = HandedTo(n)
    BY <1>4, <1>5 DEF HandedTo
  <2>2. \A v \in Thread : n \in held'[v] <=> n \in held[v]
    BY <1>4, <1>5
  <2> QED
    BY <2>1, <2>2 DEF Owners
<1>6. \A v \in Thread : m \notin held'[v]
  <2>1. \A v \in Thread : m \in held[v] => v = t
    BY <1>3 DEF Owners
  <2> QED
    BY <1>4, <2>1
<1>7. CASE waitq[m] = <<>>
  <2>1. /\ locked' = [locked EXCEPT ![m] = FALSE]
        /\ state' = st
        /\ waitq' = waitq /\ runqueue' = runqueue
    BY <1>7 DEF Unlock
  <2>2. SchedTypeOK' /\ SchedInv'
    <3>1. CASE st = state
      BY <1>0, <2>1, <3>1 DEF SchedTypeOK, SchedInv, RunqueueSound, NoRunnableLost,
                              FinishedIsOffCpu, BootThread, Queued
    <3>2. CASE t # kthread /\ st = Asleep(t)
      BY <1>0, <2>1, <3>2, SleepKeeps DEF Asleep
    <3> QED
      BY <3>1, <3>2
  <2>3. HandedTo(m)' = {}
    BY <1>3, <1>4, <2>1 DEF HandedTo
  <2>4. Owners(m)' = {}
    BY <1>6, <2>3 DEF Owners
  <2>5. /\ locked'[m] = FALSE /\ locked' \in [Mutex -> BOOLEAN]
        /\ \A n \in Mutex : n # m => locked'[n] = locked[n]
    BY <1>1, <2>1
  <2>6. OneOwner'
    <3>1. \A n \in Mutex : n # m => /\ \A v, u \in Owners(n)' : v = u
                                    /\ locked'[n] <=> Owners(n)' # {}
                                    /\ waitq'[n] # <<>> => locked'[n]
                                    /\ \A v \in HandedTo(n)' : n \notin held'[v]
      BY <1>0, <1>4, <1>5, <2>1, <2>5 DEF OneOwner, HandedTo
    <3> QED
      BY <1>7, <2>1, <2>3, <2>4, <2>5, <3>1 DEF OneOwner
  <2> QED
    BY <1>1, <1>2, <1>3, <1>5, <1>7, <2>1, <2>2, <2>4, <2>5, <2>6 DEF HandsOver
<1>8. CASE waitq[m] # <<>>
  <2> DEFINE h == Head(waitq[m])
  <2>1. /\ h \in Thread /\ h \in ToSet(waitq[m])
        /\ Tail(waitq[m]) \in Seq(Thread) /\ IsInjective(Tail(waitq[m]))
        /\ ToSet(Tail(waitq[m])) = ToSet(waitq[m]) \ {h}
    BY <1>1, <1>8, PopQueue
  <2> HIDE DEF h
  <2>2. InLockCall(h) /\ want[h] = m /\ h # t
    BY <1>0, <1>4, <2>1 DEF NodesAlive
  <2>3. state[h] = "blocked"
    BY <1>0, <2>1, <2>2, WaitingIs DEF NoLostWakeup
  <2>4. /\ waitq' = [waitq EXCEPT ![m] = Tail(@)]
        /\ ActivateIn(st, h) /\ locked' = locked
    BY <1>8 DEF Unlock, h
  <2>5. /\ waitq'[m] = Tail(waitq[m]) /\ waitq' \in [Mutex -> Seq(Thread)]
        /\ \A n \in Mutex : n # m => waitq'[n] = waitq[n]
    BY <1>1, <2>1, <2>4
  <2>6. /\ state'[h] = "active" /\ state'[t] = st[t]
        /\ \A v \in Thread \ {t, h} : state'[v] = state[v]
    BY <1>2, <2>1, <2>2, <2>3, <2>4 DEF ActivateIn
  <2>7. SchedTypeOK' /\ SchedInv'
    BY <1>0, <2>1, <2>2, <2>4, ActivateInKeeps DEF Asleep
  <2>8. HandedTo(m)' = {h}
    <3>1. \A v \in Thread : v \in ToSet(waitq'[m]) <=> v \in ToSet(waitq[m]) /\ v # h
      BY <2>1, <2>5
    <3> QED
      BY <1>3, <1>4, <2>1, <2>2, <3>1 DEF HandedTo
  <2>9. Owners(m)' = {h}
    BY <1>6, <2>8 DEF Owners
  <2>10. OneOwner'
    <3>1. \A n \in Mutex : n # m => /\ \A v, u \in Owners(n)' : v = u
                                    /\ locked'[n] <=> Owners(n)' # {}
                                    /\ waitq'[n] # <<>> => locked'[n]
                                    /\ \A v \in HandedTo(n)' : n \notin held'[v]
      BY <1>0, <1>4, <1>5, <2>4, <2>5 DEF OneOwner, HandedTo
    <3>2. /\ \A v, u \in Owners(m)' : v = u
          /\ locked'[m] /\ Owners(m)' # {}
          /\ \A v \in HandedTo(m)' : m \notin held'[v]
      BY <1>3, <1>6, <2>1, <2>4, <2>8, <2>9
    <3> QED
      BY <3>1, <3>2 DEF OneOwner
  <2> QED
    BY <1>1, <1>3, <1>5, <1>8, <2>1, <2>2, <2>3, <2>4, <2>5, <2>6, <2>7, <2>9, <2>10 DEF h, HandsOver
<1> QED
  BY <1>7, <1>8

\* A thread is on one list only, so it waits no longer once it is taken off it.
LEMMA OneList ==
    ASSUME NodesAlive, SyncTypeOK, NEW h \in Thread
    PROVE  /\ \A m \in Mutex : h \in ToSet(waitq[m]) =>
                /\ InLockCall(h) /\ ~InWaitCall(h)
                /\ \A n \in Mutex : n # m => h \notin ToSet(waitq[n])
                /\ \A c \in Cond : h \notin ToSet(condq[c])
                /\ \A u \in Thread : h \notin ToSet(list[u])
           /\ \A c \in Cond : h \in ToSet(condq[c]) =>
                /\ InWaitCall(h) /\ ~InLockCall(h)
                /\ \A m \in Mutex : h \notin ToSet(waitq[m])
                /\ \A d \in Cond : d # c => h \notin ToSet(condq[d])
                /\ \A u \in Thread : h \notin ToSet(list[u])
           /\ \A u \in Thread : h \in ToSet(list[u]) =>
                /\ InWaitCall(h) /\ ~InLockCall(h)
                /\ \A m \in Mutex : h \notin ToSet(waitq[m])
                /\ \A c \in Cond : h \notin ToSet(condq[c])
                /\ \A v \in Thread : v # u => h \notin ToSet(list[v])
<1>1. ~(InLockCall(h) /\ InWaitCall(h))
  BY DEF InLockCall, InWaitCall
<1>2. /\ \A m \in Mutex : h \in ToSet(waitq[m]) => InLockCall(h) /\ want[h] = m
      /\ \A c \in Cond : h \in ToSet(condq[c]) => InWaitCall(h)
      /\ \A u \in Thread : h \in ToSet(list[u]) => InWaitCall(h)
  BY DEF NodesAlive
<1>3. /\ \A c, d \in Cond : h \in ToSet(condq[c]) /\ d # c => h \notin ToSet(condq[d])
      /\ \A u \in Thread, c \in Cond : ~(h \in ToSet(list[u]) /\ h \in ToSet(condq[c]))
      /\ \A u, v \in Thread : h \in ToSet(list[u]) /\ v # u => h \notin ToSet(list[v])
  BY DEF NodesAlive
<1> QED
  BY <1>1, <1>2, <1>3

\* mutex_unlock() by a client (mutex.c:38-53).
LEMMA UnlockKeeps ==
    ASSUME SyncInv, NEW t \in Thread, NEW m \in Mutex, MutexUnlock(t, m)
    PROVE  SyncInv' /\ HandsOver(t, m)
<1>0. /\ SyncTypeOK /\ SchedTypeOK /\ SchedInv /\ PointsInv /\ SyncPcMatches
      /\ OneOwner /\ NoLostWakeup /\ NodesAlive
  BY DEF SyncInv, PointsInv, SyncTypeOK
<1>1. /\ t = current /\ pc[t] = "run" /\ m \in held[t]
      /\ Unlock(m, state)
      /\ held' = [held EXCEPT ![t] = @ \ {m}]
      /\ pc' = [pc EXCEPT ![t] = "run"]
      /\ UNCHANGED <<pc, current, ran, tss_rsp0, idle_thread, preempt_cnt, target,
                     condq, list, want>>
  BY <1>0 DEF MutexUnlock, At, others, SyncTypeOK
<1>2. /\ state[t] = "active" /\ t \notin Waiting /\ list[t] = <<>>
      /\ \A n \in Mutex : t \notin ToSet(waitq[n])
  BY <1>1, RunnerIs
<1>3. SchedTypeOK' /\ SchedInv' /\ OneOwner' /\ HandsOver(t, m) /\ state'[t] = state[t]
  <2>1. \A v \in Thread : v # t => want'[v] = want[v]
    BY <1>1
  <2>2. \E l \in {"run", "condwait"} : pc' = [pc EXCEPT ![t] = l]
    BY <1>1
  <2> QED
    BY <1>1, <1>2, <2>1, <2>2, UnlockMoves
<1>4. PointsInv'
  <2>1. SyncTypeOK'
    <3>1. held' \in [Thread -> SUBSET Mutex]
      BY <1>0, <1>1 DEF SyncTypeOK
    <3>2. SchedTypeOK' /\ locked' \in [Mutex -> BOOLEAN] /\ waitq' \in [Mutex -> Seq(Thread)]
      BY <1>3 DEF HandsOver
    <3> QED
      BY <1>0, <1>1, <3>1, <3>2 DEF SyncTypeOK
  <2>2. \A v \in Thread \ {t} :
           /\ state'[v] = state[v] \/ (state[v] = "blocked" /\ state'[v] = "active")
           /\ want'[v] = want[v] /\ held'[v] = held[v] /\ list'[v] = list[v]
    <3>1. \A v \in Thread \ {t} : state'[v] = state[v] \/ (state[v] = "blocked" /\ state'[v] = "active")
      BY <1>3 DEF HandsOver
    <3>2. \A v \in Thread \ {t} : want'[v] = want[v] /\ held'[v] = held[v] /\ list'[v] = list[v]
      BY <1>0, <1>1 DEF SyncTypeOK
    <3> QED
      BY <3>1, <3>2
  <2>3. want'[t] = NoMutex
    BY <1>0, <1>1 DEF SyncPcMatches, InLockCall, InWaitCall
  <2> QED
    BY <1>0, <1>1, <1>2, <1>3, <2>1, <2>2, <2>3, CallMoves
<1>5. \A v \in Thread : /\ InLockCall(v)' <=> InLockCall(v)
                        /\ InWaitCall(v)' <=> InWaitCall(v)
  BY <1>1 DEF InLockCall, InWaitCall
<1>6. ~InLockCall(t) /\ ~InWaitCall(t)
  BY <1>1 DEF InLockCall, InWaitCall
<1>7. NoLostWakeup'
  <2>1. CASE waitq[m] = <<>>
    <3>1. waitq' = waitq /\ \A v \in Thread \ {t} : state'[v] = state[v]
      BY <1>3, <2>1 DEF HandsOver
    <3>2. Waiting' = Waiting
      BY <1>1, <3>1 DEF Waiting
    <3> QED
      BY <1>0, <1>5, <1>6, <3>1, <3>2 DEF NoLostWakeup
  <2>2. CASE waitq[m] # <<>>
    <3>1. PICK h \in Thread \ {t} :
               /\ ToSet(waitq'[m]) = ToSet(waitq[m]) \ {h} /\ h \in ToSet(waitq[m])
               /\ state'[h] = "active"
               /\ \A v \in Thread \ {t, h} : state'[v] = state[v]
      BY <1>3, <2>2 DEF HandsOver
    <3>2. h \notin Waiting'
      <4>1. /\ \A n \in Mutex : n # m => h \notin ToSet(waitq[n])
            /\ \A c \in Cond : h \notin ToSet(condq[c])
            /\ \A u \in Thread : h \notin ToSet(list[u])
        BY <1>0, <3>1, OneList
      <4>2. \A n \in Mutex : h \notin ToSet(waitq'[n])
        BY <1>3, <3>1, <4>1 DEF HandsOver
      <4> QED
        BY <1>1, <4>1, <4>2, WaitingIs
    <3>3. \A v \in Thread : v # h => (v \in Waiting' <=> v \in Waiting)
      BY <1>1, <1>3, <3>1, WaitingIs DEF HandsOver
    <3> QED
      BY <1>0, <1>5, <1>6, <3>1, <3>2, <3>3 DEF NoLostWakeup
  <2> QED
    BY <2>1, <2>2
<1>8. NodesAlive'
  <2>1. \A n \in Mutex : ToSet(waitq'[n]) \subseteq ToSet(waitq[n]) /\ IsInjective(waitq'[n])
    BY <1>0, <1>3 DEF NodesAlive, HandsOver
  <2>2. \A n \in Mutex : \A v \in ToSet(waitq[n]) : InLockCall(v)' /\ want'[v] = n
    BY <1>0, <1>1, <1>5, NodesAreThreads DEF NodesAlive
  <2>3. /\ \A c \in Cond : \A v \in ToSet(condq'[c]) : InWaitCall(v)'
        /\ \A u \in Thread : \A v \in ToSet(list'[u]) : InWaitCall(v)'
    BY <1>0, <1>1, <1>5, NodesAreThreads DEF NodesAlive
  <2> QED
    BY ZenonT(40), <1>0, <1>1, <2>1, <2>2, <2>3 DEF NodesAlive
<1> QED
  BY <1>3, <1>4, <1>7, <1>8 DEF SyncInv, PointsInv

\* condition_wait() up to schedule() (condition.c:17-31).
LEMMA WaitKeeps ==
    ASSUME SyncInv, NEW t \in Thread, NEW c \in Cond, NEW m \in Mutex, CondWait(t, c, m)
    PROVE  SyncInv' /\ HandsOver(t, m)
<1>0. /\ SyncTypeOK /\ SchedTypeOK /\ SchedInv /\ PointsInv /\ SyncPcMatches
      /\ OneOwner /\ NoLostWakeup /\ NodesAlive
  BY DEF SyncInv, PointsInv, SyncTypeOK
<1>1. /\ t = current /\ pc[t] = "run" /\ m \in held[t] /\ t # kthread /\ preempt_cnt = 0
      /\ Unlock(m, [state EXCEPT ![t] = "blocked"])
      /\ condq' = [condq EXCEPT ![c] = Append(@, t)]
      /\ held' = [held EXCEPT ![t] = @ \ {m}]
      /\ want' = [want EXCEPT ![t] = m]
      /\ pc' = [pc EXCEPT ![t] = "condwait"]
      /\ UNCHANGED <<current, ran, tss_rsp0, idle_thread, preempt_cnt, target, list>>
  BY <1>0 DEF CondWait, At, GoTo, others
<1>2. /\ state[t] = "active" /\ t \notin Waiting /\ list[t] = <<>>
      /\ \A n \in Mutex : t \notin ToSet(waitq[n])
      /\ \A d \in Cond : t \notin ToSet(condq[d])
      /\ \A u \in Thread : t \notin ToSet(list[u])
  BY <1>1, RunnerIs
<1>3. SchedTypeOK' /\ SchedInv' /\ OneOwner' /\ HandsOver(t, m) /\ state'[t] = "blocked"
  <2>1. \A v \in Thread : v # t => want'[v] = want[v]
    BY <1>0, <1>1 DEF SyncTypeOK
  <2>2. \E l \in {"run", "condwait"} : pc' = [pc EXCEPT ![t] = l]
    BY <1>1
  <2>3. Asleep(t)[t] = "blocked"
    BY <1>0 DEF SchedTypeOK, Asleep
  <2>4. Unlock(m, Asleep(t))
    BY <1>1 DEF Asleep
  <2>5. /\ current = t /\ pc[t] = "run" /\ m \in held[t] /\ t # kthread
        /\ held' = [held EXCEPT ![t] = @ \ {m}]
        /\ UNCHANGED <<current, idle_thread, ran, tss_rsp0>>
    BY <1>1
  <2> QED
    BY <2>1, <2>2, <2>3, <2>4, <2>5, UnlockMoves
<1>4. /\ condq'[c] = Append(condq[c], t) /\ condq' \in [Cond -> Seq(Thread)]
      /\ ToSet(condq'[c]) = ToSet(condq[c]) \cup {t}
      /\ IsInjective(condq'[c])
      /\ \A d \in Cond : d # c => condq'[d] = condq[d]
  <2>1. condq[c] \in Seq(Thread) /\ condq'[c] = Append(condq[c], t) /\ IsInjective(condq[c])
    BY <1>0, <1>1 DEF SyncTypeOK, NodesAlive
  <2>2. t \notin ToSet(condq[c])
    BY <1>2
  <2>3. condq'[c] \in Seq(Thread) /\ ToSet(condq'[c]) = ToSet(condq[c]) \cup {t} /\ IsInjective(condq'[c])
    BY <2>1, <2>2, AppendQueue
  <2>4. condq' \in [Cond -> Seq(Thread)] /\ \A d \in Cond : d # c => condq'[d] = condq[d]
    BY <1>0, <1>1, <2>1, <2>3 DEF SyncTypeOK
  <2> QED
    BY <2>1, <2>3, <2>4
<1>5. \A v \in Thread \ {t} :
         /\ state'[v] = state[v] \/ (state[v] = "blocked" /\ state'[v] = "active")
         /\ want'[v] = want[v] /\ held'[v] = held[v] /\ list'[v] = list[v]
  <2>1. \A v \in Thread \ {t} : state'[v] = state[v] \/ (state[v] = "blocked" /\ state'[v] = "active")
    BY <1>3 DEF HandsOver
  <2>2. \A v \in Thread \ {t} : want'[v] = want[v] /\ held'[v] = held[v] /\ list'[v] = list[v]
    BY <1>0, <1>1 DEF SyncTypeOK
  <2> QED
    BY <2>1, <2>2
<1>6. PointsInv'
  <2>1. SyncTypeOK'
    <3>1. /\ held' \in [Thread -> SUBSET Mutex] /\ want' \in [Thread -> Mutex \cup {NoMutex}]
          /\ pc' \in [Thread -> ThreadPc \cup SyncPc]
      BY <1>0, <1>1 DEF SyncTypeOK, SyncPc
    <3>2. SchedTypeOK' /\ locked' \in [Mutex -> BOOLEAN] /\ waitq' \in [Mutex -> Seq(Thread)]
      BY <1>3 DEF HandsOver
    <3> QED
      BY <1>0, <1>1, <1>4, <3>1, <3>2 DEF SyncTypeOK
  <2>2. want'[t] = m /\ want'[t] # NoMutex /\ want'[t] \notin held'[t]
    BY <1>0, <1>1 DEF SyncTypeOK
  <2>3. list'[t] = <<>>
    BY <1>1, <1>2
  <2> QED
    BY <1>0, <1>1, <1>2, <1>3, <1>5, <2>1, <2>2, <2>3, CallMoves
<1>7. /\ \A v \in Thread : v # t => /\ InLockCall(v)' <=> InLockCall(v)
                                    /\ InWaitCall(v)' <=> InWaitCall(v)
      /\ ~InLockCall(t) /\ ~InWaitCall(t) /\ ~InLockCall(t)' /\ InWaitCall(t)'
  BY <1>0, <1>1 DEF SyncTypeOK, InLockCall, InWaitCall
<1>8. NoLostWakeup'
  <2>1. t \in Waiting'
    BY <1>4, WaitingIs
  <2>2. CASE waitq[m] = <<>>
    <3>1. waitq' = waitq /\ \A v \in Thread \ {t} : state'[v] = state[v]
      BY <1>3, <2>2 DEF HandsOver
    <3>2. \A v \in Thread : v \in Waiting' <=> v \in Waiting \/ v = t
      BY <1>1, <1>4, <3>1, WaitingIs
    <3> QED
      BY <1>0, <1>3, <1>7, <3>1, <3>2 DEF NoLostWakeup
  <2>3. CASE waitq[m] # <<>>
    <3>1. PICK h \in Thread \ {t} :
               /\ ToSet(waitq'[m]) = ToSet(waitq[m]) \ {h} /\ h \in ToSet(waitq[m])
               /\ state'[h] = "active"
               /\ \A v \in Thread \ {t, h} : state'[v] = state[v]
      BY <1>3, <2>3 DEF HandsOver
    <3>2. h \notin Waiting'
      <4>1. /\ \A n \in Mutex : n # m => h \notin ToSet(waitq[n])
            /\ \A d \in Cond : h \notin ToSet(condq[d])
            /\ \A u \in Thread : h \notin ToSet(list[u])
        BY <1>0, <3>1, OneList
      <4>2. \A n \in Mutex : h \notin ToSet(waitq'[n])
        BY <1>3, <3>1, <4>1 DEF HandsOver
      <4>3. \A d \in Cond : h \notin ToSet(condq'[d])
        BY <1>4, <3>1, <4>1
      <4> QED
        BY <1>1, <4>1, <4>2, <4>3, WaitingIs
    <3>3. \A v \in Thread : v # h /\ v # t => (v \in Waiting' <=> v \in Waiting)
      <4>1. \A v \in Thread, n \in Mutex : v # h => (v \in ToSet(waitq'[n]) <=> v \in ToSet(waitq[n]))
        BY <1>3, <3>1 DEF HandsOver
      <4>2. \A v \in Thread, d \in Cond : v # t => (v \in ToSet(condq'[d]) <=> v \in ToSet(condq[d]))
        BY <1>4
      <4> QED
        BY <1>1, <4>1, <4>2, WaitingIs
    <3> QED
      BY <1>0, <1>3, <1>7, <2>1, <3>1, <3>2, <3>3 DEF NoLostWakeup
  <2> QED
    BY <2>2, <2>3
<1>9. NodesAlive'
  <2>1. \A n \in Mutex : ToSet(waitq'[n]) \subseteq ToSet(waitq[n]) /\ IsInjective(waitq'[n])
    BY <1>0, <1>3 DEF NodesAlive, HandsOver
  <2>2. \A n \in Mutex : \A v \in ToSet(waitq[n]) : InLockCall(v)' /\ want'[v] = n
    BY <1>0, <1>2, <1>5, <1>7, NodesAreThreads DEF NodesAlive
  <2>3. /\ \A d \in Cond : \A v \in ToSet(condq[d]) : InWaitCall(v)'
        /\ \A u \in Thread : \A v \in ToSet(list'[u]) : InWaitCall(v)'
    BY <1>0, <1>1, <1>2, <1>7, NodesAreThreads DEF NodesAlive
  <2>4. \A d \in Cond : /\ IsInjective(condq'[d])
                        /\ \A v \in ToSet(condq'[d]) : v \in ToSet(condq[d]) \/ (v = t /\ d = c)
    BY <1>0, <1>4 DEF NodesAlive
  <2>5. /\ \A d, e \in Cond : e # d => ToSet(condq'[d]) \cap ToSet(condq'[e]) = {}
        /\ \A u \in Thread, d \in Cond : ToSet(list[u]) \cap ToSet(condq'[d]) = {}
    <3>1. /\ \A d, e \in Cond : \A v \in ToSet(condq[d]) : e # d => v \notin ToSet(condq[e])
          /\ \A u \in Thread, d \in Cond : \A v \in ToSet(list[u]) : v \notin ToSet(condq[d])
      BY <1>0 DEF NodesAlive
    <3>2. \A d, e \in Cond : \A v \in ToSet(condq'[d]) : e # d => v \notin ToSet(condq'[e])
      BY <1>2, <2>4, <3>1
    <3>3. \A u \in Thread, d \in Cond : \A v \in ToSet(list[u]) : v \notin ToSet(condq'[d])
      BY <1>2, <2>4, <3>1
    <3> QED
      BY <3>2, <3>3
  <2>6. \A u \in Thread : /\ IsInjective(list'[u])
                          /\ \A v \in Thread : v # u => ToSet(list'[u]) \cap ToSet(list'[v]) = {}
    BY <1>0, <1>1 DEF NodesAlive
  <2>7. \A n \in Mutex : /\ IsInjective(waitq'[n])
                         /\ \A v \in ToSet(waitq'[n]) : InLockCall(v)' /\ want'[v] = n
    BY <2>1, <2>2
  <2>8. \A d \in Cond : \A v \in ToSet(condq'[d]) : InWaitCall(v)'
    BY <1>7, <2>3, <2>4
  <2>9. list' = list
    BY <1>1
  <2> QED
    BY <2>3, <2>4, <2>5, <2>6, <2>7, <2>8, <2>9 DEF NodesAlive
<1> QED
  BY <1>3, <1>6, <1>8, <1>9 DEF SyncInv, PointsInv

\* One waiter is taken off its list and woken, by condition_signal() or in the loop
\* of condition_broadcast(): nothing else changes (condition.c:42-43, 60-65).
LEMMA WakeKeeps ==
    ASSUME SyncInv, NEW t \in Thread, current = t, pc[t] \in {"run", "bcast"},
           NEW h \in Waiting, InWaitCall(h), Activate(h),
           UNCHANGED <<others, pc, locked, waitq, want, held>>,
           condq' \in [Cond -> Seq(Thread)], list' \in [Thread -> Seq(Thread)],
           \A v \in Thread \ {t} : list'[v] = list[v],
           pc[t] = "run" => list'[t] = list[t],
           \A v \in Thread : v \in Waiting' <=> v \in Waiting /\ v # h,
           \A c \in Cond : IsInjective(condq'[c]) /\ ToSet(condq'[c]) \subseteq ToSet(condq[c]),
           \A u \in Thread : IsInjective(list'[u]) /\ ToSet(list'[u]) \subseteq ToSet(list[u])
    PROVE  SyncInv' /\ \A m \in Mutex : Owners(m)' = Owners(m)
<1>0. /\ SyncTypeOK /\ SchedTypeOK /\ SchedInv /\ PointsInv /\ SyncPcMatches
      /\ OneOwner /\ NoLostWakeup /\ NodesAlive
      /\ UNCHANGED <<current, ran, tss_rsp0, idle_thread, preempt_cnt, target>>
  BY DEF SyncInv, PointsInv, SyncTypeOK, others
<1>1. state[t] = "active" /\ (pc[t] # "bcast" => list[t] = <<>>)
  BY RunnerIs
<1>2. /\ h \in Thread /\ h # t /\ state[h] = "blocked"
      /\ state' = [state EXCEPT ![h] = "active"]
  <2>1. h \in Thread /\ state[h] = "blocked"
    BY <1>0, WaitersSleep
  <2> QED
    BY <1>1, <2>1 DEF Activate, ActivateIn
<1>3. SchedTypeOK' /\ SchedInv'
  BY <1>0, <1>1, <1>2, ActivateKeeps
<1>4. PointsInv'
  <2>1. SyncTypeOK'
    BY <1>0, <1>3 DEF SyncTypeOK
  <2>2. pc' = [pc EXCEPT ![t] = pc[t]]
    BY <1>0 DEF SyncTypeOK
  <2>3. \A v \in Thread \ {t} :
           /\ state'[v] = state[v] \/ (state[v] = "blocked" /\ state'[v] = "active")
           /\ want'[v] = want[v] /\ held'[v] = held[v] /\ list'[v] = list[v]
    BY <1>0, <1>2 DEF SchedTypeOK
  <2>4. state'[t] = "active" /\ want'[t] = NoMutex /\ (list'[t] # <<>> => pc[t] = "bcast")
    BY <1>0, <1>1, <1>2 DEF SchedTypeOK, SyncPcMatches, InLockCall, InWaitCall
  <2> QED
    BY <1>0, <1>1, <1>3, <2>1, <2>2, <2>3, <2>4, CallMoves
<1>5. /\ \A v \in Thread : /\ InLockCall(v)' <=> InLockCall(v)
                           /\ InWaitCall(v)' <=> InWaitCall(v)
      /\ \A v \in Thread : v # h => state'[v] = state[v]
      /\ state'[h] = "active"
  BY <1>0, <1>2 DEF InLockCall, InWaitCall, SchedTypeOK
<1>6. \A m \in Mutex : HandedTo(m)' = HandedTo(m) /\ Owners(m)' = Owners(m)
  BY <1>5 DEF HandedTo, Owners
<1>7. OneOwner'
  BY <1>0, <1>6 DEF OneOwner
<1>8. NoLostWakeup'
  BY <1>0, <1>2, <1>5 DEF NoLostWakeup
<1>9. NodesAlive'
  <2>1. \A m \in Mutex : /\ IsInjective(waitq'[m])
                         /\ \A v \in ToSet(waitq'[m]) : InLockCall(v)' /\ want'[v] = m
    BY <1>0, <1>5, NodesAreThreads DEF NodesAlive
  <2>2. /\ \A c \in Cond : \A v \in ToSet(condq'[c]) : InWaitCall(v)'
        /\ \A u \in Thread : \A v \in ToSet(list'[u]) : InWaitCall(v)'
    BY <1>0, <1>5, NodesAreThreads DEF NodesAlive
  <2>3. /\ \A c, d \in Cond : d # c => ToSet(condq'[c]) \cap ToSet(condq'[d]) = {}
        /\ \A u \in Thread, c \in Cond : ToSet(list'[u]) \cap ToSet(condq'[c]) = {}
        /\ \A u, v \in Thread : v # u => ToSet(list'[u]) \cap ToSet(list'[v]) = {}
    <3>1. /\ \A c, d \in Cond : d # c => ToSet(condq[c]) \cap ToSet(condq[d]) = {}
          /\ \A u \in Thread, c \in Cond : ToSet(list[u]) \cap ToSet(condq[c]) = {}
          /\ \A u, v \in Thread : v # u => ToSet(list[u]) \cap ToSet(list[v]) = {}
      BY <1>0 DEF NodesAlive
    <3>2. \A c \in Cond : ToSet(condq'[c]) \subseteq ToSet(condq[c])
      OBVIOUS
    <3>3. \A u \in Thread : ToSet(list'[u]) \subseteq ToSet(list[u])
      OBVIOUS
    <3> QED
      BY ONLY <3>1, <3>2, <3>3
  <2>4. /\ \A c \in Cond : IsInjective(condq'[c])
        /\ \A u \in Thread : IsInjective(list'[u])
    OBVIOUS
  <2> QED
    BY <2>1, <2>2, <2>3, <2>4 DEF NodesAlive
<1> QED
  BY <1>4, <1>6, <1>7, <1>8, <1>9 DEF SyncInv, PointsInv

\* condition_signal() with somebody waiting (condition.c:35-47).
LEMMA SignalKeeps ==
    ASSUME SyncInv, NEW t \in Thread, NEW c \in Cond, CondSignal(t, c)
    PROVE  /\ SyncInv' /\ \A m \in Mutex : Owners(m)' = Owners(m)
           /\ InWaitCall(Head(condq[c])) /\ Head(condq[c]) \in Thread
           /\ state[Head(condq[c])] = "blocked"
<1>0. SyncTypeOK /\ SchedTypeOK /\ NodesAlive /\ NoLostWakeup
  BY DEF SyncInv, SyncTypeOK
<1> DEFINE h == Head(condq[c])
<1>1. /\ t = current /\ pc[t] = "run" /\ Activate(h)
      /\ condq[c] # <<>> /\ condq' = [condq EXCEPT ![c] = Tail(@)]
      /\ UNCHANGED <<others, pc, locked, waitq, list, want, held>>
  BY DEF CondSignal, At
<1>2. /\ h \in Thread /\ h \in ToSet(condq[c])
      /\ Tail(condq[c]) \in Seq(Thread) /\ IsInjective(Tail(condq[c]))
      /\ ToSet(Tail(condq[c])) = ToSet(condq[c]) \ {h}
  <2>1. condq[c] \in Seq(Thread) /\ IsInjective(condq[c])
    BY <1>0 DEF SyncTypeOK, NodesAlive
  <2> QED
    BY <1>1, <2>1, PopQueue
<1> HIDE DEF h
<1>3. /\ condq'[c] = Tail(condq[c]) /\ condq' \in [Cond -> Seq(Thread)]
      /\ \A d \in Cond : d # c => condq'[d] = condq[d]
  BY <1>0, <1>1, <1>2 DEF SyncTypeOK
<1>4. /\ InWaitCall(h) /\ h \in Waiting
      /\ \A m \in Mutex : h \notin ToSet(waitq[m])
      /\ \A d \in Cond : d # c => h \notin ToSet(condq[d])
      /\ \A u \in Thread : h \notin ToSet(list[u])
  BY <1>0, <1>2, OneList, WaitingIs
<1>5. \A v \in Thread : v \in Waiting' <=> v \in Waiting /\ v # h
  <2>1. \A d \in Cond : \A v \in Thread : v \in ToSet(condq'[d]) <=> v \in ToSet(condq[d]) /\ v # h
    BY <1>2, <1>3, <1>4
  <2> QED
    BY <1>1, <1>4, <2>1, WaitingIs
<1>6. \A d \in Cond : IsInjective(condq'[d]) /\ ToSet(condq'[d]) \subseteq ToSet(condq[d])
  BY <1>0, <1>2, <1>3 DEF NodesAlive
<1>7. \A u \in Thread : IsInjective(list'[u]) /\ ToSet(list'[u]) \subseteq ToSet(list[u])
  BY <1>0, <1>1 DEF NodesAlive
<1>8. SyncInv' /\ \A m \in Mutex : Owners(m)' = Owners(m)
  <2>1. list' \in [Thread -> Seq(Thread)] /\ list' = list
    BY <1>0, <1>1 DEF SyncTypeOK
  <2> QED
    BY <1>1, <1>3, <1>4, <1>5, <1>6, <1>7, <2>1, WakeKeeps
<1>9. state[h] = "blocked"
  BY <1>0, <1>4, WaitersSleep
<1> QED
  BY <1>2, <1>4, <1>8, <1>9 DEF h

\* One turn of the loop of condition_broadcast() (condition.c:60-65).
LEMMA BroadcastStepKeeps ==
    ASSUME SyncInv, NEW t \in Thread, BroadcastStep(t)
    PROVE  /\ SyncInv' /\ \A m \in Mutex : Owners(m)' = Owners(m)
           /\ InWaitCall(Head(list[t])) /\ Head(list[t]) \in Thread
<1>0. SyncTypeOK /\ SchedTypeOK /\ NodesAlive /\ NoLostWakeup
  BY DEF SyncInv, SyncTypeOK
<1> DEFINE h == Head(list[t])
<1>1. /\ t = current /\ pc[t] = "bcast" /\ Activate(h)
      /\ list[t] # <<>> /\ list' = [list EXCEPT ![t] = Tail(@)]
      /\ UNCHANGED <<others, pc, locked, waitq, condq, want, held>>
  BY DEF BroadcastStep, At
<1>2. /\ h \in Thread /\ h \in ToSet(list[t])
      /\ Tail(list[t]) \in Seq(Thread) /\ IsInjective(Tail(list[t]))
      /\ ToSet(Tail(list[t])) = ToSet(list[t]) \ {h}
  <2>1. list[t] \in Seq(Thread) /\ IsInjective(list[t])
    BY <1>0 DEF SyncTypeOK, NodesAlive
  <2> QED
    BY <1>1, <2>1, PopQueue
<1> HIDE DEF h
<1>3. /\ list'[t] = Tail(list[t]) /\ list' \in [Thread -> Seq(Thread)]
      /\ \A u \in Thread : u # t => list'[u] = list[u]
  BY <1>0, <1>1, <1>2 DEF SyncTypeOK
<1>4. /\ InWaitCall(h) /\ h \in Waiting
      /\ \A m \in Mutex : h \notin ToSet(waitq[m])
      /\ \A d \in Cond : h \notin ToSet(condq[d])
      /\ \A u \in Thread : u # t => h \notin ToSet(list[u])
  BY <1>0, <1>2, OneList, WaitingIs
<1>5. \A v \in Thread : v \in Waiting' <=> v \in Waiting /\ v # h
  <2>1. \A u \in Thread : \A v \in Thread : v \in ToSet(list'[u]) <=> v \in ToSet(list[u]) /\ v # h
    BY <1>2, <1>3, <1>4
  <2> QED
    BY <1>1, <1>4, <2>1, WaitingIs
<1>6. \A u \in Thread : IsInjective(list'[u]) /\ ToSet(list'[u]) \subseteq ToSet(list[u])
  BY <1>0, <1>2, <1>3 DEF NodesAlive
<1>7. \A d \in Cond : IsInjective(condq'[d]) /\ ToSet(condq'[d]) \subseteq ToSet(condq[d])
  BY <1>0, <1>1 DEF NodesAlive
<1>8. SyncInv' /\ \A m \in Mutex : Owners(m)' = Owners(m)
  <2>1. condq' \in [Cond -> Seq(Thread)] /\ pc[t] # "run"
    BY <1>0, <1>1 DEF SyncTypeOK
  <2>2. \A u \in Thread \ {t} : list'[u] = list[u]
    BY <1>3
  <2> QED
    BY <1>1, <1>3, <1>4, <1>5, <1>6, <1>7, <2>1, <2>2, WakeKeeps
<1> QED
  BY <1>2, <1>4, <1>8 DEF h

\* condition_broadcast() takes the whole queue of the condition variable over into a
\* list of its own; the waiters on it sleep on (condition.c:53-59).
LEMMA BroadcastKeeps ==
    ASSUME SyncInv, NEW t \in Thread, NEW c \in Cond, CondBroadcast(t, c)
    PROVE  SyncInv' /\ \A n \in Mutex : Owners(n)' = Owners(n)
<1>0. /\ SyncTypeOK /\ SchedTypeOK /\ SchedInv /\ PointsInv /\ SyncPcMatches
      /\ OneOwner /\ NoLostWakeup /\ NodesAlive
  BY DEF SyncInv, PointsInv, SyncTypeOK
<1>1. /\ t = current /\ pc[t] = "run"
      /\ list' = [list EXCEPT ![t] = condq[c]]
      /\ condq' = [condq EXCEPT ![c] = <<>>]
      /\ pc' = [pc EXCEPT ![t] = "bcast"]
      /\ UNCHANGED <<current, ran, tss_rsp0, idle_thread, preempt_cnt, target,
                     runqueue, state, locked, waitq, want, held>>
  BY DEF CondBroadcast, At, GoTo, others
<1>2. /\ state[t] = "active" /\ list[t] = <<>> /\ want[t] = NoMutex
  BY <1>0, <1>1, RunnerIs DEF SyncPcMatches, InLockCall, InWaitCall
<1>3. /\ list'[t] = condq[c] /\ \A u \in Thread : u # t => list'[u] = list[u]
      /\ condq'[c] = <<>> /\ \A d \in Cond : d # c => condq'[d] = condq[d]
      /\ list' \in [Thread -> Seq(Thread)] /\ condq' \in [Cond -> Seq(Thread)]
      /\ ToSet(condq'[c]) = {} /\ IsInjective(condq'[c])
      /\ ToSet(list[t]) = {}
  BY <1>0, <1>1, <1>2, EmptyQueue DEF SyncTypeOK
<1>4. PointsInv'
  <2>1. SyncTypeOK'
    BY <1>0, <1>1, <1>3 DEF SyncTypeOK, SchedTypeOK, SyncPc
  <2>2. SchedInv'
    BY <1>0, <1>1 DEF SchedInv, RunqueueSound, NoRunnableLost, FinishedIsOffCpu, BootThread, Queued
  <2>3. want'[t] = NoMutex /\ state'[t] = "active"
        /\ \A v \in Thread \ {t} : want'[v] = want[v] /\ held'[v] = held[v]
                                   /\ state'[v] = state[v] /\ list'[v] = list[v]
    BY <1>1, <1>2, <1>3
  <2> QED
    BY <1>0, <1>1, <1>2, <2>1, <2>2, <2>3, CallMoves
<1>5. \A v \in Thread : /\ InLockCall(v)' <=> InLockCall(v)
                        /\ InWaitCall(v)' <=> InWaitCall(v)
  BY <1>0, <1>1 DEF SyncTypeOK, InLockCall, InWaitCall
<1>6. \A m \in Mutex : HandedTo(m)' = HandedTo(m) /\ Owners(m)' = Owners(m)
  BY <1>1, <1>5 DEF HandedTo, Owners
<1>7. OneOwner'
  BY <1>0, <1>1, <1>6 DEF OneOwner
<1>8. NoLostWakeup'
  <2>1. \A v \in Thread : v \in Waiting' <=> v \in Waiting
    <3> SUFFICES ASSUME NEW v \in Thread
                 PROVE  v \in Waiting' <=> v \in Waiting
      OBVIOUS
    <3>1. /\ v \in ToSet(condq[c]) <=> v \in ToSet(list'[t])
          /\ v \notin ToSet(list[t]) /\ v \notin ToSet(condq'[c])
          /\ \A d \in Cond : d # c => (v \in ToSet(condq'[d]) <=> v \in ToSet(condq[d]))
          /\ \A u \in Thread : u # t => (v \in ToSet(list'[u]) <=> v \in ToSet(list[u]))
          /\ \A n \in Mutex : v \in ToSet(waitq'[n]) <=> v \in ToSet(waitq[n])
      BY <1>1, <1>3
    <3>2. \/ \E d \in Cond : v \in ToSet(condq'[d])
          \/ \E u \in Thread : v \in ToSet(list'[u])
          <=>
          \/ \E d \in Cond : v \in ToSet(condq[d])
          \/ \E u \in Thread : v \in ToSet(list[u])
      BY ONLY <3>1, t \in Thread, c \in Cond
    <3> QED
      BY <3>1, <3>2, WaitingIs
  <2> QED
    BY <1>0, <1>1, <1>5, <2>1 DEF NoLostWakeup
<1>9. NodesAlive'
  <2>1. \A m \in Mutex : /\ IsInjective(waitq'[m])
                         /\ \A v \in ToSet(waitq'[m]) : InLockCall(v)' /\ want'[v] = m
    BY <1>0, <1>1, <1>5, NodesAreThreads DEF NodesAlive
  <2>2. \A d \in Cond : /\ IsInjective(condq'[d])
                        /\ \A v \in ToSet(condq'[d]) : InWaitCall(v)'
                        /\ \A e \in Cond : e # d => ToSet(condq'[d]) \cap ToSet(condq'[e]) = {}
    BY <1>0, <1>3, <1>5, NodesAreThreads DEF NodesAlive
  <2>3. \A u \in Thread : /\ IsInjective(list'[u])
                          /\ \A v \in ToSet(list'[u]) : InWaitCall(v)'
    BY <1>0, <1>3, <1>5, NodesAreThreads DEF NodesAlive
  <2>4. /\ \A u \in Thread, d \in Cond : ToSet(list'[u]) \cap ToSet(condq'[d]) = {}
        /\ \A u, v \in Thread : v # u => ToSet(list'[u]) \cap ToSet(list'[v]) = {}
    <3>1. /\ \A u \in Thread, d \in Cond : ToSet(list[u]) \cap ToSet(condq[d]) = {}
          /\ \A u, v \in Thread : v # u => ToSet(list[u]) \cap ToSet(list[v]) = {}
          /\ \A d \in Cond : d # c => ToSet(condq[c]) \cap ToSet(condq[d]) = {}
      BY <1>0 DEF NodesAlive
    <3>2. /\ ToSet(list'[t]) = ToSet(condq[c]) /\ ToSet(condq'[c]) = {}
          /\ \A u \in Thread : u # t => ToSet(list'[u]) = ToSet(list[u])
          /\ \A d \in Cond : d # c => ToSet(condq'[d]) = ToSet(condq[d])
      BY <1>3
    <3> QED
      BY ONLY SMTT(20), <3>1, <3>2, t \in Thread, c \in Cond
  <2> QED
    BY <2>1, <2>2, <2>3, <2>4 DEF NodesAlive
<1> QED
  BY <1>4, <1>6, <1>7, <1>8, <1>9 DEF SyncInv, PointsInv

\* condition_broadcast() returns: its list is empty (condition.c:60-66).
LEMMA BroadcastEndKeeps ==
    ASSUME SyncInv, NEW t \in Thread, BroadcastEnd(t)
    PROVE  SyncInv' /\ \A n \in Mutex : Owners(n)' = Owners(n)
<1>0. /\ SyncTypeOK /\ SchedTypeOK /\ SchedInv /\ PointsInv /\ CallsInv /\ SyncPcMatches
  BY DEF SyncInv, PointsInv, SyncTypeOK, CallsInv
<1>1. /\ t = current /\ pc[t] = "bcast" /\ list[t] = <<>>
      /\ pc' = [pc EXCEPT ![t] = "run"]
      /\ UNCHANGED <<current, ran, tss_rsp0, idle_thread, preempt_cnt, target,
                     runqueue, state, mutex_vars>>
  BY DEF BroadcastEnd, At, GoTo, others
<1>2. state[t] = "active" /\ want[t] = NoMutex
  BY <1>0, <1>1 DEF SyncPcMatches, InLockCall, InWaitCall
<1>3. UNCHANGED <<locked, waitq, condq, list, want, held>>
  BY <1>1 DEF mutex_vars
<1>4. PointsInv'
  <2>1. SyncTypeOK'
    BY <1>0, <1>1, <1>3 DEF SyncTypeOK, SchedTypeOK, ThreadPc
  <2>2. SchedInv'
    BY <1>0, <1>1 DEF SchedInv, RunqueueSound, NoRunnableLost, FinishedIsOffCpu, BootThread, Queued
  <2> QED
    BY <1>0, <1>1, <1>2, <1>3, <2>1, <2>2, CallMoves
<1>5. CallsInv' /\ \A n \in Mutex : Owners(n)' = Owners(n)
  <2>1. \A v \in Thread : /\ InLockCall(v)' <=> InLockCall(v)
                          /\ InWaitCall(v)' <=> InWaitCall(v)
                          /\ state'[v] = state[v]
    BY <1>0, <1>1 DEF SyncTypeOK, InLockCall, InWaitCall
  <2> QED
    BY <1>0, <1>1, <2>1, SameCalls
<1> QED
  BY <1>4, <1>5 DEF SyncInv, PointsInv, CallsInv

\* mutex_lock() and condition_wait() call schedule(): preemption is enabled there, the
\* thread gives up the CPU unless it has been woken meanwhile (mutex.c:31, condition.c:32).
LEMMA CallSchedKeeps ==
    ASSUME SyncInv, NEW t \in Thread, MutexLockSched(t) \/ CondWaitSched(t)
    PROVE  SyncInv' /\ \A n \in Mutex : Owners(n)' = Owners(n)
<1>0. /\ SyncTypeOK /\ SchedTypeOK /\ SchedInv /\ PointsInv /\ CallsInv /\ SyncPcMatches
  BY DEF SyncInv, PointsInv, SyncTypeOK, CallsInv
<1>1. PICK l : /\ t = current /\ GoTo(t, l) /\ Schedule(ran)
               /\ <<pc[t], l>> \in {<<"lockwait", "lockret">>, <<"condwait", "relock">>}
               /\ UNCHANGED <<idle_thread, preempt_cnt, target, mutex_vars>>
  BY DEF MutexLockSched, CondWaitSched, At
<1>2. preempt_cnt = 0
  BY <1>0, <1>1 DEF SyncPcMatches, SyncTypeOK, Halted
<1>3. DoSchedule(FALSE, ran) /\ ran \in -SLICE .. SLICE
  BY <1>0, <1>1, <1>2 DEF Schedule, SchedTypeOK
<1>4. PointsInv' /\ \A v \in Thread : pc[v] \in SyncPc => state'[v] = state[v]
  BY <1>0, <1>1, <1>2, <1>3, SyncSchedule
<1>5. CallsInv' /\ \A n \in Mutex : Owners(n)' = Owners(n)
  <2>1. \A v \in Thread : /\ InLockCall(v)' <=> InLockCall(v)
                          /\ InWaitCall(v)' <=> InWaitCall(v)
                          /\ InLockCall(v) \/ InWaitCall(v) => pc[v] \in SyncPc
    BY <1>0, <1>1 DEF SyncTypeOK, InLockCall, InWaitCall, GoTo, SyncPc
  <2> QED
    BY <1>0, <1>1, <1>4, <2>1, SameCalls
<1> QED
  BY <1>4, <1>5 DEF SyncInv, PointsInv, CallsInv

\* The scheduler's own steps: interrupts, preemption, other threads' lives.
LEMMA SchedulerStepKeeps ==
    ASSUME SyncInv, SchedulerStep
    PROVE  /\ SyncInv' /\ \A n \in Mutex : Owners(n)' = Owners(n)
           /\ \A v \in Thread : InWaitCall(v)' <=> InWaitCall(v)
<1>0. SyncTypeOK /\ PointsInv /\ CallsInv /\ UNCHANGED mutex_vars
  BY DEF SyncInv, PointsInv, CallsInv, SchedulerStep
<1>1. PointsInv' /\ CallsUntouched
  BY <1>0, SchedulerKeeps
<1>2. \A v \in Thread : /\ InLockCall(v)' <=> InLockCall(v)
                        /\ InWaitCall(v)' <=> InWaitCall(v)
                        /\ InLockCall(v) \/ InWaitCall(v) => state'[v] = state[v]
  BY <1>1 DEF CallsUntouched, InLockCall, InWaitCall, SyncPc
<1>3. CallsInv' /\ \A n \in Mutex : Owners(n)' = Owners(n)
  BY <1>0, <1>2, SameCalls
<1> QED
  BY <1>1, <1>2, <1>3 DEF SyncInv, PointsInv, CallsInv

-----------------------------------------------------------------------------
LEMMA SyncInitInv == SyncInit => SyncInv
<1> SUFFICES ASSUME SyncInit
             PROVE  SyncInv
  OBVIOUS
<1> USE DEF SyncInit, ThreadsInit
<1>1. SyncTypeOK
  BY EmptyQueue DEF SyncTypeOK, SchedTypeOK, ThreadState, ThreadPc
<1>2. SchedInv
  BY EmptyQueue DEF SchedInv, RunqueueSound, NoRunnableLost, FinishedIsOffCpu,
                    BootThread, Queued
<1>3. ClientsRunActive /\ JoinSound
  BY DEF ClientsRunActive, JoinSound
<1>4. \A t \in Thread : ~InLockCall(t) /\ ~InWaitCall(t)
  BY DEF InLockCall, InWaitCall
<1>5. SyncPcMatches
  BY <1>4 DEF SyncPcMatches, StatesAt, SyncPc
<1>6. OneOwner
  BY <1>4 DEF OneOwner, Owners, HandedTo
<1>7. NoLostWakeup
  BY <1>4 DEF NoLostWakeup
<1>8. NodesAlive
  BY EmptyQueue DEF NodesAlive
<1> QED
  BY <1>1, <1>2, <1>3, <1>5, <1>6, <1>7, <1>8 DEF SyncInv

\* The steps that change the owner of no mutex.
OwnersStay == \A m \in Mutex : Owners(m)' = Owners(m)

LEMMA SyncStutters ==
    ASSUME SyncInv, UNCHANGED sync_vars
    PROVE  SyncInv' /\ OwnersStay
<1> USE DEF sync_vars, threads_vars
<1>0. SyncTypeOK /\ SchedInv /\ SyncPcMatches /\ ClientsRunActive /\ JoinSound /\ CallsInv
  BY DEF SyncInv, CallsInv
<1>1. SyncTypeOK'
  BY <1>0 DEF SyncTypeOK, SchedTypeOK, mutex_vars
<1>2. SchedInv'
  BY <1>0 DEF SchedInv, RunqueueSound, NoRunnableLost, FinishedIsOffCpu, BootThread, Queued
<1>3. /\ \A t \in Thread : /\ InLockCall(t)' <=> InLockCall(t)
                           /\ InWaitCall(t)' <=> InWaitCall(t)
      /\ InLockCall(kthread)' <=> InLockCall(kthread)
      /\ InWaitCall(kthread)' <=> InWaitCall(kthread)
  BY DEF InLockCall, InWaitCall
<1>4. SyncPcMatches' /\ ClientsRunActive' /\ JoinSound'
  BY <1>0, <1>3 DEF SyncPcMatches, ClientsRunActive, JoinSound, mutex_vars
<1>5. CallsInv' /\ OwnersStay
  BY <1>0, <1>3, SameCalls DEF OwnersStay
<1> QED
  BY <1>1, <1>2, <1>4, <1>5 DEF SyncInv, CallsInv

\* Every step keeps the invariant, and changes owners in one of these ways.
LEMMA SyncNextInv ==
    ASSUME SyncInv, [SyncNext]_sync_vars
    PROVE  /\ SyncInv'
           /\ \/ OwnersStay
              \/ \E t \in Thread, m \in Mutex : MutexLock(t, m)
              \/ \E t \in Thread, m \in Mutex : HandsOver(t, m)
<1>1. CASE UNCHANGED sync_vars
  BY <1>1, SyncStutters
<1>2. CASE SchedulerStep
  BY <1>2, SchedulerStepKeeps DEF OwnersStay
<1>3. ASSUME NEW t \in Thread, SyncStep(t)
      PROVE  /\ SyncInv'
             /\ OwnersStay \/ \E m \in Mutex : MutexLock(t, m) \/ HandsOver(t, m)
  <2>1. CASE \E m \in Mutex : MutexLock(t, m)
    BY <2>1, LockKeeps
  <2>2. CASE \E m \in Mutex : MutexLockWait(t, m)
    BY <2>2, LockWaitKeeps DEF OwnersStay
  <2>3. CASE \E m \in Mutex : MutexUnlock(t, m)
    BY <2>3, UnlockKeeps
  <2>4. CASE MutexLockSched(t) \/ CondWaitSched(t)
    BY <2>4, CallSchedKeeps DEF OwnersStay
  <2>5. CASE MutexLockReturn(t)
    BY <2>5, LockReturnKeeps DEF OwnersStay
  <2>6. CASE \E c \in Cond : CondSignal(t, c)
    BY <2>6, SignalKeeps DEF OwnersStay
  <2>7. CASE \E c \in Cond : CondBroadcast(t, c)
    BY <2>7, BroadcastKeeps DEF OwnersStay
  <2>8. CASE \E c \in Cond, m \in Mutex : CondWait(t, c, m)
    BY <2>8, WaitKeeps
  <2>9. CASE BroadcastStep(t)
    BY <2>9, BroadcastStepKeeps DEF OwnersStay
  <2>10. CASE BroadcastEnd(t)
    BY <2>10, BroadcastEndKeeps DEF OwnersStay
  <2> QED
    BY <1>3, <2>1, <2>2, <2>3, <2>4, <2>5, <2>6, <2>7, <2>8, <2>9, <2>10 DEF SyncStep
<1> QED
  BY <1>1, <1>2, <1>3 DEF SyncNext

-----------------------------------------------------------------------------
\* The inductive invariant holds: the scheduler's queue, the wait lists and the
\* points of the threads' calls always agree.
THEOREM SyncInvariant == SyncSpec => []SyncInv
<1>1. SyncInit => SyncInv
  BY SyncInitInv
<1>2. SyncInv /\ [SyncNext]_sync_vars => SyncInv'
  BY SyncNextInv
<1> QED
  BY <1>1, <1>2, PTL DEF SyncSpec

\* A locked mutex has exactly one owner, a free one has none, across hand-over
\* (mutex.c:22-34, 42-51).
THEOREM MutualExclusion == SyncSpec => []OneOwner
<1>1. SyncInv => OneOwner
  BY DEF SyncInv
<1> QED
  BY <1>1, SyncInvariant, PTL

\* A thread in mutex_lock() or condition_wait() sleeps exactly as long as somebody can
\* find it on a list (mutex.c:27-30, 50-51, condition.c:25-31, 42-43, 60-65).
THEOREM WakeupsKept == SyncSpec => []NoLostWakeup
<1>1. SyncInv => NoLostWakeup
  BY DEF SyncInv
<1> QED
  BY <1>1, SyncInvariant, PTL

\* A node on a wait list lives on the stack of a thread that is still inside the call
\* that put it there (mutex.c:24-28, condition.c:20-26, 61-63).
THEOREM NodesLive == SyncSpec => []NodesAlive
<1>1. SyncInv => NodesAlive
  BY DEF SyncInv
<1> QED
  BY <1>1, SyncInvariant, PTL

\* How the queue of a mutex or of a condition variable changes in a step: not at all,
\* at the tail by one thread that joins it, or at the head by the one that leaves.
Moves(q, r) ==
    r = q \/ (\E t \in Thread : r = Append(q, t)) \/ (q # <<>> /\ r = Tail(q))

LEMMA MovesOvertakes ==
    ASSUME NEW q \in Seq(Thread), IsInjective(q), NEW r, Moves(q, r)
    PROVE  NobodyOvertakes(q, r)
<1>1. CASE r = q \/ \E t \in Thread : r = Append(q, t)
  <2>1. NobodyOvertakes(q, q)
    BY DEF NobodyOvertakes
  <2> QED
    BY <1>1, <2>1, AppendOvertakes
<1>2. CASE q # <<>> /\ r = Tail(q)
  <2>1. /\ Head(q) = q[1]
        /\ ToSet(Tail(q)) = ToSet(q) \ {Head(q)}
    BY <1>2, PopQueue
  <2>2. \A i \in DOMAIN q : i # 1 => i - 1 \in DOMAIN Tail(q) /\ Tail(q)[i - 1] = q[i]
    BY <1>2
  <2> QED
    BY <1>2, <2>1, <2>2 DEF NobodyOvertakes
<1> QED
  BY <1>1, <1>2 DEF Moves

\* mutex_unlock takes the first thread off the queue of its mutex only (mutex.c:42-51).
TakesFirst(n) == IF waitq[n] = <<>> THEN waitq' = waitq
                 ELSE waitq' = [waitq EXCEPT ![n] = Tail(@)]

LEMMA UnlockTakesFirst ==
    ASSUME SyncTypeOK, NEW n \in Mutex, TakesFirst(n), NEW m \in Mutex
    PROVE  Moves(waitq[m], waitq'[m])
<1>1. CASE waitq' = waitq
  BY <1>1 DEF Moves
<1>2. CASE waitq[n] # <<>> /\ waitq' = [waitq EXCEPT ![n] = Tail(@)]
  <2>1. waitq \in [Mutex -> Seq(Thread)]
    BY DEF SyncTypeOK
  <2>2. waitq'[m] = IF m = n THEN Tail(waitq[m]) ELSE waitq[m]
    BY <1>2, <2>1
  <2> QED
    BY <1>2, <2>2 DEF Moves
<1> QED
  BY <1>1, <1>2 DEF TakesFirst

\* Every step leaves each wait queue as it was or moves it at one end; a broadcast takes
\* the queue of a condition variable over as it stands.
LEMMA QueuesMove ==
    ASSUME SyncTypeOK, SyncPcMatches, SyncNext
    PROVE  /\ \A m \in Mutex : Moves(waitq[m], waitq'[m])
           /\ \A c \in Cond : \/ Moves(condq[c], condq'[c])
                              \/ \E t \in Thread : list'[t] = condq[c]
           /\ \A t \in Thread : list[t] = <<>> \/ Moves(list[t], list'[t])
<1> USE DEF SyncTypeOK
<1>1. CASE SchedulerStep
  BY <1>1 DEF SchedulerStep, mutex_vars, Moves
<1>2. ASSUME NEW t \in Thread, SyncStep(t)
      PROVE  /\ \A m \in Mutex : Moves(waitq[m], waitq'[m])
             /\ \A c \in Cond : \/ Moves(condq[c], condq'[c])
                                \/ \E u \in Thread : list'[u] = condq[c]
             /\ \A u \in Thread : list[u] = <<>> \/ Moves(list[u], list'[u])
  <2>1. CASE \E n \in Mutex : MutexLock(t, n)
    BY <2>1 DEF MutexLock, Moves
  <2>2. CASE \E n \in Mutex : MutexLockWait(t, n)
    BY <2>2 DEF MutexLockWait, Moves
  <2>3. CASE \E n \in Mutex : MutexUnlock(t, n)
    <3>1. PICK n \in Mutex : TakesFirst(n)
      BY <2>3 DEF MutexUnlock, Unlock, TakesFirst
    <3>2. \A m \in Mutex : Moves(waitq[m], waitq'[m])
      BY <3>1, UnlockTakesFirst
    <3>3. condq' = condq /\ list' = list
      BY <2>3 DEF MutexUnlock
    <3> QED
      BY <3>2, <3>3 DEF Moves
  <2>4. CASE MutexLockSched(t) \/ CondWaitSched(t)
    BY <2>4 DEF MutexLockSched, CondWaitSched, mutex_vars, Moves
  <2>5. CASE MutexLockReturn(t)
    BY <2>5 DEF MutexLockReturn, Moves
  <2>6. CASE \E c \in Cond : CondSignal(t, c)
    BY <2>6 DEF CondSignal, Moves
  <2>7. CASE \E c \in Cond : CondBroadcast(t, c)
    <3>1. PICK d \in Cond : CondBroadcast(t, d)
      BY <2>7
    <3>2. /\ waitq' = waitq
          /\ condq' = [condq EXCEPT ![d] = <<>>]
          /\ list' = [list EXCEPT ![t] = condq[d]]
          /\ pc[t] = "run"
      BY <3>1 DEF CondBroadcast, At
    <3>3. list[t] = <<>>
      BY <3>2 DEF SyncPcMatches
    <3>4. list'[t] = condq[d]
      BY <3>2
    <3> QED
      BY <3>2, <3>3, <3>4 DEF Moves
  <2>8. CASE \E c \in Cond, n \in Mutex : CondWait(t, c, n)
    <3>1. PICK d \in Cond, n \in Mutex : CondWait(t, d, n)
      BY <2>8
    <3>2. TakesFirst(n)
      BY <3>1 DEF CondWait, Unlock, TakesFirst
    <3>3. \A m \in Mutex : Moves(waitq[m], waitq'[m])
      BY <3>2, UnlockTakesFirst
    <3>4. list' = list /\ condq' = [condq EXCEPT ![d] = Append(@, t)]
      BY <3>1 DEF CondWait
    <3> QED
      BY <3>3, <3>4 DEF Moves
  <2>9. CASE BroadcastStep(t)
    BY <2>9 DEF BroadcastStep, Moves
  <2>10. CASE BroadcastEnd(t)
    BY <2>10 DEF BroadcastEnd, mutex_vars, Moves
  <2> QED
    BY <1>2, <2>1, <2>2, <2>3, <2>4, <2>5, <2>6, <2>7, <2>8, <2>9, <2>10 DEF SyncStep
<1> QED
  BY <1>1, <1>2 DEF SyncNext

\* While threads are waiting for a mutex only the first of them can become its owner;
\* and nobody overtakes on a wait queue: each is left at the head and joined at the
\* tail (mutex.c:28, 42-51, condition.c:26, 40-43, 54-65).
THEOREM HandOverInOrder == SyncSpec => HandedInOrder
<1> DEFINE
  InOrder ==
    /\ \A m \in Mutex : \A t \in Owners(m)' \ Owners(m) :
         waitq[m] = <<>> \/ t = Head(waitq[m])
    /\ \A m \in Mutex : NobodyOvertakes(waitq[m], waitq'[m])
    /\ \A c \in Cond : \/ NobodyOvertakes(condq[c], condq'[c])
                       \/ \E t \in Thread : list'[t] = condq[c]
    /\ \A t \in Thread : NobodyOvertakes(list[t], list'[t])
<1>1. SyncInv /\ [SyncNext]_sync_vars => [InOrder]_sync_vars
  <2> SUFFICES ASSUME SyncInv, SyncNext
               PROVE  InOrder
    OBVIOUS
  <2>1. ASSUME NEW m \in Mutex, NEW t \in Owners(m)' \ Owners(m)
        PROVE  waitq[m] = <<>> \/ t = Head(waitq[m])
    <3>1. CASE OwnersStay
      BY <2>1, <3>1 DEF OwnersStay
    <3>2. ASSUME NEW u \in Thread, NEW n \in Mutex, MutexLock(u, n)
          PROVE  waitq[m] = <<>> \/ t = Head(waitq[m])
      <4>1. n = m
        BY <2>1, <3>2, LockKeeps
      <4>2. waitq[n] # <<>> => locked[n]
        BY DEF SyncInv, OneOwner
      <4>3. ~locked[n]
        BY <3>2 DEF MutexLock
      <4> QED
        BY <4>1, <4>2, <4>3
    <3>3. ASSUME NEW u \in Thread, NEW n \in Mutex, HandsOver(u, n)
          PROVE  waitq[m] = <<>> \/ t = Head(waitq[m])
      BY <2>1, <3>3 DEF HandsOver
    <3> QED
      BY <3>1, <3>2, <3>3, SyncNextInv
  <2>2. /\ \A m \in Mutex : Moves(waitq[m], waitq'[m])
        /\ \A c \in Cond : \/ Moves(condq[c], condq'[c])
                           \/ \E t \in Thread : list'[t] = condq[c]
        /\ \A t \in Thread : list[t] = <<>> \/ Moves(list[t], list'[t])
    BY QueuesMove DEF SyncInv
  <2>3. /\ \A m \in Mutex : waitq[m] \in Seq(Thread) /\ IsInjective(waitq[m])
        /\ \A c \in Cond : condq[c] \in Seq(Thread) /\ IsInjective(condq[c])
        /\ \A t \in Thread : list[t] \in Seq(Thread) /\ IsInjective(list[t])
    BY DEF SyncInv, SyncTypeOK, NodesAlive
  <2>4. \A m \in Mutex : NobodyOvertakes(waitq[m], waitq'[m])
    BY <2>2, <2>3, MovesOvertakes
  <2>5. ASSUME NEW c \in Cond
        PROVE  NobodyOvertakes(condq[c], condq'[c]) \/ \E t \in Thread : list'[t] = condq[c]
    BY <2>2, <2>3, MovesOvertakes
  <2>6. ASSUME NEW t \in Thread
        PROVE  NobodyOvertakes(list[t], list'[t])
    <3>1. CASE list[t] = <<>>
      BY <3>1 DEF NobodyOvertakes
    <3>2. CASE Moves(list[t], list'[t])
      BY <2>3, <3>2, MovesOvertakes
    <3> QED
      BY <2>2, <3>1, <3>2
  <2> QED
    BY <2>1, <2>4, <2>5, <2>6
<1> QED
  BY <1>1, SyncInvariant, PTL DEF SyncSpec, HandedInOrder

-----------------------------------------------------------------------------
(***************************************************************************)
(* Sync implements Monitor, under the mapping of Sync!Abstract.            *)
(***************************************************************************)
LEMMA OwnerIs ==
    ASSUME SyncInv, SyncInv', NEW m \in Mutex
    PROVE  /\ Owners(m) = {} => OwnerOf(m) = NoThread
           /\ \A t : Owners(m) = {t} => OwnerOf(m) = t
           /\ OwnerOf(m) = NoThread => ~locked[m]
           /\ Owners(m)' = {} => OwnerOf(m)' = NoThread
           /\ \A t : Owners(m)' = {t} => OwnerOf(m)' = t
           /\ Owners(m)' = Owners(m) => OwnerOf(m)' = OwnerOf(m)
<1>1. Owners(m) \subseteq Thread /\ (locked[m] => Owners(m) # {})
  BY DEF Owners, HandedTo, SyncInv, OneOwner
<1>2. \A S, T : S = T => (CHOOSE t \in S : TRUE) = (CHOOSE t \in T : TRUE)
  OBVIOUS
<1>3. \A t : (CHOOSE u \in {t} : TRUE) = t
  OBVIOUS
<1>4. Owners(m) # {} => OwnerOf(m) \in Thread
  BY <1>1 DEF OwnerOf
<1>5. /\ Owners(m) = {} => OwnerOf(m) = NoThread
      /\ Owners(m)' = {} => OwnerOf(m)' = NoThread
  BY DEF OwnerOf
<1>6. /\ \A t : Owners(m) = {t} => OwnerOf(m) = t
      /\ \A t : Owners(m)' = {t} => OwnerOf(m)' = t
  BY <1>3 DEF OwnerOf
<1>7. Owners(m)' = Owners(m) => OwnerOf(m)' = OwnerOf(m)
  BY <1>2 DEF OwnerOf
<1> QED
  BY <1>1, <1>4, <1>5, <1>6, <1>7

\* A thread in client code, or past the sleep of condition_wait(), is on no list.
LEMMA MayAskIs ==
    ASSUME SyncInv, NEW t \in Thread, NEW m \in Mutex, CallsLock(t, m),
           OwnerOf(m) # t
    PROVE  Abstract!MayAsk(t, m)
<1>1. t = current /\ (pc[t] = "run" \/ (pc[t] = "relock" /\ want[t] = m))
  BY DEF CallsLock, At
<1>2. /\ \A n \in Mutex : t \notin ToSet(waitq[n])
      /\ \A c \in Cond : t \notin ToSet(condq[c])
  BY <1>1, RunnerIs
<1>3. Retakes(t) \in {NoMutex, m}
  BY <1>1 DEF Retakes, InWaitCall
<1>4. /\ \A n \in Mutex : ~Abstract!InSeq(t, waitq[n])
      /\ \A c \in Cond : ~Abstract!InSeq(t, condq[c])
  BY <1>2 DEF Abstract!InSeq, ToSet
<1> QED
  BY <1>3, <1>4 DEF Abstract!MayAsk

\* What a step that passes the mutex on does to the abstract owners and lockers.
LEMMA PassOnIs ==
    ASSUME SyncInv, SyncInv', NEW t \in Thread, NEW m \in Mutex, HandsOver(t, m)
    PROVE  /\ [n \in Mutex |-> OwnerOf(n)][m] = t
           /\ Abstract!PassOn(m)
<1>1. /\ waitq \in [Mutex -> Seq(Thread)] /\ waitq' \in [Mutex -> Seq(Thread)]
      /\ \A n \in Mutex : n # m => waitq'[n] = waitq[n]
      /\ Owners(m) = {t} /\ \A n \in Mutex : n # m => Owners(n)' = Owners(n)
  BY DEF HandsOver, SyncInv, SyncTypeOK
<1>2. OwnerOf(m) = t /\ \A n \in Mutex : n # m => OwnerOf(n)' = OwnerOf(n)
  BY <1>1, OwnerIs
<1>3. CASE waitq[m] = <<>>
  <2>1. waitq' = waitq /\ Owners(m)' = {}
    BY <1>3 DEF HandsOver
  <2>2. OwnerOf(m)' = NoThread
    BY <2>1, OwnerIs
  <2>3. [n \in Mutex |-> OwnerOf(n)]' = [[n \in Mutex |-> OwnerOf(n)] EXCEPT ![m] = NoThread]
    BY <1>2, <2>2
  <2> QED
    BY <1>2, <1>3, <2>1, <2>3 DEF Abstract!PassOn
<1>4. CASE waitq[m] # <<>>
  <2>1. Owners(m)' = {Head(waitq[m])} /\ waitq'[m] = Tail(waitq[m])
    BY <1>4 DEF HandsOver
  <2>2. OwnerOf(m)' = Head(waitq[m])
    BY <2>1, OwnerIs
  <2>3. [n \in Mutex |-> OwnerOf(n)]' = [[n \in Mutex |-> OwnerOf(n)] EXCEPT ![m] = Head(waitq[m])]
    BY <1>2, <2>2
  <2>4. waitq' = [waitq EXCEPT ![m] = Tail(@)]
    BY <1>1, <2>1
  <2> QED
    BY <1>2, <1>4, <2>3, <2>4 DEF Abstract!PassOn
<1> QED
  BY <1>3, <1>4

\* mutex_lock() on a free mutex acquires it.
LEMMA LockAcquires ==
    ASSUME SyncInv, SyncInv', NEW t \in Thread, NEW m \in Mutex, MutexLock(t, m)
    PROVE  Abstract!Acquire(t, m)
<1>1. /\ Owners(m) = {} /\ Owners(m)' = {t}
      /\ \A n \in Mutex : n # m => Owners(n)' = Owners(n)
  BY LockKeeps
<1>2. /\ OwnerOf(m) = NoThread /\ OwnerOf(m)' = t
      /\ \A n \in Mutex : n # m => OwnerOf(n)' = OwnerOf(n)
  BY <1>1, OwnerIs
<1>3. Abstract!MayAsk(t, m)
  BY <1>2, MayAskIs DEF MutexLock
<1>4. [n \in Mutex |-> OwnerOf(n)]' = [[n \in Mutex |-> OwnerOf(n)] EXCEPT ![m] = t]
  BY <1>2
<1>5. /\ pc' = [pc EXCEPT ![t] = "run"] /\ want' = [want EXCEPT ![t] = NoMutex]
      /\ UNCHANGED <<waitq, condq>>
  BY DEF MutexLock, CallsLock, At, GoTo
<1>6. Retakes(t)' = NoMutex /\ \A v \in Thread : v # t => Retakes(v)' = Retakes(v)
  BY <1>5 DEF Retakes, InWaitCall, SyncInv, SyncTypeOK
<1>7. [v \in Thread |-> Retakes(v)]' = [[v \in Thread |-> Retakes(v)] EXCEPT ![t] = NoMutex]
  BY <1>6
<1> QED
  BY <1>2, <1>3, <1>4, <1>5, <1>7 DEF Abstract!Acquire

\* mutex_lock() on a locked mutex queues up for it.
LEMMA LockAsks ==
    ASSUME SyncInv, SyncInv', NEW t \in Thread, NEW m \in Mutex, MutexLockWait(t, m)
    PROVE  Abstract!Ask(t, m)
<1>1. \A n \in Mutex : OwnerOf(n)' = OwnerOf(n)
  BY LockWaitKeeps, OwnerIs
<1>2. OwnerOf(m) # NoThread
  BY OwnerIs DEF MutexLockWait
<1>3. OwnerOf(m) # t
  <2>1. t \notin Owners(m)
    BY DEF MutexLockWait, CallsLock, At, Owners, HandedTo, InLockCall
  <2>2. Owners(m) # {}
    BY DEF SyncInv, OneOwner, MutexLockWait
  <2> QED
    BY <2>1, <2>2 DEF OwnerOf
<1>4. Abstract!MayAsk(t, m)
  BY <1>3, MayAskIs DEF MutexLockWait
<1>5. /\ pc' = [pc EXCEPT ![t] = "lockwait"] /\ want' = [want EXCEPT ![t] = m]
      /\ waitq' = [waitq EXCEPT ![m] = Append(@, t)]
      /\ UNCHANGED condq
  BY DEF MutexLockWait, CallsLock, At, GoTo
<1>6. Retakes(t)' = NoMutex /\ \A v \in Thread : v # t => Retakes(v)' = Retakes(v)
  BY <1>5 DEF Retakes, InWaitCall, SyncInv, SyncTypeOK
<1>7. /\ [n \in Mutex |-> OwnerOf(n)]' = [n \in Mutex |-> OwnerOf(n)]
      /\ [v \in Thread |-> Retakes(v)]' = [[v \in Thread |-> Retakes(v)] EXCEPT ![t] = NoMutex]
  BY <1>1, <1>6
<1> QED
  BY <1>2, <1>4, <1>5, <1>7 DEF Abstract!Ask

\* mutex_unlock() releases the mutex or passes it on.
LEMMA UnlockReleases ==
    ASSUME SyncInv, SyncInv', NEW t \in Thread, NEW m \in Mutex, MutexUnlock(t, m)
    PROVE  Abstract!Release(t, m)
<1>1. /\ [n \in Mutex |-> OwnerOf(n)][m] = t
      /\ Abstract!PassOn(m)
  BY UnlockKeeps, PassOnIs
<1>2. UNCHANGED <<pc, condq, want>>
  BY DEF MutexUnlock
<1>3. \A v \in Thread : Retakes(v)' = Retakes(v)
  BY <1>2 DEF Retakes, InWaitCall
<1>4. [v \in Thread |-> Retakes(v)]' = [v \in Thread |-> Retakes(v)]
  BY <1>3
<1> QED
  BY <1>1, <1>2, <1>4 DEF Abstract!Release

\* condition_wait() releases the mutex and falls asleep in one step.
LEMMA WaitSleeps ==
    ASSUME SyncInv, SyncInv', NEW t \in Thread, NEW c \in Cond, NEW m \in Mutex,
           CondWait(t, c, m)
    PROVE  Abstract!Wait(t, c, m)
<1>1. /\ [n \in Mutex |-> OwnerOf(n)][m] = t
      /\ Abstract!PassOn(m)
  BY WaitKeeps, PassOnIs
<1>2. /\ pc' = [pc EXCEPT ![t] = "condwait"] /\ want' = [want EXCEPT ![t] = m]
      /\ condq' = [condq EXCEPT ![c] = Append(@, t)]
  BY DEF CondWait, At, GoTo
<1>3. Retakes(t)' = m /\ \A v \in Thread : v # t => Retakes(v)' = Retakes(v)
  BY <1>2 DEF Retakes, InWaitCall, SyncInv, SyncTypeOK
<1>4. [v \in Thread |-> Retakes(v)]' = [[v \in Thread |-> Retakes(v)] EXCEPT ![t] = m]
  BY <1>3
<1> QED
  BY <1>1, <1>2, <1>4 DEF Abstract!Wait

\* The steps that neither change an owner nor begin or end a condition_wait().
LEMMA AbstractStays ==
    ASSUME SyncInv, SyncInv', OwnersStay,
           \A v \in Thread : /\ InWaitCall(v)' <=> InWaitCall(v)
                             /\ InWaitCall(v) => want'[v] = want[v]
    PROVE  /\ [n \in Mutex |-> OwnerOf(n)]' = [n \in Mutex |-> OwnerOf(n)]
           /\ [v \in Thread |-> Retakes(v)]' = [v \in Thread |-> Retakes(v)]
<1>1. \A n \in Mutex : OwnerOf(n)' = OwnerOf(n)
  BY OwnerIs DEF OwnersStay
<1>2. \A v \in Thread : Retakes(v)' = Retakes(v)
  BY DEF Retakes
<1> QED
  BY <1>1, <1>2

LEMMA SyncStepImplements ==
    ASSUME SyncInv, SyncInv', [SyncNext]_sync_vars
    PROVE  [Abstract!MonitorNext]_(Abstract!monitor_vars)
<1> USE DEF Abstract!monitor_vars, Abstract!MonitorNext
<1>0. SyncTypeOK
  BY DEF SyncInv
<1>1. CASE UNCHANGED sync_vars
  <2>1. UNCHANGED <<pc, waitq, condq, want>>
    BY <1>1 DEF sync_vars, threads_vars, mutex_vars
  <2>2. \A v \in Thread : InWaitCall(v)' <=> InWaitCall(v)
    BY <2>1 DEF InWaitCall
  <2> QED
    BY <1>1, <2>1, <2>2, SyncStutters, AbstractStays
<1>2. CASE SchedulerStep
  <2>1. UNCHANGED <<waitq, condq, want>>
    BY <1>2 DEF SchedulerStep, mutex_vars
  <2> QED
    BY <1>2, <2>1, SchedulerStepKeeps, AbstractStays DEF OwnersStay
<1>3. ASSUME NEW t \in Thread, SyncStep(t)
      PROVE  [Abstract!MonitorNext]_(Abstract!monitor_vars)
  <2>1. CASE \E m \in Mutex : MutexLock(t, m)
    BY <2>1, LockAcquires
  <2>2. CASE \E m \in Mutex : MutexLockWait(t, m)
    BY <2>2, LockAsks
  <2>3. CASE \E m \in Mutex : MutexUnlock(t, m)
    BY <2>3, UnlockReleases
  <2>4. CASE \E c \in Cond, m \in Mutex : CondWait(t, c, m)
    BY <2>4, WaitSleeps
  <2>5. ASSUME NEW c \in Cond, CondSignal(t, c)
        PROVE  Abstract!WakeOne(c)
    <3>1. UNCHANGED <<pc, waitq, want>> /\ OwnersStay
      BY <2>5, SignalKeeps DEF CondSignal, OwnersStay
    <3>2. \A v \in Thread : InWaitCall(v)' <=> InWaitCall(v)
      BY <3>1 DEF InWaitCall
    <3> QED
      BY <2>5, <3>1, <3>2, AbstractStays DEF Abstract!WakeOne, CondSignal
  <2>6. ASSUME NEW c \in Cond, CondBroadcast(t, c)
        PROVE  Abstract!WakeAll(c)
    <3>1. /\ UNCHANGED <<waitq, want>> /\ OwnersStay
          /\ pc[t] = "run" /\ pc' = [pc EXCEPT ![t] = "bcast"]
      BY <2>6, BroadcastKeeps DEF CondBroadcast, At, GoTo, OwnersStay
    <3>2. \A v \in Thread : InWaitCall(v)' <=> InWaitCall(v)
      BY <1>0, <3>1 DEF SyncTypeOK, InWaitCall
    <3> QED
      BY <2>6, <3>1, <3>2, AbstractStays DEF Abstract!WakeAll, CondBroadcast
  <2>7. CASE MutexLockSched(t) \/ CondWaitSched(t) \/ BroadcastEnd(t)
    <3>1. OwnersStay
      <4>1. CASE MutexLockSched(t) \/ CondWaitSched(t)
        BY <4>1, CallSchedKeeps DEF OwnersStay
      <4>2. CASE BroadcastEnd(t)
        BY <4>2, BroadcastEndKeeps DEF OwnersStay
      <4> QED
        BY <2>7, <4>1, <4>2
    <3>2. UNCHANGED mutex_vars
      BY <2>7 DEF MutexLockSched, CondWaitSched, BroadcastEnd
    <3>3. UNCHANGED <<waitq, condq, want>>
      BY <3>2 DEF mutex_vars
    <3>4. \/ pc[t] = "lockwait" /\ pc' = [pc EXCEPT ![t] = "lockret"]
          \/ pc[t] = "condwait" /\ pc' = [pc EXCEPT ![t] = "relock"]
          \/ pc[t] = "bcast" /\ pc' = [pc EXCEPT ![t] = "run"]
      BY <2>7 DEF MutexLockSched, CondWaitSched, BroadcastEnd, At, GoTo
    <3>5. \A v \in Thread : InWaitCall(v)' <=> InWaitCall(v)
      BY <1>0, <3>4 DEF SyncTypeOK, InWaitCall
    <3> QED
      BY <3>1, <3>3, <3>5, AbstractStays
  <2>8. CASE MutexLockReturn(t)
    <3>1. /\ UNCHANGED <<waitq, condq>> /\ OwnersStay
          /\ pc[t] = "lockret" /\ pc' = [pc EXCEPT ![t] = "run"]
          /\ want' = [want EXCEPT ![t] = NoMutex]
      BY <2>8, LockReturnKeeps DEF MutexLockReturn, At, GoTo, OwnersStay
    <3>2. \A v \in Thread : /\ InWaitCall(v)' <=> InWaitCall(v)
                            /\ InWaitCall(v) => want'[v] = want[v]
      BY <1>0, <3>1 DEF SyncTypeOK, InWaitCall
    <3> QED
      BY <3>1, <3>2, AbstractStays
  <2>9. CASE BroadcastStep(t)
    <3>1. UNCHANGED <<pc, waitq, condq, want>> /\ OwnersStay
      BY <2>9, BroadcastStepKeeps DEF BroadcastStep, OwnersStay
    <3>2. \A v \in Thread : InWaitCall(v)' <=> InWaitCall(v)
      BY <3>1 DEF InWaitCall
    <3> QED
      BY <3>1, <3>2, AbstractStays
  <2> QED
    BY <1>3, <2>1, <2>2, <2>3, <2>4, <2>5, <2>6, <2>7, <2>8, <2>9 DEF SyncStep
<1> QED
  BY <1>1, <1>2, <1>3 DEF SyncNext

\* The calls do what mutex.h and condition.h promise: in particular the release and
\* the sleep of condition_wait() are one step (condition.c:17-33, mutex.c:18-53).
THEOREM MonitorImplemented == SyncSpec => ImplementsMonitor
<1>1. SyncInit => Abstract!MonitorInit
  <2> SUFFICES ASSUME SyncInit
               PROVE  Abstract!MonitorInit
    OBVIOUS
  <2>1. \A t \in Thread : ~InLockCall(t) /\ ~InWaitCall(t) /\ held[t] = {}
    BY DEF SyncInit, ThreadsInit, InLockCall, InWaitCall
  <2>2. \A m \in Mutex : OwnerOf(m) = NoThread
    BY <2>1 DEF OwnerOf, Owners, HandedTo
  <2>3. \A t \in Thread : Retakes(t) = NoMutex
    BY <2>1 DEF Retakes
  <2> QED
    BY <2>2, <2>3 DEF Abstract!MonitorInit, SyncInit
<1>2. SyncInv /\ SyncInv' /\ [SyncNext]_sync_vars => [Abstract!MonitorNext]_(Abstract!monitor_vars)
  BY SyncStepImplements
<1> QED
  BY <1>1, <1>2, SyncInvariant, PTL DEF SyncSpec, ImplementsMonitor, Abstract!MonitorSpec
=============================================================================
