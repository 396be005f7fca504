--------------------------- MODULE SpinlockProofs ---------------------------
(***************************************************************************)
(* Proofs about module Spinlock: critical sections are indivisible, for    *)
(* every number of threads and every depth of nesting.                     *)
(***************************************************************************)
EXTENDS Spinlock, TLAPS

USE SpinlockAssumption

LEMMA InitIInv == Init => IInv
<1> SUFFICES ASSUME Init
             PROVE  IInv
  OBVIOUS
<1>1. TypeOK
  <2>1. ints \in BOOLEAN /\ in_service \in BOOLEAN
    BY DEF Init
  <2> QED
    BY <2>1 DEF Init, TypeOK, CodePoint
<1>2. SectionExclusive /\ PreemptCountIsCurrents
  BY DEF Init, SectionExclusive, PreemptCountIsCurrents
<1>3. PointsAgree
  BY DEF Init, PointsAgree, Point, IrqPoint, SwitchPoint, Interruptible
<1> QED
  BY <1>1, <1>2, <1>3 DEF IInv

\* What the invariant says of the current thread, point by point.
LEMMA CurrentFacts ==
    ASSUME IInv
    PROVE  /\ TypeOK /\ SectionExclusive /\ PreemptCountIsCurrents /\ PointsAgree
           /\ held[current] \in 0 .. MaxDepth /\ disabled[current] \in 0 .. MaxDepth
           /\ ip[current] \in CodePoint => Point(current) = ip[current]
           /\ ip[current] \in IrqPoint => Point(current) = ret[current]
  BY DEF IInv, TypeOK, Point, CodePoint, IrqPoint

\* A step within a thread's own code: what it owes is about that thread only.
LEMMA LocalStep ==
    ASSUME IInv, TypeOK', current' = current,
           ip[current] \in CodePoint, ip'[current] \in CodePoint,
           \A t \in Thread : t # current =>
              /\ ip'[t] = ip[t] /\ ret'[t] = ret[t] /\ saved'[t] = saved[t]
              /\ held'[t] = held[t] /\ disabled'[t] = disabled[t],
           \A n \in 1 .. held'[current] : saved'[current][n] = (n = 1),
           ip'[current] \in {"lock1", "lock2", "unlock1", "sched2", "sched3", "sched4"}
              => saved'[current][held'[current] + 1] = (held'[current] = 0),
           ip'[current] \in {"lock1", "lock2"} => held'[current] < MaxDepth,
           ip'[current] \in {"new", "sched1", "sched2", "sched3", "sched4"}
              => held'[current] = 0 /\ disabled'[current] = 0,
           ip'[current] \in Interruptible => (ints' <=> held'[current] = 0),
           ip'[current] \notin Interruptible => ~ints',
           preempt_cnt' = held'[current] + disabled'[current],
           in_service' = in_service
    PROVE  IInv'
<1>0. TypeOK /\ SectionExclusive /\ PreemptCountIsCurrents /\ PointsAgree
  BY CurrentFacts
<1>1. SectionExclusive'
  <2>1. ASSUME NEW t \in Thread, held'[t] > 0, t # current
        PROVE  FALSE
    <3>1. held'[t] = held[t]
      BY <2>1
    <3> QED
      BY <1>0, <2>1, <3>1 DEF SectionExclusive
  <2>2. held'[current] > 0 => ~ints'
    <3>1. held'[current] > 0 => held'[current] # 0
      OBVIOUS
    <3> QED
      BY <3>1
  <2> QED
    BY <2>1, <2>2 DEF SectionExclusive
<1>2. PreemptCountIsCurrents'
  <2>1. \A t \in Thread : t # current => held'[t] = 0 /\ disabled'[t] = 0
    BY <1>0 DEF PreemptCountIsCurrents
  <2> QED
    BY <2>1 DEF PreemptCountIsCurrents
<1>3. ip'[current] \notin IrqPoint /\ Point(current)' = ip'[current]
  BY DEF Point, CodePoint, IrqPoint
<1>4. \A t \in Thread : t # current => Point(t)' = Point(t)
  BY DEF Point
<1>5. PointsAgree'
  <2> SUFFICES ASSUME NEW t \in Thread
               PROVE  /\ \A n \in 1 .. held'[t] : saved'[t][n] = (n = 1)
                      /\ Point(t)' \in {"lock1", "lock2", "unlock1", "sched2", "sched3", "sched4"}
                            => saved'[t][held'[t] + 1] = (held'[t] = 0)
                      /\ Point(t)' \in {"lock1", "lock2"} => held'[t] < MaxDepth
                      /\ Point(t)' \in {"new", "sched1", "sched2", "sched3", "sched4"}
                            => held'[t] = 0 /\ disabled'[t] = 0
                      /\ ip'[t] \in IrqPoint => ret'[t] \in Interruptible /\ held'[t] = 0
                      /\ t # current' => ip'[t] \in SwitchPoint
                      /\ ip'[current'] = "irqsched" => preempt_cnt' = 0
                      /\ ~in_service'
    BY DEF PointsAgree
  <2>0. ~in_service'
    BY <1>0 DEF PointsAgree, CodePoint
  <2>1. CASE t = current
    BY <1>3, <2>0, <2>1 DEF CodePoint
  <2>2. CASE t # current
    BY <1>0, <1>4, <2>0, <2>2 DEF PointsAgree, CodePoint
  <2> QED
    BY <2>1, <2>2
<1> QED
  BY <1>1, <1>2, <1>5 DEF IInv

\* The variable enable of a call is a slot of its own.
LEMMA SaveFlagOnly ==
    ASSUME TypeOK, SaveFlag
    PROVE  /\ saved' \in [Thread -> [1 .. MaxDepth + 1 -> BOOLEAN]]
           /\ saved'[current][held[current] + 1] = ints
           /\ \A n \in 1 .. held[current] : saved'[current][n] = saved[current][n]
           /\ \A t \in Thread : t # current => saved'[t] = saved[t]
<1> DEFINE k == held[current] + 1
<1>1. k \in 1 .. MaxDepth + 1 /\ current \in Thread /\ ints \in BOOLEAN
  BY DEF TypeOK
<1>2. saved[current] \in [1 .. MaxDepth + 1 -> BOOLEAN]
  BY <1>1 DEF TypeOK
<1>3. saved' = [saved EXCEPT ![current] = [saved[current] EXCEPT ![k] = ints]]
  BY DEF SaveFlag
<1>4. saved'[current] = [saved[current] EXCEPT ![k] = ints]
  BY <1>1, <1>3 DEF TypeOK
<1>5. \A n \in 1 .. held[current] : n # k /\ n \in 1 .. MaxDepth + 1
  BY <1>1 DEF TypeOK
<1> QED
  BY <1>1, <1>2, <1>3, <1>4, <1>5 DEF TypeOK

\* Moving on to the next point.
LEMMA Moves ==
    ASSUME TypeOK, NEW x \in CodePoint, NEW y \in CodePoint, At(x), GoTo(y)
    PROVE  /\ ip' \in [Thread -> CodePoint \cup IrqPoint]
           /\ ip[current] = x /\ ip'[current] = y
           /\ \A t \in Thread : t # current => ip'[t] = ip[t]
  BY DEF TypeOK, At, GoTo

\* What the invariant gives a step of the thread's own code.
LEMMA CodeFacts ==
    ASSUME IInv
    PROVE  /\ TypeOK
           /\ held[current] \in 0 .. MaxDepth /\ disabled[current] \in 0 .. MaxDepth
           /\ preempt_cnt = held[current] + disabled[current]
           /\ \A n \in 1 .. held[current] : saved[current][n] = (n = 1)
           /\ ip[current] \in {"lock1", "lock2", "unlock1", "sched2", "sched3", "sched4"}
                => saved[current][held[current] + 1] = (held[current] = 0)
           /\ ip[current] \in {"lock1", "lock2"} => held[current] < MaxDepth
           /\ ip[current] \in {"new", "sched1", "sched2", "sched3", "sched4"}
                => held[current] = 0 /\ disabled[current] = 0
           /\ ip[current] \in Interruptible => (ints <=> held[current] = 0)
           /\ ip[current] \notin Interruptible => ~ints
<1>1. /\ TypeOK /\ PointsAgree /\ PreemptCountIsCurrents
      /\ held[current] \in 0 .. MaxDepth /\ disabled[current] \in 0 .. MaxDepth
      /\ current \in Thread
  BY CurrentFacts DEF TypeOK
<1>2. \A l \in CodePoint : ip[current] = l => Point(current) = l
  BY CurrentFacts
<1>3. /\ ip[current] \in {"lock1", "lock2", "unlock1", "sched2", "sched3", "sched4"}
            => saved[current][held[current] + 1] = (held[current] = 0)
      /\ ip[current] \in {"lock1", "lock2"} => held[current] < MaxDepth
      /\ ip[current] \in {"new", "sched1", "sched2", "sched3", "sched4"}
            => held[current] = 0 /\ disabled[current] = 0
  BY <1>1, <1>2 DEF PointsAgree, CodePoint
<1> QED
  BY <1>1, <1>3 DEF PointsAgree, PreemptCountIsCurrents

\* Steps of the thread's own code.
LEMMA CodeStep ==
    IInv /\ (LockRead \/ LockCli \/ LockCount \/ UnlockCount \/ UnlockRestore
             \/ DisablePreempt \/ EnablePreempt \/ SchedTest \/ SchedRead
             \/ SchedCli \/ SchedRestore \/ ThreadStart) => IInv'
<1> SUFFICES ASSUME IInv
             PROVE  (LockRead \/ LockCli \/ LockCount \/ UnlockCount \/ UnlockRestore
                     \/ DisablePreempt \/ EnablePreempt \/ SchedTest \/ SchedRead
                     \/ SchedCli \/ SchedRestore \/ ThreadStart) => IInv'
  OBVIOUS
<1>0. /\ TypeOK
      /\ held[current] \in 0 .. MaxDepth /\ disabled[current] \in 0 .. MaxDepth
      /\ preempt_cnt = held[current] + disabled[current]
      /\ \A n \in 1 .. held[current] : saved[current][n] = (n = 1)
      /\ ip[current] \in {"lock1", "lock2", "unlock1", "sched2", "sched3", "sched4"}
           => saved[current][held[current] + 1] = (held[current] = 0)
      /\ ip[current] \in {"lock1", "lock2"} => held[current] < MaxDepth
      /\ ip[current] \in {"new", "sched1", "sched2", "sched3", "sched4"}
           => held[current] = 0 /\ disabled[current] = 0
      /\ ip[current] \in Interruptible => (ints <=> held[current] = 0)
      /\ ip[current] \notin Interruptible => ~ints
  BY CodeFacts
<1>1. ASSUME LockRead PROVE IInv'
  <2>1. /\ ip' \in [Thread -> CodePoint \cup IrqPoint]
        /\ ip[current] = "run" /\ ip'[current] = "lock1"
        /\ \A t \in Thread : t # current => ip'[t] = ip[t]
    BY <1>0, <1>1, Moves DEF LockRead, CodePoint
  <2>2. /\ UNCHANGED <<ints, preempt_cnt, current, held, disabled, ret, in_service>>
        /\ held[current] < MaxDepth
    BY <1>0, <1>1, <2>1 DEF LockRead
  <2>3. /\ saved' \in [Thread -> [1 .. MaxDepth + 1 -> BOOLEAN]]
        /\ saved'[current][held[current] + 1] = ints
        /\ \A n \in 1 .. held[current] : saved'[current][n] = saved[current][n]
        /\ \A t \in Thread : t # current => saved'[t] = saved[t]
    BY <1>0, <1>1, SaveFlagOnly DEF LockRead
  <2>4. TypeOK'
    BY <1>0, <2>1, <2>2, <2>3 DEF TypeOK
  <2>5. ints \in BOOLEAN /\ (ints <=> held[current] = 0)
    BY <1>0, <2>1 DEF TypeOK, Interruptible
  <2>6. saved'[current][held'[current] + 1] = (held'[current] = 0)
    BY <2>2, <2>3, <2>5
  <2>7. \A n \in 1 .. held'[current] : saved'[current][n] = (n = 1)
    BY <1>0, <2>2, <2>3
  <2> QED
    BY <1>0, <2>1, <2>2, <2>3, <2>4, <2>5, <2>6, <2>7, LocalStep DEF CodePoint, Interruptible
<1>2. ASSUME LockCli PROVE IInv'
  <2>1. /\ ip' \in [Thread -> CodePoint \cup IrqPoint]
        /\ ip[current] = "lock1" /\ ip'[current] = "lock2"
        /\ \A t \in Thread : t # current => ip'[t] = ip[t]
    BY <1>0, <1>2, Moves DEF LockCli, CodePoint
  <2>2. UNCHANGED <<preempt_cnt, current, held, saved, disabled, ret, in_service>>
    BY <1>2 DEF LockCli
  <2>3. ints' = FALSE
    BY <1>0, <1>2, <2>1 DEF LockCli
  <2>4. TypeOK'
    BY <1>0, <2>1, <2>2, <2>3 DEF TypeOK
  <2> QED
    BY <1>0, <2>1, <2>2, <2>3, <2>4, LocalStep DEF CodePoint, Interruptible
<1>3. ASSUME LockCount PROVE IInv'
  <2>1. /\ ip' \in [Thread -> CodePoint \cup IrqPoint]
        /\ ip[current] = "lock2" /\ ip'[current] = "run"
        /\ \A t \in Thread : t # current => ip'[t] = ip[t]
    BY <1>0, <1>3, Moves DEF LockCount, CodePoint
  <2>2. UNCHANGED <<ints, current, saved, disabled, ret, in_service>>
    BY <1>3 DEF LockCount
  <2>3. /\ held'[current] = held[current] + 1
        /\ held' \in [Thread -> 0 .. MaxDepth]
        /\ \A t \in Thread : t # current => held'[t] = held[t]
    BY <1>0, <1>3, <2>1 DEF LockCount, TypeOK
  <2>4. preempt_cnt' = preempt_cnt + 1
    BY <1>3 DEF LockCount
  <2>5. preempt_cnt' = held'[current] + disabled'[current] /\ preempt_cnt' \in Nat
    <3>1. held'[current] \in 0 .. MaxDepth
      BY <1>0, <2>3 DEF TypeOK
    <3> QED
      BY <1>0, <2>2, <2>3, <2>4, <3>1
  <2>6. TypeOK'
    BY <1>0, <2>1, <2>2, <2>3, <2>5 DEF TypeOK
  <2>7. \A n \in 1 .. held'[current] : saved'[current][n] = (n = 1)
    <3>1. saved[current][held[current] + 1] = (held[current] = 0)
      BY <1>0, <2>1
    <3>2. \A n \in 1 .. held'[current] : n \in 1 .. held[current] \/ n = held[current] + 1
      BY <1>0, <2>3
    <3>3. (held[current] + 1 = 1) = (held[current] = 0)
      BY <1>0
    <3> QED
      BY <1>0, <2>2, <3>1, <3>2, <3>3
  <2>8. ~ints' /\ held'[current] # 0
    BY <1>0, <2>1, <2>2, <2>3 DEF Interruptible
  <2> QED
    BY <1>0, <2>1, <2>2, <2>3, <2>5, <2>6, <2>7, <2>8, LocalStep DEF CodePoint, Interruptible
<1>4. ASSUME UnlockCount PROVE IInv'
  <2>1. /\ ip' \in [Thread -> CodePoint \cup IrqPoint]
        /\ ip[current] = "run" /\ ip'[current] = "unlock1"
        /\ \A t \in Thread : t # current => ip'[t] = ip[t]
    BY <1>0, <1>4, Moves DEF UnlockCount, CodePoint
  <2>2. UNCHANGED <<ints, current, saved, disabled, ret, in_service>>
    BY <1>4 DEF UnlockCount
  <2>3. /\ held'[current] = held[current] - 1
        /\ held' \in [Thread -> 0 .. MaxDepth]
        /\ \A t \in Thread : t # current => held'[t] = held[t]
    BY <1>0, <1>4, <2>1 DEF UnlockCount, TypeOK
  <2>4. preempt_cnt' = preempt_cnt - 1
    BY <1>4 DEF UnlockCount
  <2>5. preempt_cnt' = held'[current] + disabled'[current] /\ preempt_cnt' \in Nat
    <3>1. held'[current] \in 0 .. MaxDepth
      BY <1>0, <2>3 DEF TypeOK
    <3> QED
      BY <1>0, <2>2, <2>3, <2>4, <3>1
  <2>6. TypeOK'
    BY <1>0, <2>1, <2>2, <2>3, <2>5 DEF TypeOK
  <2>7. \A n \in 1 .. held'[current] : saved'[current][n] = (n = 1)
    BY <1>0, <2>2, <2>3
  <2>8. held[current] > 0
    BY <1>4 DEF UnlockCount
  <2>9. saved'[current][held'[current] + 1] = (held'[current] = 0)
    <3>1. held'[current] + 1 = held[current] /\ held[current] \in 1 .. held[current]
      BY <1>0, <2>3, <2>8
    <3>2. saved[current][held[current]] = (held[current] = 1)
      BY <1>0, <3>1
    <3>3. (held[current] = 1) = (held'[current] = 0)
      BY <1>0, <2>3
    <3> QED
      BY <2>2, <3>1, <3>2, <3>3
  <2>10. ~ints'
    BY <1>0, <2>1, <2>2, <2>8 DEF Interruptible
  <2> QED
    BY <1>0, <2>1, <2>2, <2>3, <2>5, <2>6, <2>7, <2>9, <2>10, LocalStep DEF CodePoint, Interruptible
<1>5. ASSUME UnlockRestore PROVE IInv'
  <2>1. /\ ip' \in [Thread -> CodePoint \cup IrqPoint]
        /\ ip[current] = "unlock1" /\ ip'[current] = "run"
        /\ \A t \in Thread : t # current => ip'[t] = ip[t]
    BY <1>0, <1>5, Moves DEF UnlockRestore, CodePoint
  <2>2. UNCHANGED <<preempt_cnt, current, held, saved, disabled, ret, in_service>>
    BY <1>5 DEF UnlockRestore
  <2>3. ints' \in BOOLEAN /\ (ints' <=> held[current] = 0)
    BY <1>0, <1>5, <2>1 DEF UnlockRestore, RestoreFlag, TypeOK, Interruptible
  <2>4. TypeOK'
    BY <1>0, <2>1, <2>2, <2>3 DEF TypeOK
  <2> QED
    BY <1>0, <2>1, <2>2, <2>3, <2>4, LocalStep DEF CodePoint, Interruptible
<1>6. ASSUME DisablePreempt PROVE IInv'
  <2>1. /\ ip[current] = "run" /\ ip'[current] = "run"
        /\ ip' = ip /\ ip' \in [Thread -> CodePoint \cup IrqPoint]
    BY <1>0, <1>6 DEF DisablePreempt, At, TypeOK
  <2>2. UNCHANGED <<ints, current, held, saved, ret, in_service>>
    BY <1>6 DEF DisablePreempt
  <2>3. /\ disabled'[current] = disabled[current] + 1
        /\ disabled' \in [Thread -> 0 .. MaxDepth]
        /\ \A t \in Thread : t # current => disabled'[t] = disabled[t]
    BY <1>0, <1>6 DEF DisablePreempt, TypeOK
  <2>4. preempt_cnt' = preempt_cnt + 1
    BY <1>6 DEF DisablePreempt
  <2>5. preempt_cnt' = held'[current] + disabled'[current] /\ preempt_cnt' \in Nat
    <3>1. disabled'[current] \in 0 .. MaxDepth
      BY <1>0, <2>3 DEF TypeOK
    <3> QED
      BY <1>0, <2>2, <2>3, <2>4, <3>1
  <2>6. TypeOK'
    BY <1>0, <2>1, <2>2, <2>3, <2>5 DEF TypeOK
  <2> QED
    BY <1>0, <2>1, <2>2, <2>3, <2>5, <2>6, LocalStep DEF CodePoint, Interruptible
<1>7. ASSUME EnablePreempt PROVE IInv'
  <2>1. /\ ip[current] = "run" /\ ip'[current] = "run"
        /\ ip' = ip /\ ip' \in [Thread -> CodePoint \cup IrqPoint]
    BY <1>0, <1>7 DEF EnablePreempt, At, TypeOK
  <2>2. UNCHANGED <<ints, current, held, saved, ret, in_service>>
    BY <1>7 DEF EnablePreempt
  <2>3. /\ disabled'[current] = disabled[current] - 1
        /\ disabled' \in [Thread -> 0 .. MaxDepth]
        /\ \A t \in Thread : t # current => disabled'[t] = disabled[t]
    BY <1>0, <1>7 DEF EnablePreempt, TypeOK
  <2>4. preempt_cnt' = preempt_cnt - 1
    BY <1>7 DEF EnablePreempt
  <2>5. preempt_cnt' = held'[current] + disabled'[current] /\ preempt_cnt' \in Nat
    <3>1. disabled'[current] \in 0 .. MaxDepth
      BY <1>0, <2>3 DEF TypeOK
    <3> QED
      BY <1>0, <2>2, <2>3, <2>4, <3>1
  <2>6. TypeOK'
    BY <1>0, <2>1, <2>2, <2>3, <2>5 DEF TypeOK
  <2> QED
    BY <1>0, <2>1, <2>2, <2>3, <2>5, <2>6, LocalStep DEF CodePoint, Interruptible
<1>8. ASSUME SchedTest PROVE IInv'
  <2>1. /\ ip' \in [Thread -> CodePoint \cup IrqPoint]
        /\ ip[current] = "run"
        /\ \A t \in Thread : t # current => ip'[t] = ip[t]
        /\ ip'[current] = "run" \/ (ip'[current] = "sched1" /\ preempt_cnt = 0)
    <3>1. CASE preempt_cnt = 0
      BY <1>0, <1>8, <3>1, Moves DEF SchedTest, CodePoint
    <3>2. CASE preempt_cnt # 0
      BY <1>0, <1>8, <3>2, Moves DEF SchedTest, CodePoint
    <3> QED
      BY <3>1, <3>2
  <2>2. UNCHANGED <<ints, preempt_cnt, current, held, saved, disabled, ret, in_service>>
    BY <1>8 DEF SchedTest
  <2>3. ints' = ints
    BY <1>0, <1>8, <2>1 DEF SchedTest
  <2>4. TypeOK'
    BY <1>0, <2>1, <2>2, <2>3 DEF TypeOK
  <2> QED
    BY <1>0, <2>1, <2>2, <2>3, <2>4, LocalStep DEF CodePoint, Interruptible
<1>9. ASSUME SchedRead PROVE IInv'
  <2>1. /\ ip' \in [Thread -> CodePoint \cup IrqPoint]
        /\ ip[current] = "sched1" /\ ip'[current] = "sched2"
        /\ \A t \in Thread : t # current => ip'[t] = ip[t]
    BY <1>0, <1>9, Moves DEF SchedRead, CodePoint
  <2>2. /\ UNCHANGED <<ints, preempt_cnt, current, held, disabled, ret, in_service>>
        /\ held[current] = 0 /\ disabled[current] = 0
    BY <1>0, <1>9, <2>1 DEF SchedRead
  <2>3. /\ saved' \in [Thread -> [1 .. MaxDepth + 1 -> BOOLEAN]]
        /\ saved'[current][held[current] + 1] = ints
        /\ \A n \in 1 .. held[current] : saved'[current][n] = saved[current][n]
        /\ \A t \in Thread : t # current => saved'[t] = saved[t]
    BY <1>0, <1>9, SaveFlagOnly DEF SchedRead
  <2>4. TypeOK'
    BY <1>0, <2>1, <2>2, <2>3 DEF TypeOK
  <2>5. ints \in BOOLEAN /\ (ints <=> held[current] = 0)
    BY <1>0, <2>1 DEF TypeOK, Interruptible
  <2>6. saved'[current][held'[current] + 1] = (held'[current] = 0)
    BY <2>2, <2>3, <2>5
  <2>7. \A n \in 1 .. held'[current] : saved'[current][n] = (n = 1)
    BY <1>0, <2>2, <2>3
  <2> QED
    BY <1>0, <2>1, <2>2, <2>3, <2>4, <2>5, <2>6, <2>7, LocalStep DEF CodePoint, Interruptible
<1>10. ASSUME SchedCli PROVE IInv'
  <2>1. /\ ip' \in [Thread -> CodePoint \cup IrqPoint]
        /\ ip[current] = "sched2" /\ ip'[current] = "sched3"
        /\ \A t \in Thread : t # current => ip'[t] = ip[t]
    BY <1>0, <1>10, Moves DEF SchedCli, CodePoint
  <2>2. UNCHANGED <<preempt_cnt, current, held, saved, disabled, ret, in_service>>
    BY <1>10 DEF SchedCli
  <2>3. ints' = FALSE
    BY <1>0, <1>10, <2>1 DEF SchedCli
  <2>4. TypeOK'
    BY <1>0, <2>1, <2>2, <2>3 DEF TypeOK
  <2> QED
    BY <1>0, <2>1, <2>2, <2>3, <2>4, LocalStep DEF CodePoint, Interruptible
<1>11. ASSUME SchedRestore PROVE IInv'
  <2>1. /\ ip' \in [Thread -> CodePoint \cup IrqPoint]
        /\ ip[current] = "sched4" /\ ip'[current] = "run"
        /\ \A t \in Thread : t # current => ip'[t] = ip[t]
    BY <1>0, <1>11, Moves DEF SchedRestore, CodePoint
  <2>2. UNCHANGED <<preempt_cnt, current, held, saved, disabled, ret, in_service>>
    BY <1>11 DEF SchedRestore
  <2>3. ints' \in BOOLEAN /\ (ints' <=> held[current] = 0)
    BY <1>0, <1>11, <2>1 DEF SchedRestore, RestoreFlag, TypeOK, Interruptible
  <2>4. TypeOK'
    BY <1>0, <2>1, <2>2, <2>3 DEF TypeOK
  <2> QED
    BY <1>0, <2>1, <2>2, <2>3, <2>4, LocalStep DEF CodePoint, Interruptible
<1>12. ASSUME ThreadStart PROVE IInv'
  <2>1. /\ ip' \in [Thread -> CodePoint \cup IrqPoint]
        /\ ip[current] = "new" /\ ip'[current] = "run"
        /\ \A t \in Thread : t # current => ip'[t] = ip[t]
    BY <1>0, <1>12, Moves DEF ThreadStart, CodePoint
  <2>2. UNCHANGED <<preempt_cnt, current, held, saved, disabled, ret, in_service>>
    BY <1>12 DEF ThreadStart
  <2>3. ints' = TRUE
    BY <1>0, <1>12, <2>1 DEF ThreadStart
  <2>4. TypeOK'
    BY <1>0, <2>1, <2>2, <2>3 DEF TypeOK
  <2> QED
    BY <1>0, <2>1, <2>2, <2>3, <2>4, LocalStep DEF CodePoint, Interruptible
<1> QED
  BY <1>1, <1>2, <1>3, <1>4, <1>5, <1>6, <1>7, <1>8, <1>9, <1>10, <1>11, <1>12

\* Handing over the CPU, from __schedule called by the thread or the handler.
LEMMA HandOver ==
    ASSUME IInv, NEW l \in {"sched4", "irqret"}, NEW u \in Thread,
           \/ ip[current] = "sched3" /\ l = "sched4"
           \/ ip[current] = "irqsched" /\ l = "irqret",
           u = current \/ ip[u] \in SwitchPoint,
           ip' = [ip EXCEPT ![current] = l],
           current' = u,
           UNCHANGED <<ints, preempt_cnt, held, saved, disabled, ret, in_service>>
    PROVE  IInv'
<1> USE DEF TypeOK, CodePoint, IrqPoint, SwitchPoint, Interruptible
<1>0. TypeOK /\ SectionExclusive /\ PreemptCountIsCurrents /\ PointsAgree
  BY CurrentFacts
<1>1. preempt_cnt = 0 /\ ~ints /\ held[current] = 0 /\ disabled[current] = 0
  BY SMTT(40), <1>0 DEF PreemptCountIsCurrents, PointsAgree, Point
<1>2. \A t \in Thread : held[t] = 0 /\ disabled[t] = 0
  BY <1>0, <1>1 DEF PreemptCountIsCurrents
<1>3. TypeOK'
  BY <1>0
<1>4. ip'[current] = l /\ \A t \in Thread : t # current => ip'[t] = ip[t]
  BY <1>0
<1>5. \A t \in Thread : Point(t)' = IF t = current /\ l = "sched4" THEN "sched4" ELSE Point(t)
  BY <1>0, <1>4 DEF Point
<1>6. ip'[u] \in SwitchPoint
  BY <1>4
<1>7. SectionExclusive' /\ PreemptCountIsCurrents'
  BY <1>1, <1>2 DEF SectionExclusive, PreemptCountIsCurrents
<1>8. PointsAgree'
  <2>1. \A t \in Thread : ip'[t] \in IrqPoint => ret'[t] \in Interruptible /\ held'[t] = 0
    BY <1>0, <1>2, <1>4 DEF PointsAgree
  <2>2. \A t \in Thread : t # current' => ip'[t] \in SwitchPoint
    BY <1>0, <1>4 DEF PointsAgree
  <2>3. /\ ip'[current'] \in Interruptible => (ints' <=> held'[current'] = 0)
        /\ ip'[current'] \notin Interruptible => ~ints'
        /\ ip'[current'] = "irqsched" => preempt_cnt' = 0
        /\ ~in_service'
    BY <1>0, <1>1, <1>6 DEF PointsAgree
  <2>4. \A t \in Thread : \A n \in 1 .. held'[t] : saved'[t][n] = (n = 1)
    BY <1>0 DEF PointsAgree
  <2>5. ASSUME NEW t \in Thread
        PROVE  Point(t)' \in {"lock1", "lock2", "unlock1", "sched2", "sched3", "sched4"}
                 => saved'[t][held'[t] + 1] = (held'[t] = 0)
    <3>1. CASE t = current /\ l = "sched4"
      BY <1>0, <1>1, <3>1 DEF PointsAgree, Point
    <3>2. CASE ~(t = current /\ l = "sched4")
      BY <1>0, <1>5, <3>2 DEF PointsAgree
    <3> QED
      BY <3>1, <3>2
  <2>6. \A t \in Thread : Point(t)' \in {"lock1", "lock2"} => held'[t] < MaxDepth
    BY <1>0, <1>5 DEF PointsAgree
  <2>7. \A t \in Thread : held'[t] = 0 /\ disabled'[t] = 0
    BY <1>2
  <2> QED
    BY <2>1, <2>2, <2>3, <2>4, <2>5, <2>6, <2>7 DEF PointsAgree
<1> QED
  BY <1>3, <1>7, <1>8 DEF IInv

\* Entering and leaving the handler leaves the thread where it was in its code.
LEMMA KeepsPoints ==
    ASSUME IInv, held[current] = 0,
           \A t \in Thread : Point(t)' = Point(t),
           \A t \in Thread : t # current => ip'[t] = ip[t] /\ ret'[t] = ret[t],
           \/ ip'[current] = "irqack" /\ ret'[current] \in Interruptible /\ ints' = FALSE
           \/ ip'[current] \in Interruptible /\ ints' = TRUE,
           in_service' \in BOOLEAN, in_service' => ip'[current] = "irqack",
           ip' \in [Thread -> CodePoint \cup IrqPoint],
           ret' \in [Thread -> CodePoint],
           UNCHANGED <<preempt_cnt, current, held, saved, disabled>>
    PROVE  IInv'
<1>0. TypeOK /\ SectionExclusive /\ PreemptCountIsCurrents /\ PointsAgree
  BY CurrentFacts
<1>1. TypeOK'
  BY <1>0 DEF TypeOK
<1>2. SectionExclusive' /\ PreemptCountIsCurrents'
  BY <1>0 DEF SectionExclusive, PreemptCountIsCurrents
<1>3. PointsAgree'
  <2>1. /\ \A t \in Thread : \A n \in 1 .. held'[t] : saved'[t][n] = (n = 1)
        /\ \A t \in Thread :
             Point(t)' \in {"lock1", "lock2", "unlock1", "sched2", "sched3", "sched4"}
               => saved'[t][held'[t] + 1] = (held'[t] = 0)
        /\ \A t \in Thread : Point(t)' \in {"lock1", "lock2"} => held'[t] < MaxDepth
        /\ \A t \in Thread : Point(t)' \in {"new", "sched1", "sched2", "sched3", "sched4"}
               => held'[t] = 0 /\ disabled'[t] = 0
    BY <1>0 DEF PointsAgree
  <2>2. \A t \in Thread : ip'[t] \in IrqPoint => ret'[t] \in Interruptible /\ held'[t] = 0
    <3>1. ip'[current] \in IrqPoint => ret'[current] \in Interruptible
      BY DEF IrqPoint, Interruptible
    <3> QED
      BY <1>0, <3>1 DEF PointsAgree, TypeOK
  <2>3. \A t \in Thread : t # current' => ip'[t] \in SwitchPoint
    BY <1>0 DEF PointsAgree
  <2>4. /\ ip'[current'] \in Interruptible => (ints' <=> held'[current'] = 0)
        /\ ip'[current'] \notin Interruptible => ~ints'
        /\ ip'[current'] = "irqsched" => preempt_cnt' = 0
        /\ in_service' => ip'[current'] = "irqack"
    BY DEF Interruptible
  <2> QED
    BY <2>1, <2>2, <2>3, <2>4 DEF PointsAgree
<1> QED
  BY <1>1, <1>2, <1>3 DEF IInv

\* Steps that hand over the CPU, and the steps of the interrupt handler.
LEMMA SwitchStep ==
    IInv /\ (SchedSwitch \/ IrqEnter \/ IrqAck \/ IrqTest \/ IrqSwitch \/ IrqReturn
             \/ UNCHANGED vars) => IInv'
<1> SUFFICES ASSUME IInv
             PROVE  (SchedSwitch \/ IrqEnter \/ IrqAck \/ IrqTest \/ IrqSwitch \/ IrqReturn
                     \/ UNCHANGED vars) => IInv'
  OBVIOUS
<1> USE DEF At, GoTo, TypeOK, SectionExclusive, PreemptCountIsCurrents, PointsAgree,
            Point, CodePoint, IrqPoint, SwitchPoint, Interruptible
<1>0. TypeOK /\ SectionExclusive /\ PreemptCountIsCurrents /\ PointsAgree
  BY CurrentFacts
<1>1. ASSUME SchedSwitch PROVE IInv'
  BY <1>1, HandOver DEF SchedSwitch
<1>2. ASSUME IrqEnter PROVE IInv'
  <2> USE <1>2 DEF IrqEnter
  <2>1. ip[current] \in Interruptible /\ held[current] = 0
    BY <1>0
  <2>2. /\ ip'[current] = "irqack" /\ ret'[current] = ip[current]
        /\ \A t \in Thread : t # current => ip'[t] = ip[t] /\ ret'[t] = ret[t]
    BY <1>0
  <2>3. \A t \in Thread : Point(t)' = Point(t)
    BY <2>1, <2>2
  <2> QED
    BY <1>0, KeepsPoints, <2>1, <2>2, <2>3
<1>3. ASSUME IrqTest PROVE IInv'
  BY <1>0, <1>3 DEF IrqTest, IInv
<1>4. ASSUME IrqSwitch PROVE IInv'
  BY <1>4, HandOver DEF IrqSwitch
<1>5. ASSUME IrqReturn PROVE IInv'
  <2> USE <1>5 DEF IrqReturn
  <2>1. ret[current] \in Interruptible /\ held[current] = 0
    BY <1>0
  <2>2. /\ ip'[current] = ret[current]
        /\ \A t \in Thread : t # current => ip'[t] = ip[t]
    BY <1>0
  <2>3. \A t \in Thread : Point(t)' = Point(t)
    BY <2>1, <2>2
  <2> QED
    BY <1>0, KeepsPoints, <2>1, <2>2, <2>3
<1>6. ASSUME IrqAck PROVE IInv'
  <2>1. in_service' \in BOOLEAN /\ ~in_service'
    BY <1>6 DEF IrqAck
  <2>2. /\ ip[current] = "irqack" /\ ip'[current] = "irq"
        /\ \A t \in Thread : t # current => ip'[t] = ip[t]
        /\ UNCHANGED <<ints, preempt_cnt, current, held, saved, disabled, ret>>
    BY <1>0, <1>6 DEF IrqAck
  <2>3. TypeOK'
    BY <1>0, <1>6, <2>1, <2>2 DEF IrqAck
  <2>4. \A t \in Thread : Point(t)' = Point(t)
    BY <1>0, <2>2
  <2>5. SectionExclusive' /\ PreemptCountIsCurrents'
    BY <1>0, <2>2
  <2>6. PointsAgree'
    BY <1>0, <2>1, <2>2, <2>4
  <2> QED
    BY <2>3, <2>5, <2>6 DEF IInv
<1>7. ASSUME UNCHANGED vars PROVE IInv'
  BY <1>0, <1>7 DEF vars, IInv
<1> QED
  BY <1>1, <1>2, <1>3, <1>4, <1>5, <1>6, <1>7

LEMMA NextIInv == IInv /\ [Next]_vars => IInv'
  BY CodeStep, SwitchStep DEF Next

\* Everything below follows from this invariant: the flag, the count and the
\* points at which threads stand always agree.
THEOREM SpinlockInvariant == Spec => []IInv
<1>1. Init => IInv
  BY InitIInv
<1>2. IInv /\ [Next]_vars => IInv'
  BY NextIInv
<1> QED
  BY <1>1, <1>2, PTL DEF Spec

\* Mutual exclusion of critical sections, from interrupts as well as from other
\* threads (spinlock.c:12-31).
THEOREM SectionsExclude == Spec => []SectionExclusive
<1>1. IInv => SectionExclusive
  BY DEF IInv
<1> QED
  BY <1>1, SpinlockInvariant, PTL

\* One counter serves all threads (threads.c:74, 149-157).
THEOREM OneCounter == Spec => []PreemptCountIsCurrents
<1>1. IInv => PreemptCountIsCurrents
  BY DEF IInv
<1> QED
  BY <1>1, SpinlockInvariant, PTL

\* irqsave/irqrestore nest (spinlock.c:24-38).
THEOREM FlagsRestored == Spec => []FlagRestored
<1>1. IInv => FlagRestored
  BY DEF IInv, PointsAgree, FlagRestored, Interruptible, IrqPoint
<1> QED
  BY <1>1, SpinlockInvariant, PTL

\* schedule() and the timer never switch inside a section (threads.c:378-389).
THEOREM NoSwitch == Spec => NoSwitchInSection
<1>1. IInv /\ [Next]_vars => [current' # current => preempt_cnt = 0]_vars
  <2> SUFFICES ASSUME IInv, Next, current' # current
               PROVE  preempt_cnt = 0
    BY DEF vars
  <2>1. CASE SchedSwitch
    <3>1. Point(current) = "sched3"
      BY <2>1 DEF SchedSwitch, At, Point, IrqPoint
    <3>2. held[current] = 0 /\ disabled[current] = 0
      BY <3>1, CurrentFacts DEF PointsAgree, TypeOK
    <3> QED
      BY <3>2, CurrentFacts DEF PreemptCountIsCurrents
  <2>2. CASE IrqSwitch
    BY <2>2, CurrentFacts DEF IrqSwitch, At, PointsAgree
  <2>3. CASE LockRead \/ LockCli \/ LockCount \/ UnlockCount \/ UnlockRestore
             \/ DisablePreempt \/ EnablePreempt
    BY <2>3 DEF LockRead, LockCli, LockCount, UnlockCount, UnlockRestore,
                DisablePreempt, EnablePreempt
  <2>4. CASE SchedTest \/ SchedRead \/ SchedCli \/ SchedRestore \/ ThreadStart
             \/ IrqEnter \/ IrqAck \/ IrqTest \/ IrqReturn
    BY <2>4 DEF SchedTest, SchedRead, SchedCli, SchedRestore, ThreadStart, IrqEnter,
                IrqAck, IrqTest, IrqReturn
  <2> QED
    BY <2>1, <2>2, <2>3, <2>4 DEF Next
<1> QED
  BY <1>1, SpinlockInvariant, PTL DEF Spec, NoSwitchInSection
=============================================================================
