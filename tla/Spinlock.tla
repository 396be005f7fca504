------------------------------- MODULE Spinlock -------------------------------
(***************************************************************************)
(* What makes a stretch of kernel code indivisible: spin locks (spinlock.c)*)
(* that only disable preemption and interrupts, schedule() (threads.c) and *)
(* the timer interrupt (time.c), one machine-level step at a time.         *)
(*                                                                         *)
(* Which thread __schedule picks is left open here: module Threads says    *)
(* which.  A spin lock has no state of its own, so all locks are one.      *)
(***************************************************************************)
EXTENDS Integers

CONSTANTS
    Thread,
    boot,      \* the thread that runs main()
    MaxDepth   \* bound on nested sections and on nested disable_preempt()

ASSUME SpinlockAssumption == boot \in Thread /\ MaxDepth \in Nat \ {0}

VARIABLES
    ints,         \* the interrupt flag of the CPU
    preempt_cnt,
    current,
    ip,           \* the next step of each thread
    held,         \* how many spin locks each thread is inside of
    saved,        \* saved[t][n]: the variable enable of t's n-th nested call
    disabled,     \* how many disable_preempt() each thread has to undo
    ret,          \* where the timer interrupt has stopped each thread
    in_service    \* the interrupt controller holds the timer back until it is acked

vars == <<ints, preempt_cnt, current, ip, held, saved, disabled, ret, in_service>>

\* Points of a thread's own code, then those of the interrupt handler.
CodePoint ==
    {"new",      \* in thread_entry(), before enable_ints()
     "run",      \* in client code
     "lock1",    \* spin_lock_irqsave() has read the flag
     "lock2",    \* ... and has cleared it
     "unlock1",  \* spin_unlock_irqrestore() has counted down
     "sched1",   \* schedule() has found preempt_cnt zero
     "sched2",   \* ... has read the flag
     "sched3",   \* ... and has cleared it
     "sched4"}   \* __schedule() has returned
IrqPoint ==
    {"irqack",   \* in call_irq_handler(), before pic_ack()
     "irq",      \* in pit_handler(), before schedule()
     "irqsched", \* schedule() has found preempt_cnt zero
     "irqret"}   \* before iretq

\* threads_setup() leaves the boot thread alone, main() enables interrupts
Init ==
    /\ ints = TRUE
    /\ preempt_cnt = 0
    /\ current = boot
    /\ ip = [t \in Thread |-> IF t = boot THEN "run" ELSE "new"]
    /\ held = [t \in Thread |-> 0]
    /\ saved = [t \in Thread |-> [n \in 1 .. MaxDepth + 1 |-> FALSE]]
    /\ disabled = [t \in Thread |-> 0]
    /\ ret = [t \in Thread |-> "run"]
    /\ in_service = FALSE

At(l) == ip[current] = l
GoTo(l) == ip' = [ip EXCEPT ![current] = l]

\* enable = ints_enabled(), and if (enable) enable_ints(), of the innermost call
SaveFlag == saved' = [saved EXCEPT ![current][held[current] + 1] = ints]

\* variant: interrupts come back whatever the caller had
RestoreAlways == ints' = TRUE

RestoreFlag == ints' = (ints \/ saved[current][held[current] + 1])

-----------------------------------------------------------------------------
\* spin_lock_irqsave
LockRead ==
    /\ At("run") /\ GoTo("lock1")
    /\ held[current] < MaxDepth
    /\ SaveFlag
    /\ UNCHANGED <<ints, preempt_cnt, current, held, disabled, ret, in_service>>

LockCli ==
    /\ At("lock1") /\ GoTo("lock2")
    /\ ints' = FALSE
    /\ UNCHANGED <<preempt_cnt, current, held, saved, disabled, ret, in_service>>

LockCount ==
    /\ At("lock2") /\ GoTo("run")
    /\ preempt_cnt' = preempt_cnt + 1
    /\ held' = [held EXCEPT ![current] = @ + 1]
    /\ UNCHANGED <<ints, current, saved, disabled, ret, in_service>>

\* spin_unlock_irqrestore
UnlockCount ==
    /\ At("run") /\ GoTo("unlock1")
    /\ held[current] > 0
    /\ preempt_cnt' = preempt_cnt - 1
    /\ held' = [held EXCEPT ![current] = @ - 1]
    /\ UNCHANGED <<ints, current, saved, disabled, ret, in_service>>

UnlockRestore ==
    /\ At("unlock1") /\ GoTo("run")
    /\ RestoreFlag
    /\ UNCHANGED <<preempt_cnt, current, held, saved, disabled, ret, in_service>>

DisablePreempt ==
    /\ At("run")
    /\ disabled[current] < MaxDepth
    /\ preempt_cnt' = preempt_cnt + 1
    /\ disabled' = [disabled EXCEPT ![current] = @ + 1]
    /\ UNCHANGED <<ints, current, ip, held, saved, ret, in_service>>

EnablePreempt ==
    /\ At("run")
    /\ disabled[current] > 0
    /\ preempt_cnt' = preempt_cnt - 1
    /\ disabled' = [disabled EXCEPT ![current] = @ - 1]
    /\ UNCHANGED <<ints, current, ip, held, saved, ret, in_service>>

\* schedule(): a client may call it anywhere, it returns if preempt_cnt is set
SchedTest ==
    /\ At("run") /\ GoTo(IF preempt_cnt = 0 THEN "sched1" ELSE "run")
    /\ UNCHANGED <<ints, preempt_cnt, current, held, saved, disabled, ret, in_service>>

SchedRead ==
    /\ At("sched1") /\ GoTo("sched2")
    /\ SaveFlag
    /\ UNCHANGED <<ints, preempt_cnt, current, held, disabled, ret, in_service>>

SchedCli ==
    /\ At("sched2") /\ GoTo("sched3")
    /\ ints' = FALSE
    /\ UNCHANGED <<preempt_cnt, current, held, saved, disabled, ret, in_service>>

\* a thread can be switched to where it was switched from, or at its start
SwitchPoint == {"new", "sched4", "irqret"}

SchedSwitch ==
    /\ At("sched3") /\ GoTo("sched4")
    /\ \E t \in Thread : (t = current \/ ip[t] \in SwitchPoint) /\ current' = t
    /\ UNCHANGED <<ints, preempt_cnt, held, saved, disabled, ret, in_service>>

SchedRestore ==
    /\ At("sched4") /\ GoTo("run")
    /\ RestoreFlag
    /\ UNCHANGED <<preempt_cnt, current, held, saved, disabled, ret, in_service>>

\* thread_entry: enable_ints(), then the function of the thread
ThreadStart ==
    /\ At("new") /\ GoTo("run")
    /\ ints' = TRUE
    /\ UNCHANGED <<preempt_cnt, current, held, saved, disabled, ret, in_service>>

-----------------------------------------------------------------------------
\* the timer goes through an interrupt gate, which clears the flag
IrqEnter ==
    /\ ints /\ ~in_service
    /\ GoTo("irqack")
    /\ ints' = FALSE
    /\ in_service' = TRUE
    /\ ret' = [ret EXCEPT ![current] = ip[current]]
    /\ UNCHANGED <<preempt_cnt, current, held, saved, disabled>>

\* variant: the timer is acked when its handler has returned
IrqAckLate ==
    \/ /\ At("irqack") /\ GoTo("irq")
       /\ UNCHANGED <<ints, preempt_cnt, current, held, saved, disabled, ret, in_service>>
    \/ /\ At("irqret") /\ in_service
       /\ in_service' = FALSE
       /\ UNCHANGED <<ints, preempt_cnt, current, ip, held, saved, disabled, ret>>

\* call_irq_handler acks first: its handler may return on another stack, or not soon
IrqAck ==
    /\ At("irqack") /\ GoTo("irq")
    /\ in_service' = FALSE
    /\ UNCHANGED <<ints, preempt_cnt, current, held, saved, disabled, ret>>

\* variant: the handler does not look at preempt_cnt
IrqTestNot ==
    /\ At("irq") /\ GoTo("irqsched")
    /\ UNCHANGED <<ints, preempt_cnt, current, held, saved, disabled, ret, in_service>>

IrqTest ==
    /\ At("irq") /\ GoTo(IF preempt_cnt = 0 THEN "irqsched" ELSE "irqret")
    /\ UNCHANGED <<ints, preempt_cnt, current, held, saved, disabled, ret, in_service>>

IrqSwitch ==
    /\ At("irqsched") /\ GoTo("irqret")
    /\ \E t \in Thread : (t = current \/ ip[t] \in SwitchPoint) /\ current' = t
    /\ UNCHANGED <<ints, preempt_cnt, held, saved, disabled, ret, in_service>>

\* iretq restores the flag, which was set
IrqReturn ==
    /\ At("irqret") /\ GoTo(ret[current])
    /\ ints' = TRUE
    /\ UNCHANGED <<preempt_cnt, current, held, saved, disabled, ret, in_service>>

Next ==
    \/ LockRead \/ LockCli \/ LockCount
    \/ UnlockCount \/ UnlockRestore
    \/ DisablePreempt \/ EnablePreempt
    \/ SchedTest \/ SchedRead \/ SchedCli \/ SchedSwitch \/ SchedRestore
    \/ ThreadStart
    \/ IrqEnter \/ IrqAck \/ IrqTest \/ IrqSwitch \/ IrqReturn

Spec == Init /\ [][Next]_vars

-----------------------------------------------------------------------------
\* Type invariant.
TypeOK ==
    /\ ints \in BOOLEAN
    /\ preempt_cnt \in Nat
    /\ current \in Thread
    /\ ip \in [Thread -> CodePoint \cup IrqPoint]
    /\ held \in [Thread -> 0 .. MaxDepth]
    /\ saved \in [Thread -> [1 .. MaxDepth + 1 -> BOOLEAN]]
    /\ disabled \in [Thread -> 0 .. MaxDepth]
    /\ ret \in [Thread -> CodePoint]
    /\ in_service \in BOOLEAN

\* Inside a spin lock a thread has the CPU to itself: it is the current one and
\* no interrupt can be taken (spinlock.c:24-31).  Hence no two are inside.
SectionExclusive == \A t \in Thread : held[t] > 0 => t = current /\ ~ints

\* preempt_cnt, one number for all threads, is exactly what the current thread
\* has to undo; a thread that is switched out has nothing to undo, so it never
\* leaves preemption disabled for others (threads.c:149-157, 380, 393).
PreemptCountIsCurrents ==
    /\ preempt_cnt = held[current] + disabled[current]
    /\ \A t \in Thread : t # current => held[t] = 0 /\ disabled[t] = 0

\* The flag comes back exactly when the outermost section is left, however the
\* sections nest and wherever the thread was interrupted; and a thread that got the
\* CPU from a tick can get the next one (spinlock.c:33-38, ints.c:65-67).
FlagRestored ==
    /\ ip[current] = "run" => (ints <=> held[current] = 0)
    /\ in_service => ip[current] \in IrqPoint

\* No switch happens while preemption is disabled, though schedule() tests the
\* count before it clears the flag and an interrupt may come in between
\* (threads.c:380-385).
NoSwitchInSection == [][current' # current => preempt_cnt = 0]_vars

\* the points where an interrupt can have stopped a thread
Interruptible == {"run", "lock1", "sched1", "sched2"}

\* where a thread stands in its own code
Point(t) == IF ip[t] \in IrqPoint THEN ret[t] ELSE ip[t]

\* What the points of the code say of the flag and of the saved flags; and whoever
\* has been switched to can be interrupted again (ints.c:65-67).
PointsAgree ==
    /\ \A t \in Thread : \A n \in 1 .. held[t] : saved[t][n] = (n = 1)
    /\ \A t \in Thread :
         Point(t) \in {"lock1", "lock2", "unlock1", "sched2", "sched3", "sched4"}
           => saved[t][held[t] + 1] = (held[t] = 0)
    /\ \A t \in Thread : Point(t) \in {"lock1", "lock2"} => held[t] < MaxDepth
    /\ \A t \in Thread : Point(t) \in {"new", "sched1", "sched2", "sched3", "sched4"}
           => held[t] = 0 /\ disabled[t] = 0
    /\ \A t \in Thread : ip[t] \in IrqPoint => ret[t] \in Interruptible /\ held[t] = 0
    /\ \A t \in Thread : t # current => ip[t] \in SwitchPoint
    /\ ip[current] \in Interruptible => (ints <=> held[current] = 0)
    /\ ip[current] \notin Interruptible => ~ints
    /\ ip[current] = "irqsched" => preempt_cnt = 0
    /\ in_service => ip[current] = "irqack"

\* The inductive invariant.
IInv == TypeOK /\ SectionExclusive /\ PreemptCountIsCurrents /\ PointsAgree
=============================================================================
