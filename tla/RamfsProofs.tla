------------------------------ MODULE RamfsProofs ------------------------------
(***************************************************************************)
(* Proofs about modules Ramfs and Initramfs, for every set of threads,     *)
(* names and entries and every archive: who has a file locked; that the    *)
(* entries are a tree; that files behind none but finished ones stay where *)
(* they are; and that, as long as one thread creates at a time, every file *)
(* is found by its name.  What the recursive functions of the model return *)
(* is shown by going through the tree level by level: a file is created    *)
(* after its directory.                                                    *)
(***************************************************************************)
EXTENDS Initramfs, QueueLemmas

USE RamfsAssumption

\* entries whose fields the proofs do not look into have values in S
Field(S) == [name : S, kids : S, is_dir : S, size : S,
             owner : Thread \cup {Null}, ready : BOOLEAN]
Entries(en) == \E S : en \in [Entry -> Field(S)]

\* Memory that is not in use is nobody's file, and no file at all.
Idle(en) == \A e \in Entry : en[e].name = NoName => en[e].owner = Null /\ ~en[e].ready

\* a file is owned by the thread that has it open
OwnedWhileOpen == \A e \in Entry : \A t \in Thread :
    ent[e].owner = t <=> (pc[t] = "open" /\ reg[t][1] = e)

ThreadOK(t) ==
    /\ pc[t] \in Inside => call[t].name \in Name
    /\ pc[t] = "create_init" => reg[t][1] \in Entry /\ ent[reg[t][1]].name # NoName

\* The inductive invariant of the threads, as long as the machine runs: the mutex
\* of an entry is used only once its fields are written, and those of an entry
\* that is being created are not yet.
LockInv ==
    /\ Entries(ent) /\ Idle(ent)
    /\ \E S : pc \in [Thread -> S] /\ reg \in [Thread -> S]
    /\ call \in [Thread -> Call \cup {NoCall}]
    /\ \A t \in Thread : ThreadOK(t)
    /\ OwnedWhileOpen

\* Nobody calls the file system while the archive is loaded.
LoadInv ==
    /\ scene \in Scenario
    /\ pos \in 0 .. Len(Archive)
    /\ ~Loaded => \A t \in Thread : pc[t] = "idle"
    /\ Running => LockInv

-----------------------------------------------------------------------------
(***************************************************************************)
(* Entries.                                                                *)
(***************************************************************************)

\* name, mutex and readiness of all entries are the same
SameLocks(en, em) == \A e \in Entry :
    em[e].name = en[e].name /\ em[e].owner = en[e].owner /\ em[e].ready = en[e].ready

LEMMA FieldsWritten ==
    ASSUME NEW en, Entries(en), NEW f, NEW x
    PROVE  /\ Entries([en EXCEPT ![f].kids = x]) /\ SameLocks(en, [en EXCEPT ![f].kids = x])
           /\ Entries([en EXCEPT ![f].size = x]) /\ SameLocks(en, [en EXCEPT ![f].size = x])
<1>1. PICK S : en \in [Entry -> Field(S)]
  BY DEF Entries
<1>2. PICK R : R = S \cup {x}
  OBVIOUS
<1>3. en \in [Entry -> Field(R)] /\ x \in R
  BY <1>1, <1>2 DEF Field
<1>4. /\ [en EXCEPT ![f].kids = x] \in [Entry -> Field(R)]
      /\ [en EXCEPT ![f].size = x] \in [Entry -> Field(R)]
  <2>1. f \in Entry => /\ [en[f] EXCEPT !.kids = x] \in Field(R)
                       /\ [en[f] EXCEPT !.size = x] \in Field(R)
    BY <1>3 DEF Field
  <2> QED
    BY <1>3, <2>1
<1>5. /\ SameLocks(en, [en EXCEPT ![f].kids = x])
      /\ SameLocks(en, [en EXCEPT ![f].size = x])
  BY <1>3 DEF Field, SameLocks
<1> QED
  BY <1>4, <1>5 DEF Entries

\* The mutex of entry f, if there is one, gets owner x; nothing else changes.
Owned(en, em, f, x) == \A e \in Entry :
    em[e].name = en[e].name /\ em[e].ready = en[e].ready
    /\ em[e].owner = IF e = f THEN x ELSE en[e].owner

LEMMA OwnerWritten ==
    ASSUME NEW en, Entries(en), NEW f, NEW x \in Thread \cup {Null}
    PROVE  Entries([en EXCEPT ![f].owner = x]) /\ Owned(en, [en EXCEPT ![f].owner = x], f, x)
<1>1. PICK S : en \in [Entry -> Field(S)]
  BY DEF Entries
<1>2. [en EXCEPT ![f].owner = x] \in [Entry -> Field(S)]
  BY <1>1 DEF Field
<1>3. Owned(en, [en EXCEPT ![f].owner = x], f, x)
  BY <1>1 DEF Field, Owned
<1> QED
  BY <1>2, <1>3 DEF Entries

\* Entry e has become a file of that name, which is not ready.
Made(en, em, e, n) ==
    /\ \A f \in Entry : f # e =>
         em[f].name = en[f].name /\ em[f].owner = en[f].owner /\ em[f].ready = en[f].ready
    /\ em[e].name = n /\ em[e].owner = Null /\ em[e].ready = FALSE

\* fentry_list_add and the first lines of fentry_create (ramfs.c:120-143, 249-262).
LEMMA LinkedIs ==
    ASSUME NEW en, Entries(en), NEW e \in Entry, NEW p, NEW n
    PROVE  \/ Linked(en, p, e, n) = en
           \/ Entries(Linked(en, p, e, n)) /\ Made(en, Linked(en, p, e, n), e, n)
<1> DEFINE u == [Unused EXCEPT !.name = n]
           new == [en EXCEPT ![e] = u]
<1>1. PICK S : en \in [Entry -> Field(S)]
  BY DEF Entries
<1>2. PICK R : R = S \cup {n, <<>>, FALSE, 0}
  OBVIOUS
<1>3. en \in [Entry -> Field(R)]
  BY <1>1, <1>2 DEF Field
<1>4. /\ u \in Field(R)
      /\ u.name = n /\ u.owner = Null /\ u.ready = FALSE
  BY <1>2 DEF Unused, Field
<1> HIDE DEF u
<1>5. new \in [Entry -> Field(R)] /\ new[e] = u /\ \A f \in Entry : f # e => new[f] = en[f]
  BY <1>3, <1>4
<1>6. Entries(new)
  BY <1>5 DEF Entries
<1> HIDE DEF new
<1>7. PICK L : L = Linked(en, p, e, n)
  OBVIOUS
<1>8. CASE p # Null /\ Named(en, en[p].kids, n) # Null
  BY <1>8 DEF Linked
<1>9. CASE ~(p # Null /\ Named(en, en[p].kids, n) # Null) /\ p = Null
  <2>1. L = new
    BY <1>7, <1>9 DEF Linked, new, u
  <2> QED
    BY <1>4, <1>5, <1>6, <1>7, <2>1 DEF Made
<1>10. CASE ~(p # Null /\ Named(en, en[p].kids, n) # Null) /\ p # Null
  <2>1. PICK x : x = Append(new[p].kids, e)
    OBVIOUS
  <2>2. L = [new EXCEPT ![p].kids = x]
    BY <1>7, <1>10, <2>1 DEF Linked, new, u
  <2>3. Entries(L) /\ SameLocks(new, L)
    BY <1>6, <2>2, FieldsWritten
  <2>4. Made(en, L, e, n)
    BY <1>4, <1>5, <2>3 DEF SameLocks, Made
  <2> QED
    BY <1>7, <2>3, <2>4
<1> QED
  BY <1>8, <1>9, <1>10

\* Entry e may have become ready.
Finished(en, em, e) == \A f \in Entry :
    /\ em[f].name = en[f].name /\ em[f].owner = en[f].owner
    /\ f # e => em[f].ready = en[f].ready

\* The last lines of fentry_create (ramfs.c:263-279).
LEMMA InitializedIs ==
    ASSUME NEW en, Entries(en), NEW p, NEW e, NEW dir
    PROVE  Entries(Initialized(en, p, e, dir)) /\ Finished(en, Initialized(en, p, e, dir), e)
<1> DEFINE done == [en EXCEPT ![e] = [@ EXCEPT !.is_dir = dir, !.ready = TRUE]]
<1>1. PICK S : en \in [Entry -> Field(S)]
  BY DEF Entries
<1>2. PICK R : R = S \cup {dir}
  OBVIOUS
<1>3. en \in [Entry -> Field(R)] /\ dir \in R
  BY <1>1, <1>2 DEF Field
<1>4. ASSUME NEW f \in Entry
      PROVE  /\ [en[f] EXCEPT !.is_dir = dir, !.ready = TRUE] \in Field(R)
             /\ [en[f] EXCEPT !.is_dir = dir, !.ready = TRUE].name = en[f].name
             /\ [en[f] EXCEPT !.is_dir = dir, !.ready = TRUE].owner = en[f].owner
  <2>1. en[f] \in Field(R)
    BY <1>3
  <2> QED
    BY <1>3, <2>1 DEF Field
<1>5. /\ done \in [Entry -> Field(R)]
      /\ \A f \in Entry : /\ done[f].name = en[f].name /\ done[f].owner = en[f].owner
                          /\ f # e => done[f] = en[f]
  BY <1>3, <1>4
<1> HIDE DEF done
<1>6. Entries(done)
  BY <1>5 DEF Entries
<1>7. PICK x : x = UpTo(done[p].kids, e)
  OBVIOUS
<1>8. Initialized(en, p, e, dir) = IF p = Null THEN done ELSE [done EXCEPT ![p].kids = x]
  BY <1>7 DEF Initialized, done
<1>9. Entries([done EXCEPT ![p].kids = x]) /\ SameLocks(done, [done EXCEPT ![p].kids = x])
  BY <1>6, FieldsWritten
<1>10. Finished(en, done, e) /\ Finished(en, [done EXCEPT ![p].kids = x], e)
  BY <1>5, <1>9 DEF Finished, SameLocks
<1> QED
  BY <1>6, <1>8, <1>9, <1>10

-----------------------------------------------------------------------------
(***************************************************************************)
(* Steps of a thread.                                                      *)
(***************************************************************************)

\* t is at l, and works on f if there; the other threads are where they were
Moved(t, l, f) ==
    /\ \E S : pc' \in [Thread -> S] /\ reg' \in [Thread -> S]
    /\ call' \in [Thread -> Call \cup {NoCall}]
    /\ \A u \in Thread : u # t => pc'[u] = pc[u] /\ reg'[u] = reg[u] /\ call'[u] = call[u]
    /\ pc'[t] = l
    /\ l \in Inside => call'[t] = call[t]
    /\ l \in Holding => reg'[t][1] = f

LEMMA GotoMoves ==
    ASSUME LockInv, NEW t \in Thread, NEW l, NEW f, NEW p, Goto(t, l, f, p)
    PROVE  Moved(t, l, f)
<1>1. PICK S : pc \in [Thread -> S] /\ reg \in [Thread -> S]
  BY DEF LockInv
<1>2. PICK x : x = IF l \in Holding THEN <<f, p>> ELSE <<Null, Null>>
  OBVIOUS
<1>3. PICK R : R = S \cup {x, l}
  OBVIOUS
<1>4. /\ reg' = [reg EXCEPT ![t] = x] /\ reg \in [Thread -> R] /\ x \in R
      /\ pc' = [pc EXCEPT ![t] = l] /\ pc \in [Thread -> R] /\ l \in R
  BY <1>1, <1>2, <1>3 DEF Goto
<1>5. reg' \in [Thread -> R] /\ reg'[t] = x /\ \A u \in Thread : u # t => reg'[u] = reg[u]
  BY <1>4
<1>6. pc' \in [Thread -> R] /\ pc'[t] = l /\ \A u \in Thread : u # t => pc'[u] = pc[u]
  BY <1>4
<1>7. /\ call' \in [Thread -> Call \cup {NoCall}]
      /\ l \in Inside => call'[t] = call[t]
      /\ \A u \in Thread : u # t => call'[u] = call[u]
  BY DEF Goto, LockInv
<1>8. l \in Holding => reg'[t][1] = f
  BY <1>2, <1>5
<1> QED
  BY <1>5, <1>6, <1>7, <1>8 DEF Moved

\* What a step may do: the mutexes of other threads are left alone, an entry that is
\* in use stays in use, and the thread owns what it has open then.
LEMMA MoveKeeps ==
    ASSUME LockInv, NEW t \in Thread, NEW l, NEW f, Moved(t, l, f),
           Entries(ent'), Idle(ent'),
           \A e \in Entry : ent[e].name # NoName => ent'[e].name # NoName,
           \A e \in Entry : \A u \in Thread : u # t => (ent'[e].owner = u <=> ent[e].owner = u),
           \A e \in Entry : ent'[e].owner = t <=> (l = "open" /\ f = e),
           l \in Inside => call[t].name \in Name,
           l = "create_init" => f \in Entry /\ ent'[f].name # NoName
    PROVE  LockInv'
<1>1. /\ \E S : pc' \in [Thread -> S] /\ reg' \in [Thread -> S]
      /\ call' \in [Thread -> Call \cup {NoCall}]
      /\ \A u \in Thread : u # t => pc'[u] = pc[u] /\ reg'[u] = reg[u] /\ call'[u] = call[u]
      /\ pc'[t] = l
      /\ l \in Inside => call'[t] = call[t]
      /\ l \in Holding => reg'[t][1] = f
  BY DEF Moved
<1>2. (\A u \in Thread : ThreadOK(u)) /\ OwnedWhileOpen
  BY DEF LockInv
<1>3. "open" \in Holding /\ "create_init" \in Holding
  BY DEF Holding
<1>4. ASSUME NEW u \in Thread
      PROVE  ThreadOK(u)'
  <2>1. CASE u = t
    BY <1>1, <1>3, <2>1 DEF ThreadOK
  <2>2. CASE u # t
    <3>1. pc'[u] = pc[u] /\ reg'[u] = reg[u] /\ call'[u] = call[u]
      BY <1>1, <2>2
    <3>2. /\ pc[u] \in Inside => call[u].name \in Name
          /\ pc[u] = "create_init" => reg[u][1] \in Entry /\ ent[reg[u][1]].name # NoName
      BY <1>2 DEF ThreadOK
    <3>3. pc'[u] = "create_init" => reg'[u][1] \in Entry /\ ent'[reg'[u][1]].name # NoName
      BY <3>1, <3>2
    <3>4. pc'[u] \in Inside => call'[u].name \in Name
      BY <3>1, <3>2
    <3> QED
      BY <3>3, <3>4 DEF ThreadOK
  <2> QED
    BY <2>1, <2>2
<1>5. OwnedWhileOpen'
  <2> SUFFICES ASSUME NEW e \in Entry, NEW u \in Thread
               PROVE  ent'[e].owner = u <=> (pc'[u] = "open" /\ reg'[u][1] = e)
    BY DEF OwnedWhileOpen
  <2>1. CASE u = t
    BY <1>1, <1>3, <2>1
  <2>2. CASE u # t
    BY <1>1, <1>2, <2>2 DEF OwnedWhileOpen
  <2> QED
    BY <2>1, <2>2
<1> QED
  BY <1>1, <1>4, <1>5 DEF LockInv

\* A step that writes no entry, of a thread that has no file open and gets none.
LEMMA LookKeeps ==
    ASSUME LockInv, NEW t \in Thread, NEW l, NEW f, Moved(t, l, f), UNCHANGED ent,
           pc[t] # "open", l \notin {"open", "create_init"},
           l \in Inside => pc[t] \in Inside
    PROVE  LockInv'
<1>1. Entries(ent') /\ Idle(ent')
  BY DEF LockInv
<1>2. \A e \in Entry : ent[e].owner # t
  BY DEF LockInv, OwnedWhileOpen
<1>3. l \in Inside => call[t].name \in Name
  BY DEF LockInv, ThreadOK
<1> QED
  BY <1>1, <1>2, <1>3, MoveKeeps

\* Memory that is taken for a new entry is not in use, and the first that is not.
LEMMA FreshIs ==
    ASSUME NEW en, \E e \in Entry : en[e].name = NoName
    PROVE  /\ Fresh(en) \in Entry /\ en[Fresh(en)].name = NoName
           /\ \A f \in Entry : en[f].name = NoName => Fresh(en) <= f
<1> DEFINE S == {e \in Entry : en[e].name = NoName}
<1>1. S \in SUBSET Nat /\ S # {}
  BY DEF Entry
<1>2. \E e \in S : \A f \in S : e <= f
  <2> HIDE DEF S
  <2> QED
    BY <1>1, LeastElement
<1>3. \E e \in Entry : en[e].name = NoName /\ \A f \in Entry : en[f].name = NoName => e <= f
  BY <1>2
<1> QED
  BY <1>3 DEF Fresh

LEMMA BeginKeeps ==
    ASSUME scene \in Scenario, LockInv, NEW t \in Thread, Begin(t)
    PROVE  LockInv'
<1>1. PICK c \in Call : /\ call' = [call EXCEPT ![t] = c]
                        /\ pc' = [pc EXCEPT ![t] = IF c.op = "create" THEN "create_find" ELSE "find"]
  BY DEF Begin
<1>2. pc[t] = "idle" /\ UNCHANGED <<ent, reg>>
  BY DEF Begin, At
<1>3. /\ \E S : pc' \in [Thread -> S] /\ reg' \in [Thread -> S]
      /\ pc'[t] \in {"create_find", "find"}
      /\ \A u \in Thread : u # t => pc'[u] = pc[u]
  <2>1. PICK S : pc \in [Thread -> S] /\ reg \in [Thread -> S]
    BY DEF LockInv
  <2>2. PICK l : l = IF c.op = "create" THEN "create_find" ELSE "find"
    OBVIOUS
  <2>3. PICK R : R = S \cup {l}
    OBVIOUS
  <2>4. pc' = [pc EXCEPT ![t] = l] /\ pc \in [Thread -> R] /\ l \in R /\ reg' \in [Thread -> R]
    BY <1>1, <1>2, <2>1, <2>2, <2>3
  <2> QED
    BY <2>2, <2>4
<1>4. /\ call' \in [Thread -> Call \cup {NoCall}] /\ call'[t].name \in Name
      /\ \A u \in Thread : u # t => call'[u] = call[u]
  BY <1>1 DEF LockInv, Call
<1>5. \A u \in Thread : ThreadOK(u)'
  <2> SUFFICES ASSUME NEW u \in Thread
               PROVE  ThreadOK(u)'
    OBVIOUS
  <2>1. ThreadOK(u)
    BY DEF LockInv
  <2>2. CASE u = t
    BY <1>3, <1>4, <2>2 DEF ThreadOK
  <2>3. CASE u # t
    <3>1. pc'[u] = pc[u] /\ call'[u] = call[u] /\ reg' = reg /\ ent' = ent
      BY <1>2, <1>3, <1>4, <2>3
    <3> QED
      BY <2>1, <3>1 DEF ThreadOK
  <2> QED
    BY <2>2, <2>3
<1>6. OwnedWhileOpen'
  BY <1>2, <1>3 DEF LockInv, OwnedWhileOpen
<1> QED
  BY <1>2, <1>3, <1>4, <1>5, <1>6 DEF LockInv

LEMMA FindFirstKeeps ==
    ASSUME LockInv, NEW t \in Thread, FindFirst(t)
    PROVE  LockInv'
<1>1. PICK f, l : /\ f = Find(call[t].name)
                  /\ l = IF f = Wild THEN "fault"
                         ELSE IF call[t].op = "readdir" THEN (IF f # Null THEN "print" ELSE "idle")
                         ELSE IF f # Null THEN FoundAt(call[t].op) ELSE "create_find"
  OBVIOUS
<1>2. Goto(t, l, f, Null) /\ UNCHANGED ent /\ pc[t] = "find"
  BY <1>1 DEF FindFirst, At
<1>3. l \in {"fault", "print", "idle", "open_lock", "create_find"}
  BY <1>1 DEF FoundAt
<1>4. Moved(t, l, f)
  BY <1>2, <1>3, GotoMoves
<1> QED
  BY <1>2, <1>3, <1>4, LookKeeps DEF Inside

LEMMA CreateFindKeeps ==
    ASSUME LockInv, NEW t \in Thread, CreateFind(t)
    PROVE  LockInv'
<1>1. PICK f, l : /\ f = Find(call[t].name)
                  /\ l = IF f = Wild THEN "fault"
                         ELSE IF f # Null THEN FoundAt(call[t].op) ELSE "create_parent"
  OBVIOUS
<1>2. Goto(t, l, f, Null) /\ UNCHANGED ent /\ pc[t] = "create_find"
  BY <1>1 DEF CreateFind, At
<1>3. l \in {"fault", "idle", "open_lock", "create_parent"}
  BY <1>1 DEF FoundAt
<1>4. Moved(t, l, f)
  BY <1>2, <1>3, GotoMoves
<1> QED
  BY <1>2, <1>3, <1>4, LookKeeps DEF Inside

LEMMA CreateParentKeeps ==
    ASSUME LockInv, NEW t \in Thread, CreateParent(t)
    PROVE  LockInv'
<1>1. PICK l : l = IF DirName[call[t].name] = NoName /\ root # Null THEN "fault" ELSE "create_dir"
  OBVIOUS
<1>2. Goto(t, l, Null, Null) /\ UNCHANGED ent /\ pc[t] = "create_parent"
  BY <1>1 DEF CreateParent, At
<1>3. l \in {"fault", "create_dir"}
  BY <1>1
<1>4. Moved(t, l, Null)
  BY <1>2, GotoMoves
<1> QED
  BY <1>2, <1>3, <1>4, LookKeeps DEF Inside

LEMMA FindParentKeeps ==
    ASSUME LockInv, NEW t \in Thread, FindParent(t)
    PROVE  LockInv'
<1>1. PICK p, l : /\ p = Find(DirOf(call[t].name))
                  /\ l = IF p = Wild THEN "fault" ELSE "create_check"
  OBVIOUS
<1>2. Goto(t, l, Null, p) /\ UNCHANGED ent /\ pc[t] = "create_dir"
  BY <1>1 DEF FindParent, At
<1>3. l \in {"fault", "create_check"}
  BY <1>1
<1>4. Moved(t, l, Null)
  BY <1>2, GotoMoves
<1> QED
  BY <1>2, <1>3, <1>4, LookKeeps DEF Inside

LEMMA CheckParentKeeps ==
    ASSUME LockInv, NEW t \in Thread, CheckParent(t)
    PROVE  LockInv'
<1>1. PICK p, l : /\ p = reg[t][2]
                  /\ l = IF p = Null /\ root # Null THEN FailedAt(call[t].op) ELSE "create_link"
  OBVIOUS
<1>2. Goto(t, l, Null, p) /\ UNCHANGED ent /\ pc[t] = "create_check"
  BY <1>1 DEF CheckParent, At
<1>3. l \in {"fault", "idle", "open_retry", "create_link"}
  BY <1>1 DEF FailedAt
<1>4. Moved(t, l, Null)
  BY <1>2, GotoMoves
<1> QED
  BY <1>2, <1>3, <1>4, LookKeeps DEF Inside

LEMMA CreateFirstKeeps ==
    ASSUME LockInv, NEW t \in Thread, CreateFirst(t)
    PROVE  LockInv'
<1>1. PICK l : l = IF root = Null THEN "create_root" ELSE "fault"
  OBVIOUS
<1>2. Goto(t, l, Null, Null) /\ UNCHANGED ent /\ pc[t] = "create_link"
  BY <1>1 DEF CreateFirst, At
<1>3. l \in {"fault", "create_root"}
  BY <1>1
<1>4. Moved(t, l, Null)
  BY <1>2, GotoMoves
<1> QED
  BY <1>2, <1>3, <1>4, LookKeeps DEF Inside

\* A new entry is nobody's, and it is on its way to be written by t.
LEMMA MadeKeeps ==
    ASSUME LockInv, Room, NEW t \in Thread, pc[t] \in {"create_root", "create_link"},
           NEW e, e = Fresh(ent), NEW n \in Name,
           Entries(ent'), Made(ent, ent', e, n), Moved(t, "create_init", e)
    PROVE  LockInv'
<1>1. e \in Entry /\ ent[e].name = NoName /\ n # NoName
  BY FreshIs DEF Room
<1>2. Idle(ent) /\ OwnedWhileOpen /\ (\A u \in Thread : ThreadOK(u))
  BY DEF LockInv
<1>3. \A f \in Entry : f # e =>
        ent'[f].name = ent[f].name /\ ent'[f].owner = ent[f].owner /\ ent'[f].ready = ent[f].ready
  BY DEF Made
<1>4. ent'[e].name = n /\ ent'[e].owner = Null /\ ent'[e].ready = FALSE /\ ent[e].owner = Null
  BY <1>1, <1>2 DEF Made, Idle
<1>5. Idle(ent')
  BY <1>1, <1>2, <1>3, <1>4 DEF Idle
<1>6. \A f \in Entry : ent[f].name # NoName => ent'[f].name # NoName
  BY <1>1, <1>3, <1>4
<1>7. \A f \in Entry : ent'[f].owner = ent[f].owner
  BY <1>3, <1>4
<1>8. \A f \in Entry : ent[f].owner # t
  BY <1>2 DEF OwnedWhileOpen
<1>9. "create_init" \in Inside => call[t].name \in Name
  BY <1>2 DEF ThreadOK, Inside
<1>10. \A f \in Entry : ent'[f].owner = t <=> ("create_init" = "open" /\ e = f)
  BY <1>7, <1>8
<1> QED
  BY <1>1, <1>4, <1>5, <1>6, <1>7, <1>9, <1>10, MoveKeeps

LEMMA CreateRootKeeps ==
    ASSUME LockInv, NEW t \in Thread, CreateRoot(t)
    PROVE  LockInv'
<1>1. PICK e, n : e = Fresh(ent) /\ n = call[t].name
  OBVIOUS
<1>2. /\ pc[t] = "create_root" /\ Room
      /\ ent' = Linked(ent, Null, e, n) /\ Goto(t, "create_init", e, Null)
  BY <1>1 DEF CreateRoot, At
<1>3. n \in Name
  BY <1>1, <1>2 DEF LockInv, ThreadOK, Inside
<1>4. e \in Entry /\ ent[e].name = NoName /\ n # NoName
  BY <1>1, <1>2, <1>3, FreshIs DEF Room
<1>5. Linked(ent, Null, e, n) # ent
  <2>1. Linked(ent, Null, e, n)[e].name = n
    <3>1. PICK S : ent \in [Entry -> Field(S)]
      BY DEF LockInv, Entries
    <3> QED
      BY <1>4, <3>1 DEF Linked, Unused
  <2> QED
    BY <1>4, <2>1
<1>6. Entries(ent') /\ Made(ent, ent', e, n)
  BY <1>2, <1>4, <1>5, LinkedIs DEF LockInv
<1>7. Moved(t, "create_init", e)
  BY <1>2, GotoMoves
<1> QED
  BY <1>1, <1>2, <1>3, <1>6, <1>7, MadeKeeps

LEMMA CreateLinkKeeps ==
    ASSUME LockInv, NEW t \in Thread, CreateLink(t)
    PROVE  LockInv'
<1>1. pc[t] = "create_link" /\ Room
  BY DEF CreateLink, At
<1>2. call[t].name \in Name
  BY <1>1 DEF LockInv, ThreadOK, Inside
<1>3. PICK p, e, n : p = reg[t][2] /\ e = Fresh(ent) /\ n = call[t].name
  OBVIOUS
<1>4. e \in Entry /\ n \in Name
  BY <1>1, <1>2, <1>3, FreshIs DEF Room
<1>5. CASE ~ent[p].ready
  <2>1. Goto(t, "fault", Null, Null) /\ UNCHANGED ent
    BY <1>3, <1>5 DEF CreateLink
  <2>2. Moved(t, "fault", Null)
    BY <2>1, GotoMoves
  <2> QED
    BY <1>1, <2>1, <2>2, LookKeeps DEF Inside
<1>6. CASE ent[p].ready /\ Linked(ent, p, e, n) = ent
  <2>1. PICK l : l = FailedAt(call[t].op)
    OBVIOUS
  <2>2. Goto(t, l, e, p) /\ UNCHANGED ent
    BY <1>3, <1>6, <2>1 DEF CreateLink
  <2>3. l \in {"open_retry", "fault", "idle"}
    BY <2>1 DEF FailedAt
  <2>4. Moved(t, l, e)
    BY <2>2, GotoMoves
  <2> QED
    BY <1>1, <2>2, <2>3, <2>4, LookKeeps DEF Inside
<1>7. CASE ent[p].ready /\ Linked(ent, p, e, n) # ent
  <2>1. ent' = Linked(ent, p, e, n) /\ Goto(t, "create_init", e, p)
    BY <1>3, <1>7 DEF CreateLink
  <2>2. Entries(ent') /\ Made(ent, ent', e, n)
    BY <1>4, <1>7, <2>1, LinkedIs DEF LockInv
  <2>3. Moved(t, "create_init", e)
    BY <2>1, GotoMoves
  <2> QED
    BY <1>1, <1>3, <1>4, <2>2, <2>3, MadeKeeps
<1> QED
  BY <1>5, <1>6, <1>7

LEMMA CreateInitKeeps ==
    ASSUME LockInv, NEW t \in Thread, CreateInit(t)
    PROVE  LockInv'
<1>1. PICK f, p, l, dir : /\ f = reg[t][1] /\ p = reg[t][2]
                          /\ l = FoundAt(call[t].op) /\ dir = call[t].is_dir
  OBVIOUS
<1>2. pc[t] = "create_init" /\ ent' = Initialized(ent, p, f, dir) /\ Goto(t, l, f, Null)
  BY <1>1 DEF CreateInit, At
<1>3. f \in Entry /\ ent[f].name # NoName
  BY <1>1, <1>2 DEF LockInv, ThreadOK
<1>4. Entries(ent') /\ Finished(ent, ent', f)
  BY <1>2, InitializedIs DEF LockInv
<1>5. \A e \in Entry : /\ ent'[e].name = ent[e].name /\ ent'[e].owner = ent[e].owner
                       /\ e # f => ent'[e].ready = ent[e].ready
  BY <1>4 DEF Finished
<1>6. l \in {"open_lock", "idle"}
  BY <1>1 DEF FoundAt
<1>7. Moved(t, l, f)
  BY <1>2, GotoMoves
<1>8. Idle(ent')
  BY <1>3, <1>5 DEF LockInv, Idle
<1>9. \A e \in Entry : ent[e].owner # t
  BY <1>2 DEF LockInv, OwnedWhileOpen
<1>10. \A e \in Entry : ent'[e].owner = t <=> (l = "open" /\ f = e)
  BY <1>5, <1>6, <1>9
<1>11. l \notin Inside /\ l # "create_init"
  BY <1>6 DEF Inside
<1> QED
  BY <1>4, <1>5, <1>7, <1>8, <1>10, <1>11, MoveKeeps

LEMMA OpenRetryKeeps ==
    ASSUME LockInv, NEW t \in Thread, OpenRetry(t)
    PROVE  LockInv'
<1>1. PICK f, l : /\ f = Find(call[t].name)
                  /\ l = IF f \in {Null, Wild} THEN "fault" ELSE "open_lock"
  OBVIOUS
<1>2. Goto(t, l, f, Null) /\ UNCHANGED ent /\ pc[t] = "open_retry"
  BY <1>1 DEF OpenRetry, At
<1>3. l \in {"fault", "open_lock"}
  BY <1>1
<1>4. Moved(t, l, f)
  BY <1>2, GotoMoves
<1> QED
  BY <1>2, <1>3, <1>4, LookKeeps DEF Inside

LEMMA OpenLockKeeps ==
    ASSUME LockInv, NEW t \in Thread, OpenLock(t)
    PROVE  LockInv'
<1>1. PICK f : f = reg[t][1]
  OBVIOUS
<1>2. pc[t] = "open_lock"
  BY DEF OpenLock, At
<1>3. CASE ~ent[f].ready
  <2>1. Goto(t, "fault", Null, Null) /\ UNCHANGED ent
    BY <1>1, <1>3 DEF OpenLock
  <2>2. Moved(t, "fault", Null)
    BY <2>1, GotoMoves
  <2> QED
    BY <1>2, <2>1, <2>2, LookKeeps DEF Inside
<1>4. CASE ent[f].ready
  <2>1. ent' = [ent EXCEPT ![f].owner = t] /\ Goto(t, "open", f, Null) /\ ent[f].owner = Null
    BY <1>1, <1>4 DEF OpenLock
  <2>2. Entries(ent') /\ Owned(ent, ent', f, t)
    BY <2>1, OwnerWritten DEF LockInv
  <2>3. \A e \in Entry : /\ ent'[e].name = ent[e].name /\ ent'[e].ready = ent[e].ready
                         /\ ent'[e].owner = IF e = f THEN t ELSE ent[e].owner
    BY <2>2 DEF Owned
  <2>4. Idle(ent')
    BY <1>4, <2>3 DEF LockInv, Idle
  <2>5. Moved(t, "open", f)
    BY <2>1, GotoMoves
  <2>6. \A e \in Entry : ent[e].owner # t
    BY <1>2 DEF LockInv, OwnedWhileOpen
  <2>7. /\ \A e \in Entry : ent[e].name # NoName => ent'[e].name # NoName
        /\ \A e \in Entry : \A u \in Thread : u # t => (ent'[e].owner = u <=> ent[e].owner = u)
        /\ \A e \in Entry : ent'[e].owner = t <=> ("open" = "open" /\ f = e)
    BY <2>1, <2>3, <2>6
  <2>8. "open" \notin Inside
    BY DEF Inside
  <2> QED
    BY <2>2, <2>4, <2>5, <2>7, <2>8, MoveKeeps
<1> QED
  BY <1>3, <1>4

LEMMA ReaddirKeeps ==
    ASSUME LockInv, NEW t \in Thread, Readdir(t)
    PROVE  LockInv'
<1>1. PICK f : f = reg[t][1]
  OBVIOUS
<1>2. PICK l : Goto(t, l, f, Null) /\ l \in {"fault", "idle"}
  <2>1. PICK dir : Goto(t, IF dir /\ \E k \in Below(ent, f) : ~ent[k].ready THEN "fault" ELSE "idle",
                        f, Null)
    BY <1>1 DEF Readdir
  <2> QED
    BY <2>1
<1>3. UNCHANGED ent /\ pc[t] = "print"
  BY DEF Readdir, At
<1>4. Moved(t, l, f)
  BY <1>2, GotoMoves
<1> QED
  BY <1>2, <1>3, <1>4, LookKeeps DEF Inside

LEMMA WriteKeeps ==
    ASSUME LockInv, NEW t \in Thread, Write(t), Running'
    PROVE  LockInv'
<1>1. PICK f : f = reg[t][1]
  OBVIOUS
<1>2. PICK seek, count \in 0 .. MaxSize :
        IF ~ent[f].is_dir /\ ent[f].size = 0 /\ seek > 0
        THEN Goto(t, "fault", f, Null) /\ UNCHANGED ent
        ELSE /\ ent' = [ent EXCEPT ![f].size = SizeAfterWrite(ent, f, seek, count)]
             /\ UNCHANGED <<pc, call, reg>>
  BY <1>1 DEF Write
<1>3. ~(~ent[f].is_dir /\ ent[f].size = 0 /\ seek > 0)
  <2> SUFFICES ASSUME Goto(t, "fault", f, Null)
               PROVE  FALSE
    BY <1>2
  <2>1. pc'[t] = "fault"
    BY GotoMoves DEF Moved
  <2> QED
    BY <2>1 DEF Running
<1>4. PICK x : x = SizeAfterWrite(ent, f, seek, count)
  OBVIOUS
<1>5. ent' = [ent EXCEPT ![f].size = x] /\ UNCHANGED <<pc, call, reg>>
  BY <1>2, <1>3, <1>4
<1>6. Entries(ent') /\ SameLocks(ent, ent')
  BY <1>5, FieldsWritten DEF LockInv
<1>7. Idle(ent') /\ OwnedWhileOpen' /\ \A u \in Thread : ThreadOK(u)'
  BY <1>5, <1>6 DEF LockInv, SameLocks, Idle, OwnedWhileOpen, ThreadOK
<1> QED
  BY <1>5, <1>6, <1>7 DEF LockInv

LEMMA CloseKeeps ==
    ASSUME LockInv, NEW t \in Thread, Close(t)
    PROVE  LockInv'
<1>1. PICK f : f = reg[t][1]
  OBVIOUS
<1>2. /\ pc[t] = "open" /\ ent' = [ent EXCEPT ![f].owner = Null]
      /\ Goto(t, "idle", Null, Null)
  BY <1>1 DEF Close, At
<1>3. Entries(ent') /\ Owned(ent, ent', f, Null)
  BY <1>2, OwnerWritten DEF LockInv
<1>4. \A e \in Entry : /\ ent'[e].name = ent[e].name /\ ent'[e].ready = ent[e].ready
                       /\ ent'[e].owner = IF e = f THEN Null ELSE ent[e].owner
  BY <1>3 DEF Owned
<1>5. Idle(ent')
  BY <1>4 DEF LockInv, Idle
<1>6. Moved(t, "idle", Null)
  BY <1>2, GotoMoves
<1>7. \A e \in Entry : ent[e].owner = t <=> f = e
  BY <1>1, <1>2 DEF LockInv, OwnedWhileOpen
<1>8. /\ \A e \in Entry : ent[e].name # NoName => ent'[e].name # NoName
      /\ \A e \in Entry : \A u \in Thread : u # t => (ent'[e].owner = u <=> ent[e].owner = u)
      /\ \A e \in Entry : ent'[e].owner = t <=> ("idle" = "open" /\ Null = e)
  <2> SUFFICES ASSUME NEW e \in Entry, NEW u \in Thread
               PROVE  /\ ent[e].name # NoName => ent'[e].name # NoName
                      /\ u # t => (ent'[e].owner = u <=> ent[e].owner = u)
                      /\ ent'[e].owner # t
    OBVIOUS
  <2>1. Null # t /\ Null # u
    OBVIOUS
  <2>2. ent'[e].name = ent[e].name
    BY <1>4
  <2>3. CASE e = f
    <3>1. ent'[e].owner = Null /\ ent[e].owner = t
      BY <1>4, <1>7, <2>3
    <3> QED
      BY <2>1, <2>2, <3>1
  <2>4. CASE e # f
    BY <1>4, <1>7, <2>2, <2>4
  <2> QED
    BY <2>3, <2>4
<1>9. "idle" \notin Inside
  BY DEF Inside
<1> QED
  BY <1>3, <1>5, <1>6, <1>8, <1>9, MoveKeeps

LEMMA StepKeeps ==
    ASSUME scene \in Scenario, LockInv, NEW t \in Thread, Step(t), Running'
    PROVE  LockInv'
  BY BeginKeeps, FindFirstKeeps, CreateFindKeeps, CreateParentKeeps, FindParentKeeps,
     CheckParentKeeps, CreateFirstKeeps, CreateRootKeeps, CreateLinkKeeps,
     CreateInitKeeps, OpenRetryKeeps, OpenLockKeeps, ReaddirKeeps, WriteKeeps,
     CloseKeeps DEF Step

-----------------------------------------------------------------------------
(***************************************************************************)
(* Loading, and the theorems.                                              *)
(***************************************************************************)

\* While the archive is loaded nobody owns a file, and none gets an owner.
LEMMA LoadRecordKeeps ==
    ASSUME LoadInv, LoadRecord
    PROVE  LoadInv'
<1>1. PICK r, e, p : /\ r = Archive[pos + 1] /\ e = Fresh(ent)
                     /\ p = IF root = Null THEN Null ELSE Find(DirName[r.name])
  OBVIOUS
<1>2. PICK linked : linked = Linked(ent, p, e, r.name)
  OBVIOUS
<1>3. PICK made : made = Initialized(linked, p, e, r.is_dir)
  OBVIOUS
<1>4. PICK x : x = IF r.is_dir THEN 0 ELSE SizeAfterWrite(made, e, 0, r.filesize)
  OBVIOUS
<1>5. /\ ~Loaded /\ Room
      /\ IF (root # Null /\ p = Null) \/ linked = ent
         THEN pos' = Len(Archive) /\ UNCHANGED <<root, ent>>
         ELSE /\ pos' = pos + 1
              /\ ent' = [made EXCEPT ![e].size = x]
      /\ UNCHANGED <<pc, call, reg, scene>>
  BY <1>1, <1>2, <1>3, <1>4 DEF LoadRecord
<1>6. /\ Archive \in Seq([name : Name, is_dir : BOOLEAN, filesize : Nat])
      /\ Archive' = Archive
  BY <1>5, ArchiveAssumption DEF LoadInv, Archive
<1>7. pos \in 0 .. Len(Archive) /\ pos # Len(Archive)
  BY <1>5 DEF LoadInv, Loaded
<1>8. r.name \in Name /\ pos' \in 0 .. Len(Archive)'
  <2>1. Len(Archive) \in Nat /\ pos + 1 \in 1 .. Len(Archive)
    BY <1>6, <1>7
  <2>2. r \in [name : Name, is_dir : BOOLEAN, filesize : Nat]
    <3>1. PICK a, R : a = Archive /\ R = [name : Name, is_dir : BOOLEAN, filesize : Nat]
      OBVIOUS
    <3>2. a \in Seq(R) /\ pos + 1 \in 1 .. Len(a) /\ r = a[pos + 1]
      BY <1>1, <1>6, <2>1, <3>1
    <3>3. \A i \in 1 .. Len(a) : a[i] \in R
      BY <3>2
    <3> QED
      BY <3>1, <3>2, <3>3
  <2>3. pos' \in {pos + 1, Len(Archive)}
    BY <1>5
  <2> QED
    BY <1>6, <1>7, <2>1, <2>2, <2>3
<1>9. \A t \in Thread : pc[t] = "idle"
  BY <1>5 DEF LoadInv
<1>10. LockInv
  BY <1>9 DEF LoadInv, Running
<1>11. \A f \in Entry : ent[f].owner \notin Thread
  BY <1>9, <1>10 DEF LockInv, OwnedWhileOpen
<1>12. \/ UNCHANGED ent
       \/ /\ Entries(ent') /\ Idle(ent')
          /\ \A f \in Entry : ent'[f].owner \notin Thread
  <2>1. CASE (root # Null /\ p = Null) \/ linked = ent
    BY <1>5, <2>1
  <2>2. CASE ~((root # Null /\ p = Null) \/ linked = ent)
    <3>1. e \in Entry /\ ent[e].name = NoName
      BY <1>1, <1>5, FreshIs DEF Room
    <3>2. Entries(ent)
      BY <1>10 DEF LockInv
    <3>3. PICK n : n = r.name
      OBVIOUS
    <3>4. linked = Linked(ent, p, e, n)
      BY <1>2, <3>3
    <3>5. Entries(linked) /\ Made(ent, linked, e, n)
      BY <2>2, <3>1, <3>2, <3>4, LinkedIs
    <3>6. Entries(made) /\ Finished(linked, made, e)
      <4>1. PICK dir : dir = r.is_dir
        OBVIOUS
      <4>2. made = Initialized(linked, p, e, dir)
        BY <1>3, <4>1
      <4> QED
        BY <3>5, <4>2, InitializedIs
    <3>7. ent' = [made EXCEPT ![e].size = x]
      BY <1>5, <2>2
    <3>8. Entries(ent') /\ SameLocks(made, ent')
      BY <3>6, <3>7, FieldsWritten
    <3>9. ASSUME NEW f \in Entry
          PROVE  /\ ent'[f].owner \notin Thread
                 /\ ent'[f].name = NoName => ent'[f].owner = Null /\ ~ent'[f].ready
      <4>1. /\ ent'[f].name = linked[f].name /\ ent'[f].owner = linked[f].owner
            /\ f # e => ent'[f].ready = linked[f].ready
        BY <3>6, <3>8 DEF SameLocks, Finished
      <4>2. CASE f = e
        <5>1. linked[e].name = n /\ linked[e].owner = Null
          BY <3>5 DEF Made
        <5>2. n # NoName /\ Null \notin Thread
          BY <1>8, <3>3
        <5> QED
          BY <4>1, <4>2, <5>1, <5>2
      <4>3. CASE f # e
        <5>1. /\ linked[f].name = ent[f].name /\ linked[f].owner = ent[f].owner
              /\ linked[f].ready = ent[f].ready
          BY <3>5, <4>3 DEF Made
        <5>2. ent[f].name = NoName => ent[f].owner = Null /\ ~ent[f].ready
          BY <1>10 DEF LockInv, Idle
        <5> QED
          BY <1>11, <4>1, <4>3, <5>1, <5>2
      <4> QED
        BY <4>2, <4>3
    <3> QED
      BY <3>8, <3>9 DEF Idle
  <2> QED
    BY <2>1, <2>2
<1>13. LockInv'
  <2>1. Entries(ent') /\ Idle(ent') /\ \A f \in Entry : ent'[f].owner \notin Thread
    BY <1>10, <1>11, <1>12 DEF LockInv
  <2>2. /\ \E S : pc' \in [Thread -> S] /\ reg' \in [Thread -> S]
        /\ call' \in [Thread -> Call \cup {NoCall}]
    BY <1>5, <1>10 DEF LockInv
  <2>3. \A t \in Thread : pc'[t] = "idle"
    BY <1>5, <1>9
  <2>4. OwnedWhileOpen'
    BY <2>1, <2>3 DEF OwnedWhileOpen
  <2>5. \A t \in Thread : ThreadOK(t)'
    BY <2>3 DEF ThreadOK, Inside
  <2> QED
    BY <2>1, <2>2, <2>4, <2>5 DEF LockInv
<1> QED
  BY <1>5, <1>8, <1>9, <1>13 DEF LoadInv

LEMMA LoadInitSound ==
    ASSUME LoadInit
    PROVE  LoadInv
<1>1. /\ ent = [e \in Entry |-> Unused] /\ pc = [t \in Thread |-> "idle"]
      /\ call = [t \in Thread |-> NoCall] /\ reg = [t \in Thread |-> <<Null, Null>>]
      /\ scene \in Scenario /\ pos = 0
  BY DEF LoadInit, RamfsInit
<1>2. Entries(ent) /\ Idle(ent) /\ \A e \in Entry : ent[e].owner = Null
  <2>1. PICK S : S = {NoName, <<>>, FALSE, 0}
    OBVIOUS
  <2>2. Unused \in Field(S)
    BY <2>1 DEF Unused, Field
  <2>3. ent \in [Entry -> Field(S)]
    BY <1>1, <2>2
  <2>4. \A e \in Entry : ent[e].owner = Null /\ ent[e].ready = FALSE
    BY <1>1 DEF Unused
  <2> QED
    BY <2>3, <2>4 DEF Entries, Idle
<1>3. \E S : pc \in [Thread -> S] /\ reg \in [Thread -> S]
  <2>1. PICK a, b : a = "idle" /\ b = <<Null, Null>>
    OBVIOUS
  <2>2. pc \in [Thread -> {a, b}] /\ reg \in [Thread -> {a, b}]
    BY <1>1, <2>1
  <2> QED
    BY <2>2
<1>4. \A t \in Thread : pc[t] = "idle"
  BY <1>1
<1>5. (\A t \in Thread : ThreadOK(t)) /\ OwnedWhileOpen
  BY <1>2, <1>4 DEF ThreadOK, OwnedWhileOpen, Inside
<1>6. call \in [Thread -> Call \cup {NoCall}]
  BY <1>1
<1>7. LockInv
  BY <1>2, <1>3, <1>5, <1>6 DEF LockInv
<1>8. Archive \in Seq([name : Name, is_dir : BOOLEAN, filesize : Nat])
  BY <1>1, ArchiveAssumption DEF Archive
<1>9. pos \in 0 .. Len(Archive)
  BY <1>1, <1>8
<1> QED
  BY <1>1, <1>4, <1>7, <1>9 DEF LoadInv

\* The invariant of the mutexes of the files holds whatever the archive and the
\* scenario are: what ramfs_open, ramfs_close and fentry_create keep true between
\* them, one of their steps at a time (ramfs.c:249-279, 351-380).
THEOREM LoadInvariant == LoadSpec => []LoadInv
<1>1. LoadInit => LoadInv
  BY LoadInitSound
<1>2. LoadInv /\ [LoadNext]_load_vars => LoadInv'
  <2> SUFFICES ASSUME LoadInv, [LoadNext]_load_vars
               PROVE  LoadInv'
    OBVIOUS
  <2>1. CASE LoadRecord
    BY <2>1, LoadRecordKeeps
  <2>2. ASSUME Loaded, Running, NEW t \in Thread, Step(t), UNCHANGED pos
        PROVE  LoadInv'
    <3>1. scene' = scene /\ scene \in Scenario /\ LockInv
      BY <2>2 DEF LoadInv, Step
    <3>2. Running' => LockInv'
      BY <2>2, <3>1, StepKeeps
    <3>3. Archive' = Archive /\ Loaded'
      BY <2>2, <3>1 DEF Archive, Loaded
    <3> QED
      BY <2>2, <3>1, <3>2, <3>3 DEF LoadInv
  <2>3. CASE UNCHANGED load_vars
    <3>1. /\ UNCHANGED <<root, ent, pc, call, reg, scene, pos>>
          /\ Archive' = Archive
      BY <2>3 DEF load_vars, Archive
    <3>2. (Loaded' <=> Loaded) /\ (Running' <=> Running)
      BY <3>1 DEF Loaded, Running
    <3>3. LockInv => LockInv'
      BY <3>1 DEF LockInv, OwnedWhileOpen, ThreadOK
    <3> QED
      BY <3>1, <3>2, <3>3 DEF LoadInv
  <2> QED
    BY <2>1, <2>2, <2>3 DEF LoadNext
<1> QED
  BY <1>1, <1>2, PTL DEF LoadSpec

\* A file is locked exactly while one thread has it open, however many threads call
\* the file system, also while others create files in it (ramfs.c:47-49, 351-353,
\* 374-380): no call leaves a mutex locked, and no two threads have a file.
THEOREM FilesLocked == LoadSpec => []LockedWhileOpen
<1>1. LoadInv => LockedWhileOpen
  BY DEF LoadInv, LockInv, OwnedWhileOpen, LockedWhileOpen
<1> QED
  BY <1>1, LoadInvariant, PTL
-----------------------------------------------------------------------------
(***************************************************************************)
(* The tree of entries: of each the name, nm, and the children, kd.        *)
(***************************************************************************)

\* memory is used in the order of the entries
Packed(nm) == \A e, f \in Entry : nm[f] # NoName /\ e < f => nm[e] # NoName

\* Whoever is in a directory is in one only, in the one that get_directory_name gave,
\* and two are not there under one name; memory is used in the order of the entries, so
\* that a directory comes before what is in it; memory that is not in use has no
\* children and is nobody's child.
Tree(nm, kd, r) ==
    /\ nm \in [Entry -> Name \cup {NoName}] /\ kd \in [Entry -> Seq(Entry)]
    /\ r \in Entry \cup {Null}
    /\ r = Null => \A e \in Entry : nm[e] = NoName
    /\ r # Null => nm[r] \in Name
    /\ Packed(nm)
    /\ \A e \in Entry : \A i \in 1 .. Len(kd[e]) :
         /\ nm[e] \in Name /\ nm[kd[e][i]] \in Name
         /\ DirOf(nm[kd[e][i]]) = nm[e] /\ kd[e][i] # r /\ e < kd[e][i]
    /\ \A e \in Entry : \A i, j \in 1 .. Len(kd[e]) :
         nm[kd[e][i]] = nm[kd[e][j]] => i = j
    /\ \A e, f \in Entry : \A i \in 1 .. Len(kd[e]) : \A j \in 1 .. Len(kd[f]) :
         kd[e][i] = kd[f][j] => e = f

LEMMA KidsAre ==
    ASSUME NEW kd \in [Entry -> Seq(Entry)], NEW e \in Entry
    PROVE  /\ Len(kd[e]) \in Nat /\ DOMAIN kd[e] = 1 .. Len(kd[e])
           /\ \A i \in 1 .. Len(kd[e]) : kd[e][i] \in Entry
<1>1. PICK s : s = kd[e]
  OBVIOUS
<1>2. s \in Seq(Entry)
  BY <1>1
<1>3. Len(s) \in Nat /\ DOMAIN s = 1 .. Len(s) /\ \A i \in 1 .. Len(s) : s[i] \in Entry
  BY <1>2
<1> QED
  BY <1>1, <1>3

\* how much deeper the tree below e can be
Lvl(e) == MaxEntries - e

LEMMA Levels ==
    ASSUME NEW nm, NEW kd, NEW r, Tree(nm, kd, r)
    PROVE  /\ \A e \in Entry : Lvl(e) \in Nat /\ Lvl(e) <= MaxEntries
           /\ \A e \in Entry : \A i \in 1 .. Len(kd[e]) : Lvl(kd[e][i]) < Lvl(e)
<1>1. \A e \in Entry : Lvl(e) \in Nat /\ Lvl(e) <= MaxEntries
  BY DEF Lvl, Entry
<1>2. ASSUME NEW e \in Entry, NEW i \in 1 .. Len(kd[e])
      PROVE  Lvl(kd[e][i]) < Lvl(e)
  <2>1. e < kd[e][i] /\ kd[e][i] \in Entry
    <3>1. kd \in [Entry -> Seq(Entry)] /\ e < kd[e][i]
      BY DEF Tree
    <3> QED
      BY <3>1, KidsAre
  <2> QED
    BY <2>1 DEF Lvl, Entry
<1> QED
  BY <1>1, <1>2

\* Among any entries there is one below which the tree is least deep, and one below
\* which it is deepest.
LEMMA Extremes ==
    ASSUME NEW S \in SUBSET Entry, S # {}
    PROVE  /\ \E e \in S : \A f \in S : Lvl(e) <= Lvl(f)
           /\ \E e \in S : \A f \in S : Lvl(f) <= Lvl(e)
<1>1. S \in SUBSET Nat
  BY DEF Entry
<1>2. PICK e \in S : \A f \in S : e <= f
  BY <1>1, LeastElement
<1>3. \A f \in S : Lvl(f) <= Lvl(e)
  BY <1>1, <1>2 DEF Lvl
<1>4. \E g \in S : \A f \in S : Lvl(g) <= Lvl(f)
  <2> DEFINE L == {Lvl(f) : f \in S}
  <2>1. L \in SUBSET Nat /\ L # {}
    BY <1>2 DEF Lvl, Entry
  <2>2. PICK l \in L : \A k \in L : l <= k
    <3> HIDE DEF L
    <3> QED
      BY <2>1, LeastElement
  <2>3. PICK g \in S : l = Lvl(g)
    BY <2>2
  <2>4. \A f \in S : Lvl(f) \in L
    OBVIOUS
  <2> HIDE DEF L
  <2> QED
    BY <2>2, <2>3, <2>4
<1> QED
  BY <1>2, <1>3, <1>4

\* no child of one of S is outside
Closed(kd, S) == \A e \in S : \A i \in 1 .. Len(kd[e]) : kd[e][i] \in S

\* e and what is below it
Clo(kd, e) == {f \in Entry : \A S \in SUBSET Entry : e \in S /\ Closed(kd, S) => f \in S}

LEMMA CloIs ==
    ASSUME NEW kd \in [Entry -> Seq(Entry)], NEW e \in Entry
    PROVE  /\ e \in Clo(kd, e) /\ Closed(kd, Clo(kd, e)) /\ Clo(kd, e) \in SUBSET Entry
           /\ \A S \in SUBSET Entry : e \in S /\ Closed(kd, S) => Clo(kd, e) \subseteq S
<1>1. e \in Clo(kd, e) /\ Clo(kd, e) \in SUBSET Entry
  BY DEF Clo
<1>2. ASSUME NEW f \in Clo(kd, e), NEW i \in 1 .. Len(kd[f])
      PROVE  kd[f][i] \in Clo(kd, e)
  <2>1. kd[f][i] \in Entry
    BY <1>1, KidsAre
  <2>2. ASSUME NEW S \in SUBSET Entry, e \in S, Closed(kd, S)
        PROVE  kd[f][i] \in S
    BY <2>2 DEF Clo, Closed
  <2> QED
    BY <2>1, <2>2 DEF Clo
<1> QED
  BY <1>1, <1>2 DEF Clo, Closed

\* What is below e is e itself or below a child of e, and it has a parent.
LEMMA CloSteps ==
    ASSUME NEW kd \in [Entry -> Seq(Entry)], NEW e \in Entry, NEW f \in Entry
    PROVE  /\ f \in Clo(kd, e) <=>
                f = e \/ \E i \in 1 .. Len(kd[e]) : f \in Clo(kd, kd[e][i])
           /\ f \in Clo(kd, e) =>
                f = e \/ \E g \in Clo(kd, e) : \E i \in 1 .. Len(kd[g]) : f = kd[g][i]
<1>1. \A g \in Entry : \A i \in 1 .. Len(kd[g]) : kd[g][i] \in Entry
  BY KidsAre
<1>2. /\ e \in Clo(kd, e) /\ Closed(kd, Clo(kd, e)) /\ Clo(kd, e) \in SUBSET Entry
      /\ \A S \in SUBSET Entry : e \in S /\ Closed(kd, S) => Clo(kd, e) \subseteq S
  BY CloIs
<1>3. ASSUME NEW i \in 1 .. Len(kd[e])
      PROVE  /\ kd[e][i] \in Clo(kd, kd[e][i]) /\ Closed(kd, Clo(kd, kd[e][i]))
             /\ Clo(kd, kd[e][i]) \in SUBSET Clo(kd, e)
  <2>1. kd[e][i] \in Clo(kd, e) /\ kd[e][i] \in Entry
    BY <1>1, <1>2 DEF Closed
  <2>2. PICK k \in Entry : k = kd[e][i]
    BY <2>1
  <2>3. /\ k \in Clo(kd, k) /\ Closed(kd, Clo(kd, k))
        /\ \A S \in SUBSET Entry : k \in S /\ Closed(kd, S) => Clo(kd, k) \subseteq S
    BY CloIs
  <2> QED
    BY <1>2, <2>1, <2>2, <2>3
<1>4. ASSUME f \in Clo(kd, e)
      PROVE  f = e \/ \E i \in 1 .. Len(kd[e]) : f \in Clo(kd, kd[e][i])
  <2> DEFINE S == {e} \cup {g \in Entry : \E i \in 1 .. Len(kd[e]) : g \in Clo(kd, kd[e][i])}
  <2>1. Closed(kd, S)
    <3> SUFFICES ASSUME NEW g \in S, NEW j \in 1 .. Len(kd[g])
                 PROVE  kd[g][j] \in S
      BY DEF Closed
    <3>1. kd[g][j] \in Entry
      BY <1>1
    <3>2. CASE g = e
      BY <1>3, <3>1, <3>2
    <3>3. CASE g # e
      <4>1. PICK i \in 1 .. Len(kd[e]) : g \in Clo(kd, kd[e][i])
        BY <3>3
      <4>2. kd[g][j] \in Clo(kd, kd[e][i])
        BY <1>3, <4>1 DEF Closed
      <4> QED
        BY <3>1, <4>2
    <3> QED
      BY <3>2, <3>3
  <2>2. S \in SUBSET Entry /\ e \in S
    OBVIOUS
  <2>3. f \in S
    <3> HIDE DEF S
    <3> QED
      BY <1>2, <1>4, <2>1, <2>2
  <2> QED
    BY <2>3
<1>5. ASSUME f \in Clo(kd, e)
      PROVE  f = e \/ \E g \in Clo(kd, e) : \E i \in 1 .. Len(kd[g]) : f = kd[g][i]
  <2> DEFINE S == {g \in Clo(kd, e) :
                     g = e \/ \E h \in Clo(kd, e) : \E i \in 1 .. Len(kd[h]) : g = kd[h][i]}
  <2>1. Closed(kd, S)
    BY <1>2 DEF Closed
  <2>2. S \in SUBSET Entry /\ e \in S
    BY <1>2
  <2>3. f \in S
    <3> HIDE DEF S
    <3> QED
      BY <1>2, <1>5, <2>1, <2>2
  <2> QED
    BY <2>3
<1> QED
  BY <1>2, <1>3, <1>4, <1>5

\* every child's name has a directory
Slashed(nm, kd) == \A e \in Entry : \A i \in 1 .. Len(kd[e]) : DirName[nm[kd[e][i]]] # NoName

\* A tree whose names have a directory, but for the root's, has no two entries of one
\* name: names get longer from a directory to what is in it.
LEMMA NamesUnique ==
    ASSUME NEW nm, NEW kd, NEW r \in Entry, Tree(nm, kd, r)
    PROVE  /\ \A e \in Clo(kd, r) : nm[e] \in Name
           /\ Slashed(nm, kd) => \A e, f \in Clo(kd, r) : nm[e] = nm[f] => e = f
<1>1. /\ kd \in [Entry -> Seq(Entry)] /\ r # Null /\ nm[r] \in Name
      /\ \A e \in Entry : \A i \in 1 .. Len(kd[e]) :
           /\ nm[e] \in Name /\ nm[kd[e][i]] \in Name
           /\ DirOf(nm[kd[e][i]]) = nm[e] /\ kd[e][i] # r
  BY DEF Tree
<1>2. Clo(kd, r) \in SUBSET Entry
  BY <1>1, CloIs
<1>3. ASSUME NEW e \in Clo(kd, r), e # r
      PROVE  \E g \in Clo(kd, r) : \E i \in 1 .. Len(kd[g]) : e = kd[g][i]
  <2>1. PICK f \in Entry : f = e
    BY <1>2
  <2>2. f \in Clo(kd, r) =>
          f = r \/ \E g \in Clo(kd, r) : \E i \in 1 .. Len(kd[g]) : f = kd[g][i]
    <3>1. kd \in [Entry -> Seq(Entry)]
      BY <1>1
    <3> HIDE RamfsAssumption
    <3> QED
      BY <3>1, CloSteps
  <2> QED
    BY <1>3, <2>1, <2>2
<1>4. ASSUME NEW e \in Clo(kd, r)
      PROVE  nm[e] \in Name
  <2>1. CASE e = r
    BY <1>1, <2>1
  <2>2. CASE e # r
    <3>1. PICK g \in Clo(kd, r) : \E i \in 1 .. Len(kd[g]) : e = kd[g][i]
      BY <1>3, <2>2
    <3>2. PICK i \in 1 .. Len(kd[g]) : e = kd[g][i]
      BY <3>1
    <3>3. g \in Entry
      BY <1>2
    <3> QED
      BY <1>1, <3>2, <3>3
  <2> QED
    BY <2>1, <2>2
<1>5. /\ \A e \in Entry : Lvl(e) \in Nat
      /\ \A e \in Entry : \A i \in 1 .. Len(kd[e]) : Lvl(kd[e][i]) < Lvl(e)
  <2>1. /\ \A e \in Entry : Lvl(e) \in Nat /\ Lvl(e) <= MaxEntries
        /\ \A e \in Entry : \A i \in 1 .. Len(kd[e]) : Lvl(kd[e][i]) < Lvl(e)
    BY Levels
  <2> QED
    BY <2>1
<1>6. SUFFICES ASSUME Slashed(nm, kd)
               PROVE  \A e, f \in Clo(kd, r) : nm[e] = nm[f] => e = f
  BY <1>4
<1>7. \A e \in Entry : \A i \in 1 .. Len(kd[e]) :
        /\ DirName[nm[kd[e][i]]] = nm[e]
        /\ Length[nm[e]] \in Nat /\ Length[nm[kd[e][i]]] \in Nat
        /\ Length[nm[e]] < Length[nm[kd[e][i]]]
  <2> SUFFICES ASSUME NEW e \in Entry, NEW i \in 1 .. Len(kd[e])
               PROVE  /\ DirName[nm[kd[e][i]]] = nm[e]
                      /\ Length[nm[e]] \in Nat /\ Length[nm[kd[e][i]]] \in Nat
                      /\ Length[nm[e]] < Length[nm[kd[e][i]]]
    OBVIOUS
  <2>1. PICK a, b : a = nm[e] /\ b = nm[kd[e][i]]
    OBVIOUS
  <2>2. a \in Name /\ b \in Name /\ DirName[b] = a
    BY <1>1, <1>6, <2>1 DEF Slashed, DirOf
  <2>3. Length[a] < Length[b] /\ Length[a] \in Nat /\ Length[b] \in Nat
    BY <2>2
  <2> QED
    BY <2>1, <2>2, <2>3
<1>8. \A e \in Clo(kd, r) : Length[nm[r]] <= Length[nm[e]]
  <2> DEFINE S == {e \in Entry : nm[e] \in Name /\ Length[nm[r]] <= Length[nm[e]]}
  <2>1. r \in S
    <3>1. Length[nm[r]] \in Nat
      BY <1>1
    <3> QED
      BY <1>1, <3>1
  <2>2. Closed(kd, S)
    <3> SUFFICES ASSUME NEW e \in S, NEW i \in 1 .. Len(kd[e])
                 PROVE  kd[e][i] \in S
      BY DEF Closed
    <3>1. kd[e][i] \in Entry
      BY <1>1, KidsAre
    <3>2. /\ Length[nm[e]] < Length[nm[kd[e][i]]] /\ Length[nm[r]] <= Length[nm[e]]
          /\ nm[kd[e][i]] \in Name
      BY <1>1, <1>7
    <3>3. Length[nm[kd[e][i]]] \in Nat /\ Length[nm[e]] \in Nat /\ Length[nm[r]] \in Nat
      BY <1>1, <1>7
    <3> QED
      BY <3>1, <3>2, <3>3
  <2>3. Clo(kd, r) \subseteq S
    <3> HIDE DEF S
    <3>1. S \in SUBSET Entry
      BY DEF S
    <3> QED
      BY <1>1, <2>1, <2>2, <3>1, CloIs
  <2> QED
    BY <2>3
<1>9. \A e \in Clo(kd, r) : nm[e] = nm[r] => e = r
  <2> SUFFICES ASSUME NEW e \in Clo(kd, r), nm[e] = nm[r], e # r
               PROVE  FALSE
    OBVIOUS
  <2>1. PICK g \in Clo(kd, r) : \E i \in 1 .. Len(kd[g]) : e = kd[g][i]
    BY <1>3
  <2>2. Length[nm[g]] < Length[nm[r]] /\ Length[nm[g]] \in Nat /\ Length[nm[r]] \in Nat
    BY <1>1, <1>2, <1>7, <2>1
  <2>3. Length[nm[r]] <= Length[nm[g]]
    BY <1>8
  <2> QED
    BY <2>2, <2>3
<1> DEFINE Bad == {e \in Clo(kd, r) : \E f \in Clo(kd, r) : nm[e] = nm[f] /\ e # f}
<1>10. SUFFICES ASSUME Bad # {}
                PROVE  FALSE
  OBVIOUS
<1>11. PICK e \in Bad : \A f \in Bad : Lvl(f) <= Lvl(e)
  <2>1. Bad \in SUBSET Entry
    BY <1>2
  <2> HIDE DEF Bad
  <2> QED
    BY <1>10, <2>1, Extremes
<1>12. PICK f \in Clo(kd, r) : nm[e] = nm[f] /\ e # f
  OBVIOUS
<1>13. e \in Clo(kd, r) /\ e # r /\ f # r
  BY <1>9, <1>12
<1>14. PICK g \in Clo(kd, r) : \E i \in 1 .. Len(kd[g]) : e = kd[g][i]
  BY <1>3, <1>13
<1>15. PICK h \in Clo(kd, r) : \E j \in 1 .. Len(kd[h]) : f = kd[h][j]
  BY <1>3, <1>13
<1>16. nm[g] = nm[h]
  <2>1. DirName[nm[e]] = nm[g]
    BY <1>2, <1>7, <1>14
  <2>2. DirName[nm[f]] = nm[h]
    BY <1>2, <1>7, <1>15
  <2> QED
    BY <1>12, <2>1, <2>2
<1>17. g = h
  <2>1. CASE g \in Bad
    <3>1. Lvl(e) < Lvl(g) /\ Lvl(g) <= Lvl(e)
      BY <1>2, <1>11, <1>14, <2>1, <1>5
    <3>2. Lvl(g) \in Nat /\ Lvl(e) \in Nat
      BY <1>2, <1>13, <1>5
    <3> QED
      BY <3>1, <3>2
  <2>2. CASE g \notin Bad
    BY <1>16, <2>2
  <2> QED
    BY <2>1, <2>2
<1>18. PICK i, j \in 1 .. Len(kd[g]) : e = kd[g][i] /\ f = kd[g][j]
  BY <1>14, <1>15, <1>17
<1>19. i = j
  BY <1>2, <1>12, <1>18 DEF Tree
<1> QED
  BY <1>12, <1>18, <1>19

-----------------------------------------------------------------------------
(***************************************************************************)
(* What the walks through the tree find.                                   *)
(***************************************************************************)

Fentry(N, K, Z, O) ==
    [name : N, kids : K, is_dir : BOOLEAN, size : Z, owner : O, ready : BOOLEAN]

Fields == Fentry(Name \cup {NoName}, Seq(Entry), 0 .. 2 * MaxSize, Thread \cup {Null})

NM(en) == [e \in Entry |-> en[e].name]
KD(en) == [e \in Entry |-> en[e].kids]

\* the entries en, of which r is the root, are a tree
TreeOf(en, r) == en \in [Entry -> Fields] /\ Tree(NM(en), KD(en), r)

\* what TreeOf says of each entry
LEMMA TreeOfIs ==
    ASSUME NEW en, NEW r, TreeOf(en, r)
    PROVE  /\ NM(en) \in [Entry -> Name \cup {NoName}] /\ KD(en) \in [Entry -> Seq(Entry)]
           /\ \A e \in Entry : NM(en)[e] = en[e].name /\ KD(en)[e] = en[e].kids
           /\ \A e \in Entry : Len(en[e].kids) \in Nat /\ DOMAIN en[e].kids = 1 .. Len(en[e].kids)
           /\ \A e \in Entry : \A i \in 1 .. Len(en[e].kids) : en[e].kids[i] \in Entry
<1>1. NM(en) \in [Entry -> Name \cup {NoName}] /\ KD(en) \in [Entry -> Seq(Entry)]
  BY DEF TreeOf, Tree
<1>2. \A e \in Entry : NM(en)[e] = en[e].name /\ KD(en)[e] = en[e].kids
  BY DEF NM, KD
<1>3. ASSUME NEW e \in Entry
      PROVE  /\ Len(en[e].kids) \in Nat /\ DOMAIN en[e].kids = 1 .. Len(en[e].kids)
             /\ \A i \in 1 .. Len(en[e].kids) : en[e].kids[i] \in Entry
  <2>1. PICK kd \in [Entry -> Seq(Entry)] : kd = KD(en)
    BY <1>1
  <2>2. /\ Len(kd[e]) \in Nat /\ DOMAIN kd[e] = 1 .. Len(kd[e])
        /\ \A i \in 1 .. Len(kd[e]) : kd[e][i] \in Entry
    BY KidsAre
  <2> QED
    BY <1>2, <2>1, <2>2
<1> QED
  BY <1>1, <1>2, <1>3

\* The recursive function of Below has one solution.
LEMMA BelowIs ==
    ASSUME NEW en, NEW r, TreeOf(en, r), NEW e \in Entry
    PROVE  Below(en, e) = Clo(KD(en), e)
<1> DEFINE kd == KD(en)
           Eq(b) == b = [f \in Entry |-> {f} \cup UNION {b[k] : k \in ToSet(en[f].kids)}]
           G == [f \in Entry |-> Clo(kd, f)]
           below == CHOOSE b : Eq(b)
<1>1. /\ kd \in [Entry -> Seq(Entry)] /\ Tree(NM(en), kd, r)
      /\ \A f \in Entry : kd[f] = en[f].kids
      /\ \A f \in Entry : DOMAIN kd[f] = 1 .. Len(kd[f])
      /\ \A f \in Entry : \A i \in 1 .. Len(kd[f]) : kd[f][i] \in Entry
  BY TreeOfIs DEF TreeOf
<1>2. \A f \in Entry : ToSet(en[f].kids) = {kd[f][i] : i \in 1 .. Len(kd[f])}
  <2> HIDE DEF kd
  <2> SUFFICES ASSUME NEW f \in Entry
               PROVE  ToSet(en[f].kids) = {kd[f][i] : i \in 1 .. Len(kd[f])}
    OBVIOUS
  <2>1. PICK q : q = kd[f]
    OBVIOUS
  <2>2. DOMAIN q = 1 .. Len(q)
    BY <1>1, <2>1
  <2>3. ToSet(q) = {q[i] : i \in 1 .. Len(q)}
    BY <2>2 DEF ToSet
  <2>4. en[f].kids = q
    BY <1>1, <2>1
  <2> QED
    BY <2>1, <2>3, <2>4
<1> HIDE DEF kd
<1>3. ASSUME NEW f \in Entry
      PROVE  Clo(kd, f) = {f} \cup UNION {Clo(kd, k) : k \in ToSet(en[f].kids)}
  <2>1. \A g \in Entry : g \in Clo(kd, f) <=>
          g = f \/ \E i \in 1 .. Len(kd[f]) : g \in Clo(kd, kd[f][i])
    <3> HIDE RamfsAssumption
    <3> QED
      BY <1>1, CloSteps
  <2>2. Clo(kd, f) \in SUBSET Entry
    BY <1>1, CloIs
  <2>3. \A k \in ToSet(en[f].kids) : Clo(kd, k) \in SUBSET Entry
    BY DEF Clo
  <2>4. ASSUME NEW g
        PROVE  g \in UNION {Clo(kd, k) : k \in ToSet(en[f].kids)} <=>
                 g \in Entry /\ \E i \in 1 .. Len(kd[f]) : g \in Clo(kd, kd[f][i])
    <3>1. ASSUME NEW k \in ToSet(en[f].kids), g \in Clo(kd, k)
          PROVE  g \in Entry /\ \E i \in 1 .. Len(kd[f]) : g \in Clo(kd, kd[f][i])
      <4>1. PICK i \in 1 .. Len(kd[f]) : k = kd[f][i]
        BY <1>2
      <4>2. g \in Entry
        BY <2>3, <3>1
      <4> QED
        BY <3>1, <4>1, <4>2
    <3>2. ASSUME NEW i \in 1 .. Len(kd[f]), g \in Clo(kd, kd[f][i])
          PROVE  \E k \in ToSet(en[f].kids) : g \in Clo(kd, k)
      <4>1. kd[f][i] \in ToSet(en[f].kids)
        BY <1>2
      <4> QED
        BY <3>2, <4>1
    <3> QED
      BY <3>1, <3>2
  <2> QED
    BY <2>1, <2>2, <2>4
<1>4. Eq(G)
  <2>1. ASSUME NEW f \in Entry
        PROVE  UNION {G[k] : k \in ToSet(en[f].kids)} = UNION {Clo(kd, k) : k \in ToSet(en[f].kids)}
    <3>1. \A k \in ToSet(en[f].kids) : k \in Entry
      <4> HIDE DEF kd, G
      <4>1. \A i \in 1 .. Len(kd[f]) : kd[f][i] \in Entry
        BY <1>1
      <4>2. ToSet(en[f].kids) = {kd[f][i] : i \in 1 .. Len(kd[f])}
        BY <1>2
      <4> QED
        BY <4>1, <4>2
    <3>2. \A k \in ToSet(en[f].kids) : G[k] = Clo(kd, k)
      BY <3>1
    <3> QED
      BY <3>2
  <2> QED
    BY <1>3, <2>1
<1>5. PICK b : Eq(b) /\ Below(en, e) = b[e]
  <2>1. Below(en, e) = below[e]
    BY DEF Below
  <2>2. Eq(below)
    <3> HIDE DEF Eq, G
    <3> QED
      BY <1>4
  <2> HIDE DEF below
  <2> QED
    BY <2>1, <2>2
<1>6. \A f \in Entry : b[f] = {f} \cup UNION {b[k] : k \in ToSet(en[f].kids)}
  <2>1. b = [f \in Entry |-> {f} \cup UNION {b[k] : k \in ToSet(en[f].kids)}]
    BY <1>5
  <2> QED
    BY <2>1
<1> DEFINE Bad == {f \in Entry : b[f] # Clo(kd, f)}
<1>7. Bad = {}
  <2> SUFFICES ASSUME Bad # {}
               PROVE  FALSE
    OBVIOUS
  <2>1. PICK f \in Bad : \A g \in Bad : Lvl(f) <= Lvl(g)
    <3>1. Bad \in SUBSET Entry
      OBVIOUS
    <3> HIDE DEF Bad
    <3> QED
      BY <1>1, <3>1, Extremes
  <2>2. ASSUME NEW k \in ToSet(en[f].kids)
        PROVE  b[k] = Clo(kd, k)
    <3>0. PICK i \in 1 .. Len(kd[f]) : k = kd[f][i]
      BY <1>2
    <3>1. k \in Entry /\ Lvl(k) < Lvl(f)
      BY <1>1, <3>0, Levels
    <3>2. Lvl(k) \in Nat /\ Lvl(f) \in Nat
      BY <1>1, <3>1, Levels
    <3>3. ~(Lvl(f) <= Lvl(k))
      BY <3>1, <3>2
    <3> QED
      BY <2>1, <3>1, <3>3
  <2>3. UNION {b[k] : k \in ToSet(en[f].kids)} = UNION {Clo(kd, k) : k \in ToSet(en[f].kids)}
    BY <2>2
  <2> QED
    BY <1>3, <1>6, <2>3
<1> QED
  BY <1>5, <1>7 DEF kd

LEMMA FirstOfIs ==
    ASSUME NEW s, NEW n \in Nat, DOMAIN s = 1 .. n, NEW u
    PROVE  \/ FirstOf(s, u) = u /\ \A i \in 1 .. n : s[i] = u
           \/ \E i \in 1 .. n : s[i] # u /\ FirstOf(s, u) = s[i]
<1> DEFINE W == {i \in 1 .. n : s[i] # u}
<1>1. CASE W = {}
  BY <1>1 DEF FirstOf
<1>2. CASE W # {}
  <2>1. W \in SUBSET Nat
    OBVIOUS
  <2>2. \E i \in W : \A j \in W : i <= j
    <3> HIDE DEF W
    <3> QED
      BY <1>2, <2>1, LeastElement
  <2>3. Min(W) \in W
    <3> HIDE DEF W
    <3> QED
      BY <2>2 DEF Min
  <2>4. FirstOf(s, u) = s[Min(W)]
    BY <1>2 DEF FirstOf
  <2> QED
    BY <2>3, <2>4
<1> QED
  BY <1>1, <1>2

\* the search finds a child of that name exactly if there is one
NamedRight(en, e, n) ==
    \/ /\ Named(en, en[e].kids, n) = Null
       /\ \A i \in 1 .. Len(en[e].kids) : en[en[e].kids[i]].name # n
    \/ \E i \in 1 .. Len(en[e].kids) :
         Named(en, en[e].kids, n) = en[e].kids[i] /\ en[en[e].kids[i]].name = n

\* ramfs_find in the children of one entry (ramfs.c:287-294)
LEMMA NamedIs ==
    ASSUME NEW en, NEW r, TreeOf(en, r), NEW e \in Entry, NEW n
    PROVE  NamedRight(en, e, n)
<1> DEFINE s == [i \in DOMAIN en[e].kids |-> IF en[en[e].kids[i]].name = n THEN en[e].kids[i] ELSE Null]
<1>1. /\ Len(en[e].kids) \in Nat /\ DOMAIN en[e].kids = 1 .. Len(en[e].kids)
      /\ \A i \in 1 .. Len(en[e].kids) : en[e].kids[i] \in Entry
  BY TreeOfIs
<1>2. DOMAIN s = 1 .. Len(en[e].kids)
  BY <1>1
<1>3. \A i \in 1 .. Len(en[e].kids) :
        s[i] = IF en[en[e].kids[i]].name = n THEN en[e].kids[i] ELSE Null
  BY <1>1
<1>4. Named(en, en[e].kids, n) = FirstOf(s, Null)
  BY DEF Named
<1> HIDE DEF s
<1>5. \/ FirstOf(s, Null) = Null /\ \A i \in 1 .. Len(en[e].kids) : s[i] = Null
      \/ \E i \in 1 .. Len(en[e].kids) : s[i] # Null /\ FirstOf(s, Null) = s[i]
  <2>1. PICK m \in Nat : m = Len(en[e].kids)
    BY <1>1
  <2>2. DOMAIN s = 1 .. m
    BY <1>2, <2>1
  <2>3. \/ FirstOf(s, Null) = Null /\ \A i \in 1 .. m : s[i] = Null
        \/ \E i \in 1 .. m : s[i] # Null /\ FirstOf(s, Null) = s[i]
    BY <2>2, FirstOfIs
  <2> QED
    BY <2>1, <2>3
<1> QED
  BY <1>1, <1>3, <1>4, <1>5 DEF NamedRight

\* what the search of FindIn returns at e, if it returns s below
Searched(en, n, s, e) ==
    IF en[e].name = n THEN e
    ELSE IF ~en[e].ready THEN Wild
    ELSE IF Named(en, en[e].kids, n) # Null THEN Named(en, en[e].kids, n)
    ELSE FirstOf([i \in DOMAIN en[e].kids |-> s[en[e].kids[i]]], Null)

LEMMA SearchedBelow ==
    ASSUME NEW en, NEW n, NEW e, NEW s, NEW q, \A i \in DOMAIN en[e].kids : s[en[e].kids[i]] = q[en[e].kids[i]]
    PROVE  Searched(en, n, s, e) = Searched(en, n, q, e)
<1>1. [i \in DOMAIN en[e].kids |-> s[en[e].kids[i]]] = [i \in DOMAIN en[e].kids |-> q[en[e].kids[i]]]
  OBVIOUS
<1> QED
  BY <1>1 DEF Searched

\* The recursive search has a solution.
LEMMA SearchDefined ==
    ASSUME NEW en, NEW r, TreeOf(en, r), NEW n
    PROVE  \E s : s = [e \in Entry |-> Searched(en, n, s, e)]
<1> DEFINE To(l, s) == \A e \in Entry : Lvl(e) <= l => s[e] = Searched(en, n, s, e)
           Bad == {l \in 0 .. MaxEntries : ~\E D : \E s \in [Entry -> D] : To(l, s)}
<1>1. /\ \A e \in Entry : Lvl(e) \in Nat /\ Lvl(e) <= MaxEntries
      /\ \A e \in Entry : \A i \in DOMAIN en[e].kids :
           en[e].kids[i] \in Entry /\ Lvl(en[e].kids[i]) < Lvl(e)
  <2>1. /\ \A e \in Entry : Lvl(e) \in Nat /\ Lvl(e) <= MaxEntries
        /\ \A e \in Entry : \A i \in 1 .. Len(KD(en)[e]) :
             Lvl(KD(en)[e][i]) < Lvl(e)
    BY Levels DEF TreeOf
  <2>2. ASSUME NEW e \in Entry, NEW i \in DOMAIN en[e].kids
        PROVE  en[e].kids[i] \in Entry /\ Lvl(en[e].kids[i]) < Lvl(e)
    <3>1. /\ KD(en)[e] = en[e].kids /\ DOMAIN en[e].kids = 1 .. Len(en[e].kids)
          /\ \A j \in 1 .. Len(en[e].kids) : en[e].kids[j] \in Entry
      BY TreeOfIs
    <3> QED
      BY <2>1, <3>1
  <2> QED
    BY <2>1, <2>2
<1>2. Bad = {}
  <2> SUFFICES ASSUME Bad # {}
               PROVE  FALSE
    OBVIOUS
  <2>1. PICK l \in Bad : \A k \in Bad : l <= k
    <3>1. Bad \in SUBSET Nat
      OBVIOUS
    <3> HIDE DEF Bad
    <3> QED
      BY <3>1, LeastElement
  <2>0. l \in Nat
    OBVIOUS
  <2>2. PICK C : \E s \in [Entry -> C] : \A e \in Entry : Lvl(e) < l => s[e] = Searched(en, n, s, e)
    <3>1. CASE l = 0
      <4>1. [e \in Entry |-> e] \in [Entry -> Entry]
        OBVIOUS
      <4>2. \A e \in Entry : ~(Lvl(e) < l)
        BY <1>1, <3>1
      <4> QED
        BY <4>1, <4>2
    <3>2. CASE l # 0
      <4>1. l - 1 \in 0 .. MaxEntries /\ ~(l <= l - 1) /\ l \in Nat
        BY <3>2
      <4>2. l - 1 \notin Bad
        BY <2>1, <4>1
      <4>3. \E D : \E s \in [Entry -> D] : To(l - 1, s)
        BY <4>1, <4>2
      <4>4. ASSUME NEW e \in Entry, Lvl(e) < l
            PROVE  Lvl(e) <= l - 1
        <5>1. Lvl(e) \in Nat
          BY <1>1
        <5> QED
          BY <4>1, <4>4, <5>1
      <4> QED
        BY <4>3, <4>4
    <3> QED
      BY <3>1, <3>2
  <2>3. PICK s \in [Entry -> C] : \A e \in Entry : Lvl(e) < l => s[e] = Searched(en, n, s, e)
    BY <2>2
  <2> DEFINE q == [e \in Entry |-> Searched(en, n, s, e)]
             D == {Searched(en, n, s, e) : e \in Entry}
  <2>4. q \in [Entry -> D]
    OBVIOUS
  <2>5. ASSUME NEW e \in Entry, Lvl(e) <= l
        PROVE  q[e] = Searched(en, n, q, e)
    <3>1. ASSUME NEW i \in DOMAIN en[e].kids
          PROVE  s[en[e].kids[i]] = q[en[e].kids[i]]
      <4>1. en[e].kids[i] \in Entry /\ Lvl(en[e].kids[i]) < Lvl(e)
        BY <1>1
      <4>2. Lvl(en[e].kids[i]) \in Nat /\ Lvl(e) \in Nat
        BY <1>1, <4>1
      <4>3. Lvl(en[e].kids[i]) < l
        BY <2>0, <2>5, <4>1, <4>2
      <4> QED
        BY <2>3, <4>1, <4>3
    <3>2. Searched(en, n, s, e) = Searched(en, n, q, e)
      <4> HIDE DEF q
      <4> QED
        BY <3>1, SearchedBelow
    <3> QED
      BY <3>2
  <2>6. l \notin Bad
    <3> HIDE DEF q, D
    <3> QED
      BY <2>4, <2>5
  <2> QED
    BY <2>1, <2>6
<1>3. PICK l : l = MaxEntries
  OBVIOUS
<1>4. PICK D : \E s \in [Entry -> D] : To(MaxEntries, s)
  <2>1. l \in 0 .. MaxEntries
    BY <1>3
  <2> HIDE DEF To
  <2> QED
    BY <1>2, <1>3, <2>1
<1>5. PICK s \in [Entry -> D] : To(MaxEntries, s)
  BY <1>4
<1>6. \A e \in Entry : Lvl(e) <= MaxEntries
  BY <1>1
<1>7. \A e \in Entry : s[e] = Searched(en, n, s, e)
  BY <1>5, <1>6
<1>8. s = [e \in Entry |-> Searched(en, n, s, e)]
  BY <1>7
<1> QED
  BY <1>8

\* What ramfs_find returns is nothing, wild, or a file of that name; if everything in the
\* tree is ready it is the file of that name exactly if there is one (ramfs.c:281-313).
LEMMA FindIs ==
    ASSUME NEW en, NEW r \in Entry, TreeOf(en, r), NEW n
    PROVE  LET f == FindIn(r, en, n)
               T == Clo(KD(en), r)
           IN  /\ f \in {Null, Wild} \/ (f \in T /\ en[f].name = n)
               /\ (\A e \in T : en[e].ready) =>
                    \/ f \in T /\ en[f].name = n
                    \/ f = Null /\ \A e \in T : en[e].name # n
<1> DEFINE Eq(s) == s = [e \in Entry |-> Searched(en, n, s, e)]
           search == CHOOSE s : Eq(s)
           kd == KD(en)
<1>1. PICK s : Eq(s) /\ FindIn(r, en, n) = s[r]
  <2>1. FindIn(r, en, n) = search[r]
    BY DEF FindIn, Searched
  <2>2. Eq(search)
    <3>1. \E s : Eq(s)
      BY SearchDefined
    <3> HIDE DEF Eq
    <3> QED
      BY <3>1
  <2> HIDE DEF search
  <2> QED
    BY <2>1, <2>2
<1>2. \A e \in Entry : s[e] = Searched(en, n, s, e)
  BY <1>1
<1>3. /\ kd \in [Entry -> Seq(Entry)] /\ Tree(NM(en), kd, r)
      /\ \A e \in Entry : kd[e] = en[e].kids
      /\ \A e \in Entry : Len(kd[e]) \in Nat /\ DOMAIN kd[e] = 1 .. Len(kd[e])
      /\ \A e \in Entry : \A i \in 1 .. Len(kd[e]) : kd[e][i] \in Entry
  BY TreeOfIs DEF TreeOf
<1> HIDE DEF kd
<1>4. /\ \A e \in Entry : Lvl(e) \in Nat
      /\ \A e \in Entry : \A i \in 1 .. Len(kd[e]) : Lvl(kd[e][i]) < Lvl(e)
  <2>1. /\ \A e \in Entry : Lvl(e) \in Nat /\ Lvl(e) <= MaxEntries
        /\ \A e \in Entry : \A i \in 1 .. Len(kd[e]) : Lvl(kd[e][i]) < Lvl(e)
    BY <1>3, Levels
  <2> QED
    BY <2>1
<1> DEFINE Right(e) ==
             /\ s[e] \in {Null, Wild} \/ (s[e] \in Clo(kd, e) /\ en[s[e]].name = n)
             /\ (\A f \in Clo(kd, e) : en[f].ready) =>
                  \/ s[e] \in Clo(kd, e) /\ en[s[e]].name = n
                  \/ s[e] = Null /\ \A f \in Clo(kd, e) : en[f].name # n
<1>5. ASSUME NEW e \in Entry, \A i \in 1 .. Len(kd[e]) : Right(kd[e][i])
      PROVE  Right(e)
  <2>1. /\ e \in Clo(kd, e) /\ Clo(kd, e) \in SUBSET Entry
        /\ \A f \in Entry : f \in Clo(kd, e) <=>
             f = e \/ \E i \in 1 .. Len(kd[e]) : f \in Clo(kd, kd[e][i])
    <3>0. kd \in [Entry -> Seq(Entry)]
      BY <1>3
    <3>1. e \in Clo(kd, e) /\ Clo(kd, e) \in SUBSET Entry
      BY <3>0, CloIs
    <3>2. \A f \in Entry : f \in Clo(kd, e) <=>
            f = e \/ \E i \in 1 .. Len(kd[e]) : f \in Clo(kd, kd[e][i])
      BY <3>0, CloSteps
    <3> QED
      BY <3>1, <3>2
  <2>2. \A i \in 1 .. Len(kd[e]) : Clo(kd, kd[e][i]) \subseteq Clo(kd, e)
    BY <2>1 DEF Clo
  <2>3. \A i \in 1 .. Len(kd[e]) : kd[e][i] \in Clo(kd, e)
    <3>1. ASSUME NEW i \in 1 .. Len(kd[e])
          PROVE  kd[e][i] \in Clo(kd, kd[e][i])
      <4>1. PICK f \in Entry : f = kd[e][i]
        BY <1>3, KidsAre
      <4>2. f \in Clo(kd, f)
        BY <1>3, CloIs
      <4> QED
        BY <4>1, <4>2
    <3> QED
      BY <2>2, <3>1
  <2>4. CASE en[e].name = n
    <3>1. s[e] = e
      BY <1>2, <2>4 DEF Searched
    <3> QED
      BY <2>1, <2>4, <3>1
  <2>5. CASE en[e].name # n /\ ~en[e].ready
    <3>1. s[e] = Wild
      BY <1>2, <2>5 DEF Searched
    <3> QED
      BY <2>1, <2>5, <3>1
  <2>6. CASE en[e].name # n /\ en[e].ready /\ Named(en, en[e].kids, n) # Null
    <3>1. s[e] = Named(en, en[e].kids, n)
      BY <1>2, <2>6 DEF Searched
    <3>2. \E i \in 1 .. Len(en[e].kids) :
            Named(en, en[e].kids, n) = en[e].kids[i] /\ en[en[e].kids[i]].name = n
      <4>1. NamedRight(en, e, n)
        BY NamedIs
      <4> QED
        BY <2>6, <4>1 DEF NamedRight
    <3>3. PICK i \in 1 .. Len(kd[e]) : s[e] = kd[e][i] /\ en[kd[e][i]].name = n
      BY <1>3, <3>1, <3>2
    <3> QED
      BY <2>3, <3>3
  <2>7. CASE en[e].name # n /\ en[e].ready /\ Named(en, en[e].kids, n) = Null
    <3> DEFINE q == [i \in DOMAIN en[e].kids |-> s[en[e].kids[i]]]
    <3>1. s[e] = FirstOf(q, Null)
      BY <1>2, <2>7 DEF Searched
    <3>2. DOMAIN q = 1 .. Len(kd[e]) /\ \A i \in 1 .. Len(kd[e]) : q[i] = s[kd[e][i]]
      BY <1>3
    <3> HIDE DEF q
    <3>3. \/ FirstOf(q, Null) = Null /\ \A i \in 1 .. Len(kd[e]) : q[i] = Null
          \/ \E i \in 1 .. Len(kd[e]) : q[i] # Null /\ FirstOf(q, Null) = q[i]
      <4>1. Len(kd[e]) \in Nat
        BY <1>3
      <4> HIDE RamfsAssumption
      <4> QED
        BY <3>2, <4>1, FirstOfIs
    <3>4. CASE s[e] = Null /\ \A i \in 1 .. Len(kd[e]) : s[kd[e][i]] = Null
      <4> SUFFICES ASSUME \A f \in Clo(kd, e) : en[f].ready, NEW f \in Clo(kd, e), en[f].name = n
                   PROVE  FALSE
        BY <3>4
      <4>1. PICK i \in 1 .. Len(kd[e]) : f \in Clo(kd, kd[e][i])
        BY <2>1, <2>7
      <4>2. s[kd[e][i]] \notin Clo(kd, kd[e][i])
        BY <3>4 DEF Clo
      <4>3. \A g \in Clo(kd, kd[e][i]) : en[g].ready
        BY <2>2
      <4> QED
        BY <1>5, <4>1, <4>2, <4>3
    <3>5. CASE \E i \in 1 .. Len(kd[e]) : s[kd[e][i]] # Null /\ s[e] = s[kd[e][i]]
      <4>1. PICK i \in 1 .. Len(kd[e]) : s[kd[e][i]] # Null /\ s[e] = s[kd[e][i]]
        BY <3>5
      <4>2. Right(kd[e][i])
        BY <1>5
      <4>3. Clo(kd, kd[e][i]) \subseteq Clo(kd, e)
        BY <2>2
      <4> QED
        BY <4>1, <4>2, <4>3
    <3> QED
      BY <3>1, <3>2, <3>3, <3>4, <3>5
  <2> QED
    BY <2>4, <2>5, <2>6, <2>7
<1> DEFINE Bad == {e \in Entry : ~Right(e)}
<1>6. Bad = {}
  <2> SUFFICES ASSUME Bad # {}
               PROVE  FALSE
    OBVIOUS
  <2>1. PICK e \in Bad : \A f \in Bad : Lvl(e) <= Lvl(f)
    <3>1. Bad \in SUBSET Entry
      OBVIOUS
    <3> HIDE DEF Bad
    <3> QED
      BY <1>3, <3>1, Extremes
  <2> HIDE DEF Right
  <2>2. ASSUME NEW i \in 1 .. Len(kd[e])
        PROVE  Right(kd[e][i])
    <3>1. kd[e][i] \in Entry /\ Lvl(kd[e][i]) < Lvl(e)
      BY <1>3, <1>4
    <3>2. Lvl(kd[e][i]) \in Nat /\ Lvl(e) \in Nat
      BY <1>4, <3>1
    <3>3. ~(Lvl(e) <= Lvl(kd[e][i]))
      BY <3>1, <3>2
    <3> QED
      BY <2>1, <3>1, <3>3
  <2> QED
    BY <1>5, <2>2
<1>7. Right(r)
  <2> HIDE DEF Right
  <2> QED
    BY <1>6
<1> QED
  BY <1>1, <1>7 DEF kd

-----------------------------------------------------------------------------
(***************************************************************************)
(* What a call does to the tree.                                           *)
(***************************************************************************)

LEMMA TreeFacts ==
    ASSUME NEW nm, NEW kd, NEW r, Tree(nm, kd, r)
    PROVE  /\ kd \in [Entry -> Seq(Entry)] /\ nm \in [Entry -> Name \cup {NoName}]
           /\ \A f \in Entry : Len(kd[f]) \in Nat
           /\ \A f \in Entry : \A i \in 1 .. Len(kd[f]) :
                /\ kd[f][i] \in Entry /\ nm[f] \in Name /\ nm[kd[f][i]] \in Name
                /\ DirOf(nm[kd[f][i]]) = nm[f] /\ kd[f][i] # r /\ f < kd[f][i]
           /\ \A f \in Entry : nm[f] = NoName => kd[f] = <<>> /\ f # r
           /\ \A f \in Entry : nm[f] \in Name => r \in Entry
<1>1. kd \in [Entry -> Seq(Entry)] /\ nm \in [Entry -> Name \cup {NoName}]
  BY DEF Tree
<1>2. \A f \in Entry : Len(kd[f]) \in Nat /\ \A i \in 1 .. Len(kd[f]) : kd[f][i] \in Entry
  BY <1>1, KidsAre
<1>3. \A f \in Entry : \A i \in 1 .. Len(kd[f]) :
        /\ nm[f] \in Name /\ nm[kd[f][i]] \in Name
        /\ DirOf(nm[kd[f][i]]) = nm[f] /\ kd[f][i] # r /\ f < kd[f][i]
  BY DEF Tree
<1>4. ASSUME NEW f \in Entry, nm[f] = NoName
      PROVE  kd[f] = <<>> /\ f # r
  <2>1. PICK s : s = kd[f]
    OBVIOUS
  <2>2. s \in Seq(Entry) /\ Len(s) \in Nat /\ ~(1 \in 1 .. Len(s))
    BY <1>1, <1>2, <1>3, <1>4, <2>1
  <2>3. Len(s) = 0
    BY <2>2
  <2>4. s = <<>>
    BY <2>2, <2>3, EmptySeq
  <2>5. f # r
    BY <1>4 DEF Tree
  <2> QED
    BY <2>1, <2>4, <2>5
<1>5. \A f \in Entry : nm[f] \in Name => r \in Entry
  BY DEF Tree
<1> QED
  BY <1>1, <1>2, <1>3, <1>4, <1>5

\* e is the first entry that is not in use
Next(nm, e) == nm[e] = NoName /\ \A f \in Entry : nm[f] = NoName => e <= f

\* What is in use stays in order when the next entry is taken.
LEMMA InOrder ==
    ASSUME NEW nm \in [Entry -> Name \cup {NoName}], NEW e \in Entry, Next(nm, e), NEW n \in Name,
           NEW mm, mm = [nm EXCEPT ![e] = n],
           Packed(nm)
    PROVE  /\ Packed(mm)
           /\ \A f \in Entry : nm[f] # NoName => f < e
<1>1. mm[e] = n /\ n # NoName /\ \A f \in Entry : f # e => mm[f] = nm[f]
  OBVIOUS
<1>2. \A f, g \in Entry : (f < g \/ g < f \/ f = g) /\ ~(f < g /\ g <= f)
  BY DEF Entry
<1>3. ASSUME NEW f \in Entry, NEW g \in Entry, mm[g] # NoName, f < g
      PROVE  mm[f] # NoName
  <2>1. CASE f = e
    BY <1>1, <2>1
  <2>2. CASE f # e /\ g = e
    BY <1>1, <1>2, <1>3, <2>2 DEF Next
  <2>3. CASE f # e /\ g # e
    BY <1>1, <1>3, <2>3 DEF Packed
  <2> QED
    BY <2>1, <2>2, <2>3
<1>4. ASSUME NEW f \in Entry, nm[f] # NoName
      PROVE  f < e
  BY <1>2, <1>4 DEF Next, Packed
<1>5. Packed(mm)
  BY <1>3 DEF Packed
<1> QED
  BY <1>4, <1>5

\* An entry becomes the root, in place of another one perhaps.
LEMMA RootTree ==
    ASSUME NEW nm, NEW kd, NEW r, Tree(nm, kd, r), NEW e \in Entry, Next(nm, e), NEW n \in Name
    PROVE  Tree([nm EXCEPT ![e] = n], kd, e)
<1> DEFINE mm == [nm EXCEPT ![e] = n]
<1>1. /\ kd \in [Entry -> Seq(Entry)] /\ nm \in [Entry -> Name \cup {NoName}]
      /\ \A f \in Entry : \A i \in 1 .. Len(kd[f]) :
           /\ kd[f][i] \in Entry /\ nm[f] \in Name /\ nm[kd[f][i]] \in Name
           /\ DirOf(nm[kd[f][i]]) = nm[f] /\ f < kd[f][i]
  BY TreeFacts
<1>2. /\ Packed(nm)
      /\ \A f \in Entry : \A i, j \in 1 .. Len(kd[f]) : nm[kd[f][i]] = nm[kd[f][j]] => i = j
      /\ \A f, g \in Entry : \A i \in 1 .. Len(kd[f]) : \A j \in 1 .. Len(kd[g]) :
           kd[f][i] = kd[g][j] => f = g
  BY DEF Tree
<1>3. Packed(mm)
  <2>1. mm = [nm EXCEPT ![e] = n]
    OBVIOUS
  <2> HIDE DEF mm
  <2> QED
    BY <1>1, <1>2, <2>1, InOrder
<1>4. /\ mm \in [Entry -> Name \cup {NoName}] /\ mm[e] \in Name
      /\ \A f \in Entry : f # e => mm[f] = nm[f]
  BY <1>1
<1> HIDE DEF mm
<1>5. ASSUME NEW f \in Entry, NEW i \in 1 .. Len(kd[f])
      PROVE  kd[f][i] # e /\ mm[kd[f][i]] = nm[kd[f][i]] /\ mm[f] = nm[f]
  <2>1. kd[f][i] \in Entry /\ nm[kd[f][i]] # NoName /\ nm[f] # NoName
    BY <1>1
  <2> QED
    BY <1>4, <2>1 DEF Next
<1>6. ASSUME NEW f \in Entry, NEW i \in 1 .. Len(kd[f])
      PROVE  /\ mm[f] \in Name /\ mm[kd[f][i]] \in Name
             /\ DirOf(mm[kd[f][i]]) = mm[f] /\ kd[f][i] # e /\ f < kd[f][i]
  BY <1>1, <1>5
<1>7. \A f \in Entry : \A i, j \in 1 .. Len(kd[f]) : mm[kd[f][i]] = mm[kd[f][j]] => i = j
  BY <1>2, <1>5
<1>8. Tree(mm, kd, e)
  BY <1>1, <1>2, <1>3, <1>4, <1>6, <1>7 DEF Tree
<1> QED
  BY <1>8 DEF mm

\* A file comes into its directory, where nothing has its name.
LEMMA LinkTree ==
    ASSUME NEW nm, NEW kd, NEW r, Tree(nm, kd, r), NEW e \in Entry, Next(nm, e),
           NEW p \in Entry, nm[p] \in Name, NEW n \in Name, DirOf(n) = nm[p],
           \A i \in 1 .. Len(kd[p]) : nm[kd[p][i]] # n
    PROVE  Tree([nm EXCEPT ![e] = n], [kd EXCEPT ![p] = Append(kd[p], e)], r)
<1> DEFINE mm == [nm EXCEPT ![e] = n]
           kk == [kd EXCEPT ![p] = Append(kd[p], e)]
           l == Len(kd[p])
<1>1. /\ kd \in [Entry -> Seq(Entry)] /\ nm \in [Entry -> Name \cup {NoName}]
      /\ \A f \in Entry : Len(kd[f]) \in Nat
      /\ \A f \in Entry : \A i \in 1 .. Len(kd[f]) :
           /\ kd[f][i] \in Entry /\ nm[f] \in Name /\ nm[kd[f][i]] \in Name
           /\ DirOf(nm[kd[f][i]]) = nm[f] /\ kd[f][i] # r /\ f < kd[f][i]
      /\ nm[e] = NoName /\ r \in Entry /\ e # r
  BY TreeFacts DEF Next
<1>2. /\ \A f \in Entry : \A i, j \in 1 .. Len(kd[f]) : nm[kd[f][i]] = nm[kd[f][j]] => i = j
      /\ \A f, g \in Entry : \A i \in 1 .. Len(kd[f]) : \A j \in 1 .. Len(kd[g]) :
           kd[f][i] = kd[g][j] => f = g
      /\ Packed(nm)
  BY DEF Tree
<1>3. nm[r] \in Name /\ e # p
  BY <1>1 DEF Tree
<1>14. Packed(mm) /\ p < e
  <2>1. mm = [nm EXCEPT ![e] = n] /\ nm[p] # NoName
    OBVIOUS
  <2> HIDE DEF mm
  <2> QED
    BY <1>1, <1>2, <2>1, InOrder
<1>4. /\ mm \in [Entry -> Name \cup {NoName}]
      /\ \A f \in Entry : f # e => mm[f] = nm[f]
      /\ mm[e] = n
  BY <1>1
<1>5. /\ Append(kd[p], e) \in Seq(Entry) /\ Len(Append(kd[p], e)) = l + 1
      /\ \A i \in 1 .. l : Append(kd[p], e)[i] = kd[p][i]
      /\ Append(kd[p], e)[l + 1] = e
  <2>1. PICK s \in Seq(Entry) : s = kd[p]
    BY <1>1
  <2>2. /\ Append(s, e) \in Seq(Entry) /\ Len(Append(s, e)) = Len(s) + 1
        /\ \A i \in 1 .. Len(s) : Append(s, e)[i] = s[i]
        /\ Append(s, e)[Len(s) + 1] = e
    BY AppendProperties
  <2> QED
    BY <2>1, <2>2
<1>6. /\ kk \in [Entry -> Seq(Entry)]
      /\ \A f \in Entry : f # p => kk[f] = kd[f]
      /\ Len(kk[p]) = l + 1 /\ l \in Nat
      /\ \A i \in 1 .. l : kk[p][i] = kd[p][i]
      /\ kk[p][l + 1] = e
  BY <1>1, <1>5
<1> HIDE DEF mm, kk, l
<1>7. ASSUME NEW f \in Entry, NEW i \in 1 .. Len(kd[f])
      PROVE  kd[f][i] # e /\ f # e /\ mm[kd[f][i]] = nm[kd[f][i]] /\ mm[f] = nm[f]
  <2>1. kd[f][i] # e /\ f # e
    BY <1>1
  <2> QED
    BY <1>1, <1>4, <2>1
<1>8. ASSUME NEW f \in Entry, NEW i \in 1 .. Len(kk[f])
      PROVE  (i \in 1 .. Len(kd[f]) /\ kk[f][i] = kd[f][i])
             \/ (f = p /\ i = l + 1 /\ kk[f][i] = e)
  <2>1. CASE f # p
    BY <1>6, <2>1
  <2>2. CASE f = p
    <3>1. i \in 1 .. l \/ i = l + 1
      BY <1>6, <2>2
    <3>2. l = Len(kd[f])
      BY <2>2 DEF l
    <3> QED
      BY <1>6, <2>2, <3>1, <3>2
  <2> QED
    BY <2>1, <2>2
<1>9. ASSUME NEW f \in Entry, NEW i \in 1 .. Len(kk[f])
      PROVE  /\ mm[f] \in Name /\ mm[kk[f][i]] \in Name
             /\ DirOf(mm[kk[f][i]]) = mm[f] /\ kk[f][i] # r /\ f < kk[f][i]
  <2>1. CASE i \in 1 .. Len(kd[f]) /\ kk[f][i] = kd[f][i]
    <3>1. /\ nm[f] \in Name /\ nm[kd[f][i]] \in Name
          /\ DirOf(nm[kd[f][i]]) = nm[f] /\ kd[f][i] # r /\ f < kd[f][i]
      BY <1>1, <2>1
    <3>2. mm[kd[f][i]] = nm[kd[f][i]] /\ mm[f] = nm[f]
      BY <1>7, <2>1
    <3> QED
      BY <2>1, <3>1, <3>2
  <2>2. CASE f = p /\ i = l + 1 /\ kk[f][i] = e
    BY <1>1, <1>3, <1>4, <1>14, <2>2
  <2> QED
    BY <1>8, <2>1, <2>2
<1>10. ASSUME NEW f \in Entry, NEW i \in 1 .. Len(kk[f]), NEW j \in 1 .. Len(kk[f]),
              mm[kk[f][i]] = mm[kk[f][j]]
       PROVE  i = j
  <2> DEFINE Old(k) == k \in 1 .. Len(kd[f]) /\ kk[f][k] = kd[f][k]
             New(k) == f = p /\ k = l + 1 /\ kk[f][k] = e
  <2>1. (Old(i) \/ New(i)) /\ (Old(j) \/ New(j))
    BY <1>8
  <2>2. CASE Old(i) /\ Old(j)
    <3>1. mm[kd[f][i]] = nm[kd[f][i]] /\ mm[kd[f][j]] = nm[kd[f][j]]
      BY <1>7, <2>2
    <3>2. nm[kd[f][i]] = nm[kd[f][j]]
      BY <1>10, <2>2, <3>1
    <3> QED
      BY <1>2, <2>2, <3>2
  <2>3. ASSUME NEW k, Old(k), f = p
        PROVE  mm[kk[f][k]] # n
    <3>1. mm[kd[f][k]] = nm[kd[f][k]] /\ nm[kd[f][k]] # n
      BY <1>7, <2>3
    <3> QED
      BY <2>3, <3>1
  <2>4. \A k : New(k) => f = p /\ k = l + 1 /\ mm[kk[f][k]] = n
    BY <1>4
  <2> HIDE DEF Old, New
  <2> QED
    BY <1>10, <2>1, <2>2, <2>3, <2>4
<1>11. mm[r] \in Name
  BY <1>1, <1>3, <1>4
<1>13. ASSUME NEW f \in Entry, NEW g \in Entry, NEW i \in 1 .. Len(kk[f]), NEW j \in 1 .. Len(kk[g]),
              kk[f][i] = kk[g][j]
       PROVE  f = g
  <2> DEFINE Old(h, k) == k \in 1 .. Len(kd[h]) /\ kk[h][k] = kd[h][k]
             New(h, k) == h = p /\ k = l + 1 /\ kk[h][k] = e
  <2>1. (Old(f, i) \/ New(f, i)) /\ (Old(g, j) \/ New(g, j))
    BY <1>8
  <2>2. \A h \in Entry : \A k : Old(h, k) => kk[h][k] # e
    BY <1>7
  <2>3. Old(f, i) /\ Old(g, j) => f = g
    BY <1>2, <1>13
  <2>4. \A h, k : New(h, k) => h = p /\ kk[h][k] = e
    OBVIOUS
  <2> HIDE DEF Old, New
  <2> QED
    BY <1>13, <2>1, <2>2, <2>3, <2>4
<1>12. Tree(mm, kk, r)
  BY <1>1, <1>4, <1>6, <1>9, <1>10, <1>11, <1>13, <1>14 DEF Tree
<1> QED
  BY <1>12 DEF mm, kk

\* Children at the end of a list are cut off.
LEMMA CutTree ==
    ASSUME NEW nm, NEW kd, NEW r, Tree(nm, kd, r), NEW p \in Entry, NEW q \in Seq(Entry),
           Len(q) <= Len(kd[p]), \A i \in 1 .. Len(q) : q[i] = kd[p][i]
    PROVE  Tree(nm, [kd EXCEPT ![p] = q], r)
<1> DEFINE kk == [kd EXCEPT ![p] = q]
<1>1. /\ kd \in [Entry -> Seq(Entry)]
      /\ \A f \in Entry : Len(kd[f]) \in Nat
  BY TreeFacts
<1>2. /\ kk \in [Entry -> Seq(Entry)]
      /\ \A f \in Entry : f # p => kk[f] = kd[f]
      /\ kk[p] = q /\ Len(q) \in Nat
  BY <1>1
<1> HIDE DEF kk
<1>3. ASSUME NEW f \in Entry, NEW i \in 1 .. Len(kk[f])
      PROVE  i \in 1 .. Len(kd[f]) /\ kk[f][i] = kd[f][i]
  <2>1. CASE f = p
    <3>1. Len(kd[p]) \in Nat /\ i \in 1 .. Len(q)
      BY <1>1, <1>2, <2>1
    <3>2. i \in 1 .. Len(kd[p]) /\ q[i] = kd[p][i]
      BY <1>2, <3>1
    <3> QED
      BY <1>2, <2>1, <3>2
  <2>2. CASE f # p
    BY <1>2, <2>2
  <2> QED
    BY <2>1, <2>2
<1>4. Tree(nm, kk, r)
  <2>1. ASSUME NEW f \in Entry, NEW i \in 1 .. Len(kk[f])
        PROVE  /\ nm[f] \in Name /\ nm[kk[f][i]] \in Name
               /\ DirOf(nm[kk[f][i]]) = nm[f] /\ kk[f][i] # r /\ f < kk[f][i]
    <3>1. i \in 1 .. Len(kd[f]) /\ kk[f][i] = kd[f][i]
      BY <1>3
    <3>2. /\ nm[f] \in Name /\ nm[kd[f][i]] \in Name
          /\ DirOf(nm[kd[f][i]]) = nm[f] /\ kd[f][i] # r /\ f < kd[f][i]
      BY <3>1 DEF Tree
    <3> QED
      BY <3>1, <3>2
  <2>2. ASSUME NEW f \in Entry, NEW i \in 1 .. Len(kk[f]), NEW j \in 1 .. Len(kk[f]),
               nm[kk[f][i]] = nm[kk[f][j]]
        PROVE  i = j
    <3>1. \A k, m \in 1 .. Len(kd[f]) : nm[kd[f][k]] = nm[kd[f][m]] => k = m
      BY DEF Tree
    <3>2. /\ i \in 1 .. Len(kd[f]) /\ kk[f][i] = kd[f][i]
          /\ j \in 1 .. Len(kd[f]) /\ kk[f][j] = kd[f][j]
      BY <1>3
    <3> QED
      BY <2>2, <3>1, <3>2
  <2>3. ASSUME NEW f \in Entry, NEW g \in Entry,
               NEW i \in 1 .. Len(kk[f]), NEW j \in 1 .. Len(kk[g]), kk[f][i] = kk[g][j]
        PROVE  f = g
    <3>1. i \in 1 .. Len(kd[f]) /\ kd[f][i] = kd[g][j] /\ j \in 1 .. Len(kd[g])
      BY <1>3, <2>3
    <3> QED
      BY <3>1 DEF Tree
  <2> QED
    BY <1>2, <2>1, <2>2, <2>3 DEF Tree
<1> QED
  BY <1>4 DEF kk

\* fentry_create ends a list at the entry it has made (ramfs.c:64-68).
LEMMA UpToIs ==
    ASSUME NEW s \in Seq(Entry), NEW e
    PROVE  /\ UpTo(s, e) \in Seq(Entry) /\ Len(UpTo(s, e)) <= Len(s)
           /\ \A i \in 1 .. Len(UpTo(s, e)) : UpTo(s, e)[i] = s[i]
           /\ (\A i, j \in 1 .. Len(s) : s[i] = s[j] => i = j) /\ s # <<>> /\ s[Len(s)] = e
              => UpTo(s, e) = s
<1>1. Len(s) \in Nat /\ DOMAIN s = 1 .. Len(s)
  OBVIOUS
<1>2. CASE e \notin ToSet(s)
  <2>1. UpTo(s, e) = s
    BY <1>2 DEF UpTo
  <2> QED
    BY <1>1, <2>1
<1>3. CASE e \in ToSet(s)
  <2>1. PICK k \in 1 .. Len(s) : s[k] = e /\ UpTo(s, e) = SubSeq(s, 1, k)
    <3>1. \E i \in DOMAIN s : s[i] = e
      BY <1>3 DEF ToSet
    <3>2. UpTo(s, e) = SubSeq(s, 1, CHOOSE i \in DOMAIN s : s[i] = e)
      BY <1>3 DEF UpTo
    <3> QED
      BY <1>1, <3>1, <3>2
  <2>2. /\ SubSeq(s, 1, k) \in Seq(Entry) /\ Len(SubSeq(s, 1, k)) = k
        /\ \A i \in 1 .. k : SubSeq(s, 1, k)[i] = s[i]
    BY <1>1
  <2>3. k = Len(s) => SubSeq(s, 1, k) = s
    BY <1>1
  <2> QED
    <3>1. PICK u : u = UpTo(s, e)
      OBVIOUS
    <3>2. /\ u \in Seq(Entry) /\ Len(u) = k /\ k <= Len(s)
          /\ \A i \in 1 .. Len(u) : u[i] = s[i]
      BY <1>1, <2>1, <2>2, <3>1
    <3>3. ASSUME \A i, j \in 1 .. Len(s) : s[i] = s[j] => i = j, s # <<>>, s[Len(s)] = e
          PROVE  u = s
      <4>1. Len(s) \in 1 .. Len(s)
        BY <1>1
      <4>2. k = Len(s)
        BY <2>1, <3>3, <4>1
      <4> QED
        BY <2>1, <2>3, <3>1, <4>2
    <3> QED
      BY <3>1, <3>2, <3>3
<1> QED
  BY <1>2, <1>3

\* fields of an entry are written
LEMMA FieldsAre ==
    ASSUME NEW x \in Fields
    PROVE  /\ \A k \in Seq(Entry) : [x EXCEPT !.kids = k] \in Fields
           /\ \A o \in Thread \cup {Null} : [x EXCEPT !.owner = o] \in Fields
           /\ \A z \in 0 .. 2 * MaxSize : [x EXCEPT !.size = z] \in Fields
<1> DEFINE K == Seq(Entry)
           Z == 0 .. 2 * MaxSize
           N == Name \cup {NoName}
           O == Thread \cup {Null}
<1>1. Fields = Fentry(N, K, Z, O)
  BY DEF Fields
<1> HIDE DEF K, Z, N, O
<1>2. /\ \A k \in K : [x EXCEPT !.kids = k] \in Fentry(N, K, Z, O)
      /\ \A o \in O : [x EXCEPT !.owner = o] \in Fentry(N, K, Z, O)
      /\ \A z \in Z : [x EXCEPT !.size = z] \in Fentry(N, K, Z, O)
  BY <1>1 DEF Fentry
<1> QED
  BY <1>1, <1>2 DEF K, Z, O

LEMMA NewFields ==
    ASSUME NEW n \in Name, NEW u, u = [Unused EXCEPT !.name = n]
    PROVE  u \in Fields /\ u.kids = <<>> /\ u.name = n /\ u.ready = FALSE
<1> DEFINE K == Seq(Entry)
           Z == 0 .. 2 * MaxSize
<1>1. 0 \in Z /\ <<>> \in K /\ Fields = Fentry(Name \cup {NoName}, K, Z, Thread \cup {Null})
  BY DEF Fields
<1> HIDE DEF K, Z
<1> QED
  BY <1>1 DEF Unused, Fentry

LEMMA DoneFields ==
    ASSUME NEW x \in Fields, NEW d \in BOOLEAN, NEW u, u = [x EXCEPT !.is_dir = d, !.ready = TRUE]
    PROVE  u \in Fields /\ u.kids = x.kids /\ u.name = x.name /\ u.ready = TRUE /\ u.is_dir = d
<1> DEFINE K == Seq(Entry)
           Z == 0 .. 2 * MaxSize
<1>1. Fields = Fentry(Name \cup {NoName}, K, Z, Thread \cup {Null})
  BY DEF Fields
<1> HIDE DEF K, Z
<1> QED
  BY <1>1 DEF Fentry

\* Whether an entry is ready, and what it is, is the same in em, but for those in S.
Settled(en, em, S) == \A f \in Entry : f \notin S =>
    em[f].ready = en[f].ready /\ em[f].is_dir = en[f].is_dir

\* only mutexes and sizes differ
SameTree(en, em) ==
    /\ em \in [Entry -> Fields] /\ NM(em) = NM(en) /\ KD(em) = KD(en)
    /\ Settled(en, em, {})

LEMMA FieldKeeps ==
    ASSUME NEW en \in [Entry -> Fields], NEW f
    PROVE  /\ \A x \in Thread \cup {Null} : SameTree(en, [en EXCEPT ![f].owner = x])
           /\ \A x \in 0 .. 2 * MaxSize : SameTree(en, [en EXCEPT ![f].size = x])
<1>1. ASSUME NEW x \in Thread \cup {Null}
      PROVE  SameTree(en, [en EXCEPT ![f].owner = x])
  <2>1. [en EXCEPT ![f].owner = x] \in [Entry -> Fields]
    <3>1. \A e \in Entry : [en[e] EXCEPT !.owner = x] \in Fields
      BY FieldsAre
    <3> QED
      BY <3>1
  <2>2. \A e \in Entry : LET g == [en EXCEPT ![f].owner = x][e] IN
          g.name = en[e].name /\ g.kids = en[e].kids /\ g.ready = en[e].ready /\ g.is_dir = en[e].is_dir
    BY DEF Fields, Fentry
  <2> QED
    BY <2>1, <2>2 DEF SameTree, NM, KD, Settled
<1>2. ASSUME NEW x \in 0 .. 2 * MaxSize
      PROVE  SameTree(en, [en EXCEPT ![f].size = x])
  <2>1. [en EXCEPT ![f].size = x] \in [Entry -> Fields]
    <3>1. \A e \in Entry : [en[e] EXCEPT !.size = x] \in Fields
      BY FieldsAre
    <3> QED
      BY <3>1
  <2>2. \A e \in Entry : LET g == [en EXCEPT ![f].size = x][e] IN
          g.name = en[e].name /\ g.kids = en[e].kids /\ g.ready = en[e].ready /\ g.is_dir = en[e].is_dir
    BY DEF Fields, Fentry
  <2> QED
    BY <2>1, <2>2 DEF SameTree, NM, KD, Settled
<1> QED
  BY <1>1, <1>2

\* entry e has become a file of name n in directory p
Grown(en, em, p, e, n) ==
    /\ NM(em) = [NM(en) EXCEPT ![e] = n]
    /\ KD(em) = IF p = Null THEN KD(en) ELSE [KD(en) EXCEPT ![p] = Append(KD(en)[p], e)]
    /\ Settled(en, em, {e}) /\ ~em[e].ready

\* fentry_list_add and the first lines of fentry_create (ramfs.c:120-143, 249-279)
LEMMA LinkedTree ==
    ASSUME NEW en, NEW r, TreeOf(en, r), NEW e \in Entry, e = Fresh(en), en[e].name = NoName, NEW n \in Name,
           NEW p \in Entry \cup {Null},
           p \in Entry => en[p].name \in Name /\ DirOf(n) = en[p].name
    PROVE  LET em == Linked(en, p, e, n)
           IN  \/ /\ em = en /\ p \in Entry
                  /\ \E i \in 1 .. Len(en[p].kids) : en[en[p].kids[i]].name = n
               \/ /\ TreeOf(em, IF p = Null THEN e ELSE r) /\ Grown(en, em, p, e, n)
                  /\ em # en
<1> DEFINE new == [en EXCEPT ![e] = [Unused EXCEPT !.name = n]]
           nm == NM(en)
           kd == KD(en)
<1>1. /\ en \in [Entry -> Fields] /\ Tree(nm, kd, r) /\ nm[e] = NoName /\ kd[e] = en[e].kids
      /\ kd \in [Entry -> Seq(Entry)] /\ kd[e] = <<>> /\ Next(nm, e)
  <2>1. en \in [Entry -> Fields] /\ Tree(nm, kd, r)
    BY DEF TreeOf
  <2>2. nm[e] = NoName /\ kd[e] = en[e].kids
    BY DEF NM, KD
  <2>3. Next(nm, e)
    <3>1. \A f \in Entry : en[f].name = NoName => e <= f
      BY FreshIs
    <3> QED
      BY <2>2, <3>1 DEF Next, NM
  <2> HIDE DEF nm, kd
  <2> QED
    BY <2>1, <2>2, <2>3, TreeFacts
<1>2. /\ new \in [Entry -> Fields] /\ NM(new) = [nm EXCEPT ![e] = n] /\ KD(new) = kd
      /\ Settled(en, new, {e}) /\ ~new[e].ready /\ new[e].name = n
  <2>2. PICK u : u = [Unused EXCEPT !.name = n]
    OBVIOUS
  <2>3. new = [en EXCEPT ![e] = u] /\ u \in Fields /\ u.kids = <<>> /\ u.name = n /\ u.ready = FALSE
    BY <2>2, NewFields
  <2> HIDE DEF new
  <2>4. new \in [Entry -> Fields] /\ new[e] = u /\ \A f \in Entry : f # e => new[f] = en[f]
    BY <1>1, <2>3
  <2>5. NM(new) = [nm EXCEPT ![e] = n]
    BY <2>3, <2>4 DEF NM
  <2>6. KD(new) = kd
    BY <1>1, <2>3, <2>4 DEF KD
  <2> QED
    BY <2>3, <2>4, <2>5, <2>6 DEF Settled
<1> HIDE DEF new
<1>3. CASE p = Null
  <2>1. Linked(en, p, e, n) = new
    BY <1>3 DEF Linked, new
  <2>2. Tree([nm EXCEPT ![e] = n], kd, e)
    <3> HIDE DEF nm, kd
    <3> QED
      BY <1>1, RootTree
  <2>3. TreeOf(new, e) /\ Grown(en, new, p, e, n) /\ new # en
    BY <1>2, <1>3, <2>2 DEF TreeOf, Grown
  <2> QED
    BY <1>3, <2>1, <2>3
<1>4. CASE p # Null /\ Named(en, en[p].kids, n) # Null
  <2>1. Linked(en, p, e, n) = en
    BY <1>4 DEF Linked
  <2>2. NamedRight(en, p, n)
    BY <1>4, NamedIs
  <2> QED
    BY <1>4, <2>1, <2>2 DEF NamedRight
<1>5. CASE p # Null /\ Named(en, en[p].kids, n) = Null
  <2> DEFINE em == [new EXCEPT ![p].kids = Append(@, e)]
             q == Append(kd[p], e)
  <2>1. Linked(en, p, e, n) = em
    BY <1>5 DEF Linked, new
  <2>2. /\ kd[p] = en[p].kids /\ nm[p] = en[p].name /\ p \in Entry /\ p # e /\ new[p] = en[p]
        /\ kd[p] \in Seq(Entry)
    <3>1. p \in Entry /\ p # e
      BY <1>5
    <3>2. kd[p] = en[p].kids /\ nm[p] = en[p].name
      BY <3>1 DEF NM, KD
    <3>3. new[p] = en[p]
      BY <1>1, <3>1 DEF new
    <3> HIDE DEF kd
    <3> QED
      BY <1>1, <3>1, <3>2, <3>3
  <2>3. \A i \in 1 .. Len(kd[p]) : nm[kd[p][i]] # n
    <3>1. NamedRight(en, p, n)
      BY <2>2, NamedIs
    <3>2. \A i \in 1 .. Len(en[p].kids) : en[p].kids[i] \in Entry
      BY <2>2, TreeOfIs
    <3>3. \A i \in 1 .. Len(en[p].kids) : en[en[p].kids[i]].name # n
      BY <1>5, <3>1, <3>2 DEF NamedRight
    <3>4. \A f \in Entry : nm[f] = en[f].name
      BY DEF NM
    <3> HIDE DEF kd, nm
    <3> QED
      BY <2>2, <3>2, <3>3, <3>4
  <2>4. Tree([nm EXCEPT ![e] = n], [kd EXCEPT ![p] = q], r)
    <3>1. nm[p] \in Name /\ DirOf(n) = nm[p]
      BY <2>2
    <3> HIDE DEF kd, nm
    <3> QED
      BY <1>1, <2>2, <2>3, <3>1, LinkTree
  <2>5. q \in Seq(Entry) /\ new[p].kids = kd[p]
    <3> HIDE DEF kd
    <3> QED
      BY <2>2, AppendProperties
  <2>6. em = [new EXCEPT ![p].kids = q]
    BY <2>5
  <2> HIDE DEF q, em
  <2>7. em \in [Entry -> Fields]
    <3>1. [new[p] EXCEPT !.kids = q] \in Fields
      <4>1. new[p] \in Fields
        BY <1>2, <2>2
      <4> QED
        BY <2>5, <4>1, FieldsAre
    <3> QED
      BY <1>2, <2>6, <3>1
  <2>8. \A f \in Entry : /\ em[f].name = new[f].name /\ em[f].ready = new[f].ready
                         /\ em[f].is_dir = new[f].is_dir
                         /\ em[f].kids = IF f = p THEN q ELSE new[f].kids
    BY <1>2, <2>6 DEF Fields, Fentry
  <2>9. NM(em) = [nm EXCEPT ![e] = n]
    <3>1. NM(em) = NM(new)
      BY <2>8 DEF NM
    <3> QED
      BY <1>2, <3>1
  <2>10. KD(em) = [kd EXCEPT ![p] = q]
    <3>1. KD(em) = [KD(new) EXCEPT ![p] = q]
      BY <2>8, <2>2 DEF KD
    <3> QED
      BY <1>2, <3>1
  <2>11. Settled(en, em, {e}) /\ ~em[e].ready /\ em[e].name = n
    BY <1>2, <2>8 DEF Settled
  <2>13. TreeOf(em, r) /\ Grown(en, em, p, e, n) /\ em # en
    BY <1>5, <2>4, <2>7, <2>9, <2>10, <2>11 DEF TreeOf, Grown, q
  <2> QED
    BY <1>5, <2>1, <2>13
<1> QED
  BY <1>3, <1>4, <1>5

\* the file e in directory p is ready, and the list of p ends with it
Ended(en, em, r, p, e, dir) ==
    /\ TreeOf(em, r) /\ NM(em) = NM(en)
    /\ KD(em) = IF p = Null THEN KD(en) ELSE [KD(en) EXCEPT ![p] = UpTo(KD(en)[p], e)]
    /\ Settled(en, em, {e}) /\ em[e].ready /\ em[e].is_dir = dir

\* the last lines of fentry_create (ramfs.c:47-68)
LEMMA InitializedTree ==
    ASSUME NEW en, NEW r, TreeOf(en, r), NEW e \in Entry, NEW p \in Entry \cup {Null},
           NEW dir \in BOOLEAN
    PROVE  Ended(en, Initialized(en, p, e, dir), r, p, e, dir)
<1> DEFINE u == [en[e] EXCEPT !.is_dir = dir, !.ready = TRUE]
           done == [en EXCEPT ![e] = u]
           nm == NM(en)
           kd == KD(en)
<1>1. en \in [Entry -> Fields] /\ Tree(nm, kd, r) /\ kd \in [Entry -> Seq(Entry)]
  BY TreeOfIs DEF TreeOf
<1>2. /\ done \in [Entry -> Fields] /\ NM(done) = nm /\ KD(done) = kd
      /\ Settled(en, done, {e}) /\ done[e].ready /\ done[e].is_dir = dir
  <2>1. u \in Fields /\ u.kids = en[e].kids /\ u.name = en[e].name /\ u.ready = TRUE /\ u.is_dir = dir
    <3>1. en[e] \in Fields
      BY <1>1
    <3> QED
      <4>1. PICK x \in Fields : x = en[e]
        BY <3>1
      <4>2. PICK v : v = [x EXCEPT !.is_dir = dir, !.ready = TRUE]
        OBVIOUS
      <4>3. v \in Fields /\ v.kids = x.kids /\ v.name = x.name /\ v.ready = TRUE /\ v.is_dir = dir
        BY <4>2, DoneFields
      <4>4. v = u
        BY <4>1, <4>2
      <4> HIDE DEF u
      <4> QED
        BY <4>1, <4>3, <4>4
  <2> HIDE DEF u
  <2>2. done \in [Entry -> Fields] /\ done[e] = u /\ \A f \in Entry : f # e => done[f] = en[f]
    BY <1>1, <2>1
  <2>3. \A f \in Entry : done[f].name = en[f].name /\ done[f].kids = en[f].kids
    BY <2>1, <2>2
  <2> HIDE DEF done
  <2>4. NM(done) = nm /\ KD(done) = kd
    BY <2>3 DEF NM, KD
  <2> QED
    BY <2>1, <2>2, <2>4 DEF Settled
<1>3. CASE p = Null
  <2>1. Initialized(en, p, e, dir) = done
    BY <1>3 DEF Initialized
  <2> HIDE DEF done
  <2>2. TreeOf(done, r)
    BY <1>1, <1>2 DEF TreeOf
  <2> QED
    BY <1>2, <1>3, <2>1, <2>2 DEF Ended
<1>4. CASE p # Null
  <2> DEFINE em == [done EXCEPT ![p].kids = UpTo(@, e)]
             q == UpTo(kd[p], e)
  <2>1. Initialized(en, p, e, dir) = em
    BY <1>4 DEF Initialized
  <2> HIDE DEF done
  <2>2. p \in Entry /\ done[p].kids = kd[p] /\ kd[p] \in Seq(Entry)
    <3>1. KD(done)[p] = done[p].kids
      BY <1>4 DEF KD
    <3> HIDE DEF kd
    <3> QED
      BY <1>1, <1>2, <1>4, <3>1
  <2>3. q \in Seq(Entry) /\ Len(q) <= Len(kd[p]) /\ \A i \in 1 .. Len(q) : q[i] = kd[p][i]
    <3> HIDE DEF kd
    <3> QED
      BY <2>2, UpToIs
  <2>4. em = [done EXCEPT ![p].kids = q]
    BY <2>2
  <2> HIDE DEF q, em
  <2>5. em \in [Entry -> Fields]
    <3>1. [done[p] EXCEPT !.kids = q] \in Fields
      <4>1. done[p] \in Fields
        BY <1>2, <2>2
      <4> QED
        BY <2>3, <4>1, FieldsAre
    <3> QED
      BY <1>2, <2>4, <3>1
  <2>6. \A f \in Entry : /\ em[f].name = done[f].name /\ em[f].ready = done[f].ready
                         /\ em[f].is_dir = done[f].is_dir
                         /\ em[f].kids = IF f = p THEN q ELSE done[f].kids
    BY <1>2, <2>4 DEF Fields, Fentry
  <2>7. NM(em) = nm
    <3>1. NM(em) = NM(done)
      BY <2>6 DEF NM
    <3> QED
      BY <1>2, <3>1
  <2>8. KD(em) = [kd EXCEPT ![p] = q]
    <3>1. KD(em) = [KD(done) EXCEPT ![p] = q]
      BY <2>6, <2>2 DEF KD
    <3> QED
      BY <1>2, <3>1
  <2>9. Tree(nm, [kd EXCEPT ![p] = q], r)
    <3> HIDE DEF nm, kd
    <3> QED
      BY <1>1, <2>2, <2>3, CutTree
  <2>10. Settled(en, em, {e}) /\ em[e].ready /\ em[e].is_dir = dir
    BY <1>2, <2>6 DEF Settled
  <2>11. TreeOf(em, r)
    BY <2>5, <2>7, <2>8, <2>9 DEF TreeOf
  <2> QED
    BY <1>4, <2>1, <2>7, <2>8, <2>10, <2>11 DEF q, Ended
<1> QED
  BY <1>3, <1>4

-----------------------------------------------------------------------------
(***************************************************************************)
(* The inductive invariant of the tree.                                    *)
(***************************************************************************)

Points == Inside \cup {"idle", "open_lock", "open", "print", "fault"}
Places == Entry \cup {Null, Wild}

ThreadsTyped ==
    /\ pc \in [Thread -> Points]
    /\ call \in [Thread -> Call \cup {NoCall}]
    /\ reg \in [Thread -> Places \X Places]

\* What a thread works with: the directory it creates in is the one that
\* get_directory_name gave, and what it creates is there and not yet ready.
WorkOK(t) ==
    /\ pc[t] \in Inside => call[t] \in Call
    /\ pc[t] \in {"create_check", "create_link"} =>
         /\ reg[t][2] \in Entry \cup {Null}
         /\ reg[t][2] \in Entry => /\ ent[reg[t][2]].name \in Name
                                   /\ DirOf(call[t].name) = ent[reg[t][2]].name
    /\ pc[t] = "create_init" =>
         /\ reg[t][1] \in Entry /\ ent[reg[t][1]].name \in Name /\ ~ent[reg[t][1]].ready
         /\ reg[t][2] \in Entry \cup {Null}

\* No two threads create one entry; and the scenario says whether they create together.
Apart ==
    /\ \A t, u \in Thread :
         pc[t] = "create_init" /\ pc[u] = "create_init" /\ reg[t][1] = reg[u][1] => t = u
    /\ ~scene.concurrent =>
         \A t, u \in Thread : pc[t] \in Inside /\ pc[u] \in Inside => t = u

\* While the archive is loaded every entry is one of its records, and ready.
FromArchive ==
    ~Loaded => \A e \in Entry : ent[e].name \in Name =>
        ent[e].ready /\ \E i \in 1 .. pos : ent[e].name = Archive[i].name

TreeInv ==
    /\ TreeOf(ent, root)
    /\ ThreadsTyped /\ (\A t \in Thread : WorkOK(t)) /\ Apart
    /\ FromArchive

\* What was true when t looked still is: there is no root if it goes on as if there
\* were none, and it does not take the root for the directory of a name without '/'.
Steady(t, l, p) ==
    /\ l = "create_dir" /\ DirName[call[t].name] = NoName => root = Null
    /\ l \in {"create_check", "create_link"} /\ p \in Entry => DirName[call[t].name] # NoName
    /\ l = "create_root" => root = Null

\* If nobody else is there when the first entry is created only the root's name has
\* no directory.
FirstInv == FirstAlone =>
    /\ Slashed(NM(ent), KD(ent))
    /\ \A t \in Thread : Steady(t, pc[t], reg[t][2])
    /\ pos > 0 => root # Null

\* everything in use but the root is in a directory
Rooted(nm, kd, r) == \A e \in Entry : nm[e] \in Name =>
    e = r \/ \E p \in Entry : \E i \in 1 .. Len(kd[p]) : e = kd[p][i]

\* e is the last child of p
LastOf(kd, p, e) == kd[p] # <<>> /\ kd[p][Len(kd[p])] = e

\* Nothing has come behind what is being created.
Making(t) == pc[t] = "create_init" /\ reg[t][2] \in Entry => LastOf(KD(ent), reg[t][2], reg[t][1])

\* record i of the archive is in the file system
Present(i) == \E e \in Entry :
    ent[e].name = Archive[i].name /\ ent[e].ready /\ ent[e].is_dir = Archive[i].is_dir

\* While one thread creates at a time nothing that was created is cut off.
OneCreator == ~scene.concurrent =>
    /\ Rooted(NM(ent), KD(ent), root)
    /\ \A t \in Thread : Making(t)
    /\ \A i \in 1 .. pos : Present(i)
    /\ ~Loaded /\ pos = 0 => root = Null

\* The inductive invariant of the file system.
FilesInv == LoadInv /\ TreeInv /\ FirstInv /\ OneCreator

-----------------------------------------------------------------------------
(***************************************************************************)
(* Files behind none but finished ones stay where they are.                *)
(***************************************************************************)

Stay(en, em) == \A e \in Entry : \A i \in DOMAIN en[e].kids :
    (\A j \in 1 .. i : en[en[e].kids[j]].ready) => i \in DOMAIN em[e].kids /\ em[e].kids[i] = en[e].kids[i]

LEMMA StaySame ==
    ASSUME NEW en, NEW em, KD(em) = KD(en)
    PROVE  Stay(en, em)
<1>1. \A e \in Entry : KD(em)[e] = em[e].kids /\ KD(en)[e] = en[e].kids
  BY DEF KD
<1>2. \A e \in Entry : em[e].kids = en[e].kids
  BY <1>1
<1> QED
  BY <1>2 DEF Stay

LEMMA StayGrown ==
    ASSUME NEW en, NEW em, KD(en) \in [Entry -> Seq(Entry)], NEW e \in Entry, NEW p \in Entry \cup {Null},
           KD(em) = IF p = Null THEN KD(en) ELSE [KD(en) EXCEPT ![p] = Append(KD(en)[p], e)]
    PROVE  Stay(en, em)
<1>1. \A g \in Entry : KD(em)[g] = em[g].kids /\ KD(en)[g] = en[g].kids
  BY DEF KD
<1>2. ASSUME NEW g \in Entry, NEW i \in DOMAIN en[g].kids
      PROVE  i \in DOMAIN em[g].kids /\ em[g].kids[i] = en[g].kids[i]
  <2>1. PICK s \in Seq(Entry) : s = en[g].kids
    BY <1>1
  <2>2. CASE g = p
    <3>1. p # Null
      BY <2>2
    <3>2. em[g].kids = Append(s, e)
      BY <1>1, <2>1, <2>2, <3>1
    <3>3. i \in 1 .. Len(s) /\ Len(s) \in Nat
      BY <2>1
    <3>4. /\ Append(s, e) \in Seq(Entry) /\ Len(Append(s, e)) = Len(s) + 1
          /\ \A k \in 1 .. Len(s) : Append(s, e)[k] = s[k]
      BY AppendProperties
    <3>5. i \in DOMAIN Append(s, e) /\ Append(s, e)[i] = s[i]
      BY <3>3, <3>4
    <3> QED
      BY <2>1, <3>2, <3>5
  <2>3. CASE g # p
    BY <1>1, <2>3
  <2> QED
    BY <2>2, <2>3
<1> QED
  BY <1>2 DEF Stay

\* A list that is cut behind e keeps what is before e.
LEMMA UpToKeeps ==
    ASSUME NEW s \in Seq(Entry), NEW e, NEW i \in 1 .. Len(s), \A j \in 1 .. i : s[j] # e
    PROVE  i \in DOMAIN UpTo(s, e) /\ UpTo(s, e)[i] = s[i]
<1>1. Len(s) \in Nat /\ DOMAIN s = 1 .. Len(s)
  OBVIOUS
<1>2. CASE e \notin ToSet(s)
  BY <1>1, <1>2 DEF UpTo
<1>3. CASE e \in ToSet(s)
  <2>1. PICK k \in 1 .. Len(s) : s[k] = e /\ UpTo(s, e) = SubSeq(s, 1, k)
    <3>1. \E j \in DOMAIN s : s[j] = e
      BY <1>3 DEF ToSet
    <3>2. UpTo(s, e) = SubSeq(s, 1, CHOOSE j \in DOMAIN s : s[j] = e)
      BY <1>3 DEF UpTo
    <3> QED
      BY <1>1, <3>1, <3>2
  <2>2. i \in 1 .. k
    <3>1. ~(k \in 1 .. i)
      BY <2>1
    <3> QED
      BY <1>1, <3>1
  <2>3. /\ SubSeq(s, 1, k) \in Seq(Entry) /\ Len(SubSeq(s, 1, k)) = k
        /\ \A j \in 1 .. k : SubSeq(s, 1, k)[j] = s[j]
    BY <1>1
  <2>4. DOMAIN SubSeq(s, 1, k) = 1 .. k
    BY <2>3
  <2> QED
    BY <2>1, <2>2, <2>3, <2>4
<1> QED
  BY <1>2, <1>3

LEMMA StayCut ==
    ASSUME NEW en, NEW em, KD(en) \in [Entry -> Seq(Entry)], NEW e \in Entry, ~en[e].ready,
           NEW p \in Entry \cup {Null},
           KD(em) = IF p = Null THEN KD(en) ELSE [KD(en) EXCEPT ![p] = UpTo(KD(en)[p], e)]
    PROVE  Stay(en, em)
<1>1. \A g \in Entry : KD(em)[g] = em[g].kids /\ KD(en)[g] = en[g].kids
  BY DEF KD
<1>2. ASSUME NEW g \in Entry, NEW i \in DOMAIN en[g].kids,
             \A j \in 1 .. i : en[en[g].kids[j]].ready
      PROVE  i \in DOMAIN em[g].kids /\ em[g].kids[i] = en[g].kids[i]
  <2>1. PICK s \in Seq(Entry) : s = en[g].kids
    BY <1>1
  <2>2. CASE g = p
    <3>1. p # Null
      BY <2>2
    <3>2. em[g].kids = UpTo(s, e)
      BY <1>1, <2>1, <2>2, <3>1
    <3>3. i \in 1 .. Len(s)
      BY <2>1
    <3>4. \A j \in 1 .. i : s[j] # e
      BY <1>2, <2>1
    <3>5. i \in DOMAIN UpTo(s, e) /\ UpTo(s, e)[i] = s[i]
      BY <3>3, <3>4, UpToKeeps
    <3> QED
      BY <2>1, <3>2, <3>5
  <2>3. CASE g # p
    BY <1>1, <2>3
  <2> QED
    BY <2>2, <2>3
<1> QED
  BY <1>2 DEF Stay

-----------------------------------------------------------------------------
(***************************************************************************)
(* Steps of threads keep the tree.                                         *)
(***************************************************************************)

\* Goto, as the next lemmas see it.
Walked(t, l, f, p) ==
    /\ ThreadsTyped'
    /\ \A u \in Thread : u # t => pc'[u] = pc[u] /\ call'[u] = call[u] /\ reg'[u] = reg[u]
    /\ pc'[t] = l
    /\ l \in Inside => call'[t] = call[t]
    /\ l \in Holding => reg'[t][1] = f /\ reg'[t][2] = p

LEMMA GotoWalks ==
    ASSUME ThreadsTyped, NEW t \in Thread, NEW l \in Points, NEW f \in Places, NEW p \in Places,
           Goto(t, l, f, p)
    PROVE  Walked(t, l, f, p)
<1>1. pc' \in [Thread -> Points] /\ pc'[t] = l /\ \A u \in Thread : u # t => pc'[u] = pc[u]
  BY DEF Goto, ThreadsTyped
<1>2. /\ call' \in [Thread -> Call \cup {NoCall}]
      /\ \A u \in Thread : u # t => call'[u] = call[u]
      /\ l \in Inside => call'[t] = call[t]
  <2>1. call' = call \/ (l \notin Inside /\ call' = [call EXCEPT ![t] = NoCall])
    BY DEF Goto
  <2> QED
    BY <2>1 DEF ThreadsTyped
<1>3. /\ reg' \in [Thread -> Places \X Places]
      /\ \A u \in Thread : u # t => reg'[u] = reg[u]
      /\ l \in Holding => reg'[t][1] = f /\ reg'[t][2] = p
  <2>1. PICK x : /\ x = IF l \in Holding THEN <<f, p>> ELSE <<Null, Null>>
                 /\ reg' = [reg EXCEPT ![t] = x]
    BY DEF Goto
  <2>2. x \in Places \X Places
    BY <2>1 DEF Places
  <2> HIDE DEF Places
  <2> QED
    BY <2>1, <2>2 DEF ThreadsTyped
<1> QED
  BY <1>1, <1>2, <1>3 DEF Walked, ThreadsTyped

\* The work of the other threads stays as it is while names do, and nothing of theirs
\* is finished.
LEMMA OthersWork ==
    ASSUME \A u \in Thread : WorkOK(u), NEW t \in Thread, NEW l, NEW f, NEW p, Walked(t, l, f, p),
           \A e \in Entry : ent[e].name \in Name => ent'[e].name = ent[e].name,
           \A u \in Thread : u # t /\ pc[u] = "create_init" => ~ent'[reg[u][1]].ready
    PROVE  \A u \in Thread : u # t => WorkOK(u)'
<1> SUFFICES ASSUME NEW u \in Thread, u # t
             PROVE  WorkOK(u)'
  OBVIOUS
<1>1. pc'[u] = pc[u] /\ call'[u] = call[u] /\ reg'[u] = reg[u]
  BY DEF Walked
<1>2. pc'[u] \in Inside => call'[u] \in Call
  BY <1>1 DEF WorkOK
<1>3. ASSUME pc'[u] \in {"create_check", "create_link"}
      PROVE  /\ reg'[u][2] \in Entry \cup {Null}
             /\ reg'[u][2] \in Entry => /\ ent'[reg'[u][2]].name \in Name
                                        /\ DirOf(call'[u].name) = ent'[reg'[u][2]].name
  <2>1. /\ reg[u][2] \in Entry \cup {Null}
        /\ reg[u][2] \in Entry => /\ ent[reg[u][2]].name \in Name
                                  /\ DirOf(call[u].name) = ent[reg[u][2]].name
    BY <1>1, <1>3 DEF WorkOK
  <2> QED
    BY <1>1, <2>1
<1>4. ASSUME pc'[u] = "create_init"
      PROVE  /\ reg'[u][1] \in Entry /\ ent'[reg'[u][1]].name \in Name /\ ~ent'[reg'[u][1]].ready
             /\ reg'[u][2] \in Entry \cup {Null}
  <2>1. /\ reg[u][1] \in Entry /\ ent[reg[u][1]].name \in Name
        /\ reg[u][2] \in Entry \cup {Null}
    BY <1>1, <1>4 DEF WorkOK
  <2>2. ~ent'[reg[u][1]].ready
    BY <1>1, <1>4
  <2> QED
    BY <1>1, <2>1, <2>2
<1> QED
  BY <1>2, <1>3, <1>4 DEF WorkOK

LEMMA RecordIs ==
    ASSUME scene \in Scenario
    PROVE  /\ Len(Archive) \in Nat
           /\ \A i \in 1 .. Len(Archive) :
                /\ Archive[i].name \in Name /\ Archive[i].is_dir \in BOOLEAN
                /\ Archive[i].filesize \in Nat
                /\ i > 1 => \E j \in 1 .. i - 1 : Archive[j].name = DirName[Archive[i].name]
           /\ \A i, j \in 1 .. Len(Archive) : Archive[i].name = Archive[j].name => i = j
<1>1. PICK a, R : a = Archive /\ R = [name : Name, is_dir : BOOLEAN, filesize : Nat]
  OBVIOUS
<1>2. a \in Seq(R)
  BY <1>1, ArchiveAssumption DEF Archive
<1>3. Len(a) \in Nat /\ DOMAIN a = 1 .. Len(a) /\ \A i \in 1 .. Len(a) : a[i] \in R
  BY <1>2
<1>4. \A i \in 1 .. Len(a) :
        a[i].name \in Name /\ a[i].is_dir \in BOOLEAN /\ a[i].filesize \in Nat
  BY <1>1, <1>3
<1>5. /\ \A i, j \in 1 .. Len(a) : a[i].name = a[j].name => i = j
      /\ \A i \in 1 .. Len(a) : i > 1 => \E j \in 1 .. i - 1 : a[j].name = DirName[a[i].name]
  BY <1>1, <1>3, ArchiveAssumption DEF Archive
<1> QED
  BY <1>1, <1>3, <1>4, <1>5

\* A step that leaves the tree alone, of a thread that has no new entry after it.
LEMMA StillKeeps ==
    ASSUME TreeInv, FirstInv, OneCreator, Loaded, UNCHANGED <<scene, pos>>,
           NEW t \in Thread, NEW l, NEW f, NEW p,
           Walked(t, l, f, p), SameTree(ent, ent'), root' = root,
           l \in Inside => pc[t] \in Inside, l # "create_init",
           l \in {"create_check", "create_link"} =>
               /\ p \in Entry \cup {Null}
               /\ p \in Entry => /\ ent[p].name \in Name
                                 /\ DirOf(call[t].name) = ent[p].name,
           FirstAlone => Steady(t, l, p)
    PROVE  TreeInv' /\ FirstInv' /\ OneCreator' /\ Stay(ent, ent')
<1>1. /\ ent' \in [Entry -> Fields] /\ NM(ent') = NM(ent) /\ KD(ent') = KD(ent)
      /\ \A e \in Entry : /\ ent'[e].name = ent[e].name /\ ent'[e].ready = ent[e].ready
                          /\ ent'[e].is_dir = ent[e].is_dir
  <2>1. ent' \in [Entry -> Fields] /\ NM(ent') = NM(ent) /\ KD(ent') = KD(ent) /\ Settled(ent, ent', {})
    BY DEF SameTree
  <2>2. \A e \in Entry : NM(ent')[e] = ent'[e].name /\ NM(ent)[e] = ent[e].name
    BY DEF NM
  <2> QED
    BY <2>1, <2>2 DEF Settled
<1>2. TreeOf(ent', root') /\ ThreadsTyped'
  BY <1>1 DEF TreeInv, TreeOf, Walked
<1>3. /\ pc'[t] = l /\ (l \in Inside => call'[t] = call[t])
      /\ l \in Holding => reg'[t][1] = f /\ reg'[t][2] = p
      /\ \A u \in Thread : u # t => pc'[u] = pc[u] /\ call'[u] = call[u] /\ reg'[u] = reg[u]
  BY DEF Walked
<1>4. WorkOK(t)'
  <2>1. l \in Inside => call'[t] \in Call
    BY <1>3 DEF TreeInv, WorkOK
  <2>2. ASSUME l \in {"create_check", "create_link"}
        PROVE  /\ reg'[t][2] \in Entry \cup {Null}
               /\ reg'[t][2] \in Entry => /\ ent'[reg'[t][2]].name \in Name
                                          /\ DirOf(call'[t].name) = ent'[reg'[t][2]].name
    <3>1. reg'[t][2] = p /\ call'[t] = call[t]
      BY <1>3, <2>2 DEF Inside, Holding
    <3> QED
      BY <1>1, <2>2, <3>1
  <2> QED
    BY <1>3, <2>1, <2>2 DEF WorkOK
<1>5. \A u \in Thread : WorkOK(u)'
  <2>1. ASSUME NEW u \in Thread, pc[u] = "create_init"
        PROVE  ~ent'[reg[u][1]].ready
    BY <1>1, <2>1 DEF TreeInv, WorkOK
  <2> QED
    BY <1>1, <1>4, <2>1, OthersWork DEF TreeInv
<1>6. Loaded' /\ Archive' = Archive /\ (FirstAlone' <=> FirstAlone)
  BY DEF Loaded, Archive, FirstAlone
<1>7. FromArchive'
  BY <1>6 DEF FromArchive
<1>8. Apart'
  <2>1. \A u \in Thread : pc'[u] \in Inside => pc[u] \in Inside
    BY <1>3
  <2>2. \A u \in Thread : pc'[u] = "create_init" => pc[u] = "create_init" /\ reg'[u] = reg[u]
    BY <1>3
  <2>3. Apart
    BY DEF TreeInv
  <2>4. \A u, v \in Thread :
          pc'[u] = "create_init" /\ pc'[v] = "create_init" /\ reg'[u][1] = reg'[v][1] => u = v
    BY <2>2, <2>3 DEF Apart
  <2>5. ~scene.concurrent' => \A u, v \in Thread : pc'[u] \in Inside /\ pc'[v] \in Inside => u = v
    BY <2>1, <2>3 DEF Apart
  <2> QED
    BY <2>4, <2>5 DEF Apart
<1>9. FirstInv'
  <2> SUFFICES ASSUME FirstAlone
               PROVE  /\ Slashed(NM(ent'), KD(ent'))
                      /\ \A u \in Thread : Steady(u, pc[u], reg[u][2])'
                      /\ pos' > 0 => root' # Null
    BY <1>6 DEF FirstInv
  <2>1. Slashed(NM(ent), KD(ent)) /\ (pos > 0 => root # Null)
    BY DEF FirstInv
  <2>2. ASSUME NEW u \in Thread
        PROVE  Steady(u, pc[u], reg[u][2])'
    <3>1. CASE u = t
      <4>1. /\ pc'[t] = l /\ (l \in Inside => call'[t] = call[t])
            /\ l \in {"create_check", "create_link"} => reg'[t][2] = p
        BY <1>3 DEF Holding
      <4>2. /\ l = "create_dir" /\ DirName[call[t].name] = NoName => root = Null
            /\ l \in {"create_check", "create_link"} /\ p \in Entry => DirName[call[t].name] # NoName
            /\ l = "create_root" => root = Null
        BY DEF Steady
      <4> QED
        BY <3>1, <4>1, <4>2 DEF Steady, Inside
    <3>2. CASE u # t
      <4>1. pc'[u] = pc[u] /\ call'[u] = call[u] /\ reg'[u] = reg[u] /\ root' = root
        BY <1>3, <3>2
      <4>2. Steady(u, pc[u], reg[u][2])
        BY DEF FirstInv
      <4> QED
        BY <4>1, <4>2 DEF Steady
    <3> QED
      BY <3>1, <3>2
  <2> QED
    BY <1>1, <2>1, <2>2
<1>10. OneCreator'
  <2> SUFFICES ASSUME ~scene.concurrent
               PROVE  /\ Rooted(NM(ent'), KD(ent'), root')
                      /\ \A u \in Thread : Making(u)'
                      /\ \A i \in 1 .. pos' : Present(i)'
    BY <1>6 DEF OneCreator
  <2>1. Rooted(NM(ent'), KD(ent'), root')
    BY <1>1 DEF OneCreator
  <2>2. ASSUME NEW u \in Thread
        PROVE  Making(u)'
    <3>1. CASE u = t
      BY <1>3, <3>1 DEF Making
    <3>2. CASE u # t
      <4>1. Making(u) /\ pc'[u] = pc[u] /\ reg'[u] = reg[u]
        BY <1>3, <3>2 DEF OneCreator
      <4> QED
        BY <1>1, <4>1 DEF Making
    <3> QED
      BY <3>1, <3>2
  <2>3. \A i \in 1 .. pos' : Present(i)'
    BY <1>1, <1>6 DEF OneCreator, Present
  <2> QED
    BY <2>1, <2>2, <2>3
<1>11. Stay(ent, ent')
  BY <1>1, StaySame
<1> QED
  BY <1>2, <1>5, <1>7, <1>8, <1>9, <1>10, <1>11 DEF TreeInv

\* Everything in use but the root stays in a directory when a file comes into one.
LEMMA RootedGrown ==
    ASSUME NEW nm, NEW kd, NEW r, Tree(nm, kd, r), NEW e \in Entry, NEW n \in Name,
           NEW p \in Entry \cup {Null}, NEW q, p = Null => r = Null /\ q = e, p \in Entry => q = r,
           Rooted(nm, kd, r)
    PROVE  Rooted([nm EXCEPT ![e] = n],
                  IF p = Null THEN kd ELSE [kd EXCEPT ![p] = Append(kd[p], e)], q)
<1> DEFINE mm == [nm EXCEPT ![e] = n]
           kk == IF p = Null THEN kd ELSE [kd EXCEPT ![p] = Append(kd[p], e)]
<1>1. /\ kd \in [Entry -> Seq(Entry)] /\ nm \in [Entry -> Name \cup {NoName}]
      /\ \A f \in Entry : Len(kd[f]) \in Nat
  BY TreeFacts
<1>2. \A f \in Entry : f # e => mm[f] = nm[f]
  BY <1>1
<1>3. CASE p = Null
  <2>1. \A f \in Entry : nm[f] = NoName
    BY <1>3 DEF Tree
  <2> HIDE DEF mm
  <2> QED
    BY <1>2, <1>3, <2>1 DEF Rooted, mm
<1>4. CASE p # Null
  <2>1. p \in Entry /\ q = r
    BY <1>4
  <2>2. PICK s \in Seq(Entry) : s = kd[p]
    BY <1>1, <2>1
  <2>3. /\ Len(Append(s, e)) = Len(s) + 1 /\ Len(s) \in Nat
        /\ \A i \in 1 .. Len(s) : Append(s, e)[i] = s[i]
        /\ Append(s, e)[Len(s) + 1] = e
    BY AppendProperties, LenProperties
  <2>4. kk[p] = Append(s, e) /\ \A g \in Entry : g # p => kk[g] = kd[g]
    BY <1>1, <1>4, <2>1, <2>2
  <2> HIDE DEF mm, kk
  <2>5. ASSUME NEW f \in Entry, mm[f] \in Name, f # q
        PROVE  \E g \in Entry : \E i \in 1 .. Len(kk[g]) : f = kk[g][i]
    <3>1. CASE f = e
      <4>1. Len(s) + 1 \in 1 .. Len(kk[p]) /\ e = kk[p][Len(s) + 1]
        BY <2>3, <2>4
      <4> QED
        BY <2>1, <3>1, <4>1
    <3>2. CASE f # e
      <4>0. PICK g \in Entry : \E i \in 1 .. Len(kd[g]) : f = kd[g][i]
        BY <1>2, <2>1, <2>5, <3>2 DEF Rooted
      <4>1. PICK i \in 1 .. Len(kd[g]) : f = kd[g][i]
        BY <4>0
      <4>2. i \in 1 .. Len(kk[g]) /\ kk[g][i] = kd[g][i]
        <5>1. CASE g = p
          <6>1. i \in 1 .. Len(s) /\ kk[g] = Append(s, e) /\ kd[g] = s
            BY <2>2, <2>4, <5>1
          <6>2. i \in 1 .. Len(s) + 1
            BY <2>3, <6>1
          <6> QED
            BY <2>3, <6>1, <6>2
        <5>2. CASE g # p
          BY <2>4, <5>2
        <5> QED
          BY <5>1, <5>2
      <4> QED
        BY <4>1, <4>2
    <3> QED
      BY <3>1, <3>2
  <2>6. Rooted(mm, kk, q)
    BY <2>5 DEF Rooted
  <2> QED
    BY <2>6 DEF mm, kk
<1> QED
  BY <1>3, <1>4

\* A new file whose name has a directory, and a list that is cut, leave it so that every
\* child's name has one.
LEMMA SlashedGrown ==
    ASSUME NEW nm, NEW kd, NEW r, Tree(nm, kd, r), NEW e \in Entry, nm[e] = NoName, NEW n \in Name,
           NEW p \in Entry \cup {Null}, p \in Entry => DirName[n] # NoName, Slashed(nm, kd)
    PROVE  Slashed([nm EXCEPT ![e] = n],
                   IF p = Null THEN kd ELSE [kd EXCEPT ![p] = Append(kd[p], e)])
<1> DEFINE mm == [nm EXCEPT ![e] = n]
           kk == IF p = Null THEN kd ELSE [kd EXCEPT ![p] = Append(kd[p], e)]
<1>1. /\ kd \in [Entry -> Seq(Entry)] /\ nm \in [Entry -> Name \cup {NoName}]
      /\ \A f \in Entry : Len(kd[f]) \in Nat
      /\ \A f \in Entry : \A i \in 1 .. Len(kd[f]) : kd[f][i] \in Entry /\ nm[kd[f][i]] \in Name
  BY TreeFacts
<1>2. mm[e] = n /\ \A f \in Entry : f # e => mm[f] = nm[f]
  BY <1>1
<1>3. \A f \in Entry : \A i \in 1 .. Len(kd[f]) : DirName[mm[kd[f][i]]] # NoName
  <2> HIDE DEF mm
  <2>1. ASSUME NEW f \in Entry, NEW i \in 1 .. Len(kd[f])
        PROVE  DirName[mm[kd[f][i]]] # NoName
    <3>1. PICK k \in Entry : k = kd[f][i]
      BY <1>1
    <3>2. k # e /\ DirName[nm[k]] # NoName
      BY <1>1, <3>1 DEF Slashed
    <3> QED
      BY <1>2, <3>1, <3>2
  <2> QED
    BY <2>1
<1>4. CASE p = Null
  BY <1>3, <1>4 DEF Slashed
<1>5. CASE p # Null
  <2>1. p \in Entry
    BY <1>5
  <2>2. PICK s \in Seq(Entry) : s = kd[p]
    BY <1>1, <2>1
  <2>3. /\ Len(Append(s, e)) = Len(s) + 1 /\ Len(s) \in Nat
        /\ \A i \in 1 .. Len(s) : Append(s, e)[i] = s[i]
        /\ Append(s, e)[Len(s) + 1] = e
    BY AppendProperties, LenProperties
  <2>4. kk[p] = Append(s, e) /\ \A g \in Entry : g # p => kk[g] = kd[g]
    BY <1>1, <1>5, <2>1, <2>2
  <2> HIDE DEF mm, kk
  <2>5. ASSUME NEW f \in Entry, NEW i \in 1 .. Len(kk[f])
        PROVE  DirName[mm[kk[f][i]]] # NoName
    <3>1. CASE f # p
      BY <1>3, <2>4, <3>1
    <3>2. CASE f = p /\ i = Len(s) + 1
      BY <1>2, <2>1, <2>3, <2>4, <3>2
    <3>3. CASE f = p /\ i # Len(s) + 1
      <4>1. i \in 1 .. Len(s)
        BY <2>3, <2>4, <3>3
      <4>2. kk[f][i] = kd[f][i] /\ i \in 1 .. Len(kd[f])
        BY <2>2, <2>3, <2>4, <3>3, <4>1
      <4> QED
        BY <1>3, <4>2
    <3> QED
      BY <3>1, <3>2, <3>3
  <2>6. Slashed(mm, kk)
    BY <2>5 DEF Slashed
  <2> QED
    BY <2>6 DEF mm, kk
<1> QED
  BY <1>4, <1>5

LEMMA SlashedCut ==
    ASSUME NEW nm, NEW kd \in [Entry -> Seq(Entry)], Slashed(nm, kd), NEW p \in Entry, NEW e
    PROVE  Slashed(nm, [kd EXCEPT ![p] = UpTo(kd[p], e)])
<1> DEFINE kk == [kd EXCEPT ![p] = UpTo(kd[p], e)]
<1>1. PICK s \in Seq(Entry) : s = kd[p]
  OBVIOUS
<1>2. PICK u : u = UpTo(s, e)
  OBVIOUS
<1>3. /\ u \in Seq(Entry) /\ Len(s) \in Nat /\ Len(u) \in Nat /\ Len(u) <= Len(s)
      /\ \A i \in 1 .. Len(u) : u[i] = s[i]
  BY <1>2, UpToIs
<1>4. kk[p] = u /\ \A g \in Entry : g # p => kk[g] = kd[g]
  BY <1>1, <1>2
<1> HIDE DEF kk
<1>5. ASSUME NEW f \in Entry, NEW i \in 1 .. Len(kk[f])
      PROVE  DirName[nm[kk[f][i]]] # NoName
  <2>1. i \in 1 .. Len(kd[f]) /\ kk[f][i] = kd[f][i]
    <3>1. CASE f # p
      BY <1>4, <3>1
    <3>2. CASE f = p
      BY <1>1, <1>3, <1>4, <3>2
    <3> QED
      BY <3>1, <3>2
  <2> QED
    BY <2>1 DEF Slashed
<1>6. Slashed(nm, kk)
  BY <1>5 DEF Slashed
<1> QED
  BY <1>6 DEF kk

\* A file comes into the tree.
LEMMA GrowKeeps ==
    ASSUME TreeInv, FirstInv, OneCreator, Loaded, UNCHANGED <<scene, pos>>, scene \in Scenario,
           NEW t \in Thread, pc[t] \in {"create_link", "create_root"},
           NEW e \in Entry, ent[e].name = NoName, NEW p \in Entry \cup {Null}, NEW n \in Name,
           TreeOf(ent', root'), Grown(ent, ent', p, e, n), n = call[t].name,
           p = Null => pc[t] = "create_root" /\ root' = e,
           p \in Entry => pc[t] = "create_link" /\ reg[t][2] = p /\ root' = root,
           Walked(t, "create_init", e, p)
    PROVE  TreeInv' /\ FirstInv' /\ OneCreator' /\ Stay(ent, ent')
<1>1. /\ ThreadsTyped' /\ pc'[t] = "create_init" /\ call'[t] = call[t]
      /\ reg'[t][1] = e /\ reg'[t][2] = p
      /\ \A u \in Thread : u # t => pc'[u] = pc[u] /\ call'[u] = call[u] /\ reg'[u] = reg[u]
  BY DEF Walked, Inside, Holding
<1>2. /\ NM(ent') = [NM(ent) EXCEPT ![e] = n]
      /\ KD(ent') = IF p = Null THEN KD(ent) ELSE [KD(ent) EXCEPT ![p] = Append(KD(ent)[p], e)]
      /\ \A f \in Entry : f # e => ent'[f].ready = ent[f].ready /\ ent'[f].is_dir = ent[f].is_dir
      /\ ~ent'[e].ready
  BY DEF Grown, Settled
<1>3. ent'[e].name = n /\ \A f \in Entry : f # e => ent'[f].name = ent[f].name
  <2>1. \A f \in Entry : NM(ent')[f] = ent'[f].name /\ NM(ent)[f] = ent[f].name
    BY DEF NM
  <2>2. NM(ent) \in [Entry -> Name \cup {NoName}]
    BY TreeOfIs DEF TreeInv
  <2> QED
    BY <1>2, <2>1, <2>2
<1>4. \A f \in Entry : ent[f].name \in Name => f # e /\ ent'[f].name = ent[f].name
  BY <1>3
<1>5. WorkOK(t)'
  <2>1. call[t] \in Call
    BY DEF TreeInv, WorkOK, Inside
  <2> QED
    BY <1>1, <1>2, <1>3, <2>1 DEF WorkOK
<1>6. \A u \in Thread : pc[u] = "create_init" =>
        reg[u][1] \in Entry /\ reg[u][1] # e /\ ~ent'[reg[u][1]].ready
  <2>1. ASSUME NEW u \in Thread, pc[u] = "create_init"
        PROVE  reg[u][1] \in Entry /\ reg[u][1] # e /\ ~ent'[reg[u][1]].ready
    <3>1. reg[u][1] \in Entry /\ ent[reg[u][1]].name \in Name /\ ~ent[reg[u][1]].ready
      BY <2>1 DEF TreeInv, WorkOK
    <3> QED
      BY <1>2, <1>4, <3>1
  <2> QED
    BY <2>1
<1>7. \A u \in Thread : WorkOK(u)'
  BY <1>4, <1>5, <1>6, OthersWork DEF TreeInv
<1>8. Loaded' /\ Archive' = Archive /\ (FirstAlone' <=> FirstAlone)
  BY DEF Loaded, Archive, FirstAlone
<1>9. FromArchive'
  BY <1>8 DEF FromArchive
<1>10. Apart'
  <2>1. Apart
    BY DEF TreeInv
  <2>2. \A u, v \in Thread :
          pc'[u] = "create_init" /\ pc'[v] = "create_init" /\ reg'[u][1] = reg'[v][1] => u = v
    BY <1>1, <1>6, <2>1 DEF Apart
  <2>3. ~scene.concurrent' => \A u, v \in Thread : pc'[u] \in Inside /\ pc'[v] \in Inside => u = v
    <3>1. \A u \in Thread : pc'[u] \in Inside => pc[u] \in Inside
      BY <1>1 DEF Inside
    <3> QED
      BY <2>1, <3>1 DEF Apart
  <2> QED
    BY <2>2, <2>3 DEF Apart
<1>11. FirstAlone =>
         /\ Slashed(NM(ent), KD(ent)) /\ (\A u \in Thread : Steady(u, pc[u], reg[u][2]))
         /\ (pos > 0 => root # Null)
  BY DEF FirstInv
<1>12. FirstAlone /\ p = Null => root = Null /\ ~scene.concurrent
  <2>1. FirstAlone /\ p = Null => root = Null
    BY <1>11 DEF Steady
  <2>2. Archive # <<>> => pos > 0
    <3>1. PICK a : a = Archive
      OBVIOUS
    <3>2. \E R : a \in Seq(R)
      BY <3>1, ArchiveAssumption DEF Archive
    <3>3. a # <<>> => Len(a) > 0
      BY <3>2, EmptySeq
    <3> QED
      BY <3>1, <3>3 DEF Loaded
  <2> QED
    BY <1>11, <2>1, <2>2 DEF FirstAlone
<1>13. FirstInv'
  <2> SUFFICES ASSUME FirstAlone
               PROVE  /\ Slashed(NM(ent'), KD(ent'))
                      /\ \A u \in Thread : Steady(u, pc[u], reg[u][2])'
                      /\ pos' > 0 => root' # Null
    BY <1>8 DEF FirstInv
  <2>1. p \in Entry => DirName[n] # NoName
    BY <1>11 DEF Steady
  <2>2. Slashed(NM(ent'), KD(ent'))
    <3>1. PICK nm, kd : nm = NM(ent) /\ kd = KD(ent)
      OBVIOUS
    <3>2. Tree(nm, kd, root) /\ Slashed(nm, kd) /\ nm[e] = NoName
      BY <1>11, <3>1 DEF TreeInv, TreeOf, NM
    <3>3. Slashed([nm EXCEPT ![e] = n],
                  IF p = Null THEN kd ELSE [kd EXCEPT ![p] = Append(kd[p], e)])
      BY <2>1, <3>2, SlashedGrown
    <3> QED
      BY <1>2, <3>1, <3>3
  <2>3. ASSUME NEW u \in Thread
        PROVE  Steady(u, pc[u], reg[u][2])'
    <3>1. CASE u = t
      BY <1>1, <3>1 DEF Steady
    <3>2. CASE u # t
      <4>1. pc'[u] = pc[u] /\ call'[u] = call[u] /\ reg'[u] = reg[u]
        BY <1>1, <3>2
      <4>2. Steady(u, pc[u], reg[u][2])
        BY <1>11
      <4>3. CASE p = Null
        <5>1. pc[u] \notin Inside
          BY <1>12, <3>2, <4>3 DEF TreeInv, Apart, Inside
        <5> QED
          BY <4>1, <5>1 DEF Steady, Inside
      <4>4. CASE p \in Entry
        BY <4>1, <4>2, <4>4 DEF Steady
      <4> QED
        BY <4>3, <4>4
    <3> QED
      BY <3>1, <3>2
  <2>4. pos' > 0 => root' # Null
    BY <1>11
  <2> QED
    BY <2>2, <2>3, <2>4
<1>14. OneCreator'
  <2> SUFFICES ASSUME ~scene.concurrent
               PROVE  /\ Rooted(NM(ent'), KD(ent'), root')
                      /\ \A u \in Thread : Making(u)'
                      /\ \A i \in 1 .. pos' : Present(i)'
    BY <1>8 DEF OneCreator
  <2>1. p = Null => root = Null
    BY <1>12 DEF FirstAlone
  <2>2. Rooted(NM(ent'), KD(ent'), root')
    <3>1. Rooted(NM(ent), KD(ent), root) /\ Tree(NM(ent), KD(ent), root)
      BY DEF OneCreator, TreeInv, TreeOf
    <3>2. PICK nm, kd, q : nm = NM(ent) /\ kd = KD(ent) /\ q = root'
      OBVIOUS
    <3>3. Rooted([nm EXCEPT ![e] = n],
                 IF p = Null THEN kd ELSE [kd EXCEPT ![p] = Append(kd[p], e)], q)
      BY <2>1, <3>1, <3>2, RootedGrown
    <3> QED
      BY <1>2, <3>2, <3>3
  <2>3. ASSUME NEW u \in Thread
        PROVE  Making(u)'
    <3>1. CASE u = t
      <4>1. ASSUME p \in Entry
            PROVE  LastOf(KD(ent'), p, e)
        <5>1. KD(ent) \in [Entry -> Seq(Entry)]
          BY TreeOfIs DEF TreeInv
        <5>2. PICK s \in Seq(Entry) : s = KD(ent)[p]
          BY <4>1, <5>1
        <5>3. KD(ent')[p] = Append(s, e)
          BY <1>2, <4>1, <5>1, <5>2
        <5>4. Append(s, e) # <<>> /\ Append(s, e)[Len(Append(s, e))] = e
          BY AppendProperties
        <5> QED
          BY <5>3, <5>4 DEF LastOf
      <4> QED
        BY <1>1, <3>1, <4>1 DEF Making
    <3>2. CASE u # t
      <4>1. pc'[u] = pc[u] /\ pc[u] # "create_init"
        BY <1>1, <3>2 DEF TreeInv, Apart, Inside
      <4> QED
        BY <4>1 DEF Making
    <3> QED
      BY <3>1, <3>2
  <2>4. ASSUME NEW i \in 1 .. pos'
        PROVE  Present(i)'
    <3>1. PICK f \in Entry : ent[f].name = Archive[i].name /\ ent[f].ready /\ ent[f].is_dir = Archive[i].is_dir
      BY DEF OneCreator, Present
    <3>2. f # e
      <4>1. Archive[i].name # NoName
        <5>1. i \in 1 .. Len(Archive)
          BY <1>8 DEF Loaded
        <5> QED
          BY <5>1, RecordIs
      <4> QED
        BY <3>1, <4>1
    <3>3. ent'[f].name = Archive[i].name /\ ent'[f].ready /\ ent'[f].is_dir = Archive[i].is_dir
      BY <1>2, <1>3, <3>1, <3>2
    <3> QED
      BY <1>8, <3>3 DEF Present
  <2> QED
    BY <2>2, <2>3, <2>4
<1>15. Stay(ent, ent')
  <2>1. KD(ent) \in [Entry -> Seq(Entry)]
    BY TreeOfIs DEF TreeInv
  <2>2. KD(ent') = IF p = Null THEN KD(ent) ELSE [KD(ent) EXCEPT ![p] = Append(KD(ent)[p], e)]
    BY <1>2
  <2> HIDE RamfsAssumption
  <2> QED
    BY <2>1, <2>2, StayGrown
<1> QED
  BY <1>1, <1>7, <1>9, <1>10, <1>13, <1>14, <1>15 DEF TreeInv

\* Fields that are written last, and a list that ends with the entry they are of.
LEMMA InitKeeps ==
    ASSUME TreeInv, FirstInv, OneCreator, Loaded, UNCHANGED <<scene, pos>>, scene \in Scenario,
           NEW t \in Thread, CreateInit(t)
    PROVE  TreeInv' /\ FirstInv' /\ OneCreator' /\ Stay(ent, ent')
<1>1. PICK e, p, n : e = reg[t][1] /\ p = reg[t][2] /\ n = call[t].name
  OBVIOUS
<1>2. PICK dir : dir = call[t].is_dir
  OBVIOUS
<1>3. /\ pc[t] = "create_init" /\ ent' = Initialized(ent, p, e, dir) /\ root' = root
      /\ Goto(t, FoundAt(call[t].op), e, Null)
  BY <1>1, <1>2 DEF CreateInit, At
<1>4. call[t] \in Call /\ e \in Entry /\ ent[e].name \in Name /\ p \in Entry \cup {Null} /\ dir \in BOOLEAN
      /\ ~ent[e].ready
  BY <1>1, <1>2, <1>3 DEF TreeInv, WorkOK, Inside, Call
<1>5. /\ TreeOf(ent', root') /\ NM(ent') = NM(ent)
      /\ KD(ent') = IF p = Null THEN KD(ent) ELSE [KD(ent) EXCEPT ![p] = UpTo(KD(ent)[p], e)]
      /\ \A f \in Entry : f # e => ent'[f].ready = ent[f].ready /\ ent'[f].is_dir = ent[f].is_dir
  <2>1. TreeOf(ent, root)
    BY DEF TreeInv
  <2>2. /\ TreeOf(ent', root) /\ NM(ent') = NM(ent)
        /\ KD(ent') = IF p = Null THEN KD(ent) ELSE [KD(ent) EXCEPT ![p] = UpTo(KD(ent)[p], e)]
        /\ Settled(ent, ent', {e})
    <3>1. e \in Entry
      BY <1>4
    <3>2. p \in Entry \cup {Null}
      BY <1>4
    <3>3. dir \in BOOLEAN
      BY <1>4
    <3>4. Ended(ent, Initialized(ent, p, e, dir), root, p, e, dir)
      BY <2>1, <3>1, <3>2, <3>3, InitializedTree
    <3>5. ent' = Initialized(ent, p, e, dir)
      BY <1>3
    <3>6. Ended(ent, ent', root, p, e, dir)
      BY <3>4, <3>5
    <3> QED
      BY <3>6 DEF Ended
  <2> QED
    BY <1>3, <2>2 DEF Settled
<1>6. \A f \in Entry : ent'[f].name = ent[f].name
  <2>1. \A f \in Entry : NM(ent')[f] = ent'[f].name /\ NM(ent)[f] = ent[f].name
    BY DEF NM
  <2> QED
    BY <1>5, <2>1
<1>7. PICK l : l = FoundAt(call[t].op)
  OBVIOUS
<1>8. l \in {"open_lock", "idle"} /\ l \in Points /\ l \notin Inside
  BY <1>7 DEF FoundAt, Points, Inside
<1>9. Walked(t, l, e, Null)
  <2>1. e \in Places /\ Null \in Places
    BY <1>4 DEF Places
  <2> QED
    BY <1>3, <1>7, <1>8, <2>1, GotoWalks DEF TreeInv
<1>10. /\ ThreadsTyped' /\ pc'[t] = l
       /\ \A u \in Thread : u # t => pc'[u] = pc[u] /\ call'[u] = call[u] /\ reg'[u] = reg[u]
  BY <1>9 DEF Walked
<1>11. \A u \in Thread : WorkOK(u)'
  <2>1. WorkOK(t)'
    BY <1>8, <1>10 DEF WorkOK
  <2>2. ASSUME NEW u \in Thread, u # t, pc[u] = "create_init"
        PROVE  ~ent'[reg[u][1]].ready
    <3>1. reg[u][1] \in Entry /\ ~ent[reg[u][1]].ready /\ reg[u][1] # e
      BY <1>1, <1>3, <2>2 DEF TreeInv, WorkOK, Apart
    <3> QED
      BY <1>5, <3>1
  <2> QED
    BY <1>6, <1>9, <2>1, <2>2, OthersWork DEF TreeInv
<1>12. Loaded' /\ Archive' = Archive /\ (FirstAlone' <=> FirstAlone)
  BY DEF Loaded, Archive, FirstAlone
<1>13. FromArchive'
  BY <1>12 DEF FromArchive
<1>14. Apart'
  <2>1. Apart
    BY DEF TreeInv
  <2>2. \A u \in Thread : /\ pc'[u] \in Inside => pc[u] \in Inside
                          /\ pc'[u] = "create_init" => pc[u] = "create_init" /\ reg'[u] = reg[u]
    BY <1>8, <1>10 DEF Inside
  <2>3. \A u, v \in Thread :
          pc'[u] = "create_init" /\ pc'[v] = "create_init" /\ reg'[u][1] = reg'[v][1] => u = v
    BY <2>1, <2>2 DEF Apart
  <2>4. ~scene.concurrent' => \A u, v \in Thread : pc'[u] \in Inside /\ pc'[v] \in Inside => u = v
    BY <2>1, <2>2 DEF Apart
  <2> QED
    BY <2>3, <2>4 DEF Apart
<1>15. FirstInv'
  <2> SUFFICES ASSUME FirstAlone
               PROVE  /\ Slashed(NM(ent'), KD(ent'))
                      /\ \A u \in Thread : Steady(u, pc[u], reg[u][2])'
                      /\ pos' > 0 => root' # Null
    BY <1>12 DEF FirstInv
  <2>1. /\ Slashed(NM(ent), KD(ent)) /\ (\A u \in Thread : Steady(u, pc[u], reg[u][2]))
        /\ (pos > 0 => root # Null)
    BY DEF FirstInv
  <2>2. Slashed(NM(ent'), KD(ent'))
    <3>1. KD(ent) \in [Entry -> Seq(Entry)]
      BY TreeOfIs DEF TreeInv
    <3>2. PICK nm, kd : nm = NM(ent) /\ kd = KD(ent)
      OBVIOUS
    <3>3. p \in Entry => Slashed(nm, [kd EXCEPT ![p] = UpTo(kd[p], e)])
      BY <2>1, <3>1, <3>2, SlashedCut
    <3> QED
      BY <1>4, <1>5, <2>1, <3>2, <3>3
  <2>3. ASSUME NEW u \in Thread
        PROVE  Steady(u, pc[u], reg[u][2])'
    <3>1. CASE u = t
      BY <1>8, <1>10, <3>1 DEF Steady, Inside
    <3>2. CASE u # t
      <4>1. pc'[u] = pc[u] /\ call'[u] = call[u] /\ reg'[u] = reg[u]
        BY <1>10, <3>2
      <4> QED
        BY <1>3, <2>1, <4>1 DEF Steady
    <3> QED
      BY <3>1, <3>2
  <2> QED
    BY <1>3, <2>1, <2>2, <2>3
<1>16. OneCreator'
  <2> SUFFICES ASSUME ~scene.concurrent
               PROVE  /\ Rooted(NM(ent'), KD(ent'), root')
                      /\ \A u \in Thread : Making(u)'
                      /\ \A i \in 1 .. pos' : Present(i)'
    BY <1>12 DEF OneCreator
  <2>1. \A u \in Thread : pc'[u] \notin Inside
    <3>1. pc[t] \in Inside
      BY <1>3 DEF Inside
    <3> QED
      BY <1>8, <1>10, <3>1 DEF TreeInv, Apart
  <2>2. p \in Entry => LastOf(KD(ent), p, e)
    BY <1>1, <1>3 DEF OneCreator, Making
  <2>3. KD(ent') = KD(ent)
    <3>1. CASE p = Null
      BY <1>5, <3>1
    <3>2. CASE p # Null
      <4>1. Tree(NM(ent), KD(ent), root) /\ KD(ent) \in [Entry -> Seq(Entry)] /\ p \in Entry
        BY <1>4, <3>2, TreeOfIs DEF TreeInv, TreeOf
      <4>2. PICK kd \in [Entry -> Seq(Entry)] : kd = KD(ent)
        BY <4>1
      <4>3. PICK s \in Seq(Entry) : s = kd[p]
        BY <4>1
      <4>4. \A i, j \in 1 .. Len(s) : s[i] = s[j] => i = j
        BY <4>1, <4>2, <4>3 DEF Tree
      <4>5. s # <<>> /\ s[Len(s)] = e
        BY <2>2, <4>1, <4>2, <4>3 DEF LastOf
      <4>6. UpTo(s, e) = s
        BY <4>4, <4>5, UpToIs
      <4> QED
        BY <1>5, <3>2, <4>1, <4>2, <4>3, <4>6
    <3> QED
      BY <3>1, <3>2
  <2>4. Rooted(NM(ent'), KD(ent'), root')
    BY <1>3, <1>5, <2>3 DEF OneCreator
  <2>5. \A u \in Thread : Making(u)'
    BY <2>1 DEF Making, Inside
  <2>6. ASSUME NEW i \in 1 .. pos'
        PROVE  Present(i)'
    <3>1. PICK f \in Entry : ent[f].name = Archive[i].name /\ ent[f].ready /\ ent[f].is_dir = Archive[i].is_dir
      BY DEF OneCreator, Present
    <3>2. ent'[f].name = Archive[i].name /\ ent'[f].ready /\ ent'[f].is_dir = Archive[i].is_dir
      BY <1>4, <1>5, <1>6, <3>1
    <3> QED
      BY <1>12, <3>2 DEF Present
  <2> QED
    BY <2>4, <2>5, <2>6
<1>17. Stay(ent, ent')
  <2>1. KD(ent) \in [Entry -> Seq(Entry)]
    BY TreeOfIs DEF TreeInv
  <2> QED
    BY <1>4, <1>5, <2>1, StayCut
<1> QED
  BY <1>5, <1>10, <1>11, <1>13, <1>14, <1>15, <1>16, <1>17 DEF TreeInv

\* what ramfs_find gives a thread
LEMMA FindGives ==
    ASSUME TreeOf(ent, root), NEW n
    PROVE  Find(n) \in Places /\ (Find(n) \in Entry => ent[Find(n)].name = n)
<1>1. CASE root = Null
  BY <1>1 DEF Find, FindIn, Places
<1>2. CASE root # Null
  <2>1. root \in Entry
    BY <1>2 DEF TreeOf, Tree
  <2>2. PICK f : f = Find(n)
    OBVIOUS
  <2>3. f \in {Null, Wild} \/ (f \in Clo(KD(ent), root) /\ ent[f].name = n)
    BY <2>1, <2>2, FindIs DEF Find
  <2>4. Clo(KD(ent), root) \in SUBSET Entry
    BY DEF Clo
  <2> QED
    BY <2>2, <2>3, <2>4 DEF Places
<1> QED
  BY <1>1, <1>2

LEMMA SameIsSame ==
    ASSUME TreeInv, UNCHANGED ent
    PROVE  SameTree(ent, ent')
  BY DEF TreeInv, TreeOf, SameTree, Settled

\* the points at which it is settled where the new entry goes
Creating == {"create_dir", "create_check", "create_link", "create_root", "create_init"}

LEMMA SteadyElse ==
    ASSUME NEW t, NEW l, NEW p, l \notin Creating
    PROVE  Steady(t, l, p) /\ l # "create_init" /\ l \notin {"create_check", "create_link"}
  BY DEF Steady, Creating

\* A step of a call that writes no entry and does not end in the middle of creating one.
LEMMA LookTree ==
    ASSUME TreeInv, FirstInv, OneCreator, Loaded, UNCHANGED <<scene, pos>>, NEW t \in Thread, NEW l \in Points,
           NEW f \in Places, NEW p \in Places, Goto(t, l, f, p), UNCHANGED <<root, ent>>,
           l \in Inside => pc[t] \in Inside, l \notin Creating
    PROVE  TreeInv' /\ FirstInv' /\ OneCreator' /\ Stay(ent, ent')
<1>1. Walked(t, l, f, p)
  BY GotoWalks DEF TreeInv
<1>2. SameTree(ent, ent') /\ root' = root
  BY SameIsSame
<1> QED
  BY <1>1, <1>2, SteadyElse, StillKeeps

LEMMA BeginTree ==
    ASSUME TreeInv, FirstInv, OneCreator, Loaded, UNCHANGED <<scene, pos>>, scene \in Scenario,
           NEW t \in Thread, Begin(t)
    PROVE  TreeInv' /\ FirstInv' /\ OneCreator' /\ Stay(ent, ent')
<1>1. PICK c \in Call : /\ call' = [call EXCEPT ![t] = c]
                        /\ pc' = [pc EXCEPT ![t] = IF c.op = "create" THEN "create_find" ELSE "find"]
  BY DEF Begin
<1>2. PICK l : l = IF c.op = "create" THEN "create_find" ELSE "find"
  OBVIOUS
<1>3. /\ UNCHANGED <<root, ent, reg>> /\ pc' = [pc EXCEPT ![t] = l] /\ l \in {"create_find", "find"}
      /\ scene.concurrent \/ \A u \in Thread : pc[u] \notin Inside
  BY <1>1, <1>2 DEF Begin
<1>4. l \in Points
  BY <1>3 DEF Points, Inside
<1>5. ThreadsTyped'
  BY <1>1, <1>3, <1>4 DEF TreeInv, ThreadsTyped
<1>6. /\ pc'[t] = l /\ call'[t] = c
      /\ \A u \in Thread : u # t => pc'[u] = pc[u] /\ call'[u] = call[u]
  BY <1>1, <1>3 DEF TreeInv, ThreadsTyped
<1>7. \A u \in Thread : WorkOK(u)'
  <2> SUFFICES ASSUME NEW u \in Thread
               PROVE  WorkOK(u)'
    OBVIOUS
  <2>1. CASE u = t
    BY <1>3, <1>6, <2>1 DEF WorkOK
  <2>2. CASE u # t
    BY <1>3, <1>6, <2>2 DEF TreeInv, WorkOK
  <2> QED
    BY <2>1, <2>2
<1>8. Loaded' /\ Archive' = Archive /\ (FirstAlone' <=> FirstAlone)
  BY DEF Loaded, Archive, FirstAlone
<1>9. TreeOf(ent', root') /\ FromArchive'
  BY <1>3, <1>8 DEF TreeInv, FromArchive
<1>10. \A u \in Thread : pc'[u] = "create_init" => pc[u] = "create_init" /\ reg'[u] = reg[u]
  BY <1>3, <1>6
<1>11. Apart'
  <2>1. \A u, v \in Thread :
          pc'[u] = "create_init" /\ pc'[v] = "create_init" /\ reg'[u][1] = reg'[v][1] => u = v
    BY <1>10 DEF TreeInv, Apart
  <2>2. ~scene.concurrent' => \A u, v \in Thread : pc'[u] \in Inside /\ pc'[v] \in Inside => u = v
    BY <1>3, <1>6
  <2> QED
    BY <2>1, <2>2 DEF Apart
<1>12. FirstInv'
  <2> SUFFICES ASSUME FirstAlone
               PROVE  /\ Slashed(NM(ent'), KD(ent'))
                      /\ \A u \in Thread : Steady(u, pc[u], reg[u][2])'
                      /\ pos' > 0 => root' # Null
    BY <1>8 DEF FirstInv
  <2>1. /\ Slashed(NM(ent), KD(ent)) /\ (\A u \in Thread : Steady(u, pc[u], reg[u][2]))
        /\ (pos > 0 => root # Null)
    BY DEF FirstInv
  <2>2. ASSUME NEW u \in Thread
        PROVE  Steady(u, pc[u], reg[u][2])'
    <3>1. CASE u = t
      BY <1>3, <1>6, <3>1 DEF Steady
    <3>2. CASE u # t
      BY <1>3, <1>6, <2>1, <3>2 DEF Steady
    <3> QED
      BY <3>1, <3>2
  <2> QED
    BY <1>3, <2>1, <2>2
<1>13. OneCreator'
  <2> SUFFICES ASSUME ~scene.concurrent
               PROVE  /\ Rooted(NM(ent'), KD(ent'), root')
                      /\ \A u \in Thread : Making(u)'
                      /\ \A i \in 1 .. pos' : Present(i)'
    BY <1>8 DEF OneCreator
  <2>1. \A u \in Thread : Making(u)'
    BY <1>3, <1>10 DEF OneCreator, Making
  <2>2. Rooted(NM(ent'), KD(ent'), root') /\ \A i \in 1 .. pos' : Present(i)'
    BY <1>3, <1>8 DEF OneCreator, Present
  <2> QED
    BY <2>1, <2>2
<1>14. Stay(ent, ent')
  BY <1>3, StaySame
<1> QED
  BY <1>5, <1>7, <1>9, <1>11, <1>12, <1>13, <1>14 DEF TreeInv

\* The lookups (ramfs.c:47-68, 281-345).
LEMMA FindFirstTree ==
    ASSUME TreeInv, FirstInv, OneCreator, Loaded, UNCHANGED <<scene, pos>>, NEW t \in Thread, FindFirst(t)
    PROVE  TreeInv' /\ FirstInv' /\ OneCreator' /\ Stay(ent, ent')
<1>1. PICK f, op : f = Find(call[t].name) /\ op = call[t].op
  OBVIOUS
<1>2. PICK l : l = IF f = Wild THEN "fault"
                   ELSE IF op = "readdir" THEN (IF f # Null THEN "print" ELSE "idle")
                   ELSE IF f # Null THEN FoundAt(op) ELSE "create_find"
  OBVIOUS
<1>3. /\ pc[t] = "find" /\ Goto(t, l, f, Null) /\ UNCHANGED <<root, ent>>
  BY <1>1, <1>2 DEF FindFirst, At
<1>4. l \in {"fault", "print", "idle", "open_lock", "create_find"}
  BY <1>2 DEF FoundAt
<1>5. l \in Points /\ l \notin Creating /\ pc[t] \in Inside
  BY <1>3, <1>4 DEF Points, Inside, Creating
<1>6. f \in Places /\ Null \in Places
  BY <1>1, FindGives DEF TreeInv, Places
<1> QED
  BY <1>3, <1>5, <1>6, LookTree

LEMMA CreateFindTree ==
    ASSUME TreeInv, FirstInv, OneCreator, Loaded, UNCHANGED <<scene, pos>>, NEW t \in Thread, CreateFind(t)
    PROVE  TreeInv' /\ FirstInv' /\ OneCreator' /\ Stay(ent, ent')
<1>1. PICK f, op : f = Find(call[t].name) /\ op = call[t].op
  OBVIOUS
<1>2. PICK l : l = IF f = Wild THEN "fault" ELSE IF f # Null THEN FoundAt(op) ELSE "create_parent"
  OBVIOUS
<1>3. /\ pc[t] = "create_find" /\ Goto(t, l, f, Null) /\ UNCHANGED <<root, ent>>
  BY <1>1, <1>2 DEF CreateFind, At
<1>4. l \in {"fault", "idle", "open_lock", "create_parent"}
  BY <1>2 DEF FoundAt
<1>5. l \in Points /\ l \notin Creating /\ pc[t] \in Inside
  BY <1>3, <1>4 DEF Points, Inside, Creating
<1>6. f \in Places /\ Null \in Places
  BY <1>1, FindGives DEF TreeInv, Places
<1> QED
  BY <1>3, <1>5, <1>6, LookTree

LEMMA OpenRetryTree ==
    ASSUME TreeInv, FirstInv, OneCreator, Loaded, UNCHANGED <<scene, pos>>, NEW t \in Thread, OpenRetry(t)
    PROVE  TreeInv' /\ FirstInv' /\ OneCreator' /\ Stay(ent, ent')
<1>1. PICK f : f = Find(call[t].name)
  OBVIOUS
<1>2. PICK l : l = IF f \in {Null, Wild} THEN "fault" ELSE "open_lock"
  OBVIOUS
<1>3. /\ pc[t] = "open_retry" /\ Goto(t, l, f, Null) /\ UNCHANGED <<root, ent>>
  BY <1>1, <1>2 DEF OpenRetry, At
<1>4. l \in {"fault", "open_lock"}
  BY <1>2
<1>5. l \in Points /\ l \notin Creating /\ pc[t] \in Inside
  BY <1>3, <1>4 DEF Points, Inside, Creating
<1>6. f \in Places /\ Null \in Places
  BY <1>1, FindGives DEF TreeInv, Places
<1> QED
  BY <1>3, <1>5, <1>6, LookTree

\* A directory is looked for that the name gives, or there is no root (ramfs.c:233-246).
LEMMA CreateParentTree ==
    ASSUME TreeInv, FirstInv, OneCreator, Loaded, UNCHANGED <<scene, pos>>, NEW t \in Thread,
           CreateParent(t)
    PROVE  TreeInv' /\ FirstInv' /\ OneCreator' /\ Stay(ent, ent')
<1>1. PICK l : l = IF DirName[call[t].name] = NoName /\ root # Null THEN "fault" ELSE "create_dir"
  OBVIOUS
<1>2. /\ pc[t] = "create_parent" /\ Goto(t, l, Null, Null) /\ UNCHANGED <<root, ent>>
  BY <1>1 DEF CreateParent, At
<1>3. l \in {"fault", "create_dir"}
  BY <1>1
<1>4. l \in Points /\ l # "create_init" /\ pc[t] \in Inside /\ l \notin {"create_check", "create_link"}
  BY <1>2, <1>3 DEF Points, Inside
<1>5. Null \in Places
  BY DEF Places
<1>6. Walked(t, l, Null, Null)
  BY <1>2, <1>4, <1>5, GotoWalks DEF TreeInv
<1>7. Steady(t, l, Null)
  BY <1>1 DEF Steady
<1>8. SameTree(ent, ent') /\ root' = root
  BY <1>2, SameIsSame
<1> QED
  BY <1>4, <1>6, <1>7, <1>8, StillKeeps

\* The directory that is found is the one of the name (ramfs.c:267).
LEMMA FindParentTree ==
    ASSUME TreeInv, FirstInv, OneCreator, Loaded, UNCHANGED <<scene, pos>>, NEW t \in Thread,
           FindParent(t)
    PROVE  TreeInv' /\ FirstInv' /\ OneCreator' /\ Stay(ent, ent')
<1>1. PICK dir, p : dir = DirOf(call[t].name) /\ p = Find(dir)
  OBVIOUS
<1>2. PICK l : l = IF p = Wild THEN "fault" ELSE "create_check"
  OBVIOUS
<1>3. /\ pc[t] = "create_dir" /\ Goto(t, l, Null, p) /\ UNCHANGED <<root, ent>>
  BY <1>1, <1>2 DEF FindParent, At
<1>4. l \in {"fault", "create_check"} /\ (l = "create_check" => p # Wild)
  BY <1>2
<1>5. l \in Points /\ l # "create_init" /\ pc[t] \in Inside
  BY <1>3, <1>4 DEF Points, Inside
<1>6. p \in Places /\ Null \in Places /\ (p \in Entry => ent[p].name = dir)
  BY <1>1, FindGives DEF TreeInv, Places
<1>7. Walked(t, l, Null, p)
  BY <1>3, <1>5, <1>6, GotoWalks DEF TreeInv
<1>8. p \in Entry => ent[p].name \in Name /\ DirOf(call[t].name) = ent[p].name
  <2>1. NM(ent) \in [Entry -> Name \cup {NoName}] /\ \A e \in Entry : NM(ent)[e] = ent[e].name
    BY TreeOfIs DEF TreeInv
  <2>2. call[t] \in Call
    BY <1>3 DEF TreeInv, WorkOK, Inside
  <2>3. dir # NoName
    BY <1>1, <2>2 DEF DirOf, Call
  <2> QED
    BY <1>1, <1>6, <2>1, <2>3
<1>9. l = "create_check" => p \in Entry \cup {Null}
  BY <1>4, <1>6 DEF Places
<1>10. FirstAlone => Steady(t, l, p)
  <2>1. FirstAlone => Steady(t, pc[t], reg[t][2])
    BY DEF FirstInv
  <2>2. FirstAlone /\ DirName[call[t].name] = NoName => root = Null
    BY <1>3, <2>1 DEF Steady
  <2>3. root = Null => p = Null
    BY <1>1 DEF Find, FindIn
  <2> QED
    BY <1>4, <2>2, <2>3 DEF Steady
<1>11. SameTree(ent, ent') /\ root' = root
  BY <1>3, SameIsSame
<1> QED
  BY <1>4, <1>5, <1>7, <1>8, <1>9, <1>10, <1>11, StillKeeps

\* ... or there was none, when there is no root (ramfs.c:269-274).
LEMMA CheckParentTree ==
    ASSUME TreeInv, FirstInv, OneCreator, Loaded, UNCHANGED <<scene, pos>>, NEW t \in Thread,
           CheckParent(t)
    PROVE  TreeInv' /\ FirstInv' /\ OneCreator' /\ Stay(ent, ent')
<1>1. PICK p : p = reg[t][2]
  OBVIOUS
<1>2. PICK l : l = IF p = Null /\ root # Null THEN FailedAt(call[t].op) ELSE "create_link"
  OBVIOUS
<1>3. /\ pc[t] = "create_check" /\ Goto(t, l, Null, p) /\ UNCHANGED <<root, ent>>
  BY <1>1, <1>2 DEF CheckParent, At
<1>4. l \in {"fault", "open_retry", "idle", "create_link"}
  BY <1>2 DEF FailedAt
<1>5. l \in Points /\ l # "create_init" /\ pc[t] \in Inside
  BY <1>3, <1>4 DEF Points, Inside
<1>6. /\ p \in Entry \cup {Null} /\ p \in Places /\ Null \in Places
      /\ p \in Entry => ent[p].name \in Name /\ DirOf(call[t].name) = ent[p].name
  BY <1>1, <1>3 DEF TreeInv, WorkOK, Places
<1>7. Walked(t, l, Null, p)
  BY <1>3, <1>5, <1>6, GotoWalks DEF TreeInv
<1>8. FirstAlone => Steady(t, l, p)
  <2>1. FirstAlone => Steady(t, pc[t], reg[t][2])
    BY DEF FirstInv
  <2> QED
    BY <1>1, <1>3, <1>4, <2>1 DEF Steady
<1>9. SameTree(ent, ent') /\ root' = root
  BY <1>3, SameIsSame
<1> QED
  BY <1>5, <1>6, <1>7, <1>8, <1>9, StillKeeps

\* fentry_create looks again (ramfs.c:37-47).
LEMMA CreateFirstTree ==
    ASSUME TreeInv, FirstInv, OneCreator, Loaded, UNCHANGED <<scene, pos>>, NEW t \in Thread,
           CreateFirst(t)
    PROVE  TreeInv' /\ FirstInv' /\ OneCreator' /\ Stay(ent, ent')
<1>1. PICK l : l = IF root = Null THEN "create_root" ELSE "fault"
  OBVIOUS
<1>2. /\ pc[t] = "create_link" /\ Goto(t, l, Null, Null) /\ UNCHANGED <<root, ent>>
  BY <1>1 DEF CreateFirst, At
<1>3. l \in {"fault", "create_root"}
  BY <1>1
<1>4. l \in Points /\ l # "create_init" /\ pc[t] \in Inside /\ l \notin {"create_check", "create_link"}
  BY <1>2, <1>3 DEF Points, Inside
<1>5. Null \in Places
  BY DEF Places
<1>6. Walked(t, l, Null, Null)
  BY <1>2, <1>4, <1>5, GotoWalks DEF TreeInv
<1>7. Steady(t, l, Null)
  BY <1>1 DEF Steady
<1>8. SameTree(ent, ent') /\ root' = root
  BY <1>2, SameIsSame
<1> QED
  BY <1>4, <1>6, <1>7, <1>8, StillKeeps

\* What a thread does with the file that it has (ramfs.c:351-449).
LEMMA OpenLockTree ==
    ASSUME TreeInv, FirstInv, OneCreator, Loaded, UNCHANGED <<scene, pos>>, NEW t \in Thread, OpenLock(t)
    PROVE  TreeInv' /\ FirstInv' /\ OneCreator' /\ Stay(ent, ent')
<1>1. PICK f : f = reg[t][1]
  OBVIOUS
<1>2. UNCHANGED root /\ f \in Places /\ Null \in Places
  BY <1>1 DEF OpenLock, TreeInv, ThreadsTyped, Places
<1>3. /\ "open" \in Points /\ "open" \notin Inside /\ "open" \notin Creating
      /\ "fault" \in Points /\ "fault" \notin Inside /\ "fault" \notin Creating
  BY DEF Points, Inside, Creating
<1>4. CASE ent[f].ready
  <2>1. ent' = [ent EXCEPT ![f].owner = t] /\ Goto(t, "open", f, Null)
    BY <1>1, <1>4 DEF OpenLock
  <2>2. SameTree(ent, ent')
    <3>1. ent \in [Entry -> Fields]
      BY DEF TreeInv, TreeOf
    <3>2. \A x \in Thread \cup {Null} : SameTree(ent, [ent EXCEPT ![f].owner = x])
      BY <3>1, FieldKeeps
    <3> QED
      BY <2>1, <3>2
  <2>3. Walked(t, "open", f, Null)
    BY <1>2, <1>3, <2>1, GotoWalks DEF TreeInv
  <2> QED
    BY <1>2, <1>3, <2>2, <2>3, SteadyElse, StillKeeps
<1>5. CASE ~ent[f].ready
  <2>1. Goto(t, "fault", Null, Null) /\ UNCHANGED ent
    BY <1>1, <1>5 DEF OpenLock
  <2> QED
    BY <1>2, <1>3, <2>1, LookTree
<1> QED
  BY <1>4, <1>5

LEMMA CloseTree ==
    ASSUME TreeInv, FirstInv, OneCreator, Loaded, UNCHANGED <<scene, pos>>, NEW t \in Thread, Close(t)
    PROVE  TreeInv' /\ FirstInv' /\ OneCreator' /\ Stay(ent, ent')
<1>1. PICK f : f = reg[t][1]
  OBVIOUS
<1>2. /\ ent' = [ent EXCEPT ![f].owner = Null] /\ Goto(t, "idle", Null, Null) /\ UNCHANGED root
  BY <1>1 DEF Close
<1>3. SameTree(ent, ent')
  <2>1. ent \in [Entry -> Fields]
    BY DEF TreeInv, TreeOf
  <2>2. \A x \in Thread \cup {Null} : SameTree(ent, [ent EXCEPT ![f].owner = x])
    BY <2>1, FieldKeeps
  <2> QED
    BY <1>2, <2>2
<1>4. "idle" \in Points /\ "idle" \notin Inside /\ "idle" \notin Creating /\ Null \in Places
  BY DEF Points, Inside, Places, Creating
<1>5. Walked(t, "idle", Null, Null)
  BY <1>2, <1>4, GotoWalks DEF TreeInv
<1> QED
  BY <1>2, <1>3, <1>4, <1>5, SteadyElse, StillKeeps

LEMMA ReaddirTree ==
    ASSUME TreeInv, FirstInv, OneCreator, Loaded, UNCHANGED <<scene, pos>>, NEW t \in Thread,
           Readdir(t)
    PROVE  TreeInv' /\ FirstInv' /\ OneCreator' /\ Stay(ent, ent')
<1>1. PICK f : f = reg[t][1]
  OBVIOUS
<1>2. PICK l : l \in {"idle", "fault"} /\ Goto(t, l, f, Null)
  BY <1>1 DEF Readdir
<1>3. UNCHANGED <<root, ent>>
  BY DEF Readdir
<1>4. l \in Points /\ l \notin Inside /\ l \notin Creating
  BY <1>2 DEF Points, Inside, Creating
<1>5. f \in Places /\ Null \in Places
  BY <1>1 DEF TreeInv, ThreadsTyped, Places
<1> QED
  BY <1>2, <1>3, <1>4, <1>5, LookTree

\* Whatever is written, a size stays in its range.
LEMMA SizeKeeps ==
    ASSUME NEW en \in [Entry -> Fields], NEW f, NEW seek \in 0 .. MaxSize, NEW count \in 0 .. MaxSize
    PROVE  SameTree(en, [en EXCEPT ![f].size = SizeAfterWrite(en, f, seek, count)])
<1>1. CASE f \in Entry
  <2>1. en[f].size \in 0 .. 2 * MaxSize
    <3>1. PICK Z : Z = 0 .. 2 * MaxSize
      OBVIOUS
    <3>2. PICK K : K = Seq(Entry)
      OBVIOUS
    <3>3. Fields = Fentry(Name \cup {NoName}, K, Z, Thread \cup {Null})
      BY <3>1, <3>2 DEF Fields
    <3>4. en[f].size \in Z
      BY <1>1, <3>3 DEF Fentry
    <3> QED
      BY <3>1, <3>4
  <2>2. seek + count \in 0 .. 2 * MaxSize
    OBVIOUS
  <2>3. SizeAfterWrite(en, f, seek, count) \in 0 .. 2 * MaxSize
    BY <2>1, <2>2 DEF SizeAfterWrite
  <2> QED
    BY <2>3, FieldKeeps
<1>2. CASE f \notin Entry
  <2>1. [en EXCEPT ![f].size = SizeAfterWrite(en, f, seek, count)] = en
    BY <1>2
  <2> QED
    BY <2>1 DEF SameTree, Settled
<1> QED
  BY <1>1, <1>2

LEMMA WriteTree ==
    ASSUME TreeInv, FirstInv, OneCreator, Loaded, UNCHANGED <<scene, pos>>, NEW t \in Thread, Write(t)
    PROVE  TreeInv' /\ FirstInv' /\ OneCreator' /\ Stay(ent, ent')
<1>1. PICK f : f = reg[t][1]
  OBVIOUS
<1>2. PICK seek, count \in 0 .. MaxSize :
        \/ Goto(t, "fault", f, Null) /\ UNCHANGED ent
        \/ /\ ent' = [ent EXCEPT ![f].size = SizeAfterWrite(ent, f, seek, count)]
           /\ UNCHANGED <<pc, call, reg>>
  BY <1>1 DEF Write
<1>3. pc[t] = "open" /\ UNCHANGED root /\ f \in Places /\ Null \in Places
  BY <1>1 DEF Write, At, TreeInv, ThreadsTyped, Places
<1>4. /\ "fault" \in Points /\ "fault" \notin Inside /\ "fault" \notin Creating
      /\ "open" \notin Inside /\ "open" \notin Creating
  BY DEF Points, Inside, Creating
<1>5. CASE Goto(t, "fault", f, Null) /\ UNCHANGED ent
  BY <1>3, <1>4, <1>5, LookTree
<1>6. CASE /\ ent' = [ent EXCEPT ![f].size = SizeAfterWrite(ent, f, seek, count)]
           /\ UNCHANGED <<pc, call, reg>>
  <2>1. SameTree(ent, ent')
    <3>1. ent \in [Entry -> Fields]
      BY DEF TreeInv, TreeOf
    <3>2. SameTree(ent, [ent EXCEPT ![f].size = SizeAfterWrite(ent, f, seek, count)])
      BY <3>1, SizeKeeps
    <3> QED
      BY <1>6, <3>2
  <2>2. Walked(t, "open", reg[t][1], reg[t][2])
    BY <1>3, <1>4, <1>6 DEF Walked, TreeInv, ThreadsTyped
  <2> QED
    BY <1>3, <1>4, <2>1, <2>2, SteadyElse, StillKeeps
<1> QED
  BY <1>2, <1>5, <1>6

\* A file becomes visible (ramfs.c:120-143, 249-279).
LEMMA CreateRootTree ==
    ASSUME TreeInv, FirstInv, OneCreator, Loaded, UNCHANGED <<scene, pos>>, scene \in Scenario,
           NEW t \in Thread, CreateRoot(t)
    PROVE  TreeInv' /\ FirstInv' /\ OneCreator' /\ Stay(ent, ent')
<1>1. pc[t] = "create_root" /\ Room
  BY DEF CreateRoot, At
<1>2. "create_init" \in Points /\ Null \in Places
  BY DEF Points, Inside, Places
<1>3. PICK e, n : e = Fresh(ent) /\ n = call[t].name
  OBVIOUS
<1>4. /\ ent' = Linked(ent, Null, e, n) /\ root' = e /\ Goto(t, "create_init", e, Null)
  BY <1>3 DEF CreateRoot
<1>5. e \in Entry /\ ent[e].name = NoName /\ e \in Places
  BY <1>1, <1>3, FreshIs DEF Room, Places
<1>6. n \in Name
  BY <1>1, <1>3 DEF TreeInv, WorkOK, Inside, Call
<1>7. TreeOf(ent', root') /\ Grown(ent, ent', Null, e, n)
  <2>1. PICK em : em = Linked(ent, Null, e, n)
    OBVIOUS
  <2>2. TreeOf(ent, root)
    BY DEF TreeInv
  <2>3. TreeOf(em, e) /\ Grown(ent, em, Null, e, n)
    BY <1>3, <1>5, <1>6, <2>1, <2>2, LinkedTree
  <2> QED
    BY <1>4, <2>1, <2>3
<1>8. Walked(t, "create_init", e, Null)
  BY <1>2, <1>4, <1>5, GotoWalks DEF TreeInv
<1>9. Null \in Entry \cup {Null} /\ Null \notin Entry
  OBVIOUS
<1> QED
  BY <1>1, <1>3, <1>4, <1>5, <1>6, <1>7, <1>8, <1>9, GrowKeeps

LEMMA CreateLinkTree ==
    ASSUME TreeInv, FirstInv, OneCreator, Loaded, UNCHANGED <<scene, pos>>, scene \in Scenario,
           NEW t \in Thread, CreateLink(t)
    PROVE  TreeInv' /\ FirstInv' /\ OneCreator' /\ Stay(ent, ent')
<1>1. PICK e, p, n : e = Fresh(ent) /\ p = reg[t][2] /\ n = call[t].name
  OBVIOUS
<1>2. PICK l, em : em = Linked(ent, p, e, n)
                   /\ l = IF em = ent THEN FailedAt(call[t].op) ELSE "create_init"
  OBVIOUS
<1>3. /\ pc[t] = "create_link" /\ p # Null /\ Room /\ UNCHANGED root
      /\ IF ~ent[p].ready THEN Goto(t, "fault", Null, Null) /\ UNCHANGED ent
         ELSE ent' = em /\ Goto(t, l, e, p)
  BY <1>1, <1>2 DEF CreateLink, At
<1>4. e \in Entry /\ ent[e].name = NoName
  BY <1>1, <1>3, FreshIs DEF Room
<1>5. n \in Name /\ p \in Entry /\ ent[p].name \in Name /\ DirOf(n) = ent[p].name
  <2>1. call[t] \in Call
    BY <1>3 DEF TreeInv, WorkOK, Inside
  <2>2. /\ reg[t][2] \in Entry \cup {Null}
        /\ reg[t][2] \in Entry => /\ ent[reg[t][2]].name \in Name
                                  /\ DirOf(call[t].name) = ent[reg[t][2]].name
    BY <1>3 DEF TreeInv, WorkOK
  <2> QED
    BY <1>1, <1>3, <2>1, <2>2 DEF Call
<1>6. /\ "create_init" \in Points /\ "fault" \in Points /\ "fault" \notin Inside
      /\ "fault" \notin Creating /\ Null \in Places /\ e \in Places /\ p \in Places
      /\ "create_link" \in Inside
  BY <1>4, <1>5 DEF Points, Inside, Places, Creating
<1>7. CASE ~ent[p].ready
  <2>1. Goto(t, "fault", Null, Null) /\ UNCHANGED <<root, ent>>
    BY <1>3, <1>7
  <2> QED
    BY <1>6, <2>1, LookTree
<1>8. CASE ent[p].ready /\ em = ent
  <2>1. l \in {"open_retry", "fault", "idle"} /\ Goto(t, l, e, p) /\ UNCHANGED <<root, ent>>
    BY <1>2, <1>3, <1>8 DEF FailedAt
  <2>2. l \in Points /\ l \notin Creating
    BY <2>1 DEF Points, Inside, Creating
  <2> QED
    BY <1>3, <1>6, <2>1, <2>2, LookTree
<1>9. CASE ent[p].ready /\ em # ent
  <2>1. ent' = em /\ Goto(t, "create_init", e, p) /\ root' = root
    BY <1>2, <1>3, <1>9
  <2>2. TreeOf(em, root) /\ Grown(ent, em, p, e, n)
    <3>1. TreeOf(ent, root)
      BY DEF TreeInv
    <3> QED
      BY <1>1, <1>2, <1>3, <1>4, <1>5, <1>9, <3>1, LinkedTree
  <2>3. Walked(t, "create_init", e, p)
    BY <1>6, <2>1, GotoWalks DEF TreeInv
  <2> QED
    BY <1>1, <1>3, <1>4, <1>5, <2>1, <2>2, <2>3, GrowKeeps
<1> QED
  BY <1>7, <1>8, <1>9

LEMMA StepTree ==
    ASSUME TreeInv, FirstInv, OneCreator, Loaded, UNCHANGED pos, scene \in Scenario,
           NEW t \in Thread, Step(t)
    PROVE  TreeInv' /\ FirstInv' /\ OneCreator' /\ Stay(ent, ent')
<1>1. UNCHANGED scene
  BY DEF Step
<1> QED
  BY <1>1, BeginTree, FindFirstTree, CreateFindTree, CreateParentTree, FindParentTree,
     CheckParentTree, CreateFirstTree, CreateRootTree, CreateLinkTree, InitKeeps, OpenRetryTree,
     OpenLockTree, ReaddirTree, WriteTree, CloseTree DEF Step

\* Everything that is in some directory is below the root.
LEMMA RootedMeans ==
    ASSUME NEW nm, NEW kd, NEW r \in Entry, Tree(nm, kd, r), Rooted(nm, kd, r)
    PROVE  \A e \in Entry : nm[e] \in Name => e \in Clo(kd, r)
<1> DEFINE S == {e \in Entry : nm[e] \in Name /\ e \notin Clo(kd, r)}
<1>1. SUFFICES ASSUME S # {}
               PROVE  FALSE
  OBVIOUS
<1>2. PICK e \in S : \A f \in S : Lvl(f) <= Lvl(e)
  <2>1. S \in SUBSET Entry
    OBVIOUS
  <2> HIDE DEF S
  <2> QED
    BY <1>1, <2>1, Extremes
<1>3. e \in Entry /\ nm[e] \in Name /\ e \notin Clo(kd, r)
  OBVIOUS
<1>4. kd \in [Entry -> Seq(Entry)] /\ r \in Clo(kd, r) /\ Closed(kd, Clo(kd, r))
  BY TreeFacts, CloIs
<1>5. PICK p \in Entry : \E i \in 1 .. Len(kd[p]) : e = kd[p][i]
  BY <1>3, <1>4 DEF Rooted
<1>6. p \notin Clo(kd, r)
  BY <1>3, <1>4, <1>5 DEF Closed
<1>7. p \in S
  <2>1. nm[p] \in Name
    BY <1>5, TreeFacts
  <2> QED
    BY <1>6, <2>1
<1>8. Lvl(e) < Lvl(p) /\ Lvl(p) \in Nat /\ Lvl(e) \in Nat
  <2>1. /\ \A f \in Entry : Lvl(f) \in Nat /\ Lvl(f) <= MaxEntries
        /\ \A f \in Entry : \A i \in 1 .. Len(kd[f]) : Lvl(kd[f][i]) < Lvl(f)
    BY Levels
  <2> QED
    BY <1>3, <1>5, <2>1
<1>9. Lvl(p) <= Lvl(e)
  BY <1>2, <1>7
<1> QED
  BY <1>8, <1>9

\* When everything is ready ramfs_find finds what is below the root, and nothing else.
LEMMA FindReady ==
    ASSUME NEW en, NEW r \in Entry, TreeOf(en, r), NEW n,
           \A e \in Entry : en[e].name \in Name => en[e].ready
    PROVE  LET f == FindIn(r, en, n)
           IN  \/ f \in Entry /\ en[f].name = n /\ n \in Name
               \/ f = Null /\ \A e \in Clo(KD(en), r) : en[e].name # n
<1>1. /\ KD(en) \in [Entry -> Seq(Entry)] /\ Tree(NM(en), KD(en), r)
      /\ \A e \in Entry : NM(en)[e] = en[e].name
  BY TreeOfIs DEF TreeOf
<1>2. Clo(KD(en), r) \in SUBSET Entry
  BY <1>1, CloIs
<1>3. \A e \in Clo(KD(en), r) : en[e].name \in Name
  BY <1>1, <1>2, NamesUnique
<1>4. \A e \in Clo(KD(en), r) : en[e].ready
  BY <1>2, <1>3
<1>5. PICK f : f = FindIn(r, en, n)
  OBVIOUS
<1>6. \/ f \in Clo(KD(en), r) /\ en[f].name = n
      \/ f = Null /\ \A e \in Clo(KD(en), r) : en[e].name # n
  BY <1>4, <1>5, FindIs
<1> QED
  BY <1>2, <1>3, <1>5, <1>6

\* When everything that was created is ready, and nothing is cut off, each file is
\* found by its name (ramfs.c:47-68, 281-313).
LEMMA FindFinds ==
    ASSUME NEW en, NEW r, TreeOf(en, r), Rooted(NM(en), KD(en), r), Slashed(NM(en), KD(en)),
           \A e \in Entry : en[e].name \in Name => en[e].ready,
           NEW e \in Entry, en[e].name \in Name
    PROVE  FindIn(r, en, en[e].name) = e /\ r \in Entry
<1>1. /\ Tree(NM(en), KD(en), r) /\ KD(en) \in [Entry -> Seq(Entry)]
      /\ \A f \in Entry : NM(en)[f] = en[f].name
  BY TreeOfIs DEF TreeOf
<1>2. r \in Entry
  BY <1>1, TreeFacts
<1>3. e \in Clo(KD(en), r)
  BY <1>1, <1>2, RootedMeans
<1>4. Clo(KD(en), r) \in SUBSET Entry
  BY <1>1, <1>2, CloIs
<1>5. \A f \in Clo(KD(en), r) : en[f].name \in Name
  BY <1>1, <1>2, <1>4, NamesUnique
<1>6. \A f \in Clo(KD(en), r) : en[f].ready
  BY <1>4, <1>5
<1>7. PICK n : n = en[e].name
  OBVIOUS
<1>8. PICK f : f = FindIn(r, en, n)
  OBVIOUS
<1>9. f \in Clo(KD(en), r) /\ en[f].name = n
  <2>1. \/ f \in Clo(KD(en), r) /\ en[f].name = n
        \/ f = Null /\ \A g \in Clo(KD(en), r) : en[g].name # n
    BY <1>2, <1>6, <1>8, FindIs
  <2> QED
    BY <1>3, <1>7, <2>1
<1>10. f = e
  <2>1. \A g, h \in Clo(KD(en), r) : NM(en)[g] = NM(en)[h] => g = h
    BY <1>1, <1>2, NamesUnique
  <2> QED
    BY <1>1, <1>3, <1>4, <1>7, <1>9, <2>1
<1> QED
  BY <1>2, <1>7, <1>8, <1>10

-----------------------------------------------------------------------------
(***************************************************************************)
(* Loading keeps the tree.                                                 *)
(***************************************************************************)

\* entry e is a file of name n in directory p, and ready
Added(en, em, p, e, n) ==
    /\ NM(em) = [NM(en) EXCEPT ![e] = n]
    /\ KD(em) = IF p = Null THEN KD(en) ELSE [KD(en) EXCEPT ![p] = Append(KD(en)[p], e)]
    /\ Settled(en, em, {e}) /\ em[e].ready

\* fentry_create, nobody else being there (ramfs.c:249-279)
LEMMA RecordAdded ==
    ASSUME NEW en, NEW r, TreeOf(en, r), NEW e \in Entry, NEW n \in Name,
           NEW p \in Entry \cup {Null}, NEW dir \in BOOLEAN,
           NEW em, NEW q, TreeOf(em, q), Grown(en, em, p, e, n)
    PROVE  LET eo == Initialized(em, p, e, dir)
           IN  TreeOf(eo, q) /\ Added(en, eo, p, e, n) /\ (eo[e].is_dir <=> dir)
<1>1. PICK eo : eo = Initialized(em, p, e, dir)
  OBVIOUS
<1>2. /\ TreeOf(eo, q) /\ NM(eo) = NM(em)
      /\ KD(eo) = IF p = Null THEN KD(em) ELSE [KD(em) EXCEPT ![p] = UpTo(KD(em)[p], e)]
      /\ Settled(em, eo, {e}) /\ eo[e].ready /\ (eo[e].is_dir <=> dir)
  <2>1. Ended(em, Initialized(em, p, e, dir), q, p, e, dir)
    BY InitializedTree
  <2>2. Ended(em, eo, q, p, e, dir)
    BY <1>1, <2>1
  <2> QED
    BY <2>2 DEF Ended
<1>3. KD(eo) = KD(em)
  <2>1. CASE p = Null
    BY <1>2, <2>1
  <2>2. CASE p # Null
    <3>1. p \in Entry /\ KD(en) \in [Entry -> Seq(Entry)] /\ KD(em) \in [Entry -> Seq(Entry)]
      BY <2>2, TreeOfIs
    <3>2. PICK s \in Seq(Entry) : s = KD(en)[p]
      BY <3>1
    <3>3. KD(em)[p] = Append(s, e)
      BY <2>2, <3>1, <3>2 DEF Grown
    <3>4. PICK v \in Seq(Entry) : v = KD(em)[p]
      BY <3>1
    <3>5. v # <<>> /\ v[Len(v)] = e
      BY <3>2, <3>3, <3>4, AppendProperties
    <3>6. \A i, j \in 1 .. Len(v) : v[i] = v[j] => i = j
      <4>1. Tree(NM(em), KD(em), q)
        BY DEF TreeOf
      <4> QED
        BY <3>1, <3>4, <4>1 DEF Tree
    <3>7. UpTo(v, e) = v
      BY <3>5, <3>6, UpToIs
    <3> QED
      BY <1>2, <2>2, <3>1, <3>4, <3>7
  <2> QED
    BY <2>1, <2>2
<1>4. Settled(en, eo, {e})
  BY <1>2 DEF Grown, Settled
<1> QED
  BY <1>1, <1>2, <1>3, <1>4 DEF Grown, Added

\* A record of the archive: one that cannot be added ends the loading, which does not
\* happen while the archive is alone (initramfs.c:102-124).
LEMMA LoadRecordTree ==
    ASSUME LoadInv, TreeInv, FirstInv, OneCreator, LoadRecord
    PROVE  TreeInv' /\ FirstInv' /\ OneCreator' /\ Stay(ent, ent')
<1>1. PICK e, n, dir, size : /\ e = Fresh(ent) /\ n = Archive[pos + 1].name
                             /\ dir = Archive[pos + 1].is_dir /\ size = Archive[pos + 1].filesize
  OBVIOUS
<1>2. PICK p : p = IF root = Null THEN Null ELSE Find(DirName[n])
  OBVIOUS
<1>3. PICK linked, made : linked = Linked(ent, p, e, n) /\ made = Initialized(linked, p, e, dir)
  OBVIOUS
<1>4. /\ ~Loaded /\ Room /\ UNCHANGED <<pc, call, reg, scene>>
      /\ IF (root # Null /\ p = Null) \/ linked = ent
         THEN pos' = Len(Archive) /\ UNCHANGED <<root, ent>>
         ELSE /\ pos' = pos + 1
              /\ root' = IF root = Null THEN e ELSE root
              /\ ent' = [made EXCEPT ![e].size = IF dir THEN 0 ELSE SizeAfterWrite(made, e, 0, size)]
  BY <1>1, <1>2, <1>3 DEF LoadRecord
<1>5. /\ scene \in Scenario /\ pos \in Nat /\ Len(Archive) \in Nat /\ pos + 1 \in 1 .. Len(Archive)
      /\ Archive' = Archive /\ \A t \in Thread : pc[t] = "idle"
  <2>1. scene \in Scenario /\ pos \in 0 .. Len(Archive) /\ pos # Len(Archive)
    BY <1>4 DEF LoadInv, Loaded
  <2>2. Len(Archive) \in Nat
    BY <2>1, RecordIs
  <2> QED
    BY <1>4, <2>1, <2>2 DEF LoadInv, Archive
<1>6. /\ n \in Name /\ dir \in BOOLEAN /\ size \in Nat
      /\ \A i \in 1 .. pos : Archive[i].name # n /\ Archive[i].name \in Name
      /\ pos > 0 => \E j \in 1 .. pos : Archive[j].name = DirName[n]
  <2>1. PICK a, k : a = Archive /\ k = pos + 1
    OBVIOUS
  <2>2. /\ \A i \in 1 .. Len(a) :
             /\ a[i].name \in Name /\ a[i].is_dir \in BOOLEAN /\ a[i].filesize \in Nat
             /\ i > 1 => \E j \in 1 .. i - 1 : a[j].name = DirName[a[i].name]
        /\ \A i, j \in 1 .. Len(a) : a[i].name = a[j].name => i = j
    BY <1>5, <2>1, RecordIs
  <2>3. k \in 1 .. Len(a) /\ k - 1 = pos /\ Len(a) \in Nat /\ pos \in Nat
    BY <1>5, <2>1
  <2>4. n = a[k].name /\ dir = a[k].is_dir /\ size = a[k].filesize
    BY <1>1, <2>1
  <2>5. \A i \in 1 .. pos : i \in 1 .. Len(a) /\ i # k
    BY <2>3
  <2>6. \A i \in 1 .. pos : a[i].name # n /\ a[i].name \in Name
    BY <2>2, <2>3, <2>4, <2>5
  <2>7. pos > 0 => \E j \in 1 .. pos : a[j].name = DirName[n]
    BY <2>2, <2>3, <2>4
  <2> QED
    BY <2>1, <2>2, <2>3, <2>4, <2>6, <2>7
<1>7. /\ TreeOf(ent, root) /\ NM(ent) \in [Entry -> Name \cup {NoName}]
      /\ \A f \in Entry : NM(ent)[f] = ent[f].name
      /\ \A f \in Entry : ent[f].name \in Name =>
           ent[f].ready /\ ent[f].name # n /\ \E i \in 1 .. pos : ent[f].name = Archive[i].name
  <2>1. TreeOf(ent, root) /\ FromArchive
    BY DEF TreeInv
  <2>2. \A f \in Entry : ent[f].name \in Name =>
          ent[f].ready /\ \E i \in 1 .. pos : ent[f].name = Archive[i].name
    BY <1>4, <2>1 DEF FromArchive
  <2>3. \A f \in Entry : ent[f].name \in Name => ent[f].name # n
    BY <1>6, <2>2
  <2>4. /\ NM(ent) \in [Entry -> Name \cup {NoName}]
        /\ \A f \in Entry : NM(ent)[f] = ent[f].name
    BY <2>1, TreeOfIs
  <2> QED
    BY <2>1, <2>2, <2>3, <2>4
<1>8. e \in Entry /\ ent[e].name = NoName
  BY <1>1, <1>4, FreshIs DEF Room
<1>9. /\ p \in Entry \cup {Null}
      /\ p \in Entry => ent[p].name = DirName[n] /\ ent[p].name \in Name
      /\ root # Null /\ p = Null => \A f \in Clo(KD(ent), root) : ent[f].name # DirName[n]
  <2>1. CASE root = Null
    BY <1>2, <2>1
  <2>2. CASE root # Null
    <3>1. root \in Entry
      BY <1>7, <2>2 DEF TreeOf, Tree
    <3>2. PICK d : d = DirName[n]
      OBVIOUS
    <3>3. p = FindIn(root, ent, d)
      BY <1>2, <2>2, <3>2 DEF Find
    <3>4. \/ p \in Entry /\ ent[p].name = d /\ d \in Name
          \/ p = Null /\ \A f \in Clo(KD(ent), root) : ent[f].name # d
      BY <1>7, <3>1, <3>3, FindReady
    <3> QED
      BY <3>2, <3>4
  <2> QED
    BY <2>1, <2>2
<1>10. /\ ThreadsTyped' /\ (\A t \in Thread : WorkOK(t)') /\ Apart'
       /\ (\A t \in Thread : Steady(t, pc[t], reg[t][2])') /\ (FirstAlone' <=> FirstAlone)
  <2>1. \A t \in Thread : pc'[t] = "idle"
    BY <1>4, <1>5
  <2>2. ThreadsTyped'
    BY <1>4 DEF TreeInv, ThreadsTyped
  <2>3. (\A t \in Thread : WorkOK(t)') /\ Apart'
    BY <2>1 DEF WorkOK, Apart, Inside
  <2>4. \A t \in Thread : Steady(t, pc[t], reg[t][2])'
    BY <2>1 DEF Steady
  <2> QED
    BY <1>4, <1>5, <2>2, <2>3, <2>4 DEF FirstAlone
<1>11. ASSUME root # Null => p # Null
       PROVE  /\ linked # ent /\ TreeOf(linked, IF p = Null THEN e ELSE root)
              /\ Grown(ent, linked, p, e, n)
  <2>0. \/ /\ p \in Entry
           /\ \E i \in 1 .. Len(ent[p].kids) : ent[ent[p].kids[i]].name = n
        \/ /\ TreeOf(linked, IF p = Null THEN e ELSE root) /\ Grown(ent, linked, p, e, n)
           /\ linked # ent
    <3>1. p \in Entry => ent[p].name \in Name /\ DirOf(n) = ent[p].name
      BY <1>9 DEF DirOf
    <3>2. LET x == Linked(ent, p, e, n)
          IN  \/ /\ x = ent /\ p \in Entry
                 /\ \E i \in 1 .. Len(ent[p].kids) : ent[ent[p].kids[i]].name = n
              \/ /\ TreeOf(x, IF p = Null THEN e ELSE root) /\ Grown(ent, x, p, e, n)
                 /\ x # ent
      <4>1. p \in Entry \cup {Null} /\ n \in Name /\ e \in Entry /\ ent[e].name = NoName
        BY <1>6, <1>8, <1>9
      <4>2. TreeOf(ent, root) /\ e = Fresh(ent)
        BY <1>1, <1>7
      <4> QED
        BY <3>1, <4>1, <4>2, LinkedTree
    <3> QED
      BY <1>3, <3>2
  <2> SUFFICES ASSUME p \in Entry,
                      \E i \in 1 .. Len(ent[p].kids) : ent[ent[p].kids[i]].name = n
               PROVE  FALSE
    BY <2>0
  <2>1. /\ p \in Entry
        /\ \E i \in 1 .. Len(ent[p].kids) : ent[ent[p].kids[i]].name = n
    OBVIOUS
  <2>2. PICK i \in 1 .. Len(ent[p].kids) : ent[ent[p].kids[i]].name = n
    BY <2>1
  <2>3. ent[p].kids[i] \in Entry
    BY <1>7, <2>1, TreeOfIs
  <2> QED
    BY <1>6, <1>7, <2>2, <2>3
<1>12. CASE root # Null /\ p = Null
  <2>1. pos' = Len(Archive) /\ UNCHANGED <<root, ent>>
    BY <1>4, <1>12
  <2>2. Loaded'
    BY <1>5, <2>1 DEF Loaded
  <2>3. TreeInv'
    BY <1>7, <1>10, <2>1, <2>2 DEF TreeInv, FromArchive
  <2>4. FirstInv'
    BY <1>10, <1>12, <2>1 DEF FirstInv
  <2>5. OneCreator'
    <3> SUFFICES ASSUME ~scene.concurrent
                 PROVE  FALSE
      BY <1>4 DEF OneCreator
    <3>1. pos > 0
      BY <1>4, <1>5, <1>12 DEF OneCreator
    <3>2. PICK j \in 1 .. pos : Archive[j].name = DirName[n]
      BY <1>6, <3>1
    <3>3. PICK f \in Entry : ent[f].name = DirName[n] /\ ent[f].name \in Name
      BY <1>6, <3>2 DEF OneCreator, Present
    <3>4. f \in Clo(KD(ent), root)
      <4>1. Tree(NM(ent), KD(ent), root) /\ Rooted(NM(ent), KD(ent), root) /\ root \in Entry
        BY <1>7, <1>12 DEF OneCreator, TreeOf, Tree
      <4> QED
        BY <1>7, <3>3, <4>1, RootedMeans
    <3> QED
      BY <1>9, <1>12, <3>3, <3>4
  <2>6. Stay(ent, ent')
    BY <2>1, StaySame
  <2> QED
    BY <2>3, <2>4, <2>5, <2>6
<1>13. CASE ~(root # Null /\ p = Null)
  <2>1. PICK r : r = IF root = Null THEN e ELSE root
    OBVIOUS
  <2>2. PICK size1 : size1 = IF dir THEN 0 ELSE SizeAfterWrite(made, e, 0, size)
    OBVIOUS
  <2>3. linked # ent /\ pos' = pos + 1 /\ root' = r /\ ent' = [made EXCEPT ![e].size = size1]
    BY <1>4, <1>11, <1>13, <2>1, <2>2
  <2>4. TreeOf(made, r) /\ Added(ent, made, p, e, n) /\ (made[e].is_dir <=> dir)
    <3>1. TreeOf(linked, r) /\ Grown(ent, linked, p, e, n)
      BY <1>2, <1>11, <1>13, <2>1
    <3>2. PICK x : x = Initialized(linked, p, e, dir)
      OBVIOUS
    <3>3. TreeOf(x, r) /\ Added(ent, x, p, e, n) /\ (x[e].is_dir <=> dir)
      <4>1. TreeOf(x, r) /\ Added(ent, x, p, e, n)
        BY <1>6, <1>7, <1>8, <1>9, <3>1, <3>2, RecordAdded
      <4>2. x[e].is_dir <=> dir
        BY <1>6, <1>7, <1>8, <1>9, <3>1, <3>2, RecordAdded
      <4> QED
        BY <4>1, <4>2
    <3> QED
      BY <1>3, <3>2, <3>3
  <2>5. SameTree(made, ent')
    <3>1. made \in [Entry -> Fields]
      BY <2>4 DEF TreeOf
    <3>2. PICK Z : Z = 0 .. 2 * MaxSize
      OBVIOUS
    <3>3. made[e].size \in Z
      <4>1. PICK K : K = Seq(Entry)
        OBVIOUS
      <4>2. Fields = Fentry(Name \cup {NoName}, K, Z, Thread \cup {Null})
        BY <3>2, <4>1 DEF Fields
      <4> QED
        BY <1>8, <3>1, <4>2 DEF Fentry
    <3>4. size1 \in Z
      <4>1. 0 \in Z /\ 0 <= made[e].size
        BY <3>2, <3>3
      <4> QED
        BY <2>2, <3>3, <4>1 DEF SizeAfterWrite
    <3>5. \A x \in 0 .. 2 * MaxSize : SameTree(made, [made EXCEPT ![e].size = x])
      BY <3>1, FieldKeeps
    <3> QED
      BY <2>3, <3>2, <3>4, <3>5
  <2>6. /\ TreeOf(ent', root') /\ NM(ent') = [NM(ent) EXCEPT ![e] = n]
        /\ KD(ent') = IF p = Null THEN KD(ent) ELSE [KD(ent) EXCEPT ![p] = Append(KD(ent)[p], e)]
        /\ \A f \in Entry : f # e => ent'[f].ready = ent[f].ready /\ ent'[f].is_dir = ent[f].is_dir
        /\ ent'[e].ready /\ ent'[e].is_dir = dir
    <3>1. ent' \in [Entry -> Fields] /\ NM(ent') = NM(made) /\ KD(ent') = KD(made) /\ Settled(made, ent', {})
      BY <2>5 DEF SameTree
    <3>2. TreeOf(ent', root')
      BY <2>3, <2>4, <3>1 DEF TreeOf
    <3> QED
      <4>1. ent'[e].is_dir <=> dir
        BY <1>8, <2>4, <3>1 DEF Added, Settled
      <4>2. ent'[e].is_dir \in BOOLEAN
        BY <1>8, <3>1 DEF Fields, Fentry
      <4>3. ent'[e].is_dir = dir
        BY <1>6, <4>1, <4>2
      <4> QED
        BY <1>8, <2>4, <3>1, <3>2, <4>3 DEF Added, Settled
  <2>7. ent'[e].name = n /\ \A f \in Entry : f # e => ent'[f].name = ent[f].name
    <3>1. \A f \in Entry : NM(ent')[f] = ent'[f].name
      BY DEF NM
    <3> QED
      BY <1>7, <1>8, <2>6, <3>1
  <2>8. pos' \in 1 .. Len(Archive) /\ pos' = pos + 1 /\ pos \in Nat /\ n = Archive'[pos'].name
        /\ dir = Archive'[pos'].is_dir
    BY <1>1, <1>5, <2>3
  <2>9. FromArchive'
    <3> SUFFICES ASSUME NEW f \in Entry, ent'[f].name \in Name
                 PROVE  ent'[f].ready /\ \E i \in 1 .. pos' : ent'[f].name = Archive'[i].name
      BY DEF FromArchive
    <3>1. CASE f = e
      <4>1. pos' \in 1 .. pos'
        BY <2>8
      <4> QED
        BY <2>6, <2>7, <2>8, <3>1, <4>1
    <3>2. CASE f # e
      <4>1. ent[f].ready /\ \E i \in 1 .. pos : ent[f].name = Archive[i].name
        BY <1>7, <2>7, <3>2
      <4>2. \A i \in 1 .. pos : i \in 1 .. pos'
        BY <2>8
      <4> QED
        BY <1>5, <2>6, <2>7, <3>2, <4>1, <4>2
    <3> QED
      BY <3>1, <3>2
  <2>10. FirstInv'
    <3> SUFFICES ASSUME FirstAlone
                 PROVE  Slashed(NM(ent'), KD(ent')) /\ root' # Null
      BY <1>10 DEF FirstInv
    <3>1. Slashed(NM(ent'), KD(ent'))
      <4>1. PICK nm, kd : nm = NM(ent) /\ kd = KD(ent)
        OBVIOUS
      <4>2. Tree(nm, kd, root) /\ Slashed(nm, kd) /\ nm[e] = NoName
        BY <1>7, <1>8, <4>1 DEF TreeOf, FirstInv
      <4>3. p \in Entry => DirName[n] # NoName
        BY <1>9
      <4>4. Slashed([nm EXCEPT ![e] = n],
                    IF p = Null THEN kd ELSE [kd EXCEPT ![p] = Append(kd[p], e)])
        BY <1>6, <1>8, <1>9, <4>2, <4>3, SlashedGrown
      <4> QED
        BY <2>6, <4>1, <4>4
    <3>2. root' # Null
      BY <1>8, <2>1, <2>3
    <3> QED
      BY <3>1, <3>2
  <2>11. OneCreator'
    <3> SUFFICES ASSUME ~scene.concurrent
                 PROVE  /\ Rooted(NM(ent'), KD(ent'), root')
                        /\ \A t \in Thread : Making(t)'
                        /\ \A i \in 1 .. pos' : Present(i)'
                        /\ pos' # 0
      BY <1>4 DEF OneCreator
    <3>1. \A t \in Thread : pc'[t] \notin Inside
      BY <1>4, <1>5 DEF Inside
    <3>2. Rooted(NM(ent'), KD(ent'), root')
      <4>1. Rooted(NM(ent), KD(ent), root) /\ Tree(NM(ent), KD(ent), root)
        BY <1>7 DEF OneCreator, TreeOf
      <4>2. PICK nm, kd, q : nm = NM(ent) /\ kd = KD(ent) /\ q = root'
        OBVIOUS
      <4>3. (p = Null => root = Null /\ q = e) /\ (p \in Entry => q = root)
        <5>1. p \in Entry => root # Null
          BY <1>2
        <5> QED
          BY <1>9, <1>13, <2>1, <2>3, <4>2, <5>1
      <4>4. Rooted([nm EXCEPT ![e] = n],
                   IF p = Null THEN kd ELSE [kd EXCEPT ![p] = Append(kd[p], e)], q)
        BY <1>6, <1>8, <1>9, <4>1, <4>2, <4>3, RootedGrown
      <4> QED
        BY <2>6, <4>2, <4>4
    <3>3. \A t \in Thread : Making(t)'
      BY <3>1 DEF Making, Inside
    <3>4. ASSUME NEW i \in 1 .. pos'
          PROVE  Present(i)'
      <4>1. CASE i = pos'
        BY <1>8, <2>6, <2>7, <2>8, <4>1 DEF Present
      <4>2. CASE i # pos'
        <5>1. i \in 1 .. pos
          BY <2>8, <4>2
        <5>2. PICK f \in Entry : /\ ent[f].name = Archive[i].name /\ ent[f].ready
                                 /\ ent[f].is_dir = Archive[i].is_dir
          BY <5>1 DEF OneCreator, Present
        <5>3. f # e
          <6>1. ent[f].name \in Name
            BY <1>6, <5>1, <5>2
          <6> QED
            BY <1>8, <6>1
        <5> QED
          BY <1>5, <2>6, <2>7, <5>2, <5>3 DEF Present
      <4> QED
        BY <4>1, <4>2
    <3>5. pos' # 0
      BY <2>8
    <3> QED
      BY <3>2, <3>3, <3>4, <3>5
  <2>12. Stay(ent, ent')
    <3>1. KD(ent) \in [Entry -> Seq(Entry)]
      BY <1>7, TreeOfIs
    <3>2. KD(ent') = IF p = Null THEN KD(ent) ELSE [KD(ent) EXCEPT ![p] = Append(KD(ent)[p], e)]
      BY <2>6
    <3>3. e \in Entry /\ p \in Entry \cup {Null}
      BY <1>8, <1>9
    <3> HIDE RamfsAssumption
    <3> QED
      BY <3>1, <3>2, <3>3, StayGrown
  <2> QED
    BY <1>10, <2>6, <2>9, <2>10, <2>11, <2>12 DEF TreeInv
<1> QED
  BY <1>12, <1>13

LEMMA LoadInitTree ==
    ASSUME LoadInit
    PROVE  TreeInv /\ FirstInv /\ OneCreator
<1>1. /\ ent = [e \in Entry |-> Unused] /\ pc = [t \in Thread |-> "idle"] /\ root = Null
      /\ call = [t \in Thread |-> NoCall] /\ reg = [t \in Thread |-> <<Null, Null>>]
      /\ scene \in Scenario /\ pos = 0
  BY DEF LoadInit, RamfsInit
<1>2. ent \in [Entry -> Fields] /\ \A e \in Entry : ent[e].name = NoName /\ ent[e].kids = <<>>
  <2>1. Unused \in Fields
    <3>1. PICK K, Z : K = Seq(Entry) /\ Z = 0 .. 2 * MaxSize
      OBVIOUS
    <3>2. <<>> \in K /\ 0 \in Z /\ Fields = Fentry(Name \cup {NoName}, K, Z, Thread \cup {Null})
      BY <3>1 DEF Fields
    <3> QED
      BY <3>2 DEF Unused, Fentry
  <2> QED
    BY <1>1, <2>1 DEF Unused
<1>3. NM(ent) = [e \in Entry |-> NoName] /\ KD(ent) = [e \in Entry |-> <<>>]
  BY <1>2 DEF NM, KD
<1>4. TreeOf(ent, root)
  <2>1. PICK nm, kd : nm = [e \in Entry |-> NoName] /\ kd = [e \in Entry |-> <<>>]
    OBVIOUS
  <2>2. <<>> \in Seq(Entry) /\ Len(<<>>) = 0
    OBVIOUS
  <2>3. \A e \in Entry : nm[e] = NoName /\ kd[e] = <<>> /\ Len(kd[e]) = 0
    BY <2>1, <2>2
  <2>4. nm \in [Entry -> Name \cup {NoName}] /\ kd \in [Entry -> Seq(Entry)]
    BY <2>1, <2>2
  <2>5. Tree(nm, kd, Null)
    BY <2>3, <2>4 DEF Tree, Packed
  <2> QED
    BY <1>1, <1>2, <1>3, <2>1, <2>5 DEF TreeOf
<1>5. ThreadsTyped /\ \A t \in Thread : pc[t] = "idle"
  <2>1. <<Null, Null>> \in Places \X Places /\ "idle" \in Points
    BY DEF Places, Points
  <2> QED
    BY <1>1, <2>1 DEF ThreadsTyped
<1>6. (\A t \in Thread : WorkOK(t)) /\ Apart /\ FromArchive
  BY <1>2, <1>5 DEF WorkOK, Apart, FromArchive, Inside
<1>7. OneCreator
  <2>1. \A i \in 1 .. pos : Present(i)
    BY <1>1
  <2>2. Rooted(NM(ent), KD(ent), root)
    BY <1>3 DEF Rooted
  <2> QED
    BY <1>1, <1>5, <2>1, <2>2 DEF OneCreator, Making, Inside
<1>8. FirstInv
  <2>1. Slashed(NM(ent), KD(ent))
    <3>1. \A e \in Entry : KD(ent)[e] = <<>> /\ Len(<<>>) = 0
      BY <1>3
    <3> QED
      BY <3>1 DEF Slashed
  <2>2. \A t \in Thread : Steady(t, pc[t], reg[t][2])
    BY <1>5 DEF Steady
  <2> QED
    BY <1>1, <2>1, <2>2 DEF FirstInv
<1> QED
  BY <1>4, <1>5, <1>6, <1>7, <1>8 DEF TreeInv

\* Whatever threads do at the same time, two that both make the first file included, an
\* entry comes into one directory only, and behind none of its name; if nobody else is
\* there when the first is made the root stays the only name that is in no directory; and
\* as long as only one thread creates, everything that was created hangs in the tree
\* (ramfs.c:37-68, 120-143, 233-279).
THEOREM FilesInvariant == LoadSpec => []FilesInv
<1>1. LoadInit => FilesInv
  BY LoadInitSound, LoadInitTree DEF FilesInv
<1>2. FilesInv /\ LoadInv' /\ [LoadNext]_load_vars => FilesInv'
  <2> SUFFICES ASSUME FilesInv, LoadInv', [LoadNext]_load_vars
               PROVE  TreeInv' /\ FirstInv' /\ OneCreator'
    BY DEF FilesInv
  <2>1. LoadInv /\ TreeInv /\ FirstInv /\ OneCreator /\ scene \in Scenario
    BY DEF FilesInv, LoadInv
  <2>2. CASE LoadRecord
    BY <2>1, <2>2, LoadRecordTree
  <2>3. ASSUME Loaded, NEW t \in Thread, Step(t), UNCHANGED pos
        PROVE  TreeInv' /\ FirstInv' /\ OneCreator'
    BY <2>1, <2>3, StepTree
  <2>4. CASE UNCHANGED load_vars
    <3>1. UNCHANGED <<root, ent, pc, call, reg, scene, pos>>
      BY <2>4 DEF load_vars
    <3>2. Archive' = Archive /\ (Loaded' <=> Loaded) /\ (FirstAlone' <=> FirstAlone)
      BY <3>1 DEF Archive, Loaded, FirstAlone
    <3>3. /\ FromArchive' /\ (\A t \in Thread : WorkOK(t)') /\ ThreadsTyped' /\ TreeOf(ent', root')
          /\ Apart'
      BY <2>1, <3>1, <3>2 DEF TreeInv, FromArchive, WorkOK, ThreadsTyped, Apart
    <3>4. FirstInv'
      BY <2>1, <3>1, <3>2 DEF FirstInv, Steady
    <3>5. OneCreator'
      BY <2>1, <3>1, <3>2 DEF OneCreator, Making, Present
    <3> QED
      BY <3>3, <3>4, <3>5 DEF TreeInv
  <2> QED
    BY <2>2, <2>3, <2>4 DEF LoadNext
<1> QED
  BY <1>1, <1>2, LoadInvariant, PTL DEF LoadSpec

\* However the steps of threads that create files are mixed, those of two that make the
\* first one included, and whatever fentry_create cuts off again: an entry is in one
\* directory at most, the one that get_directory_name gave for it, no name is twice in a
\* directory, and the root is in none.  If nobody else is there when the first file is
\* made, a name that ramfs_find can get to is there once (ramfs.c:37-68, 120-143, 233-279).
THEOREM TreeStaysSound == LoadSpec => []TreeSound
<1>1. ASSUME FilesInv
      PROVE  TreeSound
  <2>1. /\ TreeOf(ent, root) /\ ThreadsTyped /\ root \in Entry \cup {Null}
        /\ ent \in [Entry -> Fields] /\ FirstInv
    BY <1>1 DEF FilesInv, TreeInv, TreeOf, Tree
  <2>2. RamfsTypeOK
    BY <2>1 DEF RamfsTypeOK, ThreadsTyped, Points, Places, Fields, Fentry
  <2>3. /\ Tree(NM(ent), KD(ent), root) /\ KD(ent) \in [Entry -> Seq(Entry)]
        /\ \A e \in Entry : NM(ent)[e] = ent[e].name /\ KD(ent)[e] = ent[e].kids
        /\ \A e \in Entry : Len(ent[e].kids) \in Nat /\ DOMAIN ent[e].kids = 1 .. Len(ent[e].kids)
        /\ \A e \in Entry : \A i \in 1 .. Len(ent[e].kids) : ent[e].kids[i] \in Entry
    BY <2>1, TreeOfIs DEF TreeOf
  <2>4. /\ \A e \in Entry : \A k \in ToSet(ent[e].kids) :
             k \in Entry /\ \E i \in 1 .. Len(KD(ent)[e]) : k = KD(ent)[e][i]
        /\ \A e \in Entry : DOMAIN ent[e].kids = 1 .. Len(KD(ent)[e])
    BY <2>3 DEF ToSet
  <2>5. ASSUME NEW e \in Entry, NEW i \in DOMAIN ent[e].kids, NEW j \in DOMAIN ent[e].kids,
               ent[ent[e].kids[i]].name = ent[ent[e].kids[j]].name
        PROVE  i = j
    <3>1. PICK s : s = KD(ent)[e]
      OBVIOUS
    <3>2. i \in 1 .. Len(s) /\ j \in 1 .. Len(s) /\ s[i] \in Entry /\ s[j] \in Entry
      BY <2>3, <3>1
    <3>3. NM(ent)[s[i]] = NM(ent)[s[j]]
      BY <2>3, <2>5, <3>1, <3>2
    <3>4. \A k, m \in 1 .. Len(KD(ent)[e]) :
            NM(ent)[KD(ent)[e][k]] = NM(ent)[KD(ent)[e][m]] => k = m
      <4>1. Tree(NM(ent), KD(ent), root)
        BY <2>3
      <4> QED
        BY <4>1 DEF Tree
    <3> QED
      BY <3>1, <3>2, <3>3, <3>4
  <2>6. ASSUME NEW e \in Entry, NEW k \in ToSet(ent[e].kids)
        PROVE  /\ k # root /\ DirOf(ent[k].name) = ent[e].name
               /\ \A f \in Entry : k \in ToSet(ent[f].kids) => f = e
    <3>1. PICK i \in 1 .. Len(KD(ent)[e]) : k = KD(ent)[e][i]
      BY <2>4
    <3>2. k \in Entry
      BY <2>4
    <3>3. k # root /\ DirOf(NM(ent)[k]) = NM(ent)[e]
      BY <2>3, <3>1 DEF Tree
    <3>4. ASSUME NEW f \in Entry, k \in ToSet(ent[f].kids)
          PROVE  f = e
      <4>1. PICK j \in 1 .. Len(KD(ent)[f]) : k = KD(ent)[f][j]
        BY <2>4, <3>4
      <4>2. PICK kd : kd = KD(ent)
        OBVIOUS
      <4>3. Tree(NM(ent), kd, root) /\ kd[e][i] = kd[f][j]
        BY <2>3, <3>1, <4>1, <4>2
      <4>4. i \in 1 .. Len(kd[e]) /\ j \in 1 .. Len(kd[f])
        BY <3>1, <4>1, <4>2
      <4> QED
        BY <4>3, <4>4 DEF Tree
    <3> QED
      BY <2>3, <3>2, <3>3, <3>4
  <2>7. ASSUME FirstAlone
        PROVE  /\ \A e \in Entry : \A k \in ToSet(ent[e].kids) : DirName[ent[k].name] # NoName
               /\ \A e, f \in InTree : ent[e].name = ent[f].name => e = f
    <3>1. Slashed(NM(ent), KD(ent))
      BY <2>1, <2>7 DEF FirstInv
    <3>2. ASSUME NEW e \in Entry, NEW k \in ToSet(ent[e].kids)
          PROVE  DirName[ent[k].name] # NoName
      <4>1. PICK kd : kd = KD(ent)
        OBVIOUS
      <4>2. PICK i \in 1 .. Len(kd[e]) : k = kd[e][i]
        BY <2>4, <4>1
      <4>3. DirName[NM(ent)[kd[e][i]]] # NoName
        BY <3>1, <4>1 DEF Slashed
      <4>4. k \in Entry /\ NM(ent)[k] = ent[k].name
        BY <2>3, <2>4
      <4> QED
        BY <4>2, <4>3, <4>4
    <3>3. CASE root = Null
      BY <3>2, <3>3 DEF InTree
    <3>4. CASE root # Null
      <4>1. root \in Entry /\ InTree = Clo(KD(ent), root)
        BY <2>1, <3>4, BelowIs DEF InTree
      <4>2. InTree \in SUBSET Entry
        BY <2>3, <4>1, CloIs
      <4>3. \A e, f \in Clo(KD(ent), root) : NM(ent)[e] = NM(ent)[f] => e = f
        BY <2>3, <3>1, <4>1, NamesUnique
      <4> QED
        BY <2>3, <3>2, <4>1, <4>2, <4>3
    <3> QED
      BY <3>3, <3>4
  <2> QED
    BY <2>2, <2>5, <2>6, <2>7 DEF TreeSound
<1> QED
  BY <1>1, FilesInvariant, PTL

\* As long as one thread creates at a time, each file that was created is found by its
\* name, and each record of the archive is there, as a file or a directory, once the
\* archive is loaded (ramfs.c:57, 281-313, initramfs.c:102-124).
THEOREM NamesAreLoaded == LoadSpec => []NamesLoaded
<1>1. ASSUME FilesInv
      PROVE  NamesLoaded
  <2> SUFFICES ASSUME ~scene.concurrent, \A e \in Used : ent[e].ready
               PROVE  /\ \A e \in Used : Find(ent[e].name) = e
                      /\ Loaded => \A i \in DOMAIN Archive :
                           LET f == Find(Archive[i].name)
                           IN  f \in Entry /\ ent[f].is_dir = Archive[i].is_dir
    BY DEF NamesLoaded, CreatedIsFound
  <2>1. TreeOf(ent, root) /\ OneCreator /\ scene \in Scenario /\ Slashed(NM(ent), KD(ent))
    BY <1>1 DEF FilesInv, TreeInv, LoadInv, FirstInv, FirstAlone
  <2>2. \A e \in Entry : ent[e].name \in Name \cup {NoName}
    <3>1. NM(ent) \in [Entry -> Name \cup {NoName}] /\ \A e \in Entry : NM(ent)[e] = ent[e].name
      BY <2>1, TreeOfIs
    <3> QED
      BY <3>1
  <2>3. \A e \in Entry : ent[e].name \in Name => e \in Used /\ ent[e].ready
    BY DEF Used
  <2>4. ASSUME NEW e \in Entry, ent[e].name \in Name
        PROVE  Find(ent[e].name) = e
    <3>1. Rooted(NM(ent), KD(ent), root)
      BY <2>1 DEF OneCreator
    <3>2. FindIn(root, ent, ent[e].name) = e
      BY <2>1, <2>3, <2>4, <3>1, FindFinds
    <3> QED
      BY <3>2 DEF Find
  <2>5. \A e \in Used : Find(ent[e].name) = e
    BY <2>2, <2>4 DEF Used
  <2>6. ASSUME Loaded, NEW i \in DOMAIN Archive
        PROVE  LET f == Find(Archive[i].name)
               IN  f \in Entry /\ ent[f].is_dir = Archive[i].is_dir
    <3>1. PICK a : a = Archive
      OBVIOUS
    <3>2. i \in 1 .. pos /\ i \in 1 .. Len(a)
      <4>1. a \in Seq([name : Name, is_dir : BOOLEAN, filesize : Nat])
        BY <2>1, <3>1, ArchiveAssumption DEF Archive
      <4>2. PICK R : R = [name : Name, is_dir : BOOLEAN, filesize : Nat]
        OBVIOUS
      <4>3. a \in Seq(R)
        BY <4>1, <4>2
      <4>4. DOMAIN a = 1 .. Len(a)
        BY <4>3
      <4> QED
        BY <2>6, <3>1, <4>4 DEF Loaded
    <3>3. a[i].name \in Name
      BY <2>1, <3>1, <3>2, RecordIs
    <3>4. PICK e \in Entry : /\ ent[e].name = Archive[i].name /\ ent[e].ready
                             /\ ent[e].is_dir = Archive[i].is_dir
      BY <2>1, <3>2 DEF OneCreator, Present
    <3>5. Find(Archive[i].name) = e
      BY <2>4, <3>1, <3>3, <3>4
    <3> QED
      BY <3>4, <3>5
  <2> QED
    BY <2>5, <2>6
<1> QED
  BY <1>1, FilesInvariant, PTL

\* fentry_create cuts off only what others have put behind a file that it has yet to
\* finish: a file behind none but finished ones stays in its directory, at its place
\* (ramfs.c:48, 57, 120-143).
THEOREM FinishedFilesStay == LoadSpec => FinishedStay
<1>1. FilesInv /\ [LoadNext]_load_vars => [Stay(ent, ent')]_load_vars
  <2> SUFFICES ASSUME FilesInv, LoadNext
               PROVE  Stay(ent, ent')
    OBVIOUS
  <2>1. LoadInv /\ TreeInv /\ FirstInv /\ OneCreator /\ scene \in Scenario
    BY DEF FilesInv, LoadInv
  <2>2. CASE LoadRecord
    BY <2>1, <2>2, LoadRecordTree
  <2>3. ASSUME Loaded, NEW t \in Thread, Step(t), UNCHANGED pos
        PROVE  Stay(ent, ent')
    BY <2>1, <2>3, StepTree
  <2> QED
    BY <2>2, <2>3 DEF LoadNext
<1>2. Stay(ent, ent') => \A e \in Entry : \A i \in DOMAIN ent[e].kids : FinishedUpTo(e, i) =>
          i \in DOMAIN ent'[e].kids /\ ent'[e].kids[i] = ent[e].kids[i]
  BY DEF Stay, FinishedUpTo
<1> QED
  BY <1>1, <1>2, FilesInvariant, PTL DEF LoadSpec, FinishedStay

=============================================================================
