-------------------------------- MODULE Ramfs --------------------------------
(***************************************************************************)
(* The file system in memory (ramfs.c).  Entries form a tree under __root; *)
(* each has a mutex, which ramfs_open leaves locked until ramfs_close.     *)
(* Lookups take no lock, and creating an entry is many steps, between      *)
(* which other threads run.  A mutex promises what Monitor says.           *)
(*                                                                         *)
(* An entry is "ready" when the last lines of fentry_create have run;      *)
(* before that its fields hold whatever was in memory, and following them  *)
(* is a fault, which stops the machine.  A walk through the tree is one    *)
(* step: that others change it meanwhile is left out.  Memory does not run *)
(* out, and a thread has one file open at a time.                          *)
(***************************************************************************)
EXTENDS Integers, SequencesExt

CONSTANTS
    Thread,
    Name,        \* absolute file names
    NoName,
    DirName,     \* of each name what precedes its last '/', or NoName
    Length,      \* of each name how many characters it has
    RAMFS_MAX_FILENAME_SIZE, \* longer names are refused, and are not in Name
    MaxEntries,  \* how many entries there may be
    MaxSize,     \* the largest offset and size of a write
    Null,
    Wild,        \* what comes of following an uninitialised field
    Scenario     \* what is loaded at boot, the names that threads use, and
                 \* whether they call the file system while one creates

Entry == 1 .. MaxEntries

ASSUME RamfsAssumption ==
    /\ MaxEntries \in Nat
    /\ DOMAIN DirName = Name
    /\ RAMFS_MAX_FILENAME_SIZE \in Nat /\ Length \in [Name -> 0 .. RAMFS_MAX_FILENAME_SIZE]
    /\ \A n \in Name : DirName[n] \in Name => Length[DirName[n]] < Length[n]
    /\ NoName \notin Name /\ Null \notin Entry \cup Thread /\ Wild \notin Entry
    /\ \A s \in Scenario : s.names \subseteq Name /\ s.concurrent \in BOOLEAN
    /\ MaxSize \in Nat

VARIABLES
    root,   \* __root
    ent,    \* the entries; name is NoName if the memory is not in use
    pc,     \* where each thread is
    call,   \* the call it is in
    reg,    \* the entry it is working on, as <<entry, parent>>
    scene   \* the scenario

ramfs_vars == <<root, ent, pc, call, reg, scene>>

Unused == [name |-> NoName, kids |-> <<>>, is_dir |-> FALSE, size |-> 0,
           owner |-> Null, ready |-> FALSE]
Call == [op : {"open", "create", "mkdir", "readdir"}, name : Name, is_dir : BOOLEAN]
NoCall == [op |-> "none", name |-> NoName, is_dir |-> FALSE]

RamfsInit ==
    /\ root = Null
    /\ ent = [e \in Entry |-> Unused]
    /\ pc = [t \in Thread |-> "idle"]
    /\ call = [t \in Thread |-> NoCall]
    /\ reg = [t \in Thread |-> <<Null, Null>>]
    /\ scene \in Scenario

-----------------------------------------------------------------------------
\* the first element of s that is not the unwanted one, which stands for none
FirstOf(s, Unwanted) == LET wanted == {i \in DOMAIN s : s[i] # Unwanted}
                        IN  IF wanted = {} THEN Unwanted ELSE s[Min(wanted)]

Named(en, s, n) == FirstOf([i \in DOMAIN s |-> IF en[s[i]].name = n THEN s[i] ELSE Null], Null)

\* variant: only the first level of the tree is searched
FindIn1(r, en, n) ==
    IF r = Null THEN Null ELSE IF en[r].name = n THEN r ELSE Named(en, en[r].kids, n)

\* ramfs_find and ramfs_find_recursive
FindIn(r, en, n) ==
    LET search[e \in Entry] ==
          IF en[e].name = n THEN e
          ELSE IF ~en[e].ready THEN Wild
          ELSE IF Named(en, en[e].kids, n) # Null THEN Named(en, en[e].kids, n)
          ELSE FirstOf([i \in DOMAIN en[e].kids |-> search[en[e].kids[i]]], Null)
    IN  IF r = Null THEN Null ELSE search[r]

Find(n) == FindIn(root, ent, n)

\* the entries below e, e included
Below(en, e) ==
    LET below[f \in Entry] == {f} \cup UNION {below[k] : k \in ToSet(en[f].kids)}
    IN  below[e]

\* the model stops creating when all of Entry is in use; entries are never released
Room == \E e \in Entry : ent[e].name = NoName
Fresh(en) == CHOOSE e \in Entry : en[e].name = NoName /\ \A f \in Entry : en[f].name = NoName => e <= f

\* variant: no look for the name before it is added
LinkedAgain(en, p, e, n) ==
    [en EXCEPT ![e] = [Unused EXCEPT !.name = n], ![p].kids = Append(@, e)]

\* variant: the entry is put before the others
LinkedFirst(en, p, e, n) ==
    IF p # Null /\ Named(en, en[p].kids, n) # Null THEN en
    ELSE LET new == [en EXCEPT ![e] = [Unused EXCEPT !.name = n]]
         IN  IF p = Null THEN new ELSE [new EXCEPT ![p].kids = <<e>> \o @]

\* the first lines of fentry_create and fentry_list_add; a name that is there
\* already leaves everything as it was
Linked(en, p, e, n) ==
    IF p # Null /\ Named(en, en[p].kids, n) # Null THEN en
    ELSE LET new == [en EXCEPT ![e] = [Unused EXCEPT !.name = n]]
         IN  IF p = Null THEN new ELSE [new EXCEPT ![p].kids = Append(@, e)]

\* the list s up to e, or all of it if e is not on it
UpTo(s, e) == IF e \in ToSet(s) THEN SubSeq(s, 1, CHOOSE i \in DOMAIN s : s[i] = e) ELSE s

\* the last lines of fentry_create; next = NULL cuts off what others have added
Initialized(en, p, e, dir) ==
    LET done == [en EXCEPT ![e] = [@ EXCEPT !.is_dir = dir, !.ready = TRUE]]
    IN  IF p = Null THEN done
        ELSE [done EXCEPT ![p].kids = UpTo(@, e)]

-----------------------------------------------------------------------------
At(t, l) == pc[t] = l

\* the points at which a call still needs its arguments
Inside == {"find", "create_find", "create_parent", "create_dir", "create_check",
           "create_link", "create_root", "create_init", "open_retry"}

\* the points at which it works on an entry that it has found or made
Holding == {"create_check", "create_link", "create_init", "open_lock", "open", "print"}

\* t goes on at l, where it works on entry f in directory p
Goto(t, l, f, p) ==
    /\ pc' = [pc EXCEPT ![t] = l]
    /\ call' = IF l \in Inside THEN call ELSE [call EXCEPT ![t] = NoCall]
    /\ reg' = [reg EXCEPT ![t] = IF l \in Holding THEN <<f, p>> ELSE <<Null, Null>>]

\* the thread has got f from ramfs_create_file, or from looking for the file
FoundAt(op) == IF op = "open" THEN "open_lock" ELSE "idle"

\* ... or NULL: ramfs_mkdir then reads the name of a null entry
FailedAt(op) == CASE op = "open" -> "open_retry" [] op = "mkdir" -> "fault" [] OTHER -> "idle"

Begin(t) ==
    /\ At(t, "idle")
    /\ scene.concurrent \/ \A u \in Thread : pc[u] \notin Inside
    /\ \E c \in Call :
        /\ c.name \in scene.names
        /\ c.is_dir => c.op = "create"
        /\ call' = [call EXCEPT ![t] = c]
        /\ pc' = [pc EXCEPT ![t] = IF c.op = "create" THEN "create_find" ELSE "find"]
    /\ UNCHANGED <<root, ent, reg>>

\* the first lookup of ramfs_open, ramfs_mkdir and ramfs_readdir
FindFirst(t) ==
    LET f == Find(call[t].name)
        op == call[t].op
    IN  /\ At(t, "find")
        /\ Goto(t, IF f = Wild THEN "fault"
                   ELSE IF op = "readdir" THEN (IF f # Null THEN "print" ELSE "idle")
                   ELSE IF f # Null THEN FoundAt(op) ELSE "create_find",
                f, Null)
        /\ UNCHANGED <<root, ent>>

\* ramfs_create_file returns a file that is there already
CreateFind(t) ==
    LET f == Find(call[t].name)
    IN  /\ At(t, "create_find")
        /\ Goto(t, IF f = Wild THEN "fault"
                   ELSE IF f # Null THEN FoundAt(call[t].op) ELSE "create_parent",
                f, Null)
        /\ UNCHANGED <<root, ent>>

\* get_directory_name returns NULL for a second name without '/', which the
\* lookup that follows dereferences
CreateParent(t) ==
    /\ At(t, "create_parent")
    /\ Goto(t, IF DirName[call[t].name] = NoName /\ root # Null THEN "fault" ELSE "create_dir",
            Null, Null)
    /\ UNCHANGED <<root, ent>>

\* what get_directory_name makes of a name while there is no root
DirOf(n) == IF DirName[n] = NoName THEN n ELSE DirName[n]

\* the lookup of the directory, which may come after the first entry was created
FindParent(t) ==
    LET p == Find(DirOf(call[t].name))
    IN  /\ At(t, "create_dir")
        /\ Goto(t, IF p = Wild THEN "fault" ELSE "create_check", Null, p)
        /\ UNCHANGED <<root, ent>>

\* there is a directory, or no root yet
CheckParent(t) ==
    LET p == reg[t][2]
    IN  /\ At(t, "create_check")
        /\ Goto(t, IF p = Null /\ root # Null THEN FailedAt(call[t].op) ELSE "create_link", Null, p)
        /\ UNCHANGED <<root, ent>>

\* fentry_create without a directory looks again whether there is a root; if there is
\* it reads the mutex of a null entry
CreateFirst(t) ==
    /\ At(t, "create_link") /\ reg[t][2] = Null
    /\ Goto(t, IF root = Null THEN "create_root" ELSE "fault", Null, Null)
    /\ UNCHANGED <<root, ent>>

\* the entry becomes visible: as __root, in place of one that may be there by now
CreateRoot(t) ==
    /\ At(t, "create_root") /\ Room
    /\ root' = Fresh(ent)
    /\ ent' = Linked(ent, Null, Fresh(ent), call[t].name)
    /\ Goto(t, "create_init", Fresh(ent), Null)

\* ... or in its directory, under the mutex of the directory
CreateLink(t) ==
    LET p == reg[t][2]
        linked == Linked(ent, p, Fresh(ent), call[t].name)
    IN  /\ At(t, "create_link") /\ p # Null /\ Room
        /\ ent[p].ready => ent[p].owner = Null
        /\ IF ~ent[p].ready
           THEN /\ Goto(t, "fault", Null, Null)
                /\ UNCHANGED ent
           ELSE /\ ent' = linked
                /\ Goto(t, IF linked = ent THEN FailedAt(call[t].op) ELSE "create_init",
                        Fresh(ent), p)
        /\ UNCHANGED root

CreateInit(t) ==
    LET f == reg[t][1]
    IN  /\ At(t, "create_init")
        /\ ent' = Initialized(ent, reg[t][2], f, call[t].is_dir)
        /\ Goto(t, FoundAt(call[t].op), f, Null)
        /\ UNCHANGED root

\* ramfs_open looks again after a creation that failed; then it uses the result
OpenRetry(t) ==
    LET f == Find(call[t].name)
    IN  /\ At(t, "open_retry")
        /\ Goto(t, IF f \in {Null, Wild} THEN "fault" ELSE "open_lock", f, Null)
        /\ UNCHANGED <<root, ent>>

\* variant: the mutex is not asked
OpenLockAnyway(t) ==
    LET f == reg[t][1]
    IN  /\ At(t, "open_lock")
        /\ ent' = [ent EXCEPT ![f].owner = t]
        /\ Goto(t, "open", f, Null)
        /\ UNCHANGED root

OpenLock(t) ==
    LET f == reg[t][1]
    IN  /\ At(t, "open_lock")
        /\ ent[f].ready => ent[f].owner = Null
        /\ IF ent[f].ready
           THEN /\ ent' = [ent EXCEPT ![f].owner = t]
                /\ Goto(t, "open", f, Null)
           ELSE Goto(t, "fault", Null, Null) /\ UNCHANGED ent
        /\ UNCHANGED root

\* variant: the mutex is kept
ReaddirKeepsLock(t) ==
    LET f == reg[t][1]
    IN  /\ At(t, "print")
        /\ ent[f].ready => ent[f].owner = Null
        /\ ent' = IF ent[f].is_dir THEN [ent EXCEPT ![f].owner = t] ELSE ent
        /\ Goto(t, "idle", Null, Null)
        /\ UNCHANGED root

\* ramfs_readdir of what it found: nothing but output, and nothing if it is a plain
\* file, which a file that is not ready may seem to be
Readdir(t) ==
    LET f == reg[t][1]
    IN  /\ At(t, "print")
        /\ ent[f].ready /\ ent[f].is_dir => ent[f].owner = Null
        /\ \E dir \in IF ent[f].ready THEN {ent[f].is_dir} ELSE BOOLEAN :
             Goto(t, IF dir /\ \E k \in Below(ent, f) : ~ent[k].ready THEN "fault" ELSE "idle",
                  f, Null)
        /\ UNCHANGED <<root, ent>>

\* ramfs_write in a plain file.  A write that begins within the file is refused,
\* or has nothing to copy.  One that begins past its end copies the old contents,
\* which are null as long as the size is zero.
SizeAfterWrite(en, e, seek, count) ==
    IF en[e].is_dir \/ seek <= en[e].size THEN en[e].size ELSE seek + count

Write(t) ==
    LET f == reg[t][1]
    IN  /\ At(t, "open")
        /\ \E seek, count \in 0 .. MaxSize :
             IF ~ent[f].is_dir /\ ent[f].size = 0 /\ seek > 0
             THEN Goto(t, "fault", f, Null) /\ UNCHANGED ent
             ELSE /\ ent' = [ent EXCEPT ![f].size = SizeAfterWrite(ent, f, seek, count)]
                  /\ UNCHANGED <<pc, call, reg>>
        /\ UNCHANGED root

\* ramfs_close
Close(t) ==
    /\ At(t, "open")
    /\ ent' = [ent EXCEPT ![reg[t][1]].owner = Null]
    /\ Goto(t, "idle", Null, Null)
    /\ UNCHANGED root

Running == \A t \in Thread : pc[t] # "fault"

Step(t) ==
    /\ \/ Begin(t) \/ FindFirst(t) \/ CreateFind(t) \/ CreateParent(t) \/ FindParent(t)
       \/ CheckParent(t) \/ CreateFirst(t) \/ CreateRoot(t) \/ CreateLink(t) \/ CreateInit(t)
       \/ OpenRetry(t) \/ OpenLock(t) \/ Readdir(t) \/ Write(t) \/ Close(t)
    /\ UNCHANGED scene

-----------------------------------------------------------------------------
Used == {e \in Entry : ent[e].name # NoName}
InTree == IF root = Null THEN {} ELSE Below(ent, root)

\* Type invariant.
RamfsTypeOK ==
    /\ root \in Entry \cup {Null}
    /\ ent \in [Entry -> [name : Name \cup {NoName}, kids : Seq(Entry), is_dir : BOOLEAN,
                          size : 0 .. 2 * MaxSize, owner : Thread \cup {Null}, ready : BOOLEAN]]
    /\ pc \in [Thread -> Inside \cup {"idle", "open_lock", "open", "print", "fault"}]
    /\ call \in [Thread -> Call \cup {NoCall}]
    /\ reg \in [Thread -> (Entry \cup {Null, Wild}) \X (Entry \cup {Null, Wild})]

\* A file that was created can be found by its name, however deep it lies
\* (ramfs.c:281-313, 57).
CreatedIsFound ==
    (\A e \in Used : ent[e].ready) => \A e \in Used : Find(ent[e].name) = e

\* A file is locked exactly while one thread has it open: no call of the file
\* system, failed ones included, leaves a mutex behind, and nobody gets a file
\* that somebody has (ramfs.c:47-49, 351-353, 374-380).
LockedWhileOpen ==
    Running => \A e \in Entry : \A t \in Thread :
        ent[e].owner = t <=> (pc[t] = "open" /\ reg[t][1] = e)

\* ramfs_open returns if whoever has the file closes it, unless a fault has
\* stopped the machine (ramfs.c:374).
OpenReturns ==
    \A t \in Thread : (pc[t] = "open_lock") ~> (pc[t] = "open" \/ ~Running)
===============================================================================
