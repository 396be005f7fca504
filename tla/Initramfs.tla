------------------------------- MODULE Initramfs -------------------------------
(***************************************************************************)
(* Loading the archive of the boot loader into the file system             *)
(* (initramfs.c), and what threads do with the files afterwards.  The boot *)
(* thread loads it before any other thread is there, so a record of the    *)
(* archive is one step.                                                    *)
(***************************************************************************)
EXTENDS Ramfs

\* the archive: a sequence of records [name, is_dir, filesize]
Archive == scene.archive

\* make_initramfs.sh has find list a directory before what is in it, and nothing twice;
\* the directory that is packed comes first
ASSUME ArchiveAssumption ==
    \A s \in Scenario :
        /\ s.archive \in Seq([name : Name, is_dir : BOOLEAN, filesize : Nat])
        /\ \A i, j \in DOMAIN s.archive : s.archive[i].name = s.archive[j].name => i = j
        /\ \A i \in DOMAIN s.archive :
             /\ i > 1 => \E j \in 1 .. i - 1 : s.archive[j].name = DirName[s.archive[i].name]
             /\ s.archive[i].is_dir => s.archive[i].filesize = 0

VARIABLE pos   \* the records that are loaded

load_vars == <<root, ent, pc, call, reg, scene, pos>>

LoadInit == RamfsInit /\ pos = 0
Loaded == pos = Len(Archive)

\* ramfs_create_file of a name that is not there, then ramfs_open, ramfs_write at
\* the beginning of the file, and ramfs_close; loading ends if it returns NULL
LoadRecord ==
    LET r == Archive[pos + 1]
        e == Fresh(ent)
        p == IF root = Null THEN Null ELSE Find(DirName[r.name])
        linked == Linked(ent, p, e, r.name)
        made == Initialized(linked, p, e, r.is_dir)
    IN  /\ ~Loaded /\ Room
        /\ IF (root # Null /\ p = Null) \/ linked = ent
           THEN pos' = Len(Archive) /\ UNCHANGED <<root, ent>>
           ELSE /\ pos' = pos + 1
                /\ root' = IF root = Null THEN e ELSE root
                /\ ent' = [made EXCEPT ![e].size =
                              IF r.is_dir THEN 0 ELSE SizeAfterWrite(made, e, 0, r.filesize)]
        /\ UNCHANGED <<pc, call, reg, scene>>

LoadNext ==
    \/ LoadRecord
    \/ /\ Loaded /\ Running
       /\ \E t \in Thread : Step(t)
       /\ UNCHANGED pos

LoadSpec == LoadInit /\ [][LoadNext]_load_vars

\* the scheduler is fair, mutexes are handed over in order, files are closed
FairLoad ==
    /\ LoadSpec
    /\ WF_load_vars(LoadRecord)
    /\ \A t \in Thread :
         /\ WF_load_vars(Loaded /\ Running /\ UNCHANGED <<pos, scene>> /\ Close(t))
         /\ SF_load_vars(Loaded /\ Running /\ UNCHANGED <<pos, scene>> /\ OpenLock(t))

-----------------------------------------------------------------------------
\* nobody else is there when the first entry is created
FirstAlone == ~scene.concurrent \/ Archive # <<>>

\* However the steps of threads that create files are mixed, those of two that create
\* the first one included, and whatever fentry_create cuts off again: an entry is in
\* one directory at most, the one that get_directory_name gave for it, no name is
\* twice in a directory, and the root is in none.  If nobody else is there when the
\* first entry is created, a name that ramfs_find can get to is there once, and a
\* directory is never in itself by name (ramfs.c:37-56, 120-143, 233-278).
TreeSound ==
    /\ RamfsTypeOK
    /\ \A e \in Entry : \A i, j \in DOMAIN ent[e].kids :
         ent[ent[e].kids[i]].name = ent[ent[e].kids[j]].name => i = j
    /\ \A e \in Entry : \A k \in ToSet(ent[e].kids) :
         /\ k # root /\ DirOf(ent[k].name) = ent[e].name
         /\ \A f \in Entry : k \in ToSet(ent[f].kids) => f = e
    /\ FirstAlone =>
         /\ \A e \in Entry : \A k \in ToSet(ent[e].kids) : DirName[ent[k].name] # NoName
         /\ \A e, f \in InTree : ent[e].name = ent[f].name => e = f

\* the first i files in the directory are finished
FinishedUpTo(e, i) == \A j \in 1 .. i : ent[ent[e].kids[j]].ready

\* fentry_create cuts off only what others have put behind a file that it has yet to
\* finish: a file behind none but finished ones stays in its directory, at its place
\* (ramfs.c:48, 57, 120-143).
FinishedStay ==
    [][\A e \in Entry : \A i \in DOMAIN ent[e].kids : FinishedUpTo(e, i) =>
          i \in DOMAIN ent'[e].kids /\ ent'[e].kids[i] = ent[e].kids[i]]_load_vars

\* When initramfs reports that it is loaded every file of the archive is there
\* with its contents (initramfs.c:89, 126).
FilesLoaded ==
    Loaded => \A i \in DOMAIN Archive :
        LET f == Find(Archive[i].name)
        IN  f \in Entry /\ ent[f].is_dir = Archive[i].is_dir /\ ent[f].size >= Archive[i].filesize

\* As long as one thread creates at a time, whatever was created can be found by its
\* name; and, contents aside, the archive's files and directories are in the file
\* system from the moment that it is loaded (initramfs.c:102-124).
NamesLoaded == ~scene.concurrent =>
    /\ CreatedIsFound
    /\ Loaded /\ (\A e \in Used : ent[e].ready) => \A i \in DOMAIN Archive :
        LET f == Find(Archive[i].name)
        IN  f \in Entry /\ ent[f].is_dir = Archive[i].is_dir
===============================================================================
