------------------------------ MODULE MCInitramfs ------------------------------
(* Model-checking instance of Initramfs and Ramfs. *)
EXTENDS Initramfs, TLC

\* "q/z" lies in a directory that no call names
MCName == {"r", "r/a", "r/b", "r/a/c", "q/z"}
MCDirName == "r" :> NoName @@ "r/a" :> "r" @@ "r/b" :> "r" @@ "r/a/c" :> "r/a" @@ "q/z" :> "q"
MCLength == [n \in MCName |-> Len(n)]

MCArchive == << [name |-> "r",   is_dir |-> TRUE,  filesize |-> 0],
                [name |-> "r/a", is_dir |-> TRUE,  filesize |-> 0],
                [name |-> "r/b", is_dir |-> FALSE, filesize |-> 1] >>

\* the archive is loaded, and threads go on, one creating at a time
AfterLoading == [archive |-> MCArchive, names |-> MCName, concurrent |-> FALSE]

\* there is no archive, and threads do what they like, from the first entry on
AtWill == [archive |-> <<>>, names |-> {"r", "r/a"}, concurrent |-> TRUE]

\* the directory that is packed is loaded, and then threads do what they like
LoadedAtWill == [archive |-> SubSeq(MCArchive, 1, 1), names |-> {"r", "r/a", "r/b"},
                 concurrent |-> TRUE]

MCScenario == {AfterLoading, AtWill, LoadedAtWill}
LoadOnly == {AfterLoading}
===============================================================================
