----------------------------- MODULE MCPageAlloc -----------------------------
(* Model-checking instance of PageAlloc. *)
EXTENDS PageAlloc

\* two zones, neither aligned; the pages 0, 4 and 16 are reserved; the free
\* ranges give blocks of every order
MCZones == << <<0, 6>>, <<9, 17>> >>
MCFreeRanges == << <<0, 4>>, <<5, 6>>, <<9, 16>> >>

\* garbage in the descriptors of the pages that are not the first of their block, in one
\* of two pages and in the one of four
MCStale == {3, 13, 14, 15}

\* one zone of six pages, of which 5 is reserved
SmallZones == << <<0, 6>> >>
SmallFreeRanges == << <<0, 5>> >>
SmallStale == {5}
=============================================================================
