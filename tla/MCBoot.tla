-------------------------------- MODULE MCBoot --------------------------------
(* Model-checking instance of Boot. *)
EXTENDS Boot

\* pages of two units; ranges that overlap, touch, contain each other or lie apart,
\* on and off the boundaries of pages
MCRanges == {r \in {0, 1, 8, 11, 14} \X {5, 8, 13, 18, 20} : r[1] < r[2]}

\* the kernel ends inside a page
MCKernel == <<6, 9>>

\* an initrd behind the kernel: its end comes out beyond the end of memory
MCModules == { <<10, 11>> }
===============================================================================
