----------------------------- MODULE MCSlabLayout -----------------------------
(* Model-checking instance of SlabLayout: the kernel's own numbers. *)
EXTENDS SlabLayout

MCPoolSize == <<
  64,   128,  192,  256,  320,  384,  448,  512,  576,  640,  704,  768,  832,
  896,  960,  1024, 1152, 1280, 1408, 1536, 1664, 1792, 1920, 2048, 2304, 2560,
  2816, 3072, 3584, 4096, 5120, 6144, 7168, 8192 >>

\* every size that a cache serves, and the sizes around every power of two above
MCCacheSizes == 1 .. 8192
MCLargeSizes == {2^k + d : k \in 13 .. 30, d \in {1, 2}} \cup {2^k - 1 : k \in 14 .. 30}
                  \cup {2^k : k \in 14 .. 30}

\* nothing, and the sizes at which what serves a request changes
MCReallocSizes == {0} \cup {MCPoolSize[i] + d : i \in DOMAIN MCPoolSize, d \in {0, 1}}
                    \cup {2^k + d : k \in 14 .. 30, d \in {0, 1}}
===============================================================================
