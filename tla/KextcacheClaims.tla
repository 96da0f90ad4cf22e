-------------------------- MODULE KextcacheClaims ---------------------------
(* What a comment of kextcache says and the code does not do. *)
EXTENDS MCKextcache

\* createPrelinkedKernel(): "the PLK that we wrote [...] is now valid, and should not
\* be removed on subsequent errors".  A second kextcache that found the file just
\* created and empty counts it as created by itself; it waits for the lock, finds
\* the finished kernel in its place, fails, and removes it by name.
WrittenKernelKept ==
    [][\A f \in Paths :
          kextd = "watching" /\ plk[f].size = "full" => plk'[f].size = "full"]_vars
=============================================================================
