-------------------------- MODULE MC_CacheFilePool --------------------------
(* Instances of CacheFilePool for TLC. *)
EXTENDS CacheFilePool, TLC

CONSTANTS c1, c2, c3, f1, f2, f3, k1, k2

\* Clients, cacheFile slots and keys are interchangeable (safety runs only).
Symmetric == Permutations(Clients) \cup Permutations(Files) \cup Permutations(Keys)
=============================================================================
