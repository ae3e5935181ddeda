---------------------------- MODULE MCPageCache ----------------------------
(***************************************************************************)
(* Instances of PageCache for TLC: every key in one slot, cache-size = 1,  *)
(* as in tests/t0020-validate-cache.sh.                                    *)
(***************************************************************************)
EXTENDS PageCacheRefinement, TLC

CONSTANTS k1, k2, k3

OneSlot == [k \in Key |-> CHOOSE s \in Slot : TRUE]

\* k1 expires a minute after it was written, k2 never; k3 is not cached
MCTtl == [k \in Key |-> CASE k = k1 -> 1 [] k = k2 -> -1 [] k = k3 -> 0]

\* The clock stands still, at 0 or at 2: the page an earlier process left is fresh
\* or expired from the start, and a page that is generated does not expire.
Timeless == now # 1 /\ now' = now

Symmetric == Permutations(Proc) \cup Permutations(Inode)
============================================================================
