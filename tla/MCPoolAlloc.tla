---------------------------- MODULE MCPoolAlloc ----------------------------
(* Instances of PoolAlloc for TLC: sets of requests, in 8-byte words.      *)
EXTENDS PoolAlloc, TLC

Layout(s, a) == [size |-> s, align |-> a]

(* Small slots only, all of them reusable: one below MIN_BUCKET_SIZE, and  *)
(* two capacities in one bucket, the smaller of which needs padding.       *)
SmallRequests == {Layout(1, 1), Layout(3, 1), Layout(4, 1)}

(* Slots that fill whole pages with their header, which are released, not  *)
(* reused.                                                                 *)
PageRequests == {Layout(PageSize - 2, 2), Layout(2 * PageSize - 2, 2)}

(* Page-filling slots, a direct request and an empty one.                  *)
RoutedRequests == {Layout(PageSize - 2, 2), Layout(DirectThreshold, 2), Layout(0, 2)}

(* Slots of half a page with their header, and of a page and a half: pages *)
(* are shared by slots, and a slot by pages.                               *)
SharedRequests == {Layout(PageSize \div 2 - 2, 2), Layout(PageSize + PageSize \div 2 - 2, 2)}

(* A slot that ends inside a page, and small slots bumped in behind it.    *)
MixedRequests == {Layout(2, 2), Layout(PageSize, 2)}

(* A request below MIN_BUCKET_SIZE and a filler.                           *)
TinyRequests == {Layout(1, 1)}

Symmetry == Permutations(Threads) \cup Permutations(Ids)
=============================================================================
