----------------------------- MODULE MCEventLoop -----------------------------
(***************************************************************************)
(* Instances of EventLoop for TLC.                                         *)
(***************************************************************************)
EXTENDS EventLoop, TLC

(***************************************************************************)
(* A route node 1 over 2 and 3, of which 3 also depends on 2 (a skipped    *)
(* node releases its sibling); a second route node 5 over 4, which 3       *)
(* precedes too; 6 is independent of them.                                 *)
(***************************************************************************)
RouteDeps    == <<{}, {1}, {1, 2}, {3, 5}, {}, {}>>
RouteTargets == 1 :> (0 :> {2} @@ 1 :> {3}) @@ 5 :> (0 :> {4})

(***************************************************************************)
(* 7 has no branch in either map; a negative index selects nothing and     *)
(* filters nothing.                                                        *)
(***************************************************************************)
SomeIndexes  == {-1, 0, 1, 7}

(***************************************************************************)
(* The graph of the documentation on nested branches: a route node 1 over 2*)
(* and 3, a node 4 inside the branch of 3, and 5, where 2 and 4 join; 5 is *)
(* a route node over 6.                                                    *)
(***************************************************************************)
BranchDeps    == <<{}, {1}, {1}, {3}, {2, 4}, {5}>>
BranchTargets == 1 :> (0 :> {2} @@ 1 :> {3}) @@ 5 :> (0 :> {6})
ThreeIndexes  == {0, 1, 7}

SamePrio     == [n \in 1..N |-> 0]

(***************************************************************************)
(* Chains whose priorities differ: 3 becomes ready while the less urgent 2 *)
(* or 5 is on offer.                                                       *)
(***************************************************************************)
ChainDeps    == <<{}, {}, {1}, {2, 3}, {}>>
MixedPrio    == <<1, 0, 2, 0, 0>>
NoTargets    == [r \in {} |-> [i \in {} |-> {}]]
NoIndexes    == {}
==============================================================================
