------------------------------ MODULE MCRunResults ------------------------------
(***************************************************************************)
(* Caller a runs a DAG of a route 1 over 2, which is a subflow, and of a   *)
(* node 3; the DAG of 2 holds a subflow 4, whose DAG holds 5.  Caller b    *)
(* runs a DAG of the node 6 with the same pools.                           *)
(***************************************************************************)
EXTENDS Exports, TLC

CONSTANTS a, b, root, middle, leaf, other, bad

MCEntries == a :> {root} @@ b :> {other, bad}
MCOwner  == root :> a @@ middle :> a @@ leaf :> a @@ other :> b @@ bad :> b
MCHome   == <<root, root, root, middle, leaf, other>>
MCDeps   == <<{}, {1}, {}, {}, {}, {}>>
MCChild  == <<None, middle, None, leaf, None, None>>
MCRoutes == 1 :> (0 :> {2} @@ 1 :> {})
MCHash     == <<1, 2004, 2107, 1007, 2999, 5>>
MCDuration == <<1, 9, 7, 8, 5, 2>>
MCHooks  == root :> <<"r">> @@ middle :> <<"m">> @@ leaf :> <<"l">> @@ other :> <<>> @@ bad :> <<>>

ASSUME InstanceIsNested == DagsNested

(***************************************************************************)
(* The objects of a pool are alike (PoolIsFree) and their numbers mean     *)
(* nothing, so it is enough to look at a Get that returns the first.       *)
(***************************************************************************)
GetsTheFirst ==
    /\ \A p, q \in FreeNodes :
          p < q => nodePool'[q] >= nodePool[q] /\ nodesMade' \notin nodesMade + 1..q
    /\ \A p, q \in FreeDags :
          p < q => dagPool'[q] >= dagPool[q] /\ dagsMade' \notin dagsMade + 1..q
=================================================================================
