------------------------------ MODULE MCDAGContext ------------------------------
(***************************************************************************)
(* Three keys, two of which share a shard when there are four or two: with *)
(* three shards, which is no power of two, they do not.                    *)
(***************************************************************************)
EXTENDS DAGContext, TLC

CONSTANTS k1, k2, k3, p1, p2

MCHash == k1 :> 5 @@ k2 :> 6 @@ k3 :> 13

MCTypeOf == "7" :> "int" @@ "text" :> "string"
MCCalls == p1 :> {"Keys", "Len"} @@ p2 :> {"Reset"}
=================================================================================
