------------------------------ MODULE ContextStore ------------------------------
(***************************************************************************)
(* What the nodes of a DAG are promised of their DAGContext: one map, whose*)
(* single-key operations are atomic (dagcontext.go:35-38).  Nothing is said*)
(* of the bulk operations, except that they invent no value.               *)
(***************************************************************************)
CONSTANTS Keys, Vals, None

VARIABLES
    map,   (* the value of every key, or None                                *)
    out    (* what the last call returned                                    *)

Init ==
    /\ map = [k \in Keys |-> None]
    /\ out = None

Put(k, v) == map' = [map EXCEPT ![k] = v] /\ UNCHANGED out

(***************************************************************************)
(* A call that finds no value returns None or panics; one that finds a     *)
(* value returns it, or an error if it has another type.                   *)
(***************************************************************************)
Read(k) ==
    /\ out' \in IF map[k] = None THEN {None, "panic"} ELSE {map[k], "mismatch"}
    /\ UNCHANGED map

Remove(K) ==
    /\ map' = [k \in Keys |-> IF k \in K THEN None ELSE map[k]]
    /\ UNCHANGED out

Next ==
    \/ \E k \in Keys, v \in Vals : Put(k, v)
    \/ \E k \in Keys : Read(k)
    \/ \E K \in SUBSET Keys : Remove(K)

Spec == Init /\ [][Next]_<<map, out>>
=================================================================================
