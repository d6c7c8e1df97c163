------------------------------ MODULE MCDagGraph ------------------------------
(***************************************************************************)
(* Three names, and every list of at most two of them as dependencies:     *)
(* unknown names, a node on itself, a name twice, cycles of every length.  *)
(***************************************************************************)
EXTENDS DagGraph, TLC

CONSTANTS a, b, c

ThreeNames == {a, b, c}

Symmetry == Permutations(ThreeNames)

DepLists == {<<>>} \cup {<<x>> : x \in Names} \cup {<<x, y>> : x, y \in Names}

SomeOptions ==
    {[deps |-> s, both |-> FALSE, targets |-> {}] : s \in DepLists}
        \cup {[deps |-> <<x>>, both |-> TRUE, targets |-> {}] : x \in Names}
        \cup {[deps |-> <<>>, both |-> FALSE, targets |-> {x}] : x \in Names}

(***************************************************************************)
(* Files of at most two nodes, with every error in either.                 *)
(***************************************************************************)
Entry(x, fn, malformed, s) == [name |-> x, fn |-> fn, malformed |-> malformed, deps |-> s]

Entries ==
    {Entry(x, "function", FALSE, <<y>>) : x, y \in Names}
        \cup {Entry(x, fn, malformed, <<>>) :
                  x \in Names, fn \in {"function", "nil", "none"}, malformed \in BOOLEAN}

SomeConfigs == {<<>>} \cup {<<e>> : e \in Entries} \cup {<<e, f>> : e, f \in Entries}
==============================================================================
