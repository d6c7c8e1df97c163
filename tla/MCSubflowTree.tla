---------------------------- MODULE MCSubflowTree ----------------------------
(***************************************************************************)
(* A root of a plain node and two subflows, the first of them two deep,    *)
(* and a child with a chain.                                               *)
(***************************************************************************)
EXTENDS SubflowTree, TLC

FourLayers == {"root", "a", "b", "c"}

TreeNodes == "root" :> {"s1", "s2", "crit"} @@ "a" :> {"a1"}
                 @@ "b" :> {"b1", "b2"} @@ "c" :> {"c1"}

TreeDeps == [n \in UNION {TreeNodes[l] : l \in FourLayers} |->
                CASE n = "b2" -> {"b1"} [] OTHER -> {}]

TreeChild == "s1" :> "a" @@ "s2" :> "b" @@ "a1" :> "c"
==============================================================================
