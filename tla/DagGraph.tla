------------------------------- MODULE DagGraph -------------------------------
(***************************************************************************)
(* A DAG under construction: AddNode, by its caller or from a YAML file,   *)
(* Validate with Kahn's algorithm (topologicalSort), and the layers that   *)
(* Visualize prints (topologicalLayers).  What Validate accepts is what    *)
(* module EventLoop assumes of its graph (GraphAssumption).                *)
(***************************************************************************)
EXTENDS Integers, Sequences, FiniteSets

CONSTANTS
    Names,    (* the names a caller may use, registered or not               *)
    Options,  (* what the options of an AddNode may say of a node            *)
    Configs   (* the node lists of the YAML files, as parsed                 *)

(***************************************************************************)
(* deps: the names of NodeWithDependsOn, in order, with any repetitions.   *)
(* both: the node has a RouteFn and a ConditionFn.  targets: the names its *)
(* RouteMap mentions if it has a RouteFn.                                  *)
(* Of an entry of a file: fn is what the registry holds for its name, and  *)
(* malformed that a duration does not parse: its timeout, or its interval  *)
(* where a retry count is given.                                           *)
(***************************************************************************)
ASSUME DagAssumption ==
    /\ IsFiniteSet(Names)
    /\ Options \subseteq [deps : Seq(Names), both : BOOLEAN, targets : SUBSET Names]
    /\ Configs \subseteq Seq([name : Names, fn : {"function", "nil", "none"},
                              malformed : BOOLEAN, deps : Seq(Names)])

VARIABLES
    nodes,         (* the registered names                                   *)
    edges,         (* edges[d]: the nodes that depend on d                   *)
    reverseEdges,  (* reverseEdges[n]: the names n depends on                *)
    both, targets, (* of the registered nodes                                *)
    config,        (* entries of a YAML file that are not added yet          *)
    pc,            (* what the caller is in                                  *)
    inDegree,      (* of topologicalSort or topologicalLayers                *)
    queue, todo,   (* nodes to sort, and the edges of the last one sorted    *)
    sorted,        (* what topologicalSort has sorted                        *)
    left,          (* the keys of topologicalLayers' inDegree                *)
    remaining,     (* nodes that are in no layer yet                         *)
    layers,        (* what topologicalLayers has layered                     *)
    verdict,       (* what Validate returned, or "none"                      *)
    drawn          (* what topologicalLayers returned, or "none"             *)

graph  == <<nodes, edges, reverseEdges, both, targets>>
kahn   == <<queue, todo, sorted>>
layout == <<left, remaining, layers>>
vars   == <<graph, config, pc, inDegree, kahn, layout, verdict, drawn>>

Init ==
    /\ nodes = {}
    /\ edges = [d \in Names |-> <<>>]
    /\ reverseEdges = [n \in Names |-> <<>>]
    /\ both = {}
    /\ targets = [n \in Names |-> {}]
    /\ config = <<>>
    /\ pc = "build"
    /\ inDegree = [n \in Names |-> 0]
    /\ queue = <<>>
    /\ todo = <<>>
    /\ sorted = <<>>
    /\ left = {}
    /\ remaining = 0
    /\ layers = <<>>
    /\ verdict = "none"
    /\ drawn = "none"

Count(s, x) == Cardinality({i \in 1..Len(s) : s[i] = x})
Elems(s)    == {s[i] : i \in 1..Len(s)}

-----------------------------------------------------------------------------
(* A fault: a repeated dependency makes one edge.                          *)
AddedOnce(name, opt) ==
    /\ nodes' = nodes \cup {name}
    /\ edges' = [d \in Names |-> IF d \in Elems(opt.deps) THEN Append(edges[d], name)
                                 ELSE edges[d]]
    /\ reverseEdges' = [reverseEdges EXCEPT ![name] = @ \o opt.deps]
    /\ both' = IF opt.both THEN both \cup {name} ELSE both
    /\ targets' = [targets EXCEPT ![name] = opt.targets]

Added(name, opt) ==
    /\ nodes' = nodes \cup {name}
    /\ edges' = [d \in Names |-> edges[d] \o [i \in 1..Count(opt.deps, d) |-> name]]
    /\ reverseEdges' = [reverseEdges EXCEPT ![name] = @ \o opt.deps]
    /\ both' = IF opt.both THEN both \cup {name} ELSE both
    /\ targets' = [targets EXCEPT ![name] = opt.targets]

(***************************************************************************)
(* AddNode of a registered name, or without any function, returns an error *)
(* and changes nothing.                                                    *)
(***************************************************************************)
AddNode(name, opt) ==
    /\ pc = "build"
    /\ name \notin nodes
    /\ Added(name, opt)
    /\ UNCHANGED <<config, pc, inDegree, kahn, layout, verdict, drawn>>

-----------------------------------------------------------------------------
(***************************************************************************)
(* LoadDAGFromYAMLBytes adds the nodes of a file to a new DAG, in order.   *)
(***************************************************************************)
LoadStarts(cfg) ==
    /\ pc = "build"
    /\ nodes = {}
    /\ config' = cfg
    /\ pc' = "load"
    /\ UNCHANGED <<graph, inDegree, kahn, layout, verdict, drawn>>

EntryFault(entry) ==
    IF entry.fn = "none" THEN "no function registered"
    ELSE IF entry.malformed THEN "invalid duration"
    ELSE IF entry.name \in nodes THEN "duplicate node"
    ELSE IF entry.fn = "nil" THEN "function is nil"
    ELSE "none"

LoadEntry ==
    /\ pc = "load"
    /\ config # <<>>
    /\ EntryFault(Head(config)) = "none"
    /\ Added(Head(config).name, [deps |-> Head(config).deps, both |-> FALSE, targets |-> {}])
    /\ config' = Tail(config)
    /\ UNCHANGED <<pc, inDegree, kahn, layout, verdict, drawn>>

(***************************************************************************)
(* The first error ends the load, and the DAG built so far is dropped.     *)
(***************************************************************************)
LoadFails ==
    /\ pc = "load"
    /\ config # <<>>
    /\ EntryFault(Head(config)) # "none"
    /\ verdict' = EntryFault(Head(config))
    /\ nodes' = {}
    /\ edges' = [d \in Names |-> <<>>]
    /\ reverseEdges' = [n \in Names |-> <<>>]
    /\ config' = <<>>
    /\ pc' = "done"
    /\ UNCHANGED <<both, targets, inDegree, kahn, layout, drawn>>

LoadEnds ==
    /\ pc = "load"
    /\ config = <<>>
    /\ pc' = "build"
    /\ UNCHANGED <<graph, config, inDegree, kahn, layout, verdict, drawn>>

-----------------------------------------------------------------------------
(* A fault: dependencies are not resolved.                                 *)
FaultOfRoutes(n) ==
    IF n \in both THEN "route and condition"
    ELSE IF ~(targets[n] \subseteq nodes) THEN "unknown downstream"
    ELSE "none"

(***************************************************************************)
(* The first fault of a node that Validate finds; the nodes are visited in *)
(* the random order of a Go map.                                           *)
(***************************************************************************)
Fault(n) ==
    IF ~(Elems(reverseEdges[n]) \subseteq nodes) THEN "dependency missing"
    ELSE IF n \in both THEN "route and condition"
    ELSE IF ~(targets[n] \subseteq nodes) THEN "unknown downstream"
    ELSE "none"

Faults == {Fault(n) : n \in nodes} \ {"none"}

(* A fault: the degrees are not initialized.                               *)
DegreesOfZero == [n \in Names |-> 0]

Degrees == [n \in Names |-> Len(reverseEdges[n])]

Roots == {n \in nodes : Degrees[n] = 0}

(***************************************************************************)
(* The sequences without repetition of the elements of S.                  *)
(***************************************************************************)
Orders(S) == {s \in [1..Cardinality(S) -> S] : Elems(s) = S}

ValidateRejects ==
    /\ pc = "build"
    /\ verdict' \in IF nodes = {} THEN {"empty"} ELSE Faults
    /\ pc' = "rejected"
    /\ UNCHANGED <<graph, config, inDegree, kahn, layout, drawn>>

SortStarts ==
    /\ pc = "build"
    /\ nodes # {}
    /\ Faults = {}
    /\ inDegree' = Degrees
    /\ queue' \in Orders(Roots)
    /\ pc' = "sort"
    /\ UNCHANGED <<graph, config, todo, sorted, layout, verdict, drawn>>

(***************************************************************************)
(* The outer loop takes the next node of the queue, the inner loop visits  *)
(* the edges of that node.                                                 *)
(***************************************************************************)
SortNode ==
    /\ pc = "sort"
    /\ todo = <<>>
    /\ queue # <<>>
    /\ sorted' = Append(sorted, Head(queue))
    /\ queue' = Tail(queue)
    /\ todo' = edges[Head(queue)]
    /\ UNCHANGED <<graph, config, pc, inDegree, layout, verdict, drawn>>

(* A fault: a node is queued one dependency early.                         *)
SortEdgeEarly ==
    /\ pc = "sort"
    /\ todo # <<>>
    /\ inDegree' = [inDegree EXCEPT ![Head(todo)] = @ - 1]
    /\ queue' = IF inDegree[Head(todo)] <= 2 THEN Append(queue, Head(todo)) ELSE queue
    /\ todo' = Tail(todo)
    /\ UNCHANGED <<graph, config, pc, sorted, layout, verdict, drawn>>

(* A fault: the queue is used as a stack.                                  *)
SortEdgeInFront ==
    /\ pc = "sort"
    /\ todo # <<>>
    /\ inDegree' = [inDegree EXCEPT ![Head(todo)] = @ - 1]
    /\ queue' = IF inDegree'[Head(todo)] = 0 THEN <<Head(todo)>> \o queue ELSE queue
    /\ todo' = Tail(todo)
    /\ UNCHANGED <<graph, config, pc, sorted, layout, verdict, drawn>>

SortEdge ==
    /\ pc = "sort"
    /\ todo # <<>>
    /\ inDegree' = [inDegree EXCEPT ![Head(todo)] = @ - 1]
    /\ queue' = IF inDegree'[Head(todo)] = 0 THEN Append(queue, Head(todo)) ELSE queue
    /\ todo' = Tail(todo)
    /\ UNCHANGED <<graph, config, pc, sorted, layout, verdict, drawn>>

SortEnds ==
    /\ pc = "sort"
    /\ todo = <<>>
    /\ queue = <<>>
    /\ verdict' = IF Len(sorted) # Cardinality(nodes) THEN "cycle" ELSE "ok"
    /\ pc' = "validated"
    /\ UNCHANGED <<graph, config, inDegree, kahn, layout, drawn>>

-----------------------------------------------------------------------------
(***************************************************************************)
(* Visualize does not validate: it may be called at any time.              *)
(***************************************************************************)
LayersStart ==
    /\ pc \in {"build", "rejected", "validated"}
    /\ drawn = "none"
    /\ inDegree' = Degrees
    /\ left' = nodes
    /\ remaining' = Cardinality(nodes)
    /\ pc' = "layers"
    /\ UNCHANGED <<graph, config, kahn, layers, verdict, drawn>>

(* A fault: a layer takes nodes with one dependency left.                  *)
LayerTooWide == {n \in left : inDegree[n] <= 1}

Layer == {n \in left : inDegree[n] = 0}

(***************************************************************************)
(* The edges from the nodes of S to m.                                     *)
(***************************************************************************)
EdgesTo(S, m) == UNION {{n} \X {i \in 1..Len(edges[n]) : edges[n][i] = m} : n \in S}

(***************************************************************************)
(* A decrement of a deleted key would put the key back.                    *)
(***************************************************************************)
NextLayer ==
    /\ pc = "layers"
    /\ remaining > 0
    /\ Layer # {}
    /\ left' = (left \ Layer) \cup UNION {Elems(edges[n]) : n \in Layer}
    /\ inDegree' = [m \in Names |-> inDegree[m] - Cardinality(EdgesTo(Layer, m))]
    /\ remaining' = remaining - Cardinality(Layer)
    /\ layers' = Append(layers, Layer)
    /\ UNCHANGED <<graph, config, pc, kahn, verdict, drawn>>

LayersEnd ==
    /\ pc = "layers"
    /\ remaining <= 0 \/ Layer = {}
    /\ drawn' = IF remaining <= 0 THEN "ok" ELSE "cycle"
    /\ pc' = "done"
    /\ UNCHANGED <<graph, config, inDegree, kahn, layout, verdict>>

Returned == pc = "done" /\ UNCHANGED vars

-----------------------------------------------------------------------------
Build    == \E name \in Names, opt \in Options : AddNode(name, opt)
Load     == (\E cfg \in Configs : LoadStarts(cfg)) \/ LoadEntry \/ LoadFails \/ LoadEnds
Validate == ValidateRejects \/ SortStarts \/ SortNode \/ SortEdge \/ SortEnds
Draw     == LayersStart \/ NextLayer \/ LayersEnd

Next == Build \/ Load \/ Validate \/ Draw \/ Returned

Spec == Init /\ [][Next]_vars

-----------------------------------------------------------------------------
LoadErrors ==
    {"no function registered", "invalid duration", "duplicate node", "function is nil"}

(* The type of every variable.                                             *)
TypeOK ==
    /\ nodes \in SUBSET Names
    /\ edges \in [Names -> Seq(nodes)]
    /\ reverseEdges \in [Names -> Seq(Names)]
    /\ both \in SUBSET nodes
    /\ targets \in [Names -> SUBSET Names]
    /\ config \in Seq([name : Names, fn : {"function", "nil", "none"},
                       malformed : BOOLEAN, deps : Seq(Names)])
    /\ pc \in {"build", "load", "rejected", "sort", "validated", "layers", "done"}
    /\ inDegree \in [Names -> Nat]
    /\ queue \in Seq(nodes)
    /\ todo \in Seq(nodes)
    /\ sorted \in Seq(nodes)
    /\ left \in SUBSET nodes
    /\ remaining \in Nat
    /\ layers \in Seq((SUBSET nodes) \ {{}})
    /\ verdict \in {"none", "ok", "cycle", "empty", "dependency missing",
                    "route and condition", "unknown downstream"} \cup LoadErrors
    /\ drawn \in {"none", "ok", "cycle"}

Upstream(n) == Elems(reverseEdges[n])

(***************************************************************************)
(* Some registered nodes wait for each other, around a cycle or a node for *)
(* itself.                                                                 *)
(***************************************************************************)
Cyclic == \E S \in (SUBSET nodes) \ {{}} : \A n \in S : Upstream(n) \cap S # {}

(***************************************************************************)
(* edges and reverseEdges describe the same graph, with the multiplicity   *)
(* of a dependency that is declared twice, also when the dependency is     *)
(* registered later or never (dag.go:75-78): the pending count of a node is*)
(* the number of decrements it will see.                                   *)
(***************************************************************************)
EdgesAreMirrored ==
    \A n, d \in Names : Count(edges[d], n) = Count(reverseEdges[n], d)

(***************************************************************************)
(* Validate accepts exactly the graphs that can be executed to the end: not*)
(* empty, no dangling dependency, no cycle; and it says cycle only of a    *)
(* graph that has one (dag.go:92-119, 147-150).  A file with an error gives*)
(* no part of a DAG (config.go:69-118).  Acceptance is EventLoop's         *)
(* GraphAssumption.                                                        *)
(***************************************************************************)
ValidateIsExact ==
    /\ verdict = "ok" =>
          /\ nodes # {} /\ ~Cyclic
          /\ \A n \in nodes : Upstream(n) \subseteq nodes /\ targets[n] \subseteq nodes
    /\ verdict = "cycle" => Cyclic
    /\ verdict \in LoadErrors => nodes = {}

(***************************************************************************)
(* Every node is sorted at most once and after all it depends on; if       *)
(* Validate accepts the graph, every node is sorted (dag.go:123-154).      *)
(***************************************************************************)
SortIsTopological ==
    /\ \A i, j \in 1..Len(sorted) : sorted[i] = sorted[j] => i = j
    /\ \A i \in 1..Len(sorted) : Upstream(sorted[i]) \subseteq {sorted[j] : j \in 1..(i - 1)}
    /\ verdict = "ok" => Elems(sorted) = nodes

(***************************************************************************)
(* The layer of a node is its depth: what it depends on is in earlier      *)
(* layers, and something of it is in the layer just before.  If the layers *)
(* end before the nodes do, the graph has a cycle or, where Validate was   *)
(* not called or not heeded, a dependency that is missing                  *)
(* (dag.go:158-190, visualize.go:23-27).                                   *)
(***************************************************************************)
LayersAreDepths ==
    /\ \A i, j \in 1..Len(layers) : i # j => layers[i] \cap layers[j] = {}
    /\ \A i \in 1..Len(layers) : \A n \in layers[i] :
          /\ Upstream(n) \subseteq UNION {layers[j] : j \in 1..(i - 1)}
          /\ i > 1 => Upstream(n) \cap layers[i - 1] # {}
    /\ drawn = "ok" => UNION Elems(layers) = nodes
    /\ drawn = "cycle" => Cyclic \/ \E n \in nodes : ~(Upstream(n) \subseteq nodes)

(***************************************************************************)
(* The two algorithms, one a queue of nodes and the other a sweep, agree:  *)
(* on what has a cycle, and the order of the sort is one of the layers     *)
(* (dag.go:123-190).                                                       *)
(***************************************************************************)
SortFollowsLayers ==
    verdict \in {"ok", "cycle"} /\ drawn # "none" =>
        /\ verdict = drawn
        /\ \A i, j \in 1..Len(sorted), k, l \in 1..Len(layers) :
              i < j /\ sorted[i] \in layers[k] /\ sorted[j] \in layers[l] => k <= l
=============================================================================
