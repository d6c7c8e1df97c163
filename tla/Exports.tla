--------------------------------- MODULE Exports ---------------------------------
(***************************************************************************)
(* What the exports of a returned result show: the Chrome trace, the flame *)
(* graph and the Graphviz graph with the execution.  A node is shown at its*)
(* path, the subflow nodes above it and itself; JSON, labels and colours   *)
(* are left out.                                                           *)
(***************************************************************************)
EXTENDS RunResults, SequencesExt

CONSTANTS
    Hash,       (* hashName of every node, before the remainder              *)
    Duration    (* the microseconds a node takes                             *)

ASSUME ExportsAssumption == Hash \in [Nodes -> Nat] /\ Duration \in [Nodes -> Nat]

Reported(o) == {n \in Nodes : HasResult(o, n)}

(***************************************************************************)
(* The loop that trace.go contains twice: of the elements of a list, each  *)
(* is moved to the front until one that is not less precedes it.           *)
(***************************************************************************)
Spots == [list : Seq(Nodes), at : Nat \ {0}, key : [Nodes -> Int]]

Swapped(s, i) == [s EXCEPT ![i] = s[i - 1], ![i - 1] = s[i]]

Raises(x) ==
    1 < x.at /\ x.at <= Len(x.list) /\ x.key[x.list[x.at - 1]] < x.key[x.list[x.at]]

Raised[x \in Spots] ==
    IF Raises(x)
    THEN Raised[[list |-> Swapped(x.list, x.at), at |-> x.at - 1, key |-> x.key]]
    ELSE x.list

Sorted[x \in Spots] ==
    IF x.at > Len(x.list) THEN x.list
    ELSE Sorted[[list |-> Raised[x], at |-> x.at + 1, key |-> x.key]]

sortStrings(S) == Sorted[[list |-> SetToSeq(S), at |-> 1, key |-> [n \in Nodes |-> -n]]]

-----------------------------------------------------------------------------
(* A fault: the factor of the depth is less than the range of the hash.    *)
TrackIDOverlapping(n, depth) == depth * 100 + (Hash[n] % 1000)

(***************************************************************************)
(* The trace: an event of the DAG, then one of every node in the order of  *)
(* their names, each followed by those of its subflow unless it is Skipped.*)
(* The depth is that of the recursion still to come: nested results are    *)
(* different objects, so there is none after as many calls as objects.     *)
(***************************************************************************)
TrackID(n, depth) == depth * 1000 + (Hash[n] % 1000)

DagEvent(o, path) ==
    [cat |-> "dag", path |-> path, track |-> Len(path), status |-> dag[o].status, route |-> -1]

NodeEvent(o, n, path) ==
    [cat |-> "node", path |-> Append(path, n), track |-> TrackID(n, Len(path)),
     status |-> Result(o, n).status,
     route |-> IF Result(o, n).status = "Skipped" THEN -1 ELSE Result(o, n).route]

collectTraceEvents(nested, o, path) ==
    LET names == sortStrings(Reported(o))
        below(n) == IF Result(o, n).status # "Skipped" /\ Result(o, n).sub # None
                    THEN nested[Result(o, n).sub][Append(path, n)] ELSE <<>>
    IN <<DagEvent(o, path)>> \o
       FlattenSeq([i \in DOMAIN names |-> <<NodeEvent(o, names[i], path)>> \o below(names[i])])

TraceEvents[depth \in Nat] ==
    IF depth = 0 THEN [o \in DagObjs |-> [path \in Seq(Nodes) |-> <<>>]]
    ELSE [o \in DagObjs |-> [path \in Seq(Nodes) |->
             collectTraceEvents(TraceEvents[depth - 1], o, path)]]

ExportChromeTrace(o) == TraceEvents[MaxDags][o][<<>>]

-----------------------------------------------------------------------------
(***************************************************************************)
(* The flame graph: a line for each node of a map in any order, the slowest*)
(* of a DAG first.  Every line is followed by those of the node's subflow. *)
(***************************************************************************)
Took(o, n) ==
    IF HasResult(o, n) /\ Result(o, n).skip \notin {"route", "abort"} THEN Duration[n] ELSE 0

SlowestFirst(o, names) ==
    Sorted[[list |-> names, at |-> 1, key |-> [n \in Nodes |-> Took(o, n)]]]

FlameLine(o, n, path) == [path |-> Append(path, n), took |-> Took(o, n)]

collectFlamegraph(nested, o, path) ==
    LET names == SlowestFirst(o, SetToSeq(Reported(o)))
        below(n) == IF Result(o, n).sub # None
                    THEN nested[Result(o, n).sub][Append(path, n)] ELSE <<>>
    IN FlattenSeq([i \in DOMAIN names |-> <<FlameLine(o, names[i], path)>> \o below(names[i])])

FlameLines[depth \in Nat] ==
    IF depth = 0 THEN [o \in DagObjs |-> [path \in Seq(Nodes) |-> <<>>]]
    ELSE [o \in DagObjs |-> [path \in Seq(Nodes) |->
             collectFlamegraph(FlameLines[depth - 1], o, path)]]

ExportFlamegraph(o) == FlameLines[MaxDags][o][<<>>]

-----------------------------------------------------------------------------
(***************************************************************************)
(* The graph: the nodes of the DAG, whether they have a result or not, the *)
(* edges of its dependencies, and a cluster for every subflow with an edge *)
(* to each of its roots.                                                   *)
(***************************************************************************)
routeIndexesForTarget(from, to) == {i \in DOMAIN RouteMap[from] : to \in RouteMap[from][i]}

executionEdgeAttributes(o, from, to) ==
    IF from \in DOMAIN RouteMap
    THEN IF HasResult(o, from) /\ Result(o, from).route >= 0
         THEN IF Result(o, from).route \in routeIndexesForTarget(from, to)
              THEN "selected" ELSE "unselected"
         ELSE "open"
    ELSE IF HasResult(o, to) /\ Result(o, to).status = "Skipped" THEN "skipped" ELSE "plain"

DotNode(o, n, path) ==
    [path |-> Append(path, n),
     status |-> IF HasResult(o, n) THEN Result(o, n).status ELSE "none"]

DotEdge(o, from, to, path) ==
    [from |-> Append(path, from), to |-> Append(path, to),
     style |-> executionEdgeAttributes(o, from, to)]

dagRootNodeNames(o) == {n \in NodesOf(o) : Deps[n] = {}}

SubflowEdges(o, n, path) ==
    {[from |-> Append(path, n), to |-> Append(Append(path, n), root), style |-> "subflow"] :
        root \in dagRootNodeNames(Result(o, n).sub)}

writeExecutionDAG(nested, o, path) ==
    LET clusters == {n \in NodesOf(o) : HasResult(o, n) /\ Result(o, n).sub # None}
        inner(n) == nested[Result(o, n).sub][Append(path, n)]
    IN [nodes |-> {DotNode(o, n, path) : n \in NodesOf(o)}
                  \cup UNION {inner(n).nodes : n \in clusters},
        edges |-> (UNION {{DotEdge(o, m, n, path) : m \in Deps[n]} : n \in NodesOf(o)})
                  \cup UNION {inner(n).edges \cup SubflowEdges(o, n, path) : n \in clusters}]

DotGraph[depth \in Nat] ==
    IF depth = 0 THEN [o \in DagObjs |-> [path \in Seq(Nodes) |-> [nodes |-> {}, edges |-> {}]]]
    ELSE [o \in DagObjs |-> [path \in Seq(Nodes) |->
             writeExecutionDAG(DotGraph[depth - 1], o, path)]]

ExportDOT(o) == DotGraph[MaxDags][o][<<>>]

-----------------------------------------------------------------------------
Shown(c, P(_)) == phase[c] = "returned" => P(result[c])

StatusOf(records) == {<<r.path, r.status>> : r \in records}

(***************************************************************************)
(* The three exports of a returned result (trace.go:52, trace.go:156,      *)
(* execution_dot.go:40) end, and show the same nodes, each once, and the   *)
(* trace and the graph the same status, although one leaves the nodes below*)
(* a Skipped one out and another walks the DAG instead of the results. Only*)
(* a DAG that is shown as Failed has nodes without result: rejected, or    *)
(* aborted and ended before they did.  A branch drawn as not selected leads*)
(* to a Skipped node, and only a route that succeeded shows an index,      *)
(* whatever the objects of the result were used for before.                *)
(***************************************************************************)
Agree(o) ==
    LET trace  == ExportChromeTrace(o)
        events == {e \in Range(trace) : e.cat = "node"}
        flame  == ExportFlamegraph(o)
        dot    == ExportDOT(o)
        drawn  == {x \in dot.nodes : x.status # "none"}
    IN /\ TraceEvents[MaxDags + 1][o][<<>>] = trace
       /\ FlameLines[MaxDags + 1][o][<<>>] = flame
       /\ DotGraph[MaxDags + 1][o][<<>>] = dot
       /\ StatusOf(events) = StatusOf(drawn)
       /\ {l.path : l \in Range(flame)} = {x.path : x \in drawn}
       /\ \A i, j \in DOMAIN trace :
             trace[i].cat = trace[j].cat /\ trace[i].path = trace[j].path => i = j
       /\ \A i, j \in DOMAIN flame : flame[i].path = flame[j].path => i = j
       /\ \A x \in dot.nodes \ drawn :
             \E e \in Range(trace) : e.path = Front(x.path) /\ e.status = "Failed"
       /\ \A e \in dot.edges :
             /\ e.style = "unselected" => <<e.to, "Skipped">> \in StatusOf(drawn)
             /\ e.style \in {"selected", "unselected"} =>
                    <<e.from, "Success">> \in StatusOf(drawn)
       /\ \A e \in events :
             e.route >= 0 => e.status = "Success" /\ Last(e.path) \in DOMAIN RouteMap

ViewsAgree == \A c \in Callers : Shown(c, Agree)

(***************************************************************************)
(* Nodes of different nesting never share a track of the trace, whatever   *)
(* their names hash to (trace.go:75), and of the nodes of one DAG the flame*)
(* graph has the line of a slower one first, whatever its order in the map *)
(* and however many lines of subflows stand between (trace.go:167-181).    *)
(***************************************************************************)
LaidOut(o) ==
    LET events == {e \in Range(ExportChromeTrace(o)) : e.cat = "node"}
        flame  == ExportFlamegraph(o)
    IN /\ \A e, f \in events : e.track = f.track => Len(e.path) = Len(f.path)
       /\ \A i, j \in DOMAIN flame :
             i < j /\ Front(flame[i].path) = Front(flame[j].path)
                => flame[i].took >= flame[j].took

LayoutHolds == \A c \in Callers : Shown(c, LaidOut)

-----------------------------------------------------------------------------
Layer(e) == IF e.cat = "dag" THEN Len(e.path) ELSE Len(e.path) - 1

(***************************************************************************)
(* Track IDs are unique per subflow layer (trace.go:53-54): no two events  *)
(* of different layers are on one track.                                   *)
(***************************************************************************)
OneLayerPerTrack(o) ==
    \A e, f \in Range(ExportChromeTrace(o)) : e.track = f.track => Layer(e) = Layer(f)

(***************************************************************************)
(* The lines of the flame graph are sorted by duration, descending         *)
(* (trace.go:147).                                                         *)
(***************************************************************************)
Descending(o) ==
    LET flame == ExportFlamegraph(o)
    IN \A i, j \in DOMAIN flame : i < j => flame[i].took >= flame[j].took

(***************************************************************************)
(* The comments of the exports (trace.go:53-54, 147) and the documents on  *)
(* hooks (ParentHooksOnce, ParentHooksFirst) are right, so at any time one *)
(* of these statements is.  False: there is a result that breaks both      *)
(* comments, of an execution that breaks both documents.                   *)
(***************************************************************************)
ExportCommentHolds(o) == OneLayerPerTrack(o) \/ Descending(o)

AStatementOnResultsHolds ==
    ParentHooksOnce \/ ParentHooksFirst \/ \A c \in Callers : Shown(c, ExportCommentHolds)
=================================================================================
