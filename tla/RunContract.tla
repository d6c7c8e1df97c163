----------------------------- MODULE RunContract -----------------------------
(***************************************************************************)
(* What a Run promises of the nodes of its DAG, in terms of what a user of *)
(* the engine can see: which nodes have been executed, which still are, the*)
(* results, and why the DAG was aborted.  Nothing is said of how the loop  *)
(* finds out: there is no heap, no task on offer, no count of missing      *)
(* dependencies or of completed nodes, no mark and no channel.  With equal *)
(* priorities module EventLoop implements it.                              *)
(***************************************************************************)
EXTENDS Integers, FiniteSets

CONSTANTS
    Nodes, Deps, Critical, Subflow, RouteMap, MaxWorkers,
    Reports     (* Reports[n]: what an execution of n may report             *)

VARIABLES
    executed,   (* nodes that were handed to a worker                        *)
    working,    (* those that hold a worker                                  *)
    awaited,    (* those that do not, and whose result was not received yet  *)
    results,
    cause,      (* what aborted the DAG: "none", "critical" or "context"     *)
    left,       (* after an abort: the nodes that may be executed all the    *)
                (* same, since they were ready when it came                  *)
    cancelled,  (* the context is done                                       *)
    phase

vars == <<executed, working, awaited, results, cause, left, cancelled, phase>>

NoResult == [status |-> "None", route |-> -1]
Skipped  == [status |-> "Skipped", route |-> -1]
Failed   == [status |-> "Failed", route |-> -1]

Resolved(n) == results[n] # NoResult
Open        == {n \in Nodes \ executed : ~Resolved(n)}
Startable   == {n \in Open : \A m \in Deps[n] : Resolved(m)}

(***************************************************************************)
(* A child DAG fails when the context ends.                                *)
(***************************************************************************)
MayReport(n) == Reports[n] \cup {Failed : c \in {m \in {n} : m \in Subflow /\ cancelled}}

Fatal(n, out) == n \in Critical /\ out.status = "Failed"

(***************************************************************************)
(* The open nodes that depend on n and that the route it reports leaves    *)
(* out.  A negative index is no route, one without a branch leaves out all.*)
(***************************************************************************)
LeftOut(n, out) ==
    {v \in Open : /\ n \in DOMAIN RouteMap /\ out.route >= 0 /\ n \in Deps[v]
                  /\ ~(out.route \in DOMAIN RouteMap[n] /\ v \in RouteMap[n][out.route])}

-----------------------------------------------------------------------------
Init ==
    /\ executed = {} /\ working = {} /\ awaited = {} /\ left = {}
    /\ results = [n \in Nodes |-> NoResult]
    /\ cause = "none"
    /\ cancelled = FALSE
    /\ phase = "loop"

(***************************************************************************)
(* A node is executed once, when all it depends on is resolved and it is   *)
(* not itself, and MaxWorkers at a time.                                   *)
(***************************************************************************)
Start(n) ==
    /\ phase = "loop"
    /\ n \in IF cause = "none" THEN Startable ELSE left
    /\ Cardinality(working) < MaxWorkers
    /\ executed' = executed \cup {n}
    /\ working' = working \cup {n}
    /\ left' = left \ {n}
    /\ UNCHANGED <<awaited, results, cause, cancelled, phase>>

(***************************************************************************)
(* The worker is free, and the result under way.                           *)
(***************************************************************************)
LeaveWorker(n) ==
    /\ n \in working
    /\ working' = working \ {n}
    /\ awaited' = awaited \cup {n}
    /\ UNCHANGED <<executed, results, cause, left, cancelled, phase>>

(***************************************************************************)
(* The result of n is recorded, and the nodes of S are skipped.            *)
(***************************************************************************)
Record(n, out, S) ==
    /\ phase = "loop"
    /\ n \in awaited
    /\ awaited' = awaited \ {n}
    /\ results' = [m \in Nodes |-> IF m \in S THEN Skipped ELSE IF m = n THEN out ELSE results[m]]
    /\ UNCHANGED <<executed, working, phase>>

Report(n, out) ==
    /\ cause = "none"
    /\ ~Fatal(n, out)
    /\ Record(n, out, LeftOut(n, out))
    /\ UNCHANGED <<cause, left, cancelled>>

(***************************************************************************)
(* A critical node failed: what was not executed is skipped, but nothing   *)
(* stops the nodes that were ready by then.                                *)
(***************************************************************************)
ReportFatal(n, out) ==
    /\ cause = "none"
    /\ Fatal(n, out)
    /\ Record(n, out, Open)
    /\ cause' = "critical"
    /\ left' = Startable
    /\ cancelled' = TRUE

(***************************************************************************)
(* After an abort results are recorded, and decide nothing.                *)
(***************************************************************************)
ReportLate(n, out) ==
    /\ cause # "none"
    /\ Record(n, out, {})
    /\ UNCHANGED <<cause, left, cancelled>>

(***************************************************************************)
(* The context is done.                                                    *)
(***************************************************************************)
GiveUp ==
    /\ phase = "loop"
    /\ cause = "none"
    /\ cancelled
    /\ results' = [m \in Nodes |-> IF m \in Open THEN Skipped ELSE results[m]]
    /\ cause' = "context"
    /\ left' = Startable
    /\ UNCHANGED <<executed, working, awaited, cancelled, phase>>

(***************************************************************************)
(* Without an abort the DAG ends when every node has a result.             *)
(***************************************************************************)
End ==
    /\ phase = "loop"
    /\ cause = "none" => /\ \A n \in Nodes : Resolved(n)
                         /\ working = {} /\ awaited = {}
    /\ phase' = "stopped"
    /\ cancelled' = TRUE
    /\ UNCHANGED <<executed, working, awaited, results, cause, left>>

(***************************************************************************)
(* Run returns only when no worker is in a node.                           *)
(***************************************************************************)
Return ==
    /\ phase = "stopped"
    /\ working = {}
    /\ phase' = "returned"
    /\ UNCHANGED <<executed, working, awaited, results, cause, left, cancelled>>

Cancel ==
    /\ cancelled' = TRUE
    /\ UNCHANGED <<executed, working, awaited, results, cause, left, phase>>

Next ==
    \/ \E n \in Nodes : Start(n) \/ LeaveWorker(n)
    \/ \E n \in Nodes : \E out \in MayReport(n) :
           Report(n, out) \/ ReportFatal(n, out) \/ ReportLate(n, out)
    \/ GiveUp \/ End \/ Return \/ Cancel

Spec == Init /\ [][Next]_vars
==============================================================================
