----------------------------- MODULE SubflowTree -----------------------------
(***************************************************************************)
(* The tree of event loops that one Run executes: a subflow node launches a*)
(* goroutine with a loop for its child DAG, and all loops feed the one pool*)
(* of workers that Run starts and stops.                                   *)
(*                                                                         *)
(* A layer is a DAG of the tree.  Its loop is that of module EventLoop with*)
(* one priority and no routes or conditions; a node is executed at most    *)
(* once then (EventLoopProofs!AtMostOneExecution), so it names its         *)
(* execution.                                                              *)
(***************************************************************************)
EXTENDS Integers, Sequences, FiniteSets

CONSTANTS
    Layers, Root,  (* the DAGs of the tree                                   *)
    NodesOf,       (* NodesOf[l]: the nodes of layer l                       *)
    Deps,          (* Deps[n]: the nodes n depends on, of its own layer      *)
    Child,         (* Child[n]: the DAG that subflow node n constructs       *)
    Critical, MayFail,
    MaxWorkers,
    NoNode

Nodes      == UNION {NodesOf[l] : l \in Layers}
Subflow    == DOMAIN Child
LayerOf    == [n \in Nodes |-> CHOOSE l \in Layers : n \in NodesOf[l]]
Parent     == [l \in Layers \ {Root} |-> CHOOSE n \in Subflow : Child[n] = l]

(***************************************************************************)
(* The contexts that end with the context of l: its own and those derived  *)
(* from it, the least set of layers that has l and is closed under         *)
(* Children.                                                               *)
(***************************************************************************)
Children(S) == {Child[n] : n \in {m \in Subflow : LayerOf[m] \in S}}

Below == [l \in Layers |->
    {k \in Layers : \A S \in SUBSET Layers : l \in S /\ Children(S) \subseteq S => k \in S}]

(***************************************************************************)
(* Layers with nodes of their own, each but Root constructed by one node,  *)
(* and by no descendant of itself: a tree.                                 *)
(***************************************************************************)
ASSUME TreeAssumption ==
    /\ Root \in Layers
    /\ MaxWorkers \in Nat \ {0}
    /\ IsFiniteSet(Nodes) /\ NoNode \notin Nodes
    /\ NodesOf \in [Layers -> (SUBSET Nodes) \ {{}}]
    /\ \A l, k \in Layers : l # k => NodesOf[l] \cap NodesOf[k] = {}
    /\ \A n \in Nodes : Deps[n] \subseteq NodesOf[LayerOf[n]]
    /\ Subflow \subseteq Nodes
    /\ Child \in [Subflow -> Layers \ {Root}]
    /\ \A n, m \in Subflow : Child[n] = Child[m] => n = m
    /\ Below[Root] = Layers

VARIABLES
    loop,       (* loop[l]: "off", "loop", "ended", "panicked" or "gone"     *)
    task,       (* task[l]: nextTask, NoNode if the send case is disabled    *)
    watching,   (* the layers whose cancellation case is enabled             *)
    ready,      (* the nodes in the schedulers                               *)
    started,
    results,    (* the status of every node, or "None"                       *)
    completed,
    failed,     (* the layers with dagFailed set                             *)
    doneCh,     (* doneCh[l]: records [node, status]                         *)
    cancelled,  (* the layers whose context is done                          *)
    idle, running,
    closed,     (* readyCh is closed                                         *)
    returned    (* Run has returned                                          *)

layerVars == <<loop, task, watching, ready, started, results, completed, failed>>
poolVars  == <<idle, running, closed, returned>>
vars      == <<layerVars, doneCh, cancelled, poolVars>>

Looping(l) == loop[l] = "loop" /\ completed[l] < Cardinality(NodesOf[l])

Waiting(l) == ready \cap NodesOf[l]

(***************************************************************************)
(* dispatchReady: a ready node of the layer, if there is one.              *)
(***************************************************************************)
Peeks(S) == IF S = {} THEN {NoNode} ELSE S

Roots == {n \in Nodes : Deps[n] = {}}

Init ==
    /\ loop = [l \in Layers |-> IF l = Root THEN "loop" ELSE "off"]
    /\ watching = Layers
    /\ ready = Roots
    /\ task \in {[l \in Layers |-> IF l = Root THEN n ELSE NoNode] : n \in Peeks(Waiting(Root))}
    /\ started = {}
    /\ results = [n \in Nodes |-> "None"]
    /\ completed = [l \in Layers |-> 0]
    /\ failed = {}
    /\ doneCh = [l \in Layers |-> <<>>]
    /\ cancelled = {}
    /\ idle = MaxWorkers
    /\ running = {}
    /\ closed = FALSE
    /\ returned = FALSE

-----------------------------------------------------------------------------
(***************************************************************************)
(* case readySendCh <- nextTask, on an open and on a closed readyCh.       *)
(***************************************************************************)
Dispatch(l) ==
    /\ Looping(l)
    /\ task[l] # NoNode
    /\ ~closed
    /\ idle > 0
    /\ idle' = idle - 1
    /\ running' = running \cup {task[l]}
    /\ ready' = ready \ {task[l]}
    /\ started' = started \cup {task[l]}
    /\ \E n \in Peeks(Waiting(l) \ {task[l]}) : task' = [task EXCEPT ![l] = n]
    /\ UNCHANGED <<loop, watching, results, completed, failed, doneCh, cancelled,
                   closed, returned>>

(***************************************************************************)
(* The send panics; executeDAG's deferred dagCancel runs, and the goroutine*)
(* of the child recovers.                                                  *)
(***************************************************************************)
SendPanics(l) ==
    /\ Looping(l)
    /\ task[l] # NoNode
    /\ closed
    /\ loop' = [loop EXCEPT ![l] = "panicked"]
    /\ cancelled' = cancelled \cup Below[l]
    /\ UNCHANGED <<task, watching, ready, started, results, completed, failed, doneCh, poolVars>>

(* A fault: dagFailed is not set.                                          *)
AbortUnflagged(l, base, count) ==
    LET S == {n \in NodesOf[l] \ started : base[n] = "None"} IN
    /\ started' = started \cup S
    /\ results' = [n \in Nodes |-> IF n \in S THEN "Skipped" ELSE base[n]]
    /\ completed' = [completed EXCEPT ![l] = count + Cardinality(S)]
    /\ task' = [task EXCEPT ![l] = NoNode]
    /\ watching' = watching \ {l}
    /\ UNCHANGED failed

(***************************************************************************)
(* Skip what has not started, and disable the send and the cancellation.   *)
(***************************************************************************)
Abort(l, base, count) ==
    LET S == {n \in NodesOf[l] \ started : base[n] = "None"} IN
    /\ started' = started \cup S
    /\ results' = [n \in Nodes |-> IF n \in S THEN "Skipped" ELSE base[n]]
    /\ completed' = [completed EXCEPT ![l] = count + Cardinality(S)]
    /\ failed' = failed \cup {l}
    /\ task' = [task EXCEPT ![l] = NoNode]
    /\ watching' = watching \ {l}

(***************************************************************************)
(* case nr := <-doneCh.                                                    *)
(***************************************************************************)
RecvCritical(l) ==
    /\ Looping(l)
    /\ doneCh[l] # <<>>
    /\ LET nr == Head(doneCh[l]) IN
       /\ nr.status = "Failed" /\ nr.node \in Critical
       /\ Abort(l, [results EXCEPT ![nr.node] = nr.status], completed[l] + 1)
    /\ cancelled' = cancelled \cup Below[l]
    /\ doneCh' = [doneCh EXCEPT ![l] = Tail(@)]
    /\ UNCHANGED <<loop, ready, poolVars>>

Freed(n) == {v \in Nodes \ started : n \in Deps[v] /\
                \A u \in Deps[v] \ {n} : results[u] # "None"}

Recv(l) ==
    /\ Looping(l)
    /\ doneCh[l] # <<>>
    /\ LET nr == Head(doneCh[l]) IN
       /\ ~(nr.status = "Failed" /\ nr.node \in Critical)
       /\ results' = [results EXCEPT ![nr.node] = nr.status]
       /\ ready' = IF l \in failed THEN ready ELSE ready \cup Freed(nr.node)
    /\ completed' = [completed EXCEPT ![l] = @ + 1]
    /\ IF task[l] # NoNode THEN UNCHANGED task
       ELSE \E n \in Peeks(ready' \cap NodesOf[l]) : task' = [task EXCEPT ![l] = n]
    /\ doneCh' = [doneCh EXCEPT ![l] = Tail(@)]
    /\ UNCHANGED <<loop, watching, started, failed, cancelled, poolVars>>

(***************************************************************************)
(* case <-ctxDone.                                                         *)
(***************************************************************************)
CtxDone(l) ==
    /\ Looping(l)
    /\ l \in watching \cap cancelled
    /\ Abort(l, results, completed[l])
    /\ UNCHANGED <<loop, ready, doneCh, cancelled, poolVars>>

(***************************************************************************)
(* executeDAG returns, to Run, which stops the pool, or to the goroutine of*)
(* a subflow.                                                              *)
(***************************************************************************)
LoopEnds(l) ==
    /\ loop[l] = "loop"
    /\ completed[l] >= Cardinality(NodesOf[l])
    /\ loop' = [loop EXCEPT ![l] = IF l = Root THEN "gone" ELSE "ended"]
    /\ cancelled' = cancelled \cup Below[l]
    /\ closed' = (closed \/ l = Root)
    /\ UNCHANGED <<task, watching, ready, started, results, completed, failed, doneCh,
                   idle, running, returned>>

(***************************************************************************)
(* A result goes to the doneCh of the node's layer, which buffers as many  *)
(* as the layer has nodes.                                                 *)
(***************************************************************************)
Send(n, s) ==
    LET l == LayerOf[n] IN
    /\ Len(doneCh[l]) < Cardinality(NodesOf[l])
    /\ doneCh' = [doneCh EXCEPT ![l] = Append(@, [node |-> n, status |-> s])]

(* A fault: the status of the child DAG is not looked at.                  *)
ChildReturnsAnyhow(l) ==
    /\ loop[l] \in {"ended", "panicked"}
    /\ Send(Parent[l], IF loop[l] = "panicked" THEN "Failed" ELSE "Success")
    /\ loop' = [loop EXCEPT ![l] = "gone"]
    /\ UNCHANGED <<task, watching, ready, started, results, completed, failed, cancelled, poolVars>>

(* A fault: only a loop that ends by itself is reported.                   *)
ChildReturnsUnlessPanicked(l) ==
    /\ loop[l] = "ended"
    /\ Send(Parent[l], IF l \in failed THEN "Failed" ELSE "Success")
    /\ loop' = [loop EXCEPT ![l] = "gone"]
    /\ UNCHANGED <<task, watching, ready, started, results, completed, failed, cancelled, poolVars>>

(***************************************************************************)
(* The goroutine of a subflow sends the result of its node and ends.       *)
(***************************************************************************)
ChildReturns(l) ==
    /\ loop[l] \in {"ended", "panicked"}
    /\ Send(Parent[l], IF loop[l] = "panicked" \/ l \in failed THEN "Failed" ELSE "Success")
    /\ loop' = [loop EXCEPT ![l] = "gone"]
    /\ UNCHANGED <<task, watching, ready, started, results, completed, failed, cancelled, poolVars>>

-----------------------------------------------------------------------------
(***************************************************************************)
(* A worker finishes a node; of a subflow that is one without child DAG.   *)
(***************************************************************************)
Finish(n) ==
    /\ n \in running
    /\ \E s \in {"Success"} \cup {"Failed" : m \in MayFail \cap {n}} : Send(n, s)
    /\ running' = running \ {n}
    /\ idle' = idle + 1
    /\ UNCHANGED <<layerVars, cancelled, closed, returned>>

(* A fault: the worker waits for the child.                                *)
LaunchHoldsWorker(n) ==
    /\ n \in running \cap Subflow
    /\ loop' = [loop EXCEPT ![Child[n]] = "loop"]
    /\ \E m \in Peeks(Waiting(Child[n])) : task' = [task EXCEPT ![Child[n]] = m]
    /\ running' = running \ {n}
    /\ UNCHANGED <<watching, ready, started, results, completed, failed, doneCh,
                   cancelled, idle, closed, returned>>

(***************************************************************************)
(* The child DAG gets a goroutine and a loop; the worker is free.          *)
(***************************************************************************)
Launch(n) ==
    /\ n \in running \cap Subflow
    /\ loop' = [loop EXCEPT ![Child[n]] = "loop"]
    /\ \E m \in Peeks(Waiting(Child[n])) : task' = [task EXCEPT ![Child[n]] = m]
    /\ running' = running \ {n}
    /\ idle' = idle + 1
    /\ UNCHANGED <<watching, ready, started, results, completed, failed, doneCh,
                   cancelled, closed, returned>>

(* A fault: a worker leaves twice.                                         *)
WorkerExitsTwice ==
    /\ closed
    /\ idle > 0
    /\ idle' = idle - 2
    /\ UNCHANGED <<layerVars, doneCh, cancelled, running, closed, returned>>

WorkerExits ==
    /\ closed
    /\ idle > 0
    /\ idle' = idle - 1
    /\ UNCHANGED <<layerVars, doneCh, cancelled, running, closed, returned>>

RunReturns ==
    /\ closed
    /\ ~returned
    /\ idle = 0 /\ running = {}
    /\ returned' = TRUE
    /\ UNCHANGED <<layerVars, doneCh, cancelled, idle, running, closed>>

(***************************************************************************)
(* The caller cancels, or the timeout of a DAG of the tree expires.        *)
(***************************************************************************)
Cancel(l) ==
    /\ loop[l] = "loop"
    /\ l \notin cancelled
    /\ cancelled' = cancelled \cup Below[l]
    /\ UNCHANGED <<layerVars, doneCh, poolVars>>

(***************************************************************************)
(* Run has returned and every goroutine has ended.                         *)
(***************************************************************************)
Quiescent ==
    /\ returned
    /\ \A l \in Layers : loop[l] \in {"off", "gone"}
    /\ UNCHANGED vars

-----------------------------------------------------------------------------
Loop(l) ==
    \/ Dispatch(l) \/ SendPanics(l)
    \/ RecvCritical(l) \/ Recv(l) \/ CtxDone(l)
    \/ LoopEnds(l) \/ ChildReturns(l)

Worker(n) == Finish(n) \/ Launch(n)

Next ==
    \/ \E l \in Layers : Loop(l)
    \/ \E n \in Nodes : Worker(n)
    \/ WorkerExits \/ RunReturns
    \/ \E l \in Layers : Cancel(l)
    \/ Quiescent

Spec == Init /\ [][Next]_vars

(***************************************************************************)
(* The Go scheduler runs every loop and every worker that can run, and user*)
(* functions return.  No loop needs more: what competes with it for the    *)
(* workers is finite.                                                      *)
(***************************************************************************)
Fairness ==
    /\ \A l \in Layers : WF_vars(Loop(l))
    /\ \A n \in Nodes : WF_vars(Worker(n))
    /\ WF_vars(WorkerExits)
    /\ WF_vars(RunReturns)

FairSpec == Spec /\ Fairness

-----------------------------------------------------------------------------
(* The type of every variable.                                             *)
TypeOK ==
    /\ loop \in [Layers -> {"off", "loop", "ended", "panicked", "gone"}]
    /\ task \in [Layers -> Nodes \cup {NoNode}]
    /\ watching \in SUBSET Layers
    /\ ready \in SUBSET Nodes
    /\ started \in SUBSET Nodes
    /\ results \in [Nodes -> {"None", "Success", "Failed", "Skipped"}]
    /\ completed \in [Layers -> Nat]
    /\ failed \in SUBSET Layers
    /\ doneCh \in [Layers -> Seq([node : Nodes, status : {"Success", "Failed"}])]
    /\ cancelled \in SUBSET Layers
    /\ idle \in 0..MaxWorkers
    /\ running \in SUBSET Nodes
    /\ closed \in BOOLEAN
    /\ returned \in BOOLEAN

Alive(l) == loop[l] \in {"loop", "ended", "panicked"}

(***************************************************************************)
(* The status of a subflow node is that of its child DAG: Success only if  *)
(* the child was not aborted and every node of it has a result; Failed only*)
(* if it was, or readyCh is closed, so that its loop may have panicked     *)
(* (engine.go:443-451).                                                    *)
(***************************************************************************)
ChildDecides ==
    \A n \in Subflow : LET l == Child[n] IN
        loop[l] = "gone" /\ results[n] \in {"Success", "Failed"} =>
            IF results[n] = "Success"
            THEN l \notin failed /\ \A m \in NodesOf[l] : results[m] # "None"
            ELSE l \in failed \/ closed

Above(l) == {k \in Layers : k # l /\ l \in Below[k]}

(***************************************************************************)
(* A child loop is still alive when its parent's loop has ended only if a  *)
(* layer above it was aborted: a Run that succeeds leaves nothing behind   *)
(* (engine.go:74-77, 188).                                                 *)
(***************************************************************************)
OrphansAreAborted ==
    \A n \in Subflow :
        Alive(Child[n]) /\ loop[LayerOf[n]] \notin {"off", "loop"} =>
            Above(Child[n]) \cap failed # {}

(***************************************************************************)
(* Run returns, whether or not anybody cancels: with a single worker, and  *)
(* however deep the tree, no loop waits for a worker that waits for a loop *)
(* (engine.go:418-454, workerpool.go:42-51).                               *)
(***************************************************************************)
RunTerminates == <>returned

(***************************************************************************)
(* Every loop that was started ends, and its goroutine too, also one that  *)
(* outlives Run: its result fits into a doneCh that nobody reads any more  *)
(* (engine.go:136, 426-441).                                               *)
(***************************************************************************)
EveryLoopEnds == \A l \in Layers \ {Root} : Alive(l) ~> loop[l] = "gone"

(***************************************************************************)
(* After an abort "the loop blocks on doneCh waiting for in-flight nodes"  *)
(* (engine.go:221-223): when the root's loop has ended none of its nodes is*)
(* with a worker, in the goroutine of a child DAG or in doneCh.  False: the*)
(* send is re-armed after the abort.                                       *)
(***************************************************************************)
LoopWaitsForInFlight ==
    loop[Root] = "gone" =>
        /\ running \cap NodesOf[Root] = {} /\ doneCh[Root] = <<>>
        /\ \A n \in Subflow \cap NodesOf[Root] : ~Alive(Child[n])

(***************************************************************************)
(* "Callers should ensure no further sends to readyCh occur" after stop    *)
(* (workerpool.go:54): no loop offers a task on the closed channel.  False:*)
(* a child may outlive an aborted parent.                                  *)
(***************************************************************************)
NoSendAfterStop == closed => \A l \in Layers : Looping(l) => task[l] = NoNode

(***************************************************************************)
(* Both comments are right, so at any time one of them is.  False: the loop*)
(* of a child that its parent did not wait for offers a task.              *)
(***************************************************************************)
ACommentOnLateWorkHolds == LoopWaitsForInFlight \/ NoSendAfterStop
=============================================================================
