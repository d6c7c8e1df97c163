------------------------------ MODULE EventLoop ------------------------------
(***************************************************************************)
(* One layer of DagBee's Engine: the select loop of executeDAG, the worker *)
(* pool it feeds over the unbuffered readyCh, the doneCh it drains, and    *)
(* the stop/wait with which Run ends.                                      *)
(*                                                                         *)
(* Workers run the same code and are told apart by nothing the loop can    *)
(* see, so the pool is a count of idle workers and a set of executions in  *)
(* progress.  The body of a node is its outcome (module NodeExec has the   *)
(* retries, the fallback and the panics); the child DAG of a subflow is    *)
(* the interval between the launch of its goroutine and its result.  The   *)
(* ready nodes are in the scheduler, module ReadyQueue.                    *)
(***************************************************************************)
EXTENDS ReadyQueue, Sequences, FiniteSets

CONSTANTS
    MaxWorkers,   (* maxConcurrency: the size of the worker pool             *)
    Deps,         (* Deps[n]: reverseEdges, the nodes that n depends on      *)
    Critical,     (* nodes with Critical set                                 *)
    MayFail,      (* nodes whose function or child DAG may fail or panic     *)
    Conditional,  (* nodes with a ConditionFn                                *)
    Subflow,      (* nodes with a SubflowFn                                  *)
    RouteMap,     (* RouteMap[r][i]: what route node r selects on index i    *)
    RouteIndexes, (* the indexes a RouteFn may return                        *)
    CanCancel     (* may the caller cancel, or the DAG timeout expire?       *)

RouteNodes == DOMAIN RouteMap

ASSUME GraphAssumption ==
    /\ Deps \in [Nodes -> SUBSET Nodes]
    /\ \A S \in (SUBSET Nodes) \ {{}} : \E n \in S : Deps[n] \cap S = {}

ASSUME NodeAssumption ==
    /\ MaxWorkers \in Nat \ {0}
    /\ Critical \subseteq Nodes
    /\ MayFail \subseteq Nodes
    /\ Conditional \subseteq Nodes
    /\ Subflow \subseteq Nodes
    /\ CanCancel \in BOOLEAN

ASSUME RouteAssumption ==
    /\ RouteNodes \subseteq Nodes
    /\ RouteNodes \cap Conditional = {}
    /\ RouteIndexes \subseteq Int
    /\ \A r \in RouteNodes : \A i \in DOMAIN RouteMap[r] : RouteMap[r][i] \subseteq Nodes

VARIABLES
    pending,      (* upstream nodes a node still waits for                   *)
    nextTask,     (* the node of the task offered to the pool, or NoNode     *)
    readySendCh,  (* is the send case of the select enabled?                 *)
    ctxDone,      (* is the cancellation case of the select enabled?         *)
    started, completed, dagFailed, results,
    err,          (* result.Error: what aborted the DAG, or "none"           *)
    doneCh,
    cancelled,    (* dagCtx is done                                          *)
    idle,         (* workers blocked on the receive from readyCh             *)
    running,      (* executions <<n, k>> that hold a worker                  *)
    async,        (* executions whose subflow goroutine is alive             *)
    phase,        (* of Run: the loop, its pool stopped, Run returned        *)
    runs          (* history: how often each node was handed to a worker     *)

schedVars == <<pending, ready, head>>
taskVars  == <<nextTask, readySendCh, ctxDone>>
bookVars  == <<started, completed, dagFailed, results, err>>
poolVars  == <<idle, running, async, runs>>
vars      == <<schedVars, taskVars, bookVars, poolVars, doneCh, cancelled, phase>>

NoRoute  == -1
NoResult == [status |-> "None", route |-> NoRoute]
Skipped  == [status |-> "Skipped", route |-> NoRoute]

(***************************************************************************)
(* "Success" stands for StatusSuccess and StatusRetried, "Failed" for      *)
(* StatusFailed and StatusPanicked: the loop treats each pair alike.       *)
(***************************************************************************)
Outcome    == [status : {"Success", "Failed", "Skipped"}, route : Int]
NodeResult == [node : Nodes, out : Outcome]
Execution  == Nodes \X Nat

Down(n)       == {v \in Nodes : n \in Deps[v]}
HasResult(n)  == results[n] # NoResult
Looping       == phase = "loop" /\ completed < N

(***************************************************************************)
(* What an execution of n can report.  Only a plain node evaluates RouteFn *)
(* and only when it succeeds; a subflow under a cancelled context fails    *)
(* because its child DAG is aborted.                                       *)
(***************************************************************************)
Routes(n) == IF n \in RouteNodes \ Subflow THEN RouteIndexes ELSE {NoRoute}

Outcomes(n) ==
    {[status |-> "Success", route |-> i] : i \in Routes(n)}
        \cup {Skipped : c \in Conditional \cap {n}}
        \cup {[status |-> "Failed", route |-> NoRoute] : c \in MayFail \cap {n}}

ChildOutcomes(n) ==
    {[status |-> "Success", route |-> NoRoute]}
        \cup {[status |-> "Failed", route |-> NoRoute] :
                c \in {m \in {n} : m \in MayFail \/ cancelled}}

-----------------------------------------------------------------------------
Init ==
    /\ pending = [n \in Nodes |-> Cardinality(Deps[n])]
    /\ ready = {n \in Nodes : pending[n] = 0}
    /\ head \in Top(ready)
    /\ nextTask = head
    /\ readySendCh = TRUE
    /\ ctxDone = TRUE
    /\ started = {}
    /\ completed = 0
    /\ dagFailed = FALSE
    /\ results = [n \in Nodes |-> NoResult]
    /\ err = "none"
    /\ doneCh = <<>>
    /\ cancelled = FALSE
    /\ idle = MaxWorkers
    /\ running = {}
    /\ async = {}
    /\ phase = "loop"
    /\ runs = [n \in Nodes |-> 0]

(* A fault: the node stays in the heap.                                    *)
DispatchKeepsNode ==
    /\ Looping
    /\ readySendCh
    /\ idle > 0
    /\ idle' = idle - 1
    /\ runs' = [runs EXCEPT ![nextTask] = @ + 1]
    /\ running' = running \cup {<<nextTask, runs[nextTask] + 1>>}
    /\ started' = started \cup {head}
    /\ nextTask' = head
    /\ UNCHANGED <<schedVars, readySendCh, ctxDone, completed, dagFailed, results, err,
                   doneCh, cancelled, async, phase>>

(* A fault: the send case stays enabled when the heap is empty.            *)
DispatchKeepsChannel ==
    /\ Looping
    /\ readySendCh
    /\ idle > 0
    /\ idle' = idle - 1
    /\ runs' = [runs EXCEPT ![nextTask] = @ + 1]
    /\ running' = running \cup {<<nextTask, runs[nextTask] + 1>>}
    /\ Dequeue
    /\ started' = started \cup {head}
    /\ nextTask' = head'
    /\ UNCHANGED <<pending, readySendCh, ctxDone, completed, dagFailed, results, err,
                   doneCh, cancelled, async, phase>>

(***************************************************************************)
(* case readySendCh <- nextTask: a worker takes nextTask, commitDispatch   *)
(* removes and marks the root of the heap, dispatchReady peeks again.      *)
(***************************************************************************)
Dispatch ==
    /\ Looping
    /\ readySendCh
    /\ idle > 0
    /\ idle' = idle - 1
    /\ runs' = [runs EXCEPT ![nextTask] = @ + 1]
    /\ running' = running \cup {<<nextTask, runs[nextTask] + 1>>}
    /\ Dequeue
    /\ started' = started \cup {head}
    /\ nextTask' = head'
    /\ readySendCh' = (head' # NoNode)
    /\ UNCHANGED <<pending, ctxDone, completed, dagFailed, results, err,
                   doneCh, cancelled, async, phase>>

(* A fault: the results of finished nodes are overwritten.                 *)
UnresolvedAnyhow(base) == {n \in Nodes : base[n] # Skipped}

(* A fault: what is in flight is skipped too.                              *)
UnresolvedInFlight(base) == {n \in Nodes : base[n] = NoResult}

(***************************************************************************)
(* Every node of the layer that has neither started nor a result is marked *)
(* started and recorded as Skipped; the send and the cancellation case of  *)
(* the select are disabled.  base and count are results and completed as   *)
(* the event that causes the abort leaves them.                            *)
(***************************************************************************)
Unresolved(base) == {n \in Nodes \ started : base[n] = NoResult}

(* A fault: the skipped nodes are not counted as completed.                *)
AbortUncounted(base, count) ==
    LET S == Unresolved(base) IN
    /\ started' = started \cup S
    /\ results' = [n \in Nodes |-> IF n \in S THEN Skipped ELSE base[n]]
    /\ completed' = count
    /\ dagFailed' = TRUE
    /\ nextTask' = NoNode
    /\ readySendCh' = FALSE
    /\ ctxDone' = FALSE

(* A fault: dagFailed is not set.                                          *)
AbortUnflagged(base, count) ==
    LET S == Unresolved(base) IN
    /\ started' = started \cup S
    /\ results' = [n \in Nodes |-> IF n \in S THEN Skipped ELSE base[n]]
    /\ completed' = count + Cardinality(S)
    /\ nextTask' = NoNode
    /\ readySendCh' = FALSE
    /\ ctxDone' = FALSE
    /\ UNCHANGED dagFailed

Abort(base, count) ==
    LET S == Unresolved(base) IN
    /\ started' = started \cup S
    /\ results' = [n \in Nodes |-> IF n \in S THEN Skipped ELSE base[n]]
    /\ completed' = count + Cardinality(S)
    /\ dagFailed' = TRUE
    /\ nextTask' = NoNode
    /\ readySendCh' = FALSE
    /\ ctxDone' = FALSE

(* A fault: the failure of a child DAG does not count as critical.         *)
CriticalFailureOfPlainNode(nr) ==
    nr.out.status = "Failed" /\ nr.node \in Critical \ Subflow

CriticalFailure(nr) == nr.out.status = "Failed" /\ nr.node \in Critical

Recorded(nr) == [results EXCEPT ![nr.node] = nr.out]

(***************************************************************************)
(* case nr := <-doneCh, a critical node failed: dagCancel and abort.       *)
(***************************************************************************)
RecvCritical ==
    /\ Looping
    /\ doneCh # <<>>
    /\ CriticalFailure(Head(doneCh))
    /\ doneCh' = Tail(doneCh)
    /\ Abort(Recorded(Head(doneCh)), completed + 1)
    /\ err' = IF err = "none" THEN "critical" ELSE err
    /\ cancelled' = TRUE
    /\ UNCHANGED <<schedVars, poolVars, phase>>

(* A fault: nothing re-arms the send after a result.                       *)
RearmForgotten == UNCHANGED <<nextTask, readySendCh>>

(***************************************************************************)
(* Prepare next dispatch if not already pending.                           *)
(***************************************************************************)
Rearm ==
    /\ nextTask' = IF nextTask = NoNode THEN head' ELSE nextTask
    /\ readySendCh' = (readySendCh \/ (nextTask = NoNode /\ head' # NoNode))

(***************************************************************************)
(* The direct downstream nodes that a finished route node does not select. *)
(***************************************************************************)
Selected(r, i) == IF i \in DOMAIN RouteMap[r] THEN RouteMap[r][i] ELSE {}

(* A fault: branch 0 is taken for no branch.                               *)
UnselectedPastZero(nr) ==
    IF nr.node \in RouteNodes /\ nr.out.route > 0
    THEN (Down(nr.node) \ Selected(nr.node, nr.out.route)) \ started
    ELSE {}

Unselected(nr) ==
    IF nr.node \in RouteNodes /\ nr.out.route >= 0
    THEN (Down(nr.node) \ Selected(nr.node, nr.out.route)) \ started
    ELSE {}

(***************************************************************************)
(* The nodes whose completion is counted in pending[v] when nr is received *)
(* and the nodes of skip are skipped: all of them if v is not skipped, else*)
(* the skipped ones visited before v (edges keep the order of AddNode).    *)
(***************************************************************************)
Releases(nr, skip, v) ==
    IF v \in skip THEN {u \in skip \cap Deps[v] : u < v}
    ELSE (skip \cup {nr.node}) \cap Deps[v]

(* A fault: the first dependency to complete releases a node.              *)
ReleasedByAny(nr, skip) ==
    [v \in Nodes |-> IF v \in started \/ Releases(nr, skip, v) = {} THEN pending[v] ELSE 0]

Released(nr, skip) ==
    [v \in Nodes |-> IF v \in started THEN pending[v]
                     ELSE pending[v] - Cardinality(Releases(nr, skip, v))]

(***************************************************************************)
(* case nr := <-doneCh, not aborted: skip the unselected branches, release *)
(* what is downstream of the node and of the skipped ones, re-arm the send.*)
(***************************************************************************)
RecvPropagate ==
    /\ Looping
    /\ doneCh # <<>>
    /\ ~CriticalFailure(Head(doneCh))
    /\ ~dagFailed
    /\ doneCh' = Tail(doneCh)
    /\ LET nr   == Head(doneCh)
           skip == Unselected(nr)
       IN /\ pending' = Released(nr, skip)
          /\ Enqueue({v \in Nodes \ started : pending[v] > 0 /\ pending'[v] <= 0})
          /\ started' = started \cup skip
          /\ completed' = completed + 1 + Cardinality(skip)
          /\ results' = [n \in Nodes |-> IF n \in skip THEN Skipped ELSE Recorded(nr)[n]]
    /\ Rearm
    /\ UNCHANGED <<ctxDone, dagFailed, err, poolVars, cancelled, phase>>

(***************************************************************************)
(* case nr := <-doneCh after an abort: the result is recorded, nothing is  *)
(* released, but the send is re-armed all the same.                        *)
(***************************************************************************)
RecvAborted ==
    /\ Looping
    /\ doneCh # <<>>
    /\ ~CriticalFailure(Head(doneCh))
    /\ dagFailed
    /\ doneCh' = Tail(doneCh)
    /\ results' = Recorded(Head(doneCh))
    /\ completed' = completed + 1
    /\ Enqueue({})
    /\ Rearm
    /\ UNCHANGED <<pending, ctxDone, started, dagFailed, err, poolVars, cancelled, phase>>

(***************************************************************************)
(* case <-ctxDone: the context was cancelled or timed out.                 *)
(***************************************************************************)
RecvCtxDone ==
    /\ Looping
    /\ ctxDone
    /\ cancelled
    /\ Abort(results, completed)
    /\ err' = IF ~dagFailed /\ err = "none" THEN "context" ELSE err
    /\ UNCHANGED <<schedVars, poolVars, doneCh, cancelled, phase>>

(***************************************************************************)
(* The loop ends: executeDAG returns (its deferred dagCancel runs) and Run *)
(* stops the pool by closing readyCh.                                      *)
(***************************************************************************)
LoopEnds ==
    /\ phase = "loop"
    /\ completed >= N
    /\ phase' = "stopped"
    /\ cancelled' = TRUE
    /\ UNCHANGED <<schedVars, taskVars, bookVars, poolVars, doneCh>>

(***************************************************************************)
(* wp.wait returns once every worker has left its range loop.              *)
(***************************************************************************)
RunReturns ==
    /\ phase = "stopped"
    /\ idle = 0
    /\ running = {}
    /\ phase' = "returned"
    /\ UNCHANGED <<schedVars, taskVars, bookVars, poolVars, doneCh, cancelled>>

-----------------------------------------------------------------------------
(***************************************************************************)
(* A worker finishes an execution synchronously and sends the result; the  *)
(* send blocks while doneCh is full.                                       *)
(***************************************************************************)
Finish(e, out) ==
    /\ e \in running
    /\ out \in Outcomes(e[1])
    /\ Len(doneCh) < N
    /\ doneCh' = Append(doneCh, [node |-> e[1], out |-> out])
    /\ running' = running \ {e}
    /\ idle' = idle + 1
    /\ UNCHANGED <<schedVars, taskVars, bookVars, cancelled, async, phase, runs>>

(***************************************************************************)
(* exec returns nil: the child DAG runs in a goroutine, the worker is free.*)
(***************************************************************************)
Launch(e) ==
    /\ e \in running
    /\ e[1] \in Subflow
    /\ running' = running \ {e}
    /\ async' = async \cup {e}
    /\ idle' = idle + 1
    /\ UNCHANGED <<schedVars, taskVars, bookVars, doneCh, cancelled, phase, runs>>

(***************************************************************************)
(* The child DAG is done: its goroutine sends the result of the node.      *)
(***************************************************************************)
ChildDone(e, out) ==
    /\ e \in async
    /\ out \in ChildOutcomes(e[1])
    /\ Len(doneCh) < N
    /\ doneCh' = Append(doneCh, [node |-> e[1], out |-> out])
    /\ async' = async \ {e}
    /\ UNCHANGED <<schedVars, taskVars, bookVars, cancelled, idle, running, phase, runs>>

(* A fault: a worker leaves twice.                                         *)
WorkerExitsTwice ==
    /\ phase = "stopped"
    /\ idle > 0
    /\ idle' = idle - 2
    /\ UNCHANGED <<schedVars, taskVars, bookVars, doneCh, cancelled, running, async, phase, runs>>

(***************************************************************************)
(* An idle worker leaves its loop once readyCh is closed.                  *)
(***************************************************************************)
WorkerExits ==
    /\ phase = "stopped"
    /\ idle > 0
    /\ idle' = idle - 1
    /\ UNCHANGED <<schedVars, taskVars, bookVars, doneCh, cancelled, running, async, phase, runs>>

(***************************************************************************)
(* The caller cancels the context, or the DAG timeout expires.             *)
(***************************************************************************)
Cancel ==
    /\ CanCancel
    /\ ~cancelled
    /\ cancelled' = TRUE
    /\ UNCHANGED <<schedVars, taskVars, bookVars, poolVars, doneCh, phase>>

(***************************************************************************)
(* Run has returned and no goroutine of it is left.                        *)
(***************************************************************************)
Quiescent ==
    /\ phase = "returned"
    /\ async = {}
    /\ UNCHANGED vars

-----------------------------------------------------------------------------
Receive == RecvCritical \/ RecvPropagate \/ RecvAborted

Loop == Dispatch \/ Receive \/ RecvCtxDone \/ LoopEnds

Worker(e) == Launch(e) \/ \E out \in Outcomes(e[1]) : Finish(e, out)

Child(e) == \E out \in ChildOutcomes(e[1]) : ChildDone(e, out)

Next ==
    \/ Loop
    \/ RunReturns
    \/ \E e \in running : Worker(e)
    \/ \E e \in async : Child(e)
    \/ WorkerExits
    \/ Cancel
    \/ Quiescent

Spec == Init /\ [][Next]_vars

(***************************************************************************)
(* select takes some ready case, node functions and child DAGs return, and *)
(* the Go scheduler runs every goroutine that can run.  Nothing makes the  *)
(* caller cancel.                                                          *)
(***************************************************************************)
Fairness ==
    /\ WF_vars(Loop)
    /\ WF_vars(RunReturns)
    /\ WF_vars(\E e \in running : Worker(e))
    /\ WF_vars(\E e \in async : Child(e))
    /\ WF_vars(WorkerExits)

FairSpec == Spec /\ Fairness

-----------------------------------------------------------------------------
(***************************************************************************)
(* The type of every variable.  pending may fall below zero: see           *)
(* DispatchMarksWhatItSends.                                               *)
(***************************************************************************)
TypeOK ==
    /\ pending \in [Nodes -> Int]
    /\ ready \in SUBSET Nodes
    /\ head \in Nodes \cup {NoNode}
    /\ nextTask \in Nodes \cup {NoNode}
    /\ readySendCh \in BOOLEAN
    /\ ctxDone \in BOOLEAN
    /\ started \in SUBSET Nodes
    /\ completed \in Nat
    /\ dagFailed \in BOOLEAN
    /\ results \in [Nodes -> Outcome \cup {NoResult}]
    /\ err \in {"none", "critical", "context"}
    /\ doneCh \in Seq(NodeResult)
    /\ cancelled \in BOOLEAN
    /\ idle \in Nat
    /\ running \in SUBSET Execution
    /\ async \in SUBSET Execution
    /\ phase \in {"loop", "stopped", "returned"}
    /\ runs \in [Nodes -> Nat]

(***************************************************************************)
(* Hypothesis of the properties that the priority queue can break: all     *)
(* nodes have the same priority, the default.                              *)
(***************************************************************************)
UniformPriority == \A m, n \in Nodes : Prio[m] = Prio[n]

(***************************************************************************)
(* What is on offer to the workers and what is in the heap agree, whatever *)
(* the priorities.  The send case is enabled only with a task to send and a*)
(* node in the heap for commitDispatch to remove: a worker never receives a*)
(* nil task and the loop never dereferences a nil node.  And while the DAG *)
(* is not aborted, a node in the heap means that the send case is enabled: *)
(* no wakeup is lost between the heap, nextTask and the nil channel        *)
(* (engine.go:162-167, 187-196, 285-291).                                  *)
(***************************************************************************)
OfferMatchesHeap ==
    /\ readySendCh => nextTask # NoNode /\ head \in ready
    /\ phase = "loop" /\ ~dagFailed /\ ready # {} => readySendCh

(***************************************************************************)
(* doneCh has room for every result that a worker or a subflow goroutine   *)
(* may still send, so that no worker is ever lost to a loop that has ended *)
(* and stopped receiving (engine.go:136, workerpool.go:47).                *)
(***************************************************************************)
DoneChHasRoom ==
    Len(doneCh) + Cardinality(running) + Cardinality(async) <= N

(***************************************************************************)
(* No node is executed twice (engine.go:162-167).                          *)
(***************************************************************************)
ExecutedAtMostOnce == \A n \in Nodes : runs[n] <= 1

(***************************************************************************)
(* A node is handed to a worker only after every node it depends on has a  *)
(* result (engine.go:128-146, 229-283).                                    *)
(***************************************************************************)
DependencyOrder == \A n \in Nodes : runs[n] > 0 => \A u \in Deps[n] : HasResult(u)

(***************************************************************************)
(* When the loop ends without an abort, every node has a result, no        *)
(* critical node failed and nothing of the layer is still in flight        *)
(* (engine.go:188, 312-319).                                               *)
(***************************************************************************)
SuccessIsComplete ==
    phase # "loop" /\ ~dagFailed =>
        /\ \A n \in Nodes : HasResult(n)
        /\ \A n \in Critical : results[n].status # "Failed"
        /\ ready = {} /\ running = {} /\ async = {} /\ doneCh = <<>>

(***************************************************************************)
(* A node that a finished route node does not select, and what is behind   *)
(* such a node: the least set that holds the unselected nodes and is closed*)
(* downstream.                                                             *)
(***************************************************************************)
Rejects(r, v) == results[r].route >= 0 /\ v \notin Selected(r, results[r].route)

Rejected(v) == \E r \in Deps[v] \cap RouteNodes : Rejects(r, v)

Behind(v) ==
    \A S \in SUBSET Nodes :
        (\A u \in Nodes : Rejected(u) \/ Deps[u] \cap S # {} => u \in S) => v \in S

(***************************************************************************)
(* A direct successor outside the branch that a finished route node selects*)
(* is never executed and is recorded as Skipped, whatever other routes,    *)
(* late results and aborts do; and a DAG that succeeds leaves out only what*)
(* is behind such a node: never a node of a selected branch that no other  *)
(* route rejects, and none beside the branches (engine.go:230-271).  Of the*)
(* inner nodes of an unselected branch, and of an index without a branch,  *)
(* it says nothing: see UnselectedBranchesStayIdle, UnknownIndexFails.     *)
(***************************************************************************)
RoutesDecide ==
    /\ \A v \in Nodes : \A r \in Deps[v] \cap RouteNodes :
          Rejects(r, v) /\ results[r].route \in DOMAIN RouteMap[r] =>
              runs[v] = 0 /\ results[v] = Skipped
    /\ phase # "loop" /\ ~dagFailed => \A v \in Nodes : runs[v] = 0 => Behind(v)

(***************************************************************************)
(* The error of an aborted DAG names something that happened: a recorded   *)
(* failure of a critical node, or the end of the context                   *)
(* (engine.go:206-209, 294-296).                                           *)
(***************************************************************************)
AbortIsJustified ==
    /\ dagFailed <=> err # "none"
    /\ err = "critical" => \E n \in Critical : results[n].status = "Failed"
    /\ err = "context" => cancelled

(***************************************************************************)
(* A recorded result is replaced only after an abort and only if it says   *)
(* Skipped: the result of an execution is never lost (engine.go:200).      *)
(***************************************************************************)
OnlySkippedOverwritten ==
    [][\A n \in Nodes : HasResult(n) /\ results'[n] # results[n] =>
            dagFailed /\ results[n] = Skipped]_vars

(***************************************************************************)
(* Run returns (engine.go:34-91), whether or not the context is cancelled. *)
(***************************************************************************)
RunTerminates == <>(phase = "returned")

(***************************************************************************)
(* "commitDispatch removes the peeked node from the scheduler and marks it *)
(* as started" (engine.go:162-163): a node that was handed to a worker is  *)
(* marked started.  It holds when all priorities are equal: what becomes   *)
(* ready while a task is on offer then never displaces it from the root of *)
(* the heap.                                                               *)
(***************************************************************************)
DispatchMarksWhatItSends == \A n \in Nodes : runs[n] > 0 => n \in started

(***************************************************************************)
(* The loop keeps the contract of a run: its heap, its counts and its marks*)
(* let a node start only when all it depends on has a result and neither  *)
(* a route nor an abort has left it out, and an abort skips exactly what   *)
(* was not executed (engine.go:120-319).  The contract's variables are     *)
(* those of the loop, but for the places of an execution: with a worker, or*)
(* with the goroutine of its child DAG or in doneCh.                       *)
(***************************************************************************)
Working == {e[1] : e \in running}
Awaited == {e[1] : e \in async} \cup {doneCh[i].node : i \in 1..Len(doneCh)}

Contract == INSTANCE RunContract WITH
    executed <- {n \in Nodes : runs[n] > 0},
    working  <- Working,
    awaited  <- Awaited,
    cause    <- err,
    left     <- IF dagFailed THEN ready ELSE {},
    Reports  <- [n \in Nodes |-> Outcomes(n)]

ImplementsContract == Contract!Spec

(***************************************************************************)
(* "No inner node of an unselected branch is executed", but a join of a    *)
(* selected and an unselected branch is                                    *)
(* (docs/risk-and-performance-optimization.md:104, 450): a node that is    *)
(* executed depends on nothing, or on some node that no configured index   *)
(* rejects.  False: a skipped node releases what depends on it alone.      *)
(***************************************************************************)
UnselectedBranchesStayIdle ==
    \A v \in Nodes : runs[v] > 0 =>
        \/ Deps[v] = {}
        \/ \E u \in Deps[v] : \A r \in Deps[u] \cap RouteNodes :
              Rejects(r, u) => results[r].route \notin DOMAIN RouteMap[r]

(***************************************************************************)
(* A RouteFn that returns an index outside its RouteMap: "executeNode      *)
(* returns an error and marks the node Failed"                             *)
(* (docs/route-condition-design.md:496).  False: the node succeeds, and    *)
(* every branch is skipped.                                                *)
(***************************************************************************)
UnknownIndexFails ==
    \A r \in RouteNodes :
        results[r].route >= 0 /\ results[r].route \notin DOMAIN RouteMap[r] =>
            results[r].status = "Failed"

(***************************************************************************)
(* Both documents are right about routes, so at any time one of them is.   *)
(* False: in one execution neither is.                                     *)
(***************************************************************************)
ADocumentOnRoutesHolds == UnselectedBranchesStayIdle \/ UnknownIndexFails

=============================================================================
