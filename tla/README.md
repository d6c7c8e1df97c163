# DagBee in TLA+

DagBee executes directed acyclic graphs of Go functions. This directory models
its core - the graph, the event loop, the worker pool, the scheduler, the execution of a
node and the tree of subflows - and what surrounds it: the shared context, the results
with their object pools, the hook chains and the exports. The models are checked with
TLC, and what matters most about the event loop, the scheduler, the validation of a graph,
the execution of a node, the tree of subflows, the shared context, the pools of results,
the hook chains and the exports is proved with TLAPS. Line numbers are those of the
repository's root (`engine.go:162`).

## 1. Inventory

| Component | State | Operations | Interacts with |
|---|---|---|---|
| DAG (`dag.go`, options in `node.go`) | `nodes`, `edges`, `reverseEdges`, `routeEdges` | `AddNode`, `Validate`, `topologicalSort`, `topologicalLayers` | read by the engine, drawn by `Visualize` |
| Event loop (`engine.go` `executeDAG`) | `pending`, `started`, `results`, `completed`, `dagFailed`, `nextTask`, and which `select` cases are enabled | dispatch, receive a result, abort, skip branches | sends tasks on `readyCh`, receives on `doneCh`, owns the scheduler |
| Scheduler (`scheduler.go`) | a binary heap by `Priority` | `Enqueue`, `Dequeue`, `Peek`, `Len` | called only by the loop |
| Worker pool (`workerpool.go`) | unbuffered `readyCh`, workers | `worker`, `stop`, `wait` | shared by a DAG and its child DAGs |
| Node execution (`engine.go` `executeNode`) | a `NodeResult`, the attempt, the context | condition, attempts, retry wait, fallback, route, panic recovery, subflow construction | hooks, `doneCh`, a goroutine for a child DAG |
| Subflows | a tree of loops | child `executeDAG` in a goroutine | same pool, same `DAGContext`, parent's hooks |
| `DAGContext` (`dagcontext.go`) | shards of key/value pairs, a lock each | `Set`, `Get`, `MustGet`, `GetTyped`, `Keys`, `Len`, `Reset` | user functions of concurrent nodes |
| Results (`result.go`) | `Results`, two object pools | `Reset`, acquire, release | loops, subflow goroutines, callers |
| Hooks (`hook.go`) | a chain per DAG | four callbacks, `Add` | loop, workers; the engine adds the parent's to a child's |
| Configuration (`config.go`) | none that lasts | parse a file, add its nodes to a new DAG | `AddNode`, the function registry |
| Exports (`trace.go`, `execution_dot.go`, `visualize.go`) | none | Chrome trace, flame graph, Graphviz | read a returned result and its DAG |
| Logger, errors | none | formatting | - |

What makes each part correct:

- **DAG**: `Validate` accepts exactly what can be executed to the end; both graph
  algorithms agree; both edge maps describe the same graph.
- **Event loop**: each node is executed at most once, after its dependencies; a DAG
  that succeeds is complete; an abort has a cause; a result is not lost; `Run` returns.
- **Scheduler**: nothing is lost; `Peek` shows a highest node and changes only for a
  strictly higher one.
- **Worker pool**: no worker waits for a loop that is gone; no ready node waits for
  an idle worker.
- **Node execution**: one result on every path, that says what happened, between one
  `BeforeNode` and one `AfterNode`.
- **Subflows**: parents and children never wait for each other's workers.
- **DAGContext**: to single-key operations the shards are one map; bulk operations are
  not atomic, but invent and lose nothing that was not written or removed meanwhile.
- **Results**: an object is in the pool or in one live result, never in both or in two,
  and comes back from the pool as if it were new.
- **Hooks**: what happens in a DAG is told to its own hooks, each once, and to those its
  parent tells.
- **Configuration**: a file with an error yields no part of a DAG.
- **Exports**: the three show the same nodes with the same status; tracks keep the levels
  apart, and slow nodes come first.

Hard behaviours, each listed with its line under `hazards` in `PROJECT.json`: the
window between the peek of a task and the commit of its send; results that arrive
after an abort; branches skipped by one route while others release them; a timer
that races the cancellation; panics between two assignments; a full channel whose
reader has left; a result released object by object while others take from the pools; a
bulk operation that sees the shards at different times.

## 2. Modules

| Module | Models | Composition |
|---|---|---|
| `ReadyQueue` | what the loop needs of `SchedulerStrategy`: a set and its head | abstract specification |
| `PriorityScheduler` | `priorityScheduler`, `nodeHeap`, `container/heap` (external) | implements `ReadyQueue` (`ImplementsQueue`) |
| `RunContract` | what a `Run` promises of the nodes of its DAG | abstract specification |
| `EventLoop` | `executeDAG`, the pool, the end of `Run` | extends `ReadyQueue`; with one priority implements `RunContract` (`ImplementsContract`) |
| `EventLoopProofs`, `PrioritySchedulerProofs` | - | theorems about the module they are named after |
| `Loops` | - | lemmas about the recursive functions that model loops |
| `SubflowTree` | the loops of a tree of DAGs on one pool | each loop that of `EventLoop`, simplified by what `EventLoopProofs` shows |
| `NodeExec` | `executeNode`, `executeWithRetries`, `executeAttempt` | its results are the outcomes `EventLoop` assumes (`ReportsAnOutcome`) |
| `DagGraph` | `AddNode`, the load of a YAML file, `Validate`, the two topological algorithms | what it accepts is `EventLoop`'s `GraphAssumption` (`ValidateIsExact`) |
| `DagGraphProofs`, `NodeExecProofs`, `DAGContextProofs`, `SubflowTreeProofs` | - | theorems about the module they are named after |
| `RunResultsProofs` | - | theorems about `RunResults`, and about `Exports`, which extends it |
| `ContextStore` | what nodes are promised of their context: one atomic map | abstract specification |
| `DAGContext` | the sharded store | implements `ContextStore` (`ImplementsStore`) |
| `RunResults` | results, pools and hook chains over the `Run`s of several callers | its loops do what `EventLoop` and `SubflowTree` let them do to a result |
| `Exports` | trace, flame graph and executed graph of a result | extends `RunResults`, reads the results that its `Run`s return |
| `MC...` | instances for TLC | |

### EventLoop

An iteration of the loop's `select` is one action, with everything its case does.

| Action | Code |
|---|---|
| `Dispatch` | `case readySendCh <- nextTask`: the worker takes `nextTask`, `commitDispatch` removes and marks the *root of the heap*, `dispatchReady` peeks again |
| `RecvCritical` | `case nr := <-doneCh`, critical failure: `dagCancel`, skip what has not started |
| `RecvPropagate` | the same case, not aborted: skip unselected branches, decrement, enqueue, re-arm |
| `RecvAborted` | the same case after an abort: record, re-arm |
| `RecvCtxDone` | `case <-ctxDone` |
| `LoopEnds`, `RunReturns` | the end of the loop with `wp.stop`; `wp.wait` |
| `Finish`, `Launch`, `ChildDone`, `WorkerExits` | a worker and a subflow goroutine |
| `Cancel` | the caller, or the DAG timeout |

Abstractions. Nodes are numbered in the order of their `AddNode` calls, which is the
order of every edge list; the random order of Go maps only chooses the root of the
initial heap. A task is its node. `pending` counts a repeated dependency once: it is
incremented and decremented the same number of times. Success stands for Success and
Retried, Failed for Failed and Panicked, which the loop never tells apart. Workers
are interchangeable. A child DAG is the time between the launch of its goroutine and
its result. Durations are absent: a timeout is a `Cancel` that may come at any time.
A panic of a `ConditionFn` or of a hook ends the process (`NodeExec!PanicsAreRecovered`),
so the loop does not see it.
History: `runs` counts how often a node was handed to a worker.

`RoutesDecide` states what a route decides for certain. A node that depends directly on a
route node and is in another branch than the one selected (`Rejected`) is never executed
and stays `Skipped`; and a DAG that succeeds leaves out only such nodes and what is
`Behind` them, where every path from the start leads through one. Of the inner nodes of a
branch that was not selected, and of an index that has no branch, it says nothing: what
the documents want of them is stated by `UnselectedBranchesStayIdle` and
`UnknownIndexFails`, which the code does not keep (findings 6 and 7, run `routes`).

`head`, what `Peek` returns, is state of its own since the heap fixes it only up to
ties; `RootAfterPush` and `RootAfterPop` say how it may move, and `PriorityScheduler`
shows that the heap of the code moves it no other way.

`RunContract` is what a caller may rely on, without heap, task on offer, dependency
count, mark or channel. A node is executed or being executed, its result is awaited or
recorded, and a cause may have aborted the run. `Start` says which nodes may be
executed: before an abort those that are neither executed nor resolved and whose
dependencies are resolved, `MaxWorkers` at a time; after it those that were ready when it
came, and no other (`left`, finding 2 states that they ought to be none). `Report` skips
the open nodes that a route leaves out, `ReportFatal` and `GiveUp` all open ones, and
`ReportLate` decides nothing. `End` demands a result for every node and nothing awaited,
unless there was an abort. The refinement mapping is `Contract` in `EventLoop`.

### NodeExec

`pc` is the statement that comes next; each user function may return, fail or panic;
the context may be done at any time. `BeforeNode`, `ConditionFn`, `OnNodeSkip` (at `skip`)
and `AfterNode` (at `finalize`) are called outside every `recover`: a panic there
leads to `crashed`, the end of the process (`CallbackPanics`), from which nothing
follows. `node.panics` says of an execution that one of them may panic; `Completes` is
claimed of the others. The sub-DAG's validation and depth check are
outcomes of `ConstructionFails`. The result is sent by the worker or by the goroutine.
Histories: `hooks`, `calls`, `lateCalls`, `lastCall`.

### SubflowTree

Every layer has its loop, its `doneCh` and its scheduler; the layers share the idle
workers and `closed`, the state of `readyCh`. `Dispatch` and `SendPanics` are the two
fates of a send, before and after `wp.stop`. A context is one bit per layer, and ends
with those derived from it (`Below`). `ChildReturns` is the deferred function of a
subflow's goroutine. Left out, as `EventLoop` has them: priorities (one for all, so that
the task on offer is the one committed and no node runs twice), routes, conditions.

### DagGraph

`AddNode` in any order and with any dependency list, then `Validate` (Kahn's algorithm,
one step per queue element and per edge) and the layers of `Visualize`, which may also
be drawn of a graph that was not validated. Acyclicity is stated without paths: every
non-empty set of nodes has one that depends on nothing in it.

The DAG may also come from a configuration file: `LoadStarts` takes a parsed file,
`LoadEntry` checks one entry and adds it (`config.go:69-118`), and `LoadFails` drops the
DAG at the first error: no function registered, a malformed duration, and those of
`AddNode`. A file is the list of its entries; an entry says what the registry holds for
its name and whether a duration parses.

### DAGContext

A section under the lock of a shard is one step: `Set`, `Get`, `MustGet`, `GetTyped`, and
one visit of `Keys`, `Len` or `Reset`, between which other goroutines run. The number of
shards comes from the option or from the number of CPUs (`ShardCount`, `roundupPow2`),
and the index of a key from its hash by one of two formulas (`shardIndex`); `&` and `|`
are computed bit by bit (`AndFrom`). `home` keeps the index of every key, which
the code computes anew in every call. Histories: `always` and `ever`, the keys that were
there all the time, or at some time, of a bulk operation.

### RunResults

Objects are numbers, and each knows how often it is in its pool. A goroutine's steps on
a result are one action each: `Execute` (a worker's `executeNode` and the receipt of its
result), `Skip` (one `acquireSkippedNodeResult`), `BeginSubflow` and `EndSubflow` or `SubflowPanics`
(the goroutine of a subflow), `EndLoop`, `Return`. `Release` and the `Reset...` and
`Put...` actions are `ReleaseDagResult` statement by statement, with a stack for the
nested `Reset`s. `Return` leaves loops of subflows behind (`closed`), as `SubflowTree`
shows, which go on with the tasks that were sent already (`taken`), and panic at the
next send. The loop is a set of ready nodes here; its order, the scheduler and the pool
of workers are `EventLoop`'s. After an abort any node left in the heap may still be
executed, without waiting for the result that re-arms the send: more than the code does,
so what holds here holds there. `Offers` is what may be sent: never a node that the
propagation in progress is about to skip, since the code skips and releases in one turn of
the loop. `chain` holds the hooks of every DAG, by reference as in
the code: a child that its `SubflowFn` returns again (`Reused`) is extended again.
`HooksInherited` says which hooks a chain holds, however often its DAG is executed; how
often it holds them, and in which order, the documents describe otherwise than the code
does it (`ParentHooksOnce`, `ParentHooksFirst`, findings 8 and 9).

### Exports

Functions of a returned result. `collectTraceEvents` and `collectFlamegraph` yield the
events and lines in the order of the code, with paths in place of indented or joined
names; `writeExecutionDAG` yields the nodes and edges of the Graphviz text. The code calls
itself for the result of a subflow; here `TraceEvents`, `FlameLines` and `DotGraph` are
recursive functions of the number of calls that may still be nested. There are `MaxDags` of
them, and `Agree` states that one call more would change nothing. The two sorts
of `trace.go`, by name and by duration, are one insertion loop (`Raised`, `Sorted`). The
track of an event is the number the code computes from its depth and hash, the route shown
is its `RouteIndex`. A line of the flame graph is a path and a duration, which is a constant
per node. `LayoutHolds` is about the events and lines that are written: no track serves two
depths of nesting, and of the lines of one DAG the slower ones come first, wherever lines of
subflows are put between them.

## 3. Runs

| Run | Instance | Shows |
|---|---|---|
| `uniform` | 6 nodes, 2 workers, two overlapping routes (one with an index in no branch and a negative one), a condition, two subflows, two critical nodes, cancellation | one priority for all: type, ready nodes on offer, room for results, the node sent is the one marked, single execution, order, completeness, routes, aborts, results, the contract of a run, termination |
| `hang` | 5 nodes, 2 workers, chains with mixed priorities, nobody cancels | violation: `Run` may never return |
| `routes` | a route over two branches, one of them two nodes long, a join, and a second route | violation: the second node of the branch not selected is executed, and the second route succeeds with an index in no branch |
| `subflow_tree` | a root of two subflows and a critical node, a second and a third level, one worker, any layer may be cancelled | termination of `Run` and of every loop, the status of subflows, what outlives `Run` |
| `late_work` | same | violation: after an abort the root's loop ends before one of its subflows, whose loop then sends on the closed `readyCh` |
| `node_exec` | every kind of node, RetryCount -1 to 2, two depths | the result and the hooks of one execution |
| `panics` | same | violation: `RetryCount` is wrong after a panic, and the panic of a hook that is given it ends the process |
| `scheduler` | 6 nodes, three pairs of tied priorities, every push order | the heap is a heap and implements the queue |
| `dag_graph` | 3 names, every dependency list up to length 2, every order; files of up to two entries | the load, `Validate`, sort and layers |
| `dag_context` | 3 keys, 2 values of different types, a goroutine that calls `Keys` and `Len` and one that calls `Reset`; 3, 4 or 8 shards | the shards are one map; what bulk operations may be relied on for |
| `run_results` | two callers on the same pools, one with a tree of three DAGs, a route, a condition, an abort and a child DAG that is returned again, one with a DAG that may fail or is invalid; 2 `Run`s | no object in two places, none unclean; who is told what happens in a DAG; the exports agree, and their layout |
| `documents` | same | violation: the parent's hooks are in the chain of a reused child once per execution, and behind the child's own; a nested DAG is on the track of a node above it; a short line precedes a longer one |

Each violation run but `hang` checks that *one at least* of several statements of the documents holds
(`ADocumentOnRoutesHolds`, `ACommentOnLateWorkHolds`, `APromiseOnPanicsHolds`,
`AStatementOnResultsHolds`): this follows from each of them, so the state TLC finds breaks
them all at once, and stands for every finding that names the run.

The bounds. Six nodes are the fewest for two routes that share a successor, one of
whose siblings it also depends on, beside an independent critical subflow; two workers
give every interleaving of two executions, and results wait in `doneCh` next to them.
One worker is the hardest case for the tree: any loop that held it would stop all others.
The `hang` graph has the shortest chain in which a more urgent node appears
while another is on offer. That ready nodes are on offer and that results fit into `doneCh`
holds for mixed priorities too, which is proved (`OfferMatches`, `ResultsFit`); TLC checks it
with one. Two retries give a first, a middle and a last one. Six heap
elements make three levels. Three names make cycles of every length, a repeated, a
dangling and a self dependency, and a node whose shortest and longest paths differ.
Requests of 0 and 3 shards with 1 and 2 CPUs give 3, 4 and 8 shards, of which 3 takes the
other formula; of the three keys two share a shard of 4 and of 8 or not. In `run_results` a
second `Run` takes the objects that the first one put or is still putting, or new ones: four
DagResults and five NodeResults are enough for a tree beside another `Run`; what exceeds
them is cut off. The hashes of the names include a 1, the depth of the first subflow, and
others that agree modulo 1000 or differ by the offset of a level; the nodes of the middle
DAG take longer than a later one of the root. `GetsTheFirst` makes a `Get` return the first
of the free objects: they are alike, which `PoolIsFree` states in every state, and their
numbers mean nothing.

`EventLoop_hang.cfg` does not check deadlock: there the loop really may block for ever. In all
other runs a final state is a stuttering action (`Quiescent`, `Ended`, `Returned`) and
deadlock is checked, but for `run_results` and `documents`, which stop at their bounds on runs and
objects. `dag_graph` uses symmetry, and only invariants.

Fairness of `EventLoop`: weak, for the loop as a whole (a Go `select` takes some ready
case), for the workers, for the child goroutines, for the return of `Run`: user
functions are assumed to return, and the Go scheduler runs what can run. Nothing is
assumed of `Cancel`, nor of which case `select` takes. `NodeExec` assumes the same of
one execution, `SubflowTree` of every loop; no strong fairness is needed among the
loops that compete for a worker, since each sends finitely many tasks.

## 4. Findings

1. **Run may not return** (`engine.go:165`). The node committed is not the peeked one: if a
   result enqueues a node of higher priority while a task is on offer, the worker executes
   the offered node, and the other is dequeued and marked started. The offered node is
   executed again; the other never is, and `Run` waits for it if no timeout or
   cancellation ends it. With all priorities equal this cannot happen (proved).
2. **Dispatch after an abort** (`engine.go:286`). The heap is not cleared and the send is
   re-armed, so a node recorded as Skipped is executed, its result replaces the skip,
   and the loop may end while it or another execution is in flight. `Run` still waits
   for the workers, but not for the goroutine of a subflow.
3. **A send on a closed channel** (`workerpool.go:56`) is what becomes of that subflow's loop:
   it panics, and is recovered into a result that nobody reads.
4. **RetryCount after a panic** (`engine.go:476`) is 0 whatever the number of retries.
5. **A panic that ends the process** (`engine.go:360`). `ConditionFn` and the four calls of
   hooks on a node (`engine.go:352, 355, 364, 439`) are outside every `recover`. The comment
   of `executeNode` (`engine.go:324`) promises panic recovery, and
   `docs/risk-and-performance-optimization.md:46, 449` calls this a P0 defect.
6. **The inner nodes of a branch not selected** (`engine.go:261`). Only the direct successors
   of the route are skipped, and a skip counts like a completion for what is behind, which
   is then executed; `docs/risk-and-performance-optimization.md:47, 104, 450` calls it a P0
   defect: the branch is to stay idle, and a join of it with the selected one is to run.
7. **A route index without a branch** (`engine.go:240`) leaves the node successful and skips
   every branch; `docs/route-condition-design.md:496` expects the node to fail.
8. **Hooks accumulate** (`engine.go:123`). The parent's hooks are added to the child's chain
   for good, so a child DAG that is returned again calls them once more per execution;
   `docs/risk-and-performance-optimization.md:50, 157, 452` ranks it P1.
9. **The order of inherited hooks** (`engine.go:123`): the child's own come first, while
   `docs/subflow-design.md:482-484` shows the parent's first.
10. **Track IDs** (`trace.go:66`). The event of a nested DAG has its depth as track, which may
    be that of a node of the root; `trace.go:53-54` promises unique tracks per layer. Between
    nodes the levels are kept apart (`LayoutHolds`).
11. **The order of the flame graph** (`trace.go:179`) is by duration within a DAG only, while
    `trace.go:147` says that its lines are sorted.

Findings 1, 2, 3, 5, 6 and 8 are reported as defects of the code, the others as
disagreements of code and text.

Seen while reading, and not contradicted by any document of the repository that we know
of, so that no run checks it as a violation:

- A route node that fails without being critical releases all its branches. A subflow
  ignores its RouteMap.
- A negative RetryCount makes a node succeed without a call (`SuccessIsEarned` states it).
- `Visualize` reports a dangling dependency of an unvalidated graph as a cycle
  (`LayersAreDepths` states it).
- A DAG that ended by an abort may be returned without a result for some of its nodes, and
  a subflow whose goroutine panicked without its child's (`ViewsAgree` states when).
- `Len` may return a number of keys that the context never held (`BulkIsBounded` states
  the range).

## 5. Proofs

`EventLoopProofs` proves, for every graph, pool size, set of critical, failing,
conditional and subflow nodes, and route map that the assumptions of `ReadyQueue` and
`EventLoop` admit:

- for *any* priorities: `TypeCorrect`, `OfferMatches`, `ResultsFit`;
- under `UniformPriority`: `Inductive`, and from it `AtMostOneExecution`,
  `OrderRespected`, `SuccessComplete`, `ResultsKept`, `AbortJustified`, `SentIsMarked`,
  `RoutesRespected`, and the refinement `ContractKept`.

The assumptions are that there is a node and a worker, and that the graph is closed and
acyclic, which is what `Validate` checks (`DagGraphProofs!ValidateCorrect`).

The argument. `QueueInv` ties the heap, the head, the task and the send case together:
there is a task on offer exactly when the case is enabled, and then the heap is not
empty. It is inductive with `TypeOK` alone. `CountInv` charges every execution to the
node it took out of the heap, and every node enters the heap at most once because its
`pending` crosses zero once: so results always fit into `doneCh`, even when the wrong
node is removed. With one priority, `OfferInv` adds that the task on offer *is* the
root, since a push never displaces a root of equal priority (`SteadyRoot`); hence what
is sent is what is marked, and `FlightInv` can place every execution in exactly one of
worker, goroutine and channel. Finally `OrderInv` says that until an abort
`pending` is exactly the number of dependencies without a result; it is not inductive
without `FlightInv`, since a result received twice would be subtracted twice. The
delicate step is `RecvPropagate`: `Releases` counts, per node, which of the finished
and the skipped nodes are subtracted, in the order of the edges.

`RoutesRespected` needs two facts more. `HeldBack`: what depends on a node that is in
the heap or executed has never been in the heap itself, even after an abort. So when a
route decides, a branch it does not select has not been sent, and skipping it is final:
`RouteInv` says that a rejected node never runs, and that until an abort a node which has
a result but was not executed is a rejected one. So a DAG that succeeds leaves out only
what is behind a rejected node; the theorem does not say that all of it is left out, which
is false (finding 6).

`ContractKept`: every step of the loop is a step of `RunContract` or none. The contract
knows neither marks nor counts, so what they mean has to be proved, in three parts that
TLC checked on the instance of `uniform` first. `MarksInv`: a node is marked started
only if it was executed or has a result, and until an abort an unmarked node whose
count has reached zero is in the heap; with the exactness of `OrderInv` this makes the
unmarked nodes the open ones of the contract, and the heap the set of those that may start
(`OpenIsUnmarked`). Both have to be exact: an abort skips the unmarked nodes where the
contract skips the open ones, and leaves the heap where it leaves those that could start.
`ReportsInv`: what is in `doneCh` is what an execution of its node may report, and only a
subflow reports later than its worker leaves. `PoolInv`: until the pool is stopped a worker
is idle or in an execution, so that no more than `MaxWorkers` nodes are executed at once.
One lemma per kind of step remains (`DispatchStarts` to `ChildStutters`); that the loop
ends without an abort only when all is resolved and nothing is awaited is `CompleteAtEnd`,
which `SuccessComplete` is read off from too.

`DagGraphProofs` proves every property of `DagGraph`, for every finite set of names,
every set of options and every set of files: `TypeCorrect`, `ViewsMirrored`,
`SortCorrect`, `ValidateCorrect`, `LayersCorrect` and `AlgorithmsAgree`. The only
assumption is `DagAssumption`: the names are finitely many and the data well-formed.
With `ValidateCorrect` the assumption on the graph of `EventLoopProofs` is no longer an
assumption about callers: it is what an accepted graph is proved to be.

The argument. All that is wanted follows from `GraphInductive`, whose invariant says
what the two loops leave unsaid. While the sort runs, the degree of a node is the number
of its unsorted dependencies *plus* the edges of the last sorted node that are still to
be visited (`SortCounts`); so it reaches zero at one edge only, and a node is queued
once, even if a dependency is declared twice. What is sorted is closed under
dependencies and has no cycle (`NoCycleIn`), and this stays so when a node is added whose
dependencies are in it; a sort that ends early leaves nodes each of which depends on
another one left. `LayerCounts` is the same for the sweeps: the degree of a node is the number of
its dependencies in no layer, and a node that is free now depends on one of the last
layer. That the two orders agree needs `FirstCome`: the queue is first come, first
served, so of two nodes the one queued first was freed no later.

`NodeExecProofs` proves every safety property of `NodeExec`, for every set of retry
counts and branch indexes and every limit on the depth: `TypeCorrect`, `LateAttempts`,
`RetriesCounted`, `HooksBracketed`, `OutcomesOfLoop`, `SuccessEarned`. The invariant
(`ExecInductive`) says, per statement of `executeNode`, what may be known there:
`CallsInv` ties `attempt` to the calls of `Fn`, and says that before and between
attempts no call has begun late, so that a late call is the last; `ResultInv` keeps the
result empty until it is decided; `HooksInv` gives the hooks called so far at
every place, so that those of a result that was sent follow however the panic of a hook
cut off other executions; `FinishedInv` is what the other theorems are read off from.
`OutcomesOfLoop` is what allows `EventLoopProofs` to take an execution as one step.

`PrioritySchedulerProofs` proves, for any number of nodes and any priorities, that what
the loops of `container/heap` leave is a heap (`HeapOrdered`) and that it implements the
queue (`QueueImplemented`). So `RootAfterPush` and `RootAfterPop`, from which everything about
`EventLoop` is derived, are no assumptions about the heap but what it is proved to do.

The argument. A loop of the code is a function that calls itself last. TLA+ defines a
recursive function by `CHOOSE`, so that nothing can be said of it before a function with its
equation is shown to exist: `Loops!TailCall` shows it for any such function, whether
its loop ends or not, and `Loops!LoopEnds` is the rule for its result: an invariant that the
body keeps, and a number that falls. The invariant of sifting up is a heap whose elements
are in order but for the one that rises, with its children below its parent (`Rising`);
that of sifting down is the mirror image (`Sinking`). The element pushed stops below a root
of equal priority, since it rises above strictly lower ones only: hence a tie never
changes what `Peek` shows. That a heap has its highest element on top is shown from the least
index of a higher one (`Loops!LeastOf`), in place of induction.

`DAGContextProofs` proves `TypeCorrect`, `BulkBounded` and the refinement
`StoreImplemented`, for any goroutines, keys, values, hashes and shard counts. That the
index computed from a hash names a shard is a fact of bit arithmetic (`IndexInRange`):
`AndBounded` shows from the loop over the bits that a conjunction is at most its
mask, and the remainder of a division is less than its divisor. The refinement rests on
the fact that a key has one shard (`PresentByValue`): a write changes one key of the
abstract map, and the visit of a `Reset` removes the keys of one shard at once. For the
bulk operations `Progress` says what holds of the shards visited so far; a step of
another goroutine only takes keys from `always` and adds keys to `ever` (`Bystander`).

`SubflowTreeProofs` proves the safety properties of `SubflowTree`, `TypeCorrect`,
`ChildDecided` and `OrphansAborted`, for every tree of DAGs, number of workers and choice
of failing and critical nodes. The assumption, `TreeAssumption`, is that a DAG is
constructed by one node and that all are below the root, as the code builds them.

The argument. `Flight` places a node in one of heap, worker, loop of its child and
channel, and says it has no result meanwhile, but for the `Skipped` of an abort; so a
result is received once, and until an abort the loop counts exactly what has a result
(`Counted`). `Verdicts` holds for a result in the channel as well as for one received: a
child that is gone changes nothing any more. For loops left behind the state-level
property is not enough, since a child may be launched after its whole line of ancestors
has ended: `Orphans` speaks of every layer that is alive *or panicked short of its
end*, so that such a layer passes the abort above it on to what is launched below. When
the root's loop ends, `Orphans` is shown from the root downwards: a layer that ended
without an abort has a result for every node, and a node with a result has no live child.

`RunResultsProofs` proves `PoolFree`, and `TypeCorrect`, for any callers, DAGs, route maps
and sizes of the pools. The assumption, `ResultsAssumption`, only says that the data is
well-formed; nothing is assumed of how the DAGs refer to each other, but callers release
a result once, as the action `Release` does.

The argument. `PoolIsFree` is not inductive: it says nothing of who may still write. The
invariant gives every object one holder at most (`NodesOnce`, `DagsOnce`) and an idle one
none, with the contents of a new object (`NodesIdle`, `DagsIdle`). `OpenHeld`: a loop only fills a
result held by a caller in `Run` or by the goroutine of a subflow, never one that another
result refers to, which is why nobody fills what somebody else resets. `Stacks`: the Resets a
caller is in form a path of references down from its result, with the fields of each
object on it cleared, and the paths of two callers never meet (`Apart`). That follows step
by step, since an object with one holder is reached from the top of one path only. So
when the last reference of an object is cleared it equals a new one, and its one holder
gives it up in the same step.

It also proves `HooksPassedOn`, under the hypothesis `DagsNested`: a hook is given to one DAG
only, and the DAGs form a forest whose roots are what callers run. The code does not enforce
this - one may give a hook to two DAGs, and it is then rightly called for both - but it is
what the promise of `HooksInherited` is about; TLC evaluates `DagsNested` on the instance of the
run. The invariant has three parts. `ChainOf`: a chain holds the DAG's own hooks once
and no others than those of the DAGs above (`Up`), and the parent's once where the DAG is
built anew. `Begun`: a loop fills the result of a DAG that has been executed, so a
child is executed after its parent. `Inherited`: from its first execution a chain holds what
the parent's holds. It stays so because the parent's chain has all the hooks it will ever
have by then, however often they are added again: no DAG is above itself, and a forest has
one parent at most.

`ResultsFilled` says what a result holds, which is what its readers rely on. Its invariant,
`FillInv`, was first checked by TLC on the instance of `run_results`, and has three parts.
`Working`, for a loop that runs: a node it has taken, has ready or waits for is one of its
DAG, and every route it depends on has been decided (`Decided`); until an abort such a node
has no result yet, and after one every node has a result, is about to be skipped, or is
such a node. `Filled`, for every result that is held: it holds results of nodes of its DAG
only, a route is one of its node's branches and shown of a success only, the result of a
subflow refers to a result that no loop fills any more; and once its loop has ended, a
success has a result for every node, and a branch that a route left out is `Skipped`
(`Ended`). `FlightsRight` says the same of what the goroutine of a subflow works on. These need
each other. That a branch left out stays `Skipped` follows because a route decides only
among nodes that are not resolved yet, and a result is replaced only after an abort, by that
of a node still in the heap, which no route left out; and that a nested result is complete
when it is referred to follows from what `FlightsRight` says until then.

`ViewsAgreed` shows from it that the exports of a returned result agree. Three steps lead
there. First, all results below a returned one are held, ended and of a DAG (`Resulted`),
and the three exports visit the same ones. Second, one call of each export is described by
what its loop has done so far (`Whole` for the results it may meet, `FlameForm` for the flame
graph, whose loop puts the lines of a child after its node's), and a nested call by the one
that has fewer calls left; in place of induction the least number of calls at which a
statement fails is taken (`Counting`, from `Loops!LeastOf`). So every path an export shows
extends that of the call (`PathsExtend`), hence two nodes of a result never share a path, not
even across their subflows, and nothing is shown twice; and the statuses are those
of the results, in the order of the trace and the flame graph as well as in the set of
the executed graph (`SameShown`, `SaysRight`). Third, the calls come to an end by themselves
(`EvenAt`): nested results are all different objects, because an object has one holder
(`Line`, from the invariant of `PoolFree`), so no more than `MaxDags` calls nest, and the
bound of the recursive functions is no bound on the code.

`LayoutKept` proves the layout of the same exports. The loop that sorts by duration yields a
sorted permutation, by `Loops!LoopEnds` with the invariant that the part before the element
inserted is sorted and nothing is lost. What is written is the sorted nodes with the lines of
their subflows between them: two lines of one DAG (`Siblings`) are lines of one call, since a
line of a nested call has a longer path that extends its node's; and two nodes of one call
were sorted. This goes through all calls like the agreement does (`Descends`), and needs
`FillInv` too: the results met are those of `Resulted`. The track of a node is a thousand
times its depth plus a remainder below a thousand, so that tracks of different depths are
disjoint. It assumes that hashes and durations are natural numbers (`ExportsAssumption`), and
like the rest of the module that the nodes are finitely many.

All safety properties of the passing runs, and the three refinements, are stated by theorems
(`HooksInherited` under `DagsNested`, some of `EventLoop` under `UniformPriority`).
Only model-checked: termination (`RunTerminates`,
`EveryLoopEnds`, `Completes`), since liveness is beyond the prover. The violations of
section 4 are counterexamples, and need no proof.

## 6. Not modelled

- Logger and errors: no behaviour depends on them. The examples: they only use the rest.
- Text: labels, colours, escaping and JSON of the exports; `DAG.ExportDOT`, one loop over
  the fields of the nodes; the YAML syntax, which is the vendored parser's, and the
  options of a file that only assign fields.
- Durations. A timer fires at any time, and that a retry interval overflows needs waits
  of decades before it.
- A panic of `OnDAGComplete`, and of `OnNodeSkip` when the loop calls it: it unwinds the
  goroutine that called `Run`, or the one of a subflow.
- Misuse by a caller: one result released twice, one DAG executed by
  two `Run`s at the same time (whose hook chain is then appended to without a lock).
- The cancel function that is overwritten when a DAG has a timeout (`engine.go:114`): the
  first context is released when its parent is, and nothing else depends on it.

## 7. What could come next

- Trees of subflows with mixed priorities, where the wrong commit of one loop meets the
  sends of another.
- A contract of a run for DAGs of several layers, which `SubflowTree` implements.
