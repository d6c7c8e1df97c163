------------------------------- MODULE RunResults -------------------------------
(***************************************************************************)
(* The life of the results of a Run: taken from the two object pools, filled*)
(* while the DAG and its child DAGs are executed, returned to the caller,  *)
(* and put back by ReleaseDagResult, while other callers do the same with  *)
(* the same pools.  Also the hook chains of the DAGs, which every execution*)
(* of a child extends.  How a loop orders its nodes is in EventLoop; here  *)
(* it is what leaves a result where it is.                                 *)
(***************************************************************************)
EXTENDS Integers, Sequences, FiniteSets

CONSTANTS
    Callers,
    Dags,
    Nodes,       (* node names, in the order of strings; unique over all DAGs*)
    None,        (* nil                                                      *)
    Entries,     (* the DAGs that a caller runs                              *)
    Invalid,     (* those that Validate rejects                              *)
    Owner,       (* the caller in whose runs a DAG is executed               *)
    Home,        (* the DAG of a node                                        *)
    Deps,        (* what a node depends on                                   *)
    Child,       (* the DAG that the SubflowFn of a node returns, or None    *)
    Reused,      (* the DAGs returned again and again, not built anew        *)
    MayFail, Conditional,   (* nodes whose Fn may fail, that have a condition*)
    MayAbort,    (* DAGs that may end by a critical failure or the context   *)
    RouteMap,    (* of a route node: the targets of every index              *)
    Hooks,       (* the hooks that a DAG is created with                     *)
    MaxDags, MaxNodes,   (* bounds: objects that are ever made               *)
    MaxRuns              (* bound: the Runs of all callers                   *)

ASSUME ResultsAssumption ==
    /\ Nodes \subseteq Nat /\ IsFiniteSet(Nodes)
    /\ None \notin Nat \cup Dags
    /\ MaxDags \in Nat /\ MaxNodes \in Nat /\ MaxRuns \in Nat
    /\ Entries \in [Callers -> SUBSET Dags] /\ Owner \in [Dags -> Callers]
    /\ Home \in [Nodes -> Dags] /\ Child \in [Nodes -> Dags \cup {None}]
    /\ Deps \in [Nodes -> SUBSET Nodes]
    /\ \A n \in DOMAIN RouteMap : DOMAIN RouteMap[n] \subseteq Int
    /\ DOMAIN Hooks = Dags

DagObjs  == 1..MaxDags
NodeObjs == 1..MaxNodes

VARIABLES
    node,       (* the contents of every NodeResult object                   *)
    dag,        (* the contents of every DagResult object                    *)
    nodePool, dagPool,       (* how often every object is in its pool        *)
    nodesMade, dagsMade,     (* objects made by New so far                   *)
    open,       (* DagResults whose loop runs                                *)
    closed,     (* those among them whose Run has returned                   *)
    aborted,    (* those whose dagFailed is set                              *)
    loop,       (* what every loop is at, see NewLoop                        *)
    flight,     (* the goroutines of subflows                                *)
    result,     (* what the Run of a caller works on or has returned         *)
    phase,      (* of a caller                                               *)
    runs,       (* Runs that were made                                       *)
    stack,      (* the Resets a caller's ReleaseDagResult is in              *)
    chain,      (* the hooks of every DAG                                    *)
    executed    (* history: executions of every DAG                          *)

objects == <<node, dag>>
pools   == <<nodePool, dagPool, nodesMade, dagsMade>>
loops   == <<open, closed, aborted, loop, flight>>
callers == <<result, phase, runs, stack>>
hooks   == <<chain, executed>>
vars    == <<objects, pools, loops, callers, hooks>>

(***************************************************************************)
(* What New makes, and Reset restores.                                     *)
(***************************************************************************)
Statuses == {"Pending", "Running", "Success", "Failed", "Skipped", "Panicked"}
Reasons  == {"none", "condition", "route", "abort"}

NewNode == [status |-> "Pending", route |-> -1, skip |-> "none", sub |-> None]
NewDag  == [status |-> "Pending", dag |-> None, results |-> [n \in Nodes |-> None]]

(***************************************************************************)
(* Of a loop: results that replaced that of a skipped node; nodes it is    *)
(* about to skip; of an aborted loop, or one whose Run has returned, the   *)
(* nodes with a worker or in doneCh; of an aborted one, those in the heap. *)
(***************************************************************************)
NewLoop == [late |-> 0, skip |-> {}, taken |-> {}, heap |-> {}]

Init ==
    /\ node = [p \in NodeObjs |-> NewNode]
    /\ dag = [o \in DagObjs |-> NewDag]
    /\ nodePool = [p \in NodeObjs |-> 0]
    /\ dagPool = [o \in DagObjs |-> 0]
    /\ nodesMade = 0
    /\ dagsMade = 0
    /\ open = {}
    /\ closed = {}
    /\ aborted = {}
    /\ loop = [o \in DagObjs |-> NewLoop]
    /\ flight = {}
    /\ result = [c \in Callers |-> None]
    /\ phase = [c \in Callers |-> "idle"]
    /\ runs = 0
    /\ stack = [c \in Callers |-> <<>>]
    /\ chain = Hooks
    /\ executed = [d \in Dags |-> 0]

(***************************************************************************)
(* What sync.Pool's Get may return: an object of the pool or a new one.    *)
(***************************************************************************)
FreeNodes == {p \in NodeObjs : nodePool[p] > 0 \/ p = nodesMade + 1}
FreeDags  == {o \in DagObjs : dagPool[o] > 0 \/ o = dagsMade + 1}

acquireNodeResult(p) ==
    IF p <= nodesMade
    THEN nodePool' = [nodePool EXCEPT ![p] = @ - 1] /\ UNCHANGED nodesMade
    ELSE nodesMade' = p /\ UNCHANGED nodePool

AcquireDagResult(o) ==
    IF o <= dagsMade
    THEN dagPool' = [dagPool EXCEPT ![o] = @ - 1] /\ UNCHANGED dagsMade
    ELSE dagsMade' = o /\ UNCHANGED dagPool

-----------------------------------------------------------------------------
NodesOf(o) == {n \in Nodes : Home[n] = dag[o].dag}

HasResult(o, n) == dag[o].results[n] # None

Result(o, n) == node[dag[o].results[n]]

Completed(o) == Cardinality({n \in NodesOf(o) : HasResult(o, n)}) + loop[o].late

Looping(o) ==
    /\ o \in open
    /\ loop[o].skip = {}
    /\ Completed(o) < Cardinality(NodesOf(o))

InFlight(o, n) == \E f \in flight : f.parent = o /\ f.node = n

Unresolved(o) == {n \in NodesOf(o) : ~HasResult(o, n) /\ ~InFlight(o, n)}

(***************************************************************************)
(* What has no more pending dependencies: in the heap or with a worker.    *)
(***************************************************************************)
Ready(o) == {n \in Unresolved(o) : \A m \in Deps[n] : HasResult(o, m)}

(***************************************************************************)
(* What the loop may offer, or has offered before it began to skip: after  *)
(* an abort the skipped nodes that are left in the heap                    *)
(* (engine.go:285-291).                                                    *)
(***************************************************************************)
Offers(o) ==
    IF o \in aborted THEN loop[o].heap ELSE Ready(o) \ (loop[o].taken \cup loop[o].skip)

(***************************************************************************)
(* A worker executes n, and the loop receives its result.                  *)
(***************************************************************************)
Runnable(o, n) ==
    /\ Looping(o)
    /\ n \in loop[o].taken \cup (IF o \in closed THEN {} ELSE Offers(o))

Recorded(o, n, p) == [dag EXCEPT ![o].results[n] = p]

(***************************************************************************)
(* The branches that index i of the route n leaves unselected.             *)
(***************************************************************************)
Unselected(o, n, i) ==
    IF o \in aborted THEN {}
    ELSE {m \in Unresolved(o) : n \in Deps[m] /\ m \notin RouteMap[n][i]}

Done(o, n) ==
    [loop EXCEPT ![o].late = IF HasResult(o, n) THEN @ + 1 ELSE @,
                 ![o].taken = @ \ {n},
                 ![o].heap = @ \ {n}]

-----------------------------------------------------------------------------
(***************************************************************************)
(* The parts of Run.  A DAG that does not validate has a result without    *)
(* node results.                                                           *)
(***************************************************************************)
Run(c, d, o) ==
    /\ phase[c] = "idle"
    /\ runs < MaxRuns
    /\ d \notin Invalid
    /\ AcquireDagResult(o)
    /\ dag' = [dag EXCEPT ![o].dag = d]
    /\ open' = open \cup {o}
    /\ result' = [result EXCEPT ![c] = o]
    /\ phase' = [phase EXCEPT ![c] = "run"]
    /\ runs' = runs + 1
    /\ executed' = [executed EXCEPT ![d] = @ + 1]
    /\ UNCHANGED <<node, nodePool, nodesMade, closed, aborted, loop, flight, stack, chain>>

RunRejected(c, d, o) ==
    /\ phase[c] = "idle"
    /\ runs < MaxRuns
    /\ d \in Invalid
    /\ AcquireDagResult(o)
    /\ dag' = [dag EXCEPT ![o].dag = d, ![o].status = "Failed"]
    /\ result' = [result EXCEPT ![c] = o]
    /\ phase' = [phase EXCEPT ![c] = "returned"]
    /\ runs' = runs + 1
    /\ UNCHANGED <<node, nodePool, nodesMade, loops, stack, hooks>>

(***************************************************************************)
(* Run returns when the loop of its DAG has ended and the workers are idle.*)
(* The loop of a subflow may still run: with the results that are in its   *)
(* doneCh, and nobody to send to.                                          *)
(***************************************************************************)
Return(c) ==
    /\ phase[c] = "run"
    /\ result[c] \notin open
    /\ phase' = [phase EXCEPT ![c] = "returned"]
    /\ LET left == {o \in open \ closed : Owner[dag[o].dag] = c} IN
          /\ closed' = closed \cup left
          /\ \E sent \in SUBSET UNION {Offers(o) : o \in left} :
                loop' = [o \in DagObjs |->
                            IF o \in left
                            THEN [loop[o] EXCEPT !.taken = @ \cup (sent \cap Offers(o)),
                                                 !.heap = @ \ sent]
                            ELSE loop[o]]
    /\ UNCHANGED <<objects, pools, open, aborted, flight, result, runs, stack, hooks>>

(***************************************************************************)
(* executeNode on a worker, up to the receipt of its result.  The fields   *)
(* that it does not assign keep what the pool's object holds.  A subflow   *)
(* ends here if its SubflowFn fails or returns no DAG.                     *)
(***************************************************************************)
Execute(o, n, p) ==
    /\ Runnable(o, n)
    /\ acquireNodeResult(p)
    /\ dag' = Recorded(o, n, p)
    /\ \/ /\ n \in MayFail
          /\ node' = [node EXCEPT ![p].status = "Failed"]
          /\ loop' = Done(o, n)
       \/ /\ n \in Conditional
          /\ node' = [node EXCEPT ![p].status = "Skipped", ![p].skip = "condition"]
          /\ loop' = Done(o, n)
       \/ /\ n \notin DOMAIN RouteMap
          /\ node' = [node EXCEPT ![p].status = "Success"]
          /\ loop' = Done(o, n)
       \/ /\ n \in DOMAIN RouteMap
          /\ \E i \in DOMAIN RouteMap[n] :
                /\ node' = [node EXCEPT ![p].status = "Success", ![p].route = i]
                /\ loop' = [Done(o, n) EXCEPT ![o].skip = Unselected(o, n, i)]
    /\ UNCHANGED <<dagPool, dagsMade, open, closed, aborted, flight, callers, hooks>>

(***************************************************************************)
(* A critical failure, just recorded, or the end of the context. The nodes *)
(* that no worker has taken are skipped.                                   *)
(***************************************************************************)
Abort(o) ==
    /\ Looping(o)
    /\ o \notin aborted
    /\ dag[o].dag \in MayAbort
    /\ aborted' = aborted \cup {o}
    /\ \E sent \in SUBSET Offers(o) :
          /\ o \in closed => sent = {}
          /\ LET taken == loop[o].taken \cup sent IN
                loop' = [loop EXCEPT ![o].skip = Unresolved(o) \ taken,
                                     ![o].taken = taken,
                                     ![o].heap = Offers(o) \ sent]
    /\ UNCHANGED <<objects, pools, open, closed, flight, callers, hooks>>

(***************************************************************************)
(* The loop skips nodes one by one: in between other goroutines may use the*)
(* pools.                                                                  *)
(***************************************************************************)
Skip(o, n, p) ==
    /\ n \in loop[o].skip
    /\ acquireNodeResult(p)
    /\ node' = [node EXCEPT ![p].status = "Skipped",
                            ![p].skip = IF o \in aborted THEN "abort" ELSE "route"]
    /\ dag' = Recorded(o, n, p)
    /\ loop' = [loop EXCEPT ![o].skip = @ \ {n}]
    /\ UNCHANGED <<dagPool, dagsMade, open, closed, aborted, flight, callers, hooks>>

(* A fault: what is sent to a loop that has ended is kept for its object.  *)
OrphanedNot(o, F) == F

(***************************************************************************)
(* When the loop of o is gone nobody receives what is still sent to it.    *)
(***************************************************************************)
Orphaned(o, F) == {[f EXCEPT !.parent = IF @ = o THEN None ELSE @] : f \in F}

Stops(o) ==
    /\ open' = open \ {o}
    /\ closed' = closed \ {o}
    /\ aborted' = aborted \ {o}

EndLoop(o) ==
    /\ o \in open
    /\ loop[o].skip = {}
    /\ ~Looping(o)
    /\ dag' = [dag EXCEPT ![o].status = IF o \in aborted THEN "Failed" ELSE "Success"]
    /\ Stops(o)
    /\ loop' = [loop EXCEPT ![o] = NewLoop]
    /\ flight' = Orphaned(o, flight)
    /\ UNCHANGED <<node, pools, callers, hooks>>

(* A fault: a DAG that is built anew finds the hooks of the one before it. *)
MergedWithTheLast(d, parent) == chain[d] \o parent

(***************************************************************************)
(* The hooks of d when it is executed under a DAG with the hooks parent:   *)
(* appended to those it has, which are more than its own if it is reused.  *)
(***************************************************************************)
Merged(d, parent) == (IF d \in Reused THEN chain[d] ELSE Hooks[d]) \o parent

BeginSubflow(o, n, p, q) ==
    /\ Runnable(o, n)
    /\ o \notin closed
    /\ Child[n] # None
    /\ acquireNodeResult(p)
    /\ AcquireDagResult(q)
    /\ node' = [node EXCEPT ![p].status = "Running"]
    /\ dag' = [dag EXCEPT ![q].dag = Child[n]]
    /\ open' = open \cup {q}
    /\ loop' = [loop EXCEPT ![o].taken = @ \ {n}, ![o].heap = @ \ {n}]
    /\ flight' = flight \cup {[nr |-> p, node |-> n, parent |-> o, child |-> q]}
    /\ chain' = [chain EXCEPT ![Child[n]] = Merged(Child[n], chain[dag[o].dag])]
    /\ executed' = [executed EXCEPT ![Child[n]] = @ + 1]
    /\ UNCHANGED <<closed, aborted, callers>>

(***************************************************************************)
(* The goroutine of a subflow sends its result, to a loop that receives it *)
(* or to nobody.                                                           *)
(***************************************************************************)
Heard(f) == f.parent = None \/ Looping(f.parent)

SentDag(f)  == IF f.parent = None THEN dag ELSE Recorded(f.parent, f.node, f.nr)
SentLoop(f) == IF f.parent = None THEN loop ELSE Done(f.parent, f.node)

EndSubflow(f) ==
    /\ f.child \notin open
    /\ Heard(f)
    /\ node' = [node EXCEPT ![f.nr].sub = f.child, ![f.nr].status = dag[f.child].status]
    /\ dag' = SentDag(f)
    /\ loop' = SentLoop(f)
    /\ flight' = flight \ {f}
    /\ UNCHANGED <<pools, open, closed, aborted, callers, hooks>>

(***************************************************************************)
(* The child's loop offers a task on the closed readyCh.                   *)
(***************************************************************************)
SubflowPanics(f) ==
    /\ f.child \in closed
    /\ Looping(f.child)
    /\ Offers(f.child) # {}
    /\ Heard(f)
    /\ node' = [node EXCEPT ![f.nr].status = "Panicked"]
    /\ dag' = SentDag(f)
    /\ Stops(f.child)
    /\ loop' = [SentLoop(f) EXCEPT ![f.child] = NewLoop]
    /\ flight' = Orphaned(f.child, flight \ {f})
    /\ UNCHANGED <<pools, callers, hooks>>

-----------------------------------------------------------------------------
(***************************************************************************)
(* ReleaseDagResult and the Resets it nests.  A Reset clears the fields of *)
(* its object first; what it refers to is released next, and the object    *)
(* goes to its pool last.  A reference to an object that was just put is   *)
(* cleared in the same step, since nobody else reads it.                   *)
(***************************************************************************)
ClearedDag(o) == [dag EXCEPT ![o].status = "Pending", ![o].dag = None]

(* A fault: Reset forgets RouteIndex.                                      *)
ClearedNodeButRoute(p) == [node EXCEPT ![p].status = "Pending", ![p].skip = "none"]

ClearedNode(p) ==
    [node EXCEPT ![p].status = "Pending", ![p].route = -1, ![p].skip = "none"]

Release(c) ==
    /\ phase[c] = "returned"
    /\ phase' = [phase EXCEPT ![c] = "release"]
    /\ stack' = [stack EXCEPT ![c] = <<result[c]>>]
    /\ dag' = ClearedDag(result[c])
    /\ UNCHANGED <<node, pools, loops, result, runs, hooks>>

(***************************************************************************)
(* The stack holds DagResults at odd and NodeResults at even depths.       *)
(***************************************************************************)
Depth(c)      == Len(stack[c])
Resetting(c)  == stack[c][Depth(c)]
InDag(c)      == phase[c] = "release" /\ Depth(c) % 2 = 1
InNode(c)     == phase[c] = "release" /\ Depth(c) % 2 = 0
Push(c, x)    == stack' = [stack EXCEPT ![c] = Append(@, x)]
Pop(c)        == stack' = [stack EXCEPT ![c] = SubSeq(@, 1, Depth(c) - 1)]

ResetNode(c) ==
    /\ InDag(c)
    /\ \E n \in Nodes :
          /\ HasResult(Resetting(c), n)
          /\ Push(c, dag[Resetting(c)].results[n])
          /\ node' = ClearedNode(dag[Resetting(c)].results[n])
    /\ UNCHANGED <<dag, pools, loops, result, phase, runs, hooks>>

ResetChild(c) ==
    /\ InNode(c)
    /\ node[Resetting(c)].sub # None
    /\ Push(c, node[Resetting(c)].sub)
    /\ dag' = ClearedDag(node[Resetting(c)].sub)
    /\ UNCHANGED <<node, pools, loops, result, phase, runs, hooks>>

PutNode(c) ==
    /\ InNode(c)
    /\ node[Resetting(c)].sub = None
    /\ nodePool' = [nodePool EXCEPT ![Resetting(c)] = @ + 1]
    /\ dag' = [dag EXCEPT ![stack[c][Depth(c) - 1]].results =
                  [n \in Nodes |-> IF @[n] = Resetting(c) THEN None ELSE @[n]]]
    /\ Pop(c)
    /\ UNCHANGED <<node, dagPool, nodesMade, dagsMade, loops, result, phase, runs, hooks>>

(* A fault: Reset leaves SubflowResult as it is, and goes on.              *)
PutChildStillHeld(c) ==
    /\ InDag(c)
    /\ Depth(c) > 1
    /\ \A n \in Nodes : ~HasResult(Resetting(c), n)
    /\ dagPool' = [dagPool EXCEPT ![Resetting(c)] = @ + 1]
    /\ Pop(c)
    /\ UNCHANGED <<node, dag, nodePool, nodesMade, dagsMade, loops, result, phase, runs, hooks>>

PutChild(c) ==
    /\ InDag(c)
    /\ Depth(c) > 1
    /\ \A n \in Nodes : ~HasResult(Resetting(c), n)
    /\ dagPool' = [dagPool EXCEPT ![Resetting(c)] = @ + 1]
    /\ node' = [node EXCEPT ![stack[c][Depth(c) - 1]].sub = None]
    /\ Pop(c)
    /\ UNCHANGED <<dag, nodePool, nodesMade, dagsMade, loops, result, phase, runs, hooks>>

PutRoot(c) ==
    /\ InDag(c)
    /\ Depth(c) = 1
    /\ \A n \in Nodes : ~HasResult(Resetting(c), n)
    /\ dagPool' = [dagPool EXCEPT ![Resetting(c)] = @ + 1]
    /\ result' = [result EXCEPT ![c] = None]
    /\ phase' = [phase EXCEPT ![c] = "idle"]
    /\ Pop(c)
    /\ UNCHANGED <<objects, nodePool, nodesMade, dagsMade, loops, runs, hooks>>

-----------------------------------------------------------------------------
RunStarts ==
    \E c \in Callers, o \in FreeDags : \E d \in Entries[c] :
        Run(c, d, o) \/ RunRejected(c, d, o)

LoopStep ==
    \E o \in open :
        \/ \E n \in NodesOf(o), p \in FreeNodes :
              \/ Execute(o, n, p)
              \/ Skip(o, n, p)
              \/ \E q \in FreeDags : BeginSubflow(o, n, p, q)
        \/ Abort(o)
        \/ EndLoop(o)

Goroutine == \E f \in flight : EndSubflow(f) \/ SubflowPanics(f)

ReleaseStep(c) ==
    Release(c) \/ ResetNode(c) \/ ResetChild(c) \/ PutNode(c) \/ PutChild(c) \/ PutRoot(c)

Next ==
    \/ RunStarts
    \/ LoopStep
    \/ Goroutine
    \/ \E c \in Callers : Return(c) \/ ReleaseStep(c)

Spec == Init /\ [][Next]_vars

-----------------------------------------------------------------------------
(* The type of every variable; an object that was never made is untouched. *)
TypeOK ==
    /\ node \in [NodeObjs -> [status : Statuses, route : Int, skip : Reasons,
                              sub : DagObjs \cup {None}]]
    /\ dag \in [DagObjs -> [status : Statuses, dag : Dags \cup {None},
                            results : [Nodes -> NodeObjs \cup {None}]]]
    /\ nodePool \in [NodeObjs -> Nat] /\ nodesMade \in 0..MaxNodes
    /\ dagPool \in [DagObjs -> Nat] /\ dagsMade \in 0..MaxDags
    /\ \A p \in NodeObjs : p > nodesMade => nodePool[p] = 0 /\ node[p] = NewNode
    /\ \A o \in DagObjs : o > dagsMade => dagPool[o] = 0 /\ dag[o] = NewDag
    /\ closed \subseteq open /\ aborted \subseteq open /\ open \subseteq DagObjs
    /\ loop \in [DagObjs -> [late : Nat, skip : SUBSET Nodes, taken : SUBSET Nodes,
                              heap : SUBSET Nodes]]
    /\ flight \subseteq [nr : NodeObjs, node : Nodes, parent : open \cup {None}, child : DagObjs]
    /\ result \in [Callers -> DagObjs \cup {None}]
    /\ phase \in [Callers -> {"idle", "run", "returned", "release"}]
    /\ runs \in 0..MaxRuns
    /\ DOMAIN stack = Callers
    /\ \A c \in Callers : (phase[c] = "release") = (stack[c] # <<>>)
    /\ DOMAIN chain = Dags
    /\ executed \in [Dags -> Nat]

(***************************************************************************)
(* What holds an object: a caller, a result, or the goroutine of a subflow.*)
(***************************************************************************)
NodeHolders(p) ==
    {<<"result", x>> : x \in {y \in DagObjs \X Nodes : dag[y[1]].results[y[2]] = p}}
    \cup {<<"flight", f.nr, f.child>> : f \in {g \in flight : g.nr = p}}

DagHolders(o) ==
    {<<"caller", c>> : c \in {x \in Callers : result[x] = o}}
    \cup {<<"result", p>> : p \in {x \in NodeObjs : node[x].sub = o}}
    \cup {<<"flight", f.nr>> : f \in {g \in flight : g.child = o}}

(***************************************************************************)
(* An object is in one place only: once in its pool, held by nobody and as *)
(* New would make it, or outside with one holder at most; whatever runs,   *)
(* returns and is released at the same time (result.go:117-150), as long as*)
(* every caller releases what it got, once.                                *)
(***************************************************************************)
PoolIsFree ==
    /\ \A p \in NodeObjs :
          /\ Cardinality(NodeHolders(p)) + nodePool[p] <= 1
          /\ nodePool[p] > 0 => node[p] = NewNode
    /\ \A o \in DagObjs :
          /\ Cardinality(DagHolders(o)) + dagPool[o] <= 1
          /\ dagPool[o] > 0 => dag[o] = NewDag

(***************************************************************************)
(* How often a hook is called for one event of a node of d.                *)
(***************************************************************************)
Copies(d, h) == Cardinality({i \in DOMAIN chain[d] : chain[d][i] = h})

Own(d) == {Hooks[d][i] : i \in DOMAIN Hooks[d]}

Called(d) == {chain[d][i] : i \in DOMAIN chain[d]}

Parents(d) == {Home[n] : n \in {m \in Nodes : Child[m] = d}}

(***************************************************************************)
(* DAGs that are built to be run once: a hook is given to one of them, and *)
(* each is the child of one other at most, never of one below it.          *)
(***************************************************************************)
DagsNested ==
    /\ \A d \in Dags : /\ Hooks[d] \in Seq(Own(d))
                       /\ \A i, j \in DOMAIN Hooks[d] : Hooks[d][i] = Hooks[d][j] => i = j
    /\ \A d, e \in Dags : d # e => Own(d) \cap Own(e) = {}
    /\ \A d \in Dags : \A e, g \in Parents(d) : e = g
    /\ \A c \in Callers : \A d \in Entries[c] : Parents(d) = {}
    /\ \A S \in SUBSET Dags : S # {} => \E d \in S : Parents(d) \cap S = {}

(***************************************************************************)
(* What happens in a DAG is told to its own hooks, each once, to those that*)
(* its parent tells, and to no others (engine.go:120-125): however often   *)
(* the DAGs are executed, and whether a SubflowFn builds its DAG anew or   *)
(* returns the same again.  One that is built anew tells each own hook of  *)
(* its parent once; if DagsNested.                                         *)
(***************************************************************************)
HooksInherited ==
    \A d \in Dags : executed[d] > 0 =>
        /\ Called(d) = Own(d) \cup UNION {Called(e) : e \in Parents(d)}
        /\ \A h \in Own(d) : Copies(d, h) = 1
        /\ d \notin Reused => \A e \in Parents(d) : \A h \in Own(e) : Copies(d, h) = 1

(***************************************************************************)
(* Running a reused child DAG again does not register the hooks of its     *)
(* parent again (docs/risk-and-performance-optimization.md:452).           *)
(***************************************************************************)
ParentHooksOnce ==
    \A d \in Dags : executed[d] > 0 =>
        \A e \in Parents(d) : \A h \in Own(e) : Copies(d, h) <= 1

(***************************************************************************)
(* The chain of a child is that of its parent, with the child's own hooks  *)
(* appended (docs/subflow-design.md:480-484).                              *)
(***************************************************************************)
ParentHooksFirst ==
    \A d \in Dags : executed[d] > 0 =>
        \A i, j \in DOMAIN chain[d] :
            chain[d][i] \in Own(d) /\ chain[d][j] \in UNION {Own(e) : e \in Parents(d)} => j < i
=================================================================================
