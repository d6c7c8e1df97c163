--------------------------- MODULE EventLoopProofs ---------------------------
(***************************************************************************)
(* Theorems about EventLoop for every graph, every pool size and, in the   *)
(* first part, every assignment of priorities.                             *)
(***************************************************************************)
EXTENDS EventLoop, FiniteSetTheorems, SequenceTheorems, TLAPS

-----------------------------------------------------------------------------
(* What the loop keeps true of the heap and of the task on offer.          *)

QueueInv ==
    /\ head = NoNode => ready = {}
    /\ head # NoNode => head \in ready
    /\ readySendCh <=> nextTask # NoNode
    /\ nextTask # NoNode => ready # {}

LEMMA NodesFinite ==
    /\ IsFiniteSet(Nodes)
    /\ Cardinality(Nodes) = N
    /\ \A S \in SUBSET Nodes : IsFiniteSet(S) /\ Cardinality(S) \in Nat
<1>1. IsFiniteSet(Nodes) /\ Cardinality(Nodes) = N
  BY FS_Interval, QueueAssumption DEF Nodes
<1>2. ASSUME NEW S \in SUBSET Nodes
      PROVE  IsFiniteSet(S) /\ Cardinality(S) \in Nat
  BY <1>1, FS_Subset, FS_CardinalityType
<1> QED BY <1>1, <1>2

LEMMA NodeType == Nodes \subseteq Nat \ {0} /\ NoNode \notin Nodes
  BY QueueAssumption DEF Nodes, NoNode

LEMMA OutcomeType ==
    /\ Skipped \in Outcome
    /\ NoResult \notin Outcome
    /\ \A n \in Nodes : Outcomes(n) \subseteq Outcome /\ ChildOutcomes(n) \subseteq Outcome
<1>1. NoRoute \in Int
  BY DEF NoRoute
<1>2. \A n \in Nodes : Routes(n) \subseteq Int
  BY <1>1, RouteAssumption DEF Routes
<1>3. \A n \in Nodes : Outcomes(n) \subseteq Outcome
  BY <1>1, <1>2 DEF Outcomes, Outcome, Skipped
<1>4. \A n \in Nodes : ChildOutcomes(n) \subseteq Outcome
  BY <1>1 DEF ChildOutcomes, Outcome
<1> QED BY <1>1, <1>3, <1>4 DEF Outcome, Skipped, NoResult

(***************************************************************************)
(* Whatever is pushed, the root of the heap is one of its nodes, and there *)
(* is none only if the heap is empty.                                      *)
(***************************************************************************)
LEMMA PushKeepsRoot ==
    ASSUME TypeOK, QueueInv, NEW S \in SUBSET Nodes, Enqueue(S)
    PROVE  /\ ready' \in SUBSET Nodes
           /\ ready \subseteq ready'
           /\ head' \in Nodes \cup {NoNode}
           /\ head' = NoNode => ready' = {}
           /\ head' # NoNode => head' \in ready'
<1>1. CASE head = NoNode /\ S = {}
  BY <1>1, NodeType DEF Enqueue, RootAfterPush, TypeOK, QueueInv
<1>2. CASE head = NoNode /\ S # {}
  BY <1>2, NodeType DEF Enqueue, RootAfterPush, Top, TypeOK, QueueInv
<1>3. CASE head # NoNode
  BY <1>3, NodeType DEF Enqueue, RootAfterPush, Top, TypeOK, QueueInv
<1> QED BY <1>1, <1>2, <1>3

LEMMA PopKeepsRoot ==
    ASSUME TypeOK, QueueInv, Dequeue
    PROVE  /\ ready' \in SUBSET Nodes
           /\ head' \in Nodes \cup {NoNode}
           /\ head' = NoNode => ready' = {}
           /\ head' # NoNode => head' \in ready'
  BY NodeType DEF Dequeue, RootAfterPop, Top, TypeOK, QueueInv

-----------------------------------------------------------------------------
LEMMA InitType == Init => TypeOK /\ QueueInv
<1> SUFFICES ASSUME Init PROVE TypeOK /\ QueueInv
  OBVIOUS
<1>1. pending \in [Nodes -> Nat]
  BY NodesFinite, GraphAssumption DEF Init
<1>2. ready \in SUBSET Nodes /\ head \in ready /\ head \in Nodes
  BY DEF Init, Top
<1>3. TypeOK
  <2>1. MaxWorkers \in Nat /\ results \in [Nodes -> Outcome \cup {NoResult}]
    BY NodeAssumption DEF Init
  <2>2. doneCh \in Seq(NodeResult)
    BY EmptySeq DEF Init
  <2>3. pending \in [Nodes -> Int] /\ runs \in [Nodes -> Nat]
    BY <1>1 DEF Init
  <2>4. idle \in Nat /\ completed \in Nat /\ running \in SUBSET Execution
    BY <2>1 DEF Init
  <2>5. nextTask \in Nodes /\ async \in SUBSET Execution /\ started \in SUBSET Nodes
    BY <1>2 DEF Init
  <2> QED BY <1>2, <2>1, <2>2, <2>3, <2>4, <2>5 DEF Init, TypeOK
<1>4. QueueInv
  BY <1>2, NodeType DEF Init, QueueInv
<1> QED BY <1>3, <1>4

LEMMA AbortType ==
    ASSUME TypeOK, NEW base \in [Nodes -> Outcome \cup {NoResult}], NEW count \in Nat,
           Abort(base, count)
    PROVE  /\ started' \in SUBSET Nodes
           /\ completed' \in Nat
           /\ results' \in [Nodes -> Outcome \cup {NoResult}]
           /\ dagFailed' = TRUE /\ nextTask' = NoNode
           /\ readySendCh' = FALSE /\ ctxDone' = FALSE
<1>1. Unresolved(base) \in SUBSET Nodes /\ Cardinality(Unresolved(base)) \in Nat
  BY NodesFinite DEF Unresolved
<1> QED BY <1>1, OutcomeType DEF Abort, TypeOK

LEMMA RecvType ==
    ASSUME TypeOK, doneCh # <<>>
    PROVE  /\ Head(doneCh) \in NodeResult
           /\ Tail(doneCh) \in Seq(NodeResult)
           /\ Recorded(Head(doneCh)) \in [Nodes -> Outcome \cup {NoResult}]
<1>1. Head(doneCh) \in NodeResult /\ Tail(doneCh) \in Seq(NodeResult)
  BY HeadTailProperties DEF TypeOK
<1> QED BY <1>1 DEF Recorded, NodeResult, TypeOK

LEMMA ReleaseType ==
    ASSUME TypeOK, NEW nr \in NodeResult, NEW skip \in SUBSET Nodes
    PROVE  /\ \A v \in Nodes : /\ Releases(nr, skip, v) \in SUBSET Nodes
                               /\ Cardinality(Releases(nr, skip, v)) \in Nat
           /\ Released(nr, skip) \in [Nodes -> Int]
<1>1. \A v \in Nodes : Releases(nr, skip, v) \in SUBSET Nodes
  BY DEF Releases, NodeResult
<1>2. \A v \in Nodes : Cardinality(Releases(nr, skip, v)) \in Nat
  BY <1>1, NodesFinite
<1> QED BY <1>1, <1>2 DEF Released, TypeOK

LEMMA StepType == TypeOK /\ QueueInv /\ [Next]_vars => TypeOK' /\ QueueInv'
<1> SUFFICES ASSUME TypeOK, QueueInv, [Next]_vars PROVE TypeOK' /\ QueueInv'
  OBVIOUS
<1> USE DEF schedVars, taskVars, bookVars, poolVars
<1>1. CASE Dispatch
  <2>1. nextTask \in Nodes /\ head \in Nodes
    BY <1>1 DEF Dispatch, QueueInv, TypeOK
  <2>2. /\ ready' \in SUBSET Nodes
        /\ head' \in Nodes \cup {NoNode}
        /\ head' = NoNode => ready' = {}
        /\ head' # NoNode => head' \in ready'
    BY <1>1, PopKeepsRoot DEF Dispatch
  <2>3. runs' \in [Nodes -> Nat] /\ running' \in SUBSET Execution
    BY <1>1, <2>1 DEF Dispatch, TypeOK, Execution
  <2>4. TypeOK'
    BY <1>1, <2>1, <2>2, <2>3 DEF Dispatch, TypeOK
  <2>5. QueueInv'
    BY <1>1, <2>2 DEF Dispatch, QueueInv
  <2> QED BY <2>4, <2>5
<1>2. CASE RecvCritical
  <2>1. /\ started' \in SUBSET Nodes
        /\ completed' \in Nat
        /\ results' \in [Nodes -> Outcome \cup {NoResult}]
        /\ dagFailed' = TRUE /\ nextTask' = NoNode
        /\ readySendCh' = FALSE /\ ctxDone' = FALSE
    <3>1. Abort(Recorded(Head(doneCh)), completed + 1) /\ completed + 1 \in Nat
      BY <1>2 DEF RecvCritical, TypeOK
    <3> QED BY <3>1, <1>2, RecvType, AbortType DEF RecvCritical
  <2>2. TypeOK'
    BY <1>2, <2>1, RecvType DEF RecvCritical, TypeOK
  <2>3. QueueInv'
    BY <1>2, <2>1 DEF RecvCritical, QueueInv
  <2> QED BY <2>2, <2>3
<1>3. CASE RecvPropagate
  <2> DEFINE nr == Head(doneCh)
             skip == Unselected(nr)
             new == {v \in Nodes \ started : pending[v] > 0 /\ pending'[v] <= 0}
  <2>1. nr \in NodeResult /\ Recorded(nr) \in [Nodes -> Outcome \cup {NoResult}]
    BY <1>3, RecvType DEF RecvPropagate
  <2>2. skip \in SUBSET Nodes /\ Cardinality(skip) \in Nat
    BY NodesFinite DEF Unselected, Down
  <2>3. pending' \in [Nodes -> Int]
    BY <1>3, <2>1, <2>2, ReleaseType DEF RecvPropagate
  <2>4. Enqueue(new) /\ new \in SUBSET Nodes
    BY <1>3 DEF RecvPropagate
  <2>5. /\ ready' \in SUBSET Nodes
        /\ ready \subseteq ready'
        /\ head' \in Nodes \cup {NoNode}
        /\ head' = NoNode => ready' = {}
        /\ head' # NoNode => head' \in ready'
    BY <2>4, PushKeepsRoot
  <2>6. started' \in SUBSET Nodes /\ completed' \in Nat
    BY <1>3, <2>2 DEF RecvPropagate, TypeOK
  <2>7. results' \in [Nodes -> Outcome \cup {NoResult}]
    BY <1>3, <2>1, <2>2, OutcomeType DEF RecvPropagate
  <2>8. TypeOK'
    BY <1>3, <2>3, <2>5, <2>6, <2>7, RecvType DEF RecvPropagate, Rearm, TypeOK
  <2>9. QueueInv'
    BY <1>3, <2>5 DEF RecvPropagate, Rearm, QueueInv
  <2> QED BY <2>8, <2>9
<1>4. CASE RecvAborted
  <2>1. /\ ready' \in SUBSET Nodes
        /\ ready \subseteq ready'
        /\ head' \in Nodes \cup {NoNode}
        /\ head' = NoNode => ready' = {}
        /\ head' # NoNode => head' \in ready'
    BY <1>4, PushKeepsRoot DEF RecvAborted
  <2>2. TypeOK'
    BY <1>4, <2>1, RecvType DEF RecvAborted, Rearm, TypeOK
  <2>3. QueueInv'
    BY <1>4, <2>1 DEF RecvAborted, Rearm, QueueInv
  <2> QED BY <2>2, <2>3
<1>5. CASE RecvCtxDone
  <2>1. /\ started' \in SUBSET Nodes
        /\ completed' \in Nat
        /\ results' \in [Nodes -> Outcome \cup {NoResult}]
        /\ dagFailed' = TRUE /\ nextTask' = NoNode
        /\ readySendCh' = FALSE /\ ctxDone' = FALSE
    BY <1>5, AbortType DEF RecvCtxDone, TypeOK
  <2>2. TypeOK'
    BY <1>5, <2>1 DEF RecvCtxDone, TypeOK
  <2>3. QueueInv'
    BY <1>5, <2>1 DEF RecvCtxDone, QueueInv
  <2> QED BY <2>2, <2>3
<1>6. CASE LoopEnds
  BY <1>6 DEF LoopEnds, TypeOK, QueueInv
<1>7. CASE RunReturns
  BY <1>7 DEF RunReturns, TypeOK, QueueInv
<1>8. ASSUME NEW e \in running, Worker(e)
      PROVE  TypeOK' /\ QueueInv'
  <2>1. e \in Execution /\ e[1] \in Nodes
    BY DEF TypeOK, Execution
  <2>2. CASE Launch(e)
    BY <2>1, <2>2 DEF Launch, TypeOK, QueueInv
  <2>3. ASSUME NEW out \in Outcomes(e[1]), Finish(e, out)
        PROVE  TypeOK' /\ QueueInv'
    <3>1. [node |-> e[1], out |-> out] \in NodeResult
      BY <2>1, OutcomeType DEF NodeResult
    <3>2. doneCh' \in Seq(NodeResult)
      BY <2>3, <3>1, AppendProperties DEF Finish, TypeOK
    <3> QED BY <2>3, <3>2 DEF Finish, TypeOK, QueueInv
  <2> QED BY <1>8, <2>2, <2>3 DEF Worker
<1>9. ASSUME NEW e \in async, NEW out \in ChildOutcomes(e[1]), ChildDone(e, out)
      PROVE  TypeOK' /\ QueueInv'
  <2>1. e \in Execution /\ e[1] \in Nodes
    BY DEF TypeOK, Execution
  <2>2. [node |-> e[1], out |-> out] \in NodeResult
    BY <2>1, OutcomeType DEF NodeResult
  <2>3. doneCh' \in Seq(NodeResult)
    BY <1>9, <2>2, AppendProperties DEF ChildDone, TypeOK
  <2> QED BY <1>9, <2>3 DEF ChildDone, TypeOK, QueueInv
<1>10. CASE WorkerExits
  BY <1>10 DEF WorkerExits, TypeOK, QueueInv
<1>11. CASE Cancel
  BY <1>11 DEF Cancel, TypeOK, QueueInv
<1>12. CASE UNCHANGED vars
  BY <1>12 DEF vars, TypeOK, QueueInv
<1> QED
  BY <1>1, <1>2, <1>3, <1>4, <1>5, <1>6, <1>7, <1>8, <1>9, <1>10, <1>11, <1>12
  DEF Next, Loop, Receive, Child, Quiescent

(***************************************************************************)
(* Every reachable state is well typed, whatever the priorities.           *)
(***************************************************************************)
THEOREM TypeCorrect == Spec => []TypeOK
<1>1. Spec => [](TypeOK /\ QueueInv)
  BY InitType, StepType, PTL DEF Spec
<1> QED BY <1>1, PTL
-----------------------------------------------------------------------------
(***************************************************************************)
(* While the DAG is not aborted a node of the heap is always on offer.     *)
(***************************************************************************)
LEMMA OfferStep ==
    TypeOK /\ QueueInv /\ (~dagFailed /\ ready # {} => readySendCh) /\ [Next]_vars
        => (~dagFailed /\ ready # {} => readySendCh)'
<1> SUFFICES ASSUME TypeOK, QueueInv, ~dagFailed /\ ready # {} => readySendCh, [Next]_vars,
                    ~dagFailed', ready' # {}
             PROVE  readySendCh'
  OBVIOUS
<1> USE DEF schedVars, taskVars, bookVars, poolVars
<1>1. CASE Dispatch
  BY <1>1, PopKeepsRoot DEF Dispatch
<1>2. CASE RecvPropagate
  <2>1. head' # NoNode
    <3> DEFINE new == {v \in Nodes \ started : pending[v] > 0 /\ pending'[v] <= 0}
    <3>1. Enqueue(new) /\ new \in SUBSET Nodes
      BY <1>2 DEF RecvPropagate
    <3> QED BY <3>1, PushKeepsRoot
  <2> QED BY <1>2, <2>1 DEF RecvPropagate, Rearm, QueueInv
<1>3. CASE RecvCritical \/ RecvCtxDone \/ RecvAborted
  BY <1>3 DEF RecvCritical, RecvCtxDone, RecvAborted, Abort
<1>4. CASE \/ LoopEnds \/ RunReturns \/ WorkerExits \/ Cancel \/ UNCHANGED vars
           \/ (\E e \in running : Worker(e)) \/ (\E e \in async : Child(e))
  BY <1>4 DEF LoopEnds, RunReturns, WorkerExits, Cancel, Worker, Child, Launch, Finish,
              ChildDone, vars
<1> QED BY <1>1, <1>2, <1>3, <1>4 DEF Next, Loop, Receive, Quiescent

(***************************************************************************)
(* No worker receives a nil task, commitDispatch always finds a node, and  *)
(* no wakeup is lost between the heap and the send case of the select.     *)
(***************************************************************************)
THEOREM OfferMatches == Spec => []OfferMatchesHeap
<1>1. Init => (~dagFailed /\ ready # {} => readySendCh)
  BY DEF Init
<1>2. Spec => [](TypeOK /\ QueueInv /\ (~dagFailed /\ ready # {} => readySendCh))
  BY <1>1, InitType, StepType, OfferStep, PTL DEF Spec
<1>3. QueueInv /\ (~dagFailed /\ ready # {} => readySendCh) => OfferMatchesHeap
  BY DEF QueueInv, OfferMatchesHeap
<1> QED BY <1>2, <1>3, PTL

-----------------------------------------------------------------------------
(***************************************************************************)
(* Every execution in flight and every node in the heap is paid for by a   *)
(* node whose dependency count has reached zero, and each node's count     *)
(* does so once: it never grows.                                           *)
(***************************************************************************)
Freed == {n \in Nodes : pending[n] <= 0}

CountInv ==
    /\ IsFiniteSet(running)
    /\ IsFiniteSet(async)
    /\ ready \subseteq Freed
    /\ Len(doneCh) + Cardinality(running) + Cardinality(async) + Cardinality(ready)
            <= Cardinality(Freed)

LEMMA AppendLength ==
    \A s \in Seq(NodeResult) : \A n \in Nodes : \A out \in Outcome :
        Len(Append(s, [node |-> n, out |-> out])) = Len(s) + 1
  BY AppendProperties DEF NodeResult

LEMMA OneMore ==
    ASSUME NEW S, IsFiniteSet(S), NEW x
    PROVE  /\ IsFiniteSet(S \cup {x})
           /\ Cardinality(S \cup {x}) \in Nat
           /\ Cardinality(S \cup {x}) <= Cardinality(S) + 1
<1>1. /\ IsFiniteSet(S \cup {x})
      /\ Cardinality(S \cup {x}) = IF x \in S THEN Cardinality(S) ELSE Cardinality(S) + 1
  BY FS_AddElement
<1>2. Cardinality(S) \in Nat
  BY FS_CardinalityType
<1> QED BY <1>1, <1>2

LEMMA DisjointUnion ==
    ASSUME NEW S, NEW T, IsFiniteSet(S), IsFiniteSet(T), S \cap T = {}
    PROVE  /\ IsFiniteSet(S \cup T)
           /\ Cardinality(S \cup T) = Cardinality(S) + Cardinality(T)
<1>1. /\ IsFiniteSet(S \cup T)
      /\ Cardinality(S \cup T) = Cardinality(S) + Cardinality(T) - Cardinality(S \cap T)
  BY FS_Union
<1>2. Cardinality(S \cap T) = 0
  BY FS_EmptySet
<1>3. Cardinality(S) \in Nat /\ Cardinality(T) \in Nat
  BY FS_CardinalityType
<1> QED BY <1>1, <1>2, <1>3

LEMMA FreedFinite ==
    /\ IsFiniteSet(Freed) /\ Cardinality(Freed) \in Nat /\ Cardinality(Freed) <= N
    /\ TypeOK => IsFiniteSet(ready) /\ Cardinality(ready) \in Nat
<1>1. Freed \in SUBSET Nodes
  BY DEF Freed
<1>2. Cardinality(Freed) <= N
  BY <1>1, NodesFinite, FS_Subset
<1> QED BY <1>1, <1>2, NodesFinite DEF TypeOK

LEMMA InitCount == Init => CountInv
<1> SUFFICES ASSUME Init PROVE CountInv
  OBVIOUS
<1>1. ready \subseteq Freed
  BY NodesFinite, GraphAssumption DEF Init, Freed
<1>2. Cardinality(ready) <= Cardinality(Freed) /\ Cardinality(ready) \in Nat
  BY <1>1, FreedFinite, FS_Subset, FS_CardinalityType
<1>3. /\ IsFiniteSet({}) /\ Cardinality({}) = 0
      /\ Len(doneCh) = 0 /\ running = {} /\ async = {}
  BY FS_EmptySet DEF Init
<1> QED BY <1>1, <1>2, <1>3 DEF CountInv

LEMMA StepCount == TypeOK /\ QueueInv /\ CountInv /\ [Next]_vars => CountInv'
<1> SUFFICES ASSUME TypeOK, QueueInv, CountInv, [Next]_vars PROVE CountInv'
  OBVIOUS
<1> USE DEF schedVars, taskVars, bookVars, poolVars
<1>0. /\ Len(doneCh) \in Nat
      /\ Cardinality(running) \in Nat /\ Cardinality(async) \in Nat
      /\ Cardinality(ready) \in Nat /\ Cardinality(Freed) \in Nat
      /\ IsFiniteSet(ready) /\ IsFiniteSet(Freed)
  BY FreedFinite, FS_CardinalityType, LenProperties DEF CountInv, TypeOK
<1>1. CASE Dispatch
  <2>1. head \in ready
    BY <1>1 DEF Dispatch, QueueInv
  <2>2. ready' = ready \ {head} /\ Cardinality(ready') = Cardinality(ready) - 1
    BY <1>0, <1>1, <2>1, FS_RemoveElement DEF Dispatch, Dequeue
  <2>3. IsFiniteSet(running') /\ Cardinality(running') <= Cardinality(running) + 1
    BY <1>1, OneMore DEF Dispatch, CountInv
  <2>4. Cardinality(running') \in Nat
    BY <2>3, FS_CardinalityType
  <2>5. Freed' = Freed
    BY <1>1 DEF Dispatch, Freed
  <2> QED BY <1>0, <1>1, <2>2, <2>3, <2>4, <2>5, SMTT(30) DEF Dispatch, CountInv
<1>2. CASE RecvCritical \/ RecvAborted
  <2>1. Freed' = Freed /\ ready' = ready
    BY <1>2 DEF RecvCritical, RecvAborted, Enqueue, Freed
  <2>2. Len(doneCh') = Len(doneCh) - 1
    BY <1>2, HeadTailProperties DEF RecvCritical, RecvAborted, TypeOK
  <2> QED BY <1>0, <1>2, <2>1, <2>2 DEF RecvCritical, RecvAborted, CountInv
<1>3. CASE RecvPropagate
  <2> DEFINE nr == Head(doneCh)
             skip == Unselected(nr)
             new == {v \in Nodes \ started : pending[v] > 0 /\ pending'[v] <= 0}
  <2>1. nr \in NodeResult /\ skip \in SUBSET Nodes
    BY <1>3, RecvType DEF RecvPropagate, Unselected, Down
  <2>2. \A v \in Nodes : pending'[v] \in Int /\ pending'[v] <= pending[v]
    <3>1. pending' = Released(nr, skip)
      BY <1>3 DEF RecvPropagate
    <3>2. \A v \in Nodes : Cardinality(Releases(nr, skip, v)) \in Nat
      BY <2>1, ReleaseType
    <3> QED BY <3>1, <3>2 DEF Released, TypeOK
  <2>3. new \in SUBSET Nodes /\ IsFiniteSet(new) /\ Cardinality(new) \in Nat
    BY NodesFinite
  <2>4. ready' = ready \cup new
    BY <1>3 DEF RecvPropagate, Enqueue
  <2>5. Freed \cap new = {} /\ ready \cap new = {}
    BY DEF Freed, CountInv, TypeOK
  <2>6. Freed \cup new \subseteq Freed'
    BY <2>2 DEF Freed, TypeOK
  <2>7. /\ IsFiniteSet(Freed \cup new)
        /\ Cardinality(Freed \cup new) = Cardinality(Freed) + Cardinality(new)
    BY <1>0, <2>3, <2>5, DisjointUnion
  <2>8. Cardinality(ready') = Cardinality(ready) + Cardinality(new)
    BY <1>0, <2>3, <2>4, <2>5, DisjointUnion
  <2>9. Cardinality(Freed') \in Nat /\ Cardinality(Freed \cup new) <= Cardinality(Freed')
    <3>1. Freed' \in SUBSET Nodes
      BY DEF Freed
    <3> QED BY <2>6, <3>1, NodesFinite, FS_Subset
  <2>10. Len(doneCh') = Len(doneCh) - 1 /\ running' = running /\ async' = async
    BY <1>3, HeadTailProperties DEF RecvPropagate, TypeOK
  <2>11. ready' \subseteq Freed'
    BY <2>4, <2>6 DEF CountInv
  <2> QED BY <1>0, <2>3, <2>7, <2>8, <2>9, <2>10, <2>11, SMTT(30) DEF CountInv
<1>4. ASSUME NEW e \in running, Worker(e)
      PROVE  CountInv'
  <2>1. Cardinality(running \ {e}) = Cardinality(running) - 1 /\ IsFiniteSet(running \ {e})
    BY <1>0, FS_RemoveElement DEF CountInv
  <2>2. CASE Launch(e)
    <3>1. IsFiniteSet(async') /\ Cardinality(async') <= Cardinality(async) + 1
      BY <2>2, OneMore DEF Launch, CountInv
    <3>2. Cardinality(async') \in Nat
      BY <3>1, FS_CardinalityType
    <3> QED BY <1>0, <2>1, <2>2, <3>1, <3>2, SMTT(30) DEF Launch, CountInv, Freed
  <2>3. ASSUME NEW out \in Outcomes(e[1]), Finish(e, out)
        PROVE  CountInv'
    <3>1. Len(doneCh') = Len(doneCh) + 1
      BY <2>3, AppendLength, OutcomeType DEF Finish, TypeOK, Execution
    <3> QED BY <1>0, <2>1, <2>3, <3>1 DEF Finish, CountInv, Freed
  <2> QED BY <1>4, <2>2, <2>3 DEF Worker
<1>5. ASSUME NEW e \in async, NEW out \in ChildOutcomes(e[1]), ChildDone(e, out)
      PROVE  CountInv'
  <2>1. Cardinality(async \ {e}) = Cardinality(async) - 1 /\ IsFiniteSet(async \ {e})
    BY <1>0, FS_RemoveElement DEF CountInv
  <2>2. Len(doneCh') = Len(doneCh) + 1
    BY <1>5, AppendLength, OutcomeType DEF ChildDone, TypeOK, Execution
  <2> QED BY <1>0, <1>5, <2>1, <2>2 DEF ChildDone, CountInv, Freed
<1>6. CASE RecvCtxDone \/ LoopEnds \/ RunReturns \/ WorkerExits \/ Cancel \/ UNCHANGED vars
  BY <1>6 DEF RecvCtxDone, LoopEnds, RunReturns, WorkerExits, Cancel, vars, CountInv, Freed
<1> QED
  BY <1>1, <1>2, <1>3, <1>4, <1>5, <1>6 DEF Next, Loop, Receive, Child, Quiescent

(***************************************************************************)
(* The capacity of doneCh is enough for any graph, any priorities and any  *)
(* pool: no worker and no subflow goroutine ever blocks on its send.       *)
(***************************************************************************)
THEOREM ResultsFit == Spec => []DoneChHasRoom
<1>1. Spec => [](TypeOK /\ QueueInv /\ CountInv)
  BY InitType, StepType, InitCount, StepCount, PTL DEF Spec
<1>2. TypeOK /\ CountInv => DoneChHasRoom
  <2> SUFFICES ASSUME TypeOK, CountInv PROVE DoneChHasRoom
    OBVIOUS
  <2>1. /\ Cardinality(running) \in Nat /\ Cardinality(async) \in Nat /\ Len(doneCh) \in Nat
        /\ Cardinality(ready) \in Nat /\ Cardinality(Freed) \in Nat
        /\ Cardinality(Freed) <= N /\ N \in Nat
    BY FreedFinite, FS_CardinalityType, LenProperties, QueueAssumption DEF CountInv, TypeOK
  <2> QED BY <2>1 DEF CountInv, DoneChHasRoom
<1> QED BY <1>1, <1>2, PTL
-----------------------------------------------------------------------------
(***************************************************************************)
(* From here on all priorities are equal: a node pushed while another is   *)
(* on offer never takes the root of the heap from it.                      *)
(***************************************************************************)
OfferInv ==
    /\ nextTask # NoNode => nextTask = head
    /\ \A n \in Nodes : runs[n] > 0 => n \in started /\ n \notin ready /\ pending[n] <= 0
    /\ ExecutedAtMostOnce

(***************************************************************************)
(* An execution in flight is in one place: with a worker, with its subflow *)
(* goroutine, or in doneCh.  Its node has no result, or a Skipped one that *)
(* an abort recorded before the execution began.                           *)
(***************************************************************************)
InFlight(n) ==
    \/ \E e \in running \cup async : e[1] = n
    \/ \E i \in 1..Len(doneCh) : doneCh[i].node = n

FlightInv ==
    /\ \A e \in running \cup async : e[2] = 1 /\ runs[e[1]] = 1
    /\ running \cap async = {}
    /\ \A i \in 1..Len(doneCh) :
          /\ runs[doneCh[i].node] = 1
          /\ \A e \in running \cup async : e[1] # doneCh[i].node
          /\ \A j \in 1..Len(doneCh) : i # j => doneCh[i].node # doneCh[j].node
    /\ \A n \in Nodes : HasResult(n) /\ (InFlight(n) \/ n \in ready) =>
          dagFailed /\ results[n] = Skipped

(***************************************************************************)
(* Until an abort the counts are exact.                                    *)
(***************************************************************************)
Missing(v) == {u \in Deps[v] : ~HasResult(u)}

OrderInv ==
    /\ \A n \in Nodes : n \in ready \/ runs[n] > 0 => Missing(n) = {}
    /\ ~dagFailed =>
         /\ \A v \in Nodes \ started : pending[v] = Cardinality(Missing(v))
         /\ \A n \in Nodes : HasResult(n) => n \in started
         /\ \A n \in Critical : results[n].status # "Failed"
         /\ completed = Cardinality({n \in Nodes : HasResult(n)})
         /\ ready \cap started = {}
    /\ phase # "loop" => completed >= N

IndInv == TypeOK /\ QueueInv /\ CountInv /\ OfferInv /\ FlightInv /\ OrderInv

LEMMA SteadyRoot ==
    ASSUME UniformPriority, TypeOK, head # NoNode, NEW S \in SUBSET Nodes, Enqueue(S)
    PROVE  head' = head
<1>1. head \in Nodes
  BY DEF TypeOK
<1>2. \A n \in S : Prio[n] <= Prio[head]
  BY <1>1, QueueAssumption DEF UniformPriority
<1> QED BY <1>2 DEF Enqueue, RootAfterPush

LEMMA PendingFalls ==
    ASSUME TypeOK, RecvPropagate
    PROVE  \A v \in Nodes : pending'[v] \in Int /\ pending'[v] <= pending[v]
<1> DEFINE nr == Head(doneCh)
           skip == Unselected(nr)
<1>1. nr \in NodeResult /\ skip \in SUBSET Nodes
  BY RecvType DEF RecvPropagate, Unselected, Down
<1>2. pending' = Released(nr, skip)
  BY DEF RecvPropagate
<1>3. \A v \in Nodes : Cardinality(Releases(nr, skip, v)) \in Nat
  BY <1>1, ReleaseType
<1> QED BY <1>2, <1>3 DEF Released, TypeOK

LEMMA StepOffer ==
    UniformPriority /\ TypeOK /\ QueueInv /\ CountInv /\ OfferInv /\ [Next]_vars => OfferInv'
<1> SUFFICES ASSUME UniformPriority, TypeOK, QueueInv, CountInv, OfferInv, [Next]_vars
             PROVE  OfferInv'
  OBVIOUS
<1> USE DEF schedVars, taskVars, bookVars, poolVars
<1>1. CASE Dispatch
  <2>1. nextTask = head /\ head \in ready /\ head \in Nodes
    BY <1>1 DEF Dispatch, OfferInv, QueueInv, TypeOK
  <2>2. runs[head] = 0 /\ pending[head] <= 0
    BY <2>1 DEF OfferInv, CountInv, Freed, TypeOK
  <2>3. \A n \in Nodes : runs'[n] = IF n = head THEN 1 ELSE runs[n]
    BY <1>1, <2>1, <2>2 DEF Dispatch, TypeOK
  <2>4. ready' = ready \ {head} /\ started' = started \cup {head} /\ pending' = pending
    BY <1>1 DEF Dispatch, Dequeue
  <2> QED BY <1>1, <2>1, <2>2, <2>3, <2>4 DEF Dispatch, OfferInv, ExecutedAtMostOnce
<1>2. CASE RecvPropagate
  <2> DEFINE new == {v \in Nodes \ started : pending[v] > 0 /\ pending'[v] <= 0}
  <2>1. Enqueue(new) /\ new \in SUBSET Nodes /\ ready' = ready \cup new
    BY <1>2 DEF RecvPropagate, Enqueue
  <2>2. nextTask' # NoNode => nextTask' = head'
    BY <1>2, <2>1, SteadyRoot DEF RecvPropagate, Rearm, OfferInv, QueueInv, TypeOK
  <2>3. runs' = runs /\ started \subseteq started'
    BY <1>2 DEF RecvPropagate
  <2>4. \A n \in Nodes : runs[n] > 0 => n \notin new /\ pending'[n] <= 0
    BY <1>2, PendingFalls DEF OfferInv, TypeOK
  <2> QED BY <2>1, <2>2, <2>3, <2>4 DEF OfferInv, ExecutedAtMostOnce
<1>3. CASE RecvAborted
  <2>1. Enqueue({}) /\ ready' = ready
    BY <1>3 DEF RecvAborted, Enqueue
  <2>2. nextTask' # NoNode => nextTask' = head'
    BY <1>3, <2>1, SteadyRoot DEF RecvAborted, Rearm, OfferInv, QueueInv, TypeOK
  <2> QED BY <1>3, <2>1, <2>2 DEF RecvAborted, OfferInv, ExecutedAtMostOnce
<1>4. CASE RecvCritical \/ RecvCtxDone
  BY <1>4 DEF RecvCritical, RecvCtxDone, Abort, OfferInv, ExecutedAtMostOnce
<1>5. CASE \/ LoopEnds \/ RunReturns \/ WorkerExits \/ Cancel \/ UNCHANGED vars
           \/ (\E e \in running : Worker(e)) \/ (\E e \in async : Child(e))
  BY <1>5 DEF LoopEnds, RunReturns, WorkerExits, Cancel, Worker, Child, Launch, Finish,
              ChildDone, vars, OfferInv, ExecutedAtMostOnce
<1> QED BY <1>1, <1>2, <1>3, <1>4, <1>5 DEF Next, Loop, Receive, Quiescent

LEMMA InitUniform == Init => OfferInv /\ FlightInv /\ OrderInv
<1> SUFFICES ASSUME Init PROVE OfferInv /\ FlightInv /\ OrderInv
  OBVIOUS
<1>1. OfferInv
  BY DEF Init, OfferInv, ExecutedAtMostOnce
<1>2. \A n \in Nodes : ~HasResult(n)
  BY DEF Init, HasResult
<1>3. FlightInv
  BY <1>2, EmptySeq DEF Init, FlightInv
<1>4. \A v \in Nodes : Missing(v) = Deps[v] /\ Deps[v] \in SUBSET Nodes
  BY <1>2, GraphAssumption DEF Missing
<1>5. \A n \in ready : Missing(n) = {}
  BY <1>4, NodesFinite, FS_EmptySet DEF Init
<1>6. Cardinality({n \in Nodes : HasResult(n)}) = 0
  BY <1>2, FS_EmptySet
<1>7. \A v \in Nodes : pending[v] = Cardinality(Missing(v))
  BY <1>4 DEF Init
<1>8. \A n \in Nodes : results[n].status # "Failed"
  BY DEF Init, NoResult
<1>9. OrderInv
  BY <1>2, <1>5, <1>6, <1>7, <1>8, NodeAssumption DEF Init, OrderInv
<1> QED BY <1>1, <1>3, <1>9

-----------------------------------------------------------------------------
(***************************************************************************)
(* What the receive of a result finds: its node is in no other place, and  *)
(* is missed by every node downstream of it.                               *)
(***************************************************************************)
LEMMA TailProperties ==
    ASSUME TypeOK, doneCh # <<>>
    PROVE  /\ Len(doneCh) \in Nat /\ Len(doneCh) >= 1
           /\ Head(doneCh) = doneCh[1]
           /\ Len(Tail(doneCh)) = Len(doneCh) - 1
           /\ \A i \in 1..Len(Tail(doneCh)) : Tail(doneCh)[i] = doneCh[i + 1]
  BY EmptySeq, HeadTailProperties, LenProperties DEF TypeOK

LEMMA ReceivedOnce ==
    ASSUME TypeOK, OfferInv, FlightInv, doneCh # <<>>
    PROVE  LET m == Head(doneCh).node IN
           /\ m \in Nodes
           /\ runs[m] = 1 /\ m \in started /\ m \notin ready
           /\ ~dagFailed => ~HasResult(m)
           /\ HasResult(m) => results[m] = Skipped
           /\ \A e \in running \cup async : e[1] # m
           /\ \A i \in 1..Len(Tail(doneCh)) : Tail(doneCh)[i].node # m
<1> DEFINE m == Head(doneCh).node
<1>1. m \in Nodes
  BY RecvType DEF NodeResult
<1>2. m = doneCh[1].node /\ 1 \in 1..Len(doneCh) /\ Len(doneCh) \in Nat
  BY TailProperties
<1>3. runs[m] = 1 /\ \A e \in running \cup async : e[1] # m
  BY <1>2 DEF FlightInv
<1>4. m \in started /\ m \notin ready
  BY <1>1, <1>3 DEF OfferInv
<1>5. HasResult(m) => dagFailed /\ results[m] = Skipped
  BY <1>1, <1>2 DEF FlightInv, InFlight
<1>6. ASSUME NEW i \in 1..Len(Tail(doneCh))
      PROVE  Tail(doneCh)[i].node # m
  <2>1. i + 1 \in 1..Len(doneCh) /\ i + 1 # 1 /\ Tail(doneCh)[i] = doneCh[i + 1]
    BY TailProperties
  <2> QED BY <1>2, <2>1 DEF FlightInv
<1> QED BY <1>1, <1>3, <1>4, <1>5, <1>6

LEMMA Difference ==
    ASSUME NEW A \in SUBSET Nodes, NEW B \in SUBSET A
    PROVE  /\ Cardinality(A \ B) = Cardinality(A) - Cardinality(B)
           /\ Cardinality(A) \in Nat /\ Cardinality(B) \in Nat
<1>1. IsFiniteSet(A \ B) /\ IsFiniteSet(B) /\ (A \ B) \cap B = {} /\ (A \ B) \cup B = A
  BY NodesFinite
<1>2. Cardinality(A) = Cardinality(A \ B) + Cardinality(B)
  BY <1>1, DisjointUnion
<1> QED BY <1>1, <1>2, NodesFinite, FS_CardinalityType

(***************************************************************************)
(* Propagation keeps the counts exact, frees only nodes that miss nothing, *)
(* and skips no node that is in the heap or on its way there.              *)
(***************************************************************************)
LEMMA PropagateExact ==
    ASSUME TypeOK, OfferInv, FlightInv, OrderInv, RecvPropagate
    PROVE  LET nr   == Head(doneCh)
               skip == Unselected(nr)
               new  == {v \in Nodes \ started : pending[v] > 0 /\ pending'[v] <= 0}
           IN /\ skip \in SUBSET (Nodes \ started)
              /\ \A v \in skip : v \notin ready /\ pending'[v] > 0
              /\ \A v \in (Nodes \ started) \ skip :
                    /\ Missing(v)' = Missing(v) \ (skip \cup {nr.node})
                    /\ pending'[v] = Cardinality(Missing(v)')
              /\ \A v \in new : v \notin skip /\ Missing(v)' = {}
<1> DEFINE nr   == Head(doneCh)
           skip == Unselected(nr)
           new  == {v \in Nodes \ started : pending[v] > 0 /\ pending'[v] <= 0}
<1>1. /\ nr.node \in Nodes /\ nr.node \in started
      /\ ~HasResult(nr.node) /\ nr.out \in Outcome
  BY ReceivedOnce, RecvType DEF RecvPropagate, NodeResult
<1>2. skip \in SUBSET (Nodes \ started) /\ skip \subseteq Down(nr.node)
  BY DEF Unselected, Down
<1>3. \A u \in Nodes \ started : ~HasResult(u)
  BY DEF OrderInv, RecvPropagate
<1>4. \A v \in Nodes : Missing(v) \in SUBSET Nodes
  BY GraphAssumption DEF Missing
<1>5. \A v \in Nodes \ started : pending[v] = Cardinality(Missing(v))
  BY DEF OrderInv, RecvPropagate
<1>6. \A v \in Nodes \ started :
        pending'[v] = pending[v] - Cardinality(Releases(nr, skip, v))
  BY DEF RecvPropagate, Released
<1>7. \A u \in Nodes : results'[u] # NoResult <=> HasResult(u) \/ u = nr.node \/ u \in skip
  BY <1>1, OutcomeType DEF RecvPropagate, Recorded, HasResult, TypeOK
<1>8. ASSUME NEW v \in skip
      PROVE  v \notin ready /\ pending'[v] > 0
  <2>1. v \in Nodes \ started /\ nr.node \in Missing(v)
    BY <1>1, <1>2 DEF Down, Missing
  <2>2. v \notin ready
    BY <2>1 DEF OrderInv
  <2>3. Releases(nr, skip, v) \subseteq Missing(v) \ {nr.node}
    BY <1>1, <1>2, <1>3 DEF Releases, Missing
  <2>4. /\ Cardinality(Missing(v) \ {nr.node}) = Cardinality(Missing(v)) - 1
        /\ Cardinality(Missing(v)) \in Nat
    BY <1>4, <2>1, NodesFinite, FS_RemoveElement
  <2>5. /\ Cardinality(Releases(nr, skip, v)) <= Cardinality(Missing(v) \ {nr.node})
        /\ Cardinality(Releases(nr, skip, v)) \in Nat
    <3>1. Missing(v) \ {nr.node} \in SUBSET Nodes
      BY <1>4, <2>1
    <3> QED BY <2>3, <3>1, NodesFinite, FS_Subset
  <2> QED BY <1>5, <1>6, <2>1, <2>2, <2>4, <2>5
<1>9. ASSUME NEW v \in (Nodes \ started) \ skip
      PROVE  /\ Missing(v)' = Missing(v) \ (skip \cup {nr.node})
             /\ pending'[v] = Cardinality(Missing(v)')
  <2>1. Missing(v)' = Missing(v) \ (skip \cup {nr.node})
    BY <1>7, GraphAssumption DEF Missing, HasResult
  <2>2. Releases(nr, skip, v) = (skip \cup {nr.node}) \cap Deps[v]
    BY DEF Releases
  <2>3. Releases(nr, skip, v) \in SUBSET Missing(v)
    BY <1>1, <1>2, <1>3, <2>2 DEF Missing
  <2>4. Missing(v)' = Missing(v) \ Releases(nr, skip, v)
    BY <2>1, <2>2 DEF Missing
  <2>5. Cardinality(Missing(v)') = Cardinality(Missing(v)) - Cardinality(Releases(nr, skip, v))
    BY <1>4, <2>3, <2>4, Difference
  <2> QED BY <1>5, <1>6, <2>1, <2>5
<1>10. ASSUME NEW v \in new
       PROVE  v \notin skip /\ Missing(v)' = {}
  <2>1. v \notin skip
    BY <1>8, PendingFalls DEF TypeOK
  <2>2. Missing(v)' \in SUBSET Nodes /\ Cardinality(Missing(v)') <= 0
    BY <1>4, <1>9, <2>1
  <2> QED BY <2>1, <2>2, NodesFinite, FS_EmptySet
<1> QED BY <1>2, <1>8, <1>9, <1>10

(***************************************************************************)
(* A receive takes the node of the result out of flight, and no other.     *)
(***************************************************************************)
PlacesInv ==
    /\ \A e \in running \cup async : e[2] = 1 /\ runs[e[1]] = 1
    /\ running \cap async = {}
    /\ \A i \in 1..Len(doneCh) :
          /\ runs[doneCh[i].node] = 1
          /\ \A e \in running \cup async : e[1] # doneCh[i].node
          /\ \A j \in 1..Len(doneCh) : i # j => doneCh[i].node # doneCh[j].node

LEMMA FlightAfterReceive ==
    ASSUME TypeOK, OfferInv, FlightInv, doneCh # <<>>, doneCh' = Tail(doneCh),
           running' = running, async' = async, runs' = runs
    PROVE  /\ PlacesInv'
           /\ \A n \in Nodes : InFlight(n)' => InFlight(n) /\ n # Head(doneCh).node
<1>1. /\ Len(doneCh) \in Nat
      /\ Len(Tail(doneCh)) = Len(doneCh) - 1
      /\ \A i \in 1..Len(Tail(doneCh)) : Tail(doneCh)[i] = doneCh[i + 1]
  BY TailProperties
<1>2. \A i \in 1..Len(doneCh') : i + 1 \in 1..Len(doneCh) /\ doneCh'[i] = doneCh[i + 1]
  BY <1>1
<1>3. \A i, j \in 1..Len(doneCh') : i # j => i + 1 # j + 1
  BY <1>1
<1>4. PlacesInv'
  BY <1>2, <1>3 DEF PlacesInv, FlightInv
<1>5. ASSUME NEW n \in Nodes, InFlight(n)'
      PROVE  InFlight(n) /\ n # Head(doneCh).node
  BY <1>2, <1>5, ReceivedOnce DEF InFlight
<1> QED BY <1>4, <1>5

(***************************************************************************)
(* A result that is sent moves an execution from the worker, or from its   *)
(* goroutine, to the end of doneCh.                                        *)
(***************************************************************************)
LEMMA FlightAfterSend ==
    ASSUME TypeOK, FlightInv, NEW e \in running \cup async, NEW out \in Outcome,
           doneCh' = Append(doneCh, [node |-> e[1], out |-> out]),
           running' \cup async' = (running \cup async) \ {e},
           running' \subseteq running, async' \subseteq async, runs' = runs
    PROVE  /\ PlacesInv'
           /\ \A n \in Nodes : InFlight(n)' => InFlight(n)
<1> DEFINE r == [node |-> e[1], out |-> out]
<1>1. e \in Execution /\ e[1] \in Nodes /\ r \in NodeResult
  BY DEF TypeOK, Execution, NodeResult
<1>2. /\ Len(doneCh) \in Nat /\ Len(doneCh') = Len(doneCh) + 1
      /\ \A i \in 1..Len(doneCh) : doneCh'[i] = doneCh[i]
      /\ doneCh'[Len(doneCh) + 1] = r
  BY <1>1, AppendProperties, LenProperties DEF TypeOK
<1>3. \A i \in 1..Len(doneCh') : i \in 1..Len(doneCh) \/ i = Len(doneCh) + 1
  BY <1>2
<1>4. \A f \in running' \cup async' : f[1] # e[1]
  <2>1. ASSUME NEW f \in running \cup async, f[1] = e[1]
        PROVE  f = e
    <3>1. f[2] = 1 /\ e[2] = 1 /\ f \in Nodes \X Nat
      BY DEF FlightInv, TypeOK, Execution
    <3> QED BY <1>1, <2>1, <3>1 DEF Execution
  <2> QED BY <2>1
<1>5. \A i \in 1..Len(doneCh) : doneCh[i].node # e[1]
  BY DEF FlightInv
<1>6. r.node = e[1] /\ runs[e[1]] = 1
  BY DEF FlightInv
<1>7. PlacesInv'
  <2>1. \A i \in 1..Len(doneCh') :
          /\ runs'[doneCh'[i].node] = 1
          /\ \A f \in running' \cup async' : f[1] # doneCh'[i].node
    BY <1>2, <1>3, <1>4, <1>6 DEF FlightInv
  <2>2. \A i, j \in 1..Len(doneCh') : i # j => doneCh'[i].node # doneCh'[j].node
    BY <1>2, <1>3, <1>5, <1>6 DEF FlightInv
  <2> QED BY <2>1, <2>2 DEF PlacesInv, FlightInv
<1>8. ASSUME NEW n \in Nodes, InFlight(n)'
      PROVE  InFlight(n)
  BY <1>2, <1>3, <1>6, <1>8 DEF InFlight
<1> QED BY <1>7, <1>8

LEMMA StepFlight ==
    UniformPriority /\ IndInv /\ [Next]_vars => FlightInv'
<1> SUFFICES ASSUME UniformPriority, IndInv, [Next]_vars
             PROVE  FlightInv'
  OBVIOUS
<1> USE DEF schedVars, taskVars, bookVars, poolVars, IndInv
<1> DEFINE Lost(n) == HasResult(n) /\ (InFlight(n) \/ n \in ready)
                        => dagFailed /\ results[n] = Skipped
<1>0. SUFFICES PlacesInv' /\ \A n \in Nodes : Lost(n)'
  BY DEF FlightInv, PlacesInv
<1>a. PlacesInv /\ \A n \in Nodes : Lost(n)
  BY DEF FlightInv, PlacesInv
<1>b. \A e \in running \cup async : e[2] = 1 /\ runs[e[1]] = 1
  BY <1>a DEF PlacesInv
<1>1. CASE Dispatch
  <2>1. nextTask = head /\ head \in ready /\ head \in Nodes
    BY <1>1 DEF Dispatch, OfferInv, QueueInv, TypeOK
  <2>2. runs[head] = 0
    BY <2>1 DEF OfferInv, TypeOK
  <2>3. \A n \in Nodes : runs'[n] = IF n = head THEN 1 ELSE runs[n]
    BY <1>1, <2>1, <2>2 DEF Dispatch, TypeOK
  <2>4. /\ running' = running \cup {<<head, 1>>} /\ ready' \subseteq ready
        /\ async' = async /\ doneCh' = doneCh /\ results' = results /\ dagFailed' = dagFailed
    BY <1>1, <2>1, <2>2 DEF Dispatch, Dequeue
  <2>5. /\ \A e \in running \cup async : e[1] # head /\ e[1] \in Nodes
        /\ \A i \in 1..Len(doneCh) : doneCh[i].node # head /\ doneCh[i].node \in Nodes
    <3>1. \A e \in running \cup async : e[1] # head
      BY <1>b, <2>2
    <3>2. \A e \in running \cup async : e[1] \in Nodes
      BY DEF TypeOK, Execution
    <3>3. ASSUME NEW i \in 1..Len(doneCh)
          PROVE  doneCh[i].node # head /\ doneCh[i].node \in Nodes
      <4>1. doneCh[i] \in NodeResult
        BY ElementOfSeq DEF TypeOK
      <4>2. runs[doneCh[i].node] = 1
        BY DEF FlightInv
      <4> QED BY <2>2, <4>1, <4>2 DEF NodeResult
    <3> QED BY <3>1, <3>2, <3>3
  <2>6. PlacesInv'
    <3>1. \A e \in running' \cup async' : e[2] = 1 /\ runs'[e[1]] = 1
      <4>1. ASSUME NEW e \in running \cup async PROVE e[2] = 1 /\ runs'[e[1]] = 1
        BY <1>b, <2>3, <2>5
      <4>2. <<head, 1>>[2] = 1 /\ runs'[<<head, 1>>[1]] = 1
        BY <2>1, <2>3
      <4> QED BY <2>4, <4>1, <4>2
    <3>2. running' \cap async' = {}
      BY <2>4, <2>5 DEF FlightInv
    <3>3. \A i \in 1..Len(doneCh') :
            /\ runs'[doneCh'[i].node] = 1
            /\ \A e \in running' \cup async' : e[1] # doneCh'[i].node
            /\ \A j \in 1..Len(doneCh') : i # j => doneCh'[i].node # doneCh'[j].node
      BY <2>3, <2>4, <2>5 DEF FlightInv
    <3> QED BY <3>1, <3>2, <3>3 DEF PlacesInv
  <2>7. ASSUME NEW n \in Nodes PROVE Lost(n)'
    BY <1>a, <2>1, <2>4 DEF InFlight, HasResult
  <2> QED BY <2>6, <2>7
<1>2. CASE RecvPropagate
  <2> DEFINE nr == Head(doneCh)
             skip == Unselected(nr)
             new == {v \in Nodes \ started : pending[v] > 0 /\ pending'[v] <= 0}
  <2>1. PlacesInv' /\ \A n \in Nodes : InFlight(n)' => InFlight(n) /\ n # nr.node
    BY <1>2, FlightAfterReceive DEF RecvPropagate
  <2>2. nr.node \in Nodes /\ nr.node \in started /\ nr.node \notin ready /\ ~dagFailed
    BY <1>2, ReceivedOnce DEF RecvPropagate
  <2>3. /\ skip \in SUBSET (Nodes \ started)
        /\ \A v \in skip : v \notin ready
        /\ \A v \in new : v \notin skip
    BY <1>2, PropagateExact
  <2>4. ready' = ready \cup new /\ nr.node \notin new
    BY <1>2, <2>2 DEF RecvPropagate, Enqueue
  <2>5. \A n \in skip : ~InFlight(n)
    BY <2>3, ElementOfSeq DEF InFlight, FlightInv, OfferInv, TypeOK, Execution, NodeResult
  <2>6. \A n \in Nodes \ skip : n # nr.node => results'[n] = results[n]
    BY <1>2 DEF RecvPropagate, Recorded, TypeOK
  <2>7. \A n \in new : ~HasResult(n)
    BY <2>2 DEF OrderInv
  <2>8. ASSUME NEW n \in Nodes, HasResult(n)', InFlight(n)' \/ n \in ready'
        PROVE  FALSE
    <3>1. n # nr.node
      BY <2>1, <2>2, <2>4, <2>8
    <3>2. n \notin skip
      BY <2>1, <2>3, <2>4, <2>5, <2>8
    <3>3. HasResult(n)
      BY <2>6, <2>8, <3>1, <3>2 DEF HasResult
    <3>4. InFlight(n) \/ n \in ready
      BY <2>1, <2>4, <2>7, <2>8, <3>3
    <3> QED BY <1>a, <2>2, <3>3, <3>4
  <2> QED BY <2>1, <2>8
<1>3. CASE RecvAborted
  <2>1. PlacesInv' /\ \A n \in Nodes : InFlight(n)' => InFlight(n) /\ n # Head(doneCh).node
    BY <1>3, FlightAfterReceive DEF RecvAborted
  <2>2. Head(doneCh).node \notin ready /\ ready' = ready
    BY <1>3, ReceivedOnce DEF RecvAborted, Enqueue
  <2>3. \A n \in Nodes : n # Head(doneCh).node => results'[n] = results[n]
    BY <1>3 DEF RecvAborted, Recorded, TypeOK
  <2> QED BY <1>3, <1>a, <2>1, <2>2, <2>3 DEF RecvAborted, HasResult
<1>4. CASE RecvCritical
  <2>1. PlacesInv' /\ \A n \in Nodes : InFlight(n)' => InFlight(n) /\ n # Head(doneCh).node
    BY <1>4, FlightAfterReceive DEF RecvCritical
  <2>2. Head(doneCh).node \notin ready /\ ready' = ready /\ dagFailed' = TRUE
    BY <1>4, ReceivedOnce DEF RecvCritical, Abort
  <2>3. \A n \in Nodes : n # Head(doneCh).node => results'[n] \in {results[n], Skipped}
    BY <1>4 DEF RecvCritical, Abort, Recorded, TypeOK
  <2> QED BY <1>4, <1>a, <2>1, <2>2, <2>3 DEF HasResult
<1>5. CASE RecvCtxDone
  <2>1. \A n \in Nodes : results'[n] \in {results[n], Skipped}
    BY <1>5 DEF RecvCtxDone, Abort, TypeOK
  <2>2. /\ dagFailed' = TRUE /\ ready' = ready /\ runs' = runs
        /\ running' = running /\ async' = async /\ doneCh' = doneCh
    BY <1>5 DEF RecvCtxDone, Abort
  <2> QED BY <1>a, <2>1, <2>2 DEF PlacesInv, InFlight, HasResult
<1>6. ASSUME NEW e \in running, Worker(e)
      PROVE  PlacesInv' /\ \A n \in Nodes : Lost(n)'
  <2>1. CASE Launch(e)
    BY <1>a, <2>1 DEF Launch, PlacesInv, InFlight, HasResult
  <2>2. ASSUME NEW out \in Outcomes(e[1]), Finish(e, out)
        PROVE  PlacesInv' /\ \A n \in Nodes : Lost(n)'
    <3>1. out \in Outcome
      BY OutcomeType DEF TypeOK, Execution
    <3>2. running' \cup async' = (running \cup async) \ {e}
      BY <2>2 DEF Finish, FlightInv
    <3>3. PlacesInv' /\ \A n \in Nodes : InFlight(n)' => InFlight(n)
      BY <2>2, <3>1, <3>2, FlightAfterSend DEF Finish
    <3> QED BY <1>a, <2>2, <3>3 DEF Finish, HasResult
  <2> QED BY <1>6, <2>1, <2>2 DEF Worker
<1>7. ASSUME NEW e \in async, NEW out \in ChildOutcomes(e[1]), ChildDone(e, out)
      PROVE  PlacesInv' /\ \A n \in Nodes : Lost(n)'
  <2>1. out \in Outcome
    BY OutcomeType DEF TypeOK, Execution
  <2>2. running' \cup async' = (running \cup async) \ {e}
    BY <1>7 DEF ChildDone, FlightInv
  <2>3. PlacesInv' /\ \A n \in Nodes : InFlight(n)' => InFlight(n)
    BY <1>7, <2>1, <2>2, FlightAfterSend DEF ChildDone
  <2> QED BY <1>a, <1>7, <2>3 DEF ChildDone, HasResult
<1>8. CASE LoopEnds \/ RunReturns \/ WorkerExits \/ Cancel \/ UNCHANGED vars
  BY <1>8, <1>a DEF LoopEnds, RunReturns, WorkerExits, Cancel, vars, PlacesInv, InFlight,
                    HasResult
<1> QED
  BY <1>1, <1>2, <1>3, <1>4, <1>5, <1>6, <1>7, <1>8 DEF Next, Loop, Receive, Child, Quiescent

(***************************************************************************)
(* An abort, or a result received after one, forgets no result.            *)
(***************************************************************************)
LEMMA ResultsStay ==
    ASSUME TypeOK, RecvCritical \/ RecvAborted \/ RecvCtxDone
    PROVE  \A n \in Nodes : HasResult(n) => HasResult(n)'
<1> USE OutcomeType DEF HasResult
<1>1. CASE RecvCtxDone
  BY <1>1 DEF RecvCtxDone, Abort, TypeOK
<1>2. CASE RecvCritical \/ RecvAborted
  <2>1. Head(doneCh).out \in Outcome
    BY <1>2, RecvType DEF RecvCritical, RecvAborted, NodeResult
  <2>2. \A n \in Nodes : Recorded(Head(doneCh))[n] \in {results[n], Head(doneCh).out}
    BY DEF Recorded, TypeOK
  <2>3. \A n \in Nodes : results'[n] \in {Recorded(Head(doneCh))[n], Skipped}
    BY <1>2 DEF RecvCritical, RecvAborted, Abort, TypeOK, Recorded
  <2> QED BY <2>1, <2>2, <2>3
<1> QED BY <1>1, <1>2

LEMMA StepOrder ==
    UniformPriority /\ IndInv /\ [Next]_vars => OrderInv'
<1> SUFFICES ASSUME UniformPriority, IndInv, [Next]_vars
             PROVE  OrderInv'
  OBVIOUS
<1> USE DEF schedVars, taskVars, bookVars, poolVars, IndInv
<1>1. CASE Dispatch
  <2>1. nextTask = head /\ head \in ready /\ head \in Nodes
    BY <1>1 DEF Dispatch, OfferInv, QueueInv, TypeOK
  <2>2. ready' = ready \ {head} /\ started' = started \cup {head} /\ pending' = pending
    BY <1>1 DEF Dispatch, Dequeue
  <2>3. \A n \in Nodes : runs'[n] > 0 => n = head \/ runs[n] > 0
    BY <1>1, <2>1 DEF Dispatch, TypeOK
  <2>4. \A n \in Nodes : n \in ready' \/ runs'[n] > 0 => Missing(n)' = {}
    BY <1>1, <2>1, <2>2, <2>3 DEF Dispatch, OrderInv, Missing, HasResult
  <2> QED BY <1>1, <2>2, <2>4 DEF Dispatch, OrderInv, Missing, HasResult, Looping
<1>2. CASE RecvPropagate
  <2> DEFINE nr == Head(doneCh)
             skip == Unselected(nr)
             new == {v \in Nodes \ started : pending[v] > 0 /\ pending'[v] <= 0}
             H == {n \in Nodes : HasResult(n)}
  <2>1. /\ skip \in SUBSET (Nodes \ started)
        /\ \A v \in skip : v \notin ready /\ pending'[v] > 0
        /\ \A v \in (Nodes \ started) \ skip : pending'[v] = Cardinality(Missing(v)')
        /\ \A v \in new : v \notin skip /\ Missing(v)' = {}
    BY <1>2, PropagateExact
  <2>2. /\ nr.node \in Nodes /\ nr.node \in started /\ ~HasResult(nr.node)
        /\ nr.out \in Outcome /\ ~dagFailed
    BY <1>2, ReceivedOnce, RecvType DEF RecvPropagate, NodeResult
  <2>3. \A n \in Nodes : results'[n] = IF n \in skip THEN Skipped
                                       ELSE IF n = nr.node THEN nr.out ELSE results[n]
    BY <1>2, <2>2 DEF RecvPropagate, Recorded, TypeOK
  <2>4. \A n \in Nodes : HasResult(n)' <=> HasResult(n) \/ n = nr.node \/ n \in skip
    BY <2>2, <2>3, OutcomeType DEF HasResult
  <2>5. \A n \in Nodes : Missing(n)' \subseteq Missing(n)
    BY <2>4, GraphAssumption DEF Missing
  <2>6. ready' = ready \cup new /\ started' = started \cup skip /\ runs' = runs
    BY <1>2 DEF RecvPropagate, Enqueue
  <2>7. \A n \in Nodes : n \in ready' \/ runs'[n] > 0 => Missing(n)' = {}
    BY <2>1, <2>5, <2>6 DEF OrderInv
  <2>8. \A n \in Critical : results'[n].status # "Failed"
    <3>1. nr.node \in Critical => nr.out.status # "Failed"
      BY <1>2 DEF RecvPropagate, CriticalFailure
    <3> QED BY <2>2, <2>3, <3>1, NodeAssumption DEF OrderInv, Skipped
  <2>9. completed' = Cardinality(H')
    <3>1. H' = (H \cup skip) \cup {nr.node} /\ H \cap skip = {} /\ nr.node \notin H \cup skip
      BY <2>1, <2>2, <2>4 DEF OrderInv
    <3>2. IsFiniteSet(H) /\ IsFiniteSet(skip) /\ Cardinality(H) \in Nat /\ Cardinality(skip) \in Nat
      BY <2>1, NodesFinite
    <3>3. /\ IsFiniteSet(H \cup skip)
          /\ Cardinality(H \cup skip) = Cardinality(H) + Cardinality(skip)
      BY <3>1, <3>2, DisjointUnion
    <3>4. Cardinality(H') = Cardinality(H \cup skip) + 1
      BY <3>1, <3>3, FS_AddElement
    <3>5. completed = Cardinality(H) /\ completed' = completed + 1 + Cardinality(skip)
      BY <1>2, <2>2 DEF RecvPropagate, OrderInv
    <3> QED BY <3>2, <3>3, <3>4, <3>5
  <2>10. ready' \cap started' = {}
    BY <2>1, <2>2, <2>6 DEF OrderInv
  <2>11. \A n \in Nodes : HasResult(n)' => n \in started'
    BY <2>2, <2>4, <2>6 DEF OrderInv
  <2>12. \A v \in Nodes \ started' : pending'[v] = Cardinality(Missing(v)')
    BY <2>1, <2>6
  <2>13. phase' = "loop"
    BY <1>2 DEF RecvPropagate, Looping
  <2> QED BY <2>7, <2>8, <2>9, <2>10, <2>11, <2>12, <2>13 DEF OrderInv
<1>3. CASE RecvCritical \/ RecvAborted \/ RecvCtxDone
  <2>1. \A n \in Nodes : Missing(n)' \subseteq Missing(n)
    BY <1>3, ResultsStay, GraphAssumption DEF Missing
  <2>2. dagFailed' = TRUE /\ ready' = ready /\ runs' = runs /\ phase' = "loop"
    BY <1>3 DEF RecvCritical, RecvAborted, RecvCtxDone, Abort, Enqueue, Looping, TypeOK
  <2> QED BY <2>1, <2>2 DEF OrderInv
<1>4. CASE LoopEnds
  BY <1>4 DEF LoopEnds, OrderInv, Missing, HasResult
<1>5. CASE \/ RunReturns \/ WorkerExits \/ Cancel \/ UNCHANGED vars
           \/ (\E e \in running : Worker(e)) \/ (\E e \in async : Child(e))
  <2>1. /\ pending' = pending /\ ready' = ready /\ started' = started
        /\ completed' = completed /\ dagFailed' = dagFailed /\ results' = results
        /\ runs' = runs /\ (phase' # "loop" => phase # "loop")
    BY <1>5 DEF RunReturns, WorkerExits, Cancel, Worker, Child, Launch, Finish, ChildDone, vars
  <2> QED BY <2>1 DEF OrderInv, Missing, HasResult
<1> QED BY <1>1, <1>2, <1>3, <1>4, <1>5 DEF Next, Loop, Receive, Quiescent

-----------------------------------------------------------------------------
THEOREM Inductive == UniformPriority => (Spec => []IndInv)
<1> SUFFICES ASSUME UniformPriority PROVE Spec => []IndInv
  OBVIOUS
<1>1. Init => IndInv
  BY InitType, InitCount, InitUniform DEF IndInv
<1>2. IndInv /\ [Next]_vars => IndInv'
  BY StepType, StepCount, StepOffer, StepFlight, StepOrder DEF IndInv
<1> QED BY <1>1, <1>2, PTL DEF Spec

(***************************************************************************)
(* With equal priorities no node is executed twice.                        *)
(***************************************************************************)
THEOREM AtMostOneExecution == UniformPriority => (Spec => []ExecutedAtMostOnce)
<1>1. IndInv => ExecutedAtMostOnce
  BY DEF IndInv, OfferInv
<1> QED BY <1>1, Inductive, PTL

(***************************************************************************)
(* With equal priorities the dependency order is respected, aborts and     *)
(* route skips included.                                                   *)
(***************************************************************************)
THEOREM OrderRespected == UniformPriority => (Spec => []DependencyOrder)
<1>1. IndInv => DependencyOrder
  BY DEF IndInv, OrderInv, DependencyOrder, Missing
<1> QED BY <1>1, Inductive, PTL

(***************************************************************************)
(* When as many nodes are counted as there are, all have a result and none *)
(* is anywhere else.                                                       *)
(***************************************************************************)
LEMMA CompleteAtEnd ==
    ASSUME IndInv, completed >= N, ~dagFailed
    PROVE  /\ \A n \in Nodes : HasResult(n)
           /\ \A n \in Critical : results[n].status # "Failed"
           /\ ready = {} /\ running = {} /\ async = {} /\ doneCh = <<>>
<1> USE DEF IndInv
<1> DEFINE H == {n \in Nodes : HasResult(n)}
<1>1. completed = Cardinality(H) /\ N \in Nat
  BY QueueAssumption DEF OrderInv
<1>2. H = Nodes
  <2>1. /\ Cardinality(H) <= Cardinality(Nodes)
        /\ Cardinality(Nodes) = Cardinality(H) => H = Nodes
    BY NodesFinite, FS_Subset
  <2> QED BY <1>1, <2>1, NodesFinite
<1>3. \A n \in Nodes : ~InFlight(n) /\ n \notin ready
  BY <1>2 DEF FlightInv
<1>4. ready = {} /\ running = {} /\ async = {}
  BY <1>3 DEF InFlight, TypeOK, Execution
<1>5. doneCh = <<>>
  <2> SUFFICES ASSUME doneCh # <<>> PROVE FALSE
    OBVIOUS
  <2>1. doneCh[1].node \in Nodes /\ 1 \in 1..Len(doneCh)
    BY TailProperties, ReceivedOnce
  <2> QED BY <1>3, <2>1 DEF InFlight
<1> QED BY <1>2, <1>4, <1>5 DEF OrderInv

(***************************************************************************)
(* With equal priorities a DAG that succeeds has run to completion.        *)
(***************************************************************************)
THEOREM SuccessComplete == UniformPriority => (Spec => []SuccessIsComplete)
<1>1. IndInv => SuccessIsComplete
  <2>1. IndInv /\ phase # "loop" => completed >= N
    BY DEF IndInv, OrderInv
  <2> QED BY <2>1, CompleteAtEnd DEF SuccessIsComplete
<1> QED BY <1>1, Inductive, PTL
-----------------------------------------------------------------------------
LEMMA OverwriteStep ==
    UniformPriority /\ IndInv /\ [Next]_vars =>
        \A n \in Nodes : HasResult(n) /\ results'[n] # results[n] =>
            dagFailed /\ results[n] = Skipped
<1> SUFFICES ASSUME UniformPriority, IndInv, [Next]_vars,
                    NEW n \in Nodes, HasResult(n), results'[n] # results[n]
             PROVE  dagFailed /\ results[n] = Skipped
  OBVIOUS
<1> USE DEF schedVars, taskVars, bookVars, poolVars, IndInv
<1> DEFINE m == Head(doneCh).node
<1>1. CASE RecvPropagate
  <2>1. n # m => results'[n] = results[n]
    <3>1. n \notin Unselected(Head(doneCh))
      BY <1>1 DEF RecvPropagate, Unselected, OrderInv
    <3> QED BY <1>1, <3>1 DEF RecvPropagate, Recorded, TypeOK
  <2>2. ~HasResult(m)
    BY <1>1, ReceivedOnce DEF RecvPropagate
  <2> QED BY <2>1, <2>2
<1>2. CASE RecvCritical \/ RecvAborted
  <2>1. HasResult(m) => dagFailed /\ results[m] = Skipped
    BY <1>2, ReceivedOnce DEF RecvCritical, RecvAborted
  <2>2. n # m => results'[n] = results[n]
    BY <1>2 DEF RecvCritical, RecvAborted, Abort, Recorded, Unresolved, HasResult, TypeOK
  <2> QED BY <2>1, <2>2
<1>3. CASE RecvCtxDone
  BY <1>3 DEF RecvCtxDone, Abort, Unresolved, HasResult, TypeOK
<1>4. CASE results' = results
  BY <1>4
<1> QED
  BY <1>1, <1>2, <1>3, <1>4
  DEF Next, Loop, Receive, Quiescent, Dispatch, LoopEnds, RunReturns, WorkerExits, Cancel,
      Worker, Child, Launch, Finish, ChildDone, vars

(***************************************************************************)
(* With equal priorities the result of an execution is never replaced.     *)
(***************************************************************************)
THEOREM ResultsKept == UniformPriority => (Spec => OnlySkippedOverwritten)
<1> SUFFICES ASSUME UniformPriority PROVE Spec => OnlySkippedOverwritten
  OBVIOUS
<1>1. IndInv /\ [Next]_vars =>
        [\A n \in Nodes : HasResult(n) /\ results'[n] # results[n] =>
            dagFailed /\ results[n] = Skipped]_vars
  BY OverwriteStep
<1> QED BY <1>1, Inductive, PTL DEF Spec, OnlySkippedOverwritten

LEMMA JustifiedStep ==
    UniformPriority /\ IndInv /\ AbortIsJustified /\ [Next]_vars => AbortIsJustified'
<1> SUFFICES ASSUME UniformPriority, IndInv, AbortIsJustified, [Next]_vars
             PROVE  AbortIsJustified'
  OBVIOUS
<1> USE DEF schedVars, taskVars, bookVars, poolVars, IndInv
<1>1. ASSUME NEW n \in Critical, results[n].status = "Failed"
      PROVE  results'[n].status = "Failed"
  <2>1. n \in Nodes /\ HasResult(n) /\ results[n] # Skipped
    BY <1>1, NodeAssumption DEF HasResult, NoResult, Skipped
  <2> QED BY <1>1, <2>1, OverwriteStep
<1>2. CASE RecvCritical
  <2> DEFINE nr == Head(doneCh)
  <2>1. nr.node \in Critical /\ nr.node \in Nodes /\ nr.out.status = "Failed" /\ nr.out \in Outcome
    BY <1>2, RecvType DEF RecvCritical, CriticalFailure, NodeResult
  <2>2. Recorded(nr)[nr.node] = nr.out /\ nr.out # NoResult
    BY <2>1, OutcomeType DEF Recorded, TypeOK
  <2>3. results'[nr.node] = nr.out
    BY <1>2, <2>1, <2>2 DEF RecvCritical, Abort, Unresolved
  <2>4. dagFailed' = TRUE /\ err' # "none" /\ cancelled' = TRUE
    BY <1>2 DEF RecvCritical, Abort
  <2> QED BY <2>1, <2>3, <2>4 DEF AbortIsJustified
<1>3. CASE RecvCtxDone
  <2>1. dagFailed' = TRUE /\ cancelled' = TRUE /\ err' # "none"
    BY <1>3 DEF RecvCtxDone, Abort, AbortIsJustified, TypeOK
  <2>2. err' = "critical" => err = "critical"
    BY <1>3 DEF RecvCtxDone
  <2> QED BY <1>1, <2>1, <2>2 DEF AbortIsJustified
<1>4. CASE err' = err /\ dagFailed' = dagFailed /\ cancelled' \in {cancelled, TRUE}
  <2>1. (\E n \in Critical : results[n].status = "Failed")
            => (\E n \in Critical : results'[n].status = "Failed")
    BY <1>1
  <2> QED BY <1>4, <2>1 DEF AbortIsJustified
<1>5. CASE Dispatch \/ RecvPropagate \/ RecvAborted
  BY <1>4, <1>5 DEF Dispatch, RecvPropagate, RecvAborted
<1>6. CASE \/ LoopEnds \/ RunReturns \/ WorkerExits \/ Cancel \/ UNCHANGED vars
           \/ (\E e \in running : Worker(e)) \/ (\E e \in async : Child(e))
  BY <1>4, <1>6 DEF LoopEnds, RunReturns, WorkerExits, Cancel, vars, Worker, Child, Launch,
                    Finish, ChildDone
<1> QED BY <1>2, <1>3, <1>5, <1>6 DEF Next, Loop, Receive, Quiescent

(***************************************************************************)
(* With equal priorities the error of an aborted DAG names something that  *)
(* happened and is still recorded.                                         *)
(***************************************************************************)
THEOREM AbortJustified == UniformPriority => (Spec => []AbortIsJustified)
<1> SUFFICES ASSUME UniformPriority PROVE Spec => []AbortIsJustified
  OBVIOUS
<1>1. Init => AbortIsJustified
  BY DEF Init, AbortIsJustified
<1> QED BY <1>1, Inductive, JustifiedStep, PTL DEF Spec
-----------------------------------------------------------------------------
(***************************************************************************)
(* With equal priorities a node that is handed to a worker is marked.      *)
(***************************************************************************)
THEOREM SentIsMarked == UniformPriority => (Spec => []DispatchMarksWhatItSends)
<1>1. IndInv => DispatchMarksWhatItSends
  BY DEF IndInv, OfferInv, DispatchMarksWhatItSends
<1> QED BY <1>1, Inductive, PTL

(***************************************************************************)
(* What is downstream of a node that is in the heap or in flight stays out *)
(* of the heap and is not executed: this decides, after an abort, that a   *)
(* route node which reports late finds its branches unexecuted.            *)
(***************************************************************************)
HeldBack ==
    \A r \in Nodes : r \in ready \/ InFlight(r) =>
        \A v \in Down(r) : v \notin ready /\ runs[v] = 0

RouteInv ==
    /\ HeldBack
    /\ \A v \in Nodes : Rejected(v) =>
          runs[v] = 0 /\ v \notin ready /\ (v \in started \/ dagFailed)
    /\ ~dagFailed => \A v \in Nodes : HasResult(v) /\ runs[v] = 0 => Rejected(v)

LEMMA FlightAfterWork ==
    ASSUME TypeOK, FlightInv,
           \/ \E e \in running : Worker(e)
           \/ \E e \in async : Child(e)
    PROVE  /\ ready' = ready /\ runs' = runs /\ results' = results
           /\ started' = started /\ dagFailed' = dagFailed
           /\ \A n \in Nodes : InFlight(n)' => InFlight(n)
<1> USE DEF schedVars, taskVars, bookVars, poolVars
<1>1. ASSUME NEW e \in running, Launch(e)
      PROVE  \A n \in Nodes : InFlight(n)' => InFlight(n)
  BY <1>1 DEF Launch, InFlight
<1>2. ASSUME NEW e \in running, NEW out \in Outcomes(e[1]), Finish(e, out)
      PROVE  \A n \in Nodes : InFlight(n)' => InFlight(n)
  <2>1. out \in Outcome
    BY OutcomeType DEF TypeOK, Execution
  <2>2. running' \cup async' = (running \cup async) \ {e}
    BY <1>2 DEF Finish, FlightInv
  <2> QED BY <1>2, <2>1, <2>2, FlightAfterSend DEF Finish
<1>3. ASSUME NEW e \in async, NEW out \in ChildOutcomes(e[1]), ChildDone(e, out)
      PROVE  \A n \in Nodes : InFlight(n)' => InFlight(n)
  <2>1. out \in Outcome
    BY OutcomeType DEF TypeOK, Execution
  <2>2. running' \cup async' = (running \cup async) \ {e}
    BY <1>3 DEF ChildDone, FlightInv
  <2> QED BY <1>3, <2>1, <2>2, FlightAfterSend DEF ChildDone
<1>4. /\ ready' = ready /\ runs' = runs /\ results' = results
      /\ started' = started /\ dagFailed' = dagFailed
  BY DEF Worker, Child, Launch, Finish, ChildDone
<1> QED BY <1>1, <1>2, <1>3, <1>4 DEF Worker, Child

LEMMA StepHeldBack ==
    UniformPriority /\ IndInv /\ IndInv' /\ HeldBack /\ [Next]_vars => HeldBack'
<1> SUFFICES ASSUME UniformPriority, IndInv, IndInv', HeldBack, [Next]_vars
             PROVE  HeldBack'
  OBVIOUS
<1> USE DEF schedVars, taskVars, bookVars, poolVars, IndInv
<1>1. CASE Dispatch
  <2>1. nextTask = head /\ head \in ready /\ head \in Nodes
    BY <1>1 DEF Dispatch, OfferInv, QueueInv, TypeOK
  <2>2. \A n \in Nodes : n # head => runs'[n] = runs[n]
    BY <1>1, <2>1 DEF Dispatch, TypeOK
  <2>3. ready' \subseteq ready
    BY <1>1 DEF Dispatch, Dequeue
  <2>4. \A n \in Nodes : InFlight(n)' => InFlight(n) \/ n = head
    BY <1>1, <2>1 DEF Dispatch, InFlight
  <2>5. ASSUME NEW r \in Nodes, r \in ready' \/ InFlight(r)', NEW v \in Down(r)
        PROVE  v \notin ready' /\ runs'[v] = 0
    <3>1. v \notin ready /\ runs[v] = 0
      BY <2>1, <2>3, <2>4, <2>5 DEF HeldBack
    <3>2. v # head /\ v \in Nodes
      BY <2>1, <3>1 DEF Down
    <3> QED BY <2>2, <2>3, <3>1, <3>2
  <2> QED BY <2>5 DEF HeldBack, Down
<1>2. CASE RecvPropagate
  <2>1. ~dagFailed'
    BY <1>2 DEF RecvPropagate
  <2>2. ASSUME NEW r \in Nodes, r \in ready' \/ InFlight(r)', NEW v \in Nodes, r \in Deps[v]
        PROVE  v \notin ready' /\ runs'[v] = 0
    <3>1. ~HasResult(r)'
      BY <2>1, <2>2 DEF FlightInv
    <3>2. r \in Missing(v)'
      BY <2>2, <3>1 DEF Missing
    <3>3. v \notin ready' /\ ~(runs'[v] > 0)
      BY <3>2 DEF OrderInv
    <3> QED BY <3>3 DEF TypeOK
  <2> QED BY <2>2 DEF HeldBack, Down
<1>3. CASE RecvCritical \/ RecvAborted
  <2>1. \A n \in Nodes : InFlight(n)' => InFlight(n)
    BY <1>3, FlightAfterReceive DEF RecvCritical, RecvAborted
  <2>2. ready' = ready /\ runs' = runs
    BY <1>3 DEF RecvCritical, RecvAborted, Enqueue
  <2> QED BY <2>1, <2>2 DEF HeldBack, Down
<1>4. CASE RecvCtxDone \/ LoopEnds \/ RunReturns \/ WorkerExits \/ Cancel \/ UNCHANGED vars
  BY <1>4 DEF RecvCtxDone, LoopEnds, RunReturns, WorkerExits, Cancel, vars, HeldBack, Down,
              InFlight
<1>5. CASE (\E e \in running : Worker(e)) \/ (\E e \in async : Child(e))
  BY <1>5, FlightAfterWork DEF HeldBack, Down
<1> QED BY <1>1, <1>2, <1>3, <1>4, <1>5 DEF Next, Loop, Receive, Quiescent

LEMMA StepRoute ==
    UniformPriority /\ IndInv /\ IndInv' /\ RouteInv /\ [Next]_vars => RouteInv'
<1> SUFFICES ASSUME UniformPriority, IndInv, IndInv', RouteInv, [Next]_vars
             PROVE  RouteInv'
  OBVIOUS
<1> USE DEF schedVars, taskVars, bookVars, poolVars, IndInv
<1>0. HeldBack'
  BY StepHeldBack DEF RouteInv
<1>1. CASE Dispatch
  <2>1. nextTask = head /\ head \in ready /\ head \in Nodes
    BY <1>1 DEF Dispatch, OfferInv, QueueInv, TypeOK
  <2>2. \A n \in Nodes : n # head => runs'[n] = runs[n]
    BY <1>1, <2>1 DEF Dispatch, TypeOK
  <2>3. runs'[head] # 0
    BY <1>1, <2>1 DEF Dispatch, TypeOK
  <2>4. /\ ready' \subseteq ready /\ started \subseteq started'
        /\ results' = results /\ dagFailed' = dagFailed
    BY <1>1 DEF Dispatch, Dequeue
  <2>5. \A v \in Nodes : Rejected(v)' <=> Rejected(v)
    BY <2>4 DEF Rejected, Rejects
  <2>6. \A v \in Nodes : Rejected(v)' => v # head
    BY <2>1, <2>5 DEF RouteInv
  <2> QED BY <1>0, <2>2, <2>3, <2>4, <2>5, <2>6 DEF RouteInv, HasResult
<1>2. CASE RecvPropagate
  <2> DEFINE nr == Head(doneCh)
             skip == Unselected(nr)
             new == {v \in Nodes \ started : pending[v] > 0 /\ pending'[v] <= 0}
  <2>1. /\ skip \in SUBSET (Nodes \ started)
        /\ \A v \in skip : v \notin ready
        /\ \A v \in new : v \notin skip
    BY <1>2, PropagateExact
  <2>2. /\ nr.node \in Nodes /\ nr.node \in started /\ ~HasResult(nr.node)
        /\ runs[nr.node] = 1 /\ ~dagFailed /\ dagFailed' = dagFailed
    BY <1>2, ReceivedOnce DEF RecvPropagate
  <2>3. \A n \in Nodes : results'[n] = IF n \in skip THEN Skipped
                                       ELSE IF n = nr.node THEN nr.out ELSE results[n]
    BY <1>2, <2>2 DEF RecvPropagate, Recorded, TypeOK
  <2>4. ready' = ready \cup new /\ started' = started \cup skip /\ runs' = runs
    BY <1>2 DEF RecvPropagate, Enqueue
  <2>5. \A v \in skip : /\ nr.node \in RouteNodes /\ nr.out.route >= 0
                        /\ nr.node \in Deps[v] /\ v \notin Selected(nr.node, nr.out.route)
    BY DEF Unselected, Down
  <2>6. ASSUME NEW v \in Nodes, Rejected(v)'
        PROVE  runs[v] = 0 /\ v \notin ready /\ v \in started \cup skip
    <3>1. PICK r \in Deps[v] \cap RouteNodes :
            results'[r].route >= 0 /\ v \notin Selected(r, results'[r].route)
      BY <2>6 DEF Rejected, Rejects, Selected
    <3>2. r \in Nodes /\ r \notin skip
      BY <2>3, <3>1, GraphAssumption DEF Skipped, NoRoute
    <3>3. CASE r = nr.node
      <4>1. results'[r] = nr.out
        BY <2>3, <3>2, <3>3
      <4>2. v \in skip \/ v \in started
        BY <3>1, <3>3, <4>1 DEF Unselected, Down
      <4>3. r \in Missing(v)
        BY <2>2, <3>1, <3>3 DEF Missing
      <4>4. v \notin ready /\ ~(runs[v] > 0)
        BY <4>3 DEF OrderInv
      <4> QED BY <4>2, <4>4 DEF TypeOK
    <3>4. CASE r # nr.node
      <4>1. Rejected(v)
        BY <2>3, <3>1, <3>2, <3>4 DEF Rejected, Rejects
      <4> QED BY <2>2, <4>1 DEF RouteInv
    <3> QED BY <3>3, <3>4
  <2>7. ASSUME NEW v \in Nodes, HasResult(v)', runs'[v] = 0
        PROVE  Rejected(v)'
    <3>1. v # nr.node
      BY <2>2, <2>4, <2>7
    <3>2. CASE v \in skip
      <4>1. nr.node \notin skip
        BY <2>1, <2>2
      <4>2. results'[nr.node] = nr.out
        BY <2>2, <2>3, <4>1
      <4> QED BY <2>5, <3>2, <4>2 DEF Rejected, Rejects, Selected
    <3>3. CASE v \notin skip
      <4>1. HasResult(v) /\ runs[v] = 0
        BY <2>3, <2>4, <2>7, <3>1, <3>3 DEF HasResult
      <4>2. PICK r \in Deps[v] \cap RouteNodes :
              results[r].route >= 0 /\ v \notin Selected(r, results[r].route)
        BY <2>2, <4>1 DEF RouteInv, Rejected, Rejects
      <4>3. HasResult(r) /\ r \in Nodes
        BY <4>2, GraphAssumption DEF HasResult, NoResult, NoRoute
      <4>4. r \notin skip /\ r # nr.node
        BY <2>1, <2>2, <4>3 DEF OrderInv
      <4> QED BY <2>3, <4>2, <4>3, <4>4 DEF Rejected, Rejects, Selected
    <3> QED BY <3>2, <3>3
  <2>8. \A v \in Nodes : Rejected(v)' => v \notin new
    BY <2>1, <2>6
  <2> QED BY <1>0, <2>4, <2>6, <2>7, <2>8 DEF RouteInv
<1>3. CASE RecvCritical \/ RecvAborted \/ RecvCtxDone
  <2> DEFINE m == Head(doneCh).node
  <2>1. dagFailed' = TRUE /\ ready' = ready /\ runs' = runs
    BY <1>3 DEF RecvCritical, RecvAborted, RecvCtxDone, Abort, Enqueue
  <2>2. ASSUME NEW v \in Nodes, Rejected(v)'
        PROVE  runs[v] = 0 /\ v \notin ready
    <3>1. PICK r \in Deps[v] \cap RouteNodes :
            results'[r].route >= 0 /\ v \notin Selected(r, results'[r].route)
      BY <2>2 DEF Rejected, Rejects, Selected
    <3>2. r \in Nodes /\ v \in Down(r)
      BY <3>1, GraphAssumption DEF Down
    <3>3. results'[r] # Skipped
      BY <3>1 DEF Skipped, NoRoute
    <3>4. CASE results'[r] = results[r]
      <4>1. Rejected(v)
        BY <3>1, <3>4 DEF Rejected, Rejects
      <4> QED BY <4>1 DEF RouteInv
    <3>5. CASE results'[r] # results[r]
      <4>1. doneCh # <<>> /\ r = m
        BY <1>3, <3>2, <3>3, <3>5
        DEF RecvCritical, RecvAborted, RecvCtxDone, Abort, Recorded, TypeOK
      <4>2. InFlight(r)
        BY <4>1, TailProperties DEF InFlight
      <4> QED BY <3>2, <4>2 DEF RouteInv, HeldBack
    <3> QED BY <3>4, <3>5
  <2> QED BY <1>0, <2>1, <2>2 DEF RouteInv
<1>4. CASE /\ ready' = ready /\ runs' = runs /\ results' = results
           /\ started' = started /\ dagFailed' = dagFailed
  <2>1. \A v \in Nodes : Rejected(v)' <=> Rejected(v)
    BY <1>4 DEF Rejected, Rejects
  <2> QED BY <1>0, <1>4, <2>1 DEF RouteInv, HasResult
<1>5. CASE LoopEnds \/ RunReturns \/ WorkerExits \/ Cancel \/ UNCHANGED vars
  BY <1>4, <1>5 DEF LoopEnds, RunReturns, WorkerExits, Cancel, vars
<1>6. CASE (\E e \in running : Worker(e)) \/ (\E e \in async : Child(e))
  BY <1>4, <1>6, FlightAfterWork
<1> QED BY <1>1, <1>2, <1>3, <1>5, <1>6 DEF Next, Loop, Receive, Quiescent

LEMMA InitRoute == Init => RouteInv
<1> SUFFICES ASSUME Init PROVE RouteInv
  OBVIOUS
<1>1. \A n \in Nodes : ~HasResult(n) /\ ~Rejected(n) /\ ~InFlight(n) /\ runs[n] = 0
  BY GraphAssumption, EmptySeq DEF Init, HasResult, Rejected, Rejects, InFlight, NoResult, NoRoute
<1>2. ASSUME NEW r \in Nodes, NEW v \in Down(r)
      PROVE  v \notin ready
  <2>1. v \in Nodes /\ Deps[v] # {} /\ Deps[v] \in SUBSET Nodes
    BY GraphAssumption DEF Down
  <2>2. Cardinality(Deps[v]) # 0
    BY <2>1, NodesFinite, FS_EmptySet
  <2> QED BY <2>1, <2>2 DEF Init
<1> QED BY <1>1, <1>2 DEF RouteInv, HeldBack, Down

-----------------------------------------------------------------------------
(***************************************************************************)
(* What the contract of a run needs beside: the marks and the heap say of  *)
(* a node what the contract says of it without them.                       *)
(***************************************************************************)
MarksInv ==
    /\ ctxDone <=> ~dagFailed
    /\ dagFailed => cancelled
    /\ \A n \in started : runs[n] > 0 \/ HasResult(n)
    /\ dagFailed => \A n \in Nodes \ started : HasResult(n)
    /\ ~dagFailed => \A v \in Nodes \ started : pending[v] <= 0 => v \in ready

FailureOf(n) ==
    {[status |-> "Failed", route |-> NoRoute] : c \in {m \in {n} : m \in Subflow /\ cancelled}}

ReportsInv ==
    /\ \A e \in async : e[1] \in Subflow
    /\ \A i \in 1..Len(doneCh) :
          doneCh[i].out \in Outcomes(doneCh[i].node) \cup FailureOf(doneCh[i].node)

PoolInv == phase = "loop" => idle + Cardinality(running) = MaxWorkers

ContractInv == MarksInv /\ ReportsInv /\ PoolInv

LEMMA InitContract == Init => ContractInv
<1> SUFFICES ASSUME Init PROVE ContractInv
  OBVIOUS
<1>1. MarksInv
  <2>1. \A v \in Nodes : Cardinality(Deps[v]) \in Nat
    BY NodesFinite, GraphAssumption
  <2>2. /\ pending = [n \in Nodes |-> Cardinality(Deps[n])]
        /\ ready = {n \in Nodes : pending[n] = 0}
    BY DEF Init
  <2>3. \A v \in Nodes : pending[v] <= 0 => v \in ready
    BY <2>1, <2>2
  <2> QED BY <2>3 DEF Init, MarksInv
<1>2. ReportsInv
  <2>1. Len(doneCh) = 0 /\ async = {}
    BY EmptySeq DEF Init
  <2> QED BY <2>1 DEF ReportsInv
<1>3. Cardinality(running) = 0
  BY FS_EmptySet DEF Init
<1>4. PoolInv
  BY <1>3, NodeAssumption DEF Init, PoolInv
<1> QED BY <1>1, <1>2, <1>4 DEF ContractInv

(***************************************************************************)
(* An abort resolves what was not started.                                 *)
(***************************************************************************)
LEMMA AbortResolves ==
    ASSUME TypeOK, NEW base \in [Nodes -> Outcome \cup {NoResult}], NEW count, Abort(base, count),
           \A n \in Nodes : HasResult(n) => base[n] # NoResult
    PROVE  /\ ~ctxDone' /\ dagFailed' /\ started \subseteq started'
           /\ \A n \in Nodes \ started' : HasResult(n)'
           /\ \A n \in Nodes : HasResult(n) => HasResult(n)'
           /\ \A n \in started' : n \in started \/ HasResult(n)'
<1>1. Unresolved(base) \in SUBSET (Nodes \ started)
  BY DEF Unresolved
<1>2. \A n \in Nodes : results'[n] = IF n \in Unresolved(base) THEN Skipped ELSE base[n]
  BY DEF Abort
<1>3. started' = started \cup Unresolved(base) /\ ~ctxDone' /\ dagFailed'
  BY DEF Abort
<1>4. Skipped # NoResult
  BY OutcomeType
<1>5. \A n \in Nodes \ started' : base[n] # NoResult
  BY <1>3 DEF Unresolved
<1> QED BY <1>1, <1>2, <1>3, <1>4, <1>5 DEF HasResult

LEMMA StepMarks ==
    ASSUME UniformPriority, IndInv, MarksInv, [Next]_vars
    PROVE  MarksInv'
<1> USE DEF schedVars, taskVars, bookVars, poolVars, IndInv
<1>1. CASE Dispatch
  <2>1. nextTask = head /\ head \in ready /\ head \in Nodes
    BY <1>1 DEF Dispatch, OfferInv, QueueInv, TypeOK
  <2>2. /\ ready' = ready \ {head} /\ started' = started \cup {head} /\ pending' = pending
        /\ UNCHANGED <<ctxDone, dagFailed, cancelled, results>>
    BY <1>1 DEF Dispatch, Dequeue
  <2>3. \A n \in Nodes : runs[n] > 0 \/ n = head => runs'[n] > 0
    BY <1>1, <2>1 DEF Dispatch, TypeOK
  <2>4. started \subseteq Nodes
    BY DEF TypeOK
  <2>5. \A n \in started' : runs'[n] > 0 \/ HasResult(n)'
    BY <2>1, <2>2, <2>3, <2>4 DEF MarksInv, HasResult
  <2> QED BY <2>1, <2>2, <2>5 DEF MarksInv, HasResult
<1>2. CASE RecvPropagate
  <2> DEFINE nr == Head(doneCh)
             skip == Unselected(nr)
             new == {v \in Nodes \ started : pending[v] > 0 /\ pending'[v] <= 0}
  <2>1. nr.node \in Nodes /\ nr.out \in Outcome /\ ~HasResult(nr.node)
    BY <1>2, ReceivedOnce, RecvType DEF RecvPropagate, NodeResult
  <2>2. /\ ready' = ready \cup new /\ started' = started \cup skip /\ runs' = runs
        /\ UNCHANGED <<ctxDone, dagFailed, cancelled>> /\ ~dagFailed
    BY <1>2 DEF RecvPropagate, Enqueue
  <2>3. \A n \in Nodes : results'[n] = IF n \in skip THEN Skipped
                                       ELSE IF n = nr.node THEN nr.out ELSE results[n]
    BY <1>2, <2>1 DEF RecvPropagate, Recorded, TypeOK
  <2>4. \A n \in Nodes : HasResult(n) \/ n \in skip => HasResult(n)'
    BY <2>1, <2>3, OutcomeType DEF HasResult
  <2>5. started \subseteq Nodes /\ skip \subseteq Nodes
    BY DEF TypeOK, Unselected, Down
  <2>6. \A n \in started' : runs'[n] > 0 \/ HasResult(n)'
    BY <2>2, <2>4, <2>5 DEF MarksInv
  <2>7. ASSUME NEW v \in Nodes \ started', pending'[v] <= 0 PROVE v \in ready'
    <3>1. v \in Nodes \ started /\ pending[v] \in Int
      BY <2>2 DEF TypeOK
    <3>2. CASE pending[v] <= 0
      BY <2>2, <3>1, <3>2 DEF MarksInv
    <3>3. CASE pending[v] > 0
      BY <2>2, <2>7, <3>1, <3>3
    <3> QED BY <3>1, <3>2, <3>3
  <2> QED BY <2>2, <2>6, <2>7 DEF MarksInv
<1>3. CASE RecvCtxDone
  <2>1. Abort(results, completed) /\ cancelled' /\ runs' = runs
    BY <1>3 DEF RecvCtxDone
  <2>2. /\ ~ctxDone' /\ dagFailed'
        /\ \A n \in Nodes \ started' : HasResult(n)'
        /\ \A n \in Nodes : HasResult(n) => HasResult(n)'
        /\ \A n \in started' : n \in started \/ HasResult(n)'
    BY <2>1, AbortResolves DEF TypeOK, HasResult
  <2>3. started \subseteq Nodes
    BY DEF TypeOK
  <2> QED BY <2>1, <2>2, <2>3 DEF MarksInv
<1>4. CASE RecvCritical
  <2> DEFINE base == Recorded(Head(doneCh))
  <2>1. Abort(base, completed + 1) /\ cancelled' /\ runs' = runs /\ doneCh # <<>>
    BY <1>4 DEF RecvCritical
  <2>2. /\ base \in [Nodes -> Outcome \cup {NoResult}]
        /\ \A n \in Nodes : HasResult(n) => base[n] # NoResult
    BY <2>1, RecvType, OutcomeType DEF Recorded, HasResult, NodeResult, TypeOK
  <2> HIDE DEF base
  <2>3. /\ ~ctxDone' /\ dagFailed'
        /\ \A n \in Nodes \ started' : HasResult(n)'
        /\ \A n \in Nodes : HasResult(n) => HasResult(n)'
        /\ \A n \in started' : n \in started \/ HasResult(n)'
    BY <2>1, <2>2, AbortResolves
  <2>4. started \subseteq Nodes
    BY DEF TypeOK
  <2> QED BY <2>1, <2>3, <2>4 DEF MarksInv
<1>5. CASE RecvAborted
  <2>1. \A n \in Nodes : HasResult(n) => HasResult(n)'
    BY <1>5, ResultsStay
  <2>2. UNCHANGED <<ctxDone, dagFailed, cancelled, started, runs>> /\ dagFailed
    BY <1>5 DEF RecvAborted
  <2>3. started \subseteq Nodes
    BY DEF TypeOK
  <2> QED BY <2>1, <2>2, <2>3 DEF MarksInv
<1>6. CASE \/ LoopEnds \/ RunReturns \/ WorkerExits \/ Cancel \/ UNCHANGED vars
           \/ (\E e \in running : Worker(e)) \/ (\E e \in async : Child(e))
  <2>1. UNCHANGED <<ctxDone, dagFailed, started, runs, results, pending, ready>>
    BY <1>6 DEF LoopEnds, RunReturns, WorkerExits, Cancel, Worker, Child, Launch, Finish,
                ChildDone, vars
  <2>2. cancelled => cancelled'
    BY <1>6 DEF LoopEnds, RunReturns, WorkerExits, Cancel, Worker, Child, Launch, Finish,
                ChildDone, vars
  <2> QED BY <2>1, <2>2 DEF MarksInv, HasResult
<1> QED BY <1>1, <1>2, <1>3, <1>4, <1>5, <1>6 DEF Next, Loop, Receive, Quiescent

(***************************************************************************)
(* A node that was not executed has no result but Skipped.                 *)
(***************************************************************************)
SkippedInv == \A n \in Nodes : runs[n] = 0 /\ HasResult(n) => results[n] = Skipped

LEMMA StepSkipped ==
    ASSUME UniformPriority, IndInv, SkippedInv, [Next]_vars
    PROVE  SkippedInv'
<1> USE DEF schedVars, taskVars, bookVars, poolVars, IndInv
<1> DEFINE m == Head(doneCh).node
<1>1. CASE Dispatch
  <2>1. results' = results /\ \A n \in Nodes : runs'[n] = 0 => runs[n] = 0
    BY <1>1 DEF Dispatch, OfferInv, QueueInv, TypeOK
  <2> QED BY <2>1 DEF SkippedInv, HasResult
<1>2. CASE RecvPropagate
  <2>1. runs[m] = 1 /\ runs' = runs
    BY <1>2, ReceivedOnce DEF RecvPropagate
  <2>2. \A n \in Nodes : n # m => results'[n] \in {results[n], Skipped}
    BY <1>2 DEF RecvPropagate, Recorded, TypeOK
  <2> QED BY <2>1, <2>2 DEF SkippedInv, HasResult
<1>3. CASE RecvCritical \/ RecvAborted
  <2>1. runs[m] = 1 /\ runs' = runs
    BY <1>3, ReceivedOnce DEF RecvCritical, RecvAborted
  <2>2. \A n \in Nodes : n # m => results'[n] \in {results[n], Skipped}
    BY <1>3 DEF RecvCritical, RecvAborted, Abort, Recorded, TypeOK
  <2> QED BY <2>1, <2>2 DEF SkippedInv, HasResult
<1>4. CASE RecvCtxDone
  <2>1. runs' = runs /\ \A n \in Nodes : results'[n] \in {results[n], Skipped}
    BY <1>4 DEF RecvCtxDone, Abort, TypeOK
  <2> QED BY <2>1 DEF SkippedInv, HasResult
<1>5. CASE results' = results /\ runs' = runs
  BY <1>5 DEF SkippedInv, HasResult
<1> QED
  BY <1>1, <1>2, <1>3, <1>4, <1>5
  DEF Next, Loop, Receive, Quiescent, LoopEnds, RunReturns, WorkerExits, Cancel,
      Worker, Child, Launch, Finish, ChildDone, vars

LEMMA RoutesDecided ==
    ASSUME IndInv, SuccessIsComplete, RouteInv, MarksInv, SkippedInv
    PROVE  RoutesDecide
<1>1. ASSUME NEW v \in Nodes, Rejected(v)
      PROVE  runs[v] = 0 /\ results[v] = Skipped
  <2>1. runs[v] = 0 /\ (v \in started \/ dagFailed)
    BY <1>1 DEF RouteInv
  <2>2. HasResult(v)
    BY <2>1 DEF MarksInv
  <2> QED BY <2>1, <2>2 DEF SkippedInv
<1>2. ASSUME phase # "loop", ~dagFailed, NEW v \in Nodes, runs[v] = 0
      PROVE  Behind(v)
  <2>1. Rejected(v)
    BY <1>2 DEF SuccessIsComplete, RouteInv
  <2> QED BY <2>1 DEF Behind
<1> QED BY <1>1, <1>2 DEF RoutesDecide, Rejected

(***************************************************************************)
(* With equal priorities the routes decide: a successor outside the branch *)
(* that is selected is never executed and is Skipped, abort or not, and a  *)
(* DAG that succeeds leaves out only what is behind such a node            *)
(* (engine.go:230-271).                                                    *)
(***************************************************************************)
THEOREM RoutesRespected == UniformPriority => (Spec => []RoutesDecide)
<1> SUFFICES ASSUME UniformPriority PROVE Spec => []RoutesDecide
  OBVIOUS
<1> DEFINE Inv == RouteInv /\ MarksInv /\ SkippedInv
<1>1. Init => Inv
  <2>1. Init => SkippedInv
    BY DEF Init, SkippedInv, HasResult
  <2> QED BY <2>1, InitRoute, InitContract DEF ContractInv
<1>2. IndInv /\ IndInv' /\ Inv /\ [Next]_vars => Inv'
  BY StepRoute, StepMarks, StepSkipped
<1>3. IndInv /\ SuccessIsComplete /\ Inv => RoutesDecide
  BY RoutesDecided
<1> HIDE DEF Inv
<1> QED BY <1>1, <1>2, <1>3, Inductive, SuccessComplete, PTL DEF Spec

(***************************************************************************)
(* What is in doneCh was reported by an execution of its node.             *)
(***************************************************************************)
LEMMA StepReports ==
    ASSUME TypeOK, ReportsInv, [Next]_vars
    PROVE  ReportsInv'
<1> USE DEF schedVars, taskVars, bookVars, poolVars
<1>1. ASSUME cancelled => cancelled', UNCHANGED doneCh, \A e \in async' : e[1] \in Subflow
      PROVE  ReportsInv'
  BY <1>1 DEF ReportsInv, FailureOf
<1>2. ASSUME cancelled => cancelled', doneCh # <<>>, doneCh' = Tail(doneCh), UNCHANGED async
      PROVE  ReportsInv'
  BY <1>2, TailProperties DEF ReportsInv, FailureOf
<1>3. ASSUME NEW e \in Execution, NEW out \in Outcomes(e[1]) \cup FailureOf(e[1]), out \in Outcome,
             doneCh' = Append(doneCh, [node |-> e[1], out |-> out]),
             UNCHANGED cancelled, async' \subseteq async
      PROVE  ReportsInv'
  <2>1. [node |-> e[1], out |-> out] \in NodeResult
    BY <1>3 DEF NodeResult, Execution
  <2>2. /\ Len(doneCh) \in Nat /\ Len(doneCh') = Len(doneCh) + 1
        /\ \A i \in 1..Len(doneCh) : doneCh'[i] = doneCh[i]
        /\ doneCh'[Len(doneCh) + 1] = [node |-> e[1], out |-> out]
    BY <1>3, <2>1, AppendProperties, LenProperties DEF TypeOK
  <2>3. \A i \in 1..Len(doneCh') : i \in 1..Len(doneCh) \/ i = Len(doneCh) + 1
    BY <2>2
  <2>4. \A n : FailureOf(n)' = FailureOf(n)
    BY <1>3 DEF FailureOf
  <2> QED BY <1>3, <2>2, <2>3, <2>4 DEF ReportsInv
<1>4. CASE \/ Dispatch \/ RecvCtxDone \/ LoopEnds \/ RunReturns \/ WorkerExits \/ Cancel
           \/ UNCHANGED vars
  BY <1>1, <1>4 DEF Dispatch, RecvCtxDone, LoopEnds, RunReturns, WorkerExits, Cancel, vars,
                    ReportsInv
<1>5. CASE Receive
  BY <1>2, <1>5 DEF Receive, RecvCritical, RecvPropagate, RecvAborted
<1>6. ASSUME NEW e \in running, Worker(e) PROVE ReportsInv'
  <2>1. CASE Launch(e)
    BY <1>1, <2>1 DEF Launch, ReportsInv
  <2>2. ASSUME NEW out \in Outcomes(e[1]), Finish(e, out) PROVE ReportsInv'
    <3>1. e \in Execution /\ out \in Outcome
      BY OutcomeType DEF TypeOK, Execution
    <3> QED BY <1>3, <2>2, <3>1 DEF Finish
  <2> QED BY <1>6, <2>1, <2>2 DEF Worker
<1>7. ASSUME NEW e \in async, NEW out \in ChildOutcomes(e[1]), ChildDone(e, out)
      PROVE  ReportsInv'
  <2>1. e \in Execution /\ out \in Outcome
    BY OutcomeType DEF TypeOK, Execution
  <2>2. out \in Outcomes(e[1]) \cup FailureOf(e[1])
    BY <1>7 DEF ChildOutcomes, Outcomes, FailureOf, Routes, ReportsInv
  <2> QED BY <1>3, <1>7, <2>1, <2>2 DEF ChildDone
<1> QED BY <1>4, <1>5, <1>6, <1>7 DEF Next, Loop, Child, Quiescent

LEMMA StepPool ==
    ASSUME TypeOK, CountInv, FlightInv, OfferInv, QueueInv, PoolInv, [Next]_vars
    PROVE  PoolInv'
<1> USE DEF schedVars, taskVars, bookVars, poolVars
<1>1. Cardinality(running) \in Nat /\ idle \in Nat /\ MaxWorkers \in Nat
  BY FS_CardinalityType, NodeAssumption DEF CountInv, TypeOK
<1>2. ASSUME UNCHANGED <<idle, running>>, phase' = "loop" => phase = "loop"
      PROVE  PoolInv'
  BY <1>2 DEF PoolInv
<1>3. ASSUME NEW e \in running, running' = running \ {e}, idle' = idle + 1, UNCHANGED phase
      PROVE  PoolInv'
  <2>1. Cardinality(running') = Cardinality(running) - 1
    BY <1>3, FS_RemoveElement DEF CountInv
  <2> QED BY <1>1, <1>3, <2>1 DEF PoolInv
<1>4. CASE Dispatch
  <2> DEFINE e == <<nextTask, runs[nextTask] + 1>>
  <2>1. nextTask = head /\ head \in ready /\ head \in Nodes
    BY <1>4 DEF Dispatch, OfferInv, QueueInv, TypeOK
  <2>2. runs[nextTask] = 0
    BY <2>1 DEF OfferInv, TypeOK
  <2>3. e \notin running
    BY <2>1, <2>2 DEF FlightInv
  <2>4. Cardinality(running \cup {e}) = Cardinality(running) + 1
    BY <2>3, FS_AddElement DEF CountInv
  <2>5. running' = running \cup {e} /\ idle' = idle - 1 /\ phase' = phase /\ idle > 0
    BY <1>4 DEF Dispatch
  <2> HIDE DEF e
  <2> QED BY <1>1, <2>4, <2>5 DEF PoolInv
<1>5. CASE Receive \/ RecvCtxDone \/ LoopEnds \/ RunReturns \/ Cancel \/ UNCHANGED vars
  BY <1>2, <1>5
  DEF Receive, RecvCritical, RecvPropagate, RecvAborted, RecvCtxDone, LoopEnds, RunReturns,
      Cancel, vars
<1>6. CASE WorkerExits
  BY <1>6 DEF WorkerExits, PoolInv
<1>7. ASSUME NEW e \in running, Worker(e) PROVE PoolInv'
  BY <1>3, <1>7 DEF Worker, Launch, Finish
<1>8. ASSUME NEW e \in async, Child(e) PROVE PoolInv'
  BY <1>2, <1>8 DEF Child, ChildDone
<1> QED BY <1>4, <1>5, <1>6, <1>7, <1>8 DEF Next, Loop, Quiescent

(***************************************************************************)
(* Before an abort the nodes that the contract leaves open are the unmarked*)
(* ones, and those it lets start are the heap.                             *)
(***************************************************************************)
LEMMA OpenIsUnmarked ==
    ASSUME IndInv, MarksInv, ~dagFailed
    PROVE  Contract!Open = Nodes \ started /\ Contract!Startable = ready
<1> USE DEF IndInv
<1>1. \A n \in Nodes : Contract!Resolved(n) <=> HasResult(n)
  BY DEF Contract!Resolved, Contract!NoResult, HasResult, NoResult, NoRoute
<1>2. \A n \in Nodes : n \in started <=> runs[n] > 0 \/ HasResult(n)
  BY DEF OfferInv, OrderInv, MarksInv
<1>3. Contract!Open = Nodes \ started
  BY <1>1, <1>2 DEF Contract!Open
<1>4. \A n \in Nodes : Deps[n] \in SUBSET Nodes
  BY GraphAssumption
<1>5. Contract!Startable = {n \in Nodes \ started : Missing(n) = {}}
  BY <1>1, <1>3, <1>4 DEF Contract!Startable, Missing
<1>6. ASSUME NEW n \in ready PROVE n \in Nodes \ started /\ Missing(n) = {}
  BY DEF OrderInv, TypeOK
<1>7. ASSUME NEW n \in Nodes \ started, Missing(n) = {} PROVE n \in ready
  BY <1>7, FS_EmptySet DEF OrderInv, MarksInv
<1> QED BY <1>3, <1>5, <1>6, <1>7

LEMMA SamePlaceSameExecution ==
    ASSUME TypeOK, FlightInv, NEW e \in running, NEW f \in running, e[1] = f[1]
    PROVE  e = f
<1>1. e[2] = 1 /\ f[2] = 1
  BY DEF FlightInv
<1>2. e \in Nodes \X Nat /\ f \in Nodes \X Nat
  BY DEF TypeOK, Execution
<1> QED BY <1>1, <1>2

(***************************************************************************)
(* A receive takes the node of the result from the awaited ones.           *)
(***************************************************************************)
LEMMA AwaitedAfterReceive ==
    ASSUME TypeOK, OfferInv, FlightInv, doneCh # <<>>, doneCh' = Tail(doneCh), async' = async
    PROVE  LET m == Head(doneCh).node
           IN  m \in Awaited /\ Awaited' = Awaited \ {m}
<1> DEFINE m == Head(doneCh).node
<1>1. /\ Len(doneCh) \in Nat /\ Len(doneCh) >= 1
      /\ m = doneCh[1].node
      /\ Len(doneCh') = Len(doneCh) - 1
      /\ \A i \in 1..Len(doneCh') : doneCh'[i] = doneCh[i + 1] /\ doneCh'[i].node # m
      /\ \A e \in async : e[1] # m
  BY TailProperties, ReceivedOnce
<1> HIDE DEF m
<1>2. m \in Awaited
  BY <1>1 DEF Awaited
<1>3. ASSUME NEW n \in Awaited' PROVE n \in Awaited \ {m}
  <2>1. CASE \E e \in async : n = e[1]
    BY <1>1, <2>1 DEF Awaited
  <2>2. ASSUME NEW i \in 1..Len(doneCh'), n = doneCh'[i].node PROVE n \in Awaited \ {m}
    <3>1. i + 1 \in 1..Len(doneCh) /\ n = doneCh[i + 1].node /\ n # m
      BY <1>1, <2>2
    <3> QED BY <3>1 DEF Awaited
  <2> QED BY <2>1, <2>2 DEF Awaited
<1>4. ASSUME NEW n \in Awaited \ {m} PROVE n \in Awaited'
  <2>1. CASE \E e \in async : n = e[1]
    BY <2>1 DEF Awaited
  <2>2. ASSUME NEW i \in 1..Len(doneCh), n = doneCh[i].node PROVE n \in Awaited'
    <3>1. i # 1
      BY <1>1, <1>4, <2>2
    <3>2. i - 1 \in 1..Len(doneCh') /\ (i - 1) + 1 = i
      BY <1>1, <3>1
    <3>3. doneCh'[i - 1] = doneCh[i]
      BY <1>1, <3>2
    <3> QED BY <2>2, <3>2, <3>3 DEF Awaited
  <2> QED BY <1>4, <2>1, <2>2 DEF Awaited
<1>5. Awaited' = Awaited \ {m}
  BY <1>3, <1>4
<1> QED BY <1>2, <1>5 DEF m

LEMMA AwaitedAfterSend ==
    ASSUME TypeOK, NEW e \in Execution, NEW out \in Outcome,
           doneCh' = Append(doneCh, [node |-> e[1], out |-> out]),
           async' = async \ {e}
    PROVE  Awaited' = Awaited \cup {e[1]}
<1>1. [node |-> e[1], out |-> out] \in NodeResult
  BY DEF Execution, NodeResult
<1>2. /\ Len(doneCh) \in Nat /\ Len(doneCh') = Len(doneCh) + 1
      /\ \A i \in 1..Len(doneCh) : doneCh'[i] = doneCh[i]
      /\ doneCh'[Len(doneCh) + 1].node = e[1]
  BY <1>1, AppendProperties, LenProperties DEF TypeOK
<1>3. /\ 1..Len(doneCh') = (1..Len(doneCh)) \cup {Len(doneCh) + 1}
  BY <1>2
<1>4. {doneCh[i].node : i \in 1..Len(doneCh)}' = {doneCh[i].node : i \in 1..Len(doneCh)} \cup {e[1]}
  BY <1>2, <1>3
<1> QED BY <1>4 DEF Awaited

(***************************************************************************)
(* No more nodes than workers are at work.                                 *)
(***************************************************************************)
LEMMA FewerNodesThanExecutions ==
    ASSUME CountInv
    PROVE  Cardinality(Working) <= Cardinality(running) /\ Cardinality(Working) \in Nat
<1> DEFINE f == [e \in running |-> e[1]]
<1>1. f \in Surjection(running, Working)
  BY DEF Surjection, Working
<1> HIDE DEF f
<1>2. IsFiniteSet(Working) /\ Cardinality(Working) <= Cardinality(running)
  BY <1>1, FS_Surjection DEF CountInv
<1> QED BY <1>2, FS_CardinalityType

(***************************************************************************)
(* Every step of the loop is a step of the contract or changes nothing in  *)
(* it.  One lemma for each kind of step.                                   *)
(***************************************************************************)
Executed == {n \in Nodes : runs[n] > 0}
Left     == IF dagFailed THEN ready ELSE {}
KeptInv  == IndInv /\ ContractInv /\ AbortIsJustified

LEMMA Causes == KeptInv => (err = "none" <=> ~dagFailed) /\ (ctxDone <=> ~dagFailed)
  BY DEF KeptInv, ContractInv, MarksInv, AbortIsJustified

LEMMA DispatchStarts ==
    ASSUME KeptInv, Dispatch
    PROVE  \E n \in Nodes : Contract!Start(n)
<1> USE DEF KeptInv, IndInv, ContractInv
<1>1. nextTask = head /\ head \in ready /\ head \in Nodes
  BY DEF Dispatch, OfferInv, QueueInv, TypeOK
<1>2. runs[head] = 0
  BY <1>1 DEF OfferInv, TypeOK
<1>3. Cardinality(Working) < MaxWorkers
  <2>1. idle + Cardinality(running) = MaxWorkers /\ idle > 0
    BY DEF Dispatch, Looping, PoolInv
  <2>2. Cardinality(running) \in Nat /\ idle \in Nat /\ MaxWorkers \in Nat
    BY FS_CardinalityType, NodeAssumption DEF CountInv, TypeOK
  <2> QED BY <2>1, <2>2, FewerNodesThanExecutions
<1>4. Executed' = Executed \cup {head}
  BY <1>1, <1>2 DEF Dispatch, TypeOK, Executed
<1>5. running' = running \cup {<<head, runs[head] + 1>>}
  BY <1>1 DEF Dispatch
<1>6. Working' = Working \cup {head}
  <2> DEFINE x == <<head, runs[head] + 1>>
  <2>1. running' = running \cup {x} /\ x[1] = head
    BY <1>5
  <2> HIDE DEF x
  <2> QED BY <2>1 DEF Working
<1>7. Left' = Left \ {head} /\ head \in IF err = "none" THEN Contract!Startable ELSE Left
  BY <1>1, Causes, OpenIsUnmarked DEF Dispatch, Dequeue, Left
<1>8. UNCHANGED <<Awaited, results, err, cancelled, phase>> /\ phase = "loop"
  BY DEF Dispatch, Awaited, Looping
<1>9. PICK n \in Nodes : n = head
  BY <1>1
<1>10. Contract!Cardinality(Working) = Cardinality(Working)
  BY DEF Contract!Cardinality, Cardinality
<1>11. Contract!Start(n)
  BY <1>3, <1>4, <1>6, <1>7, <1>8, <1>9, <1>10 DEF Contract!Start, Executed, Left
<1> QED BY <1>11

(***************************************************************************)
(* What every receive does to the contract's variables.                    *)
(***************************************************************************)
LEMMA ReceiveRecords ==
    ASSUME KeptInv, Receive
    PROVE  LET m == Head(doneCh).node
               out == Head(doneCh).out
           IN  /\ m \in Nodes /\ m \in started /\ phase = "loop"
               /\ out \in Outcome /\ out \in Contract!MayReport(m)
               /\ CriticalFailure(Head(doneCh)) <=> Contract!Fatal(m, out)
               /\ m \in Awaited /\ Awaited' = Awaited \ {m}
               /\ UNCHANGED <<Executed, Working, phase>>
<1> USE DEF KeptInv, IndInv, ContractInv
<1> DEFINE m == Head(doneCh).node
           out == Head(doneCh).out
<1>1. /\ doneCh # <<>> /\ doneCh' = Tail(doneCh) /\ async' = async /\ running' = running
      /\ runs' = runs /\ phase' = phase /\ phase = "loop"
  BY DEF Receive, RecvCritical, RecvPropagate, RecvAborted, Looping, poolVars
<1>2. m \in Nodes /\ m \in started /\ out \in Outcome
  BY <1>1, ReceivedOnce, RecvType DEF NodeResult
<1>3. m = doneCh[1].node /\ out = doneCh[1].out /\ 1 \in 1..Len(doneCh)
  BY <1>1, TailProperties
<1>4. out \in Outcomes(m) \cup FailureOf(m)
  BY <1>3 DEF ReportsInv
<1>5. m \in Awaited /\ Awaited' = Awaited \ {m}
  BY <1>1, AwaitedAfterReceive
<1>6. CriticalFailure(Head(doneCh)) <=> Contract!Fatal(m, out)
  BY DEF CriticalFailure, Contract!Fatal
<1> HIDE DEF m, out
<1>7. out \in Contract!MayReport(m)
  BY <1>2, <1>4 DEF Contract!MayReport, Contract!Failed, FailureOf, NoRoute
<1>8. UNCHANGED <<Executed, Working, phase>>
  BY <1>1 DEF Executed, Working
<1> QED BY <1>1, <1>2, <1>5, <1>6, <1>7, <1>8 DEF m, out

LEMMA PropagateReports ==
    ASSUME KeptInv, RecvPropagate
    PROVE  \E n \in Nodes : \E out \in Contract!MayReport(n) : Contract!Report(n, out)
<1> USE DEF KeptInv, IndInv, ContractInv
<1> DEFINE m == Head(doneCh).node
           out == Head(doneCh).out
<1>1. /\ m \in Nodes /\ m \in started /\ phase = "loop"
      /\ out \in Outcome /\ out \in Contract!MayReport(m)
      /\ CriticalFailure(Head(doneCh)) <=> Contract!Fatal(m, out)
      /\ m \in Awaited /\ Awaited' = Awaited \ {m}
      /\ UNCHANGED <<Executed, Working, phase>>
  BY ReceiveRecords DEF Receive
<1>2. ~dagFailed /\ dagFailed' = dagFailed /\ ~CriticalFailure(Head(doneCh))
      /\ err' = err /\ cancelled' = cancelled
  BY DEF RecvPropagate
<1>3. Unselected(Head(doneCh)) = Contract!LeftOut(m, out)
  BY <1>2, OpenIsUnmarked DEF Unselected, Contract!LeftOut, Down, Selected, RouteNodes
<1>4. results' = [n \in Nodes |-> IF n \in Unselected(Head(doneCh)) THEN Skipped
                                  ELSE Recorded(Head(doneCh))[n]]
  BY DEF RecvPropagate
<1>5. \A n \in Nodes : Recorded(Head(doneCh))[n] = IF n = m THEN out ELSE results[n]
  BY DEF Recorded, TypeOK
<1>6. Skipped = Contract!Skipped
  BY DEF Skipped, Contract!Skipped, NoRoute
<1> HIDE DEF m, out
<1>7. results' = [n \in Nodes |-> IF n \in Contract!LeftOut(m, out) THEN Contract!Skipped
                                  ELSE IF n = m THEN out ELSE results[n]]
  BY <1>3, <1>4, <1>5, <1>6
<1>8. Contract!Record(m, out, Contract!LeftOut(m, out))
  BY <1>1, <1>7 DEF Contract!Record, Executed
<1>9. err = "none" /\ Left' = Left
  BY <1>2, Causes DEF Left
<1>10. Contract!Report(m, out)
  BY <1>1, <1>2, <1>8, <1>9 DEF Contract!Report, Left
<1> QED BY <1>1, <1>10

LEMMA CriticalReports ==
    ASSUME KeptInv, RecvCritical
    PROVE  \E n \in Nodes : \E out \in Contract!MayReport(n) :
               Contract!ReportFatal(n, out) \/ Contract!ReportLate(n, out)
<1> USE DEF KeptInv, IndInv, ContractInv
<1> DEFINE m == Head(doneCh).node
           out == Head(doneCh).out
           base == Recorded(Head(doneCh))
<1>1. /\ m \in Nodes /\ m \in started /\ phase = "loop"
      /\ out \in Outcome /\ out \in Contract!MayReport(m)
      /\ CriticalFailure(Head(doneCh)) <=> Contract!Fatal(m, out)
      /\ m \in Awaited /\ Awaited' = Awaited \ {m}
      /\ UNCHANGED <<Executed, Working, phase>>
  BY ReceiveRecords DEF Receive
<1>2. /\ dagFailed' /\ cancelled' = TRUE /\ ready' = ready
      /\ err' = IF err = "none" THEN "critical" ELSE err
      /\ results' = [n \in Nodes |-> IF n \in Unresolved(base) THEN Skipped ELSE base[n]]
      /\ CriticalFailure(Head(doneCh))
  BY DEF RecvCritical, Abort, schedVars
<1>3. \A n \in Nodes : base[n] = IF n = m THEN out ELSE results[n]
  BY DEF Recorded, TypeOK
<1>4. Skipped = Contract!Skipped
  BY DEF Skipped, Contract!Skipped, NoRoute
<1> HIDE DEF m, out, base
<1>5. Unresolved(base) = {n \in Nodes \ started : ~HasResult(n)}
  BY <1>1, <1>3 DEF Unresolved, HasResult
<1>6. ASSUME NEW S, Unresolved(base) = S PROVE Contract!Record(m, out, S)
  <2>1. results' = [n \in Nodes |-> IF n \in S THEN Contract!Skipped
                                    ELSE IF n = m THEN out ELSE results[n]]
    BY <1>2, <1>3, <1>4, <1>6
  <2> QED BY <1>1, <2>1 DEF Contract!Record, Executed
<1>7. CASE dagFailed
  <2>1. Unresolved(base) = {}
    BY <1>5, <1>7 DEF MarksInv
  <2>2. err # "none" /\ err' = err /\ Left' = Left /\ cancelled' = cancelled
    BY <1>2, <1>7, Causes DEF MarksInv, Left, TypeOK
  <2>3. Contract!ReportLate(m, out)
    BY <1>6, <2>1, <2>2 DEF Contract!ReportLate, Left
  <2> QED BY <1>1, <2>3
<1>8. CASE ~dagFailed
  <2>1. Unresolved(base) = Contract!Open
    BY <1>5, <1>8, OpenIsUnmarked DEF OrderInv
  <2>2. err = "none" /\ err' = "critical" /\ Left' = Contract!Startable
    BY <1>2, <1>8, Causes, OpenIsUnmarked DEF Left
  <2>3. Contract!ReportFatal(m, out)
    BY <1>1, <1>2, <1>6, <2>1, <2>2 DEF Contract!ReportFatal, Left
  <2> QED BY <1>1, <2>3
<1> QED BY <1>7, <1>8

LEMMA AbortedReports ==
    ASSUME KeptInv, RecvAborted
    PROVE  \E n \in Nodes : \E out \in Contract!MayReport(n) : Contract!ReportLate(n, out)
<1> USE DEF KeptInv, IndInv, ContractInv
<1> DEFINE m == Head(doneCh).node
           out == Head(doneCh).out
<1>1. /\ m \in Nodes /\ phase = "loop" /\ out \in Contract!MayReport(m)
      /\ m \in Awaited /\ Awaited' = Awaited \ {m}
      /\ UNCHANGED <<Executed, Working, phase>>
  BY ReceiveRecords DEF Receive
<1>2. /\ dagFailed /\ dagFailed' = dagFailed /\ ready' = ready
      /\ err' = err /\ cancelled' = cancelled
      /\ results' = Recorded(Head(doneCh))
  BY DEF RecvAborted, Enqueue
<1>3. results' = [n \in Nodes |-> IF n \in {} THEN Contract!Skipped
                                  ELSE IF n = m THEN out ELSE results[n]]
  BY <1>2 DEF Recorded, TypeOK
<1> HIDE DEF m, out
<1>4. Contract!Record(m, out, {})
  BY <1>1, <1>3 DEF Contract!Record, Executed
<1>5. err # "none" /\ Left' = Left
  BY <1>2, Causes DEF Left
<1>6. Contract!ReportLate(m, out)
  BY <1>2, <1>4, <1>5 DEF Contract!ReportLate, Left
<1> QED BY <1>1, <1>6

LEMMA CtxDoneGivesUp ==
    ASSUME KeptInv, RecvCtxDone
    PROVE  Contract!GiveUp
<1> USE DEF KeptInv, IndInv, ContractInv
<1>1. ~dagFailed /\ err = "none"
  BY Causes DEF RecvCtxDone
<1>2. /\ dagFailed' /\ err' = "context" /\ ready' = ready /\ cancelled /\ phase = "loop"
      /\ results' = [n \in Nodes |-> IF n \in Unresolved(results) THEN Skipped ELSE results[n]]
      /\ UNCHANGED <<Executed, Working, Awaited, cancelled, phase>>
  BY <1>1 DEF RecvCtxDone, Abort, Looping, schedVars, poolVars, Executed, Working, Awaited
<1>3. Unresolved(results) = Contract!Open
  BY <1>1, OpenIsUnmarked DEF Unresolved, OrderInv, HasResult
<1>4. Left' = Contract!Startable
  BY <1>1, <1>2, OpenIsUnmarked DEF Left
<1>5. Skipped = Contract!Skipped
  BY DEF Skipped, Contract!Skipped, NoRoute
<1> QED BY <1>1, <1>2, <1>3, <1>4, <1>5 DEF Contract!GiveUp, Executed, Left

LEMMA LoopEndEnds ==
    ASSUME KeptInv, LoopEnds
    PROVE  Contract!End
<1> USE DEF KeptInv, IndInv, ContractInv
<1>1. phase = "loop" /\ phase' = "stopped" /\ cancelled' = TRUE /\ completed >= N
  BY DEF LoopEnds
<1>2. UNCHANGED <<Executed, Working, Awaited, results, err, Left>>
  BY DEF LoopEnds, schedVars, bookVars, poolVars, Executed, Working, Awaited, Left
<1>3. ASSUME err = "none"
      PROVE  (\A n \in Nodes : Contract!Resolved(n)) /\ Working = {} /\ Awaited = {}
  <2>1. /\ \A n \in Nodes : HasResult(n)
        /\ running = {} /\ async = {} /\ doneCh = <<>>
    BY <1>1, <1>3, Causes, CompleteAtEnd
  <2>2. Len(doneCh) = 0
    BY <2>1, EmptySeq
  <2> QED BY <2>1, <2>2
          DEF Contract!Resolved, Contract!NoResult, HasResult, NoResult, NoRoute, Working, Awaited
<1> QED BY <1>1, <1>2, <1>3 DEF Contract!End, Executed, Left

LEMMA WorkLeaves ==
    ASSUME KeptInv, NEW e \in running, Worker(e)
    PROVE  e[1] \in Nodes /\ Contract!LeaveWorker(e[1])
<1> USE DEF KeptInv, IndInv, ContractInv
<1>1. e \in Execution /\ e[1] \in Nodes /\ e[1] \in Working
  BY DEF TypeOK, Execution, Working
<1>2. running' = running \ {e}
      /\ UNCHANGED <<Executed, results, err, Left, cancelled, phase>>
  <2>1. /\ running' = running \ {e}
        /\ UNCHANGED <<ready, runs, dagFailed, results, err, cancelled, phase>>
    BY DEF Worker, Launch, Finish, schedVars, bookVars
  <2> QED BY <2>1 DEF Executed, Left
<1>3. Working' = Working \ {e[1]}
  BY <1>2, SamePlaceSameExecution DEF Working
<1>4. ASSUME Launch(e)
      PROVE  Awaited' = Awaited \cup {e[1]}
  <2>1. async' = async \cup {e} /\ doneCh' = doneCh
    BY <1>4 DEF Launch
  <2> QED BY <2>1 DEF Awaited
<1>5. ASSUME NEW out \in Outcomes(e[1]), Finish(e, out)
      PROVE  Awaited' = Awaited \cup {e[1]}
  <2>1. out \in Outcome
    BY <1>1, OutcomeType
  <2>2. async' = async \ {e} /\ doneCh' = Append(doneCh, [node |-> e[1], out |-> out])
    BY <1>5 DEF Finish, FlightInv
  <2> QED BY <1>1, <2>1, <2>2, AwaitedAfterSend
<1>6. Awaited' = Awaited \cup {e[1]}
  BY <1>4, <1>5 DEF Worker
<1> QED BY <1>1, <1>2, <1>3, <1>6 DEF Contract!LeaveWorker, Executed, Left

LEMMA ChildStutters ==
    ASSUME KeptInv, NEW e \in async, Child(e)
    PROVE  UNCHANGED Contract!vars
<1> USE DEF KeptInv, IndInv, ContractInv
<1>1. e \in Execution
  BY DEF TypeOK
<1>2. PICK out \in ChildOutcomes(e[1]) : ChildDone(e, out)
  BY DEF Child
<1>3. out \in Outcome
  BY <1>1, OutcomeType DEF Execution
<1>4. Awaited' = Awaited \cup {e[1]}
  BY <1>1, <1>2, <1>3, AwaitedAfterSend DEF ChildDone
<1>5. Awaited' = Awaited
  BY <1>4 DEF Awaited
<1>6. UNCHANGED <<Executed, Working, results, err, Left, cancelled, phase>>
  BY <1>2 DEF ChildDone, schedVars, bookVars, Executed, Working, Left
<1> QED BY <1>5, <1>6 DEF Contract!vars, Executed, Left

LEMMA StepKeepsContract ==
    ASSUME KeptInv, [Next]_vars
    PROVE  [Contract!Next]_Contract!vars
<1> USE DEF schedVars, taskVars, bookVars, poolVars
<1>1. CASE Dispatch
  BY <1>1, DispatchStarts DEF Contract!Next
<1>2. CASE RecvPropagate
  BY <1>2, PropagateReports DEF Contract!Next
<1>3. CASE RecvCritical
  BY <1>3, CriticalReports DEF Contract!Next
<1>4. CASE RecvAborted
  BY <1>4, AbortedReports DEF Contract!Next
<1>5. CASE RecvCtxDone
  BY <1>5, CtxDoneGivesUp DEF Contract!Next
<1>6. CASE LoopEnds
  BY <1>6, LoopEndEnds DEF Contract!Next
<1>7. CASE RunReturns
  <2>1. UNCHANGED <<Executed, Working, Awaited, Left>> /\ Working = {}
    BY <1>7 DEF RunReturns, Executed, Working, Awaited, Left
  <2>2. Contract!Return
    BY <1>7, <2>1 DEF RunReturns, Contract!Return, Executed, Left
  <2> QED BY <2>2 DEF Contract!Next
<1>8. ASSUME NEW e \in running, Worker(e) PROVE Contract!Next
  BY <1>8, WorkLeaves DEF Contract!Next
<1>9. ASSUME NEW e \in async, Child(e) PROVE UNCHANGED Contract!vars
  BY <1>9, ChildStutters
<1>10. CASE WorkerExits \/ UNCHANGED vars
  <2>1. UNCHANGED <<Executed, Working, Awaited, results, err, Left, cancelled, phase>>
    BY <1>10 DEF WorkerExits, vars, Executed, Working, Awaited, Left
  <2> QED BY <2>1 DEF Contract!vars, Executed, Left
<1>11. CASE Cancel
  <2>1. UNCHANGED <<Executed, Working, Awaited, results, err, Left, phase>> /\ cancelled' = TRUE
    BY <1>11 DEF Cancel, Executed, Working, Awaited, Left
  <2>2. Contract!Cancel
    BY <2>1 DEF Contract!Cancel, Executed, Left
  <2> QED BY <2>2 DEF Contract!Next
<1> QED
  BY <1>1, <1>2, <1>3, <1>4, <1>5, <1>6, <1>7, <1>8, <1>9, <1>10, <1>11
  DEF Next, Loop, Receive, Quiescent

LEMMA InitKeepsContract == Init => Contract!Init
<1> SUFFICES ASSUME Init PROVE Contract!Init
  OBVIOUS
<1>1. Executed = {} /\ Working = {} /\ Left = {}
  BY DEF Init, Executed, Working, Left
<1>2. Len(doneCh) = 0 /\ async = {}
  BY EmptySeq DEF Init
<1>3. Awaited = {}
  BY <1>2 DEF Awaited
<1>4. results = [n \in Nodes |-> Contract!NoResult]
  BY DEF Init, NoResult, NoRoute, Contract!NoResult
<1> QED BY <1>1, <1>3, <1>4 DEF Init, Contract!Init, Executed, Left

(***************************************************************************)
(* With equal priorities the loop keeps the contract of a run, for every   *)
(* graph, every pool and every choice of critical, conditional, route and  *)
(* subflow nodes (engine.go:120-319).                                      *)
(***************************************************************************)
THEOREM ContractKept == UniformPriority => (Spec => ImplementsContract)
<1> SUFFICES ASSUME UniformPriority PROVE Spec => ImplementsContract
  OBVIOUS
<1>1. Init => ContractInv
  BY InitContract
<1>2. IndInv /\ ContractInv /\ [Next]_vars => ContractInv'
  BY StepMarks, StepReports, StepPool DEF IndInv, ContractInv
<1>3. IndInv /\ ContractInv /\ AbortIsJustified /\ [Next]_vars => [Contract!Next]_Contract!vars
  BY StepKeepsContract DEF KeptInv
<1>4. Spec => []ContractInv
  BY <1>1, <1>2, Inductive, PTL DEF Spec
<1> QED
  BY <1>3, <1>4, InitKeepsContract, Inductive, AbortJustified, PTL
  DEF Spec, ImplementsContract, Contract!Spec

=============================================================================
