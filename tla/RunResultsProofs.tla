---------------------------- MODULE RunResultsProofs ----------------------------
(***************************************************************************)
(* Proofs about module RunResults, for all callers, DAGs and pools.        *)
(***************************************************************************)
EXTENDS Exports, Loops, FiniteSetTheorems, FunctionTheorems, SequenceTheorems, TLAPS

-----------------------------------------------------------------------------
(***************************************************************************)
(* The types, but for what is known of objects that were never made.       *)
(***************************************************************************)
NodeResults == [status : Statuses, route : Int, skip : Reasons, sub : DagObjs \cup {None}]
DagResults  == [status : Statuses, dag : Dags \cup {None}, results : [Nodes -> NodeObjs \cup {None}]]

ObjType == node \in [NodeObjs -> NodeResults] /\ dag \in [DagObjs -> DagResults]

PoolType ==
    /\ nodePool \in [NodeObjs -> {0, 1}] /\ nodesMade \in 0..MaxNodes
    /\ dagPool \in [DagObjs -> {0, 1}] /\ dagsMade \in 0..MaxDags
    /\ \A p \in NodeObjs : p > nodesMade => nodePool[p] = 0
    /\ \A o \in DagObjs : o > dagsMade => dagPool[o] = 0

LoopState == [late : Nat, skip : SUBSET Nodes, taken : SUBSET Nodes, heap : SUBSET Nodes]

LoopType ==
    /\ closed \subseteq open /\ aborted \subseteq open /\ open \subseteq DagObjs
    /\ loop \in [DagObjs -> LoopState]
    /\ flight \subseteq [nr : NodeObjs, node : Nodes, parent : open \cup {None}, child : DagObjs]

CallType ==
    /\ result \in [Callers -> DagObjs \cup {None}]
    /\ phase \in [Callers -> {"idle", "run", "returned", "release"}]
    /\ runs \in 0..MaxRuns
    /\ stack \in [Callers -> Seq(NodeObjs \cup DagObjs)]
    /\ \A c \in Callers : /\ phase[c] = "release" <=> stack[c] # <<>>
                          /\ phase[c] # "idle" => result[c] # None

HookType == DOMAIN chain = Dags /\ executed \in [Dags -> Nat]

(***************************************************************************)
(* Every object has one holder at most, and what Get may return has none   *)
(* and is as New makes it.                                                 *)
(***************************************************************************)
NodesOnce ==
    /\ \A o, e \in DagObjs : \A n, m \in Nodes :
          dag[o].results[n] # None /\ dag[o].results[n] = dag[e].results[m] => o = e /\ n = m
    /\ \A f \in flight : \A o \in DagObjs : \A n \in Nodes : dag[o].results[n] # f.nr
    /\ \A f, g \in flight : f.nr = g.nr => f = g

DagsOnce ==
    /\ \A c, d \in Callers : result[c] # None /\ result[c] = result[d] => c = d
    /\ \A p, q \in NodeObjs : node[p].sub # None /\ node[p].sub = node[q].sub => p = q
    /\ \A c \in Callers : \A p \in NodeObjs : result[c] # None => result[c] # node[p].sub
    /\ \A f \in flight : /\ \A c \in Callers : result[c] # f.child
                         /\ \A p \in NodeObjs : node[p].sub # f.child
    /\ \A f, g \in flight : f.child = g.child => f = g

IdleNode(p) == nodePool[p] > 0 \/ p > nodesMade
IdleDag(o)  == dagPool[o] > 0 \/ o > dagsMade

HeldNode(p) ==
    \/ \E o \in DagObjs : \E n \in Nodes : dag[o].results[n] = p
    \/ \E f \in flight : f.nr = p

HeldDag(o) ==
    \/ \E c \in Callers : result[c] = o
    \/ \E p \in NodeObjs : node[p].sub = o
    \/ \E f \in flight : f.child = o

NodesIdle == \A p \in NodeObjs : IdleNode(p) => ~HeldNode(p) /\ node[p] = NewNode
DagsIdle  == \A o \in DagObjs : IdleDag(o) => ~HeldDag(o) /\ dag[o] = NewDag

(***************************************************************************)
(* A loop fills the result of a Run that has not returned, or of the child *)
(* of a subflow that has not sent: never one that another result refers to.*)
(***************************************************************************)
OpenHeld ==
    \A o \in open : \/ \E c \in Callers : phase[c] = "run" /\ result[c] = o
                    \/ \E f \in flight : f.child = o

(***************************************************************************)
(* The Resets in progress: a path down from the result of the caller, its  *)
(* fields cleared, and disjoint from the path of any other caller.         *)
(***************************************************************************)
Odd(i) == i % 2 = 1

Links(s, i) == IF Odd(i) THEN \E n \in Nodes : dag[s[i]].results[n] = s[i + 1]
                         ELSE node[s[i]].sub = s[i + 1]

Cleared(x, i) ==
    IF Odd(i) THEN x \in DagObjs /\ dag[x].status = "Pending" /\ dag[x].dag = None
    ELSE x \in NodeObjs /\ node[x].status = "Pending" /\ node[x].route = -1 /\ node[x].skip = "none"

Path(c) ==
    /\ stack[c] # <<>> => stack[c][1] = result[c]
    /\ \A i \in 1..Len(stack[c]) :
          /\ Cleared(stack[c][i], i)
          /\ i < Len(stack[c]) => Links(stack[c], i)

Apart ==
    \A c, d \in Callers : \A i \in 1..Len(stack[c]) : \A j \in 1..Len(stack[d]) :
        (Odd(i) <=> Odd(j)) /\ stack[c][i] = stack[d][j] => c = d /\ i = j

Stacks == Apart /\ \A c \in Callers : Path(c)

IndInv ==
    /\ ObjType /\ PoolType /\ LoopType /\ CallType /\ HookType
    /\ NodesOnce /\ DagsOnce /\ NodesIdle /\ DagsIdle /\ OpenHeld /\ Stacks

-----------------------------------------------------------------------------
(***************************************************************************)
(* Objects, and getting one from a pool.                                   *)
(***************************************************************************)
LEMMA Objects ==
    /\ DagObjs \subseteq Nat /\ NodeObjs \subseteq Nat /\ None \notin Nat
    /\ MaxDags \in Nat /\ MaxNodes \in Nat /\ MaxRuns \in Nat
    /\ NewNode \in NodeResults /\ NewNode.sub = None
    /\ NewDag \in DagResults /\ \A n \in Nodes : NewDag.results[n] = None
BY ResultsAssumption DEF ResultsAssumption, DagObjs, NodeObjs, NewNode, NodeResults, NewDag,
   DagResults, Statuses, Reasons

LEMMA AcquireNode ==
    ASSUME PoolType, NEW p \in FreeNodes, acquireNodeResult(p)
    PROVE  /\ p \in NodeObjs /\ IdleNode(p) /\ ~IdleNode(p)'
           /\ \A q \in NodeObjs : q # p => (IdleNode(q)' <=> IdleNode(q))
           /\ nodePool' \in [NodeObjs -> {0, 1}] /\ nodesMade' \in 0..MaxNodes
           /\ \A q \in NodeObjs : q > nodesMade' => nodePool'[q] = 0
<1>1. p \in NodeObjs /\ NodeObjs \subseteq Nat /\ NodeObjs = 1..MaxNodes /\ MaxNodes \in Nat
  BY Objects DEF FreeNodes, NodeObjs
<1>2. nodesMade \in 0..MaxNodes /\ nodePool \in [NodeObjs -> {0, 1}]
      /\ \A q \in NodeObjs : q > nodesMade => nodePool[q] = 0
  BY DEF PoolType
<1>3. CASE p <= nodesMade
  <2>1. nodePool' = [nodePool EXCEPT ![p] = @ - 1] /\ nodesMade' = nodesMade
    BY <1>3 DEF acquireNodeResult
  <2>2. nodePool[p] = 1
    BY <1>1, <1>2, <1>3 DEF FreeNodes
  <2>3. /\ nodePool'[p] = 0 /\ \A q \in NodeObjs : q # p => nodePool'[q] = nodePool[q]
        /\ nodePool' \in [NodeObjs -> {0, 1}]
    BY <1>1, <1>2, <2>1, <2>2
  <2> QED BY <1>1, <1>2, <1>3, <2>1, <2>2, <2>3 DEF IdleNode
<1>4. CASE p > nodesMade
  <2>1. nodesMade' = p /\ nodePool' = nodePool
    BY <1>1, <1>2, <1>4 DEF acquireNodeResult
  <2>2. p = nodesMade + 1 /\ nodePool[p] = 0
    BY <1>1, <1>2, <1>4 DEF FreeNodes
  <2> QED BY <1>1, <1>2, <1>4, <2>1, <2>2 DEF IdleNode
<1> QED BY <1>1, <1>2, <1>3, <1>4

LEMMA AcquireDag ==
    ASSUME PoolType, NEW o \in FreeDags, AcquireDagResult(o)
    PROVE  /\ o \in DagObjs /\ IdleDag(o) /\ ~IdleDag(o)'
           /\ \A e \in DagObjs : e # o => (IdleDag(e)' <=> IdleDag(e))
           /\ dagPool' \in [DagObjs -> {0, 1}] /\ dagsMade' \in 0..MaxDags
           /\ \A e \in DagObjs : e > dagsMade' => dagPool'[e] = 0
<1>1. o \in DagObjs /\ DagObjs \subseteq Nat /\ DagObjs = 1..MaxDags /\ MaxDags \in Nat
  BY Objects DEF FreeDags, DagObjs
<1>2. dagsMade \in 0..MaxDags /\ dagPool \in [DagObjs -> {0, 1}]
      /\ \A e \in DagObjs : e > dagsMade => dagPool[e] = 0
  BY DEF PoolType
<1>3. CASE o <= dagsMade
  <2>1. dagPool' = [dagPool EXCEPT ![o] = @ - 1] /\ dagsMade' = dagsMade
    BY <1>3 DEF AcquireDagResult
  <2>2. dagPool[o] = 1
    BY <1>1, <1>2, <1>3 DEF FreeDags
  <2>3. /\ dagPool'[o] = 0 /\ \A e \in DagObjs : e # o => dagPool'[e] = dagPool[e]
        /\ dagPool' \in [DagObjs -> {0, 1}]
    BY <1>1, <1>2, <2>1, <2>2
  <2> QED BY <1>1, <1>2, <1>3, <2>1, <2>2, <2>3 DEF IdleDag
<1>4. CASE o > dagsMade
  <2>1. dagsMade' = o /\ dagPool' = dagPool
    BY <1>1, <1>2, <1>4 DEF AcquireDagResult
  <2>2. o = dagsMade + 1 /\ dagPool[o] = 0
    BY <1>1, <1>2, <1>4 DEF FreeDags
  <2> QED BY <1>1, <1>2, <1>4, <2>1, <2>2 DEF IdleDag
<1> QED BY <1>1, <1>2, <1>3, <1>4

(***************************************************************************)
(* An object goes back to its pool.                                        *)
(***************************************************************************)
LEMMA PutsNode ==
    ASSUME PoolType, NEW p \in NodeObjs, ~IdleNode(p),
           nodePool' = [nodePool EXCEPT ![p] = @ + 1], nodesMade' = nodesMade
    PROVE  /\ nodePool' \in [NodeObjs -> {0, 1}]
           /\ \A q \in NodeObjs : q > nodesMade' => nodePool'[q] = 0
           /\ \A q \in NodeObjs : IdleNode(q)' => q = p \/ IdleNode(q)
<1>1. nodePool \in [NodeObjs -> {0, 1}] /\ nodePool[p] = 0 /\ ~(p > nodesMade)
  BY DEF PoolType, IdleNode
<1>2. /\ nodePool'[p] = 1 /\ \A q \in NodeObjs : q # p => nodePool'[q] = nodePool[q]
      /\ nodePool' \in [NodeObjs -> {0, 1}]
  BY <1>1
<1> QED BY <1>1, <1>2 DEF PoolType, IdleNode

LEMMA PutsDag ==
    ASSUME PoolType, NEW o \in DagObjs, ~IdleDag(o),
           dagPool' = [dagPool EXCEPT ![o] = @ + 1], dagsMade' = dagsMade
    PROVE  /\ dagPool' \in [DagObjs -> {0, 1}]
           /\ \A e \in DagObjs : e > dagsMade' => dagPool'[e] = 0
           /\ \A e \in DagObjs : IdleDag(e)' => e = o \/ IdleDag(e)
<1>1. dagPool \in [DagObjs -> {0, 1}] /\ dagPool[o] = 0 /\ ~(o > dagsMade)
  BY DEF PoolType, IdleDag
<1>2. /\ dagPool'[o] = 1 /\ \A e \in DagObjs : e # o => dagPool'[e] = dagPool[e]
      /\ dagPool' \in [DagObjs -> {0, 1}]
  BY <1>1
<1> QED BY <1>1, <1>2 DEF PoolType, IdleDag

(***************************************************************************)
(* A result is recorded: one entry of one table changes.                   *)
(***************************************************************************)
LEMMA RecordedTable ==
    ASSUME ObjType, NEW o \in DagObjs, NEW n \in Nodes, NEW p \in NodeObjs, dag' = Recorded(o, n, p)
    PROVE  /\ dag' \in [DagObjs -> DagResults]
           /\ \A e \in DagObjs : dag'[e].status = dag[e].status /\ dag'[e].dag = dag[e].dag
           /\ \A e \in DagObjs : e # o => dag'[e] = dag[e]
           /\ dag'[o].results[n] = p
           /\ \A m \in Nodes : m # n => dag'[o].results[m] = dag[o].results[m]
BY DEF ObjType, DagResults, Recorded

(***************************************************************************)
(* Numbers.                                                                *)
(***************************************************************************)
LEMMA Parity == Odd(1) /\ \A i \in Nat : (Odd(i + 1) <=> ~Odd(i)) /\ (Odd(i) <=> i % 2 = 1)
                                         /\ (~Odd(i) <=> i % 2 = 0)
BY DEF Odd

LEMMA ZeroOrMore == \A k \in Nat : k = 0 \/ (k > 0 /\ 1 \in 1..k)
OBVIOUS

-----------------------------------------------------------------------------
(***************************************************************************)
(* What is on a stack is held, and no loop fills it any more.              *)
(***************************************************************************)
LEMMA NotFilled ==
    ASSUME IndInv, NEW o \in open
    PROVE  /\ o \in DagObjs /\ HeldDag(o) /\ ~IdleDag(o)
           /\ \A p \in NodeObjs : node[p].sub # o
           /\ \A c \in Callers : result[c] = o => phase[c] = "run"
<1>1. o \in DagObjs /\ HeldDag(o)
  BY DEF IndInv, LoopType, OpenHeld, HeldDag
<1>2. \A p \in NodeObjs : node[p].sub # o
  <2>1. o # None
    BY <1>1, Objects
  <2> QED BY <2>1 DEF IndInv, OpenHeld, DagsOnce
<1>3. \A c \in Callers : result[c] = o => phase[c] = "run"
  <2>1. o # None
    BY <1>1, Objects
  <2> QED BY <2>1 DEF IndInv, OpenHeld, DagsOnce
<1> QED BY <1>1, <1>2, <1>3 DEF IndInv, DagsIdle

LEMMA OnStack ==
    ASSUME IndInv, NEW c \in Callers, NEW i \in 1..Len(stack[c])
    PROVE  /\ Odd(i) => /\ stack[c][i] \in DagObjs /\ ~IdleDag(stack[c][i])
                        /\ stack[c][i] \notin open
           /\ ~Odd(i) => /\ stack[c][i] \in NodeObjs /\ ~IdleNode(stack[c][i])
                         /\ i > 1 /\ stack[c][i - 1] \in DagObjs
                         /\ \E n \in Nodes : dag[stack[c][i - 1]].results[n] = stack[c][i]
                         /\ \A f \in flight : f.nr # stack[c][i]
           /\ Odd(i) /\ i > 1 => /\ stack[c][i - 1] \in NodeObjs
                                 /\ node[stack[c][i - 1]].sub = stack[c][i]
           /\ i = 1 => stack[c][i] = result[c] /\ phase[c] = "release"
<1> DEFINE s == stack[c]
<1>1. s \in Seq(NodeObjs \cup DagObjs) /\ Len(s) \in Nat /\ i \in Nat /\ i >= 1
  BY LenProperties DEF IndInv, CallType
<1>2. s # <<>>
  BY <1>1
<1>3. Path(c) /\ phase[c] = "release"
  BY <1>2 DEF IndInv, Stacks, CallType
<1> HIDE DEF s
<1>4. Cleared(s[i], i)
  BY <1>3 DEF Path, s
<1>5. i = 1 => s[i] = result[c]
  BY <1>2, <1>3 DEF Path, s
<1>6. i > 1 => Links(s, i - 1) /\ Cleared(s[i - 1], i - 1) /\ (Odd(i) <=> ~Odd(i - 1))
             /\ (i - 1) + 1 = i
  <2> SUFFICES ASSUME i > 1 PROVE Links(s, i - 1) /\ Cleared(s[i - 1], i - 1) /\ (Odd(i) <=> ~Odd(i - 1))
                                  /\ (i - 1) + 1 = i
    OBVIOUS
  <2>1. i - 1 \in 1..Len(s) /\ i - 1 < Len(s) /\ i - 1 \in Nat /\ (i - 1) + 1 = i
    BY <1>1 DEF s
  <2> QED BY <1>3, <2>1, Parity DEF Path, s
<1>7. Odd(1)
  BY Parity
<1>8. Odd(i) /\ i > 1 => s[i - 1] \in NodeObjs /\ node[s[i - 1]].sub = s[i]
  BY <1>6 DEF Links, Cleared
<1>9. ~Odd(i) => /\ i > 1 /\ s[i - 1] \in DagObjs /\ s[i] \in NodeObjs
                 /\ \E n \in Nodes : dag[s[i - 1]].results[n] = s[i]
  BY <1>1, <1>4, <1>6, <1>7 DEF Links, Cleared
<1>10. Odd(i) => s[i] \in DagObjs /\ HeldDag(s[i])
  BY <1>1, <1>4, <1>5, <1>8 DEF Cleared, HeldDag
<1>11. Odd(i) => ~IdleDag(s[i]) /\ s[i] \notin open
  <2>1. Odd(i) => ~IdleDag(s[i])
    BY <1>10 DEF IndInv, DagsIdle
  <2>2. Odd(i) => s[i] \notin open
    BY <1>1, <1>3, <1>5, <1>8, NotFilled
  <2> QED BY <2>1, <2>2
<1>12. ~Odd(i) => HeldNode(s[i]) /\ \A f \in flight : f.nr # s[i]
  BY <1>9 DEF HeldNode, IndInv, NodesOnce
<1>13. ~Odd(i) => ~IdleNode(s[i])
  BY <1>9, <1>12 DEF IndInv, NodesIdle
<1> QED BY <1>3, <1>5, <1>8, <1>9, <1>10, <1>11, <1>12, <1>13 DEF s

(***************************************************************************)
(* A path stays one if its objects keep what they refer to, and their      *)
(* fields stay or are cleared.                                             *)
(***************************************************************************)
LEMMA PathKept ==
    ASSUME NEW c \in Callers, Path(c), stack'[c] = stack[c], stack[c] # <<>> => result'[c] = result[c],
           \A i \in 1..Len(stack[c]) :
              /\ Odd(i) => /\ dag'[stack[c][i]].results = dag[stack[c][i]].results
                           /\ dag'[stack[c][i]].status \in {dag[stack[c][i]].status, "Pending"}
                           /\ dag'[stack[c][i]].dag \in {dag[stack[c][i]].dag, None}
              /\ ~Odd(i) => /\ node'[stack[c][i]].sub = node[stack[c][i]].sub
                            /\ node'[stack[c][i]].status \in {node[stack[c][i]].status, "Pending"}
                            /\ node'[stack[c][i]].route \in {node[stack[c][i]].route, -1}
                            /\ node'[stack[c][i]].skip \in {node[stack[c][i]].skip, "none"}
    PROVE  Path(c)'
<1> DEFINE s == stack[c]
<1>1. ASSUME NEW i \in 1..Len(s) PROVE Cleared(s[i], i)' /\ (i < Len(s) => Links(s, i)')
  <2>1. Cleared(s[i], i) /\ (i < Len(s) => Links(s, i))
    BY DEF Path
  <2>2. CASE Odd(i)
    BY <2>1, <2>2, SMTT(30) DEF Cleared, Links, Odd
  <2>3. CASE ~Odd(i)
    BY <2>1, <2>3 DEF Cleared, Links, Odd
  <2> QED BY <2>2, <2>3
<1> QED BY <1>1 DEF Path

LEMMA StacksKept ==
    ASSUME IndInv, stack' = stack, \A c \in Callers : phase[c] = "release" => result'[c] = result[c],
           \A o \in DagObjs : ~IdleDag(o) /\ o \notin open => dag'[o] = dag[o],
           \A p \in NodeObjs : ~IdleNode(p) /\ (\A f \in flight : f.nr # p) => node'[p] = node[p]
    PROVE  Stacks'
<1>1. Apart'
  BY DEF IndInv, Stacks, Apart, Odd
<1>2. ASSUME NEW c \in Callers PROVE Path(c)'
  <2>1. Path(c) /\ (stack[c] # <<>> => phase[c] = "release")
    BY DEF IndInv, Stacks, CallType
  <2>2. \A i \in 1..Len(stack[c]) : /\ Odd(i) => dag'[stack[c][i]] = dag[stack[c][i]]
                                    /\ ~Odd(i) => node'[stack[c][i]] = node[stack[c][i]]
    BY OnStack
  <2> QED BY <2>1, <2>2, PathKept
<1> QED BY <1>1, <1>2 DEF Stacks

-----------------------------------------------------------------------------
(***************************************************************************)
(* The state of a loop.                                                    *)
(***************************************************************************)
LEMMA DoneType ==
    ASSUME LoopType, NEW o \in DagObjs, NEW n \in Nodes
    PROVE  /\ Done(o, n) \in [DagObjs -> LoopState]
           /\ \A S \in SUBSET Nodes : [Done(o, n) EXCEPT ![o].skip = S] \in [DagObjs -> LoopState]
<1>1. loop \in [DagObjs -> LoopState]
  BY DEF LoopType
<1>2. Done(o, n) \in [DagObjs -> LoopState]
  <2> DEFINE late  == IF HasResult(o, n) THEN loop[o].late + 1 ELSE loop[o].late
             taken == loop[o].taken \ {n}
             heap  == loop[o].heap \ {n}
  <2>1. Done(o, n) = [loop EXCEPT ![o].late = late, ![o].taken = taken, ![o].heap = heap]
    BY <1>1 DEF Done
  <2>2. late \in Nat /\ taken \in SUBSET Nodes /\ heap \in SUBSET Nodes
    BY <1>1 DEF LoopState
  <2>3. PICK r : r = [loop[o] EXCEPT !.late = late, !.taken = taken, !.heap = heap]
    OBVIOUS
  <2>4. loop[o] \in LoopState
    BY <1>1
  <2> HIDE DEF late, taken, heap
  <2>5. r \in LoopState
    BY <2>2, <2>3, <2>4 DEF LoopState
  <2>6. Done(o, n) = [loop EXCEPT ![o] = r]
    BY <1>1, <2>1, <2>3
  <2> QED BY <1>1, <2>5, <2>6
<1>3. ASSUME NEW S \in SUBSET Nodes, NEW D \in [DagObjs -> LoopState]
      PROVE  [D EXCEPT ![o].skip = S] \in [DagObjs -> LoopState]
  BY DEF LoopState
<1> QED BY <1>2, <1>3

LEMMA OfferTypes ==
    ASSUME LoopType, NEW o \in DagObjs
    PROVE  Offers(o) \subseteq Nodes /\ Unresolved(o) \subseteq Nodes
BY DEF LoopType, LoopState, Offers, Ready, Unresolved, NodesOf

-----------------------------------------------------------------------------
(***************************************************************************)
(* A loop records a new result: it takes an object that nobody holds.      *)
(***************************************************************************)
LEMMA Records ==
    ASSUME IndInv, NEW o \in open, NEW n \in Nodes, NEW p \in FreeNodes,
           acquireNodeResult(p), dag' = Recorded(o, n, p),
           node' \in [NodeObjs -> NodeResults], node'[p].sub = None,
           \A q \in NodeObjs : q # p => node'[q] = node[q],
           loop' \in [DagObjs -> LoopState],
           UNCHANGED <<dagPool, dagsMade, open, closed, aborted, flight, callers, hooks>>
    PROVE  IndInv'
<1>1. /\ p \in NodeObjs /\ IdleNode(p) /\ ~IdleNode(p)'
      /\ \A q \in NodeObjs : q # p => (IdleNode(q)' <=> IdleNode(q))
      /\ nodePool' \in [NodeObjs -> {0, 1}] /\ nodesMade' \in 0..MaxNodes
      /\ \A q \in NodeObjs : q > nodesMade' => nodePool'[q] = 0
  BY AcquireNode DEF IndInv
<1>2. o \in DagObjs /\ ~IdleDag(o)
  BY NotFilled
<1>3. /\ dag' \in [DagObjs -> DagResults]
      /\ \A e \in DagObjs : e # o => dag'[e] = dag[e]
      /\ dag'[o].results[n] = p
      /\ \A m \in Nodes : m # n => dag'[o].results[m] = dag[o].results[m]
  BY <1>1, <1>2, RecordedTable DEF IndInv
<1>4. UNCHANGED <<result, phase, runs, stack, chain, executed>>
  BY DEF callers, hooks
<1>5. ~HeldNode(p) /\ node[p] = NewNode /\ p # None
  BY <1>1, Objects DEF IndInv, NodesIdle
<1>6. \A q \in NodeObjs : node'[q].sub = node[q].sub
  BY <1>5, Objects
<1>7. ObjType' /\ PoolType' /\ LoopType' /\ CallType' /\ HookType'
  <2>1. PoolType'
    BY <1>1 DEF IndInv, PoolType
  <2>2. CallType' /\ HookType'
    BY <1>4 DEF IndInv, CallType, HookType
  <2> QED BY <1>3, <2>1, <2>2 DEF IndInv, ObjType, LoopType
<1>8. NodesOnce'
  <2>1. \A e \in DagObjs : \A m \in Nodes :
           dag'[e].results[m] = dag[e].results[m] \/ (e = o /\ m = n)
    BY <1>3
  <2>2. \A e \in DagObjs : \A m \in Nodes : dag[e].results[m] # p
    BY <1>5 DEF HeldNode
  <2>3. \A f \in flight : f.nr # p
    BY <1>5 DEF HeldNode
  <2>4. NodesOnce
    BY DEF IndInv
  <2> QED BY <1>2, <1>3, <2>1, <2>2, <2>3, <2>4 DEF NodesOnce
<1>9. DagsOnce'
  BY <1>4, <1>6 DEF IndInv, DagsOnce
<1>10. NodesIdle'
  <2> SUFFICES ASSUME NEW q \in NodeObjs, IdleNode(q)' PROVE ~HeldNode(q)' /\ node'[q] = NewNode
    BY DEF NodesIdle
  <2>1. q # p /\ ~HeldNode(q) /\ node[q] = NewNode
    BY <1>1 DEF IndInv, NodesIdle
  <2>2. ~HeldNode(q)'
    BY <1>3, <2>1 DEF HeldNode
  <2> QED BY <2>1, <2>2
<1>11. DagsIdle'
  <2> SUFFICES ASSUME NEW e \in DagObjs, IdleDag(e)' PROVE ~HeldDag(e)' /\ dag'[e] = NewDag
    BY DEF DagsIdle
  <2>1. IdleDag(e) /\ e # o
    BY <1>2 DEF IdleDag
  <2>2. ~HeldDag(e) /\ dag[e] = NewDag
    BY <2>1 DEF IndInv, DagsIdle
  <2> QED BY <1>3, <1>4, <1>6, <2>1, <2>2 DEF HeldDag
<1>12. OpenHeld'
  BY <1>4 DEF IndInv, OpenHeld
<1>13. Stacks'
  BY <1>1, <1>3, <1>4, StacksKept
<1> QED BY <1>7, <1>8, <1>9, <1>10, <1>11, <1>12, <1>13 DEF IndInv

LEMMA StepExecute ==
    ASSUME IndInv, NEW o \in open, NEW n \in NodesOf(o), NEW p \in FreeNodes, Execute(o, n, p)
    PROVE  IndInv'
<1>1. o \in DagObjs /\ n \in Nodes /\ p \in NodeObjs
  BY NotFilled DEF NodesOf, FreeNodes
<1>2. /\ acquireNodeResult(p) /\ dag' = Recorded(o, n, p)
      /\ UNCHANGED <<dagPool, dagsMade, open, closed, aborted, flight, callers, hooks>>
  BY DEF Execute
<1>3. IdleNode(p)
  BY <1>2, AcquireNode DEF IndInv
<1>4. node[p] = NewNode
  BY <1>1, <1>3 DEF IndInv, NodesIdle
<1>5. /\ loop' \in [DagObjs -> LoopState]
      /\ \/ node' = [node EXCEPT ![p].status = "Failed"]
         \/ node' = [node EXCEPT ![p].status = "Skipped", ![p].skip = "condition"]
         \/ node' = [node EXCEPT ![p].status = "Success"]
         \/ \E i \in Int : node' = [node EXCEPT ![p].status = "Success", ![p].route = i]
  <2>1. Done(o, n) \in [DagObjs -> LoopState]
    BY <1>1, DoneType DEF IndInv
  <2>2. CASE node' = [node EXCEPT ![p].status = "Failed"] /\ loop' = Done(o, n)
    BY <2>1, <2>2
  <2>3. CASE /\ node' = [node EXCEPT ![p].status = "Skipped", ![p].skip = "condition"]
             /\ loop' = Done(o, n)
    BY <2>1, <2>3
  <2>4. CASE node' = [node EXCEPT ![p].status = "Success"] /\ loop' = Done(o, n)
    BY <2>1, <2>4
  <2>5. ASSUME n \in DOMAIN RouteMap, NEW i \in DOMAIN RouteMap[n],
               node' = [node EXCEPT ![p].status = "Success", ![p].route = i],
               loop' = [Done(o, n) EXCEPT ![o].skip = Unselected(o, n, i)]
        PROVE  /\ loop' \in [DagObjs -> LoopState] /\ i \in Int
    <3>1. Unselected(o, n, i) \in SUBSET Nodes
      BY <1>1, OfferTypes DEF Unselected, IndInv
    <3>2. i \in Int
      BY <2>5, ResultsAssumption DEF ResultsAssumption
    <3> QED BY <1>1, <2>5, <3>1, <3>2, DoneType DEF IndInv
  <2> QED BY <2>2, <2>3, <2>4, <2>5 DEF Execute
<1>6. /\ node' \in [NodeObjs -> NodeResults] /\ node'[p].sub = None
      /\ \A q \in NodeObjs : q # p => node'[q] = node[q]
  <2>1. node \in [NodeObjs -> NodeResults] /\ node[p].sub = None
    BY <1>4, Objects DEF IndInv, ObjType
  <2> QED BY <1>1, <1>5, <2>1 DEF NodeResults, Statuses, Reasons
<1> QED BY <1>1, <1>2, <1>5, <1>6, Records

LEMMA StepSkip ==
    ASSUME IndInv, NEW o \in open, NEW n \in NodesOf(o), NEW p \in FreeNodes, Skip(o, n, p)
    PROVE  IndInv'
<1>1. o \in DagObjs /\ n \in Nodes /\ p \in NodeObjs
  BY NotFilled DEF NodesOf, FreeNodes
<1>2. /\ acquireNodeResult(p) /\ dag' = Recorded(o, n, p)
      /\ node' = [node EXCEPT ![p].status = "Skipped",
                              ![p].skip = IF o \in aborted THEN "abort" ELSE "route"]
      /\ loop' = [loop EXCEPT ![o].skip = @ \ {n}]
      /\ UNCHANGED <<dagPool, dagsMade, open, closed, aborted, flight, callers, hooks>>
  BY DEF Skip
<1>3. IdleNode(p)
  BY <1>2, AcquireNode DEF IndInv
<1>4. node[p] = NewNode
  BY <1>1, <1>3 DEF IndInv, NodesIdle
<1>5. loop' \in [DagObjs -> LoopState]
  BY <1>1, <1>2 DEF IndInv, LoopType, LoopState
<1>6. /\ node' \in [NodeObjs -> NodeResults] /\ node'[p].sub = None
      /\ \A q \in NodeObjs : q # p => node'[q] = node[q]
  <2>1. node \in [NodeObjs -> NodeResults] /\ node[p].sub = None
    BY <1>4, Objects DEF IndInv, ObjType
  <2>2. PICK why : why = IF o \in aborted THEN "abort" ELSE "route"
    OBVIOUS
  <2>3. PICK r : r = [node[p] EXCEPT !.status = "Skipped", !.skip = why]
    OBVIOUS
  <2>4. r \in NodeResults /\ r.sub = None
    BY <1>1, <2>1, <2>2, <2>3 DEF NodeResults, Statuses, Reasons
  <2>5. node' = [node EXCEPT ![p] = r]
    BY <1>1, <1>2, <2>1, <2>2, <2>3
  <2> QED BY <1>1, <2>1, <2>4, <2>5
<1> QED BY <1>1, <1>2, <1>5, <1>6, Records

-----------------------------------------------------------------------------
(***************************************************************************)
(* A Run takes an object for its result.                                   *)
(***************************************************************************)
LEMMA Starts ==
    ASSUME IndInv, NEW c \in Callers, NEW o \in FreeDags, NEW t \in {"run", "returned"},
           phase[c] = "idle", runs < MaxRuns, AcquireDagResult(o),
           dag' \in [DagObjs -> DagResults], dag'[o].results = dag[o].results,
           \A e \in DagObjs : e # o => dag'[e] = dag[e],
           open' = open \/ (open' = open \cup {o} /\ t = "run"),
           result' = [result EXCEPT ![c] = o], phase' = [phase EXCEPT ![c] = t], runs' = runs + 1,
           executed' \in [Dags -> Nat],
           UNCHANGED <<node, nodePool, nodesMade, closed, aborted, loop, flight, stack, chain>>
    PROVE  IndInv'
<1>1. /\ o \in DagObjs /\ IdleDag(o) /\ ~IdleDag(o)'
      /\ \A e \in DagObjs : e # o => (IdleDag(e)' <=> IdleDag(e))
      /\ dagPool' \in [DagObjs -> {0, 1}] /\ dagsMade' \in 0..MaxDags
      /\ \A e \in DagObjs : e > dagsMade' => dagPool'[e] = 0
  BY AcquireDag DEF IndInv
<1>2. ~HeldDag(o) /\ dag[o] = NewDag /\ o # None /\ o \notin open
  BY <1>1, Objects, NotFilled DEF IndInv, DagsIdle
<1>3. \A e \in DagObjs : dag'[e].results = dag[e].results
  BY <1>1
<1>4. /\ result' \in [Callers -> DagObjs \cup {None}]
      /\ phase' \in [Callers -> {"idle", "run", "returned", "release"}]
      /\ result'[c] = o /\ phase'[c] = t /\ runs' \in 0..MaxRuns
      /\ \A d \in Callers : d # c => result'[d] = result[d] /\ phase'[d] = phase[d]
  BY <1>1, Objects DEF IndInv, CallType
<1>5. ObjType' /\ PoolType' /\ LoopType' /\ CallType' /\ HookType'
  <2>1. PoolType'
    BY <1>1 DEF IndInv, PoolType
  <2>2. CallType'
    BY <1>2, <1>4 DEF IndInv, CallType
  <2>3. LoopType'
    BY <1>1 DEF IndInv, LoopType
  <2> QED BY <2>1, <2>2, <2>3 DEF IndInv, ObjType, HookType
<1>6. NodesOnce'
  BY <1>3 DEF IndInv, NodesOnce
<1>7. DagsOnce'
  <2>1. /\ \A d \in Callers : result[d] # o
        /\ \A p \in NodeObjs : node[p].sub # o
        /\ \A f \in flight : f.child # o
    BY <1>2 DEF HeldDag
  <2> QED BY <1>4, <2>1 DEF IndInv, DagsOnce
<1>8. NodesIdle'
  BY <1>3 DEF IndInv, NodesIdle, IdleNode, HeldNode
<1>9. DagsIdle'
  <2> SUFFICES ASSUME NEW e \in DagObjs, IdleDag(e)' PROVE ~HeldDag(e)' /\ dag'[e] = NewDag
    BY DEF DagsIdle
  <2>1. IdleDag(e) /\ e # o
    BY <1>1
  <2>2. ~HeldDag(e) /\ dag[e] = NewDag
    BY <2>1 DEF IndInv, DagsIdle
  <2> QED BY <1>4, <2>1, <2>2 DEF HeldDag
<1>10. OpenHeld'
  <2> SUFFICES ASSUME NEW e \in open'
               PROVE  \/ \E d \in Callers : phase'[d] = "run" /\ result'[d] = e
                      \/ \E f \in flight : f.child = e
    BY DEF OpenHeld
  <2>1. CASE e \in open
    BY <1>4, <2>1 DEF IndInv, OpenHeld
  <2>2. CASE e \notin open
    BY <1>4, <2>2
  <2> QED BY <2>1, <2>2
<1>11. Stacks'
  <2>1. \A d \in Callers : phase[d] = "release" => result'[d] = result[d]
    BY <1>4
  <2> QED BY <1>1, <2>1, StacksKept
<1> QED BY <1>5, <1>6, <1>7, <1>8, <1>9, <1>10, <1>11 DEF IndInv

LEMMA StepRun ==
    ASSUME IndInv, NEW c \in Callers, NEW o \in FreeDags, NEW d \in Entries[c],
           Run(c, d, o) \/ RunRejected(c, d, o)
    PROVE  IndInv'
<1>1. o \in DagObjs /\ d \in Dags
  BY ResultsAssumption DEF ResultsAssumption, FreeDags
<1>2. CASE Run(c, d, o)
  <2>1. /\ phase[c] = "idle" /\ runs < MaxRuns /\ AcquireDagResult(o)
        /\ dag' = [dag EXCEPT ![o].dag = d] /\ open' = open \cup {o}
        /\ result' = [result EXCEPT ![c] = o] /\ phase' = [phase EXCEPT ![c] = "run"]
        /\ runs' = runs + 1 /\ executed' = [executed EXCEPT ![d] = @ + 1]
        /\ UNCHANGED <<node, nodePool, nodesMade, closed, aborted, loop, flight, stack, chain>>
    BY <1>2 DEF Run
  <2>2. /\ dag' \in [DagObjs -> DagResults] /\ dag'[o].results = dag[o].results
        /\ \A e \in DagObjs : e # o => dag'[e] = dag[e]
    BY <1>1, <2>1 DEF IndInv, ObjType, DagResults
  <2>3. executed' \in [Dags -> Nat]
    BY <1>1, <2>1 DEF IndInv, HookType
  <2> QED BY <2>1, <2>2, <2>3, Starts
<1>3. CASE RunRejected(c, d, o)
  <2>1. /\ phase[c] = "idle" /\ runs < MaxRuns /\ AcquireDagResult(o)
        /\ dag' = [dag EXCEPT ![o].dag = d, ![o].status = "Failed"] /\ open' = open
        /\ result' = [result EXCEPT ![c] = o] /\ phase' = [phase EXCEPT ![c] = "returned"]
        /\ runs' = runs + 1
        /\ UNCHANGED <<node, nodePool, nodesMade, closed, aborted, loop, flight, stack, chain, executed>>
    BY <1>3 DEF RunRejected, loops, hooks
  <2>2. /\ dag' \in [DagObjs -> DagResults] /\ dag'[o].results = dag[o].results
        /\ \A e \in DagObjs : e # o => dag'[e] = dag[e]
    BY <1>1, <2>1, ZenonT(60) DEF IndInv, ObjType, DagResults, Statuses
  <2>3. executed' \in [Dags -> Nat]
    BY <2>1 DEF IndInv, HookType
  <2> QED BY <2>1, <2>2, <2>3, Starts
<1> QED BY <1>2, <1>3

-----------------------------------------------------------------------------
(***************************************************************************)
(* Steps that move no object.                                              *)
(***************************************************************************)
LEMMA StepReturn == ASSUME IndInv, NEW c \in Callers, Return(c) PROVE IndInv'
<1> DEFINE left == {o \in open \ closed : Owner[dag[o].dag] = c}
<1>1. /\ phase[c] = "run" /\ result[c] \notin open
      /\ phase' = [phase EXCEPT ![c] = "returned"] /\ closed' = closed \cup left
      /\ UNCHANGED <<node, dag, nodePool, dagPool, nodesMade, dagsMade, open, aborted, flight,
                     result, runs, stack, chain, executed>>
  BY DEF Return, objects, pools, hooks
<1>2. PICK sent : loop' = [o \in DagObjs |->
                              IF o \in left
                              THEN [loop[o] EXCEPT !.taken = @ \cup (sent \cap Offers(o)),
                                                   !.heap = @ \ sent]
                              ELSE loop[o]]
  BY DEF Return
<1>3. loop' \in [DagObjs -> LoopState]
  <2> SUFFICES ASSUME NEW o \in DagObjs
               PROVE  /\ [loop[o] EXCEPT !.taken = @ \cup (sent \cap Offers(o)), !.heap = @ \ sent]
                            \in LoopState
                      /\ loop[o] \in LoopState
    BY <1>2
  <2>1. loop[o] \in LoopState /\ Offers(o) \subseteq Nodes
    BY OfferTypes DEF IndInv, LoopType
  <2> QED BY <2>1 DEF LoopState
<1>4. /\ phase' \in [Callers -> {"idle", "run", "returned", "release"}] /\ phase'[c] = "returned"
      /\ \A d \in Callers : d # c => phase'[d] = phase[d]
  BY <1>1 DEF IndInv, CallType
<1>5. ObjType' /\ PoolType' /\ LoopType' /\ CallType' /\ HookType'
  <2>1. LoopType'
    BY <1>1, <1>3 DEF IndInv, LoopType
  <2>2. CallType'
    BY <1>1, <1>4 DEF IndInv, CallType
  <2> QED BY <1>1, <2>1, <2>2 DEF IndInv, ObjType, PoolType, HookType
<1>6. NodesOnce' /\ DagsOnce'
  BY <1>1 DEF IndInv, NodesOnce, DagsOnce
<1>7. NodesIdle' /\ DagsIdle'
  BY <1>1 DEF IndInv, NodesIdle, DagsIdle, IdleNode, IdleDag, HeldNode, HeldDag
<1>8. OpenHeld'
  BY <1>1, <1>4 DEF IndInv, OpenHeld
<1>9. Stacks'
  BY <1>1, StacksKept
<1> QED BY <1>5, <1>6, <1>7, <1>8, <1>9 DEF IndInv

LEMMA StepAbort == ASSUME IndInv, NEW o \in open, Abort(o) PROVE IndInv'
<1>1. /\ o \notin aborted /\ aborted' = aborted \cup {o}
      /\ UNCHANGED <<node, dag, nodePool, dagPool, nodesMade, dagsMade, open, closed, flight,
                     result, phase, runs, stack, chain, executed>>
  BY DEF Abort, objects, pools, callers, hooks
<1>2. PICK sent \in SUBSET Offers(o) :
         LET taken == loop[o].taken \cup sent IN
         loop' = [loop EXCEPT ![o].skip = Unresolved(o) \ taken, ![o].taken = taken,
                              ![o].heap = Offers(o) \ sent]
  BY DEF Abort
<1>3. loop' \in [DagObjs -> LoopState]
  <2> DEFINE taken == loop[o].taken \cup sent
             skip  == Unresolved(o) \ taken
             heap  == Offers(o) \ sent
  <2>1. /\ o \in DagObjs /\ loop \in [DagObjs -> LoopState]
        /\ Offers(o) \subseteq Nodes /\ Unresolved(o) \subseteq Nodes
    BY NotFilled, OfferTypes DEF IndInv, LoopType
  <2>2. taken \in SUBSET Nodes /\ skip \in SUBSET Nodes /\ heap \in SUBSET Nodes
    BY <2>1 DEF LoopState
  <2>3. loop' = [loop EXCEPT ![o].skip = skip, ![o].taken = taken, ![o].heap = heap]
    BY <1>2
  <2> HIDE DEF taken, skip, heap
  <2> QED BY <2>1, <2>2, <2>3, ZenonT(60) DEF LoopState
<1>4. ObjType' /\ PoolType' /\ LoopType' /\ CallType' /\ HookType'
  BY <1>1, <1>3 DEF IndInv, ObjType, PoolType, LoopType, CallType, HookType
<1>5. NodesOnce' /\ DagsOnce'
  BY <1>1 DEF IndInv, NodesOnce, DagsOnce
<1>6. NodesIdle' /\ DagsIdle'
  BY <1>1 DEF IndInv, NodesIdle, DagsIdle, IdleNode, IdleDag, HeldNode, HeldDag
<1>7. OpenHeld' /\ Stacks'
  BY <1>1, StacksKept DEF IndInv, OpenHeld
<1> QED BY <1>4, <1>5, <1>6, <1>7 DEF IndInv

-----------------------------------------------------------------------------
(***************************************************************************)
(* Goroutines whose loop is gone keep their objects.                       *)
(***************************************************************************)
LEMMA OrphanedFlights ==
    ASSUME IndInv, NEW o \in DagObjs, NEW F \in SUBSET flight
    PROVE  /\ Orphaned(o, F) \subseteq [nr : NodeObjs, node : Nodes,
                                        parent : (open \ {o}) \cup {None}, child : DagObjs]
           /\ \A g \in Orphaned(o, F) : \E f \in F : g.nr = f.nr /\ g.child = f.child
           /\ \A f \in F : \E g \in Orphaned(o, F) : g.nr = f.nr /\ g.child = f.child
           /\ \A g, h \in Orphaned(o, F) : g.nr = h.nr \/ g.child = h.child => g = h
<1> DEFINE orphan(f) == [f EXCEPT !.parent = IF @ = o THEN None ELSE @]
<1>1. Orphaned(o, F) = {orphan(f) : f \in F}
  BY DEF Orphaned
<1>2. ASSUME NEW f \in F
      PROVE  /\ orphan(f) \in [nr : NodeObjs, node : Nodes, parent : (open \ {o}) \cup {None},
                               child : DagObjs]
             /\ orphan(f).nr = f.nr /\ orphan(f).child = f.child
  <2>1. f \in [nr : NodeObjs, node : Nodes, parent : open \cup {None}, child : DagObjs]
    BY DEF IndInv, LoopType
  <2> QED BY <2>1
<1>3. \A f, g \in F : f.nr = g.nr \/ f.child = g.child => f = g
  BY DEF IndInv, NodesOnce, DagsOnce
<1> HIDE DEF orphan
<1> QED BY <1>1, <1>2, <1>3

(***************************************************************************)
(* A loop ends: its result is complete, its goroutines are on their own.   *)
(***************************************************************************)
LEMMA StepEndLoop == ASSUME IndInv, NEW o \in open, EndLoop(o) PROVE IndInv'
<1>1. /\ dag' = [dag EXCEPT ![o].status = IF o \in aborted THEN "Failed" ELSE "Success"]
      /\ open' = open \ {o} /\ closed' = closed \ {o} /\ aborted' = aborted \ {o}
      /\ loop' = [loop EXCEPT ![o] = NewLoop] /\ flight' = Orphaned(o, flight)
      /\ UNCHANGED <<node, nodePool, dagPool, nodesMade, dagsMade, result, phase, runs, stack,
                     chain, executed>>
  BY DEF EndLoop, Stops, pools, callers, hooks
<1>2. o \in DagObjs /\ ~IdleDag(o)
  BY NotFilled
<1>3. /\ dag' \in [DagObjs -> DagResults]
      /\ \A e \in DagObjs : dag'[e].results = dag[e].results /\ (e # o => dag'[e] = dag[e])
  BY <1>1, <1>2, ZenonT(60) DEF IndInv, ObjType, DagResults, Statuses
<1>4. /\ flight' \subseteq [nr : NodeObjs, node : Nodes, parent : open' \cup {None}, child : DagObjs]
      /\ \A g \in flight' : \E f \in flight : g.nr = f.nr /\ g.child = f.child
      /\ \A f \in flight : \E g \in flight' : g.nr = f.nr /\ g.child = f.child
      /\ \A g, h \in flight' : g.nr = h.nr \/ g.child = h.child => g = h
  BY <1>1, <1>2, OrphanedFlights
<1>5. ObjType' /\ PoolType' /\ LoopType' /\ CallType' /\ HookType'
  <2>1. NewLoop \in LoopState
    BY DEF NewLoop, LoopState
  <2>2. loop' \in [DagObjs -> LoopState]
    BY <1>1, <1>2, <2>1 DEF IndInv, LoopType
  <2>3. LoopType'
    BY <1>1, <1>4, <2>2 DEF IndInv, LoopType
  <2> QED BY <1>1, <1>3, <2>3 DEF IndInv, ObjType, PoolType, CallType, HookType
<1>6. NodesOnce'
  BY <1>3, <1>4 DEF IndInv, NodesOnce
<1>7. DagsOnce'
  BY <1>1, <1>4 DEF IndInv, DagsOnce
<1>8. NodesIdle'
  BY <1>1, <1>3, <1>4 DEF IndInv, NodesIdle, IdleNode, HeldNode
<1>9. DagsIdle'
  BY <1>1, <1>2, <1>3, <1>4 DEF IndInv, DagsIdle, IdleDag, HeldDag
<1>10. OpenHeld'
  BY <1>1, <1>4 DEF IndInv, OpenHeld
<1>11. Stacks'
  BY <1>1, <1>3, StacksKept
<1> QED BY <1>5, <1>6, <1>7, <1>8, <1>9, <1>10, <1>11 DEF IndInv

-----------------------------------------------------------------------------
(***************************************************************************)
(* A subflow takes two objects, both held by its goroutine from then on.   *)
(***************************************************************************)
LEMMA StepBeginSubflow ==
    ASSUME IndInv, NEW o \in open, NEW n \in NodesOf(o), NEW p \in FreeNodes, NEW q \in FreeDags,
           BeginSubflow(o, n, p, q)
    PROVE  IndInv'
<1> DEFINE f == [nr |-> p, node |-> n, parent |-> o, child |-> q]
<1>1. /\ acquireNodeResult(p) /\ AcquireDagResult(q) /\ Child[n] # None
      /\ node' = [node EXCEPT ![p].status = "Running"]
      /\ dag' = [dag EXCEPT ![q].dag = Child[n]]
      /\ open' = open \cup {q}
      /\ loop' = [loop EXCEPT ![o].taken = @ \ {n}, ![o].heap = @ \ {n}]
      /\ flight' = flight \cup {f}
      /\ chain' = [chain EXCEPT ![Child[n]] = Merged(Child[n], chain[dag[o].dag])]
      /\ executed' = [executed EXCEPT ![Child[n]] = @ + 1]
      /\ UNCHANGED <<closed, aborted, result, phase, runs, stack>>
  BY DEF BeginSubflow, callers
<1>2. o \in DagObjs /\ n \in Nodes /\ Child[n] \in Dags
  BY <1>1, NotFilled, ResultsAssumption DEF NodesOf, ResultsAssumption
<1>3. /\ p \in NodeObjs /\ IdleNode(p) /\ ~IdleNode(p)'
      /\ \A k \in NodeObjs : k # p => (IdleNode(k)' <=> IdleNode(k))
      /\ nodePool' \in [NodeObjs -> {0, 1}] /\ nodesMade' \in 0..MaxNodes
      /\ \A k \in NodeObjs : k > nodesMade' => nodePool'[k] = 0
  BY <1>1, AcquireNode DEF IndInv
<1>4. /\ q \in DagObjs /\ IdleDag(q) /\ ~IdleDag(q)'
      /\ \A e \in DagObjs : e # q => (IdleDag(e)' <=> IdleDag(e))
      /\ dagPool' \in [DagObjs -> {0, 1}] /\ dagsMade' \in 0..MaxDags
      /\ \A e \in DagObjs : e > dagsMade' => dagPool'[e] = 0
  BY <1>1, AcquireDag DEF IndInv
<1>5. ~HeldNode(p) /\ node[p] = NewNode /\ p # None
  BY <1>3, Objects DEF IndInv, NodesIdle
<1>6. ~HeldDag(q) /\ dag[q] = NewDag /\ q # None
  BY <1>4, Objects DEF IndInv, DagsIdle
<1>7. /\ node' \in [NodeObjs -> NodeResults]
      /\ \A k \in NodeObjs : node'[k].sub = node[k].sub /\ (k # p => node'[k] = node[k])
  BY <1>1, <1>3 DEF IndInv, ObjType, NodeResults, Statuses
<1>8. /\ dag' \in [DagObjs -> DagResults]
      /\ \A e \in DagObjs : dag'[e].results = dag[e].results /\ (e # q => dag'[e] = dag[e])
  BY <1>1, <1>2, <1>4 DEF IndInv, ObjType, DagResults
<1>9. f.nr = p /\ f.child = q
  OBVIOUS
<1>10. ObjType' /\ PoolType' /\ LoopType' /\ CallType' /\ HookType'
  <2>1. PoolType'
    BY <1>3, <1>4 DEF PoolType
  <2>2. loop' \in [DagObjs -> LoopState]
    BY <1>1, <1>2, ZenonT(60) DEF IndInv, LoopType, LoopState
  <2>3. f \in [nr : NodeObjs, node : Nodes, parent : open' \cup {None}, child : DagObjs]
    BY <1>1, <1>2, <1>3, <1>4
  <2>4. flight \subseteq [nr : NodeObjs, node : Nodes, parent : open' \cup {None}, child : DagObjs]
    BY <1>1 DEF IndInv, LoopType
  <2>5. LoopType'
    <3> HIDE DEF f
    <3> QED BY <1>1, <1>4, <2>2, <2>3, <2>4 DEF IndInv, LoopType
  <2>6. HookType'
    BY <1>1, <1>2 DEF IndInv, HookType
  <2> QED BY <1>1, <1>7, <1>8, <2>1, <2>5, <2>6 DEF IndInv, ObjType, CallType
<1> HIDE DEF f
<1>11. NodesOnce'
  <2>1. \A e \in DagObjs : \A m \in Nodes : dag[e].results[m] # p
    BY <1>5 DEF HeldNode
  <2>2. \A g \in flight : g.nr # p
    BY <1>5 DEF HeldNode
  <2> QED BY <1>1, <1>8, <1>9, <2>1, <2>2 DEF IndInv, NodesOnce
<1>12. DagsOnce'
  <2>1. /\ \A c \in Callers : result[c] # q
        /\ \A k \in NodeObjs : node[k].sub # q
        /\ \A g \in flight : g.child # q
    BY <1>6 DEF HeldDag
  <2> QED BY <1>1, <1>7, <1>9, <2>1 DEF IndInv, DagsOnce
<1>13. NodesIdle'
  <2> SUFFICES ASSUME NEW k \in NodeObjs, IdleNode(k)' PROVE ~HeldNode(k)' /\ node'[k] = NewNode
    BY DEF NodesIdle
  <2>1. k # p /\ ~HeldNode(k) /\ node[k] = NewNode
    BY <1>3 DEF IndInv, NodesIdle
  <2> QED BY <1>1, <1>7, <1>8, <1>9, <2>1 DEF HeldNode
<1>14. DagsIdle'
  <2> SUFFICES ASSUME NEW e \in DagObjs, IdleDag(e)' PROVE ~HeldDag(e)' /\ dag'[e] = NewDag
    BY DEF DagsIdle
  <2>1. e # q /\ ~HeldDag(e) /\ dag[e] = NewDag
    BY <1>4 DEF IndInv, DagsIdle
  <2> QED BY <1>1, <1>7, <1>8, <1>9, <2>1 DEF HeldDag
<1>15. OpenHeld'
  BY <1>1, <1>9 DEF IndInv, OpenHeld
<1>16. Stacks'
  BY <1>1, <1>3, <1>4, <1>7, <1>8, StacksKept
<1> QED BY <1>10, <1>11, <1>12, <1>13, <1>14, <1>15, <1>16 DEF IndInv

-----------------------------------------------------------------------------
(***************************************************************************)
(* The goroutine of a subflow hands over its node's result, to a loop or to*)
(* nobody, and the child's with it, unless the child's loop panicked.      *)
(***************************************************************************)
LEMMA Delivers ==
    ASSUME IndInv, NEW f \in flight, f.parent = None \/ f.parent \in open,
           dag' = SentDag(f),
           node' \in [NodeObjs -> NodeResults], node'[f.nr].sub \in {node[f.nr].sub, f.child},
           \A p \in NodeObjs : p # f.nr => node'[p] = node[p],
           open' = open \ {f.child}, closed' = closed \ {f.child}, aborted' = aborted \ {f.child},
           loop' \in [DagObjs -> LoopState],
           flight' = Orphaned(f.child, flight \ {f}),
           UNCHANGED <<nodePool, dagPool, nodesMade, dagsMade, result, phase, runs, stack,
                       chain, executed>>
    PROVE  IndInv'
<1>1. f.nr \in NodeObjs /\ f.node \in Nodes /\ f.child \in DagObjs /\ f.child # None /\ f.nr # None
  BY Objects DEF IndInv, LoopType
<1>2. /\ flight' \subseteq [nr : NodeObjs, node : Nodes, parent : open' \cup {None}, child : DagObjs]
      /\ \A g \in flight' : \E h \in flight \ {f} : g.nr = h.nr /\ g.child = h.child
      /\ \A h \in flight \ {f} : \E g \in flight' : g.nr = h.nr /\ g.child = h.child
      /\ \A g, h \in flight' : g.nr = h.nr \/ g.child = h.child => g = h
  <2> DEFINE F == flight \ {f}
  <2>1. F \in SUBSET flight
    OBVIOUS
  <2> HIDE DEF F
  <2>2. /\ Orphaned(f.child, F) \subseteq [nr : NodeObjs, node : Nodes,
                                           parent : (open \ {f.child}) \cup {None}, child : DagObjs]
        /\ \A g \in Orphaned(f.child, F) : \E h \in F : g.nr = h.nr /\ g.child = h.child
        /\ \A h \in F : \E g \in Orphaned(f.child, F) : g.nr = h.nr /\ g.child = h.child
        /\ \A g, h \in Orphaned(f.child, F) : g.nr = h.nr \/ g.child = h.child => g = h
    BY <1>1, <2>1, OrphanedFlights
  <2>3. flight' = Orphaned(f.child, F)
    BY DEF F
  <2> QED BY <2>2, <2>3 DEF F
<1>3. \A h \in flight \ {f} : h.nr # f.nr /\ h.child # f.child
  BY DEF IndInv, NodesOnce, DagsOnce
<1>4. /\ dag' \in [DagObjs -> DagResults]
      /\ \A o \in DagObjs : o # f.parent => dag'[o] = dag[o]
      /\ \A o \in DagObjs : \A n \in Nodes :
            \/ dag'[o].results[n] = dag[o].results[n]
            \/ o = f.parent /\ n = f.node /\ dag'[o].results[n] = f.nr
  <2>1. CASE f.parent = None
    BY <2>1 DEF SentDag, IndInv, ObjType
  <2>2. CASE f.parent # None
    <3>1. f.parent \in DagObjs /\ dag' = Recorded(f.parent, f.node, f.nr)
      BY <2>2, NotFilled DEF SentDag
    <3> QED BY <1>1, <3>1, RecordedTable DEF IndInv
  <2> QED BY <2>1, <2>2
<1>5. HeldNode(f.nr) /\ ~IdleNode(f.nr)
  BY <1>1 DEF HeldNode, IndInv, NodesIdle
<1>6. ObjType' /\ PoolType' /\ LoopType' /\ CallType' /\ HookType'
  <2>1. LoopType'
    BY <1>2 DEF IndInv, LoopType
  <2> QED BY <1>4, <2>1 DEF IndInv, ObjType, PoolType, CallType, HookType
<1>7. NodesOnce'
  <2>1. \A o \in DagObjs : \A n \in Nodes : dag[o].results[n] # f.nr
    BY DEF IndInv, NodesOnce
  <2>2. NodesOnce
    BY DEF IndInv
  <2>3. \A o, e \in DagObjs : \A n, m \in Nodes :
          dag'[o].results[n] # None /\ dag'[o].results[n] = dag'[e].results[m] => o = e /\ n = m
    BY <1>4, <2>1, <2>2 DEF NodesOnce
  <2>4. \A g \in flight' : \A o \in DagObjs : \A n \in Nodes : dag'[o].results[n] # g.nr
    BY <1>2, <1>3, <1>4, <2>2 DEF NodesOnce
  <2> QED BY <1>2, <2>3, <2>4 DEF NodesOnce
<1>8. DagsOnce'
  <2>1. /\ \A c \in Callers : result[c] # f.child
        /\ \A p \in NodeObjs : node[p].sub # f.child
    BY DEF IndInv, DagsOnce
  <2>2. \A p \in NodeObjs : node'[p].sub = node[p].sub \/ (p = f.nr /\ node'[p].sub = f.child)
    OBVIOUS
  <2>3. DagsOnce
    BY DEF IndInv
  <2>4. \A p, q \in NodeObjs : node'[p].sub # None /\ node'[p].sub = node'[q].sub => p = q
    BY <2>1, <2>2, <2>3 DEF DagsOnce
  <2>5. \A c \in Callers : \A p \in NodeObjs : result[c] # None => result[c] # node'[p].sub
    BY <2>1, <2>2, <2>3 DEF DagsOnce
  <2>6. \A g \in flight' : /\ \A c \in Callers : result[c] # g.child
                           /\ \A p \in NodeObjs : node'[p].sub # g.child
    BY <1>2, <1>3, <2>2, <2>3 DEF DagsOnce
  <2>7. \A c, d \in Callers : result[c] # None /\ result[c] = result[d] => c = d
    BY <2>3 DEF DagsOnce
  <2> QED BY <1>2, <2>4, <2>5, <2>6, <2>7, ZenonT(60) DEF DagsOnce
<1>9. NodesIdle'
  <2> SUFFICES ASSUME NEW p \in NodeObjs, IdleNode(p)' PROVE ~HeldNode(p)' /\ node'[p] = NewNode
    BY DEF NodesIdle
  <2>1. IdleNode(p)
    BY DEF IdleNode
  <2>2. p # f.nr /\ ~HeldNode(p) /\ node[p] = NewNode
    BY <1>5, <2>1 DEF IndInv, NodesIdle
  <2>3. \A o \in DagObjs : \A n \in Nodes : dag'[o].results[n] # p
    BY <1>4, <2>2 DEF HeldNode
  <2>4. \A g \in flight' : g.nr # p
    BY <1>2, <2>2 DEF HeldNode
  <2> QED BY <2>2, <2>3, <2>4 DEF HeldNode
<1>10. DagsIdle'
  <2> SUFFICES ASSUME NEW o \in DagObjs, IdleDag(o)' PROVE ~HeldDag(o)' /\ dag'[o] = NewDag
    BY DEF DagsIdle
  <2>1. IdleDag(o)
    BY DEF IdleDag
  <2>2. ~HeldDag(o) /\ dag[o] = NewDag
    BY <2>1 DEF IndInv, DagsIdle
  <2>3. o # f.child /\ o \notin open
    BY <2>1, <2>2, NotFilled DEF HeldDag
  <2>4. o # f.parent
    BY <2>3, Objects
  <2>5. \A p \in NodeObjs : node'[p].sub # o
    BY <2>2, <2>3 DEF HeldDag
  <2>6. \A g \in flight' : g.child # o
    BY <1>2, <2>2 DEF HeldDag
  <2> QED BY <1>4, <2>2, <2>4, <2>5, <2>6 DEF HeldDag
<1>11. OpenHeld'
  <2> SUFFICES ASSUME NEW o \in open'
               PROVE  \/ \E c \in Callers : phase[c] = "run" /\ result[c] = o
                      \/ \E g \in flight' : g.child = o
    BY DEF OpenHeld
  <2>1. CASE \E c \in Callers : phase[c] = "run" /\ result[c] = o
    BY <2>1
  <2>2. CASE \E h \in flight : h.child = o
    <3>1. PICK h \in flight \ {f} : h.child = o
      BY <2>2
    <3> QED BY <1>2, <3>1
  <2> QED BY <2>1, <2>2 DEF IndInv, OpenHeld
<1>12. Stacks'
  <2>1. \A o \in DagObjs : ~IdleDag(o) /\ o \notin open => dag'[o] = dag[o]
    BY <1>4, Objects
  <2>2. \A p \in NodeObjs : ~IdleNode(p) /\ (\A g \in flight : g.nr # p) => node'[p] = node[p]
    OBVIOUS
  <2> QED BY <2>1, <2>2, StacksKept
<1> QED BY <1>6, <1>7, <1>8, <1>9, <1>10, <1>11, <1>12 DEF IndInv

LEMMA HeardLoop ==
    ASSUME IndInv, NEW f \in flight, Heard(f)
    PROVE  /\ f.nr \in NodeObjs /\ f.node \in Nodes /\ f.child \in DagObjs
           /\ f.parent = None \/ f.parent \in open
           /\ SentLoop(f) \in [DagObjs -> LoopState]
<1>1. /\ f.nr \in NodeObjs /\ f.node \in Nodes /\ f.child \in DagObjs
      /\ f.parent = None \/ f.parent \in open
  BY DEF IndInv, LoopType
<1>2. CASE f.parent = None
  BY <1>1, <1>2 DEF SentLoop, IndInv, LoopType
<1>3. CASE f.parent # None
  BY <1>1, <1>3, DoneType, NotFilled DEF SentLoop, IndInv
<1> QED BY <1>1, <1>2, <1>3

LEMMA StepEndSubflow == ASSUME IndInv, NEW f \in flight, EndSubflow(f) PROVE IndInv'
<1>1. /\ f.child \notin open /\ Heard(f)
      /\ node' = [node EXCEPT ![f.nr].sub = f.child, ![f.nr].status = dag[f.child].status]
      /\ dag' = SentDag(f) /\ loop' = SentLoop(f) /\ flight' = flight \ {f}
      /\ UNCHANGED <<nodePool, dagPool, nodesMade, dagsMade, open, closed, aborted, result, phase,
                     runs, stack, chain, executed>>
  BY DEF EndSubflow, pools, callers, hooks
<1>2. /\ f.nr \in NodeObjs /\ f.child \in DagObjs /\ f.child # None
      /\ f.parent = None \/ f.parent \in open
      /\ loop' \in [DagObjs -> LoopState]
  BY <1>1, HeardLoop, Objects
<1>3. dag[f.child].status \in Statuses
  BY <1>2 DEF IndInv, ObjType, DagResults
<1>4. /\ node' \in [NodeObjs -> NodeResults] /\ node'[f.nr].sub = f.child
      /\ \A p \in NodeObjs : p # f.nr => node'[p] = node[p]
  BY <1>1, <1>2, <1>3 DEF IndInv, ObjType, NodeResults
<1>5. flight' = Orphaned(f.child, flight \ {f})
  <2>1. \A g \in flight : [g EXCEPT !.parent = IF @ = f.child THEN None ELSE @] = g
    <3> SUFFICES ASSUME NEW g \in flight
                 PROVE  [g EXCEPT !.parent = IF @ = f.child THEN None ELSE @] = g
      OBVIOUS
    <3>1. g \in [nr : NodeObjs, node : Nodes, parent : open \cup {None}, child : DagObjs]
      BY DEF IndInv, LoopType
    <3>2. g.parent # f.child
      BY <1>1, <1>2, <3>1
    <3> QED BY <3>1, <3>2
  <2>2. Orphaned(f.child, flight \ {f}) =
          {[g EXCEPT !.parent = IF @ = f.child THEN None ELSE @] : g \in flight \ {f}}
    BY DEF Orphaned
  <2> QED BY <1>1, <2>1, <2>2, ZenonT(60)
<1>6. open' = open \ {f.child} /\ closed' = closed \ {f.child} /\ aborted' = aborted \ {f.child}
  BY <1>1 DEF IndInv, LoopType
<1> QED BY <1>1, <1>2, <1>4, <1>5, <1>6, Delivers

LEMMA StepSubflowPanics == ASSUME IndInv, NEW f \in flight, SubflowPanics(f) PROVE IndInv'
<1>1. /\ Heard(f) /\ node' = [node EXCEPT ![f.nr].status = "Panicked"]
      /\ dag' = SentDag(f) /\ loop' = [SentLoop(f) EXCEPT ![f.child] = NewLoop]
      /\ open' = open \ {f.child} /\ closed' = closed \ {f.child} /\ aborted' = aborted \ {f.child}
      /\ flight' = Orphaned(f.child, flight \ {f})
      /\ UNCHANGED <<nodePool, dagPool, nodesMade, dagsMade, result, phase, runs, stack,
                     chain, executed>>
  BY DEF SubflowPanics, Stops, pools, callers, hooks
<1>2. /\ f.nr \in NodeObjs /\ f.child \in DagObjs
      /\ f.parent = None \/ f.parent \in open
      /\ SentLoop(f) \in [DagObjs -> LoopState]
  BY <1>1, HeardLoop
<1>3. loop' \in [DagObjs -> LoopState]
  <2>1. NewLoop \in LoopState
    BY DEF NewLoop, LoopState
  <2> QED BY <1>1, <1>2, <2>1
<1>4. /\ node' \in [NodeObjs -> NodeResults] /\ node'[f.nr].sub = node[f.nr].sub
      /\ \A p \in NodeObjs : p # f.nr => node'[p] = node[p]
  BY <1>1, <1>2 DEF IndInv, ObjType, NodeResults, Statuses
<1> QED BY <1>1, <1>2, <1>3, <1>4, Delivers

-----------------------------------------------------------------------------
(***************************************************************************)
(* What a caller resets.                                                   *)
(***************************************************************************)
LEMMA Top ==
    ASSUME IndInv, NEW c \in Callers, phase[c] = "release"
    PROVE  /\ stack[c] \in Seq(NodeObjs \cup DagObjs) /\ Depth(c) = Len(stack[c])
           /\ Depth(c) \in Nat /\ Depth(c) \in 1..Len(stack[c]) /\ stack[c] # <<>>
           /\ InDag(c) <=> Odd(Depth(c))
           /\ InNode(c) <=> ~Odd(Depth(c))
<1>1. stack[c] \in Seq(NodeObjs \cup DagObjs) /\ stack[c] # <<>>
  BY DEF IndInv, CallType
<1>2. Len(stack[c]) \in Nat /\ Len(stack[c]) > 0
  BY <1>1, EmptySeq, LenProperties
<1>3. Depth(c) = Len(stack[c])
  BY DEF Depth
<1>4. (InDag(c) <=> Odd(Depth(c))) /\ (InNode(c) <=> ~Odd(Depth(c)))
  BY <1>2, <1>3, Parity DEF InDag, InNode
<1> QED BY <1>1, <1>2, <1>3, <1>4

(***************************************************************************)
(* The Reset of an object begins: nothing but what refers to it leads to   *)
(* it, so nobody else resets it.                                           *)
(***************************************************************************)
LEMMA Pushed ==
    ASSUME IndInv, NEW c \in Callers, phase[c] = "release", NEW x \in NodeObjs \cup DagObjs,
           stack' = [stack EXCEPT ![c] = Append(@, x)], result' = result, phase' = phase, runs' = runs,
           Odd(Depth(c)) => \E n \in Nodes : dag[Resetting(c)].results[n] = x,
           ~Odd(Depth(c)) => node[Resetting(c)].sub = x,
           NEW top \in Nat, top = Depth(c) + 1, Cleared(x, top)',
           \A o \in DagObjs : /\ dag'[o].results = dag[o].results
                              /\ dag'[o].status \in {dag[o].status, "Pending"}
                              /\ dag'[o].dag \in {dag[o].dag, None},
           \A p \in NodeObjs : /\ node'[p].sub = node[p].sub
                               /\ node'[p].status \in {node[p].status, "Pending"}
                               /\ node'[p].route \in {node[p].route, -1}
                               /\ node'[p].skip \in {node[p].skip, "none"}
    PROVE  Stacks' /\ CallType'
<1> DEFINE s == stack[c]
           k == Depth(c)
<1>1. s \in Seq(NodeObjs \cup DagObjs) /\ k = Len(s) /\ k \in Nat /\ k \in 1..Len(s) /\ s # <<>>
  BY Top
<1>2. x # None
  BY Objects
<1>3. PICK t : t = Append(s, x)
  OBVIOUS
<1>4. /\ t \in Seq(NodeObjs \cup DagObjs) /\ t # <<>> /\ Len(t) = k + 1 /\ t[k + 1] = x
      /\ \A i \in 1..k : t[i] = s[i]
  BY <1>1, <1>3, AppendProperties
<1>5. /\ stack' = [stack EXCEPT ![c] = t] /\ stack \in [Callers -> Seq(NodeObjs \cup DagObjs)]
  BY <1>3 DEF IndInv, CallType
<1>6. stack'[c] = t /\ \A d \in Callers : d # c => stack'[d] = stack[d]
  BY <1>5
<1>7. CallType'
  BY <1>4, <1>5, <1>6 DEF IndInv, CallType
<1>8. Resetting(c) = s[k]
  BY DEF Resetting
<1>9. ASSUME NEW d \in Callers, NEW j \in 1..Len(stack[d]), stack[d][j] = x
      PROVE  Odd(j) <=> Odd(k)
  <2> SUFFICES ASSUME Odd(j) <=> ~Odd(k) PROVE FALSE
    OBVIOUS
  <2>1. j \in Nat /\ Len(stack[d]) \in Nat /\ (Odd(k + 1) <=> ~Odd(k))
        /\ (j > 1 => /\ j - 1 \in 1..Len(stack[d]) /\ (Odd(j) <=> ~Odd(j - 1)))
    <3>1. j \in Nat /\ Len(stack[d]) \in Nat
      BY LenProperties DEF IndInv, CallType
    <3>2. j > 1 => j - 1 \in Nat /\ j - 1 \in 1..Len(stack[d]) /\ (j - 1) + 1 = j
      BY <3>1
    <3> QED BY <1>1, <3>1, <3>2, Parity
  <2>2. stack[d][j - 1] = s[k] /\ j > 1
    <3>1. CASE Odd(k)
      <4>1. PICK n \in Nodes : dag[s[k]].results[n] = x
        BY <1>8, <3>1
      <4>2. PICK m \in Nodes : dag[stack[d][j - 1]].results[m] = x
        BY <1>9, <3>1, OnStack
      <4>3. j > 1 /\ s[k] \in DagObjs /\ stack[d][j - 1] \in DagObjs
        BY <1>1, <3>1, OnStack
      <4> QED BY <1>2, <4>1, <4>2, <4>3, SMTT(30) DEF IndInv, NodesOnce
    <3>2. CASE ~Odd(k)
      <4>1. node[s[k]].sub = x /\ s[k] \in NodeObjs
        BY <1>1, <1>8, <3>2, OnStack
      <4>2. j > 1
        BY <1>2, <1>9, <2>1, <4>1, OnStack DEF IndInv, DagsOnce
      <4>3. stack[d][j - 1] \in NodeObjs /\ node[stack[d][j - 1]].sub = x
        BY <1>9, <3>2, <4>2, OnStack
      <4> QED BY <1>2, <4>1, <4>2, <4>3 DEF IndInv, DagsOnce
    <3> QED BY <3>1, <3>2
  <2>3. j - 1 \in 1..Len(stack[d]) /\ (Odd(j - 1) <=> Odd(k))
    BY <2>1, <2>2
  <2>4. d = c /\ j - 1 = k
    BY <1>1, <2>2, <2>3, SMTT(30) DEF IndInv, Stacks, Apart
  <2> QED BY <1>1, <2>1, <2>4
<1>10. Odd(k + 1) <=> ~Odd(k)
  BY <1>1, Parity
<1> HIDE DEF s, k
<1>11. \A d \in Callers : /\ \A i \in 1..Len(stack[d]) : i \in 1..Len(stack'[d]) /\ stack'[d][i] = stack[d][i]
                          /\ \A i \in 1..Len(stack'[d]) :
                                \/ i \in 1..Len(stack[d])
                                \/ d = c /\ i = k + 1 /\ stack'[d][i] = x
  <2> SUFFICES ASSUME NEW d \in Callers
               PROVE  /\ \A i \in 1..Len(stack[d]) : i \in 1..Len(stack'[d]) /\ stack'[d][i] = stack[d][i]
                      /\ \A i \in 1..Len(stack'[d]) :
                            \/ i \in 1..Len(stack[d])
                            \/ d = c /\ i = k + 1 /\ stack'[d][i] = x
    OBVIOUS
  <2>1. CASE d = c
    BY <1>1, <1>4, <1>6, <2>1 DEF s
  <2>2. CASE d # c
    BY <1>6, <2>2
  <2> QED BY <2>1, <2>2
<1>12. Apart'
  <2> SUFFICES ASSUME NEW d \in Callers, NEW e \in Callers,
                      NEW i \in 1..Len(stack'[d]), NEW j \in 1..Len(stack'[e]),
                      Odd(i) <=> Odd(j), stack'[d][i] = stack'[e][j]
               PROVE  d = e /\ i = j
    BY SMTT(30) DEF Apart, Odd
  <2>1. CASE i \in 1..Len(stack[d]) /\ j \in 1..Len(stack[e])
    BY <1>11, <2>1 DEF IndInv, Stacks, Apart
  <2>2. CASE i \notin 1..Len(stack[d]) /\ j \in 1..Len(stack[e])
    BY <1>9, <1>10, <1>11, <2>2
  <2>3. CASE i \in 1..Len(stack[d]) /\ j \notin 1..Len(stack[e])
    BY <1>9, <1>10, <1>11, <2>3
  <2>4. CASE i \notin 1..Len(stack[d]) /\ j \notin 1..Len(stack[e])
    BY <1>11, <2>4
  <2> QED BY <2>1, <2>2, <2>3, <2>4
<1>13. ASSUME NEW d \in Callers, d # c PROVE Path(d)'
  <2>1. Path(d) /\ stack'[d] = stack[d]
    BY <1>6, <1>13 DEF IndInv, Stacks
  <2>2. \A i \in 1..Len(stack[d]) : /\ Odd(i) => stack[d][i] \in DagObjs
                                    /\ ~Odd(i) => stack[d][i] \in NodeObjs
    BY OnStack
  <2> QED BY <2>1, <2>2, PathKept
<1>14. Path(c)'
  <2>1. Path(c)
    BY DEF IndInv, Stacks
  <2>2. t[1] = result'[c]
    BY <1>1, <1>4, <2>1 DEF Path, s
  <2>3. ASSUME NEW i \in 1..Len(t) PROVE Cleared(t[i], i)' /\ (i < Len(t) => Links(t, i)')
    <3>1. CASE i = k + 1
      <4>1. t[i] = x /\ i = top /\ ~(i < Len(t))
        BY <1>1, <1>4, <3>1 DEF k
      <4> QED BY <4>1
    <3>2. CASE i \in 1..k
      <4>1. Cleared(s[i], i) /\ t[i] = s[i] /\ (i < k => Links(s, i) /\ t[i + 1] = s[i + 1])
        BY <1>1, <1>4, <2>1, <3>2 DEF Path, s
      <4>2. Cleared(t[i], i)'
        BY <4>1 DEF Cleared, Odd
      <4>3. i < k => Links(t, i)'
        BY <4>1 DEF Cleared, Links, Odd
      <4>4. i = k => Links(t, i)'
        BY <1>1, <1>4, <1>8, <4>1 DEF Cleared, Links, Odd, k
      <4> QED BY <1>1, <1>4, <3>2, <4>2, <4>3, <4>4
    <3> QED BY <1>1, <1>4, <3>1, <3>2
  <2> QED BY <1>6, <2>2, <2>3 DEF Path
<1> QED BY <1>7, <1>12, <1>13, <1>14 DEF Stacks

LEMMA StepRelease == ASSUME IndInv, NEW c \in Callers, Release(c) PROVE IndInv'
<1>1. PICK o : o = result[c]
  OBVIOUS
<1>2. /\ phase[c] = "returned"
      /\ phase' = [phase EXCEPT ![c] = "release"] /\ stack' = [stack EXCEPT ![c] = <<o>>]
      /\ dag' = [dag EXCEPT ![o].status = "Pending", ![o].dag = None]
      /\ UNCHANGED <<node, nodePool, dagPool, nodesMade, dagsMade, open, closed, aborted, loop,
                     flight, result, runs, chain, executed>>
  BY <1>1 DEF Release, ClearedDag, pools, loops, hooks
<1>3. o \in DagObjs /\ stack[c] = <<>> /\ o # None
  BY <1>1, <1>2 DEF IndInv, CallType
<1>4. HeldDag(o) /\ ~IdleDag(o)
  BY <1>1, <1>3 DEF HeldDag, IndInv, DagsIdle
<1>5. /\ dag' \in [DagObjs -> DagResults]
      /\ dag'[o].status = "Pending" /\ dag'[o].dag = None
      /\ \A e \in DagObjs : dag'[e].results = dag[e].results /\ (e # o => dag'[e] = dag[e])
  BY <1>2, <1>3 DEF IndInv, ObjType, DagResults, Statuses
<1>6. PICK t : t = <<o>>
  OBVIOUS
<1>7. t \in Seq(NodeObjs \cup DagObjs) /\ t # <<>> /\ Len(t) = 1 /\ t[1] = o
  BY <1>3, <1>6
<1>8. /\ stack' \in [Callers -> Seq(NodeObjs \cup DagObjs)] /\ stack'[c] = t
      /\ phase' \in [Callers -> {"idle", "run", "returned", "release"}] /\ phase'[c] = "release"
      /\ \A d \in Callers : d # c => stack'[d] = stack[d] /\ phase'[d] = phase[d]
  BY <1>2, <1>6, <1>7 DEF IndInv, CallType
<1>9. ObjType' /\ PoolType' /\ LoopType' /\ CallType' /\ HookType'
  <2>1. CallType'
    BY <1>1, <1>2, <1>3, <1>7, <1>8 DEF IndInv, CallType
  <2> QED BY <1>2, <1>5, <2>1 DEF IndInv, ObjType, PoolType, LoopType, HookType
<1>10. NodesOnce' /\ DagsOnce' /\ NodesIdle'
  BY <1>2, <1>5 DEF IndInv, NodesOnce, DagsOnce, NodesIdle, IdleNode, HeldNode
<1>11. DagsIdle'
  BY <1>2, <1>4, <1>5 DEF IndInv, DagsIdle, IdleDag, HeldDag
<1>12. OpenHeld'
  BY <1>2, <1>8 DEF IndInv, OpenHeld
<1>13. Apart'
  <2>1. Odd(1) /\ \A i \in 1..Len(t) : i = 1
    BY <1>7, Parity
  <2>2. ASSUME NEW d \in Callers, NEW j \in 1..Len(stack[d]), Odd(j), stack[d][j] = o PROVE d = c
    BY <1>1, <1>3, <2>2, OnStack DEF IndInv, DagsOnce
  <2>3. ASSUME NEW d \in Callers, NEW e \in Callers,
               NEW i \in 1..Len(stack'[d]), NEW j \in 1..Len(stack'[e]),
               Odd(i) <=> Odd(j), stack'[d][i] = stack'[e][j]
        PROVE  d = e /\ i = j
    <3>1. CASE d = c /\ e = c
      BY <1>8, <2>1, <3>1
    <3>2. CASE d = c /\ e # c
      BY <1>7, <1>8, <2>1, <2>2, <2>3, <3>2
    <3>3. CASE d # c /\ e = c
      BY <1>7, <1>8, <2>1, <2>2, <2>3, <3>3
    <3>4. CASE d # c /\ e # c
      BY <1>8, <2>3, <3>4, SMTT(30) DEF IndInv, Stacks, Apart
    <3> QED BY <3>1, <3>2, <3>3, <3>4
  <2> QED BY <2>3 DEF Apart, Odd
<1>14. ASSUME NEW d \in Callers PROVE Path(d)'
  <2>1. CASE d = c
    <3>1. \A i \in 1..Len(t) : i = 1 /\ Cleared(t[i], i)' /\ ~(i < Len(t))
      BY <1>3, <1>5, <1>7, Parity DEF Cleared, Odd
    <3> QED BY <1>1, <1>2, <1>7, <1>8, <2>1, <3>1 DEF Path
  <2>2. CASE d # c
    <3>1. Path(d) /\ stack'[d] = stack[d]
      BY <1>8, <2>2 DEF IndInv, Stacks
    <3>2. \A i \in 1..Len(stack[d]) : Odd(i) => stack[d][i] \in DagObjs
      BY OnStack
    <3>3. \A e \in DagObjs : /\ dag'[e].status \in {dag[e].status, "Pending"}
                             /\ dag'[e].dag \in {dag[e].dag, None}
      BY <1>5
    <3> QED BY <1>2, <1>5, <3>1, <3>2, <3>3, PathKept
  <2> QED BY <2>1, <2>2
<1> QED BY <1>9, <1>10, <1>11, <1>12, <1>13, <1>14 DEF IndInv, Stacks

LEMMA StepResetNode == ASSUME IndInv, NEW c \in Callers, ResetNode(c) PROVE IndInv'
<1>1. /\ phase[c] = "release" /\ Odd(Depth(c)) /\ Depth(c) \in 1..Len(stack[c]) /\ Depth(c) \in Nat
      /\ Resetting(c) = stack[c][Depth(c)]
  BY Top DEF ResetNode, InDag, Resetting
<1>2. PICK n \in Nodes : \E p : /\ HasResult(Resetting(c), n)
                                 /\ p = dag[Resetting(c)].results[n]
                                 /\ stack' = [stack EXCEPT ![c] = Append(@, p)]
                                 /\ node' = ClearedNode(p)
  BY DEF ResetNode, Push
<1>3. PICK p : /\ HasResult(Resetting(c), n)
                /\ p = dag[Resetting(c)].results[n]
                /\ stack' = [stack EXCEPT ![c] = Append(@, p)]
                /\ node' = ClearedNode(p)
  BY <1>2
<1>4. UNCHANGED <<dag, nodePool, dagPool, nodesMade, dagsMade, open, closed, aborted, loop, flight,
                  result, phase, runs, chain, executed>>
  BY DEF ResetNode, pools, loops, hooks
<1>5. Resetting(c) \in DagObjs
  BY <1>1, OnStack
<1>6. p \in NodeObjs /\ HeldNode(p) /\ ~IdleNode(p)
  <2>1. p \in NodeObjs
    BY <1>3, <1>5 DEF HasResult, IndInv, ObjType, DagResults
  <2>2. HeldNode(p)
    BY <1>3, <1>5 DEF HeldNode
  <2> QED BY <2>1, <2>2 DEF IndInv, NodesIdle
<1>7. /\ node' \in [NodeObjs -> NodeResults]
      /\ node'[p].status = "Pending" /\ node'[p].route = -1 /\ node'[p].skip = "none"
      /\ \A q \in NodeObjs : node'[q].sub = node[q].sub /\ (q # p => node'[q] = node[q])
  <2>1. node' = [node EXCEPT ![p].status = "Pending", ![p].route = -1, ![p].skip = "none"]
    BY <1>3 DEF ClearedNode
  <2>2. node \in [NodeObjs -> NodeResults] /\ node[p] \in NodeResults
    BY <1>6 DEF IndInv, ObjType
  <2>3. "Pending" \in Statuses /\ "none" \in Reasons /\ -1 \in Int
    BY DEF Statuses, Reasons
  <2>4. PICK m : m = [node[p] EXCEPT !.status = "Pending", !.route = -1, !.skip = "none"]
    OBVIOUS
  <2>5. /\ m \in NodeResults /\ m.sub = node[p].sub
        /\ m.status = "Pending" /\ m.route = -1 /\ m.skip = "none"
    BY <2>2, <2>3, <2>4 DEF NodeResults
  <2>6. node' = [node EXCEPT ![p] = m]
    BY <1>6, <2>1, <2>2, <2>4
  <2> QED BY <1>6, <2>2, <2>5, <2>6, SMTT(30)
<1>8. Stacks' /\ CallType'
  <2>1. PICK top \in Nat : top = Depth(c) + 1
    BY <1>1
  <2>2. Cleared(p, top)'
    <3>1. ~Odd(top)
      BY <1>1, <2>1, Parity
    <3> QED BY <1>6, <1>7, <3>1 DEF Cleared, Odd
  <2>3. \A q \in NodeObjs : /\ node'[q].sub = node[q].sub
                            /\ node'[q].status \in {node[q].status, "Pending"}
                            /\ node'[q].route \in {node[q].route, -1}
                            /\ node'[q].skip \in {node[q].skip, "none"}
    BY <1>7
  <2>4. \E m \in Nodes : dag[Resetting(c)].results[m] = p
    BY <1>3
  <2>5. p \in NodeObjs \cup DagObjs
    BY <1>6
  <2> QED BY <1>1, <1>3, <1>4, <2>1, <2>2, <2>3, <2>4, <2>5, Pushed, Zenon
<1>9. ObjType' /\ PoolType' /\ LoopType' /\ HookType'
  BY <1>4, <1>7 DEF IndInv, ObjType, PoolType, LoopType, HookType
<1>10. NodesOnce' /\ DagsOnce' /\ DagsIdle'
  BY <1>4, <1>7 DEF IndInv, NodesOnce, DagsOnce, DagsIdle, IdleDag, HeldDag
<1>11. NodesIdle'
  BY <1>4, <1>6, <1>7 DEF IndInv, NodesIdle, IdleNode, HeldNode
<1>12. OpenHeld'
  BY <1>4 DEF IndInv, OpenHeld
<1> QED BY <1>8, <1>9, <1>10, <1>11, <1>12 DEF IndInv

LEMMA StepResetChild == ASSUME IndInv, NEW c \in Callers, ResetChild(c) PROVE IndInv'
<1>1. /\ phase[c] = "release" /\ ~Odd(Depth(c)) /\ Depth(c) \in 1..Len(stack[c]) /\ Depth(c) \in Nat
      /\ Resetting(c) = stack[c][Depth(c)]
  BY Top DEF ResetChild, InNode, Resetting
<1>2. PICK o : o = node[Resetting(c)].sub
  OBVIOUS
<1>3. /\ o # None /\ stack' = [stack EXCEPT ![c] = Append(@, o)]
      /\ dag' = [dag EXCEPT ![o].status = "Pending", ![o].dag = None]
      /\ UNCHANGED <<node, nodePool, dagPool, nodesMade, dagsMade, open, closed, aborted, loop, flight,
                     result, phase, runs, chain, executed>>
  BY <1>2 DEF ResetChild, ClearedDag, Push, pools, loops, hooks
<1>4. Resetting(c) \in NodeObjs
  BY <1>1, OnStack
<1>5. o \in DagObjs /\ HeldDag(o) /\ ~IdleDag(o)
  <2>1. o \in DagObjs
    BY <1>2, <1>3, <1>4 DEF IndInv, ObjType, NodeResults
  <2>2. HeldDag(o)
    BY <1>2, <1>4 DEF HeldDag
  <2> QED BY <2>1, <2>2 DEF IndInv, DagsIdle
<1>6. /\ dag' \in [DagObjs -> DagResults]
      /\ dag'[o].status = "Pending" /\ dag'[o].dag = None
      /\ \A e \in DagObjs : dag'[e].results = dag[e].results /\ (e # o => dag'[e] = dag[e])
  BY <1>3, <1>5, Zenon DEF IndInv, ObjType, DagResults, Statuses
<1>7. Stacks' /\ CallType'
  <2>1. PICK top \in Nat : top = Depth(c) + 1
    BY <1>1
  <2>2. Cleared(o, top)'
    <3>1. Odd(top)
      BY <1>1, <2>1, Parity
    <3> QED BY <1>5, <1>6, <3>1 DEF Cleared, Odd
  <2>3. \A e \in DagObjs : /\ dag'[e].results = dag[e].results
                           /\ dag'[e].status \in {dag[e].status, "Pending"}
                           /\ dag'[e].dag \in {dag[e].dag, None}
    BY <1>6
  <2>4. o \in NodeObjs \cup DagObjs
    BY <1>5
  <2> QED BY <1>1, <1>2, <1>3, <2>1, <2>2, <2>3, <2>4, Pushed, Zenon
<1>8. ObjType' /\ PoolType' /\ LoopType' /\ HookType'
  BY <1>3, <1>6 DEF IndInv, ObjType, PoolType, LoopType, HookType
<1>9. NodesOnce' /\ DagsOnce' /\ NodesIdle'
  BY <1>3, <1>6 DEF IndInv, NodesOnce, DagsOnce, NodesIdle, IdleNode, HeldNode
<1>10. DagsIdle'
  BY <1>3, <1>5, <1>6 DEF IndInv, DagsIdle, IdleDag, HeldDag
<1>11. OpenHeld'
  BY <1>3 DEF IndInv, OpenHeld
<1> QED BY <1>7, <1>8, <1>9, <1>10, <1>11 DEF IndInv

-----------------------------------------------------------------------------
(***************************************************************************)
(* A Reset ends: the path gets shorter, and nobody else's path is touched. *)
(***************************************************************************)
LEMMA Popped ==
    ASSUME IndInv, NEW c \in Callers, phase[c] = "release", NEW k \in Nat, k = Depth(c) - 1,
           stack' = [stack EXCEPT ![c] = SubSeq(@, 1, Depth(c) - 1)],
           \A d \in Callers : d # c \/ k > 0 => result'[d] = result[d],
           \A o \in DagObjs : /\ dag'[o].status = dag[o].status /\ dag'[o].dag = dag[o].dag
                              /\ ~Odd(k) \/ o # stack[c][k] => dag'[o].results = dag[o].results,
           \A p \in NodeObjs : /\ node'[p].status = node[p].status
                               /\ node'[p].route = node[p].route /\ node'[p].skip = node[p].skip
                               /\ k = 0 \/ Odd(k) \/ p # stack[c][k] => node'[p].sub = node[p].sub
    PROVE  /\ Stacks' /\ stack' \in [Callers -> Seq(NodeObjs \cup DagObjs)]
           /\ stack'[c] = <<>> <=> k = 0
           /\ \A d \in Callers : d # c => stack'[d] = stack[d]
<1> DEFINE s == stack[c]
<1>1. s \in Seq(NodeObjs \cup DagObjs) /\ Len(s) = k + 1 /\ k \in Nat /\ Depth(c) - 1 = k
  BY Top
<1>2. PICK t : t = SubSeq(s, 1, k)
  OBVIOUS
<1>3. t \in Seq(NodeObjs \cup DagObjs) /\ Len(t) = k /\ \A i \in 1..k : t[i] = s[i]
  BY <1>1, <1>2, SubSeqProperties
<1>4. t = <<>> <=> k = 0
  BY <1>3, EmptySeq, LenProperties
<1>5. stack' = [stack EXCEPT ![c] = t] /\ stack \in [Callers -> Seq(NodeObjs \cup DagObjs)]
  BY <1>1, <1>2 DEF IndInv, CallType
<1>6. /\ stack' \in [Callers -> Seq(NodeObjs \cup DagObjs)] /\ stack'[c] = t
      /\ \A d \in Callers : d # c => stack'[d] = stack[d]
  BY <1>3, <1>5
<1> HIDE DEF s
<1>7. \A d \in Callers : \A i \in 1..Len(stack'[d]) :
         i \in 1..Len(stack[d]) /\ stack'[d][i] = stack[d][i]
  <2> SUFFICES ASSUME NEW d \in Callers, NEW i \in 1..Len(stack'[d])
               PROVE  i \in 1..Len(stack[d]) /\ stack'[d][i] = stack[d][i]
    OBVIOUS
  <2>1. CASE d = c
    BY <1>1, <1>3, <1>6, <2>1 DEF s
  <2>2. CASE d # c
    BY <1>6, <2>2
  <2> QED BY <2>1, <2>2
<1>8. Apart'
  <2> SUFFICES ASSUME NEW d \in Callers, NEW e \in Callers,
                      NEW i \in 1..Len(stack'[d]), NEW j \in 1..Len(stack'[e]),
                      Odd(i) <=> Odd(j), stack'[d][i] = stack'[e][j]
               PROVE  d = e /\ i = j
    BY SMTT(30) DEF Apart, Odd
  <2> QED BY <1>7 DEF IndInv, Stacks, Apart
<1>9. ASSUME NEW d \in Callers, NEW i \in 1..Len(stack[d]), d # c \/ i # k
      PROVE  /\ Odd(i) => dag'[stack[d][i]].results = dag[stack[d][i]].results
             /\ ~Odd(i) => node'[stack[d][i]].sub = node[stack[d][i]].sub
  <2>1. /\ Odd(i) => stack[d][i] \in DagObjs
        /\ ~Odd(i) => stack[d][i] \in NodeObjs
    BY OnStack
  <2>2. CASE k = 0
    <3>1. ~Odd(k)
      BY <2>2 DEF Odd
    <3> QED BY <2>1, <2>2, <3>1
  <2>3. CASE k > 0
    <3>1. k \in 1..Len(stack[c])
      BY <1>1, <2>3 DEF s
    <3>2. (Odd(i) <=> Odd(k)) => stack[d][i] # stack[c][k]
      BY <1>9, <3>1 DEF IndInv, Stacks, Apart
    <3> QED BY <2>1, <3>2
  <2>4. k = 0 \/ k > 0
    BY ZeroOrMore
  <2> QED BY <2>2, <2>3, <2>4
<1>10. ASSUME NEW d \in Callers, d # c PROVE Path(d)'
  <2>1. Path(d) /\ stack'[d] = stack[d] /\ result'[d] = result[d]
    BY <1>6, <1>10 DEF IndInv, Stacks
  <2>2. \A i \in 1..Len(stack[d]) : /\ Odd(i) => stack[d][i] \in DagObjs
                                    /\ ~Odd(i) => stack[d][i] \in NodeObjs
    BY OnStack
  <2> QED BY <1>9, <1>10, <2>1, <2>2, PathKept
<1>11. Path(c)'
  <2>1. Path(c)
    BY DEF IndInv, Stacks
  <2>2. t # <<>> => t[1] = result'[c]
    <3> SUFFICES ASSUME t # <<>> PROVE t[1] = result'[c]
      OBVIOUS
    <3>1. k > 0 /\ 1 \in 1..k
      <4>1. k # 0
        BY <1>4
      <4> QED BY <4>1, ZeroOrMore
    <3>2. stack[c] # <<>>
      <4>1. Len(s) # 0
        BY <1>1
      <4> QED BY <4>1, EmptySeq DEF s
    <3>3. result'[c] = result[c]
      BY <3>1
    <3> QED BY <1>3, <2>1, <3>1, <3>2, <3>3 DEF Path, s
  <2>3. ASSUME NEW i \in 1..Len(t) PROVE Cleared(t[i], i)' /\ (i < Len(t) => Links(t, i)')
    <3>1. i \in 1..k /\ i \in 1..Len(s) /\ i < Len(s) /\ t[i] = s[i] /\ Cleared(s[i], i) /\ Links(s, i)
      BY <1>1, <1>3, <2>1 DEF Path, s
    <3>2. Cleared(t[i], i)'
      BY <3>1 DEF Cleared, Odd
    <3>3. i < k => Links(t, i)'
      <4> SUFFICES ASSUME i < k PROVE Links(t, i)'
        OBVIOUS
      <4>1. i + 1 \in 1..k /\ t[i + 1] = s[i + 1] /\ i # k
        BY <1>3, <3>1
      <4>2. /\ Odd(i) => dag'[s[i]].results = dag[s[i]].results
            /\ ~Odd(i) => node'[s[i]].sub = node[s[i]].sub
        BY <1>9, <3>1, <4>1 DEF s
      <4> QED BY <3>1, <4>1, <4>2 DEF Links, Odd
    <3> QED BY <1>3, <3>2, <3>3
  <2> QED BY <1>6, <2>2, <2>3 DEF Path
<1> QED BY <1>4, <1>6, <1>8, <1>10, <1>11 DEF Stacks

LEMMA StepPutNode == ASSUME IndInv, NEW c \in Callers, PutNode(c) PROVE IndInv'
<1>1. /\ phase[c] = "release" /\ ~Odd(Depth(c)) /\ Depth(c) \in 1..Len(stack[c]) /\ Depth(c) \in Nat
      /\ Resetting(c) = stack[c][Depth(c)]
  BY Top DEF PutNode, InNode, Resetting
<1>2. PICK p, o : p = Resetting(c) /\ o = stack[c][Depth(c) - 1]
  OBVIOUS
<1>3. /\ node[p].sub = None
      /\ nodePool' = [nodePool EXCEPT ![p] = @ + 1]
      /\ dag' = [dag EXCEPT ![o].results = [n \in Nodes |-> IF @[n] = p THEN None ELSE @[n]]]
      /\ stack' = [stack EXCEPT ![c] = SubSeq(@, 1, Depth(c) - 1)]
      /\ UNCHANGED <<node, dagPool, nodesMade, dagsMade, open, closed, aborted, loop, flight,
                     result, phase, runs, chain, executed>>
  BY <1>2 DEF PutNode, Pop, loops, hooks
<1>4. /\ p \in NodeObjs /\ ~IdleNode(p) /\ o \in DagObjs /\ Depth(c) > 1
      /\ \A f \in flight : f.nr # p
  BY <1>1, <1>2, OnStack
<1>5. PICK m \in Nodes : dag[o].results[m] = p
  BY <1>1, <1>2, OnStack
<1>6. PICK r : r = [n \in Nodes |-> IF dag[o].results[n] = p THEN None ELSE dag[o].results[n]]
  OBVIOUS
<1>7. /\ r \in [Nodes -> NodeObjs \cup {None}]
      /\ \A n \in Nodes : r[n] # p /\ (r[n] = dag[o].results[n] \/ r[n] = None)
  <2>1. dag[o].results \in [Nodes -> NodeObjs \cup {None}]
    BY <1>4 DEF IndInv, ObjType, DagResults
  <2>2. None # p
    BY <1>4, Objects
  <2> QED BY <1>6, <2>1, <2>2
<1>8. dag' = [dag EXCEPT ![o].results = r]
  BY <1>3, <1>4, <1>6 DEF IndInv, ObjType
<1>9. /\ dag' \in [DagObjs -> DagResults] /\ dag'[o].results = r
      /\ \A e \in DagObjs : /\ dag'[e].status = dag[e].status /\ dag'[e].dag = dag[e].dag
                            /\ e # o => dag'[e] = dag[e]
  BY <1>4, <1>7, <1>8 DEF IndInv, ObjType, DagResults
<1>10. \A e \in DagObjs : \A n \in Nodes :
          dag'[e].results[n] # None => dag'[e].results[n] = dag[e].results[n]
  BY <1>7, <1>9
<1>11. /\ nodePool' \in [NodeObjs -> {0, 1}]
       /\ \A q \in NodeObjs : q > nodesMade' => nodePool'[q] = 0
       /\ \A q \in NodeObjs : IdleNode(q)' => q = p \/ IdleNode(q)
  BY <1>3, <1>4, PutsNode DEF IndInv
<1>12. PICK k \in Nat : k = Depth(c) - 1 /\ k > 0
  BY <1>1, <1>4
<1>13. Odd(k) /\ o = stack[c][k]
  <2>1. Depth(c) = k + 1
    BY <1>1, <1>12
  <2> QED BY <1>1, <1>2, <1>12, <2>1, Parity
<1>14. /\ Stacks' /\ stack' \in [Callers -> Seq(NodeObjs \cup DagObjs)]
       /\ stack'[c] = <<>> <=> k = 0
       /\ \A d \in Callers : d # c => stack'[d] = stack[d]
  <2>1. \A d \in Callers : d # c \/ k > 0 => result'[d] = result[d]
    BY <1>3
  <2>2. \A e \in DagObjs : /\ dag'[e].status = dag[e].status /\ dag'[e].dag = dag[e].dag
                           /\ ~Odd(k) \/ e # stack[c][k] => dag'[e].results = dag[e].results
    BY <1>9, <1>13
  <2>3. \A q \in NodeObjs : /\ node'[q].status = node[q].status
                            /\ node'[q].route = node[q].route /\ node'[q].skip = node[q].skip
                            /\ k = 0 \/ Odd(k) \/ q # stack[c][k] => node'[q].sub = node[q].sub
    BY <1>3
  <2> QED BY <1>1, <1>3, <1>12, <2>1, <2>2, <2>3, Popped
<1>15. ObjType' /\ PoolType' /\ LoopType' /\ HookType'
  BY <1>3, <1>9, <1>11 DEF IndInv, ObjType, PoolType, LoopType, HookType
<1>16. CallType'
  <2>1. \A d \in Callers : stack'[d] # <<>> <=> stack[d] # <<>>
    <3>1. stack[c] # <<>>
      BY <1>1, Top
    <3> QED BY <1>12, <1>14, <3>1
  <2> QED BY <1>3, <1>14, <2>1 DEF IndInv, CallType
<1>17. NodesOnce'
  <2>1. \A e, g \in DagObjs : \A n, l \in Nodes :
           dag'[e].results[n] # None /\ dag'[e].results[n] = dag'[g].results[l] => e = g /\ n = l
    BY <1>10 DEF IndInv, NodesOnce
  <2>2. \A f \in flight' : \A e \in DagObjs : \A n \in Nodes : dag'[e].results[n] # f.nr
    <3>1. \A f \in flight : f.nr # None
      BY Objects DEF IndInv, LoopType
    <3> QED BY <1>3, <1>10, <3>1 DEF IndInv, NodesOnce
  <2> QED BY <1>3, <2>1, <2>2 DEF IndInv, NodesOnce
<1>18. DagsOnce' /\ DagsIdle'
  <2>1. DagsOnce'
    BY <1>3 DEF IndInv, DagsOnce
  <2>2. ASSUME NEW e \in DagObjs, IdleDag(e)' PROVE ~HeldDag(e)' /\ dag'[e] = NewDag
    <3>1. IdleDag(e) /\ ~HeldDag(e) /\ dag[e] = NewDag
      BY <1>3, <2>2 DEF IdleDag, IndInv, DagsIdle
    <3>2. e # o
      BY <1>4, <1>5, <3>1, Objects
    <3> QED BY <1>3, <1>9, <3>1, <3>2 DEF HeldDag
  <2> QED BY <2>1, <2>2 DEF DagsIdle
<1>19. NodesIdle'
  <2> SUFFICES ASSUME NEW q \in NodeObjs, IdleNode(q)' PROVE ~HeldNode(q)' /\ node'[q] = NewNode
    BY DEF NodesIdle
  <2>0. q # None
    BY Objects
  <2>1. CASE q = p
    <3>1. Cleared(p, Depth(c))
      BY <1>1, <1>2 DEF IndInv, Stacks, Path
    <3>2. node[p] \in NodeResults
      BY <1>4 DEF IndInv, ObjType
    <3>3. node[p] = NewNode
      BY <1>1, <1>3, <3>1, <3>2 DEF Cleared, NodeResults, NewNode
    <3>4. \A e \in DagObjs : \A n \in Nodes : dag'[e].results[n] # p
      <4>1. \A e \in DagObjs : \A n \in Nodes : dag[e].results[n] = p => e = o
        BY <1>4, <1>5, <2>0, <2>1 DEF IndInv, NodesOnce
      <4> QED BY <1>7, <1>9, <4>1
    <3> QED BY <1>3, <1>4, <2>1, <3>3, <3>4 DEF HeldNode
  <2>2. CASE q # p
    <3>1. ~HeldNode(q) /\ node[q] = NewNode
      BY <1>11, <2>2 DEF IndInv, NodesIdle
    <3> QED BY <1>3, <1>10, <2>0, <3>1 DEF HeldNode
  <2> QED BY <2>1, <2>2
<1>20. OpenHeld'
  BY <1>3 DEF IndInv, OpenHeld
<1> QED BY <1>14, <1>15, <1>16, <1>17, <1>18, <1>19, <1>20 DEF IndInv

LEMMA StepPutChild == ASSUME IndInv, NEW c \in Callers, PutChild(c) PROVE IndInv'
<1>1. /\ phase[c] = "release" /\ Odd(Depth(c)) /\ Depth(c) \in 1..Len(stack[c]) /\ Depth(c) \in Nat
      /\ Resetting(c) = stack[c][Depth(c)] /\ Depth(c) > 1
  BY Top DEF PutChild, InDag, Resetting
<1>2. PICK o, p : o = Resetting(c) /\ p = stack[c][Depth(c) - 1]
  OBVIOUS
<1>3. /\ \A n \in Nodes : dag[o].results[n] = None
      /\ dagPool' = [dagPool EXCEPT ![o] = @ + 1]
      /\ node' = [node EXCEPT ![p].sub = None]
      /\ stack' = [stack EXCEPT ![c] = SubSeq(@, 1, Depth(c) - 1)]
      /\ UNCHANGED <<dag, nodePool, nodesMade, dagsMade, open, closed, aborted, loop, flight,
                     result, phase, runs, chain, executed>>
  BY <1>2 DEF PutChild, Pop, HasResult, loops, hooks
<1>4. o \in DagObjs /\ ~IdleDag(o) /\ p \in NodeObjs /\ node[p].sub = o /\ o # None
  <2>1. o \in DagObjs /\ ~IdleDag(o) /\ p \in NodeObjs /\ node[p].sub = o
    BY <1>1, <1>2, OnStack
  <2> QED BY <2>1, Objects
<1>5. /\ node' \in [NodeObjs -> NodeResults] /\ node'[p].sub = None
      /\ \A q \in NodeObjs : /\ node'[q].status = node[q].status /\ node'[q].route = node[q].route
                             /\ node'[q].skip = node[q].skip
                             /\ q # p => node'[q] = node[q]
  BY <1>3, <1>4 DEF IndInv, ObjType, NodeResults
<1>6. \A q \in NodeObjs : /\ node'[q].sub # None => node'[q].sub = node[q].sub
                          /\ node'[q].sub # o
  BY <1>4, <1>5 DEF IndInv, DagsOnce
<1>7. /\ dagPool' \in [DagObjs -> {0, 1}]
      /\ \A e \in DagObjs : e > dagsMade' => dagPool'[e] = 0
      /\ \A e \in DagObjs : IdleDag(e)' => e = o \/ IdleDag(e)
  BY <1>3, <1>4, PutsDag DEF IndInv
<1>8. PICK k \in Nat : k = Depth(c) - 1 /\ k > 0
  BY <1>1
<1>9. ~Odd(k) /\ p = stack[c][k]
  <2>1. Depth(c) = k + 1
    BY <1>1, <1>8
  <2> QED BY <1>1, <1>2, <1>8, <2>1, Parity
<1>10. /\ Stacks' /\ stack' \in [Callers -> Seq(NodeObjs \cup DagObjs)]
       /\ stack'[c] = <<>> <=> k = 0
       /\ \A d \in Callers : d # c => stack'[d] = stack[d]
  <2>1. \A d \in Callers : d # c \/ k > 0 => result'[d] = result[d]
    BY <1>3
  <2>2. \A e \in DagObjs : /\ dag'[e].status = dag[e].status /\ dag'[e].dag = dag[e].dag
                           /\ ~Odd(k) \/ e # stack[c][k] => dag'[e].results = dag[e].results
    BY <1>3
  <2>3. \A q \in NodeObjs : /\ node'[q].status = node[q].status
                            /\ node'[q].route = node[q].route /\ node'[q].skip = node[q].skip
                            /\ k = 0 \/ Odd(k) \/ q # stack[c][k] => node'[q].sub = node[q].sub
    BY <1>5, <1>8, <1>9
  <2> QED BY <1>1, <1>3, <1>8, <2>1, <2>2, <2>3, Popped
<1>11. ObjType' /\ PoolType' /\ LoopType' /\ HookType'
  BY <1>3, <1>5, <1>7 DEF IndInv, ObjType, PoolType, LoopType, HookType
<1>12. CallType'
  <2>1. \A d \in Callers : stack'[d] # <<>> <=> stack[d] # <<>>
    <3>1. stack[c] # <<>>
      BY <1>1, Top
    <3> QED BY <1>8, <1>10, <3>1
  <2> QED BY <1>3, <1>10, <2>1 DEF IndInv, CallType
<1>13. NodesOnce'
  BY <1>3 DEF IndInv, NodesOnce
<1>14. DagsOnce'
  <2>1. \A q, r \in NodeObjs : node'[q].sub # None /\ node'[q].sub = node'[r].sub => q = r
    BY <1>6 DEF IndInv, DagsOnce
  <2>2. \A d \in Callers : \A q \in NodeObjs : result'[d] # None => result'[d] # node'[q].sub
    BY <1>3, <1>6 DEF IndInv, DagsOnce
  <2>3. \A f \in flight' : \A q \in NodeObjs : node'[q].sub # f.child
    <3>1. \A f \in flight : f.child # None
      BY Objects DEF IndInv, LoopType
    <3> QED BY <1>3, <1>6, <3>1 DEF IndInv, DagsOnce
  <2> QED BY <1>3, <2>1, <2>2, <2>3 DEF IndInv, DagsOnce
<1>15. NodesIdle'
  <2> SUFFICES ASSUME NEW q \in NodeObjs, IdleNode(q)' PROVE ~HeldNode(q)' /\ node'[q] = NewNode
    BY DEF NodesIdle
  <2>1. IdleNode(q) /\ ~HeldNode(q) /\ node[q] = NewNode
    BY <1>3 DEF IdleNode, IndInv, NodesIdle
  <2>2. q # p
    BY <1>4, <2>1, Objects
  <2> QED BY <1>3, <1>5, <2>1, <2>2 DEF HeldNode
<1>16. DagsIdle'
  <2> SUFFICES ASSUME NEW e \in DagObjs, IdleDag(e)' PROVE ~HeldDag(e)' /\ dag'[e] = NewDag
    BY DEF DagsIdle
  <2>0. e # None
    BY Objects
  <2>1. CASE e = o
    <3>1. Cleared(o, Depth(c))
      BY <1>1, <1>2 DEF IndInv, Stacks, Path
    <3>2. dag[o] \in DagResults
      BY <1>4 DEF IndInv, ObjType
    <3>3. dag[o].results = [n \in Nodes |-> None]
      BY <1>3, <3>2 DEF DagResults
    <3>4. dag[o] = NewDag
      BY <1>1, <3>1, <3>2, <3>3 DEF Cleared, DagResults, NewDag
    <3>5. /\ \A d \in Callers : result[d] # o
          /\ \A f \in flight : f.child # o
      BY <1>4 DEF IndInv, DagsOnce
    <3> QED BY <1>3, <1>6, <2>1, <3>4, <3>5 DEF HeldDag
  <2>2. CASE e # o
    <3>1. ~HeldDag(e) /\ dag[e] = NewDag
      BY <1>7, <2>2 DEF IndInv, DagsIdle
    <3> QED BY <1>3, <1>6, <2>0, <3>1 DEF HeldDag
  <2> QED BY <2>1, <2>2
<1>17. OpenHeld'
  BY <1>3 DEF IndInv, OpenHeld
<1> QED BY <1>10, <1>11, <1>12, <1>13, <1>14, <1>15, <1>16, <1>17 DEF IndInv

LEMMA StepPutRoot == ASSUME IndInv, NEW c \in Callers, PutRoot(c) PROVE IndInv'
<1>1. /\ phase[c] = "release" /\ Odd(Depth(c)) /\ Depth(c) \in 1..Len(stack[c]) /\ Depth(c) \in Nat
      /\ Resetting(c) = stack[c][Depth(c)] /\ Depth(c) = 1
  BY Top DEF PutRoot, InDag, Resetting
<1>2. PICK o : o = Resetting(c)
  OBVIOUS
<1>3. /\ \A n \in Nodes : dag[o].results[n] = None
      /\ dagPool' = [dagPool EXCEPT ![o] = @ + 1]
      /\ result' = [result EXCEPT ![c] = None] /\ phase' = [phase EXCEPT ![c] = "idle"]
      /\ stack' = [stack EXCEPT ![c] = SubSeq(@, 1, Depth(c) - 1)]
      /\ UNCHANGED <<node, dag, nodePool, nodesMade, dagsMade, open, closed, aborted, loop, flight,
                     runs, chain, executed>>
  BY <1>2 DEF PutRoot, Pop, HasResult, loops, hooks, objects
<1>4. o \in DagObjs /\ ~IdleDag(o) /\ o = result[c] /\ o # None
  <2>1. o \in DagObjs /\ ~IdleDag(o) /\ o = result[c]
    BY <1>1, <1>2, OnStack
  <2> QED BY <2>1, Objects
<1>5. /\ result' \in [Callers -> DagObjs \cup {None}] /\ result'[c] = None
      /\ phase' \in [Callers -> {"idle", "run", "returned", "release"}] /\ phase'[c] = "idle"
      /\ \A d \in Callers : d # c => result'[d] = result[d] /\ phase'[d] = phase[d]
  BY <1>3 DEF IndInv, CallType
<1>6. \A d \in Callers : /\ result'[d] # None => result'[d] = result[d] /\ d # c
                         /\ result'[d] # o
  BY <1>4, <1>5 DEF IndInv, DagsOnce
<1>7. /\ dagPool' \in [DagObjs -> {0, 1}]
      /\ \A e \in DagObjs : e > dagsMade' => dagPool'[e] = 0
      /\ \A e \in DagObjs : IdleDag(e)' => e = o \/ IdleDag(e)
  BY <1>3, <1>4, PutsDag DEF IndInv
<1>8. PICK k \in Nat : k = Depth(c) - 1 /\ k = 0
  BY <1>1
<1>9. /\ Stacks' /\ stack' \in [Callers -> Seq(NodeObjs \cup DagObjs)]
      /\ stack'[c] = <<>> <=> k = 0
      /\ \A d \in Callers : d # c => stack'[d] = stack[d]
  <2>1. \A d \in Callers : d # c \/ k > 0 => result'[d] = result[d]
    BY <1>5, <1>8
  <2>2. \A e \in DagObjs : /\ dag'[e].status = dag[e].status /\ dag'[e].dag = dag[e].dag
                           /\ ~Odd(k) \/ e # stack[c][k] => dag'[e].results = dag[e].results
    BY <1>3
  <2>3. \A q \in NodeObjs : /\ node'[q].status = node[q].status
                            /\ node'[q].route = node[q].route /\ node'[q].skip = node[q].skip
                            /\ k = 0 \/ Odd(k) \/ q # stack[c][k] => node'[q].sub = node[q].sub
    BY <1>3
  <2> QED BY <1>1, <1>3, <1>8, <2>1, <2>2, <2>3, Popped
<1>10. ObjType' /\ PoolType' /\ LoopType' /\ HookType'
  BY <1>3, <1>7 DEF IndInv, ObjType, PoolType, LoopType, HookType
<1>11. CallType'
  BY <1>3, <1>5, <1>8, <1>9 DEF IndInv, CallType
<1>12. NodesOnce' /\ NodesIdle'
  BY <1>3 DEF IndInv, NodesOnce, NodesIdle, IdleNode, HeldNode
<1>13. DagsOnce'
  <2>1. \A f \in flight' : \A d \in Callers : result'[d] # f.child
    <3>1. \A f \in flight : f.child # None
      BY Objects DEF IndInv, LoopType
    <3> QED BY <1>3, <1>6, <3>1 DEF IndInv, DagsOnce
  <2>2. /\ \A d, e \in Callers : result'[d] # None /\ result'[d] = result'[e] => d = e
        /\ \A d \in Callers : \A q \in NodeObjs : result'[d] # None => result'[d] # node'[q].sub
    BY <1>3, <1>6 DEF IndInv, DagsOnce
  <2> QED BY <1>3, <2>1, <2>2 DEF IndInv, DagsOnce
<1>14. DagsIdle'
  <2> SUFFICES ASSUME NEW e \in DagObjs, IdleDag(e)' PROVE ~HeldDag(e)' /\ dag'[e] = NewDag
    BY DEF DagsIdle
  <2>0. e # None
    BY Objects
  <2>1. CASE e = o
    <3>1. Cleared(o, Depth(c))
      BY <1>1, <1>2 DEF IndInv, Stacks, Path
    <3>2. dag[o] \in DagResults
      BY <1>4 DEF IndInv, ObjType
    <3>3. dag[o].results = [n \in Nodes |-> None]
      BY <1>3, <3>2 DEF DagResults
    <3>4. dag[o] = NewDag
      BY <1>1, <3>1, <3>2, <3>3 DEF Cleared, DagResults, NewDag
    <3>5. /\ \A q \in NodeObjs : node[q].sub # o
          /\ \A f \in flight : f.child # o
      BY <1>4 DEF IndInv, DagsOnce
    <3> QED BY <1>3, <1>6, <2>1, <3>4, <3>5 DEF HeldDag
  <2>2. CASE e # o
    <3>1. ~HeldDag(e) /\ dag[e] = NewDag
      BY <1>7, <2>2 DEF IndInv, DagsIdle
    <3> QED BY <1>3, <1>6, <2>0, <3>1 DEF HeldDag
  <2> QED BY <2>1, <2>2
<1>15. OpenHeld'
  BY <1>3, <1>5, <1>1 DEF IndInv, OpenHeld
<1> QED BY <1>9, <1>10, <1>11, <1>12, <1>13, <1>14, <1>15 DEF IndInv

-----------------------------------------------------------------------------
LEMMA InitIndInv == Init => IndInv
<1> SUFFICES ASSUME Init PROVE IndInv
  OBVIOUS
<1>1. ObjType /\ PoolType
  BY Objects DEF Init, ObjType, PoolType
<1>2. LoopType
  BY DEF Init, LoopType, LoopState, NewLoop
<1>3. stack \in [Callers -> Seq(NodeObjs \cup DagObjs)] /\ \A c \in Callers : stack[c] = <<>> /\ Len(stack[c]) = 0
  BY DEF Init
<1>4. CallType /\ HookType
  BY <1>3, Objects, ResultsAssumption DEF Init, CallType, HookType, ResultsAssumption
<1>5. NodesOnce /\ DagsOnce /\ NodesIdle /\ DagsIdle
  BY Objects DEF Init, NodesOnce, DagsOnce, NodesIdle, DagsIdle, HeldNode, HeldDag
<1>6. OpenHeld
  BY DEF Init, OpenHeld
<1>7. Stacks
  BY <1>3 DEF Stacks, Apart, Path
<1> QED BY <1>1, <1>2, <1>4, <1>5, <1>6, <1>7 DEF IndInv

LEMMA StepStutter == ASSUME IndInv, UNCHANGED vars PROVE IndInv'
<1>1. UNCHANGED <<node, dag, nodePool, dagPool, nodesMade, dagsMade, open, closed, aborted, loop, flight,
                  result, phase, runs, stack, chain, executed>>
  BY DEF vars, objects, pools, loops, callers, hooks
<1>2. (ObjType /\ PoolType /\ LoopType /\ CallType /\ HookType)'
  BY <1>1 DEF IndInv, ObjType, PoolType, LoopType, CallType, HookType
<1>3. (NodesOnce /\ DagsOnce /\ NodesIdle /\ DagsIdle /\ OpenHeld)'
  BY <1>1 DEF IndInv, NodesOnce, DagsOnce, NodesIdle, DagsIdle, IdleNode, IdleDag, HeldNode, HeldDag,
              OpenHeld
<1>4. Stacks'
  BY <1>1 DEF IndInv, Stacks, Apart, Path, Cleared, Links, Odd
<1> QED BY <1>2, <1>3, <1>4 DEF IndInv

LEMMA NextIndInv == IndInv /\ [Next]_vars => IndInv'
<1> SUFFICES ASSUME IndInv, [Next]_vars PROVE IndInv'
  OBVIOUS
<1>1. CASE RunStarts
  BY <1>1, StepRun DEF RunStarts
<1>2. CASE LoopStep
  <2>1. PICK o \in open : \/ \E n \in NodesOf(o), p \in FreeNodes :
                                \/ Execute(o, n, p)
                                \/ Skip(o, n, p)
                                \/ \E q \in FreeDags : BeginSubflow(o, n, p, q)
                          \/ Abort(o)
                          \/ EndLoop(o)
    BY <1>2 DEF LoopStep
  <2>2. ASSUME NEW n \in NodesOf(o), NEW p \in FreeNodes, Execute(o, n, p) PROVE IndInv'
    BY <2>2, StepExecute
  <2>3. ASSUME NEW n \in NodesOf(o), NEW p \in FreeNodes, Skip(o, n, p) PROVE IndInv'
    BY <2>3, StepSkip
  <2>4. ASSUME NEW n \in NodesOf(o), NEW p \in FreeNodes, NEW q \in FreeDags, BeginSubflow(o, n, p, q)
        PROVE  IndInv'
    BY <2>4, StepBeginSubflow
  <2>5. CASE Abort(o)
    BY <2>5, StepAbort
  <2>6. CASE EndLoop(o)
    BY <2>6, StepEndLoop
  <2> QED BY <2>1, <2>2, <2>3, <2>4, <2>5, <2>6
<1>3. CASE Goroutine
  BY <1>3, StepEndSubflow, StepSubflowPanics DEF Goroutine
<1>4. ASSUME NEW c \in Callers, Return(c) PROVE IndInv'
  BY <1>4, StepReturn
<1>5. ASSUME NEW c \in Callers, ReleaseStep(c) PROVE IndInv'
  BY <1>5, StepRelease, StepResetNode, StepResetChild, StepPutNode, StepPutChild, StepPutRoot
     DEF ReleaseStep
<1>6. CASE UNCHANGED vars
  BY <1>6, StepStutter
<1> QED BY <1>1, <1>2, <1>3, <1>4, <1>5, <1>6 DEF Next

(***************************************************************************)
(* The invariant holds in every reachable state.                           *)
(***************************************************************************)
THEOREM ResultsInductive == Spec => []IndInv
BY InitIndInv, NextIndInv, PTL DEF Spec

(***************************************************************************)
(* Every variable keeps its type, and the pools give out no object that was*)
(* written to before New made it.                                          *)
(***************************************************************************)
THEOREM TypeCorrect == Spec => []TypeOK
<1>1. ASSUME IndInv PROVE TypeOK
  <2>1. /\ nodePool \in [NodeObjs -> Nat] /\ nodesMade \in 0..MaxNodes
        /\ dagPool \in [DagObjs -> Nat] /\ dagsMade \in 0..MaxDags
    <3>1. nodePool \in [NodeObjs -> {0, 1}] /\ dagPool \in [DagObjs -> {0, 1}]
      BY <1>1 DEF IndInv, PoolType
    <3>2. \A p \in NodeObjs : nodePool[p] \in Nat
      BY <3>1
    <3>3. \A o \in DagObjs : dagPool[o] \in Nat
      BY <3>1
    <3> QED BY <1>1, <3>1, <3>2, <3>3 DEF IndInv, PoolType
  <2>2. /\ \A p \in NodeObjs : p > nodesMade => nodePool[p] = 0 /\ node[p] = NewNode
        /\ \A o \in DagObjs : o > dagsMade => dagPool[o] = 0 /\ dag[o] = NewDag
    BY <1>1 DEF IndInv, PoolType, NodesIdle, DagsIdle, IdleNode, IdleDag
  <2>3. node \in [NodeObjs -> NodeResults] /\ dag \in [DagObjs -> DagResults]
    BY <1>1 DEF IndInv, ObjType
  <2>4. /\ closed \subseteq open /\ aborted \subseteq open /\ open \subseteq DagObjs
        /\ loop \in [DagObjs -> LoopState]
        /\ flight \subseteq [nr : NodeObjs, node : Nodes, parent : open \cup {None}, child : DagObjs]
    BY <1>1 DEF IndInv, LoopType
  <2>5. /\ result \in [Callers -> DagObjs \cup {None}]
        /\ phase \in [Callers -> {"idle", "run", "returned", "release"}]
        /\ runs \in 0..MaxRuns
    BY <1>1 DEF IndInv, CallType
  <2>6. DOMAIN stack = Callers
    BY <1>1 DEF IndInv, CallType
  <2>7. \A c \in Callers : (phase[c] = "release") = (stack[c] # <<>>)
    <3>1. \A c \in Callers : phase[c] = "release" <=> stack[c] # <<>>
      BY <1>1 DEF IndInv, CallType
    <3> QED BY <3>1
  <2>8. DOMAIN chain = Dags /\ executed \in [Dags -> Nat]
    BY <1>1 DEF IndInv, HookType
  <2> QED BY <2>1, <2>2, <2>3, <2>4, <2>5, <2>6, <2>7, <2>8
          DEF TypeOK, NodeResults, DagResults, LoopState
<1> QED BY <1>1, ResultsInductive, PTL

-----------------------------------------------------------------------------
(***************************************************************************)
(* What no two things hold has one holder at most.                         *)
(***************************************************************************)
LEMMA OneAtMost ==
    ASSUME NEW S, \A x, y \in S : x = y
    PROVE  Cardinality(S) \in {0, 1} /\ (S = {} => Cardinality(S) = 0)
<1>1. CASE S = {}
  BY <1>1, FS_EmptySet
<1>2. CASE S # {}
  <2>1. PICK x : x \in S
    BY <1>2
  <2>2. S = {x}
    BY <2>1
  <2> QED BY <1>2, <2>2, FS_Singleton
<1> QED BY <1>1, <1>2

LEMMA NodeHeldOnce ==
    ASSUME IndInv, NEW p \in NodeObjs
    PROVE  /\ \A x, y \in NodeHolders(p) : x = y
           /\ ~HeldNode(p) => NodeHolders(p) = {}
<1>1. p # None
  BY Objects
<1>2. \A x \in NodeHolders(p) :
         \/ \E o \in DagObjs : \E n \in Nodes : x = <<"result", <<o, n>>>> /\ dag[o].results[n] = p
         \/ \E f \in flight : x = <<"flight", f.nr, f.child>> /\ f.nr = p
  BY DEF NodeHolders
<1>3. \A x, y \in NodeHolders(p) : x = y
  <2> SUFFICES ASSUME NEW x \in NodeHolders(p), NEW y \in NodeHolders(p) PROVE x = y
    OBVIOUS
  <2>1. CASE \E f \in flight : f.nr = p
    <3>1. PICK f \in flight : f.nr = p
      BY <2>1
    <3>2. \A o \in DagObjs : \A n \in Nodes : dag[o].results[n] # p
      BY <3>1 DEF IndInv, NodesOnce
    <3>3. \A g \in flight : g.nr = p => g = f
      BY <3>1 DEF IndInv, NodesOnce
    <3> QED BY <1>2, <3>2, <3>3
  <2>2. CASE ~\E f \in flight : f.nr = p
    <3>1. PICK o \in DagObjs, n \in Nodes : x = <<"result", <<o, n>>>> /\ dag[o].results[n] = p
      BY <1>2, <2>2
    <3>2. PICK e \in DagObjs, m \in Nodes : y = <<"result", <<e, m>>>> /\ dag[e].results[m] = p
      BY <1>2, <2>2
    <3>3. o = e /\ n = m
      BY <1>1, <3>1, <3>2 DEF IndInv, NodesOnce
    <3> QED BY <3>1, <3>2, <3>3
  <2> QED BY <2>1, <2>2
<1>4. ~HeldNode(p) => NodeHolders(p) = {}
  BY <1>2 DEF HeldNode
<1> QED BY <1>3, <1>4

LEMMA DagHeldOnce ==
    ASSUME IndInv, NEW o \in DagObjs
    PROVE  /\ \A x, y \in DagHolders(o) : x = y
           /\ ~HeldDag(o) => DagHolders(o) = {}
<1>1. o # None
  BY Objects
<1>2. \A x \in DagHolders(o) :
         \/ \E c \in Callers : x = <<"caller", c>> /\ result[c] = o
         \/ \E p \in NodeObjs : x = <<"result", p>> /\ node[p].sub = o
         \/ \E f \in flight : x = <<"flight", f.nr>> /\ f.child = o
  BY DEF DagHolders
<1>3. \A x, y \in DagHolders(o) : x = y
  <2> SUFFICES ASSUME NEW x \in DagHolders(o), NEW y \in DagHolders(o) PROVE x = y
    OBVIOUS
  <2>1. CASE \E f \in flight : f.child = o
    <3>1. PICK f \in flight : f.child = o
      BY <2>1
    <3>2. /\ \A c \in Callers : result[c] # o
          /\ \A p \in NodeObjs : node[p].sub # o
          /\ \A g \in flight : g.child = o => g = f
      BY <3>1 DEF IndInv, DagsOnce
    <3> QED BY <1>2, <3>2
  <2>2. CASE \E c \in Callers : result[c] = o
    <3>1. PICK c \in Callers : result[c] = o
      BY <2>2
    <3>2. /\ \A d \in Callers : result[d] = o => d = c
          /\ \A p \in NodeObjs : node[p].sub # o
          /\ \A g \in flight : g.child # o
      BY <1>1, <3>1 DEF IndInv, DagsOnce
    <3> QED BY <1>2, <3>2
  <2>3. CASE (~\E f \in flight : f.child = o) /\ ~\E c \in Callers : result[c] = o
    <3>1. PICK p \in NodeObjs : x = <<"result", p>> /\ node[p].sub = o
      BY <1>2, <2>3
    <3>2. PICK q \in NodeObjs : y = <<"result", q>> /\ node[q].sub = o
      BY <1>2, <2>3
    <3>3. p = q
      BY <1>1, <3>1, <3>2 DEF IndInv, DagsOnce
    <3> QED BY <3>1, <3>2, <3>3
  <2> QED BY <2>1, <2>2, <2>3
<1>4. ~HeldDag(o) => DagHolders(o) = {}
  BY <1>2 DEF HeldDag
<1> QED BY <1>3, <1>4

(***************************************************************************)
(* An object is in its pool, once, held by nobody and as New would make it,*)
(* or outside with one holder at most, whatever the callers run and release*)
(* at the same time (result.go:117-150).                                   *)
(***************************************************************************)
THEOREM PoolFree == Spec => []PoolIsFree
<1>1. ASSUME IndInv PROVE PoolIsFree
  <2>1. ASSUME NEW p \in NodeObjs
        PROVE  /\ Cardinality(NodeHolders(p)) + nodePool[p] <= 1
               /\ nodePool[p] > 0 => node[p] = NewNode
    <3>1. nodePool[p] \in {0, 1}
      BY <1>1 DEF IndInv, PoolType
    <3>2. nodePool[p] > 0 => ~HeldNode(p) /\ node[p] = NewNode
      BY <1>1 DEF IndInv, NodesIdle, IdleNode
    <3>3. /\ \A x, y \in NodeHolders(p) : x = y
          /\ ~HeldNode(p) => NodeHolders(p) = {}
      BY <1>1, NodeHeldOnce
    <3>4. PICK S : S = NodeHolders(p)
      OBVIOUS
    <3>5. Cardinality(S) \in {0, 1} /\ (S = {} => Cardinality(S) = 0)
      BY <3>3, <3>4, OneAtMost
    <3> QED BY <3>1, <3>2, <3>3, <3>4, <3>5
  <2>2. ASSUME NEW o \in DagObjs
        PROVE  /\ Cardinality(DagHolders(o)) + dagPool[o] <= 1
               /\ dagPool[o] > 0 => dag[o] = NewDag
    <3>1. dagPool[o] \in {0, 1}
      BY <1>1 DEF IndInv, PoolType
    <3>2. dagPool[o] > 0 => ~HeldDag(o) /\ dag[o] = NewDag
      BY <1>1 DEF IndInv, DagsIdle, IdleDag
    <3>3. /\ \A x, y \in DagHolders(o) : x = y
          /\ ~HeldDag(o) => DagHolders(o) = {}
      BY <1>1, DagHeldOnce
    <3>4. PICK S : S = DagHolders(o)
      OBVIOUS
    <3>5. Cardinality(S) \in {0, 1} /\ (S = {} => Cardinality(S) = 0)
      BY <3>3, <3>4, OneAtMost
    <3> QED BY <3>1, <3>2, <3>3, <3>4, <3>5
  <2> QED BY <2>1, <2>2 DEF PoolIsFree
<1> QED BY <1>1, ResultsInductive, PTL

-----------------------------------------------------------------------------
(***************************************************************************)
(* The elements of a sequence.                                             *)
(***************************************************************************)
LEMMA InRange ==
    ASSUME NEW V, NEW s \in Seq(V)
    PROVE  /\ Len(s) \in Nat /\ DOMAIN s = 1..Len(s) /\ \A i \in 1..Len(s) : s[i] \in V
           /\ \A v : v \in Range(s) <=> \E i \in 1..Len(s) : s[i] = v
           /\ Range(s) \subseteq V
BY LenProperties, ElementOfSeq DEF Range

LEMMA Concat ==
    ASSUME NEW V, NEW s \in Seq(V), NEW t \in Seq(V)
    PROVE  /\ s \o t \in Seq(V)
           /\ \A v : v \in Range(s \o t) <=> v \in Range(s) \/ v \in Range(t)
<1>1. PICK k \in Nat, l \in Nat : k = Len(s) /\ l = Len(t)
  BY InRange
<1>2. /\ s \o t \in Seq(V) /\ Len(s \o t) = k + l
      /\ \A i \in 1..(k + l) : (s \o t)[i] = IF i <= k THEN s[i] ELSE t[i - k]
  BY <1>1, ConcatProperties
<1>3. ASSUME NEW v \in Range(s \o t) PROVE v \in Range(s) \/ v \in Range(t)
  <2>1. PICK i \in 1..(k + l) : (s \o t)[i] = v
    BY <1>2, InRange, ZenonT(60)
  <2>2. CASE i <= k
    <3>1. i \in 1..k /\ s[i] = v
      BY <1>2, <2>1, <2>2
    <3> QED BY <1>1, <3>1, InRange
  <2>3. CASE ~(i <= k)
    <3>1. i - k \in 1..l /\ t[i - k] = v
      BY <1>2, <2>1, <2>3
    <3> QED BY <1>1, <3>1, InRange
  <2> QED BY <2>2, <2>3
<1>4. ASSUME NEW v \in Range(s) PROVE v \in Range(s \o t)
  <2>1. PICK i \in 1..k : s[i] = v
    BY <1>1, InRange
  <2>2. i \in 1..(k + l) /\ (s \o t)[i] = v
    BY <1>2, <2>1
  <2> QED BY <1>2, <2>2, InRange
<1>5. ASSUME NEW v \in Range(t) PROVE v \in Range(s \o t)
  <2>1. PICK i \in 1..l : t[i] = v
    BY <1>1, InRange
  <2>2. i + k \in 1..(k + l) /\ ~(i + k <= k) /\ (i + k) - k = i
    BY <2>1
  <2>3. (s \o t)[i + k] = v
    BY <1>2, <2>1, <2>2
  <2> QED BY <1>2, <2>2, <2>3, InRange
<1> QED BY <1>2, <1>3, <1>4, <1>5

-----------------------------------------------------------------------------
(***************************************************************************)
(* How often a value occurs in a sequence.                                 *)
(***************************************************************************)
Places(s, h) == {i \in DOMAIN s : s[i] = h}

Count(s, h) == Cardinality(Places(s, h))

LEMMA PlacesFinite ==
    ASSUME NEW V, NEW s \in Seq(V), NEW h
    PROVE  IsFiniteSet(Places(s, h)) /\ Count(s, h) \in Nat /\ DOMAIN s = 1..Len(s) /\ Len(s) \in Nat
<1>1. DOMAIN s = 1..Len(s) /\ Len(s) \in Nat
  BY LenProperties
<1>2. IsFiniteSet(1..Len(s))
  BY <1>1, FS_Interval
<1>3. Places(s, h) \in SUBSET (1..Len(s))
  BY <1>1 DEF Places
<1>4. IsFiniteSet(Places(s, h))
  BY <1>2, <1>3, FS_Subset
<1> QED BY <1>1, <1>4, FS_CardinalityType DEF Count

LEMMA CountNone ==
    ASSUME NEW V, NEW s \in Seq(V), NEW h, \A i \in DOMAIN s : s[i] # h
    PROVE  Count(s, h) = 0
<1>1. Places(s, h) = {}
  BY DEF Places
<1> QED BY <1>1, FS_EmptySet DEF Count

LEMMA CountOne ==
    ASSUME NEW V, NEW s \in Seq(V), NEW k \in DOMAIN s,
           \A i, j \in DOMAIN s : s[i] = s[j] => i = j
    PROVE  Count(s, s[k]) = 1
<1>1. Places(s, s[k]) = {k}
  BY DEF Places
<1> QED BY <1>1, FS_Singleton DEF Count

LEMMA CountConcat ==
    ASSUME NEW V, NEW s \in Seq(V), NEW t \in Seq(V), NEW h
    PROVE  Count(s \o t, h) = Count(s, h) + Count(t, h)
<1>1. PICK k : k = Len(s)
  OBVIOUS
<1>2. /\ IsFiniteSet(Places(s, h)) /\ IsFiniteSet(Places(t, h))
      /\ DOMAIN s = 1..k /\ DOMAIN t = 1..Len(t) /\ k \in Nat /\ Len(t) \in Nat
  BY <1>1, PlacesFinite
<1>3. PICK B : B = {i \in (k + 1)..(k + Len(t)) : t[i - k] = h}
  OBVIOUS
<1>4. PICK f : f = [i \in Places(t, h) |-> i + k]
  OBVIOUS
<1>5. f \in Bijection(Places(t, h), B)
  <2>1. f \in [Places(t, h) -> B]
    BY <1>2, <1>3, <1>4 DEF Places
  <2>2. \A i, j \in Places(t, h) : f[i] = f[j] => i = j
    BY <1>2, <1>4 DEF Places
  <2>3. \A b \in B : \E i \in Places(t, h) : f[i] = b
    <3> SUFFICES ASSUME NEW b \in B PROVE \E i \in Places(t, h) : f[i] = b
      OBVIOUS
    <3>1. b - k \in 1..Len(t) /\ t[b - k] = h /\ (b - k) + k = b
      BY <1>2, <1>3
    <3>2. b - k \in Places(t, h)
      BY <1>2, <3>1 DEF Places
    <3> QED BY <1>4, <3>1, <3>2
  <2> QED BY <2>1, <2>2, <2>3, Fun_IsBij
<1>6. IsFiniteSet(B) /\ Cardinality(B) = Count(t, h)
  BY <1>2, <1>5, FS_Bijection DEF ExistsBijection, Count
<1>7. /\ Len(s \o t) = k + Len(t) /\ DOMAIN (s \o t) = 1..(k + Len(t))
      /\ \A i \in 1..(k + Len(t)) : (s \o t)[i] = IF i <= k THEN s[i] ELSE t[i - k]
  BY <1>1, <1>2, ConcatProperties, LenProperties
<1>8. Places(s \o t, h) = Places(s, h) \cup B /\ Places(s, h) \cap B = {}
  <2>1. \A i \in 1..(k + Len(t)) : \/ i \in 1..k /\ i <= k
                                   \/ i \in (k + 1)..(k + Len(t)) /\ ~(i <= k)
    BY <1>2
  <2>2. \A i \in 1..k : i \in 1..(k + Len(t)) /\ i <= k
    BY <1>2
  <2>3. \A i \in (k + 1)..(k + Len(t)) : i \in 1..(k + Len(t)) /\ ~(i <= k) /\ i \notin 1..k
    BY <1>2
  <2> QED BY <1>2, <1>3, <1>7, <2>1, <2>2, <2>3 DEF Places
<1>9. Cardinality(Places(s, h) \cup B) = Cardinality(Places(s, h)) + Cardinality(B) - 0
  BY <1>2, <1>6, <1>8, FS_Union, FS_EmptySet
<1>10. Count(s, h) \in Nat /\ Count(t, h) \in Nat
  BY PlacesFinite
<1> QED BY <1>6, <1>8, <1>9, <1>10 DEF Count

-----------------------------------------------------------------------------
(***************************************************************************)
(* A DAG and those above it.                                               *)
(***************************************************************************)
Upward(S) == \A x \in S : Parents(x) \subseteq S

Up(d) == {x \in Dags : \A S \in SUBSET Dags : d \in S /\ Upward(S) => x \in S}

LEMMA ParentDags ==
    ASSUME NEW d
    PROVE  Parents(d) \subseteq Dags /\ \A m \in Nodes : Child[m] = d => Home[m] \in Parents(d)
BY ResultsAssumption DEF Parents, ResultsAssumption

LEMMA UpFacts ==
    ASSUME NEW d \in Dags
    PROVE  /\ Up(d) \in SUBSET Dags /\ d \in Up(d) /\ Upward(Up(d))
           /\ \A S \in SUBSET Dags : d \in S /\ Upward(S) => Up(d) \subseteq S
<1>1. Upward(Up(d))
  <2> SUFFICES ASSUME NEW x \in Up(d), NEW y \in Parents(x),
                      NEW S \in SUBSET Dags, d \in S, Upward(S)
               PROVE  y \in S
    BY ParentDags DEF Upward, Up
  <2>1. x \in S
    BY DEF Up
  <2> QED BY <2>1 DEF Upward
<1> QED BY <1>1 DEF Up

LEMMA NotAbove ==
    ASSUME DagsNested, NEW e \in Dags, NEW d \in Parents(e)
    PROVE  d \in Dags /\ e \notin Up(d)
<1>1. d \in Dags
  BY ParentDags
<1>2. PICK T : T = {x \in Up(d) : e \in Up(x)}
  OBVIOUS
<1>3. ASSUME e \in Up(d) PROVE FALSE
  <2>1. T \in SUBSET Dags /\ T # {} /\ d \in T
    BY <1>1, <1>2, <1>3, UpFacts
  <2>2. PICK x \in T : Parents(x) \cap T = {}
    BY <2>1 DEF DagsNested
  <2>3. x \in Dags /\ x \in Up(d) /\ e \in Up(x)
    BY <1>2, <2>1, <2>2
  <2>4. x # e
    BY <2>1, <2>2
  <2>5. PICK S : S = {x} \cup {z \in Dags : \E y \in Parents(x) : z \in Up(y)}
    OBVIOUS
  <2>6. \A y \in Parents(x) : y \in Dags /\ y \in Up(y) /\ Upward(Up(y))
    BY ParentDags, UpFacts
  <2>7. S \in SUBSET Dags /\ x \in S /\ Upward(S)
    <3>1. \A z \in S : Parents(z) \subseteq S
      <4> SUFFICES ASSUME NEW z \in S, NEW w \in Parents(z) PROVE w \in S
        OBVIOUS
      <4>1. w \in Dags
        BY ParentDags
      <4>2. CASE z = x
        BY <2>5, <2>6, <4>1, <4>2
      <4>3. CASE z # x
        <5>1. PICK y \in Parents(x) : z \in Up(y)
          BY <2>5, <4>3
        <5>2. w \in Up(y)
          BY <2>6, <5>1 DEF Upward
        <5> QED BY <2>5, <4>1, <5>1, <5>2
      <4> QED BY <4>2, <4>3
    <3> QED BY <2>3, <2>5, <3>1 DEF Upward
  <2>8. e \in S
    BY <2>3, <2>7, UpFacts
  <2>9. PICK y \in Parents(x) : e \in Up(y)
    BY <2>4, <2>5, <2>8
  <2>10. y \in Up(d)
    BY <1>1, <2>3, <2>9, UpFacts DEF Upward
  <2> QED BY <1>2, <2>2, <2>9, <2>10
<1> QED BY <1>1, <1>3

-----------------------------------------------------------------------------
(***************************************************************************)
(* The chain of a DAG: its own hooks and those of DAGs above it, those of  *)
(* its parent once if it is built anew.                                    *)
(***************************************************************************)
AllHooks == UNION {Own(d) : d \in Dags}

Above(s, d) == \A i \in 1..Len(s) : \E x \in Up(d) : s[i] \in Own(x)

ChainOf(d) ==
    /\ chain[d] \in Seq(AllHooks) /\ Above(chain[d], d)
    /\ \A h \in Own(d) : Count(chain[d], h) = 1
    /\ executed[d] > 0 /\ d \notin Reused =>
          \A e \in Parents(d) : \A h \in Own(e) : Count(chain[d], h) = 1

(***************************************************************************)
(* A DAG is executed after its parent, whose chain has no other hooks then *)
(* than whenever the parent is executed again.                             *)
(***************************************************************************)
Inherited(d) ==
    \/ executed[d] = 0 /\ chain[d] = Hooks[d]
    \/ /\ executed[d] > 0 /\ \A e \in Parents(d) : executed[e] > 0
       /\ Called(d) = Own(d) \cup UNION {Called(e) : e \in Parents(d)}

Chained ==
    /\ DOMAIN chain = Dags /\ executed \in [Dags -> Nat]
    /\ \A d \in Dags : ChainOf(d) /\ Inherited(d)

Begun == \A o \in open : dag[o].dag \in Dags /\ executed[dag[o].dag] > 0

LEMMA ParentIsNoChild ==
    ASSUME DagsNested, NEW d \in Dags, NEW e \in Parents(d)
    PROVE  /\ e \in Dags /\ e # d /\ d \notin Up(e) /\ Up(e) \subseteq Up(d)
           /\ Own(d) \cap Own(e) = {} /\ Parents(d) = {e}
<1>1. e \in Dags /\ d \notin Up(e)
  BY NotAbove
<1>2. e # d /\ e \in Up(d)
  BY <1>1, UpFacts DEF Upward
<1>3. Up(e) \subseteq Up(d)
  <2>1. Up(d) \in SUBSET Dags /\ Upward(Up(d))
    BY UpFacts
  <2> QED BY <1>1, <1>2, <2>1, UpFacts
<1> QED BY <1>1, <1>2, <1>3 DEF DagsNested

LEMMA OwnHooks ==
    ASSUME DagsNested, NEW d \in Dags
    PROVE  /\ Hooks[d] \in Seq(AllHooks) /\ Above(Hooks[d], d) /\ Range(Hooks[d]) = Own(d)
           /\ \A h \in Own(d) : Count(Hooks[d], h) = 1
           /\ \A e \in Parents(d) : \A h \in Own(e) : Count(Hooks[d], h) = 0
<1>1. PICK s : s = Hooks[d]
  OBVIOUS
<1>2. /\ s \in Seq(Own(d)) /\ \A i, j \in DOMAIN s : s[i] = s[j] => i = j
      /\ Own(d) = {s[i] : i \in DOMAIN s} /\ Own(d) \subseteq AllHooks
  <2>1. s \in Seq(Own(d)) /\ \A i, j \in DOMAIN s : s[i] = s[j] => i = j
    BY <1>1 DEF DagsNested
  <2>2. Own(d) = {s[i] : i \in DOMAIN s}
    BY <1>1 DEF Own
  <2>3. Own(d) \subseteq AllHooks
    BY DEF AllHooks
  <2> QED BY <2>1, <2>2, <2>3
<1>3. Len(s) \in Nat /\ DOMAIN s = 1..Len(s) /\ s \in Seq(AllHooks) /\ Range(s) = Own(d)
  BY <1>2, LenProperties DEF Range
<1>4. Above(s, d)
  BY <1>2, <1>3, UpFacts DEF Above
<1>5. ASSUME NEW h \in Own(d) PROVE Count(s, h) = 1
  <2>1. PICK k \in DOMAIN s : h = s[k]
    BY <1>2
  <2> QED BY <1>2, <2>1, CountOne
<1>6. ASSUME NEW e \in Parents(d), NEW h \in Own(e) PROVE Count(s, h) = 0
  <2>1. h \notin Own(d)
    BY ParentIsNoChild
  <2>2. \A i \in DOMAIN s : s[i] # h
    BY <1>2, <2>1
  <2> QED BY <1>3, <2>2, CountNone
<1> QED BY <1>1, <1>3, <1>4, <1>5, <1>6

(***************************************************************************)
(* The hooks of a DAG below are not in a chain.                            *)
(***************************************************************************)
LEMMA NotInChain ==
    ASSUME DagsNested, Chained, NEW d \in Dags, NEW e \in Parents(d), NEW h \in Own(d)
    PROVE  Count(chain[e], h) = 0
<1>1. e \in Dags /\ d \notin Up(e)
  BY ParentIsNoChild
<1>2. chain[e] \in Seq(AllHooks) /\ Above(chain[e], e)
  BY <1>1 DEF Chained, ChainOf
<1>3. DOMAIN chain[e] = 1..Len(chain[e])
  BY <1>2, LenProperties
<1>4. \A x \in Up(e) : h \notin Own(x)
  <2>1. \A x \in Up(e) : x \in Dags /\ x # d
    BY <1>1, UpFacts
  <2> QED BY <2>1 DEF DagsNested
<1>5. \A i \in DOMAIN chain[e] : chain[e][i] # h
  BY <1>2, <1>3, <1>4 DEF Above
<1> QED BY <1>2, <1>5, CountNone

LEMMA ChainExtended ==
    ASSUME DagsNested, Chained, NEW d \in Dags, NEW e \in Parents(d), executed[e] > 0,
           chain' = [chain EXCEPT ![d] = Merged(d, chain[e])],
           executed' = [executed EXCEPT ![d] = @ + 1]
    PROVE  Chained'
<1>1. PICK b : b = IF d \in Reused THEN chain[d] ELSE Hooks[d]
  OBVIOUS
<1>2. PICK p : p = chain[e]
  OBVIOUS
<1>3. PICK s : s = b \o p
  OBVIOUS
<1>4. /\ e \in Dags /\ e # d /\ Up(e) \subseteq Up(d) /\ Parents(d) = {e}
      /\ DOMAIN chain = Dags /\ executed \in [Dags -> Nat] /\ executed[d] \in Nat
  BY ParentIsNoChild DEF Chained
<1>5. /\ b \in Seq(AllHooks) /\ Above(b, d) /\ \A h \in Own(d) : Count(b, h) = 1
      /\ d \notin Reused => \A h \in Own(e) : Count(b, h) = 0
      /\ Range(b) \cup Range(p) = Own(d) \cup Called(e)
  <2>1. CASE d \in Reused /\ executed[d] > 0
    <3>1. Called(d) = Own(d) \cup UNION {Called(x) : x \in Parents(d)}
      BY <1>4, <2>1 DEF Chained, Inherited
    <3>2. Range(b) = Own(d) \cup Called(e)
      BY <1>1, <1>4, <2>1, <3>1 DEF Called, Range
    <3> QED BY <1>1, <1>2, <2>1, <3>2 DEF Chained, ChainOf, Called, Range
  <2>2. CASE ~(d \in Reused /\ executed[d] > 0)
    <3>1. b = Hooks[d]
      BY <1>1, <1>4, <2>2 DEF Chained, Inherited
    <3> QED BY <1>2, <3>1, OwnHooks DEF Called, Range
  <2> QED BY <2>1, <2>2
<1>6. p \in Seq(AllHooks) /\ Above(p, e) /\ \A h \in Own(e) : Count(p, h) = 1
  BY <1>2, <1>4 DEF Chained, ChainOf
<1>7. \A h \in Own(d) : Count(p, h) = 0
  BY <1>2, NotInChain
<1>8. \A h : Count(s, h) = Count(b, h) + Count(p, h) /\ Count(b, h) \in Nat /\ Count(p, h) \in Nat
  BY <1>3, <1>5, <1>6, CountConcat, PlacesFinite
<1>9. /\ s \in Seq(AllHooks) /\ Len(s) = Len(b) + Len(p) /\ Len(b) \in Nat /\ Len(p) \in Nat
      /\ \A i \in 1..Len(b) + Len(p) : s[i] = IF i <= Len(b) THEN b[i] ELSE p[i - Len(b)]
  BY <1>3, <1>5, <1>6, ConcatProperties, LenProperties
<1>10. Range(s) = Own(d) \cup Called(e)
  <2>1. \A v : v \in Range(s) <=> v \in Range(b) \/ v \in Range(p)
    BY <1>3, <1>5, <1>6, Concat
  <2> QED BY <1>5, <2>1
<1>11. Above(s, d)
  <2> SUFFICES ASSUME NEW i \in 1..Len(s) PROVE \E x \in Up(d) : s[i] \in Own(x)
    BY DEF Above
  <2>1. CASE i <= Len(b)
    <3>1. i \in 1..Len(b) /\ s[i] = b[i]
      BY <1>9, <2>1
    <3> QED BY <1>5, <3>1 DEF Above
  <2>2. CASE ~(i <= Len(b))
    <3>1. i - Len(b) \in 1..Len(p) /\ s[i] = p[i - Len(b)]
      BY <1>9, <2>2
    <3>2. \E x \in Up(e) : p[i - Len(b)] \in Own(x)
      BY <1>6, <3>1 DEF Above
    <3> QED BY <1>4, <3>1, <3>2
  <2> QED BY <2>1, <2>2
<1>12. \A h \in Own(d) : Count(s, h) = 1
  BY <1>5, <1>7, <1>8
<1>13. d \notin Reused => \A g \in Parents(d) : \A h \in Own(g) : Count(s, h) = 1
  BY <1>4, <1>5, <1>6, <1>8
<1>14. /\ chain'[d] = s /\ executed'[d] = executed[d] + 1 /\ DOMAIN chain' = Dags
       /\ executed' \in [Dags -> Nat]
       /\ \A g \in Dags : g # d => chain'[g] = chain[g] /\ executed'[g] = executed[g]
  BY <1>1, <1>2, <1>3, <1>4 DEF Merged
<1>15. \A g \in Dags : g # d => Called(g)' = Called(g)
  BY <1>14 DEF Called
<1>16. Called(d)' = Own(d) \cup Called(e)
  BY <1>10, <1>14 DEF Called, Range
<1>17. ASSUME executed[d] > 0 PROVE Called(d)' = Called(d)
  <2>1. Called(d) = Own(d) \cup UNION {Called(x) : x \in Parents(d)}
    BY <1>4, <1>17 DEF Chained, Inherited
  <2> QED BY <1>4, <1>16, <2>1
<1>18. ChainOf(d)' /\ Inherited(d)'
  <2>1. ChainOf(d)'
    BY <1>9, <1>11, <1>12, <1>13, <1>14 DEF ChainOf
  <2>2. UNION {Called(x)' : x \in Parents(d)} = Called(e)
    BY <1>4, <1>15
  <2>3. executed'[d] > 0 /\ \A x \in Parents(d) : executed'[x] > 0
    BY <1>4, <1>14
  <2> QED BY <1>16, <2>1, <2>2, <2>3 DEF Inherited
<1>19. ASSUME NEW g \in Dags, g # d PROVE ChainOf(g)' /\ Inherited(g)'
  <2>1. ChainOf(g) /\ Inherited(g) /\ Parents(g) \subseteq Dags
    BY ParentDags DEF Chained
  <2>2. ChainOf(g)'
    BY <1>14, <1>19, <2>1 DEF ChainOf
  <2>5. chain'[g] = chain[g] /\ executed'[g] = executed[g] /\ executed[g] \in Nat
    BY <1>4, <1>14, <1>19
  <2>3. CASE executed[g] = 0
    <3>1. chain[g] = Hooks[g]
      BY <2>1, <2>3 DEF Inherited
    <3> QED BY <2>2, <2>3, <2>5, <3>1 DEF Inherited
  <2>4. CASE executed[g] # 0
    <3>1. /\ executed[g] > 0 /\ \A x \in Parents(g) : executed[x] > 0
          /\ Called(g) = Own(g) \cup UNION {Called(x) : x \in Parents(g)}
      BY <2>1, <2>4 DEF Inherited
    <3>2. \A x \in Parents(g) : Called(x)' = Called(x)
      BY <1>15, <1>17, <2>1, <3>1
    <3>3. Called(g)' = Own(g) \cup UNION {Called(x)' : x \in Parents(g)}
      BY <1>15, <1>19, <3>1, <3>2
    <3>4. \A x \in Parents(g) : executed'[x] > 0
      BY <1>4, <1>14, <2>1, <3>1
    <3> QED BY <2>2, <2>5, <3>1, <3>3, <3>4 DEF Inherited
  <2> QED BY <2>2, <2>3, <2>4
<1> QED BY <1>14, <1>18, <1>19 DEF Chained

(***************************************************************************)
(* Only the start of a Run and the launch of a subflow touch the chains.   *)
(***************************************************************************)
LEMMA ChainedStep == ASSUME DagsNested, Chained, Begun, [Next]_vars PROVE Chained'
<1>1. ASSUME UNCHANGED hooks PROVE Chained'
  <2>1. chain' = chain /\ executed' = executed
    BY <1>1 DEF hooks
  <2>2. \A d : Called(d)' = Called(d)
    BY <2>1 DEF Called
  <2>3. ASSUME NEW d \in Dags PROVE ChainOf(d)' /\ Inherited(d)'
    <3>1. ChainOf(d) /\ Inherited(d)
      BY DEF Chained
    <3>2. Inherited(d)'
      BY <2>1, <2>2, <3>1 DEF Inherited
    <3> QED BY <2>1, <3>1, <3>2 DEF ChainOf
  <2> QED BY <2>1, <2>3 DEF Chained
<1>2. ASSUME NEW c \in Callers, NEW d \in Entries[c], NEW o, Run(c, d, o) PROVE Chained'
  <2>1. d \in Dags /\ Parents(d) = {}
    BY ResultsAssumption DEF ResultsAssumption, DagsNested
  <2>2. chain' = chain /\ executed' = [executed EXCEPT ![d] = @ + 1]
    BY <1>2 DEF Run
  <2>3. /\ executed' \in [Dags -> Nat] /\ DOMAIN chain' = Dags /\ executed'[d] > 0
        /\ \A g \in Dags : g # d => executed'[g] = executed[g]
        /\ \A g \in Dags : executed[g] > 0 => executed'[g] > 0
    BY <2>1, <2>2 DEF Chained
  <2>4. \A g \in Dags : Called(g)' = Called(g)
    BY <2>2 DEF Called
  <2>5. ASSUME NEW g \in Dags PROVE ChainOf(g)' /\ Inherited(g)'
    <3>1. ChainOf(g) /\ Inherited(g) /\ Parents(g) \subseteq Dags
      BY ParentDags DEF Chained
    <3>2. CASE g = d
      <4>1. Called(d) = Own(d)
        <5>1. CASE chain[d] = Hooks[d]
          BY <2>1, <5>1, OwnHooks DEF Called, Range
        <5>2. CASE Called(d) = Own(d) \cup UNION {Called(e) : e \in Parents(d)}
          BY <2>1, <5>2
        <5> QED BY <3>1, <3>2, <5>1, <5>2 DEF Inherited
      <4>2. UNION {Called(e)' : e \in Parents(d)} = {}
        BY <2>1
      <4>3. Inherited(d)'
        BY <2>1, <2>3, <2>4, <4>1, <4>2 DEF Inherited
      <4> QED BY <2>1, <2>2, <3>1, <3>2, <4>3 DEF ChainOf
    <3>3. CASE g # d
      <4>1. UNION {Called(e)' : e \in Parents(g)} = UNION {Called(e) : e \in Parents(g)}
        BY <2>4, <3>1
      <4>2. Inherited(g)'
        BY <2>2, <2>3, <2>4, <3>1, <3>3, <4>1 DEF Inherited
      <4> QED BY <2>2, <2>3, <3>1, <3>3, <4>2 DEF ChainOf
    <3> QED BY <3>2, <3>3
  <2> QED BY <2>3, <2>5 DEF Chained
<1>3. ASSUME NEW o \in open, NEW n \in NodesOf(o), NEW p, NEW q, BeginSubflow(o, n, p, q)
      PROVE  Chained'
  <2>1. n \in Nodes /\ Home[n] = dag[o].dag /\ Child[n] \in Dags
    BY <1>3, ResultsAssumption DEF BeginSubflow, NodesOf, ResultsAssumption
  <2>2. dag[o].dag \in Parents(Child[n]) /\ executed[dag[o].dag] > 0
    BY <2>1, ParentDags DEF Begun
  <2>3. /\ chain' = [chain EXCEPT ![Child[n]] = Merged(Child[n], chain[dag[o].dag])]
        /\ executed' = [executed EXCEPT ![Child[n]] = @ + 1]
    BY <1>3 DEF BeginSubflow
  <2> QED BY <2>1, <2>2, <2>3, ChainExtended
<1>4. CASE RunStarts
  <2>1. PICK c \in Callers, o \in FreeDags :
                \E d \in Entries[c] : Run(c, d, o) \/ RunRejected(c, d, o)
    BY <1>4 DEF RunStarts
  <2>2. PICK d \in Entries[c] : Run(c, d, o) \/ RunRejected(c, d, o)
    BY <2>1
  <2>3. CASE RunRejected(c, d, o)
    BY <1>1, <2>3 DEF RunRejected
  <2> QED BY <1>2, <2>2, <2>3
<1>5. CASE LoopStep
  <2>1. PICK o \in open : \/ \E n \in NodesOf(o), p \in FreeNodes :
                                \/ Execute(o, n, p)
                                \/ Skip(o, n, p)
                                \/ \E q \in FreeDags : BeginSubflow(o, n, p, q)
                          \/ Abort(o)
                          \/ EndLoop(o)
    BY <1>5 DEF LoopStep
  <2>2. ASSUME NEW n \in NodesOf(o), NEW p \in FreeNodes, Execute(o, n, p) \/ Skip(o, n, p)
        PROVE  Chained'
    BY <1>1, <2>2, SMTT(30) DEF Execute, Skip
  <2>3. CASE Abort(o) \/ EndLoop(o)
    BY <1>1, <2>3 DEF Abort, EndLoop
  <2> QED BY <1>3, <2>1, <2>2, <2>3
<1>6. CASE Goroutine
  <2>1. PICK f \in flight : EndSubflow(f) \/ SubflowPanics(f)
    BY <1>6 DEF Goroutine
  <2>2. UNCHANGED hooks
    BY <2>1 DEF EndSubflow, SubflowPanics
  <2> QED BY <1>1, <2>2
<1>7. ASSUME NEW c \in Callers, Return(c) \/ ReleaseStep(c) PROVE Chained'
  BY <1>1, <1>7, Zenon DEF Return, ReleaseStep, Release, ResetNode, ResetChild, PutNode, PutChild, PutRoot
<1>8. CASE UNCHANGED vars
  BY <1>1, <1>8 DEF vars
<1> QED BY <1>4, <1>5, <1>6, <1>7, <1>8 DEF Next

LEMMA ChainedInit == ASSUME DagsNested, Init PROVE Chained
<1>1. DOMAIN chain = Dags /\ executed \in [Dags -> Nat] /\ \A d \in Dags : executed[d] = 0
  BY ResultsAssumption DEF Init, ResultsAssumption
<1>2. ASSUME NEW d \in Dags PROVE ChainOf(d) /\ Inherited(d)
  <2>1. chain[d] = Hooks[d] /\ executed[d] = 0
    BY <1>1 DEF Init
  <2> QED BY <2>1, OwnHooks DEF ChainOf, Inherited
<1> QED BY <1>1, <1>2 DEF Chained

(***************************************************************************)
(* A result that a loop fills is that of a DAG that has been executed: no  *)
(* Reset reaches it.                                                       *)
(***************************************************************************)
LEMMA BegunKept ==
    ASSUME Begun, open' \subseteq open, executed' = executed,
           \A o \in open : dag'[o].dag = dag[o].dag
    PROVE  Begun'
BY DEF Begun

LEMMA BegunOpens ==
    ASSUME IndInv, Begun, NEW q, NEW d \in Dags, open' \subseteq open \cup {q},
           dag'[q].dag = d, \A o \in open : dag'[o].dag = dag[o].dag,
           executed' = [executed EXCEPT ![d] = @ + 1]
    PROVE  Begun'
<1>1. executed \in [Dags -> Nat]
  BY DEF IndInv, HookType
<1>2. executed'[d] > 0 /\ \A g \in Dags : executed[g] > 0 => executed'[g] > 0
  BY <1>1
<1> QED BY <1>2 DEF Begun

LEMMA BegunRelease == ASSUME IndInv, Begun, NEW c \in Callers, ReleaseStep(c) PROVE Begun'
<1>1. executed' = executed /\ open' = open
  BY Zenon DEF ReleaseStep, Release, ResetNode, ResetChild, PutNode, PutChild, PutRoot, loops, hooks
<1>2. \A o \in open : dag'[o].dag = dag[o].dag
  <2>1. \A o \in open : o \in DagObjs
    BY NotFilled
  <2>2. CASE Release(c)
    <3>1. PICK x : x = result[c]
      OBVIOUS
    <3>2. dag' = [dag EXCEPT ![x].status = "Pending", ![x].dag = None] /\ phase[c] = "returned"
      BY <2>2, <3>1 DEF Release, ClearedDag
    <3>3. x \notin open
      BY <3>1, <3>2, NotFilled
    <3> QED BY <2>1, <3>2, <3>3 DEF IndInv, ObjType
  <2>3. CASE ResetChild(c)
    <3>1. /\ phase[c] = "release" /\ ~Odd(Depth(c)) /\ Depth(c) \in 1..Len(stack[c])
          /\ Resetting(c) = stack[c][Depth(c)]
      BY <2>3, Top DEF ResetChild, InNode, Resetting
    <3>2. PICK p, x : p = Resetting(c) /\ x = node[p].sub
      OBVIOUS
    <3>3. dag' = [dag EXCEPT ![x].status = "Pending", ![x].dag = None]
      BY <2>3, <3>2 DEF ResetChild, ClearedDag
    <3>4. p \in NodeObjs
      BY <3>1, <3>2, OnStack
    <3>5. x \notin open
      BY <3>2, <3>4, NotFilled
    <3> QED BY <2>1, <3>3, <3>5 DEF IndInv, ObjType
  <2>4. CASE PutNode(c)
    <3>1. PICK p, x : p = Resetting(c) /\ x = stack[c][Depth(c) - 1]
      OBVIOUS
    <3>2. dag' = [dag EXCEPT ![x].results = [n \in Nodes |-> IF @[n] = p THEN None ELSE @[n]]]
      BY <2>4, <3>1 DEF PutNode
    <3> QED BY <2>1, <3>2 DEF IndInv, ObjType, DagResults
  <2>5. CASE ResetNode(c) \/ PutChild(c) \/ PutRoot(c)
    <3>1. dag' = dag
      BY <2>5 DEF ResetNode, PutChild, PutRoot, objects
    <3> QED BY <3>1
  <2> QED BY <2>2, <2>3, <2>4, <2>5 DEF ReleaseStep
<1> QED BY <1>1, <1>2, BegunKept

LEMMA BegunStarts == ASSUME IndInv, Begun, RunStarts PROVE Begun'
<1>1. PICK c \in Callers, q \in FreeDags : \E d \in Entries[c] : Run(c, d, q) \/ RunRejected(c, d, q)
  BY DEF RunStarts
<1>2. PICK d \in Entries[c] : Run(c, d, q) \/ RunRejected(c, d, q)
  BY <1>1
<1>3. d \in Dags /\ AcquireDagResult(q)
  BY <1>2, ResultsAssumption DEF Run, RunRejected, ResultsAssumption
<1>4. q \in DagObjs /\ IdleDag(q)
  BY <1>3, AcquireDag DEF IndInv
<1>5. \A o \in open : o \in DagObjs /\ o # q
  BY <1>4, NotFilled
<1>6. CASE Run(c, d, q)
  <2>1. /\ dag' = [dag EXCEPT ![q].dag = d] /\ open' = open \cup {q}
        /\ executed' = [executed EXCEPT ![d] = @ + 1]
    BY <1>6 DEF Run
  <2>2. dag'[q].dag = d /\ \A o \in open : dag'[o].dag = dag[o].dag
    BY <1>4, <1>5, <2>1 DEF IndInv, ObjType, DagResults
  <2> QED BY <1>3, <2>1, <2>2, BegunOpens
<1>7. CASE RunRejected(c, d, q)
  <2>1. /\ dag' = [dag EXCEPT ![q].dag = d, ![q].status = "Failed"]
        /\ open' = open /\ executed' = executed
    BY <1>7 DEF RunRejected, loops, hooks
  <2>2. \A o \in open : dag'[o].dag = dag[o].dag
    BY <1>4, <1>5, <2>1 DEF IndInv, ObjType, DagResults
  <2> QED BY <2>1, <2>2, BegunKept
<1> QED BY <1>2, <1>6, <1>7

LEMMA BegunLoop == ASSUME IndInv, Begun, LoopStep PROVE Begun'
<1>1. PICK o \in open : \/ \E n \in NodesOf(o), p \in FreeNodes :
                              \/ Execute(o, n, p)
                              \/ Skip(o, n, p)
                              \/ \E q \in FreeDags : BeginSubflow(o, n, p, q)
                        \/ Abort(o)
                        \/ EndLoop(o)
  BY DEF LoopStep
<1>2. \A e \in open : e \in DagObjs
  BY NotFilled
<1>3. ASSUME NEW n \in NodesOf(o), NEW p \in FreeNodes, Execute(o, n, p) \/ Skip(o, n, p)
      PROVE  Begun'
  <2>1. /\ dag' = Recorded(o, n, p) /\ acquireNodeResult(p)
        /\ open' = open /\ executed' = executed
    BY <1>3 DEF Execute, Skip, hooks
  <2>2. n \in Nodes /\ p \in NodeObjs
    BY <2>1, AcquireNode DEF NodesOf, IndInv
  <2>3. \A e \in DagObjs : dag'[e].dag = dag[e].dag
    BY <1>2, <2>1, <2>2, RecordedTable DEF IndInv
  <2> QED BY <1>2, <2>1, <2>3, BegunKept
<1>4. ASSUME NEW n \in NodesOf(o), NEW p \in FreeNodes, NEW q \in FreeDags, BeginSubflow(o, n, p, q)
      PROVE  Begun'
  <2>1. /\ dag' = [dag EXCEPT ![q].dag = Child[n]] /\ open' = open \cup {q}
        /\ executed' = [executed EXCEPT ![Child[n]] = @ + 1] /\ AcquireDagResult(q)
    BY <1>4 DEF BeginSubflow
  <2>2. Child[n] \in Dags
    BY <1>4, ResultsAssumption DEF BeginSubflow, NodesOf, ResultsAssumption
  <2>3. q \in DagObjs /\ IdleDag(q)
    BY <2>1, AcquireDag DEF IndInv
  <2>4. \A e \in open : e # q
    BY <2>3, NotFilled
  <2>5. dag'[q].dag = Child[n] /\ \A e \in open : dag'[e].dag = dag[e].dag
    BY <1>2, <2>1, <2>3, <2>4 DEF IndInv, ObjType, DagResults
  <2> QED BY <2>1, <2>2, <2>5, BegunOpens
<1>5. CASE Abort(o)
  <2>1. open' = open /\ executed' = executed /\ dag' = dag
    BY <1>5 DEF Abort, objects, hooks
  <2> QED BY <2>1, BegunKept
<1>6. CASE EndLoop(o)
  <2>1. open' \subseteq open /\ executed' = executed /\ \A e \in DagObjs : dag'[e].dag = dag[e].dag
    BY <1>2, <1>6 DEF EndLoop, Stops, hooks, IndInv, ObjType, DagResults
  <2> QED BY <1>2, <2>1, BegunKept
<1> QED BY <1>1, <1>3, <1>4, <1>5, <1>6

LEMMA BegunStep == ASSUME IndInv, Begun, [Next]_vars PROVE Begun'
<1>1. \A e \in open : e \in DagObjs
  BY NotFilled
<1>2. CASE Goroutine
  <2>1. PICK f \in flight : EndSubflow(f) \/ SubflowPanics(f)
    BY <1>2 DEF Goroutine
  <2>2. dag' = SentDag(f) /\ Heard(f) /\ open' \subseteq open /\ executed' = executed
    BY <2>1 DEF EndSubflow, SubflowPanics, Stops, hooks
  <2>3. f.nr \in NodeObjs /\ f.node \in Nodes /\ (f.parent # None => f.parent \in DagObjs)
    BY <2>1 DEF IndInv, LoopType
  <2>4. \A e \in DagObjs : dag'[e].dag = dag[e].dag
    <3>1. CASE f.parent = None
      BY <2>2, <3>1 DEF SentDag
    <3>2. CASE f.parent # None
      <4>1. dag' = Recorded(f.parent, f.node, f.nr)
        BY <2>2, <3>2 DEF SentDag
      <4> QED BY <2>3, <3>2, <4>1, RecordedTable DEF IndInv
    <3> QED BY <3>1, <3>2
  <2> QED BY <1>1, <2>2, <2>4, BegunKept
<1>3. ASSUME NEW c \in Callers, Return(c) PROVE Begun'
  <2>1. open' = open /\ executed' = executed /\ dag' = dag
    BY <1>3 DEF Return, objects, hooks
  <2> QED BY <2>1, BegunKept
<1>4. CASE UNCHANGED vars
  <2>1. open' = open /\ executed' = executed /\ dag' = dag
    BY <1>4 DEF vars, objects, loops, hooks
  <2> QED BY <2>1, BegunKept
<1> QED BY <1>2, <1>3, <1>4, BegunStarts, BegunLoop, BegunRelease DEF Next

(***************************************************************************)
(* Whose hooks are told what happens in a DAG, however executions of DAGs  *)
(* interleave and whatever is reused (engine.go:120-125), if the DAGs are  *)
(* nested as DagsNested says.                                              *)
(***************************************************************************)
THEOREM HooksPassedOn == DagsNested => (Spec => []HooksInherited)
<1> SUFFICES ASSUME DagsNested PROVE Spec => []HooksInherited
  OBVIOUS
<1>1. Init => IndInv /\ Begun /\ Chained
  BY InitIndInv, ChainedInit DEF Init, Begun
<1>2. (IndInv /\ Begun /\ Chained) /\ [Next]_vars => (IndInv /\ Begun /\ Chained)'
  BY NextIndInv, BegunStep, ChainedStep
<1>3. Chained => HooksInherited
  <2> SUFFICES ASSUME Chained, NEW d \in Dags, executed[d] > 0
               PROVE  /\ Called(d) = Own(d) \cup UNION {Called(e) : e \in Parents(d)}
                      /\ \A h \in Own(d) : Copies(d, h) = 1
                      /\ d \notin Reused =>
                            \A e \in Parents(d) : \A h \in Own(e) : Copies(d, h) = 1
    BY DEF HooksInherited
  <2>1. ChainOf(d) /\ Inherited(d) /\ executed[d] \in Nat
    BY DEF Chained
  <2>2. \A h : Copies(d, h) = Count(chain[d], h)
    BY DEF Copies, Count, Places
  <2>3. Called(d) = Own(d) \cup UNION {Called(e) : e \in Parents(d)}
    BY <2>1 DEF Inherited
  <2> QED BY <2>1, <2>2, <2>3 DEF ChainOf
<1> QED BY <1>1, <1>2, <1>3, PTL DEF Spec

-----------------------------------------------------------------------------
(***************************************************************************)
(* Sequences, and what FlattenSeq makes of one of sequences.  No key occurs*)
(* twice in a sequence that holds its elements Once; what precedes another *)
(* in one InOrder may precede it.                                          *)
(***************************************************************************)
Once(s, K) == \A i, j \in DOMAIN s : K[s[i]] = K[s[j]] => i = j

InOrder(s, R) == \A i, j \in DOMAIN s : i < j => <<s[i], s[j]>> \in R

LEMMA ConcatOnce ==
    ASSUME NEW V, NEW s \in Seq(V), NEW t \in Seq(V), NEW K, Once(s, K), Once(t, K),
           \A x \in Range(s), y \in Range(t) : K[x] # K[y]
    PROVE  Once(s \o t, K)
<1>1. PICK k \in Nat, l \in Nat : k = Len(s) /\ l = Len(t)
  BY InRange
<1>2. /\ s \o t \in Seq(V) /\ Len(s \o t) = k + l
      /\ \A i \in 1..(k + l) : (s \o t)[i] = IF i <= k THEN s[i] ELSE t[i - k]
  BY <1>1, ConcatProperties
<1>3. DOMAIN (s \o t) = 1..(k + l) /\ DOMAIN s = 1..k /\ DOMAIN t = 1..l
  BY <1>1, <1>2, InRange
<1>4. ASSUME NEW i \in 1..(k + l), NEW j \in 1..(k + l), i <= k, ~(j <= k)
      PROVE  K[(s \o t)[i]] # K[(s \o t)[j]]
  <2>1. i \in 1..k /\ j - k \in 1..l
    BY <1>4
  <2>2. s[i] \in Range(s) /\ t[j - k] \in Range(t)
    BY <1>1, <2>1, InRange
  <2> QED BY <1>2, <1>4, <2>2
<1>5. ASSUME NEW i \in 1..(k + l), NEW j \in 1..(k + l), K[(s \o t)[i]] = K[(s \o t)[j]]
      PROVE  i = j
  <2>1. CASE i <= k /\ j <= k
    <3>1. i \in 1..k /\ j \in 1..k /\ K[s[i]] = K[s[j]]
      BY <1>2, <1>5, <2>1
    <3> QED BY <1>3, <3>1 DEF Once
  <2>2. CASE ~(i <= k) /\ ~(j <= k)
    <3>1. i - k \in 1..l /\ j - k \in 1..l
      BY <2>2
    <3>2. (s \o t)[i] = t[i - k] /\ (s \o t)[j] = t[j - k]
      BY <1>2, <2>2
    <3>3. i - k = j - k
      BY <1>3, <1>5, <3>1, <3>2 DEF Once
    <3> QED BY <3>3
  <2> QED BY <1>4, <1>5, <2>1, <2>2
<1> QED BY <1>3, <1>5 DEF Once

LEMMA ConcatOrder ==
    ASSUME NEW V, NEW s \in Seq(V), NEW t \in Seq(V), NEW R, InOrder(s, R), InOrder(t, R),
           \A x \in Range(s), y \in Range(t) : <<x, y>> \in R
    PROVE  InOrder(s \o t, R)
<1>1. PICK k \in Nat, l \in Nat : k = Len(s) /\ l = Len(t)
  BY InRange
<1>2. /\ s \o t \in Seq(V) /\ Len(s \o t) = k + l
      /\ \A i \in 1..(k + l) : (s \o t)[i] = IF i <= k THEN s[i] ELSE t[i - k]
  BY <1>1, ConcatProperties
<1>3. DOMAIN (s \o t) = 1..(k + l) /\ DOMAIN s = 1..k /\ DOMAIN t = 1..l
  BY <1>1, <1>2, InRange
<1>4. ASSUME NEW i \in 1..(k + l), NEW j \in 1..(k + l), i < j
      PROVE  <<(s \o t)[i], (s \o t)[j]>> \in R
  <2>1. CASE j <= k
    <3>1. i \in 1..k /\ j \in 1..k /\ (s \o t)[i] = s[i] /\ (s \o t)[j] = s[j]
      BY <1>2, <1>4, <2>1
    <3> QED BY <1>3, <1>4, <3>1 DEF InOrder
  <2>2. CASE ~(j <= k) /\ i <= k
    <3>1. i \in 1..k /\ j - k \in 1..l /\ (s \o t)[i] = s[i] /\ (s \o t)[j] = t[j - k]
      BY <1>2, <2>2
    <3>2. s[i] \in Range(s) /\ t[j - k] \in Range(t)
      BY <1>1, <3>1, InRange
    <3> QED BY <3>1, <3>2
  <2>3. CASE ~(i <= k)
    <3>1. i - k \in 1..l /\ j - k \in 1..l /\ i - k < j - k /\ ~(j <= k)
      BY <1>4, <2>3
    <3>2. (s \o t)[i] = t[i - k] /\ (s \o t)[j] = t[j - k]
      BY <1>2, <2>3, <3>1
    <3> QED BY <1>3, <3>1, <3>2 DEF InOrder
  <2> QED BY <2>1, <2>2, <2>3
<1> QED BY <1>3, <1>4 DEF InOrder

LEMMA Flattened ==
    ASSUME NEW V, NEW s \in Seq(Seq(V))
    PROVE  \E g \in [Nat -> Seq(V)] :
              /\ g[0] = <<>>
              /\ \A i \in 1..Len(s) : g[i] = g[i - 1] \o s[i]
              /\ FlattenSeq(s) = g[Len(s)]
<1>1. Len(s) \in Nat /\ DOMAIN s = 1..Len(s) /\ \A i \in 1..Len(s) : s[i] \in Seq(V)
  BY InRange
<1>10. PICK step : step = [x \in Nat \X Seq(V) |->
                    IF x[1] + 1 \in 1..Len(s) THEN x[2] \o s[x[1] + 1] ELSE x[2]]
  OBVIOUS
<1>2. step \in [Nat \X Seq(V) -> Seq(V)]
  <2>1. \A a, b \in Seq(V) : a \o b \in Seq(V)
    BY ConcatProperties
  <2> QED BY <1>1, <1>10, <2>1
<1>3. <<>> \in Seq(V)
  BY EmptySeq
<1>4. PICK g \in [Nat -> Seq(V)] : g[0] = <<>> /\ \A k \in Nat : g[k + 1] = step[<<k, g[k]>>]
  <2>1. PICK g : Iterates(g, Seq(V), <<>>, step)
    BY <1>2, <1>3, Recursion
  <2> QED BY <2>1 DEF Iterates
<1>5. ASSUME NEW i \in 1..Len(s) PROVE g[i] = g[i - 1] \o s[i]
  <2>1. i - 1 \in Nat /\ (i - 1) + 1 = i
    BY <1>1
  <2>2. g[i - 1] \in Seq(V)
    BY <1>4, <2>1
  <2>3. step[<<i - 1, g[i - 1]>>] = g[i - 1] \o s[(i - 1) + 1]
    BY <1>10, <2>1, <2>2
  <2> QED BY <1>4, <2>1, <2>3
<1>6. CASE Len(s) = 0
  <2>1. FlattenSeq(s) = s
    BY <1>6 DEF FlattenSeq
  <2>2. s = <<>>
    BY <1>6, EmptySeq
  <2> QED BY <1>4, <1>5, <1>6, <2>1, <2>2
<1>7. CASE Len(s) # 0
  <2> DEFINE flatten[i \in 1..Len(s)] == IF i = 1 THEN s[i] ELSE flatten[i - 1] \o s[i]
  <2>1. FlattenSeq(s) = flatten[Len(s)]
    BY <1>7 DEF FlattenSeq
  <2>2. \E f : f = [i \in 1..Len(s) |-> IF i = 1 THEN s[i] ELSE f[i - 1] \o s[i]]
    <3>1. PICK f : f = [i \in 1..Len(s) |-> g[i]]
      OBVIOUS
    <3>2. ASSUME NEW i \in 1..Len(s) PROVE g[i] = IF i = 1 THEN s[i] ELSE f[i - 1] \o s[i]
      <4>1. CASE i = 1
        <5>1. g[i] = g[i - 1] \o s[i] /\ s[i] \in Seq(V)
          BY <1>1, <1>5
        <5>3. i - 1 = 0
          BY <4>1
        <5>2. <<>> \o s[i] = s[i]
          BY <5>1, ConcatEmptySeq
        <5> QED BY <1>4, <4>1, <5>1, <5>2, <5>3
      <4>2. CASE i # 1
        <5>1. i - 1 \in 1..Len(s)
          BY <1>1, <4>2
        <5> QED BY <1>5, <3>1, <4>2, <5>1
      <4> QED BY <4>1, <4>2
    <3>3. f = [i \in 1..Len(s) |-> IF i = 1 THEN s[i] ELSE f[i - 1] \o s[i]]
      BY <3>1, <3>2, Zenon
    <3> QED BY <3>3
  <2>3. flatten = [i \in 1..Len(s) |-> IF i = 1 THEN s[i] ELSE flatten[i - 1] \o s[i]]
    BY <2>2, Zenon
  <2> HIDE DEF flatten
  <2>4. ASSUME NEW i \in 1..Len(s), flatten[i] # g[i] PROVE FALSE
    <3> DEFINE T == {k \in 1..Len(s) : flatten[k] # g[k]}
    <3>1. PICK k \in T : \A j \in T : k <= j
      <4>1. T \in SUBSET Nat /\ i \in T
        BY <1>1, <2>4
      <4> HIDE DEF T
      <4> QED BY <4>1, LeastOf
    <3>2. k \in 1..Len(s) /\ flatten[k] # g[k]
      OBVIOUS
    <3>3. CASE k = 1
      <4>1. g[k] = g[k - 1] \o s[k] /\ s[k] \in Seq(V)
        BY <1>1, <1>5, <3>2
      <4>3. k - 1 = 0
        BY <3>3
      <4>2. g[k] = s[k]
        BY <1>4, <4>1, <4>3, ConcatEmptySeq
      <4> QED BY <2>3, <3>2, <3>3, <4>2
    <3>4. CASE k # 1
      <4>1. k - 1 \in 1..Len(s) /\ k - 1 < k /\ ~(k <= k - 1)
        BY <1>1, <3>2, <3>4
      <4>2. k - 1 \notin T
        <5> HIDE DEF T
        <5> QED BY <3>1, <4>1
      <4>3. flatten[k - 1] = g[k - 1]
        BY <4>1, <4>2
      <4> QED BY <1>5, <2>3, <3>2, <3>4, <4>3, ZenonT(60)
    <3> QED BY <3>3, <3>4
  <2>5. Len(s) \in 1..Len(s)
    BY <1>1, <1>7
  <2> QED BY <1>4, <1>5, <2>1, <2>4, <2>5
<1> QED BY <1>6, <1>7

LEMMA Flatten ==
    ASSUME NEW V, NEW s \in Seq(Seq(V))
    PROVE  /\ FlattenSeq(s) \in Seq(V)
           /\ \A v : v \in Range(FlattenSeq(s)) <=> \E i \in 1..Len(s) : v \in Range(s[i])
           /\ \A K : /\ \A i \in 1..Len(s) : Once(s[i], K)
                     /\ \A i, j \in 1..Len(s) : i # j =>
                           \A x \in Range(s[i]), y \in Range(s[j]) : K[x] # K[y]
                     => Once(FlattenSeq(s), K)
           /\ \A R : /\ \A i \in 1..Len(s) : InOrder(s[i], R)
                     /\ \A i, j \in 1..Len(s) : i < j =>
                           \A x \in Range(s[i]), y \in Range(s[j]) : <<x, y>> \in R
                     => InOrder(FlattenSeq(s), R)
<1>1. Len(s) \in Nat /\ \A i \in 1..Len(s) : s[i] \in Seq(V)
  BY InRange
<1>2. PICK g \in [Nat -> Seq(V)] : /\ g[0] = <<>>
                                   /\ \A i \in 1..Len(s) : g[i] = g[i - 1] \o s[i]
                                   /\ FlattenSeq(s) = g[Len(s)]
  BY Flattened
<1> DEFINE Gathers(k) == \A v : v \in Range(g[k]) <=> \E i \in 1..k : v \in Range(s[i])
<1>3. ASSUME NEW n \in 0..Len(s), ~Gathers(n) PROVE FALSE
  <2> DEFINE T == {k \in 0..Len(s) : ~Gathers(k)}
  <2>1. PICK k \in T : \A j \in T : k <= j
    <3>1. T \in SUBSET Nat /\ n \in T
      BY <1>1, <1>3
    <3> HIDE DEF T
    <3> QED BY <3>1, LeastOf
  <2>2. k \in 0..Len(s) /\ ~Gathers(k)
    OBVIOUS
  <2>3. CASE k = 0
    <3>1. \A v : v \notin Range(g[0])
      BY <1>2 DEF Range
    <3> QED BY <2>2, <2>3, <3>1
  <2>4. CASE k # 0
    <3>1. k - 1 \in 0..Len(s) /\ ~(k <= k - 1) /\ k \in 1..Len(s) /\ k - 1 \in Nat
      BY <1>1, <2>2, <2>4
    <3>2. k - 1 \notin T
      <4> HIDE DEF T
      <4> QED BY <2>1, <3>1
    <3>3. Gathers(k - 1)
      BY <3>1, <3>2
    <3>4. \A v : v \in Range(g[k]) <=> v \in Range(g[k - 1]) \/ v \in Range(s[k])
      <4>1. g[k - 1] \in Seq(V) /\ s[k] \in Seq(V) /\ g[k] = g[k - 1] \o s[k]
        BY <1>1, <1>2, <3>1
      <4> QED BY <4>1, Concat
    <3>5. \A i : i \in 1..k <=> i \in 1..(k - 1) \/ i = k
      <4>1. PICK j \in Nat : j = k - 1 /\ k = j + 1
        BY <1>1, <2>2, <2>4
      <4>2. \A i \in 1..(j + 1) : i \in 1..j \/ i = j + 1
        OBVIOUS
      <4>3. \A i \in 1..j : i \in 1..(j + 1)
        OBVIOUS
      <4>4. j + 1 \in 1..(j + 1)
        OBVIOUS
      <4> QED BY <4>1, <4>2, <4>3, <4>4
    <3> QED BY <2>2, <3>3, <3>4, <3>5
  <2> QED BY <2>3, <2>4
<1>4. ASSUME NEW K, \A i \in 1..Len(s) : Once(s[i], K),
             \A i, j \in 1..Len(s) : i # j =>
                \A x \in Range(s[i]), y \in Range(s[j]) : K[x] # K[y]
      PROVE  Once(FlattenSeq(s), K)
  <2>1. ASSUME NEW n \in 0..Len(s), ~Once(g[n], K) PROVE FALSE
    <3> DEFINE T == {k \in 0..Len(s) : ~Once(g[k], K)}
    <3>1. PICK k \in T : \A j \in T : k <= j
      <4>1. T \in SUBSET Nat /\ n \in T
        BY <1>1, <2>1
      <4> HIDE DEF T
      <4> QED BY <4>1, LeastOf
    <3>2. k \in 0..Len(s) /\ ~Once(g[k], K)
      OBVIOUS
    <3>3. k # 0
      BY <1>2, <3>2 DEF Once
    <3>4. k - 1 \in 0..Len(s) /\ ~(k <= k - 1) /\ k \in 1..Len(s) /\ k - 1 \in Nat
      BY <1>1, <3>2, <3>3
    <3>5. k - 1 \notin T
      <4> HIDE DEF T
      <4> QED BY <3>1, <3>4
    <3>6. Once(g[k - 1], K)
      BY <3>4, <3>5
    <3>7. ASSUME NEW x \in Range(g[k - 1]), NEW y \in Range(s[k]) PROVE K[x] # K[y]
      <4>1. Gathers(k - 1)
        BY <1>3, <3>4
      <4>2. PICK i \in 1..(k - 1) : x \in Range(s[i])
        BY <4>1
      <4>3. i \in 1..Len(s) /\ i # k
        BY <1>1, <3>4, <4>2
      <4> QED BY <1>4, <3>4, <4>2, <4>3
    <3>8. g[k - 1] \in Seq(V) /\ s[k] \in Seq(V) /\ Once(s[k], K) /\ g[k] = g[k - 1] \o s[k]
      BY <1>1, <1>2, <1>4, <3>4
    <3>9. Once(g[k], K)
      <4> HIDE DEF T
      <4> QED BY <3>6, <3>7, <3>8, ConcatOnce
    <3> QED BY <3>2, <3>9
  <2>2. Len(s) \in 0..Len(s)
    BY <1>1
  <2> QED BY <1>2, <2>1, <2>2
<1>9. ASSUME NEW R, \A i \in 1..Len(s) : InOrder(s[i], R),
             \A i, j \in 1..Len(s) : i < j =>
                \A x \in Range(s[i]), y \in Range(s[j]) : <<x, y>> \in R
      PROVE  InOrder(FlattenSeq(s), R)
  <2>1. ASSUME NEW n \in 0..Len(s), ~InOrder(g[n], R) PROVE FALSE
    <3> DEFINE T == {k \in 0..Len(s) : ~InOrder(g[k], R)}
    <3>1. PICK k \in T : \A j \in T : k <= j
      <4>1. T \in SUBSET Nat /\ n \in T
        BY <1>1, <2>1
      <4> HIDE DEF T
      <4> QED BY <4>1, LeastOf
    <3>2. k \in 0..Len(s) /\ ~InOrder(g[k], R)
      OBVIOUS
    <3>3. k # 0
      BY <1>2, <3>2 DEF InOrder
    <3>4. k - 1 \in 0..Len(s) /\ ~(k <= k - 1) /\ k \in 1..Len(s) /\ k - 1 \in Nat
      BY <1>1, <3>2, <3>3
    <3>5. k - 1 \notin T
      <4> HIDE DEF T
      <4> QED BY <3>1, <3>4
    <3>6. InOrder(g[k - 1], R)
      BY <3>4, <3>5
    <3>7. ASSUME NEW x \in Range(g[k - 1]), NEW y \in Range(s[k]) PROVE <<x, y>> \in R
      <4>1. Gathers(k - 1)
        BY <1>3, <3>4
      <4>2. PICK i \in 1..(k - 1) : x \in Range(s[i])
        BY <4>1
      <4>3. i \in 1..Len(s) /\ i < k
        BY <1>1, <3>4, <4>2
      <4> QED BY <1>9, <3>4, <4>2, <4>3
    <3>8. g[k - 1] \in Seq(V) /\ s[k] \in Seq(V) /\ InOrder(s[k], R) /\ g[k] = g[k - 1] \o s[k]
      BY <1>1, <1>2, <1>9, <3>4
    <3>9. InOrder(g[k], R)
      <4> HIDE DEF T
      <4> QED BY <3>6, <3>7, <3>8, ConcatOrder
    <3> QED BY <3>2, <3>9
  <2>2. Len(s) \in 0..Len(s)
    BY <1>1
  <2> QED BY <1>2, <2>1, <2>2
<1>5. Len(s) \in 0..Len(s)
  BY <1>1
<1>6. Gathers(Len(s))
  BY <1>3, <1>5
<1>7. FlattenSeq(s) \in Seq(V)
  BY <1>1, <1>2
<1>8. \A v : v \in Range(FlattenSeq(s)) <=> \E i \in 1..Len(s) : v \in Range(s[i])
  BY <1>2, <1>6
<1> HIDE DEF Gathers
<1> QED BY <1>4, <1>7, <1>8, <1>9

-----------------------------------------------------------------------------
(***************************************************************************)
(* Lists of the elements of a set, each once, and the sort.                *)
(***************************************************************************)
Lists(s, S) == s \in Seq(Nodes) /\ IsInjective(s) /\ Range(s) = S

Falls(s, key, n) == \A i, j \in 1..n : i < j => key[s[i]] >= key[s[j]]

LEMMA NodesFinite == IsFiniteSet(Nodes) /\ \A n \in Nodes : n \in Nat /\ -n \in Int
BY ResultsAssumption DEF ResultsAssumption

LEMMA ListsOf ==
    ASSUME NEW S \in SUBSET Nodes
    PROVE  Lists(SetToSeq(S), S) /\ \A s \in SetToSeqs(S) : Lists(s, S)
<1>1. PICK c : c = Cardinality(S)
  OBVIOUS
<1>2. c \in Nat /\ ExistsBijection(1..c, S)
  BY <1>1, NodesFinite, FS_Subset, FS_CardinalityType
<1>3. ASSUME NEW s \in [1..c -> S], \A i, j \in 1..c : s[i] = s[j] => i = j
      PROVE  Lists(s, S)
  <2>1. s \in Seq(S) /\ DOMAIN s = 1..c
    BY <1>2, IsASeq
  <2>2. s \in Seq(Nodes)
    BY <2>1
  <2>3. \A x \in S : \E i \in 1..c : s[i] = x
    <3>0. PICK D : D = 1..c
      OBVIOUS
    <3>1. s \in Injection(D, S)
      BY <1>3, <3>0, Fun_IsInj
    <3>2. IsFiniteSet(S) /\ Cardinality(D) = Cardinality(S)
      <4>1. IsFiniteSet(S)
        BY NodesFinite, FS_Subset
      <4>2. 1 \in Int /\ c \in Int /\ c >= 1 - 1 /\ c - 1 + 1 = c
        BY <1>2
      <4>3. Cardinality(1..c) = IF 1 > c THEN 0 ELSE c - 1 + 1
        BY <4>2, FS_Interval
      <4>4. Cardinality(1..c) = c
        BY <4>2, <4>3
      <4> QED BY <1>1, <3>0, <4>1, <4>4
    <3>3. Cardinality(D) = Cardinality(S) <=> s \in Surjection(D, S)
      BY <3>1, <3>2, FS_Injection
    <3>4. s \in Surjection(D, S)
      BY <3>2, <3>3
    <3>5. \A x \in S : \E i \in D : s[i] = x
      BY <3>4, Fun_SurjectionProperties
    <3> QED BY <3>0, <3>5
  <2>4. Range(s) = S
    BY <2>1, <2>3 DEF Range
  <2> QED BY <1>3, <2>1, <2>2, <2>4 DEF Lists, IsInjective
<1>4. \A s \in SetToSeqs(S) : s \in [1..c -> S] /\ \A i, j \in 1..c : s[i] = s[j] => i = j
  BY <1>1 DEF SetToSeqs
<1>5. SetToSeq(S) \in [1..c -> S] /\ IsInjective(SetToSeq(S))
  <2>1. PICK f : f \in Bijection(1..c, S)
    BY <1>2, Fun_ExistsBij
  <2>2. f \in [1..c -> S] /\ \A i, j \in 1..c : f[i] = f[j] => i = j
    BY <2>1 DEF Bijection, Injection, IsInjective
  <2>3. f \in [1..c -> S] /\ IsInjective(f)
    BY <2>2 DEF IsInjective
  <2> QED BY <1>1, <2>3 DEF SetToSeq
<1>6. \A i, j \in 1..c : SetToSeq(S)[i] = SetToSeq(S)[j] => i = j
  BY <1>5 DEF IsInjective
<1> QED BY <1>3, <1>4, <1>5, <1>6

LEMMA SwappedList ==
    ASSUME NEW s, NEW S, Lists(s, S), NEW i \in 2..Len(s), NEW t, t = Swapped(s, i)
    PROVE  /\ Lists(t, S) /\ Len(t) = Len(s) /\ t[i] = s[i - 1] /\ t[i - 1] = s[i]
           /\ \A j \in 1..Len(s) : j # i /\ j # i - 1 => t[j] = s[j]
<1>1. s \in Seq(Nodes) /\ Len(s) \in Nat /\ DOMAIN s = 1..Len(s)
  BY InRange DEF Lists
<1>2. PICK l : l = Len(s)
  OBVIOUS
<1>3. l \in Nat /\ i \in 1..l /\ i - 1 \in 1..l /\ i # i - 1
  BY <1>1, <1>2
<1>4. s \in [1..l -> Nodes]
  BY <1>1, <1>2, InRange
<1>5. t \in [1..l -> Nodes]
  BY <1>3, <1>4 DEF Swapped
<1>6. /\ t[i] = s[i - 1] /\ t[i - 1] = s[i]
      /\ \A j \in 1..l : j # i /\ j # i - 1 => t[j] = s[j]
  BY <1>3, <1>4 DEF Swapped
<1>7. t \in Seq(Nodes) /\ Len(t) = l /\ DOMAIN t = 1..l
  BY <1>3, <1>5, IsASeq, LenProperties
<1>8. IsInjective(t)
  <2>1. \A j, k \in 1..l : s[j] = s[k] => j = k
    BY <1>1, <1>2 DEF Lists, IsInjective
  <2>2. \A j, k \in 1..l : t[j] = t[k] => j = k
    BY <1>3, <1>6, <2>1
  <2> QED BY <1>7, <2>2 DEF IsInjective
<1>9. Range(t) = Range(s)
  <2>1. \A v : v \in Range(s) <=> \E j \in 1..l : s[j] = v
    BY <1>1, <1>2, InRange
  <2>2. \A v : v \in Range(t) <=> \E j \in 1..l : t[j] = v
    BY <1>7, InRange
  <2>3. \A j \in 1..l : \E k \in 1..l : t[j] = s[k]
    BY <1>3, <1>6
  <2>4. \A j \in 1..l : \E k \in 1..l : s[j] = t[k]
    BY <1>3, <1>6
  <2>5. \A v \in Range(t) : v \in Range(s)
    BY <2>1, <2>2, <2>3
  <2>6. \A v \in Range(s) : v \in Range(t)
    BY <2>1, <2>2, <2>4
  <2> QED BY <2>5, <2>6
<1> QED BY <1>2, <1>6, <1>7, <1>8, <1>9 DEF Lists

-----------------------------------------------------------------------------
(***************************************************************************)
(* The inner loop, which moves one element to its place.                   *)
(***************************************************************************)
Before(x) == [list |-> Swapped(x.list, x.at), at |-> x.at - 1, key |-> x.key]

RaisedOut  == [x \in Spots |-> x.list]
RaisedStop == {x \in Spots : ~Raises(x)}
RaisedStep == [x \in Spots \ RaisedStop |-> Before(x)]

LEMMA SpotType ==
    ASSUME NEW x \in Spots
    PROVE  /\ x.list \in Seq(Nodes) /\ Len(x.list) \in Nat /\ x.at \in Nat /\ x.at >= 1
           /\ x.key \in [Nodes -> Int]
           /\ \A i \in 1..Len(x.list) : x.list[i] \in Nodes /\ x.key[x.list[i]] \in Int
BY InRange DEF Spots

LEMMA BeforeType ==
    ASSUME NEW x \in Spots, Raises(x)
    PROVE  Before(x) \in Spots /\ Before(x).list = Swapped(x.list, x.at)
           /\ Before(x).at = x.at - 1 /\ Before(x).key = x.key
<1>1. /\ x.list \in Seq(Nodes) /\ x.at \in Nat /\ 1 < x.at /\ x.at <= Len(x.list)
      /\ x.key \in [Nodes -> Int] /\ Len(x.list) \in Nat
  BY SpotType DEF Raises
<1>2. PICK l : l = Len(x.list)
  OBVIOUS
<1>3. x.list \in [1..l -> Nodes] /\ x.at \in 1..l /\ x.at - 1 \in 1..l
  BY <1>1, <1>2, InRange
<1>4. Swapped(x.list, x.at) \in [1..l -> Nodes]
  BY <1>3 DEF Swapped
<1>5. Swapped(x.list, x.at) \in Seq(Nodes)
  BY <1>1, <1>2, <1>4, IsASeq, SMTT(30)
<1> QED BY <1>1, <1>5 DEF Before, Spots

LEMMA RaisedLoop == Solves(Raised, Spots, RaisedStop, RaisedStep, RaisedOut)
<1>1. RaisedStep \in [Spots \ RaisedStop -> Spots]
  BY BeforeType DEF RaisedStep, RaisedStop
<1>2. PICK g : Solves(g, Spots, RaisedStop, RaisedStep, RaisedOut)
  <2>1. RaisedOut \in [Spots -> Seq(Nodes)]
    BY SpotType DEF RaisedOut
  <2> QED BY <1>1, <2>1, TailCall
<1>3. \A x \in Spots : g[x] = IF Raises(x) THEN g[Before(x)] ELSE x.list
  BY <1>2 DEF Solves, RaisedStop, RaisedStep, RaisedOut
<1>4. g = [x \in Spots |-> IF Raises(x) THEN g[Before(x)] ELSE x.list]
  BY <1>2, <1>3 DEF Solves
<1>5. Raised = [x \in Spots |-> IF Raises(x) THEN Raised[Before(x)] ELSE x.list]
  BY <1>4 DEF Raised, Before
<1>6. \A x \in Spots : Raised[x] = IF x \in RaisedStop THEN RaisedOut[x] ELSE Raised[RaisedStep[x]]
  BY <1>5 DEF RaisedStop, RaisedStep, RaisedOut
<1>7. Raised = [x \in Spots |-> Raised[x]]
  BY <1>5
<1> QED BY <1>6, <1>7 DEF Solves

LEMMA RaisedType == \A x \in Spots : Raised[x] \in Seq(Nodes)
<1>1. PICK m : m = [x \in Spots |-> x.at]
  OBVIOUS
<1>2. m \in [Spots -> Nat]
  BY <1>1, SpotType
<1>3. \A x \in Spots \ RaisedStop : RaisedStep[x] \in Spots /\ m[RaisedStep[x]] < m[x]
  <2> SUFFICES ASSUME NEW x \in Spots, Raises(x)
               PROVE  Before(x) \in Spots /\ m[Before(x)] < m[x]
    BY DEF RaisedStep, RaisedStop
  <2> QED BY <1>1, BeforeType, SpotType
<1>4. Spots \in SUBSET Spots
  OBVIOUS
<1>5. \A x \in Spots : \E y \in Spots \cap RaisedStop : Raised[x] = RaisedOut[y]
  BY <1>2, <1>3, <1>4, RaisedLoop, LoopEnds
<1> QED BY <1>5, SpotType DEF RaisedOut

(***************************************************************************)
(* Of the first n elements all but the one that moves are in order, and it *)
(* belongs before those behind it.                                         *)
(***************************************************************************)
Moving(x, S, key, l, n) ==
    /\ x \in Spots /\ x.key = key /\ Lists(x.list, S) /\ Len(x.list) = l /\ x.at <= n
    /\ \A i, j \in 1..n : i < j /\ i # x.at /\ j # x.at => key[x.list[i]] >= key[x.list[j]]
    /\ \A j \in 1..n : x.at < j => key[x.list[x.at]] >= key[x.list[j]]

LEMMA MovesOn ==
    ASSUME NEW S, NEW key, NEW l \in Nat, NEW n \in 1..l, NEW x, Moving(x, S, key, l, n), Raises(x)
    PROVE  Moving(Before(x), S, key, l, n)
<1>1. PICK s, a, b : s = x.list /\ a = x.at /\ b = x.at - 1
  OBVIOUS
<1>2. PICK t : t = Swapped(s, a)
  OBVIOUS
<1>3. /\ Before(x) \in Spots /\ Before(x).list = t /\ Before(x).at = b /\ Before(x).key = key
  BY <1>1, <1>2, BeforeType DEF Moving
<1>4. /\ x \in Spots /\ x.key = key /\ Lists(s, S) /\ Len(s) = l /\ a <= n
      /\ \A i, j \in 1..n : i < j /\ i # a /\ j # a => key[s[i]] >= key[s[j]]
      /\ \A j \in 1..n : a < j => key[s[a]] >= key[s[j]]
  BY <1>1 DEF Moving
<1>5. a \in Nat /\ 1 < a /\ a <= l /\ key[s[b]] < key[s[a]] /\ \A i \in 1..l : key[s[i]] \in Int
  BY <1>1, <1>4, SpotType DEF Raises
<1>6. a \in 2..Len(s) /\ b = a - 1 /\ b \in 1..n /\ a \in 1..n /\ a # b
  BY <1>1, <1>4, <1>5
<1>7. /\ Lists(t, S) /\ Len(t) = l /\ t[a] = s[b] /\ t[b] = s[a]
      /\ \A j \in 1..l : j # a /\ j # b => t[j] = s[j]
  <2>1. /\ Lists(t, S) /\ Len(t) = Len(s) /\ t[a] = s[a - 1] /\ t[a - 1] = s[a]
        /\ \A j \in 1..Len(s) : j # a /\ j # a - 1 => t[j] = s[j]
    <3>1. Lists(s, S) /\ a \in 2..Len(s) /\ t = Swapped(s, a)
      BY <1>2, <1>4, <1>6
    <3> QED BY ONLY <3>1, SwappedList
  <2> QED BY <1>4, <1>6, <2>1
<1>8. \A i \in 1..n : i \in 1..l /\ i \in Nat
  OBVIOUS
<1>9. ASSUME NEW i \in 1..n, NEW j \in 1..n, i < j, i # b, j # b
      PROVE  key[t[i]] >= key[t[j]]
  <2>1. CASE i = a
    <3>1. b < j /\ j # a /\ t[i] = s[b] /\ t[j] = s[j]
      BY <1>6, <1>7, <1>8, <1>9, <2>1
    <3> QED BY <1>4, <1>6, <3>1
  <2>2. CASE j = a
    <3>1. i < b /\ i # a /\ t[i] = s[i] /\ t[j] = s[b]
      BY <1>6, <1>7, <1>8, <1>9, <2>2
    <3> QED BY <1>4, <1>6, <3>1
  <2>3. CASE i # a /\ j # a
    <3>1. t[i] = s[i] /\ t[j] = s[j]
      BY <1>7, <1>8, <1>9, <2>3
    <3> QED BY <1>4, <1>9, <2>3, <3>1
  <2> QED BY <2>1, <2>2, <2>3
<1>10. ASSUME NEW j \in 1..n, b < j PROVE key[t[b]] >= key[t[j]]
  <2>1. CASE j = a
    <3>1. key[s[b]] \in Int /\ key[s[a]] \in Int
      BY <1>5, <1>6, <1>8
    <3> QED BY <1>5, <1>7, <2>1, <3>1
  <2>2. CASE j # a
    <3>1. a < j /\ t[j] = s[j]
      BY <1>6, <1>7, <1>8, <1>10, <2>2
    <3> QED BY <1>4, <1>7, <3>1
  <2> QED BY <2>1, <2>2
<1>11. b <= n
  BY <1>6
<1> QED BY <1>3, <1>7, <1>9, <1>10, <1>11 DEF Moving

LEMMA RaisedCorrect ==
    ASSUME NEW x \in Spots, NEW S, Lists(x.list, S), x.at <= Len(x.list),
           Falls(x.list, x.key, x.at - 1), NEW r, r = Raised[x]
    PROVE  Lists(r, S) /\ Len(r) = Len(x.list) /\ Falls(r, x.key, x.at)
<1>1. PICK l, n, key : l = Len(x.list) /\ n = x.at /\ key = x.key
  OBVIOUS
<1>2. l \in Nat /\ n \in 1..l /\ n \in Nat /\ key \in [Nodes -> Int]
  BY <1>1, SpotType
<1>3. PICK I : I = {y \in Spots : Moving(y, S, key, l, n)}
  OBVIOUS
<1>4. PICK m : m = [y \in Spots |-> y.at]
  OBVIOUS
<1>5. I \in SUBSET Spots /\ m \in [Spots -> Nat]
  BY <1>3, <1>4, SpotType
<1>6. x \in I
  <2>1. \A i, j \in 1..n : i < j /\ i # n /\ j # n => key[x.list[i]] >= key[x.list[j]]
    <3> SUFFICES ASSUME NEW i \in 1..n, NEW j \in 1..n, i < j, i # n, j # n
                 PROVE  key[x.list[i]] >= key[x.list[j]]
      OBVIOUS
    <3>1. i \in 1..(n - 1) /\ j \in 1..(n - 1)
      BY <1>2
    <3> QED BY <1>1, <3>1 DEF Falls
  <2>2. \A j \in 1..n : ~(n < j)
    BY <1>2
  <2> QED BY <1>1, <1>2, <1>3, <2>1, <2>2 DEF Moving
<1>7. \A y \in I \ RaisedStop : RaisedStep[y] \in I /\ m[RaisedStep[y]] < m[y]
  <2> SUFFICES ASSUME NEW y \in Spots, Moving(y, S, key, l, n), Raises(y)
               PROVE  /\ Before(y) \in Spots /\ Moving(Before(y), S, key, l, n)
                      /\ m[Before(y)] < m[y]
    BY <1>3 DEF RaisedStep, RaisedStop
  <2>1. Moving(Before(y), S, key, l, n)
    BY <1>2, MovesOn
  <2> QED BY <1>4, <2>1, BeforeType, SpotType
<1>8. PICK y \in I \cap RaisedStop : Raised[x] = RaisedOut[y]
  BY <1>5, <1>6, <1>7, RaisedLoop, LoopEnds
<1>9. y \in Spots /\ Moving(y, S, key, l, n) /\ ~Raises(y) /\ r = y.list
  BY <1>3, <1>8 DEF RaisedStop, RaisedOut
<1>10. PICK a, b : a = y.at /\ b = y.at - 1
  OBVIOUS
<1>11. /\ Lists(r, S) /\ Len(r) = l /\ a \in Nat /\ 1 <= a /\ a <= n /\ y.key = key
       /\ \A i, j \in 1..n : i < j /\ i # a /\ j # a => key[r[i]] >= key[r[j]]
       /\ \A j \in 1..n : a < j => key[r[a]] >= key[r[j]]
       /\ \A i \in 1..l : key[r[i]] \in Int
  BY <1>9, <1>10, SpotType DEF Moving
<1>12. a > 1 => key[r[b]] >= key[r[a]]
  <2> SUFFICES ASSUME a > 1 PROVE key[r[b]] >= key[r[a]]
    OBVIOUS
  <2>1. ~(key[r[b]] < key[r[a]])
    BY <1>2, <1>9, <1>10, <1>11 DEF Raises
  <2>2. a \in 1..l /\ b \in 1..l
    BY <1>2, <1>10, <1>11
  <2>3. key[r[a]] \in Int /\ key[r[b]] \in Int
    BY <1>11, <2>2
  <2> QED BY <2>1, <2>3
<1>13. ASSUME NEW i \in 1..n, NEW j \in 1..n, i < j PROVE key[r[i]] >= key[r[j]]
  <2>1. CASE i # a /\ j # a
    BY <1>11, <1>13, <2>1
  <2>2. CASE i = a
    BY <1>11, <1>13, <2>2
  <2>3. CASE j = a
    <3>1. a > 1 /\ b \in 1..n /\ b # a /\ (i = b \/ i < b)
      <4>1. i \in Nat /\ i >= 1 /\ i < a /\ a \in Nat /\ a <= n /\ b = a - 1 /\ n \in Nat
        BY <1>2, <1>9, <1>10, <1>11, <1>13, <2>3
      <4> QED BY <4>1
    <3>2. i # a /\ i \in 1..l /\ b \in 1..l /\ a \in 1..l
      BY <1>2, <1>13, <2>3, <3>1
    <3>3. i < b => key[r[i]] >= key[r[b]]
      BY <1>11, <3>1, <3>2
    <3>4. key[r[i]] \in Int /\ key[r[a]] \in Int /\ key[r[b]] \in Int
      BY <1>11, <3>2
    <3> QED BY <1>12, <2>3, <3>1, <3>3, <3>4
  <2> QED BY <2>1, <2>2, <2>3
<1> QED BY <1>1, <1>11, <1>13 DEF Falls

-----------------------------------------------------------------------------
(***************************************************************************)
(* The outer loop.                                                         *)
(***************************************************************************)
Behind(x) == [list |-> Raised[x], at |-> x.at + 1, key |-> x.key]

SortedOut  == [x \in Spots |-> x.list]
SortedStop == {x \in Spots : x.at > Len(x.list)}
SortedStep == [x \in Spots \ SortedStop |-> Behind(x)]

LEMMA BehindType ==
    ASSUME NEW x \in Spots
    PROVE  Behind(x) \in Spots /\ Behind(x).list = Raised[x] /\ Behind(x).at = x.at + 1
           /\ Behind(x).key = x.key
BY RaisedType, SpotType DEF Behind, Spots

LEMMA SortedLoop == Solves(Sorted, Spots, SortedStop, SortedStep, SortedOut)
<1>1. SortedStep \in [Spots \ SortedStop -> Spots]
  BY BehindType DEF SortedStep, SortedStop
<1>2. PICK g : Solves(g, Spots, SortedStop, SortedStep, SortedOut)
  <2>1. SortedOut \in [Spots -> Seq(Nodes)]
    BY SpotType DEF SortedOut
  <2> QED BY <1>1, <2>1, TailCall
<1>3. \A x \in Spots : g[x] = IF x.at > Len(x.list) THEN x.list ELSE g[Behind(x)]
  BY <1>2 DEF Solves, SortedStop, SortedStep, SortedOut
<1>4. g = [x \in Spots |-> IF x.at > Len(x.list) THEN x.list ELSE g[Behind(x)]]
  BY <1>2, <1>3 DEF Solves
<1>5. Sorted = [x \in Spots |-> IF x.at > Len(x.list) THEN x.list ELSE Sorted[Behind(x)]]
  BY <1>4 DEF Sorted, Behind
<1>6. \A x \in Spots : Sorted[x] = IF x \in SortedStop THEN SortedOut[x] ELSE Sorted[SortedStep[x]]
  BY <1>5 DEF SortedStop, SortedStep, SortedOut
<1>7. Sorted = [x \in Spots |-> Sorted[x]]
  BY <1>5
<1> QED BY <1>6, <1>7 DEF Solves

LEMMA SortedCorrect ==
    ASSUME NEW S, NEW s, Lists(s, S), NEW key \in [Nodes -> Int],
           NEW r, r = Sorted[[list |-> s, at |-> 1, key |-> key]]
    PROVE  Lists(r, S) /\ Len(r) = Len(s) /\ Falls(r, key, Len(s))
<1>1. PICK l : l = Len(s)
  OBVIOUS
<1>2. s \in Seq(Nodes) /\ l \in Nat
  BY <1>1, InRange DEF Lists
<1>3. PICK x : x = [list |-> s, at |-> 1, key |-> key]
  OBVIOUS
<1>4. PICK I : I = {y \in Spots : /\ y.key = key /\ Lists(y.list, S) /\ Len(y.list) = l
                                  /\ y.at <= l + 1 /\ Falls(y.list, key, y.at - 1)}
  OBVIOUS
<1>5. PICK m : m = [y \in Spots |-> IF y.at <= l THEN l + 1 - y.at ELSE 0]
  OBVIOUS
<1>6. I \in SUBSET Spots /\ m \in [Spots -> Nat]
  BY <1>2, <1>4, <1>5, SpotType
<1>7. x \in I
  <2>1. x \in Spots
    BY <1>2, <1>3 DEF Spots
  <2>2. Falls(s, key, 0)
    BY DEF Falls
  <2>3. x.at - 1 = 0 /\ x.at <= l + 1 /\ x.list = s /\ x.key = key
    BY <1>2, <1>3
  <2> QED BY <1>1, <1>4, <2>1, <2>2, <2>3
<1>8. \A y \in I \ SortedStop : SortedStep[y] \in I /\ m[SortedStep[y]] < m[y]
  <2> SUFFICES ASSUME NEW y \in I, ~(y.at > Len(y.list))
               PROVE  Behind(y) \in I /\ m[Behind(y)] < m[y]
    BY <1>6 DEF SortedStep, SortedStop
  <2>1. /\ y \in Spots /\ y.key = key /\ Lists(y.list, S) /\ Len(y.list) = l
        /\ Falls(y.list, key, y.at - 1)
    BY <1>4
  <2>2. y.at \in Nat /\ y.at <= l /\ y.at >= 1
    BY <1>2, <2>1, SpotType
  <2>3. PICK z : z = Behind(y)
    OBVIOUS
  <2>4. z \in Spots /\ z.list = Raised[y] /\ z.at = y.at + 1 /\ z.key = key
    BY <2>1, <2>3, BehindType
  <2>5. Lists(z.list, S) /\ Len(z.list) = l /\ Falls(z.list, key, y.at)
    BY <2>1, <2>2, <2>4, RaisedCorrect
  <2>6. z.at - 1 = y.at /\ z.at <= l + 1
    BY <1>2, <2>2, <2>4
  <2>7. z \in I
    BY <1>4, <2>4, <2>5, <2>6
  <2>8. m[z] < m[y]
    BY <1>2, <1>5, <2>1, <2>2, <2>4
  <2> QED BY <2>3, <2>7, <2>8
<1>9. PICK y \in I \cap SortedStop : Sorted[x] = SortedOut[y]
  BY <1>6, <1>7, <1>8, SortedLoop, LoopEnds
<1>10. /\ y \in Spots /\ r = y.list /\ y.at > Len(y.list) /\ y.key = key /\ Lists(r, S)
       /\ Len(r) = l /\ y.at <= l + 1 /\ Falls(r, key, y.at - 1)
  BY <1>3, <1>4, <1>9 DEF SortedStop, SortedOut
<1>11. y.at - 1 = l
  <2>1. y.at \in Nat /\ y.at > l /\ y.at <= l + 1 /\ l \in Nat
    BY <1>2, <1>10, SpotType
  <2> QED BY <2>1
<1> QED BY <1>1, <1>10, <1>11

-----------------------------------------------------------------------------
(***************************************************************************)
(* What a walk over a list makes: of every element something, followed by  *)
(* what is below it.                                                       *)
(***************************************************************************)
Walked(names, own, below) == FlattenSeq([i \in DOMAIN names |-> <<own[names[i]]>> \o below[names[i]]])

Gathers(w, S, own, below) ==
    \A v : v \in Range(w) <=> \E n \in S : v = own[n] \/ v \in Range(below[n])

Distinct(S, own, below, K) ==
    /\ \A n \in S : Once(below[n], K)
    /\ \A n \in S : \A v \in Range(below[n]) : K[v] # K[own[n]]
    /\ \A n, m \in S : n # m =>
          \A v \in {own[n]} \cup Range(below[n]), u \in {own[m]} \cup Range(below[m]) : K[v] # K[u]

Ordered(names, S, own, below, R) ==
    /\ \A n \in S : InOrder(below[n], R)
    /\ \A n \in S : \A v \in Range(below[n]) : <<own[n], v>> \in R
    /\ \A i, j \in DOMAIN names : i < j =>
          \A v \in {own[names[i]]} \cup Range(below[names[i]]),
             u \in {own[names[j]]} \cup Range(below[names[j]]) : <<v, u>> \in R

LEMMA Walk ==
    ASSUME NEW V, NEW S, NEW names, Lists(names, S), NEW own \in [S -> V],
           NEW below \in [S -> Seq(V)], NEW w, w = Walked(names, own, below)
    PROVE  /\ w \in Seq(V) /\ Gathers(w, S, own, below)
           /\ \A K : Distinct(S, own, below, K) => Once(w, K)
           /\ \A R : Ordered(names, S, own, below, R) => InOrder(w, R)
<1>1. PICK l : l = Len(names)
  OBVIOUS
<1>2. /\ l \in Nat /\ DOMAIN names = 1..l /\ \A i \in 1..l : names[i] \in S
      /\ \A i, j \in 1..l : names[i] = names[j] => i = j
      /\ \A n \in S : \E i \in 1..l : names[i] = n
  <2>1. /\ l \in Nat /\ DOMAIN names = 1..l
        /\ \A v : v \in Range(names) <=> \E i \in 1..l : names[i] = v
    BY <1>1, InRange DEF Lists
  <2>2. Range(names) = S /\ \A i, j \in DOMAIN names : names[i] = names[j] => i = j
    BY DEF Lists, IsInjective
  <2> QED BY <2>1, <2>2
<1>3. PICK s : s = [i \in DOMAIN names |-> <<own[names[i]]>> \o below[names[i]]]
  OBVIOUS
<1>4. ASSUME NEW i \in 1..l
      PROVE  /\ s[i] \in Seq(V) /\ <<own[names[i]]>> \in Seq(V) /\ below[names[i]] \in Seq(V)
             /\ s[i] = <<own[names[i]]>> \o below[names[i]]
             /\ \A v : v \in Range(s[i]) <=> v = own[names[i]] \/ v \in Range(below[names[i]])
  <2>1. PICK h, b : h = <<own[names[i]]>> /\ b = below[names[i]]
    OBVIOUS
  <2>2. h \in Seq(V) /\ b \in Seq(V)
    BY <1>2, <2>1
  <2>3. \A v : v \in Range(h) <=> v = own[names[i]]
    BY <2>1 DEF Range
  <2>4. s[i] = h \o b
    BY <1>2, <1>3, <2>1
  <2>5. h \o b \in Seq(V) /\ \A v : v \in Range(h \o b) <=> v \in Range(h) \/ v \in Range(b)
    BY <2>2, Concat
  <2> QED BY <2>1, <2>2, <2>3, <2>4, <2>5
<1>5. s \in Seq(Seq(V)) /\ Len(s) = l
  <2>1. s \in [1..l -> Seq(V)]
    BY <1>2, <1>3, <1>4
  <2> QED BY <1>2, <2>1, IsASeq, LenProperties
<1>6. w = FlattenSeq(s)
  BY <1>3 DEF Walked
<1>7. /\ w \in Seq(V)
      /\ \A v : v \in Range(w) <=> \E i \in 1..l : v \in Range(s[i])
      /\ \A K : /\ \A i \in 1..l : Once(s[i], K)
                /\ \A i, j \in 1..l : i # j =>
                      \A x \in Range(s[i]), y \in Range(s[j]) : K[x] # K[y]
                => Once(w, K)
      /\ \A R : /\ \A i \in 1..l : InOrder(s[i], R)
                /\ \A i, j \in 1..l : i < j =>
                      \A x \in Range(s[i]), y \in Range(s[j]) : <<x, y>> \in R
                => InOrder(w, R)
  BY <1>5, <1>6, Flatten, ZenonT(60)
<1>8. ASSUME NEW v
      PROVE  v \in Range(w) <=> \E n \in S : v = own[n] \/ v \in Range(below[n])
  <2>1. ASSUME v \in Range(w) PROVE \E n \in S : v = own[n] \/ v \in Range(below[n])
    <3>1. PICK i \in 1..l : v \in Range(s[i])
      BY <1>7, <2>1
    <3>2. names[i] \in S /\ (v = own[names[i]] \/ v \in Range(below[names[i]]))
      BY <1>2, <1>4, <3>1
    <3> QED BY <3>2
  <2>2. ASSUME NEW n \in S, v = own[n] \/ v \in Range(below[n]) PROVE v \in Range(w)
    <3>1. PICK i \in 1..l : names[i] = n
      BY <1>2
    <3>2. v \in Range(s[i])
      BY <1>4, <2>2, <3>1
    <3> QED BY <1>7, <3>2
  <2> QED BY <2>1, <2>2
<1>9. ASSUME NEW K, Distinct(S, own, below, K) PROVE Once(w, K)
  <2>0. /\ \A n \in S : Once(below[n], K)
        /\ \A n \in S : \A v \in Range(below[n]) : K[v] # K[own[n]]
        /\ \A n, m \in S : n # m =>
              \A v \in {own[n]} \cup Range(below[n]), u \in {own[m]} \cup Range(below[m]) :
                 K[v] # K[u]
    BY <1>9 DEF Distinct
  <2>1. ASSUME NEW i \in 1..l PROVE Once(s[i], K)
    <3>0. PICK n \in S : n = names[i]
      BY <1>2
    <3>1. PICK h, b : h = <<own[n]>> /\ b = below[n]
      OBVIOUS
    <3>2. h \in Seq(V) /\ b \in Seq(V) /\ s[i] = h \o b
      BY <1>4, <3>0, <3>1
    <3>3. Once(h, K)
      BY <3>1 DEF Once
    <3>4. Once(b, K)
      BY <2>0, <3>1
    <3>5. \A x \in Range(h), y \in Range(b) : K[x] # K[y]
      <4>1. \A x \in Range(h) : x = own[n]
        BY <3>1 DEF Range
      <4> QED BY <2>0, <3>1, <4>1
    <3> QED BY <3>2, <3>3, <3>4, <3>5, ConcatOnce
  <2>2. ASSUME NEW i \in 1..l, NEW j \in 1..l, i # j, NEW x \in Range(s[i]), NEW y \in Range(s[j])
        PROVE  K[x] # K[y]
    <3>1. PICK n \in S, m \in S : n = names[i] /\ m = names[j] /\ n # m
      BY <1>2, <2>2
    <3>2. x \in {own[n]} \cup Range(below[n]) /\ y \in {own[m]} \cup Range(below[m])
      BY <1>4, <2>2, <3>1
    <3> QED BY <2>0, <3>1, <3>2
  <2> QED BY <1>7, <2>1, <2>2
<1>10. ASSUME NEW R, Ordered(names, S, own, below, R) PROVE InOrder(w, R)
  <2>0. /\ \A n \in S : InOrder(below[n], R)
        /\ \A n \in S : \A v \in Range(below[n]) : <<own[n], v>> \in R
        /\ \A i, j \in 1..l : i < j =>
              \A v \in {own[names[i]]} \cup Range(below[names[i]]),
                 u \in {own[names[j]]} \cup Range(below[names[j]]) : <<v, u>> \in R
    BY <1>2, <1>10 DEF Ordered
  <2>1. ASSUME NEW i \in 1..l PROVE InOrder(s[i], R)
    <3>0. PICK n \in S : n = names[i]
      BY <1>2
    <3>1. PICK h, b : h = <<own[n]>> /\ b = below[n]
      OBVIOUS
    <3>2. h \in Seq(V) /\ b \in Seq(V) /\ s[i] = h \o b
      BY <1>4, <3>0, <3>1
    <3>3. InOrder(h, R)
      <4>1. \A j \in DOMAIN h : j = 1
        BY <3>1
      <4> QED BY <4>1 DEF InOrder
    <3>4. InOrder(b, R)
      BY <2>0, <3>1
    <3>5. \A x \in Range(h), y \in Range(b) : <<x, y>> \in R
      <4>1. \A x \in Range(h) : x = own[n]
        BY <3>1 DEF Range
      <4> QED BY <2>0, <3>1, <4>1
    <3> QED BY <3>2, <3>3, <3>4, <3>5, ConcatOrder
  <2>2. ASSUME NEW i \in 1..l, NEW j \in 1..l, i < j, NEW x \in Range(s[i]), NEW y \in Range(s[j])
        PROVE  <<x, y>> \in R
    <3>1. x \in {own[names[i]]} \cup Range(below[names[i]])
          /\ y \in {own[names[j]]} \cup Range(below[names[j]])
      BY <1>4, <2>2
    <3> QED BY <2>0, <2>2, <3>1
  <2> QED BY <1>7, <2>1, <2>2
<1> QED BY <1>7, <1>8, <1>9, <1>10 DEF Gathers

LEMMA ReportedType ==
    ASSUME ObjType, NEW o \in DagObjs
    PROVE  /\ dag[o].status \in Statuses /\ Reported(o) \in SUBSET Nodes
           /\ \A n \in Reported(o) : Result(o, n) \in NodeResults
           /\ \A n \in Reported(o) : Result(o, n).sub # None => Result(o, n).sub \in DagObjs
<1>1. dag[o] \in DagResults /\ Reported(o) \in SUBSET Nodes
  BY DEF ObjType, Reported
<1>2. ASSUME NEW n \in Reported(o) PROVE Result(o, n) \in NodeResults
  <2>1. dag[o].results[n] \in NodeObjs
    BY <1>1 DEF Reported, HasResult, DagResults
  <2> QED BY <2>1 DEF ObjType, Result
<1> QED BY <1>1, <1>2 DEF DagResults, NodeResults

LEMMA AppendType ==
    ASSUME NEW path \in Seq(Nodes), NEW n \in Nodes
    PROVE  /\ Append(path, n) \in Seq(Nodes) /\ Len(Append(path, n)) = Len(path) + 1
           /\ Len(path) \in Nat /\ Append(path, n)[Len(path) + 1] = n
           /\ \A i \in 1..Len(path) : Append(path, n)[i] = path[i]
BY AppendProperties, LenProperties

-----------------------------------------------------------------------------
(***************************************************************************)
(* The trace, call by call.                                                *)
(***************************************************************************)
Events == [cat : {"dag", "node"}, path : Seq(Nodes), track : Nat, status : Statuses, route : Int]

Traces == [DagObjs -> [Seq(Nodes) -> Seq(Events)]]

Traced(o, n) == Result(o, n).status # "Skipped" /\ Result(o, n).sub # None

BelowEvents(nested, o, n, path) ==
    IF Traced(o, n) THEN nested[Result(o, n).sub][Append(path, n)] ELSE <<>>

LEMMA EventType ==
    ASSUME ObjType, NEW o \in DagObjs, NEW path \in Seq(Nodes)
    PROVE  /\ DagEvent(o, path) \in Events
           /\ \A n \in Reported(o) : NodeEvent(o, n, path) \in Events
<1>1. Len(path) \in Nat
  BY LenProperties
<1>2. DagEvent(o, path) \in Events
  BY <1>1, ReportedType DEF DagEvent, Events
<1>3. ASSUME NEW n \in Reported(o) PROVE NodeEvent(o, n, path) \in Events
  <2>1. n \in Nodes /\ Result(o, n) \in NodeResults
    BY ReportedType
  <2>2. TrackID(n, Len(path)) \in Nat
    <3>1. Hash[n] \in Nat
      BY <2>1, ExportsAssumption DEF ExportsAssumption
    <3>2. \A h, k \in Nat : k * 1000 + (h % 1000) \in Nat
      OBVIOUS
    <3> QED BY <1>1, <3>1, <3>2 DEF TrackID
  <2>3. Append(path, n) \in Seq(Nodes)
    BY <2>1, AppendType
  <2> QED BY <2>1, <2>2, <2>3 DEF NodeEvent, Events, NodeResults
<1> QED BY <1>2, <1>3

LEMMA TraceStep ==
    ASSUME ObjType, NEW nested \in Traces, NEW o \in DagObjs, NEW path \in Seq(Nodes),
           NEW w, w = collectTraceEvents(nested, o, path)
    PROVE  /\ w \in Seq(Events)
           /\ \A e : e \in Range(w) <=>
                 \/ e = DagEvent(o, path)
                 \/ \E n \in Reported(o) :
                       e = NodeEvent(o, n, path) \/ e \in Range(BelowEvents(nested, o, n, path))
           /\ \A K : /\ \A n \in Reported(o) : Once(BelowEvents(nested, o, n, path), K)
                     /\ \A n \in Reported(o) : \A e \in Range(BelowEvents(nested, o, n, path)) :
                           K[e] # K[NodeEvent(o, n, path)] /\ K[e] # K[DagEvent(o, path)]
                     /\ \A n \in Reported(o) : K[NodeEvent(o, n, path)] # K[DagEvent(o, path)]
                     /\ \A n, m \in Reported(o) : n # m =>
                           \A e \in {NodeEvent(o, n, path)} \cup Range(BelowEvents(nested, o, n, path)),
                              f \in {NodeEvent(o, m, path)} \cup Range(BelowEvents(nested, o, m, path)) :
                              K[e] # K[f]
                     => Once(w, K)
<1>1. PICK S, names, own, below, top :
         /\ S = Reported(o) /\ names = sortStrings(S)
         /\ own = [n \in S |-> NodeEvent(o, n, path)]
         /\ below = [n \in S |-> BelowEvents(nested, o, n, path)]
         /\ top = <<DagEvent(o, path)>>
  OBVIOUS
<1>2. S \in SUBSET Nodes /\ \A n \in S : n \in Nodes
  BY <1>1, ReportedType
<1>3. Lists(names, S)
  <2>1. PICK key : key = [n \in Nodes |-> -n]
    OBVIOUS
  <2>2. key \in [Nodes -> Int]
    BY <2>1, NodesFinite
  <2>3. Lists(SetToSeq(S), S)
    BY <1>2, ListsOf
  <2>4. names = Sorted[[list |-> SetToSeq(S), at |-> 1, key |-> key]]
    BY <1>1, <2>1 DEF sortStrings
  <2> QED BY <2>2, <2>3, <2>4, SortedCorrect
<1>4. own \in [S -> Events]
  BY <1>1, EventType
<1>5. below \in [S -> Seq(Events)]
  <2>1. ASSUME NEW n \in S PROVE BelowEvents(nested, o, n, path) \in Seq(Events)
    <3>1. CASE Traced(o, n)
      <4>1. Result(o, n).sub \in DagObjs /\ Append(path, n) \in Seq(Nodes)
        BY <1>1, <1>2, <3>1, ReportedType, AppendType DEF Traced
      <4> QED BY <3>1, <4>1 DEF BelowEvents, Traces
    <3>2. CASE ~Traced(o, n)
      BY <3>2, EmptySeq DEF BelowEvents
    <3> QED BY <3>1, <3>2
  <2> QED BY <1>1, <2>1
<1>6. PICK u : u = Walked(names, own, below)
  OBVIOUS
<1>7. w = top \o u
  <2>1. \A i \in DOMAIN names : names[i] \in S
    BY <1>3 DEF Lists, Range
  <2>2. \A i \in DOMAIN names : own[names[i]] = NodeEvent(o, names[i], path)
           /\ below[names[i]] = BelowEvents(nested, o, names[i], path)
    BY <1>1, <2>1
  <2>3. PICK t : t = [i \in DOMAIN names |-> <<own[names[i]]>> \o below[names[i]]]
    OBVIOUS
  <2>4. t = [i \in DOMAIN names |-> <<NodeEvent(o, names[i], path)>>
                                    \o BelowEvents(nested, o, names[i], path)]
    BY <2>2, <2>3
  <2>5. w = top \o FlattenSeq([i \in DOMAIN names |-> <<NodeEvent(o, names[i], path)>>
                                    \o BelowEvents(nested, o, names[i], path)])
    BY <1>1 DEF collectTraceEvents, BelowEvents, Traced
  <2> QED BY <1>6, <2>3, <2>4, <2>5 DEF Walked
<1>8. /\ u \in Seq(Events) /\ Gathers(u, S, own, below)
      /\ \A K : Distinct(S, own, below, K) => Once(u, K)
  BY <1>3, <1>4, <1>5, <1>6, Walk
<1>9. top \in Seq(Events) /\ \A v : v \in Range(top) <=> v = DagEvent(o, path)
  BY <1>1, EventType DEF Range
<1>10. w \in Seq(Events) /\ \A v : v \in Range(w) <=> v \in Range(top) \/ v \in Range(u)
  BY <1>7, <1>8, <1>9, Concat
<1>11. \A e : e \in Range(u) <=>
          \E n \in Reported(o) :
              e = NodeEvent(o, n, path) \/ e \in Range(BelowEvents(nested, o, n, path))
  BY <1>1, <1>8 DEF Gathers
<1>12. ASSUME NEW K, \A n \in Reported(o) : Once(BelowEvents(nested, o, n, path), K),
              \A n \in Reported(o) : \A e \in Range(BelowEvents(nested, o, n, path)) :
                 K[e] # K[NodeEvent(o, n, path)] /\ K[e] # K[DagEvent(o, path)],
              \A n \in Reported(o) : K[NodeEvent(o, n, path)] # K[DagEvent(o, path)],
              \A n, m \in Reported(o) : n # m =>
                 \A e \in {NodeEvent(o, n, path)} \cup Range(BelowEvents(nested, o, n, path)),
                    f \in {NodeEvent(o, m, path)} \cup Range(BelowEvents(nested, o, m, path)) :
                    K[e] # K[f]
       PROVE  Once(w, K)
  <2>1. \A n \in S : own[n] = NodeEvent(o, n, path) /\ below[n] = BelowEvents(nested, o, n, path)
    BY <1>1
  <2>2. \A n \in S : Once(below[n], K)
    BY <1>1, <1>12, <2>1
  <2>3. \A n \in S : \A v \in Range(below[n]) : K[v] # K[own[n]]
    BY <1>1, <1>12, <2>1
  <2>4. ASSUME NEW n \in S, NEW m \in S, n # m, NEW v \in {own[n]} \cup Range(below[n]),
               NEW x \in {own[m]} \cup Range(below[m])
        PROVE  K[v] # K[x]
    <3>1. v \in {NodeEvent(o, n, path)} \cup Range(BelowEvents(nested, o, n, path))
          /\ x \in {NodeEvent(o, m, path)} \cup Range(BelowEvents(nested, o, m, path))
      BY <2>1, <2>4
    <3> QED BY <1>1, <1>12, <2>4, <3>1
  <2>5. Distinct(S, own, below, K)
    BY <2>2, <2>3, <2>4 DEF Distinct
  <2>6. Once(top, K) /\ Once(u, K)
    BY <1>1, <1>8, <2>5 DEF Once
  <2>7. \A x \in Range(top), y \in Range(u) : K[x] # K[y]
    BY <1>9, <1>11, <1>12
  <2> QED BY <1>7, <1>8, <1>9, <2>6, <2>7, ConcatOnce
<1>13. \A e : e \in Range(w) <=>
          \/ e = DagEvent(o, path)
          \/ \E n \in Reported(o) :
                e = NodeEvent(o, n, path) \/ e \in Range(BelowEvents(nested, o, n, path))
  BY <1>9, <1>10, <1>11
<1> QED BY <1>10, <1>12, <1>13

LEMMA TraceLoop ==
    ASSUME ObjType
    PROVE  /\ TraceEvents \in [Nat -> Traces]
           /\ \A o \in DagObjs : \A path \in Seq(Nodes) : TraceEvents[0][o][path] = <<>>
           /\ \A k \in Nat : \A o \in DagObjs : \A path \in Seq(Nodes) :
                 TraceEvents[k + 1][o][path] = collectTraceEvents(TraceEvents[k], o, path)
<1>1. PICK base : base = [o \in DagObjs |-> [path \in Seq(Nodes) |-> <<>>]]
  OBVIOUS
<1>2. base \in Traces
  BY <1>1, EmptySeq DEF Traces
<1>3. PICK step : step = [x \in Nat \X Traces |->
         [o \in DagObjs |-> [path \in Seq(Nodes) |-> collectTraceEvents(x[2], o, path)]]]
  OBVIOUS
<1>4. step \in [Nat \X Traces -> Traces]
  <2>1. ASSUME NEW x \in Nat \X Traces
        PROVE  [o \in DagObjs |-> [path \in Seq(Nodes) |-> collectTraceEvents(x[2], o, path)]]
               \in Traces
    <3>1. PICK nested \in Traces : nested = x[2]
      OBVIOUS
    <3>2. \A o \in DagObjs : \A path \in Seq(Nodes) :
             collectTraceEvents(nested, o, path) \in Seq(Events)
      BY TraceStep
    <3> QED BY <3>1, <3>2 DEF Traces
  <2> QED BY <1>3, <2>1
<1>5. PICK g : Iterates(g, Traces, base, step)
  BY <1>2, <1>4, Recursion
<1>6. g \in [Nat -> Traces] /\ g[0] = base /\ \A k \in Nat : g[k + 1] = step[<<k, g[k]>>]
  BY <1>5 DEF Iterates
<1>7. ASSUME NEW k \in Nat
      PROVE  g[k + 1] = [o \in DagObjs |-> [path \in Seq(Nodes) |->
                            collectTraceEvents(g[k], o, path)]]
  BY <1>3, <1>6
<1>8. ASSUME NEW d \in Nat
      PROVE  g[d] = IF d = 0 THEN base
                    ELSE [o \in DagObjs |-> [path \in Seq(Nodes) |->
                             collectTraceEvents(g[d - 1], o, path)]]
  <2>1. CASE d = 0
    BY <1>6, <2>1
  <2>2. CASE d # 0
    <3>1. d - 1 \in Nat /\ (d - 1) + 1 = d
      BY <2>2
    <3> QED BY <1>7, <2>2, <3>1
  <2> QED BY <2>1, <2>2
<1>9. g = [d \in Nat |-> IF d = 0 THEN [o \in DagObjs |-> [path \in Seq(Nodes) |-> <<>>]]
                         ELSE [o \in DagObjs |-> [path \in Seq(Nodes) |->
                                  collectTraceEvents(g[d - 1], o, path)]]]
  BY <1>1, <1>6, <1>8
<1>10. TraceEvents = [d \in Nat |-> IF d = 0 THEN [o \in DagObjs |-> [path \in Seq(Nodes) |-> <<>>]]
                         ELSE [o \in DagObjs |-> [path \in Seq(Nodes) |->
                                  collectTraceEvents(TraceEvents[d - 1], o, path)]]]
  BY <1>9 DEF TraceEvents
<1>11. ASSUME NEW d \in Nat
       PROVE  TraceEvents[d] = IF d = 0 THEN base
                               ELSE [o \in DagObjs |-> [path \in Seq(Nodes) |->
                                        collectTraceEvents(TraceEvents[d - 1], o, path)]]
  BY <1>1, <1>10
<1>20. TraceEvents[0] = base
  BY <1>11
<1>21. ASSUME NEW d \in Nat, d # 0
       PROVE  TraceEvents[d] = [o \in DagObjs |-> [path \in Seq(Nodes) |->
                                        collectTraceEvents(TraceEvents[d - 1], o, path)]]
  BY <1>11, <1>21
<1>22. ASSUME NEW d \in Nat, d # 0, NEW o \in DagObjs, NEW path \in Seq(Nodes)
       PROVE  TraceEvents[d][o][path] = collectTraceEvents(TraceEvents[d - 1], o, path)
  <2>1. TraceEvents[d] = [e \in DagObjs |-> [q \in Seq(Nodes) |->
                              collectTraceEvents(TraceEvents[d - 1], e, q)]]
    BY <1>21, <1>22
  <2>2. TraceEvents[d][o] = [q \in Seq(Nodes) |-> collectTraceEvents(TraceEvents[d - 1], o, q)]
    BY <2>1
  <2> QED BY <2>2
<1>12. ASSUME NEW k \in Nat, TraceEvents[k] \notin Traces PROVE FALSE
  <2>1. PICK T : T = {d \in Nat : TraceEvents[d] \notin Traces}
    OBVIOUS
  <2>2. PICK d \in T : \A j \in T : d <= j
    BY <1>12, <2>1, LeastOf
  <2>3. d \in Nat /\ TraceEvents[d] \notin Traces
    BY <2>1
  <2>4. d # 0
    BY <1>2, <1>20, <2>3
  <2>5. d - 1 \in Nat /\ ~(d <= d - 1)
    BY <2>3, <2>4
  <2>6. PICK nested \in Traces : nested = TraceEvents[d - 1]
    <3>1. d - 1 \notin T
      BY <2>2, <2>5
    <3> QED BY <2>1, <2>5, <3>1
  <2>7. \A o \in DagObjs : \A path \in Seq(Nodes) :
           collectTraceEvents(TraceEvents[d - 1], o, path) \in Seq(Events)
    BY <2>6, TraceStep
  <2>8. [o \in DagObjs |-> [path \in Seq(Nodes) |->
            collectTraceEvents(TraceEvents[d - 1], o, path)]] \in Traces
    BY <2>7 DEF Traces
  <2>9. TraceEvents[d] \in Traces
    BY <1>21, <2>3, <2>4, <2>8
  <2> QED BY <2>3, <2>9
<1>13. TraceEvents \in [Nat -> Traces]
  <2>1. TraceEvents = [k \in Nat |-> TraceEvents[k]]
    BY <1>10
  <2> QED BY <1>12, <2>1
<1>14. ASSUME NEW k \in Nat, NEW o \in DagObjs, NEW path \in Seq(Nodes)
       PROVE  TraceEvents[k + 1][o][path] = collectTraceEvents(TraceEvents[k], o, path)
  <2>1. k + 1 \in Nat /\ k + 1 # 0 /\ (k + 1) - 1 = k
    OBVIOUS
  <2>2. TraceEvents[k + 1][o][path] = collectTraceEvents(TraceEvents[(k + 1) - 1], o, path)
    BY <1>22, <2>1
  <2> QED BY <2>1, <2>2
<1>15. \A o \in DagObjs : \A path \in Seq(Nodes) : TraceEvents[0][o][path] = <<>>
  BY <1>1, <1>20
<1> QED BY <1>13, <1>14, <1>15

(***************************************************************************)
(* Every event of a node is on a track of its depth.                       *)
(***************************************************************************)
Remainders == 0..999

Track(depth, h) == depth * 1000 + h

OnTrack(e) == \E depth \in Nat : /\ Len(e.path) = depth + 1
                                 /\ \E h \in Remainders : e.track = Track(depth, h)

LEMMA TracksOfDepths ==
    ASSUME ObjType, NEW k \in Nat, NEW o \in DagObjs, NEW path \in Seq(Nodes),
           NEW e \in Range(TraceEvents[k][o][path]), e.cat = "node"
    PROVE  OnTrack(e)
<1> DEFINE Tracked(d) == \A x \in DagObjs : \A q \in Seq(Nodes) :
               \A f \in Range(TraceEvents[d][x][q]) : f.cat = "node" => OnTrack(f)
<1>1. ASSUME ~Tracked(k) PROVE FALSE
  <2>1. PICK T : T = {d \in Nat : ~Tracked(d)}
    OBVIOUS
  <2>2. PICK d \in T : \A j \in T : d <= j
    <3>1. T \in SUBSET Nat /\ k \in T
      BY <1>1, <2>1
    <3> QED BY <3>1, LeastOf
  <2>15. PICK x \in DagObjs, q \in Seq(Nodes) :
            \E f \in Range(TraceEvents[d][x][q]) : f.cat = "node" /\ ~OnTrack(f)
    BY <2>1
  <2>3. PICK f \in Range(TraceEvents[d][x][q]) : f.cat = "node" /\ ~OnTrack(f)
    BY <2>15
  <2>4. d \in Nat
    BY <2>1
  <2>5. d # 0
    BY <2>3, TraceLoop DEF Range
  <2>6. PICK j \in Nat : d = j + 1 /\ j \notin T
    <3>1. d - 1 \in Nat /\ d = (d - 1) + 1 /\ ~(d <= d - 1)
      BY <2>4, <2>5
    <3>2. d - 1 \notin T
      BY <2>2, <3>1
    <3> QED BY <3>1, <3>2
  <2>7. Tracked(j)
    BY <2>1, <2>6
  <2>8. TraceEvents[d][x][q] = collectTraceEvents(TraceEvents[j], x, q)
        /\ TraceEvents[j] \in Traces
    BY <2>6, TraceLoop
  <2>9. \/ f = DagEvent(x, q)
        \/ \E n \in Reported(x) :
              f = NodeEvent(x, n, q) \/ f \in Range(BelowEvents(TraceEvents[j], x, n, q))
    BY <2>3, <2>8, TraceStep
  <2>10. f # DagEvent(x, q)
    BY <2>3 DEF DagEvent
  <2>11. PICK n \in Reported(x) :
            f = NodeEvent(x, n, q) \/ f \in Range(BelowEvents(TraceEvents[j], x, n, q))
    BY <2>9, <2>10
  <2>12. n \in Nodes /\ Append(q, n) \in Seq(Nodes)
    BY ReportedType, AppendType
  <2>13. CASE f = NodeEvent(x, n, q)
    <3>1. Hash[n] \in Nat
      BY <2>12, ExportsAssumption DEF ExportsAssumption
    <3>3. PICK h : h = Hash[n] % 1000
      OBVIOUS
    <3>4. h \in Remainders
      <4>1. \A y \in Nat : y % 1000 \in Remainders
        BY DEF Remainders
      <4> QED BY <3>1, <3>3, <4>1
    <3>5. f.path = Append(q, n) /\ f.track = Track(Len(q), h)
      BY <2>13, <3>3 DEF NodeEvent, TrackID, Track
    <3>6. Len(f.path) = Len(q) + 1 /\ Len(q) \in Nat
      BY <2>12, <3>5, AppendType
    <3> QED BY <2>3, <3>4, <3>5, <3>6 DEF OnTrack
  <2>14. CASE f \in Range(BelowEvents(TraceEvents[j], x, n, q))
    <3>1. CASE Traced(x, n)
      <4>1. Result(x, n).sub \in DagObjs
        BY <3>1, ReportedType DEF Traced
      <4>2. f \in Range(TraceEvents[j][Result(x, n).sub][Append(q, n)])
        BY <2>14, <3>1 DEF BelowEvents
      <4> QED BY <2>3, <2>7, <2>12, <4>1, <4>2
    <3>2. CASE ~Traced(x, n)
      BY <2>14, <3>2 DEF BelowEvents, Range
    <3> QED BY <3>1, <3>2
  <2> QED BY <2>11, <2>13, <2>14
<1> QED BY <1>1

LEMMA TrackOfOneDepth ==
    ASSUME NEW k \in Nat, NEW l \in Nat, NEW g \in Remainders, NEW h \in Remainders,
           Track(k, g) = Track(l, h)
    PROVE  k = l
BY SMTT(30) DEF Track, Remainders

LEMMA TookType == \A o \in DagObjs : [n \in Nodes |-> Took(o, n)] \in [Nodes -> Int]
BY ExportsAssumption DEF ExportsAssumption, Took

LEMMA TracksOf ==
    ASSUME ObjType, NEW o \in DagObjs, NEW e \in Range(ExportChromeTrace(o)),
           NEW f \in Range(ExportChromeTrace(o)),
           e.cat = "node", f.cat = "node", e.track = f.track
    PROVE  Len(e.path) = Len(f.path)
<1>1. <<>> \in Seq(Nodes) /\ MaxDags \in Nat
  BY EmptySeq, ResultsAssumption DEF ResultsAssumption
<1>2. OnTrack(e)
  BY <1>1, TracksOfDepths DEF ExportChromeTrace
<1>3. OnTrack(f)
  BY <1>1, TracksOfDepths DEF ExportChromeTrace
<1>4. PICK k \in Nat, g \in Remainders : Len(e.path) = k + 1 /\ e.track = Track(k, g)
  BY <1>2 DEF OnTrack
<1>5. PICK l \in Nat, h \in Remainders : Len(f.path) = l + 1 /\ f.track = Track(l, h)
  BY <1>3 DEF OnTrack
<1>6. k = l
  <2>1. Track(k, g) = Track(l, h)
    BY <1>4, <1>5
  <2> QED BY <2>1, TrackOfOneDepth
<1> QED BY <1>4, <1>5, <1>6

-----------------------------------------------------------------------------
(***************************************************************************)
(* What a result holds.  Busy nodes of an open loop are those that still   *)
(* have a result to send.                                                  *)
(***************************************************************************)
InFlightOf(o) == {f.node : f \in {g \in flight : g.parent = o}}

Busy(o) == loop[o].taken \cup loop[o].heap \cup InFlightOf(o)

LeavesOut(o, n, m) ==
    /\ HasResult(o, n) /\ Result(o, n).route >= 0
    /\ m \in NodesOf(o) /\ n \in Deps[m] /\ m \notin RouteMap[n][Result(o, n).route]

SkippedIn(o, m) == HasResult(o, m) /\ Result(o, m).status = "Skipped"

Decided(o, m, B) == \A n \in Deps[m] : HasResult(o, n) /\ n \notin B

(***************************************************************************)
(* Of an open loop: what is busy has results for all its dependencies, and *)
(* they will not be replaced; what a route leaves out is skipped, or about *)
(* to be; only after an abort is a result replaced.                        *)
(***************************************************************************)
Working(o) ==
    /\ dag[o].dag # None
    /\ Busy(o) \cup loop[o].skip \subseteq NodesOf(o)
    /\ (loop[o].taken \cup loop[o].heap) \cap InFlightOf(o) = {}
    /\ \A m \in Busy(o) : Decided(o, m, Busy(o))
    /\ \A m \in Reported(o) : SkippedIn(o, m) \/ Decided(o, m, Busy(o))
    /\ \A n, m \in Nodes : LeavesOut(o, n, m) =>
          m \notin Busy(o) /\ (m \in loop[o].skip \/ SkippedIn(o, m))
    /\ o \notin aborted => /\ loop[o].heap = {} /\ loop[o].late = 0
                           /\ \A m \in Busy(o) : ~HasResult(o, m) /\ m \notin loop[o].skip
    /\ o \in aborted => NodesOf(o) \subseteq Reported(o) \cup loop[o].skip \cup Busy(o)

(***************************************************************************)
(* Of a result that is held and not being released.                        *)
(***************************************************************************)
RightResult(o, n) ==
    /\ Result(o, n).route >= 0 => /\ Result(o, n).status = "Success" /\ n \in DOMAIN RouteMap
                                  /\ Result(o, n).route \in DOMAIN RouteMap[n]
    /\ Result(o, n).sub # None => /\ Result(o, n).status # "Skipped"
                                  /\ dag[Result(o, n).sub].dag # None
                                  /\ Result(o, n).sub \notin open

Ended(o) ==
    /\ dag[o].status \in {"Success", "Failed"}
    /\ dag[o].status = "Success" => NodesOf(o) \subseteq Reported(o)
    /\ \A n, m \in Nodes : LeavesOut(o, n, m) => SkippedIn(o, m)

Filled(o) ==
    /\ Reported(o) \subseteq NodesOf(o)
    /\ \A n \in Reported(o) : RightResult(o, n)
    /\ o \notin open => Ended(o)

Live(o) == dag[o].dag # None /\ HeldDag(o)

FlightsRight ==
    /\ \A f \in flight : node[f.nr].route = -1 /\ node[f.nr].sub = None /\ dag[f.child].dag # None
    /\ \A f, g \in flight : f.parent # None /\ f.parent = g.parent /\ f.node = g.node => f = g

FillInv ==
    /\ \A o \in open : Working(o)
    /\ \A o \in DagObjs : Live(o) => Filled(o)
    /\ \A o \in DagObjs : o \notin open => loop[o] = NewLoop
    /\ FlightsRight

-----------------------------------------------------------------------------
(***************************************************************************)
(* A result that nothing touches stays as it is.                           *)
(***************************************************************************)
Same(o) == dag'[o] = dag[o] /\ \A n \in Nodes : HasResult(o, n) => Result(o, n)' = Result(o, n)

LEMMA SameFacts ==
    ASSUME NEW o, Same(o)
    PROVE  /\ NodesOf(o)' = NodesOf(o) /\ Reported(o)' = Reported(o)
           /\ \A n \in Nodes : HasResult(o, n)' <=> HasResult(o, n)
           /\ \A n \in Reported(o) : Result(o, n)' = Result(o, n)
           /\ \A n, m \in Nodes : LeavesOut(o, n, m)' <=> LeavesOut(o, n, m)
           /\ \A m \in Nodes : SkippedIn(o, m)' <=> SkippedIn(o, m)
<1>1. NodesOf(o)' = NodesOf(o) /\ \A n \in Nodes : HasResult(o, n)' <=> HasResult(o, n)
  BY DEF Same, NodesOf, HasResult
<1>2. \A n \in Nodes : HasResult(o, n) => Result(o, n)' = Result(o, n)
  BY DEF Same
<1>3. Reported(o)' = Reported(o)
  BY <1>1 DEF Reported
<1> QED BY <1>1, <1>2, <1>3 DEF LeavesOut, SkippedIn, Reported

LEMMA WorkingKept ==
    ASSUME NEW o, Working(o), Same(o), loop'[o] = loop[o], InFlightOf(o)' = InFlightOf(o),
           o \in aborted' <=> o \in aborted
    PROVE  Working(o)'
<1>1. Busy(o)' = Busy(o)
  BY DEF Busy
<1>2. ASSUME NEW m \in Nodes PROVE Decided(o, m, Busy(o))' <=> Decided(o, m, Busy(o))
  <2>1. Deps[m] \in SUBSET Nodes
    BY ResultsAssumption DEF ResultsAssumption
  <2> QED BY <1>1, <2>1, SameFacts DEF Decided
<1>3. NodesOf(o) \subseteq Nodes /\ Reported(o) \subseteq Nodes /\ Busy(o) \subseteq Nodes
  BY DEF NodesOf, Reported, Working
<1>4. dag'[o] = dag[o]
  BY DEF Same
<1> QED BY <1>1, <1>2, <1>3, <1>4, SameFacts DEF Working

LEMMA FilledKept ==
    ASSUME NEW o, Filled(o), Same(o), o \in open' <=> o \in open,
           \A n \in Reported(o) : Result(o, n).sub # None /\ dag[Result(o, n).sub].dag # None
                                  /\ Result(o, n).sub \notin open
              => dag'[Result(o, n).sub].dag # None /\ Result(o, n).sub \notin open'
    PROVE  Filled(o)'
<1>1. \A n \in Reported(o)' : RightResult(o, n)'
  BY SameFacts DEF Filled, RightResult
<1>2. Ended(o) => Ended(o)'
  BY SameFacts DEF Ended, Same
<1> QED BY <1>1, <1>2, SameFacts DEF Filled

LEMMA FillKept ==
    ASSUME FillInv, UNCHANGED <<open, aborted, loop, flight>>,
           \A o \in open : Same(o),
           \A o \in DagObjs : Live(o)' => /\ Live(o) /\ Same(o)
                                          /\ \A n \in Reported(o) : Result(o, n).sub # None =>
                                                dag'[Result(o, n).sub].dag = dag[Result(o, n).sub].dag,
           \A f \in flight : node'[f.nr] = node[f.nr] /\ dag'[f.child].dag = dag[f.child].dag
    PROVE  FillInv'
<1>1. \A o \in open' : Working(o)'
  <2>1. \A o \in open : InFlightOf(o)' = InFlightOf(o)
    BY DEF InFlightOf
  <2> QED BY <2>1, WorkingKept DEF FillInv
<1>2. ASSUME NEW o \in DagObjs, Live(o)' PROVE Filled(o)'
  <2>1. Filled(o) /\ Same(o)
    BY <1>2 DEF FillInv
  <2> QED BY <1>2, <2>1, FilledKept
<1>3. FlightsRight'
  BY DEF FillInv, FlightsRight
<1> QED BY <1>1, <1>2, <1>3 DEF FillInv

-----------------------------------------------------------------------------
(***************************************************************************)
(* A step of a Reset: of a result x that is released, and nodes P of such. *)
(***************************************************************************)
LEMMA ResetKeeps ==
    ASSUME IndInv, FillInv, NEW x \in DagObjs, NEW P,
           UNCHANGED <<open, aborted, loop, flight>>,
           \A o \in DagObjs : o # x => dag'[o] = dag[o],
           dag'[x].dag = None,
           dag[x].dag # None => /\ x \notin open /\ \A f \in flight : f.child # x
                                /\ \A o \in DagObjs : \A n \in Reported(o) :
                                      Result(o, n).sub = x => dag[o].dag = None,
           \A p \in NodeObjs : p \notin P => node'[p] = node[p],
           \A p \in P : \E o \in DagObjs : /\ dag[o].dag = None
                                           /\ \E n \in Nodes : dag[o].results[n] = p,
           \A o \in DagObjs : HeldDag(o)' => HeldDag(o)
    PROVE  FillInv'
<1>1. \A o \in open : o \in DagObjs /\ dag[o].dag # None
  BY DEF IndInv, LoopType, FillInv, Working
<1>2. ASSUME NEW o \in DagObjs, dag[o].dag # None, o # x PROVE Same(o)
  <2>1. ASSUME NEW n \in Nodes, HasResult(o, n) PROVE Result(o, n)' = Result(o, n)
    <3>1. PICK p \in NodeObjs : dag[o].results[n] = p
      BY <2>1 DEF HasResult, IndInv, ObjType, DagResults
    <3>2. p \notin P
      <4>1. p # None
        BY Objects
      <4> QED BY <1>2, <3>1, <4>1 DEF IndInv, NodesOnce
    <3>3. dag'[o] = dag[o]
      BY <1>2
    <3> QED BY <3>1, <3>2, <3>3 DEF Result
  <2> QED BY <1>2, <2>1 DEF Same
<1>3. \A o \in open : Same(o)
  <2>1. \A o \in open : o # x
    BY <1>1
  <2> QED BY <1>1, <1>2, <2>1
<1>4. ASSUME NEW o \in DagObjs, Live(o)'
      PROVE  /\ Live(o) /\ Same(o)
             /\ \A n \in Reported(o) : Result(o, n).sub # None =>
                   dag'[Result(o, n).sub].dag = dag[Result(o, n).sub].dag
  <2>1. o # x /\ dag[o].dag # None /\ HeldDag(o)
    BY <1>4 DEF Live
  <2>2. Live(o) /\ Same(o)
    BY <1>2, <2>1 DEF Live
  <2>3. ASSUME NEW n \in Reported(o), Result(o, n).sub # None
        PROVE  dag'[Result(o, n).sub].dag = dag[Result(o, n).sub].dag
    <3>1. RightResult(o, n)
      BY <2>2 DEF FillInv, Filled
    <3>2. dag[Result(o, n).sub].dag # None /\ Result(o, n).sub \in DagObjs
      BY <2>3, <3>1, ReportedType DEF RightResult, IndInv
    <3>3. Result(o, n).sub # x
      BY <2>1, <3>2
    <3> QED BY <3>2, <3>3
  <2> QED BY <2>2, <2>3
<1>5. ASSUME NEW f \in flight PROVE node'[f.nr] = node[f.nr] /\ dag'[f.child].dag = dag[f.child].dag
  <2>1. f.nr \in NodeObjs /\ f.child \in DagObjs
    BY DEF IndInv, LoopType
  <2>2. dag[f.child].dag # None
    BY DEF FillInv, FlightsRight
  <2>3. f.nr \notin P
    BY DEF IndInv, NodesOnce
  <2> QED BY <2>1, <2>2, <2>3
<1> QED BY <1>3, <1>4, <1>5, FillKept

LEMMA ClearedBelow ==
    ASSUME IndInv, NEW c \in Callers, NEW i \in 1..Len(stack[c]), Odd(i)
    PROVE  stack[c][i] \in DagObjs /\ dag[stack[c][i]].dag = None
<1>1. Path(c)
  BY DEF IndInv, Stacks
<1> QED BY <1>1 DEF Path, Cleared

LEMMA FillRelease == ASSUME IndInv, FillInv, NEW c \in Callers, Release(c) PROVE FillInv'
<1>1. PICK o : o = result[c]
  OBVIOUS
<1>2. /\ phase[c] = "returned"
      /\ dag' = [dag EXCEPT ![o].status = "Pending", ![o].dag = None]
      /\ UNCHANGED <<node, open, aborted, loop, flight, result>>
  BY <1>1 DEF Release, ClearedDag, loops
<1>3. o \in DagObjs /\ o # None
  <2>1. result[c] \in DagObjs /\ result[c] # None
    BY <1>2 DEF IndInv, CallType
  <2> QED BY <1>1, <2>1
<1>4. dag'[o].dag = None /\ \A e \in DagObjs : e # o => dag'[e] = dag[e]
  BY <1>2, <1>3 DEF IndInv, ObjType, DagResults
<1>5. o \notin open
  BY <1>1, <1>2, NotFilled
<1>6. \A f \in flight : f.child # o
  BY <1>1 DEF IndInv, DagsOnce
<1>7. ASSUME NEW e \in DagObjs, NEW n \in Reported(e) PROVE Result(e, n).sub # o
  <2>1. dag[e].results[n] \in NodeObjs
    BY DEF IndInv, ObjType, DagResults, Reported, HasResult
  <2> QED BY <1>1, <1>3, <2>1 DEF IndInv, DagsOnce, Result
<1>8. \A e \in DagObjs : HeldDag(e)' => HeldDag(e)
  BY <1>2 DEF HeldDag
<1>9. PICK P : P = {}
  OBVIOUS
<1>10. /\ \A p \in NodeObjs : p \notin P => node'[p] = node[p]
       /\ \A p \in P : \E e \in DagObjs : /\ dag[e].dag = None
                                          /\ \E n \in Nodes : dag[e].results[n] = p
       /\ UNCHANGED <<open, aborted, loop, flight>>
  BY <1>2, <1>9
<1> QED BY <1>3, <1>4, <1>5, <1>6, <1>7, <1>8, <1>10, ResetKeeps

LEMMA FillResetNode == ASSUME IndInv, FillInv, NEW c \in Callers, ResetNode(c) PROVE FillInv'
<1>1. /\ phase[c] = "release" /\ Odd(Depth(c)) /\ Depth(c) \in 1..Len(stack[c])
      /\ Resetting(c) = stack[c][Depth(c)]
  BY Top DEF ResetNode, InDag, Resetting
<1>2. PICK o : o = Resetting(c)
  OBVIOUS
<1>3. PICK n \in Nodes : HasResult(o, n) /\ node' = ClearedNode(dag[o].results[n])
  BY <1>2 DEF ResetNode
<1>4. UNCHANGED <<dag, open, aborted, loop, flight, result>>
  BY DEF ResetNode, loops
<1>5. o \in DagObjs /\ dag[o].dag = None
  BY <1>1, <1>2, ClearedBelow
<1>6. PICK p \in NodeObjs : p = dag[o].results[n]
  BY <1>3, <1>5, SMTT(30) DEF IndInv, ObjType, DagResults, HasResult
<1>7. node' = [node EXCEPT ![p].status = "Pending", ![p].route = -1, ![p].skip = "none"]
  BY <1>3, <1>6, SMTT(30) DEF ClearedNode
<1>8. \A q \in NodeObjs : node'[q].sub = node[q].sub /\ (q # p => node'[q] = node[q])
  BY <1>6, <1>7 DEF IndInv, ObjType, NodeResults
<1>9. \A e \in DagObjs : HeldDag(e)' => HeldDag(e)
  BY <1>4, <1>8 DEF HeldDag
<1>10. PICK P : P = {p}
  OBVIOUS
<1>11. /\ \A q \in NodeObjs : q \notin P => node'[q] = node[q]
       /\ \A q \in P : \E e \in DagObjs : /\ dag[e].dag = None
                                          /\ \E m \in Nodes : dag[e].results[m] = q
       /\ UNCHANGED <<open, aborted, loop, flight>>
  BY <1>4, <1>5, <1>6, <1>8, <1>10
<1>12. dag'[o].dag = None /\ \A e \in DagObjs : e # o => dag'[e] = dag[e]
  BY <1>4, <1>5
<1> QED BY <1>5, <1>9, <1>11, <1>12, ResetKeeps

LEMMA FillResetChild == ASSUME IndInv, FillInv, NEW c \in Callers, ResetChild(c) PROVE FillInv'
<1>1. /\ phase[c] = "release" /\ ~Odd(Depth(c)) /\ Depth(c) \in 1..Len(stack[c])
      /\ Resetting(c) = stack[c][Depth(c)]
  BY Top DEF ResetChild, InNode, Resetting
<1>2. PICK p, x, o : p = Resetting(c) /\ x = node[p].sub /\ o = stack[c][Depth(c) - 1]
  OBVIOUS
<1>3. /\ x # None /\ dag' = [dag EXCEPT ![x].status = "Pending", ![x].dag = None]
      /\ UNCHANGED <<node, open, aborted, loop, flight, result>>
  BY <1>2 DEF ResetChild, ClearedDag, loops
<1>4. /\ p \in NodeObjs /\ o \in DagObjs /\ Depth(c) > 1
      /\ \E n \in Nodes : dag[o].results[n] = p
  BY <1>1, <1>2, OnStack
<1>5. dag[o].dag = None
  <2>1. Depth(c) \in Nat /\ Depth(c) - 1 \in 1..Len(stack[c]) /\ Depth(c) - 1 \in Nat
        /\ (Depth(c) - 1) + 1 = Depth(c)
    BY <1>1, <1>4, Top
  <2>2. Odd(Depth(c) - 1)
    BY <1>1, <2>1, Parity
  <2> QED BY <1>2, <2>1, <2>2, ClearedBelow
<1>6. x \in DagObjs
  BY <1>2, <1>3, <1>4 DEF IndInv, ObjType, NodeResults
<1>7. dag'[x].dag = None /\ \A e \in DagObjs : e # x => dag'[e] = dag[e]
  BY <1>3, <1>6 DEF IndInv, ObjType, DagResults
<1>8. x \notin open /\ \A f \in flight : f.child # x
  <2>1. \A f \in flight : f.child # x
    BY <1>2, <1>4 DEF IndInv, DagsOnce
  <2> QED BY <1>2, <1>4, <2>1, NotFilled
<1>9. ASSUME NEW e \in DagObjs, NEW n \in Reported(e), Result(e, n).sub = x
      PROVE  dag[e].dag = None
  <2>1. dag[e].results[n] \in NodeObjs /\ dag[e].results[n] # None /\ n \in Nodes
    BY DEF IndInv, ObjType, DagResults, Reported, HasResult
  <2>2. dag[e].results[n] = p
    BY <1>2, <1>3, <1>4, <1>9, <2>1 DEF IndInv, DagsOnce, Result
  <2>3. e = o
    BY <1>4, <2>1, <2>2 DEF IndInv, NodesOnce
  <2> QED BY <1>5, <2>3
<1>10. \A e \in DagObjs : HeldDag(e)' => HeldDag(e)
  BY <1>3 DEF HeldDag
<1>11. PICK P : P = {}
  OBVIOUS
<1>12. /\ \A q \in NodeObjs : q \notin P => node'[q] = node[q]
       /\ \A q \in P : \E e \in DagObjs : /\ dag[e].dag = None
                                          /\ \E n \in Nodes : dag[e].results[n] = q
       /\ UNCHANGED <<open, aborted, loop, flight>>
  BY <1>3, <1>11
<1> QED BY <1>6, <1>7, <1>8, <1>9, <1>10, <1>12, ResetKeeps

LEMMA FillPutNode == ASSUME IndInv, FillInv, NEW c \in Callers, PutNode(c) PROVE FillInv'
<1>1. /\ phase[c] = "release" /\ ~Odd(Depth(c)) /\ Depth(c) \in 1..Len(stack[c])
      /\ Resetting(c) = stack[c][Depth(c)]
  BY Top DEF PutNode, InNode, Resetting
<1>2. PICK p, o : p = Resetting(c) /\ o = stack[c][Depth(c) - 1]
  OBVIOUS
<1>3. /\ dag' = [dag EXCEPT ![o].results = [n \in Nodes |-> IF @[n] = p THEN None ELSE @[n]]]
      /\ UNCHANGED <<node, open, aborted, loop, flight, result>>
  BY <1>2 DEF PutNode, loops
<1>4. o \in DagObjs /\ Depth(c) > 1
  BY <1>1, <1>2, OnStack
<1>5. dag[o].dag = None
  <2>1. Depth(c) \in Nat /\ Depth(c) - 1 \in 1..Len(stack[c]) /\ Depth(c) - 1 \in Nat
        /\ (Depth(c) - 1) + 1 = Depth(c)
    BY <1>1, <1>4, Top
  <2>2. Odd(Depth(c) - 1)
    BY <1>1, <2>1, Parity
  <2> QED BY <1>2, <2>1, <2>2, ClearedBelow
<1>6. dag'[o].dag = None /\ \A e \in DagObjs : e # o => dag'[e] = dag[e]
  BY <1>3, <1>4, <1>5 DEF IndInv, ObjType, DagResults
<1>7. \A e \in DagObjs : HeldDag(e)' => HeldDag(e)
  BY <1>3 DEF HeldDag
<1>8. PICK P : P = {}
  OBVIOUS
<1>9. /\ \A q \in NodeObjs : q \notin P => node'[q] = node[q]
      /\ \A q \in P : \E e \in DagObjs : /\ dag[e].dag = None
                                         /\ \E n \in Nodes : dag[e].results[n] = q
      /\ UNCHANGED <<open, aborted, loop, flight>>
  BY <1>3, <1>8
<1> QED BY <1>4, <1>5, <1>6, <1>7, <1>9, ResetKeeps

LEMMA FillPutChild == ASSUME IndInv, FillInv, NEW c \in Callers, PutChild(c) PROVE FillInv'
<1>1. /\ phase[c] = "release" /\ Odd(Depth(c)) /\ Depth(c) \in 1..Len(stack[c]) /\ Depth(c) \in Nat
      /\ Resetting(c) = stack[c][Depth(c)] /\ Depth(c) > 1
  BY Top DEF PutChild, InDag, Resetting
<1>2. PICK o, p, e : o = Resetting(c) /\ p = stack[c][Depth(c) - 1] /\ e = stack[c][Depth(c) - 1 - 1]
  OBVIOUS
<1>3. /\ node' = [node EXCEPT ![p].sub = None]
      /\ UNCHANGED <<dag, open, aborted, loop, flight, result>>
  BY <1>2 DEF PutChild, loops
<1>4. o \in DagObjs /\ dag[o].dag = None
  BY <1>1, <1>2, ClearedBelow
<1>5. /\ Depth(c) - 1 \in 1..Len(stack[c]) /\ ~Odd(Depth(c) - 1) /\ Depth(c) - 1 \in Nat
  <2>1. Depth(c) - 1 \in 1..Len(stack[c]) /\ Depth(c) - 1 \in Nat
        /\ (Depth(c) - 1) + 1 = Depth(c)
    BY <1>1, Top
  <2> QED BY <1>1, <2>1, Parity
<1>6. /\ p \in NodeObjs /\ e \in DagObjs /\ Depth(c) - 1 > 1
      /\ \E n \in Nodes : dag[e].results[n] = p
  BY <1>2, <1>5, OnStack
<1>7. dag[e].dag = None
  <2>1. Depth(c) - 1 - 1 \in 1..Len(stack[c]) /\ Depth(c) - 1 - 1 \in Nat
        /\ (Depth(c) - 1 - 1) + 1 = Depth(c) - 1
    BY <1>5, <1>6, Top
  <2>2. Odd(Depth(c) - 1 - 1)
    BY <1>5, <2>1, Parity
  <2> QED BY <1>2, <2>1, <2>2, ClearedBelow
<1>8. \A q \in NodeObjs : /\ q # p => node'[q] = node[q]
                          /\ node'[q].sub = node[q].sub \/ node'[q].sub = None
  BY <1>3, <1>6 DEF IndInv, ObjType, NodeResults
<1>9. \A x \in DagObjs : HeldDag(x)' => HeldDag(x)
  <2>1. \A x \in DagObjs : x # None
    BY Objects
  <2> QED BY <1>3, <1>8, <2>1 DEF HeldDag
<1>10. PICK P : P = {p}
  OBVIOUS
<1>11. /\ \A q \in NodeObjs : q \notin P => node'[q] = node[q]
       /\ \A q \in P : \E x \in DagObjs : /\ dag[x].dag = None
                                          /\ \E m \in Nodes : dag[x].results[m] = q
       /\ UNCHANGED <<open, aborted, loop, flight>>
  BY <1>3, <1>6, <1>7, <1>8, <1>10
<1>12. dag'[o].dag = None /\ \A x \in DagObjs : x # o => dag'[x] = dag[x]
  BY <1>3, <1>4
<1> QED BY <1>4, <1>9, <1>11, <1>12, ResetKeeps

LEMMA FillPutRoot == ASSUME IndInv, FillInv, NEW c \in Callers, PutRoot(c) PROVE FillInv'
<1>1. /\ phase[c] = "release" /\ Odd(Depth(c)) /\ Depth(c) \in 1..Len(stack[c])
      /\ Resetting(c) = stack[c][Depth(c)]
  BY Top DEF PutRoot, InDag, Resetting
<1>2. PICK o : o = Resetting(c)
  OBVIOUS
<1>3. UNCHANGED <<node, dag, open, aborted, loop, flight>> /\ result' = [result EXCEPT ![c] = None]
  BY DEF PutRoot, loops, objects
<1>4. o \in DagObjs /\ dag[o].dag = None
  BY <1>1, <1>2, ClearedBelow
<1>5. \A e \in DagObjs : HeldDag(e)' => HeldDag(e)
  <2>1. \A e \in DagObjs : e # None
    BY Objects
  <2>2. \A d \in Callers : result'[d] = result[d] \/ result'[d] = None
    BY <1>3 DEF IndInv, CallType
  <2> QED BY <1>3, <2>1, <2>2 DEF HeldDag
<1>6. PICK P : P = {}
  OBVIOUS
<1>7. /\ \A q \in NodeObjs : q \notin P => node'[q] = node[q]
      /\ \A q \in P : \E x \in DagObjs : /\ dag[x].dag = None
                                         /\ \E m \in Nodes : dag[x].results[m] = q
      /\ UNCHANGED <<open, aborted, loop, flight>>
      /\ dag'[o].dag = None /\ \A e \in DagObjs : e # o => dag'[e] = dag[e]
  BY <1>3, <1>4, <1>6
<1> QED BY <1>4, <1>5, <1>7, ResetKeeps

-----------------------------------------------------------------------------
(***************************************************************************)
(* A step that records a result of node n in x, and nothing else.          *)
(***************************************************************************)
Gets(x, n) ==
    /\ dag'[x].dag = dag[x].dag /\ dag'[x].status = dag[x].status
    /\ NodesOf(x)' = NodesOf(x) /\ Reported(x)' = Reported(x) \cup {n}
    /\ HasResult(x, n)'
    /\ \A m \in Nodes : m # n => /\ HasResult(x, m)' <=> HasResult(x, m)
                                 /\ HasResult(x, m) => Result(x, m)' = Result(x, m)

LEMMA RecordFacts ==
    ASSUME IndInv, NEW x \in DagObjs, NEW n \in Nodes, NEW p \in NodeObjs,
           dag' = Recorded(x, n, p), \A q \in NodeObjs : q # p => node'[q] = node[q],
           \A o \in DagObjs : \A m \in Nodes : dag[o].results[m] # p
    PROVE  Gets(x, n) /\ Result(x, n)' = node'[p] /\ \A o \in DagObjs : o # x => Same(o)
<1>1. /\ \A o \in DagObjs : dag'[o].status = dag[o].status /\ dag'[o].dag = dag[o].dag
      /\ \A o \in DagObjs : o # x => dag'[o] = dag[o]
      /\ dag'[x].results[n] = p
      /\ \A m \in Nodes : m # n => dag'[x].results[m] = dag[x].results[m]
  BY RecordedTable DEF IndInv
<1>2. \A o \in DagObjs : \A m \in Nodes :
         dag[o].results[m] # None => node'[dag[o].results[m]] = node[dag[o].results[m]]
  BY DEF IndInv, ObjType, DagResults
<1>3. p # None
  BY Objects
<1>4. HasResult(x, n)' /\ Result(x, n)' = node'[p]
  BY <1>1, <1>3 DEF HasResult, Result
<1>5. ASSUME NEW m \in Nodes, m # n
      PROVE  /\ HasResult(x, m)' <=> HasResult(x, m)
             /\ HasResult(x, m) => Result(x, m)' = Result(x, m)
  BY <1>1, <1>2, <1>5 DEF HasResult, Result
<1>6. NodesOf(x)' = NodesOf(x)
  BY <1>1 DEF NodesOf
<1>7. Reported(x)' = Reported(x) \cup {n}
  BY <1>4, <1>5 DEF Reported
<1>8. \A o \in DagObjs : o # x => Same(o)
  BY <1>1, <1>2 DEF Same, HasResult, Result
<1> QED BY <1>1, <1>4, <1>5, <1>6, <1>7, <1>8 DEF Gets

(***************************************************************************)
(* A node that a worker may have.                                          *)
(***************************************************************************)
Worked(o, n) ==
    /\ loop[o].skip = {} /\ n \in NodesOf(o)
    /\ n \in Busy(o) \/ (o \notin aborted /\ n \in Ready(o))

LEMMA WorkedFacts ==
    ASSUME NEW o, Working(o), NEW n, Worked(o, n)
    PROVE  /\ Decided(o, n, Busy(o)) /\ n \in Nodes
           /\ o \notin aborted => ~HasResult(o, n)
           /\ \A m \in Nodes : ~LeavesOut(o, m, n)
           /\ \A m \in Nodes : Decided(o, m, Busy(o)) /\ n \in Deps[m] => HasResult(o, n) /\ n \notin Busy(o)
<1>1. n \in Nodes
  BY DEF Worked, NodesOf
<1>2. o \notin aborted => ~HasResult(o, n)
  BY DEF Worked, Working, Ready, Unresolved
<1>3. Decided(o, n, Busy(o))
  BY DEF Worked, Working, Ready, Decided
<1>4. ASSUME NEW m \in Nodes, LeavesOut(o, m, n) PROVE FALSE
  <2>1. n \notin Busy(o) /\ HasResult(o, n)
    BY <1>1, <1>4 DEF Working, Worked, SkippedIn
  <2> QED BY <1>2, <2>1 DEF Worked
<1>5. \A m \in Nodes : Decided(o, m, Busy(o)) /\ n \in Deps[m] => HasResult(o, n) /\ n \notin Busy(o)
  BY DEF Decided
<1> QED BY <1>1, <1>2, <1>3, <1>4, <1>5

LEMMA InBusy == \A o : \A n \in NodesOf(o) : n \in Busy(o) \/ n \in Reported(o) \/ n \in Unresolved(o)
BY DEF Busy, InFlightOf, Reported, Unresolved, InFlight, NodesOf

(***************************************************************************)
(* The loop receives the result of a node.                                 *)
(***************************************************************************)
LEMMA WorkingAfter ==
    ASSUME NEW x, Working(x), NEW n, Worked(x, n), Gets(x, n),
           Busy(x)' = Busy(x) \ {n},
           (loop'[x].taken \cup loop'[x].heap) \cap InFlightOf(x)' = {},
           x \in aborted' <=> x \in aborted,
           x \notin aborted => loop'[x].heap = {} /\ loop'[x].late = 0,
           loop'[x].skip \subseteq Unresolved(x), \A m \in loop'[x].skip : n \in Deps[m],
           Result(x, n)'.route >= 0 => loop'[x].skip = Unselected(x, n, Result(x, n)'.route)
    PROVE  Working(x)'
<1>1. /\ Decided(x, n, Busy(x)) /\ n \in Nodes
      /\ x \notin aborted => ~HasResult(x, n)
      /\ \A m \in Nodes : ~LeavesOut(x, m, n)
      /\ \A m \in Nodes : Decided(x, m, Busy(x)) /\ n \in Deps[m] => HasResult(x, n) /\ n \notin Busy(x)
  BY WorkedFacts
<1>2. \A m \in Nodes : Deps[m] \in SUBSET Nodes
  BY ResultsAssumption DEF ResultsAssumption
<1>3. \A m \in Nodes : Decided(x, m, Busy(x)) => Decided(x, m, Busy(x))'
  BY <1>1, <1>2 DEF Decided, Gets
<1>4. loop'[x].skip \subseteq Unresolved(x) /\ \A m \in loop'[x].skip : n \in Deps[m]
  OBVIOUS
<1>5. /\ Busy(x) \subseteq NodesOf(x) /\ NodesOf(x) \subseteq Nodes /\ Reported(x) \subseteq Nodes
      /\ Unresolved(x) \subseteq NodesOf(x)
  BY DEF NodesOf, Reported, Unresolved, Working
<1>6. \A m \in Nodes : n \in Deps[m] => m \notin Busy(x)'
  <2>1. \A m \in Busy(x) : Decided(x, m, Busy(x))
    BY DEF Working
  <2> QED BY <1>1, <1>5, <2>1 DEF Worked
<1>7. \A m \in Reported(x)' : SkippedIn(x, m)' \/ Decided(x, m, Busy(x))'
  <2>1. \A m \in Reported(x) : m # n /\ SkippedIn(x, m) => SkippedIn(x, m)'
    BY <1>5 DEF SkippedIn, Gets
  <2>2. \A m \in Reported(x) : SkippedIn(x, m) \/ Decided(x, m, Busy(x))
    BY DEF Working
  <2> QED BY <1>1, <1>3, <1>5, <2>1, <2>2 DEF Gets
<1>8. ASSUME NEW k \in Nodes, NEW m \in Nodes, LeavesOut(x, k, m)'
      PROVE  m \notin Busy(x)' /\ (m \in loop'[x].skip \/ SkippedIn(x, m)')
  <2>1. CASE k # n
    <3>1. LeavesOut(x, k, m)
      BY <1>8, <2>1 DEF LeavesOut, Gets
    <3>2. m # n /\ m \notin Busy(x) /\ SkippedIn(x, m)
      BY <1>1, <3>1 DEF Working, Worked
    <3> QED BY <3>2 DEF SkippedIn, Gets
  <2>2. CASE k = n
    <3>1. /\ Result(x, n)'.route >= 0 /\ m \in NodesOf(x) /\ n \in Deps[m]
          /\ m \notin RouteMap[n][Result(x, n)'.route]
      BY <1>8, <2>2 DEF LeavesOut, Gets
    <3>2. m # n
      BY <1>1, <3>1 DEF Worked, Decided
    <3>3. m \notin Busy(x)' /\ m \notin Busy(x)
      BY <1>6, <3>1, <3>2
    <3>4. CASE m \in Reported(x)
      <4>1. SkippedIn(x, m)
        BY <1>1, <3>1, <3>4 DEF Working, Worked
      <4> QED BY <3>2, <3>3, <4>1 DEF SkippedIn, Gets
    <3>5. CASE m \notin Reported(x)
      <4>1. m \in Unresolved(x)
        BY <3>1, <3>3, <3>5, InBusy
      <4>2. x \notin aborted
        BY <3>1, <3>3, <3>5 DEF Working, Worked
      <4> QED BY <3>1, <3>3, <4>1, <4>2 DEF Unselected
    <3> QED BY <3>4, <3>5
  <2> QED BY <2>1, <2>2
<1>9. \A m \in Busy(x)' : Decided(x, m, Busy(x))'
  BY <1>3, <1>5 DEF Working
<1>10. Busy(x)' \cup loop'[x].skip \subseteq NodesOf(x)'
  BY <1>4, <1>5 DEF Gets
<1>11. x \notin aborted' => \A m \in Busy(x)' : ~HasResult(x, m)' /\ m \notin loop'[x].skip
  BY <1>4, <1>5, <1>6 DEF Working, Gets
<1>12. x \in aborted' => NodesOf(x)' \subseteq Reported(x)' \cup loop'[x].skip \cup Busy(x)'
  BY DEF Working, Worked, Gets
<1>13. dag'[x].dag # None
  BY DEF Working, Gets
<1> QED BY <1>7, <1>8, <1>9, <1>10, <1>11, <1>12, <1>13 DEF Working

(***************************************************************************)
(* The loop skips a node.                                                  *)
(***************************************************************************)
LEMMA WorkingSkipped ==
    ASSUME NEW x, Working(x), NEW n \in loop[x].skip, Gets(x, n),
           Result(x, n)'.status = "Skipped", Result(x, n)'.route = -1,
           Busy(x)' = Busy(x), loop'[x].skip = loop[x].skip \ {n},
           (loop'[x].taken \cup loop'[x].heap) \cap InFlightOf(x)' = {},
           loop'[x].heap = loop[x].heap, loop'[x].late = loop[x].late,
           x \in aborted' <=> x \in aborted
    PROVE  Working(x)'
<1>1. n \in Nodes /\ n \in NodesOf(x) /\ NodesOf(x) \subseteq Nodes /\ Reported(x) \subseteq Nodes
  BY DEF Working, NodesOf, Reported
<1>2. \A m \in Nodes : Deps[m] \in SUBSET Nodes
  BY ResultsAssumption DEF ResultsAssumption
<1>3. \A m \in Nodes : Decided(x, m, Busy(x)) => Decided(x, m, Busy(x))'
  BY <1>2 DEF Decided, Gets
<1>4. SkippedIn(x, n)' /\ \A m \in Nodes : SkippedIn(x, m) => SkippedIn(x, m)'
  BY DEF SkippedIn, Gets
<1>5. \A m \in Reported(x)' : SkippedIn(x, m)' \/ Decided(x, m, Busy(x))'
  BY <1>1, <1>3, <1>4 DEF Working, Gets
<1>6. ASSUME NEW k \in Nodes, NEW m \in Nodes, LeavesOut(x, k, m)'
      PROVE  m \notin Busy(x)' /\ (m \in loop'[x].skip \/ SkippedIn(x, m)')
  <2>1. k # n
    BY <1>6 DEF LeavesOut
  <2>2. LeavesOut(x, k, m)
    BY <1>6, <2>1 DEF LeavesOut, Gets
  <2> QED BY <1>4, <2>2 DEF Working
<1>7. \A m \in Busy(x)' : Decided(x, m, Busy(x))'
  BY <1>1, <1>3 DEF Working
<1>8. Busy(x)' \cup loop'[x].skip \subseteq NodesOf(x)'
  BY DEF Working, Gets
<1>9. x \notin aborted' => /\ loop'[x].heap = {} /\ loop'[x].late = 0
                           /\ \A m \in Busy(x)' : ~HasResult(x, m)' /\ m \notin loop'[x].skip
  BY <1>1 DEF Working, Gets
<1>10. x \in aborted' => NodesOf(x)' \subseteq Reported(x)' \cup loop'[x].skip \cup Busy(x)'
  BY DEF Working, Gets
<1>11. dag'[x].dag # None
  BY DEF Working, Gets
<1> QED BY <1>5, <1>6, <1>7, <1>8, <1>9, <1>10, <1>11 DEF Working

(***************************************************************************)
(* Nodes that are ready become busy: workers take them, or an abort leaves *)
(* them in the heap.                                                       *)
(***************************************************************************)
LEMMA BusyGrows ==
    ASSUME NEW o, Working(o), o \notin aborted, NEW N, N \subseteq Ready(o) \ loop[o].skip,
           NEW B, B = Busy(o) \cup N
    PROVE  /\ B \subseteq NodesOf(o)
           /\ \A m \in B : Decided(o, m, B) /\ ~HasResult(o, m) /\ m \notin loop[o].skip
           /\ \A m \in Reported(o) : SkippedIn(o, m) \/ Decided(o, m, B)
           /\ \A n, m \in Nodes : LeavesOut(o, n, m) => m \notin B
<1>1. \A m \in N : m \in NodesOf(o) /\ ~HasResult(o, m) /\ m \notin loop[o].skip
  BY DEF Ready, Unresolved
<1>2. \A m \in B : ~HasResult(o, m) /\ m \notin loop[o].skip
  BY <1>1 DEF Working
<1>3. \A m \in B : Decided(o, m, B)
  <2>1. \A m \in N : Decided(o, m, B)
    BY <1>2 DEF Ready, Decided
  <2>2. \A m \in Busy(o) : Decided(o, m, B)
    BY <1>1 DEF Working, Decided
  <2> QED BY <2>1, <2>2
<1>4. \A m \in Reported(o) : SkippedIn(o, m) \/ Decided(o, m, B)
  BY <1>1 DEF Working, Decided
<1>5. \A n, m \in Nodes : LeavesOut(o, n, m) => m \notin B
  BY <1>1 DEF Working, SkippedIn
<1> QED BY <1>1, <1>2, <1>3, <1>4, <1>5 DEF Working

LEMMA WorkingTaken ==
    ASSUME NEW o, Working(o), Same(o), o \notin aborted, o \notin aborted',
           NEW N, N \subseteq Ready(o) \ loop[o].skip, Busy(o)' = Busy(o) \cup N,
           (loop'[o].taken \cup loop'[o].heap) \cap InFlightOf(o)' = {},
           loop'[o].heap = {}, loop'[o].late = 0, loop'[o].skip = loop[o].skip
    PROVE  Working(o)'
<1>1. /\ Busy(o)' \subseteq NodesOf(o)
      /\ \A m \in Busy(o)' : /\ Decided(o, m, Busy(o)') /\ ~HasResult(o, m)
                             /\ m \notin loop[o].skip
      /\ \A m \in Reported(o) : SkippedIn(o, m) \/ Decided(o, m, Busy(o)')
      /\ \A n, m \in Nodes : LeavesOut(o, n, m) => m \notin Busy(o)'
  BY BusyGrows
<1>2. NodesOf(o) \subseteq Nodes /\ Reported(o) \subseteq Nodes
  BY DEF NodesOf, Reported
<1>3. \A m \in Nodes : Decided(o, m, Busy(o)') => Decided(o, m, Busy(o))'
  <2>1. \A m \in Nodes : Deps[m] \in SUBSET Nodes
    BY ResultsAssumption DEF ResultsAssumption
  <2> QED BY <2>1, SameFacts DEF Decided
<1>4. \A n, m \in Nodes : LeavesOut(o, n, m)' => m \in loop'[o].skip \/ SkippedIn(o, m)'
  BY SameFacts DEF Working
<1>5. dag'[o].dag # None /\ Busy(o)' \cup loop'[o].skip \subseteq NodesOf(o)'
  BY <1>1, SameFacts DEF Working, Same
<1> QED BY <1>1, <1>2, <1>3, <1>4, <1>5, SameFacts, ZenonT(60) DEF Working

(***************************************************************************)
(* After an abort nodes are moved from the heap to the workers.            *)
(***************************************************************************)
LEMMA WorkingMoved ==
    ASSUME NEW o, Working(o), Same(o), o \in aborted, o \in aborted', Busy(o)' = Busy(o),
           (loop'[o].taken \cup loop'[o].heap) \cap InFlightOf(o)' = {},
           loop'[o].skip = loop[o].skip
    PROVE  Working(o)'
<1>1. NodesOf(o) \subseteq Nodes /\ Reported(o) \subseteq Nodes /\ Busy(o) \subseteq Nodes
  BY DEF NodesOf, Reported, Working
<1>2. \A m \in Nodes : Decided(o, m, Busy(o)) => Decided(o, m, Busy(o))'
  <2>1. \A m \in Nodes : Deps[m] \in SUBSET Nodes
    BY ResultsAssumption DEF ResultsAssumption
  <2> QED BY <2>1, SameFacts DEF Decided
<1>3. dag'[o].dag # None
  BY DEF Working, Same
<1> QED BY <1>1, <1>2, <1>3, SameFacts DEF Working

(***************************************************************************)
(* The abort.                                                              *)
(***************************************************************************)
LEMMA WorkingAborted ==
    ASSUME NEW o, Working(o), Same(o), o \notin aborted, o \in aborted', loop[o].skip = {},
           NEW N, N \subseteq Ready(o), Busy(o)' = Busy(o) \cup N,
           (loop'[o].taken \cup loop'[o].heap) \cap InFlightOf(o)' = {},
           loop'[o].skip \subseteq Unresolved(o),
           Unresolved(o) \subseteq loop'[o].skip \cup Busy(o)'
    PROVE  Working(o)'
<1>1. /\ Busy(o)' \subseteq NodesOf(o)
      /\ \A m \in Busy(o)' : Decided(o, m, Busy(o)')
      /\ \A m \in Reported(o) : SkippedIn(o, m) \/ Decided(o, m, Busy(o)')
      /\ \A n, m \in Nodes : LeavesOut(o, n, m) => m \notin Busy(o)'
  BY BusyGrows
<1>2. NodesOf(o) \subseteq Nodes /\ Reported(o) \subseteq Nodes /\ Unresolved(o) \subseteq NodesOf(o)
  BY DEF NodesOf, Reported, Unresolved
<1>3. \A m \in Nodes : Decided(o, m, Busy(o)') => Decided(o, m, Busy(o))'
  <2>1. \A m \in Nodes : Deps[m] \in SUBSET Nodes
    BY ResultsAssumption DEF ResultsAssumption
  <2> QED BY <2>1, SameFacts DEF Decided
<1>4. \A n, m \in Nodes : LeavesOut(o, n, m)' => SkippedIn(o, m)'
  BY SameFacts DEF Working
<1>5. dag'[o].dag # None /\ Busy(o)' \cup loop'[o].skip \subseteq NodesOf(o)'
  BY <1>1, <1>2, SameFacts DEF Working, Same
<1>6. NodesOf(o)' \subseteq Reported(o)' \cup loop'[o].skip \cup Busy(o)'
  <2>1. NodesOf(o) \subseteq Busy(o) \cup Reported(o) \cup Unresolved(o)
    BY InBusy
  <2>2. NodesOf(o)' = NodesOf(o) /\ Reported(o)' = Reported(o)
    BY SameFacts
  <2> QED BY <2>1, <2>2
<1>7. \A m \in Busy(o)' : Decided(o, m, Busy(o))'
  BY <1>1, <1>2, <1>3
<1>8. \A m \in Reported(o)' : SkippedIn(o, m)' \/ Decided(o, m, Busy(o))'
  <2>1. Reported(o)' = Reported(o) /\ \A m \in Nodes : SkippedIn(o, m)' <=> SkippedIn(o, m)
    BY SameFacts
  <2>2. ASSUME NEW m \in Reported(o) PROVE SkippedIn(o, m)' \/ Decided(o, m, Busy(o))'
    <3>1. m \in Nodes
      BY <1>2
    <3> QED BY <1>1, <1>3, <2>1, <3>1
  <2> QED BY <2>1, <2>2
<1>9. \A n, m \in Nodes : LeavesOut(o, n, m)' =>
         m \notin Busy(o)' /\ (m \in loop'[o].skip \/ SkippedIn(o, m)')
  BY <1>1, <1>4, SameFacts
<1> QED BY <1>5, <1>6, <1>7, <1>8, <1>9 DEF Working

-----------------------------------------------------------------------------
(***************************************************************************)
(* A step that records a result of node n in x, if x is a DagResult.       *)
(***************************************************************************)
LEMMA FilledAfter ==
    ASSUME NEW x, Filled(x), NEW n \in NodesOf(x), Gets(x, n), x \in open', RightResult(x, n)',
           \A m \in Reported(x) : Result(x, m).sub # None /\ dag[Result(x, m).sub].dag # None
                                  /\ Result(x, m).sub \notin open
              => dag'[Result(x, m).sub].dag # None /\ Result(x, m).sub \notin open'
    PROVE  Filled(x)'
<1>1. ASSUME NEW m \in Reported(x)' PROVE RightResult(x, m)'
  <2>1. CASE m = n
    BY <2>1
  <2>2. CASE m # n
    <3>1. m \in Reported(x) /\ m \in Nodes /\ HasResult(x, m)
      BY <2>2 DEF Gets, Reported
    <3>2. Result(x, m)' = Result(x, m)
      BY <2>2, <3>1 DEF Gets
    <3> QED BY <3>1, <3>2 DEF Filled, RightResult
  <2> QED BY <2>1, <2>2
<1> QED BY <1>1 DEF Filled, Gets

LEMMA FillSent ==
    ASSUME IndInv, FillInv, NEW x, NEW n,
           \A o \in DagObjs : dag'[o].dag = dag[o].dag /\ (o # x => Same(o)),
           x \in DagObjs => /\ x \in open /\ n \in NodesOf(x) /\ Gets(x, n) /\ RightResult(x, n)'
                            /\ x \in open' => Working(x)',
           open' \subseteq open,
           \A o \in open' : o # x => /\ loop'[o] = loop[o] /\ InFlightOf(o)' = InFlightOf(o)
                                     /\ o \in aborted' <=> o \in aborted,
           \A o \in DagObjs : o \notin open' => loop'[o] = NewLoop,
           \A o \in DagObjs : HeldDag(o)' => HeldDag(o) /\ (o \in open' <=> o \in open),
           FlightsRight'
    PROVE  FillInv'
<1>1. ASSUME NEW o \in open' PROVE Working(o)'
  <2>1. o \in DagObjs /\ o \in open /\ Working(o)
    BY NotFilled DEF FillInv
  <2>2. CASE o = x
    BY <2>1, <2>2
  <2>3. CASE o # x
    BY <2>1, <2>3, WorkingKept
  <2> QED BY <2>2, <2>3
<1>2. ASSUME NEW o \in DagObjs, Live(o)' PROVE Filled(o)'
  <2>1. Live(o) /\ Filled(o) /\ (o \in open' <=> o \in open)
    BY <1>2 DEF Live, FillInv
  <2>2. ASSUME NEW m \in Reported(o), Result(o, m).sub # None, dag[Result(o, m).sub].dag # None,
               Result(o, m).sub \notin open
        PROVE  dag'[Result(o, m).sub].dag # None /\ Result(o, m).sub \notin open'
    <3>1. Result(o, m).sub \in DagObjs
      BY <2>2, ReportedType DEF IndInv
    <3> QED BY <2>2, <3>1
  <2>3. CASE o = x
    BY <2>1, <2>2, <2>3, FilledAfter
  <2>4. CASE o # x
    <3>1. Same(o)
      BY <2>4
    <3> QED BY <2>1, <2>2, <3>1, FilledKept
  <2> QED BY <2>3, <2>4
<1> QED BY <1>1, <1>2 DEF FillInv

LEMMA DoneFacts ==
    ASSUME LoopType, NEW o \in DagObjs, NEW n
    PROVE  /\ \A y \in DagObjs : y # o => Done(o, n)[y] = loop[y]
           /\ Done(o, n)[o].taken = loop[o].taken \ {n} /\ Done(o, n)[o].heap = loop[o].heap \ {n}
           /\ Done(o, n)[o].skip = loop[o].skip
           /\ Done(o, n)[o].late = IF HasResult(o, n) THEN loop[o].late + 1 ELSE loop[o].late
           /\ DOMAIN Done(o, n) = DagObjs /\ Done(o, n)[o] \in LoopState
<1>1. loop \in [DagObjs -> LoopState]
  BY DEF LoopType
<1>2. loop[o] \in LoopState /\ loop[o].late \in Nat
  BY <1>1 DEF LoopState
<1>3. PICK late : late = IF HasResult(o, n) THEN loop[o].late + 1 ELSE loop[o].late
  OBVIOUS
<1>4. Done(o, n) = [loop EXCEPT ![o].late = late, ![o].taken = loop[o].taken \ {n},
                                ![o].heap = loop[o].heap \ {n}]
  BY <1>1, <1>2, <1>3 DEF Done
<1>5. late \in Nat
  BY <1>2, <1>3
<1>6. Done(o, n)[o] = [late |-> late, skip |-> loop[o].skip, taken |-> loop[o].taken \ {n},
                       heap |-> loop[o].heap \ {n}]
  BY <1>1, <1>2, <1>4 DEF LoopState
<1>7. Done(o, n)[o] \in LoopState
  BY <1>2, <1>5, <1>6 DEF LoopState
<1>8. DOMAIN Done(o, n) = DagObjs /\ \A y \in DagObjs : y # o => Done(o, n)[y] = loop[y]
  BY <1>1, <1>4
<1> QED BY <1>3, <1>6, <1>7, <1>8

(***************************************************************************)
(* The loop of o executes n, or hears of it: Done, and perhaps a route.    *)
(***************************************************************************)
LEMMA WorkingDone ==
    ASSUME IndInv, FillInv, NEW o \in open, NEW n, Worked(o, n), Gets(o, n),
           NEW S, loop'[o] = [Done(o, n)[o] EXCEPT !.skip = S],
           InFlightOf(o)' = InFlightOf(o) \ {n}, o \in aborted' <=> o \in aborted,
           S \subseteq Unresolved(o), \A m \in S : n \in Deps[m],
           Result(o, n)'.route >= 0 => S = Unselected(o, n, Result(o, n)'.route)
    PROVE  Working(o)'
<1>1. o \in DagObjs /\ Working(o)
  BY NotFilled DEF FillInv
<1>2. /\ loop'[o].taken = loop[o].taken \ {n} /\ loop'[o].heap = loop[o].heap \ {n}
      /\ loop'[o].late = IF HasResult(o, n) THEN loop[o].late + 1 ELSE loop[o].late
      /\ loop'[o].skip = S
  BY <1>1, DoneFacts DEF IndInv, LoopState
<1>3. Busy(o)' = Busy(o) \ {n}
  BY <1>2 DEF Busy
<1>4. (loop'[o].taken \cup loop'[o].heap) \cap InFlightOf(o)' = {}
  BY <1>1, <1>2 DEF Working
<1>5. o \notin aborted => loop'[o].heap = {} /\ loop'[o].late = 0
  <2>1. o \notin aborted => ~HasResult(o, n)
    BY <1>1, WorkedFacts
  <2> QED BY <1>1, <1>2, <2>1 DEF Working
<1> QED BY <1>1, <1>2, <1>3, <1>4, <1>5, WorkingAfter

LEMMA WorkedIfRunnable ==
    ASSUME IndInv, FillInv, NEW o \in open, NEW n \in NodesOf(o), Runnable(o, n)
    PROVE  Worked(o, n) /\ n \notin InFlightOf(o)
<1>1. Working(o) /\ loop[o].skip = {}
  BY DEF FillInv, Runnable, Looping
<1>2. CASE n \in loop[o].taken \cup loop[o].heap
  BY <1>1, <1>2 DEF Worked, Working, Busy
<1>3. CASE n \notin loop[o].taken \cup loop[o].heap
  <2>1. n \in Ready(o) /\ o \notin aborted
    BY <1>3 DEF Runnable, Offers
  <2>2. n \notin InFlightOf(o)
    BY <2>1 DEF Ready, Unresolved, InFlight, InFlightOf
  <2> QED BY <1>1, <2>1, <2>2 DEF Worked
<1> QED BY <1>2, <1>3

LEMMA FlightsKept ==
    ASSUME IndInv, FillInv, flight' = flight, NEW p \in NodeObjs, ~HeldNode(p),
           \A q \in NodeObjs : q # p => node'[q] = node[q],
           \A o \in DagObjs : dag'[o].dag = dag[o].dag
    PROVE  FlightsRight' /\ \A o : InFlightOf(o)' = InFlightOf(o)
<1>1. \A f \in flight : f.nr \in NodeObjs /\ f.child \in DagObjs /\ f.nr # p
  BY DEF IndInv, LoopType, HeldNode
<1>2. FlightsRight'
  BY <1>1 DEF FillInv, FlightsRight
<1> QED BY <1>2 DEF InFlightOf

(***************************************************************************)
(* One step of a loop or of a goroutine each.                              *)
(***************************************************************************)
LEMMA FreshNode ==
    ASSUME IndInv, NEW p \in FreeNodes, acquireNodeResult(p)
    PROVE  /\ p \in NodeObjs /\ node[p] = NewNode /\ ~HeldNode(p)
           /\ \A o \in DagObjs : \A m \in Nodes : dag[o].results[m] # p
BY AcquireNode DEF IndInv, NodesIdle, HeldNode

RecordsOwn(o, n, p, S) ==
    /\ loop' = [Done(o, n) EXCEPT ![o].skip = S]
    /\ S \subseteq Unresolved(o) /\ \A m \in S : n \in Deps[m]
    /\ node'[p].sub = None
    /\ node'[p].route >= 0 => /\ node'[p].status = "Success" /\ n \in DOMAIN RouteMap
                              /\ node'[p].route \in DOMAIN RouteMap[n]
                              /\ S = Unselected(o, n, node'[p].route)
    /\ \A q \in NodeObjs : q # p => node'[q] = node[q]

LEMMA FillExecute ==
    ASSUME IndInv, FillInv, NEW o \in open, NEW n \in NodesOf(o), NEW p \in FreeNodes, Execute(o, n, p)
    PROVE  FillInv'
<1>1. o \in DagObjs /\ n \in Nodes
  BY NotFilled DEF NodesOf
<1>2. /\ Runnable(o, n) /\ acquireNodeResult(p) /\ dag' = Recorded(o, n, p)
      /\ UNCHANGED <<open, aborted, flight, result>>
  BY DEF Execute, callers
<1>3. /\ p \in NodeObjs /\ node[p] = NewNode /\ ~HeldNode(p)
      /\ \A e \in DagObjs : \A m \in Nodes : dag[e].results[m] # p
  BY <1>2, FreshNode
<1>4. PICK S : RecordsOwn(o, n, p, S)
  <2>1. node \in [NodeObjs -> NodeResults] /\ node[p] \in NodeResults
        /\ node[p].route = -1 /\ node[p].sub = None
    BY <1>3 DEF IndInv, ObjType, NewNode
  <2>2. Done(o, n) = [Done(o, n) EXCEPT ![o].skip = {}]
    <3>1. /\ Done(o, n)[o].skip = {} /\ Done(o, n)[o] \in LoopState
          /\ Done(o, n) \in [DagObjs -> LoopState]
      BY <1>1, <1>2, DoneFacts, DoneType DEF IndInv, Runnable, Looping
    <3>2. PICK D : D = Done(o, n)
      OBVIOUS
    <3>3. [D[o] EXCEPT !.skip = {}] = D[o]
      BY <3>1, <3>2 DEF LoopState
    <3>4. [D EXCEPT ![o] = [D[o] EXCEPT !.skip = {}]] = D
      BY <3>1, <3>2, <3>3
    <3> QED BY <3>2, <3>4
  <2>3. ASSUME NEW r, node' = [node EXCEPT ![p] = r], loop' = Done(o, n), r.route = -1, r.sub = None
        PROVE  RecordsOwn(o, n, p, {})
    BY <1>3, <2>1, <2>2, <2>3 DEF RecordsOwn
  <2>4. CASE node' = [node EXCEPT ![p].status = "Failed"] /\ loop' = Done(o, n)
    <3>1. PICK r : r = [node[p] EXCEPT !.status = "Failed"]
      OBVIOUS
    <3>2. r.route = -1 /\ r.sub = None
      BY <2>1, <3>1 DEF NodeResults
    <3> QED BY <2>3, <2>4, <3>1, <3>2
  <2>5. CASE /\ node' = [node EXCEPT ![p].status = "Skipped", ![p].skip = "condition"]
             /\ loop' = Done(o, n)
    <3>1. PICK r : r = [node[p] EXCEPT !.status = "Skipped", !.skip = "condition"]
      OBVIOUS
    <3>2. r.route = -1 /\ r.sub = None
      BY <2>1, <3>1 DEF NodeResults
    <3>3. node' = [node EXCEPT ![p] = r]
      BY <1>3, <2>1, <2>5, <3>1
    <3> QED BY <2>3, <2>5, <3>2, <3>3
  <2>6. CASE node' = [node EXCEPT ![p].status = "Success"] /\ loop' = Done(o, n)
    <3>1. PICK r : r = [node[p] EXCEPT !.status = "Success"]
      OBVIOUS
    <3>2. r.route = -1 /\ r.sub = None
      BY <2>1, <3>1 DEF NodeResults
    <3> QED BY <2>3, <2>6, <3>1, <3>2
  <2>7. ASSUME n \in DOMAIN RouteMap, NEW i \in DOMAIN RouteMap[n],
               node' = [node EXCEPT ![p].status = "Success", ![p].route = i],
               loop' = [Done(o, n) EXCEPT ![o].skip = Unselected(o, n, i)]
        PROVE  RecordsOwn(o, n, p, Unselected(o, n, i))
    <3>1. node'[p] = [node[p] EXCEPT !.status = "Success", !.route = i]
          /\ \A q \in NodeObjs : q # p => node'[q] = node[q]
      BY <1>3, <2>1, <2>7
    <3>2. node'[p].route = i /\ node'[p].status = "Success" /\ node'[p].sub = None
      BY <2>1, <3>1 DEF NodeResults
    <3>3. /\ Unselected(o, n, i) \subseteq Unresolved(o)
          /\ \A m \in Unselected(o, n, i) : n \in Deps[m]
      BY DEF Unselected
    <3> QED BY <2>7, <3>1, <3>2, <3>3 DEF RecordsOwn
  <2> QED BY <2>4, <2>5, <2>6, <2>7 DEF Execute
<1>5. Gets(o, n) /\ Result(o, n)' = node'[p] /\ \A e \in DagObjs : e # o => Same(e)
  BY <1>1, <1>2, <1>3, <1>4, RecordFacts DEF RecordsOwn
<1>6. FlightsRight' /\ InFlightOf(o)' = InFlightOf(o) /\ \A e : InFlightOf(e)' = InFlightOf(e)
  <2>1. \A e \in DagObjs : dag'[e].dag = dag[e].dag
    BY <1>5 DEF Gets, Same
  <2> QED BY <1>2, <1>3, <1>4, <2>1, FlightsKept DEF RecordsOwn
<1>7. Worked(o, n) /\ n \notin InFlightOf(o)
  BY <1>2, WorkedIfRunnable
<1>8. loop'[o] = [Done(o, n)[o] EXCEPT !.skip = S] /\ \A e \in DagObjs : e # o => loop'[e] = loop[e]
  <2>1. PICK D : D = Done(o, n)
    OBVIOUS
  <2>2. loop' = [D EXCEPT ![o] = [D[o] EXCEPT !.skip = S]] /\ DOMAIN D = DagObjs
        /\ \A e \in DagObjs : e # o => D[e] = loop[e]
    BY <1>1, <1>4, <2>1, DoneFacts DEF IndInv, RecordsOwn
  <2> QED BY <1>1, <2>1, <2>2
<1>9. Working(o)'
  <2>1. InFlightOf(o)' = InFlightOf(o) \ {n}
    BY <1>6, <1>7
  <2> QED BY <1>2, <1>4, <1>5, <1>7, <1>8, <2>1, WorkingDone DEF RecordsOwn
<1>10. RightResult(o, n)'
  BY <1>4, <1>5 DEF RightResult, RecordsOwn
<1>11. \A e \in DagObjs : dag'[e].dag = dag[e].dag /\ (e # o => Same(e))
  BY <1>5 DEF Gets, Same
<1>12. \A e \in DagObjs : e \notin open' => loop'[e] = NewLoop
  BY <1>2, <1>8 DEF FillInv
<1>13. \A e \in DagObjs : HeldDag(e)' => HeldDag(e)
  <2>1. \A e \in DagObjs : e # None
    BY Objects
  <2> QED BY <1>2, <1>4, <2>1 DEF HeldDag, RecordsOwn
<1>14. \A e \in open' : e \in DagObjs
  BY <1>2, NotFilled
<1> QED BY <1>1, <1>2, <1>5, <1>6, <1>8, <1>9, <1>10, <1>11, <1>12, <1>13, <1>14, FillSent

LEMMA FillSkip ==
    ASSUME IndInv, FillInv, NEW o \in open, NEW n \in NodesOf(o), NEW p \in FreeNodes, Skip(o, n, p)
    PROVE  FillInv'
<1>1. o \in DagObjs /\ n \in Nodes /\ n \in loop[o].skip /\ Working(o)
  BY NotFilled DEF NodesOf, Skip, FillInv
<1>2. /\ acquireNodeResult(p) /\ dag' = Recorded(o, n, p)
      /\ node' = [node EXCEPT ![p].status = "Skipped",
                              ![p].skip = IF o \in aborted THEN "abort" ELSE "route"]
      /\ loop' = [loop EXCEPT ![o].skip = @ \ {n}]
      /\ UNCHANGED <<open, aborted, flight, result>>
  BY DEF Skip, callers
<1>3. /\ p \in NodeObjs /\ node[p] = NewNode /\ ~HeldNode(p)
      /\ \A e \in DagObjs : \A m \in Nodes : dag[e].results[m] # p
  BY <1>2, FreshNode
<1>4. /\ node'[p].status = "Skipped" /\ node'[p].route = -1 /\ node'[p].sub = None
      /\ \A q \in NodeObjs : q # p => node'[q] = node[q]
  <2>1. node \in [NodeObjs -> NodeResults] /\ node[p] \in NodeResults
        /\ node[p].route = -1 /\ node[p].sub = None
    BY <1>3 DEF IndInv, ObjType, NewNode
  <2>2. PICK why : why = IF o \in aborted THEN "abort" ELSE "route"
    OBVIOUS
  <2>3. node'[p] = [node[p] EXCEPT !.status = "Skipped", !.skip = why]
        /\ \A q \in NodeObjs : q # p => node'[q] = node[q]
    BY <1>2, <1>3, <2>1, <2>2
  <2> QED BY <2>1, <2>3 DEF NodeResults
<1>5. Gets(o, n) /\ Result(o, n)' = node'[p] /\ \A e \in DagObjs : e # o => Same(e)
  BY <1>1, <1>2, <1>3, <1>4, RecordFacts
<1>6. FlightsRight' /\ InFlightOf(o)' = InFlightOf(o) /\ \A e : InFlightOf(e)' = InFlightOf(e)
  <2>1. \A e \in DagObjs : dag'[e].dag = dag[e].dag
    BY <1>5 DEF Gets, Same
  <2> QED BY <1>2, <1>3, <1>4, <2>1, FlightsKept
<1>7. /\ \A e \in DagObjs : e # o => loop'[e] = loop[e]
      /\ loop'[o].skip = loop[o].skip \ {n} /\ loop'[o].late = loop[o].late
      /\ loop'[o].taken = loop[o].taken /\ loop'[o].heap = loop[o].heap
  BY <1>1, <1>2 DEF IndInv, LoopType, LoopState
<1>8. Busy(o)' = Busy(o)
  BY <1>6, <1>7 DEF Busy
<1>9. Working(o)'
  <2>1. (loop'[o].taken \cup loop'[o].heap) \cap InFlightOf(o)' = {}
    BY <1>1, <1>6, <1>7 DEF Working
  <2> QED BY <1>1, <1>2, <1>4, <1>5, <1>7, <1>8, <2>1, WorkingSkipped
<1>10. RightResult(o, n)'
  BY <1>4, <1>5 DEF RightResult
<1>11. \A e \in DagObjs : dag'[e].dag = dag[e].dag /\ (e # o => Same(e))
  BY <1>5 DEF Gets, Same
<1>12. \A e \in DagObjs : e \notin open' => loop'[e] = NewLoop
  BY <1>2, <1>7 DEF FillInv
<1>13. \A e \in DagObjs : HeldDag(e)' => HeldDag(e)
  <2>1. \A e \in DagObjs : e # None
    BY Objects
  <2> QED BY <1>2, <1>4, <2>1 DEF HeldDag
<1>14. \A e \in open' : e \in DagObjs
  BY <1>2, NotFilled
<1> QED BY <1>1, <1>2, <1>5, <1>6, <1>7, <1>9, <1>10, <1>11, <1>12, <1>13, <1>14, FillSent

(***************************************************************************)
(* The goroutine of a subflow sends: the loop that hears it has one node   *)
(* less in flight, and no other loop, but that of a child that panicked.   *)
(***************************************************************************)
LEMMA FlightsOf ==
    ASSUME IndInv, FillInv, NEW f \in flight, NEW x, flight' = Orphaned(x, flight \ {f}),
           \A g \in flight : g # f => node'[g.nr] = node[g.nr] /\ dag'[g.child].dag = dag[g.child].dag
    PROVE  /\ FlightsRight'
           /\ \A o \in DagObjs : o # x /\ o # None =>
                 InFlightOf(o)' = IF o = f.parent THEN InFlightOf(o) \ {f.node} ELSE InFlightOf(o)
<1> DEFINE sent(g) == [g EXCEPT !.parent = IF @ = x THEN None ELSE @]
<1>1. /\ \A g \in flight' : \E h \in flight \ {f} : g = sent(h)
      /\ \A h \in flight \ {f} : sent(h) \in flight'
  BY DEF Orphaned
<1>2. ASSUME NEW g \in flight
      PROVE  /\ sent(g).nr = g.nr /\ sent(g).node = g.node /\ sent(g).child = g.child
             /\ sent(g).parent = IF g.parent = x THEN None ELSE g.parent
  <2>1. g \in [nr : NodeObjs, node : Nodes, parent : open \cup {None}, child : DagObjs]
    BY DEF IndInv, LoopType
  <2> QED BY <2>1
<1> HIDE DEF sent
<1>3. \A g \in flight \ {f} : /\ node'[g.nr].route = -1 /\ node'[g.nr].sub = None
                              /\ dag'[g.child].dag # None
  BY DEF FillInv, FlightsRight
<1>4. \A g, h \in flight : g.parent # None /\ g.parent = h.parent /\ g.node = h.node => g = h
  BY DEF FillInv, FlightsRight
<1>5. FlightsRight'
  <2>1. ASSUME NEW g \in flight'
        PROVE  node'[g.nr].route = -1 /\ node'[g.nr].sub = None /\ dag'[g.child].dag # None
    <3>1. PICK h \in flight \ {f} : g = sent(h)
      BY <1>1
    <3>2. g.nr = h.nr /\ g.child = h.child
      BY <1>2, <3>1
    <3> QED BY <1>3, <3>2
  <2>2. ASSUME NEW g \in flight', NEW h \in flight', g.parent # None, g.parent = h.parent,
               g.node = h.node
        PROVE  g = h
    <3>1. PICK k \in flight \ {f} : g = sent(k)
      BY <1>1
    <3>2. PICK l \in flight \ {f} : h = sent(l)
      BY <1>1
    <3>3. k.node = l.node /\ k.parent # None /\ k.parent = l.parent
      BY <1>2, <2>2, <3>1, <3>2
    <3> QED BY <1>4, <3>1, <3>2, <3>3
  <2> QED BY <2>1, <2>2 DEF FlightsRight
<1>6. ASSUME NEW o \in DagObjs, o # x, o # None
      PROVE  InFlightOf(o)' = IF o = f.parent THEN InFlightOf(o) \ {f.node} ELSE InFlightOf(o)
  <2>1. ASSUME NEW n PROVE n \in InFlightOf(o)' <=> \E g \in flight \ {f} : g.parent = o /\ g.node = n
    <3>1. n \in InFlightOf(o)' <=> \E g \in flight' : g.parent = o /\ g.node = n
      BY DEF InFlightOf
    <3>2. ASSUME NEW g \in flight', g.parent = o, g.node = n
          PROVE  \E h \in flight \ {f} : h.parent = o /\ h.node = n
      <4>1. PICK h \in flight \ {f} : g = sent(h)
        BY <1>1
      <4> QED BY <1>2, <1>6, <3>2, <4>1
    <3>3. ASSUME NEW h \in flight \ {f}, h.parent = o, h.node = n
          PROVE  \E g \in flight' : g.parent = o /\ g.node = n
      <4>1. sent(h) \in flight'
        BY <1>1
      <4>2. sent(h).parent = o /\ sent(h).node = n
        BY <1>2, <1>6, <3>3
      <4> QED BY <4>1, <4>2
    <3> QED BY <3>1, <3>2, <3>3
  <2>2. \A n : n \in InFlightOf(o) <=> \E g \in flight : g.parent = o /\ g.node = n
    BY DEF InFlightOf
  <2>3. \A n : n \in InFlightOf(o)' <=> n \in InFlightOf(o) /\ ~(o = f.parent /\ n = f.node)
    BY <1>4, <1>6, <2>1, <2>2
  <2>4. PICK A, B : A = InFlightOf(o) /\ B = InFlightOf(o)'
    OBVIOUS
  <2>5. B = IF o = f.parent THEN A \ {f.node} ELSE A
    BY <2>3, <2>4
  <2> QED BY <2>4, <2>5
<1> QED BY <1>5, <1>6

LEMMA FillEndSubflow == ASSUME IndInv, FillInv, NEW f \in flight, EndSubflow(f) PROVE FillInv'
<1>1. /\ f.child \notin open /\ Heard(f)
      /\ node' = [node EXCEPT ![f.nr].sub = f.child, ![f.nr].status = dag[f.child].status]
      /\ dag' = SentDag(f) /\ loop' = SentLoop(f) /\ flight' = flight \ {f}
      /\ UNCHANGED <<open, aborted, result>>
  BY DEF EndSubflow, callers
<1>2. /\ f.nr \in NodeObjs /\ f.node \in Nodes /\ f.child \in DagObjs /\ f.child # None
      /\ f.parent = None \/ (f.parent \in open /\ f.parent \in DagObjs /\ f.parent # f.child)
  BY <1>1, HeardLoop, NotFilled, Objects
<1>3. /\ node'[f.nr].sub = f.child /\ node'[f.nr].status = dag[f.child].status
      /\ node'[f.nr].route = -1 /\ \A q \in NodeObjs : q # f.nr => node'[q] = node[q]
  <2>1. node[f.nr].route = -1
    BY DEF FillInv, FlightsRight
  <2> QED BY <1>1, <1>2, <2>1 DEF IndInv, ObjType, NodeResults
<1>4. \A o \in DagObjs : \A m \in Nodes : dag[o].results[m] # f.nr
  BY DEF IndInv, NodesOnce
<1>5. \A g \in flight : g # f => g.nr # f.nr /\ g.nr \in NodeObjs /\ g.child \in DagObjs
  BY DEF IndInv, NodesOnce, LoopType
<1>6. Live(f.child) /\ Ended(f.child)
  <2>1. Live(f.child)
    BY DEF Live, HeldDag, FillInv, FlightsRight
  <2> QED BY <1>1, <1>2, <2>1 DEF FillInv, Filled
<1>7. ~(None \in DagObjs)
  BY Objects
<1>8. f.parent # None => /\ Gets(f.parent, f.node) /\ Result(f.parent, f.node)' = node'[f.nr]
                         /\ \A o \in DagObjs : o # f.parent => Same(o)
  BY <1>1, <1>2, <1>3, <1>4, RecordFacts DEF SentDag
<1>9. f.parent = None => \A o \in DagObjs : Same(o)
  <2>1. \A o \in DagObjs : \A m \in Nodes : HasResult(o, m) => dag[o].results[m] \in NodeObjs
    BY DEF IndInv, ObjType, DagResults, HasResult
  <2> QED BY <1>1, <1>3, <1>4, <2>1 DEF SentDag, Same, Result
<1>10. \A o \in DagObjs : dag'[o].dag = dag[o].dag /\ (o # f.parent => Same(o))
  BY <1>8, <1>9 DEF Gets, Same
<1>11. /\ FlightsRight'
       /\ \A o \in DagObjs : InFlightOf(o)' = IF o = f.parent THEN InFlightOf(o) \ {f.node}
                                              ELSE InFlightOf(o)
  <2>1. PICK x : x \notin DagObjs \cup {None}
    <3>1. (CHOOSE x : x \notin DagObjs \cup {None}) \notin DagObjs \cup {None}
      BY NoSetContainsEverything
    <3> QED BY <3>1
  <2>2. flight' = Orphaned(x, flight \ {f})
    <3>1. \A g \in flight : [g EXCEPT !.parent = IF @ = x THEN None ELSE @] = g
      <4> SUFFICES ASSUME NEW g \in flight PROVE [g EXCEPT !.parent = IF @ = x THEN None ELSE @] = g
        OBVIOUS
      <4>1. g \in [nr : NodeObjs, node : Nodes, parent : open \cup {None}, child : DagObjs]
        BY DEF IndInv, LoopType
      <4>2. g.parent # x
        BY <2>1, <4>1, NotFilled
      <4> QED BY <4>1, <4>2
    <3>2. Orphaned(x, flight \ {f}) =
            {[g EXCEPT !.parent = IF @ = x THEN None ELSE @] : g \in flight \ {f}}
      BY DEF Orphaned
    <3> QED BY <1>1, <3>1, <3>2, ZenonT(60)
  <2>3. \A g \in flight : g # f => node'[g.nr] = node[g.nr] /\ dag'[g.child].dag = dag[g.child].dag
    BY <1>3, <1>5, <1>10
  <2>4. \A o \in DagObjs : o # x /\ o # None
    BY <1>7, <2>1
  <2> QED BY <2>2, <2>3, <2>4, FlightsOf
<1>12. ASSUME f.parent # None
       PROVE  /\ f.node \in NodesOf(f.parent) /\ RightResult(f.parent, f.node)'
              /\ Working(f.parent)'
  <2>1. f.parent \in open /\ f.parent \in DagObjs /\ Working(f.parent)
        /\ loop[f.parent].skip = {}
    BY <1>1, <1>2, <1>12 DEF FillInv, Heard, Looping
  <2>2. f.node \in InFlightOf(f.parent)
    BY DEF InFlightOf
  <2>3. f.node \in NodesOf(f.parent) /\ Worked(f.parent, f.node)
    BY <2>1, <2>2 DEF Working, Worked, Busy
  <2>4. RightResult(f.parent, f.node)'
    <3>1. dag'[f.child].dag # None /\ f.child \notin open'
      BY <1>1, <1>2, <1>6, <1>10 DEF Live
    <3>2. dag[f.child].status # "Skipped"
      BY <1>6 DEF Ended
    <3> QED BY <1>3, <1>8, <1>12, <3>1, <3>2 DEF RightResult
  <2>5. Working(f.parent)'
    <3>1. loop'[f.parent] = [Done(f.parent, f.node)[f.parent] EXCEPT !.skip = {}]
      <4>1. loop' = Done(f.parent, f.node)
        BY <1>1, <1>12 DEF SentLoop
      <4>2. /\ Done(f.parent, f.node)[f.parent].skip = {}
            /\ Done(f.parent, f.node)[f.parent] \in LoopState
        BY <2>1, DoneFacts DEF IndInv
      <4> QED BY <4>1, <4>2 DEF LoopState
    <3>2. InFlightOf(f.parent)' = InFlightOf(f.parent) \ {f.node}
      BY <1>11, <2>1
    <3>3. ~(Result(f.parent, f.node)'.route >= 0)
      BY <1>3, <1>8, <1>12
    <3>4. PICK S : S = {} /\ loop'[f.parent] = [Done(f.parent, f.node)[f.parent] EXCEPT !.skip = S]
      BY <3>1
    <3>5. f.parent \in aborted' <=> f.parent \in aborted
      BY <1>1
    <3> QED BY <1>8, <1>12, <2>1, <2>3, <3>2, <3>3, <3>4, <3>5, WorkingDone
  <2> QED BY <2>3, <2>4, <2>5
<1>13. \A o \in DagObjs : o # f.parent => loop'[o] = loop[o]
  <2>1. CASE f.parent = None
    BY <1>1, <2>1 DEF SentLoop
  <2>2. CASE f.parent # None
    BY <1>1, <1>2, <2>2, DoneFacts DEF SentLoop, IndInv
  <2> QED BY <2>1, <2>2
<1>14. \A o \in DagObjs : o \notin open' => loop'[o] = NewLoop
  BY <1>1, <1>2, <1>7, <1>13 DEF FillInv
<1>15. \A o \in DagObjs : HeldDag(o)' => HeldDag(o)
  BY <1>1, <1>3 DEF HeldDag
<1>16. \A o \in open' : o \in DagObjs
  BY <1>1, NotFilled
<1>17. f.parent \in DagObjs => f.parent # None /\ f.parent \in open
  BY <1>2, <1>7
<1>18. open' \subseteq open /\ aborted' = aborted
  BY <1>1
<1> QED BY <1>1, <1>8, <1>10, <1>11, <1>12, <1>13, <1>14, <1>15, <1>16, <1>17, <1>18, FillSent, ZenonT(60)

LEMMA FillSubflowPanics ==
    ASSUME IndInv, FillInv, NEW f \in flight, SubflowPanics(f)
    PROVE  FillInv'
<1>1. /\ f.child \in open /\ Heard(f)
      /\ node' = [node EXCEPT ![f.nr].status = "Panicked"] /\ dag' = SentDag(f)
      /\ open' = open \ {f.child} /\ aborted' = aborted \ {f.child}
      /\ loop' = [SentLoop(f) EXCEPT ![f.child] = NewLoop]
      /\ flight' = Orphaned(f.child, flight \ {f}) /\ result' = result
  BY DEF SubflowPanics, Stops, callers, Looping
<1>2. /\ f.nr \in NodeObjs /\ f.node \in Nodes /\ f.child \in DagObjs /\ f.child # None
      /\ f.parent = None \/ (f.parent \in open /\ f.parent \in DagObjs)
  BY <1>1, HeardLoop, NotFilled, Objects
<1>3. /\ node'[f.nr].sub = None /\ node'[f.nr].route = -1
      /\ \A q \in NodeObjs : q # f.nr => node'[q] = node[q]
  <2>1. node[f.nr].route = -1 /\ node[f.nr].sub = None
    BY DEF FillInv, FlightsRight
  <2> QED BY <1>1, <1>2, <2>1 DEF IndInv, ObjType, NodeResults
<1>4. \A o \in DagObjs : \A m \in Nodes : dag[o].results[m] # f.nr
  BY DEF IndInv, NodesOnce
<1>5. \A g \in flight : g # f => g.nr # f.nr /\ g.child # f.child /\ g.nr \in NodeObjs
                                 /\ g.child \in DagObjs
  BY DEF IndInv, NodesOnce, DagsOnce, LoopType
<1>6. ~(None \in DagObjs)
  BY Objects
<1>7. f.parent # None => /\ Gets(f.parent, f.node) /\ Result(f.parent, f.node)' = node'[f.nr]
                         /\ \A o \in DagObjs : o # f.parent => Same(o)
  BY <1>1, <1>2, <1>3, <1>4, RecordFacts DEF SentDag
<1>8. f.parent = None => \A o \in DagObjs : Same(o)
  <2>1. \A o \in DagObjs : \A m \in Nodes : HasResult(o, m) => dag[o].results[m] \in NodeObjs
    BY DEF IndInv, ObjType, DagResults, HasResult
  <2> QED BY <1>1, <1>3, <1>4, <2>1 DEF SentDag, Same, Result
<1>9. \A o \in DagObjs : dag'[o].dag = dag[o].dag /\ (o # f.parent => Same(o))
  BY <1>7, <1>8 DEF Gets, Same
<1>10. /\ FlightsRight'
       /\ \A o \in DagObjs : o # f.child =>
             InFlightOf(o)' = IF o = f.parent THEN InFlightOf(o) \ {f.node} ELSE InFlightOf(o)
  <2>1. \A g \in flight : g # f => node'[g.nr] = node[g.nr] /\ dag'[g.child].dag = dag[g.child].dag
    BY <1>3, <1>5, <1>9
  <2>2. \A o \in DagObjs : o # None
    BY <1>6
  <2> QED BY <1>1, <2>1, <2>2, FlightsOf
<1>11. ASSUME f.parent # None
       PROVE  /\ f.node \in NodesOf(f.parent) /\ RightResult(f.parent, f.node)'
              /\ f.parent # f.child => Working(f.parent)'
  <2>1. f.parent \in open /\ f.parent \in DagObjs /\ Working(f.parent)
        /\ loop[f.parent].skip = {}
    BY <1>1, <1>2, <1>11 DEF FillInv, Heard, Looping
  <2>2. f.node \in InFlightOf(f.parent)
    BY DEF InFlightOf
  <2>3. f.node \in NodesOf(f.parent) /\ Worked(f.parent, f.node)
    BY <2>1, <2>2 DEF Working, Worked, Busy
  <2>4. RightResult(f.parent, f.node)'
    BY <1>3, <1>7, <1>11 DEF RightResult
  <2>5. ASSUME f.parent # f.child PROVE Working(f.parent)'
    <3>1. loop'[f.parent] = [Done(f.parent, f.node)[f.parent] EXCEPT !.skip = {}]
      <4>1. loop' = [Done(f.parent, f.node) EXCEPT ![f.child] = NewLoop]
        BY <1>1, <1>11 DEF SentLoop
      <4>2. /\ Done(f.parent, f.node)[f.parent].skip = {}
            /\ Done(f.parent, f.node)[f.parent] \in LoopState
            /\ DOMAIN Done(f.parent, f.node) = DagObjs
        BY <2>1, DoneFacts DEF IndInv
      <4>3. PICK D : D = Done(f.parent, f.node)
        OBVIOUS
      <4>4. loop'[f.parent] = D[f.parent]
        BY <2>1, <2>5, <4>1, <4>2, <4>3
      <4> QED BY <4>2, <4>3, <4>4 DEF LoopState
    <3>2. InFlightOf(f.parent)' = InFlightOf(f.parent) \ {f.node}
      BY <1>10, <2>1, <2>5
    <3>3. ~(Result(f.parent, f.node)'.route >= 0)
      BY <1>3, <1>7, <1>11
    <3>4. PICK S : S = {} /\ loop'[f.parent] = [Done(f.parent, f.node)[f.parent] EXCEPT !.skip = S]
      BY <3>1
    <3>5. f.parent \in aborted' <=> f.parent \in aborted
      BY <1>1, <2>5
    <3> QED BY <1>7, <1>11, <2>1, <2>3, <3>2, <3>3, <3>4, <3>5, WorkingDone
  <2> QED BY <2>3, <2>4, <2>5
<1>12. /\ \A o \in DagObjs : o # f.parent /\ o # f.child => loop'[o] = loop[o]
       /\ loop'[f.child] = NewLoop
  <2>1. DOMAIN SentLoop(f) = DagObjs /\ \A o \in DagObjs : o # f.parent => SentLoop(f)[o] = loop[o]
    <3>1. CASE f.parent = None
      BY <3>1 DEF SentLoop, IndInv, LoopType
    <3>2. CASE f.parent # None
      BY <1>2, <3>2, DoneFacts DEF SentLoop, IndInv
    <3> QED BY <3>1, <3>2
  <2>2. PICK D : D = SentLoop(f)
    OBVIOUS
  <2> QED BY <1>1, <1>2, <2>1, <2>2
<1>13. \A o \in DagObjs : o \notin open' => loop'[o] = NewLoop
  BY <1>1, <1>2, <1>6, <1>12 DEF FillInv
<1>14. ASSUME NEW o \in DagObjs, HeldDag(o)'
       PROVE  HeldDag(o) /\ (o \in open' <=> o \in open)
  <2>1. \A p \in NodeObjs : node'[p].sub = node[p].sub
    BY <1>2, <1>3 DEF FillInv, FlightsRight
  <2>2. \A g \in flight' : \E h \in flight \ {f} : g.child = h.child
    <3>1. PICK F \in SUBSET flight : F = flight \ {f}
      OBVIOUS
    <3>2. \A g \in Orphaned(f.child, F) : \E h \in F : g.nr = h.nr /\ g.child = h.child
      BY <1>2, OrphanedFlights
    <3> QED BY <1>1, <3>1, <3>2
  <2>3. \/ \E c \in Callers : result[c] = o
        \/ \E p \in NodeObjs : node[p].sub = o
        \/ \E h \in flight \ {f} : h.child = o
    BY <1>1, <1>14, <2>1, <2>2 DEF HeldDag
  <2>4. o # f.child
    BY <1>5, <2>3 DEF IndInv, DagsOnce
  <2> QED BY <1>1, <2>3, <2>4 DEF HeldDag
<1>15. \A o \in open' : o \in DagObjs /\ o # f.child
  BY <1>1, NotFilled
<1>16. f.parent \in DagObjs => f.parent # None /\ f.parent \in open
  BY <1>2, <1>6
<1>17. open' \subseteq open /\ \A o \in open' : o \in aborted' <=> o \in aborted
  BY <1>1
<1> QED BY <1>7, <1>9, <1>10, <1>11, <1>12, <1>13, <1>14, <1>15, <1>16, <1>17, FillSent, ZenonT(60)

-----------------------------------------------------------------------------
(***************************************************************************)
(* A loop ends: without an abort every node has a result, and what a route *)
(* leaves out is skipped.                                                  *)
(***************************************************************************)
LEMMA AllReported ==
    ASSUME IndInv, FillInv, NEW o \in open, ~Looping(o), loop[o].skip = {}, o \notin aborted
    PROVE  NodesOf(o) \subseteq Reported(o)
<1>1. PICK R, N : N = NodesOf(o) /\ R = {n \in NodesOf(o) : HasResult(o, n)}
  OBVIOUS
<1>2. IsFiniteSet(N) /\ R \subseteq N
  <2>1. N \subseteq Nodes
    BY <1>1 DEF NodesOf
  <2> QED BY <1>1, <2>1, NodesFinite, FS_Subset
<1>3. Cardinality(R) \in Nat /\ Cardinality(N) \in Nat /\ (R = N \/ Cardinality(R) < Cardinality(N))
  BY <1>2, FS_Subset, FS_CardinalityType
<1>4. loop[o].late = 0
  BY DEF FillInv, Working
<1>5. ~(Cardinality(R) + 0 < Cardinality(N))
  BY <1>1, <1>4 DEF Looping, Completed
<1>6. R = N
  BY <1>3, <1>5
<1> QED BY <1>1, <1>6 DEF Reported, NodesOf

LEMMA FillEndLoop == ASSUME IndInv, FillInv, NEW o \in open, EndLoop(o) PROVE FillInv'
<1>1. /\ loop[o].skip = {} /\ ~Looping(o)
      /\ dag' = [dag EXCEPT ![o].status = IF o \in aborted THEN "Failed" ELSE "Success"]
      /\ open' = open \ {o} /\ aborted' = aborted \ {o} /\ loop' = [loop EXCEPT ![o] = NewLoop]
      /\ flight' = Orphaned(o, flight) /\ UNCHANGED <<node, result>>
  BY DEF EndLoop, Stops, callers
<1>2. o \in DagObjs /\ Working(o)
  BY NotFilled DEF FillInv
<1>3. PICK s : s = IF o \in aborted THEN "Failed" ELSE "Success"
  OBVIOUS
<1>4. /\ \A e \in DagObjs : dag'[e].dag = dag[e].dag /\ dag'[e].results = dag[e].results
      /\ \A e \in DagObjs : e # o => dag'[e] = dag[e]
      /\ dag'[o].status = s
  BY <1>1, <1>2, <1>3 DEF IndInv, ObjType, DagResults
<1>5. \A e \in DagObjs : e # o => Same(e)
  BY <1>1, <1>4 DEF Same, Result
<1>6. /\ \A g \in flight' : \E h \in flight : /\ g.nr = h.nr /\ g.node = h.node /\ g.child = h.child
                                              /\ g.parent = IF h.parent = o THEN None ELSE h.parent
      /\ \A e \in DagObjs : e # o => InFlightOf(e)' = InFlightOf(e)
      /\ \A g, h \in flight' : g.parent # None /\ g.parent = h.parent /\ g.node = h.node => g = h
  <2> DEFINE sent(g) == [g EXCEPT !.parent = IF @ = o THEN None ELSE @]
  <2>1. /\ \A g \in flight' : \E h \in flight : g = sent(h)
        /\ \A h \in flight : sent(h) \in flight'
    BY <1>1 DEF Orphaned
  <2>2. ASSUME NEW g \in flight
        PROVE  /\ sent(g).nr = g.nr /\ sent(g).node = g.node /\ sent(g).child = g.child
               /\ sent(g).parent = IF g.parent = o THEN None ELSE g.parent
    <3>1. g \in [nr : NodeObjs, node : Nodes, parent : open \cup {None}, child : DagObjs]
      BY DEF IndInv, LoopType
    <3> QED BY <3>1
  <2> HIDE DEF sent
  <2>3. ASSUME NEW e \in DagObjs, e # o, NEW n PROVE n \in InFlightOf(e)' <=> n \in InFlightOf(e)
    <3>1. e # None
      BY Objects
    <3>2. n \in InFlightOf(e)' <=> \E g \in flight' : g.parent = e /\ g.node = n
      BY DEF InFlightOf
    <3>3. n \in InFlightOf(e) <=> \E g \in flight : g.parent = e /\ g.node = n
      BY DEF InFlightOf
    <3>4. ASSUME NEW g \in flight', g.parent = e, g.node = n PROVE n \in InFlightOf(e)
      <4>1. PICK h \in flight : g = sent(h)
        BY <2>1
      <4> QED BY <2>2, <3>1, <3>3, <3>4, <4>1
    <3>5. ASSUME NEW h \in flight, h.parent = e, h.node = n PROVE n \in InFlightOf(e)'
      <4>1. sent(h) \in flight'
        BY <2>1
      <4>2. sent(h).parent = e /\ sent(h).node = n
        BY <2>2, <2>3, <3>5
      <4> QED BY <3>2, <4>1, <4>2
    <3> QED BY <3>2, <3>3, <3>4, <3>5
  <2>4. ASSUME NEW e \in DagObjs, e # o PROVE InFlightOf(e)' = InFlightOf(e)
    <3>1. PICK A, B : A = InFlightOf(e) /\ B = InFlightOf(e)'
      OBVIOUS
    <3>2. \A n : n \in A <=> n \in B
      BY <2>3, <2>4, <3>1
    <3> QED BY <3>1, <3>2
  <2>5. ASSUME NEW g \in flight', NEW h \in flight', g.parent # None, g.parent = h.parent,
               g.node = h.node
        PROVE  g = h
    <3>1. PICK k \in flight : g = sent(k)
      BY <2>1
    <3>2. PICK l \in flight : h = sent(l)
      BY <2>1
    <3>3. k.node = l.node /\ k.parent # None /\ k.parent = l.parent
      BY <2>2, <2>5, <3>1, <3>2
    <3> QED BY <3>1, <3>2, <3>3 DEF FillInv, FlightsRight
  <2> QED BY <2>1, <2>2, <2>4, <2>5
<1>7. FlightsRight'
  <2>1. ASSUME NEW g \in flight'
        PROVE  node'[g.nr].route = -1 /\ node'[g.nr].sub = None /\ dag'[g.child].dag # None
    <3>1. PICK h \in flight : g.nr = h.nr /\ g.child = h.child
      BY <1>6
    <3>2. h.child \in DagObjs
      BY DEF IndInv, LoopType
    <3> QED BY <1>1, <1>4, <3>1, <3>2 DEF FillInv, FlightsRight
  <2> QED BY <1>6, <2>1 DEF FlightsRight
<1>8. \A e \in DagObjs : e # o => loop'[e] = loop[e]
  BY <1>1, <1>2 DEF IndInv, LoopType
<1>9. loop'[o] = NewLoop
  BY <1>1, <1>2 DEF IndInv, LoopType
<1>10. ASSUME NEW e \in open' PROVE Working(e)'
  <2>1. e \in open /\ e \in DagObjs /\ e # o /\ (e \in aborted' <=> e \in aborted)
    BY <1>1, NotFilled
  <2>2. Working(e) /\ Same(e) /\ loop'[e] = loop[e] /\ InFlightOf(e)' = InFlightOf(e)
    BY <1>5, <1>6, <1>8, <2>1 DEF FillInv
  <2> QED BY <2>1, <2>2, WorkingKept
<1>11. /\ NodesOf(o)' = NodesOf(o) /\ Reported(o)' = Reported(o)
       /\ \A n \in Nodes : (HasResult(o, n)' <=> HasResult(o, n)) /\ Result(o, n)' = Result(o, n)
  BY <1>1, <1>2, <1>4 DEF NodesOf, Reported, HasResult, Result
<1>12. Ended(o)'
  <2>1. s = "Success" => NodesOf(o) \subseteq Reported(o)
    BY <1>1, <1>3, AllReported
  <2>2. \A n, m \in Nodes : LeavesOut(o, n, m)' => SkippedIn(o, m)'
    BY <1>1, <1>2, <1>11 DEF Working, LeavesOut, SkippedIn
  <2> QED BY <1>3, <1>4, <1>11, <2>1, <2>2 DEF Ended
<1>13. ASSUME NEW e \in DagObjs, Live(e)' PROVE Filled(e)'
  <2>1. Live(e)
    <3>1. HeldDag(e)
      BY <1>1, <1>6, <1>13 DEF Live, HeldDag
    <3> QED BY <1>4, <1>13, <3>1 DEF Live
  <2>2. Filled(e)
    BY <2>1 DEF FillInv
  <2>3. ASSUME NEW m \in Reported(e), Result(e, m).sub # None, dag[Result(e, m).sub].dag # None,
               Result(e, m).sub \notin open
        PROVE  dag'[Result(e, m).sub].dag # None /\ Result(e, m).sub \notin open'
    <3>1. Result(e, m).sub \in DagObjs
      BY <2>3, ReportedType DEF IndInv
    <3> QED BY <1>1, <1>4, <2>3, <3>1
  <2>4. CASE e = o
    <3>1. ASSUME NEW m \in Reported(e) PROVE RightResult(e, m)'
      <4>1. m \in Nodes
        BY DEF Reported
      <4> QED BY <1>11, <2>2, <2>3, <2>4, <4>1 DEF Filled, RightResult
    <3> QED BY <1>11, <1>12, <2>2, <2>4, <3>1 DEF Filled
  <2>5. CASE e # o
    <3>1. e \in open' <=> e \in open
      BY <1>1, <2>5
    <3> QED BY <1>5, <2>2, <2>3, <2>5, <3>1, FilledKept
  <2> QED BY <2>4, <2>5
<1>14. \A e \in DagObjs : e \notin open' => loop'[e] = NewLoop
  BY <1>1, <1>8, <1>9 DEF FillInv
<1> QED BY <1>7, <1>10, <1>13, <1>14 DEF FillInv

-----------------------------------------------------------------------------
(***************************************************************************)
(* Workers take nodes when a Run returns, or the loop when it aborts.      *)
(***************************************************************************)
LEMMA FillLoops ==
    ASSUME IndInv, FillInv, UNCHANGED <<node, dag, open, flight, result>>,
           \A o \in DagObjs : o \notin open => loop'[o] = loop[o],
           \A o \in open : Working(o)'
    PROVE  FillInv'
<1>1. \A o \in DagObjs : Same(o)
  BY DEF Same, Result
<1>2. ASSUME NEW o \in DagObjs, Live(o)' PROVE Filled(o)'
  <2>1. Live(o) /\ Filled(o) /\ Same(o)
    BY <1>1, <1>2 DEF Live, HeldDag, FillInv
  <2> QED BY <2>1, FilledKept
<1>3. FlightsRight'
  BY DEF FillInv, FlightsRight
<1> QED BY <1>2, <1>3 DEF FillInv

LEMMA FillReturn == ASSUME IndInv, FillInv, NEW c \in Callers, Return(c) PROVE FillInv'
<1> DEFINE left == {o \in open \ closed : Owner[dag[o].dag] = c}
<1>1. UNCHANGED <<node, dag, open, aborted, flight, result>>
  BY ZenonT(60) DEF Return, objects
<1>2. PICK sent : loop' = [o \in DagObjs |->
                              IF o \in left
                              THEN [loop[o] EXCEPT !.taken = @ \cup (sent \cap Offers(o)),
                                                   !.heap = @ \ sent]
                              ELSE loop[o]]
  BY DEF Return
<1>3. left \subseteq open
  OBVIOUS
<1> HIDE DEF left
<1>4. ASSUME NEW o \in open PROVE Working(o)'
  <2>1. o \in DagObjs /\ Working(o) /\ Same(o) /\ InFlightOf(o)' = InFlightOf(o)
    BY <1>1, NotFilled DEF FillInv, Same, Result, InFlightOf
  <2>2. CASE o \notin left
    <3>1. loop'[o] = loop[o]
      BY <1>2, <2>1, <2>2
    <3> QED BY <1>1, <2>1, <3>1, WorkingKept
  <2>3. CASE o \in left
    <3>1. loop[o] \in LoopState
      BY <2>1 DEF IndInv, LoopType
    <3>2. /\ loop'[o].taken = loop[o].taken \cup (sent \cap Offers(o))
          /\ loop'[o].heap = loop[o].heap \ sent
          /\ loop'[o].skip = loop[o].skip /\ loop'[o].late = loop[o].late
      BY <1>2, <2>1, <2>3, <3>1 DEF LoopState
    <3>3. CASE o \in aborted
      <4>1. loop'[o].taken \cup loop'[o].heap = loop[o].taken \cup loop[o].heap
        BY <3>2, <3>3 DEF Offers
      <4>2. Busy(o)' = Busy(o) /\ (loop'[o].taken \cup loop'[o].heap) \cap InFlightOf(o)' = {}
        BY <2>1, <4>1 DEF Busy, Working
      <4> QED BY <1>1, <2>1, <3>2, <3>3, <4>2, WorkingMoved
    <3>4. CASE o \notin aborted
      <4>1. PICK N : N = sent \cap Offers(o)
        OBVIOUS
      <4>2. N \subseteq Ready(o) \ loop[o].skip
        BY <3>4, <4>1 DEF Offers
      <4>3. loop[o].heap = {} /\ loop[o].late = 0
        BY <2>1, <3>4 DEF Working
      <4>4. Busy(o)' = Busy(o) \cup N
        BY <2>1, <3>2, <4>1, <4>3 DEF Busy
      <4>5. (loop'[o].taken \cup loop'[o].heap) \cap InFlightOf(o)' = {}
        <5>1. N \cap InFlightOf(o) = {}
          BY <4>2 DEF Ready, Unresolved, InFlight, InFlightOf
        <5> QED BY <2>1, <3>2, <4>1, <4>3, <5>1 DEF Working
      <4>6. loop'[o].heap = {} /\ loop'[o].late = 0 /\ loop'[o].skip = loop[o].skip
        BY <3>2, <4>3
      <4> QED BY <1>1, <2>1, <3>4, <4>2, <4>4, <4>5, <4>6, WorkingTaken
    <3> QED BY <3>3, <3>4
  <2> QED BY <2>2, <2>3
<1>5. \A o \in DagObjs : o \notin open => loop'[o] = loop[o]
  BY <1>2, <1>3
<1> QED BY <1>1, <1>4, <1>5, FillLoops

LEMMA FillAbort == ASSUME IndInv, FillInv, NEW o \in open, Abort(o) PROVE FillInv'
<1>1. /\ o \notin aborted /\ aborted' = aborted \cup {o} /\ loop[o].skip = {}
      /\ UNCHANGED <<node, dag, open, flight, result>>
  BY DEF Abort, Looping, objects, callers
<1>2. PICK sent \in SUBSET Offers(o) :
         LET taken == loop[o].taken \cup sent IN
         loop' = [loop EXCEPT ![o].skip = Unresolved(o) \ taken, ![o].taken = taken,
                              ![o].heap = Offers(o) \ sent]
  BY DEF Abort
<1>3. o \in DagObjs /\ Working(o) /\ InFlightOf(o)' = InFlightOf(o)
  BY <1>1, NotFilled DEF FillInv, InFlightOf
<1>4. \A e \in DagObjs : Same(e)
  BY <1>1 DEF Same, Result
<1>5. /\ loop'[o].taken = loop[o].taken \cup sent /\ loop'[o].heap = Offers(o) \ sent
      /\ loop'[o].skip = Unresolved(o) \ (loop[o].taken \cup sent)
      /\ \A e \in DagObjs : e # o => loop'[e] = loop[e]
  <2>1. loop \in [DagObjs -> LoopState]
    BY DEF IndInv, LoopType
  <2> QED BY <1>2, <1>3, <2>1 DEF LoopState
<1>6. PICK N : N = Offers(o)
  OBVIOUS
<1>7. N \subseteq Ready(o)
  BY <1>1, <1>6 DEF Offers
<1>8. loop'[o].taken \cup loop'[o].heap = loop[o].taken \cup N /\ loop[o].heap = {}
  BY <1>1, <1>3, <1>5, <1>6 DEF Working
<1>9. Busy(o)' = Busy(o) \cup N
  BY <1>3, <1>8 DEF Busy
<1>10. (loop'[o].taken \cup loop'[o].heap) \cap InFlightOf(o)' = {}
  <2>1. N \cap InFlightOf(o) = {}
    BY <1>7 DEF Ready, Unresolved, InFlight, InFlightOf
  <2> QED BY <1>3, <1>8, <2>1 DEF Working
<1>11. Unresolved(o) \subseteq loop'[o].skip \cup Busy(o)'
  BY <1>5 DEF Busy
<1>12. Working(o)'
  BY <1>1, <1>3, <1>4, <1>5, <1>7, <1>9, <1>10, <1>11, WorkingAborted
<1>13. ASSUME NEW e \in open, e # o PROVE Working(e)'
  <2>1. e \in DagObjs /\ Working(e) /\ Same(e) /\ InFlightOf(e)' = InFlightOf(e)
    BY <1>1, <1>4, NotFilled DEF FillInv, InFlightOf
  <2> QED BY <1>1, <1>5, <1>13, <2>1, WorkingKept
<1>14. \A e \in DagObjs : e \notin open => loop'[e] = loop[e]
  BY <1>5
<1> QED BY <1>1, <1>12, <1>13, <1>14, FillLoops

-----------------------------------------------------------------------------
(***************************************************************************)
(* A Run or a subflow takes an object for the result of its DAG.           *)
(***************************************************************************)
LEMMA FillStarts ==
    ASSUME IndInv, FillInv, NEW q \in DagObjs, ~HeldDag(q), dag[q] = NewDag, q \notin open,
           dag'[q].results = NewDag.results, dag'[q].dag # None,
           \A e \in DagObjs : e # q => Same(e),
           \/ open' = open \cup {q} /\ q \notin aborted'
           \/ open' = open /\ dag'[q].status = "Failed",
           loop'[q] = NewLoop, InFlightOf(q)' = {},
           \A e \in open : Working(e)',
           \A e \in DagObjs : e # q /\ HeldDag(e)' => HeldDag(e),
           \A e \in DagObjs : e \notin open' => loop'[e] = NewLoop,
           FlightsRight'
    PROVE  FillInv'
<1>1. Reported(q)' = {}
  BY Objects DEF Reported, HasResult
<1>2. \A n, m \in Nodes : ~LeavesOut(q, n, m)'
  BY <1>1 DEF LeavesOut, Reported
<1>3. Busy(q)' = {} /\ loop'[q].skip = {} /\ loop'[q].heap = {} /\ loop'[q].late = 0
      /\ loop'[q].taken = {}
  BY DEF Busy, NewLoop
<1>4. q \notin aborted' => Working(q)'
  BY <1>1, <1>2, <1>3 DEF Working
<1>5. ASSUME NEW o \in open' PROVE Working(o)'
  BY <1>4, <1>5
<1>6. ASSUME NEW o \in DagObjs, Live(o)' PROVE Filled(o)'
  <2>1. CASE o = q
    <3>1. q \notin open' => Ended(q)'
      BY <1>2 DEF Ended
    <3> QED BY <1>1, <2>1, <3>1 DEF Filled
  <2>2. CASE o # q
    <3>1. Same(o) /\ Live(o) /\ Filled(o) /\ (o \in open' <=> o \in open)
      BY <1>6, <2>2 DEF Live, Same, FillInv
    <3>2. ASSUME NEW m \in Reported(o), Result(o, m).sub # None, dag[Result(o, m).sub].dag # None,
                 Result(o, m).sub \notin open
          PROVE  dag'[Result(o, m).sub].dag # None /\ Result(o, m).sub \notin open'
      <4>1. Result(o, m).sub \in DagObjs
        BY <3>2, ReportedType DEF IndInv
      <4>2. dag[o].results[m] \in NodeObjs
        BY DEF IndInv, ObjType, DagResults, Reported, HasResult
      <4>3. Result(o, m).sub # q
        BY <4>2 DEF HeldDag, Result
      <4> QED BY <3>2, <4>1, <4>3 DEF Same
    <3> QED BY <3>1, <3>2, FilledKept
  <2> QED BY <2>1, <2>2
<1> QED BY <1>5, <1>6 DEF FillInv

LEMMA FreshDag ==
    ASSUME IndInv, FillInv, NEW q \in FreeDags, AcquireDagResult(q)
    PROVE  /\ q \in DagObjs /\ ~HeldDag(q) /\ dag[q] = NewDag /\ q \notin open /\ q \notin aborted
           /\ loop[q] = NewLoop /\ InFlightOf(q) = {}
<1>1. q \in DagObjs /\ ~HeldDag(q) /\ dag[q] = NewDag /\ q \notin open
  BY AcquireDag, NotFilled DEF IndInv, DagsIdle
<1>2. \A f \in flight : f.parent # q
  BY <1>1, Objects DEF IndInv, LoopType
<1> QED BY <1>1, <1>2 DEF IndInv, LoopType, FillInv, InFlightOf

LEMMA FillRun ==
    ASSUME IndInv, FillInv, NEW c \in Callers, NEW o \in FreeDags, NEW d \in Entries[c],
           Run(c, d, o) \/ RunRejected(c, d, o)
    PROVE  FillInv'
<1>1. AcquireDagResult(o) /\ result' = [result EXCEPT ![c] = o]
      /\ UNCHANGED <<node, aborted, loop, flight>>
  BY DEF Run, RunRejected, loops
<1>2. /\ o \in DagObjs /\ ~HeldDag(o) /\ dag[o] = NewDag /\ o \notin open /\ o \notin aborted
      /\ loop[o] = NewLoop /\ InFlightOf(o) = {}
  BY <1>1, FreshDag
<1>3. d \in Dags /\ d # None
  BY ResultsAssumption DEF ResultsAssumption
<1>4. /\ dag'[o].results = NewDag.results /\ dag'[o].dag # None
      /\ \A e \in DagObjs : e # o => dag'[e] = dag[e]
      /\ \/ open' = open \cup {o}
         \/ open' = open /\ dag'[o].status = "Failed"
  <2>1. CASE Run(c, d, o)
    <3>1. dag' = [dag EXCEPT ![o].dag = d] /\ open' = open \cup {o}
      BY <2>1 DEF Run
    <3> QED BY <1>2, <1>3, <3>1 DEF IndInv, ObjType, DagResults
  <2>2. CASE RunRejected(c, d, o)
    <3>1. dag' = [dag EXCEPT ![o].dag = d, ![o].status = "Failed"] /\ open' = open
      BY <2>2 DEF RunRejected, loops
    <3> QED BY <1>2, <1>3, <3>1 DEF IndInv, ObjType, DagResults
  <2> QED BY <2>1, <2>2
<1>5. \A e \in DagObjs : e # o => Same(e)
  BY <1>1, <1>4 DEF Same, Result
<1>6. \A e : InFlightOf(e)' = InFlightOf(e)
  BY <1>1 DEF InFlightOf
<1>7. ASSUME NEW e \in open PROVE Working(e)'
  <2>1. Working(e) /\ Same(e) /\ loop'[e] = loop[e]
    BY <1>1, <1>2, <1>5, NotFilled DEF FillInv
  <2> QED BY <1>1, <1>6, <2>1, WorkingKept
<1>8. \A e \in DagObjs : e # o /\ HeldDag(e)' => HeldDag(e)
  <2>1. \A x \in Callers : result'[x] = result[x] \/ result'[x] = o
    BY <1>1 DEF IndInv, CallType
  <2> QED BY <1>1, <2>1 DEF HeldDag
<1>9. \A e \in DagObjs : e \notin open' => loop'[e] = NewLoop
  BY <1>1, <1>4 DEF FillInv
<1>10. FlightsRight'
  <2>1. \A f \in flight : f.child \in DagObjs /\ f.child # o
    BY <1>2 DEF IndInv, LoopType, HeldDag
  <2> QED BY <1>1, <1>4, <2>1 DEF FillInv, FlightsRight
<1>11. loop'[o] = NewLoop /\ InFlightOf(o)' = {} /\ o \notin aborted'
  BY <1>1, <1>2, <1>6
<1> QED BY <1>2, <1>4, <1>5, <1>7, <1>8, <1>9, <1>10, <1>11, FillStarts

LEMMA FillBeginSubflow ==
    ASSUME IndInv, FillInv, NEW o \in open, NEW n \in NodesOf(o), NEW p \in FreeNodes, NEW q \in FreeDags,
           BeginSubflow(o, n, p, q)
    PROVE  FillInv'
<1> DEFINE f == [nr |-> p, node |-> n, parent |-> o, child |-> q]
<1>1. /\ Runnable(o, n) /\ acquireNodeResult(p) /\ AcquireDagResult(q) /\ Child[n] # None
      /\ node' = [node EXCEPT ![p].status = "Running"]
      /\ dag' = [dag EXCEPT ![q].dag = Child[n]]
      /\ open' = open \cup {q}
      /\ loop' = [loop EXCEPT ![o].taken = @ \ {n}, ![o].heap = @ \ {n}]
      /\ flight' = flight \cup {f}
      /\ UNCHANGED <<aborted, result>>
  BY DEF BeginSubflow, callers
<1>2. f.nr = p /\ f.node = n /\ f.parent = o /\ f.child = q
  OBVIOUS
<1> HIDE DEF f
<1>3. /\ q \in DagObjs /\ ~HeldDag(q) /\ dag[q] = NewDag /\ q \notin open /\ q \notin aborted
      /\ loop[q] = NewLoop /\ InFlightOf(q) = {}
  BY <1>1, FreshDag
<1>4. /\ p \in NodeObjs /\ node[p] = NewNode /\ ~HeldNode(p)
      /\ \A e \in DagObjs : \A m \in Nodes : dag[e].results[m] # p
  BY <1>1, FreshNode
<1>5. o \in DagObjs /\ o # None /\ o # q /\ Working(o) /\ Worked(o, n) /\ n \notin InFlightOf(o)
  BY <1>1, <1>3, NotFilled, WorkedIfRunnable, Objects DEF FillInv
<1>6. /\ dag'[q].results = NewDag.results /\ dag'[q].dag # None
      /\ \A e \in DagObjs : e # q => dag'[e] = dag[e]
      /\ \A e \in DagObjs : e # q => dag'[e].dag = dag[e].dag
  BY <1>1, <1>3 DEF IndInv, ObjType, DagResults
<1>7. /\ \A k \in NodeObjs : node'[k].sub = node[k].sub /\ (k # p => node'[k] = node[k])
      /\ node'[p].route = -1 /\ node'[p].sub = None
  <2>1. node[p].route = -1 /\ node[p].sub = None /\ node[p] \in NodeResults
        /\ node \in [NodeObjs -> NodeResults]
    BY <1>4 DEF NewNode, IndInv, ObjType
  <2> QED BY <1>1, <1>4, <2>1 DEF NodeResults
<1>8. \A e \in DagObjs : e # q => Same(e)
  <2>1. \A e \in DagObjs : \A m \in Nodes : HasResult(e, m) => dag[e].results[m] \in NodeObjs
    BY DEF IndInv, ObjType, DagResults, HasResult
  <2> QED BY <1>4, <1>6, <1>7, <2>1 DEF Same, Result
<1>9. /\ loop'[o].taken = loop[o].taken \ {n} /\ loop'[o].heap = loop[o].heap \ {n}
      /\ loop'[o].skip = loop[o].skip /\ loop'[o].late = loop[o].late
      /\ \A e \in DagObjs : e # o => loop'[e] = loop[e]
  BY <1>1, <1>5 DEF IndInv, LoopType, LoopState
<1>10. /\ InFlightOf(o)' = InFlightOf(o) \cup {n}
       /\ \A e \in DagObjs : e # o => InFlightOf(e)' = InFlightOf(e)
  <2>1. \A e : \A m : m \in InFlightOf(e)' <=> \E g \in flight' : g.parent = e /\ g.node = m
    BY DEF InFlightOf
  <2>2. \A e : \A m : m \in InFlightOf(e) <=> \E g \in flight : g.parent = e /\ g.node = m
    BY DEF InFlightOf
  <2>3. \A e : \A m : m \in InFlightOf(e)' <=> m \in InFlightOf(e) \/ (e = o /\ m = n)
    BY <1>1, <1>2, <2>1, <2>2
  <2>4. ASSUME NEW e PROVE InFlightOf(e)' = IF e = o THEN InFlightOf(e) \cup {n} ELSE InFlightOf(e)
    <3>1. PICK A, B : A = InFlightOf(e) /\ B = InFlightOf(e)'
      OBVIOUS
    <3>2. \A m : m \in B <=> m \in A \/ (e = o /\ m = n)
      BY <2>3, <3>1
    <3>3. B = IF e = o THEN A \cup {n} ELSE A
      BY <3>2
    <3> QED BY <3>1, <3>3
  <2> QED BY <2>4
<1>11. (loop'[o].taken \cup loop'[o].heap) \cap InFlightOf(o)' = {}
  BY <1>5, <1>9, <1>10 DEF Working
<1>12. Busy(o)' = Busy(o) \cup {n}
  BY <1>9, <1>10 DEF Busy
<1>13. Same(o)
  BY <1>5, <1>8
<1>14. Working(o)'
  <2>1. CASE o \in aborted
    <3>1. Busy(o)' = Busy(o)
      BY <1>5, <1>12, <2>1 DEF Worked
    <3>2. o \in aborted'
      BY <1>1, <2>1
    <3> QED BY <1>5, <1>9, <1>11, <1>13, <2>1, <3>1, <3>2, WorkingMoved
  <2>2. CASE o \notin aborted
    <3>1. loop[o].heap = {} /\ loop[o].late = 0
      BY <1>5, <2>2 DEF Working
    <3>2. PICK N : /\ N \subseteq Ready(o) \ loop[o].skip /\ Busy(o)' = Busy(o) \cup N
      <4>1. CASE n \in Busy(o)
        <5>1. Busy(o)' = Busy(o) \cup {}
          BY <1>12, <4>1
        <5> QED BY <5>1
      <4>2. CASE n \notin Busy(o)
        <5>1. {n} \subseteq Ready(o) \ loop[o].skip
          BY <1>5, <4>2 DEF Worked
        <5> QED BY <1>12, <5>1
      <4> QED BY <4>1, <4>2
    <3>3. loop'[o].heap = {} /\ loop'[o].late = 0 /\ o \notin aborted'
      BY <1>1, <1>9, <2>2, <3>1
    <3> QED BY <1>5, <1>9, <1>11, <1>13, <2>2, <3>2, <3>3, WorkingTaken
  <2> QED BY <2>1, <2>2
<1>15. ASSUME NEW e \in open PROVE Working(e)'
  <2>1. CASE e = o
    BY <1>14, <2>1
  <2>2. CASE e # o
    <3>1. e \in DagObjs /\ e # q /\ Working(e)
      BY <1>3, NotFilled DEF FillInv
    <3>2. Same(e) /\ loop'[e] = loop[e] /\ InFlightOf(e)' = InFlightOf(e)
      BY <1>8, <1>9, <1>10, <2>2, <3>1
    <3> QED BY <1>1, <3>1, <3>2, WorkingKept
  <2> QED BY <2>1, <2>2
<1>16. \A e \in DagObjs : e # q /\ HeldDag(e)' => HeldDag(e)
  BY <1>1, <1>2, <1>7 DEF HeldDag
<1>17. \A e \in DagObjs : e \notin open' => loop'[e] = NewLoop
  BY <1>1, <1>9 DEF FillInv
<1>18. FlightsRight'
  <2>1. \A g \in flight : g.nr \in NodeObjs /\ g.nr # p /\ g.child \in DagObjs /\ g.child # q
    BY <1>3, <1>4 DEF IndInv, LoopType, HeldNode, HeldDag
  <2>2. \A g \in flight : ~(g.parent = o /\ g.node = n)
    BY <1>5 DEF InFlightOf
  <2>3. \A g \in flight' : node'[g.nr].route = -1 /\ node'[g.nr].sub = None /\ dag'[g.child].dag # None
    BY <1>1, <1>2, <1>6, <1>7, <2>1 DEF FillInv, FlightsRight
  <2>4. \A g, h \in flight' : g.parent # None /\ g.parent = h.parent /\ g.node = h.node => g = h
    BY <1>1, <1>2, <2>2 DEF FillInv, FlightsRight
  <2> QED BY <2>3, <2>4 DEF FlightsRight
<1>19. loop'[q] = NewLoop /\ InFlightOf(q)' = {} /\ q \notin aborted'
  BY <1>1, <1>3, <1>5, <1>9, <1>10
<1> QED BY <1>1, <1>3, <1>6, <1>8, <1>15, <1>16, <1>17, <1>18, <1>19, FillStarts

LEMMA FillInit == Init => FillInv
<1> SUFFICES ASSUME Init PROVE FillInv
  OBVIOUS
<1>1. open = {} /\ flight = {} /\ \A o \in DagObjs : dag[o].dag = None /\ loop[o] = NewLoop
  BY DEF Init, NewDag
<1> QED BY <1>1 DEF FillInv, Live, FlightsRight

LEMMA FillNext == IndInv /\ FillInv /\ [Next]_vars => FillInv'
<1> SUFFICES ASSUME IndInv, FillInv, [Next]_vars PROVE FillInv'
  OBVIOUS
<1>1. CASE RunStarts
  BY <1>1, FillRun DEF RunStarts
<1>2. CASE LoopStep
  <2>1. PICK o \in open : \/ \E n \in NodesOf(o), p \in FreeNodes :
                                \/ Execute(o, n, p)
                                \/ Skip(o, n, p)
                                \/ \E q \in FreeDags : BeginSubflow(o, n, p, q)
                          \/ Abort(o)
                          \/ EndLoop(o)
    BY <1>2 DEF LoopStep
  <2>2. ASSUME NEW n \in NodesOf(o), NEW p \in FreeNodes, Execute(o, n, p) PROVE FillInv'
    BY <2>2, FillExecute
  <2>3. ASSUME NEW n \in NodesOf(o), NEW p \in FreeNodes, Skip(o, n, p) PROVE FillInv'
    BY <2>3, FillSkip
  <2>4. ASSUME NEW n \in NodesOf(o), NEW p \in FreeNodes, NEW q \in FreeDags, BeginSubflow(o, n, p, q)
        PROVE  FillInv'
    BY <2>4, FillBeginSubflow
  <2>5. CASE Abort(o)
    BY <2>5, FillAbort
  <2>6. CASE EndLoop(o)
    BY <2>6, FillEndLoop
  <2> QED BY <2>1, <2>2, <2>3, <2>4, <2>5, <2>6
<1>3. CASE Goroutine
  BY <1>3, FillEndSubflow, FillSubflowPanics DEF Goroutine
<1>4. ASSUME NEW c \in Callers, Return(c) PROVE FillInv'
  BY <1>4, FillReturn
<1>5. ASSUME NEW c \in Callers, ReleaseStep(c) PROVE FillInv'
  BY <1>5, FillRelease, FillResetNode, FillResetChild, FillPutNode, FillPutChild, FillPutRoot
     DEF ReleaseStep
<1>6. CASE UNCHANGED vars
  <2>1. UNCHANGED <<node, dag, open, flight, result, loop, aborted>>
    BY <1>6 DEF vars, objects, loops, callers
  <2>2. \A o \in open : Same(o) /\ InFlightOf(o)' = InFlightOf(o) /\ loop'[o] = loop[o]
    BY <2>1 DEF Same, Result, InFlightOf
  <2>3. \A o \in open : Working(o)'
    BY <2>1, <2>2, WorkingKept DEF FillInv
  <2> QED BY <2>1, <2>3, FillLoops
<1> QED BY <1>1, <1>2, <1>3, <1>4, <1>5, <1>6 DEF Next

(***************************************************************************)
(* A result says what its run did: nodes of its DAG only, whose routes were*)
(* taken with success and left out what is Skipped, and once its loop has  *)
(* ended Success is a result of every node; until it is released.          *)
(***************************************************************************)
THEOREM ResultsFilled == Spec => []FillInv
<1>1. Init => IndInv /\ FillInv
  BY InitIndInv, FillInit
<1>2. (IndInv /\ FillInv) /\ [Next]_vars => (IndInv /\ FillInv)'
  BY NextIndInv, FillNext
<1> QED BY <1>1, <1>2, PTL DEF Spec

-----------------------------------------------------------------------------
(***************************************************************************)
(* A result that has not been released is that of a DAG.                   *)
(***************************************************************************)
HasRun(c) == phase[c] \in {"run", "returned"}

Resulted == \A c \in Callers : HasRun(c) => dag[result[c]].dag # None

LEMMA ResultedKept ==
    ASSUME IndInv, Resulted,
           \A c \in Callers : HasRun(c)' => HasRun(c) /\ result'[c] = result[c],
           \A o \in DagObjs : dag[o].dag # None => dag'[o].dag # None
    PROVE  Resulted'
<1>1. \A c \in Callers : HasRun(c) => result[c] \in DagObjs
  BY DEF HasRun, IndInv, CallType
<1> QED BY <1>1 DEF Resulted

LEMMA ResultedStarts ==
    ASSUME IndInv, Resulted, RunStarts
    PROVE  Resulted'
<1>1. PICK c \in Callers, o \in FreeDags : \E d \in Entries[c] : Run(c, d, o) \/ RunRejected(c, d, o)
  BY DEF RunStarts
<1>2. PICK d \in Entries[c] : Run(c, d, o) \/ RunRejected(c, d, o)
  BY <1>1
<1>3. d \in Dags /\ d # None
  BY ResultsAssumption DEF ResultsAssumption
<1>4. AcquireDagResult(o) /\ result' = [result EXCEPT ![c] = o]
  BY <1>2 DEF Run, RunRejected
<1>5. o \in DagObjs /\ ~HeldDag(o)
  BY <1>4, AcquireDag DEF IndInv, DagsIdle
<1>6. dag'[o].dag = d /\ \A e \in DagObjs : e # o => dag'[e] = dag[e]
  BY <1>2, <1>3, <1>5 DEF Run, RunRejected, IndInv, ObjType, DagResults
<1>7. result'[c] = o /\ \A e \in Callers : e # c => result'[e] = result[e] /\ phase'[e] = phase[e]
  BY <1>2, <1>4 DEF Run, RunRejected, IndInv, CallType
<1>8. ASSUME NEW e \in Callers, HasRun(e)' PROVE dag'[result'[e]].dag # None
  <2>1. CASE e = c
    BY <1>3, <1>6, <1>7, <2>1
  <2>2. CASE e # c
    <3>1. HasRun(e) /\ result'[e] = result[e]
      BY <1>7, <1>8, <2>2 DEF HasRun
    <3>2. result[e] \in DagObjs /\ result[e] # o
      BY <1>5, <3>1 DEF HasRun, IndInv, CallType, HeldDag
    <3> QED BY <1>6, <3>1, <3>2 DEF Resulted
  <2> QED BY <2>1, <2>2
<1> QED BY <1>8 DEF Resulted

LEMMA ResultedRelease ==
    ASSUME IndInv, Resulted, NEW c \in Callers, ReleaseStep(c)
    PROVE  Resulted'
<1>1. CASE Release(c)
  <2>1. PICK o : o = result[c]
    OBVIOUS
  <2>2. /\ phase[c] = "returned" /\ phase' = [phase EXCEPT ![c] = "release"] /\ result' = result
        /\ dag' = [dag EXCEPT ![o].status = "Pending", ![o].dag = None]
    BY <1>1, <2>1 DEF Release, ClearedDag
  <2>3. o \in DagObjs /\ o # None
    <3>1. result[c] \in DagObjs /\ result[c] # None
      BY <2>2 DEF IndInv, CallType
    <3> QED BY <2>1, <3>1
  <2>4. \A e \in DagObjs : e # o => dag'[e] = dag[e]
    BY <2>2, <2>3 DEF IndInv, ObjType, DagResults
  <2>5. ASSUME NEW d \in Callers, HasRun(d)' PROVE dag'[result'[d]].dag # None
    <3>1. HasRun(d) /\ d # c /\ result'[d] = result[d]
      BY <2>2, <2>5 DEF HasRun, IndInv, CallType
    <3>2. result[d] \in DagObjs /\ result[d] # o
      BY <2>1, <2>3, <3>1 DEF HasRun, IndInv, CallType, DagsOnce
    <3> QED BY <2>4, <3>1, <3>2 DEF Resulted
  <2> QED BY <2>5 DEF Resulted
<1>2. CASE ResetNode(c)
  <2>1. UNCHANGED <<dag, result, phase>>
    BY <1>2 DEF ResetNode
  <2> QED BY <2>1, ResultedKept DEF HasRun
<1>3. CASE ResetChild(c)
  <2>1. /\ phase[c] = "release" /\ ~Odd(Depth(c)) /\ Depth(c) \in 1..Len(stack[c])
        /\ Resetting(c) = stack[c][Depth(c)]
    BY <1>3, Top DEF ResetChild, InNode, Resetting
  <2>2. PICK p, x : p = Resetting(c) /\ x = node[p].sub
    OBVIOUS
  <2>3. /\ x # None /\ dag' = [dag EXCEPT ![x].status = "Pending", ![x].dag = None]
        /\ UNCHANGED <<result, phase>>
    BY <1>3, <2>2 DEF ResetChild, ClearedDag
  <2>4. p \in NodeObjs
    BY <2>1, <2>2, OnStack
  <2>5. x \in DagObjs
    BY <2>2, <2>3, <2>4 DEF IndInv, ObjType, NodeResults
  <2>6. \A e \in DagObjs : e # x => dag'[e] = dag[e]
    BY <2>3, <2>5 DEF IndInv, ObjType, DagResults
  <2>7. ASSUME NEW d \in Callers, HasRun(d)' PROVE dag'[result'[d]].dag # None
    <3>1. HasRun(d) /\ result'[d] = result[d]
      BY <2>3, <2>7 DEF HasRun
    <3>2. result[d] \in DagObjs /\ result[d] # x
      BY <2>2, <2>4, <2>5, <3>1 DEF HasRun, IndInv, CallType, DagsOnce
    <3> QED BY <2>6, <3>1, <3>2 DEF Resulted
  <2> QED BY <2>7 DEF Resulted
<1>4. CASE PutNode(c)
  <2>1. PICK p, o : p = Resetting(c) /\ o = stack[c][Depth(c) - 1]
    OBVIOUS
  <2>2. /\ dag' = [dag EXCEPT ![o].results = [n \in Nodes |-> IF @[n] = p THEN None ELSE @[n]]]
        /\ UNCHANGED <<result, phase>>
    BY <1>4, <2>1 DEF PutNode
  <2>3. \A e \in DagObjs : dag'[e].dag = dag[e].dag
    BY <2>2 DEF IndInv, ObjType, DagResults
  <2> QED BY <2>2, <2>3, ResultedKept DEF HasRun
<1>5. CASE PutChild(c)
  <2>1. UNCHANGED <<dag, result, phase>>
    BY <1>5 DEF PutChild
  <2> QED BY <2>1, ResultedKept DEF HasRun
<1>6. CASE PutRoot(c)
  <2>1. /\ UNCHANGED dag /\ result' = [result EXCEPT ![c] = None]
        /\ phase' = [phase EXCEPT ![c] = "idle"]
    BY <1>6 DEF PutRoot, objects
  <2>2. \A d \in Callers : HasRun(d)' => HasRun(d) /\ result'[d] = result[d]
    BY <2>1 DEF HasRun, IndInv, CallType
  <2> QED BY <2>1, <2>2, ResultedKept
<1> QED BY <1>1, <1>2, <1>3, <1>4, <1>5, <1>6 DEF ReleaseStep

LEMMA ResultedLoop ==
    ASSUME IndInv, Resulted, LoopStep
    PROVE  Resulted'
<1>1. PICK o \in open : \/ \E n \in NodesOf(o), p \in FreeNodes :
                              \/ Execute(o, n, p)
                              \/ Skip(o, n, p)
                              \/ \E q \in FreeDags : BeginSubflow(o, n, p, q)
                        \/ Abort(o)
                        \/ EndLoop(o)
  BY DEF LoopStep
<1>2. o \in DagObjs
  BY NotFilled
<1>3. ASSUME NEW n \in NodesOf(o), NEW p \in FreeNodes, Execute(o, n, p) \/ Skip(o, n, p)
      PROVE  Resulted'
  <2>1. dag' = Recorded(o, n, p) /\ acquireNodeResult(p) /\ UNCHANGED callers
    BY <1>3 DEF Execute, Skip
  <2>2. n \in Nodes /\ p \in NodeObjs
    BY <2>1, AcquireNode DEF NodesOf, IndInv
  <2>3. \A e \in DagObjs : dag'[e].dag = dag[e].dag
    BY <1>2, <2>1, <2>2, RecordedTable DEF IndInv
  <2> QED BY <2>1, <2>3, ResultedKept DEF HasRun, callers
<1>4. ASSUME NEW n \in NodesOf(o), NEW p \in FreeNodes, NEW q \in FreeDags, BeginSubflow(o, n, p, q)
      PROVE  Resulted'
  <2>1. dag' = [dag EXCEPT ![q].dag = Child[n]] /\ Child[n] # None /\ UNCHANGED callers
    BY <1>4 DEF BeginSubflow
  <2>2. \A e \in DagObjs : dag[e].dag # None => dag'[e].dag # None
    BY <2>1 DEF IndInv, ObjType, DagResults
  <2> QED BY <2>1, <2>2, ResultedKept DEF HasRun, callers
<1>5. CASE Abort(o)
  <2>1. UNCHANGED <<objects, callers>>
    BY <1>5 DEF Abort
  <2> QED BY <2>1, ResultedKept DEF HasRun, callers, objects
<1>6. CASE EndLoop(o)
  <2>1. UNCHANGED callers /\ \A e \in DagObjs : dag'[e].dag = dag[e].dag
    BY <1>2, <1>6 DEF EndLoop, IndInv, ObjType, DagResults
  <2> QED BY <2>1, ResultedKept DEF HasRun, callers
<1> QED BY <1>1, <1>3, <1>4, <1>5, <1>6

LEMMA ResultedGoroutine ==
    ASSUME IndInv, Resulted, Goroutine
    PROVE  Resulted'
<1>1. PICK f \in flight : EndSubflow(f) \/ SubflowPanics(f)
  BY DEF Goroutine
<1>2. dag' = SentDag(f) /\ Heard(f) /\ UNCHANGED callers
  BY <1>1 DEF EndSubflow, SubflowPanics
<1>3. \A e \in DagObjs : dag'[e].dag = dag[e].dag
  <2>1. f.nr \in NodeObjs /\ f.node \in Nodes /\ (f.parent # None => f.parent \in DagObjs)
    BY <1>1 DEF IndInv, LoopType
  <2>2. CASE f.parent = None
    BY <1>2, <2>2 DEF SentDag
  <2>3. CASE f.parent # None
    <3>1. dag' = Recorded(f.parent, f.node, f.nr)
      BY <1>2, <2>3 DEF SentDag
    <3> QED BY <2>1, <2>3, <3>1, RecordedTable DEF IndInv
  <2> QED BY <2>2, <2>3
<1> QED BY <1>2, <1>3, ResultedKept DEF HasRun, callers

LEMMA ResultedNext == IndInv /\ Resulted /\ [Next]_vars => Resulted'
<1> SUFFICES ASSUME IndInv, Resulted, [Next]_vars PROVE Resulted'
  OBVIOUS
<1>1. ASSUME NEW c \in Callers, Return(c) PROVE Resulted'
  <2>1. /\ phase[c] = "run" /\ phase' = [phase EXCEPT ![c] = "returned"]
        /\ UNCHANGED <<dag, result>>
    BY <1>1 DEF Return, objects
  <2>2. \A d \in Callers : HasRun(d)' => HasRun(d)
    BY <2>1 DEF HasRun, IndInv, CallType
  <2> QED BY <2>1, <2>2, ResultedKept
<1>2. CASE UNCHANGED vars
  BY <1>2, ResultedKept DEF vars, objects, callers, HasRun
<1> QED BY <1>1, <1>2, ResultedStarts, ResultedLoop, ResultedGoroutine, ResultedRelease DEF Next

LEMMA ResultedInit == Init => Resulted
BY DEF Init, Resulted, HasRun

(***************************************************************************)
(* Whole results: held, and no loop fills them any more.                   *)
(***************************************************************************)
Whole(o) == o \in DagObjs /\ Live(o) /\ o \notin open

Nests(o, n) == Result(o, n).sub # None

LEMMA WholeReturned ==
    ASSUME IndInv, Resulted, NEW c \in Callers, phase[c] = "returned"
    PROVE  Whole(result[c])
<1>1. result[c] \in DagObjs /\ dag[result[c]].dag # None
  BY DEF IndInv, CallType, Resulted, HasRun
<1>2. result[c] \notin open
  BY NotFilled
<1> QED BY <1>1, <1>2 DEF Whole, Live, HeldDag

LEMMA WholeFacts ==
    ASSUME IndInv, FillInv, NEW o, Whole(o)
    PROVE  /\ o \in DagObjs /\ dag[o].status \in {"Success", "Failed"}
           /\ Reported(o) \subseteq NodesOf(o) /\ NodesOf(o) \subseteq Nodes
           /\ dag[o].status = "Success" => NodesOf(o) \subseteq Reported(o)
           /\ \A n, m \in Nodes : LeavesOut(o, n, m) => SkippedIn(o, m)
           /\ \A n \in Reported(o) : /\ RightResult(o, n)
                                     /\ Traced(o, n) <=> Nests(o, n)
                                     /\ Nests(o, n) => Whole(Result(o, n).sub)
<1>1. o \in DagObjs /\ Filled(o) /\ Ended(o) /\ NodesOf(o) \subseteq Nodes
  BY DEF Whole, FillInv, Filled, NodesOf
<1>2. ASSUME NEW n \in Reported(o)
      PROVE  /\ RightResult(o, n)
             /\ Traced(o, n) <=> Nests(o, n)
             /\ Nests(o, n) => Whole(Result(o, n).sub)
  <2>1. RightResult(o, n)
    BY <1>1 DEF Filled
  <2>2. Traced(o, n) <=> Nests(o, n)
    BY <2>1 DEF RightResult, Traced, Nests
  <2>3. ASSUME Nests(o, n) PROVE Whole(Result(o, n).sub)
    <3>1. Result(o, n).sub \in DagObjs
      BY <1>1, <2>3, ReportedType DEF Nests, IndInv
    <3>2. dag[o].results[n] \in NodeObjs
      BY <1>1 DEF Reported, HasResult, IndInv, ObjType, DagResults
    <3>3. HeldDag(Result(o, n).sub)
      BY <3>2 DEF HeldDag, Result
    <3> QED BY <2>1, <2>3, <3>1, <3>3 DEF RightResult, Nests, Whole, Live
  <2> QED BY <2>1, <2>2, <2>3
<1> QED BY <1>1, <1>2 DEF Filled, Ended

-----------------------------------------------------------------------------
(***************************************************************************)
(* The flame graph, call by call.                                          *)
(***************************************************************************)
Lines == [path : Seq(Nodes), took : Nat]

Flames == [DagObjs -> [Seq(Nodes) -> Seq(Lines)]]

BelowLines(nested, o, n, path) ==
    IF Nests(o, n) THEN nested[Result(o, n).sub][Append(path, n)] ELSE <<>>

LEMMA LineType ==
    ASSUME NEW o, NEW n \in Nodes, NEW path \in Seq(Nodes)
    PROVE  /\ FlameLine(o, n, path) \in Lines /\ FlameLine(o, n, path).path = Append(path, n)
           /\ FlameLine(o, n, path).took = Took(o, n) /\ Took(o, n) \in Nat
<1>1. Took(o, n) \in Nat
  BY ExportsAssumption DEF ExportsAssumption, Took
<1>2. Append(path, n) \in Seq(Nodes)
  BY AppendType
<1> QED BY <1>1, <1>2 DEF FlameLine, Lines

LEMMA FlameForm ==
    ASSUME ObjType, NEW o \in DagObjs, NEW path \in Seq(Nodes), NEW nested,
           NEW w, w = collectFlamegraph(nested, o, path)
    PROVE  \E names : /\ Lists(names, Reported(o))
                      /\ names = SlowestFirst(o, SetToSeq(Reported(o)))
                      /\ w = Walked(names, [n \in Reported(o) |-> FlameLine(o, n, path)],
                                    [n \in Reported(o) |-> BelowLines(nested, o, n, path)])
                      /\ \A i, j \in DOMAIN names :
                            i < j => Took(o, names[i]) >= Took(o, names[j])
<1>1. PICK S, names, own, below :
         /\ S = Reported(o) /\ names = SlowestFirst(o, SetToSeq(S))
         /\ own = [n \in S |-> FlameLine(o, n, path)]
         /\ below = [n \in S |-> BelowLines(nested, o, n, path)]
  OBVIOUS
<1>2. S \in SUBSET Nodes
  BY <1>1, ReportedType
<1>3. Lists(names, S) /\ \A i, j \in DOMAIN names : i < j => Took(o, names[i]) >= Took(o, names[j])
  <2>1. PICK key \in [Nodes -> Int] : key = [n \in Nodes |-> Took(o, n)]
    BY TookType
  <2>2. Lists(SetToSeq(S), S)
    BY <1>2, ListsOf
  <2>3. names = Sorted[[list |-> SetToSeq(S), at |-> 1, key |-> key]]
    BY <1>1, <2>1 DEF SlowestFirst
  <2>4. Lists(names, S) /\ Len(names) = Len(SetToSeq(S)) /\ Falls(names, key, Len(SetToSeq(S)))
    BY <2>2, <2>3, SortedCorrect
  <2>5. DOMAIN names = 1..Len(names) /\ \A i \in 1..Len(names) : names[i] \in Nodes
    BY <2>4, InRange DEF Lists
  <2> QED BY <2>1, <2>4, <2>5 DEF Falls
<1>4. w = Walked(names, own, below)
  <2>1. \A i \in DOMAIN names : names[i] \in S
    BY <1>3 DEF Lists, Range
  <2>2. \A i \in DOMAIN names : own[names[i]] = FlameLine(o, names[i], path)
           /\ below[names[i]] = BelowLines(nested, o, names[i], path)
    BY <1>1, <2>1
  <2>3. PICK t : t = [i \in DOMAIN names |-> <<own[names[i]]>> \o below[names[i]]]
    OBVIOUS
  <2>4. t = [i \in DOMAIN names |-> <<FlameLine(o, names[i], path)>>
                                    \o BelowLines(nested, o, names[i], path)]
    BY <2>2, <2>3
  <2>5. w = FlattenSeq([i \in DOMAIN names |-> <<FlameLine(o, names[i], path)>>
                                    \o BelowLines(nested, o, names[i], path)])
    BY <1>1 DEF collectFlamegraph, BelowLines, Nests
  <2> QED BY <2>3, <2>4, <2>5 DEF Walked
<1> QED BY <1>1, <1>3, <1>4

LEMMA FlameStep ==
    ASSUME ObjType, NEW nested \in Flames, NEW o \in DagObjs, NEW path \in Seq(Nodes),
           NEW w, w = collectFlamegraph(nested, o, path)
    PROVE  /\ w \in Seq(Lines)
           /\ \A p : p \in Range(w) <=>
                 \E n \in Reported(o) :
                    p = FlameLine(o, n, path) \/ p \in Range(BelowLines(nested, o, n, path))
           /\ \A K : /\ \A n \in Reported(o) : Once(BelowLines(nested, o, n, path), K)
                     /\ \A n \in Reported(o) : \A p \in Range(BelowLines(nested, o, n, path)) :
                           K[p] # K[FlameLine(o, n, path)]
                     /\ \A n, m \in Reported(o) : n # m =>
                           \A p \in {FlameLine(o, n, path)} \cup Range(BelowLines(nested, o, n, path)),
                              q \in {FlameLine(o, m, path)} \cup Range(BelowLines(nested, o, m, path)) :
                              K[p] # K[q]
                     => Once(w, K)
           /\ \A R : /\ \A n \in Reported(o) : InOrder(BelowLines(nested, o, n, path), R)
                     /\ \A n \in Reported(o) : \A p \in Range(BelowLines(nested, o, n, path)) :
                           <<FlameLine(o, n, path), p>> \in R
                     /\ \A n, m \in Reported(o) : n # m /\ Took(o, n) >= Took(o, m) =>
                           \A p \in {FlameLine(o, n, path)} \cup Range(BelowLines(nested, o, n, path)),
                              q \in {FlameLine(o, m, path)} \cup Range(BelowLines(nested, o, m, path)) :
                              <<p, q>> \in R
                     => InOrder(w, R)
<1>1. PICK S, own, below :
         /\ S = Reported(o)
         /\ own = [n \in S |-> FlameLine(o, n, path)]
         /\ below = [n \in S |-> BelowLines(nested, o, n, path)]
  OBVIOUS
<1>2. S \in SUBSET Nodes
  BY <1>1, ReportedType
<1>3. PICK names : /\ Lists(names, S) /\ w = Walked(names, own, below)
                   /\ \A i, j \in DOMAIN names : i < j => Took(o, names[i]) >= Took(o, names[j])
  <2>1. PICK names :
           /\ Lists(names, Reported(o))
           /\ w = Walked(names, [n \in Reported(o) |-> FlameLine(o, n, path)],
                         [n \in Reported(o) |-> BelowLines(nested, o, n, path)])
           /\ \A i, j \in DOMAIN names : i < j => Took(o, names[i]) >= Took(o, names[j])
    BY FlameForm
  <2>2. Lists(names, S) /\ w = Walked(names, own, below)
    BY <1>1, <2>1
  <2> QED BY <2>1, <2>2
<1>4. own \in [S -> Lines]
  <2>1. \A n \in S : FlameLine(o, n, path) \in Lines
    BY <1>2, LineType
  <2> QED BY <1>1, <2>1
<1>5. below \in [S -> Seq(Lines)]
  <2>1. ASSUME NEW n \in S PROVE BelowLines(nested, o, n, path) \in Seq(Lines)
    <3>1. CASE Nests(o, n)
      <4>1. Result(o, n).sub \in DagObjs /\ Append(path, n) \in Seq(Nodes)
        BY <1>1, <1>2, <3>1, ReportedType, AppendType DEF Nests
      <4> QED BY <3>1, <4>1 DEF BelowLines, Flames
    <3>2. CASE ~Nests(o, n)
      BY <3>2, EmptySeq DEF BelowLines
    <3> QED BY <3>1, <3>2
  <2> QED BY <1>1, <2>1
<1>7. /\ w \in Seq(Lines) /\ Gathers(w, S, own, below)
      /\ \A K : Distinct(S, own, below, K) => Once(w, K)
      /\ \A R : Ordered(names, S, own, below, R) => InOrder(w, R)
  <2>1. PICK V : V = Lines
    OBVIOUS
  <2>2. own \in [S -> V] /\ below \in [S -> Seq(V)]
    BY <1>4, <1>5, <2>1
  <2>3. /\ w \in Seq(V) /\ Gathers(w, S, own, below)
        /\ \A K : Distinct(S, own, below, K) => Once(w, K)
        /\ \A R : Ordered(names, S, own, below, R) => InOrder(w, R)
    BY <1>3, <2>2, Walk
  <2> QED BY <2>1, <2>3
<1>8. \A n \in S : own[n] = FlameLine(o, n, path) /\ below[n] = BelowLines(nested, o, n, path)
  BY <1>1
<1>9. \A p : p \in Range(w) <=>
         \E n \in Reported(o) :
            p = FlameLine(o, n, path) \/ p \in Range(BelowLines(nested, o, n, path))
  BY <1>1, <1>7, <1>8 DEF Gathers
<1>10. ASSUME NEW K, \A n \in Reported(o) : Once(BelowLines(nested, o, n, path), K),
              \A n \in Reported(o) : \A p \in Range(BelowLines(nested, o, n, path)) :
                 K[p] # K[FlameLine(o, n, path)],
              \A n, m \in Reported(o) : n # m =>
                 \A p \in {FlameLine(o, n, path)} \cup Range(BelowLines(nested, o, n, path)),
                    q \in {FlameLine(o, m, path)} \cup Range(BelowLines(nested, o, m, path)) :
                    K[p] # K[q]
       PROVE  Once(w, K)
  <2>1. \A n \in S : Once(below[n], K)
    BY <1>1, <1>8, <1>10
  <2>2. \A n \in S : \A v \in Range(below[n]) : K[v] # K[own[n]]
    BY <1>1, <1>8, <1>10
  <2>3. ASSUME NEW n \in S, NEW m \in S, n # m, NEW v \in {own[n]} \cup Range(below[n]),
               NEW x \in {own[m]} \cup Range(below[m])
        PROVE  K[v] # K[x]
    <3>1. v \in {FlameLine(o, n, path)} \cup Range(BelowLines(nested, o, n, path))
          /\ x \in {FlameLine(o, m, path)} \cup Range(BelowLines(nested, o, m, path))
      BY <1>8, <2>3
    <3> QED BY <1>1, <1>10, <2>3, <3>1
  <2> QED BY <1>7, <2>1, <2>2, <2>3 DEF Distinct
<1>11. ASSUME NEW R, \A n \in Reported(o) : InOrder(BelowLines(nested, o, n, path), R),
              \A n \in Reported(o) : \A p \in Range(BelowLines(nested, o, n, path)) :
                 <<FlameLine(o, n, path), p>> \in R,
              \A n, m \in Reported(o) : n # m /\ Took(o, n) >= Took(o, m) =>
                 \A p \in {FlameLine(o, n, path)} \cup Range(BelowLines(nested, o, n, path)),
                    q \in {FlameLine(o, m, path)} \cup Range(BelowLines(nested, o, m, path)) :
                    <<p, q>> \in R
       PROVE  InOrder(w, R)
  <2>1. \A n \in S : InOrder(below[n], R)
    BY <1>1, <1>8, <1>11
  <2>2. \A n \in S : \A v \in Range(below[n]) : <<own[n], v>> \in R
    BY <1>1, <1>8, <1>11
  <2>3. ASSUME NEW i \in DOMAIN names, NEW j \in DOMAIN names, i < j,
               NEW v \in {own[names[i]]} \cup Range(below[names[i]]),
               NEW x \in {own[names[j]]} \cup Range(below[names[j]])
        PROVE  <<v, x>> \in R
    <3>1. PICK n \in S, m \in S : n = names[i] /\ m = names[j]
      BY <1>3 DEF Lists, Range
    <3>2. i # j
      <4>1. i \in Nat /\ j \in Nat
        BY <1>3, InRange DEF Lists
      <4> QED BY <2>3, <4>1
    <3>3. n # m /\ Took(o, n) >= Took(o, m)
      BY <1>3, <2>3, <3>1, <3>2 DEF Lists, IsInjective
    <3>4. v \in {FlameLine(o, n, path)} \cup Range(BelowLines(nested, o, n, path))
          /\ x \in {FlameLine(o, m, path)} \cup Range(BelowLines(nested, o, m, path))
      BY <1>8, <2>3, <3>1
    <3> QED BY <1>1, <1>11, <3>3, <3>4
  <2>4. Ordered(names, S, own, below, R)
    BY <2>1, <2>2, <2>3 DEF Ordered
  <2> QED BY <1>7, <2>4
<1> QED BY <1>7, <1>9, <1>10, <1>11

LEMMA FlameLoop ==
    ASSUME ObjType
    PROVE  /\ FlameLines \in [Nat -> Flames]
           /\ \A o \in DagObjs : \A path \in Seq(Nodes) : FlameLines[0][o][path] = <<>>
           /\ \A k \in Nat : \A o \in DagObjs : \A path \in Seq(Nodes) :
                 FlameLines[k + 1][o][path] = collectFlamegraph(FlameLines[k], o, path)
<1>1. PICK base : base = [o \in DagObjs |-> [path \in Seq(Nodes) |-> <<>>]]
  OBVIOUS
<1>2. base \in Flames
  BY <1>1, EmptySeq DEF Flames
<1>3. PICK step : step = [x \in Nat \X Flames |->
         [o \in DagObjs |-> [path \in Seq(Nodes) |-> collectFlamegraph(x[2], o, path)]]]
  OBVIOUS
<1>4. step \in [Nat \X Flames -> Flames]
  <2>1. ASSUME NEW x \in Nat \X Flames
        PROVE  [o \in DagObjs |-> [path \in Seq(Nodes) |-> collectFlamegraph(x[2], o, path)]]
               \in Flames
    <3>1. PICK nested \in Flames : nested = x[2]
      OBVIOUS
    <3>2. \A o \in DagObjs : \A path \in Seq(Nodes) :
             collectFlamegraph(nested, o, path) \in Seq(Lines)
      BY FlameStep
    <3> QED BY <3>1, <3>2 DEF Flames
  <2> QED BY <1>3, <2>1
<1>5. PICK g : Iterates(g, Flames, base, step)
  BY <1>2, <1>4, Recursion
<1>6. g \in [Nat -> Flames] /\ g[0] = base /\ \A k \in Nat : g[k + 1] = step[<<k, g[k]>>]
  BY <1>5 DEF Iterates
<1>7. ASSUME NEW k \in Nat
      PROVE  g[k + 1] = [o \in DagObjs |-> [path \in Seq(Nodes) |->
                            collectFlamegraph(g[k], o, path)]]
  BY <1>3, <1>6
<1>8. ASSUME NEW d \in Nat
      PROVE  g[d] = IF d = 0 THEN base
                    ELSE [o \in DagObjs |-> [path \in Seq(Nodes) |->
                             collectFlamegraph(g[d - 1], o, path)]]
  <2>1. CASE d = 0
    BY <1>6, <2>1
  <2>2. CASE d # 0
    <3>1. d - 1 \in Nat /\ (d - 1) + 1 = d
      BY <2>2
    <3> QED BY <1>7, <2>2, <3>1
  <2> QED BY <2>1, <2>2
<1>9. g = [d \in Nat |-> IF d = 0 THEN [o \in DagObjs |-> [path \in Seq(Nodes) |-> <<>>]]
                         ELSE [o \in DagObjs |-> [path \in Seq(Nodes) |->
                                  collectFlamegraph(g[d - 1], o, path)]]]
  BY <1>1, <1>6, <1>8
<1>10. FlameLines = [d \in Nat |-> IF d = 0 THEN [o \in DagObjs |-> [path \in Seq(Nodes) |-> <<>>]]
                         ELSE [o \in DagObjs |-> [path \in Seq(Nodes) |->
                                  collectFlamegraph(FlameLines[d - 1], o, path)]]]
  BY <1>9 DEF FlameLines
<1>11. ASSUME NEW d \in Nat
       PROVE  FlameLines[d] = IF d = 0 THEN base
                               ELSE [o \in DagObjs |-> [path \in Seq(Nodes) |->
                                        collectFlamegraph(FlameLines[d - 1], o, path)]]
  BY <1>1, <1>10
<1>20. FlameLines[0] = base
  BY <1>11
<1>21. ASSUME NEW d \in Nat, d # 0
       PROVE  FlameLines[d] = [o \in DagObjs |-> [path \in Seq(Nodes) |->
                                        collectFlamegraph(FlameLines[d - 1], o, path)]]
  BY <1>11, <1>21
<1>22. ASSUME NEW d \in Nat, d # 0, NEW o \in DagObjs, NEW path \in Seq(Nodes)
       PROVE  FlameLines[d][o][path] = collectFlamegraph(FlameLines[d - 1], o, path)
  <2>1. FlameLines[d] = [e \in DagObjs |-> [q \in Seq(Nodes) |->
                              collectFlamegraph(FlameLines[d - 1], e, q)]]
    BY <1>21, <1>22
  <2>2. FlameLines[d][o] = [q \in Seq(Nodes) |-> collectFlamegraph(FlameLines[d - 1], o, q)]
    BY <2>1
  <2> QED BY <2>2
<1>12. ASSUME NEW k \in Nat, FlameLines[k] \notin Flames PROVE FALSE
  <2>1. PICK T : T = {d \in Nat : FlameLines[d] \notin Flames}
    OBVIOUS
  <2>2. PICK d \in T : \A j \in T : d <= j
    BY <1>12, <2>1, LeastOf
  <2>3. d \in Nat /\ FlameLines[d] \notin Flames
    BY <2>1
  <2>4. d # 0
    BY <1>2, <1>20, <2>3
  <2>5. d - 1 \in Nat /\ ~(d <= d - 1)
    BY <2>3, <2>4
  <2>6. PICK nested \in Flames : nested = FlameLines[d - 1]
    <3>1. d - 1 \notin T
      BY <2>2, <2>5
    <3> QED BY <2>1, <2>5, <3>1
  <2>7. \A o \in DagObjs : \A path \in Seq(Nodes) :
           collectFlamegraph(FlameLines[d - 1], o, path) \in Seq(Lines)
    BY <2>6, FlameStep
  <2>8. [o \in DagObjs |-> [path \in Seq(Nodes) |->
            collectFlamegraph(FlameLines[d - 1], o, path)]] \in Flames
    BY <2>7 DEF Flames
  <2>9. FlameLines[d] \in Flames
    BY <1>21, <2>3, <2>4, <2>8
  <2> QED BY <2>3, <2>9
<1>13. FlameLines \in [Nat -> Flames]
  <2>1. FlameLines = [k \in Nat |-> FlameLines[k]]
    BY <1>10
  <2> QED BY <1>12, <2>1
<1>14. ASSUME NEW k \in Nat, NEW o \in DagObjs, NEW path \in Seq(Nodes)
       PROVE  FlameLines[k + 1][o][path] = collectFlamegraph(FlameLines[k], o, path)
  <2>1. k + 1 \in Nat /\ k + 1 # 0 /\ (k + 1) - 1 = k
    OBVIOUS
  <2>2. FlameLines[k + 1][o][path] = collectFlamegraph(FlameLines[(k + 1) - 1], o, path)
    BY <1>22, <2>1
  <2> QED BY <2>1, <2>2
<1>15. \A o \in DagObjs : \A path \in Seq(Nodes) : FlameLines[0][o][path] = <<>>
  BY <1>1, <1>20
<1> QED BY <1>13, <1>14, <1>15

-----------------------------------------------------------------------------
(***************************************************************************)
(* The graph, call by call.                                                *)
(***************************************************************************)
DotNodes == [path : Seq(Nodes), status : Statuses \cup {"none"}]
DotEdges == [from : Seq(Nodes), to : Seq(Nodes),
             style : {"selected", "unselected", "open", "skipped", "plain", "subflow"}]

Shapes  == [nodes : SUBSET DotNodes, edges : SUBSET DotEdges]
NoShape == [nodes |-> {}, edges |-> {}]

Graphs == [DagObjs -> [Seq(Nodes) -> Shapes]]

Inner(nested, o, n, path) == nested[Result(o, n).sub][Append(path, n)]

LEMMA NoShapeType == NoShape \in Shapes
BY DEF NoShape, Shapes

LEMMA DotStep ==
    ASSUME ObjType, NEW nested \in Graphs, NEW o \in DagObjs, NEW path \in Seq(Nodes),
           NEW w, w = writeExecutionDAG(nested, o, path)
    PROVE  /\ w \in Shapes
           /\ \A x : x \in w.nodes <=>
                 \/ \E n \in NodesOf(o) : x = DotNode(o, n, path)
                 \/ \E n \in NodesOf(o) : HasResult(o, n) /\ Nests(o, n)
                                          /\ x \in Inner(nested, o, n, path).nodes
           /\ \A e : e \in w.edges <=>
                 \/ \E n \in NodesOf(o) : \E m \in Deps[n] : e = DotEdge(o, m, n, path)
                 \/ \E n \in NodesOf(o) : HasResult(o, n) /\ Nests(o, n)
                       /\ e \in Inner(nested, o, n, path).edges \cup SubflowEdges(o, n, path)
<1> DEFINE C == {n \in NodesOf(o) : HasResult(o, n) /\ Nests(o, n)}
           N == {DotNode(o, n, path) : n \in NodesOf(o)}
                \cup UNION {Inner(nested, o, n, path).nodes : n \in C}
           A == UNION {{DotEdge(o, m, n, path) : m \in Deps[n]} : n \in NodesOf(o)}
           B == UNION {Inner(nested, o, n, path).edges \cup SubflowEdges(o, n, path) : n \in C}
<1>1. w = [nodes |-> N, edges |-> A \cup B]
  <2>1. w = [nodes |-> {DotNode(o, n, path) : n \in NodesOf(o)}
                       \cup UNION {Inner(nested, o, n, path).nodes : n \in C},
             edges |-> (UNION {{DotEdge(o, m, n, path) : m \in Deps[n]} : n \in NodesOf(o)})
                       \cup UNION {Inner(nested, o, n, path).edges \cup SubflowEdges(o, n, path)
                                   : n \in C}]
    BY DEF writeExecutionDAG, Inner, Nests
  <2> QED BY <2>1
<1>2. \A n : n \in C <=> n \in NodesOf(o) /\ HasResult(o, n) /\ Nests(o, n)
  OBVIOUS
<1> HIDE DEF C
<1>3. \A x : x \in w.nodes <=>
         \/ \E n \in NodesOf(o) : x = DotNode(o, n, path)
         \/ \E n \in C : x \in Inner(nested, o, n, path).nodes
  <2>1. \A x : x \in N <=> \/ \E n \in NodesOf(o) : x = DotNode(o, n, path)
                           \/ \E n \in C : x \in Inner(nested, o, n, path).nodes
    OBVIOUS
  <2> HIDE DEF N, A, B
  <2> QED BY <1>1, <2>1
<1>4. \A e : e \in w.edges <=>
         \/ \E n \in NodesOf(o) : \E m \in Deps[n] : e = DotEdge(o, m, n, path)
         \/ \E n \in C : e \in Inner(nested, o, n, path).edges \cup SubflowEdges(o, n, path)
  <2>1. \A e : e \in A <=> \E n \in NodesOf(o) : \E m \in Deps[n] : e = DotEdge(o, m, n, path)
    OBVIOUS
  <2>2. \A e : e \in B <=>
           \E n \in C : e \in Inner(nested, o, n, path).edges \cup SubflowEdges(o, n, path)
    OBVIOUS
  <2> HIDE DEF N, A, B
  <2> QED BY <1>1, <2>1, <2>2
<1>5. NodesOf(o) \subseteq Nodes /\ \A n \in Nodes : Deps[n] \in SUBSET Nodes
  BY ResultsAssumption DEF ResultsAssumption, NodesOf
<1>6. ASSUME NEW n \in NodesOf(o) PROVE DotNode(o, n, path) \in DotNodes
  <2>1. Append(path, n) \in Seq(Nodes)
    BY <1>5, AppendType
  <2>2. HasResult(o, n) => Result(o, n).status \in Statuses
    BY <1>5, ReportedType DEF Reported, NodeResults
  <2> QED BY <2>1, <2>2 DEF DotNode, DotNodes
<1>7. ASSUME NEW n \in NodesOf(o), NEW m \in Deps[n] PROVE DotEdge(o, m, n, path) \in DotEdges
  <2>1. m \in Nodes /\ Append(path, n) \in Seq(Nodes) /\ Append(path, m) \in Seq(Nodes)
    BY <1>5, AppendType
  <2> QED BY <2>1 DEF DotEdge, DotEdges, executionEdgeAttributes
<1>8. ASSUME NEW n \in C
      PROVE  /\ Inner(nested, o, n, path) \in Shapes
             /\ SubflowEdges(o, n, path) \subseteq DotEdges
  <2>1. n \in Nodes /\ n \in Reported(o) /\ Nests(o, n)
    BY <1>2, <1>5 DEF Reported
  <2>2. Append(path, n) \in Seq(Nodes) /\ Result(o, n).sub \in DagObjs
    BY <2>1, AppendType, ReportedType DEF Nests
  <2>3. ASSUME NEW r \in Nodes PROVE Append(Append(path, n), r) \in Seq(Nodes)
    BY <2>2, AppendType
  <2>4. SubflowEdges(o, n, path) \subseteq DotEdges
    <3>1. ASSUME NEW r \in Nodes
          PROVE  [from |-> Append(path, n), to |-> Append(Append(path, n), r),
                  style |-> "subflow"] \in DotEdges
      BY <2>2, <2>3 DEF DotEdges
    <3>2. dagRootNodeNames(Result(o, n).sub) \subseteq Nodes
      BY DEF dagRootNodeNames, NodesOf
    <3> QED BY <3>1, <3>2 DEF SubflowEdges
  <2> QED BY <2>2, <2>4 DEF Inner, Graphs
<1>9. w.nodes \subseteq DotNodes
  <2>1. \A n \in C : Inner(nested, o, n, path).nodes \subseteq DotNodes
    BY <1>8 DEF Shapes
  <2> QED BY <1>3, <1>6, <2>1
<1>10. w.edges \subseteq DotEdges
  <2>1. \A n \in C : Inner(nested, o, n, path).edges \subseteq DotEdges
    BY <1>8 DEF Shapes
  <2> QED BY <1>4, <1>7, <1>8, <2>1
<1>11. w \in Shapes
  <2>1. PICK X, Y : w = [nodes |-> X, edges |-> Y]
    BY <1>1
  <2> QED BY <1>9, <1>10, <2>1 DEF Shapes
<1> QED BY <1>2, <1>3, <1>4, <1>11

LEMMA DotLoop ==
    ASSUME ObjType
    PROVE  /\ DotGraph \in [Nat -> Graphs]
           /\ \A o \in DagObjs : \A path \in Seq(Nodes) : DotGraph[0][o][path] = NoShape
           /\ \A k \in Nat : \A o \in DagObjs : \A path \in Seq(Nodes) :
                 DotGraph[k + 1][o][path] = writeExecutionDAG(DotGraph[k], o, path)
<1>1. PICK base : base = [o \in DagObjs |-> [path \in Seq(Nodes) |-> NoShape]]
  OBVIOUS
<1>2. base \in Graphs
  BY <1>1, NoShapeType DEF Graphs
<1>3. PICK step : step = [x \in Nat \X Graphs |->
         [o \in DagObjs |-> [path \in Seq(Nodes) |-> writeExecutionDAG(x[2], o, path)]]]
  OBVIOUS
<1>4. step \in [Nat \X Graphs -> Graphs]
  <2>1. ASSUME NEW x \in Nat \X Graphs
        PROVE  [o \in DagObjs |-> [path \in Seq(Nodes) |-> writeExecutionDAG(x[2], o, path)]]
               \in Graphs
    <3>1. PICK nested \in Graphs : nested = x[2]
      OBVIOUS
    <3>2. \A o \in DagObjs : \A path \in Seq(Nodes) :
             writeExecutionDAG(nested, o, path) \in Shapes
      BY DotStep
    <3> QED BY <3>1, <3>2 DEF Graphs
  <2> QED BY <1>3, <2>1
<1>5. PICK g : Iterates(g, Graphs, base, step)
  BY <1>2, <1>4, Recursion
<1>6. g \in [Nat -> Graphs] /\ g[0] = base /\ \A k \in Nat : g[k + 1] = step[<<k, g[k]>>]
  BY <1>5 DEF Iterates
<1>7. ASSUME NEW k \in Nat
      PROVE  g[k + 1] = [o \in DagObjs |-> [path \in Seq(Nodes) |->
                            writeExecutionDAG(g[k], o, path)]]
  BY <1>3, <1>6
<1>8. ASSUME NEW d \in Nat
      PROVE  g[d] = IF d = 0 THEN base
                    ELSE [o \in DagObjs |-> [path \in Seq(Nodes) |->
                             writeExecutionDAG(g[d - 1], o, path)]]
  <2>1. CASE d = 0
    BY <1>6, <2>1
  <2>2. CASE d # 0
    <3>1. d - 1 \in Nat /\ (d - 1) + 1 = d
      BY <2>2
    <3> QED BY <1>7, <2>2, <3>1
  <2> QED BY <2>1, <2>2
<1>9. g = [d \in Nat |-> IF d = 0 THEN [o \in DagObjs |-> [path \in Seq(Nodes) |-> NoShape]]
                         ELSE [o \in DagObjs |-> [path \in Seq(Nodes) |->
                                  writeExecutionDAG(g[d - 1], o, path)]]]
  BY <1>1, <1>6, <1>8
<1>10. DotGraph = [d \in Nat |-> IF d = 0 THEN [o \in DagObjs |-> [path \in Seq(Nodes) |-> NoShape]]
                         ELSE [o \in DagObjs |-> [path \in Seq(Nodes) |->
                                  writeExecutionDAG(DotGraph[d - 1], o, path)]]]
  BY <1>9, ZenonT(60) DEF DotGraph, NoShape
<1>11. ASSUME NEW d \in Nat
       PROVE  DotGraph[d] = IF d = 0 THEN base
                               ELSE [o \in DagObjs |-> [path \in Seq(Nodes) |->
                                        writeExecutionDAG(DotGraph[d - 1], o, path)]]
  BY <1>1, <1>10
<1>20. DotGraph[0] = base
  BY <1>11
<1>21. ASSUME NEW d \in Nat, d # 0
       PROVE  DotGraph[d] = [o \in DagObjs |-> [path \in Seq(Nodes) |->
                                        writeExecutionDAG(DotGraph[d - 1], o, path)]]
  BY <1>11, <1>21
<1>22. ASSUME NEW d \in Nat, d # 0, NEW o \in DagObjs, NEW path \in Seq(Nodes)
       PROVE  DotGraph[d][o][path] = writeExecutionDAG(DotGraph[d - 1], o, path)
  <2>1. DotGraph[d] = [e \in DagObjs |-> [q \in Seq(Nodes) |->
                              writeExecutionDAG(DotGraph[d - 1], e, q)]]
    BY <1>21, <1>22
  <2>2. DotGraph[d][o] = [q \in Seq(Nodes) |-> writeExecutionDAG(DotGraph[d - 1], o, q)]
    BY <2>1
  <2> QED BY <2>2
<1>12. ASSUME NEW k \in Nat, DotGraph[k] \notin Graphs PROVE FALSE
  <2>1. PICK T : T = {d \in Nat : DotGraph[d] \notin Graphs}
    OBVIOUS
  <2>2. PICK d \in T : \A j \in T : d <= j
    BY <1>12, <2>1, LeastOf
  <2>3. d \in Nat /\ DotGraph[d] \notin Graphs
    BY <2>1
  <2>4. d # 0
    BY <1>2, <1>20, <2>3
  <2>5. d - 1 \in Nat /\ ~(d <= d - 1)
    BY <2>3, <2>4
  <2>6. PICK nested \in Graphs : nested = DotGraph[d - 1]
    <3>1. d - 1 \notin T
      BY <2>2, <2>5
    <3> QED BY <2>1, <2>5, <3>1
  <2>7. \A o \in DagObjs : \A path \in Seq(Nodes) :
           writeExecutionDAG(DotGraph[d - 1], o, path) \in Shapes
    BY <2>6, DotStep
  <2>8. [o \in DagObjs |-> [path \in Seq(Nodes) |->
            writeExecutionDAG(DotGraph[d - 1], o, path)]] \in Graphs
    BY <2>7 DEF Graphs
  <2>9. DotGraph[d] \in Graphs
    BY <1>21, <2>3, <2>4, <2>8
  <2> QED BY <2>3, <2>9
<1>13. DotGraph \in [Nat -> Graphs]
  <2>1. DotGraph = [k \in Nat |-> DotGraph[k]]
    BY <1>10
  <2> QED BY <1>12, <2>1
<1>14. ASSUME NEW k \in Nat, NEW o \in DagObjs, NEW path \in Seq(Nodes)
       PROVE  DotGraph[k + 1][o][path] = writeExecutionDAG(DotGraph[k], o, path)
  <2>1. k + 1 \in Nat /\ k + 1 # 0 /\ (k + 1) - 1 = k
    OBVIOUS
  <2>2. DotGraph[k + 1][o][path] = writeExecutionDAG(DotGraph[(k + 1) - 1], o, path)
    BY <1>22, <2>1
  <2> QED BY <2>1, <2>2
<1>15. \A o \in DagObjs : \A path \in Seq(Nodes) : DotGraph[0][o][path] = NoShape
  BY <1>1, <1>20
<1> QED BY <1>13, <1>14, <1>15

-----------------------------------------------------------------------------
(***************************************************************************)
(* The three exports of one result at one depth of calls, all at once.     *)
(***************************************************************************)
Tr(k, o, path) == TraceEvents[k][o][path]
Fl(k, o, path) == FlameLines[k][o][path]
Do(k, o, path) == DotGraph[k][o][path]

Sub(o, n) == Result(o, n).sub

LEMMA ExportTypes ==
    ASSUME ObjType, NEW k \in Nat, NEW o \in DagObjs, NEW path \in Seq(Nodes)
    PROVE  /\ Tr(k, o, path) \in Seq(Events)
           /\ Fl(k, o, path) \in Seq(Lines)
           /\ Do(k, o, path) \in Shapes
<1>1. TraceEvents[k] \in Traces /\ FlameLines[k] \in Flames /\ DotGraph[k] \in Graphs
  BY TraceLoop, FlameLoop, DotLoop
<1> QED BY <1>1 DEF Tr, Fl, Do, Traces, Flames, Graphs

LEMMA ExportsStart ==
    ASSUME ObjType, NEW o \in DagObjs, NEW path \in Seq(Nodes)
    PROVE  /\ Tr(0, o, path) = <<>> /\ Fl(0, o, path) = <<>>
           /\ Do(0, o, path).nodes = {} /\ Do(0, o, path).edges = {}
<1>1. Do(0, o, path) = NoShape
  BY DotLoop DEF Do
<1> QED BY <1>1, TraceLoop, FlameLoop DEF Tr, Fl, NoShape

LEMMA TraceUnfolds ==
    ASSUME IndInv, FillInv, NEW k \in Nat, NEW o, Whole(o), NEW path \in Seq(Nodes)
    PROVE  /\ \A e : e \in Range(Tr(k + 1, o, path)) <=>
                 \/ e = DagEvent(o, path)
                 \/ \E n \in Reported(o) :
                       \/ e = NodeEvent(o, n, path)
                       \/ Nests(o, n) /\ e \in Range(Tr(k, Sub(o, n), Append(path, n)))
           /\ \A K : /\ \A n \in Reported(o) :
                           Nests(o, n) => Once(Tr(k, Sub(o, n), Append(path, n)), K)
                     /\ \A n \in Reported(o) : Nests(o, n) =>
                           \A e \in Range(Tr(k, Sub(o, n), Append(path, n))) :
                              K[e] # K[NodeEvent(o, n, path)] /\ K[e] # K[DagEvent(o, path)]
                     /\ \A n \in Reported(o) : K[NodeEvent(o, n, path)] # K[DagEvent(o, path)]
                     /\ \A n, m \in Reported(o) : n # m =>
                           \A e, f :
                              /\ e = NodeEvent(o, n, path) \/
                                    (Nests(o, n) /\ e \in Range(Tr(k, Sub(o, n), Append(path, n))))
                              /\ f = NodeEvent(o, m, path) \/
                                    (Nests(o, m) /\ f \in Range(Tr(k, Sub(o, m), Append(path, m))))
                              => K[e] # K[f]
                     => Once(Tr(k + 1, o, path), K)
<1>1. o \in DagObjs /\ ObjType /\ \A n \in Reported(o) : Traced(o, n) <=> Nests(o, n)
  BY WholeFacts DEF IndInv
<1>2. PICK nested \in Traces : nested = TraceEvents[k]
  BY <1>1, TraceLoop
<1>3. PICK w : w = Tr(k + 1, o, path) /\ w = collectTraceEvents(nested, o, path)
  BY <1>1, <1>2, TraceLoop DEF Tr
<1>4. ASSUME NEW n \in Reported(o)
      PROVE  BelowEvents(nested, o, n, path) =
                IF Nests(o, n) THEN Tr(k, Sub(o, n), Append(path, n)) ELSE <<>>
  BY <1>1, <1>2 DEF BelowEvents, Tr, Sub
<1>5. \A n \in Reported(o) : \A e : e \in Range(BelowEvents(nested, o, n, path)) <=>
         Nests(o, n) /\ e \in Range(Tr(k, Sub(o, n), Append(path, n)))
  BY <1>4 DEF Range
<1>6. ASSUME NEW e
      PROVE  e \in Range(w) <=>
                \/ e = DagEvent(o, path)
                \/ \E n \in Reported(o) :
                      \/ e = NodeEvent(o, n, path)
                      \/ Nests(o, n) /\ e \in Range(Tr(k, Sub(o, n), Append(path, n)))
  <2>1. e \in Range(w) <=>
           \/ e = DagEvent(o, path)
           \/ \E n \in Reported(o) :
                 e = NodeEvent(o, n, path) \/ e \in Range(BelowEvents(nested, o, n, path))
    BY <1>1, <1>3, TraceStep
  <2> QED BY <1>5, <2>1
<1>7. ASSUME NEW K,
             \A n \in Reported(o) : Nests(o, n) => Once(Tr(k, Sub(o, n), Append(path, n)), K),
             \A n \in Reported(o) : Nests(o, n) =>
                \A e \in Range(Tr(k, Sub(o, n), Append(path, n))) :
                   K[e] # K[NodeEvent(o, n, path)] /\ K[e] # K[DagEvent(o, path)],
             \A n \in Reported(o) : K[NodeEvent(o, n, path)] # K[DagEvent(o, path)],
             \A n, m \in Reported(o) : n # m =>
                \A e, f : /\ e = NodeEvent(o, n, path) \/
                                (Nests(o, n) /\ e \in Range(Tr(k, Sub(o, n), Append(path, n))))
                          /\ f = NodeEvent(o, m, path) \/
                                (Nests(o, m) /\ f \in Range(Tr(k, Sub(o, m), Append(path, m))))
                          => K[e] # K[f]
      PROVE  Once(w, K)
  <2>1. \A n \in Reported(o) : Once(BelowEvents(nested, o, n, path), K)
    BY <1>4, <1>7 DEF Once
  <2>2. \A n \in Reported(o) : \A e \in Range(BelowEvents(nested, o, n, path)) :
           K[e] # K[NodeEvent(o, n, path)] /\ K[e] # K[DagEvent(o, path)]
    BY <1>5, <1>7
  <2>3. ASSUME NEW n \in Reported(o), NEW m \in Reported(o), n # m,
               NEW e \in {NodeEvent(o, n, path)} \cup Range(BelowEvents(nested, o, n, path)),
               NEW f \in {NodeEvent(o, m, path)} \cup Range(BelowEvents(nested, o, m, path))
        PROVE  K[e] # K[f]
    <3>1. e = NodeEvent(o, n, path) \/
             (Nests(o, n) /\ e \in Range(Tr(k, Sub(o, n), Append(path, n))))
      BY <1>5
    <3>2. f = NodeEvent(o, m, path) \/
             (Nests(o, m) /\ f \in Range(Tr(k, Sub(o, m), Append(path, m))))
      BY <1>5
    <3> QED BY <1>7, <2>3, <3>1, <3>2
  <2> QED BY <1>1, <1>3, <1>7, <2>1, <2>2, <2>3, TraceStep
<1> QED BY <1>3, <1>6, <1>7

LineOf(p, k, o, n, path) ==
    \/ p = FlameLine(o, n, path)
    \/ Nests(o, n) /\ p \in Range(Fl(k, Sub(o, n), Append(path, n)))

LEMMA FlameUnfolds ==
    ASSUME IndInv, FillInv, NEW k \in Nat, NEW o, Whole(o), NEW path \in Seq(Nodes)
    PROVE  /\ \A p : p \in Range(Fl(k + 1, o, path)) <=>
                 \E n \in Reported(o) :
                    \/ p = FlameLine(o, n, path)
                    \/ Nests(o, n) /\ p \in Range(Fl(k, Sub(o, n), Append(path, n)))
           /\ \A K : /\ \A n \in Reported(o) :
                           Nests(o, n) => Once(Fl(k, Sub(o, n), Append(path, n)), K)
                     /\ \A n \in Reported(o) : Nests(o, n) =>
                           \A p \in Range(Fl(k, Sub(o, n), Append(path, n))) :
                              K[p] # K[FlameLine(o, n, path)]
                     /\ \A n, m \in Reported(o) : n # m =>
                           \A p, q :
                              /\ p = FlameLine(o, n, path) \/
                                    (Nests(o, n) /\ p \in Range(Fl(k, Sub(o, n), Append(path, n))))
                              /\ q = FlameLine(o, m, path) \/
                                    (Nests(o, m) /\ q \in Range(Fl(k, Sub(o, m), Append(path, m))))
                              => K[p] # K[q]
                     => Once(Fl(k + 1, o, path), K)
           /\ \A R : /\ \A n \in Reported(o) :
                           Nests(o, n) => InOrder(Fl(k, Sub(o, n), Append(path, n)), R)
                     /\ \A n \in Reported(o) : Nests(o, n) =>
                           \A p \in Range(Fl(k, Sub(o, n), Append(path, n))) :
                              <<FlameLine(o, n, path), p>> \in R
                     /\ \A n, m \in Reported(o) : n # m /\ Took(o, n) >= Took(o, m) =>
                           \A p, q : LineOf(p, k, o, n, path) /\ LineOf(q, k, o, m, path)
                                     => <<p, q>> \in R
                     => InOrder(Fl(k + 1, o, path), R)
<1>1. o \in DagObjs /\ ObjType
  BY WholeFacts DEF IndInv
<1>2. PICK nested \in Flames : nested = FlameLines[k]
  BY <1>1, FlameLoop
<1>3. PICK w : w = Fl(k + 1, o, path) /\ w = collectFlamegraph(nested, o, path)
  BY <1>1, <1>2, FlameLoop DEF Fl
<1>4. ASSUME NEW n \in Reported(o)
      PROVE  BelowLines(nested, o, n, path) =
                IF Nests(o, n) THEN Fl(k, Sub(o, n), Append(path, n)) ELSE <<>>
  BY <1>1, <1>2 DEF BelowLines, Fl, Sub
<1>5. \A n \in Reported(o) : \A p : p \in Range(BelowLines(nested, o, n, path)) <=>
         Nests(o, n) /\ p \in Range(Fl(k, Sub(o, n), Append(path, n)))
  BY <1>4 DEF Range
<1>6. ASSUME NEW p
      PROVE  p \in Range(w) <=>
                \E n \in Reported(o) :
                   \/ p = FlameLine(o, n, path)
                   \/ Nests(o, n) /\ p \in Range(Fl(k, Sub(o, n), Append(path, n)))
  <2>1. p \in Range(w) <=>
           \E n \in Reported(o) :
              p = FlameLine(o, n, path) \/ p \in Range(BelowLines(nested, o, n, path))
    BY <1>1, <1>3, FlameStep
  <2> QED BY <1>5, <2>1
<1>7. ASSUME NEW K,
             \A n \in Reported(o) : Nests(o, n) => Once(Fl(k, Sub(o, n), Append(path, n)), K),
             \A n \in Reported(o) : Nests(o, n) =>
                \A p \in Range(Fl(k, Sub(o, n), Append(path, n))) : K[p] # K[FlameLine(o, n, path)],
             \A n, m \in Reported(o) : n # m =>
                \A p, q : /\ p = FlameLine(o, n, path) \/
                                (Nests(o, n) /\ p \in Range(Fl(k, Sub(o, n), Append(path, n))))
                          /\ q = FlameLine(o, m, path) \/
                                (Nests(o, m) /\ q \in Range(Fl(k, Sub(o, m), Append(path, m))))
                          => K[p] # K[q]
      PROVE  Once(w, K)
  <2>1. \A n \in Reported(o) : Once(BelowLines(nested, o, n, path), K)
    BY <1>4, <1>7 DEF Once
  <2>2. \A n \in Reported(o) : \A p \in Range(BelowLines(nested, o, n, path)) :
           K[p] # K[FlameLine(o, n, path)]
    BY <1>5, <1>7
  <2>3. ASSUME NEW n \in Reported(o), NEW m \in Reported(o), n # m,
               NEW p \in {FlameLine(o, n, path)} \cup Range(BelowLines(nested, o, n, path)),
               NEW q \in {FlameLine(o, m, path)} \cup Range(BelowLines(nested, o, m, path))
        PROVE  K[p] # K[q]
    <3>1. p = FlameLine(o, n, path) \/
             (Nests(o, n) /\ p \in Range(Fl(k, Sub(o, n), Append(path, n))))
      BY <1>5
    <3>2. q = FlameLine(o, m, path) \/
             (Nests(o, m) /\ q \in Range(Fl(k, Sub(o, m), Append(path, m))))
      BY <1>5
    <3> QED BY <1>7, <2>3, <3>1, <3>2
  <2> QED BY <1>1, <1>3, <2>1, <2>2, <2>3, FlameStep
<1>8. ASSUME NEW R,
             \A n \in Reported(o) : Nests(o, n) => InOrder(Fl(k, Sub(o, n), Append(path, n)), R),
             \A n \in Reported(o) : Nests(o, n) =>
                \A p \in Range(Fl(k, Sub(o, n), Append(path, n))) : <<FlameLine(o, n, path), p>> \in R,
             \A n, m \in Reported(o) : n # m /\ Took(o, n) >= Took(o, m) =>
                \A p, q : LineOf(p, k, o, n, path) /\ LineOf(q, k, o, m, path) => <<p, q>> \in R
      PROVE  InOrder(w, R)
  <2>1. \A n \in Reported(o) : InOrder(BelowLines(nested, o, n, path), R)
    BY <1>4, <1>8 DEF InOrder
  <2>2. \A n \in Reported(o) : \A p \in Range(BelowLines(nested, o, n, path)) :
           <<FlameLine(o, n, path), p>> \in R
    BY <1>5, <1>8
  <2>3. ASSUME NEW n \in Reported(o), NEW m \in Reported(o), n # m, Took(o, n) >= Took(o, m),
               NEW p \in {FlameLine(o, n, path)} \cup Range(BelowLines(nested, o, n, path)),
               NEW q \in {FlameLine(o, m, path)} \cup Range(BelowLines(nested, o, m, path))
        PROVE  <<p, q>> \in R
    <3>1. LineOf(p, k, o, n, path) /\ LineOf(q, k, o, m, path)
      BY <1>5 DEF LineOf
    <3> QED BY <1>8, <2>3, <3>1
  <2> QED BY <1>1, <1>3, <2>1, <2>2, <2>3, FlameStep
<1> QED BY <1>3, <1>6, <1>7, <1>8, ZenonT(60)

LEMMA DotUnfolds ==
    ASSUME IndInv, FillInv, NEW k \in Nat, NEW o, Whole(o), NEW path \in Seq(Nodes)
    PROVE  /\ \A x : x \in Do(k + 1, o, path).nodes <=>
                 \/ \E n \in NodesOf(o) : x = DotNode(o, n, path)
                 \/ \E n \in Reported(o) :
                       Nests(o, n) /\ x \in Do(k, Sub(o, n), Append(path, n)).nodes
           /\ \A e : e \in Do(k + 1, o, path).edges <=>
                 \/ \E n \in NodesOf(o) : \E m \in Deps[n] : e = DotEdge(o, m, n, path)
                 \/ \E n \in Reported(o) : Nests(o, n)
                       /\ \/ e \in Do(k, Sub(o, n), Append(path, n)).edges
                          \/ e \in SubflowEdges(o, n, path)
<1>1. o \in DagObjs /\ ObjType
  BY WholeFacts DEF IndInv
<1>2. PICK nested \in Graphs : nested = DotGraph[k]
  BY <1>1, DotLoop
<1>3. PICK w : w = Do(k + 1, o, path) /\ w = writeExecutionDAG(nested, o, path)
  BY <1>1, <1>2, DotLoop DEF Do
<1>4. \A n : Inner(nested, o, n, path) = Do(k, Sub(o, n), Append(path, n))
  BY <1>2 DEF Inner, Do, Sub
<1>5. \A n : n \in Reported(o) <=> n \in NodesOf(o) /\ HasResult(o, n)
  BY WholeFacts DEF Reported
<1>6. \A x : x \in w.nodes <=>
         \/ \E n \in NodesOf(o) : x = DotNode(o, n, path)
         \/ \E n \in NodesOf(o) : HasResult(o, n) /\ Nests(o, n)
                                  /\ x \in Inner(nested, o, n, path).nodes
  BY <1>1, <1>3, DotStep
<1>7. \A e : e \in w.edges <=>
         \/ \E n \in NodesOf(o) : \E m \in Deps[n] : e = DotEdge(o, m, n, path)
         \/ \E n \in NodesOf(o) : HasResult(o, n) /\ Nests(o, n)
               /\ e \in Inner(nested, o, n, path).edges \cup SubflowEdges(o, n, path)
  BY <1>1, <1>3, DotStep
<1> QED BY <1>3, <1>4, <1>5, <1>6, <1>7

-----------------------------------------------------------------------------
(***************************************************************************)
(* Every path shown for a nested result extends that of its node.          *)
(***************************************************************************)
Extends(p, path) ==
    p \in Seq(Nodes) /\ Len(path) <= Len(p) /\ \A i \in 1..Len(path) : p[i] = path[i]

LEMMA ExtendsSelf ==
    ASSUME NEW path \in Seq(Nodes), NEW n \in Nodes
    PROVE  /\ Extends(path, path) /\ Extends(Append(path, n), path)
           /\ Len(path) < Len(Append(path, n))
           /\ Append(path, n)[Len(path) + 1] = n
           /\ Front(Append(path, n)) = path /\ Last(Append(path, n)) = n
<1>1. /\ Append(path, n) \in Seq(Nodes) /\ Len(Append(path, n)) = Len(path) + 1
      /\ Len(path) \in Nat /\ Append(path, n)[Len(path) + 1] = n
      /\ \A i \in 1..Len(path) : Append(path, n)[i] = path[i]
  BY AppendType
<1>2. Extends(path, path) /\ Extends(Append(path, n), path)
  BY <1>1 DEF Extends
<1>3. Last(Append(path, n)) = n
  BY <1>1 DEF Last
<1>4. Front(Append(path, n)) = path
  <2>1. PICK t : t = Append(path, n)
    OBVIOUS
  <2>2. /\ t \in Seq(Nodes) /\ Len(t) = Len(path) + 1 /\ Len(path) \in Nat
        /\ \A i \in 1..Len(path) : t[i] = path[i] /\ t[i] \in Nodes
    BY <1>1, <2>1, InRange
  <2>3. /\ SubSeq(t, 1, Len(path)) \in Seq(Nodes)
        /\ Len(SubSeq(t, 1, Len(path))) = Len(path)
        /\ \A i \in 1..Len(path) : SubSeq(t, 1, Len(path))[i] = path[i]
    <3>1. /\ SubSeq(t, 1, Len(path)) \in Seq(Nodes)
          /\ Len(SubSeq(t, 1, Len(path))) = IF 1 <= Len(path) THEN Len(path) - 1 + 1 ELSE 0
          /\ \A i \in 1..(Len(path) - 1 + 1) : SubSeq(t, 1, Len(path))[i] = t[1 + i - 1]
      BY <2>2, SubSeqProperties
    <3>2. Len(path) - 1 + 1 = Len(path) /\ \A i \in 1..Len(path) : 1 + i - 1 = i
      BY <2>2
    <3> QED BY <2>2, <3>1, <3>2
  <2>4. SubSeq(t, 1, Len(path)) = path
    BY <2>3, SeqEqual
  <2>5. Len(t) - 1 = Len(path)
    BY <2>2
  <2> QED BY <2>1, <2>4, <2>5 DEF Front
<1> QED BY <1>1, <1>2, <1>3, <1>4

LEMMA ExtendsMore ==
    ASSUME NEW path \in Seq(Nodes), NEW n \in Nodes, NEW p, Extends(p, Append(path, n))
    PROVE  Extends(p, path) /\ Len(path) < Len(p) /\ p[Len(path) + 1] = n
<1>1. /\ Len(Append(path, n)) = Len(path) + 1
      /\ Len(path) \in Nat /\ Append(path, n)[Len(path) + 1] = n
      /\ \A i \in 1..Len(path) : Append(path, n)[i] = path[i]
  BY AppendType
<1>2. p \in Seq(Nodes) /\ Len(p) \in Nat /\ Len(path) + 1 <= Len(p)
      /\ \A i \in 1..(Len(path) + 1) : p[i] = Append(path, n)[i]
  BY <1>1, LenProperties DEF Extends
<1> QED BY <1>1, <1>2 DEF Extends

LEMMA Counting ==
    ASSUME NEW T \in SUBSET Nat, 0 \in T, \A k \in T : k + 1 \in T
    PROVE  T = Nat
<1>1. ASSUME Nat \ T # {} PROVE FALSE
  <2>1. PICK n \in Nat \ T : \A k \in Nat \ T : n <= k
    BY <1>1, LeastOf
  <2>2. n # 0
    OBVIOUS
  <2>3. n - 1 \in Nat /\ ~(n <= n - 1) /\ (n - 1) + 1 = n
    BY <2>2
  <2>4. n - 1 \in T
    BY <2>1, <2>3
  <2> QED BY <2>3, <2>4
<1> QED BY <1>1

Under(k, o, path) ==
    /\ \A e \in Range(Tr(k, o, path)) : /\ Extends(e.path, path)
                                        /\ e.cat = "node" => Len(path) < Len(e.path)
    /\ \A p \in Range(Fl(k, o, path)) : Extends(p.path, path) /\ Len(path) < Len(p.path)

LEMMA UnderStep ==
    ASSUME IndInv, FillInv, NEW k \in Nat,
           \A o : \A path \in Seq(Nodes) : Whole(o) => Under(k, o, path),
           NEW o, Whole(o), NEW path \in Seq(Nodes)
    PROVE  Under(k + 1, o, path)
<1>1. \A n \in Reported(o) : n \in Nodes /\ Append(path, n) \in Seq(Nodes)
  BY WholeFacts, AppendType
<1>2. ASSUME NEW n \in Reported(o), Nests(o, n) PROVE Under(k, Sub(o, n), Append(path, n))
  BY <1>1, <1>2, WholeFacts DEF Sub
<1>3. ASSUME NEW e \in Range(Tr(k + 1, o, path))
      PROVE  Extends(e.path, path) /\ (e.cat = "node" => Len(path) < Len(e.path))
  <2>1. \/ e = DagEvent(o, path)
        \/ \E n \in Reported(o) :
              \/ e = NodeEvent(o, n, path)
              \/ Nests(o, n) /\ e \in Range(Tr(k, Sub(o, n), Append(path, n)))
    BY <1>3, TraceUnfolds
  <2>2. CASE e = DagEvent(o, path)
    <3>1. e.path = path /\ e.cat = "dag"
      BY <2>2 DEF DagEvent
    <3> QED BY <3>1, LenProperties DEF Extends
  <2>3. ASSUME NEW n \in Reported(o), e = NodeEvent(o, n, path)
        PROVE  Extends(e.path, path) /\ Len(path) < Len(e.path)
    <3>1. e.path = Append(path, n)
      BY <2>3 DEF NodeEvent
    <3> QED BY <1>1, <3>1, ExtendsSelf
  <2>4. ASSUME NEW n \in Reported(o), Nests(o, n),
               e \in Range(Tr(k, Sub(o, n), Append(path, n)))
        PROVE  Extends(e.path, path) /\ Len(path) < Len(e.path)
    <3>1. Extends(e.path, Append(path, n))
      BY <1>2, <2>4 DEF Under
    <3> QED BY <1>1, <3>1, ExtendsMore
  <2> QED BY <2>1, <2>2, <2>3, <2>4
<1>4. ASSUME NEW p \in Range(Fl(k + 1, o, path))
      PROVE  Extends(p.path, path) /\ Len(path) < Len(p.path)
  <2>1. PICK n \in Reported(o) :
           \/ p = FlameLine(o, n, path)
           \/ Nests(o, n) /\ p \in Range(Fl(k, Sub(o, n), Append(path, n)))
    BY <1>4, FlameUnfolds
  <2>2. CASE p = FlameLine(o, n, path)
    <3>1. p.path = Append(path, n)
      BY <1>1, <2>2, LineType
    <3> QED BY <1>1, <3>1, ExtendsSelf
  <2>3. CASE Nests(o, n) /\ p \in Range(Fl(k, Sub(o, n), Append(path, n)))
    <3>1. Extends(p.path, Append(path, n))
      BY <1>2, <2>3 DEF Under
    <3> QED BY <1>1, <3>1, ExtendsMore
  <2> QED BY <2>1, <2>2, <2>3
<1> QED BY <1>3, <1>4 DEF Under

LEMMA PathsExtend ==
    ASSUME IndInv, FillInv, NEW l \in Nat, NEW x, Whole(x), NEW at \in Seq(Nodes)
    PROVE  Under(l, x, at)
<1> DEFINE All(k) == \A o : \A path \in Seq(Nodes) : Whole(o) => Under(k, o, path)
<1>1. All(0)
  <2>1. ASSUME NEW o, Whole(o), NEW path \in Seq(Nodes) PROVE Under(0, o, path)
    BY <2>1, ExportsStart, WholeFacts DEF Under, Range, IndInv
  <2> QED BY <2>1
<1>2. ASSUME NEW k \in Nat, All(k) PROVE All(k + 1)
  BY <1>2, UnderStep
<1>3. \A k \in Nat : All(k)
  <2> HIDE DEF All
  <2>1. PICK T : T = {k \in Nat : All(k)}
    OBVIOUS
  <2>2. T \in SUBSET Nat /\ 0 \in T /\ \A k \in T : k + 1 \in T
    BY <1>1, <1>2, <2>1
  <2>3. T = Nat
    BY <2>2, Counting
  <2> QED BY <2>1, <2>3
<1> QED BY <1>3

-----------------------------------------------------------------------------
(***************************************************************************)
(* Nothing is shown twice.                                                 *)
(***************************************************************************)
EventKey == [e \in Events |-> <<e.cat, e.path>>]
LineKey  == [p \in Lines |-> p.path]

Singles(k, o, path) == Once(Tr(k, o, path), EventKey) /\ Once(Fl(k, o, path), LineKey)

Of(e, k, o, n, path) ==
    \/ e = NodeEvent(o, n, path)
    \/ Nests(o, n) /\ e \in Range(Tr(k, Sub(o, n), Append(path, n)))

LEMMA SubFacts ==
    ASSUME IndInv, FillInv, NEW k \in Nat, NEW o, Whole(o), NEW path \in Seq(Nodes),
           NEW n \in Reported(o)
    PROVE  /\ n \in Nodes /\ Append(path, n) \in Seq(Nodes)
           /\ Nests(o, n) => /\ Whole(Sub(o, n)) /\ Sub(o, n) \in DagObjs
                             /\ Under(k, Sub(o, n), Append(path, n))
                             /\ Tr(k, Sub(o, n), Append(path, n)) \in Seq(Events)
                             /\ Fl(k, Sub(o, n), Append(path, n)) \in Seq(Lines)
<1>1. n \in Nodes /\ Append(path, n) \in Seq(Nodes)
  BY WholeFacts, AppendType
<1>2. ASSUME Nests(o, n) PROVE Whole(Sub(o, n)) /\ Sub(o, n) \in DagObjs
  BY <1>2, WholeFacts DEF Sub, Whole
<1> QED BY <1>1, <1>2, PathsExtend, ExportTypes DEF IndInv

LEMMA OfPath ==
    ASSUME IndInv, FillInv, NEW k \in Nat, NEW o, Whole(o), NEW path \in Seq(Nodes),
           NEW n \in Reported(o), NEW e, Of(e, k, o, n, path)
    PROVE  /\ e \in Events /\ EventKey[e] = <<e.cat, e.path>>
           /\ Len(path) < Len(e.path) /\ e.path[Len(path) + 1] = n
           /\ Extends(e.path, path)
<1>1. n \in Nodes /\ Append(path, n) \in Seq(Nodes) /\ o \in DagObjs /\ ObjType
  BY SubFacts, WholeFacts DEF IndInv
<1>2. CASE e = NodeEvent(o, n, path)
  <2>1. e \in Events /\ e.path = Append(path, n)
    BY <1>1, <1>2, EventType DEF NodeEvent
  <2> QED BY <1>1, <2>1, ExtendsSelf DEF EventKey
<1>3. CASE Nests(o, n) /\ e \in Range(Tr(k, Sub(o, n), Append(path, n)))
  <2>1. Extends(e.path, Append(path, n))
    BY <1>3, SubFacts DEF Under
  <2>2. e \in Events
    BY <1>3, SubFacts, InRange
  <2> QED BY <1>1, <2>1, <2>2, ExtendsMore DEF EventKey
<1> QED BY <1>2, <1>3 DEF Of

LEMMA LineOfPath ==
    ASSUME IndInv, FillInv, NEW k \in Nat, NEW o, Whole(o), NEW path \in Seq(Nodes),
           NEW n \in Reported(o), NEW p, LineOf(p, k, o, n, path)
    PROVE  /\ p \in Lines /\ LineKey[p] = p.path /\ Extends(p.path, path)
           /\ Len(path) < Len(p.path) /\ p.path[Len(path) + 1] = n
<1>1. n \in Nodes /\ Append(path, n) \in Seq(Nodes)
  BY SubFacts
<1>2. CASE p = FlameLine(o, n, path)
  <2>1. p \in Lines /\ p.path = Append(path, n)
    BY <1>1, <1>2, LineType
  <2> QED BY <1>1, <2>1, ExtendsSelf DEF LineKey
<1>3. CASE Nests(o, n) /\ p \in Range(Fl(k, Sub(o, n), Append(path, n)))
  <2>1. Extends(p.path, Append(path, n))
    BY <1>3, SubFacts DEF Under
  <2>2. p \in Lines
    BY <1>3, SubFacts, InRange
  <2> QED BY <1>1, <2>1, <2>2, ExtendsMore DEF LineKey
<1> QED BY <1>2, <1>3 DEF LineOf

LEMMA SinglesStep ==
    ASSUME IndInv, FillInv, NEW k \in Nat,
           \A o : \A path \in Seq(Nodes) : Whole(o) => Singles(k, o, path),
           NEW o, Whole(o), NEW path \in Seq(Nodes)
    PROVE  Singles(k + 1, o, path)
<1>1. ASSUME NEW n \in Reported(o), Nests(o, n)
      PROVE  /\ Once(Tr(k, Sub(o, n), Append(path, n)), EventKey)
             /\ Once(Fl(k, Sub(o, n), Append(path, n)), LineKey)
  <2>1. Whole(Sub(o, n)) /\ Append(path, n) \in Seq(Nodes)
    BY <1>1, SubFacts
  <2> QED BY <2>1 DEF Singles
<1>2. /\ DagEvent(o, path) \in Events /\ EventKey[DagEvent(o, path)] = <<"dag", path>>
  <2>1. DagEvent(o, path) \in Events
    BY WholeFacts, EventType DEF IndInv
  <2> QED BY <2>1 DEF EventKey, DagEvent
<1>3. ASSUME NEW n \in Reported(o)
      PROVE  /\ EventKey[NodeEvent(o, n, path)] = <<"node", Append(path, n)>>
             /\ Append(path, n) \in Seq(Nodes)
  <2>1. Of(NodeEvent(o, n, path), k, o, n, path)
    BY DEF Of
  <2>2. EventKey[NodeEvent(o, n, path)]
           = <<NodeEvent(o, n, path).cat, NodeEvent(o, n, path).path>>
    BY <2>1, OfPath
  <2> QED BY <2>2, SubFacts DEF NodeEvent
<1>4. ASSUME NEW n \in Reported(o), Nests(o, n),
             NEW e \in Range(Tr(k, Sub(o, n), Append(path, n)))
      PROVE  /\ EventKey[e] # EventKey[NodeEvent(o, n, path)]
             /\ EventKey[e] # EventKey[DagEvent(o, path)]
  <2>1. EventKey[e] = <<e.cat, e.path>> /\ Len(path) < Len(e.path)
    BY <1>4, OfPath DEF Of
  <2>2. e.cat = "node" => Len(Append(path, n)) < Len(e.path)
    BY <1>4, SubFacts DEF Under
  <2>3. Len(path) \in Nat /\ Len(Append(path, n)) \in Nat
    BY <1>3, LenProperties
  <2> QED BY <1>2, <1>3, <2>1, <2>2, <2>3
<1>5. ASSUME NEW n \in Reported(o), NEW m \in Reported(o), n # m,
             NEW e, NEW f, Of(e, k, o, n, path), Of(f, k, o, m, path)
      PROVE  EventKey[e] # EventKey[f]
  <2>1. EventKey[e] = <<e.cat, e.path>> /\ e.path[Len(path) + 1] = n
    BY <1>5, OfPath
  <2>2. EventKey[f] = <<f.cat, f.path>> /\ f.path[Len(path) + 1] = m
    BY <1>5, OfPath
  <2> QED BY <1>5, <2>1, <2>2
<1>6. Once(Tr(k + 1, o, path), EventKey)
  <2>1. \A n \in Reported(o) : EventKey[NodeEvent(o, n, path)] # EventKey[DagEvent(o, path)]
    BY <1>2, <1>3
  <2>2. \A n, m \in Reported(o) : n # m =>
           \A e, f : /\ e = NodeEvent(o, n, path) \/
                           (Nests(o, n) /\ e \in Range(Tr(k, Sub(o, n), Append(path, n))))
                     /\ f = NodeEvent(o, m, path) \/
                           (Nests(o, m) /\ f \in Range(Tr(k, Sub(o, m), Append(path, m))))
                     => EventKey[e] # EventKey[f]
    BY <1>5 DEF Of
  <2>3. \A n \in Reported(o) :
           Nests(o, n) => Once(Tr(k, Sub(o, n), Append(path, n)), EventKey)
    BY <1>1
  <2>4. \A n \in Reported(o) : Nests(o, n) =>
           \A e \in Range(Tr(k, Sub(o, n), Append(path, n))) :
              /\ EventKey[e] # EventKey[NodeEvent(o, n, path)]
              /\ EventKey[e] # EventKey[DagEvent(o, path)]
    BY <1>4
  <2> QED BY <2>1, <2>2, <2>3, <2>4, TraceUnfolds, ZenonT(60)
<1>7. ASSUME NEW n \in Reported(o), Nests(o, n),
             NEW p \in Range(Fl(k, Sub(o, n), Append(path, n)))
      PROVE  LineKey[p] # LineKey[FlameLine(o, n, path)]
  <2>1. LineOf(p, k, o, n, path) /\ LineOf(FlameLine(o, n, path), k, o, n, path)
    BY <1>7 DEF LineOf
  <2>2. LineKey[p] = p.path /\ LineKey[FlameLine(o, n, path)] = FlameLine(o, n, path).path
    BY <2>1, LineOfPath
  <2>3. n \in Nodes /\ FlameLine(o, n, path).path = Append(path, n)
    BY SubFacts, LineType
  <2>4. Len(Append(path, n)) < Len(p.path) /\ Len(Append(path, n)) \in Nat
    BY <1>3, <1>7, SubFacts, LenProperties DEF Under
  <2> QED BY <2>2, <2>3, <2>4
<1>8. ASSUME NEW n \in Reported(o), NEW m \in Reported(o), n # m,
             NEW p, NEW q, LineOf(p, k, o, n, path), LineOf(q, k, o, m, path)
      PROVE  LineKey[p] # LineKey[q]
  <2>1. LineKey[p] = p.path /\ p.path[Len(path) + 1] = n
    BY <1>8, LineOfPath
  <2>2. LineKey[q] = q.path /\ q.path[Len(path) + 1] = m
    BY <1>8, LineOfPath
  <2> QED BY <1>8, <2>1, <2>2
<1>9. Once(Fl(k + 1, o, path), LineKey)
  <2>1. \A n, m \in Reported(o) : n # m =>
           \A p, q : /\ p = FlameLine(o, n, path) \/
                           (Nests(o, n) /\ p \in Range(Fl(k, Sub(o, n), Append(path, n))))
                     /\ q = FlameLine(o, m, path) \/
                           (Nests(o, m) /\ q \in Range(Fl(k, Sub(o, m), Append(path, m))))
                     => LineKey[p] # LineKey[q]
    BY <1>8 DEF LineOf
  <2>2. \A n \in Reported(o) :
           Nests(o, n) => Once(Fl(k, Sub(o, n), Append(path, n)), LineKey)
    BY <1>1
  <2>3. \A n \in Reported(o) : Nests(o, n) =>
           \A p \in Range(Fl(k, Sub(o, n), Append(path, n))) :
              LineKey[p] # LineKey[FlameLine(o, n, path)]
    BY <1>7
  <2> QED BY <2>1, <2>2, <2>3, FlameUnfolds, ZenonT(60)
<1> QED BY <1>6, <1>9 DEF Singles

LEMMA NothingTwice ==
    ASSUME IndInv, FillInv, NEW l \in Nat, NEW x, Whole(x), NEW at \in Seq(Nodes)
    PROVE  Singles(l, x, at)
<1> DEFINE All(k) == \A o : \A path \in Seq(Nodes) : Whole(o) => Singles(k, o, path)
<1>1. All(0)
  <2>1. ASSUME NEW o, Whole(o), NEW path \in Seq(Nodes) PROVE Singles(0, o, path)
    BY <2>1, ExportsStart, WholeFacts DEF Singles, Once, IndInv
  <2> QED BY <2>1
<1>2. ASSUME NEW k \in Nat, All(k) PROVE All(k + 1)
  BY <1>2, SinglesStep
<1>3. \A k \in Nat : All(k)
  <2> HIDE DEF All
  <2>1. PICK T : T = {k \in Nat : All(k)}
    OBVIOUS
  <2>2. T \in SUBSET Nat /\ 0 \in T /\ \A k \in T : k + 1 \in T
    BY <1>1, <1>2, <2>1
  <2>3. T = Nat
    BY <2>2, Counting
  <2> QED BY <2>1, <2>3
<1> QED BY <1>3

-----------------------------------------------------------------------------
(***************************************************************************)
(* What the exports show, at which path and with which status.             *)
(***************************************************************************)
EventAt(k, o, path, p, s) ==
    \E e \in Range(Tr(k, o, path)) : e.cat = "node" /\ e.path = p /\ e.status = s

DrawnAt(k, o, path, p, s) ==
    \E x \in Do(k, o, path).nodes : x.status # "none" /\ x.path = p /\ x.status = s

LineAt(k, o, path, p) == \E l \in Range(Fl(k, o, path)) : l.path = p

OwnAt(o, n, path, p, s) == p = Append(path, n) /\ s = Result(o, n).status

LEMMA EventsUnfold ==
    ASSUME IndInv, FillInv, NEW k \in Nat, NEW o, Whole(o), NEW path \in Seq(Nodes),
           NEW p, NEW s
    PROVE  EventAt(k + 1, o, path, p, s) <=>
              \E n \in Reported(o) :
                 OwnAt(o, n, path, p, s) \/
                 (Nests(o, n) /\ EventAt(k, Sub(o, n), Append(path, n), p, s))
<1>1. ASSUME EventAt(k + 1, o, path, p, s)
      PROVE  \E n \in Reported(o) :
                OwnAt(o, n, path, p, s) \/
                (Nests(o, n) /\ EventAt(k, Sub(o, n), Append(path, n), p, s))
  <2>1. PICK e \in Range(Tr(k + 1, o, path)) : e.cat = "node" /\ e.path = p /\ e.status = s
    BY <1>1 DEF EventAt
  <2>2. e # DagEvent(o, path)
    BY <2>1 DEF DagEvent
  <2>3. PICK n \in Reported(o) :
           \/ e = NodeEvent(o, n, path)
           \/ Nests(o, n) /\ e \in Range(Tr(k, Sub(o, n), Append(path, n)))
    BY <2>1, <2>2, TraceUnfolds
  <2> QED BY <2>1, <2>3 DEF EventAt, OwnAt, NodeEvent
<1>2. ASSUME NEW n \in Reported(o), OwnAt(o, n, path, p, s)
      PROVE  EventAt(k + 1, o, path, p, s)
  <2>1. NodeEvent(o, n, path) \in Range(Tr(k + 1, o, path))
    BY TraceUnfolds
  <2>2. /\ NodeEvent(o, n, path).cat = "node" /\ NodeEvent(o, n, path).path = p
        /\ NodeEvent(o, n, path).status = s
    BY <1>2 DEF OwnAt, NodeEvent
  <2> QED BY <2>1, <2>2 DEF EventAt
<1>3. ASSUME NEW n \in Reported(o), Nests(o, n), EventAt(k, Sub(o, n), Append(path, n), p, s)
      PROVE  EventAt(k + 1, o, path, p, s)
  <2>1. PICK e \in Range(Tr(k, Sub(o, n), Append(path, n))) :
           e.cat = "node" /\ e.path = p /\ e.status = s
    BY <1>3 DEF EventAt
  <2>2. e \in Range(Tr(k + 1, o, path))
    BY <1>3, <2>1, TraceUnfolds
  <2> QED BY <2>1, <2>2 DEF EventAt
<1> QED BY <1>1, <1>2, <1>3

LEMMA DrawnStatus ==
    ASSUME IndInv, FillInv, NEW o, Whole(o), NEW path, NEW n \in NodesOf(o)
    PROVE  /\ DotNode(o, n, path).path = Append(path, n)
           /\ DotNode(o, n, path).status # "none" <=> n \in Reported(o)
           /\ n \in Reported(o) => DotNode(o, n, path).status = Result(o, n).status
<1>1. n \in Reported(o) <=> HasResult(o, n)
  BY WholeFacts DEF Reported
<1>2. n \in Reported(o) => Result(o, n).status \in Statuses
  BY WholeFacts, ReportedType DEF NodeResults, IndInv
<1> QED BY <1>1, <1>2 DEF DotNode, Statuses

LEMMA DrawnUnfold ==
    ASSUME IndInv, FillInv, NEW k \in Nat, NEW o, Whole(o), NEW path \in Seq(Nodes),
           NEW p, NEW s
    PROVE  DrawnAt(k + 1, o, path, p, s) <=>
              \E n \in Reported(o) :
                 OwnAt(o, n, path, p, s) \/
                 (Nests(o, n) /\ DrawnAt(k, Sub(o, n), Append(path, n), p, s))
<1>1. ASSUME DrawnAt(k + 1, o, path, p, s)
      PROVE  \E n \in Reported(o) :
                OwnAt(o, n, path, p, s) \/
                (Nests(o, n) /\ DrawnAt(k, Sub(o, n), Append(path, n), p, s))
  <2>1. PICK x \in Do(k + 1, o, path).nodes : x.status # "none" /\ x.path = p /\ x.status = s
    BY <1>1 DEF DrawnAt
  <2>2. \/ \E n \in NodesOf(o) : x = DotNode(o, n, path)
        \/ \E n \in Reported(o) :
              Nests(o, n) /\ x \in Do(k, Sub(o, n), Append(path, n)).nodes
    BY <2>1, DotUnfolds
  <2>3. ASSUME NEW n \in NodesOf(o), x = DotNode(o, n, path)
        PROVE  n \in Reported(o) /\ OwnAt(o, n, path, p, s)
    BY <2>1, <2>3, DrawnStatus DEF OwnAt
  <2>4. ASSUME NEW n \in Reported(o), x \in Do(k, Sub(o, n), Append(path, n)).nodes
        PROVE  DrawnAt(k, Sub(o, n), Append(path, n), p, s)
    BY <2>1, <2>4 DEF DrawnAt
  <2> QED BY <2>2, <2>3, <2>4
<1>2. ASSUME NEW n \in Reported(o), OwnAt(o, n, path, p, s)
      PROVE  DrawnAt(k + 1, o, path, p, s)
  <2>1. n \in NodesOf(o)
    BY WholeFacts
  <2>2. DotNode(o, n, path) \in Do(k + 1, o, path).nodes
    BY <2>1, DotUnfolds
  <2>3. /\ DotNode(o, n, path).status # "none" /\ DotNode(o, n, path).path = p
        /\ DotNode(o, n, path).status = s
    BY <1>2, <2>1, DrawnStatus DEF OwnAt
  <2> QED BY <2>2, <2>3 DEF DrawnAt
<1>3. ASSUME NEW n \in Reported(o), Nests(o, n), DrawnAt(k, Sub(o, n), Append(path, n), p, s)
      PROVE  DrawnAt(k + 1, o, path, p, s)
  <2>1. PICK x \in Do(k, Sub(o, n), Append(path, n)).nodes :
           x.status # "none" /\ x.path = p /\ x.status = s
    BY <1>3 DEF DrawnAt
  <2>2. x \in Do(k + 1, o, path).nodes
    BY <1>3, <2>1, DotUnfolds
  <2> QED BY <2>1, <2>2 DEF DrawnAt
<1> QED BY <1>1, <1>2, <1>3

Shows(k, o, path) ==
    /\ \A p, s : EventAt(k, o, path, p, s) <=> DrawnAt(k, o, path, p, s)
    /\ \A p : LineAt(k, o, path, p) <=> \E s : DrawnAt(k, o, path, p, s)

LEMMA ShowsStep ==
    ASSUME IndInv, FillInv, NEW k \in Nat,
           \A o : \A path \in Seq(Nodes) : Whole(o) => Shows(k, o, path),
           NEW o, Whole(o), NEW path \in Seq(Nodes)
    PROVE  Shows(k + 1, o, path)
<1>1. ASSUME NEW n \in Reported(o), Nests(o, n) PROVE Shows(k, Sub(o, n), Append(path, n))
  BY <1>1, SubFacts
<1>2. ASSUME NEW p, NEW s
      PROVE  EventAt(k + 1, o, path, p, s) <=> DrawnAt(k + 1, o, path, p, s)
  <2>1. \A n \in Reported(o) : Nests(o, n) =>
           (EventAt(k, Sub(o, n), Append(path, n), p, s)
               <=> DrawnAt(k, Sub(o, n), Append(path, n), p, s))
    BY <1>1 DEF Shows
  <2> QED BY <2>1, EventsUnfold, DrawnUnfold
<1>3. ASSUME NEW p PROVE LineAt(k + 1, o, path, p) <=> \E s : DrawnAt(k + 1, o, path, p, s)
  <2>1. LineAt(k + 1, o, path, p) <=>
           \E n \in Reported(o) : \/ p = Append(path, n)
                                  \/ Nests(o, n) /\ LineAt(k, Sub(o, n), Append(path, n), p)
    <3>1. \A n \in Reported(o) : FlameLine(o, n, path).path = Append(path, n)
      BY SubFacts, LineType
    <3>2. \A l : l \in Range(Fl(k + 1, o, path)) <=>
             \E n \in Reported(o) :
                \/ l = FlameLine(o, n, path)
                \/ Nests(o, n) /\ l \in Range(Fl(k, Sub(o, n), Append(path, n)))
      BY FlameUnfolds
    <3> QED BY <3>1, <3>2 DEF LineAt
  <2>2. \A n \in Reported(o) : Nests(o, n) =>
           (LineAt(k, Sub(o, n), Append(path, n), p)
               <=> \E s : DrawnAt(k, Sub(o, n), Append(path, n), p, s))
    BY <1>1 DEF Shows
  <2>3. \A n \in Reported(o) : p = Append(path, n) <=> \E s : OwnAt(o, n, path, p, s)
    BY DEF OwnAt
  <2>4. \A s : DrawnAt(k + 1, o, path, p, s) <=>
           \E n \in Reported(o) :
              OwnAt(o, n, path, p, s) \/
              (Nests(o, n) /\ DrawnAt(k, Sub(o, n), Append(path, n), p, s))
    BY DrawnUnfold
  <2> QED BY <2>1, <2>2, <2>3, <2>4
<1> QED BY <1>2, <1>3 DEF Shows

LEMMA SameShown ==
    ASSUME IndInv, FillInv, NEW l \in Nat, NEW x, Whole(x), NEW at \in Seq(Nodes)
    PROVE  Shows(l, x, at)
<1> DEFINE All(k) == \A o : \A path \in Seq(Nodes) : Whole(o) => Shows(k, o, path)
<1>1. All(0)
  <2>1. ASSUME NEW o, Whole(o), NEW path \in Seq(Nodes) PROVE Shows(0, o, path)
    BY <2>1, ExportsStart, WholeFacts DEF Shows, EventAt, DrawnAt, LineAt, Range, IndInv
  <2> QED BY <2>1
<1>2. ASSUME NEW k \in Nat, All(k) PROVE All(k + 1)
  BY <1>2, ShowsStep
<1>3. \A k \in Nat : All(k)
  <2> HIDE DEF All
  <2>1. PICK T : T = {k \in Nat : All(k)}
    OBVIOUS
  <2>2. T \in SUBSET Nat /\ 0 \in T /\ \A k \in T : k + 1 \in T
    BY <1>1, <1>2, <2>1
  <2>3. T = Nat
    BY <2>2, Counting
  <2> QED BY <2>1, <2>3
<1> QED BY <1>3

-----------------------------------------------------------------------------
(***************************************************************************)
(* Nodes without result, branches and routes.                              *)
(***************************************************************************)
Missing(k, o, path) ==
    \A x \in Do(k, o, path).nodes : x.status = "none" =>
        \E e \in Range(Tr(k, o, path)) : e.path = Front(x.path) /\ e.status = "Failed"

Branches(k, o, path) ==
    \A e \in Do(k, o, path).edges :
        /\ e.style = "unselected" => DrawnAt(k, o, path, e.to, "Skipped")
        /\ e.style \in {"selected", "unselected"} => DrawnAt(k, o, path, e.from, "Success")

Routes(k, o, path) ==
    \A e \in Range(Tr(k, o, path)) : e.cat = "node" /\ e.route >= 0 =>
        e.status = "Success" /\ Last(e.path) \in DOMAIN RouteMap

Says(k, o, path) == Missing(k, o, path) /\ Branches(k, o, path) /\ Routes(k, o, path)

LEMMA BranchOf ==
    ASSUME IndInv, FillInv, NEW o, Whole(o), NEW path \in Seq(Nodes),
           NEW n \in NodesOf(o), NEW m \in Deps[n], NEW e, e = DotEdge(o, m, n, path)
    PROVE  /\ e.from = Append(path, m) /\ e.to = Append(path, n)
           /\ e.style \in {"selected", "unselected"} =>
                 m \in Reported(o) /\ Result(o, m).status = "Success"
           /\ e.style = "unselected" => n \in Reported(o) /\ Result(o, n).status = "Skipped"
<1>1. n \in Nodes /\ m \in Nodes
  BY ResultsAssumption DEF ResultsAssumption, NodesOf
<1>2. e.from = Append(path, m) /\ e.to = Append(path, n)
      /\ e.style = executionEdgeAttributes(o, m, n)
  BY DEF DotEdge
<1>3. ASSUME e.style \in {"selected", "unselected"}
      PROVE  /\ m \in Reported(o) /\ Result(o, m).route >= 0 /\ Result(o, m).status = "Success"
             /\ Result(o, m).route \in DOMAIN RouteMap[m]
             /\ e.style = "unselected" =>
                   Result(o, m).route \notin routeIndexesForTarget(m, n)
  <2>1. /\ HasResult(o, m) /\ Result(o, m).route >= 0
        /\ e.style = "unselected" => Result(o, m).route \notin routeIndexesForTarget(m, n)
    BY <1>2, <1>3 DEF executionEdgeAttributes
  <2>2. m \in Reported(o)
    BY <1>1, <2>1 DEF Reported
  <2>3. RightResult(o, m)
    BY <2>2, WholeFacts
  <2> QED BY <2>1, <2>2, <2>3 DEF RightResult
<1>4. ASSUME e.style = "unselected" PROVE n \in Reported(o) /\ Result(o, n).status = "Skipped"
  <2>1. n \notin RouteMap[m][Result(o, m).route]
    BY <1>3, <1>4 DEF routeIndexesForTarget
  <2>2. LeavesOut(o, m, n)
    BY <1>3, <1>4, <2>1 DEF LeavesOut, Reported
  <2>3. SkippedIn(o, n)
    BY <1>1, <2>2, WholeFacts
  <2> QED BY <1>1, <2>3 DEF SkippedIn, Reported
<1> QED BY <1>2, <1>3, <1>4

LEMMA SaysStep ==
    ASSUME IndInv, FillInv, NEW k \in Nat,
           \A o : \A path \in Seq(Nodes) : Whole(o) => Says(k, o, path),
           NEW o, Whole(o), NEW path \in Seq(Nodes)
    PROVE  Says(k + 1, o, path)
<1>1. ASSUME NEW n \in Reported(o), Nests(o, n) PROVE Says(k, Sub(o, n), Append(path, n))
  BY <1>1, SubFacts
<1>2. ASSUME NEW x \in Do(k + 1, o, path).nodes, x.status = "none"
      PROVE  \E e \in Range(Tr(k + 1, o, path)) : e.path = Front(x.path) /\ e.status = "Failed"
  <2>1. \/ \E n \in NodesOf(o) : x = DotNode(o, n, path)
        \/ \E n \in Reported(o) :
              Nests(o, n) /\ x \in Do(k, Sub(o, n), Append(path, n)).nodes
    BY <1>2, DotUnfolds
  <2>2. ASSUME NEW n \in NodesOf(o), x = DotNode(o, n, path)
        PROVE  \E e \in Range(Tr(k + 1, o, path)) : e.path = Front(x.path) /\ e.status = "Failed"
    <3>1. n \notin Reported(o) /\ x.path = Append(path, n)
      BY <1>2, <2>2, DrawnStatus
    <3>2. dag[o].status = "Failed"
      BY <3>1, WholeFacts
    <3>3. n \in Nodes
      BY DEF NodesOf
    <3>4. Front(x.path) = path
      BY <3>1, <3>3, ExtendsSelf
    <3>5. DagEvent(o, path) \in Range(Tr(k + 1, o, path))
      BY TraceUnfolds
    <3>6. DagEvent(o, path).path = path /\ DagEvent(o, path).status = "Failed"
      BY <3>2 DEF DagEvent
    <3> QED BY <3>4, <3>5, <3>6
  <2>3. ASSUME NEW n \in Reported(o), Nests(o, n), x \in Do(k, Sub(o, n), Append(path, n)).nodes
        PROVE  \E e \in Range(Tr(k + 1, o, path)) : e.path = Front(x.path) /\ e.status = "Failed"
    <3>1. Missing(k, Sub(o, n), Append(path, n))
      BY <1>1, <2>3 DEF Says
    <3>2. PICK e \in Range(Tr(k, Sub(o, n), Append(path, n))) :
             e.path = Front(x.path) /\ e.status = "Failed"
      BY <1>2, <2>3, <3>1 DEF Missing
    <3>3. e \in Range(Tr(k + 1, o, path))
      BY <2>3, <3>2, TraceUnfolds
    <3> QED BY <3>2, <3>3
  <2> QED BY <2>1, <2>2, <2>3
<1>3. ASSUME NEW e \in Do(k + 1, o, path).edges
      PROVE  /\ e.style = "unselected" => DrawnAt(k + 1, o, path, e.to, "Skipped")
             /\ e.style \in {"selected", "unselected"} =>
                   DrawnAt(k + 1, o, path, e.from, "Success")
  <2>1. \/ \E n \in NodesOf(o) : \E m \in Deps[n] : e = DotEdge(o, m, n, path)
        \/ \E n \in Reported(o) : Nests(o, n)
              /\ \/ e \in Do(k, Sub(o, n), Append(path, n)).edges
                 \/ e \in SubflowEdges(o, n, path)
    BY <1>3, DotUnfolds
  <2>2. ASSUME NEW n \in NodesOf(o), NEW m \in Deps[n], e = DotEdge(o, m, n, path)
        PROVE  /\ e.style = "unselected" => DrawnAt(k + 1, o, path, e.to, "Skipped")
               /\ e.style \in {"selected", "unselected"} =>
                     DrawnAt(k + 1, o, path, e.from, "Success")
    <3>1. ASSUME e.style = "unselected" PROVE DrawnAt(k + 1, o, path, e.to, "Skipped")
      <4>1. n \in Reported(o) /\ OwnAt(o, n, path, e.to, "Skipped")
        BY <2>2, <3>1, BranchOf DEF OwnAt
      <4> QED BY <4>1, DrawnUnfold
    <3>2. ASSUME e.style \in {"selected", "unselected"}
          PROVE  DrawnAt(k + 1, o, path, e.from, "Success")
      <4>1. m \in Reported(o) /\ OwnAt(o, m, path, e.from, "Success")
        BY <2>2, <3>2, BranchOf DEF OwnAt
      <4> QED BY <4>1, DrawnUnfold
    <3> QED BY <3>1, <3>2
  <2>3. ASSUME NEW n \in Reported(o), Nests(o, n), e \in Do(k, Sub(o, n), Append(path, n)).edges
        PROVE  /\ e.style = "unselected" => DrawnAt(k + 1, o, path, e.to, "Skipped")
               /\ e.style \in {"selected", "unselected"} =>
                     DrawnAt(k + 1, o, path, e.from, "Success")
    <3>1. Branches(k, Sub(o, n), Append(path, n))
      BY <1>1, <2>3 DEF Says
    <3>2. \A p, s : DrawnAt(k, Sub(o, n), Append(path, n), p, s) => DrawnAt(k + 1, o, path, p, s)
      BY <2>3, DrawnUnfold
    <3> QED BY <2>3, <3>1, <3>2 DEF Branches
  <2>4. ASSUME NEW n \in Reported(o), e \in SubflowEdges(o, n, path)
        PROVE  e.style = "subflow"
    BY <2>4 DEF SubflowEdges
  <2> QED BY <2>1, <2>2, <2>3, <2>4
<1>4. ASSUME NEW e \in Range(Tr(k + 1, o, path)), e.cat = "node", e.route >= 0
      PROVE  e.status = "Success" /\ Last(e.path) \in DOMAIN RouteMap
  <2>1. e # DagEvent(o, path)
    BY <1>4 DEF DagEvent
  <2>2. PICK n \in Reported(o) :
           \/ e = NodeEvent(o, n, path)
           \/ Nests(o, n) /\ e \in Range(Tr(k, Sub(o, n), Append(path, n)))
    BY <1>4, <2>1, TraceUnfolds
  <2>3. CASE e = NodeEvent(o, n, path)
    <3>1. /\ e.path = Append(path, n) /\ e.status = Result(o, n).status
          /\ Result(o, n).route >= 0
      BY <1>4, <2>3 DEF NodeEvent
    <3>2. RightResult(o, n) /\ n \in Nodes
      BY WholeFacts
    <3>3. Last(e.path) = n
      BY <3>1, <3>2, ExtendsSelf
    <3> QED BY <3>1, <3>2, <3>3 DEF RightResult
  <2>4. CASE Nests(o, n) /\ e \in Range(Tr(k, Sub(o, n), Append(path, n)))
    <3>1. Routes(k, Sub(o, n), Append(path, n))
      BY <1>1, <2>4 DEF Says
    <3> QED BY <1>4, <2>4, <3>1 DEF Routes
  <2> QED BY <2>2, <2>3, <2>4
<1> QED BY <1>2, <1>3, <1>4 DEF Says, Missing, Branches, Routes

LEMMA SaysRight ==
    ASSUME IndInv, FillInv, NEW l \in Nat, NEW x, Whole(x), NEW at \in Seq(Nodes)
    PROVE  Says(l, x, at)
<1> DEFINE All(k) == \A o : \A path \in Seq(Nodes) : Whole(o) => Says(k, o, path)
<1>1. All(0)
  <2>1. ASSUME NEW o, Whole(o), NEW path \in Seq(Nodes) PROVE Says(0, o, path)
    BY <2>1, ExportsStart, WholeFacts DEF Says, Missing, Branches, Routes, Range, IndInv
  <2> QED BY <2>1
<1>2. ASSUME NEW k \in Nat, All(k) PROVE All(k + 1)
  BY <1>2, SaysStep
<1>3. \A k \in Nat : All(k)
  <2> HIDE DEF All
  <2>1. PICK T : T = {k \in Nat : All(k)}
    OBVIOUS
  <2>2. T \in SUBSET Nat /\ 0 \in T /\ \A k \in T : k + 1 \in T
    BY <1>1, <1>2, <2>1
  <2>3. T = Nat
    BY <2>2, Counting
  <2> QED BY <2>1, <2>3
<1> QED BY <1>3

-----------------------------------------------------------------------------
(***************************************************************************)
(* The exports end.  A call shows the same as the one with one call less   *)
(* to go, if those for the nested results do.                              *)
(***************************************************************************)
Even(k, o) == \A path \in Seq(Nodes) : /\ Tr(k + 1, o, path) = Tr(k, o, path)
                                       /\ Fl(k + 1, o, path) = Fl(k, o, path)
                                       /\ Do(k + 1, o, path) = Do(k, o, path)

LEMMA TraceSame ==
    ASSUME ObjType, NEW o \in DagObjs, NEW path \in Seq(Nodes), NEW a, NEW b,
           \A n \in Reported(o) : BelowEvents(a, o, n, path) = BelowEvents(b, o, n, path)
    PROVE  collectTraceEvents(a, o, path) = collectTraceEvents(b, o, path)
<1>1. PICK S, names : S = Reported(o) /\ names = sortStrings(S)
  OBVIOUS
<1>2. \A i \in DOMAIN names : names[i] \in S
  <2>1. PICK key : key = [n \in Nodes |-> -n]
    OBVIOUS
  <2>2. key \in [Nodes -> Int]
    BY <2>1, NodesFinite
  <2>3. Lists(SetToSeq(S), S)
    BY <1>1, ReportedType, ListsOf
  <2>4. names = Sorted[[list |-> SetToSeq(S), at |-> 1, key |-> key]]
    BY <1>1, <2>1 DEF sortStrings
  <2>5. Lists(names, S)
    BY <2>2, <2>3, <2>4, SortedCorrect
  <2> QED BY <2>5 DEF Lists, Range
<1>3. PICK t, u : /\ t = [i \in DOMAIN names |-> <<NodeEvent(o, names[i], path)>>
                                                 \o BelowEvents(a, o, names[i], path)]
                  /\ u = [i \in DOMAIN names |-> <<NodeEvent(o, names[i], path)>>
                                                 \o BelowEvents(b, o, names[i], path)]
  OBVIOUS
<1>4. t = u
  <2>1. \A i \in DOMAIN names :
           BelowEvents(a, o, names[i], path) = BelowEvents(b, o, names[i], path)
    BY <1>1, <1>2
  <2> QED BY <1>3, <2>1
<1>5. collectTraceEvents(a, o, path) = <<DagEvent(o, path)>> \o FlattenSeq(t)
  BY <1>1, <1>3 DEF collectTraceEvents, BelowEvents, Traced
<1>6. collectTraceEvents(b, o, path) = <<DagEvent(o, path)>> \o FlattenSeq(u)
  BY <1>1, <1>3 DEF collectTraceEvents, BelowEvents, Traced
<1> QED BY <1>4, <1>5, <1>6

LEMMA FlameSame ==
    ASSUME ObjType, NEW o \in DagObjs, NEW path \in Seq(Nodes), NEW a, NEW b,
           \A n \in Reported(o) : BelowLines(a, o, n, path) = BelowLines(b, o, n, path)
    PROVE  collectFlamegraph(a, o, path) = collectFlamegraph(b, o, path)
<1>1. PICK names : names = SlowestFirst(o, SetToSeq(Reported(o)))
  OBVIOUS
<1>2. PICK own, t, u : /\ own = [n \in Reported(o) |-> FlameLine(o, n, path)]
                       /\ t = [n \in Reported(o) |-> BelowLines(a, o, n, path)]
                       /\ u = [n \in Reported(o) |-> BelowLines(b, o, n, path)]
  OBVIOUS
<1>3. t = u
  BY <1>2
<1>4. collectFlamegraph(a, o, path) = Walked(names, own, t)
  BY <1>1, <1>2, FlameForm
<1>5. collectFlamegraph(b, o, path) = Walked(names, own, u)
  BY <1>1, <1>2, FlameForm
<1> QED BY <1>3, <1>4, <1>5

LEMMA DotSame ==
    ASSUME ObjType, NEW o \in DagObjs, NEW path \in Seq(Nodes),
           NEW a \in Graphs, NEW b \in Graphs,
           \A n \in Reported(o) :
              Nests(o, n) => Inner(a, o, n, path) = Inner(b, o, n, path)
    PROVE  writeExecutionDAG(a, o, path) = writeExecutionDAG(b, o, path)
<1>1. PICK v, w : v = writeExecutionDAG(a, o, path) /\ w = writeExecutionDAG(b, o, path)
  OBVIOUS
<1>2. \A n \in NodesOf(o) : HasResult(o, n) => n \in Reported(o)
  BY DEF NodesOf, Reported
<1>3. v.nodes = w.nodes
  <2>1. \A x : x \in v.nodes <=>
           \/ \E n \in NodesOf(o) : x = DotNode(o, n, path)
           \/ \E n \in NodesOf(o) : HasResult(o, n) /\ Nests(o, n)
                                    /\ x \in Inner(a, o, n, path).nodes
    BY <1>1, DotStep
  <2>2. \A x : x \in w.nodes <=>
           \/ \E n \in NodesOf(o) : x = DotNode(o, n, path)
           \/ \E n \in NodesOf(o) : HasResult(o, n) /\ Nests(o, n)
                                    /\ x \in Inner(b, o, n, path).nodes
    BY <1>1, DotStep
  <2>3. \A x : x \in v.nodes <=> x \in w.nodes
    BY <1>2, <2>1, <2>2
  <2> QED BY <2>3
<1>4. v.edges = w.edges
  <2>1. \A e : e \in v.edges <=>
           \/ \E n \in NodesOf(o) : \E m \in Deps[n] : e = DotEdge(o, m, n, path)
           \/ \E n \in NodesOf(o) : HasResult(o, n) /\ Nests(o, n)
                 /\ e \in Inner(a, o, n, path).edges \cup SubflowEdges(o, n, path)
    BY <1>1, DotStep
  <2>2. \A e : e \in w.edges <=>
           \/ \E n \in NodesOf(o) : \E m \in Deps[n] : e = DotEdge(o, m, n, path)
           \/ \E n \in NodesOf(o) : HasResult(o, n) /\ Nests(o, n)
                 /\ e \in Inner(b, o, n, path).edges \cup SubflowEdges(o, n, path)
    BY <1>1, DotStep
  <2>3. \A e : e \in v.edges <=> e \in w.edges
    BY <1>2, <2>1, <2>2
  <2> QED BY <2>3
<1>5. v \in Shapes /\ w \in Shapes
  BY <1>1, DotStep
<1>6. v = w
  BY <1>3, <1>4, <1>5 DEF Shapes
<1> QED BY <1>1, <1>6

LEMMA EvenStep ==
    ASSUME ObjType, NEW k \in Nat, NEW o \in DagObjs,
           \A n \in Reported(o) : Nests(o, n) => Even(k, Sub(o, n))
    PROVE  Even(k + 1, o)
<1> SUFFICES ASSUME NEW path \in Seq(Nodes)
             PROVE  /\ Tr(k + 1 + 1, o, path) = Tr(k + 1, o, path)
                    /\ Fl(k + 1 + 1, o, path) = Fl(k + 1, o, path)
                    /\ Do(k + 1 + 1, o, path) = Do(k + 1, o, path)
  BY DEF Even
<1>1. k + 1 \in Nat
  OBVIOUS
<1>2. PICK j \in Nat : j = k + 1
  BY <1>1
<1>3. ASSUME NEW n \in Reported(o), Nests(o, n)
      PROVE  /\ Tr(j, Sub(o, n), Append(path, n)) = Tr(k, Sub(o, n), Append(path, n))
             /\ Fl(j, Sub(o, n), Append(path, n)) = Fl(k, Sub(o, n), Append(path, n))
             /\ Do(j, Sub(o, n), Append(path, n)) = Do(k, Sub(o, n), Append(path, n))
  <2>1. Append(path, n) \in Seq(Nodes)
    BY ReportedType, AppendType
  <2> QED BY <1>2, <1>3, <2>1 DEF Even
<1>4. Tr(j + 1, o, path) = Tr(k + 1, o, path)
  <2>1. Tr(j + 1, o, path) = collectTraceEvents(TraceEvents[j], o, path)
        /\ Tr(k + 1, o, path) = collectTraceEvents(TraceEvents[k], o, path)
    BY TraceLoop DEF Tr
  <2>2. \A n \in Reported(o) :
           BelowEvents(TraceEvents[j], o, n, path) = BelowEvents(TraceEvents[k], o, n, path)
    BY <1>3 DEF BelowEvents, Traced, Nests, Tr, Sub
  <2> QED BY <2>1, <2>2, TraceSame
<1>5. Fl(j + 1, o, path) = Fl(k + 1, o, path)
  <2>1. Fl(j + 1, o, path) = collectFlamegraph(FlameLines[j], o, path)
        /\ Fl(k + 1, o, path) = collectFlamegraph(FlameLines[k], o, path)
    BY FlameLoop DEF Fl
  <2>2. \A n \in Reported(o) :
           BelowLines(FlameLines[j], o, n, path) = BelowLines(FlameLines[k], o, n, path)
    BY <1>3 DEF BelowLines, Fl, Sub
  <2> QED BY <2>1, <2>2, FlameSame
<1>6. Do(j + 1, o, path) = Do(k + 1, o, path)
  <2>1. Do(j + 1, o, path) = writeExecutionDAG(DotGraph[j], o, path)
        /\ Do(k + 1, o, path) = writeExecutionDAG(DotGraph[k], o, path)
        /\ DotGraph[j] \in Graphs /\ DotGraph[k] \in Graphs
    BY DotLoop DEF Do
  <2>2. \A n \in Reported(o) :
           Nests(o, n) => Inner(DotGraph[j], o, n, path) = Inner(DotGraph[k], o, n, path)
    BY <1>3 DEF Inner, Do, Sub
  <2> QED BY <2>1, <2>2, DotSame
<1> QED BY <1>2, <1>4, <1>5, <1>6

-----------------------------------------------------------------------------
(***************************************************************************)
(* A line of results, each nested in the one before it, down to o.  There  *)
(* are no more of them than objects.                                       *)
(***************************************************************************)
Line(S, o) ==
    /\ o \in S /\ S \subseteq DagObjs
    /\ \A x \in DagObjs : \A n \in Reported(x) : Sub(x, n) \in S => x \in S \ {o}

LEMMA LineStarts ==
    ASSUME IndInv, NEW c \in Callers, phase[c] = "returned"
    PROVE  Line({result[c]}, result[c])
<1>1. result[c] \in DagObjs /\ result[c] # None
  BY DEF IndInv, CallType
<1>2. ASSUME NEW x \in DagObjs, NEW n \in Reported(x) PROVE Sub(x, n) # result[c]
  <2>1. dag[x].results[n] \in NodeObjs
    BY DEF IndInv, ObjType, DagResults, Reported, HasResult
  <2> QED BY <1>1, <2>1 DEF IndInv, DagsOnce, Sub, Result
<1> QED BY <1>1, <1>2 DEF Line

LEMMA LineGrows ==
    ASSUME IndInv, NEW S, NEW o, Line(S, o), NEW n \in Reported(o), Nests(o, n)
    PROVE  Sub(o, n) \notin S /\ Line(S \cup {Sub(o, n)}, Sub(o, n))
<1>1. o \in S /\ o \in DagObjs /\ S \subseteq DagObjs
  BY DEF Line
<1>2. PICK q \in DagObjs : q = Sub(o, n) /\ q # None
  BY <1>1, ReportedType DEF IndInv, Nests, Sub
<1>3. q \notin S
  BY <1>1, <1>2 DEF Line
<1>4. ASSUME NEW x \in DagObjs, NEW m \in Reported(x), Sub(x, m) \in S \cup {q}
      PROVE  x \in (S \cup {q}) \ {q}
  <2>1. CASE Sub(x, m) \in S
    BY <1>3, <2>1 DEF Line
  <2>2. CASE Sub(x, m) = q
    <3>1. dag[x].results[m] \in NodeObjs /\ dag[o].results[n] \in NodeObjs
          /\ n \in Nodes /\ m \in Nodes /\ dag[x].results[m] # None
      BY <1>1 DEF IndInv, ObjType, DagResults, Reported, HasResult
    <3>2. dag[x].results[m] = dag[o].results[n]
      BY <1>2, <2>2, <3>1 DEF IndInv, DagsOnce, Sub, Result
    <3>3. x = o
      BY <1>1, <3>1, <3>2 DEF IndInv, NodesOnce
    <3> QED BY <1>1, <1>3, <3>3
  <2> QED BY <1>4, <2>1, <2>2
<1>5. Line(S \cup {q}, q)
  BY <1>1, <1>4 DEF Line
<1> QED BY <1>2, <1>3, <1>5

LEMMA LineLength ==
    ASSUME NEW S, NEW o, Line(S, o)
    PROVE  /\ Cardinality(S) \in Nat /\ Cardinality(S) <= MaxDags
           /\ \A q : q \notin S => Cardinality(S \cup {q}) = Cardinality(S) + 1
<1>1. MaxDags \in Nat /\ DagObjs = 1..MaxDags
  BY Objects DEF DagObjs
<1>2. IsFiniteSet(DagObjs) /\ Cardinality(DagObjs) = MaxDags
  BY <1>1, FS_Interval
<1>3. S \subseteq DagObjs
  BY DEF Line
<1>4. IsFiniteSet(S) /\ Cardinality(S) <= Cardinality(DagObjs)
  BY <1>2, <1>3, FS_Subset
<1> QED BY <1>2, <1>4, FS_CardinalityType, FS_AddElement

LEMMA EvenAt ==
    ASSUME IndInv, NEW l \in Nat, NEW R, NEW x, Line(R, x), Cardinality(R) + l > MaxDags
    PROVE  Even(l, x)
<1> DEFINE All(k) == \A S : \A o : Line(S, o) /\ Cardinality(S) + k > MaxDags => Even(k, o)
<1>1. All(0)
  <2>1. ASSUME NEW S, NEW o, Line(S, o), Cardinality(S) + 0 > MaxDags PROVE FALSE
    <3>1. Cardinality(S) \in Nat /\ Cardinality(S) <= MaxDags /\ MaxDags \in Nat
      BY <2>1, LineLength, Objects
    <3> QED BY <2>1, <3>1
  <2> QED BY <2>1
<1>2. ASSUME NEW k \in Nat, All(k) PROVE All(k + 1)
  <2> SUFFICES ASSUME NEW S, NEW o, Line(S, o), Cardinality(S) + (k + 1) > MaxDags
               PROVE  Even(k + 1, o)
    OBVIOUS
  <2>1. ASSUME NEW n \in Reported(o), Nests(o, n) PROVE Even(k, Sub(o, n))
    <3>1. PICK q, T : q = Sub(o, n) /\ T = S \cup {q}
      OBVIOUS
    <3>2. q \notin S /\ Line(T, q)
      BY <2>1, <3>1, LineGrows
    <3>3. Cardinality(T) = Cardinality(S) + 1 /\ Cardinality(S) \in Nat /\ MaxDags \in Nat
      BY <3>1, <3>2, LineLength, Objects
    <3>4. Cardinality(T) + k > MaxDags
      BY <3>3
    <3> QED BY <1>2, <3>1, <3>2, <3>4
  <2>2. o \in DagObjs
    BY DEF Line
  <2> QED BY <2>1, <2>2, EvenStep DEF IndInv
<1>3. \A k \in Nat : All(k)
  <2> HIDE DEF All
  <2>1. PICK T : T = {k \in Nat : All(k)}
    OBVIOUS
  <2>2. T \in SUBSET Nat /\ 0 \in T /\ \A k \in T : k + 1 \in T
    BY <1>1, <1>2, <2>1
  <2>3. T = Nat
    BY <2>2, Counting
  <2> QED BY <2>1, <2>3
<1> QED BY <1>3

-----------------------------------------------------------------------------
LEMMA AgreeOf ==
    ASSUME IndInv, FillInv, NEW o, Whole(o), Even(MaxDags, o)
    PROVE  Agree(o)
<1>1. /\ MaxDags \in Nat /\ <<>> \in Seq(Nodes) /\ o \in DagObjs /\ ObjType
  BY Objects, EmptySeq, WholeFacts DEF IndInv
<1>2. PICK k \in Nat, path \in Seq(Nodes) : k = MaxDags /\ path = <<>>
  BY <1>1
<1>3. PICK t, f, g : t = Tr(k, o, path) /\ f = Fl(k, o, path) /\ g = Do(k, o, path)
  OBVIOUS
<1>4. PICK E, D : E = {e \in Range(t) : e.cat = "node"} /\ D = {x \in g.nodes : x.status # "none"}
  OBVIOUS
<1>5. /\ t \in Seq(Events) /\ f \in Seq(Lines)
      /\ Singles(k, o, path) /\ Shows(k, o, path) /\ Says(k, o, path)
  BY <1>1, <1>3, ExportTypes, NothingTwice, SameShown, SaysRight
<1>6. \A p, s : <<p, s>> \in StatusOf(E) <=> EventAt(k, o, path, p, s)
  BY <1>3, <1>4 DEF StatusOf, EventAt
<1>7. \A p, s : <<p, s>> \in StatusOf(D) <=> DrawnAt(k, o, path, p, s)
  BY <1>3, <1>4 DEF StatusOf, DrawnAt
<1>8. StatusOf(E) = StatusOf(D)
  <2>1. \A p, s : <<p, s>> \in StatusOf(E) <=> <<p, s>> \in StatusOf(D)
    BY <1>5, <1>6, <1>7 DEF Shows
  <2>2. \A v \in StatusOf(E) : v \in StatusOf(D)
    <3>1. ASSUME NEW v \in StatusOf(E) PROVE v \in StatusOf(D)
      <4>1. PICK e \in E : v = <<e.path, e.status>>
        BY DEF StatusOf
      <4> QED BY <2>1, <4>1
    <3> QED BY <3>1
  <2>3. \A v \in StatusOf(D) : v \in StatusOf(E)
    <3>1. ASSUME NEW v \in StatusOf(D) PROVE v \in StatusOf(E)
      <4>1. PICK x \in D : v = <<x.path, x.status>>
        BY DEF StatusOf
      <4> QED BY <2>1, <4>1
    <3> QED BY <3>1
  <2> QED BY <2>2, <2>3
<1>9. {l.path : l \in Range(f)} = {x.path : x \in D}
  <2>1. \A p : (\E l \in Range(f) : l.path = p) <=> \E x \in D : x.path = p
    BY <1>3, <1>4, <1>5 DEF Shows, LineAt, DrawnAt
  <2> QED BY <2>1
<1>10. ASSUME NEW i \in DOMAIN t, NEW j \in DOMAIN t, t[i].cat = t[j].cat, t[i].path = t[j].path
       PROVE  i = j
  <2>1. t[i] \in Events /\ t[j] \in Events
    BY <1>5, InRange
  <2>2. EventKey[t[i]] = EventKey[t[j]]
    BY <1>10, <2>1 DEF EventKey
  <2> QED BY <1>3, <1>5, <2>2 DEF Singles, Once
<1>11. ASSUME NEW i \in DOMAIN f, NEW j \in DOMAIN f, f[i].path = f[j].path
       PROVE  i = j
  <2>1. f[i] \in Lines /\ f[j] \in Lines
    BY <1>5, InRange
  <2>2. LineKey[f[i]] = LineKey[f[j]]
    BY <1>11, <2>1 DEF LineKey
  <2> QED BY <1>3, <1>5, <2>2 DEF Singles, Once
<1>12. \A x \in g.nodes \ D : \E e \in Range(t) : e.path = Front(x.path) /\ e.status = "Failed"
  BY <1>3, <1>4, <1>5 DEF Says, Missing
<1>13. \A e \in g.edges :
          /\ e.style = "unselected" => <<e.to, "Skipped">> \in StatusOf(D)
          /\ e.style \in {"selected", "unselected"} => <<e.from, "Success">> \in StatusOf(D)
  BY <1>3, <1>5, <1>7 DEF Says, Branches
<1>14. \A e \in E : e.route >= 0 => e.status = "Success" /\ Last(e.path) \in DOMAIN RouteMap
  BY <1>3, <1>4, <1>5 DEF Says, Routes
<1>15. /\ TraceEvents[MaxDags + 1][o][<<>>] = t /\ FlameLines[MaxDags + 1][o][<<>>] = f
       /\ DotGraph[MaxDags + 1][o][<<>>] = g
  BY <1>1, <1>2, <1>3 DEF Even, Tr, Fl, Do
<1>16. t = ExportChromeTrace(o) /\ f = ExportFlamegraph(o) /\ g = ExportDOT(o)
  BY <1>2, <1>3 DEF Tr, Fl, Do, ExportChromeTrace, ExportFlamegraph, ExportDOT
<1> QED
  BY <1>4, <1>8, <1>9, <1>10, <1>11, <1>12, <1>13, <1>14, <1>15, <1>16 DEF Agree

(***************************************************************************)
(* The exports of a returned result end, and show the same nodes, each once*)
(* and with the same status (trace.go:52, trace.go:156,                    *)
(* execution_dot.go:40).                                                   *)
(***************************************************************************)
THEOREM ViewsAgreed == Spec => []ViewsAgree
<1>1. Init => IndInv /\ FillInv /\ Resulted
  BY InitIndInv, FillInit, ResultedInit
<1>2. (IndInv /\ FillInv /\ Resulted) /\ [Next]_vars => (IndInv /\ FillInv /\ Resulted)'
  BY NextIndInv, FillNext, ResultedNext
<1>3. ASSUME IndInv, FillInv, Resulted PROVE ViewsAgree
  <2>1. ASSUME NEW c \in Callers, phase[c] = "returned" PROVE Agree(result[c])
    <3>1. PICK o : o = result[c]
      OBVIOUS
    <3>2. Whole(o) /\ Line({o}, o)
      BY <1>3, <2>1, <3>1, WholeReturned, LineStarts
    <3>3. Even(MaxDags, o)
      <4>1. MaxDags \in Nat /\ Cardinality({o}) = 1
        BY Objects, FS_Singleton
      <4>2. Cardinality({o}) + MaxDags > MaxDags
        BY <4>1
      <4> QED BY <1>3, <3>2, <4>1, <4>2, EvenAt
    <3> QED BY <1>3, <3>1, <3>2, <3>3, AgreeOf
  <2> QED BY <2>1 DEF ViewsAgree, Shown
<1> QED BY <1>1, <1>2, <1>3, PTL DEF Spec

-----------------------------------------------------------------------------
(***************************************************************************)
(* Of the lines of one DAG the slower precedes the other: two such lines   *)
(* are own lines of one call, and a line further down is of another DAG.   *)
(***************************************************************************)
Siblings ==
    {r \in Lines \X Lines : Front(r[1].path) = Front(r[2].path) => r[1].took >= r[2].took}

Descends(k, o, path) == InOrder(Fl(k, o, path), Siblings)

LEMMA FrontFacts ==
    ASSUME NEW p \in Seq(Nodes), 0 < Len(p)
    PROVE  /\ Len(Front(p)) = Len(p) - 1
           /\ \A i \in 1..(Len(p) - 1) : Front(p)[i] = p[i]
<1>1. Len(p) \in Nat /\ \A i \in 1..Len(p) : p[i] \in Nodes
  BY InRange
<1>2. PICK l \in Nat : l = Len(p) - 1
  BY <1>1
<1>3. /\ Len(SubSeq(p, 1, l)) = IF 1 <= l THEN l - 1 + 1 ELSE 0
      /\ \A i \in 1..(l - 1 + 1) : SubSeq(p, 1, l)[i] = p[1 + i - 1]
  BY <1>1, <1>2, SubSeqProperties
<1>4. Len(SubSeq(p, 1, l)) = l /\ \A i \in 1..l : SubSeq(p, 1, l)[i] = p[i]
  <2>1. l - 1 + 1 = l /\ \A i \in 1..l : 1 + i - 1 = i
    OBVIOUS
  <2> QED BY <1>3, <2>1
<1> QED BY <1>2, <1>4 DEF Front

LEMMA DescendsStep ==
    ASSUME IndInv, FillInv, NEW k \in Nat,
           \A o : \A path \in Seq(Nodes) : Whole(o) => Descends(k, o, path),
           NEW o, Whole(o), NEW path \in Seq(Nodes)
    PROVE  Descends(k + 1, o, path)
<1>1. Len(path) \in Nat
  BY LenProperties
<1>2. ASSUME NEW n \in Reported(o), NEW p, LineOf(p, k, o, n, path)
      PROVE  /\ p \in Lines /\ p.path \in Seq(Nodes) /\ Len(p.path) \in Nat
             /\ Len(path) < Len(p.path) /\ Len(Front(p.path)) = Len(p.path) - 1
             /\ Len(path) + 1 < Len(p.path) => Front(p.path)[Len(path) + 1] = n
             /\ p = FlameLine(o, n, path) =>
                   p.took = Took(o, n) /\ Len(p.path) = Len(path) + 1
             /\ p # FlameLine(o, n, path) => Len(path) + 1 < Len(p.path)
  <2>1. /\ p \in Lines /\ p.path \in Seq(Nodes) /\ Len(path) < Len(p.path)
        /\ p.path[Len(path) + 1] = n
    BY <1>2, LineOfPath DEF Extends
  <2>2. Len(p.path) \in Nat
    BY <2>1, LenProperties
  <2>3. /\ Len(Front(p.path)) = Len(p.path) - 1
        /\ \A i \in 1..(Len(p.path) - 1) : Front(p.path)[i] = p.path[i]
    BY <1>1, <2>1, <2>2, FrontFacts
  <2>4. Len(path) + 1 < Len(p.path) => Front(p.path)[Len(path) + 1] = n
    BY <1>1, <2>1, <2>2, <2>3
  <2>5. n \in Nodes /\ Len(Append(path, n)) = Len(path) + 1
    BY SubFacts, AppendType
  <2>6. p = FlameLine(o, n, path) => p.took = Took(o, n) /\ Len(p.path) = Len(path) + 1
    BY <2>5, LineType
  <2>7. p # FlameLine(o, n, path) => Len(path) + 1 < Len(p.path)
    BY <1>2, <2>5, SubFacts DEF LineOf, Under
  <2> QED BY <2>1, <2>2, <2>3, <2>4, <2>6, <2>7
<1>3. ASSUME NEW n \in Reported(o), Nests(o, n)
      PROVE  InOrder(Fl(k, Sub(o, n), Append(path, n)), Siblings)
  BY <1>3, SubFacts DEF Descends
<1>4. ASSUME NEW n \in Reported(o), Nests(o, n),
             NEW p \in Range(Fl(k, Sub(o, n), Append(path, n)))
      PROVE  <<FlameLine(o, n, path), p>> \in Siblings
  <2>1. PICK q : q = FlameLine(o, n, path)
    OBVIOUS
  <2>2. LineOf(q, k, o, n, path) /\ LineOf(p, k, o, n, path)
    BY <1>4, <2>1 DEF LineOf
  <2>3. Len(Append(path, n)) = Len(path) + 1 /\ Len(Append(path, n)) < Len(p.path)
    BY <1>4, SubFacts, AppendType DEF Under
  <2>4. /\ q \in Lines /\ p \in Lines /\ Len(q.path) = Len(path) + 1
        /\ Len(Front(q.path)) = Len(q.path) - 1 /\ Len(Front(p.path)) = Len(p.path) - 1
        /\ Len(p.path) \in Nat
    BY <1>2, <2>1, <2>2
  <2>5. Len(Front(q.path)) # Len(Front(p.path))
    BY <1>1, <2>3, <2>4
  <2>6. Front(q.path) # Front(p.path)
    BY <2>5
  <2> QED BY <2>1, <2>4, <2>6 DEF Siblings
<1>5. ASSUME NEW n \in Reported(o), NEW m \in Reported(o), n # m, Took(o, n) >= Took(o, m),
             NEW p, NEW q, LineOf(p, k, o, n, path), LineOf(q, k, o, m, path)
      PROVE  <<p, q>> \in Siblings
  <2>1. p \in Lines /\ q \in Lines
    BY <1>2, <1>5
  <2>2. CASE p = FlameLine(o, n, path) /\ q = FlameLine(o, m, path)
    <3>1. p.took >= q.took
      BY <1>2, <1>5, <2>2
    <3> QED BY <2>1, <3>1 DEF Siblings
  <2>3. CASE ~(p = FlameLine(o, n, path) /\ q = FlameLine(o, m, path))
    <3>1. /\ Len(Front(p.path)) = Len(p.path) - 1 /\ Len(p.path) \in Nat
          /\ Len(Front(q.path)) = Len(q.path) - 1 /\ Len(q.path) \in Nat
          /\ Len(path) + 1 < Len(p.path) => Front(p.path)[Len(path) + 1] = n
          /\ Len(path) + 1 < Len(q.path) => Front(q.path)[Len(path) + 1] = m
          /\ Len(path) + 1 < Len(p.path) \/ Len(path) + 1 < Len(q.path)
      BY <1>2, <1>5, <2>3
    <3>2. ASSUME Front(p.path) = Front(q.path) PROVE FALSE
      <4>1. Len(p.path) = Len(q.path)
        BY <3>1, <3>2
      <4> QED BY <1>5, <3>1, <3>2, <4>1
    <3> QED BY <2>1, <3>2 DEF Siblings
  <2> QED BY <2>2, <2>3
<1>6. \A n, m \in Reported(o) : n # m /\ Took(o, n) >= Took(o, m) =>
         \A p, q : LineOf(p, k, o, n, path) /\ LineOf(q, k, o, m, path) => <<p, q>> \in Siblings
  BY <1>5
<1>7. InOrder(Fl(k + 1, o, path), Siblings)
  BY <1>3, <1>4, <1>6, FlameUnfolds, ZenonT(60)
<1> QED BY <1>7 DEF Descends

LEMMA SlowestFirstOf ==
    ASSUME IndInv, FillInv, NEW l \in Nat, NEW x, Whole(x), NEW at \in Seq(Nodes)
    PROVE  Descends(l, x, at)
<1> DEFINE All(k) == \A o : \A path \in Seq(Nodes) : Whole(o) => Descends(k, o, path)
<1>1. All(0)
  <2>1. ASSUME NEW o, Whole(o), NEW path \in Seq(Nodes) PROVE Descends(0, o, path)
    BY <2>1, ExportsStart, WholeFacts DEF Descends, InOrder, IndInv
  <2> QED BY <2>1
<1>2. ASSUME NEW k \in Nat, All(k) PROVE All(k + 1)
  BY <1>2, DescendsStep
<1>3. \A k \in Nat : All(k)
  <2> HIDE DEF All
  <2>1. PICK T : T = {k \in Nat : All(k)}
    OBVIOUS
  <2>2. T \in SUBSET Nat /\ 0 \in T /\ \A k \in T : k + 1 \in T
    BY <1>1, <1>2, <2>1
  <2>3. T = Nat
    BY <2>2, Counting
  <2> QED BY <2>1, <2>3
<1> QED BY <1>3

LEMMA LayoutOf ==
    ASSUME IndInv, FillInv, NEW o, Whole(o)
    PROVE  LaidOut(o)
<1>1. MaxDags \in Nat /\ <<>> \in Seq(Nodes) /\ o \in DagObjs /\ ObjType
  BY Objects, EmptySeq, WholeFacts DEF IndInv
<1>2. PICK f : f = ExportFlamegraph(o)
  OBVIOUS
<1>3. InOrder(f, Siblings)
  <2>1. Descends(MaxDags, o, <<>>)
    BY <1>1, SlowestFirstOf
  <2> QED BY <1>2, <2>1 DEF Descends, Fl, ExportFlamegraph
<1>4. ASSUME NEW i \in DOMAIN f, NEW j \in DOMAIN f, i < j, Front(f[i].path) = Front(f[j].path)
      PROVE  f[i].took >= f[j].took
  <2>1. <<f[i], f[j]>> \in Siblings
    BY <1>3, <1>4 DEF InOrder
  <2> QED BY <1>4, <2>1 DEF Siblings
<1> QED BY <1>1, <1>2, <1>4, TracksOf DEF LaidOut

(***************************************************************************)
(* Nodes of different nesting never share a track of the trace, and of the *)
(* nodes of one DAG the flame graph has the line of a slower one first,    *)
(* however many lines of subflows stand between (trace.go:75,              *)
(* trace.go:167-181).                                                      *)
(***************************************************************************)
THEOREM LayoutKept == Spec => []LayoutHolds
<1>1. Init => IndInv /\ FillInv /\ Resulted
  BY InitIndInv, FillInit, ResultedInit
<1>2. (IndInv /\ FillInv /\ Resulted) /\ [Next]_vars => (IndInv /\ FillInv /\ Resulted)'
  BY NextIndInv, FillNext, ResultedNext
<1>3. ASSUME IndInv, FillInv, Resulted PROVE LayoutHolds
  <2>1. ASSUME NEW c \in Callers, phase[c] = "returned" PROVE LaidOut(result[c])
    <3>1. PICK o : o = result[c]
      OBVIOUS
    <3>2. Whole(o)
      BY <1>3, <2>1, <3>1, WholeReturned
    <3> QED BY <1>3, <3>1, <3>2, LayoutOf
  <2> QED BY <2>1 DEF LayoutHolds, Shown
<1> QED BY <1>1, <1>2, <1>3, PTL DEF Spec
=================================================================================
