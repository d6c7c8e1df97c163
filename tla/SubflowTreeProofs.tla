--------------------------- MODULE SubflowTreeProofs ---------------------------
(***************************************************************************)
(* Proofs about module SubflowTree, for every tree of DAGs, every pool and *)
(* every set of failing and critical nodes.                                *)
(***************************************************************************)
EXTENDS SubflowTree, FiniteSetTheorems, SequenceTheorems, TLAPS

-----------------------------------------------------------------------------
(***************************************************************************)
(* The tree.                                                               *)
(***************************************************************************)
LEMMA NodeLayers ==
    /\ \A n \in Nodes : LayerOf[n] \in Layers /\ n \in NodesOf[LayerOf[n]]
    /\ \A l \in Layers : NodesOf[l] \subseteq Nodes /\ NodesOf[l] # {}
    /\ \A l \in Layers : \A n \in NodesOf[l] : LayerOf[n] = l
<1>1. \A l \in Layers : NodesOf[l] \subseteq Nodes /\ NodesOf[l] # {}
  BY TreeAssumption DEF TreeAssumption
<1>2. ASSUME NEW n \in Nodes PROVE LayerOf[n] \in Layers /\ n \in NodesOf[LayerOf[n]]
  <2>1. \E l \in Layers : n \in NodesOf[l]
    BY DEF Nodes
  <2>2. LayerOf[n] = CHOOSE l \in Layers : n \in NodesOf[l]
    BY DEF LayerOf
  <2> QED BY <2>1, <2>2
<1>3. ASSUME NEW l \in Layers, NEW n \in NodesOf[l] PROVE LayerOf[n] = l
  <2>1. n \in Nodes
    BY <1>1
  <2>2. LayerOf[n] \in Layers /\ n \in NodesOf[LayerOf[n]]
    BY <1>2, <2>1
  <2> QED BY <2>2, TreeAssumption DEF TreeAssumption
<1> QED BY <1>1, <1>2, <1>3

LEMMA LayerSizes ==
    ASSUME NEW l \in Layers
    PROVE  /\ IsFiniteSet(NodesOf[l]) /\ Cardinality(NodesOf[l]) \in Nat
           /\ \A S \in SUBSET NodesOf[l] : /\ IsFiniteSet(S) /\ Cardinality(S) \in Nat
                                           /\ Cardinality(S) <= Cardinality(NodesOf[l])
                                           /\ Cardinality(S) = Cardinality(NodesOf[l])
                                                  => S = NodesOf[l]
<1>1. NodesOf[l] \in SUBSET Nodes /\ IsFiniteSet(Nodes)
  BY NodeLayers, TreeAssumption DEF TreeAssumption
<1>2. IsFiniteSet(NodesOf[l])
  BY <1>1, FS_Subset
<1>3. ASSUME NEW S \in SUBSET NodesOf[l]
      PROVE  /\ IsFiniteSet(S) /\ Cardinality(S) <= Cardinality(NodesOf[l])
             /\ Cardinality(S) = Cardinality(NodesOf[l]) => S = NodesOf[l]
  BY <1>2, FS_Subset
<1>4. \A S \in SUBSET NodesOf[l] : Cardinality(S) \in Nat
  BY <1>3, FS_CardinalityType
<1> QED BY <1>2, <1>3, <1>4

LEMMA SubflowNodes ==
    /\ \A n \in Subflow : n \in Nodes /\ Child[n] \in Layers /\ Child[n] # Root
    /\ \A n, m \in Subflow : Child[n] = Child[m] => n = m
BY TreeAssumption DEF TreeAssumption

LEMMA BelowClosed ==
    ASSUME NEW l \in Layers
    PROVE  /\ Below[l] \subseteq Layers /\ l \in Below[l]
           /\ \A n \in Subflow : LayerOf[n] \in Below[l] => Child[n] \in Below[l]
           /\ \A S \in SUBSET Layers : l \in S /\ Children(S) \subseteq S => Below[l] \subseteq S
<1>1. Below[l] = {k \in Layers :
                    \A S \in SUBSET Layers : l \in S /\ Children(S) \subseteq S => k \in S}
  BY DEF Below
<1>2. ASSUME NEW n \in Subflow, LayerOf[n] \in Below[l] PROVE Child[n] \in Below[l]
  <2>1. Child[n] \in Layers
    BY SubflowNodes
  <2>2. ASSUME NEW S \in SUBSET Layers, l \in S, Children(S) \subseteq S PROVE Child[n] \in S
    <3>1. LayerOf[n] \in S
      BY <1>1, <1>2, <2>2
    <3> QED BY <2>2, <3>1 DEF Children
  <2> QED BY <1>1, <2>1, <2>2
<1>3. \A S \in SUBSET Layers : l \in S /\ Children(S) \subseteq S => Below[l] \subseteq S
  BY <1>1
<1>4. Below[l] \subseteq Layers /\ l \in Below[l]
  BY <1>1
<1> QED BY <1>2, <1>3, <1>4

LEMMA ClosedSets ==
    ASSUME NEW S \in SUBSET Layers,
           \A n \in Subflow : LayerOf[n] \in S => Child[n] \in S
    PROVE  /\ Children(S) \subseteq S
           /\ \A l \in S : Below[l] \subseteq S
           /\ Root \in S => S = Layers
<1>1. Children(S) \subseteq S
  BY DEF Children
<1>2. \A l \in S : Below[l] \subseteq S
  BY <1>1, BelowClosed
<1>3. Root \in S => S = Layers
  BY <1>2, TreeAssumption DEF TreeAssumption
<1> QED BY <1>1, <1>2, <1>3

LEMMA Parents ==
    /\ \A l \in Layers \ {Root} : Parent[l] \in Subflow /\ Child[Parent[l]] = l
    /\ \A n \in Subflow : Parent[Child[n]] = n
<1>1. ASSUME NEW l \in Layers \ {Root} PROVE \E n \in Subflow : Child[n] = l
  <2> DEFINE S == {Root} \cup {Child[n] : n \in Subflow}
  <2>1. S \in SUBSET Layers /\ Root \in S
    BY SubflowNodes, TreeAssumption DEF TreeAssumption
  <2>2. \A m \in Subflow : LayerOf[m] \in S => Child[m] \in S
    OBVIOUS
  <2>3. l \in S
    <3> HIDE DEF S
    <3> QED BY <2>1, <2>2, ClosedSets
  <2> QED BY <2>3
<1>2. ASSUME NEW l \in Layers \ {Root} PROVE Parent[l] \in Subflow /\ Child[Parent[l]] = l
  BY <1>1 DEF Parent
<1> QED BY <1>2, SubflowNodes

(***************************************************************************)
(* What is above the layer of a subflow node, and that layer, is above its *)
(* child DAG: no DAG is nested in itself.                                  *)
(***************************************************************************)
LEMMA AboveChild ==
    ASSUME NEW n \in Subflow
    PROVE  Above(LayerOf[n]) \cup {LayerOf[n]} \subseteq Above(Child[n])
<1> DEFINE p == LayerOf[n]
           l == Child[n]
<1>1. p \in Layers /\ l \in Layers /\ l # Root /\ p \in Below[p] /\ l \in Below[l]
  BY SubflowNodes, NodeLayers, BelowClosed
<1>2. p \notin Below[l]
  <2> SUFFICES ASSUME p \in Below[l] PROVE FALSE
    OBVIOUS
  <2>1. Root \notin Below[l]
    <3> DEFINE S == Layers \ {Root}
    <3>1. S \in SUBSET Layers /\ l \in S /\ \A m \in Subflow : Child[m] \in S
      BY <1>1, SubflowNodes
    <3>2. Root \notin S
      OBVIOUS
    <3> HIDE DEF S
    <3>3. Below[l] \subseteq S
      BY <3>1, ClosedSets
    <3> QED BY <3>2, <3>3
  <2>2. \A m \in Subflow : Child[m] \in Below[l] => LayerOf[m] \in Below[l]
    <3> SUFFICES ASSUME NEW m \in Subflow, Child[m] \in Below[l] PROVE LayerOf[m] \in Below[l]
      OBVIOUS
    <3> DEFINE S == {k \in Below[l] : k = l \/ \E i \in Subflow : Child[i] = k /\ LayerOf[i] \in Below[l]}
    <3>1. S \in SUBSET Layers /\ l \in S
      BY <1>1, BelowClosed
    <3>2. \A i \in Subflow : LayerOf[i] \in S => Child[i] \in S
      BY <1>1, BelowClosed
    <3>3. Below[l] \subseteq S
      <4> HIDE DEF S
      <4> QED BY <3>1, <3>2, ClosedSets
    <3>4. CASE Child[m] = l
      <4>1. m = n
        BY <3>4, SubflowNodes
      <4> QED BY <4>1
    <3>5. CASE Child[m] # l
      <4>1. PICK i \in Subflow : Child[i] = Child[m] /\ LayerOf[i] \in Below[l]
        BY <3>3, <3>5
      <4>2. i = m
        BY <4>1, SubflowNodes
      <4> QED BY <4>1, <4>2
    <3> QED BY <3>4, <3>5
  <2> DEFINE D == Layers \ Below[l]
  <2>3. D \in SUBSET Layers /\ Root \in D
    BY <2>1, TreeAssumption DEF TreeAssumption
  <2>4. \A m \in Subflow : LayerOf[m] \in D => Child[m] \in D
    BY <2>2, SubflowNodes
  <2>5. l \notin D /\ l \in Layers
    BY <1>1
  <2> HIDE DEF D
  <2>6. D = Layers
    BY <2>3, <2>4, ClosedSets
  <2> QED BY <2>5, <2>6
<1>3. ASSUME NEW k \in Layers, p \in Below[k] PROVE k # l /\ l \in Below[k]
  BY <1>2, <1>3, BelowClosed
<1> QED BY <1>1, <1>3 DEF Above

-----------------------------------------------------------------------------
(***************************************************************************)
(* Channels: the results in a channel, each of another node.               *)
(***************************************************************************)
Msg     == [node : Nodes, status : {"Success", "Failed"}]
Msgs(s) == {s[i] : i \in 1..Len(s)}

Distinct(s) == \A i, j \in 1..Len(s) : s[i].node = s[j].node => i = j

LEMMA SendMsg ==
    ASSUME NEW s \in Seq(Msg), NEW m \in Msg, Distinct(s), \A e \in Msgs(s) : e.node # m.node
    PROVE  /\ Append(s, m) \in Seq(Msg) /\ Distinct(Append(s, m))
           /\ Msgs(Append(s, m)) = Msgs(s) \cup {m}
<1> DEFINE t == Append(s, m)
<1>1. /\ t \in Seq(Msg) /\ Len(t) = Len(s) + 1 /\ Len(s) \in Nat
      /\ \A i \in 1..Len(s) : t[i] = s[i]
      /\ t[Len(s) + 1] = m
  BY AppendProperties, LenProperties
<1> HIDE DEF t
<1>2. \A i \in 1..Len(t) : i = Len(s) + 1 \/ i \in 1..Len(s)
  BY <1>1
<1>3. Msgs(t) = Msgs(s) \cup {m}
  <2>1. Msgs(t) \subseteq Msgs(s) \cup {m}
    BY <1>1, <1>2 DEF Msgs
  <2>2. \A i \in 1..Len(s) : s[i] \in Msgs(t)
    BY <1>1 DEF Msgs
  <2>3. m \in Msgs(t)
    BY <1>1 DEF Msgs
  <2> QED BY <2>1, <2>2, <2>3 DEF Msgs
<1>4. Distinct(t)
  <2> SUFFICES ASSUME NEW i \in 1..Len(t), NEW j \in 1..Len(t), t[i].node = t[j].node
               PROVE  i = j
    BY DEF Distinct
  <2>1. \A k \in 1..Len(s) : s[k].node # m.node
    BY DEF Msgs
  <2> QED BY <1>1, <1>2, <2>1 DEF Distinct
<1> QED BY <1>1, <1>3, <1>4 DEF t

LEMMA ReceiveMsg ==
    ASSUME NEW s \in Seq(Msg), s # <<>>, Distinct(s)
    PROVE  /\ Head(s) \in Msg /\ Head(s) \in Msgs(s)
           /\ Tail(s) \in Seq(Msg) /\ Distinct(Tail(s))
           /\ Msgs(Tail(s)) \subseteq Msgs(s)
           /\ \A e \in Msgs(Tail(s)) : e.node # Head(s).node
           /\ \A e \in Msgs(s) : e.node # Head(s).node => e \in Msgs(Tail(s))
<1> DEFINE t == Tail(s)
           h == Head(s)
<1>1. Len(s) \in Nat /\ Len(s) > 0 /\ h = s[1] /\ h \in Msg
  BY EmptySeq, LenProperties, HeadTailProperties, ElementOfSeq
<1>2. t \in Seq(Msg) /\ Len(t) = Len(s) - 1 /\ \A i \in 1..Len(t) : t[i] = s[i + 1]
  BY HeadTailProperties
<1> HIDE DEF t, h
<1>3. Msgs(t) \subseteq Msgs(s) /\ h \in Msgs(s)
  BY <1>1, <1>2 DEF Msgs
<1>4. \A e \in Msgs(t) : e.node # h.node
  BY <1>1, <1>2 DEF Msgs, Distinct
<1>5. ASSUME NEW e \in Msgs(s), e.node # h.node PROVE e \in Msgs(t)
  <2>1. PICK i \in 1..Len(s) : e = s[i]
    BY DEF Msgs
  <2>2. i - 1 \in 1..Len(t) /\ t[i - 1] = s[i]
    BY <1>1, <1>2, <1>5, <2>1
  <2> QED BY <2>1, <2>2 DEF Msgs
<1>6. Distinct(t)
  BY <1>1, <1>2 DEF Distinct
<1> QED BY <1>1, <1>2, <1>3, <1>4, <1>5, <1>6 DEF t, h

-----------------------------------------------------------------------------
(***************************************************************************)
(* The invariant.                                                          *)
(***************************************************************************)
Open        == {"None", "Skipped"}
Reported(n) == \E m \in Msgs(doneCh[LayerOf[n]]) : m.node = n
Unbuilt(n)  == n \in Subflow => loop[Child[n]] = "off"

(***************************************************************************)
(* A node is in at most one of the heap, a worker, the loop of its child   *)
(* DAG and the channel, and as long as it is in one of them it has no      *)
(* result, but for the Skipped of an abort.                                *)
(***************************************************************************)
Flight(n) ==
    /\ n \in ready => results[n] \in Open /\ n \notin running /\ ~Reported(n) /\ Unbuilt(n)
    /\ n \in running => results[n] \in Open /\ n \in started /\ ~Reported(n) /\ Unbuilt(n)
    /\ n \in Subflow /\ Alive(Child[n]) => results[n] \in Open /\ n \in started /\ ~Reported(n)
    /\ Reported(n) => results[n] \in Open /\ n \in started
    /\ n \notin started => results[n] = "None" /\ Unbuilt(n)
    /\ results[n] = "Skipped" => LayerOf[n] \in failed

(***************************************************************************)
(* What a loop holds is of its own layer; before it runs nothing of the    *)
(* layer is started, and a send panics on a closed channel only.           *)
(***************************************************************************)
Held(l) ==
    /\ Distinct(doneCh[l]) /\ \A m \in Msgs(doneCh[l]) : m.node \in NodesOf[l]
    /\ task[l] # NoNode => task[l] \in ready \cap NodesOf[l]
    /\ loop[l] = "off" => NodesOf[l] \cap started = {}
    /\ loop[l] = "panicked" => closed

RootLoop == loop[Root] \in {"loop", "gone"} /\ (closed => loop[Root] = "gone")

Capacity == idle + Cardinality(running) <= MaxWorkers

(***************************************************************************)
(* Until an abort the loop counts the results of its layer; so a loop that *)
(* ends without one leaves none out.  Of a child that is gone this is known*)
(* only until the workers are stopped, when loops may panic.               *)
(***************************************************************************)
Complete(l) == \A m \in NodesOf[l] : results[m] # "None"
WithResult(l) == {m \in NodesOf[l] : results[m] # "None"}

Counted(l) ==
    /\ l \notin failed => completed[l] = Cardinality(WithResult(l))
    /\ loop[l] = "ended" \/ (loop[l] = "gone" /\ (l = Root \/ ~closed)) =>
          l \in failed \/ Complete(l)

(***************************************************************************)
(* The status of a subflow node, in the channel or received.               *)
(***************************************************************************)
Verdict(n, s) ==
    IF s = "Success" THEN Child[n] \notin failed /\ Complete(Child[n])
                     ELSE Child[n] \in failed \/ closed

Verdicts(n) ==
    n \in Subflow /\ loop[Child[n]] = "gone" =>
        /\ \A m \in Msgs(doneCh[LayerOf[n]]) : m.node = n => Verdict(n, m.status)
        /\ results[n] \in {"Success", "Failed"} => Verdict(n, results[n])

(***************************************************************************)
(* Once the workers are stopped, a loop that is still there, or one that   *)
(* panicked, has been aborted from above.                                  *)
(***************************************************************************)
Hanging(l) == Alive(l) \/ (loop[l] = "gone" /\ l \notin failed /\ ~Complete(l))

Orphans == closed => \A l \in Layers : Hanging(l) => Above(l) \cap failed # {}

IndInv ==
    /\ TypeOK /\ Capacity /\ RootLoop /\ Orphans
    /\ \A n \in Nodes : Flight(n) /\ Verdicts(n)
    /\ \A l \in Layers : Held(l) /\ Counted(l)

-----------------------------------------------------------------------------
(***************************************************************************)
(* What a step leaves alone stays true.                                    *)
(***************************************************************************)
LEMMA FlightKept ==
    ASSUME NEW n \in Nodes, Flight(n), results'[n] = results[n],
           n \in ready' => n \in ready, n \in running' <=> n \in running,
           n \in started' <=> n \in started, failed \subseteq failed',
           Reported(n)' => Reported(n),
           n \in Subflow => /\ loop[Child[n]] = "off" <=> loop'[Child[n]] = "off"
                            /\ Alive(Child[n])' => Alive(Child[n])
    PROVE  Flight(n)'
BY DEF Flight, Unbuilt

LEMMA HeldKept ==
    ASSUME NEW l \in Layers, Held(l), doneCh'[l] = doneCh[l], task'[l] = task[l],
           task[l] \in ready => task[l] \in ready',
           NodesOf[l] \cap started' \subseteq started,
           loop'[l] = loop[l] \/ loop'[l] \notin {"off", "panicked"}, closed => closed'
    PROVE  Held(l)'
BY DEF Held

LEMMA CountedKept ==
    ASSUME NEW l \in Layers, Counted(l), completed'[l] = completed[l],
           \A m \in NodesOf[l] : results'[m] = results[m],
           l \in failed' <=> l \in failed,
           loop'[l] \in {"ended", "gone"} => loop'[l] = loop[l], closed => closed'
    PROVE  Counted(l)'
<1>1. WithResult(l)' = WithResult(l) /\ (Complete(l)' <=> Complete(l))
  BY DEF WithResult, Complete
<1> QED BY <1>1 DEF Counted

LEMMA VerdictsKept ==
    ASSUME NEW n \in Nodes, Verdicts(n),
           n \in Subflow /\ loop'[Child[n]] = "gone" =>
               /\ loop[Child[n]] = "gone"
               /\ Child[n] \in failed' <=> Child[n] \in failed
               /\ \A m \in NodesOf[Child[n]] : results[m] # "None" => results'[m] # "None",
           closed => closed',
           \A m \in Msgs(doneCh[LayerOf[n]])' : m.node = n => m \in Msgs(doneCh[LayerOf[n]]),
           results'[n] = results[n] \/ results'[n] = "Skipped"
    PROVE  Verdicts(n)'
BY DEF Verdicts, Verdict, Complete

LEMMA OrphansKept ==
    ASSUME Orphans, closed' => closed, failed \subseteq failed',
           \A l \in Layers : Hanging(l)' => Hanging(l)
    PROVE  Orphans'
BY DEF Orphans

(***************************************************************************)
(* What is in a channel is a node of the layer; so a layer's loop touches  *)
(* no other layer.                                                         *)
(***************************************************************************)
LEMMA OtherChannels ==
    ASSUME NEW n \in Nodes, doneCh'[LayerOf[n]] = doneCh[LayerOf[n]]
    PROVE  (Reported(n)' <=> Reported(n)) /\ Msgs(doneCh[LayerOf[n]])' = Msgs(doneCh[LayerOf[n]])
BY DEF Reported, Msgs

-----------------------------------------------------------------------------
LEMMA InitIndInv == ASSUME Init PROVE IndInv
<1>1. \A l \in Layers : Waiting(l) \subseteq Nodes /\ Roots \subseteq Nodes
  BY NodeLayers DEF Waiting, Roots
<1>2. PICK t \in Peeks(Waiting(Root)) : task = [l \in Layers |-> IF l = Root THEN t ELSE NoNode]
  BY DEF Init
<1>3. Root \in Layers /\ MaxWorkers \in Nat /\ NoNode \notin Nodes
  BY TreeAssumption DEF TreeAssumption
<1>4. t \in Nodes \cup {NoNode} /\ (t # NoNode => t \in ready \cap NodesOf[Root])
  BY <1>1, <1>2, <1>3 DEF Peeks, Waiting, Init
<1>5. Msgs(<<>>) = {} /\ Distinct(<<>>) /\ <<>> \in Seq(Msg)
  BY DEF Msgs, Distinct
<1>6. Cardinality({}) = 0
  BY FS_EmptySet
<1>7. TypeOK
  <2>1. loop \in [Layers -> {"off", "loop", "ended", "panicked", "gone"}]
    BY DEF Init
  <2>2. task \in [Layers -> Nodes \cup {NoNode}]
    BY <1>2, <1>4
  <2>3. ready \in SUBSET Nodes /\ watching \in SUBSET Layers
    BY <1>1, <1>3 DEF Init
  <2>4. doneCh \in [Layers -> Seq(Msg)]
    BY <1>5 DEF Init
  <2>5. results \in [Nodes -> {"None", "Success", "Failed", "Skipped"}] /\ completed \in [Layers -> Nat]
    BY DEF Init
  <2>6. started \in SUBSET Nodes /\ failed \in SUBSET Layers /\ cancelled \in SUBSET Layers
    BY Zenon DEF Init
  <2>7. idle = MaxWorkers /\ running = {} /\ closed = FALSE /\ returned = FALSE
    BY Zenon DEF Init
  <2>8. idle \in 0..MaxWorkers
    BY <1>3, <2>7
  <2> QED BY <2>1, <2>2, <2>3, <2>4, <2>5, <2>6, <2>7, <2>8 DEF TypeOK, Msg
<1>8. Capacity
  BY <1>3, <1>6 DEF Init, Capacity
<1>9. \A l \in Layers : Held(l)
  BY <1>2, <1>3, <1>4, <1>5 DEF Init, Held
<1>10. \A l \in Layers : WithResult(l) = {}
  BY NodeLayers DEF Init, WithResult
<1>11. \A l \in Layers : Counted(l)
  BY <1>3, <1>6, <1>10 DEF Init, Counted
<1>12. \A n \in Nodes : ~Reported(n) /\ Unbuilt(n)
  BY <1>5, NodeLayers, SubflowNodes DEF Init, Reported, Unbuilt
<1>13. \A n \in Nodes : Flight(n)
  BY <1>12, SubflowNodes DEF Init, Flight, Open, Unbuilt, Alive
<1>14. \A n \in Nodes : Verdicts(n)
  BY SubflowNodes DEF Init, Verdicts
<1> QED
  BY <1>3, <1>7, <1>8, <1>9, <1>11, <1>13, <1>14 DEF Init, IndInv, RootLoop, Orphans

-----------------------------------------------------------------------------
(***************************************************************************)
(* A task is handed over; it stays the node's only place.                  *)
(***************************************************************************)
LEMMA StepDispatch == ASSUME IndInv, NEW l \in Layers, Dispatch(l) PROVE IndInv'
<1> DEFINE t == task[l]
<1>1. /\ TypeOK /\ Held(l) /\ t \in ready /\ t \in NodesOf[l] /\ t \in Nodes /\ LayerOf[t] = l
      /\ ~closed /\ loop[l] = "loop" /\ idle > 0
  BY NodeLayers DEF IndInv, Dispatch, Held, Looping
<1>2. /\ idle' = idle - 1 /\ running' = running \cup {t} /\ ready' = ready \ {t}
      /\ started' = started \cup {t}
      /\ UNCHANGED <<loop, watching, results, completed, failed, doneCh, cancelled, closed, returned>>
  BY DEF Dispatch
<1>3. PICK m \in Peeks(Waiting(l) \ {t}) : task' = [task EXCEPT ![l] = m]
  BY DEF Dispatch
<1>4. m \in Nodes \cup {NoNode} /\ (m # NoNode => m \in ready' \cap NodesOf[l])
  BY <1>1, <1>2, NodeLayers DEF Peeks, Waiting
<1>5. TypeOK' /\ Capacity'
  <2>1. IsFiniteSet(running) /\ t \notin running
    BY <1>1, FS_Subset, TreeAssumption DEF TypeOK, IndInv, Flight, TreeAssumption
  <2>2. Cardinality(running') = Cardinality(running) + 1 /\ Cardinality(running) \in Nat
    BY <1>2, <2>1, FS_AddElement, FS_CardinalityType
  <2>3. idle' + Cardinality(running') <= MaxWorkers /\ idle' \in 0..MaxWorkers
    BY <1>1, <1>2, <2>2, TreeAssumption DEF IndInv, TypeOK, Capacity, TreeAssumption
  <2> QED BY <1>1, <1>2, <1>3, <1>4, <2>3 DEF TypeOK, Capacity
<1>6. ASSUME NEW n \in Nodes PROVE Flight(n)'
  <2>1. Reported(n)' <=> Reported(n)
    BY <1>2, OtherChannels
  <2>2. Flight(n)
    BY DEF IndInv
  <2>3. CASE n = t
    BY <1>1, <1>2, <2>1, <2>2, <2>3 DEF Flight, Unbuilt, Alive
  <2>4. CASE n # t
    BY <1>2, <2>1, <2>2, <2>4, FlightKept DEF Alive
  <2> QED BY <2>3, <2>4
<1>7. ASSUME NEW n \in Nodes PROVE Verdicts(n)'
  BY <1>2, VerdictsKept, OtherChannels DEF IndInv
<1>8. ASSUME NEW k \in Layers PROVE Held(k)'
  <2>1. Held(k)
    BY DEF IndInv
  <2>2. CASE k = l
    BY <1>1, <1>2, <1>3, <1>4, <2>1, <2>2 DEF Held, TypeOK
  <2>3. CASE k # l
    <3>1. t \notin NodesOf[k] /\ task'[k] = task[k]
      BY <1>1, <1>3, <2>3, NodeLayers DEF TypeOK
    <3>2. task[k] \in ready /\ task[k] # NoNode => task[k] \in ready'
      BY <1>2, <2>1, <3>1 DEF Held
    <3> QED BY <1>2, <2>1, <3>1, <3>2 DEF Held
  <2> QED BY <2>2, <2>3
<1>9. ASSUME NEW k \in Layers PROVE Counted(k)'
  BY <1>2, CountedKept DEF IndInv
<1>10. Orphans' /\ RootLoop'
  BY <1>1, <1>2 DEF Orphans, RootLoop, IndInv
<1> QED BY <1>5, <1>6, <1>7, <1>8, <1>9, <1>10 DEF IndInv

(***************************************************************************)
(* Only a loop that was aborted from above is still there to panic.        *)
(***************************************************************************)
LEMMA StepSendPanics == ASSUME IndInv, NEW l \in Layers, SendPanics(l) PROVE IndInv'
<1>1. TypeOK /\ closed /\ loop[l] = "loop" /\ l # Root
  BY DEF IndInv, SendPanics, Looping, RootLoop
<1>2. /\ loop' = [loop EXCEPT ![l] = "panicked"] /\ cancelled' = cancelled \cup Below[l]
      /\ UNCHANGED <<task, watching, ready, started, results, completed, failed, doneCh,
                     idle, running, closed, returned>>
  BY DEF SendPanics, poolVars
<1>3. /\ loop' \in [Layers -> {"off", "loop", "ended", "panicked", "gone"}]
      /\ loop'[l] = "panicked" /\ \A k \in Layers : k # l => loop'[k] = loop[k]
  BY <1>1, <1>2 DEF TypeOK
<1>4. TypeOK' /\ Capacity'
  BY <1>1, <1>2, <1>3, BelowClosed DEF TypeOK, Capacity, IndInv
<1>5. ASSUME NEW n \in Nodes PROVE Flight(n)' /\ Verdicts(n)'
  <2>1. n \in Subflow => /\ loop[Child[n]] = "off" <=> loop'[Child[n]] = "off"
                         /\ Alive(Child[n])' => Alive(Child[n])
                         /\ loop'[Child[n]] = "gone" => loop[Child[n]] = "gone"
    BY <1>1, <1>3, SubflowNodes DEF Alive
  <2>2. Flight(n)'
    BY <1>2, <2>1, FlightKept, OtherChannels DEF IndInv
  <2> QED BY <1>2, <2>1, <2>2, VerdictsKept, OtherChannels DEF IndInv
<1>6. ASSUME NEW k \in Layers PROVE Held(k)' /\ Counted(k)'
  <2>1. Held(k)'
    BY <1>1, <1>2, <1>3 DEF IndInv, Held
  <2>2. loop'[k] \in {"ended", "gone"} => loop'[k] = loop[k]
    BY <1>3
  <2> QED BY <1>2, <2>1, <2>2, CountedKept DEF IndInv
<1>7. Orphans'
  <2>1. \A k \in Layers : Hanging(k)' => Hanging(k)
    BY <1>1, <1>2, <1>3 DEF Hanging, Alive, Complete
  <2> QED BY <1>2, <2>1, OrphansKept DEF IndInv
<1>8. RootLoop'
  BY <1>1, <1>2, <1>3, TreeAssumption DEF RootLoop, IndInv, TreeAssumption
<1> QED BY <1>4, <1>5, <1>6, <1>7, <1>8 DEF IndInv

-----------------------------------------------------------------------------
(***************************************************************************)
(* Steps that move no node.                                                *)
(***************************************************************************)
LEMMA StepOther ==
    ASSUME IndInv,
           UNCHANGED <<layerVars, doneCh, running, closed>>,
           idle' \in 0..idle, cancelled' \in SUBSET Layers, returned' \in BOOLEAN
    PROVE  IndInv'
<1>1. /\ UNCHANGED <<loop, task, watching, ready, started, results, completed, failed>>
      /\ UNCHANGED <<doneCh, running, closed>>
  BY DEF layerVars
<1>2. TypeOK' /\ Capacity'
  <2>1. running \in SUBSET Nodes /\ IsFiniteSet(running) /\ Cardinality(running) \in Nat
    BY FS_Subset, FS_CardinalityType, TreeAssumption DEF IndInv, TypeOK, TreeAssumption
  <2>2. idle' \in 0..MaxWorkers /\ idle' + Cardinality(running) <= MaxWorkers
    BY <2>1, TreeAssumption DEF IndInv, TypeOK, Capacity, TreeAssumption
  <2>3. TypeOK
    BY DEF IndInv
  <2>4. TypeOK'
    BY <1>1, <2>2, <2>3 DEF TypeOK
  <2> QED BY <1>1, <2>2, <2>4 DEF Capacity
<1>3. ASSUME NEW n \in Nodes PROVE Flight(n)' /\ Verdicts(n)'
  <2>1. Flight(n) /\ Verdicts(n)
    BY DEF IndInv
  <2>2. Flight(n)'
    BY <1>1, <2>1, OtherChannels, FlightKept DEF Alive
  <2>3. Verdicts(n)'
    BY <1>1, <2>1, OtherChannels, VerdictsKept
  <2> QED BY <2>2, <2>3
<1>4. ASSUME NEW k \in Layers PROVE Held(k)' /\ Counted(k)'
  BY <1>1, HeldKept, CountedKept DEF IndInv
<1>5. Orphans' /\ RootLoop'
  BY <1>1 DEF Orphans, Hanging, Alive, Complete, RootLoop, IndInv
<1> QED BY <1>2, <1>3, <1>4, <1>5 DEF IndInv

-----------------------------------------------------------------------------
(***************************************************************************)
(* An abort: what has not started is skipped, and the layer has failed; at *)
(* most one node, with a Failed taken from the channel, gets that result.  *)
(***************************************************************************)
LEMMA Aborted ==
    ASSUME IndInv, NEW l \in Layers, loop[l] = "loop", NEW c \in Nat, NEW d \in Seq(Msg),
           Distinct(d), Msgs(d) \subseteq Msgs(doneCh[l]),
           results' \in [Nodes -> {"None", "Success", "Failed", "Skipped"}],
           \A n \in Nodes :
              \/ n \in NodesOf[l] \ started /\ results'[n] = "Skipped"
              \/ n \notin NodesOf[l] \ started /\ results'[n] = results[n]
              \/ /\ n \in NodesOf[l] /\ results'[n] = "Failed" /\ \A e \in Msgs(d) : e.node # n
                 /\ \E e \in Msgs(doneCh[l]) : e.node = n /\ e.status = "Failed",
           started' = started \cup (NodesOf[l] \ started),
           failed' = failed \cup {l},
           completed' = [completed EXCEPT ![l] = c],
           task' = [task EXCEPT ![l] = NoNode],
           watching' = watching \ {l},
           doneCh' = [doneCh EXCEPT ![l] = d],
           cancelled' \in SUBSET Layers,
           UNCHANGED <<loop, ready, idle, running, closed, returned>>
    PROVE  IndInv'
<1>1. TypeOK /\ NodesOf[l] \subseteq Nodes
  BY NodeLayers DEF IndInv
<1>2. /\ doneCh'[l] = d /\ task'[l] = NoNode
      /\ \A k \in Layers : k # l => /\ doneCh'[k] = doneCh[k] /\ task'[k] = task[k]
                                    /\ completed'[k] = completed[k]
  BY <1>1 DEF TypeOK
<1>3. ASSUME NEW k \in Layers, k # l
      PROVE  \A n \in NodesOf[k] : n \notin NodesOf[l] /\ results'[n] = results[n]
  <2>1. \A n \in NodesOf[k] : n \in Nodes /\ n \notin NodesOf[l]
    BY <1>3, NodeLayers
  <2> QED BY <2>1
<1>4. TypeOK' /\ Capacity' /\ RootLoop'
  <2>1. started' \in SUBSET Nodes /\ completed' \in [Layers -> Nat]
    BY <1>1 DEF TypeOK
  <2>2. task' \in [Layers -> Nodes \cup {NoNode}] /\ doneCh' \in [Layers -> Seq(Msg)]
    BY <1>1 DEF TypeOK, Msg
  <2>3. failed' \in SUBSET Layers /\ watching' \in SUBSET Layers
    BY <1>1 DEF TypeOK
  <2>4. TypeOK'
    BY <1>1, <2>1, <2>2, <2>3 DEF TypeOK, Msg
  <2> QED BY <2>4 DEF IndInv, Capacity, RootLoop
<1>5. ASSUME NEW n \in Nodes PROVE Msgs(doneCh[LayerOf[n]])' \subseteq Msgs(doneCh[LayerOf[n]])
  <2>1. CASE LayerOf[n] = l
    <3>1. Msgs(doneCh[l])' = Msgs(d)
      BY <1>2 DEF Msgs
    <3> QED BY <2>1, <3>1
  <2>2. CASE LayerOf[n] # l
    BY <1>2, <2>2, NodeLayers DEF Msgs
  <2> QED BY <2>1, <2>2
<1>6. ASSUME NEW n \in Nodes PROVE Flight(n)' /\ Verdicts(n)'
  <2>1. Flight(n) /\ Verdicts(n) /\ (Reported(n)' => Reported(n))
    BY <1>5 DEF IndInv, Reported
  <2>2. n \in NodesOf[l] <=> LayerOf[n] = l
    BY NodeLayers
  <2>3. /\ n \in Subflow => Child[n] \in Layers /\ (Alive(Child[n])' <=> Alive(Child[n]))
        /\ Unbuilt(n)' <=> Unbuilt(n)
    BY SubflowNodes DEF Alive, Unbuilt
  <2>4. n \in Subflow /\ loop'[Child[n]] = "gone" =>
           /\ Child[n] # l /\ loop[Child[n]] = "gone"
           /\ Child[n] \in failed' <=> Child[n] \in failed
           /\ \A m \in NodesOf[Child[n]] : results'[m] = results[m]
    BY <1>3, <2>3
  <2>5. CASE n \in NodesOf[l] \ started /\ results'[n] = "Skipped"
    <3>1. Flight(n)'
      BY <2>1, <2>2, <2>3, <2>5 DEF Flight, Open
    <3>2. Verdicts(n)'
      BY <1>5, <2>1, <2>4, <2>5, VerdictsKept
    <3> QED BY <3>1, <3>2
  <2>6. CASE n \notin NodesOf[l] \ started /\ results'[n] = results[n]
    <3>1. Flight(n)'
      BY <2>1, <2>2, <2>3, <2>6 DEF Flight
    <3>2. Verdicts(n)'
      BY <1>5, <2>1, <2>4, <2>6, VerdictsKept
    <3> QED BY <3>1, <3>2
  <2>7. CASE /\ n \in NodesOf[l] /\ results'[n] = "Failed" /\ \A e \in Msgs(d) : e.node # n
             /\ \E e \in Msgs(doneCh[l]) : e.node = n /\ e.status = "Failed"
    <3>1. Reported(n) /\ ~Reported(n)'
      BY <1>2, <2>2, <2>7 DEF Reported, Msgs
    <3>2. Flight(n)'
      BY <2>1, <2>3, <2>7, <3>1 DEF Flight, Open
    <3>3. ASSUME n \in Subflow, loop'[Child[n]] = "gone"
          PROVE  Verdict(n, "Failed")'
      <4>1. Verdict(n, "Failed")
        BY <2>1, <2>2, <2>4, <2>7, <3>3 DEF Verdicts
      <4> QED BY <2>4, <3>3, <4>1 DEF Verdict
    <3>4. \A m \in Msgs(doneCh[LayerOf[n]])' : m.node # n
      BY <3>1 DEF Reported
    <3>5. Verdicts(n)'
      BY <2>7, <3>3, <3>4 DEF Verdicts
    <3> QED BY <3>2, <3>5
  <2> QED BY <2>5, <2>6, <2>7
<1>7. ASSUME NEW k \in Layers PROVE Held(k)' /\ Counted(k)'
  <2>1. Held(k) /\ Counted(k)
    BY DEF IndInv
  <2>2. CASE k = l
    <3>1. Held(l)'
      BY <1>2, <2>1, <2>2 DEF Held
    <3>2. Counted(l)'
      BY DEF Counted
    <3> QED BY <2>2, <3>1, <3>2
  <2>3. CASE k # l
    <3>1. NodesOf[k] \cap started' \subseteq started
      BY <1>3, <2>3
    <3>2. Held(k)'
      BY <1>2, <2>1, <2>3, <3>1, HeldKept
    <3>3. Counted(k)'
      BY <1>2, <1>3, <2>1, <2>3, CountedKept
    <3> QED BY <3>2, <3>3
  <2> QED BY <2>2, <2>3
<1>8. Orphans'
  <2>1. ASSUME NEW k \in Layers, Hanging(k)' PROVE Hanging(k)
    <3>1. CASE k = l
      BY <3>1 DEF Hanging, Alive
    <3>2. CASE k # l
      BY <1>3, <2>1, <3>2 DEF Hanging, Alive, Complete
    <3> QED BY <3>1, <3>2
  <2> QED BY <2>1, OrphansKept DEF IndInv
<1> QED BY <1>4, <1>6, <1>7, <1>8 DEF IndInv

(***************************************************************************)
(* What is not started has no result, so an abort skips all of it.         *)
(***************************************************************************)
LEMMA NotStarted ==
    ASSUME IndInv, NEW l \in Layers
    PROVE  \A n \in NodesOf[l] \ started : n \in Nodes /\ results[n] = "None" /\ ~Reported(n)
BY NodeLayers DEF IndInv, Flight

LEMMA StepCtxDone == ASSUME IndInv, NEW l \in Layers, CtxDone(l) PROVE IndInv'
<1> DEFINE S == NodesOf[l] \ started
<1>1. TypeOK /\ Held(l) /\ loop[l] = "loop"
  BY DEF IndInv, CtxDone, Looping
<1>2. S = {n \in NodesOf[l] \ started : results[n] = "None"}
  BY NotStarted
<1>3. /\ started' = started \cup S
      /\ results' = [n \in Nodes |-> IF n \in S THEN "Skipped" ELSE results[n]]
      /\ completed' = [completed EXCEPT ![l] = completed[l] + Cardinality(S)]
      /\ failed' = failed \cup {l}
      /\ task' = [task EXCEPT ![l] = NoNode]
      /\ watching' = watching \ {l}
      /\ UNCHANGED <<loop, ready, doneCh, cancelled, idle, running, closed, returned>>
  BY <1>2 DEF CtxDone, Abort, poolVars
<1>4. completed[l] + Cardinality(S) \in Nat
  BY <1>1, LayerSizes, SMTT(30) DEF TypeOK
<1>5. doneCh[l] \in Seq(Msg) /\ Distinct(doneCh[l]) /\ doneCh' = [doneCh EXCEPT ![l] = doneCh[l]]
  BY <1>1, <1>3 DEF TypeOK, Held, Msg
<1>6. /\ results' \in [Nodes -> {"None", "Success", "Failed", "Skipped"}]
      /\ \A n \in Nodes : \/ n \in S /\ results'[n] = "Skipped"
                          \/ n \notin S /\ results'[n] = results[n]
  BY <1>1, <1>3 DEF TypeOK
<1>7. cancelled' \in SUBSET Layers
  BY <1>1, <1>3 DEF TypeOK
<1> QED BY <1>1, <1>3, <1>4, <1>5, <1>6, <1>7, Aborted

LEMMA StepRecvCritical == ASSUME IndInv, NEW l \in Layers, RecvCritical(l) PROVE IndInv'
<1> DEFINE S == NodesOf[l] \ started
<1>1. PICK h, d : h = Head(doneCh[l]) /\ d = Tail(doneCh[l])
  OBVIOUS
<1>2. PICK base : base = [results EXCEPT ![h.node] = h.status]
  OBVIOUS
<1>3. /\ TypeOK /\ Held(l) /\ loop[l] = "loop" /\ doneCh[l] # <<>> /\ h.status = "Failed"
      /\ Abort(l, base, completed[l] + 1)
      /\ doneCh' = [doneCh EXCEPT ![l] = d]
      /\ cancelled' = cancelled \cup Below[l]
      /\ UNCHANGED <<loop, ready, idle, running, closed, returned>>
  BY <1>1, <1>2 DEF IndInv, RecvCritical, Looping, poolVars
<1>4. doneCh[l] \in Seq(Msg) /\ Distinct(doneCh[l])
  BY <1>3 DEF TypeOK, Held, Msg
<1>5. /\ h \in Msg /\ h \in Msgs(doneCh[l]) /\ d \in Seq(Msg)
      /\ Distinct(d) /\ Msgs(d) \subseteq Msgs(doneCh[l])
      /\ \A e \in Msgs(d) : e.node # h.node
  BY <1>1, <1>3, <1>4, ReceiveMsg
<1>6. h.node \in NodesOf[l] /\ h.node \in Nodes /\ LayerOf[h.node] = l
  BY <1>3, <1>5, NodeLayers DEF Held
<1>7. h.node \in started
  BY <1>5, <1>6 DEF IndInv, Flight, Reported
<1>8. base[h.node] = "Failed" /\ \A n \in Nodes : n # h.node => base[n] = results[n]
  BY <1>2, <1>3, <1>6 DEF TypeOK
<1>9. S = {n \in NodesOf[l] \ started : base[n] = "None"}
  BY <1>7, <1>8, NotStarted
<1>10. /\ started' = started \cup S
       /\ results' = [n \in Nodes |-> IF n \in S THEN "Skipped" ELSE base[n]]
       /\ completed' = [completed EXCEPT ![l] = completed[l] + 1 + Cardinality(S)]
       /\ failed' = failed \cup {l}
       /\ task' = [task EXCEPT ![l] = NoNode]
       /\ watching' = watching \ {l}
  BY <1>3, <1>9 DEF Abort
<1>11. completed[l] + 1 + Cardinality(S) \in Nat
  <2>1. S \in SUBSET NodesOf[l] /\ completed[l] \in Nat
    BY <1>3 DEF TypeOK
  <2>2. Cardinality(S) \in Nat
    BY <2>1, LayerSizes
  <2> QED BY <2>1, <2>2
<1>12. cancelled' \in SUBSET Layers
  BY <1>3, BelowClosed DEF TypeOK
<1>13. results' \in [Nodes -> {"None", "Success", "Failed", "Skipped"}]
  BY <1>3, <1>8, <1>10 DEF TypeOK
<1>14. \A n \in Nodes :
          \/ n \in NodesOf[l] \ started /\ results'[n] = "Skipped"
          \/ n \notin NodesOf[l] \ started /\ results'[n] = results[n]
          \/ /\ n \in NodesOf[l] /\ results'[n] = "Failed"
             /\ \A e \in Msgs(d) : e.node # n
             /\ \E e \in Msgs(doneCh[l]) : e.node = n /\ e.status = "Failed"
  BY <1>3, <1>5, <1>6, <1>7, <1>8, <1>10
<1>15. PICK c \in Nat : completed' = [completed EXCEPT ![l] = c]
  BY <1>10, <1>11
<1>16. /\ loop[l] = "loop" /\ started' = started \cup (NodesOf[l] \ started)
       /\ failed' = failed \cup {l}
       /\ task' = [task EXCEPT ![l] = NoNode]
       /\ watching' = watching \ {l}
       /\ doneCh' = [doneCh EXCEPT ![l] = d]
       /\ UNCHANGED <<loop, ready, idle, running, closed, returned>>
  BY <1>3, <1>10
<1>17. d \in Seq(Msg) /\ Distinct(d) /\ Msgs(d) \subseteq Msgs(doneCh[l])
  BY <1>5
<1> HIDE DEF S
<1> QED BY <1>12, <1>13, <1>14, <1>15, <1>16, <1>17, Aborted, ZenonT(60)

-----------------------------------------------------------------------------
(***************************************************************************)
(* A result is received: it is the one of a node that is nowhere else, and *)
(* what it frees has not started.                                          *)
(***************************************************************************)
LEMMA StepRecv == ASSUME IndInv, NEW l \in Layers, Recv(l) PROVE IndInv'
<1> DEFINE F == ready' \ ready
<1>0. PICK h, d : h = Head(doneCh[l]) /\ d = Tail(doneCh[l])
  OBVIOUS
<1>1. TypeOK /\ Held(l) /\ Counted(l) /\ loop[l] = "loop" /\ doneCh[l] # <<>>
  BY DEF IndInv, Recv, Looping
<1>2. doneCh[l] \in Seq(Msg) /\ Distinct(doneCh[l])
  BY <1>1 DEF TypeOK, Held, Msg
<1>3. /\ h \in Msg /\ h \in Msgs(doneCh[l]) /\ d \in Seq(Msg)
      /\ Distinct(d) /\ Msgs(d) \subseteq Msgs(doneCh[l])
      /\ \A e \in Msgs(d) : e.node # h.node
      /\ \A e \in Msgs(doneCh[l]) : e.node # h.node => e \in Msgs(d)
  BY <1>0, <1>1, <1>2, ReceiveMsg
<1>4. h.node \in NodesOf[l] /\ h.node \in Nodes /\ LayerOf[h.node] = l /\ h.status \in {"Success", "Failed"}
  BY <1>1, <1>3, NodeLayers DEF Held, Msg
<1>5. Reported(h.node) /\ Flight(h.node) /\ Verdicts(h.node)
  BY <1>3, <1>4 DEF IndInv, Reported
<1>6. /\ results' = [results EXCEPT ![h.node] = h.status]
      /\ ready' = IF l \in failed THEN ready ELSE ready \cup Freed(h.node)
      /\ completed' = [completed EXCEPT ![l] = @ + 1]
      /\ doneCh' = [doneCh EXCEPT ![l] = d]
      /\ UNCHANGED <<loop, watching, started, failed, cancelled, idle, running, closed, returned>>
  BY <1>0 DEF Recv, poolVars
<1>7. ready \subseteq ready' /\ F \subseteq Nodes \ started
  BY <1>6 DEF Freed
<1>8. PICK m \in Nodes \cup {NoNode} :
         /\ task' = [task EXCEPT ![l] = m]
         /\ m # NoNode => m \in ready' \cap NodesOf[l]
  <2>1. CASE task[l] # NoNode
    <3>1. task' = [task EXCEPT ![l] = task[l]]
      BY <1>1, <2>1 DEF Recv, TypeOK
    <3>2. task[l] \in ready' \cap NodesOf[l] /\ task[l] \in Nodes
      BY <1>1, <1>7, <2>1, NodeLayers DEF Held
    <3> QED BY <3>1, <3>2
  <2>2. CASE task[l] = NoNode
    <3>1. PICK m \in Peeks(ready' \cap NodesOf[l]) : task' = [task EXCEPT ![l] = m]
      BY <2>2 DEF Recv
    <3>2. m \in Nodes \cup {NoNode} /\ (m # NoNode => m \in ready' \cap NodesOf[l])
      BY <3>1, NodeLayers DEF Peeks
    <3> QED BY <3>1, <3>2
  <2> QED BY <2>1, <2>2
<1>9. /\ results' \in [Nodes -> {"None", "Success", "Failed", "Skipped"}]
      /\ results'[h.node] = h.status /\ \A n \in Nodes : n # h.node => results'[n] = results[n]
  BY <1>1, <1>4, <1>6 DEF TypeOK
<1>10. /\ doneCh' \in [Layers -> Seq(Msg)] /\ task' \in [Layers -> Nodes \cup {NoNode}]
       /\ completed' \in [Layers -> Nat]
       /\ doneCh'[l] = d /\ task'[l] = m /\ completed'[l] = completed[l] + 1
       /\ \A k \in Layers : k # l => /\ doneCh'[k] = doneCh[k] /\ task'[k] = task[k]
                                     /\ completed'[k] = completed[k]
  BY <1>1, <1>3, <1>6, <1>8 DEF TypeOK, Msg
<1> HIDE DEF F
<1>11. TypeOK' /\ Capacity' /\ RootLoop'
  <2>1. ready' \in SUBSET Nodes
    BY <1>1, <1>7 DEF TypeOK, F
  <2>2. TypeOK'
    BY <1>1, <1>6, <1>9, <1>10, <2>1 DEF TypeOK, Msg
  <2> QED BY <1>6, <2>2 DEF IndInv, Capacity, RootLoop
<1>12. ASSUME NEW k \in Layers, k # l
       PROVE  \A n \in NodesOf[k] : n \in Nodes /\ n # h.node /\ results'[n] = results[n]
  BY <1>4, <1>9, <1>12, NodeLayers
<1>13. ASSUME NEW n \in Nodes, n # h.node PROVE Reported(n)' <=> Reported(n)
  <2>1. CASE LayerOf[n] = l
    <3>1. doneCh'[LayerOf[n]] = d /\ doneCh[LayerOf[n]] = doneCh[l]
      BY <1>10, <2>1
    <3> QED BY <1>3, <1>13, <3>1 DEF Reported
  <2>2. CASE LayerOf[n] # l
    BY <1>10, <2>2, NodeLayers, OtherChannels
  <2> QED BY <2>1, <2>2
<1>14. ~Reported(h.node)'
  BY <1>3, <1>4, <1>10 DEF Reported
<1>15. ASSUME NEW n \in Nodes PROVE Msgs(doneCh[LayerOf[n]])' \subseteq Msgs(doneCh[LayerOf[n]])
  <2>1. CASE LayerOf[n] = l
    <3>1. Msgs(doneCh[l])' = Msgs(d)
      BY <1>10 DEF Msgs
    <3> QED BY <1>3, <2>1, <3>1
  <2>2. CASE LayerOf[n] # l
    BY <1>10, <2>2, NodeLayers DEF Msgs
  <2> QED BY <2>1, <2>2
<1>16. ASSUME NEW n \in Nodes PROVE Flight(n)' /\ Verdicts(n)'
  <2>1. Flight(n) /\ Verdicts(n)
    BY DEF IndInv
  <2>2. /\ n \in Subflow => Child[n] \in Layers /\ (Alive(Child[n])' <=> Alive(Child[n]))
        /\ Unbuilt(n)' <=> Unbuilt(n)
    BY <1>6, SubflowNodes DEF Alive, Unbuilt
  <2>3. n \in Subflow /\ loop'[Child[n]] = "gone" =>
           /\ Child[n] # l /\ loop[Child[n]] = "gone"
           /\ \A i \in NodesOf[Child[n]] : results'[i] = results[i]
    BY <1>1, <1>6, <1>12, <2>2
  <2>4. CASE n = h.node
    <3>1. Flight(n)'
      BY <1>4, <1>5, <1>6, <1>7, <1>9, <1>14, <2>2, <2>4 DEF Flight, F
    <3>2. ASSUME n \in Subflow, loop'[Child[n]] = "gone" PROVE Verdict(n, h.status)'
      <4>1. Verdict(n, h.status)
        BY <1>3, <1>4, <2>1, <2>3, <2>4, <3>2 DEF Verdicts
      <4> QED BY <1>6, <2>3, <3>2, <4>1 DEF Verdict, Complete
    <3>3. \A e \in Msgs(doneCh[LayerOf[n]])' : e.node # n
      BY <1>14, <2>4 DEF Reported
    <3>4. Verdicts(n)'
      BY <1>9, <2>4, <3>2, <3>3 DEF Verdicts
    <3> QED BY <3>1, <3>4
  <2>5. CASE n # h.node
    <3>1. (Reported(n)' <=> Reported(n)) /\ results'[n] = results[n]
      BY <1>9, <1>13, <2>5
    <3>2. n \in F => n \in Nodes \ started
      BY <1>7
    <3>3. Flight(n)'
      BY <1>6, <2>1, <2>2, <3>1, <3>2 DEF Flight, Open, F
    <3>4. Verdicts(n)'
      BY <1>6, <1>9, <1>15, <2>1, <2>3, <2>5, VerdictsKept
    <3> QED BY <3>3, <3>4
  <2> QED BY <2>4, <2>5
<1>17. ASSUME NEW k \in Layers PROVE Held(k)' /\ Counted(k)'
  <2>1. Held(k) /\ Counted(k)
    BY DEF IndInv
  <2>2. CASE k = l
    <3>1. Held(l)'
      BY <1>1, <1>3, <1>6, <1>8, <1>10 DEF Held
    <3>2. ASSUME l \notin failed PROVE completed'[l] = Cardinality(WithResult(l)')
      <4>1. results[h.node] = "None"
        BY <1>4, <1>5, <3>2 DEF Flight, Open
      <4>2. WithResult(l)' = WithResult(l) \cup {h.node} /\ h.node \notin WithResult(l)
        BY <1>4, <1>9, <4>1, NodeLayers DEF WithResult
      <4>3. IsFiniteSet(WithResult(l))
        BY LayerSizes DEF WithResult
      <4>4. Cardinality(WithResult(l)') = Cardinality(WithResult(l)) + 1
        BY <4>2, <4>3, FS_AddElement
      <4> QED BY <1>1, <1>10, <3>2, <4>4 DEF Counted
    <3>3. Counted(l)'
      BY <1>1, <1>6, <3>2 DEF Counted
    <3> QED BY <2>2, <3>1, <3>3
  <2>3. CASE k # l
    <3>1. Held(k)'
      BY <1>6, <1>7, <1>10, <2>1, <2>3, HeldKept
    <3>2. Counted(k)'
      BY <1>6, <1>10, <1>12, <2>1, <2>3, CountedKept
    <3> QED BY <3>1, <3>2
  <2> QED BY <2>2, <2>3
<1>18. Orphans'
  <2>1. ASSUME NEW k \in Layers, Hanging(k)' PROVE Hanging(k)
    <3>1. CASE k = l
      BY <1>1, <3>1 DEF Hanging, Alive
    <3>2. CASE k # l
      BY <1>6, <1>12, <2>1, <3>2 DEF Hanging, Alive, Complete
    <3> QED BY <3>1, <3>2
  <2> QED BY <1>6, <2>1, OrphansKept DEF IndInv
<1> QED BY <1>11, <1>16, <1>17, <1>18 DEF IndInv

-----------------------------------------------------------------------------
(***************************************************************************)
(* A loop that has counted every node of its layer has all their results.  *)
(***************************************************************************)
LEMMA AllCounted ==
    ASSUME IndInv, NEW l \in Layers, completed[l] >= Cardinality(NodesOf[l])
    PROVE  l \in failed \/ Complete(l)
<1> SUFFICES ASSUME l \notin failed PROVE Complete(l)
  OBVIOUS
<1>1. completed[l] = Cardinality(WithResult(l)) /\ WithResult(l) \in SUBSET NodesOf[l]
  BY DEF IndInv, Counted, WithResult
<1>2. Cardinality(WithResult(l)) = Cardinality(NodesOf[l])
  BY <1>1, LayerSizes
<1>3. WithResult(l) = NodesOf[l]
  BY <1>1, <1>2, LayerSizes
<1> QED BY <1>3 DEF WithResult, Complete

(***************************************************************************)
(* When a layer has ended without an abort, no loop is left under it that  *)
(* was not aborted from above: nodes with a result have no live child, and *)
(* nodes without one belong to a layer that was.                           *)
(***************************************************************************)
LEMMA StepLoopEnds == ASSUME IndInv, NEW l \in Layers, LoopEnds(l) PROVE IndInv'
<1>1. TypeOK /\ loop[l] = "loop" /\ (l \in failed \/ Complete(l))
  BY AllCounted DEF IndInv, LoopEnds
<1>2. /\ loop' = [loop EXCEPT ![l] = IF l = Root THEN "gone" ELSE "ended"]
      /\ cancelled' = cancelled \cup Below[l]
      /\ closed' = (closed \/ l = Root)
      /\ UNCHANGED <<task, watching, ready, started, results, completed, failed, doneCh,
                     idle, running, returned>>
  BY DEF LoopEnds
<1>3. /\ loop' \in [Layers -> {"off", "loop", "ended", "panicked", "gone"}]
      /\ loop'[l] = (IF l = Root THEN "gone" ELSE "ended")
      /\ \A k \in Layers : k # l => loop'[k] = loop[k]
  BY <1>1, <1>2 DEF TypeOK
<1>4. TypeOK' /\ Capacity'
  <2>1. cancelled' \in SUBSET Layers /\ closed' \in BOOLEAN
    BY <1>1, <1>2, BelowClosed DEF TypeOK
  <2>2. TypeOK'
    BY <1>1, <1>2, <1>3, <2>1 DEF TypeOK
  <2> QED BY <1>2, <2>2 DEF Capacity, IndInv
<1>5. ASSUME NEW n \in Nodes PROVE Flight(n)' /\ Verdicts(n)'
  <2>1. n \in Subflow => /\ loop[Child[n]] = "off" <=> loop'[Child[n]] = "off"
                         /\ Alive(Child[n])' => Alive(Child[n])
                         /\ loop'[Child[n]] = "gone" => loop[Child[n]] = "gone"
    BY <1>1, <1>3, SubflowNodes DEF Alive
  <2>2. Flight(n) /\ Verdicts(n)
    BY DEF IndInv
  <2>3. Flight(n)'
    BY <1>2, <2>1, <2>2, FlightKept, OtherChannels
  <2>4. Verdicts(n)'
    BY <1>2, <2>1, <2>2, VerdictsKept, OtherChannels
  <2> QED BY <2>3, <2>4
<1>6. ASSUME NEW k \in Layers PROVE Held(k)' /\ Counted(k)'
  <2>1. Held(k) /\ Counted(k)
    BY DEF IndInv
  <2>2. Held(k)'
    BY <1>2, <1>3, <2>1, HeldKept
  <2>3. CASE k = l
    BY <1>1, <1>2, <2>1, <2>2, <2>3 DEF Counted, WithResult, Complete
  <2>4. CASE k # l
    BY <1>2, <1>3, <2>1, <2>2, <2>4, CountedKept
  <2> QED BY <2>3, <2>4
<1>7. RootLoop'
  BY <1>1, <1>2, <1>3, TreeAssumption DEF RootLoop, IndInv, TreeAssumption
<1>8. Orphans'
  <2>1. CASE l # Root
    <3>1. \A k \in Layers : Hanging(k)' => Hanging(k)
      BY <1>1, <1>2, <1>3, <2>1 DEF Hanging, Alive, Complete
    <3> QED BY <1>2, <2>1, <3>1, OrphansKept DEF IndInv
  <2>2. CASE l = Root
    <3> DEFINE G == {k \in Layers : Hanging(k)' => Above(k) \cap failed # {}}
    <3>1. ~closed
      BY <1>1, <2>2 DEF IndInv, RootLoop
    <3>2. G \in SUBSET Layers /\ Root \in G
      BY <1>1, <1>2, <1>3, <2>2 DEF Hanging, Alive, Complete
    <3>3. \A n \in Subflow : LayerOf[n] \in G => Child[n] \in G
      <4> SUFFICES ASSUME NEW n \in Subflow, LayerOf[n] \in G, Hanging(Child[n])'
                   PROVE  Above(Child[n]) \cap failed # {}
        BY SubflowNodes
      <4> DEFINE p == LayerOf[n]
                 c == Child[n]
      <4>1. /\ n \in Nodes /\ p \in Layers /\ n \in NodesOf[p] /\ c \in Layers /\ c # Root
            /\ loop'[c] = loop[c] /\ Flight(n) /\ Held(p) /\ Counted(c)
        BY <1>3, <2>2, SubflowNodes, NodeLayers DEF IndInv
      <4>2. CASE p \in failed \/ Above(p) \cap failed # {}
        BY <4>2, AboveChild
      <4>3. CASE p \notin failed /\ Above(p) \cap failed = {}
        <5>1. ~Hanging(p)'
          BY <4>3
        <5>2. loop'[p] = "off" \/ (loop'[p] = "gone" /\ Complete(p))
          BY <1>2, <1>3, <4>1, <4>3, <5>1 DEF Hanging, Alive, Complete
        <5>3. Alive(c)
          BY <1>2, <3>1, <4>1 DEF Hanging, Alive, Complete, Counted
        <5>4. results[n] = "None" /\ n \in started
          BY <4>1, <4>3, <5>3 DEF Flight, Open
        <5>5. loop'[p] = "off"
          BY <4>1, <5>2, <5>4 DEF Complete
        <5>6. loop[p] = "off"
          BY <1>1, <1>3, <4>1, <5>5
        <5> QED BY <4>1, <5>4, <5>6 DEF Held
      <4> QED BY <4>2, <4>3
    <3> HIDE DEF G
    <3>4. G = Layers
      BY <3>2, <3>3, ClosedSets
    <3> QED BY <1>2, <3>4 DEF G, Orphans
  <2> QED BY <2>1, <2>2
<1> QED BY <1>4, <1>5, <1>6, <1>7, <1>8 DEF IndInv

-----------------------------------------------------------------------------
(***************************************************************************)
(* The result of a node goes into the channel of its layer.                *)
(***************************************************************************)
LEMMA Sent ==
    ASSUME IndInv, NEW n \in Nodes, NEW s \in {"Success", "Failed"}, Send(n, s), ~Reported(n)
    PROVE  /\ doneCh' \in [Layers -> Seq(Msg)]
           /\ \A l \in Layers : Distinct(doneCh'[l]) /\ \A m \in Msgs(doneCh[l])' : m.node \in NodesOf[l]
           /\ Reported(n)'
           /\ \A m \in Msgs(doneCh[LayerOf[n]])' : m.node = n => m.status = s
           /\ \A k \in Nodes : k # n =>
                 /\ Reported(k)' <=> Reported(k)
                 /\ \A m \in Msgs(doneCh[LayerOf[k]])' :
                       m.node = k => m \in Msgs(doneCh[LayerOf[k]])
<1> DEFINE p == LayerOf[n]
           m == [node |-> n, status |-> s]
<1>1. /\ p \in Layers /\ n \in NodesOf[p] /\ m \in Msg
      /\ doneCh \in [Layers -> Seq(Msg)] /\ doneCh[p] \in Seq(Msg)
  BY NodeLayers DEF IndInv, TypeOK, Msg
<1>2. \A l \in Layers : Distinct(doneCh[l]) /\ \A e \in Msgs(doneCh[l]) : e.node \in NodesOf[l]
  BY DEF IndInv, Held
<1>3. \A e \in Msgs(doneCh[p]) : e.node # m.node
  BY DEF Reported
<1>4. doneCh' = [doneCh EXCEPT ![p] = Append(doneCh[p], m)]
  BY DEF Send
<1>5. /\ Append(doneCh[p], m) \in Seq(Msg) /\ Distinct(Append(doneCh[p], m))
      /\ Msgs(Append(doneCh[p], m)) = Msgs(doneCh[p]) \cup {m}
  BY <1>1, <1>2, <1>3, SendMsg
<1>6. /\ doneCh' \in [Layers -> Seq(Msg)] /\ doneCh'[p] = Append(doneCh[p], m)
      /\ \A l \in Layers : l # p => doneCh'[l] = doneCh[l]
  BY <1>1, <1>4, <1>5
<1>7. m.node = n /\ m.status = s
  OBVIOUS
<1> HIDE DEF m
<1>8. Msgs(doneCh[p])' = Msgs(doneCh[p]) \cup {m} /\ Distinct(doneCh'[p])
  BY <1>5, <1>6, SMTT(30) DEF Msgs
<1>9. \A l \in Layers : l # p => Msgs(doneCh[l])' = Msgs(doneCh[l]) /\ Distinct(doneCh'[l])
  BY <1>2, <1>6 DEF Msgs
<1>10. \A l \in Layers : Distinct(doneCh'[l]) /\ \A e \in Msgs(doneCh[l])' : e.node \in NodesOf[l]
  BY <1>1, <1>2, <1>7, <1>8, <1>9
<1>11. Reported(n)' /\ \A e \in Msgs(doneCh[p])' : e.node = n => e.status = s
  BY <1>3, <1>7, <1>8 DEF Reported
<1>12. ASSUME NEW k \in Nodes, k # n
       PROVE  /\ Reported(k)' <=> Reported(k)
              /\ \A e \in Msgs(doneCh[LayerOf[k]])' : e.node = k => e \in Msgs(doneCh[LayerOf[k]])
  <2>1. LayerOf[k] \in Layers
    BY NodeLayers
  <2>2. CASE LayerOf[k] = p
    BY <1>7, <1>8, <1>12, <2>2 DEF Reported
  <2>3. CASE LayerOf[k] # p
    BY <1>9, <2>1, <2>3 DEF Reported
  <2> QED BY <2>2, <2>3
<1> QED BY <1>6, <1>10, <1>11, <1>12

(***************************************************************************)
(* The goroutine of a child is the only place of its node.                 *)
(***************************************************************************)
LEMMA StepChildReturns == ASSUME IndInv, NEW l \in Layers, ChildReturns(l) PROVE IndInv'
<1> DEFINE n == Parent[l]
<1>1. PICK s : s = IF loop[l] = "panicked" \/ l \in failed THEN "Failed" ELSE "Success"
  OBVIOUS
<1>2. /\ loop[l] \in {"ended", "panicked"} /\ Send(n, s) /\ loop' = [loop EXCEPT ![l] = "gone"]
      /\ s \in {"Success", "Failed"}
      /\ UNCHANGED <<task, watching, ready, started, results, completed, failed, cancelled,
                     idle, running, closed, returned>>
  BY <1>1 DEF ChildReturns, poolVars
<1>3. TypeOK /\ l # Root
  BY <1>2 DEF IndInv, RootLoop
<1>4. n \in Subflow /\ Child[n] = l /\ n \in Nodes
  BY <1>3, Parents, SubflowNodes
<1> HIDE DEF n
<1>5. /\ Flight(n) /\ results[n] \in Open /\ n \in started /\ ~Reported(n)
      /\ n \notin ready /\ n \notin running
  BY <1>2, <1>4 DEF IndInv, Flight, Alive, Unbuilt
<1>6. /\ loop' \in [Layers -> {"off", "loop", "ended", "panicked", "gone"}]
      /\ loop'[l] = "gone" /\ \A k \in Layers : k # l => loop'[k] = loop[k]
  BY <1>2, <1>3 DEF TypeOK
<1>7. /\ doneCh' \in [Layers -> Seq(Msg)]
      /\ \A k \in Layers : Distinct(doneCh'[k]) /\ \A m \in Msgs(doneCh[k])' : m.node \in NodesOf[k]
      /\ Reported(n)'
      /\ \A m \in Msgs(doneCh[LayerOf[n]])' : m.node = n => m.status = s
      /\ \A k \in Nodes : k # n =>
            /\ Reported(k)' <=> Reported(k)
            /\ \A m \in Msgs(doneCh[LayerOf[k]])' : m.node = k => m \in Msgs(doneCh[LayerOf[k]])
  BY <1>2, <1>4, <1>5, Sent
<1>8. TypeOK' /\ Capacity' /\ RootLoop'
  <2>1. TypeOK'
    BY <1>2, <1>3, <1>6, <1>7 DEF TypeOK, Msg
  <2> QED
    BY <1>2, <1>3, <1>6, <2>1, TreeAssumption DEF Capacity, RootLoop, IndInv, TreeAssumption
<1>9. \A k \in Layers : (Complete(k)' <=> Complete(k)) /\ WithResult(k)' = WithResult(k)
  BY <1>2 DEF Complete, WithResult
<1>10. /\ s = "Success" => l \notin failed /\ Complete(l)
       /\ s = "Failed" => l \in failed \/ closed
  BY <1>1, <1>2 DEF IndInv, Counted, Held
<1>11. ASSUME NEW k \in Nodes PROVE Flight(k)' /\ Verdicts(k)'
  <2>1. Flight(k) /\ Verdicts(k)
    BY DEF IndInv
  <2>2. CASE k = n
    <3>1. Flight(n)'
      BY <1>2, <1>4, <1>5, <1>6, <1>7 DEF Flight, Alive, Open
    <3>2. Verdict(n, s)'
      BY <1>2, <1>4, <1>9, <1>10 DEF Verdict
    <3>3. results'[n] \notin {"Success", "Failed"}
      BY <1>2, <1>5 DEF Open
    <3>4. Verdicts(n)'
      BY <1>7, <3>2, <3>3 DEF Verdicts
    <3> QED BY <2>2, <3>1, <3>4
  <2>3. CASE k # n
    <3>1. k \in Subflow => Child[k] \in Layers /\ loop'[Child[k]] = loop[Child[k]]
      BY <1>4, <1>6, <2>3, SubflowNodes
    <3>2. /\ Reported(k)' <=> Reported(k)
          /\ \A m \in Msgs(doneCh[LayerOf[k]])' : m.node = k => m \in Msgs(doneCh[LayerOf[k]])
      BY <1>7, <2>3
    <3>3. Flight(k)'
      BY <1>2, <2>1, <3>1, <3>2, FlightKept DEF Alive
    <3>4. Verdicts(k)'
      BY <1>2, <2>1, <3>1, <3>2, VerdictsKept
    <3> QED BY <3>3, <3>4
  <2> QED BY <2>2, <2>3
<1>12. ASSUME NEW k \in Layers PROVE Held(k)' /\ Counted(k)'
  <2>1. Held(k) /\ Counted(k)
    BY DEF IndInv
  <2>2. Held(k)'
    BY <1>2, <1>6, <1>7, <2>1 DEF Held
  <2>3. CASE k = l
    BY <1>2, <1>3, <1>6, <1>9, <2>1, <2>2, <2>3 DEF Counted, Held
  <2>4. CASE k # l
    BY <1>2, <1>6, <2>1, <2>2, <2>4, CountedKept
  <2> QED BY <2>3, <2>4
<1>13. Orphans'
  <2>1. \A k \in Layers : Hanging(k)' => Hanging(k)
    BY <1>2, <1>6, <1>9 DEF Hanging, Alive
  <2> QED BY <1>2, <2>1, OrphansKept DEF IndInv
<1> QED BY <1>8, <1>11, <1>12, <1>13 DEF IndInv

-----------------------------------------------------------------------------
(***************************************************************************)
(* A worker lets go of a node.                                             *)
(***************************************************************************)
LEMMA Released ==
    ASSUME IndInv, NEW n \in running, running' = running \ {n}, idle' = idle + 1
    PROVE  /\ n \in Nodes /\ running' \in SUBSET Nodes /\ idle' \in 0..MaxWorkers
           /\ Capacity'
<1>1. TypeOK /\ n \in Nodes /\ IsFiniteSet(running)
  BY FS_Subset, TreeAssumption DEF IndInv, TypeOK, TreeAssumption
<1>2. Cardinality(running') = Cardinality(running) - 1 /\ Cardinality(running) \in Nat
  BY <1>1, FS_RemoveElement, FS_CardinalityType
<1>3. IsFiniteSet(running')
  BY <1>1, FS_RemoveElement
<1>4. Cardinality(running') \in Nat
  BY <1>3, FS_CardinalityType
<1> QED BY <1>1, <1>2, <1>4, TreeAssumption DEF IndInv, TypeOK, Capacity, TreeAssumption

LEMMA StepFinish == ASSUME IndInv, NEW n \in Nodes, Finish(n) PROVE IndInv'
<1>1. PICK s \in {"Success", "Failed"} : Send(n, s)
  BY DEF Finish
<1>2. /\ n \in running /\ running' = running \ {n} /\ idle' = idle + 1
      /\ UNCHANGED <<loop, task, watching, ready, started, results, completed, failed,
                     cancelled, closed, returned>>
  BY DEF Finish, layerVars
<1>3. TypeOK /\ Flight(n)
  BY DEF IndInv
<1>4. /\ results[n] \in Open /\ n \in started /\ ~Reported(n) /\ n \notin ready
      /\ n \in Subflow => loop[Child[n]] = "off"
  BY <1>2, <1>3 DEF Flight, Unbuilt
<1>5. /\ doneCh' \in [Layers -> Seq(Msg)]
      /\ \A k \in Layers : Distinct(doneCh'[k]) /\ \A m \in Msgs(doneCh[k])' : m.node \in NodesOf[k]
      /\ Reported(n)'
      /\ \A k \in Nodes : k # n =>
            /\ Reported(k)' <=> Reported(k)
            /\ \A m \in Msgs(doneCh[LayerOf[k]])' : m.node = k => m \in Msgs(doneCh[LayerOf[k]])
  BY <1>1, <1>4, Sent
<1>6. TypeOK' /\ Capacity' /\ RootLoop'
  <2>1. running' \in SUBSET Nodes /\ idle' \in 0..MaxWorkers /\ Capacity'
    BY <1>2, Released
  <2>2. TypeOK'
    BY <1>2, <1>3, <1>5, <2>1 DEF TypeOK, Msg
  <2> QED BY <1>2, <2>1, <2>2 DEF RootLoop, IndInv
<1>7. ASSUME NEW k \in Nodes PROVE Flight(k)' /\ Verdicts(k)'
  <2>1. Flight(k) /\ Verdicts(k)
    BY DEF IndInv
  <2>2. CASE k = n
    <3>1. n \notin running' /\ n \notin ready' /\ (n \in Subflow => loop'[Child[n]] = "off")
      BY <1>2, <1>4
    <3>2. Flight(n)'
      BY <1>2, <1>3, <1>4, <3>1 DEF Flight, Open, Alive
    <3>3. Verdicts(n)'
      BY <3>1 DEF Verdicts
    <3> QED BY <2>2, <3>2, <3>3
  <2>3. CASE k # n
    <3>1. /\ Reported(k)' <=> Reported(k)
          /\ \A m \in Msgs(doneCh[LayerOf[k]])' : m.node = k => m \in Msgs(doneCh[LayerOf[k]])
      BY <1>5, <2>3
    <3>2. Flight(k)'
      BY <1>2, <2>1, <2>3, <3>1, FlightKept DEF Alive
    <3>3. Verdicts(k)'
      BY <1>2, <2>1, <3>1, VerdictsKept
    <3> QED BY <3>2, <3>3
  <2> QED BY <2>2, <2>3
<1>8. ASSUME NEW k \in Layers PROVE Held(k)' /\ Counted(k)'
  <2>1. Held(k) /\ Counted(k)
    BY DEF IndInv
  <2>2. Held(k)'
    BY <1>2, <1>5, <2>1 DEF Held
  <2>3. Counted(k)'
    BY <1>2, <2>1, CountedKept
  <2> QED BY <2>2, <2>3
<1>9. Orphans'
  BY <1>2 DEF Orphans, Hanging, Alive, Complete, IndInv
<1> QED BY <1>6, <1>7, <1>8, <1>9 DEF IndInv

(***************************************************************************)
(* The child of a node whose own layer is gone is launched only if that    *)
(* layer, or one above it, was aborted.                                    *)
(***************************************************************************)
LEMMA StepLaunch == ASSUME IndInv, NEW n \in Nodes, Launch(n) PROVE IndInv'
<1> DEFINE p == LayerOf[n]
           c == Child[n]
<1>1. /\ n \in running /\ n \in Subflow /\ running' = running \ {n} /\ idle' = idle + 1
      /\ loop' = [loop EXCEPT ![c] = "loop"]
      /\ UNCHANGED <<watching, ready, started, results, completed, failed, doneCh,
                     cancelled, closed, returned>>
  BY DEF Launch
<1>2. TypeOK /\ c \in Layers /\ c # Root /\ p \in Layers /\ n \in NodesOf[p]
  BY <1>1, SubflowNodes, NodeLayers DEF IndInv
<1>3. /\ results[n] \in Open /\ n \in started /\ ~Reported(n) /\ n \notin ready
      /\ loop[c] = "off" /\ (results[n] = "Skipped" => p \in failed)
  BY <1>1 DEF IndInv, Flight, Unbuilt
<1>4. PICK m \in Nodes \cup {NoNode} :
         /\ task' = [task EXCEPT ![c] = m]
         /\ m # NoNode => m \in ready \cap NodesOf[c]
  <2>1. PICK m \in Peeks(Waiting(c)) : task' = [task EXCEPT ![c] = m]
    BY DEF Launch
  <2>2. m \in Nodes \cup {NoNode} /\ (m # NoNode => m \in ready \cap NodesOf[c])
    BY <1>2, <2>1, NodeLayers DEF Peeks, Waiting
  <2> QED BY <2>1, <2>2
<1>5. /\ loop' \in [Layers -> {"off", "loop", "ended", "panicked", "gone"}]
      /\ task' \in [Layers -> Nodes \cup {NoNode}]
      /\ loop'[c] = "loop" /\ task'[c] = m
      /\ \A k \in Layers : k # c => loop'[k] = loop[k] /\ task'[k] = task[k]
  BY <1>1, <1>2, <1>4 DEF TypeOK
<1>6. TypeOK' /\ Capacity' /\ RootLoop'
  <2>1. running' \in SUBSET Nodes /\ idle' \in 0..MaxWorkers /\ Capacity'
    BY <1>1, Released
  <2>2. TypeOK'
    BY <1>1, <1>2, <1>5, <2>1 DEF TypeOK
  <2> QED
    BY <1>1, <1>2, <1>5, <2>1, <2>2, TreeAssumption DEF RootLoop, IndInv, TreeAssumption
<1>7. ASSUME NEW k \in Nodes PROVE Flight(k)' /\ Verdicts(k)'
  <2>1. Flight(k) /\ Verdicts(k) /\ (Reported(k)' <=> Reported(k))
    BY <1>1, OtherChannels DEF IndInv
  <2>2. CASE k = n
    BY <1>1, <1>3, <1>5, <2>1, <2>2 DEF Flight, Verdicts
  <2>3. CASE k # n
    <3>1. k \in Subflow => loop'[Child[k]] = loop[Child[k]]
      BY <1>1, <1>5, <2>3, SubflowNodes
    <3>2. Flight(k)'
      BY <1>1, <2>1, <2>3, <3>1, FlightKept DEF Alive
    <3>3. Verdicts(k)'
      BY <1>1, <2>1, <3>1, VerdictsKept, OtherChannels
    <3> QED BY <3>2, <3>3
  <2> QED BY <2>2, <2>3
<1>8. ASSUME NEW k \in Layers PROVE Held(k)' /\ Counted(k)'
  <2>1. Held(k) /\ Counted(k)
    BY DEF IndInv
  <2>2. CASE k = c
    <3>1. Held(k)'
      BY <1>1, <1>4, <1>5, <2>1, <2>2 DEF Held
    <3>2. Counted(k)'
      BY <1>1, <1>5, <2>1, <2>2, CountedKept
    <3> QED BY <3>1, <3>2
  <2>3. CASE k # c
    <3>1. Held(k)'
      BY <1>1, <1>5, <2>1, <2>3, HeldKept
    <3>2. Counted(k)'
      BY <1>1, <1>5, <2>1, <2>3, CountedKept
    <3> QED BY <3>1, <3>2
  <2> QED BY <2>2, <2>3
<1>9. Orphans'
  <2>1. \A k \in Layers : k # c => (Hanging(k)' => Hanging(k))
    BY <1>1, <1>5 DEF Hanging, Alive, Complete
  <2>2. ASSUME closed PROVE Above(c) \cap failed # {}
    <3>1. loop[p] # "off"
      BY <1>2, <1>3 DEF IndInv, Held
    <3>2. Hanging(p) \/ p \in failed \/ Complete(p)
      BY <1>2, <3>1 DEF Hanging, Alive, TypeOK
    <3>3. Complete(p) => p \in failed
      BY <1>2, <1>3 DEF Complete, Open
    <3>4. p \in failed \/ Above(p) \cap failed # {}
      BY <1>2, <2>2, <3>2, <3>3 DEF IndInv, Orphans
    <3> QED BY <1>1, <3>4, AboveChild
  <2> QED BY <1>1, <2>1, <2>2 DEF IndInv, Orphans
<1> QED BY <1>6, <1>7, <1>8, <1>9 DEF IndInv

-----------------------------------------------------------------------------
LEMMA NextIndInv == ASSUME IndInv, [Next]_vars PROVE IndInv'
<1>1. IndInv /\ TypeOK
  BY DEF IndInv
<1>2. idle \in 0..idle /\ (idle > 0 => idle - 1 \in 0..idle) /\ TRUE \in BOOLEAN
  BY <1>1, TreeAssumption DEF TypeOK, TreeAssumption
<1>3. ASSUME NEW l \in Layers, Loop(l) PROVE IndInv'
  BY <1>3, StepDispatch, StepSendPanics, StepRecvCritical, StepRecv, StepCtxDone, StepLoopEnds,
     StepChildReturns DEF Loop
<1>4. ASSUME NEW n \in Nodes, Worker(n) PROVE IndInv'
  BY <1>4, StepFinish, StepLaunch DEF Worker
<1>5. CASE WorkerExits
  <2>1. /\ idle' \in 0..idle /\ cancelled' \in SUBSET Layers /\ returned' \in BOOLEAN
        /\ UNCHANGED <<layerVars, doneCh, running, closed>>
    BY <1>1, <1>2, <1>5 DEF WorkerExits, TypeOK
  <2> QED BY <2>1, StepOther
<1>6. CASE RunReturns
  <2>1. /\ idle' \in 0..idle /\ cancelled' \in SUBSET Layers /\ returned' \in BOOLEAN
        /\ UNCHANGED <<layerVars, doneCh, running, closed>>
    BY <1>1, <1>2, <1>6 DEF RunReturns, TypeOK
  <2> QED BY <2>1, StepOther
<1>7. ASSUME NEW l \in Layers, Cancel(l) PROVE IndInv'
  <2>1. /\ idle' \in 0..idle /\ cancelled' \in SUBSET Layers /\ returned' \in BOOLEAN
        /\ UNCHANGED <<layerVars, doneCh, running, closed>>
    BY <1>1, <1>2, <1>7, BelowClosed DEF Cancel, TypeOK, poolVars
  <2> QED BY <2>1, StepOther
<1>8. CASE UNCHANGED vars
  <2>1. /\ idle' \in 0..idle /\ cancelled' \in SUBSET Layers /\ returned' \in BOOLEAN
        /\ UNCHANGED <<layerVars, doneCh, running, closed>>
    BY <1>1, <1>2, <1>8 DEF vars, TypeOK, poolVars
  <2> QED BY <2>1, StepOther
<1>9. CASE Quiescent
  BY <1>8, <1>9 DEF Quiescent
<1> QED BY <1>3, <1>4, <1>5, <1>6, <1>7, <1>8, <1>9 DEF Next

(***************************************************************************)
(* The invariant holds in every reachable state.                           *)
(***************************************************************************)
THEOREM TreeInductive == Spec => []IndInv
BY InitIndInv, NextIndInv, PTL DEF Spec

(***************************************************************************)
(* Every variable keeps its type: no more workers are idle than were       *)
(* started, and no channel or schedule holds what is not a node.           *)
(***************************************************************************)
THEOREM TypeCorrect == Spec => []TypeOK
<1>1. IndInv => TypeOK
  BY DEF IndInv
<1> QED BY <1>1, TreeInductive, PTL

(***************************************************************************)
(* A subflow node succeeds only if every node of its child DAG has a       *)
(* result and the child was not aborted; it fails only if the child was, or*)
(* readyCh is closed, so that its loop may have panicked                   *)
(* (engine.go:443-451).                                                    *)
(***************************************************************************)
THEOREM ChildDecided == Spec => []ChildDecides
<1>1. ASSUME IndInv PROVE ChildDecides
  <2> SUFFICES ASSUME NEW n \in Subflow, loop[Child[n]] = "gone", results[n] \in {"Success", "Failed"}
               PROVE  Verdict(n, results[n])
    BY DEF ChildDecides, Verdict, Complete
  <2>1. n \in Nodes
    BY SubflowNodes
  <2> QED BY <1>1, <2>1 DEF IndInv, Verdicts
<1> QED BY <1>1, TreeInductive, PTL

(***************************************************************************)
(* A child loop outlives its parent's only under a layer that was aborted: *)
(* a Run that succeeds leaves no loop behind (engine.go:74-77, 188).       *)
(***************************************************************************)
THEOREM OrphansAborted == Spec => []OrphansAreAborted
<1>1. ASSUME IndInv PROVE OrphansAreAborted
  <2> SUFFICES ASSUME NEW n \in Subflow, Alive(Child[n]), loop[LayerOf[n]] \notin {"off", "loop"}
               PROVE  Above(Child[n]) \cap failed # {}
    BY DEF OrphansAreAborted
  <2> DEFINE p == LayerOf[n]
             c == Child[n]
  <2>1. n \in Nodes /\ p \in Layers /\ n \in NodesOf[p] /\ c \in Layers /\ p \in Above(c)
    BY SubflowNodes, NodeLayers, AboveChild
  <2>2. Complete(p) => p \in failed
    BY <1>1, <2>1 DEF IndInv, Flight, Complete, Open
  <2>3. CASE closed
    <3>1. Hanging(c)
      BY DEF Hanging
    <3> QED BY <1>1, <2>1, <2>3, <3>1 DEF IndInv, Orphans
  <2>4. CASE ~closed
    <3>1. loop[p] \in {"ended", "gone"}
      BY <1>1, <2>1, <2>4 DEF IndInv, TypeOK, Held
    <3>2. p \in failed \/ Complete(p)
      BY <1>1, <2>1, <2>4, <3>1 DEF IndInv, Counted
    <3> QED BY <2>1, <2>2, <3>2
  <2> QED BY <2>3, <2>4
<1> QED BY <1>1, TreeInductive, PTL
================================================================================
