--------------------------- MODULE PriorityScheduler ---------------------------
(***************************************************************************)
(* priorityScheduler and nodeHeap: a binary heap in a slice, driven by     *)
(* container/heap.  The heap is a sequence, heap[1] its root, so that the  *)
(* children of i are 2i and 2i + 1.                                        *)
(***************************************************************************)
EXTENDS Integers, Sequences, SequencesExt

CONSTANTS N, Prio

Nodes  == 1..N
NoNode == 0

ASSUME SchedulerAssumption == N \in Nat \ {0} /\ Prio \in [Nodes -> Int]

VARIABLE heap

(* A fault: a newcomer of equal priority goes first.                       *)
LessOrEqual(h, i, j) == Prio[h[i]] >= Prio[h[j]]

(***************************************************************************)
(* nodeHeap.Less is strict on Priority; Swap exchanges two elements.       *)
(***************************************************************************)
Less(h, i, j) == Prio[h[i]] > Prio[h[j]]

Swap(h, i, j) == [h EXCEPT ![i] = h[j], ![j] = h[i]]

(***************************************************************************)
(* A heap and the place of the element that is moved in it.                *)
(***************************************************************************)
Place  == [heap : Seq(Nodes), at : Nat \ {0}]
InHeap == {p \in Place : p.at <= Len(p.heap)}

Move(p, i) == [heap |-> Swap(p.heap, p.at, i), at |-> i]

(***************************************************************************)
(* container/heap's up and down: the element rises past its parent, or     *)
(* sinks below the first of its largest children, while Less says so.      *)
(***************************************************************************)
Rises(p) == p.at > 1 /\ Less(p.heap, p.at, p.at \div 2)

Up[p \in InHeap] == IF Rises(p) THEN Up[Move(p, p.at \div 2)] ELSE p.heap

(* A fault: only the left child is looked at.                              *)
FirstChildLeft(p) == 2 * p.at

FirstChild(p) == IF 2 * p.at < Len(p.heap) /\ Less(p.heap, 2 * p.at + 1, 2 * p.at)
                 THEN 2 * p.at + 1 ELSE 2 * p.at

Sinks(p) == 2 * p.at <= Len(p.heap) /\ Less(p.heap, FirstChild(p), p.at)

Down[p \in Place] == IF Sinks(p) THEN Down[Move(p, FirstChild(p))] ELSE p.heap

(***************************************************************************)
(* heap.Push appends and moves up; heap.Pop exchanges the root with the    *)
(* last element, moves it down in what remains and cuts the last one off.  *)
(***************************************************************************)
HeapPush(h, n) == Up[[heap |-> Append(h, n), at |-> Len(h) + 1]]

HeapPop(h) == Down[[heap |-> Front(Swap(h, 1, Len(h))), at |-> 1]]

Peek == IF heap = <<>> THEN NoNode ELSE heap[1]

Init == heap = <<>>

(***************************************************************************)
(* Enqueue(nodes...) pushes its arguments in order.                        *)
(***************************************************************************)
Batch == [heap : Seq(Nodes), nodes : Seq(Nodes)]

Pushes[b \in Batch] ==
    IF b.nodes = <<>> THEN b.heap
    ELSE Pushes[[heap |-> HeapPush(b.heap, Head(b.nodes)), nodes |-> Tail(b.nodes)]]

Enqueue(nodes) == heap' = Pushes[[heap |-> heap, nodes |-> nodes]]

(***************************************************************************)
(* Dequeue returns the root; of an empty scheduler it returns nil and does *)
(* nothing, which is a stuttering step here.                               *)
(***************************************************************************)
Dequeue == heap # <<>> /\ heap' = HeapPop(heap)

Next ==
    \/ \E S \in SUBSET (Nodes \ ToSet(heap)) : \E nodes \in SetToSeqs(S) : Enqueue(nodes)
    \/ Dequeue

Spec == Init /\ [][Next]_heap

-----------------------------------------------------------------------------
(***************************************************************************)
(* No node is lost or duplicated by the exchanges, and no element is above *)
(* one of higher priority (scheduler.go:29-41, 51-68).                     *)
(***************************************************************************)
HeapOrder ==
    /\ heap \in Seq(Nodes)
    /\ \A i, j \in 1..Len(heap) : heap[i] = heap[j] => i = j
    /\ \A i \in 2..Len(heap) : Prio[heap[i]] <= Prio[heap[i \div 2]]

(***************************************************************************)
(* The heap implements the queue the event loop is modelled with: pushes   *)
(* add exactly the pushed nodes and leave the root alone unless one of     *)
(* them is strictly higher; a pop removes exactly what Peek showed and     *)
(* leaves a highest node at the root (scheduler.go:34-52).                 *)
(***************************************************************************)
Queue == INSTANCE ReadyQueue WITH ready <- ToSet(heap), head <- Peek

ImplementsQueue == Queue!QueueSpec
=============================================================================
