------------------------------ MODULE ReadyQueue ------------------------------
(***************************************************************************)
(* What the event loop relies on of SchedulerStrategy: a set of ready nodes*)
(* of which Peek shows one.  Module PriorityScheduler implements it with   *)
(* the binary heap of the code; module EventLoop is written on top of it.  *)
(***************************************************************************)
EXTENDS Integers

CONSTANTS
    N,      (* number of nodes of the DAG; a node is named by its position   *)
            (* in the order of the AddNode calls                             *)
    Prio    (* Prio[n]: Node.Priority                                        *)

Nodes  == 1..N
NoNode == 0

ASSUME QueueAssumption == N \in Nat \ {0} /\ Prio \in [Nodes -> Int]

VARIABLES
    ready,  (* the nodes in the scheduler                                    *)
    head    (* what Peek returns, NoNode (nil) if the scheduler is empty     *)

Top(S) == {n \in S : \A m \in S : Prio[m] <= Prio[n]}

(* A fault: a tie displaces the root. *)
RootAfterPushTies(S) ==
    IF head = NoNode THEN (IF S = {} THEN {NoNode} ELSE Top(S))
    ELSE IF \A n \in S : Prio[n] < Prio[head] THEN {head} ELSE Top(S)

(***************************************************************************)
(* A pushed node becomes the root only past strictly lower priorities; a   *)
(* pop leaves any of the highest remaining nodes there.                    *)
(***************************************************************************)
RootAfterPush(S) ==
    IF head = NoNode THEN (IF S = {} THEN {NoNode} ELSE Top(S))
    ELSE IF \A n \in S : Prio[n] <= Prio[head] THEN {head} ELSE Top(S)

RootAfterPop == IF ready = {head} THEN {NoNode} ELSE Top(ready \ {head})

Enqueue(S) ==
    /\ ready' = ready \cup S
    /\ head' \in RootAfterPush(S)

Dequeue ==
    /\ ready' = ready \ {head}
    /\ head' \in RootAfterPop

QueueInit == ready = {} /\ head = NoNode

QueueNext ==
    \/ \E S \in SUBSET (Nodes \ ready) : Enqueue(S)
    \/ head # NoNode /\ Dequeue

QueueSpec == QueueInit /\ [][QueueNext]_<<ready, head>>
=============================================================================
