------------------------ MODULE PrioritySchedulerProofs ------------------------
(***************************************************************************)
(* Proofs about module PriorityScheduler, for any number of nodes and any  *)
(* priorities: what the loops of container/heap compute, and that the heap *)
(* implements the queue of the event loop.                                 *)
(***************************************************************************)
EXTENDS PriorityScheduler, Loops, FiniteSetTheorems, SequenceTheorems, TLAPS

-----------------------------------------------------------------------------
(***************************************************************************)
(* Heaps.                                                                  *)
(***************************************************************************)
Distinct(h) == \A i, j \in 1..Len(h) : h[i] = h[j] => i = j

Ordered(h) == \A i \in 2..Len(h) : Prio[h[i]] <= Prio[h[i \div 2]]

IsHeap(h) == h \in Seq(Nodes) /\ Distinct(h) /\ Ordered(h)

LEMMA Priorities == N \in Nat \ {0} /\ Prio \in [Nodes -> Int] /\ NoNode \notin Nodes
BY SchedulerAssumption DEF SchedulerAssumption, Nodes, NoNode

LEMMA Halves ==
    \A i \in Nat : i > 1 => /\ i \div 2 \in Nat /\ 1 <= i \div 2 /\ i \div 2 < i
                            /\ i = 2 * (i \div 2) \/ i = 2 * (i \div 2) + 1
OBVIOUS

LEMMA Elements ==
    ASSUME NEW h \in Seq(Nodes)
    PROVE  /\ Len(h) \in Nat /\ DOMAIN h = 1..Len(h) /\ \A i \in 1..Len(h) : h[i] \in Nodes
           /\ \A n : n \in ToSet(h) <=> \E i \in 1..Len(h) : h[i] = n
           /\ ToSet(h) \subseteq Nodes
BY LenProperties, ElementOfSeq DEF ToSet

(***************************************************************************)
(* The root has the highest priority: a heap has no least index with a     *)
(* higher one.                                                             *)
(***************************************************************************)
LEMMA RootIsTop ==
    ASSUME NEW h, IsHeap(h), h # <<>>
    PROVE  h[1] \in ToSet(h) /\ \A n \in ToSet(h) : Prio[n] <= Prio[h[1]]
<1>1. h \in Seq(Nodes) /\ Len(h) \in Nat /\ Len(h) > 0
  BY EmptySeq, Elements DEF IsHeap
<1>2. \A i \in 1..Len(h) : Prio[h[i]] \in Int
  BY <1>1, Elements, Priorities
<1> DEFINE T == {i \in 1..Len(h) : Prio[h[i]] > Prio[h[1]]}
<1>3. ASSUME T # {} PROVE FALSE
  <2>1. T \in SUBSET Nat
    OBVIOUS
  <2>2. PICK i \in T : \A k \in T : i <= k
    <3> HIDE DEF T
    <3> QED BY <1>3, <2>1, LeastOf
  <2>3. i \in 1..Len(h) /\ i # 1 /\ Prio[h[i]] > Prio[h[1]]
    BY <1>1, <1>2
  <2>4. i \in 2..Len(h) /\ i \div 2 \in 1..Len(h) /\ i \div 2 < i
    BY <1>1, <2>3, Halves
  <2>5. Prio[h[i]] <= Prio[h[i \div 2]]
    BY <2>4 DEF IsHeap, Ordered
  <2>6. i \div 2 \in T
    BY <1>1, <1>2, <2>3, <2>4, <2>5
  <2>7. i <= i \div 2
    BY <2>2, <2>6
  <2> QED BY <2>4, <2>7
<1>4. \A i \in 1..Len(h) : Prio[h[i]] <= Prio[h[1]]
  BY <1>1, <1>2, <1>3
<1> QED BY <1>1, <1>4, Elements

(***************************************************************************)
(* Swap loses nothing.                                                     *)
(***************************************************************************)
LEMMA Swapped ==
    ASSUME NEW h \in Seq(Nodes), NEW i \in 1..Len(h), NEW j \in 1..Len(h)
    PROVE  /\ Swap(h, i, j) \in Seq(Nodes) /\ Len(Swap(h, i, j)) = Len(h)
           /\ Swap(h, i, j)[i] = h[j] /\ Swap(h, i, j)[j] = h[i]
           /\ \A k \in 1..Len(h) : k # i /\ k # j => Swap(h, i, j)[k] = h[k]
           /\ ToSet(Swap(h, i, j)) = ToSet(h)
           /\ Distinct(h) => Distinct(Swap(h, i, j))
<1>1. PICK s : s = [h EXCEPT ![i] = h[j]]
  OBVIOUS
<1>2. PICK t : t = Swap(h, i, j)
  OBVIOUS
<1>3. t = [s EXCEPT ![j] = h[i]]
  BY <1>1, <1>2 DEF Swap
<1>4. h[i] \in Nodes /\ h[j] \in Nodes
  BY Elements
<1>5. /\ s \in Seq(Nodes) /\ Len(s) = Len(h)
      /\ \A k \in 1..Len(h) : s[k] = IF k = i THEN h[j] ELSE h[k]
  BY <1>1, <1>4, ExceptSeq
<1>6. /\ t \in Seq(Nodes) /\ Len(t) = Len(h)
      /\ \A k \in 1..Len(h) : t[k] = IF k = j THEN h[i] ELSE s[k]
  BY <1>3, <1>4, <1>5, ExceptSeq
<1>7. /\ t[i] = h[j] /\ t[j] = h[i]
      /\ \A k \in 1..Len(h) : k # i /\ k # j => t[k] = h[k]
  BY <1>5, <1>6
<1>8. ToSet(t) = ToSet(h)
  <2>1. \A n \in ToSet(t) : n \in ToSet(h)
    BY <1>6, <1>7, Elements
  <2>2. \A n \in ToSet(h) : n \in ToSet(t)
    <3>1. \A k \in 1..Len(h) : \E l \in 1..Len(t) : t[l] = h[k]
      BY <1>6, <1>7
    <3>2. \A n : n \in ToSet(t) <=> \E l \in 1..Len(t) : t[l] = n
      BY <1>6, Elements
    <3>3. \A n : n \in ToSet(h) <=> \E l \in 1..Len(h) : h[l] = n
      BY Elements
    <3> QED BY <3>1, <3>2, <3>3
  <2> QED BY <2>1, <2>2
<1>9. Distinct(h) => Distinct(t)
  BY <1>6, <1>7 DEF Distinct
<1> QED BY <1>2, <1>6, <1>7, <1>8, <1>9

LEMMA Moved ==
    ASSUME NEW p \in InHeap, NEW i \in 1..Len(p.heap)
    PROVE  /\ Move(p, i) \in InHeap /\ Move(p, i) \in Place
           /\ Move(p, i).heap = Swap(p.heap, p.at, i) /\ Move(p, i).at = i
<1>1. p.heap \in Seq(Nodes) /\ p.at \in 1..Len(p.heap) /\ i \in Nat \ {0}
  BY LenProperties DEF InHeap, Place
<1> QED BY <1>1, Swapped DEF Move, InHeap, Place

-----------------------------------------------------------------------------
(***************************************************************************)
(* up: what its definition and LoopEnds say of it.                         *)
(***************************************************************************)
UpOut  == [p \in InHeap |-> p.heap]
UpStop == {p \in InHeap : ~Rises(p)}
UpStep == [p \in InHeap \ UpStop |-> Move(p, p.at \div 2)]

LEMMA UpLoop == Solves(Up, InHeap, UpStop, UpStep, UpOut)
<1>1. UpStep \in [InHeap \ UpStop -> InHeap]
  <2> SUFFICES ASSUME NEW p \in InHeap, Rises(p) PROVE Move(p, p.at \div 2) \in InHeap
    BY DEF UpStep, UpStop
  <2>1. p.at \in Nat /\ p.at > 1 /\ p.at <= Len(p.heap) /\ Len(p.heap) \in Nat
    BY LenProperties DEF Rises, InHeap, Place
  <2>2. p.at \div 2 \in 1..Len(p.heap)
    BY <2>1, Halves
  <2> QED BY <2>2, Moved
<1>2. PICK g : Solves(g, InHeap, UpStop, UpStep, UpOut)
  <2>1. UpOut \in [InHeap -> Seq(Nodes)]
    BY DEF UpOut, InHeap, Place
  <2> QED BY <1>1, <2>1, TailCall
<1>3. \A p \in InHeap : g[p] = IF Rises(p) THEN g[Move(p, p.at \div 2)] ELSE p.heap
  BY <1>2 DEF Solves, UpStop, UpStep, UpOut, InHeap
<1>4. g = [p \in InHeap |-> IF Rises(p) THEN g[Move(p, p.at \div 2)] ELSE p.heap]
  BY <1>2, <1>3 DEF Solves
<1>5. Up = [p \in InHeap |-> IF Rises(p) THEN Up[Move(p, p.at \div 2)] ELSE p.heap]
  BY <1>4, SMTT(30) DEF Up
<1>6. \A p \in InHeap : Up[p] = IF p \in UpStop THEN UpOut[p] ELSE Up[UpStep[p]]
  BY <1>5 DEF UpStop, UpStep, UpOut, InHeap
<1>7. Up = [p \in InHeap |-> Up[p]]
  BY <1>5
<1> QED BY <1>6, <1>7 DEF Solves

(***************************************************************************)
(* While n, pushed on h, rises: only n may be above its parent's priority, *)
(* its children are not above its parent's, and the root of h stays where  *)
(* it is until n, having a higher priority, takes its place.               *)
(***************************************************************************)
Rising(p, h, n) ==
    /\ p \in InHeap /\ Len(p.heap) = Len(h) + 1 /\ p.heap[p.at] = n
    /\ Distinct(p.heap) /\ ToSet(p.heap) = ToSet(h) \cup {n}
    /\ \A i \in 2..Len(p.heap) : i # p.at => Prio[p.heap[i]] <= Prio[p.heap[i \div 2]]
    /\ \A i \in 2..Len(p.heap) :
          i \div 2 = p.at /\ p.at > 1 => Prio[p.heap[i]] <= Prio[p.heap[p.at \div 2]]
    /\ h # <<>> => IF p.at > 1 THEN p.heap[1] = h[1] ELSE Prio[n] > Prio[h[1]]

LEMMA RisingStarts ==
    ASSUME NEW h, IsHeap(h), NEW n \in Nodes \ ToSet(h)
    PROVE  Rising([heap |-> Append(h, n), at |-> Len(h) + 1], h, n)
<1>1. h \in Seq(Nodes) /\ Len(h) \in Nat /\ n \in Nodes
  BY LenProperties DEF IsHeap
<1>2. PICK t : t = Append(h, n)
  OBVIOUS
<1>3. /\ t \in Seq(Nodes) /\ Len(t) = Len(h) + 1 /\ t[Len(h) + 1] = n
      /\ \A i \in 1..Len(h) : t[i] = h[i]
  BY <1>1, <1>2, AppendProperties
<1>4. PICK p : p = [heap |-> t, at |-> Len(h) + 1]
  OBVIOUS
<1>5. p \in InHeap
  BY <1>1, <1>3, <1>4 DEF InHeap, Place
<1>6. Distinct(t)
  <2>1. \A i \in 1..Len(h) : h[i] # n
    BY <1>1, Elements
  <2> QED BY <1>1, <1>3, <2>1 DEF Distinct, IsHeap
<1>7. ToSet(t) = ToSet(h) \cup {n}
  <2>1. \A x : x \in ToSet(t) <=> \E l \in 1..Len(t) : t[l] = x
    BY <1>3, Elements
  <2>2. \A x : x \in ToSet(h) <=> \E l \in 1..Len(h) : h[l] = x
    BY <1>1, Elements
  <2>3. \A l \in 1..Len(t) : l \in 1..Len(h) \/ l = Len(h) + 1
    BY <1>1, <1>3
  <2>4. \A l \in 1..Len(h) : l \in 1..Len(t)
    BY <1>1, <1>3
  <2>5. Len(h) + 1 \in 1..Len(t)
    BY <1>1, <1>3
  <2> QED BY <1>3, <2>1, <2>2, <2>3, <2>4, <2>5
<1>8. \A i \in 2..Len(t) : i # Len(h) + 1 => Prio[t[i]] <= Prio[t[i \div 2]]
  <2> SUFFICES ASSUME NEW i \in 2..Len(t), i # Len(h) + 1 PROVE Prio[t[i]] <= Prio[t[i \div 2]]
    OBVIOUS
  <2>1. i \in 2..Len(h) /\ i \in 1..Len(h) /\ i \div 2 \in 1..Len(h)
    BY <1>1, <1>3, Halves
  <2> QED BY <1>3, <2>1 DEF IsHeap, Ordered
<1>9. \A i \in 2..Len(t) : i \div 2 # Len(h) + 1
  BY <1>1, <1>3, Halves
<1>10. h # <<>> => Len(h) + 1 > 1 /\ t[1] = h[1]
  <2>1. h # <<>> => Len(h) > 0
    BY <1>1, EmptySeq
  <2> QED BY <1>1, <1>3, <2>1
<1> QED BY <1>2, <1>3, <1>4, <1>5, <1>6, <1>7, <1>8, <1>9, <1>10 DEF Rising

LEMMA RisingGoesOn ==
    ASSUME NEW h \in Seq(Nodes), NEW n \in Nodes, NEW p, Rising(p, h, n), Rises(p)
    PROVE  Rising(Move(p, p.at \div 2), h, n)
<1>1. PICK s, k, j : s = p.heap /\ k = p.at /\ j = p.at \div 2
  OBVIOUS
<1>2. /\ s \in Seq(Nodes) /\ Len(s) \in Nat /\ k \in Nat /\ k > 1 /\ k <= Len(s)
      /\ Prio[s[k]] > Prio[s[j]] /\ p \in InHeap
  BY <1>1, LenProperties DEF Rising, Rises, Less, InHeap, Place
<1>3. j \in Nat /\ 1 <= j /\ j < k /\ (k = 2 * j \/ k = 2 * j + 1)
  BY <1>1, <1>2, Halves
<1>4. j \in 1..Len(s) /\ k \in 1..Len(s) /\ k \in 2..Len(s)
  BY <1>1, <1>2, Halves
<1>5. PICK t : t = Swap(s, k, j)
  OBVIOUS
<1>6. PICK q : q = Move(p, j)
  OBVIOUS
<1>7. q \in InHeap /\ q.heap = t /\ q.at = j
  BY <1>1, <1>2, <1>4, <1>5, <1>6, Moved
<1>8. /\ t \in Seq(Nodes) /\ Len(t) = Len(s) /\ t[k] = s[j] /\ t[j] = s[k]
      /\ \A i \in 1..Len(s) : i # k /\ i # j => t[i] = s[i]
      /\ ToSet(t) = ToSet(s) /\ (Distinct(s) => Distinct(t))
  BY <1>2, <1>4, <1>5, Swapped, ZenonT(60)
<1>9. \A i \in 1..Len(s) : Prio[s[i]] \in Int
  BY <1>2, Elements, Priorities
<1>10. /\ s[k] = n /\ Len(s) = Len(h) + 1 /\ Distinct(s) /\ ToSet(s) = ToSet(h) \cup {n}
       /\ \A i \in 2..Len(s) : i # k => Prio[s[i]] <= Prio[s[i \div 2]]
       /\ \A i \in 2..Len(s) : i \div 2 = k => Prio[s[i]] <= Prio[s[j]]
       /\ h # <<>> => s[1] = h[1]
  BY <1>1, <1>2 DEF Rising
<1>11. \A i \in 2..Len(s) : /\ i \in Nat /\ i > 1 /\ i \in 1..Len(s)
                            /\ i \div 2 \in 1..Len(s) /\ i \div 2 < i
  BY <1>2, Halves
<1>12. ASSUME NEW i \in 2..Len(t), i # j PROVE Prio[t[i]] <= Prio[t[i \div 2]]
  <2>0. i \in 2..Len(s) /\ i \in 1..Len(s) /\ i \div 2 \in 1..Len(s) /\ i \div 2 < i
    BY <1>8, <1>11
  <2>1. CASE i = k
    BY <1>1, <1>2, <1>4, <1>8, <1>9, <2>1
  <2>2. CASE i # k /\ i \div 2 = k
    BY <1>2, <1>3, <1>4, <1>8, <1>10, <1>12, <2>0, <2>2
  <2>3. CASE i # k /\ i \div 2 = j
    <3>1. Prio[s[i]] <= Prio[s[j]]
      BY <1>10, <2>0, <2>3
    <3>2. t[i] = s[i] /\ t[i \div 2] = s[k]
      BY <1>8, <1>12, <2>0, <2>3
    <3> QED BY <1>2, <1>4, <1>9, <2>0, <3>1, <3>2, SMTT(30)
  <2>4. CASE i # k /\ i \div 2 # j /\ i \div 2 # k
    BY <1>8, <1>10, <1>12, <2>0, <2>4
  <2> QED BY <2>1, <2>2, <2>3, <2>4
<1>13. ASSUME NEW i \in 2..Len(t), i \div 2 = j, j > 1 PROVE Prio[t[i]] <= Prio[t[j \div 2]]
  <2>1. /\ j \in 2..Len(s) /\ j # k /\ j \div 2 \in 1..Len(s) /\ j \div 2 < j /\ j \div 2 # k
        /\ i \in 2..Len(s) /\ i \in 1..Len(s) /\ i # j
    BY <1>2, <1>3, <1>4, <1>8, <1>11, <1>13
  <2>2. Prio[s[j]] <= Prio[s[j \div 2]] /\ t[j \div 2] = s[j \div 2]
    BY <1>8, <1>10, <2>1
  <2>3. CASE i = k
    BY <1>8, <2>2, <2>3
  <2>4. CASE i # k
    <3>1. Prio[s[i]] <= Prio[s[j]] /\ t[i] = s[i]
      BY <1>8, <1>10, <1>13, <2>1, <2>4
    <3> QED BY <1>4, <1>9, <2>1, <2>2, <3>1
  <2> QED BY <2>3, <2>4
<1>14. h # <<>> => IF j > 1 THEN t[1] = h[1] ELSE Prio[n] > Prio[h[1]]
  <2>1. 1 \in 1..Len(s) /\ (j > 1 => 1 # j /\ 1 # k) /\ (~(j > 1) => j = 1)
    BY <1>1, <1>2, <1>4, Halves
  <2> QED BY <1>2, <1>8, <1>10, <2>1
<1>15. t[j] = n /\ Len(t) = Len(h) + 1 /\ Distinct(t) /\ ToSet(t) = ToSet(h) \cup {n}
  BY <1>8, <1>10
<1> QED BY <1>1, <1>6, <1>7, <1>12, <1>13, <1>14, <1>15 DEF Rising

(***************************************************************************)
(* heap.Push adds n to a heap, and leaves its root alone unless n has a    *)
(* strictly higher priority.                                               *)
(***************************************************************************)
LEMMA PushCorrect ==
    ASSUME NEW h, IsHeap(h), NEW n \in Nodes \ ToSet(h)
    PROVE  /\ IsHeap(HeapPush(h, n)) /\ ToSet(HeapPush(h, n)) = ToSet(h) \cup {n}
           /\ Len(HeapPush(h, n)) = Len(h) + 1
           /\ h # <<>> /\ Prio[n] <= Prio[h[1]] => HeapPush(h, n)[1] = h[1]
<1>1. h \in Seq(Nodes)
  BY DEF IsHeap
<1>2. PICK p : p = [heap |-> Append(h, n), at |-> Len(h) + 1]
  OBVIOUS
<1>3. PICK I : I = {q \in InHeap : Rising(q, h, n)}
  OBVIOUS
<1>4. PICK m : m = [q \in InHeap |-> q.at]
  OBVIOUS
<1>5. I \in SUBSET InHeap /\ m \in [InHeap -> Nat] /\ p \in I
  <2>1. p \in I
    BY <1>2, <1>3, RisingStarts DEF Rising
  <2> QED BY <1>3, <1>4, <2>1 DEF InHeap, Place
<1>6. \A q \in I \ UpStop : UpStep[q] \in I /\ m[UpStep[q]] < m[q]
  <2> SUFFICES ASSUME NEW q \in InHeap, Rising(q, h, n), Rises(q)
               PROVE  /\ Rising(Move(q, q.at \div 2), h, n)
                      /\ Move(q, q.at \div 2) \in InHeap
                      /\ Move(q, q.at \div 2).at < q.at
    BY <1>3, <1>4 DEF UpStop, UpStep
  <2>1. Rising(Move(q, q.at \div 2), h, n)
    BY <1>1, RisingGoesOn
  <2>2. q.at \in Nat /\ q.at > 1
    BY DEF InHeap, Place, Rises
  <2>3. q.at \div 2 < q.at
    BY <2>2, Halves
  <2> QED BY <2>1, <2>3 DEF Rising, Move
<1>7. PICK q \in I \cap UpStop : Up[p] = UpOut[q]
  BY <1>5, <1>6, UpLoop, LoopEnds
<1>8. q \in InHeap /\ Rising(q, h, n) /\ ~Rises(q) /\ HeapPush(h, n) = q.heap
  BY <1>2, <1>3, <1>7 DEF UpStop, UpOut, HeapPush
<1>9. PICK s, k : s = q.heap /\ k = q.at
  OBVIOUS
<1>10. s \in Seq(Nodes) /\ Len(s) \in Nat /\ k \in 1..Len(s)
  BY <1>8, <1>9, LenProperties DEF InHeap, Place
<1>11. \A i \in 1..Len(s) : Prio[s[i]] \in Int
  BY <1>10, Elements, Priorities
<1>12. Ordered(s)
  <2> SUFFICES ASSUME NEW i \in 2..Len(s) PROVE Prio[s[i]] <= Prio[s[i \div 2]]
    BY DEF Ordered
  <2>1. CASE i = k
    <3>1. ~(Prio[s[k]] > Prio[s[k \div 2]]) /\ k > 1
      BY <1>8, <1>9, <2>1 DEF Rises, Less
    <3>2. k \div 2 \in 1..Len(s)
      BY <1>10, <3>1, Halves
    <3> QED BY <1>10, <1>11, <2>1, <3>1, <3>2
  <2>2. CASE i # k
    BY <1>8, <1>9, <2>2 DEF Rising
  <2> QED BY <2>1, <2>2
<1>13. IsHeap(s) /\ ToSet(s) = ToSet(h) \cup {n} /\ Len(s) = Len(h) + 1
  BY <1>8, <1>9, <1>10, <1>12 DEF Rising, IsHeap
<1>14. ASSUME h # <<>>, Prio[n] <= Prio[h[1]] PROVE s[1] = h[1]
  <2>1. Prio[n] \in Int /\ Prio[h[1]] \in Int
    BY <1>1, <1>14, Priorities, Elements, EmptySeq
  <2> QED BY <1>8, <1>9, <1>14, <2>1 DEF Rising
<1> QED BY <1>8, <1>9, <1>13, <1>14

-----------------------------------------------------------------------------
(***************************************************************************)
(* The pushes of Enqueue.                                                  *)
(***************************************************************************)
NextPush(b) == [heap |-> HeapPush(b.heap, Head(b.nodes)), nodes |-> Tail(b.nodes)]

PushesOut  == [b \in Batch |-> b.heap]
PushesStop == {b \in Batch : b.nodes = <<>>}
PushesStep == [b \in Batch \ PushesStop |-> NextPush(b)]

LEMMA PushType == ASSUME NEW h \in Seq(Nodes), NEW n \in Nodes PROVE HeapPush(h, n) \in Seq(Nodes)
<1>1. PICK p : p = [heap |-> Append(h, n), at |-> Len(h) + 1]
  OBVIOUS
<1>2. p \in InHeap
  <2>1. Append(h, n) \in Seq(Nodes) /\ Len(Append(h, n)) = Len(h) + 1 /\ Len(h) \in Nat
    BY AppendProperties, LenProperties
  <2> QED BY <1>1, <2>1 DEF InHeap, Place
<1>3. PICK m : m = [q \in InHeap |-> q.at]
  OBVIOUS
<1>4. m \in [InHeap -> Nat] /\ InHeap \in SUBSET InHeap
  BY <1>3 DEF InHeap, Place
<1>5. \A q \in InHeap \ UpStop : UpStep[q] \in InHeap /\ m[UpStep[q]] < m[q]
  <2> SUFFICES ASSUME NEW q \in InHeap, Rises(q)
               PROVE  Move(q, q.at \div 2) \in InHeap /\ Move(q, q.at \div 2).at < q.at
    BY <1>3 DEF UpStop, UpStep
  <2>1. q.at \in Nat /\ q.at > 1 /\ q.at <= Len(q.heap) /\ Len(q.heap) \in Nat
    BY LenProperties DEF Rises, InHeap, Place
  <2>2. q.at \div 2 \in 1..Len(q.heap) /\ q.at \div 2 < q.at
    BY <2>1, Halves
  <2> QED BY <2>2, Moved
<1>6. PICK q \in InHeap \cap UpStop : Up[p] = UpOut[q]
  BY <1>2, <1>4, <1>5, UpLoop, LoopEnds
<1> QED BY <1>1, <1>6 DEF UpOut, HeapPush, InHeap, Place

LEMMA NextPushType ==
    ASSUME NEW b \in Batch, b.nodes # <<>>
    PROVE  /\ Head(b.nodes) \in Nodes /\ NextPush(b) \in Batch
           /\ Len(b.nodes) \in Nat /\ Len(NextPush(b).nodes) = Len(b.nodes) - 1
<1>1. b.heap \in Seq(Nodes) /\ b.nodes \in Seq(Nodes)
  BY DEF Batch
<1>2. /\ Head(b.nodes) \in Nodes /\ Tail(b.nodes) \in Seq(Nodes)
      /\ Len(Tail(b.nodes)) = Len(b.nodes) - 1
  BY <1>1, HeadTailProperties
<1>3. HeapPush(b.heap, Head(b.nodes)) \in Seq(Nodes) /\ Len(b.nodes) \in Nat
  BY <1>1, <1>2, PushType, LenProperties
<1> QED BY <1>2, <1>3 DEF NextPush, Batch

LEMMA PushesLoop == Solves(Pushes, Batch, PushesStop, PushesStep, PushesOut)
<1>1. PushesStep \in [Batch \ PushesStop -> Batch]
  BY NextPushType DEF PushesStep, PushesStop
<1>2. PICK g : Solves(g, Batch, PushesStop, PushesStep, PushesOut)
  <2>1. PushesOut \in [Batch -> Seq(Nodes)]
    BY DEF PushesOut, Batch
  <2> QED BY <1>1, <2>1, TailCall
<1>3. \A b \in Batch : g[b] = IF b.nodes = <<>> THEN b.heap ELSE g[NextPush(b)]
  BY <1>2 DEF Solves, PushesStop, PushesStep, PushesOut
<1>4. g = [b \in Batch |-> IF b.nodes = <<>> THEN b.heap ELSE g[NextPush(b)]]
  BY <1>2, <1>3 DEF Solves
<1>5. Pushes = [b \in Batch |-> IF b.nodes = <<>> THEN b.heap ELSE Pushes[NextPush(b)]]
  BY <1>4 DEF Pushes, NextPush, Batch
<1>6. \A b \in Batch : Pushes[b] = IF b \in PushesStop THEN PushesOut[b] ELSE Pushes[PushesStep[b]]
  BY <1>5 DEF PushesStop, PushesStep, PushesOut
<1>7. Pushes = [b \in Batch |-> Pushes[b]]
  BY <1>5
<1> QED BY <1>6, <1>7 DEF Solves

(***************************************************************************)
(* Between two pushes: the rest is still to come, and the first root stays *)
(* unless one of the nodes has a strictly higher priority.                 *)
(***************************************************************************)
Pushing(b, h, ns) ==
    /\ b \in Batch /\ IsHeap(b.heap) /\ Distinct(b.nodes)
    /\ ToSet(b.nodes) \cap ToSet(b.heap) = {} /\ ToSet(b.nodes) \subseteq ToSet(ns)
    /\ ToSet(b.heap) \cup ToSet(b.nodes) = ToSet(h) \cup ToSet(ns)
    /\ h # <<>> => /\ b.heap # <<>>
                   /\ (\A n \in ToSet(ns) : Prio[n] <= Prio[h[1]]) => b.heap[1] = h[1]

LEMMA PushingGoesOn ==
    ASSUME NEW h, NEW ns, NEW b, Pushing(b, h, ns), b.nodes # <<>>
    PROVE  Pushing(NextPush(b), h, ns)
<1>1. PICK s, r, n : s = b.heap /\ r = b.nodes /\ n = Head(b.nodes)
  OBVIOUS
<1>2. /\ b \in Batch /\ r \in Seq(Nodes) /\ r # <<>> /\ n \in Nodes /\ IsHeap(s) /\ s \in Seq(Nodes)
      /\ Len(r) \in Nat /\ NextPush(b) \in Batch
  BY <1>1, NextPushType DEF Pushing, Batch
<1>3. /\ n = r[1] /\ Tail(r) \in Seq(Nodes) /\ Len(Tail(r)) = Len(r) - 1 /\ Len(r) > 0
      /\ \A i \in 1..Len(Tail(r)) : Tail(r)[i] = r[i + 1]
  BY <1>1, <1>2, HeadTailProperties, EmptySeq
<1>4. \A x : /\ x \in ToSet(r) <=> \E i \in 1..Len(r) : r[i] = x
             /\ x \in ToSet(Tail(r)) <=> \E i \in 1..Len(Tail(r)) : Tail(r)[i] = x
  BY <1>2, <1>3, Elements
<1>5. /\ Distinct(r) /\ ToSet(r) \cap ToSet(s) = {} /\ ToSet(r) \subseteq ToSet(ns)
      /\ ToSet(s) \cup ToSet(r) = ToSet(h) \cup ToSet(ns)
  BY <1>1 DEF Pushing
<1>6. n \in ToSet(r)
  BY <1>2, <1>3, <1>4
<1>7. Distinct(Tail(r)) /\ n \notin ToSet(Tail(r)) /\ ToSet(r) = ToSet(Tail(r)) \cup {n}
  <2>1. \A i \in 1..Len(Tail(r)) : i \in Nat /\ i + 1 \in 1..Len(r) /\ i + 1 # 1
    BY <1>2, <1>3
  <2>2. \A i \in 1..Len(r) : i = 1 \/ (i - 1 \in 1..Len(Tail(r)) /\ (i - 1) + 1 = i)
    BY <1>2, <1>3
  <2>3. Distinct(Tail(r))
    BY <1>3, <1>5, <2>1 DEF Distinct
  <2>4. n \notin ToSet(Tail(r))
    <3>1. 1 \in 1..Len(r)
      BY <1>2, <1>3
    <3> QED BY <1>3, <1>4, <1>5, <2>1, <3>1 DEF Distinct
  <2>5. \A x \in ToSet(Tail(r)) : x \in ToSet(r)
    BY <1>3, <1>4, <2>1
  <2>6. \A x \in ToSet(r) : x = n \/ x \in ToSet(Tail(r))
    BY <1>3, <1>4, <2>2
  <2> QED BY <1>6, <2>3, <2>4, <2>5, <2>6
<1>8. n \in Nodes \ ToSet(s)
  BY <1>2, <1>5, <1>6
<1>9. PICK t : t = HeapPush(s, n)
  OBVIOUS
<1>10. /\ IsHeap(t) /\ ToSet(t) = ToSet(s) \cup {n}
       /\ Len(t) = Len(s) + 1
       /\ s # <<>> /\ Prio[n] <= Prio[s[1]] => t[1] = s[1]
  BY <1>2, <1>8, <1>9, PushCorrect
<1>11. t # <<>>
  <2>1. Len(s) \in Nat
    BY <1>2, LenProperties
  <2>2. Len(t) # 0
    BY <1>10, <2>1
  <2> QED BY <2>2, EmptySeq
<1>12. ASSUME h # <<>>, \A x \in ToSet(ns) : Prio[x] <= Prio[h[1]] PROVE t[1] = h[1]
  <2>1. s # <<>> /\ s[1] = h[1]
    BY <1>1, <1>12 DEF Pushing
  <2> QED BY <1>5, <1>6, <1>10, <1>12, <2>1
<1>13. NextPush(b).heap = t /\ NextPush(b).nodes = Tail(r)
  BY <1>1, <1>9 DEF NextPush
<1> QED BY <1>2, <1>5, <1>7, <1>10, <1>11, <1>12, <1>13 DEF Pushing

(***************************************************************************)
(* Enqueue adds its arguments, and changes the root only for a higher one. *)
(***************************************************************************)
LEMMA PushesCorrect ==
    ASSUME NEW h, IsHeap(h), NEW ns \in Seq(Nodes), Distinct(ns), ToSet(ns) \cap ToSet(h) = {},
           NEW t, t = Pushes[[heap |-> h, nodes |-> ns]]
    PROVE  /\ IsHeap(t) /\ ToSet(t) = ToSet(h) \cup ToSet(ns)
           /\ h # <<>> => /\ t # <<>>
                          /\ (\A n \in ToSet(ns) : Prio[n] <= Prio[h[1]]) => t[1] = h[1]
<1>1. PICK p : p = [heap |-> h, nodes |-> ns]
  OBVIOUS
<1>2. PICK I : I = {b \in Batch : Pushing(b, h, ns)}
  OBVIOUS
<1>3. PICK m : m = [b \in Batch |-> Len(b.nodes)]
  OBVIOUS
<1>4. p \in I
  <2>1. p \in Batch
    BY <1>1 DEF Batch, IsHeap
  <2> QED BY <1>1, <1>2, <2>1 DEF Pushing
<1>5. I \in SUBSET Batch /\ m \in [Batch -> Nat]
  BY <1>2, <1>3, LenProperties DEF Batch
<1>6. \A b \in I \ PushesStop : PushesStep[b] \in I /\ m[PushesStep[b]] < m[b]
  <2> SUFFICES ASSUME NEW b \in Batch, Pushing(b, h, ns), b.nodes # <<>>
               PROVE  /\ Pushing(NextPush(b), h, ns) /\ NextPush(b) \in Batch
                      /\ Len(NextPush(b).nodes) < Len(b.nodes)
    BY <1>2, <1>3 DEF PushesStop, PushesStep
  <2> QED BY PushingGoesOn, NextPushType
<1>7. PICK b \in I \cap PushesStop : Pushes[p] = PushesOut[b]
  BY <1>4, <1>5, <1>6, PushesLoop, LoopEnds
<1>8. b \in Batch /\ Pushing(b, h, ns) /\ b.nodes = <<>> /\ t = b.heap
  BY <1>1, <1>2, <1>7 DEF PushesStop, PushesOut
<1>9. ToSet(b.nodes) = {}
  <2>1. Len(b.nodes) = 0 /\ b.nodes \in Seq(Nodes)
    BY <1>8, EmptySeq DEF Batch
  <2> QED BY <2>1, Elements
<1> QED BY <1>8, <1>9 DEF Pushing

-----------------------------------------------------------------------------
(***************************************************************************)
(* down: the child it looks at has the highest priority of the two.        *)
(***************************************************************************)
DownOut  == [p \in Place |-> p.heap]
DownStop == {p \in Place : ~Sinks(p)}
DownStep == [p \in Place \ DownStop |-> Move(p, FirstChild(p))]

LEMMA FirstIsLargest ==
    ASSUME NEW p \in Place, Sinks(p), NEW c, c = FirstChild(p)
    PROVE  /\ p \in InHeap /\ p.at \in 1..Len(p.heap) /\ c \in 2..Len(p.heap)
           /\ c \div 2 = p.at /\ p.at < c /\ Prio[p.heap[c]] > Prio[p.heap[p.at]]
           /\ \A i \in 2..Len(p.heap) : i \div 2 = p.at => Prio[p.heap[i]] <= Prio[p.heap[c]]
<1>1. PICK s, k : s = p.heap /\ k = p.at
  OBVIOUS
<1>2. /\ s \in Seq(Nodes) /\ Len(s) \in Nat /\ k \in Nat /\ k > 0 /\ 2 * k <= Len(s)
      /\ Prio[s[c]] > Prio[s[k]]
  BY <1>1, LenProperties DEF Sinks, Less, Place
<1>3. c = IF 2 * k < Len(s) /\ Prio[s[2 * k + 1]] > Prio[s[2 * k]] THEN 2 * k + 1 ELSE 2 * k
  BY <1>1 DEF FirstChild, Less
<1>4. k \in 1..Len(s) /\ c \in 2..Len(s) /\ c \div 2 = k /\ k < c
  BY <1>2, <1>3
<1>5. \A i \in 1..Len(s) : Prio[s[i]] \in Int
  BY <1>2, Elements, Priorities
<1>6. ASSUME NEW i \in 2..Len(s), i \div 2 = k PROVE Prio[s[i]] <= Prio[s[c]]
  <2>1. i \in 1..Len(s) /\ c \in 1..Len(s) /\ (i = 2 * k \/ i = 2 * k + 1)
    BY <1>2, <1>4, <1>6, SMTT(30)
  <2>2. Prio[s[i]] \in Int /\ Prio[s[c]] \in Int
    BY <1>5, <2>1
  <2>3. CASE i = 2 * k
    BY <1>3, <2>2, <2>3
  <2>4. CASE i = 2 * k + 1
    <3>1. 2 * k < Len(s) /\ 2 * k \in 1..Len(s)
      BY <1>2, <2>1, <2>4
    <3>2. Prio[s[2 * k]] \in Int
      BY <1>5, <3>1
    <3> QED BY <1>3, <2>2, <2>4, <3>1, <3>2
  <2> QED BY <2>1, <2>3, <2>4
<1>7. p \in InHeap
  BY <1>1, <1>4 DEF InHeap
<1> QED BY <1>1, <1>2, <1>4, <1>6, <1>7

LEMMA DownMoves ==
    ASSUME NEW p \in Place, Sinks(p)
    PROVE  /\ Move(p, FirstChild(p)) \in Place
           /\ Len(Move(p, FirstChild(p)).heap) = Len(p.heap)
           /\ p.at < Move(p, FirstChild(p)).at /\ Move(p, FirstChild(p)).at <= Len(p.heap)
<1>1. PICK c : c = FirstChild(p)
  OBVIOUS
<1>2. /\ p \in InHeap /\ c \in 1..Len(p.heap) /\ p.at \in 1..Len(p.heap)
      /\ p.at < c /\ c <= Len(p.heap)
  BY <1>1, FirstIsLargest
<1>3. p.heap \in Seq(Nodes)
  BY DEF Place
<1>4. Move(p, c) \in Place /\ Move(p, c).heap = Swap(p.heap, p.at, c) /\ Move(p, c).at = c
  BY <1>2, Moved
<1>5. Len(Swap(p.heap, p.at, c)) = Len(p.heap)
  BY <1>2, <1>3, Swapped
<1> QED BY <1>1, <1>2, <1>4, <1>5

LEMMA DownLoop == Solves(Down, Place, DownStop, DownStep, DownOut)
<1>1. DownStep \in [Place \ DownStop -> Place]
  BY DownMoves DEF DownStep, DownStop
<1>2. PICK g : Solves(g, Place, DownStop, DownStep, DownOut)
  <2>1. DownOut \in [Place -> Seq(Nodes)]
    BY DEF DownOut, Place
  <2> QED BY <1>1, <2>1, TailCall
<1>3. \A p \in Place : g[p] = IF Sinks(p) THEN g[Move(p, FirstChild(p))] ELSE p.heap
  BY <1>2 DEF Solves, DownStop, DownStep, DownOut
<1>4. g = [p \in Place |-> IF Sinks(p) THEN g[Move(p, FirstChild(p))] ELSE p.heap]
  BY <1>2, <1>3 DEF Solves
<1>5. Down = [p \in Place |-> IF Sinks(p) THEN Down[Move(p, FirstChild(p))] ELSE p.heap]
  BY <1>4 DEF Down
<1>6. \A p \in Place : Down[p] = IF p \in DownStop THEN DownOut[p] ELSE Down[DownStep[p]]
  BY <1>5 DEF DownStop, DownStep, DownOut
<1>7. Down = [p \in Place |-> Down[p]]
  BY <1>5
<1> QED BY <1>6, <1>7 DEF Solves

(***************************************************************************)
(* While the last element of h sinks: only its children may be above its   *)
(* priority, and they are not above its parent's.                          *)
(***************************************************************************)
Sinking(p, h) ==
    /\ p \in Place /\ Len(p.heap) = Len(h) - 1
    /\ Distinct(p.heap) /\ ToSet(p.heap) = ToSet(h) \ {h[1]}
    /\ \A i \in 2..Len(p.heap) : i \div 2 # p.at => Prio[p.heap[i]] <= Prio[p.heap[i \div 2]]
    /\ \A i \in 2..Len(p.heap) :
          i \div 2 = p.at /\ p.at > 1 => Prio[p.heap[i]] <= Prio[p.heap[p.at \div 2]]

LEMMA SinkingStarts ==
    ASSUME NEW h, IsHeap(h), h # <<>>
    PROVE  Sinking([heap |-> Front(Swap(h, 1, Len(h))), at |-> 1], h)
<1>1. h \in Seq(Nodes) /\ Len(h) \in Nat /\ Len(h) > 0
  BY LenProperties, EmptySeq DEF IsHeap
<1>2. PICK L : L = Len(h)
  OBVIOUS
<1>3. L \in Nat /\ 1 \in 1..L /\ L \in 1..L
  BY <1>1, <1>2
<1>4. PICK s : s = Swap(h, 1, L)
  OBVIOUS
<1>5. /\ s \in Seq(Nodes) /\ Len(s) = L /\ s[1] = h[L] /\ s[L] = h[1]
      /\ \A k \in 1..L : k # 1 /\ k # L => s[k] = h[k]
      /\ ToSet(s) = ToSet(h) /\ (Distinct(h) => Distinct(s))
  BY <1>1, <1>2, <1>3, <1>4, Swapped, ZenonT(60)
<1>6. PICK t : t = Front(s)
  OBVIOUS
<1>7. t \in Seq(Nodes) /\ Len(t) = L - 1 /\ \A i \in 1..L - 1 : t[i] = s[i]
  <2>1. t = SubSeq(s, 1, L - 1)
    BY <1>5, <1>6 DEF Front
  <2> QED BY <1>3, <1>5, <2>1, SubSeqProperties
<1>8. Distinct(t)
  <2>1. \A i \in 1..Len(t) : i \in 1..L - 1 /\ i \in 1..L
    BY <1>3, <1>7
  <2> QED BY <1>5, <1>7, <2>1 DEF Distinct, IsHeap
<1>9. ToSet(t) = ToSet(h) \ {h[1]}
  <2>1. \A x : x \in ToSet(t) <=> \E i \in 1..Len(t) : t[i] = x
    BY <1>7, Elements
  <2>2. \A x : x \in ToSet(s) <=> \E i \in 1..Len(s) : s[i] = x
    BY <1>5, Elements
  <2>3. \A i \in 1..L : i \in 1..L - 1 \/ i = L
    BY <1>3
  <2>4. \A i \in 1..L - 1 : i \in 1..L /\ i # L
    BY <1>3
  <2>5. \A i \in 1..L - 1 : s[i] # s[L]
    BY <1>3, <1>5, <2>4 DEF Distinct, IsHeap
  <2>6. \A x \in ToSet(t) : x \in ToSet(s) /\ x # s[L]
    BY <1>5, <1>7, <2>1, <2>2, <2>4, <2>5
  <2>7. \A x \in ToSet(s) : x # s[L] => x \in ToSet(t)
    BY <1>5, <1>7, <2>1, <2>2, <2>3
  <2> QED BY <1>5, <2>6, <2>7
<1>10. ASSUME NEW i \in 2..Len(t), i \div 2 # 1 PROVE Prio[t[i]] <= Prio[t[i \div 2]]
  <2>1. /\ i \in 1..L - 1 /\ i \in 2..Len(h) /\ i \in 1..L /\ i # 1 /\ i # L
        /\ i \div 2 \in 1..L - 1 /\ i \div 2 \in 1..L /\ i \div 2 # L
    BY <1>2, <1>3, <1>7, Halves
  <2>2. t[i] = h[i] /\ t[i \div 2] = h[i \div 2]
    BY <1>5, <1>7, <1>10, <2>1
  <2> QED BY <2>1, <2>2 DEF IsHeap, Ordered
<1>11. PICK p : p = [heap |-> t, at |-> 1]
  OBVIOUS
<1>12. p \in Place
  BY <1>7, <1>11 DEF Place
<1>13. Sinking(p, h)
  BY <1>2, <1>7, <1>8, <1>9, <1>10, <1>11, <1>12 DEF Sinking
<1> QED BY <1>2, <1>4, <1>6, <1>11, <1>13

LEMMA SinkingGoesOn ==
    ASSUME NEW h, NEW p, Sinking(p, h), Sinks(p)
    PROVE  Sinking(Move(p, FirstChild(p)), h)
<1>1. PICK s, k, c : s = p.heap /\ k = p.at /\ c = FirstChild(p)
  OBVIOUS
<1>2. p \in Place /\ s \in Seq(Nodes) /\ Len(s) \in Nat
  BY <1>1, LenProperties DEF Sinking, Place
<1>3. /\ p \in InHeap /\ k \in 1..Len(s) /\ c \in 2..Len(s) /\ c \div 2 = k /\ k < c
      /\ Prio[s[c]] > Prio[s[k]]
      /\ \A i \in 2..Len(s) : i \div 2 = k => Prio[s[i]] <= Prio[s[c]]
  BY <1>1, <1>2, FirstIsLargest
<1>4. PICK t : t = Swap(s, k, c)
  OBVIOUS
<1>5. PICK q : q = Move(p, c)
  OBVIOUS
<1>6. c \in 1..Len(s)
  BY <1>2, <1>3
<1>7. q \in Place /\ q.heap = t /\ q.at = c
  BY <1>1, <1>3, <1>4, <1>5, <1>6, Moved
<1>8. /\ t \in Seq(Nodes) /\ Len(t) = Len(s) /\ t[k] = s[c] /\ t[c] = s[k]
      /\ \A i \in 1..Len(s) : i # k /\ i # c => t[i] = s[i]
      /\ ToSet(t) = ToSet(s) /\ (Distinct(s) => Distinct(t))
  BY <1>2, <1>3, <1>4, <1>6, Swapped, ZenonT(60)
<1>9. \A i \in 1..Len(s) : Prio[s[i]] \in Int
  BY <1>2, Elements, Priorities
<1>10. /\ Len(s) = Len(h) - 1 /\ Distinct(s) /\ ToSet(s) = ToSet(h) \ {h[1]}
       /\ \A i \in 2..Len(s) : i \div 2 # k => Prio[s[i]] <= Prio[s[i \div 2]]
       /\ \A i \in 2..Len(s) : i \div 2 = k /\ k > 1 => Prio[s[i]] <= Prio[s[k \div 2]]
  BY <1>1 DEF Sinking
<1>11. \A i \in 2..Len(s) : /\ i \in Nat /\ i > 1 /\ i \in 1..Len(s)
                            /\ i \div 2 \in 1..Len(s) /\ i \div 2 < i
  BY <1>2, Halves
<1>12. ASSUME NEW i \in 2..Len(t), i \div 2 # c PROVE Prio[t[i]] <= Prio[t[i \div 2]]
  <2>0. i \in 2..Len(s) /\ i \in 1..Len(s) /\ i \div 2 \in 1..Len(s) /\ i \div 2 < i
    BY <1>8, <1>11
  <2>1. CASE i = c
    BY <1>3, <1>6, <1>8, <1>9, <2>1
  <2>2. CASE i # c /\ i = k
    <3>1. k > 1 /\ k \div 2 # k /\ i \div 2 # k
      BY <2>0, <2>2
    <3>2. Prio[s[c]] <= Prio[s[k \div 2]]
      BY <1>3, <1>10, <3>1
    <3> QED BY <1>8, <1>12, <2>0, <2>2, <3>1, <3>2
  <2>3. CASE i # c /\ i # k /\ i \div 2 = k
    BY <1>3, <1>8, <2>0, <2>3
  <2>4. CASE i # c /\ i # k /\ i \div 2 # k
    BY <1>8, <1>10, <1>12, <2>0, <2>4
  <2> QED BY <2>1, <2>2, <2>3, <2>4
<1>13. ASSUME NEW i \in 2..Len(t), i \div 2 = c PROVE Prio[t[i]] <= Prio[t[c \div 2]]
  <2>1. i \in 2..Len(s) /\ i \in 1..Len(s) /\ c < i /\ c # k /\ i # k /\ i # c
    BY <1>2, <1>3, <1>8, <1>11, <1>13
  <2>2. Prio[s[i]] <= Prio[s[c]]
    BY <1>10, <1>13, <2>1
  <2> QED BY <1>3, <1>8, <2>1, <2>2
<1>14. Len(t) = Len(h) - 1 /\ Distinct(t) /\ ToSet(t) = ToSet(h) \ {h[1]}
  BY <1>8, <1>10
<1> QED BY <1>1, <1>5, <1>7, <1>12, <1>13, <1>14 DEF Sinking

(***************************************************************************)
(* heap.Pop removes the root of a heap and leaves a heap.                  *)
(***************************************************************************)
LEMMA PopCorrect ==
    ASSUME NEW h, IsHeap(h), h # <<>>
    PROVE  IsHeap(HeapPop(h)) /\ ToSet(HeapPop(h)) = ToSet(h) \ {h[1]}
<1>1. PICK p : p = [heap |-> Front(Swap(h, 1, Len(h))), at |-> 1]
  OBVIOUS
<1>2. PICK I : I = {q \in Place : Sinking(q, h)}
  OBVIOUS
<1>3. PICK m : m = [q \in Place |-> IF q.at <= Len(q.heap) THEN Len(q.heap) - q.at ELSE 0]
  OBVIOUS
<1>4. p \in I
  BY <1>1, <1>2, SinkingStarts DEF Sinking
<1>5. I \in SUBSET Place /\ m \in [Place -> Nat]
  <2>1. \A q \in Place : q.at \in Nat /\ Len(q.heap) \in Nat
    BY LenProperties DEF Place
  <2>2. \A q \in Place : (IF q.at <= Len(q.heap) THEN Len(q.heap) - q.at ELSE 0) \in Nat
    BY <2>1
  <2> QED BY <1>2, <1>3, <2>2
<1>6. \A q \in I \ DownStop : DownStep[q] \in I /\ m[DownStep[q]] < m[q]
  <2> SUFFICES ASSUME NEW q \in Place, Sinking(q, h), Sinks(q), NEW r, r = Move(q, FirstChild(q))
               PROVE  Sinking(r, h) /\ r \in Place /\ m[r] < m[q]
    BY <1>2 DEF DownStop, DownStep
  <2>1. Sinking(r, h)
    BY SinkingGoesOn
  <2>2. r \in Place /\ Len(r.heap) = Len(q.heap) /\ q.at < r.at /\ r.at <= Len(q.heap)
    BY DownMoves
  <2>3. q.at \in Nat /\ r.at \in Nat /\ Len(q.heap) \in Nat
    BY <2>2, LenProperties DEF Place
  <2>4. m[q] = Len(q.heap) - q.at
    BY <1>3, <2>2, <2>3
  <2>5. m[r] = Len(q.heap) - r.at
    BY <1>3, <2>2, <2>3
  <2> QED BY <2>1, <2>2, <2>3, <2>4, <2>5
<1>7. PICK q \in I \cap DownStop : Down[p] = DownOut[q]
  BY <1>4, <1>5, <1>6, DownLoop, LoopEnds
<1>8. q \in Place /\ Sinking(q, h) /\ ~Sinks(q) /\ HeapPop(h) = q.heap
  BY <1>1, <1>2, <1>7 DEF DownStop, DownOut, HeapPop
<1>9. PICK s, k : s = q.heap /\ k = q.at
  OBVIOUS
<1>10. s \in Seq(Nodes) /\ Len(s) \in Nat /\ k \in Nat /\ k > 0
  BY <1>8, <1>9, LenProperties DEF Place
<1>11. \A i \in 1..Len(s) : Prio[s[i]] \in Int
  BY <1>10, Elements, Priorities
<1>12. Ordered(s)
  <2> SUFFICES ASSUME NEW i \in 2..Len(s) PROVE Prio[s[i]] <= Prio[s[i \div 2]]
    BY DEF Ordered
  <2>1. CASE i \div 2 # k
    BY <1>8, <1>9, <2>1 DEF Sinking
  <2>2. CASE i \div 2 = k
    <3>1. i \in 1..Len(s) /\ k \in 1..Len(s) /\ (i = 2 * k \/ i = 2 * k + 1) /\ 2 * k \in 1..Len(s)
      BY <1>10, <2>2
    <3>2. PICK c : c = FirstChild(q)
      OBVIOUS
    <3>3. c = IF 2 * k < Len(s) /\ Prio[s[2 * k + 1]] > Prio[s[2 * k]] THEN 2 * k + 1 ELSE 2 * k
      BY <1>9, <3>2 DEF FirstChild, Less
    <3>4. c \in 1..Len(s) /\ 2 * k <= Len(s)
      BY <1>10, <3>1, <3>3
    <3>5. ~(Prio[s[c]] > Prio[s[k]])
      BY <1>8, <1>9, <3>2, <3>4 DEF Sinks, Less
    <3>6. Prio[s[i]] \in Int /\ Prio[s[k]] \in Int /\ Prio[s[c]] \in Int /\ Prio[s[2 * k]] \in Int
      BY <1>11, <3>1, <3>4
    <3>7. CASE i = 2 * k
      BY <2>2, <3>3, <3>5, <3>6, <3>7, SMTT(30)
    <3>8. CASE i = 2 * k + 1
      <4>1. 2 * k < Len(s)
        BY <1>10, <3>1, <3>8
      <4>2. Prio[s[i]] <= Prio[s[c]]
        <5>1. CASE Prio[s[2 * k + 1]] > Prio[s[2 * k]]
          BY <3>3, <3>6, <3>8, <4>1, <5>1
        <5>2. CASE ~(Prio[s[2 * k + 1]] > Prio[s[2 * k]])
          BY <3>3, <3>6, <3>8, <4>1, <5>2
        <5> QED BY <5>1, <5>2
      <4> QED BY <2>2, <3>5, <3>6, <4>2, SMTT(30)
    <3> QED BY <3>1, <3>7, <3>8
  <2> QED BY <2>1, <2>2
<1> QED BY <1>8, <1>9, <1>10, <1>12 DEF Sinking, IsHeap

-----------------------------------------------------------------------------
(***************************************************************************)
(* The steps of the scheduler.  The arguments of an Enqueue are distinct   *)
(* nodes that are not in the heap.                                         *)
(***************************************************************************)
LEMMA Arguments ==
    ASSUME NEW S \in SUBSET Nodes, NEW ns \in SetToSeqs(S)
    PROVE  ns \in Seq(Nodes) /\ Distinct(ns) /\ ToSet(ns) \subseteq S
<1>1. PICK c : c = Cardinality(S)
  OBVIOUS
<1>2. c \in Nat
  <2>1. 1 \in Int /\ N \in Int
    BY Priorities
  <2>2. IsFiniteSet(Nodes)
    BY <2>1, FS_Interval DEF Nodes
  <2>3. IsFiniteSet(S)
    BY <2>2, FS_Subset
  <2> QED BY <1>1, <2>3, FS_CardinalityType
<1>3. ns \in [1..c -> S] /\ \A i, j \in 1..c : i # j => ns[i] # ns[j]
  BY <1>1 DEF SetToSeqs
<1>4. ns \in Seq(S) /\ Len(ns) = c
  BY <1>2, <1>3, IsASeq, LenProperties
<1>5. ns \in Seq(Nodes)
  BY <1>4
<1>6. \A x : x \in ToSet(ns) <=> \E i \in 1..Len(ns) : ns[i] = x
  BY <1>5, Elements
<1> QED BY <1>3, <1>4, <1>5, <1>6 DEF Distinct

LEMMA InitIsHeap == Init => IsHeap(heap) /\ ToSet(heap) = {}
<1> SUFFICES ASSUME Init PROVE IsHeap(heap) /\ ToSet(heap) = {}
  OBVIOUS
<1>1. heap \in Seq(Nodes) /\ Len(heap) = 0
  BY EmptySeq DEF Init
<1>2. ToSet(heap) = {}
  <2>1. \A x : x \in ToSet(heap) <=> \E i \in 1..Len(heap) : heap[i] = x
    BY <1>1, Elements
  <2> QED BY <1>1, <2>1
<1> QED BY <1>1, <1>2 DEF IsHeap, Distinct, Ordered

LEMMA EnqueueKeepsHeap ==
    ASSUME IsHeap(heap), NEW S \in SUBSET (Nodes \ ToSet(heap)), NEW ns \in SetToSeqs(S),
           Enqueue(ns)
    PROVE  /\ IsHeap(heap') /\ ToSet(heap') = ToSet(heap) \cup ToSet(ns) /\ ToSet(ns) \subseteq S
           /\ heap # <<>> => /\ heap' # <<>>
                             /\ (\A n \in ToSet(ns) : Prio[n] <= Prio[heap[1]])
                                => heap'[1] = heap[1]
<1>1. ns \in Seq(Nodes) /\ Distinct(ns) /\ ToSet(ns) \subseteq S
  BY Arguments
<1>2. ToSet(ns) \cap ToSet(heap) = {}
  BY <1>1
<1>3. heap' = Pushes[[heap |-> heap, nodes |-> ns]]
  BY DEF Enqueue
<1> QED BY <1>1, <1>2, <1>3, PushesCorrect

LEMMA DequeueKeepsHeap ==
    ASSUME IsHeap(heap), Dequeue
    PROVE  /\ heap # <<>> /\ IsHeap(heap') /\ ToSet(heap') = ToSet(heap) \ {heap[1]}
BY PopCorrect DEF Dequeue

(***************************************************************************)
(* At every step of every run the slice is a heap of distinct nodes        *)
(* (scheduler.go:29-41, 51-68).                                            *)
(***************************************************************************)
THEOREM HeapOrdered == Spec => []HeapOrder
<1>1. Init => HeapOrder
  BY InitIsHeap DEF HeapOrder, IsHeap, Distinct, Ordered
<1>2. HeapOrder /\ [Next]_heap => HeapOrder'
  <2> SUFFICES ASSUME IsHeap(heap), [Next]_heap PROVE IsHeap(heap')
    BY DEF HeapOrder, IsHeap, Distinct, Ordered
  <2>1. ASSUME NEW S \in SUBSET (Nodes \ ToSet(heap)), NEW ns \in SetToSeqs(S), Enqueue(ns)
        PROVE  IsHeap(heap')
    BY <2>1, EnqueueKeepsHeap
  <2>2. CASE Dequeue
    BY <2>2, DequeueKeepsHeap
  <2>3. CASE UNCHANGED heap
    BY <2>3
  <2> QED BY <2>1, <2>2, <2>3 DEF Next
<1> QED BY <1>1, <1>2, PTL DEF Spec

(***************************************************************************)
(* The heap implements the queue the event loop is modelled with           *)
(* (scheduler.go:34-52): a tie never displaces the root, and what Dequeue  *)
(* leaves at the root is one of the highest that remain.                   *)
(***************************************************************************)
LEMMA RootOf ==
    ASSUME NEW h, IsHeap(h)
    PROVE  /\ h = <<>> <=> ToSet(h) = {}
           /\ h # <<>> => h[1] \in Queue!Top(ToSet(h)) /\ h[1] \in Nodes
<1>1. h \in Seq(Nodes) /\ (h = <<>> => Len(h) = 0)
  BY EmptySeq DEF IsHeap
<1>2. h = <<>> => ToSet(h) = {}
  <2>1. \A x : x \in ToSet(h) <=> \E i \in 1..Len(h) : h[i] = x
    BY <1>1, Elements
  <2> QED BY <1>1, <2>1
<1>3. h # <<>> => h[1] \in ToSet(h) /\ \A n \in ToSet(h) : Prio[n] <= Prio[h[1]]
  BY RootIsTop
<1>4. ToSet(h) \subseteq Nodes
  BY <1>1, Elements
<1> QED BY <1>2, <1>3, <1>4 DEF Queue!Top

THEOREM QueueImplemented == Spec => ImplementsQueue
<1>1. Init => Queue!QueueInit
  BY InitIsHeap DEF Init, Queue!QueueInit, Peek, NoNode, Queue!NoNode
<1>2. HeapOrder /\ [Next]_heap => [Queue!QueueNext]_<<ToSet(heap), Peek>>
  <2> SUFFICES ASSUME IsHeap(heap), [Next]_heap
               PROVE  Queue!QueueNext \/ UNCHANGED <<ToSet(heap), Peek>>
    BY DEF HeapOrder, IsHeap, Distinct, Ordered
  <2>0. /\ heap = <<>> <=> ToSet(heap) = {}
        /\ heap # <<>> => heap[1] \in Queue!Top(ToSet(heap)) /\ heap[1] \in Nodes
        /\ heap # <<>> => Peek = heap[1]
        /\ heap = <<>> => Peek = Queue!NoNode
        /\ Peek = Queue!NoNode => heap = <<>>
    BY RootOf, Priorities DEF Peek, NoNode, Queue!NoNode
  <2>1. ASSUME NEW S \in SUBSET (Nodes \ ToSet(heap)), NEW ns \in SetToSeqs(S), Enqueue(ns)
        PROVE  Queue!QueueNext
    <3>1. PICK A : A = ToSet(ns)
      OBVIOUS
    <3>2. /\ IsHeap(heap') /\ ToSet(heap') = ToSet(heap) \cup A /\ A \subseteq S
          /\ heap # <<>> => /\ heap' # <<>>
                            /\ (\A n \in A : Prio[n] <= Prio[heap[1]]) => heap'[1] = heap[1]
      BY <2>1, <3>1, EnqueueKeepsHeap
    <3>3. /\ heap' = <<>> <=> ToSet(heap') = {}
          /\ heap' # <<>> => heap'[1] \in Queue!Top(ToSet(heap')) /\ heap'[1] \in Nodes
      BY <3>2, RootOf
    <3>4. Peek' = IF heap' = <<>> THEN Queue!NoNode ELSE heap'[1]
      BY DEF Peek, NoNode, Queue!NoNode
    <3>5. A \in SUBSET (Queue!Nodes \ ToSet(heap))
      BY <2>1, <3>2 DEF Nodes, Queue!Nodes
    <3>6. Peek' \in Queue!RootAfterPush(A)
      <4>1. CASE heap = <<>>
        <5>1. ToSet(heap') = A
          BY <2>0, <3>2, <4>1
        <5> QED BY <2>0, <3>3, <3>4, <4>1, <5>1 DEF Queue!RootAfterPush
      <4>2. CASE heap # <<>> /\ \A n \in A : Prio[n] <= Prio[heap[1]]
        <5>1. Peek' = heap[1]
          BY <3>2, <3>4, <4>2
        <5> QED BY <2>0, <4>2, <5>1 DEF Queue!RootAfterPush
      <4>3. CASE heap # <<>> /\ ~\A n \in A : Prio[n] <= Prio[heap[1]]
        <5>1. PICK n \in A : ~(Prio[n] <= Prio[heap[1]])
          BY <4>3
        <5>2. Peek' = heap'[1] /\ heap'[1] \in Queue!Top(ToSet(heap) \cup A)
          BY <3>2, <3>3, <3>4, <4>3
        <5>3. n \in Nodes /\ \A m \in ToSet(heap) : m \in Nodes /\ Prio[m] <= Prio[heap[1]]
          BY <2>0, <2>1, <3>2, <4>3, Elements DEF Queue!Top, IsHeap
        <5>4. Prio[n] \in Int /\ Prio[heap[1]] \in Int /\ \A m \in ToSet(heap) : Prio[m] \in Int
          BY <2>0, <4>3, <5>3, Priorities
        <5>5. heap'[1] \notin ToSet(heap)
          <6> SUFFICES ASSUME heap'[1] \in ToSet(heap) PROVE FALSE
            OBVIOUS
          <6>1. Prio[n] <= Prio[heap'[1]] /\ Prio[heap'[1]] <= Prio[heap[1]] /\ Prio[heap'[1]] \in Int
            BY <5>1, <5>2, <5>3, <5>4 DEF Queue!Top
          <6> QED BY <5>1, <5>4, <6>1
        <5>6. heap'[1] \in Queue!Top(A)
          BY <5>2, <5>5 DEF Queue!Top
        <5> QED BY <2>0, <4>3, <5>2, <5>6 DEF Queue!RootAfterPush
      <4> QED BY <4>1, <4>2, <4>3
    <3>7. Queue!Enqueue(A)
      BY <3>2, <3>6 DEF Queue!Enqueue
    <3> QED BY <3>5, <3>7 DEF Queue!QueueNext
  <2>2. CASE Dequeue
    <3>1. heap # <<>> /\ IsHeap(heap') /\ ToSet(heap') = ToSet(heap) \ {heap[1]}
      BY <2>2, DequeueKeepsHeap
    <3>2. Peek = heap[1] /\ Peek # Queue!NoNode
      BY <2>0, <3>1
    <3>3. /\ heap' = <<>> <=> ToSet(heap') = {}
          /\ heap' # <<>> => heap'[1] \in Queue!Top(ToSet(heap'))
      BY <3>1, RootOf
    <3>4. Peek' = IF heap' = <<>> THEN Queue!NoNode ELSE heap'[1]
      BY DEF Peek, NoNode, Queue!NoNode
    <3>5. heap[1] \in ToSet(heap)
      BY <2>0, <3>1 DEF Queue!Top
    <3>6. Peek' \in Queue!RootAfterPop
      <4>1. CASE ToSet(heap) = {Peek}
        <5>1. Peek' = Queue!NoNode
          BY <3>1, <3>2, <3>3, <3>4, <4>1
        <5> QED BY <4>1, <5>1 DEF Queue!RootAfterPop
      <4>2. CASE ToSet(heap) # {Peek}
        <5>1. heap' # <<>>
          BY <3>1, <3>2, <3>3, <3>5, <4>2
        <5>2. Peek' \in Queue!Top(ToSet(heap) \ {Peek})
          BY <3>1, <3>2, <3>3, <3>4, <5>1
        <5> QED BY <4>2, <5>2 DEF Queue!RootAfterPop
      <4> QED BY <4>1, <4>2
    <3>7. Queue!Dequeue
      BY <3>1, <3>2, <3>6 DEF Queue!Dequeue
    <3> QED BY <3>2, <3>7 DEF Queue!QueueNext
  <2>3. CASE UNCHANGED heap
    BY <2>3 DEF Peek
  <2> QED BY <2>1, <2>2, <2>3 DEF Next
<1>3. Spec => []HeapOrder
  BY HeapOrdered
<1> QED BY <1>1, <1>2, <1>3, PTL DEF Spec, ImplementsQueue, Queue!QueueSpec
================================================================================
