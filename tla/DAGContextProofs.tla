--------------------------- MODULE DAGContextProofs ---------------------------
(***************************************************************************)
(* Proofs about module DAGContext, for every set of goroutines, keys and   *)
(* values: the shards implement one map, and what the bulk operations may  *)
(* be relied on for.                                                       *)
(***************************************************************************)
EXTENDS DAGContext, Loops, FiniteSetTheorems, TLAPS

-----------------------------------------------------------------------------
(***************************************************************************)
(* The arithmetic of the index.  x & y is a number and at most y.          *)
(***************************************************************************)
AndOut  == [w \in Words |-> w.sum]
AndStop == {w \in Words : w.x = 0}
AndStep == [w \in Words \ AndStop |-> NextBit(w)]

LEMMA NextBitType == ASSUME NEW w \in Words PROVE NextBit(w) \in Words
BY DEF NextBit, Words

LEMMA AndLoop == Solves(AndFrom, Words, AndStop, AndStep, AndOut)
<1>1. AndStep \in [Words \ AndStop -> Words]
  BY NextBitType DEF AndStep
<1>2. PICK g : Solves(g, Words, AndStop, AndStep, AndOut)
  <2>1. AndOut \in [Words -> Nat]
    BY DEF AndOut, Words
  <2> QED BY <1>1, <2>1, TailCall
<1>3. \A w \in Words : g[w] = IF w.x = 0 THEN w.sum ELSE g[NextBit(w)]
  BY <1>2 DEF Solves, AndStop, AndStep, AndOut
<1>4. g = [w \in Words |-> IF w.x = 0 THEN w.sum ELSE g[NextBit(w)]]
  BY <1>2, <1>3 DEF Solves
<1>5. AndFrom = [w \in Words |-> IF w.x = 0 THEN w.sum ELSE AndFrom[NextBit(w)]]
  BY <1>4 DEF AndFrom
<1>6. \A w \in Words : AndFrom[w] = IF w \in AndStop THEN AndOut[w] ELSE AndFrom[AndStep[w]]
  BY <1>5 DEF AndStop, AndStep, AndOut
<1>7. AndFrom = [w \in Words |-> AndFrom[w]]
  BY <1>5
<1> QED BY <1>6, <1>7 DEF Solves

LEMMA SplitBit ==
    ASSUME NEW b \in Nat, NEW y \in Nat
    PROVE  (2 * b) * (y \div 2) + (IF y % 2 = 1 THEN b ELSE 0) = b * y
<1>1. PICK z : z = y \div 2
  OBVIOUS
<1>2. z \in Nat /\ y = 2 * z + (y % 2) /\ (y % 2 = 0 \/ y % 2 = 1)
  BY <1>1
<1>3. CASE y % 2 = 1
  <2>1. (2 * b) * z + b = b * (2 * z + 1) /\ y = 2 * z + 1
    BY <1>2, <1>3
  <2> QED BY <1>1, <1>3, <2>1
<1>4. CASE y % 2 = 0
  <2>1. (2 * b) * z = b * (2 * z) /\ b * (2 * z) \in Nat /\ y = 2 * z
    BY <1>2, <1>4
  <2> QED BY <1>1, <1>4, <2>1
<1> QED BY <1>2, <1>3, <1>4

LEMMA AndBounded == ASSUME NEW x \in Nat, NEW y \in Nat PROVE And(x, y) \in Nat /\ And(x, y) <= y
<1>1. PICK w : w = [x |-> x, y |-> y, bit |-> 1, sum |-> 0]
  OBVIOUS
<1>2. PICK I : I = {v \in Words : v.sum + v.bit * v.y <= y}
  OBVIOUS
<1>3. PICK m : m = [v \in Words |-> v.x]
  OBVIOUS
<1>4. w \in I /\ I \in SUBSET Words /\ m \in [Words -> Nat]
  BY <1>1, <1>2, <1>3 DEF Words
<1>5. \A v \in I \ AndStop : AndStep[v] \in I /\ m[AndStep[v]] < m[v]
  <2> SUFFICES ASSUME NEW v \in Words, v.sum + v.bit * v.y <= y, v.x # 0
               PROVE  /\ NextBit(v).sum + NextBit(v).bit * NextBit(v).y <= y
                      /\ NextBit(v).x < v.x
    BY <1>2, <1>3, NextBitType DEF AndStop, AndStep
  <2>1. PICK b, z, s : b = v.bit /\ z = v.y /\ s = v.sum
    OBVIOUS
  <2>2. b \in Nat /\ z \in Nat /\ s \in Nat /\ v.x \in Nat
    BY <2>1 DEF Words
  <2>3. v.x \div 2 < v.x
    BY <2>2
  <2>4. PICK q : q = (2 * b) * (z \div 2)
    OBVIOUS
  <2>5. q \in Nat /\ q + (IF z % 2 = 1 THEN b ELSE 0) = b * z
    BY <2>2, <2>4, SplitBit
  <2>6. PICK r : r = b * z
    OBVIOUS
  <2>7. s + r <= y
    BY <2>1, <2>6
  <2>8. q + (IF z % 2 = 1 THEN b ELSE 0) = r
    BY <2>5, <2>6
  <2>9. NextBit(v).sum <= s + (IF z % 2 = 1 THEN b ELSE 0) /\ NextBit(v).sum \in Nat
    BY <2>1, <2>2 DEF NextBit
  <2>10. NextBit(v).sum + q <= y
    BY <2>2, <2>5, <2>7, <2>8, <2>9
  <2> QED BY <2>1, <2>3, <2>4, <2>10 DEF NextBit
<1>6. PICK v \in I \cap AndStop : AndFrom[w] = AndOut[v]
  BY <1>4, <1>5, AndLoop, LoopEnds
<1>7. v \in Words /\ v.sum + v.bit * v.y <= y /\ And(x, y) = v.sum
  BY <1>1, <1>2, <1>6 DEF AndOut, And
<1>8. v.sum \in Nat /\ v.bit * v.y \in Nat
  BY <1>7 DEF Words
<1> QED BY <1>7, <1>8

LEMMA SmearType == ASSUME NEW x \in Nat, NEW d \in Nat \ {0} PROVE Smear(x, d) \in Nat
<1>1. PICK y : y = x \div d
  OBVIOUS
<1>2. y \in Nat
  BY <1>1
<1>3. And(x, y) \in Nat /\ And(x, y) <= y
  BY <1>2, AndBounded
<1> QED BY <1>1, <1>2, <1>3 DEF Smear, Or

(***************************************************************************)
(* Whatever the option and the number of CPUs, there is a shard, and the   *)
(* index of a key names one.                                               *)
(***************************************************************************)
LEMMA ShardExists ==
    ASSUME NEW request \in Requests, NEW cpus \in CPUs PROVE ShardCount(request, cpus) \in Nat \ {0}
<1>1. request \in Int /\ cpus * 4 \in Nat
  BY ContextAssumption DEF ContextAssumption
<1>2. ASSUME NEW x \in Nat, x > 1 PROVE roundupPow2(x) \in Nat \ {0}
  <2>1. PICK a : a = Smear(x - 1, 2)
    OBVIOUS
  <2>2. PICK b : b = Smear(a, 4)
    OBVIOUS
  <2>3. PICK c : c = Smear(b, 16)
    OBVIOUS
  <2>4. PICK d : d = Smear(c, 256)
    OBVIOUS
  <2>5. x - 1 \in Nat
    BY <1>2
  <2>6. a \in Nat
    BY <2>1, <2>5, SmearType
  <2>7. b \in Nat
    BY <2>2, <2>6, SmearType
  <2>8. c \in Nat
    BY <2>3, <2>7, SmearType
  <2>9. d \in Nat
    BY <2>4, <2>8, SmearType
  <2>10. Smear(d, 65536) \in Nat
    BY <2>9, SmearType
  <2>11. roundupPow2(x) = Smear(d, 65536) + 1
    BY <1>2, <2>1, <2>2, <2>3, <2>4 DEF roundupPow2
  <2> QED BY <2>10, <2>11
<1>3. cpus * 4 <= 1 => roundupPow2(cpus * 4) = 1
  BY DEF roundupPow2
<1>4. roundupPow2(cpus * 4) \in Nat \ {0}
  BY <1>1, <1>2, <1>3
<1> QED BY <1>1, <1>4 DEF ShardCount

LEMMA IndexInRange ==
    ASSUME NEW c \in Nat \ {0}, NEW k \in Keys PROVE shardIndex(Hash[k], c) \in 0..(c - 1)
<1>1. Hash[k] \in Nat /\ c - 1 \in Nat
  BY ContextAssumption DEF ContextAssumption
<1>2. And(Hash[k], c - 1) \in 0..(c - 1)
  BY <1>1, AndBounded
<1>3. Hash[k] % c \in 0..(c - 1)
  BY <1>1
<1> QED BY <1>2, <1>3 DEF shardIndex

-----------------------------------------------------------------------------
(***************************************************************************)
(* A key is present exactly if its own shard holds it.                     *)
(***************************************************************************)
LEMMA PresentByValue ==
    ASSUME TypeOK
    PROVE  /\ Present = {k \in Keys : Value(k) # None}
           /\ \A s \in 0..(count - 1) : Held(s) = {k \in Present : home[k] = s}
<1>1. DOMAIN shards = 0..(count - 1)
  BY DEF TypeOK
<1>2. \A k \in Keys : home[k] \in 0..(count - 1)
  BY DEF TypeOK
<1>3. \A s \in 0..(count - 1), k \in Keys : k \in Held(s) <=> home[k] = s /\ Value(k) # None
  BY DEF TypeOK, Held, Value
<1>4. Present = {k \in Keys : Value(k) # None}
  BY <1>1, <1>2, <1>3 DEF Present, Held
<1>5. \A s \in 0..(count - 1) : Held(s) \subseteq Keys
  BY DEF Held
<1> QED BY <1>3, <1>4, <1>5

LEMMA InitType == ASSUME Init PROVE TypeOK
<1>1. PICK request \in Requests, cpus \in CPUs : count = ShardCount(request, cpus)
  BY DEF Init
<1>2. count \in Nat \ {0} /\ \A k \in Keys : shardIndex(Hash[k], count) \in 0..(count - 1)
  BY <1>1, ShardExists, IndexInRange
<1>3. home \in [Keys -> 0..(count - 1)]
  BY <1>2 DEF Init
<1>4. /\ shards \in [0..(count - 1) -> [Keys -> Vals \cup {None}]]
      /\ \A s \in 0..(count - 1) : Held(s) = {}
  BY DEF Init, Held
<1>5. /\ op \in [Procs -> {"none", "Keys", "Len", "Reset"}] /\ at \in [Procs -> 0..count]
      /\ found \in [Procs -> SUBSET Keys] /\ n \in [Procs -> Nat]
      /\ out \in Vals \cup {None, "panic", "mismatch"}
      /\ always \in [Procs -> SUBSET Keys] /\ ever \in [Procs -> SUBSET Keys]
  BY <1>2 DEF Init
<1> QED BY <1>2, <1>3, <1>4, <1>5 DEF TypeOK

(***************************************************************************)
(* What a write and the visit of a Reset do to the map.                    *)
(***************************************************************************)
LEMMA SetWrites ==
    ASSUME TypeOK, NEW p \in Procs, NEW k \in Keys, NEW v \in Vals, Set(p, k, v)
    PROVE  /\ shards' \in [0..(count - 1) -> [Keys -> Vals \cup {None}]]
           /\ \A s \in 0..(count - 1), j \in Keys :
                  shards'[s][j] = IF s = home[k] /\ j = k THEN v ELSE shards[s][j]
           /\ \A j \in Keys : Value(j)' = IF j = k THEN v ELSE Value(j)
<1>1. home[k] \in 0..(count - 1) /\ home' = home
  BY DEF TypeOK, Set
<1>2. shards' = [shards EXCEPT ![home[k]][k] = v]
  BY DEF Set
<1>3. shards' \in [0..(count - 1) -> [Keys -> Vals \cup {None}]]
  BY <1>1, <1>2 DEF TypeOK
<1>4. \A s \in 0..(count - 1), j \in Keys :
          shards'[s][j] = IF s = home[k] /\ j = k THEN v ELSE shards[s][j]
  BY <1>1, <1>2 DEF TypeOK
<1>5. \A j \in Keys : Value(j)' = IF j = k THEN v ELSE Value(j)
  BY <1>1, <1>4 DEF Value, TypeOK
<1> QED BY <1>3, <1>4, <1>5

LEMMA ResetClears ==
    ASSUME TypeOK, NEW p \in Procs, VisitReset(p)
    PROVE  /\ at[p] \in 0..(count - 1)
           /\ shards' \in [0..(count - 1) -> [Keys -> Vals \cup {None}]]
           /\ \A s \in 0..(count - 1), j \in Keys :
                  shards'[s][j] = IF s = at[p] THEN None ELSE shards[s][j]
           /\ \A j \in Keys : Value(j)' = IF home[j] = at[p] THEN None ELSE Value(j)
<1>1. at[p] \in 0..(count - 1) /\ home' = home
  BY DEF TypeOK, VisitReset, Visits
<1>2. shards' = [shards EXCEPT ![at[p]] = [k \in Keys |-> None]]
  BY DEF VisitReset
<1>3. shards' \in [0..(count - 1) -> [Keys -> Vals \cup {None}]]
  BY <1>1, <1>2 DEF TypeOK
<1>4. \A s \in 0..(count - 1), j \in Keys :
          shards'[s][j] = IF s = at[p] THEN None ELSE shards[s][j]
  BY <1>1, <1>2 DEF TypeOK
<1>5. \A j \in Keys : Value(j)' = IF home[j] = at[p] THEN None ELSE Value(j)
  BY <1>1, <1>4 DEF Value, TypeOK
<1> QED BY <1>1, <1>3, <1>4, <1>5

(***************************************************************************)
(* Steps that touch no shard.                                              *)
(***************************************************************************)
LEMMA SameStore ==
    ASSUME UNCHANGED store
    PROVE  /\ Present' = Present /\ \A s : Held(s)' = Held(s)
           /\ \A k : Value(k)' = Value(k)
BY DEF store, Present, Held, Value

-----------------------------------------------------------------------------
LEMMA StepType == ASSUME TypeOK, [Next]_vars PROVE TypeOK'
<1>0. count \in Nat \ {0} /\ Present \subseteq Keys
  BY PresentByValue DEF TypeOK
<1>1. ASSUME NEW p \in Procs, NEW k \in Keys, NEW v \in Vals, Set(p, k, v) PROVE TypeOK'
  <2>1. /\ shards' \in [0..(count - 1) -> [Keys -> Vals \cup {None}]]
        /\ \A s \in 0..(count - 1), j \in Keys :
                  shards'[s][j] = IF s = home[k] /\ j = k THEN v ELSE shards[s][j]
    BY <1>1, SetWrites
  <2>2. \A s \in 0..(count - 1) : \A j \in Held(s)' : home[j] = s
    BY <2>1, SMTT(30) DEF Held, TypeOK
  <2>3. ever' \in [Procs -> SUBSET Keys]
    BY <1>1 DEF Set, TypeOK
  <2> QED BY <1>1, <2>1, <2>2, <2>3 DEF Set, TypeOK, bulk
<1>2. ASSUME NEW p \in Procs, NEW k \in Keys,
             \/ Get(p, k) \/ MustGet(p, k) \/ \E v \in Vals : GetTyped(p, k, TypeOf[v])
      PROVE  TypeOK'
  <2>1. Value(k) \in Vals \cup {None}
    BY DEF Value, TypeOK
  <2>2. out' \in Vals \cup {None, "panic", "mismatch"} /\ UNCHANGED <<store, bulk, history>>
    BY <1>2, <2>1 DEF Get, MustGet, GetTyped, Returns
  <2> QED BY <2>2, SameStore DEF TypeOK, store, bulk, history
<1>3. ASSUME NEW p \in Procs, NEW name \in Calls[p], Begin(p, name) PROVE TypeOK'
  <2>1. name \in {"Keys", "Len", "Reset"}
    BY ContextAssumption DEF ContextAssumption
  <2>2. always' \in [Procs -> SUBSET Keys]
    BY <1>0, <1>3 DEF Begin, TypeOK
  <2>3. ever' \in [Procs -> SUBSET Keys]
    BY <1>3, <2>2 DEF Begin, TypeOK
  <2>4. op' \in [Procs -> {"none", "Keys", "Len", "Reset"}]
    BY <1>3, <2>1 DEF Begin, TypeOK
  <2> QED BY <1>3, <2>2, <2>3, <2>4, SameStore DEF Begin, TypeOK, store
<1>4. ASSUME NEW p \in Procs, VisitKeys(p) PROVE TypeOK'
  <2>1. at' \in [Procs -> 0..count]
    BY <1>0, <1>4 DEF VisitKeys, Visits, TypeOK
  <2>2. found' \in [Procs -> SUBSET Keys]
    BY <1>4 DEF VisitKeys, TypeOK, Held
  <2> QED BY <1>4, <2>1, <2>2, SameStore DEF VisitKeys, TypeOK, store, history
<1>5. ASSUME NEW p \in Procs, VisitLen(p) PROVE TypeOK'
  <2>1. at' \in [Procs -> 0..count]
    BY <1>0, <1>5 DEF VisitLen, Visits, TypeOK
  <2>2. Cardinality(Held(at[p])) \in Nat
    <3>1. Held(at[p]) \subseteq Keys
      BY DEF Held
    <3> QED BY <3>1, ContextAssumption, FS_Subset, FS_CardinalityType DEF ContextAssumption
  <2>3. n' \in [Procs -> Nat]
    BY <1>5, <2>2 DEF VisitLen, TypeOK
  <2> QED BY <1>5, <2>1, <2>3, SameStore DEF VisitLen, TypeOK, store, history
<1>6. ASSUME NEW p \in Procs, VisitReset(p) PROVE TypeOK'
  <2>1. at' \in [Procs -> 0..count]
    BY <1>0, <1>6 DEF VisitReset, Visits, TypeOK
  <2>2. /\ shards' \in [0..(count - 1) -> [Keys -> Vals \cup {None}]]
        /\ \A s \in 0..(count - 1), j \in Keys :
                  shards'[s][j] = IF s = at[p] THEN None ELSE shards[s][j]
    BY <1>6, ResetClears
  <2>3. \A s \in 0..(count - 1) : \A j \in Held(s)' : home[j] = s
    BY <2>2 DEF Held, TypeOK
  <2>4. always' \in [Procs -> SUBSET Keys]
    BY <1>6 DEF VisitReset, TypeOK
  <2> QED BY <1>6, <2>1, <2>2, <2>3, <2>4 DEF VisitReset, TypeOK
<1>7. ASSUME NEW p \in Procs, End(p) PROVE TypeOK'
  BY <1>0, <1>7, SameStore DEF End, TypeOK, store
<1>8. CASE UNCHANGED vars
  BY <1>8, SameStore DEF vars, store, bulk, history, TypeOK
<1> QED BY <1>1, <1>2, <1>3, <1>4, <1>5, <1>6, <1>7, <1>8 DEF Next, Single, Bulk

-----------------------------------------------------------------------------
(***************************************************************************)
(* How far a bulk operation is: what it may be relied on for, of the shards*)
(* it has visited.                                                         *)
(***************************************************************************)
Visited(p, K) == {k \in K : home[k] < at[p]}

Progress(p) ==
    /\ always[p] \subseteq Present
    /\ op[p] \in {"Keys", "Len"} => Present \subseteq ever[p]
    /\ op[p] = "Keys" => Visited(p, always[p]) \subseteq found[p] /\ found[p] \subseteq ever[p]
    /\ op[p] = "Len" => /\ Cardinality(Visited(p, always[p])) <= n[p]
                        /\ n[p] <= Cardinality(Visited(p, ever[p]))
    /\ op[p] = "Reset" => Visited(p, Present) \subseteq ever[p]
    /\ Idle(p) => at[p] = 0 /\ found[p] = {} /\ n[p] = 0

IndInv == TypeOK /\ \A p \in Procs : Progress(p)

LEMMA KeysFinite ==
    ASSUME NEW S \in SUBSET Keys
    PROVE  /\ IsFiniteSet(S) /\ Cardinality(S) \in Nat
           /\ \A T \in SUBSET S : IsFiniteSet(T) /\ Cardinality(T) <= Cardinality(S)
BY ContextAssumption, FS_Subset, FS_CardinalityType DEF ContextAssumption

LEMMA InitIndInv == ASSUME Init PROVE IndInv
<1>1. TypeOK
  BY InitType
<1>2. Present = {}
  BY <1>1, PresentByValue DEF Init, Value, TypeOK
<1> QED BY <1>1, <1>2 DEF IndInv, Progress, Idle, Init

(***************************************************************************)
(* What another goroutine's step leaves of an operation in progress: it may*)
(* take keys from always and add keys to ever.                             *)
(***************************************************************************)
LEMMA Bystander ==
    ASSUME TypeOK, TypeOK', NEW q \in Procs, Progress(q), home' = home,
           op'[q] = op[q], at'[q] = at[q], found'[q] = found[q], n'[q] = n[q],
           always'[q] \subseteq always[q], always'[q] \subseteq Present',
           ~Idle(q) => ever[q] \subseteq ever'[q],
           op[q] \in {"Keys", "Len"} => Present' \subseteq ever'[q],
           op[q] = "Reset" => Present' \subseteq Present \cup ever'[q]
    PROVE  Progress(q)'
<1>1. /\ always[q] \in SUBSET Keys /\ ever'[q] \in SUBSET Keys
      /\ at[q] \in Int /\ n[q] \in Nat /\ \A k \in Keys : home[k] \in Int
  BY DEF TypeOK
<1>2. ASSUME op[q] = "Len"
      PROVE  /\ Cardinality(Visited(q, always[q])') <= n[q]
             /\ n[q] <= Cardinality(Visited(q, ever[q])')
  <2>1. Visited(q, always[q])' \subseteq Visited(q, always[q])
    BY DEF Visited
  <2>2. Visited(q, ever[q]) \subseteq Visited(q, ever[q])'
    BY <1>2 DEF Visited, Idle
  <2>3. Visited(q, always[q]) \in SUBSET Keys /\ Visited(q, ever[q])' \in SUBSET Keys
    BY <1>1 DEF Visited
  <2>4. /\ Cardinality(Visited(q, always[q])') <= Cardinality(Visited(q, always[q]))
        /\ Cardinality(Visited(q, ever[q])) <= Cardinality(Visited(q, ever[q])')
    BY <2>1, <2>2, <2>3, KeysFinite
  <2>5. /\ Visited(q, always[q])' \in SUBSET Keys /\ Visited(q, ever[q]) \in SUBSET Keys
    BY <2>1, <2>2, <2>3
  <2>6. /\ Cardinality(Visited(q, always[q])') \in Nat /\ Cardinality(Visited(q, always[q])) \in Nat
        /\ Cardinality(Visited(q, ever[q])) \in Nat /\ Cardinality(Visited(q, ever[q])') \in Nat
    BY <2>3, <2>5, KeysFinite
  <2>7. Cardinality(Visited(q, always[q])) <= n[q] /\ n[q] <= Cardinality(Visited(q, ever[q]))
    BY <1>2 DEF Progress
  <2> QED BY <1>1, <2>4, <2>6, <2>7
<1>3. op[q] = "Keys" => Visited(q, always[q])' \subseteq found[q] /\ found[q] \subseteq ever'[q]
  BY DEF Progress, Visited, Idle
<1>4. op[q] = "Reset" => Visited(q, Present)' \subseteq ever'[q]
  BY DEF Progress, Visited, Idle
<1> QED BY <1>2, <1>3, <1>4 DEF Progress, Idle

(***************************************************************************)
(* The visit of a Len: between the counts there is what the shard holds.   *)
(***************************************************************************)
LEMMA LenCounts ==
    ASSUME NEW A \in SUBSET Keys, NEW B \in SUBSET Keys, NEW H \in SUBSET Keys,
           A \cap H = {}, B \cap H = {}, NEW C \in SUBSET (A \cup H), NEW D, D = B \cup H,
           NEW m \in Nat, Cardinality(A) <= m, m <= Cardinality(B)
    PROVE  /\ Cardinality(C) <= m + Cardinality(H)
           /\ m + Cardinality(H) <= Cardinality(D)
<1>1. /\ Cardinality(A \cup H) = Cardinality(A) + Cardinality(H)
      /\ Cardinality(B \cup H) = Cardinality(B) + Cardinality(H)
  <2>1. Cardinality(A \cap H) = 0 /\ Cardinality(B \cap H) = 0
    BY FS_EmptySet
  <2>2. /\ Cardinality(A \cup H) = Cardinality(A) + Cardinality(H) - Cardinality(A \cap H)
        /\ Cardinality(B \cup H) = Cardinality(B) + Cardinality(H) - Cardinality(B \cap H)
    BY KeysFinite, FS_Union
  <2>3. Cardinality(A) \in Nat /\ Cardinality(B) \in Nat /\ Cardinality(H) \in Nat
    BY KeysFinite
  <2> QED BY <2>1, <2>2, <2>3
<1>2. Cardinality(C) <= Cardinality(A \cup H)
  BY KeysFinite
<1>3. /\ Cardinality(A) \in Nat /\ Cardinality(B) \in Nat /\ Cardinality(H) \in Nat
      /\ Cardinality(C) \in Nat /\ Cardinality(D) \in Nat
  BY KeysFinite
<1> QED BY <1>1, <1>2, <1>3

LEMMA StepIndInv == ASSUME IndInv, [Next]_vars PROVE IndInv'
<1>0. TypeOK /\ TypeOK' /\ \A q \in Procs : Progress(q)
  BY StepType DEF IndInv
<1> SUFFICES ASSUME NEW q \in Procs PROVE Progress(q)'
  BY <1>0 DEF IndInv
<1>a. /\ Present = {k \in Keys : Value(k) # None}
      /\ Present' = {k \in Keys : Value(k)' # None}
      /\ \A s \in 0..(count - 1) : Held(s) = {k \in Present : home[k] = s}
  <2>1. /\ DOMAIN shards' = 0..(count' - 1) /\ \A k \in Keys : home'[k] \in 0..(count' - 1)
        /\ \A s \in 0..(count' - 1), k \in Keys :
               k \in Held(s)' <=> home'[k] = s /\ Value(k)' # None
    BY <1>0 DEF TypeOK, Held, Value
  <2>2. Present' = {k \in Keys : Value(k)' # None}
    BY <2>1 DEF Present, Held
  <2> QED BY <1>0, <2>2, PresentByValue
<1>1. ASSUME NEW p \in Procs, NEW k \in Keys, NEW v \in Vals, Set(p, k, v) PROVE Progress(q)'
  <2>1. Present' = Present \cup {k}
    BY <1>0, <1>1, <1>a, SetWrites, ContextAssumption DEF ContextAssumption
  <2>2. /\ UNCHANGED <<home, op, at, found, n, always>>
        /\ ever'[q] = IF Idle(q) THEN {} ELSE ever[q] \cup {k}
    BY <1>1 DEF Set, bulk
  <2>3. always'[q] \subseteq Present'
    BY <1>0, <2>1, <2>2 DEF Progress
  <2>4. op[q] \in {"Keys", "Len"} => Present' \subseteq ever'[q]
    BY <1>0, <2>1, <2>2 DEF Progress, Idle
  <2>5. op[q] = "Reset" => Present' \subseteq Present \cup ever'[q]
    BY <2>1, <2>2 DEF Idle
  <2> QED BY <1>0, <2>2, <2>3, <2>4, <2>5, Bystander
<1>2. CASE UNCHANGED <<store, bulk, history>>
  BY <1>0, <1>2, SameStore DEF store, bulk, history, Progress, Visited, Idle
<1>3. ASSUME UNCHANGED store, op'[q] = op[q], at'[q] = at[q], found'[q] = found[q],
             n'[q] = n[q], always'[q] = always[q], ever'[q] = ever[q]
      PROVE  Progress(q)'
  BY <1>0, <1>3, SameStore DEF store, Progress, Visited, Idle
<1>4. ASSUME NEW p \in Procs, NEW name \in Calls[p], Begin(p, name) PROVE Progress(q)'
  <2>1. CASE q # p
    BY <1>0, <1>3, <1>4, <2>1 DEF Begin, TypeOK
  <2>2. CASE q = p
    <3>1. name \in {"Keys", "Len", "Reset"}
      BY ContextAssumption DEF ContextAssumption
    <3>2. /\ Idle(q) /\ op'[q] = name /\ home' = home /\ Present' = Present
          /\ at'[q] = 0 /\ found'[q] = {} /\ n'[q] = 0
      BY <1>0, <1>4, <2>2, SameStore DEF Begin, TypeOK, Progress, store
    <3>3. /\ always'[q] = IF name = "Reset" THEN {} ELSE Present
          /\ ever'[q] = always'[q]
      BY <1>0, <1>4, <2>2 DEF Begin, TypeOK
    <3>4. \A K \in SUBSET Keys : {k \in K : home'[k] < at'[q]} = {}
      BY <1>0, <3>2 DEF TypeOK
    <3>5. Present' \in SUBSET Keys /\ always'[q] \in SUBSET Keys /\ ever'[q] \in SUBSET Keys
      BY <1>0, <1>a DEF TypeOK
    <3>6. /\ Visited(q, always[q])' = {} /\ Visited(q, ever[q])' = {}
          /\ Visited(q, Present)' = {}
      BY <3>4, <3>5 DEF Visited
    <3>7. Cardinality({}) = 0
      BY FS_EmptySet
    <3> QED BY <3>1, <3>2, <3>3, <3>6, <3>7 DEF Progress, Idle
  <2> QED BY <2>1, <2>2
<1>5. ASSUME NEW p \in Procs, NEW name, Visits(p, name), UNCHANGED <<store, op, history>>,
             p # q => found'[q] = found[q] /\ n'[q] = n[q],
             p = q /\ name = "Keys" => found'[q] = found[q] \cup Held(at[q]),
             p = q /\ name = "Len" => n'[q] = n[q] + Cardinality(Held(at[q])),
             name \in {"Keys", "Len"}
      PROVE  Progress(q)'
  <2>1. CASE q # p
    BY <1>0, <1>3, <1>5, <2>1 DEF Visits, TypeOK, history
  <2>2. CASE q = p
    <3>1. /\ op[q] = name /\ op'[q] = name /\ home' = home /\ Present' = Present
          /\ at[q] \in 0..(count - 1) /\ at'[q] = at[q] + 1
          /\ always'[q] = always[q] /\ ever'[q] = ever[q]
      BY <1>0, <1>5, <2>2, SameStore DEF Visits, TypeOK, store, history
    <3>2. /\ Held(at[q]) = {k \in Present : home[k] = at[q]} /\ Held(at[q]) \in SUBSET Keys
          /\ \A k \in Keys : home[k] \in 0..(count - 1)
          /\ always[q] \in SUBSET Keys /\ ever[q] \in SUBSET Keys /\ n[q] \in Nat
      BY <1>0, <1>a, <3>1, SMTT(30) DEF TypeOK
    <3>3. always[q] \subseteq Present /\ Present \subseteq ever[q]
      BY <1>0, <1>5, <3>1 DEF Progress
    <3>4. Visited(q, always[q])' = Visited(q, always[q]) \cup {k \in always[q] : home[k] = at[q]}
      BY <3>1, <3>2 DEF Visited
    <3>5. Visited(q, ever[q])' = Visited(q, ever[q]) \cup {k \in ever[q] : home[k] = at[q]}
      BY <3>1, <3>2 DEF Visited
    <3>6. CASE name = "Keys"
      <4>1. found'[q] = found[q] \cup Held(at[q])
        BY <1>5, <2>2, <3>6
      <4>2. Visited(q, always[q])' \subseteq found'[q] /\ found'[q] \subseteq ever'[q]
        BY <1>0, <3>1, <3>2, <3>3, <3>4, <3>6, <4>1 DEF Progress
      <4> QED BY <3>1, <3>3, <3>6, <4>2 DEF Progress, Idle
    <3>7. CASE name = "Len"
      <4> DEFINE A == Visited(q, always[q])
                 E == Visited(q, ever[q])
                 H == Held(at[q])
      <4>1. n'[q] = n[q] + Cardinality(H)
        BY <1>5, <2>2, <3>7
      <4>2. Cardinality(A) <= n[q] /\ n[q] <= Cardinality(E)
        BY <1>0, <3>1, <3>7 DEF Progress
      <4>3. A \in SUBSET Keys /\ E \in SUBSET Keys /\ A \cap H = {} /\ E \cap H = {}
        BY <3>1, <3>2 DEF Visited
      <4>4. Visited(q, always[q])' \subseteq A \cup H
        BY <3>2, <3>3, <3>4
      <4>5. E \cup H \subseteq Visited(q, ever[q])' /\ Visited(q, ever[q])' \in SUBSET Keys
        BY <3>2, <3>3, <3>5, <4>3
      <4>6. H \in SUBSET Keys /\ E \cup H \in SUBSET Keys
        BY <3>2, <4>3
      <4> HIDE DEF A, E, H
      <4>7. /\ Cardinality(Visited(q, always[q])') <= n[q] + Cardinality(H)
            /\ n[q] + Cardinality(H) <= Cardinality(E \cup H)
        BY <3>2, <4>2, <4>3, <4>4, <4>6, LenCounts
      <4>8. Cardinality(E \cup H) <= Cardinality(Visited(q, ever[q])')
        BY <4>5, KeysFinite
      <4>9. /\ Cardinality(H) \in Nat /\ Cardinality(E \cup H) \in Nat
            /\ Cardinality(Visited(q, ever[q])') \in Nat
        BY <4>5, <4>6, KeysFinite
      <4>10. n'[q] <= Cardinality(Visited(q, ever[q])')
        BY <3>2, <4>1, <4>7, <4>8, <4>9
      <4>11. Cardinality(Visited(q, always[q])') <= n'[q]
        BY <4>1, <4>7
      <4> QED BY <3>1, <3>3, <3>7, <4>10, <4>11 DEF Progress, Idle
    <3> QED BY <1>5, <3>6, <3>7
  <2> QED BY <2>1, <2>2
<1>6. ASSUME NEW p \in Procs, VisitReset(p) PROVE Progress(q)'
  <2>1. /\ at[p] \in 0..(count - 1)
        /\ \A k \in Keys : Value(k)' = IF home[k] = at[p] THEN None ELSE Value(k)
    BY <1>0, <1>6, ResetClears
  <2>2. Present' = Present \ Held(at[p])
    BY <1>a, <2>1
  <2>3. /\ UNCHANGED <<home, op, found, n, ever>> /\ always'[q] = always[q] \ Held(at[p])
    BY <1>6 DEF VisitReset
  <2>4. always'[q] \subseteq Present'
    BY <1>0, <2>2, <2>3 DEF Progress
  <2>5. CASE q # p
    <3>1. at'[q] = at[q]
      BY <1>0, <1>6, <2>5 DEF VisitReset, Visits, TypeOK
    <3>2. op[q] \in {"Keys", "Len"} => Present' \subseteq ever'[q]
      BY <1>0, <2>2, <2>3 DEF Progress
    <3> QED BY <1>0, <2>2, <2>3, <2>4, <3>1, <3>2, Bystander
  <2>6. CASE q = p
    <3>1. op[q] = "Reset" /\ op'[q] = "Reset" /\ at'[q] = at[q] + 1
      BY <1>0, <1>6, <2>3, <2>6 DEF VisitReset, Visits, TypeOK
    <3>2. \A k \in Present' : home[k] \in Int /\ home[k] # at[q] /\ k \in Present
      BY <1>0, <1>a, <2>1, <2>2, <2>6 DEF TypeOK
    <3>3. Visited(q, Present)' \subseteq Visited(q, Present)
      BY <2>1, <2>3, <2>6, <3>1, <3>2 DEF Visited
    <3>4. Visited(q, Present)' \subseteq ever'[q]
      BY <1>0, <2>3, <3>1, <3>3 DEF Progress
    <3> QED BY <2>4, <3>1, <3>4 DEF Progress, Idle
  <2> QED BY <2>5, <2>6
<1>7. ASSUME NEW p \in Procs, End(p) PROVE Progress(q)'
  <2>1. CASE q # p
    BY <1>0, <1>3, <1>7, <2>1 DEF End, TypeOK
  <2>2. CASE q = p
    <3>1. /\ op'[q] = "none" /\ at'[q] = 0 /\ found'[q] = {} /\ n'[q] = 0 /\ always'[q] = {}
      BY <1>0, <1>7, <2>2 DEF End, TypeOK
    <3> QED BY <3>1 DEF Progress, Idle
  <2> QED BY <2>1, <2>2
<1>8. ASSUME NEW p \in Procs, VisitKeys(p) PROVE Progress(q)'
  BY <1>0, <1>5, <1>8 DEF VisitKeys, TypeOK
<1>9. ASSUME NEW p \in Procs, VisitLen(p) PROVE Progress(q)'
  BY <1>0, <1>5, <1>9 DEF VisitLen, TypeOK
<1>10. CASE UNCHANGED vars
  BY <1>2, <1>10 DEF vars, history
<1>11. ASSUME NEW p \in Procs, NEW k \in Keys,
              \/ Get(p, k) \/ MustGet(p, k) \/ \E v \in Vals : GetTyped(p, k, TypeOf[v])
       PROVE  Progress(q)'
  BY <1>2, <1>11 DEF Get, MustGet, GetTyped, Returns
<1> QED BY <1>1, <1>4, <1>6, <1>7, <1>8, <1>9, <1>10, <1>11 DEF Next, Single, Bulk

-----------------------------------------------------------------------------
(***************************************************************************)
(* The invariant that the first two theorems below are read off from.      *)
(***************************************************************************)
THEOREM ContextInductive == Spec => []IndInv
<1>1. Init => IndInv
  BY InitIndInv
<1>2. IndInv /\ [Next]_vars => IndInv'
  BY StepIndInv
<1> QED BY <1>1, <1>2, PTL DEF Spec

(***************************************************************************)
(* Every variable keeps its type, and a shard holds only keys of its own   *)
(* (dagcontext.go:54-98).                                                  *)
(***************************************************************************)
THEOREM TypeCorrect == Spec => []TypeOK
<1>1. IndInv => TypeOK
  BY DEF IndInv
<1> QED BY <1>1, ContextInductive, PTL

(***************************************************************************)
(* What Keys, Len and Reset may be relied on for, with any number of       *)
(* goroutines, keys and shards (dagcontext.go:116-150).                    *)
(***************************************************************************)
THEOREM BulkBounded == Spec => []BulkIsBounded
<1>1. IndInv => BulkIsBounded
  <2> SUFFICES ASSUME IndInv, NEW p \in Procs, at[p] = count
               PROVE  /\ op[p] = "Keys" => always[p] \subseteq found[p] /\ found[p] \subseteq ever[p]
                      /\ op[p] = "Len" => n[p] \in Cardinality(always[p])..Cardinality(ever[p])
                      /\ op[p] = "Reset" => Present \subseteq ever[p]
    BY DEF BulkIsBounded
  <2>1. TypeOK /\ Progress(p)
    BY DEF IndInv
  <2>2. \A k \in Keys : home[k] < at[p]
    BY <2>1 DEF TypeOK
  <2>3. \A K \in SUBSET Keys : Visited(p, K) = K
    BY <2>2 DEF Visited
  <2>4. always[p] \in SUBSET Keys /\ ever[p] \in SUBSET Keys /\ Present \in SUBSET Keys
        /\ n[p] \in Nat
    BY <2>1, PresentByValue DEF TypeOK
  <2>5. /\ Visited(p, always[p]) = always[p] /\ Visited(p, ever[p]) = ever[p]
        /\ Visited(p, Present) = Present
    BY <2>3, <2>4
  <2>6. Cardinality(always[p]) \in Nat /\ Cardinality(ever[p]) \in Nat
    BY <2>4, KeysFinite
  <2> QED BY <2>1, <2>4, <2>5, <2>6 DEF Progress
<1> QED BY <1>1, ContextInductive, PTL

-----------------------------------------------------------------------------
(***************************************************************************)
(* To single-key operations, whatever the number of shards and the hashes, *)
(* the context is one atomic map: every step of the shards is a step of    *)
(* ContextStore or changes nothing there (dagcontext.go:67-98, 152-168).   *)
(***************************************************************************)
THEOREM StoreImplemented == Spec => ImplementsStore
<1> DEFINE map == [k \in Keys |-> Value(k)]
<1>1. Init => Store!Init
  <2> SUFFICES ASSUME Init PROVE Store!Init
    OBVIOUS
  <2>1. TypeOK
    BY InitType
  <2>2. \A k \in Keys : Value(k) = None
    BY <2>1 DEF Init, Value, TypeOK
  <2> QED BY <2>2 DEF Init, Store!Init
<1>2. TypeOK /\ [Next]_vars => [Store!Next]_<<map, out>>
  <2> SUFFICES ASSUME TypeOK, [Next]_vars PROVE [Store!Next]_<<map, out>>
    OBVIOUS
  <2>1. ASSUME NEW p \in Procs, NEW k \in Keys, NEW v \in Vals, Set(p, k, v)
        PROVE  Store!Next
    <3>1. map' = [map EXCEPT ![k] = v]
      <4>1. \A j \in Keys : Value(j)' = IF j = k THEN v ELSE Value(j)
        BY <2>1, SetWrites
      <4>2. map' = [j \in Keys |-> IF j = k THEN v ELSE Value(j)]
        BY <4>1
      <4> QED BY <4>2
    <3>2. out' = out
      BY <2>1 DEF Set
    <3> QED BY <3>1, <3>2 DEF Store!Next, Store!Put
  <2>2. ASSUME NEW p \in Procs, NEW k \in Keys, NEW r, Returns(p, r),
               r \in IF Value(k) = None THEN {None, "panic"} ELSE {Value(k), "mismatch"}
        PROVE  Store!Next
    <3>1. map' = map
      BY <2>2, SameStore DEF Returns
    <3>2. out' = r /\ map[k] = Value(k)
      BY <2>2 DEF Returns
    <3> QED BY <2>2, <3>1, <3>2 DEF Store!Next, Store!Read
  <2>3. ASSUME NEW p \in Procs, NEW k \in Keys,
               \/ Get(p, k) \/ MustGet(p, k) \/ \E v \in Vals : GetTyped(p, k, TypeOf[v])
        PROVE  Store!Next
    BY <2>2, <2>3 DEF Get, MustGet, GetTyped
  <2>4. ASSUME NEW p \in Procs, VisitReset(p) PROVE Store!Next
    <3> DEFINE K == {k \in Keys : home[k] = at[p]}
    <3>1. map' = [k \in Keys |-> IF k \in K THEN None ELSE map[k]]
      BY <2>4, ResetClears
    <3>2. out' = out /\ K \in SUBSET Keys
      BY <2>4 DEF VisitReset
    <3> QED BY <3>1, <3>2 DEF Store!Next, Store!Remove
  <2>5. ASSUME UNCHANGED <<store, out>> PROVE UNCHANGED <<map, out>>
    BY <2>5, SameStore
  <2>6. ASSUME NEW p \in Procs, NEW name \in Calls[p], Begin(p, name) PROVE UNCHANGED <<store, out>>
    BY <2>6 DEF Begin
  <2>7. ASSUME NEW p \in Procs, VisitKeys(p) \/ VisitLen(p) \/ End(p)
        PROVE  UNCHANGED <<store, out>>
    BY <2>7 DEF VisitKeys, VisitLen, End
  <2>8. CASE UNCHANGED vars
    BY <2>5, <2>8 DEF vars
  <2> QED BY <2>1, <2>3, <2>4, <2>5, <2>6, <2>7, <2>8 DEF Next, Single, Bulk
<1>3. Spec => []TypeOK
  BY TypeCorrect
<1> QED BY <1>1, <1>2, <1>3, PTL DEF Spec, ImplementsStore, Store!Spec
=============================================================================
