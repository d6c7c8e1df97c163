---------------------------- MODULE DagGraphProofs ----------------------------
(***************************************************************************)
(* Proofs about module DagGraph: what Validate accepts, and how the sort   *)
(* and the layers of a graph are related, for every set of names and every *)
(* way to build the graph.                                                 *)
(***************************************************************************)
EXTENDS DagGraph, FiniteSetTheorems, SequenceTheorems, TLAPS

(***************************************************************************)
(* Occurrences in sequences.                                               *)
(***************************************************************************)
LEMMA PositionsFinite ==
    ASSUME NEW S, NEW s \in Seq(S), NEW P, P \subseteq 1..Len(s)
    PROVE  IsFiniteSet(P) /\ Cardinality(P) \in Nat /\ (Cardinality(P) = 0 <=> P = {})
<1>1. IsFiniteSet(1..Len(s))
  BY LenProperties, FS_Interval
<1>2. IsFiniteSet(P)
  BY <1>1, FS_Subset
<1> QED BY <1>2, FS_CardinalityType, FS_EmptySet

LEMMA CountType ==
    ASSUME NEW S, NEW s \in Seq(S), NEW x
    PROVE  /\ Count(s, x) \in Nat
           /\ Count(s, x) = 0 <=> \A i \in 1..Len(s) : s[i] # x
<1> DEFINE P == {i \in 1..Len(s) : s[i] = x}
<1>1. Cardinality(P) \in Nat /\ (Cardinality(P) = 0 <=> P = {})
  BY PositionsFinite
<1> QED BY <1>1 DEF Count

LEMMA CountConcat ==
    ASSUME NEW S, NEW s \in Seq(S), NEW t \in Seq(S), NEW x
    PROVE  Count(s \o t, x) = Count(s, x) + Count(t, x)
<1> DEFINE A == {i \in 1..Len(s) : s[i] = x}
           B == {i \in 1..Len(t) : t[i] = x}
           C == {i \in (Len(s) + 1)..(Len(s) + Len(t)) : t[i - Len(s)] = x}
           f == [i \in B |-> i + Len(s)]
<1>1. Len(s) \in Nat /\ Len(t) \in Nat
  BY LenProperties
<1>2. {i \in 1..Len(s \o t) : (s \o t)[i] = x} = A \cup C
  <2>1. Len(s \o t) = Len(s) + Len(t)
    BY ConcatProperties
  <2>2. \A i \in 1..(Len(s) + Len(t)) :
            (s \o t)[i] = IF i <= Len(s) THEN s[i] ELSE t[i - Len(s)]
    BY ConcatProperties
  <2> QED BY <1>1, <2>1, <2>2
<1>3. f \in Bijection(B, C)
  <2>1. f \in [B -> C]
    BY <1>1
  <2>2. \A i, j \in B : f[i] = f[j] => i = j
    BY <1>1
  <2>3. \A k \in C : \E i \in B : f[i] = k
    <3> SUFFICES ASSUME NEW k \in C PROVE \E i \in B : f[i] = k
      OBVIOUS
    <3>1. k - Len(s) \in B /\ f[k - Len(s)] = k
      BY <1>1
    <3> QED BY <3>1
  <2> HIDE DEF f, B, C
  <2>4. f \in Injection(B, C)
    BY <2>1, <2>2 DEF Injection, IsInjective
  <2>5. f \in Surjection(B, C)
    BY <2>1, <2>3 DEF Surjection
  <2> QED BY <2>4, <2>5 DEF Bijection
<1>4. /\ IsFiniteSet(A) /\ Cardinality(A) \in Nat
      /\ IsFiniteSet(B) /\ Cardinality(B) \in Nat
  BY PositionsFinite
<1>5. IsFiniteSet(C) /\ Cardinality(C) = Cardinality(B)
  BY <1>3, <1>4, FS_Bijection DEF ExistsBijection
<1>6. A \cap C = {}
  BY <1>1
<1> HIDE DEF A, B, C, f
<1>7. Cardinality(A \cap C) = 0
  BY <1>6, FS_EmptySet
<1>8. Cardinality(A \cup C) = Cardinality(A) + Cardinality(C) - Cardinality(A \cap C)
  BY <1>4, <1>5, FS_Union
<1>9. Cardinality(A \cup C) = Cardinality(A) + Cardinality(B)
  BY <1>4, <1>5, <1>7, <1>8
<1> QED BY <1>2, <1>9 DEF Count, A, B

LEMMA CountCopies ==
    ASSUME NEW S, NEW a \in S, NEW k \in Nat, NEW x
    PROVE  /\ [i \in 1..k |-> a] \in Seq(S)
           /\ Len([i \in 1..k |-> a]) = k
           /\ Count([i \in 1..k |-> a], x) = IF x = a THEN k ELSE 0
<1> DEFINE s == [i \in 1..k |-> a]
<1>1. s \in Seq(S) /\ Len(s) = k /\ \A i \in 1..k : s[i] = a
  OBVIOUS
<1> HIDE DEF s
<1>2. CASE x = a
  <2>1. {i \in 1..Len(s) : s[i] = x} = 1..k
    BY <1>1, <1>2
  <2>2. Cardinality(1..k) = k
    BY FS_Interval
  <2>3. Count(s, x) = k
    BY <2>1, <2>2 DEF Count
  <2> QED BY <1>1, <1>2, <2>3 DEF s
<1>3. CASE x # a
  <2>1. {i \in 1..Len(s) : s[i] = x} = {}
    BY <1>1, <1>3
  <2>2. Count(s, x) = 0
    BY <2>1, FS_EmptySet DEF Count
  <2> QED BY <1>1, <1>3, <2>2 DEF s
<1> QED BY <1>1, <1>2, <1>3 DEF s

LEMMA HeadAndTail ==
    ASSUME NEW S, NEW s \in Seq(S), s # <<>>
    PROVE  /\ Head(s) \in S /\ <<Head(s)>> \in Seq(S) /\ Tail(s) \in Seq(S)
           /\ s = <<Head(s)>> \o Tail(s)
<1>1. /\ Head(s) \in S /\ Tail(s) \in Seq(S)
      /\ Len(Tail(s)) = Len(s) - 1
      /\ \A i \in 1..Len(Tail(s)) : Tail(s)[i] = s[i + 1]
  BY HeadTailProperties
<1>2. Len(s) \in Nat /\ Head(s) = s[1]
  BY LenProperties
<1> DEFINE h == <<Head(s)>>
<1>3. h \in Seq(S) /\ Len(h) = 1 /\ h[1] = Head(s)
  BY <1>1
<1> HIDE DEF h
<1>4. /\ h \o Tail(s) \in Seq(S)
      /\ Len(h \o Tail(s)) = 1 + Len(Tail(s))
      /\ \A i \in 1..(1 + Len(Tail(s))) :
            (h \o Tail(s))[i] = IF i <= 1 THEN h[i] ELSE Tail(s)[i - 1]
  <2>1. h \in Seq(S) /\ Tail(s) \in Seq(S)
    BY <1>1, <1>3
  <2> QED BY <1>3, <2>1, ConcatProperties, SMTT(30)
<1>5. \A i \in 1..Len(s) : s[i] = (h \o Tail(s))[i]
  BY <1>1, <1>2, <1>3, <1>4
<1>6. s = h \o Tail(s)
  BY <1>1, <1>2, <1>4, <1>5, SeqEqual
<1> QED BY <1>1, <1>3, <1>6 DEF h

LEMMA CountTail ==
    ASSUME NEW S, NEW s \in Seq(S), s # <<>>, NEW x
    PROVE  /\ Count(Tail(s), x) = IF x = Head(s) THEN Count(s, x) - 1 ELSE Count(s, x)
           /\ Count(Tail(s), x) \in Nat
           /\ Count(s, x) \in Nat
<1>1. /\ Head(s) \in S /\ <<Head(s)>> \in Seq(S) /\ Tail(s) \in Seq(S)
      /\ s = <<Head(s)>> \o Tail(s)
  BY HeadAndTail
<1>2. <<Head(s)>> = [i \in 1..1 |-> Head(s)]
  OBVIOUS
<1>3. Count([i \in 1..1 |-> Head(s)], x) = IF x = Head(s) THEN 1 ELSE 0
  <2>1. \A k \in Nat : Count([i \in 1..k |-> Head(s)], x) = IF x = Head(s) THEN k ELSE 0
    BY <1>1, CountCopies
  <2> QED BY <2>1
<1>4. Count(<<Head(s)>> \o Tail(s), x) = Count(<<Head(s)>>, x) + Count(Tail(s), x)
  BY <1>1, CountConcat
<1>5. Count(Tail(s), x) \in Nat
  BY <1>1, CountType
<1>6. Count(s, x) = (IF x = Head(s) THEN 1 ELSE 0) + Count(Tail(s), x)
  BY <1>1, <1>2, <1>3, <1>4
<1> QED BY <1>5, <1>6

(***************************************************************************)
(* The elements of a sequence.                                             *)
(***************************************************************************)
LEMMA ElemsFacts ==
    ASSUME NEW S, NEW s \in Seq(S)
    PROVE  /\ Elems(s) \subseteq S
           /\ \A i \in 1..Len(s) : s[i] \in S /\ s[i] \in Elems(s)
           /\ \A x \in Elems(s) : \E i \in 1..Len(s) : s[i] = x
           /\ Len(s) \in Nat
<1>1. Len(s) \in Nat /\ \A i \in 1..Len(s) : s[i] \in S
  BY LenProperties, ElementOfSeq
<1> QED BY <1>1 DEF Elems

LEMMA ElemsAppend ==
    ASSUME NEW S, NEW s \in Seq(S), NEW x \in S
    PROVE  /\ Append(s, x) \in Seq(S)
           /\ Len(Append(s, x)) = Len(s) + 1
           /\ \A i \in 1..Len(s) : Append(s, x)[i] = s[i]
           /\ Append(s, x)[Len(s) + 1] = x
           /\ Elems(Append(s, x)) = Elems(s) \cup {x}
<1> DEFINE t == Append(s, x)
<1>1. /\ t \in Seq(S)
      /\ Len(t) = Len(s) + 1
      /\ \A i \in 1..Len(s) : t[i] = s[i]
      /\ t[Len(s) + 1] = x
      /\ Len(s) \in Nat
  BY LenProperties
<1> HIDE DEF t
<1>2. Elems(t) \subseteq Elems(s) \cup {x}
  BY <1>1 DEF Elems
<1>3. Elems(s) \subseteq Elems(t)
  <2> SUFFICES ASSUME NEW i \in 1..Len(s) PROVE s[i] \in Elems(t)
    BY DEF Elems
  <2>1. i \in 1..Len(t) /\ t[i] = s[i]
    BY <1>1
  <2> QED BY <2>1 DEF Elems
<1>4. x \in Elems(t)
  <2>1. Len(s) + 1 \in 1..Len(t)
    BY <1>1
  <2> QED BY <1>1, <2>1 DEF Elems
<1>5. t = Append(s, x)
  BY DEF t
<1> QED BY <1>1, <1>2, <1>3, <1>4, <1>5

LEMMA ElemsTail ==
    ASSUME NEW S, NEW s \in Seq(S), s # <<>>
    PROVE  /\ Head(s) \in S /\ Head(s) = s[1] /\ Head(s) \in Elems(s)
           /\ Tail(s) \in Seq(S)
           /\ Len(s) \in Nat \ {0} /\ Len(Tail(s)) = Len(s) - 1
           /\ \A i \in 1..Len(Tail(s)) : Tail(s)[i] = s[i + 1]
           /\ Elems(s) = {Head(s)} \cup Elems(Tail(s))
<1>1. /\ Head(s) \in S /\ Tail(s) \in Seq(S)
      /\ Len(Tail(s)) = Len(s) - 1
      /\ \A i \in 1..Len(Tail(s)) : Tail(s)[i] = s[i + 1]
  BY HeadTailProperties
<1>2. Len(s) \in Nat \ {0} /\ Head(s) = s[1]
  BY EmptySeq
<1>3. Head(s) \in Elems(s)
  BY <1>2 DEF Elems
<1>4. Elems(Tail(s)) \subseteq Elems(s)
  <2> SUFFICES ASSUME NEW i \in 1..Len(Tail(s)) PROVE Tail(s)[i] \in Elems(s)
    BY DEF Elems
  <2>1. i + 1 \in 1..Len(s) /\ Tail(s)[i] = s[i + 1]
    BY <1>1, <1>2
  <2> QED BY <2>1 DEF Elems
<1>5. Elems(s) \subseteq {Head(s)} \cup Elems(Tail(s))
  <2> SUFFICES ASSUME NEW i \in 1..Len(s), i # 1 PROVE s[i] \in Elems(Tail(s))
    BY <1>2 DEF Elems
  <2>1. i - 1 \in 1..Len(Tail(s)) /\ Tail(s)[i - 1] = s[(i - 1) + 1]
    BY <1>1, <1>2
  <2>2. Tail(s)[i - 1] = s[i]
    BY <2>1
  <2> QED BY <2>1, <2>2 DEF Elems
<1> QED BY <1>1, <1>2, <1>3, <1>4, <1>5

LEMMA CountElems ==
    ASSUME NEW S, NEW s \in Seq(S), NEW x
    PROVE  /\ Count(s, x) \in Nat
           /\ Count(s, x) > 0 <=> x \in Elems(s)
BY CountType DEF Elems

LEMMA EmptyFacts ==
    ASSUME NEW x
    PROVE  /\ Len(<<>>) = 0 /\ Elems(<<>>) = {} /\ Count(<<>>, x) = 0
           /\ \A S : <<>> \in Seq(S)
<1>1. Len(<<>>) = 0 /\ \A S : <<>> \in Seq(S)
  BY EmptySeq
<1>2. Elems(<<>>) = {}
  BY <1>1 DEF Elems
<1>3. Count(<<>>, x) \in Nat /\ (Count(<<>>, x) > 0 <=> x \in {})
  BY <1>1, <1>2, CountElems
<1> QED BY <1>1, <1>2, <1>3

-----------------------------------------------------------------------------
(***************************************************************************)
(* The dependencies of n that are not in D, as positions: a dependency that*)
(* is declared twice counts twice.                                         *)
(***************************************************************************)
Waits(n, D) == {i \in 1..Len(reverseEdges[n]) : reverseEdges[n][i] \notin D}

WaitsIn(n, L) == {i \in 1..Len(reverseEdges[n]) : reverseEdges[n][i] \in L}

LEMMA WaitsFacts ==
    ASSUME TypeOK, NEW n \in Names, NEW D
    PROVE  /\ IsFiniteSet(Waits(n, D)) /\ Cardinality(Waits(n, D)) \in Nat
           /\ Cardinality(Waits(n, D)) = 0 <=> Upstream(n) \subseteq D
           /\ IsFiniteSet(WaitsIn(n, D)) /\ Cardinality(WaitsIn(n, D)) \in Nat
<1>1. reverseEdges[n] \in Seq(Names)
  BY DEF TypeOK
<1>2. /\ IsFiniteSet(Waits(n, D)) /\ Cardinality(Waits(n, D)) \in Nat
      /\ Cardinality(Waits(n, D)) = 0 <=> Waits(n, D) = {}
  BY <1>1, PositionsFinite DEF Waits
<1>3. IsFiniteSet(WaitsIn(n, D)) /\ Cardinality(WaitsIn(n, D)) \in Nat
  BY <1>1, PositionsFinite DEF WaitsIn
<1> QED BY <1>2, <1>3 DEF Waits, Upstream, Elems

LEMMA WaitsSplit ==
    ASSUME TypeOK, NEW n \in Names, NEW D, NEW L, L \cap D = {}
    PROVE  Cardinality(Waits(n, D)) =
               Cardinality(Waits(n, D \cup L)) + Cardinality(WaitsIn(n, L))
<1>1. /\ IsFiniteSet(Waits(n, D \cup L)) /\ Cardinality(Waits(n, D \cup L)) \in Nat
      /\ IsFiniteSet(WaitsIn(n, L)) /\ Cardinality(WaitsIn(n, L)) \in Nat
  BY WaitsFacts
<1>2. Waits(n, D) = Waits(n, D \cup L) \cup WaitsIn(n, L)
  BY DEF Waits, WaitsIn
<1>3. Waits(n, D \cup L) \cap WaitsIn(n, L) = {}
  BY DEF Waits, WaitsIn
<1>4. Cardinality(Waits(n, D \cup L) \cap WaitsIn(n, L)) = 0
  BY <1>3, FS_EmptySet
<1>5. Cardinality(Waits(n, D \cup L) \cup WaitsIn(n, L)) =
          Cardinality(Waits(n, D \cup L)) + Cardinality(WaitsIn(n, L))
          - Cardinality(Waits(n, D \cup L) \cap WaitsIn(n, L))
  BY <1>1, FS_Union
<1> QED BY <1>1, <1>2, <1>4, <1>5

LEMMA WaitsOne ==
    ASSUME TypeOK, NEW n \in Names, NEW D, NEW h, h \notin D
    PROVE  Cardinality(Waits(n, D)) =
               Cardinality(Waits(n, D \cup {h})) + Count(reverseEdges[n], h)
<1>1. WaitsIn(n, {h}) = {i \in 1..Len(reverseEdges[n]) : reverseEdges[n][i] = h}
  BY DEF WaitsIn
<1>2. Cardinality(Waits(n, D)) =
          Cardinality(Waits(n, D \cup {h})) + Cardinality(WaitsIn(n, {h}))
  BY WaitsSplit
<1> QED BY <1>1, <1>2 DEF Count

LEMMA DegreesCount ==
    ASSUME TypeOK, NEW n \in Names
    PROVE  Degrees[n] = Cardinality(Waits(n, {}))
<1>1. Waits(n, {}) = 1..Len(reverseEdges[n])
  BY DEF Waits
<1>2. Len(reverseEdges[n]) \in Nat
  BY LenProperties DEF TypeOK
<1>3. Cardinality(1..Len(reverseEdges[n])) = Len(reverseEdges[n])
  BY <1>2, FS_Interval
<1> QED BY <1>1, <1>3 DEF Degrees

(***************************************************************************)
(* An edge and a dependency are two views of one thing.                    *)
(***************************************************************************)
LEMMA EdgeIsDependency ==
    ASSUME TypeOK, EdgesAreMirrored, NEW n \in Names, NEW d \in Names
    PROVE  n \in Elems(edges[d]) <=> d \in Upstream(n)
<1>1. edges[d] \in Seq(nodes) /\ reverseEdges[n] \in Seq(Names)
  BY DEF TypeOK
<1>2. Count(edges[d], n) = Count(reverseEdges[n], d)
  BY DEF EdgesAreMirrored
<1> QED BY <1>1, <1>2, CountElems DEF Upstream

(***************************************************************************)
(* The edges from a set of nodes to m are as many as its dependencies on   *)
(* them: a bijection for every node of the set makes one of all.           *)
(***************************************************************************)
LEMMA EdgesToCount ==
    ASSUME TypeOK, EdgesAreMirrored, NEW L \in SUBSET nodes, NEW m \in Names
    PROVE  Cardinality(EdgesTo(L, m)) = Cardinality(WaitsIn(m, L))
<1> DEFINE E(n) == {i \in 1..Len(edges[n]) : edges[n][i] = m}
           R(n) == {i \in 1..Len(reverseEdges[m]) : reverseEdges[m][i] = n}
           b    == [n \in L |-> CHOOSE f : f \in Bijection(R(n), E(n))]
           g    == [k \in WaitsIn(m, L) |->
                       <<reverseEdges[m][k], b[reverseEdges[m][k]][k]>>]
<1>1. ASSUME NEW n \in L
      PROVE  b[n] \in Bijection(R(n), E(n))
  <2>1. edges[n] \in Seq(nodes) /\ reverseEdges[m] \in Seq(Names) /\ n \in Names
    BY DEF TypeOK
  <2>2. IsFiniteSet(E(n)) /\ IsFiniteSet(R(n))
    <3>1. E(n) \subseteq 1..Len(edges[n]) /\ R(n) \subseteq 1..Len(reverseEdges[m])
      OBVIOUS
    <3> HIDE DEF E, R
    <3> QED BY <2>1, <3>1, PositionsFinite
  <2>3. Cardinality(E(n)) = Cardinality(R(n))
    BY <2>1 DEF EdgesAreMirrored, Count
  <2> HIDE DEF E, R
  <2>4. ExistsBijection(R(n), E(n))
    BY <2>2, <2>3, FS_SameCardinalityBij
  <2>5. \E f : f \in Bijection(R(n), E(n))
    BY <2>4 DEF ExistsBijection
  <2> QED BY <2>5
<1>2. ASSUME NEW k \in WaitsIn(m, L)
      PROVE  reverseEdges[m][k] \in L /\ k \in R(reverseEdges[m][k])
  BY DEF WaitsIn
<1>3. EdgesTo(L, m) = {x \in L \X UNION {E(n) : n \in L} : x[2] \in E(x[1])}
  BY DEF EdgesTo
<1> HIDE DEF b
<1>4. ASSUME NEW n \in L, NEW k \in R(n)
      PROVE  /\ k \in WaitsIn(m, L) /\ reverseEdges[m][k] = n
             /\ b[n][k] \in E(n) /\ g[k] = <<n, b[n][k]>>
  <2>1. k \in WaitsIn(m, L) /\ reverseEdges[m][k] = n
    BY DEF WaitsIn
  <2> HIDE DEF E, R
  <2>2. b[n][k] \in E(n)
    BY <1>1 DEF Bijection, Injection
  <2> QED BY <2>1, <2>2
<1> HIDE DEF E, R
<1>5. g \in [WaitsIn(m, L) -> EdgesTo(L, m)]
  <2>1. ASSUME NEW k \in WaitsIn(m, L)
        PROVE  g[k] \in EdgesTo(L, m)
    <3>1. PICK n \in L : reverseEdges[m][k] = n /\ k \in R(n)
      BY <1>2
    <3>2. g[k] = <<n, b[n][k]>> /\ b[n][k] \in E(n)
      BY <1>4, <3>1
    <3> QED BY <1>3, <3>2
  <2>2. DOMAIN g = WaitsIn(m, L) /\ g = [k \in DOMAIN g |-> g[k]]
    OBVIOUS
  <2> HIDE DEF g
  <2> QED BY <2>1, <2>2
<1>6. ASSUME NEW k \in WaitsIn(m, L), NEW l \in WaitsIn(m, L), g[k] = g[l]
      PROVE  k = l
  <2>1. PICK n \in L : reverseEdges[m][k] = n /\ k \in R(n)
    BY <1>2
  <2>2. PICK o \in L : reverseEdges[m][l] = o /\ l \in R(o)
    BY <1>2
  <2>3. g[k] = <<n, b[n][k]>> /\ g[l] = <<o, b[o][l]>>
    BY <1>4, <2>1, <2>2
  <2>4. n = o /\ b[n][k] = b[n][l]
    BY <1>6, <2>3
  <2> QED BY <1>1, <2>1, <2>2, <2>4 DEF Bijection, Injection, IsInjective
<1>7. ASSUME NEW e \in EdgesTo(L, m)
      PROVE  \E k \in WaitsIn(m, L) : g[k] = e
  <2>1. PICK n \in L : e[1] = n /\ e[2] \in E(n) /\ e = <<e[1], e[2]>>
    BY <1>3
  <2>2. PICK k \in R(n) : b[n][k] = e[2]
    BY <1>1, <2>1 DEF Bijection, Surjection
  <2>3. k \in WaitsIn(m, L) /\ g[k] = <<n, e[2]>>
    BY <1>4, <2>2
  <2> QED BY <2>1, <2>3
<1> HIDE DEF g
<1>8. g \in Bijection(WaitsIn(m, L), EdgesTo(L, m))
  BY <1>5, <1>6, <1>7 DEF Bijection, Injection, IsInjective, Surjection
<1>9. IsFiniteSet(WaitsIn(m, L))
  BY WaitsFacts
<1> QED BY <1>8, <1>9, FS_Bijection DEF ExistsBijection

-----------------------------------------------------------------------------
(***************************************************************************)
(* AddNode keeps the two views of the graph equal: the new node gets as    *)
(* many edges from d as it declares dependencies on d.                     *)
(***************************************************************************)
OptionRecords == [deps : Seq(Names), both : BOOLEAN, targets : SUBSET Names]

LEMMA AddedKeepsGraph ==
    ASSUME TypeOK, EdgesAreMirrored,
           NEW name \in Names, NEW opt \in OptionRecords, Added(name, opt)
    PROVE  /\ EdgesAreMirrored'
           /\ nodes' \in SUBSET Names /\ nodes \subseteq nodes'
           /\ edges' \in [Names -> Seq(nodes')]
           /\ reverseEdges' \in [Names -> Seq(Names)]
           /\ both' \in SUBSET nodes'
           /\ targets' \in [Names -> SUBSET Names]
<1> DEFINE copies(d) == [i \in 1..Count(opt.deps, d) |-> name]
<1>1. /\ opt.deps \in Seq(Names) /\ opt.targets \in SUBSET Names
      /\ \A d \in Names : edges[d] \in Seq(nodes) /\ reverseEdges[d] \in Seq(Names)
  BY DEF OptionRecords, TypeOK
<1>2. nodes' \in SUBSET Names /\ nodes \subseteq nodes' /\ name \in nodes'
  BY DEF Added, TypeOK
<1>3. ASSUME NEW d \in Names
      PROVE  /\ edges[d] \in Seq(nodes') /\ copies(d) \in Seq(nodes')
             /\ \A n : Count(copies(d), n) = IF n = name THEN Count(opt.deps, d) ELSE 0
  <2>1. edges[d] \in Seq(nodes')
    BY <1>1, <1>2, SeqMonotonic
  <2>2. Count(opt.deps, d) \in Nat
    BY <1>1, CountType
  <2>3. \A k \in Nat : \A n :
            /\ [i \in 1..k |-> name] \in Seq(nodes')
            /\ Count([i \in 1..k |-> name], n) = IF n = name THEN k ELSE 0
    BY <1>2, CountCopies
  <2> QED BY <2>1, <2>2, <2>3
<1>4. ASSUME NEW d \in Names
      PROVE  edges'[d] = edges[d] \o copies(d)
  BY DEF Added
<1> HIDE DEF copies
<1>5. ASSUME NEW d \in Names
      PROVE  /\ edges'[d] \in Seq(nodes')
             /\ \A n : Count(edges'[d], n) = Count(edges[d], n)
                           + IF n = name THEN Count(opt.deps, d) ELSE 0
  <2>1. edges[d] \o copies(d) \in Seq(nodes')
    BY <1>3, ConcatProperties
  <2>2. \A n : Count(edges[d] \o copies(d), n) = Count(edges[d], n) + Count(copies(d), n)
    BY <1>3, CountConcat
  <2> QED BY <1>3, <1>4, <2>1, <2>2
<1>6. edges' \in [Names -> Seq(nodes')]
  <2>1. DOMAIN edges' = Names /\ edges' = [d \in DOMAIN edges' |-> edges'[d]]
    BY DEF Added
  <2> QED BY <1>5, <2>1
<1>7. ASSUME NEW n \in Names
      PROVE  reverseEdges'[n] = IF n = name THEN reverseEdges[n] \o opt.deps
                                ELSE reverseEdges[n]
  BY DEF Added, TypeOK
<1>8. ASSUME NEW n \in Names
      PROVE  /\ reverseEdges'[n] \in Seq(Names)
             /\ \A d : Count(reverseEdges'[n], d) = Count(reverseEdges[n], d)
                           + IF n = name THEN Count(opt.deps, d) ELSE 0
  <2>1. reverseEdges[n] \o opt.deps \in Seq(Names)
    BY <1>1, ConcatProperties
  <2>2. \A d : Count(reverseEdges[n] \o opt.deps, d) =
                   Count(reverseEdges[n], d) + Count(opt.deps, d)
    BY <1>1, CountConcat
  <2>3. \A d : Count(reverseEdges[n], d) \in Nat
    BY <1>1, CountType
  <2>4. CASE n = name
    <3>1. reverseEdges'[n] = reverseEdges[n] \o opt.deps
      BY <1>7, <2>4
    <3> QED BY <2>1, <2>2, <2>4, <3>1
  <2>5. CASE n # name
    <3>1. reverseEdges'[n] = reverseEdges[n]
      BY <1>7, <2>5
    <3> QED BY <1>1, <2>3, <2>5, <3>1
  <2> QED BY <2>4, <2>5
<1>9. reverseEdges' \in [Names -> Seq(Names)]
  <2>1. DOMAIN reverseEdges' = Names
        /\ reverseEdges' = [d \in DOMAIN reverseEdges' |-> reverseEdges'[d]]
    BY DEF Added, TypeOK
  <2> QED BY <1>8, <2>1
<1>10. EdgesAreMirrored'
  <2> SUFFICES ASSUME NEW n \in Names, NEW d \in Names
               PROVE  Count(edges'[d], n) = Count(reverseEdges'[n], d)
    BY DEF EdgesAreMirrored, Count
  <2> DEFINE more == IF n = name THEN Count(opt.deps, d) ELSE 0
  <2>1. Count(edges'[d], n) = Count(edges[d], n) + more
    BY <1>5
  <2>2. Count(reverseEdges'[n], d) = Count(reverseEdges[n], d) + more
    BY <1>8
  <2>3. Count(edges[d], n) = Count(reverseEdges[n], d)
    BY DEF EdgesAreMirrored
  <2> HIDE DEF more
  <2> QED BY <2>1, <2>2, <2>3
<1>11. both' \in SUBSET nodes' /\ targets' \in [Names -> SUBSET Names]
  BY <1>1, <1>2 DEF Added, TypeOK
<1> QED BY <1>2, <1>6, <1>9, <1>10, <1>11

(***************************************************************************)
(* No cycle within a set of names; none is closed by nodes that depend on  *)
(* the set only.                                                           *)
(***************************************************************************)
NoCycleIn(D) ==
    \A S \in SUBSET D : S # {} => \E n \in S : Upstream(n) \cap S = {}

LEMMA NoCycleGrows ==
    ASSUME NEW D, NEW L, L \cap D = {}, NoCycleIn(D),
           \A n \in D \cup L : Upstream(n) \subseteq D
    PROVE  NoCycleIn(D \cup L)
<1> SUFFICES ASSUME NEW S \in SUBSET (D \cup L), S # {}
             PROVE  \E n \in S : Upstream(n) \cap S = {}
  BY DEF NoCycleIn
<1>1. CASE S \cap D # {}
  <2>1. PICK n \in S \cap D : Upstream(n) \cap (S \cap D) = {}
    BY <1>1 DEF NoCycleIn
  <2>2. Upstream(n) \subseteq D
    BY <2>1
  <2> QED BY <2>1, <2>2
<1>2. CASE S \cap D = {}
  <2>1. PICK n \in S : TRUE
    OBVIOUS
  <2>2. n \in L /\ Upstream(n) \subseteq D
    BY <1>2, <2>1
  <2> QED BY <1>2, <2>2
<1> QED BY <1>1, <1>2

(***************************************************************************)
(* What a caller is in says what can have been computed.                   *)
(***************************************************************************)
Phases ==
    /\ pc \in {"build", "load"} => verdict = "none"
    /\ pc = "load" => both = {}
    /\ pc \notin {"layers", "done"} => layers = <<>> /\ left = {}
    /\ pc # "done" => drawn = "none"
    /\ pc # "sort" => queue = <<>> /\ todo = <<>>
    /\ pc = "sort" => verdict = "none"
    /\ pc = "sort" \/ verdict \in {"ok", "cycle"} => nodes # {} /\ Faults = {}
    /\ pc # "sort" /\ verdict \notin {"ok", "cycle"} => sorted = <<>>

LEMMA SameFaults == UNCHANGED graph => Faults' = Faults
BY DEF graph, Faults, Fault, Elems

LEMMA StepPhases == TypeOK /\ Phases /\ [Next]_vars => Phases'
<1> SUFFICES ASSUME TypeOK, Phases, [Next]_vars PROVE Phases'
  OBVIOUS
<1> USE SameFaults DEF graph, kahn, layout, Phases
<1>1. ASSUME NEW name \in Names, NEW opt \in Options, AddNode(name, opt)
      PROVE  Phases'
  BY <1>1 DEF AddNode
<1>2. ASSUME NEW cfg \in Configs, LoadStarts(cfg)
      PROVE  Phases'
  BY <1>2 DEF LoadStarts, Phases, TypeOK
<1>3. CASE LoadEntry
  BY <1>3 DEF LoadEntry, Added
<1>4. CASE LoadFails
  BY <1>4 DEF LoadFails, EntryFault
<1>5. CASE LoadEnds
  BY <1>5 DEF LoadEnds
<1>6. CASE ValidateRejects
  <2>1. "ok" \notin Faults /\ "cycle" \notin Faults
    BY DEF Faults, Fault
  <2> QED BY <1>6, <2>1 DEF ValidateRejects
<1>7. CASE SortStarts
  BY <1>7 DEF SortStarts
<1>8. CASE SortNode
  BY <1>8 DEF SortNode
<1>9. CASE SortEdge
  BY <1>9 DEF SortEdge
<1>10. CASE SortEnds
  BY <1>10 DEF SortEnds
<1>11. CASE LayersStart
  BY <1>11 DEF LayersStart
<1>12. CASE NextLayer
  BY <1>12 DEF NextLayer
<1>13. CASE LayersEnd
  BY <1>13 DEF LayersEnd
<1>14. CASE UNCHANGED vars
  BY <1>14 DEF vars
<1> QED BY <1>1, <1>2, <1>3, <1>4, <1>5, <1>6, <1>7, <1>8, <1>9, <1>10, <1>11, <1>12,
           <1>13, <1>14 DEF Next, Build, Load, Validate, Draw, Returned

-----------------------------------------------------------------------------
(***************************************************************************)
(* The sort.  inDegree counts what a node still waits for: dependencies    *)
(* that are not sorted, and edges of the last sorted node that are not     *)
(* visited yet.  So a node is queued when it is the last edge that frees it*)
(* and no node is queued twice.                                            *)
(***************************************************************************)
Sorted == Elems(sorted)

SortCounts ==
    pc = "sort" =>
        /\ \A n \in Names : inDegree[n] = Cardinality(Waits(n, Sorted)) + Count(todo, n)
        /\ \A i \in 1..Len(queue) : queue[i] \notin Sorted /\ inDegree[queue[i]] = 0
        /\ \A i, j \in 1..Len(queue) : queue[i] = queue[j] => i = j
        /\ \A n \in nodes \ Sorted : n \notin Elems(queue) => inDegree[n] > 0
        /\ todo # <<>> => /\ Len(sorted) > 0
                          /\ \A n \in Elems(todo) : sorted[Len(sorted)] \in Upstream(n)

Before(i) == {sorted[j] : j \in 1..(i - 1)}

SortInv == SortIsTopological /\ NoCycleIn(Sorted) /\ SortCounts

LEMMA SortedIsClosed ==
    ASSUME TypeOK, SortIsTopological
    PROVE  /\ \A n \in Sorted : Upstream(n) \subseteq Sorted
           /\ Len(sorted) > 0 =>
                  \A n \in Sorted : sorted[Len(sorted)] \notin Upstream(n)
<1>1. sorted \in Seq(nodes) /\ Len(sorted) \in Nat
  BY LenProperties DEF TypeOK
<1>2. ASSUME NEW n \in Sorted
      PROVE  \E i \in 1..Len(sorted) : n = sorted[i] /\ Upstream(n) \subseteq Before(i)
  BY <1>2 DEF Sorted, Elems, SortIsTopological, Before
<1>3. ASSUME NEW i \in 1..Len(sorted)
      PROVE  Before(i) \subseteq Sorted /\ sorted[Len(sorted)] \notin Before(i)
  <2>1. \A j \in 1..(i - 1) : j \in 1..Len(sorted) /\ j # Len(sorted)
    BY <1>1
  <2>2. Len(sorted) \in 1..Len(sorted)
    BY <1>1
  <2> QED BY <2>1, <2>2 DEF Before, Sorted, Elems, SortIsTopological
<1> QED BY <1>2, <1>3

LEMMA SameUpstream ==
    ASSUME reverseEdges' = reverseEdges
    PROVE  /\ \A n : Upstream(n)' = Upstream(n)
           /\ \A n, D : Waits(n, D)' = Waits(n, D)
           /\ \A D : NoCycleIn(D)' <=> NoCycleIn(D)
BY DEF Upstream, Waits, NoCycleIn, Elems

LEMMA StartOfSort ==
    ASSUME TypeOK, Phases, SortInv, SortStarts
    PROVE  SortInv' /\ inDegree' \in [Names -> Nat] /\ queue' \in Seq(nodes)
<1>1. /\ sorted = <<>> /\ sorted' = <<>> /\ todo = <<>> /\ todo' = <<>>
      /\ verdict' = "none" /\ reverseEdges' = reverseEdges /\ nodes' = nodes
      /\ inDegree' = Degrees
  BY DEF SortStarts, Phases, graph
<1>2. Sorted = {} /\ Elems(sorted') = {} /\ Len(sorted') = 0 /\ Len(todo') = 0
  BY <1>1, EmptyFacts DEF Sorted
<1>3. IsFiniteSet(Roots) /\ Cardinality(Roots) \in Nat
  <2>1. Roots \in SUBSET Names
    BY DEF Roots, TypeOK
  <2> QED BY <2>1, DagAssumption, FS_Subset, FS_CardinalityType DEF DagAssumption
<1> DEFINE k == Cardinality(Roots)
<1>4. /\ queue' \in Seq(nodes) /\ Len(queue') = k
      /\ queue' \in [1..k -> Roots] /\ Elems(queue') = Roots
  <2>1. queue' \in [1..k -> Roots] /\ Elems(queue') = Roots
    BY DEF SortStarts, Orders
  <2>2. Roots \subseteq nodes
    BY DEF Roots
  <2>3. queue' \in [1..k -> nodes]
    BY <2>1, <2>2
  <2> QED BY <1>3, <2>1, <2>3
<1>5. \A i, j \in 1..Len(queue') : queue'[i] = queue'[j] => i = j
  <2>1. queue' \in Surjection(1..k, Roots)
    BY <1>4 DEF Surjection, Elems
  <2>2. IsFiniteSet(1..k) /\ Cardinality(1..k) = k
    BY <1>3, FS_Interval
  <2>3. queue' \in Injection(1..k, Roots)
    BY <2>1, <2>2, FS_Surjection
  <2> QED BY <1>4, <2>3 DEF Injection, IsInjective
<1>6. \A n \in Names : Degrees[n] = Cardinality(Waits(n, {})) /\ Degrees[n] \in Nat
  BY DegreesCount, WaitsFacts
<1>7. inDegree' \in [Names -> Nat]
  BY <1>1, <1>6 DEF Degrees
<1>8. \A n : Count(todo', n) = 0
  BY <1>1, EmptyFacts
<1>9. SortCounts'
  <2>1. \A n \in Names : inDegree'[n] = Cardinality(Waits(n, {})) + Count(todo', n)
    BY <1>1, <1>6, <1>8
  <2>2. \A i \in 1..Len(queue') : inDegree'[queue'[i]] = 0
    BY <1>1, <1>4 DEF Roots
  <2>3. \A n \in nodes : n \notin Elems(queue') => inDegree'[n] > 0
    <3> SUFFICES ASSUME NEW n \in nodes, n \notin Elems(queue')
                 PROVE  inDegree'[n] > 0
      OBVIOUS
    <3>1. n \in Names /\ n \notin Roots
      BY <1>4 DEF TypeOK
    <3>2. Degrees[n] # 0 /\ Degrees[n] \in Nat
      BY <1>6, <3>1 DEF Roots
    <3> QED BY <1>1, <3>2
  <2>4. Elems(sorted)' = {} /\ Elems(queue)' = Elems(queue')
    BY <1>2 DEF Elems
  <2> QED BY <1>1, <1>2, <1>5, <2>1, <2>2, <2>3, <2>4
          DEF SortCounts, Sorted, Waits, Count, Elems
<1>10. SortIsTopological'
  BY <1>1, <1>2 DEF SortIsTopological
<1>11. NoCycleIn(Sorted)'
  BY <1>2 DEF NoCycleIn, Sorted, Elems
<1> QED BY <1>4, <1>7, <1>9, <1>10, <1>11 DEF SortInv

LEMMA NodeIsSorted ==
    ASSUME TypeOK, EdgesAreMirrored, Phases, SortInv, SortNode
    PROVE  /\ SortInv'
           /\ sorted' \in Seq(nodes) /\ queue' \in Seq(nodes) /\ todo' \in Seq(nodes)
<1> DEFINE h == Head(queue)
<1>1. /\ pc = "sort" /\ pc' = "sort" /\ verdict = "none" /\ verdict' = "none"
      /\ todo = <<>> /\ queue # <<>>
      /\ sorted' = Append(sorted, h) /\ queue' = Tail(queue) /\ todo' = edges[h]
      /\ inDegree' = inDegree /\ nodes' = nodes /\ edges' = edges
      /\ reverseEdges' = reverseEdges
  BY DEF SortNode, Phases, graph
<1>2. /\ queue \in Seq(nodes) /\ sorted \in Seq(nodes) /\ nodes \subseteq Names
      /\ \A d \in Names : edges[d] \in Seq(nodes)
  BY DEF TypeOK
<1>3. /\ h \in nodes /\ h = queue[1] /\ h \in Elems(queue)
      /\ Tail(queue) \in Seq(nodes)
      /\ Len(queue) \in Nat \ {0} /\ Len(Tail(queue)) = Len(queue) - 1
      /\ \A i \in 1..Len(Tail(queue)) : Tail(queue)[i] = queue[i + 1]
      /\ Elems(queue) = {h} \cup Elems(Tail(queue))
  BY <1>1, <1>2, ElemsTail
<1>4. h \notin Sorted /\ inDegree[h] = 0
  BY <1>1, <1>3 DEF SortInv, SortCounts
<1> HIDE DEF h
<1>5. /\ sorted' \in Seq(nodes) /\ Len(sorted') = Len(sorted) + 1
      /\ \A i \in 1..Len(sorted) : sorted'[i] = sorted[i]
      /\ sorted'[Len(sorted) + 1] = h
      /\ Elems(sorted') = Sorted \cup {h}
      /\ Len(sorted) \in Nat
  BY <1>1, <1>2, <1>3, ElemsAppend, LenProperties DEF Sorted
<1>6. Upstream(h) \subseteq Sorted
  <2>1. Count(todo, h) = 0
    BY <1>1, EmptyFacts
  <2>2. Cardinality(Waits(h, Sorted)) = 0
    BY <1>1, <1>2, <1>3, <1>4, <2>1, WaitsFacts DEF SortInv, SortCounts
  <2> QED BY <1>2, <1>3, <2>2, WaitsFacts
<1>7. todo' \in Seq(nodes) /\ queue' \in Seq(nodes)
  BY <1>1, <1>2, <1>3
<1>8. SortCounts'
  <2>1. ASSUME NEW n \in Names
        PROVE  inDegree[n] = Cardinality(Waits(n, Sorted \cup {h})) + Count(edges[h], n)
    <3>1. Cardinality(Waits(n, Sorted)) =
              Cardinality(Waits(n, Sorted \cup {h})) + Count(reverseEdges[n], h)
      BY <1>4, WaitsOne
    <3>2. Count(todo, n) = 0
      BY <1>1, EmptyFacts
    <3>3. Count(edges[h], n) = Count(reverseEdges[n], h)
      BY <1>2, <1>3 DEF EdgesAreMirrored
    <3>4. inDegree[n] = Cardinality(Waits(n, Sorted)) + Count(todo, n)
      BY <1>1 DEF SortInv, SortCounts
    <3>5. Cardinality(Waits(n, Sorted)) \in Nat
      BY WaitsFacts
    <3> QED BY <3>1, <3>2, <3>3, <3>4, <3>5
  <2>2. ASSUME NEW i \in 1..Len(queue')
        PROVE  /\ i + 1 \in 1..Len(queue) /\ queue'[i] = queue[i + 1]
               /\ queue'[i] \notin Sorted \cup {h} /\ inDegree[queue'[i]] = 0
    <3>1. i + 1 \in 1..Len(queue) /\ 1 \in 1..Len(queue) /\ i + 1 # 1
      BY <1>1, <1>3
    <3>2. queue'[i] = queue[i + 1]
      BY <1>1, <1>3
    <3> QED BY <1>1, <1>3, <3>1, <3>2 DEF SortInv, SortCounts
  <2>3. \A i, j \in 1..Len(queue') : queue'[i] = queue'[j] => i = j
    <3> SUFFICES ASSUME NEW i \in 1..Len(queue'), NEW j \in 1..Len(queue'),
                        queue'[i] = queue'[j]
                 PROVE  i = j
      OBVIOUS
    <3>1. i + 1 = j + 1
      BY <1>1, <2>2 DEF SortInv, SortCounts
    <3> QED BY <3>1
  <2>4. \A n \in nodes \ (Sorted \cup {h}) : n \notin Elems(queue') => inDegree[n] > 0
    BY <1>1, <1>3 DEF SortInv, SortCounts
  <2>5. \A n \in Elems(todo') : h \in Upstream(n)
    <3> SUFFICES ASSUME NEW n \in Elems(edges[h]) PROVE h \in Upstream(n)
      BY <1>1
    <3>1. n \in Names
      BY <1>2, <1>3, ElemsFacts
    <3> QED BY <1>2, <1>3, <3>1, EdgeIsDependency
  <2>6. sorted'[Len(sorted')] = h /\ Len(sorted') > 0
    BY <1>5
  <2>7. Sorted' = Sorted \cup {h}
    BY <1>5 DEF Sorted
  <2>8. \A n : Waits(n, Sorted)' = Waits(n, Sorted \cup {h})
    BY <1>1, <2>7 DEF Waits
  <2>9. \A n \in Names : inDegree'[n] = Cardinality(Waits(n, Sorted)') + Count(todo', n)
    BY <1>1, <2>1, <2>8
  <2>10. \A i \in 1..Len(queue') : queue'[i] \notin Sorted' /\ inDegree'[queue'[i]] = 0
    BY <1>1, <2>2, <2>7
  <2>11. \A n \in nodes' \ Sorted' : n \notin Elems(queue') => inDegree'[n] > 0
    BY <1>1, <2>4, <2>7
  <2>12. \A n \in Elems(todo') : sorted'[Len(sorted')] \in Upstream(n)'
    BY <1>1, <2>5, <2>6, SameUpstream
  <2> QED BY <2>3, <2>6, <2>9, <2>10, <2>11, <2>12 DEF SortCounts
<1>9. SortIsTopological'
  <2>1. \A i, j \in 1..Len(sorted') : sorted'[i] = sorted'[j] => i = j
    <3> SUFFICES ASSUME NEW i \in 1..Len(sorted'), NEW j \in 1..Len(sorted'),
                        sorted'[i] = sorted'[j]
                 PROVE  i = j
      OBVIOUS
    <3>1. \A k \in 1..Len(sorted) : sorted'[k] # h
      BY <1>4, <1>5 DEF Sorted, Elems
    <3>2. CASE i \in 1..Len(sorted) /\ j \in 1..Len(sorted)
      BY <1>5, <3>2 DEF SortInv, SortIsTopological
    <3> QED BY <1>5, <3>1, <3>2
  <2>2. ASSUME NEW i \in 1..Len(sorted')
        PROVE  Upstream(sorted'[i]) \subseteq {sorted'[j] : j \in 1..(i - 1)}
    <3>1. CASE i \in 1..Len(sorted)
      <4>1. Upstream(sorted'[i]) \subseteq {sorted[j] : j \in 1..(i - 1)}
        BY <1>5, <3>1 DEF SortInv, SortIsTopological
      <4>2. \A j \in 1..(i - 1) : sorted[j] = sorted'[j]
        BY <1>5, <3>1
      <4> QED BY <4>1, <4>2
    <3>2. CASE i = Len(sorted) + 1
      <4>1. Upstream(sorted'[i]) \subseteq Sorted /\ i - 1 = Len(sorted)
        BY <1>5, <1>6, <3>2
      <4>2. \A j \in 1..Len(sorted) : sorted[j] = sorted'[j]
        BY <1>5
      <4> QED BY <4>1, <4>2 DEF Sorted, Elems
    <3> QED BY <1>5, <3>1, <3>2
  <2> QED BY <1>1, <2>1, <2>2, ZenonT(60) DEF SortIsTopological, Upstream, Elems
<1>10. NoCycleIn(Sorted)'
  <2>1. \A n \in Sorted : Upstream(n) \subseteq Sorted
    BY SortedIsClosed DEF SortInv
  <2>2. {h} \cap Sorted = {} /\ \A n \in Sorted \cup {h} : Upstream(n) \subseteq Sorted
    BY <1>4, <1>6, <2>1
  <2>3. NoCycleIn(Sorted \cup {h})
    BY <2>2, NoCycleGrows DEF SortInv
  <2> QED BY <1>1, <1>5, <2>3, SameUpstream DEF NoCycleIn, Sorted
<1> QED BY <1>5, <1>7, <1>8, <1>9, <1>10 DEF SortInv

LEMMA EdgeIsVisited ==
    ASSUME TypeOK, EdgesAreMirrored, Phases, SortInv, SortEdge
    PROVE  /\ SortInv'
           /\ inDegree' \in [Names -> Nat]
           /\ queue' \in Seq(nodes) /\ todo' \in Seq(nodes)
<1> DEFINE t == Head(todo)
<1>1. /\ pc = "sort" /\ pc' = "sort" /\ todo # <<>>
      /\ inDegree' = [inDegree EXCEPT ![t] = @ - 1]
      /\ queue' = IF inDegree'[t] = 0 THEN Append(queue, t) ELSE queue
      /\ todo' = Tail(todo) /\ sorted' = sorted /\ nodes' = nodes
      /\ reverseEdges' = reverseEdges /\ verdict' = verdict
  BY DEF SortEdge, graph
<1>2. /\ queue \in Seq(nodes) /\ todo \in Seq(nodes) /\ nodes \subseteq Names
      /\ inDegree \in [Names -> Nat] /\ Len(queue) \in Nat
  BY LenProperties DEF TypeOK
<1>3. t \in nodes /\ t \in Elems(todo) /\ Tail(todo) \in Seq(nodes)
      /\ Elems(todo) = {t} \cup Elems(Tail(todo))
  BY <1>1, <1>2, ElemsTail
<1>4. \A n : /\ Count(todo', n) = IF n = t THEN Count(todo, n) - 1 ELSE Count(todo, n)
             /\ Count(todo', n) \in Nat /\ Count(todo, n) \in Nat
  BY <1>1, <1>2, CountTail
<1> HIDE DEF t
<1>5. inDegree[t] = Cardinality(Waits(t, Sorted)) + Count(todo, t)
      /\ Cardinality(Waits(t, Sorted)) \in Nat
  BY <1>1, <1>2, <1>3, WaitsFacts DEF SortInv, SortCounts
<1>6. /\ inDegree[t] > 0 /\ inDegree' \in [Names -> Nat]
      /\ inDegree'[t] = inDegree[t] - 1
      /\ \A n \in Names : n # t => inDegree'[n] = inDegree[n]
  <2>1. inDegree[t] \in Nat /\ inDegree[t] > 0 /\ t \in Names
    BY <1>2, <1>3, <1>4, <1>5
  <2> QED BY <1>1, <1>2, <2>1
<1>7. t \notin Elems(queue) /\ \A i \in 1..Len(queue) : queue[i] # t
  BY <1>1, <1>6 DEF SortInv, SortCounts, Elems
<1>8. t \notin Sorted
  <2>1. Len(sorted) > 0 /\ sorted[Len(sorted)] \in Upstream(t)
    BY <1>1, <1>3 DEF SortInv, SortCounts
  <2> QED BY <2>1, SortedIsClosed DEF SortInv
<1>9. /\ queue' \in Seq(nodes)
      /\ \A i \in 1..Len(queue) : queue'[i] = queue[i]
      /\ inDegree'[t] = 0 => /\ Len(queue') = Len(queue) + 1
                             /\ queue'[Len(queue) + 1] = t
                             /\ Elems(queue') = Elems(queue) \cup {t}
      /\ inDegree'[t] # 0 => queue' = queue
  BY <1>1, <1>2, <1>3, ElemsAppend
<1>10. Sorted' = Sorted /\ \A n : Waits(n, Sorted)' = Waits(n, Sorted)
  BY <1>1 DEF Sorted, Elems, Waits
<1>11. SortCounts'
  <2>1. \A n \in Names : inDegree'[n] = Cardinality(Waits(n, Sorted)') + Count(todo', n)
    <3> SUFFICES ASSUME NEW n \in Names
                 PROVE  inDegree'[n] = Cardinality(Waits(n, Sorted)) + Count(todo', n)
      BY <1>10
    <3>1. inDegree[n] = Cardinality(Waits(n, Sorted)) + Count(todo, n)
          /\ Cardinality(Waits(n, Sorted)) \in Nat
      BY <1>1, WaitsFacts DEF SortInv, SortCounts
    <3> QED BY <1>4, <1>6, <3>1
  <2>2. ASSUME NEW i \in 1..Len(queue')
        PROVE  /\ queue'[i] \notin Sorted /\ inDegree'[queue'[i]] = 0
               /\ i \notin 1..Len(queue) => i = Len(queue) + 1 /\ queue'[i] = t
    <3>1. CASE i \in 1..Len(queue)
      <4>1. queue'[i] = queue[i] /\ queue[i] # t /\ queue[i] \in Names
        BY <1>2, <1>7, <1>9, <3>1, ElemsFacts
      <4> QED BY <1>1, <1>6, <3>1, <4>1 DEF SortInv, SortCounts
    <3>2. CASE i \notin 1..Len(queue)
      <4>1. inDegree'[t] = 0
        BY <1>9, <3>2
      <4>2. i = Len(queue) + 1 /\ queue'[i] = t
        BY <1>2, <1>9, <3>2, <4>1
      <4> QED BY <1>8, <4>1, <4>2
    <3> QED BY <3>1, <3>2
  <2>3. \A i, j \in 1..Len(queue') : queue'[i] = queue'[j] => i = j
    <3> SUFFICES ASSUME NEW i \in 1..Len(queue'), NEW j \in 1..Len(queue'),
                        queue'[i] = queue'[j]
                 PROVE  i = j
      OBVIOUS
    <3>1. CASE i \in 1..Len(queue) /\ j \in 1..Len(queue)
      BY <1>1, <1>9, <3>1 DEF SortInv, SortCounts
    <3> QED BY <1>7, <1>9, <2>2, <3>1
  <2>4. \A n \in nodes \ Sorted : n \notin Elems(queue') => inDegree'[n] > 0
    <3> SUFFICES ASSUME NEW n \in nodes \ Sorted, n \notin Elems(queue')
                 PROVE  inDegree'[n] > 0
      OBVIOUS
    <3>1. CASE n = t
      <4>1. inDegree'[t] # 0 /\ inDegree'[t] \in Nat
        BY <1>2, <1>3, <1>6, <1>9, <3>1
      <4> QED BY <3>1, <4>1
    <3>2. CASE n # t
      <4>1. n \notin Elems(queue)
        BY <1>9
      <4> QED BY <1>1, <1>2, <1>6, <3>2, <4>1 DEF SortInv, SortCounts
    <3> QED BY <3>1, <3>2
  <2>5. todo' # <<>> => /\ Len(sorted) > 0
                        /\ \A n \in Elems(todo') : sorted[Len(sorted)] \in Upstream(n)
    BY <1>1, <1>3 DEF SortInv, SortCounts
  <2>6. \A n : Upstream(n)' = Upstream(n)
    BY <1>1, SameUpstream
  <2> QED BY <1>1, <1>10, <2>1, <2>2, <2>3, <2>4, <2>5, <2>6 DEF SortCounts
<1>12. SortIsTopological' /\ NoCycleIn(Sorted)'
  <2>1. /\ sorted' = sorted /\ nodes' = nodes /\ reverseEdges' = reverseEdges
        /\ verdict' = verdict
    BY <1>1
  <2>2. SortIsTopological'
    BY <2>1, SameUpstream DEF SortInv, SortIsTopological, Elems
  <2>3. NoCycleIn(Sorted)'
    BY <2>1, SameUpstream DEF SortInv, NoCycleIn, Sorted
  <2> QED BY <2>2, <2>3
<1> QED BY <1>1, <1>3, <1>6, <1>9, <1>11, <1>12 DEF SortInv

(***************************************************************************)
(* A sort that leaves nodes out found a cycle among them, and one that does*)
(* not has shown that there is none.                                       *)
(***************************************************************************)
LEMMA EndOfSort ==
    ASSUME TypeOK, Phases, SortInv, SortEnds
    PROVE  SortInv' /\ ValidateIsExact'
<1>1. /\ pc = "sort" /\ pc' = "validated" /\ todo = <<>> /\ queue = <<>>
      /\ verdict' = IF Len(sorted) # Cardinality(nodes) THEN "cycle" ELSE "ok"
      /\ sorted' = sorted /\ nodes' = nodes /\ reverseEdges' = reverseEdges
      /\ targets' = targets
      /\ nodes # {} /\ Faults = {}
  BY DEF SortEnds, Phases, graph, kahn
<1>2. /\ sorted \in Seq(nodes) /\ Len(sorted) \in Nat /\ Sorted \subseteq nodes
      /\ nodes \subseteq Names
  BY LenProperties, ElemsFacts DEF TypeOK, Sorted
<1>3. IsFiniteSet(nodes) /\ IsFiniteSet(Sorted)
  BY <1>2, DagAssumption, FS_Subset DEF DagAssumption
<1>4. Cardinality(Sorted) = Len(sorted)
  <2>1. sorted \in [1..Len(sorted) -> Sorted]
    BY <1>2, LenProperties DEF Sorted, Elems
  <2>2. sorted \in Surjection(1..Len(sorted), Sorted)
    BY <2>1 DEF Surjection, Sorted, Elems
  <2>3. sorted \in Injection(1..Len(sorted), Sorted)
    BY <2>1 DEF Injection, IsInjective, SortInv, SortIsTopological
  <2>4. IsFiniteSet(1..Len(sorted)) /\ Cardinality(1..Len(sorted)) = Len(sorted)
    BY <1>2, FS_Interval, SMTT(30)
  <2>5. Cardinality(Sorted) = Cardinality(1..Len(sorted))
    BY <2>2, <2>3, <2>4, FS_Surjection
  <2> QED BY <2>4, <2>5
<1>5. verdict' = "ok" <=> Sorted = nodes
  BY <1>1, <1>2, <1>3, <1>4, FS_Subset
<1>6. \A n \in nodes : Upstream(n) \subseteq nodes /\ targets[n] \subseteq nodes
  <2> SUFFICES ASSUME NEW n \in nodes
               PROVE  Upstream(n) \subseteq nodes /\ targets[n] \subseteq nodes
    OBVIOUS
  <2>1. Fault(n) = "none"
    BY <1>1 DEF Faults
  <2> QED BY <2>1 DEF Fault, Upstream
<1>7. ASSUME Sorted = nodes
      PROVE  ~Cyclic
  BY <1>7 DEF SortInv, NoCycleIn, Cyclic
<1>8. ASSUME Sorted # nodes
      PROVE  Cyclic
  <2>1. nodes \ Sorted # {}
    BY <1>2, <1>8
  <2>2. ASSUME NEW n \in nodes \ Sorted
        PROVE  Upstream(n) \cap (nodes \ Sorted) # {}
    <3>1. n \notin Elems(queue) /\ Count(todo, n) = 0
      BY <1>1, EmptyFacts
    <3>2. inDegree[n] > 0 /\ inDegree[n] = Cardinality(Waits(n, Sorted)) + Count(todo, n)
      BY <1>1, <1>2, <2>2, <3>1 DEF SortInv, SortCounts
    <3>3. Cardinality(Waits(n, Sorted)) # 0
      BY <3>1, <3>2
    <3>4. ~(Upstream(n) \subseteq Sorted)
      BY <1>2, <2>2, <3>3, WaitsFacts
    <3> QED BY <1>6, <2>2, <3>4
  <2> QED BY <2>1, <2>2 DEF Cyclic
<1>9. SortInv'
  <2>1. SortIsTopological'
    BY <1>1, <1>5, SameUpstream DEF SortInv, SortIsTopological, Sorted
  <2>2. NoCycleIn(Sorted)'
    BY <1>1, SameUpstream DEF SortInv, NoCycleIn, Sorted
  <2> QED BY <1>1, <2>1, <2>2 DEF SortInv, SortCounts
<1>10. ValidateIsExact'
  <2>1. Cyclic' <=> Cyclic
    BY <1>1, SameUpstream DEF Cyclic
  <2>2. verdict' \in {"ok", "cycle"}
    BY <1>1
  <2> QED BY <1>1, <1>5, <1>6, <1>7, <1>8, <2>1, <2>2, SameUpstream
          DEF ValidateIsExact, LoadErrors
<1> QED BY <1>9, <1>10

-----------------------------------------------------------------------------
(***************************************************************************)
(* The layers.  inDegree counts the dependencies that are in no layer; so a*)
(* decrement never brings a key back, and a node that is free now was freed*)
(* by the last layer.                                                      *)
(***************************************************************************)
Laid == UNION Elems(layers)

LayerCounts ==
    pc = "layers" =>
        /\ left = nodes \ Laid
        /\ remaining = Cardinality(left)
        /\ \A m \in Names : inDegree[m] = Cardinality(Waits(m, Laid))
        /\ Len(layers) > 0 =>
              \A n \in left : Upstream(n) \subseteq Laid
                                  => Upstream(n) \cap layers[Len(layers)] # {}

LayerInv ==
    /\ LayerCounts
    /\ Laid \subseteq nodes
    /\ \A n \in Laid : Upstream(n) \subseteq Laid
    /\ NoCycleIn(Laid)
    /\ LayersAreDepths

LEMMA NodesFinite ==
    ASSUME TypeOK, NEW S \in SUBSET nodes
    PROVE  IsFiniteSet(S) /\ Cardinality(S) \in Nat /\ (Cardinality(S) = 0 <=> S = {})
<1>1. S \in SUBSET Names
  BY DEF TypeOK
<1>2. IsFiniteSet(S)
  BY <1>1, DagAssumption, FS_Subset DEF DagAssumption
<1> QED BY <1>2, FS_CardinalityType, FS_EmptySet

LEMMA StartOfLayers ==
    ASSUME TypeOK, Phases, LayersStart
    PROVE  /\ LayerInv'
           /\ inDegree' \in [Names -> Nat] /\ left' \in SUBSET nodes /\ remaining' \in Nat
<1>1. /\ layers = <<>> /\ layers' = <<>> /\ drawn' = "none" /\ nodes' = nodes
      /\ reverseEdges' = reverseEdges
      /\ inDegree' = Degrees /\ left' = nodes /\ remaining' = Cardinality(nodes)
  BY DEF LayersStart, Phases, graph
<1>2. Laid' = {} /\ Len(layers') = 0
  BY <1>1, EmptyFacts DEF Laid
<1>3. \A m \in Names : Degrees[m] = Cardinality(Waits(m, {})) /\ Degrees[m] \in Nat
  BY DegreesCount, WaitsFacts
<1>4. inDegree' \in [Names -> Nat] /\ remaining' \in Nat
  BY <1>1, <1>3, NodesFinite DEF Degrees
<1>5. LayerCounts'
  <2>1. \A m : Waits(m, Laid)' = Waits(m, {})
    BY <1>1, <1>2 DEF Waits
  <2> QED BY <1>1, <1>2, <1>3, <2>1 DEF LayerCounts
<1>6. LayersAreDepths'
  BY <1>1, <1>2 DEF LayersAreDepths
<1>7. NoCycleIn(Laid)'
  BY <1>2 DEF NoCycleIn
<1> QED BY <1>1, <1>2, <1>4, <1>5, <1>6, <1>7 DEF LayerInv

LEMMA LayerIsTaken ==
    ASSUME TypeOK, EdgesAreMirrored, Phases, LayerInv, NextLayer
    PROVE  /\ LayerInv'
           /\ left' \in SUBSET nodes /\ remaining' \in Nat
           /\ inDegree' \in [Names -> Nat]
           /\ layers' \in Seq((SUBSET nodes) \ {{}})
<1> DEFINE L == Layer
           N == Len(layers)
<1>1. /\ pc = "layers" /\ pc' = "layers" /\ L # {}
      /\ left' = (left \ L) \cup UNION {Elems(edges[n]) : n \in L}
      /\ inDegree' = [m \in Names |-> inDegree[m] - Cardinality(EdgesTo(L, m))]
      /\ remaining' = remaining - Cardinality(L)
      /\ layers' = Append(layers, L)
      /\ nodes' = nodes /\ edges' = edges /\ reverseEdges' = reverseEdges
      /\ drawn = "none" /\ drawn' = "none"
  BY DEF NextLayer, Phases, graph
<1>2. /\ nodes \subseteq Names /\ left = nodes \ Laid /\ remaining = Cardinality(left)
      /\ \A m \in Names : inDegree[m] = Cardinality(Waits(m, Laid))
      /\ layers \in Seq((SUBSET nodes) \ {{}})
  BY <1>1 DEF TypeOK, LayerInv, LayerCounts
<1>3. /\ L \subseteq left /\ L \subseteq nodes /\ L \cap Laid = {}
      /\ \A n \in L : Upstream(n) \subseteq Laid
  <2>1. L \subseteq left /\ L \subseteq nodes /\ L \cap Laid = {}
    BY <1>2 DEF Layer
  <2>2. ASSUME NEW n \in L PROVE Upstream(n) \subseteq Laid
    <3>1. inDegree[n] = 0 /\ n \in Names
      BY <1>2, <2>1 DEF Layer
    <3> QED BY <1>2, <3>1, WaitsFacts
  <2> QED BY <2>1, <2>2
<1> HIDE DEF L
<1>4. /\ layers' \in Seq((SUBSET nodes) \ {{}}) /\ Len(layers') = N + 1
      /\ \A i \in 1..N : layers'[i] = layers[i]
      /\ layers'[N + 1] = L
      /\ Elems(layers') = Elems(layers) \cup {L}
      /\ N \in Nat
  <2>1. L \in (SUBSET nodes) \ {{}}
    BY <1>1, <1>3
  <2> QED BY <1>1, <1>2, <2>1, ElemsAppend, LenProperties
<1>5. Laid' = Laid \cup L
  BY <1>4 DEF Laid
<1>6. ASSUME NEW n \in L, NEW m \in Elems(edges[n])
      PROVE  m \in left \ L
  <2>1. edges[n] \in Seq(nodes) /\ n \in Names
    BY <1>2, <1>3 DEF TypeOK
  <2>2. m \in nodes /\ m \in Names
    BY <1>2, <2>1, ElemsFacts
  <2>3. n \in Upstream(m) /\ n \notin Laid
    BY <1>3, <1>6, <2>1, <2>2, EdgeIsDependency
  <2>4. m \notin Laid /\ m \notin L
    BY <1>3, <2>3 DEF LayerInv
  <2> QED BY <1>2, <2>2, <2>4
<1>7. left' = left \ L /\ left' = nodes \ (Laid \cup L)
  <2>1. UNION {Elems(edges[n]) : n \in L} \subseteq left \ L
    BY <1>6
  <2> QED BY <1>1, <1>2, <2>1
<1>8. ASSUME NEW m \in Names
      PROVE  /\ inDegree'[m] = Cardinality(Waits(m, Laid \cup L))
             /\ inDegree'[m] \in Nat
  <2>1. Cardinality(Waits(m, Laid)) =
            Cardinality(Waits(m, Laid \cup L)) + Cardinality(WaitsIn(m, L))
    BY <1>3, WaitsSplit
  <2>2. Cardinality(EdgesTo(L, m)) = Cardinality(WaitsIn(m, L))
    BY <1>3, EdgesToCount
  <2>3. Cardinality(Waits(m, Laid \cup L)) \in Nat /\ Cardinality(WaitsIn(m, L)) \in Nat
    BY WaitsFacts
  <2>4. inDegree'[m] = inDegree[m] - Cardinality(EdgesTo(L, m))
    BY <1>1
  <2> QED BY <1>2, <2>1, <2>2, <2>3, <2>4
<1>9. remaining' = Cardinality(left') /\ remaining' \in Nat
  <2>1. IsFiniteSet(left) /\ left' \in SUBSET nodes
    BY <1>2, <1>7, NodesFinite
  <2>2. Cardinality(left \ L) = Cardinality(left) - Cardinality(left \cap L)
    BY <2>1, FS_Difference
  <2>3. left \cap L = L
    BY <1>3
  <2>4. remaining' = Cardinality(left) - Cardinality(L)
    BY <1>1, <1>2
  <2>5. Cardinality(left') = Cardinality(left) - Cardinality(L)
    BY <1>7, <2>2, <2>3
  <2>6. Cardinality(left') \in Nat
    BY <1>2, <2>1, NodesFinite
  <2> QED BY <2>4, <2>5, <2>6
<1>10. LayerCounts'
  <2>1. \A m : Waits(m, Laid)' = Waits(m, Laid \cup L)
    BY <1>1, <1>5 DEF Waits
  <2>2. ASSUME NEW n \in left', Upstream(n) \subseteq Laid \cup L
        PROVE  Upstream(n) \cap L # {}
    <3>1. n \in left /\ n \notin L /\ n \in Names
      BY <1>2, <1>7
    <3>2. inDegree[n] # 0
      BY <1>1, <3>1 DEF L, Layer
    <3>3. ~(Upstream(n) \subseteq Laid)
      BY <1>2, <3>1, <3>2, WaitsFacts
    <3> QED BY <2>2, <3>3
  <2>3. layers'[Len(layers')] = L
    BY <1>4
  <2>4. \A n \in left' : Upstream(n)' \subseteq Laid'
                             => Upstream(n)' \cap layers'[Len(layers')] # {}
    BY <1>1, <1>5, <2>2, <2>3, SameUpstream
  <2>5. \A m \in Names : inDegree'[m] = Cardinality(Waits(m, Laid)')
    BY <1>8, <2>1
  <2>6. left' = nodes' \ Laid'
    BY <1>1, <1>5, <1>7
  <2> QED BY <1>9, <2>4, <2>5, <2>6 DEF LayerCounts
<1>11. /\ Laid' \subseteq nodes'
       /\ \A n \in Laid' : Upstream(n)' \subseteq Laid'
       /\ NoCycleIn(Laid)'
  <2>1. \A n \in Laid \cup L : Upstream(n) \subseteq Laid
    BY <1>3 DEF LayerInv
  <2>2. NoCycleIn(Laid \cup L)
    BY <1>3, <2>1, NoCycleGrows DEF LayerInv
  <2>3. \A n \in Laid' : Upstream(n)' \subseteq Laid'
    BY <1>1, <1>5, <2>1, SameUpstream
  <2>4. NoCycleIn(Laid)'
    BY <1>1, <1>5, <2>2, SameUpstream DEF NoCycleIn
  <2> QED BY <1>1, <1>3, <1>5, <2>3, <2>4 DEF LayerInv
<1>12. LayersAreDepths'
  <2>1. \A i \in 1..N : layers[i] \subseteq Laid
    BY DEF Laid, Elems
  <2>2. \A i, j \in 1..(N + 1) : i # j => layers'[i] \cap layers'[j] = {}
    <3> SUFFICES ASSUME NEW i \in 1..(N + 1), NEW j \in 1..(N + 1), i # j
                 PROVE  layers'[i] \cap layers'[j] = {}
      OBVIOUS
    <3>1. CASE i \in 1..N /\ j \in 1..N
      BY <1>4, <3>1 DEF LayerInv, LayersAreDepths
    <3>2. CASE i = N + 1
      <4>1. j \in 1..N
        BY <1>4, <3>2
      <4> QED BY <1>3, <1>4, <2>1, <3>2, <4>1
    <3>3. CASE j = N + 1
      <4>1. i \in 1..N
        BY <1>4, <3>3
      <4> QED BY <1>3, <1>4, <2>1, <3>3, <4>1
    <3> QED BY <1>4, <3>1, <3>2, <3>3
  <2>3. ASSUME NEW i \in 1..(N + 1), NEW n \in layers'[i]
        PROVE  /\ Upstream(n) \subseteq UNION {layers'[j] : j \in 1..(i - 1)}
               /\ i > 1 => Upstream(n) \cap layers'[i - 1] # {}
    <3>1. CASE i \in 1..N
      <4>1. n \in layers[i]
        BY <1>4, <2>3, <3>1
      <4>2. /\ Upstream(n) \subseteq UNION {layers[j] : j \in 1..(i - 1)}
            /\ i > 1 => Upstream(n) \cap layers[i - 1] # {}
        BY <3>1, <4>1 DEF LayerInv, LayersAreDepths
      <4>3. \A j \in 1..(i - 1) : layers[j] = layers'[j]
        BY <1>4, <3>1
      <4>4. i > 1 => i - 1 \in 1..(i - 1)
        BY <1>4, <3>1
      <4> QED BY <4>2, <4>3, <4>4
    <3>2. CASE i = N + 1
      <4>1. n \in L /\ Upstream(n) \subseteq Laid
        BY <1>3, <1>4, <2>3, <3>2
      <4>2. \A j \in 1..N : layers[j] = layers'[j]
        BY <1>4
      <4>3. Laid = UNION {layers'[j] : j \in 1..N}
        BY <4>2 DEF Laid, Elems
      <4>4. N > 0 => Upstream(n) \cap layers[N] # {} /\ N \in 1..N
        BY <1>1, <1>3, <1>4, <4>1 DEF LayerInv, LayerCounts
      <4>5. i - 1 = N
        BY <1>4, <3>2
      <4> QED BY <1>4, <4>1, <4>2, <4>3, <4>4, <4>5
    <3> QED BY <1>4, <3>1, <3>2
  <2>4. \A i \in 1..Len(layers') : \A n \in layers'[i] :
            /\ Upstream(n)' \subseteq UNION {layers'[j] : j \in 1..(i - 1)}
            /\ i > 1 => Upstream(n)' \cap layers'[i - 1] # {}
    BY <1>1, <1>4, <2>3, SameUpstream
  <2>5. \A i, j \in 1..Len(layers') : i # j => layers'[i] \cap layers'[j] = {}
    BY <1>4, <2>2
  <2>6. drawn' = "none"
    BY <1>1
  <2> QED BY <2>4, <2>5, <2>6 DEF LayersAreDepths
<1> QED BY <1>4, <1>7, <1>8, <1>9, <1>10, <1>11, <1>12, <1>1 DEF LayerInv

LEMMA EndOfLayers ==
    ASSUME TypeOK, Phases, LayerInv, LayersEnd
    PROVE  LayerInv'
<1>1. /\ pc = "layers" /\ pc' = "done" /\ layers' = layers /\ nodes' = nodes
      /\ reverseEdges' = reverseEdges
      /\ remaining <= 0 \/ Layer = {}
      /\ drawn' = IF remaining <= 0 THEN "ok" ELSE "cycle"
  BY DEF LayersEnd, graph, layout
<1>2. /\ left = nodes \ Laid /\ remaining = Cardinality(left) /\ left \subseteq nodes
      /\ Laid \subseteq nodes /\ nodes \subseteq Names
      /\ \A m \in Names : inDegree[m] = Cardinality(Waits(m, Laid))
  BY <1>1 DEF LayerInv, LayerCounts, TypeOK
<1>3. Cardinality(left) \in Nat /\ (Cardinality(left) = 0 <=> left = {})
  BY <1>2, NodesFinite
<1>4. drawn' = "ok" => Laid = nodes
  BY <1>1, <1>2, <1>3
<1>5. ASSUME drawn' = "cycle"
      PROVE  Cyclic \/ \E n \in nodes : ~(Upstream(n) \subseteq nodes)
  <2>1. Layer = {} /\ left # {}
    BY <1>1, <1>2, <1>3, <1>5
  <2>2. ASSUME NEW n \in left PROVE ~(Upstream(n) \subseteq Laid)
    <3>1. inDegree[n] # 0 /\ n \in Names
      BY <1>2, <2>1 DEF Layer
    <3> QED BY <1>2, <3>1, WaitsFacts
  <2>3. CASE \A n \in nodes : Upstream(n) \subseteq nodes
    <3>1. \A n \in left : Upstream(n) \cap left # {}
      BY <1>2, <2>2, <2>3
    <3> QED BY <1>2, <2>1, <3>1 DEF Cyclic
  <2> QED BY <2>3
<1>6. LayersAreDepths'
  <2>1. Cyclic' <=> Cyclic
    BY <1>1, SameUpstream DEF Cyclic
  <2>2. drawn' = "ok" => UNION Elems(layers') = nodes'
    BY <1>1, <1>4 DEF Laid
  <2>3. drawn' = "cycle" => Cyclic' \/ \E n \in nodes' : ~(Upstream(n)' \subseteq nodes')
    BY <1>1, <1>5, <2>1, SameUpstream
  <2> QED BY <1>1, <2>2, <2>3, SameUpstream DEF LayersAreDepths, LayerInv
<1>7. Laid' = Laid /\ (NoCycleIn(Laid)' <=> NoCycleIn(Laid))
  BY <1>1, SameUpstream DEF Laid, NoCycleIn
<1> QED BY <1>1, <1>6, <1>7, SameUpstream DEF LayerInv, LayerCounts

-----------------------------------------------------------------------------
(***************************************************************************)
(* The queue is first come, first served: of two nodes that were queued one*)
(* after the other, what the first waited for was sorted no later than     *)
(* something that the second waited for.                                   *)
(***************************************************************************)
Line == sorted \o queue

FirstCome ==
    /\ \A i \in 1..Len(Line) : Upstream(Line[i]) \subseteq Sorted
    /\ \A i, j \in 1..Len(Line), p \in 1..Len(sorted) :
          i < j /\ sorted[p] \in Upstream(Line[i])
              => \E q \in p..Len(sorted) : sorted[q] \in Upstream(Line[j])

LEMMA FirstComeStarts ==
    ASSUME TypeOK, Phases, SortInv, SortStarts
    PROVE  FirstCome'
<1>1. /\ sorted = <<>> /\ sorted' = <<>> /\ reverseEdges' = reverseEdges
  BY DEF SortStarts, Phases, graph
<1>2. queue' \in Seq(nodes) /\ Elems(queue') = Roots
  BY StartOfSort DEF SortStarts, Orders
<1>3. Line' = queue' /\ Len(sorted') = 0
  BY <1>1, <1>2, ConcatEmptySeq, EmptyFacts DEF Line
<1>4. ASSUME NEW i \in 1..Len(Line')
      PROVE  Upstream(Line'[i]) = {}
  <2>1. Line'[i] \in Roots
    BY <1>2, <1>3, ElemsFacts
  <2>2. Line'[i] \in Names /\ Degrees[Line'[i]] = 0
    BY <2>1 DEF Roots, TypeOK
  <2>3. Cardinality(Waits(Line'[i], {})) = 0
    BY <2>2, DegreesCount
  <2> QED BY <2>2, <2>3, WaitsFacts
<1>5. \A n : Upstream(n)' = Upstream(n)
  BY <1>1, SameUpstream
<1> QED BY <1>3, <1>4, <1>5 DEF FirstCome

LEMMA FirstComeSorted ==
    ASSUME TypeOK, EdgesAreMirrored, Phases, SortInv, FirstCome, SortNode
    PROVE  FirstCome'
<1> DEFINE h == Head(queue)
<1>1. /\ pc = "sort" /\ queue # <<>> /\ sorted' = Append(sorted, h) /\ queue' = Tail(queue)
      /\ reverseEdges' = reverseEdges
  BY DEF SortNode, graph
<1>2. sorted \in Seq(nodes) /\ queue \in Seq(nodes) /\ Len(sorted) \in Nat
  BY LenProperties DEF TypeOK
<1>3. /\ h \in nodes /\ <<h>> \in Seq(nodes) /\ Tail(queue) \in Seq(nodes)
      /\ queue = <<h>> \o Tail(queue) /\ h \in Elems(queue)
  BY <1>1, <1>2, HeadAndTail, ElemsTail
<1>4. h \notin Sorted
  BY <1>1, <1>3 DEF SortInv, SortCounts, Elems
<1> HIDE DEF h
<1>5. Line' = Line
  <2>1. Append(sorted, h) = sorted \o <<h>>
    <3>1. /\ sorted \o <<h>> \in Seq(nodes)
          /\ Len(sorted \o <<h>>) = Len(sorted) + 1
          /\ \A i \in 1..(Len(sorted) + 1) : (sorted \o <<h>>)[i] =
                 IF i <= Len(sorted) THEN sorted[i] ELSE <<h>>[i - Len(sorted)]
      <4>1. Len(<<h>>) = 1
        OBVIOUS
      <4> QED BY <1>2, <1>3, <4>1, ConcatProperties
    <3>2. /\ Append(sorted, h) \in Seq(nodes)
          /\ Len(Append(sorted, h)) = Len(sorted) + 1
          /\ \A i \in 1..Len(sorted) : Append(sorted, h)[i] = sorted[i]
          /\ Append(sorted, h)[Len(sorted) + 1] = h
      BY <1>2, <1>3, ElemsAppend
    <3>3. \A i \in 1..Len(Append(sorted, h)) : Append(sorted, h)[i] = (sorted \o <<h>>)[i]
      <4> SUFFICES ASSUME NEW i \in 1..(Len(sorted) + 1)
                   PROVE  Append(sorted, h)[i] = (sorted \o <<h>>)[i]
        BY <3>2
      <4>1. CASE i = Len(sorted) + 1
        <5>1. (sorted \o <<h>>)[i] = <<h>>[1]
          BY <1>2, <3>1, <4>1
        <5> QED BY <3>2, <4>1, <5>1
      <4>2. CASE i \in 1..Len(sorted)
        BY <1>2, <3>1, <3>2, <4>2
      <4> QED BY <1>2, <4>1, <4>2
    <3> QED BY <3>1, <3>2, <3>3, SeqEqual
  <2>2. (sorted \o <<h>>) \o Tail(queue) = sorted \o (<<h>> \o Tail(queue))
    BY <1>2, <1>3, ConcatAssociative
  <2> QED BY <1>1, <1>3, <2>1, <2>2 DEF Line
<1>6. /\ Len(sorted') = Len(sorted) + 1 /\ sorted'[Len(sorted) + 1] = h
      /\ \A i \in 1..Len(sorted) : sorted'[i] = sorted[i]
      /\ Sorted' = Sorted \cup {h}
  BY <1>1, <1>2, <1>3, ElemsAppend DEF Sorted
<1>7. \A i \in 1..Len(Line) : Upstream(Line[i]) \subseteq Sorted
  BY DEF FirstCome
<1>8. ASSUME NEW i \in 1..Len(Line), NEW j \in 1..Len(Line), NEW p \in 1..Len(sorted'),
             i < j, sorted'[p] \in Upstream(Line[i])
      PROVE  \E q \in p..Len(sorted') : sorted'[q] \in Upstream(Line[j])
  <2>1. p \in 1..Len(sorted) /\ sorted'[p] = sorted[p]
    BY <1>2, <1>4, <1>6, <1>7, <1>8
  <2>2. PICK q \in p..Len(sorted) : sorted[q] \in Upstream(Line[j])
    BY <1>8, <2>1 DEF FirstCome
  <2>3. q \in 1..Len(sorted) /\ q \in p..Len(sorted')
    BY <1>2, <1>6, <2>1, <2>2
  <2> QED BY <1>6, <2>2, <2>3
<1>9. \A n : Upstream(n)' = Upstream(n)
  BY <1>1, SameUpstream
<1> QED BY <1>5, <1>6, <1>7, <1>8, <1>9 DEF FirstCome

LEMMA FirstComeQueued ==
    ASSUME TypeOK, EdgesAreMirrored, Phases, SortInv, FirstCome, SortEdge
    PROVE  FirstCome'
<1> DEFINE t == Head(todo)
<1>1. /\ pc = "sort" /\ pc' = "sort" /\ todo # <<>> /\ sorted' = sorted
      /\ queue' = IF inDegree'[t] = 0 THEN Append(queue, t) ELSE queue
      /\ reverseEdges' = reverseEdges
  BY DEF SortEdge, graph
<1>2. /\ sorted \in Seq(nodes) /\ queue \in Seq(nodes) /\ todo \in Seq(nodes)
      /\ nodes \subseteq Names /\ Len(sorted) \in Nat
  BY LenProperties DEF TypeOK
<1>3. t \in nodes /\ t \in Elems(todo)
  BY <1>1, <1>2, ElemsTail
<1>4. Len(sorted) > 0 /\ sorted[Len(sorted)] \in Upstream(t)
  BY <1>1, <1>3 DEF SortInv, SortCounts
<1> HIDE DEF t
<1>5. Line \in Seq(nodes) /\ Len(Line) \in Nat
  BY <1>2, ConcatProperties, LenProperties DEF Line
<1>6. Sorted' = Sorted /\ \A n : Upstream(n)' = Upstream(n)
  BY <1>1, SameUpstream DEF Sorted
<1>7. CASE inDegree'[t] # 0
  <2>1. Line' = Line
    BY <1>1, <1>7 DEF Line
  <2> QED BY <1>1, <1>6, <2>1 DEF FirstCome
<1>8. CASE inDegree'[t] = 0
  <2>1. Upstream(t) \subseteq Sorted
    <3>1. SortInv'
      BY EdgeIsVisited
    <3>2. \A n \in Names : inDegree'[n] = Cardinality(Waits(n, Sorted)') + Count(todo', n)
      BY <1>1, <3>1 DEF SortInv, SortCounts
    <3>3. \A n : Waits(n, Sorted)' = Waits(n, Sorted)
      BY <1>1, <1>6 DEF Waits
    <3>4. Cardinality(Waits(t, Sorted)) \in Nat
      BY <1>2, <1>3, WaitsFacts
    <3>5. todo' \in Seq(nodes)
      BY EdgeIsVisited
    <3>6. Count(todo', t) \in Nat
      BY <3>5, CountType
    <3>7. Cardinality(Waits(t, Sorted)) = 0
      BY <1>2, <1>3, <1>8, <3>2, <3>3, <3>4, <3>6
    <3> QED BY <1>2, <1>3, <3>7, WaitsFacts
  <2>2. /\ Len(Line') = Len(Line) + 1 /\ Line'[Len(Line) + 1] = t
        /\ \A i \in 1..Len(Line) : Line'[i] = Line[i]
    <3> DEFINE more == Append(queue, t)
    <3>1. /\ more \in Seq(nodes) /\ Len(more) = Len(queue) + 1
          /\ \A i \in 1..Len(queue) : more[i] = queue[i]
          /\ more[Len(queue) + 1] = t /\ Len(queue) \in Nat
      BY <1>2, <1>3, ElemsAppend, LenProperties
    <3> HIDE DEF more
    <3>2. /\ Len(sorted \o more) = Len(sorted) + (Len(queue) + 1)
          /\ \A i \in 1..(Len(sorted) + (Len(queue) + 1)) : (sorted \o more)[i] =
                 IF i <= Len(sorted) THEN sorted[i] ELSE more[i - Len(sorted)]
      <4>1. /\ Len(sorted \o more) = Len(sorted) + Len(more)
            /\ \A i \in 1..(Len(sorted) + Len(more)) : (sorted \o more)[i] =
                   IF i <= Len(sorted) THEN sorted[i] ELSE more[i - Len(sorted)]
        BY <1>2, <3>1, ConcatProperties
      <4> QED BY <3>1, <4>1
    <3>3. /\ Len(Line) = Len(sorted) + Len(queue)
          /\ \A i \in 1..(Len(sorted) + Len(queue)) : Line[i] =
                 IF i <= Len(sorted) THEN sorted[i] ELSE queue[i - Len(sorted)]
      BY <1>2, ConcatProperties DEF Line
    <3>4. Line' = sorted \o more
      BY <1>1, <1>8 DEF Line, more
    <3>5. Line'[Len(Line) + 1] = more[Len(queue) + 1]
      <4>1. Len(Line) + 1 \in 1..(Len(sorted) + (Len(queue) + 1))
            /\ ~(Len(Line) + 1 <= Len(sorted))
            /\ (Len(Line) + 1) - Len(sorted) = Len(queue) + 1
        BY <1>2, <3>1, <3>3
      <4> QED BY <3>2, <3>4, <4>1
    <3>6. ASSUME NEW i \in 1..Len(Line) PROVE Line'[i] = Line[i]
      <4>1. CASE i <= Len(sorted)
        BY <1>2, <3>1, <3>2, <3>3, <3>4, <4>1
      <4>2. CASE ~(i <= Len(sorted))
        <5>1. i - Len(sorted) \in 1..Len(queue)
              /\ i \in 1..(Len(sorted) + (Len(queue) + 1))
          BY <1>2, <3>1, <3>3, <4>2
        <5>2. Line'[i] = more[i - Len(sorted)]
          BY <3>2, <3>4, <4>2, <5>1
        <5> QED BY <3>1, <3>3, <4>2, <5>1, <5>2
      <4> QED BY <4>1, <4>2
    <3>7. Len(Line') = Len(Line) + 1
      BY <1>2, <3>1, <3>2, <3>3, <3>4
    <3> QED BY <3>1, <3>5, <3>6, <3>7
  <2>3. \A i \in 1..Len(Line') : Upstream(Line'[i]) \subseteq Sorted
    BY <1>5, <2>1, <2>2 DEF FirstCome
  <2>4. ASSUME NEW i \in 1..Len(Line'), NEW j \in 1..Len(Line'), NEW p \in 1..Len(sorted),
               i < j, sorted[p] \in Upstream(Line'[i])
        PROVE  \E q \in p..Len(sorted) : sorted[q] \in Upstream(Line'[j])
    <3>1. i \in 1..Len(Line)
      BY <1>5, <2>2, <2>4
    <3>2. CASE j \in 1..Len(Line)
      BY <2>2, <2>4, <3>1, <3>2 DEF FirstCome
    <3>3. CASE j = Len(Line) + 1
      <4>1. Len(sorted) \in p..Len(sorted)
        BY <1>2
      <4> QED BY <1>4, <2>2, <3>3, <4>1
    <3> QED BY <1>5, <2>2, <3>2, <3>3
  <2> QED BY <1>1, <1>6, <2>3, <2>4 DEF FirstCome
<1> QED BY <1>7, <1>8

(***************************************************************************)
(* So no node is in a later layer than one that was sorted after it.       *)
(***************************************************************************)
LayersFollow ==
    \A i, j \in 1..Len(sorted), l \in 1..Len(layers) :
        i < j /\ sorted[j] \in layers[l] => \E k \in 1..l : sorted[i] \in layers[k]

LEMMA LayersStillFollow ==
    ASSUME TypeOK, EdgesAreMirrored, Phases, SortInv, FirstCome, LayerInv, LayersFollow,
           NextLayer
    PROVE  LayersFollow'
<1> DEFINE L == Layer
           N == Len(layers)
<1>1. /\ pc = "layers" /\ queue = <<>> /\ sorted' = sorted
      /\ layers' = Append(layers, L) /\ L # {}
  BY DEF NextLayer, Phases, kahn
<1>2. /\ sorted \in Seq(nodes) /\ layers \in Seq((SUBSET nodes) \ {{}}) /\ N \in Nat
      /\ nodes \subseteq Names /\ left = nodes \ Laid /\ Len(sorted) \in Nat
      /\ \A m \in Names : inDegree[m] = Cardinality(Waits(m, Laid))
  BY <1>1, LenProperties DEF TypeOK, LayerInv, LayerCounts
<1>3. L \subseteq nodes /\ \A n \in left : n \in L <=> Upstream(n) \subseteq Laid
  <2>1. \A n \in left : inDegree[n] = 0 <=> Upstream(n) \subseteq Laid
    BY <1>2, WaitsFacts
  <2> QED BY <1>2, <2>1 DEF Layer
<1>4. \A n \in L : Upstream(n) \subseteq Laid
  BY <1>3 DEF Layer
<1> HIDE DEF L
<1>5. /\ Len(layers') = N + 1 /\ layers'[N + 1] = L
      /\ \A l \in 1..N : layers'[l] = layers[l]
  <2>1. L \in (SUBSET nodes) \ {{}}
    BY <1>1, <1>3
  <2> QED BY <1>1, <1>2, <2>1, ElemsAppend
<1>6. Line = sorted
  BY <1>1, <1>2, ConcatEmptySeq DEF Line
<1>7. ASSUME NEW p \in 1..Len(sorted), NEW q \in p..Len(sorted), sorted[q] \in Laid
      PROVE  sorted[p] \in Laid
  <2>1. PICK l \in 1..N : sorted[q] \in layers[l]
    BY <1>7 DEF Laid, Elems
  <2>2. CASE p < q
    <3>1. PICK k \in 1..l : sorted[p] \in layers[k]
      BY <1>2, <2>1, <2>2 DEF LayersFollow
    <3>2. k \in 1..N
      BY <1>2, <2>1, <3>1
    <3> QED BY <3>1, <3>2 DEF Laid, Elems
  <2> QED BY <1>7, <2>2
<1>8. ASSUME NEW i \in 1..Len(sorted), NEW j \in 1..Len(sorted), i < j, sorted[j] \in L
      PROVE  sorted[i] \in Laid \cup L
  <2> SUFFICES ASSUME sorted[i] \notin Laid PROVE Upstream(sorted[i]) \subseteq Laid
    <3>1. sorted[i] \in nodes
      BY <1>2, ElemsFacts
    <3> QED BY <1>2, <1>3, <3>1
  <2> SUFFICES ASSUME NEW u \in Upstream(sorted[i]) PROVE u \in Laid
    OBVIOUS
  <2>1. PICK p \in 1..Len(sorted) : u = sorted[p]
    BY <1>6 DEF FirstCome, Sorted, Elems
  <2>2. PICK q \in p..Len(sorted) : sorted[q] \in Upstream(sorted[j])
    BY <1>6, <1>8, <2>1 DEF FirstCome
  <2> QED BY <1>4, <1>7, <1>8, <2>1, <2>2
<1>9. ASSUME NEW i \in 1..Len(sorted), NEW j \in 1..Len(sorted), NEW l \in 1..(N + 1),
             i < j, sorted[j] \in layers'[l]
      PROVE  \E k \in 1..l : sorted[i] \in layers'[k]
  <2>1. CASE l \in 1..N
    <3>1. PICK k \in 1..l : sorted[i] \in layers[k]
      BY <1>5, <1>9, <2>1 DEF LayersFollow
    <3>2. k \in 1..N
      BY <1>2, <2>1, <3>1
    <3> QED BY <1>5, <3>1, <3>2
  <2>2. CASE l = N + 1
    <3>1. sorted[i] \in Laid \cup L
      BY <1>5, <1>8, <1>9, <2>2
    <3>2. CASE sorted[i] \in L
      <4>1. N + 1 \in 1..l
        BY <1>2, <2>2
      <4> QED BY <1>5, <3>2, <4>1
    <3>3. CASE sorted[i] \in Laid
      <4>1. PICK k \in 1..N : sorted[i] \in layers[k]
        BY <3>3 DEF Laid, Elems
      <4>2. k \in 1..l
        BY <1>2, <2>2, <4>1
      <4> QED BY <1>5, <4>1, <4>2
    <3> QED BY <3>1, <3>2, <3>3
  <2> QED BY <1>2, <2>1, <2>2
<1> HIDE DEF N
<1> QED BY <1>1, <1>5, <1>9, SMTT(30) DEF LayersFollow

-----------------------------------------------------------------------------
(***************************************************************************)
(* The inductive invariant.                                                *)
(***************************************************************************)
IndInv ==
    /\ TypeOK
    /\ EdgesAreMirrored
    /\ Phases
    /\ SortInv
    /\ FirstCome
    /\ ValidateIsExact
    /\ LayerInv
    /\ LayersFollow

LEMMA EmptyIsSeq == \A S : <<>> \in Seq(S)
BY EmptySeq

LEMMA NothingSorted ==
    ASSUME sorted' = <<>>, queue' = <<>>, pc' # "sort", verdict' # "ok"
    PROVE  SortInv' /\ FirstCome'
<1>1. Len(sorted') = 0 /\ Sorted' = {}
  BY EmptyFacts DEF Sorted
<1>2. Line' = <<>> /\ Len(Line') = 0
  <2>1. <<>> \in Seq({}) /\ Len(<<>>) = 0
    BY EmptyFacts
  <2>2. <<>> \o <<>> = <<>>
    BY <2>1, ConcatEmptySeq
  <2> QED BY <2>1, <2>2 DEF Line
<1>3. SortIsTopological'
  BY <1>1 DEF SortIsTopological
<1>4. NoCycleIn(Sorted)'
  BY <1>1 DEF NoCycleIn
<1> QED BY <1>1, <1>2, <1>3, <1>4 DEF SortInv, SortCounts, FirstCome

LEMMA NothingLaid ==
    ASSUME layers' = <<>>, drawn' = "none", pc' # "layers"
    PROVE  LayerInv' /\ LayersFollow'
<1>1. Len(layers') = 0 /\ Laid' = {}
  BY EmptyFacts DEF Laid
<1>2. LayersAreDepths' /\ LayersFollow'
  BY <1>1 DEF LayersAreDepths, LayersFollow
<1>3. NoCycleIn(Laid)'
  BY <1>1 DEF NoCycleIn
<1> QED BY <1>1, <1>2, <1>3 DEF LayerInv, LayerCounts

LEMMA SameSort ==
    ASSUME sorted' = sorted, queue' = queue, reverseEdges' = reverseEdges, nodes' = nodes,
           verdict' = verdict, pc # "sort", pc' # "sort", SortInv, FirstCome
    PROVE  SortInv' /\ FirstCome'
<1>1. Line' = Line /\ Sorted' = Sorted /\ \A n : Upstream(n)' = Upstream(n)
  BY SameUpstream DEF Line, Sorted
<1>2. SortIsTopological'
  BY SameUpstream, SMTT(30) DEF SortInv, SortIsTopological, Sorted
<1>3. NoCycleIn(Sorted)'
  BY SameUpstream DEF SortInv, NoCycleIn, Sorted
<1> QED BY <1>1, <1>2, <1>3 DEF SortInv, SortCounts, FirstCome

LEMMA SameVerdict ==
    ASSUME verdict' = verdict, nodes' = nodes, reverseEdges' = reverseEdges,
           targets' = targets, ValidateIsExact
    PROVE  ValidateIsExact'
<1>1. Cyclic' <=> Cyclic
  BY SameUpstream DEF Cyclic
<1>2. \A n : Upstream(n)' = Upstream(n)
  BY SameUpstream
<1> QED BY <1>1, <1>2 DEF ValidateIsExact, LoadErrors

LEMMA NoVerdict ==
    ASSUME verdict' \notin {"ok", "cycle"} \cup LoadErrors
    PROVE  ValidateIsExact'
BY DEF ValidateIsExact, LoadErrors

LEMMA SameEdges ==
    ASSUME edges' = edges, reverseEdges' = reverseEdges, EdgesAreMirrored
    PROVE  EdgesAreMirrored'
BY DEF EdgesAreMirrored

LEMMA StepAddNode ==
    ASSUME IndInv, Phases',
           NEW name \in Names, NEW opt \in Options, AddNode(name, opt)
    PROVE  IndInv'
<1> USE DEF IndInv
<1>1. opt \in OptionRecords
  BY DagAssumption DEF DagAssumption, OptionRecords
<1>2. /\ Added(name, opt) /\ pc = "build" /\ pc' = "build"
      /\ sorted' = <<>> /\ queue' = <<>> /\ todo' = <<>> /\ layers' = <<>> /\ left' = {}
      /\ verdict' = "none" /\ drawn' = "none"
      /\ config' = config /\ inDegree' = inDegree /\ remaining' = remaining
  BY DEF AddNode, Phases, kahn, layout
<1>3. /\ EdgesAreMirrored'
      /\ nodes' \in SUBSET Names /\ edges' \in [Names -> Seq(nodes')]
      /\ reverseEdges' \in [Names -> Seq(Names)]
      /\ both' \in SUBSET nodes' /\ targets' \in [Names -> SUBSET Names]
  BY <1>1, <1>2, AddedKeepsGraph
<1>4. TypeOK'
  BY <1>2, <1>3, EmptyIsSeq DEF TypeOK
<1>5. SortInv' /\ FirstCome' /\ LayerInv' /\ LayersFollow'
  BY <1>2, NothingSorted, NothingLaid
<1>6. ValidateIsExact'
  BY <1>2, NoVerdict DEF LoadErrors
<1> QED BY <1>3, <1>4, <1>5, <1>6

EntryRecords ==
    [name : Names, fn : {"function", "nil", "none"}, malformed : BOOLEAN, deps : Seq(Names)]

LEMMA StepLoad ==
    ASSUME IndInv, Phases',
           \/ \E cfg \in Configs : LoadStarts(cfg)
           \/ LoadEntry \/ LoadFails \/ LoadEnds
    PROVE  IndInv'
<1> USE DEF IndInv
<1>1. /\ sorted' = <<>> /\ queue' = <<>> /\ todo' = <<>> /\ layers' = <<>> /\ left' = {}
      /\ drawn' = "none" /\ pc' \in {"build", "load", "done"}
      /\ inDegree' = inDegree /\ remaining' = remaining
  BY DEF LoadStarts, LoadEntry, LoadFails, LoadEnds, Phases, kahn, layout
<1>2. SortInv' /\ FirstCome' /\ LayerInv' /\ LayersFollow'
  <2>1. verdict' # "ok"
    BY DEF LoadStarts, LoadEntry, LoadFails, LoadEnds, Phases, EntryFault
  <2> QED BY <1>1, <2>1, NothingSorted, NothingLaid
<1>3. CASE (\E cfg \in Configs : LoadStarts(cfg)) \/ LoadEnds
  <2>1. /\ edges' = edges /\ reverseEdges' = reverseEdges /\ nodes' = nodes
        /\ both' = both /\ targets' = targets /\ verdict' = verdict
        /\ config' \in Configs \cup {config}
    BY <1>3 DEF LoadStarts, LoadEnds, graph
  <2>2. TypeOK'
    <3>1. config' \in Seq(EntryRecords)
      BY <2>1, DagAssumption DEF TypeOK, DagAssumption, EntryRecords
    <3> QED BY <1>1, <2>1, <3>1, EmptyIsSeq DEF TypeOK, EntryRecords
  <2> QED BY <1>2, <2>1, <2>2, SameEdges, SameVerdict
<1>4. CASE LoadEntry
  <2> DEFINE entry == Head(config)
             opt == [deps |-> entry.deps, both |-> FALSE, targets |-> {}]
  <2>1. entry \in EntryRecords /\ Tail(config) \in Seq(EntryRecords)
    BY <1>4, HeadTailProperties DEF LoadEntry, TypeOK, EntryRecords
  <2>2. opt \in OptionRecords /\ entry.name \in Names
    BY <2>1 DEF EntryRecords, OptionRecords
  <2>3. /\ Added(entry.name, opt) /\ config' = Tail(config)
        /\ verdict' = "none" /\ pc' = "load"
    BY <1>4 DEF LoadEntry, Phases
  <2> HIDE DEF entry, opt
  <2>4. /\ EdgesAreMirrored'
        /\ nodes' \in SUBSET Names /\ edges' \in [Names -> Seq(nodes')]
        /\ reverseEdges' \in [Names -> Seq(Names)]
        /\ both' \in SUBSET nodes' /\ targets' \in [Names -> SUBSET Names]
    BY <2>2, <2>3, AddedKeepsGraph
  <2>5. TypeOK'
    BY <1>1, <2>1, <2>3, <2>4, EmptyIsSeq DEF TypeOK, EntryRecords
  <2>6. ValidateIsExact'
    BY <2>3, NoVerdict DEF LoadErrors
  <2> QED BY <1>2, <2>4, <2>5, <2>6
<1>5. CASE LoadFails
  <2>1. /\ nodes' = {} /\ edges' = [d \in Names |-> <<>>]
        /\ reverseEdges' = [n \in Names |-> <<>>]
        /\ both' = {} /\ targets' = targets /\ config' = <<>>
        /\ verdict' \in LoadErrors /\ pc' = "done"
    BY <1>5 DEF LoadFails, Phases, EntryFault, LoadErrors
  <2>2. \A S : <<>> \in Seq(S)
    BY EmptyFacts
  <2>3. TypeOK'
    BY <1>1, <2>1, <2>2, EmptyIsSeq DEF TypeOK
  <2>4. EdgesAreMirrored'
    BY <2>1, EmptyFacts DEF EdgesAreMirrored
  <2>5. ValidateIsExact'
    BY <2>1 DEF ValidateIsExact, LoadErrors
  <2> QED BY <1>2, <2>3, <2>4, <2>5
<1> QED BY <1>3, <1>4, <1>5

LEMMA StepValidate ==
    ASSUME IndInv, Phases', Validate
    PROVE  IndInv'
<1> USE DEF IndInv
<1>1. /\ edges' = edges /\ reverseEdges' = reverseEdges /\ nodes' = nodes
      /\ both' = both /\ targets' = targets /\ config' = config
      /\ layers' = <<>> /\ left' = {} /\ remaining' = remaining /\ drawn' = "none"
      /\ pc' \in {"rejected", "sort", "validated"}
  BY DEF Validate, ValidateRejects, SortStarts, SortNode, SortEdge, SortEnds, graph, layout,
         Phases
<1>2. EdgesAreMirrored' /\ LayerInv' /\ LayersFollow'
  BY <1>1, SameEdges, NothingLaid
<1>3. CASE ValidateRejects
  <2>1. /\ verdict' \in {"empty", "dependency missing", "route and condition",
                         "unknown downstream"}
        /\ sorted' = <<>> /\ queue' = <<>> /\ todo' = <<>> /\ inDegree' = inDegree
        /\ pc' = "rejected"
    BY <1>3 DEF ValidateRejects, Phases, Faults, Fault, kahn
  <2>2. TypeOK'
    BY <1>1, <2>1, EmptyIsSeq DEF TypeOK
  <2>3. SortInv' /\ FirstCome' /\ ValidateIsExact'
    BY <2>1, NothingSorted, NoVerdict DEF LoadErrors
  <2> QED BY <1>2, <2>2, <2>3
<1>4. CASE SortStarts
  <2>1. todo' = todo /\ sorted' = sorted /\ verdict' = verdict /\ verdict' = "none"
    BY <1>4 DEF SortStarts, Phases
  <2>2. SortInv' /\ FirstCome' /\ inDegree' \in [Names -> Nat] /\ queue' \in Seq(nodes)
    BY <1>4, StartOfSort, FirstComeStarts
  <2>3. TypeOK'
    BY <1>1, <2>1, <2>2, EmptyIsSeq DEF TypeOK
  <2> QED BY <1>2, <2>1, <2>2, <2>3, NoVerdict DEF LoadErrors
<1>5. CASE SortNode
  <2>1. inDegree' = inDegree /\ verdict' = verdict /\ verdict' = "none"
    BY <1>5 DEF SortNode, Phases
  <2>2. /\ SortInv' /\ FirstCome'
        /\ sorted' \in Seq(nodes) /\ queue' \in Seq(nodes) /\ todo' \in Seq(nodes)
    BY <1>5, NodeIsSorted, FirstComeSorted
  <2>3. TypeOK'
    BY <1>1, <2>1, <2>2, EmptyIsSeq DEF TypeOK
  <2> QED BY <1>2, <2>1, <2>2, <2>3, NoVerdict DEF LoadErrors
<1>6. CASE SortEdge
  <2>1. sorted' = sorted /\ verdict' = verdict /\ verdict' = "none"
    BY <1>6 DEF SortEdge, Phases
  <2>2. /\ SortInv' /\ FirstCome'
        /\ inDegree' \in [Names -> Nat] /\ queue' \in Seq(nodes) /\ todo' \in Seq(nodes)
    BY <1>6, EdgeIsVisited, FirstComeQueued
  <2>3. TypeOK'
    BY <1>1, <2>1, <2>2, EmptyIsSeq DEF TypeOK
  <2> QED BY <1>2, <2>1, <2>2, <2>3, NoVerdict DEF LoadErrors
<1>7. CASE SortEnds
  <2>1. sorted' = sorted /\ queue' = queue /\ todo' = todo /\ inDegree' = inDegree
        /\ verdict' \in {"ok", "cycle"}
    BY <1>7 DEF SortEnds, kahn
  <2>2. SortInv' /\ ValidateIsExact'
    BY <1>7, EndOfSort
  <2>3. FirstCome'
    BY <1>1, <2>1, SameUpstream DEF FirstCome, Line, Sorted
  <2>4. TypeOK'
    BY <1>1, <2>1, EmptyIsSeq DEF TypeOK
  <2> QED BY <1>2, <2>2, <2>3, <2>4
<1> QED BY <1>3, <1>4, <1>5, <1>6, <1>7 DEF Validate

LEMMA StepDraw ==
    ASSUME IndInv, Phases', Draw
    PROVE  IndInv'
<1> USE DEF IndInv
<1>1. /\ edges' = edges /\ reverseEdges' = reverseEdges /\ nodes' = nodes
      /\ both' = both /\ targets' = targets /\ config' = config
      /\ sorted' = sorted /\ queue' = queue /\ todo' = todo /\ verdict' = verdict
      /\ pc # "sort" /\ pc' \in {"layers", "done"}
  BY DEF Draw, LayersStart, NextLayer, LayersEnd, graph, kahn
<1>2. EdgesAreMirrored' /\ SortInv' /\ FirstCome' /\ ValidateIsExact'
  BY <1>1, SameEdges, SameSort, SameVerdict
<1>3. CASE LayersStart
  <2>1. LayerInv' /\ inDegree' \in [Names -> Nat] /\ left' \in SUBSET nodes
        /\ remaining' \in Nat
    BY <1>3, StartOfLayers
  <2>2. layers' = <<>> /\ layers' = layers /\ drawn' = drawn
    BY <1>3 DEF LayersStart, Phases
  <2>3. LayersFollow'
    BY <2>2, EmptyFacts DEF LayersFollow
  <2>4. TypeOK'
    BY <1>1, <2>1, <2>2 DEF TypeOK
  <2> QED BY <1>2, <2>1, <2>3, <2>4
<1>4. CASE NextLayer
  <2>1. /\ LayerInv' /\ LayersFollow'
        /\ left' \in SUBSET nodes /\ remaining' \in Nat /\ inDegree' \in [Names -> Nat]
        /\ layers' \in Seq((SUBSET nodes) \ {{}})
    BY <1>4, LayerIsTaken, LayersStillFollow
  <2>2. drawn' = drawn
    BY <1>4 DEF NextLayer
  <2>3. TypeOK'
    BY <1>1, <2>1, <2>2, EmptyIsSeq DEF TypeOK
  <2> QED BY <1>2, <2>1, <2>3
<1>5. CASE LayersEnd
  <2>1. LayerInv'
    BY <1>5, EndOfLayers
  <2>2. /\ layers' = layers /\ left' = left /\ remaining' = remaining
        /\ inDegree' = inDegree /\ drawn' \in {"ok", "cycle"}
    BY <1>5 DEF LayersEnd, layout
  <2>3. LayersFollow'
    BY <1>1, <2>2 DEF LayersFollow
  <2>4. TypeOK'
    BY <1>1, <2>2 DEF TypeOK
  <2> QED BY <1>2, <2>1, <2>3, <2>4
<1> QED BY <1>3, <1>4, <1>5 DEF Draw

LEMMA StepStutter ==
    ASSUME IndInv, Phases', UNCHANGED vars
    PROVE  IndInv'
<1> USE DEF IndInv, vars, graph, kahn, layout
<1>1. TypeOK'
  BY DEF TypeOK
<1>2. EdgesAreMirrored' /\ ValidateIsExact'
  BY SameEdges, SameVerdict
<1>3. /\ \A n : Upstream(n)' = Upstream(n)
      /\ \A n, D : Waits(n, D)' = Waits(n, D)
      /\ \A D : NoCycleIn(D)' <=> NoCycleIn(D)
  BY SameUpstream
<1>4. SortInv'
  <2>1. SortIsTopological'
    BY <1>3 DEF SortInv, SortIsTopological
  <2>2. NoCycleIn(Sorted)'
    BY <1>3 DEF SortInv, NoCycleIn, Sorted
  <2>3. SortCounts'
    BY <1>3 DEF SortInv, SortCounts, Sorted, Waits
  <2> QED BY <2>1, <2>2, <2>3 DEF SortInv
<1>5. FirstCome'
  BY <1>3 DEF FirstCome, Line, Sorted
<1>6. LayerInv'
  <2>1. LayerCounts'
    BY <1>3 DEF LayerInv, LayerCounts, Laid, Waits
  <2>2. NoCycleIn(Laid)'
    BY <1>3 DEF LayerInv, NoCycleIn, Laid
  <2>3. Cyclic' <=> Cyclic
    BY <1>3 DEF Cyclic
  <2>4. LayersAreDepths'
    BY <1>3, <2>3 DEF LayerInv, LayersAreDepths
  <2> QED BY <1>3, <2>1, <2>2, <2>4 DEF LayerInv, Laid
<1>7. LayersFollow'
  BY DEF LayersFollow
<1> QED BY <1>1, <1>2, <1>4, <1>5, <1>6, <1>7

LEMMA InitIndInv == Init => IndInv
<1> SUFFICES ASSUME Init PROVE IndInv
  OBVIOUS
<1> USE DEF Init
<1>1. /\ \A S : <<>> \in Seq(S)
      /\ Len(<<>>) = 0 /\ Elems(<<>>) = {} /\ <<>> \o <<>> = <<>>
  <2>1. \A S : <<>> \in Seq(S)
    BY EmptyFacts
  <2>2. <<>> \o <<>> = <<>>
    BY <2>1, ConcatEmptySeq
  <2> QED BY <2>1, <2>2, EmptyFacts
<1>2. TypeOK /\ Phases
  BY <1>1 DEF TypeOK, Phases
<1>3. EdgesAreMirrored
  BY EmptyFacts DEF EdgesAreMirrored
<1>4. Sorted = {} /\ Laid = {} /\ Line = <<>>
  BY <1>1 DEF Sorted, Laid, Line
<1>5. NoCycleIn(Sorted) /\ NoCycleIn(Laid)
  BY <1>4 DEF NoCycleIn
<1>6. SortInv /\ FirstCome
  BY <1>1, <1>4, <1>5 DEF SortInv, SortIsTopological, SortCounts, FirstCome
<1>7. LayerInv /\ LayersFollow
  BY <1>1, <1>4, <1>5 DEF LayerInv, LayerCounts, LayersAreDepths, LayersFollow
<1>8. ValidateIsExact
  BY DEF ValidateIsExact, LoadErrors
<1> QED BY <1>2, <1>3, <1>6, <1>7, <1>8 DEF IndInv

(***************************************************************************)
(* The invariant that the theorems below are read off from.                *)
(***************************************************************************)
THEOREM GraphInductive == Spec => []IndInv
<1>1. IndInv /\ [Next]_vars => IndInv'
  <2> SUFFICES ASSUME IndInv, [Next]_vars PROVE IndInv'
    OBVIOUS
  <2>1. Phases'
    BY StepPhases DEF IndInv
  <2>2. CASE Build
    BY <2>1, <2>2, StepAddNode DEF Build
  <2>3. CASE Load
    BY <2>1, <2>3, StepLoad DEF Load
  <2>4. CASE Validate
    BY <2>1, <2>4, StepValidate
  <2>5. CASE Draw
    BY <2>1, <2>5, StepDraw
  <2>6. CASE UNCHANGED vars
    BY <2>1, <2>6, StepStutter
  <2> QED BY <2>2, <2>3, <2>4, <2>5, <2>6 DEF Next, Returned
<1> QED BY <1>1, InitIndInv, PTL DEF Spec

(***************************************************************************)
(* Every variable keeps its type; in particular no degree of either        *)
(* algorithm is ever negative (dag.go:123-190).                            *)
(***************************************************************************)
THEOREM TypeCorrect == Spec => []TypeOK
<1>1. IndInv => TypeOK
  BY DEF IndInv
<1> QED BY <1>1, GraphInductive, PTL

(***************************************************************************)
(* However a graph was built, its two views agree (dag.go:75-78).          *)
(***************************************************************************)
THEOREM ViewsMirrored == Spec => []EdgesAreMirrored
<1>1. IndInv => EdgesAreMirrored
  BY DEF IndInv
<1> QED BY <1>1, GraphInductive, PTL

(***************************************************************************)
(* The sort is topological, and complete if Validate accepts               *)
(* (dag.go:123-154).                                                       *)
(***************************************************************************)
THEOREM SortCorrect == Spec => []SortIsTopological
<1>1. IndInv => SortIsTopological
  BY DEF IndInv, SortInv
<1> QED BY <1>1, GraphInductive, PTL

(***************************************************************************)
(* Validate accepts exactly what can be executed: the assumption of        *)
(* EventLoop about its graph (dag.go:92-119).                              *)
(***************************************************************************)
THEOREM ValidateCorrect == Spec => []ValidateIsExact
<1>1. IndInv => ValidateIsExact
  BY DEF IndInv
<1> QED BY <1>1, GraphInductive, PTL

(***************************************************************************)
(* The layers of every graph are those of its depths (dag.go:158-190).     *)
(***************************************************************************)
THEOREM LayersCorrect == Spec => []LayersAreDepths
<1>1. IndInv => LayersAreDepths
  BY DEF IndInv, LayerInv
<1> QED BY <1>1, GraphInductive, PTL

(***************************************************************************)
(* The sort and the layers agree, on cycles and on the order               *)
(* (dag.go:123-190).                                                       *)
(***************************************************************************)
THEOREM AlgorithmsAgree == Spec => []SortFollowsLayers
<1>1. IndInv => SortFollowsLayers
  <2> SUFFICES ASSUME IndInv, verdict \in {"ok", "cycle"}, drawn # "none"
               PROVE  /\ verdict = drawn
                      /\ \A i, j \in 1..Len(sorted), k, l \in 1..Len(layers) :
                            i < j /\ sorted[i] \in layers[k] /\ sorted[j] \in layers[l]
                                => k <= l
    BY DEF SortFollowsLayers
  <2>1. drawn \in {"ok", "cycle"}
    BY DEF IndInv, TypeOK
  <2>2. ~(verdict = "ok" /\ drawn = "cycle")
    BY DEF IndInv, ValidateIsExact, LayerInv, LayersAreDepths
  <2>3. ~(verdict = "cycle" /\ drawn = "ok")
    <3> SUFFICES ASSUME verdict = "cycle", drawn = "ok" PROVE FALSE
      OBVIOUS
    <3>1. Laid = nodes /\ Cyclic
      BY DEF IndInv, LayerInv, LayersAreDepths, Laid, ValidateIsExact
    <3>2. PICK S \in (SUBSET nodes) \ {{}} : \A n \in S : Upstream(n) \cap S # {}
      BY <3>1 DEF Cyclic
    <3> QED BY <3>1, <3>2 DEF IndInv, LayerInv, NoCycleIn
  <2>4. ASSUME NEW i \in 1..Len(sorted), NEW j \in 1..Len(sorted),
               NEW k \in 1..Len(layers), NEW l \in 1..Len(layers),
               i < j, sorted[i] \in layers[k], sorted[j] \in layers[l]
        PROVE  k <= l
    <3>1. PICK m \in 1..l : sorted[i] \in layers[m]
      BY <2>4 DEF IndInv, LayersFollow
    <3>2. m \in 1..Len(layers) /\ m <= l
      <4>1. layers \in Seq((SUBSET nodes) \ {{}})
        BY DEF IndInv, TypeOK
      <4>2. Len(layers) \in Nat
        BY <4>1, LenProperties
      <4> QED BY <4>2
    <3>3. m = k
      BY <2>4, <3>1, <3>2 DEF IndInv, LayerInv, LayersAreDepths
    <3> QED BY <3>2, <3>3
  <2> QED BY <2>1, <2>2, <2>3, <2>4
<1> QED BY <1>1, GraphInductive, PTL
==============================================================================
