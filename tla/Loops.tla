--------------------------------- MODULE Loops ---------------------------------
(***************************************************************************)
(* How the loops of the code are proved about.  In the models a loop is a  *)
(* recursive function that calls itself last; TLA+ defines it by CHOOSE,   *)
(* so that it unfolds only if a function with its equation exists.         *)
(***************************************************************************)
EXTENDS Integers, WellFoundedInduction, TLAPS

-----------------------------------------------------------------------------
(***************************************************************************)
(* Loops.  A function that calls itself last is a loop: a step leads from x*)
(* in S to step[x], until stop.  What it is defined by has a solution, be- *)
(* cause x and step[x] have the same ends.                                 *)
(***************************************************************************)
Trail(x, S, step, stop) ==
    {y \in S : \A T \in SUBSET S : x \in T /\ (\A z \in T \ stop : step[z] \in T) => y \in T}

Solves(g, S, stop, step, out) ==
    /\ g = [x \in S |-> g[x]]
    /\ \A x \in S : g[x] = IF x \in stop THEN out[x] ELSE g[step[x]]

LEMMA TailCall ==
    ASSUME NEW S, NEW stop, NEW step \in [S \ stop -> S], NEW V, NEW out \in [S -> V]
    PROVE  \E g : Solves(g, S, stop, step, out)
<1> DEFINE Ends(x) == Trail(x, S, step, stop) \cap stop
           g == [x \in S |-> out[CHOOSE y : y \in Ends(x)]]
<1>1. ASSUME NEW x \in S \ stop PROVE Ends(x) = Ends(step[x])
  <2>1. step[x] \in S
    OBVIOUS
  <2>2. ASSUME NEW y \in stop, y \in Trail(x, S, step, stop) PROVE y \in Trail(step[x], S, step, stop)
    <3> SUFFICES ASSUME NEW T \in SUBSET S, step[x] \in T, \A z \in T \ stop : step[z] \in T
                 PROVE  y \in T
      BY <2>2 DEF Trail
    <3>1. T \cup {x} \in SUBSET S /\ \A z \in (T \cup {x}) \ stop : step[z] \in T \cup {x}
      OBVIOUS
    <3>2. y \in T \cup {x}
      BY <2>2, <3>1 DEF Trail
    <3> QED BY <2>2, <3>2
  <2>3. ASSUME NEW y \in Trail(step[x], S, step, stop) PROVE y \in Trail(x, S, step, stop)
    <3> SUFFICES ASSUME NEW T \in SUBSET S, x \in T, \A z \in T \ stop : step[z] \in T PROVE y \in T
      BY <2>3 DEF Trail
    <3> QED BY <2>3 DEF Trail
  <2> QED BY <2>2, <2>3
<1>2. ASSUME NEW x \in stop \cap S PROVE Ends(x) = {x}
  <2>1. x \in Trail(x, S, step, stop)
    BY DEF Trail
  <2>2. {x} \in SUBSET S /\ \A z \in {x} \ stop : step[z] \in {x}
    OBVIOUS
  <2>3. \A y \in Trail(x, S, step, stop) : y \in {x}
    BY <2>2 DEF Trail
  <2> QED BY <2>1, <2>3
<1> HIDE DEF Ends
<1>3. ASSUME NEW x \in S PROVE g[x] = IF x \in stop THEN out[x] ELSE g[step[x]]
  <2>1. CASE x \in stop
    <3>1. (CHOOSE y : y \in Ends(x)) = x
      BY <1>2, <2>1
    <3>2. g[x] = out[CHOOSE y : y \in Ends(x)]
      OBVIOUS
    <3>3. g[x] = out[x]
      BY <3>1, <3>2
    <3> HIDE DEF g
    <3> QED BY <2>1, <3>3
  <2>2. CASE x \notin stop
    <3>1. step[x] \in S /\ Ends(x) = Ends(step[x])
      BY <1>1, <2>2
    <3>2. g[x] = out[CHOOSE y : y \in Ends(x)] /\ g[step[x]] = out[CHOOSE y : y \in Ends(step[x])]
      BY <3>1
    <3>3. g[x] = g[step[x]]
      BY <3>1, <3>2
    <3> HIDE DEF g
    <3> QED BY <2>2, <3>3
  <2> QED BY <2>1, <2>2
<1>4. g = [x \in S |-> g[x]]
  OBVIOUS
<1> HIDE DEF g
<1>5. Solves(g, S, stop, step, out)
  BY <1>3, <1>4 DEF Solves
<1> QED BY <1>5

(***************************************************************************)
(* Induction: a set of numbers has a least one.                            *)
(***************************************************************************)
LEMMA LeastOf == ASSUME NEW T \in SUBSET Nat, T # {} PROVE \E n \in T : \A k \in T : n <= k
<1>1. PICK R : R = {ss \in Nat \X Nat : ss[1] < ss[2]}
  OBVIOUS
<1>2. R = OpToRel(<, Nat)
  BY <1>1, Zenon DEF OpToRel
<1>3. IsWellFoundedOn(R, Nat)
  BY <1>2, NatLessThanWellFounded
<1>4. T \subseteq Nat
  OBVIOUS
<1>5. \E n \in T : \A k \in T : <<k, n>> \notin R
  BY <1>3, <1>4, WFMin
<1>6. \A k, n \in Nat : <<k, n>> \in R <=> k < n
  BY <1>1
<1>7. \A n, k \in T : <<k, n>> \notin R => n <= k
  BY <1>6
<1> QED BY <1>5, <1>7

(***************************************************************************)
(* The rule for loops: with an invariant and a measure that falls, what is *)
(* returned is what an end that satisfies the invariant returns.           *)
(***************************************************************************)
LEMMA LoopEnds ==
    ASSUME NEW S, NEW stop, NEW step, NEW out, NEW g,
           Solves(g, S, stop, step, out),
           NEW I \in SUBSET S, NEW m \in [S -> Nat],
           \A x \in I \ stop : step[x] \in I /\ m[step[x]] < m[x]
    PROVE  \A x \in I : \E y \in I \cap stop : g[x] = out[y]
<1> DEFINE Fails(x) == ~\E y \in I \cap stop : g[x] = out[y]
           T == {m[x] : x \in {y \in I : Fails(y)}}
<1>1. ASSUME T # {} PROVE FALSE
  <2>1. T \in SUBSET Nat
    OBVIOUS
  <2>2. PICK n \in T : \A k \in T : n <= k
    <3> HIDE DEF T
    <3> QED BY <1>1, <2>1, LeastOf
  <2>3. PICK x \in I : Fails(x) /\ m[x] = n
    BY <2>2
  <2>4. \A z \in S : g[z] = IF z \in stop THEN out[z] ELSE g[step[z]]
    BY DEF Solves
  <2>5. x \notin stop
    BY <2>3, <2>4
  <2>6. step[x] \in I /\ m[step[x]] < m[x] /\ g[x] = g[step[x]]
    BY <2>4, <2>5
  <2>7. Fails(step[x]) /\ m[step[x]] \in T
    BY <2>3, <2>6
  <2>8. m[step[x]] \in Nat /\ m[x] \in Nat
    BY <2>6
  <2> HIDE DEF T
  <2> QED BY <2>2, <2>3, <2>6, <2>7, <2>8
<1> QED BY <1>1

(***************************************************************************)
(* Recursion.  What step computes from a number and the value before it,   *)
(* is computed by a loop that counts.                                      *)
(***************************************************************************)
Iterates(g, V, base, step) ==
    /\ g \in [Nat -> V]
    /\ g[0] = base
    /\ \A k \in Nat : g[k + 1] = step[<<k, g[k]>>]

LEMMA Recursion ==
    ASSUME NEW V, NEW base \in V, NEW step \in [Nat \X V -> V]
    PROVE  \E g : Iterates(g, V, base, step)
<1> DEFINE S       == [left : Nat, at : Nat, val : V]
           St(l, a, v) == [left |-> l, at |-> a, val |-> v]
           stop    == {x \in S : x.left = 0}
           next(x) == St(x.left - 1, x.at + 1, step[<<x.at, x.val>>])
           out     == [x \in S |-> x.val]
           m       == [x \in S |-> x.left]
<1>1. [x \in S \ stop |-> next(x)] \in [S \ stop -> S]
  OBVIOUS
<1>2. out \in [S -> V]
  OBVIOUS
<1>3. PICK R : Solves(R, S, stop, [x \in S \ stop |-> next(x)], out)
  <2> HIDE DEF S, stop, next, out
  <2> QED BY <1>1, <1>2, TailCall
<1>4. ASSUME NEW x \in S PROVE R[x] = IF x.left = 0 THEN x.val ELSE R[next(x)]
  <2>1. R[x] = IF x \in stop THEN out[x] ELSE R[[y \in S \ stop |-> next(y)][x]]
    <3> HIDE DEF S, stop, next, out
    <3> QED BY <1>3 DEF Solves
  <2> QED BY <2>1
<1>5. ASSUME NEW x \in S PROVE R[x] \in V
  <2>1. \A y \in S \ stop : /\ [z \in S \ stop |-> next(z)][y] \in S
                            /\ m[[z \in S \ stop |-> next(z)][y]] < m[y]
    OBVIOUS
  <2>2. m \in [S -> Nat] /\ S \in SUBSET S
    OBVIOUS
  <2>3. \E y \in S \cap stop : R[x] = out[y]
    <3> HIDE DEF S, stop, next, out, m
    <3> QED BY <1>3, <2>1, <2>2, LoopEnds
  <2> QED BY <2>3
<1> HIDE DEF out, m, stop
<1> DEFINE Differs(l) == \E a \in Nat, v \in V :
               R[St(l + 1, a, v)] # step[<<a + l, R[St(l, a, v)]>>]
<1>6. ASSUME NEW l \in Nat, Differs(l) PROVE FALSE
  <2> DEFINE T == {k \in Nat : Differs(k)}
  <2>1. PICK k \in T : \A j \in T : k <= j
    <3>1. T \in SUBSET Nat /\ l \in T
      BY <1>6
    <3> HIDE DEF T
    <3> QED BY <3>1, LeastOf
  <2>2. PICK a \in Nat, v \in V : R[St(k + 1, a, v)] # step[<<a + k, R[St(k, a, v)]>>]
    OBVIOUS
  <2>3. PICK w \in V : w = step[<<a, v>>]
    OBVIOUS
  <2>4. k \in Nat /\ St(k + 1, a, v) \in S /\ next(St(k + 1, a, v)) = St(k, a + 1, w)
    BY <2>3
  <2>5. R[St(k + 1, a, v)] = R[St(k, a + 1, w)]
    <3>1. St(k + 1, a, v).left # 0
      BY <2>4
    <3> HIDE DEF S, next, St
    <3> QED BY <1>4, <2>4, <3>1
  <2>6. CASE k = 0
    <3>1. St(0, a, v) \in S /\ St(0, a + 1, w) \in S
      OBVIOUS
    <3>2. St(0, a, v).left = 0 /\ St(0, a + 1, w).left = 0 /\ St(0, a, v).val = v
          /\ St(0, a + 1, w).val = w
      OBVIOUS
    <3>3. R[St(0, a, v)] = v /\ R[St(0, a + 1, w)] = w
      <4> HIDE DEF S, next, St
      <4> QED BY <1>4, <3>1, <3>2
    <3>4. a + k = a
      BY <2>6
    <3> HIDE DEF S, next, St
    <3> QED BY <2>2, <2>3, <2>5, <2>6, <3>3, <3>4
  <2>7. CASE k # 0
    <3>1. PICK j \in Nat : k = j + 1
      BY <2>4, <2>7
    <3>2. ~Differs(j)
      <4>1. j \in T => k <= j
        BY <2>1
      <4>2. j \notin T
        <5> HIDE DEF T
        <5> QED BY <3>1, <4>1
      <4> HIDE DEF Differs
      <4> QED BY <4>2
    <3>3. R[St(j + 1, a + 1, w)] = step[<<a + 1 + j, R[St(j, a + 1, w)]>>]
      <4>1. \A b \in Nat : \A u \in V : R[St(j + 1, b, u)] = step[<<b + j, R[St(j, b, u)]>>]
        BY <3>2
      <4>2. a + 1 \in Nat
        OBVIOUS
      <4> HIDE DEF St
      <4> QED BY <4>1, <4>2
    <3>4. St(j + 1, a, v) \in S /\ next(St(j + 1, a, v)) = St(j, a + 1, w)
          /\ St(j + 1, a, v).left # 0
      BY <2>3
    <3>5. R[St(j + 1, a, v)] = R[St(j, a + 1, w)]
      <4> HIDE DEF S, next, St
      <4> QED BY <1>4, <3>4
    <3>6. a + 1 + j = a + k
      BY <3>1
    <3> HIDE DEF S, next, St, Differs
    <3> QED BY <2>2, <2>5, <3>1, <3>3, <3>5, <3>6
  <2> QED BY <2>6, <2>7
<1> DEFINE g == [k \in Nat |-> R[St(k, 0, base)]]
<1>7. g \in [Nat -> V]
  <2>1. \A k \in Nat : St(k, 0, base) \in S
    OBVIOUS
  <2> HIDE DEF S, St
  <2> QED BY <1>5, <2>1
<1>8. g[0] = base
  <2>1. St(0, 0, base) \in S /\ St(0, 0, base).left = 0 /\ St(0, 0, base).val = base
    OBVIOUS
  <2>2. R[St(0, 0, base)] = base
    <3> HIDE DEF S, next, St
    <3> QED BY <1>4, <2>1
  <2> QED BY <2>2
<1>9. ASSUME NEW k \in Nat PROVE g[k + 1] = step[<<k, g[k]>>]
  <2>1. R[St(k + 1, 0, base)] = step[<<0 + k, R[St(k, 0, base)]>>]
    BY <1>6, ZenonT(60)
  <2>2. 0 + k = k /\ k + 1 \in Nat
    OBVIOUS
  <2> HIDE DEF St
  <2> QED BY <2>1, <2>2
<1> HIDE DEF g
<1>10. Iterates(g, V, base, step)
  BY <1>7, <1>8, <1>9 DEF Iterates
<1> QED BY <1>10
================================================================================
