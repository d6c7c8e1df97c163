------------------------------- MODULE DAGContext -------------------------------
(***************************************************************************)
(* The DAGContext of a Run: keys spread over shards by their hash, a lock  *)
(* per shard, used by the functions of concurrent nodes.  A section under  *)
(* a lock calls nothing that blocks and is one step; Keys, Len and Reset   *)
(* take one step per shard, between which other goroutines run.            *)
(***************************************************************************)
EXTENDS Integers, FiniteSets

CONSTANTS
    Procs,      (* the goroutines that use the context                       *)
    Calls,      (* the bulk operations each of them may call                 *)
    Keys,
    Vals,
    None,       (* no value                                                  *)
    Hash,       (* the FNV-1a hash of every key                              *)
    TypeOf,     (* the Go type of every value                                *)
    Requests,   (* values given to EngineWithDAGContextShards, 0 for none    *)
    CPUs        (* possible values of runtime.NumCPU()                       *)

ASSUME ContextAssumption ==
    /\ IsFiniteSet(Keys)
    /\ None \notin Vals
    /\ "panic" \notin Vals /\ "mismatch" \notin Vals
    /\ Calls \in [Procs -> SUBSET {"Keys", "Len", "Reset"}]
    /\ Hash \in [Keys -> Nat]
    /\ Requests \subseteq Int
    /\ CPUs \subseteq Nat \ {0}

VARIABLES
    count,    (* len(d.shards)                                               *)
    home,     (* shardIndex of every key, which never changes                *)
    shards,   (* the map of every shard: a value or None for every key       *)
    op,       (* the bulk operation every goroutine is in, or "none"         *)
    at,       (* the shard it visits next                                    *)
    found,    (* keys of Keys                                                *)
    n,        (* n of Len                                                    *)
    out,      (* what the last single-key call returned                      *)
    always,   (* history: the keys present since the bulk operation began,   *)
    ever      (*          those present at some time since; of a Reset, set  *)

store   == <<count, home, shards>>
bulk    == <<op, at, found, n>>
history == <<always, ever>>
vars    == <<store, bulk, out, history>>

-----------------------------------------------------------------------------
(***************************************************************************)
(* x & y bit by bit, the lowest first: bit is the value of the next one.   *)
(***************************************************************************)
Words == [x : Nat, y : Nat, bit : Nat, sum : Nat]

NextBit(w) ==
    [x |-> w.x \div 2, y |-> w.y \div 2, bit |-> 2 * w.bit,
     sum |-> IF w.x % 2 = 1 /\ w.y % 2 = 1 THEN w.sum + w.bit ELSE w.sum]

AndFrom[w \in Words] == IF w.x = 0 THEN w.sum ELSE AndFrom[NextBit(w)]

And(x, y) == AndFrom[[x |-> x, y |-> y, bit |-> 1, sum |-> 0]]
Or(x, y)  == x + y - And(x, y)

(***************************************************************************)
(* x |= x >> s, where d = 2^s.                                             *)
(***************************************************************************)
Smear(x, d) == Or(x, x \div d)

roundupPow2(x) ==
    IF x <= 1 THEN 1
    ELSE Smear(Smear(Smear(Smear(Smear(x - 1, 2), 4), 16), 256), 65536) + 1

(***************************************************************************)
(* Values less than 1 are ignored by the option, and mean the default.     *)
(***************************************************************************)
ShardCount(request, cpus) == IF request >= 1 THEN request ELSE roundupPow2(cpus * 4)

isPow2(x) == x > 0 /\ And(x, x - 1) = 0

(* A fault: the mask is the number of shards.                              *)
shardIndexUnmasked(hash, c) == IF isPow2(c) THEN And(hash, c) ELSE hash % c

(***************************************************************************)
(* The shard of a hash among c: hash & mask, or hash % c.                  *)
(***************************************************************************)
shardIndex(hash, c) == IF isPow2(c) THEN And(hash, c - 1) ELSE hash % c

Held(s)  == {k \in Keys : shards[s][k] # None}
Present  == UNION {Held(s) : s \in DOMAIN shards}

-----------------------------------------------------------------------------
Init ==
    /\ \E request \in Requests, cpus \in CPUs : count = ShardCount(request, cpus)
    /\ home = [k \in Keys |-> shardIndex(Hash[k], count)]
    /\ shards = [s \in 0..(count - 1) |-> [k \in Keys |-> None]]
    /\ op = [p \in Procs |-> "none"]
    /\ at = [p \in Procs |-> 0]
    /\ found = [p \in Procs |-> {}]
    /\ n = [p \in Procs |-> 0]
    /\ out = None
    /\ always = [p \in Procs |-> {}]
    /\ ever = [p \in Procs |-> {}]

Idle(p) == op[p] = "none"

Set(p, k, v) ==
    /\ Idle(p)
    /\ shards' = [shards EXCEPT ![home[k]][k] = v]
    /\ ever' = [q \in Procs |-> IF Idle(q) THEN {} ELSE ever[q] \cup {k}]
    /\ UNCHANGED <<count, home, bulk, out, always>>

Value(k) == shards[home[k]][k]

Returns(p, r) ==
    /\ Idle(p)
    /\ out' = r
    /\ UNCHANGED <<store, bulk, history>>

(* A fault: Get always masks the hash.                                     *)
GetMasked(p, k) ==
    Returns(p, LET s == And(Hash[k], count - 1) IN shards[s][k])

Get(p, k) == Returns(p, Value(k))

MustGet(p, k) == Returns(p, IF Value(k) = None THEN "panic" ELSE Value(k))

GetTyped(p, k, T) ==
    Returns(p, IF Value(k) # None /\ TypeOf[Value(k)] # T THEN "mismatch" ELSE Value(k))

-----------------------------------------------------------------------------
Begin(p, name) ==
    /\ Idle(p)
    /\ op' = [op EXCEPT ![p] = name]
    /\ always' = [always EXCEPT ![p] = IF name = "Reset" THEN {} ELSE Present]
    /\ ever' = [ever EXCEPT ![p] = always'[p]]
    /\ UNCHANGED <<store, at, found, n, out>>

Visits(p, name) ==
    /\ op[p] = name
    /\ at[p] < count
    /\ at' = [at EXCEPT ![p] = @ + 1]

(* A fault: the keys of a shard replace those of the shards before.        *)
VisitKeysReplacing(p) ==
    /\ Visits(p, "Keys")
    /\ found' = [found EXCEPT ![p] = Held(at[p])]
    /\ UNCHANGED <<store, op, n, out, history>>

VisitKeys(p) ==
    /\ Visits(p, "Keys")
    /\ found' = [found EXCEPT ![p] = @ \cup Held(at[p])]
    /\ UNCHANGED <<store, op, n, out, history>>

VisitLen(p) ==
    /\ Visits(p, "Len")
    /\ n' = [n EXCEPT ![p] = @ + Cardinality(Held(at[p]))]
    /\ UNCHANGED <<store, op, found, out, history>>

VisitReset(p) ==
    /\ Visits(p, "Reset")
    /\ shards' = [shards EXCEPT ![at[p]] = [k \in Keys |-> None]]
    /\ always' = [q \in Procs |-> always[q] \ Held(at[p])]
    /\ UNCHANGED <<count, home, op, found, n, out, ever>>

End(p) ==
    /\ ~Idle(p)
    /\ at[p] = count
    /\ op' = [op EXCEPT ![p] = "none"]
    /\ at' = [at EXCEPT ![p] = 0]
    /\ found' = [found EXCEPT ![p] = {}]
    /\ n' = [n EXCEPT ![p] = 0]
    /\ always' = [always EXCEPT ![p] = {}]
    /\ ever' = [ever EXCEPT ![p] = {}]
    /\ UNCHANGED <<store, out>>

Single(p) ==
    \E k \in Keys :
        \/ \E v \in Vals : Set(p, k, v) \/ GetTyped(p, k, TypeOf[v])
        \/ Get(p, k)
        \/ MustGet(p, k)

Bulk(p) ==
    \/ \E name \in Calls[p] : Begin(p, name)
    \/ VisitKeys(p) \/ VisitLen(p) \/ VisitReset(p) \/ End(p)

Next == \E p \in Procs : Single(p) \/ Bulk(p)

Spec == Init /\ [][Next]_vars

-----------------------------------------------------------------------------
(* The type of every variable; a shard holds only keys of its own.         *)
TypeOK ==
    /\ count \in Nat \ {0}
    /\ home \in [Keys -> 0..(count - 1)]
    /\ shards \in [0..(count - 1) -> [Keys -> Vals \cup {None}]]
    /\ \A s \in 0..(count - 1) : \A k \in Held(s) : home[k] = s
    /\ op \in [Procs -> {"none", "Keys", "Len", "Reset"}]
    /\ at \in [Procs -> 0..count]
    /\ found \in [Procs -> SUBSET Keys]
    /\ n \in [Procs -> Nat]
    /\ out \in Vals \cup {None, "panic", "mismatch"}
    /\ always \in [Procs -> SUBSET Keys]
    /\ ever \in [Procs -> SUBSET Keys]

(***************************************************************************)
(* What a bulk operation may be relied on for although it is not atomic    *)
(* (dagcontext.go:116-150).  Keys returns every key that was there all the *)
(* time and none that was never there; Len counts at least the former and  *)
(* at most the latter; after Reset a key is there only if it was set while *)
(* Reset ran.                                                              *)
(***************************************************************************)
BulkIsBounded ==
    \A p \in Procs : at[p] = count =>
        /\ op[p] = "Keys" => always[p] \subseteq found[p] /\ found[p] \subseteq ever[p]
        /\ op[p] = "Len" => n[p] \in Cardinality(always[p])..Cardinality(ever[p])
        /\ op[p] = "Reset" => Present \subseteq ever[p]

(***************************************************************************)
(* The shards are invisible to Set, Get, MustGet and GetTyped: a reader    *)
(* always gets what was written last (dagcontext.go:67-98, 152-168).       *)
(***************************************************************************)
Store == INSTANCE ContextStore WITH map <- [k \in Keys |-> Value(k)]

ImplementsStore == Store!Spec
=================================================================================
