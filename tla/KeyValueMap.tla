---------------------------- MODULE KeyValueMap -----------------------------
(***************************************************************************)
(* What hw1/HashTable.h promises: a table is a finite map from keys to     *)
(* values, and an iterator visits each of its pairs exactly once, in an    *)
(* unspecified order.  Customers do not mutate a table through HashTable_* *)
(* calls while an iterator is outstanding (HashTable.h, "any existing      *)
(* iterators become undefined").  Nothing is promised once a customer has  *)
(* used a key the table cannot tell from others.                           *)
(***************************************************************************)
EXTENDS Integers, FiniteSets

CONSTANTS
    Keys,     \* the keys customers use
    Values,   \* the values they store
    NoKey     \* "no key"

VARIABLES
    map,     \* the pairs
    cur,     \* the key the iterator is at, or NoKey
    todo,    \* the keys the iterator has still to visit after cur
    mode,    \* "none", "idle", "iter", "resizing" or "exited"
    out,     \* what the last call returned
    broken   \* has a key been used for which nothing is promised?

mapVars == <<map, cur, todo, mode, out, broken>>

NoPair == [key |-> NoKey, value |-> NoKey]
Pair(k) == [key |-> k, value |-> map[k]]

(* What a call returns: its Boolean or void result, the pair in its return *)
(* parameter, the number it returned and the pairs whose values it freed.  *)
Void == [op |-> "", arg |-> NoKey, ret |-> "void", kv |-> NoPair, num |-> 0,
         freed |-> {}]
Ret(op, k, b, kv) ==
    [Void EXCEPT !.op = op, !.arg = k, !.ret = IF b THEN "true" ELSE "false",
                 !.kv = IF b THEN kv ELSE NoPair]

With(k, v) == [j \in DOMAIN map \cup {k} |-> IF j = k THEN v ELSE map[j]]
Without(k) == [j \in DOMAIN map \ {k} |-> map[j]]
Has(k) == k \in DOMAIN map
Lookup(k) == IF Has(k) THEN Pair(k) ELSE NoPair

Init ==
    /\ map = [k \in {} |-> NoKey]
    /\ cur = NoKey
    /\ todo = {}
    /\ mode = "none"
    /\ out = Void
    /\ broken = FALSE

Allocate ==
    /\ mode = "none"
    /\ mode' = "idle"
    /\ out' = Void
    /\ UNCHANGED <<map, cur, todo>>

(* Each value is handed to value_free_function. *)
Free ==
    /\ mode = "idle"
    /\ mode' = "none"
    /\ map' = [k \in {} |-> NoKey]
    /\ out' = [Void EXCEPT !.freed = {Pair(k) : k \in DOMAIN map}]
    /\ UNCHANGED <<cur, todo>>

Insert(k, v) ==
    /\ mode \in {"idle", "resizing"}
    /\ mode' = "idle"
    /\ map' = With(k, v)
    /\ out' = Ret("Insert", k, Has(k), Lookup(k))
    /\ UNCHANGED <<cur, todo>>

(* An insertion that has to grow the table first. *)
Grow ==
    /\ mode = "idle"
    /\ mode' = "resizing"
    /\ UNCHANGED <<map, cur, todo, out>>

Find(k) ==
    /\ mode \in {"idle", "iter"}
    /\ out' = Ret("Find", k, Has(k), Lookup(k))
    /\ UNCHANGED <<map, cur, todo, mode>>

Remove(k) ==
    /\ mode = "idle"
    /\ map' = Without(k)
    /\ out' = Ret("Remove", k, Has(k), Lookup(k))
    /\ UNCHANGED <<cur, todo, mode>>

NumElements ==
    /\ mode \in {"idle", "iter"}
    /\ out' = [Void EXCEPT !.num = Cardinality(DOMAIN map)]
    /\ UNCHANGED <<map, cur, todo, mode>>

-----------------------------------------------------------------------------
(* The iterator moves to a key of S, or past the end if there is none. *)
MoveTo(S) ==
    \/ S = {} /\ cur' = NoKey /\ todo' = {}
    \/ \E k \in S : cur' = k /\ todo' = S \ {k}

IterAllocate ==
    /\ mode = "idle"
    /\ mode' = "iter"
    /\ MoveTo(DOMAIN map)
    /\ out' = Void
    /\ UNCHANGED map

IterFree ==
    /\ mode = "iter"
    /\ mode' = "idle"
    /\ cur' = NoKey
    /\ todo' = {}
    /\ out' = Void
    /\ UNCHANGED map

IterIsValid ==
    /\ mode = "iter"
    /\ out' = Ret("IsValid", NoKey, cur # NoKey, NoPair)
    /\ UNCHANGED <<map, cur, todo, mode>>

IterNext ==
    /\ mode = "iter"
    /\ MoveTo(todo)
    /\ out' = Ret("Next", NoKey, todo # {}, NoPair)
    /\ UNCHANGED <<map, mode>>

IterGet ==
    /\ mode = "iter"
    /\ out' = Ret("Get", NoKey, cur # NoKey, Lookup(cur))
    /\ UNCHANGED <<map, cur, todo, mode>>

IterRemove ==
    /\ mode = "iter"
    /\ map' = Without(cur)
    /\ MoveTo(todo)
    /\ out' = Ret("IterRemove", NoKey, cur # NoKey, Lookup(cur))
    /\ UNCHANGED mode

Calls ==
    \/ Allocate \/ Free \/ Grow
    \/ \E k \in Keys, v \in Values : Insert(k, v)
    \/ \E k \in Keys : Find(k) \/ Remove(k)
    \/ NumElements
    \/ IterAllocate \/ IterFree \/ IterIsValid
    \/ IterNext \/ IterGet \/ IterRemove

Next == broken' \/ (Calls /\ UNCHANGED broken)

Spec == Init /\ [][Next]_mapVars
=============================================================================
