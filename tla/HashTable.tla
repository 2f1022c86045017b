------------------------------ MODULE HashTable -----------------------------
(***************************************************************************)
(* hw1/HashTable.c: an array of buckets, each a chain (a LinkedList, here  *)
(* the sequence it implements) of (key, value) pairs, and an iterator over *)
(* it.  Keys are unsigned of KeyBits bits; the helper hasKey takes its key *)
(* as a signed int, of IntBits bits.  A call is one action, except that    *)
(* MaybeResize's copying loop takes one step per pair.                     *)
(*                                                                         *)
(* Customers respect HashTable.h: no HashTable_* mutation while an         *)
(* iterator is outstanding.  A Verify333 that fails ends the process.  The *)
(* table is the map of KeyValueMap until a key does not fit an int.        *)
(***************************************************************************)
EXTENDS Integers, Sequences, SequencesExt, FiniteSets

CONSTANTS
    Keys, Values, NoKey,    \* as in KeyValueMap
    InitialBuckets,         \* the sizes customers ask for
    KeyBits, IntBits,       \* the widths of HTKey_t and int
    MaxElements             \* bound: customers insert only below it

ASSUME BucketsAssumption == InitialBuckets \subseteq Nat \ {0} /\ MaxElements \in Nat
ASSUME WidthAssumption ==
    /\ KeyBits \in Nat
    /\ IntBits \in 1..KeyBits
    /\ Keys \subseteq 0..(2^KeyBits - 1)
ASSUME NoKeyAssumption == NoKey \notin Keys

VARIABLES
    ht,        \* the table, or NoTable
    it,        \* the iterator: bucket_idx, and the position in its bucket
    mode,      \* as in KeyValueMap; "exited" after a failed Verify333
    newht,     \* MaybeResize: the table being filled
    pending,   \* MaybeResize: the pair its caller is going to insert
    out,       \* what the last call returned, as in KeyValueMap
    wide       \* history: has a customer used a key that does not fit an int?

vars == <<ht, it, mode, newht, pending, out, wide>>

INVALID_IDX == -1
PastEnd == [idx |-> INVALID_IDX, pos |-> 0]
-----------------------------------------------------------------------------
(* The table as data. *)

Buckets(t) == 0..(t.num_buckets - 1)
Empty(n) == [num_buckets |-> n, num_elements |-> 0, buckets |-> [b \in 0..(n - 1) |-> <<>>]]
NoTable == Empty(0)

HashKeyToBucketNum(t, key) == key % t.num_buckets

(* The key as hasKey sees it: converted to int, and back to HTKey_t by the *)
(* comparison, which sign-extends.                                         *)
IntKey(key) ==
    LET low == key % 2^IntBits
    IN  IF low < 2^(IntBits - 1) THEN low ELSE low + (2^KeyBits - 2^IntBits)

(* The position of the first pair of the chain with this key, 0 if none. *)
hasKey(chain, key) == SelectInSeq(chain, LAMBDA kv : kv.key = IntKey(key))

ChainOf(t, key) == t.buckets[HashKeyToBucketNum(t, key)]
Found(t, key) == hasKey(ChainOf(t, key), key)
FoundPair(t, key) == ChainOf(t, key)[Found(t, key)]

(* Mutant: a replacement is counted as a new element. *)
Put_AlwaysCount(t, kv) ==
    LET i == Found(t, kv.key)
        grown == Append(ChainOf(t, kv.key), kv)
    IN  [t EXCEPT !.buckets[HashKeyToBucketNum(t, kv.key)] =
                     IF i = 0 THEN grown ELSE RemoveAt(grown, i),
                  !.num_elements = @ + 1]

(* The body of HashTable_Insert: the new pair goes to the end of its       *)
(* chain, and the pair it replaces, if any, is taken out.                  *)
Put(t, kv) ==
    LET i == Found(t, kv.key)
        grown == Append(ChainOf(t, kv.key), kv)
    IN  [t EXCEPT !.buckets[HashKeyToBucketNum(t, kv.key)] =
                     IF i = 0 THEN grown ELSE RemoveAt(grown, i),
                  !.num_elements = IF i = 0 THEN @ + 1 ELSE @]

(* The body of HashTable_Remove, for a key that is found. *)
Delete(t, key) ==
    [t EXCEPT !.buckets[HashKeyToBucketNum(t, key)] = RemoveAt(@, Found(t, key)),
              !.num_elements = @ - 1]

NonEmpty(t, from) == {b \in Buckets(t) : b >= from /\ t.buckets[b] # <<>>}

(* The start of the first non-empty bucket from `from' on. *)
EnterBucket(t, from) ==
    IF NonEmpty(t, from) = {} THEN PastEnd
    ELSE [idx |-> Min(NonEmpty(t, from)), pos |-> 1]

(* Mutant: only the first pair of a chain is visited. *)
Advance_SkipsChain(t, i) ==
    IF i.idx = INVALID_IDX THEN PastEnd ELSE EnterBucket(t, i.idx + 1)

(* Mutant: one position too far. *)
Advance_TooFar(t, i) ==
    IF i.idx = INVALID_IDX THEN PastEnd
    ELSE IF i.pos <= Len(t.buckets[i.idx]) THEN [i EXCEPT !.pos = @ + 1]
    ELSE EnterBucket(t, i.idx + 1)

(* HTIterator_Next's effect on an iterator. *)
Advance(t, i) ==
    IF i.idx = INVALID_IDX THEN PastEnd
    ELSE IF i.pos < Len(t.buckets[i.idx]) THEN [i EXCEPT !.pos = @ + 1]
    ELSE EnterBucket(t, i.idx + 1)

At(t, i) == t.buckets[i.idx][i.pos]
Pairs(t) == UNION {ToSet(t.buckets[b]) : b \in Buckets(t)}

(* The places of the pairs, and those an iterator has not come to yet. *)
Slots(t) == UNION {{[idx |-> b, pos |-> p] : p \in DOMAIN t.buckets[b]} : b \in Buckets(t)}
Ahead(t, i) ==
    {s \in Slots(t) : i.idx # INVALID_IDX /\ (s.idx > i.idx \/ (s.idx = i.idx /\ s.pos > i.pos))}

-----------------------------------------------------------------------------
(* The abstract map and the keys an iterator has still to visit. *)

MapOf(t) ==
    [k \in {kv.key : kv \in Pairs(t)} |->
        (CHOOSE kv \in Pairs(t) : kv.key = k).value]

CurrentKey == IF it.idx = INVALID_IDX THEN NoKey ELSE At(ht, it).key

KeysAhead == {At(ht, s).key : s \in Ahead(ht, it)}

(* While MaybeResize copies, `it' is its own iterator, not a customer's. *)
Customer == mode = "iter"

Abstract == INSTANCE KeyValueMap WITH
    map <- MapOf(ht),
    cur <- IF Customer THEN CurrentKey ELSE NoKey,
    todo <- IF Customer THEN KeysAhead ELSE {},
    broken <- wide

NoPair == Abstract!NoPair
Void == Abstract!Void
Ret(op, k, b, kv) == Abstract!Ret(op, k, b, kv)

Init ==
    /\ ht = NoTable
    /\ it = PastEnd
    /\ mode = "none"
    /\ newht = NoTable
    /\ pending = NoPair
    /\ out = Void
    /\ wide = FALSE

(* A customer passes this key to a call. *)
Uses(key) == wide' = (wide \/ IntKey(key) # key)

-----------------------------------------------------------------------------
HashTable_Allocate(n) ==
    /\ mode = "none"
    /\ mode' = "idle"
    /\ ht' = Empty(n)
    /\ out' = Void
    /\ UNCHANGED <<it, newht, pending, wide>>

HashTable_Free ==
    /\ mode = "idle"
    /\ mode' = "none"
    /\ ht' = NoTable
    /\ out' = [Void EXCEPT !.freed = Pairs(ht)]
    /\ UNCHANGED <<it, newht, pending, wide>>

HashTable_NumElements ==
    /\ mode \in {"idle", "iter"}
    /\ out' = [Void EXCEPT !.num = ht.num_elements]
    /\ UNCHANGED <<ht, it, mode, newht, pending, wide>>

MustResize(t) == t.num_elements >= 3 * t.num_buckets

(* HashTable_Insert on a table that MaybeResize leaves alone. *)
HashTable_Insert(k, v) ==
    /\ mode = "idle"
    /\ ~MustResize(ht)
    /\ ht' = Put(ht, [key |-> k, value |-> v])
    /\ out' = Ret("Insert", k, Found(ht, k) # 0, FoundPair(ht, k))
    /\ Uses(k)
    /\ UNCHANGED <<it, mode, newht, pending>>

(* Mutant: the new table is as small as the old one. *)
ResizeBegin_SameSize(k, v) ==
    /\ mode = "idle"
    /\ MustResize(ht)
    /\ mode' = "resizing"
    /\ newht' = Empty(ht.num_buckets)
    /\ it' = EnterBucket(ht, 0)
    /\ pending' = [key |-> k, value |-> v]
    /\ Uses(k)
    /\ UNCHANGED <<ht, out>>

(* HashTable_Insert, MaybeResize: nine times the buckets. *)
ResizeBegin(k, v) ==
    /\ mode = "idle"
    /\ MustResize(ht)
    /\ mode' = "resizing"
    /\ newht' = Empty(ht.num_buckets * 9)
    /\ it' = EnterBucket(ht, 0)
    /\ pending' = [key |-> k, value |-> v]
    /\ Uses(k)
    /\ UNCHANGED <<ht, out>>

(* Mutant: the iterator is not advanced. *)
ResizeCopy_NoAdvance ==
    /\ mode = "resizing"
    /\ it.idx # INVALID_IDX
    /\ newht' = Put(newht, At(ht, it))
    /\ UNCHANGED <<ht, it, mode, pending, out, wide>>

(* The body of the copying loop.  Its HashTable_Insert never resizes newht *)
(* in turn: LoadBounded.                                                   *)
ResizeCopy ==
    /\ mode = "resizing"
    /\ it.idx # INVALID_IDX
    /\ newht' = Put(newht, At(ht, it))
    /\ it' = Advance(ht, it)
    /\ UNCHANGED <<ht, mode, pending, out, wide>>

(* The records are swapped and the old table freed, then HashTable_Insert  *)
(* goes on as above.                                                       *)
ResizeEnd ==
    /\ mode = "resizing"
    /\ it.idx = INVALID_IDX
    /\ mode' = "idle"
    /\ ht' = Put(newht, pending)
    /\ out' = Ret("Insert", pending.key, Found(newht, pending.key) # 0,
                  FoundPair(newht, pending.key))
    /\ newht' = NoTable
    /\ pending' = NoPair
    /\ UNCHANGED <<it, wide>>

HashTable_Find(k) ==
    /\ mode \in {"idle", "iter"}
    /\ out' = Ret("Find", k, Found(ht, k) # 0, FoundPair(ht, k))
    /\ Uses(k)
    /\ UNCHANGED <<ht, it, mode, newht, pending>>

HashTable_Remove(k) ==
    /\ mode = "idle"
    /\ ht' = IF Found(ht, k) = 0 THEN ht ELSE Delete(ht, k)
    /\ out' = Ret("Remove", k, Found(ht, k) # 0, FoundPair(ht, k))
    /\ Uses(k)
    /\ UNCHANGED <<it, mode, newht, pending>>

-----------------------------------------------------------------------------
HTIterator_Allocate ==
    /\ mode = "idle"
    /\ mode' = "iter"
    /\ it' = IF ht.num_elements = 0 THEN PastEnd ELSE EnterBucket(ht, 0)
    /\ out' = Void
    /\ UNCHANGED <<ht, newht, pending, wide>>

HTIterator_Free ==
    /\ mode = "iter"
    /\ mode' = "idle"
    /\ it' = PastEnd
    /\ out' = Void
    /\ UNCHANGED <<ht, newht, pending, wide>>

HTIterator_IsValid ==
    /\ mode = "iter"
    /\ out' = Ret("IsValid", NoKey, it.idx # INVALID_IDX, NoPair)
    /\ UNCHANGED <<ht, it, mode, newht, pending, wide>>

HTIterator_Next ==
    /\ mode = "iter"
    /\ it' = Advance(ht, it)
    /\ out' = Ret("Next", NoKey, it'.idx # INVALID_IDX, NoPair)
    /\ UNCHANGED <<ht, mode, newht, pending, wide>>

HTIterator_Get ==
    /\ mode = "iter"
    /\ out' = Ret("Get", NoKey, it.idx # INVALID_IDX, At(ht, it))
    /\ UNCHANGED <<ht, it, mode, newht, pending, wide>>

(* HTIterator_Remove gets the pair, moves on, and then removes by key; the *)
(* removal must find that same pair, or Verify333 ends the process.  The   *)
(* bucket's LLIterator points at a node, whose position drops when a node  *)
(* before it goes.                                                         *)
IterRemovePastEnd ==
    /\ mode = "iter"
    /\ it.idx = INVALID_IDX
    /\ out' = Ret("IterRemove", NoKey, FALSE, NoPair)
    /\ UNCHANGED <<ht, it, mode, newht, pending, wide>>

IterRemoveKey ==
    /\ mode = "iter"
    /\ it.idx # INVALID_IDX
    /\ LET kv == At(ht, it)
           next == Advance(ht, it)
           here == HashKeyToBucketNum(ht, kv.key)
       IN  /\ Found(ht, kv.key) # 0
           /\ FoundPair(ht, kv.key) = kv
           /\ ht' = Delete(ht, kv.key)
           /\ it' = IF next.idx = here /\ Found(ht, kv.key) < next.pos
                    THEN [next EXCEPT !.pos = @ - 1] ELSE next
           /\ out' = Ret("IterRemove", NoKey, TRUE, kv)
    /\ UNCHANGED <<mode, newht, pending, wide>>

IterRemoveExits ==
    /\ mode = "iter"
    /\ it.idx # INVALID_IDX
    /\ LET key == At(ht, it).key
       IN  Found(ht, key) # 0 => FoundPair(ht, key) # At(ht, it)
    /\ mode' = "exited"
    /\ UNCHANGED <<ht, it, newht, pending, out, wide>>

HTIterator_Remove == IterRemovePastEnd \/ IterRemoveKey \/ IterRemoveExits

-----------------------------------------------------------------------------
TableCalls ==
    \/ \E n \in InitialBuckets : HashTable_Allocate(n)
    \/ HashTable_Free
    \/ HashTable_NumElements
    \/ \E k \in Keys, v \in Values :
          ht.num_elements < MaxElements /\ (HashTable_Insert(k, v) \/ ResizeBegin(k, v))
    \/ \E k \in Keys : HashTable_Find(k) \/ HashTable_Remove(k)

ResizeLoop == ResizeCopy \/ ResizeEnd

IteratorCalls ==
    \/ HTIterator_Allocate \/ HTIterator_Free \/ HTIterator_IsValid
    \/ HTIterator_Next \/ HTIterator_Get \/ HTIterator_Remove

Next == TableCalls \/ ResizeLoop \/ IteratorCalls

Spec == Init /\ [][Next]_vars

(* A call that has started runs on. *)
FairSpec == Spec /\ WF_vars(ResizeLoop)

-----------------------------------------------------------------------------
KVs == [key : Keys, value : Values]

TableOK(t) ==
    t \in [num_buckets : Nat, num_elements : 0..MaxElements, buckets : [Buckets(t) -> Seq(KVs)]]

(* The tables hold pairs of the customers' keys and values, and an         *)
(* iterator that is not past the end is at a pair.                         *)
TypeOK ==
    /\ TableOK(ht)
    /\ TableOK(newht)
    /\ mode \in {"none", "idle", "iter", "resizing", "exited"}
    /\ pending \in KVs \cup {NoPair}
    /\ it \in Slots(ht) \cup {PastEnd}
    /\ wide \in BOOLEAN

(* Every pair is in the chain its key hashes to, so that one chain is all  *)
(* a lookup needs to search, and num_elements counts the pairs: in the     *)
(* table, and in the one MaybeResize is filling.                           *)
WellPlaced(t) ==
    /\ \A s \in Slots(t) : HashKeyToBucketNum(t, At(t, s).key) = s.idx
    /\ IsFiniteSet(Slots(t)) /\ t.num_elements = Cardinality(Slots(t))
Placed == WellPlaced(ht) /\ WellPlaced(newht)

(* Between calls the load factor is at most 3, whatever sequence of        *)
(* insertions and replacements led there; and MaybeResize's own insertions *)
(* never find the table they fill at its limit, so HashTable_Insert and    *)
(* MaybeResize do not recurse further.                                     *)
LoadBounded ==
    /\ mode \in {"idle", "iter"} => ht.num_elements <= 3 * ht.num_buckets
    /\ mode = "resizing" => ~MustResize(newht)

-----------------------------------------------------------------------------
(* The inductive invariant. *)

(* What each mode says of the other variables. *)
Phases ==
    /\ mode = "none" => ht = NoTable
    /\ mode # "none" => ht.num_buckets > 0
    /\ mode \in {"none", "idle"} => it = PastEnd
    /\ mode # "resizing" => newht = NoTable /\ pending = NoPair
    /\ mode = "resizing" =>
          /\ pending \in KVs
          /\ newht.num_buckets = 9 * ht.num_buckets
          /\ ht.num_elements < MaxElements
          /\ ht.num_elements <= 3 * ht.num_buckets

(* The slots an iterator has not left. *)
Rest(t, i) == {s \in Slots(t) : s = i} \cup Ahead(t, i)

(* MaybeResize's copy has at most one pair for each one it has copied, and *)
(* exactly those as long as keys can be told apart.                        *)
Copied ==
    mode = "resizing" =>
        /\ newht.num_elements + Cardinality(Rest(ht, it)) <= ht.num_elements
        /\ ~wide => Pairs(newht) = {At(ht, s) : s \in Slots(ht) \ Rest(ht, it)}

(* As long as they fit an int, no two pairs have the same key. *)
Distinct(t) ==
    /\ \A s \in Slots(t) : IntKey(At(t, s).key) = At(t, s).key
    /\ \A r, s \in Slots(t) : At(t, r).key = At(t, s).key => r = s
KeysDistinct ==
    ~wide =>
        /\ Distinct(ht) /\ Distinct(newht)
        /\ mode = "resizing" => IntKey(pending.key) = pending.key

IInv == TypeOK /\ Phases /\ Placed /\ LoadBounded /\ Copied /\ KeysDistinct

-----------------------------------------------------------------------------
(* HashTable.c implements the map of HashTable.h, for as long as every key *)
(* its customers pass fits an int: lookups see the last insertion,         *)
(* replaced pairs are handed back, resizing loses and invents nothing, and *)
(* an iterator visits each pair once, removals included.                   *)
ImplementsMap == Abstract!Spec

(* A resize ends. *)
ResizeEnds == mode = "resizing" ~> mode = "idle"

(* HashTable.h on HashTable_Find: "Looks up a key in the HashTable, and if *)
(* it is present, returns the (key,value) associated with it."             *)
FindsStoredKeys ==
    out.op = "Find" =>
        /\ out.ret = "true" <=> \E kv \in Pairs(ht) : kv.key = out.arg
        /\ out.ret = "true" => out.kv.key = out.arg
=============================================================================
