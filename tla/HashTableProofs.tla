-------------------------- MODULE HashTableProofs ---------------------------
(***************************************************************************)
(* Proofs, for any keys, values and table sizes, that HashTable.c keeps    *)
(* every pair in the chain its key hashes to and counts them, that it      *)
(* resizes in time, and that it is the map of KeyValueMap for as long as   *)
(* keys fit an int.                                                        *)
(*                                                                         *)
(* A table is seen as its slots, the places of its pairs.  Insertion,      *)
(* replacement and removal put another chain in one bucket: UpdateIs says  *)
(* what that does to the slots, SlotsGrow and SlotsShrink to their number. *)
(***************************************************************************)
EXTENDS HashTable, FiniteSetTheorems, SequenceTheorems, TLAPS

Shared == INSTANCE SharedLemmas

USE BucketsAssumption, WidthAssumption, NoKeyAssumption

-----------------------------------------------------------------------------
(* Sets of numbers and sequences. *)

(* Min finds the least element. *)
LEMMA MinIs ==
    ASSUME NEW T, T \subseteq Nat, T # {}
    PROVE  Min(T) \in T /\ \A y \in T : Min(T) <= y
<1>1. \E x \in T : \A y \in T : x <= y
  BY Shared!LeastNat, Zenon
<1>2. QED
  BY <1>1, Zenon DEF Min

(* A sequence without its i-th element. *)
LEMMA RemoveAtProperties ==
    ASSUME NEW S, NEW s \in Seq(S), NEW i \in 1..Len(s)
    PROVE  /\ RemoveAt(s, i) \in Seq(S)
           /\ Len(RemoveAt(s, i)) = Len(s) - 1
           /\ \A k \in 1..(Len(s) - 1) :
                 RemoveAt(s, i)[k] = IF k < i THEN s[k] ELSE s[k + 1]
<1>1. RemoveAt(s, i) = Shared!RemoveAt(s, i)
  BY DEF RemoveAt, Shared!RemoveAt
<1>2. QED
  BY <1>1, Shared!RemoveAtProperties

-----------------------------------------------------------------------------
(* Keys, buckets and chains. *)

(* The types of a table's parts. *)
LEMMA TableIs ==
    ASSUME NEW t, TableOK(t)
    PROVE  /\ t.num_buckets \in Nat /\ t.num_elements \in 0..MaxElements
           /\ t.buckets \in [Buckets(t) -> Seq(KVs)]
           /\ t = [num_buckets |-> t.num_buckets, num_elements |-> t.num_elements,
                   buckets |-> t.buckets]
  BY DEF TableOK

(* A key's bucket is one of the table's. *)
LEMMA BucketNumIs ==
    ASSUME NEW t, TableOK(t), t.num_buckets > 0, NEW k \in Keys
    PROVE  HashKeyToBucketNum(t, k) \in Buckets(t)
<1>1. k \in Nat /\ t.num_buckets \in Nat \ {0}
  BY TableIs
<1>2. k % t.num_buckets \in 0..(t.num_buckets - 1)
  BY <1>1
<1>3. QED
  BY <1>2 DEF HashKeyToBucketNum, Buckets

(* What a search of a chain finds. *)
LEMMA hasKeyIs ==
    ASSUME NEW chain \in Seq(KVs), NEW k
    PROVE  /\ hasKey(chain, k) \in 0..Len(chain)
           /\ hasKey(chain, k) # 0 =>
                 /\ chain[hasKey(chain, k)].key = IntKey(k)
                 /\ \A i \in 1..Len(chain) : chain[i].key = IntKey(k) => hasKey(chain, k) <= i
           /\ hasKey(chain, k) = 0 => \A i \in 1..Len(chain) : chain[i].key # IntKey(k)
<1> DEFINE I == {i \in 1..Len(chain) : chain[i].key = IntKey(k)}
<1>1. hasKey(chain, k) = IF I # {} THEN Min(I) ELSE 0
  BY DEF hasKey, SelectInSeq
<1>2. CASE I = {}
  BY <1>1, <1>2
<1>3. CASE I # {}
  <2>1. I \subseteq Nat
    OBVIOUS
  <2>2. Min(I) \in I /\ \A i \in I : Min(I) <= i
    BY <1>3, <2>1, MinIs, Zenon
  <2>3. QED
    BY <1>1, <1>3, <2>2
<1>4. QED
  BY <1>2, <1>3

(* A slot is a position of a chain. *)
LEMMA SlotIs ==
    ASSUME NEW t, TableOK(t)
    PROVE  /\ \A s \in Slots(t) : /\ s.idx \in Buckets(t) /\ s.pos \in 1..Len(t.buckets[s.idx])
                                  /\ s = [idx |-> s.idx, pos |-> s.pos]
                                  /\ s.idx \in Nat /\ s.pos \in Nat
           /\ \A b \in Buckets(t) : \A p \in 1..Len(t.buckets[b]) :
                 [idx |-> b, pos |-> p] \in Slots(t)
           /\ \A s \in Slots(t) : At(t, s) \in KVs
<1>1. \A b \in Buckets(t) : t.buckets[b] \in Seq(KVs) /\ DOMAIN t.buckets[b] = 1..Len(t.buckets[b])
  BY TableIs
<1>2. ASSUME NEW s \in Slots(t)
      PROVE  /\ s.idx \in Buckets(t) /\ s.pos \in 1..Len(t.buckets[s.idx])
             /\ s = [idx |-> s.idx, pos |-> s.pos]
             /\ s.idx \in Nat /\ s.pos \in Nat
             /\ At(t, s) \in KVs
  <2>5. PICK b \in Buckets(t) : s \in {[idx |-> b, pos |-> p] : p \in DOMAIN t.buckets[b]}
    BY <1>2 DEF Slots
  <2>1. PICK p \in DOMAIN t.buckets[b] : s = [idx |-> b, pos |-> p]
    BY <2>5
  <2>2. b \in Nat /\ p \in Nat
    BY <1>1, <2>5, <2>1, TableIs DEF Buckets
  <2>3. t.buckets[b][p] \in KVs
    BY <1>1, <2>5, <2>1
  <2>4. QED
    BY <1>1, <2>5, <2>1, <2>2, <2>3 DEF At
<1>3. ASSUME NEW b \in Buckets(t), NEW p \in 1..Len(t.buckets[b])
      PROVE  [idx |-> b, pos |-> p] \in Slots(t)
  <2> DEFINE S == {[idx |-> b, pos |-> q] : q \in DOMAIN t.buckets[b]}
  <2>1. [idx |-> b, pos |-> p] \in S
    BY <1>1, <1>3
  <2>2. S \in {{[idx |-> c, pos |-> q] : q \in DOMAIN t.buckets[c]} : c \in Buckets(t)}
    OBVIOUS
  <2> HIDE DEF S
  <2>3. QED
    BY <2>1, <2>2 DEF Slots
<1>4. QED
  BY <1>2, <1>3

(* The pairs of a table are those in its slots. *)
LEMMA PairsAre ==
    ASSUME NEW t, TableOK(t)
    PROVE  Pairs(t) = {At(t, s) : s \in Slots(t)}
<1>1. \A b \in Buckets(t) : DOMAIN t.buckets[b] = 1..Len(t.buckets[b])
  BY TableIs
<1>2. ASSUME NEW s \in Slots(t)
      PROVE  At(t, s) \in Pairs(t)
  <2>1. s.idx \in Buckets(t) /\ s.pos \in DOMAIN t.buckets[s.idx]
    BY <1>1, <1>2, SlotIs
  <2>2. QED
    BY <2>1 DEF Pairs, ToSet, At
<1>3. ASSUME NEW kv \in Pairs(t)
      PROVE  \E s \in Slots(t) : kv = At(t, s)
  <2>1. PICK b \in Buckets(t) : kv \in ToSet(t.buckets[b])
    BY <1>3 DEF Pairs
  <2>2. PICK p \in DOMAIN t.buckets[b] : kv = t.buckets[b][p]
    BY <2>1 DEF ToSet
  <2>3. [idx |-> b, pos |-> p] \in Slots(t)
    BY <1>1, <2>1, <2>2, SlotIs
  <2>4. At(t, [idx |-> b, pos |-> p]) = kv
    BY <2>2 DEF At
  <2>5. QED
    BY <2>3, <2>4
<1>4. QED
  BY <1>2, <1>3

-----------------------------------------------------------------------------
(* Another chain in a bucket. *)

(* The table with that chain, and the number of elements that goes with    *)
(* it.                                                                     *)
Update(t, b, chain, n) ==
    [num_buckets |-> t.num_buckets, num_elements |-> n,
     buckets |-> [t.buckets EXCEPT ![b] = chain]]

(* u is such a table. *)
IsUpdate(t, b, chain, n, u) ==
    /\ TableOK(t) /\ b \in Buckets(t)
    /\ chain \in Seq(KVs) /\ n \in 0..MaxElements
    /\ u = Update(t, b, chain, n)

(* The slots of the other buckets, and the pairs in them, stay. *)
LEMMA UpdateIs ==
    ASSUME NEW t, NEW b, NEW chain, NEW n, NEW u, IsUpdate(t, b, chain, n, u)
    PROVE  /\ TableOK(u) /\ u.num_buckets = t.num_buckets /\ u.num_elements = n
           /\ Buckets(u) = Buckets(t)
           /\ u.buckets[b] = chain
           /\ \A c \in Buckets(t) : c # b => u.buckets[c] = t.buckets[c]
           /\ \A s : s.idx # b => (s \in Slots(u) <=> s \in Slots(t))
           /\ \A s : s.idx # b /\ s \in Slots(t) => At(u, s) = At(t, s)
<1> TableOK(t) /\ b \in Buckets(t) /\ chain \in Seq(KVs) /\ n \in 0..MaxElements
  BY DEF IsUpdate
<1>1. /\ u.num_buckets = t.num_buckets /\ u.num_elements = n
      /\ u.buckets = [t.buckets EXCEPT ![b] = chain]
      /\ u = [num_buckets |-> u.num_buckets, num_elements |-> u.num_elements,
              buckets |-> u.buckets]
  BY DEF IsUpdate, Update
<1>2. Buckets(u) = Buckets(t)
  BY <1>1 DEF Buckets
<1>3. t.num_buckets \in Nat /\ t.buckets \in [Buckets(t) -> Seq(KVs)]
  BY TableIs
<1>4. u.buckets \in [Buckets(t) -> Seq(KVs)]
  BY <1>1, <1>3
<1>5. TableOK(u)
  BY <1>1, <1>2, <1>3, <1>4 DEF TableOK
<1>6. u.buckets[b] = chain /\ \A c \in Buckets(t) : c # b => u.buckets[c] = t.buckets[c]
  BY <1>1, <1>3
<1>7. ASSUME NEW s, s.idx # b
      PROVE  s \in Slots(u) <=> s \in Slots(t)
  <2>1. ASSUME s \in Slots(u)
        PROVE  s \in Slots(t)
    <3>1. s.idx \in Buckets(t) /\ s.pos \in 1..Len(u.buckets[s.idx]) /\ s = [idx |-> s.idx, pos |-> s.pos]
      BY <1>2, <1>5, <2>1, SlotIs
    <3>2. s.pos \in 1..Len(t.buckets[s.idx])
      BY <1>6, <1>7, <3>1
    <3>3. [idx |-> s.idx, pos |-> s.pos] \in Slots(t)
      BY <3>1, <3>2, SlotIs
    <3>4. QED
      BY <3>1, <3>3
  <2>2. ASSUME s \in Slots(t)
        PROVE  s \in Slots(u)
    <3>1. s.idx \in Buckets(u) /\ s.pos \in 1..Len(t.buckets[s.idx]) /\ s = [idx |-> s.idx, pos |-> s.pos]
      BY <1>2, <2>2, SlotIs
    <3>2. s.pos \in 1..Len(u.buckets[s.idx])
      BY <1>2, <1>6, <1>7, <3>1
    <3>3. [idx |-> s.idx, pos |-> s.pos] \in Slots(u)
      BY <1>5, <3>1, <3>2, SlotIs
    <3>4. QED
      BY <3>1, <3>3
  <2>3. QED
    BY <2>1, <2>2
<1>8. ASSUME NEW s, s.idx # b, s \in Slots(t)
      PROVE  At(u, s) = At(t, s)
  <2>1. s.idx \in Buckets(t)
    BY <1>8, SlotIs
  <2>2. QED
    BY <1>6, <1>8, <2>1 DEF At
<1>9. QED
  BY <1>1, <1>2, <1>5, <1>6, <1>7, <1>8

(* A longer chain has one more slot, at its end; a shorter one lacks that. *)
LEMMA SlotsGrow ==
    ASSUME NEW t, NEW b, NEW chain, NEW n, NEW u, IsUpdate(t, b, chain, n, u),
           Len(chain) = Len(t.buckets[b]) + 1, IsFiniteSet(Slots(t))
    PROVE  /\ Slots(u) = Slots(t) \cup {[idx |-> b, pos |-> Len(chain)]}
           /\ IsFiniteSet(Slots(u)) /\ Cardinality(Slots(u)) = Cardinality(Slots(t)) + 1
<1> TableOK(t) /\ b \in Buckets(t) /\ chain \in Seq(KVs) /\ n \in 0..MaxElements
  BY DEF IsUpdate
<1> DEFINE x == [idx |-> b, pos |-> Len(chain)]
<1>1. /\ TableOK(u) /\ Buckets(u) = Buckets(t) /\ u.buckets[b] = chain
      /\ \A s : s.idx # b => (s \in Slots(u) <=> s \in Slots(t))
  BY UpdateIs
<1>2. t.buckets[b] \in Seq(KVs) /\ Len(t.buckets[b]) \in Nat
  BY TableIs
<1>3. x \notin Slots(t)
  <2>1. ASSUME x \in Slots(t)
        PROVE  FALSE
    <3>1. x.pos \in 1..Len(t.buckets[x.idx])
      BY <2>1, SlotIs
    <3>2. QED
      BY <1>2, <3>1
  <2>2. QED
    BY <2>1
<1>4. x \in Slots(u)
  <2>1. Len(chain) \in 1..Len(u.buckets[b])
    BY <1>1, <1>2
  <2>2. QED
    BY <1>1, <2>1, SlotIs
<1>5. ASSUME NEW s \in Slots(u), s # x
      PROVE  s \in Slots(t)
  <2>1. CASE s.idx # b
    BY <1>1, <1>5, <2>1
  <2>2. CASE s.idx = b
    <3>1. s.pos \in 1..Len(chain) /\ s = [idx |-> s.idx, pos |-> s.pos]
      BY <1>1, <1>5, <2>2, SlotIs
    <3>2. s.pos # Len(chain)
      BY <1>5, <2>2, <3>1
    <3>3. s.pos \in 1..Len(t.buckets[b])
      BY <1>2, <3>1, <3>2
    <3>4. [idx |-> b, pos |-> s.pos] \in Slots(t)
      BY <3>3, SlotIs
    <3>5. QED
      BY <2>2, <3>1, <3>4
  <2>3. QED
    BY <2>1, <2>2
<1>6. ASSUME NEW s \in Slots(t)
      PROVE  s \in Slots(u)
  <2>1. CASE s.idx # b
    BY <1>1, <1>6, <2>1
  <2>2. CASE s.idx = b
    <3>1. s.pos \in 1..Len(t.buckets[b]) /\ s = [idx |-> s.idx, pos |-> s.pos]
      BY <1>6, <2>2, SlotIs
    <3>2. s.pos \in 1..Len(u.buckets[b])
      BY <1>1, <1>2, <3>1
    <3>3. [idx |-> b, pos |-> s.pos] \in Slots(u)
      BY <1>1, <3>2, SlotIs
    <3>4. QED
      BY <2>2, <3>1, <3>3
  <2>3. QED
    BY <2>1, <2>2
<1> HIDE DEF x
<1>7. Slots(u) = Slots(t) \cup {x}
  BY <1>4, <1>5, <1>6
<1>8. IsFiniteSet(Slots(u)) /\ Cardinality(Slots(u)) = Cardinality(Slots(t)) + 1
  BY <1>3, <1>7, FS_AddElement
<1>9. QED
  BY <1>7, <1>8 DEF x

(* A chain that keeps its length has the same places. *)
LEMMA SlotsSame ==
    ASSUME NEW t, NEW b, NEW chain, NEW n, NEW u, IsUpdate(t, b, chain, n, u),
           Len(chain) = Len(t.buckets[b])
    PROVE  Slots(u) = Slots(t)
<1> TableOK(t) /\ b \in Buckets(t) /\ chain \in Seq(KVs) /\ n \in 0..MaxElements
  BY DEF IsUpdate
<1>1. /\ TableOK(u) /\ Buckets(u) = Buckets(t) /\ u.buckets[b] = chain
      /\ \A c \in Buckets(t) : c # b => u.buckets[c] = t.buckets[c]
  BY UpdateIs
<1>2. \A c \in Buckets(t) : Len(u.buckets[c]) = Len(t.buckets[c])
  BY <1>1
<1>3. ASSUME NEW s \in Slots(u)
      PROVE  s \in Slots(t)
  <2>1. s.idx \in Buckets(t) /\ s.pos \in 1..Len(t.buckets[s.idx]) /\ s = [idx |-> s.idx, pos |-> s.pos]
    BY <1>1, <1>2, SlotIs
  <2>2. [idx |-> s.idx, pos |-> s.pos] \in Slots(t)
    BY <2>1, SlotIs
  <2>3. QED
    BY <2>1, <2>2
<1>4. ASSUME NEW s \in Slots(t)
      PROVE  s \in Slots(u)
  <2>1. s.idx \in Buckets(u) /\ s.pos \in 1..Len(u.buckets[s.idx]) /\ s = [idx |-> s.idx, pos |-> s.pos]
    BY <1>1, <1>2, SlotIs
  <2>2. [idx |-> s.idx, pos |-> s.pos] \in Slots(u)
    BY <1>1, <2>1, SlotIs
  <2>3. QED
    BY <2>1, <2>2
<1>5. QED
  BY <1>3, <1>4

(* A chain that is one shorter has one place less. *)
LEMMA SlotsShrink ==
    ASSUME NEW t, NEW b, NEW chain, NEW n, NEW u, IsUpdate(t, b, chain, n, u),
           Len(chain) = Len(t.buckets[b]) - 1, IsFiniteSet(Slots(t))
    PROVE  /\ Slots(u) = Slots(t) \ {[idx |-> b, pos |-> Len(t.buckets[b])]}
           /\ IsFiniteSet(Slots(u)) /\ Cardinality(Slots(u)) = Cardinality(Slots(t)) - 1
           /\ Cardinality(Slots(t)) >= 1
<1> TableOK(t) /\ b \in Buckets(t) /\ chain \in Seq(KVs) /\ n \in 0..MaxElements
  BY DEF IsUpdate
<1> DEFINE old == t.buckets[b]  m == t.num_elements
<1>1. old \in Seq(KVs) /\ m \in 0..MaxElements
  BY TableIs
<1>2. /\ TableOK(u) /\ Buckets(u) = Buckets(t) /\ u.buckets[b] = chain
      /\ \A c \in Buckets(t) : c # b => u.buckets[c] = t.buckets[c]
  BY UpdateIs
<1>3. IsUpdate(u, b, old, m, t)
  <2>1. /\ u.num_buckets = t.num_buckets /\ u.buckets = [t.buckets EXCEPT ![b] = chain]
        /\ t.buckets \in [Buckets(t) -> Seq(KVs)]
        /\ t = [num_buckets |-> t.num_buckets, num_elements |-> t.num_elements,
                buckets |-> t.buckets]
    BY TableIs DEF IsUpdate, Update
  <2>2. [u.buckets EXCEPT ![b] = t.buckets[b]] = t.buckets
    BY <2>1
  <2>3. QED
    BY <2>1, <2>2 DEF IsUpdate, Update
<1>4. Len(old) = Len(u.buckets[b]) + 1
  BY <1>1, <1>2
<1>5. IsFiniteSet(Slots(u))
  <2>1. \A s \in Slots(u) : s \in Slots(t)
    <3>1. ASSUME NEW s \in Slots(u)
          PROVE  s \in Slots(t)
      <4>1. s.idx \in Buckets(t) /\ s.pos \in 1..Len(u.buckets[s.idx]) /\ s = [idx |-> s.idx, pos |-> s.pos]
        BY <1>2, SlotIs
      <4>2. s.pos \in 1..Len(t.buckets[s.idx])
        <5>1. CASE s.idx = b
          BY <1>1, <1>2, <4>1, <5>1
        <5>2. CASE s.idx # b
          BY <1>2, <4>1, <5>2
        <5>3. QED
          BY <5>1, <5>2
      <4>3. [idx |-> s.idx, pos |-> s.pos] \in Slots(t)
        BY <4>1, <4>2, SlotIs
      <4>4. QED
        BY <4>1, <4>3
    <3>2. QED
      BY <3>1
  <2>2. Slots(u) \in SUBSET Slots(t)
    BY <2>1
  <2>3. QED
    BY <2>2, FS_Subset, Zenon
<1> HIDE DEF old, m
<1>6. /\ Slots(t) = Slots(u) \cup {[idx |-> b, pos |-> Len(old)]}
      /\ Cardinality(Slots(t)) = Cardinality(Slots(u)) + 1
  BY <1>3, <1>4, <1>5, SlotsGrow
<1>7. [idx |-> b, pos |-> Len(old)] \notin Slots(u)
  <2>1. ASSUME [idx |-> b, pos |-> Len(old)] \in Slots(u)
        PROVE  FALSE
    <3>1. Len(old) \in 1..Len(u.buckets[b])
      BY <1>2, <2>1, SlotIs
    <3>2. QED
      BY <1>1, <1>2, <1>4, <3>1
  <2>2. QED
    BY <2>1
<1>8. Cardinality(Slots(u)) \in Nat
  BY <1>5, FS_CardinalityType, Zenon
<1>9. QED
  BY <1>5, <1>6, <1>7, <1>8 DEF old

-----------------------------------------------------------------------------
(* What an insertion puts into its chain. *)

(* The pair at the end, and the one at i that it replaces, if any, taken   *)
(* out.                                                                    *)
Replaced(old, i, kv) == IF i = 0 THEN Append(old, kv) ELSE RemoveAt(Append(old, kv), i)

(* The new pair is the last, and the others keep their order. *)
InPlace(old, i, kv, chain) ==
    /\ chain \in Seq(KVs)
    /\ Len(chain) = IF i = 0 THEN Len(old) + 1 ELSE Len(old)
    /\ Len(chain) >= 1 /\ chain[Len(chain)] = kv
    /\ \A k \in 1..(Len(chain) - 1) : chain[k] = old[IF i = 0 \/ k < i THEN k ELSE k + 1]

(* What HashTable_Insert makes of a chain, with or without an old pair. *)
LEMMA ReplacedIs ==
    ASSUME NEW old \in Seq(KVs), NEW i \in 0..Len(old), NEW kv \in KVs
    PROVE  InPlace(old, i, kv, Replaced(old, i, kv))
<1> DEFINE g == Append(old, kv)
           chain == Replaced(old, i, kv)
<1>1. /\ g \in Seq(KVs) /\ Len(g) = Len(old) + 1 /\ g[Len(old) + 1] = kv
      /\ \A k \in 1..Len(old) : g[k] = old[k]
  OBVIOUS
<1>2. Len(old) \in Nat
  OBVIOUS
<1> SUFFICES InPlace(old, i, kv, chain)
  OBVIOUS
<1> HIDE DEF g, chain
<1>3. CASE i = 0
  <2>1. chain = g
    BY <1>3 DEF Replaced, g, chain
  <2>2. QED
    BY <1>1, <1>2, <1>3, <2>1 DEF InPlace
<1>4. CASE i # 0
  <2>1. chain = RemoveAt(g, i) /\ i \in 1..Len(g)
    BY <1>1, <1>2, <1>4 DEF Replaced, g, chain
  <2>2. /\ chain \in Seq(KVs) /\ Len(chain) = Len(g) - 1
        /\ \A k \in 1..(Len(g) - 1) : chain[k] = IF k < i THEN g[k] ELSE g[k + 1]
    BY <1>1, <2>1, RemoveAtProperties, Zenon
  <2>3. Len(chain) = Len(old) /\ Len(old) >= 1
    BY <1>1, <1>2, <1>4, <2>2
  <2>4. chain[Len(old)] = kv
    BY <1>1, <1>2, <2>2, <2>3
  <2>5. ASSUME NEW k \in 1..(Len(old) - 1)
        PROVE  chain[k] = old[IF i = 0 \/ k < i THEN k ELSE k + 1]
    <3>1. k \in 1..(Len(g) - 1) /\ k \in 1..Len(old) /\ k + 1 \in 1..Len(old)
      BY <1>1, <1>2
    <3>2. CASE k < i
      BY <1>1, <2>2, <3>1, <3>2
    <3>3. CASE ~(k < i)
      BY <1>1, <1>4, <2>2, <3>1, <3>3
    <3>4. QED
      BY <3>2, <3>3
  <2>6. QED
    BY <1>4, <2>2, <2>3, <2>4, <2>5 DEF InPlace
<1>5. QED
  BY <1>3, <1>4

(* An update the way the model writes it. *)
Excepted(t, b, chain, n, u) == u = [t EXCEPT !.buckets[b] = chain, !.num_elements = n]

(* The two fields that EXCEPT replaces. *)
LEMMA RecordUpdate ==
    ASSUME NEW t, TableOK(t), NEW b, NEW chain, NEW n, NEW u, Excepted(t, b, chain, n, u)
    PROVE  u = Update(t, b, chain, n)
<1>0. t = [num_buckets |-> t.num_buckets, num_elements |-> t.num_elements,
           buckets |-> t.buckets]
  BY TableIs
<1> DEFINE x == [num_buckets |-> t.num_buckets, num_elements |-> t.num_elements,
                 buckets |-> [t.buckets EXCEPT ![b] = chain]]
           y == [x EXCEPT !.num_elements = n]
<1>1. [t EXCEPT !.buckets[b] = chain] = x
  BY <1>0
<1>2. u = y
  BY <1>1 DEF Excepted
<1>3. y = [f \in {"num_buckets", "num_elements", "buckets"} |->
              IF f = "num_elements" THEN n ELSE x[f]]
  OBVIOUS
<1>4. y = [num_buckets |-> y.num_buckets, num_elements |-> y.num_elements, buckets |-> y.buckets]
  BY <1>3
<1>5. /\ y.num_buckets = t.num_buckets /\ y.num_elements = n
      /\ y.buckets = [t.buckets EXCEPT ![b] = chain]
  BY <1>3
<1>6. QED
  BY <1>2, <1>4, <1>5 DEF Update

(* HashTable_Insert and HashTable_Remove change one chain. *)
LEMMA PutIs ==
    ASSUME NEW t, TableOK(t), t.num_buckets > 0, t.num_elements < MaxElements,
           NEW kv \in KVs, NEW b, b = HashKeyToBucketNum(t, kv.key),
           NEW i, i = Found(t, kv.key), NEW n,
           n = IF i = 0 THEN t.num_elements + 1 ELSE t.num_elements
    PROVE  /\ b \in Buckets(t) /\ t.buckets[b] \in Seq(KVs) /\ i \in 0..Len(t.buckets[b])
           /\ IsUpdate(t, b, Replaced(t.buckets[b], i, kv), n, Put(t, kv))
<1>1. b \in Buckets(t)
  BY BucketNumIs DEF KVs
<1>2. t.buckets[b] \in Seq(KVs)
  BY <1>1, TableIs
<1>3. i \in 0..Len(t.buckets[b])
  BY <1>2, hasKeyIs DEF Found, ChainOf
<1> DEFINE chain == Replaced(t.buckets[b], i, kv)
<1>4. Excepted(t, b, chain, n, Put(t, kv))
  BY DEF Excepted, Put, ChainOf, Replaced
<1>5. chain \in Seq(KVs)
  BY <1>2, <1>3, ReplacedIs DEF InPlace
<1>6. n \in 0..MaxElements
  BY TableIs
<1> HIDE DEF chain
<1>7. Put(t, kv) = Update(t, b, chain, n)
  BY <1>4, RecordUpdate
<1>8. QED
  BY <1>1, <1>2, <1>3, <1>5, <1>6, <1>7 DEF IsUpdate, chain

(* HashTable_Remove takes one pair out of the chain its key hashes to. *)
LEMMA DeleteIs ==
    ASSUME NEW t, TableOK(t), t.num_buckets > 0, t.num_elements > 0,
           NEW k \in Keys, NEW b, b = HashKeyToBucketNum(t, k),
           NEW i, i = Found(t, k), i # 0, NEW n, n = t.num_elements - 1
    PROVE  /\ b \in Buckets(t) /\ t.buckets[b] \in Seq(KVs) /\ i \in 1..Len(t.buckets[b])
           /\ IsUpdate(t, b, RemoveAt(t.buckets[b], i), n, Delete(t, k))
<1>1. b \in Buckets(t)
  BY BucketNumIs
<1>2. t.buckets[b] \in Seq(KVs)
  BY <1>1, TableIs
<1>3. i \in 1..Len(t.buckets[b])
  BY <1>2, hasKeyIs DEF Found, ChainOf
<1> DEFINE chain == RemoveAt(t.buckets[b], i)
<1>4. Excepted(t, b, chain, n, Delete(t, k))
  BY DEF Excepted, Delete
<1>5. chain \in Seq(KVs)
  BY <1>2, <1>3, RemoveAtProperties
<1>6. n \in 0..MaxElements
  BY TableIs
<1> HIDE DEF chain
<1>7. Delete(t, k) = Update(t, b, chain, n)
  BY <1>4, RecordUpdate
<1>8. QED
  BY <1>1, <1>2, <1>3, <1>5, <1>6, <1>7 DEF IsUpdate, chain

-----------------------------------------------------------------------------
(* Where the pairs go. *)

(* The first m pairs of chain are those of old, the i-th left out. *)
Shifted(old, i, m, chain) ==
    /\ i \in 0..Len(old)
    /\ m = IF i = 0 THEN Len(old) ELSE Len(old) - 1
    /\ m <= Len(chain)
    /\ \A k \in 1..m : chain[k] = old[IF i = 0 \/ k < i THEN k ELSE k + 1]

(* The slot a pair was in before the i-th of bucket b was taken out. *)
Origin(b, i, s) ==
    IF s.idx # b \/ i = 0 \/ s.pos < i THEN s ELSE [idx |-> s.idx, pos |-> s.pos + 1]

(* The slots of u from m + 1 on in b are new.  The others hold the pairs   *)
(* of t, that of one slot left out.                                        *)
Fresh(u, b, m) == {s \in Slots(u) : s.idx = b /\ s.pos > m}

(* The pairs that stay keep their order. *)
Moved(t, u, b, i, m) ==
    /\ \A s \in Slots(u) \ Fresh(u, b, m) :
          /\ Origin(b, i, s) \in Slots(t) \ {[idx |-> b, pos |-> i]}
          /\ Origin(b, i, s).idx = s.idx
          /\ At(u, s) = At(t, Origin(b, i, s))
    /\ \A r, s \in Slots(u) \ Fresh(u, b, m) : Origin(b, i, r) = Origin(b, i, s) => r = s
    /\ \A r \in Slots(t) \ {[idx |-> b, pos |-> i]} :
          \E s \in Slots(u) \ Fresh(u, b, m) : r = Origin(b, i, s)

(* What an update that shifts a chain does to the pairs. *)
LEMMA Moves ==
    ASSUME NEW t, NEW b, NEW chain, NEW n, NEW u, IsUpdate(t, b, chain, n, u),
           NEW i, NEW m, Shifted(t.buckets[b], i, m, chain)
    PROVE  Moved(t, u, b, i, m)
<1> DEFINE old == t.buckets[b]
<1>1. /\ TableOK(t) /\ b \in Buckets(t) /\ chain \in Seq(KVs)
      /\ TableOK(u) /\ Buckets(u) = Buckets(t) /\ u.buckets[b] = chain
  BY UpdateIs DEF IsUpdate
<1>2. /\ \A s : s.idx # b => (s \in Slots(u) <=> s \in Slots(t))
      /\ \A s : s.idx # b /\ s \in Slots(t) => At(u, s) = At(t, s)
  BY UpdateIs
<1>3. old \in Seq(KVs) /\ Len(old) \in Nat /\ Len(chain) \in Nat /\ b \in Nat
  BY <1>1, TableIs DEF Buckets
<1>4. /\ i \in 0..Len(old) /\ m \in Nat /\ m <= Len(chain)
      /\ m = IF i = 0 THEN Len(old) ELSE Len(old) - 1
  BY <1>3 DEF Shifted
<1>5. \A k \in 1..m : chain[k] = old[IF i = 0 \/ k < i THEN k ELSE k + 1]
  BY DEF Shifted
<1> HIDE DEF old
<1>6. ASSUME NEW s \in Slots(u) \ Fresh(u, b, m)
      PROVE  /\ Origin(b, i, s) \in Slots(t) \ {[idx |-> b, pos |-> i]}
             /\ Origin(b, i, s).idx = s.idx
             /\ At(u, s) = At(t, Origin(b, i, s))
             /\ s = [idx |-> s.idx, pos |-> s.pos] /\ s.pos \in Nat
  <2>1. /\ s.idx \in Buckets(t) /\ s.pos \in 1..Len(u.buckets[s.idx]) /\ s.pos \in Nat
        /\ s = [idx |-> s.idx, pos |-> s.pos]
    BY <1>1, <1>6, SlotIs
  <2>2. CASE s.idx # b
    <3>1. Origin(b, i, s) = s
      BY <2>2 DEF Origin
    <3>2. s \in Slots(t) /\ At(u, s) = At(t, s)
      BY <1>2, <1>6, <2>2
    <3>3. QED
      BY <2>1, <2>2, <3>1, <3>2
  <2>3. CASE s.idx = b
    <3> DEFINE k == IF i = 0 \/ s.pos < i THEN s.pos ELSE s.pos + 1
    <3>1. s.pos \in 1..m
      BY <1>4, <1>6, <2>1, <2>3 DEF Fresh
    <3>2. Origin(b, i, s) = [idx |-> b, pos |-> k]
      BY <2>1, <2>3 DEF Origin
    <3>3. k \in 1..Len(old) /\ k # i
      BY <1>3, <1>4, <3>1
    <3>4. chain[s.pos] = old[k]
      BY <1>5, <3>1
    <3> HIDE DEF k
    <3>5. [idx |-> b, pos |-> k] \in Slots(t)
      BY <1>1, <3>3, SlotIs DEF old
    <3>6. At(u, s) = chain[s.pos] /\ At(t, [idx |-> b, pos |-> k]) = old[k]
      BY <1>1, <2>3 DEF At, old
    <3>7. [idx |-> b, pos |-> k] # [idx |-> b, pos |-> i]
      BY <3>3
    <3>8. QED
      BY <2>1, <2>3, <3>2, <3>4, <3>5, <3>6, <3>7
  <2>4. QED
    BY <2>2, <2>3
<1>7. ASSUME NEW r \in Slots(u) \ Fresh(u, b, m), NEW s \in Slots(u) \ Fresh(u, b, m),
             Origin(b, i, r) = Origin(b, i, s)
      PROVE  r = s
  <2>1. /\ r.idx = s.idx /\ r.pos \in Nat /\ s.pos \in Nat
        /\ r = [idx |-> r.idx, pos |-> r.pos] /\ s = [idx |-> s.idx, pos |-> s.pos]
    BY <1>6, <1>7
  <2>2. Origin(b, i, r).pos = Origin(b, i, s).pos
    BY <1>7
  <2>3. \/ Origin(b, i, r).pos = r.pos /\ (r.idx # b \/ i = 0 \/ r.pos < i)
        \/ Origin(b, i, r).pos = r.pos + 1 /\ r.idx = b /\ i # 0 /\ ~(r.pos < i)
    BY DEF Origin
  <2>4. \/ Origin(b, i, s).pos = s.pos /\ (s.idx # b \/ i = 0 \/ s.pos < i)
        \/ Origin(b, i, s).pos = s.pos + 1 /\ s.idx = b /\ i # 0 /\ ~(s.pos < i)
    BY DEF Origin
  <2>5. i \in Nat
    BY <1>3, <1>4
  <2>6. r.pos = s.pos
    BY <2>1, <2>2, <2>3, <2>4, <2>5
  <2>7. QED
    BY <2>1, <2>6
<1>8. ASSUME NEW r \in Slots(t) \ {[idx |-> b, pos |-> i]}
      PROVE  \E s \in Slots(u) \ Fresh(u, b, m) : r = Origin(b, i, s)
  <2>1. /\ r.idx \in Buckets(t) /\ r.pos \in 1..Len(t.buckets[r.idx]) /\ r.pos \in Nat
        /\ r = [idx |-> r.idx, pos |-> r.pos]
    BY <1>1, <1>8, SlotIs
  <2>2. CASE r.idx # b
    <3>1. Origin(b, i, r) = r
      BY <2>2 DEF Origin
    <3>2. r \in Slots(u) /\ r \notin Fresh(u, b, m)
      BY <1>2, <1>8, <2>2 DEF Fresh
    <3>3. QED
      BY <3>1, <3>2
  <2>3. CASE r.idx = b
    <3> DEFINE k == IF i = 0 \/ r.pos < i THEN r.pos ELSE r.pos - 1
               s == [idx |-> b, pos |-> k]
    <3>1. r.pos # i /\ r.pos \in 1..Len(old)
      BY <1>8, <2>1, <2>3 DEF old
    <3>2. k \in 1..m /\ k \in 1..Len(chain) /\ k \in Nat
      BY <1>3, <1>4, <3>1
    <3>3. s \in Slots(u)
      BY <1>1, <3>2, SlotIs
    <3>4. s \notin Fresh(u, b, m)
      BY <1>4, <3>2 DEF Fresh
    <3>5. Origin(b, i, s) = r
      BY <1>3, <1>4, <2>1, <2>3, <3>1 DEF Origin
    <3> HIDE DEF s
    <3>6. QED
      BY <3>3, <3>4, <3>5
  <2>4. QED
    BY <2>2, <2>3
<1>9. QED
  BY <1>6, <1>7, <1>8 DEF Moved

-----------------------------------------------------------------------------
(* Insertion, removal and lookup. *)

(* A table with its pairs where lookups look for them. *)
Sound(t) == TableOK(t) /\ WellPlaced(t) /\ t.num_buckets > 0

(* What a lookup finds is in the table, and what it does not find is not,  *)
(* if the key fits an int.                                                 *)
LEMMA FoundIs ==
    ASSUME NEW t, Sound(t), NEW k \in Keys,
           NEW b, b = HashKeyToBucketNum(t, k), NEW i, i = Found(t, k)
    PROVE  /\ b \in Buckets(t) /\ i \in 0..Len(t.buckets[b])
           /\ i # 0 => /\ [idx |-> b, pos |-> i] \in Slots(t)
                       /\ At(t, [idx |-> b, pos |-> i]) = FoundPair(t, k)
                       /\ FoundPair(t, k).key = IntKey(k) /\ FoundPair(t, k) \in KVs
                       /\ \A s \in Slots(t) : s.idx = b /\ At(t, s).key = IntKey(k) => i <= s.pos
           /\ i = 0 /\ IntKey(k) = k => \A s \in Slots(t) : At(t, s).key # k
<1> TableOK(t) /\ WellPlaced(t) /\ t.num_buckets > 0
  BY DEF Sound
<1>1. b \in Buckets(t)
  BY BucketNumIs
<1> DEFINE old == t.buckets[b]
<1>2. old \in Seq(KVs)
  BY <1>1, TableIs
<1>3. /\ i = hasKey(old, k) /\ FoundPair(t, k) = old[i]
  BY DEF Found, FoundPair, ChainOf
<1> HIDE DEF old
<1>4. /\ i \in 0..Len(old)
      /\ i # 0 => old[i].key = IntKey(k) /\ \A j \in 1..Len(old) : old[j].key = IntKey(k) => i <= j
      /\ i = 0 => \A j \in 1..Len(old) : old[j].key # IntKey(k)
  BY <1>2, <1>3, hasKeyIs
<1>5. ASSUME NEW s \in Slots(t)
      PROVE  /\ s.pos \in 1..Len(t.buckets[s.idx]) /\ At(t, s) = t.buckets[s.idx][s.pos]
             /\ At(t, s).key = k => s.idx = b
  BY SlotIs DEF At, WellPlaced
<1>6. ASSUME i # 0
      PROVE  /\ [idx |-> b, pos |-> i] \in Slots(t)
             /\ At(t, [idx |-> b, pos |-> i]) = FoundPair(t, k)
             /\ FoundPair(t, k).key = IntKey(k) /\ FoundPair(t, k) \in KVs
             /\ \A s \in Slots(t) : s.idx = b /\ At(t, s).key = IntKey(k) => i <= s.pos
  <2>1. i \in 1..Len(old)
    BY <1>2, <1>4, <1>6
  <2>2. [idx |-> b, pos |-> i] \in Slots(t)
    BY <1>1, <2>1, SlotIs DEF old
  <2>3. At(t, [idx |-> b, pos |-> i]) = FoundPair(t, k)
    BY <1>3 DEF At, old
  <2>4. FoundPair(t, k).key = IntKey(k) /\ FoundPair(t, k) \in KVs
    BY <1>2, <1>3, <1>4, <1>6, <2>1
  <2>5. ASSUME NEW s \in Slots(t), s.idx = b, At(t, s).key = IntKey(k)
        PROVE  i <= s.pos
    BY <1>4, <1>5, <1>6, <2>5 DEF old
  <2>6. QED
    BY <2>2, <2>3, <2>4, <2>5
<1>7. ASSUME i = 0, IntKey(k) = k, NEW s \in Slots(t), At(t, s).key = k
      PROVE  FALSE
  BY <1>4, <1>5, <1>7 DEF old
<1>8. QED
  BY <1>1, <1>4, <1>6, <1>7 DEF old

(* Where no two pairs share a key, it is the only one of its key. *)
LEMMA FoundUnique ==
    ASSUME NEW t, Sound(t), Distinct(t), NEW k \in Keys, IntKey(k) = k,
           NEW b, b = HashKeyToBucketNum(t, k), NEW i, i = Found(t, k), i # 0,
           NEW s \in Slots(t)
    PROVE  At(t, s).key = k <=> s = [idx |-> b, pos |-> i]
<1> DEFINE x == [idx |-> b, pos |-> i]
<1>1. x \in Slots(t) /\ At(t, x) = FoundPair(t, k) /\ FoundPair(t, k).key = IntKey(k)
  BY FoundIs
<1> HIDE DEF x
<1>2. At(t, s).key = k <=> s = x
  BY <1>1 DEF Distinct
<1>3. QED
  BY <1>2 DEF x

(* HashTable_Insert adds one pair, and takes out the one it found. *)
PutMoved(t, kv, u, x) ==
    /\ TableOK(u) /\ u.num_buckets = t.num_buckets
    /\ u.num_elements = IF Found(t, kv.key) = 0 THEN t.num_elements + 1 ELSE t.num_elements
    /\ IsFiniteSet(Slots(u)) /\ u.num_elements = Cardinality(Slots(u))
    /\ x \in Slots(u) /\ x.idx = HashKeyToBucketNum(t, kv.key) /\ At(u, x) = kv
    /\ \E m : /\ Moved(t, u, HashKeyToBucketNum(t, kv.key), Found(t, kv.key), m)
              /\ Fresh(u, HashKeyToBucketNum(t, kv.key), m) = {x}

(* HashTable_Insert puts its pair at a new place and keeps the others. *)
LEMMA PutMoves ==
    ASSUME NEW t, Sound(t), t.num_elements < MaxElements, NEW kv \in KVs
    PROVE  \E x : PutMoved(t, kv, Put(t, kv), x)
<1> TableOK(t) /\ WellPlaced(t) /\ t.num_buckets > 0
  BY DEF Sound
<1> DEFINE b == HashKeyToBucketNum(t, kv.key)
           i == Found(t, kv.key)
           n == IF i = 0 THEN t.num_elements + 1 ELSE t.num_elements
           u == Put(t, kv)
           old == t.buckets[b]
           chain == Replaced(old, i, kv)
           m == IF i = 0 THEN Len(old) ELSE Len(old) - 1
           x == [idx |-> b, pos |-> Len(chain)]
<1>1. b \in Buckets(t) /\ old \in Seq(KVs) /\ i \in 0..Len(old) /\ IsUpdate(t, b, chain, n, u)
  BY PutIs
<1>2. IsFiniteSet(Slots(t)) /\ t.num_elements = Cardinality(Slots(t)) /\ Cardinality(Slots(t)) \in Nat
  BY TableIs DEF WellPlaced
<1>0. chain = Replaced(old, i, kv)
  OBVIOUS
<1> HIDE DEF b, i, u, old, chain
<1>3. /\ chain \in Seq(KVs)
      /\ Len(chain) = IF i = 0 THEN Len(old) + 1 ELSE Len(old)
      /\ Len(chain) >= 1 /\ chain[Len(chain)] = kv
      /\ \A k \in 1..(Len(chain) - 1) :
            chain[k] = old[IF i = 0 \/ k < i THEN k ELSE k + 1]
  <2>1. InPlace(old, i, kv, chain)
    BY <1>0, <1>1, ReplacedIs, Zenon
  <2>2. QED
    BY <2>1 DEF InPlace
<1>4. m \in Nat /\ Len(chain) = m + 1 /\ m <= Len(chain) /\ Len(chain) \in Nat
  BY <1>1, <1>3
<1>5. Shifted(old, i, m, chain)
  <2>1. \A k \in 1..m : chain[k] = old[IF i = 0 \/ k < i THEN k ELSE k + 1]
    BY <1>3, <1>4
  <2>2. QED
    BY <1>1, <1>4, <2>1 DEF Shifted
<1> HIDE DEF n, m
<1>6. Moved(t, u, b, i, m)
  BY <1>1, <1>5, Moves DEF old
<1>7. /\ TableOK(u) /\ u.num_buckets = t.num_buckets /\ u.num_elements = n
      /\ Buckets(u) = Buckets(t) /\ u.buckets[b] = chain
  BY <1>1, UpdateIs
<1>8. x \in Slots(u)
  <2>1. Len(chain) \in 1..Len(u.buckets[b])
    BY <1>4, <1>7, <1>3
  <2>2. QED
    BY <1>1, <1>7, <2>1, SlotIs
<1>9. At(u, x) = kv
  BY <1>3, <1>7 DEF At
<1>10. Fresh(u, b, m) = {x}
  <2>1. x \in Fresh(u, b, m)
    BY <1>4, <1>8 DEF Fresh
  <2>2. ASSUME NEW s \in Fresh(u, b, m)
        PROVE  s = x
    <3>1. s \in Slots(u) /\ s.idx = b /\ s.pos > m
      BY DEF Fresh
    <3>2. s.pos \in 1..Len(chain) /\ s = [idx |-> s.idx, pos |-> s.pos]
      BY <1>7, <3>1, SlotIs
    <3>3. s.pos = Len(chain)
      BY <1>4, <3>1, <3>2
    <3>4. QED
      BY <3>1, <3>2, <3>3
  <2> HIDE DEF x
  <2>3. QED
    BY <2>1, <2>2
<1>11. IsFiniteSet(Slots(u)) /\ n = Cardinality(Slots(u))
  <2>1. CASE i = 0
    <3>1. Len(chain) = Len(t.buckets[b]) + 1
      BY <1>3, <2>1 DEF old
    <3>2. IsFiniteSet(Slots(u)) /\ Cardinality(Slots(u)) = Cardinality(Slots(t)) + 1
      BY <1>1, <1>2, <3>1, SlotsGrow
    <3>3. QED
      BY <1>2, <2>1, <3>2 DEF n
  <2>2. CASE i # 0
    <3>1. Len(chain) = Len(t.buckets[b])
      BY <1>3, <2>2 DEF old
    <3>2. Slots(u) = Slots(t)
      BY <1>1, <3>1, SlotsSame
    <3>3. QED
      BY <1>2, <2>2, <3>2 DEF n
  <2>3. QED
    BY <2>1, <2>2
<1>12. x.idx = b
  OBVIOUS
<1> HIDE DEF x
<1>13. \E y : Moved(t, u, b, i, y) /\ Fresh(u, b, y) = {x}
  BY <1>6, <1>10
<1>14. PutMoved(t, kv, u, x)
  BY <1>7, <1>8, <1>9, <1>11, <1>12, <1>13 DEF PutMoved, b, i, n
<1>15. QED
  BY <1>14 DEF u

(* The pairs stay in the chains of their keys. *)
LEMMA PutSound ==
    ASSUME NEW t, Sound(t), t.num_elements < MaxElements, NEW kv \in KVs,
           NEW u, u = Put(t, kv)
    PROVE  /\ Sound(u) /\ u.num_buckets = t.num_buckets
           /\ u.num_elements = IF Found(t, kv.key) = 0 THEN t.num_elements + 1 ELSE t.num_elements
<1>1. PICK x : PutMoved(t, kv, u, x)
  BY PutMoves
<1> DEFINE b == HashKeyToBucketNum(t, kv.key)
           i == Found(t, kv.key)
<1>2. PICK m : Moved(t, u, b, i, m) /\ Fresh(u, b, m) = {x}
  BY <1>1 DEF PutMoved
<1>3. /\ TableOK(u) /\ u.num_buckets = t.num_buckets
      /\ u.num_elements = IF i = 0 THEN t.num_elements + 1 ELSE t.num_elements
      /\ IsFiniteSet(Slots(u)) /\ u.num_elements = Cardinality(Slots(u))
      /\ x \in Slots(u) /\ x.idx = b /\ At(u, x) = kv
  BY <1>1 DEF PutMoved
<1>4. ASSUME NEW s \in Slots(u)
      PROVE  HashKeyToBucketNum(u, At(u, s).key) = s.idx
  <2>1. CASE s = x
    BY <1>3, <2>1 DEF HashKeyToBucketNum
  <2>2. CASE s # x
    <3>1. /\ Origin(b, i, s) \in Slots(t) /\ Origin(b, i, s).idx = s.idx
          /\ At(u, s) = At(t, Origin(b, i, s))
      BY <1>2, <2>2 DEF Moved
    <3>2. HashKeyToBucketNum(t, At(t, Origin(b, i, s)).key) = s.idx
      BY <3>1 DEF Sound, WellPlaced
    <3>3. QED
      BY <1>3, <3>1, <3>2 DEF HashKeyToBucketNum
  <2>3. QED
    BY <2>1, <2>2
<1>5. QED
  BY <1>3, <1>4 DEF Sound, WellPlaced

(* Where no two pairs share a key, the new pair takes its key's place. *)
LEMMA PutDistinct ==
    ASSUME NEW t, Sound(t), t.num_elements < MaxElements, NEW kv \in KVs,
           NEW u, u = Put(t, kv), Distinct(t), IntKey(kv.key) = kv.key
    PROVE  /\ Distinct(u)
           /\ Pairs(u) = {y \in Pairs(t) : y.key # kv.key} \cup {kv}
<1>1. PICK x : PutMoved(t, kv, u, x)
  BY PutMoves
<1> DEFINE b == HashKeyToBucketNum(t, kv.key)
           i == Found(t, kv.key)
<1>2. PICK m : Moved(t, u, b, i, m) /\ Fresh(u, b, m) = {x}
  BY <1>1 DEF PutMoved
<1>3. TableOK(t) /\ TableOK(u) /\ x \in Slots(u) /\ At(u, x) = kv /\ kv.key \in Keys
  BY <1>1 DEF PutMoved, Sound, KVs
<1>4. ASSUME NEW s \in Slots(u), s # x
      PROVE  /\ Origin(b, i, s) \in Slots(t) /\ Origin(b, i, s) # [idx |-> b, pos |-> i]
             /\ At(u, s) = At(t, Origin(b, i, s))
  BY <1>2, <1>4 DEF Moved
<1>5. ASSUME NEW r \in Slots(u), NEW s \in Slots(u), r # x, s # x,
             Origin(b, i, r) = Origin(b, i, s)
      PROVE  r = s
  BY <1>2, <1>5 DEF Moved
<1>6. ASSUME NEW r \in Slots(t), r # [idx |-> b, pos |-> i]
      PROVE  \E s \in Slots(u) : s # x /\ r = Origin(b, i, s)
  BY <1>2, <1>6 DEF Moved
<1>7. ASSUME NEW r \in Slots(t)
      PROVE  r # [idx |-> b, pos |-> i] <=> At(t, r).key # kv.key
  <2>1. CASE i = 0
    <3> DEFINE k == kv.key
    <3>0. i = 0 /\ IntKey(k) = k => \A s \in Slots(t) : At(t, s).key # k
      <4>1. k \in Keys /\ i = Found(t, k) /\ b = HashKeyToBucketNum(t, k)
        BY <1>3
      <4> HIDE DEF k, i, b
      <4>2. QED
        BY <4>1, FoundIs
    <3>1. At(t, r).key # kv.key
      BY <2>1, <3>0
    <3>2. r.pos \in 1..Len(t.buckets[r.idx])
      BY <1>3, SlotIs
    <3>3. r # [idx |-> b, pos |-> i]
      BY <2>1, <3>2
    <3>4. QED
      BY <3>1, <3>3
  <2>2. CASE i # 0
    <3> DEFINE k == kv.key
    <3>0. k \in Keys /\ IntKey(k) = k /\ b = HashKeyToBucketNum(t, k) /\ i = Found(t, k)
      BY <1>3
    <3> HIDE DEF k, b, i
    <3>1. At(t, r).key = k <=> r = [idx |-> b, pos |-> i]
      BY <2>2, <3>0, FoundUnique
    <3> USE DEF k
    <3>2. QED
      BY <3>1
  <2>3. QED
    BY <2>1, <2>2
<1> HIDE DEF b, i
<1>8. ASSUME NEW s \in Slots(u), s # x
      PROVE  At(u, s).key # kv.key /\ IntKey(At(u, s).key) = At(u, s).key
  BY <1>4, <1>7, <1>8 DEF Distinct
<1>9. Distinct(u)
  <2>1. ASSUME NEW s \in Slots(u)
        PROVE  IntKey(At(u, s).key) = At(u, s).key
    BY <1>3, <1>8
  <2>2. ASSUME NEW r \in Slots(u), NEW s \in Slots(u), At(u, r).key = At(u, s).key
        PROVE  r = s
    <3>1. CASE r = x \/ s = x
      BY <1>3, <1>8, <2>2, <3>1
    <3>2. CASE r # x /\ s # x
      <4>1. Origin(b, i, r) = Origin(b, i, s)
        BY <1>4, <2>2, <3>2 DEF Distinct
      <4>2. QED
        BY <1>5, <3>2, <4>1
    <3>3. QED
      BY <3>1, <3>2
  <2>3. QED
    BY <2>1, <2>2 DEF Distinct
<1>10. Pairs(u) = {y \in Pairs(t) : y.key # kv.key} \cup {kv}
  <2>1. Pairs(u) = {At(u, s) : s \in Slots(u)} /\ Pairs(t) = {At(t, s) : s \in Slots(t)}
    BY <1>3, PairsAre
  <2>2. ASSUME NEW y \in Pairs(u), y # kv
        PROVE  y \in Pairs(t) /\ y.key # kv.key
    <3>1. PICK s \in Slots(u) : y = At(u, s)
      BY <2>1, <2>2
    <3>2. s # x
      BY <1>3, <2>2, <3>1
    <3>3. QED
      BY <1>4, <1>8, <2>1, <3>1, <3>2
  <2>3. ASSUME NEW y \in Pairs(t), y.key # kv.key
        PROVE  y \in Pairs(u)
    <3>1. PICK r \in Slots(t) : y = At(t, r)
      BY <2>1, <2>3
    <3>2. PICK s \in Slots(u) : s # x /\ r = Origin(b, i, s)
      BY <1>6, <1>7, <2>3, <3>1
    <3>3. QED
      BY <1>4, <2>1, <3>1, <3>2
  <2>4. kv \in Pairs(u)
    BY <1>3, <2>1
  <2>5. QED
    BY <2>2, <2>3, <2>4
<1>11. QED
  BY <1>9, <1>10

(* HashTable_Remove takes out the pair it found. *)
LEMMA DeleteMoves ==
    ASSUME NEW t, Sound(t), NEW k \in Keys, NEW u, u = Delete(t, k),
           NEW b, b = HashKeyToBucketNum(t, k), NEW i, i = Found(t, k), i # 0
    PROVE  /\ TableOK(u) /\ u.num_buckets = t.num_buckets
           /\ t.num_elements > 0 /\ u.num_elements = t.num_elements - 1
           /\ IsFiniteSet(Slots(u)) /\ u.num_elements = Cardinality(Slots(u))
           /\ Slots(u) = Slots(t) \ {[idx |-> b, pos |-> Len(t.buckets[b])]}
           /\ \A s \in Slots(u) :
                 /\ Origin(b, i, s) \in Slots(t) \ {[idx |-> b, pos |-> i]}
                 /\ Origin(b, i, s).idx = s.idx
                 /\ At(u, s) = At(t, Origin(b, i, s))
           /\ \A r, s \in Slots(u) : Origin(b, i, r) = Origin(b, i, s) => r = s
           /\ \A r \in Slots(t) \ {[idx |-> b, pos |-> i]} :
                 \E s \in Slots(u) : r = Origin(b, i, s)
<1> TableOK(t) /\ WellPlaced(t) /\ t.num_buckets > 0
  BY DEF Sound
<1> DEFINE n == t.num_elements - 1
           old == t.buckets[b]
           chain == RemoveAt(old, i)
           m == Len(old) - 1
<1>1. IsFiniteSet(Slots(t)) /\ t.num_elements = Cardinality(Slots(t)) /\ t.num_elements \in Nat
  BY TableIs DEF WellPlaced
<1>2. [idx |-> b, pos |-> i] \in Slots(t)
  BY FoundIs
<1>3. t.num_elements > 0
  <2>1. Slots(t) # {}
    BY <1>2
  <2>2. Cardinality(Slots(t)) # 0
    BY <1>1, <2>1, FS_EmptySet, Zenon
  <2>3. QED
    BY <1>1, <2>2
<1>4. b \in Buckets(t) /\ old \in Seq(KVs) /\ i \in 1..Len(old) /\ IsUpdate(t, b, chain, n, u)
  BY <1>3, DeleteIs
<1>0. chain = RemoveAt(old, i)
  OBVIOUS
<1> HIDE DEF old, chain
<1>5. /\ chain \in Seq(KVs) /\ Len(chain) = Len(old) - 1
      /\ \A k1 \in 1..(Len(old) - 1) : chain[k1] = IF k1 < i THEN old[k1] ELSE old[k1 + 1]
  BY <1>0, <1>4, RemoveAtProperties, Zenon
<1>6. Shifted(old, i, m, chain)
  <2>1. /\ i \in 0..Len(old) /\ m = IF i = 0 THEN Len(old) ELSE Len(old) - 1
        /\ m \in Nat /\ m <= Len(chain)
    BY <1>4, <1>5
  <2>2. ASSUME NEW k1 \in 1..m
        PROVE  chain[k1] = old[IF i = 0 \/ k1 < i THEN k1 ELSE k1 + 1]
    BY <1>5
  <2>3. QED
    BY <2>1, <2>2 DEF Shifted
<1>7. Moved(t, u, b, i, m)
  BY <1>4, <1>6, Moves DEF old
<1>8. /\ TableOK(u) /\ u.num_buckets = t.num_buckets /\ u.num_elements = n
      /\ Buckets(u) = Buckets(t) /\ u.buckets[b] = chain
  BY <1>4, UpdateIs
<1>9. Fresh(u, b, m) = {}
  <2>1. ASSUME NEW s \in Fresh(u, b, m)
        PROVE  FALSE
    <3>1. s \in Slots(u) /\ s.idx = b /\ s.pos > m
      BY DEF Fresh
    <3>2. s.pos \in 1..Len(chain)
      BY <1>8, <3>1, SlotIs
    <3>3. QED
      BY <1>4, <1>5, <3>1, <3>2
  <2>2. QED
    BY <2>1
<1>10. /\ Slots(u) = Slots(t) \ {[idx |-> b, pos |-> Len(old)]}
       /\ IsFiniteSet(Slots(u)) /\ Cardinality(Slots(u)) = Cardinality(Slots(t)) - 1
  <2>1. Len(chain) = Len(t.buckets[b]) - 1
    BY <1>5 DEF old
  <2>2. QED
    BY <1>1, <1>4, <2>1, SlotsShrink DEF old
<1> HIDE DEF m
<1>12. /\ \A s \in Slots(u) :
             /\ Origin(b, i, s) \in Slots(t) \ {[idx |-> b, pos |-> i]}
             /\ Origin(b, i, s).idx = s.idx
             /\ At(u, s) = At(t, Origin(b, i, s))
       /\ \A r, s \in Slots(u) : Origin(b, i, r) = Origin(b, i, s) => r = s
       /\ \A r \in Slots(t) \ {[idx |-> b, pos |-> i]} :
             \E s \in Slots(u) : r = Origin(b, i, s)
  BY <1>7, <1>9 DEF Moved
<1>13. QED
  BY <1>1, <1>3, <1>8, <1>10, <1>12 DEF old

(* The pairs stay in the chains of their keys. *)
LEMMA DeleteSound ==
    ASSUME NEW t, Sound(t), NEW k \in Keys, NEW u, u = Delete(t, k), Found(t, k) # 0
    PROVE  Sound(u) /\ u.num_buckets = t.num_buckets /\ u.num_elements = t.num_elements - 1
<1> DEFINE b == HashKeyToBucketNum(t, k)
           i == Found(t, k)
<1>1. /\ TableOK(u) /\ u.num_buckets = t.num_buckets /\ u.num_elements = t.num_elements - 1
      /\ IsFiniteSet(Slots(u)) /\ u.num_elements = Cardinality(Slots(u))
  BY DeleteMoves
<1>2. \A s \in Slots(u) : /\ Origin(b, i, s) \in Slots(t) /\ Origin(b, i, s).idx = s.idx
                          /\ At(u, s) = At(t, Origin(b, i, s))
  BY DeleteMoves
<1> HIDE DEF b, i
<1>3. ASSUME NEW s \in Slots(u)
      PROVE  HashKeyToBucketNum(u, At(u, s).key) = s.idx
  BY <1>1, <1>2 DEF Sound, WellPlaced, HashKeyToBucketNum
<1>4. QED
  BY <1>1, <1>3 DEF Sound, WellPlaced

(* Where no two pairs share a key, that key goes. *)
LEMMA DeleteDistinct ==
    ASSUME NEW t, Sound(t), NEW k \in Keys, NEW u, u = Delete(t, k), Found(t, k) # 0, Distinct(t)
    PROVE  /\ Distinct(u)
           /\ IntKey(k) = k => Pairs(u) = {y \in Pairs(t) : y.key # k}
<1> DEFINE b == HashKeyToBucketNum(t, k)
           i == Found(t, k)
<1>1. TableOK(u) /\ TableOK(t)
  BY DeleteMoves DEF Sound
<1>2. \A s \in Slots(u) : /\ Origin(b, i, s) \in Slots(t) /\ Origin(b, i, s) # [idx |-> b, pos |-> i]
                          /\ At(u, s) = At(t, Origin(b, i, s))
  BY DeleteMoves
<1>3. \A r, s \in Slots(u) : Origin(b, i, r) = Origin(b, i, s) => r = s
  BY DeleteMoves
<1>4. \A r \in Slots(t) : r # [idx |-> b, pos |-> i] => \E s \in Slots(u) : r = Origin(b, i, s)
  BY DeleteMoves
<1>5. ASSUME NEW r \in Slots(t), IntKey(k) = k
      PROVE  r # [idx |-> b, pos |-> i] <=> At(t, r).key # k
  BY <1>5, FoundUnique
<1> HIDE DEF b, i
<1>6. Distinct(u)
  <2>1. ASSUME NEW s \in Slots(u)
        PROVE  IntKey(At(u, s).key) = At(u, s).key
    BY <1>2 DEF Distinct
  <2>2. ASSUME NEW r \in Slots(u), NEW s \in Slots(u), At(u, r).key = At(u, s).key
        PROVE  r = s
    <3>1. Origin(b, i, r) = Origin(b, i, s)
      BY <1>2, <2>2 DEF Distinct
    <3>2. QED
      BY <1>3, <3>1
  <2>3. QED
    BY <2>1, <2>2 DEF Distinct
<1>7. ASSUME IntKey(k) = k
      PROVE  Pairs(u) = {y \in Pairs(t) : y.key # k}
  <2>1. Pairs(u) = {At(u, s) : s \in Slots(u)} /\ Pairs(t) = {At(t, s) : s \in Slots(t)}
    BY <1>1, PairsAre
  <2>2. ASSUME NEW y \in Pairs(u)
        PROVE  y \in Pairs(t) /\ y.key # k
    <3>1. PICK s \in Slots(u) : y = At(u, s)
      BY <2>1, <2>2
    <3>2. QED
      BY <1>2, <1>5, <1>7, <2>1, <3>1
  <2>3. ASSUME NEW y \in Pairs(t), y.key # k
        PROVE  y \in Pairs(u)
    <3>1. PICK r \in Slots(t) : y = At(t, r)
      BY <2>1, <2>3
    <3>2. PICK s \in Slots(u) : r = Origin(b, i, s)
      BY <1>4, <1>5, <1>7, <2>3, <3>1
    <3>3. QED
      BY <1>2, <2>1, <3>1, <3>2
  <2>4. QED
    BY <2>2, <2>3
<1>8. QED
  BY <1>6, <1>7

-----------------------------------------------------------------------------
(* Iteration. *)

(* An iterator that moves to e has the slots of S before it. *)
Reaches(t, S, e) ==
    \/ S = {} /\ e = PastEnd
    \/ e \in S /\ S \subseteq Slots(t) /\ Ahead(t, e) = S \ {e}

(* The slots from a bucket on. *)
From(t, b) == {s \in Slots(t) : s.idx >= b}

(* Moving to the next non-empty bucket passes no slot by. *)
LEMMA EnterIs ==
    ASSUME NEW t, TableOK(t), NEW b \in Nat
    PROVE  Reaches(t, From(t, b), EnterBucket(t, b))
<1>1. \A s \in Slots(t) : /\ s.idx \in Buckets(t) /\ s.pos \in 1..Len(t.buckets[s.idx])
                          /\ s = [idx |-> s.idx, pos |-> s.pos]
                          /\ s.idx \in Nat /\ s.pos \in Nat
  BY SlotIs
<1>2. t.num_buckets \in Nat /\ \A c \in Buckets(t) : t.buckets[c] \in Seq(KVs) /\ c \in Nat
  BY TableIs DEF Buckets
<1>3. \A s \in From(t, b) : s.idx \in NonEmpty(t, b)
  BY <1>1, <1>2 DEF From, NonEmpty
<1>4. CASE NonEmpty(t, b) = {}
  BY <1>3, <1>4 DEF Reaches, EnterBucket
<1>5. CASE NonEmpty(t, b) # {}
  <2> DEFINE m == Min(NonEmpty(t, b))
             e == [idx |-> m, pos |-> 1]
  <2>1. NonEmpty(t, b) \subseteq Nat
    BY <1>2 DEF NonEmpty
  <2>2. m \in NonEmpty(t, b) /\ \A c \in NonEmpty(t, b) : m <= c
    BY <1>5, <2>1, MinIs, Zenon
  <2> HIDE DEF m
  <2>3. EnterBucket(t, b) = e
    BY <1>5 DEF EnterBucket, m
  <2>4. m \in Buckets(t) /\ m \in Nat /\ m >= b /\ Len(t.buckets[m]) >= 1
    BY <1>2, <2>2 DEF NonEmpty
  <2>5. e \in Slots(t) /\ e \in From(t, b)
    <3>1. 1 \in 1..Len(t.buckets[m])
      BY <1>2, <2>4
    <3>2. e \in Slots(t)
      BY <2>4, <3>1, SlotIs
    <3>3. QED
      BY <2>4, <3>2 DEF From
  <2>6. ASSUME NEW s \in From(t, b), s # e
        PROVE  s \in Ahead(t, e)
    <3>1. s \in Slots(t) /\ s.idx >= m
      BY <1>3, <2>2 DEF From
    <3>2. s.idx = m => s.pos > 1
      BY <1>1, <2>6, <3>1
    <3>3. QED
      BY <1>1, <2>4, <3>1, <3>2 DEF Ahead, INVALID_IDX
  <2>7. ASSUME NEW s \in Ahead(t, e)
        PROVE  s \in From(t, b) /\ s # e
    BY <1>1, <2>4 DEF Ahead, From
  <2> HIDE DEF e
  <2>8. Ahead(t, e) = From(t, b) \ {e}
    BY <2>6, <2>7
  <2>9. From(t, b) \subseteq Slots(t)
    BY DEF From
  <2>10. QED
    BY <2>3, <2>5, <2>8, <2>9 DEF Reaches
<1>6. QED
  BY <1>4, <1>5

(* An iterator at the first slot has all of them before it. *)
LEMMA StartIs ==
    ASSUME NEW t, TableOK(t)
    PROVE  Reaches(t, Slots(t), EnterBucket(t, 0))
<1>1. From(t, 0) = Slots(t)
  BY SlotIs DEF From
<1>2. QED
  BY <1>1, EnterIs

(* HTIterator_Next goes to the first of the slots ahead. *)
LEMMA AdvanceIs ==
    ASSUME NEW t, TableOK(t), NEW i \in Slots(t)
    PROVE  Reaches(t, Ahead(t, i), Advance(t, i))
<1>1. \A s \in Slots(t) : /\ s.idx \in Buckets(t) /\ s.pos \in 1..Len(t.buckets[s.idx])
                          /\ s = [idx |-> s.idx, pos |-> s.pos]
                          /\ s.idx \in Nat /\ s.pos \in Nat
  BY SlotIs
<1>2. t.buckets[i.idx] \in Seq(KVs) /\ Len(t.buckets[i.idx]) \in Nat
  BY <1>1, TableIs
<1>3. i.idx # INVALID_IDX
  BY <1>1 DEF INVALID_IDX
<1>4. CASE i.pos < Len(t.buckets[i.idx])
  <2> DEFINE e == [idx |-> i.idx, pos |-> i.pos + 1]
  <2>1. Advance(t, i) = e
    BY <1>1, <1>3, <1>4 DEF Advance
  <2>2. e \in Slots(t)
    <3>1. i.pos + 1 \in 1..Len(t.buckets[i.idx])
      BY <1>1, <1>2, <1>4
    <3>2. QED
      BY <1>1, <3>1, SlotIs
  <2>3. e \in Ahead(t, i)
    BY <1>1, <1>3, <2>2 DEF Ahead
  <2>4. ASSUME NEW s \in Ahead(t, i), s # e
        PROVE  s \in Ahead(t, e)
    <3>1. s \in Slots(t) /\ (s.idx > i.idx \/ (s.idx = i.idx /\ s.pos > i.pos))
      BY DEF Ahead
    <3>2. s.idx = i.idx => s.pos > i.pos + 1
      BY <1>1, <2>4, <3>1
    <3>3. QED
      BY <1>1, <1>3, <3>1, <3>2 DEF Ahead
  <2>5. ASSUME NEW s \in Ahead(t, e)
        PROVE  s \in Ahead(t, i) /\ s # e
    BY <1>1, <1>3 DEF Ahead
  <2> HIDE DEF e
  <2>6. Ahead(t, e) = Ahead(t, i) \ {e}
    BY <2>4, <2>5
  <2>7. Ahead(t, i) \subseteq Slots(t)
    BY DEF Ahead
  <2>8. QED
    BY <2>1, <2>3, <2>6, <2>7 DEF Reaches
<1>5. CASE ~(i.pos < Len(t.buckets[i.idx]))
  <2>1. i.pos = Len(t.buckets[i.idx])
    BY <1>1, <1>2, <1>5
  <2>2. Advance(t, i) = EnterBucket(t, i.idx + 1) /\ i.idx + 1 \in Nat
    BY <1>1, <1>3, <1>5 DEF Advance
  <2>3. ASSUME NEW s \in Slots(t)
        PROVE  s \in Ahead(t, i) <=> s \in From(t, i.idx + 1)
    <3>1. ~(s.idx = i.idx /\ s.pos > i.pos)
      BY <1>1, <1>2, <2>1
    <3>2. QED
      BY <1>1, <1>3, <3>1 DEF Ahead, From
  <2>4. Ahead(t, i) = From(t, i.idx + 1)
    BY <2>3 DEF Ahead, From
  <2>5. QED
    BY <2>2, <2>4, EnterIs
<1>6. QED
  BY <1>4, <1>5

(* What an iterator has before it, when it moves. *)
LEMMA ReachesIs ==
    ASSUME NEW t, TableOK(t), NEW S, NEW e, Reaches(t, S, e)
    PROVE  /\ e \in Slots(t) \cup {PastEnd}
           /\ e.idx = INVALID_IDX <=> S = {}
           /\ e.idx = INVALID_IDX <=> e = PastEnd
           /\ Rest(t, e) = S /\ Ahead(t, e) = S \ {e}
<1>1. \A s \in Slots(t) : s.idx \in Nat
  BY SlotIs
<1>2. PastEnd.idx = INVALID_IDX /\ INVALID_IDX \notin Nat
  BY DEF PastEnd, INVALID_IDX
<1>3. CASE S = {} /\ e = PastEnd
  <2>1. Ahead(t, e) = {} /\ ~\E s \in Slots(t) : s = e
    BY <1>1, <1>2, <1>3 DEF Ahead
  <2>2. Rest(t, e) = {}
    BY <2>1 DEF Rest
  <2>3. QED
    BY <1>2, <1>3, <2>1, <2>2
<1>4. CASE e \in S /\ S \subseteq Slots(t) /\ Ahead(t, e) = S \ {e}
  <2>1. Rest(t, e) = S
    BY <1>4 DEF Rest
  <2>2. QED
    BY <1>1, <1>2, <1>4, <2>1
<1>5. QED
  BY <1>3, <1>4 DEF Reaches

(* A slot, or the end, has the slots of its rest before it. *)
LEMMA RestIs ==
    ASSUME NEW t, TableOK(t), NEW i \in Slots(t) \cup {PastEnd}
    PROVE  /\ i.idx # INVALID_IDX => /\ i \in Slots(t) /\ i \in Rest(t, i)
                                     /\ i \notin Ahead(t, i) /\ Ahead(t, i) = Rest(t, i) \ {i}
           /\ i.idx = INVALID_IDX => i = PastEnd /\ Rest(t, i) = {} /\ Ahead(t, i) = {}
           /\ Rest(t, i) \subseteq Slots(t) /\ Ahead(t, i) \subseteq Slots(t)
<1>1. \A s \in Slots(t) : s.idx \in Nat /\ s.pos \in Nat
  BY SlotIs
<1>2. PastEnd.idx = INVALID_IDX /\ INVALID_IDX \notin Nat
  BY DEF PastEnd, INVALID_IDX
<1>3. Rest(t, i) \subseteq Slots(t) /\ Ahead(t, i) \subseteq Slots(t)
  BY DEF Rest, Ahead
<1>4. ASSUME i.idx # INVALID_IDX
      PROVE  /\ i \in Slots(t) /\ i \in Rest(t, i)
             /\ i \notin Ahead(t, i) /\ Ahead(t, i) = Rest(t, i) \ {i}
  <2>1. i \in Slots(t)
    BY <1>2, <1>4
  <2>2. i \notin Ahead(t, i)
    BY <1>1, <2>1 DEF Ahead
  <2>3. Rest(t, i) = {i} \cup Ahead(t, i)
    BY <2>1 DEF Rest
  <2>4. QED
    BY <2>1, <2>2, <2>3
<1>5. ASSUME i.idx = INVALID_IDX
      PROVE  i = PastEnd /\ Rest(t, i) = {} /\ Ahead(t, i) = {}
  <2>1. i \notin Slots(t)
    BY <1>1, <1>2, <1>5
  <2>2. Ahead(t, i) = {}
    BY <1>5 DEF Ahead
  <2>3. QED
    BY <2>1, <2>2 DEF Rest
<1>6. QED
  BY <1>3, <1>4, <1>5

-----------------------------------------------------------------------------
(* The inductive invariant. *)

(* A table without pairs. *)
LEMMA EmptyIs ==
    ASSUME NEW n \in Nat
    PROVE  /\ TableOK(Empty(n)) /\ Empty(n).num_buckets = n /\ Empty(n).num_elements = 0
           /\ Slots(Empty(n)) = {} /\ Pairs(Empty(n)) = {}
           /\ WellPlaced(Empty(n)) /\ Distinct(Empty(n))
<1> DEFINE t == Empty(n)
<1>1. /\ t.num_buckets = n /\ t.num_elements = 0
      /\ t.buckets = [b \in 0..(n - 1) |-> <<>>]
      /\ t = [num_buckets |-> n, num_elements |-> 0, buckets |-> [b \in 0..(n - 1) |-> <<>>]]
  BY DEF Empty
<1>2. Buckets(t) = 0..(n - 1)
  BY <1>1 DEF Buckets
<1>3. [b \in 0..(n - 1) |-> <<>>] \in [Buckets(t) -> Seq(KVs)]
  BY <1>2
<1>4. TableOK(t)
  BY <1>1, <1>3 DEF TableOK
<1> HIDE DEF t
<1>5. Slots(t) = {}
  <2>1. ASSUME NEW s \in Slots(t)
        PROVE  FALSE
    <3>1. s.idx \in 0..(n - 1) /\ s.pos \in 1..Len(t.buckets[s.idx])
      BY <1>2, <1>4, SlotIs
    <3>2. t.buckets[s.idx] = <<>>
      BY <1>1, <3>1
    <3>3. QED
      BY <3>1, <3>2
  <2>2. QED
    BY <2>1
<1>6. Pairs(t) = {}
  BY <1>4, <1>5, PairsAre
<1>7. IsFiniteSet({}) /\ Cardinality({}) = 0
  BY FS_EmptySet, Zenon
<1>8. WellPlaced(t) /\ Distinct(t)
  BY <1>1, <1>5, <1>7 DEF WellPlaced, Distinct
<1>9. QED
  BY <1>1, <1>4, <1>5, <1>6, <1>8 DEF t

(* The table is sound whenever there is one. *)
LEMMA IInvSound ==
    ASSUME IInv
    PROVE  /\ mode # "none" => Sound(ht)
           /\ mode = "resizing" => Sound(newht)
<1>1. TableOK(ht) /\ TableOK(newht) /\ WellPlaced(ht) /\ WellPlaced(newht)
  BY DEF IInv, TypeOK, Placed
<1>2. ht.num_buckets \in Nat
  BY <1>1, TableIs
<1>3. /\ mode # "none" => ht.num_buckets > 0
      /\ mode = "resizing" => newht.num_buckets = 9 * ht.num_buckets
  BY DEF IInv, Phases
<1>4. QED
  BY <1>1, <1>2, <1>3 DEF Sound

(* Before any call there is no table. *)
LEMMA InitIInv ==
    ASSUME Init
    PROVE  IInv
<1>1. /\ TableOK(NoTable) /\ NoTable.num_buckets = 0 /\ NoTable.num_elements = 0
      /\ WellPlaced(NoTable) /\ Distinct(NoTable)
  BY EmptyIs DEF NoTable
<1>2. TypeOK /\ Phases
  BY <1>1 DEF Init, TypeOK, Phases
<1>3. Placed /\ LoadBounded /\ Copied /\ KeysDistinct
  BY <1>1 DEF Init, Placed, LoadBounded, Copied, KeysDistinct
<1>4. QED
  BY <1>2, <1>3 DEF IInv

(* A call that looks, and changes nothing. *)
LEMMA LookStep ==
    ASSUME IInv, UNCHANGED <<ht, it, mode, newht, pending>>, wide' \in BOOLEAN, wide => wide'
    PROVE  IInv'
  BY DEF IInv, TypeOK, Phases, Placed, LoadBounded, Copied, KeysDistinct

(* A call with a key that does not fit an int is remembered. *)
LEMMA UsesIs ==
    ASSUME NEW k, TypeOK, Uses(k)
    PROVE  wide' \in BOOLEAN /\ (wide => wide') /\ (~wide' => ~wide /\ IntKey(k) = k)
  BY DEF TypeOK, Uses

(* HashTable_Allocate: an empty table. *)
LEMMA AllocateStep ==
    ASSUME IInv, NEW n \in InitialBuckets, HashTable_Allocate(n)
    PROVE  IInv'
<1>1. n \in Nat /\ n > 0
  OBVIOUS
<1>2. /\ TableOK(ht') /\ ht'.num_buckets = n /\ ht'.num_elements = 0
      /\ WellPlaced(ht') /\ Distinct(ht')
  BY <1>1, EmptyIs DEF HashTable_Allocate
<1>3. mode = "none" /\ mode' = "idle" /\ UNCHANGED <<it, newht, pending, wide>>
  BY DEF HashTable_Allocate
<1>4. it = PastEnd /\ newht = NoTable /\ pending = NoPair /\ TypeOK /\ Placed /\ KeysDistinct
  BY <1>3 DEF IInv, Phases
<1>5. TypeOK'
  BY <1>2, <1>3, <1>4 DEF TypeOK
<1>6. Phases'
  BY <1>1, <1>2, <1>3, <1>4 DEF Phases
<1>7. Placed' /\ LoadBounded' /\ Copied' /\ KeysDistinct'
  BY <1>1, <1>2, <1>3, <1>4 DEF Placed, LoadBounded, Copied, KeysDistinct
<1>8. QED
  BY <1>5, <1>6, <1>7 DEF IInv

(* HashTable_Free, which no call may interrupt. *)
LEMMA FreeStep ==
    ASSUME IInv, HashTable_Free
    PROVE  IInv'
<1>1. /\ TableOK(NoTable) /\ WellPlaced(NoTable) /\ Distinct(NoTable)
  BY EmptyIs DEF NoTable
<1>2. mode = "idle" /\ mode' = "none" /\ ht' = NoTable /\ UNCHANGED <<it, newht, pending, wide>>
  BY DEF HashTable_Free
<1>3. it = PastEnd /\ newht = NoTable /\ pending = NoPair /\ TypeOK /\ Placed /\ KeysDistinct
  BY <1>2 DEF IInv, Phases
<1>4. TypeOK'
  BY <1>1, <1>2, <1>3 DEF TypeOK
<1>5. Phases'
  BY <1>2, <1>3 DEF Phases
<1>6. Placed' /\ LoadBounded' /\ Copied' /\ KeysDistinct'
  BY <1>1, <1>2, <1>3 DEF Placed, LoadBounded, Copied, KeysDistinct
<1>7. QED
  BY <1>4, <1>5, <1>6 DEF IInv

(* HashTable_Insert, once MaybeResize has left the table alone. *)
LEMMA InsertStep ==
    ASSUME IInv, NEW k \in Keys, NEW v \in Values, ht.num_elements < MaxElements,
           HashTable_Insert(k, v)
    PROVE  IInv'
<1> DEFINE kv == [key |-> k, value |-> v]
<1>1. /\ mode = "idle" /\ ~MustResize(ht) /\ ht' = Put(ht, kv) /\ Uses(k)
      /\ UNCHANGED <<it, mode, newht, pending>>
  BY DEF HashTable_Insert
<1>2. kv \in KVs /\ kv.key = k
  BY DEF KVs
<1>3. Sound(ht) /\ TypeOK /\ Placed /\ KeysDistinct
  BY <1>1, IInvSound DEF IInv
<1>4. it = PastEnd /\ newht = NoTable /\ pending = NoPair
  BY <1>1 DEF IInv, Phases
<1>5. wide' \in BOOLEAN /\ (~wide' => ~wide /\ IntKey(k) = k)
  BY <1>1, <1>3, UsesIs
<1> HIDE DEF kv
<1>6. /\ Sound(ht') /\ ht'.num_buckets = ht.num_buckets
      /\ ht'.num_elements = IF Found(ht, kv.key) = 0 THEN ht.num_elements + 1 ELSE ht.num_elements
  BY <1>1, <1>2, <1>3, PutSound
<1>7. ~wide' => Distinct(ht')
  BY <1>1, <1>2, <1>3, <1>5, PutDistinct DEF KeysDistinct
<1>8. TypeOK'
  BY <1>1, <1>3, <1>4, <1>5, <1>6 DEF TypeOK, Sound
<1>9. Phases'
  BY <1>1, <1>4, <1>6 DEF Phases, Sound
<1>10. Placed'
  BY <1>1, <1>3, <1>6 DEF Placed, Sound
<1>11. LoadBounded'
  <2>1. ht.num_buckets \in Nat /\ ht.num_elements \in Nat
    BY <1>3, TableIs DEF TypeOK
  <2>2. QED
    BY <1>1, <1>6, <2>1 DEF LoadBounded, MustResize
<1>12. Copied' /\ KeysDistinct'
  BY <1>1, <1>3, <1>5, <1>7 DEF Copied, KeysDistinct
<1>13. QED
  BY <1>8, <1>9, <1>10, <1>11, <1>12 DEF IInv

(* HashTable_Remove, of a key that is there or not. *)
LEMMA RemoveStep ==
    ASSUME IInv, NEW k \in Keys, HashTable_Remove(k)
    PROVE  IInv'
<1>1. mode = "idle" /\ Uses(k) /\ UNCHANGED <<it, mode, newht, pending>>
  BY DEF HashTable_Remove
<1>2. Sound(ht) /\ TypeOK /\ Placed /\ KeysDistinct /\ LoadBounded
  BY <1>1, IInvSound DEF IInv
<1>3. it = PastEnd /\ newht = NoTable /\ pending = NoPair
  BY <1>1 DEF IInv, Phases
<1>4. wide' \in BOOLEAN /\ (wide => wide') /\ (~wide' => ~wide /\ IntKey(k) = k)
  BY <1>1, <1>2, UsesIs
<1>5. CASE Found(ht, k) = 0
  <2>1. ht' = ht
    BY <1>5 DEF HashTable_Remove
  <2>2. QED
    BY <1>1, <1>4, <2>1, LookStep
<1>6. CASE Found(ht, k) # 0
  <2>1. ht' = Delete(ht, k)
    BY <1>6 DEF HashTable_Remove
  <2>2. Sound(ht') /\ ht'.num_buckets = ht.num_buckets /\ ht'.num_elements = ht.num_elements - 1
    BY <1>2, <1>6, <2>1, DeleteSound
  <2>3. ~wide' => Distinct(ht')
    BY <1>2, <1>4, <1>6, <2>1, DeleteDistinct DEF KeysDistinct
  <2>4. TypeOK'
    BY <1>1, <1>2, <1>3, <1>4, <2>2 DEF TypeOK, Sound
  <2>5. Phases'
    BY <1>1, <1>3, <2>2 DEF Phases, Sound
  <2>6. Placed'
    BY <1>1, <1>2, <2>2 DEF Placed, Sound
  <2>7. LoadBounded'
    <3>1. ht.num_buckets \in Nat /\ ht.num_elements \in Nat
      BY <1>2, TableIs DEF TypeOK
    <3>2. QED
      BY <1>1, <1>2, <2>2, <3>1 DEF LoadBounded
  <2>8. Copied' /\ KeysDistinct'
    BY <1>1, <1>2, <1>4, <2>3 DEF Copied, KeysDistinct
  <2>9. QED
    BY <2>4, <2>5, <2>6, <2>7, <2>8 DEF IInv
<1>7. QED
  BY <1>5, <1>6

(* MaybeResize: a table nine times as large, and an iterator on the old. *)
LEMMA ResizeBeginStep ==
    ASSUME IInv, NEW k \in Keys, NEW v \in Values, ht.num_elements < MaxElements,
           ResizeBegin(k, v)
    PROVE  IInv'
<1>1. /\ mode = "idle" /\ mode' = "resizing" /\ Uses(k) /\ ht' = ht
      /\ newht' = Empty(ht.num_buckets * 9) /\ it' = EnterBucket(ht, 0)
      /\ pending' = [key |-> k, value |-> v]
  BY DEF ResizeBegin
<1>2. Sound(ht) /\ TypeOK /\ Placed /\ KeysDistinct /\ LoadBounded
  BY <1>1, IInvSound DEF IInv
<1>3. wide' \in BOOLEAN /\ (~wide' => ~wide /\ IntKey(k) = k)
  BY <1>1, <1>2, UsesIs
<1>4. TableOK(ht) /\ ht.num_buckets \in Nat /\ ht.num_buckets > 0 /\ ht.num_elements \in Nat
  BY <1>2, TableIs DEF Sound
<1>5. /\ TableOK(newht') /\ newht'.num_buckets = 9 * ht.num_buckets /\ newht'.num_elements = 0
      /\ Slots(newht') = {} /\ Pairs(newht') = {}
      /\ WellPlaced(newht') /\ Distinct(newht')
  <2>1. ht.num_buckets * 9 \in Nat /\ ht.num_buckets * 9 = 9 * ht.num_buckets
    BY <1>4
  <2>2. QED
    BY <1>1, <2>1, EmptyIs
<1>6. it' \in Slots(ht) \cup {PastEnd} /\ Rest(ht, it') = Slots(ht)
  BY <1>1, <1>4, StartIs, ReachesIs
<1>7. pending' \in KVs /\ pending'.key = k
  BY <1>1 DEF KVs
<1>8. TypeOK'
  BY <1>1, <1>2, <1>3, <1>5, <1>6, <1>7 DEF TypeOK
<1>9. ht.num_elements <= 3 * ht.num_buckets
  BY <1>1, <1>2 DEF LoadBounded
<1>10. Phases'
  BY <1>1, <1>4, <1>5, <1>7, <1>9 DEF Phases
<1>11. Placed'
  BY <1>1, <1>2, <1>5 DEF Placed
<1>12. LoadBounded'
  BY <1>1, <1>4, <1>5 DEF LoadBounded, MustResize
<1>13. Copied'
  <2>1. newht'.num_elements + Cardinality(Rest(ht, it')) <= ht.num_elements
    BY <1>2, <1>4, <1>5, <1>6 DEF Placed, WellPlaced
  <2>2. Pairs(newht') = {At(ht, s) : s \in Slots(ht) \ Rest(ht, it')}
    BY <1>5, <1>6
  <2>3. QED
    BY <1>1, <2>1, <2>2 DEF Copied
<1>14. KeysDistinct'
  BY <1>1, <1>2, <1>3, <1>5, <1>7 DEF KeysDistinct
<1>15. QED
  BY <1>8, <1>10, <1>11, <1>12, <1>13, <1>14 DEF IInv

(* What one turn of the copying loop does. *)
LEMMA CopyIs ==
    ASSUME IInv, ResizeCopy
    PROVE  /\ Sound(ht) /\ Sound(newht) /\ it \in Slots(ht) /\ At(ht, it) \in KVs
           /\ newht.num_elements < MaxElements
           /\ it' \in Slots(ht) \cup {PastEnd}
           /\ Rest(ht, it') = Rest(ht, it) \ {it}
           /\ it \in Rest(ht, it)
           /\ IsFiniteSet(Rest(ht, it))
           /\ Cardinality(Rest(ht, it')) = Cardinality(Rest(ht, it)) - 1
           /\ Cardinality(Rest(ht, it)) \in Nat /\ Cardinality(Rest(ht, it)) >= 1
<1>1. mode = "resizing" /\ it.idx # INVALID_IDX /\ it' = Advance(ht, it)
  BY DEF ResizeCopy
<1>2. Sound(ht) /\ Sound(newht) /\ TypeOK /\ Placed /\ Copied /\ Phases
  BY <1>1, IInvSound DEF IInv
<1>3. TableOK(ht) /\ it \in Slots(ht) \cup {PastEnd} /\ IsFiniteSet(Slots(ht))
  BY <1>2 DEF TypeOK, Placed, WellPlaced
<1>4. /\ it \in Slots(ht) /\ it \in Rest(ht, it) /\ Ahead(ht, it) = Rest(ht, it) \ {it}
      /\ Rest(ht, it) \subseteq Slots(ht)
  BY <1>1, <1>3, RestIs
<1>5. At(ht, it) \in KVs
  BY <1>3, <1>4, SlotIs
<1>6. it' \in Slots(ht) \cup {PastEnd} /\ Rest(ht, it') = Ahead(ht, it)
  BY <1>1, <1>3, <1>4, AdvanceIs, ReachesIs
<1>7. Rest(ht, it) \in SUBSET Slots(ht)
  BY <1>4
<1>8. IsFiniteSet(Rest(ht, it))
  BY <1>3, <1>7, FS_Subset, Zenon
<1>9. Cardinality(Rest(ht, it)) \in Nat
  BY <1>8, FS_CardinalityType, Zenon
<1>10. Cardinality(Rest(ht, it) \ {it}) = Cardinality(Rest(ht, it)) - 1
  BY <1>4, <1>8, FS_RemoveElement
<1>11. Cardinality(Rest(ht, it)) >= 1
  <2>1. Cardinality(Rest(ht, it)) # 0
    <3>1. Rest(ht, it) # {}
      BY <1>4
    <3>2. QED
      BY <1>8, <3>1, FS_EmptySet, Zenon
  <2>2. QED
    BY <1>9, <2>1
<1>12. newht.num_elements < MaxElements
  <2>1. newht.num_elements \in Nat /\ ht.num_elements \in Nat
    BY <1>2, TableIs DEF Sound
  <2>2. /\ newht.num_elements + Cardinality(Rest(ht, it)) <= ht.num_elements
        /\ ht.num_elements < MaxElements
    BY <1>1, <1>2 DEF Copied, Phases
  <2>3. QED
    BY <1>9, <1>11, <2>1, <2>2
<1>13. QED
  BY <1>2, <1>4, <1>5, <1>6, <1>8, <1>9, <1>10, <1>11, <1>12

(* MaybeResize: one pair is copied and passed. *)
LEMMA ResizeCopyStep ==
    ASSUME IInv, ResizeCopy
    PROVE  IInv'
<1> DEFINE kv == At(ht, it)
<1>1. /\ mode = "resizing" /\ newht' = Put(newht, kv) /\ it' = Advance(ht, it)
      /\ UNCHANGED <<ht, mode, pending, out, wide>>
  BY DEF ResizeCopy
<1>2. /\ Sound(ht) /\ Sound(newht) /\ it \in Slots(ht) /\ kv \in KVs
      /\ newht.num_elements < MaxElements
      /\ it' \in Slots(ht) \cup {PastEnd}
      /\ Rest(ht, it') = Rest(ht, it) \ {it}
      /\ it \in Rest(ht, it)
      /\ Cardinality(Rest(ht, it')) = Cardinality(Rest(ht, it)) - 1
      /\ Cardinality(Rest(ht, it)) \in Nat
  BY CopyIs
<1>3. TypeOK /\ Phases /\ Placed /\ LoadBounded /\ Copied /\ KeysDistinct
  BY DEF IInv
<1>4. ~wide => /\ Distinct(ht) /\ Distinct(newht) /\ IntKey(kv.key) = kv.key
               /\ Pairs(newht) = {At(ht, s) : s \in Slots(ht) \ Rest(ht, it)}
  BY <1>1, <1>2, <1>3 DEF KeysDistinct, Distinct, Copied
<1>5. TableOK(ht)
  BY <1>3 DEF TypeOK
<1>13. ASSUME NEW y \in Pairs(newht), ~wide
       PROVE  y.key # kv.key
  <2>1. PICK s \in Slots(ht) \ Rest(ht, it) : y = At(ht, s)
    BY <1>4, <1>13
  <2>2. s # it
    BY <1>2, <2>1
  <2>3. QED
    BY <1>2, <1>4, <1>13, <2>1, <2>2 DEF Distinct
<1> HIDE DEF kv
<1>6. /\ Sound(newht') /\ newht'.num_buckets = newht.num_buckets
      /\ newht'.num_elements = IF Found(newht, kv.key) = 0 THEN newht.num_elements + 1 ELSE newht.num_elements
  BY <1>1, <1>2, PutSound
<1>7. ~wide => /\ Distinct(newht')
               /\ Pairs(newht') = {y \in Pairs(newht) : y.key # kv.key} \cup {kv}
  BY <1>1, <1>2, <1>4, PutDistinct
<1>8. TypeOK'
  BY <1>1, <1>2, <1>3, <1>6 DEF TypeOK, Sound
<1>9. Phases'
  BY <1>1, <1>3, <1>6 DEF Phases
<1>10. Placed'
  BY <1>1, <1>3, <1>6 DEF Placed, Sound
<1>11. newht'.num_elements + Cardinality(Rest(ht, it')) <= ht.num_elements
  <2>1. newht.num_elements \in Nat /\ ht.num_elements \in Nat
    BY <1>2, TableIs DEF Sound
  <2>2. newht.num_elements + Cardinality(Rest(ht, it)) <= ht.num_elements
    BY <1>1, <1>3 DEF Copied
  <2>3. QED
    BY <1>2, <1>6, <2>1, <2>2
<1>12. LoadBounded'
  <2>1. /\ newht.num_elements \in Nat /\ newht'.num_elements \in Nat
        /\ ht.num_elements \in Nat /\ ht.num_buckets \in Nat /\ ht.num_buckets > 0
    BY <1>2, <1>6, TableIs DEF Sound
  <2>2. Cardinality(Rest(ht, it')) >= 0
    BY <1>2, CopyIs
  <2>3. /\ newht'.num_buckets = 9 * ht.num_buckets /\ ht.num_elements <= 3 * ht.num_buckets
    BY <1>1, <1>3, <1>6 DEF Phases
  <2>4. newht'.num_elements <= 3 * ht.num_buckets
    BY <1>2, <1>11, <2>1, <2>2, <2>3
  <2>5. ~(newht'.num_elements >= 3 * newht'.num_buckets)
    BY <2>1, <2>3, <2>4
  <2>6. QED
    BY <1>1, <2>5 DEF LoadBounded, MustResize
<1>14. ASSUME ~wide
       PROVE  Pairs(newht') = {At(ht, s) : s \in Slots(ht) \ Rest(ht, it')}
  <2>1. Pairs(newht') = {At(ht, s) : s \in Slots(ht) \ Rest(ht, it)} \cup {At(ht, it)}
    BY <1>4, <1>7, <1>13, <1>14 DEF kv
  <2>2. Slots(ht) \ Rest(ht, it') = (Slots(ht) \ Rest(ht, it)) \cup {it}
    BY <1>2
  <2>3. QED
    BY <2>1, <2>2
<1>15. Copied'
  BY <1>1, <1>11, <1>14 DEF Copied
<1>16. KeysDistinct'
  BY <1>1, <1>3, <1>4, <1>7 DEF KeysDistinct
<1>17. QED
  BY <1>8, <1>9, <1>10, <1>12, <1>15, <1>16 DEF IInv

(* MaybeResize is done, and HashTable_Insert puts in its own pair. *)
LEMMA ResizeEndStep ==
    ASSUME IInv, ResizeEnd
    PROVE  IInv'
<1>1. /\ mode = "resizing" /\ it.idx = INVALID_IDX /\ mode' = "idle"
      /\ ht' = Put(newht, pending) /\ newht' = NoTable /\ pending' = NoPair
      /\ UNCHANGED <<it, wide>>
  BY DEF ResizeEnd
<1>2. TypeOK /\ Phases /\ Placed /\ LoadBounded /\ Copied /\ KeysDistinct
  BY DEF IInv
<1>3. Sound(newht) /\ Sound(ht)
  BY <1>1, IInvSound
<1>4. it = PastEnd /\ Rest(ht, it) = {}
  BY <1>1, <1>2, RestIs DEF TypeOK
<1>5. /\ pending \in KVs /\ newht.num_buckets = 9 * ht.num_buckets
      /\ ht.num_elements < MaxElements /\ ht.num_elements <= 3 * ht.num_buckets
  BY <1>1, <1>2 DEF Phases
<1>6. /\ newht.num_elements \in Nat /\ ht.num_elements \in Nat
      /\ ht.num_buckets \in Nat /\ ht.num_buckets > 0
  BY <1>3, TableIs DEF Sound
<1>7. newht.num_elements <= ht.num_elements
  <2>1. newht.num_elements + Cardinality({}) <= ht.num_elements
    BY <1>1, <1>2, <1>4 DEF Copied
  <2>2. Cardinality({}) = 0
    BY FS_EmptySet, Zenon
  <2>3. QED
    BY <1>6, <2>1, <2>2
<1>8. newht.num_elements < MaxElements
  BY <1>5, <1>6, <1>7
<1>9. /\ Sound(ht') /\ ht'.num_buckets = newht.num_buckets
      /\ ht'.num_elements = IF Found(newht, pending.key) = 0
                            THEN newht.num_elements + 1 ELSE newht.num_elements
  BY <1>1, <1>3, <1>5, <1>8, PutSound
<1>10. ~wide => Distinct(ht')
  <2>1. ~wide => Distinct(newht) /\ IntKey(pending.key) = pending.key
    BY <1>1, <1>2 DEF KeysDistinct
  <2>2. QED
    BY <1>1, <1>3, <1>5, <1>8, <2>1, PutDistinct
<1>11. TableOK(NoTable) /\ WellPlaced(NoTable) /\ Distinct(NoTable)
  BY EmptyIs DEF NoTable
<1>12. TypeOK'
  BY <1>1, <1>2, <1>4, <1>9, <1>11 DEF TypeOK, Sound
<1>13. Phases'
  BY <1>1, <1>4, <1>9 DEF Phases, Sound
<1>14. Placed'
  BY <1>1, <1>9, <1>11 DEF Placed, Sound
<1>15. LoadBounded'
  BY <1>1, <1>5, <1>6, <1>7, <1>9 DEF LoadBounded
<1>16. Copied' /\ KeysDistinct'
  BY <1>1, <1>10, <1>11 DEF Copied, KeysDistinct
<1>17. QED
  BY <1>12, <1>13, <1>14, <1>15, <1>16 DEF IInv

(* The iterator moves over a table that stays. *)
LEMMA MoveStep ==
    ASSUME IInv, mode \in {"idle", "iter"}, mode' \in {"idle", "iter"},
           it' \in Slots(ht) \cup {PastEnd}, mode' = "idle" => it' = PastEnd,
           UNCHANGED <<ht, newht, pending, wide>>
    PROVE  IInv'
  BY DEF IInv, TypeOK, Phases, Placed, LoadBounded, Copied, KeysDistinct

(* HTIterator_Allocate stands at the first pair, if there is one. *)
LEMMA IterAllocateStep ==
    ASSUME IInv, HTIterator_Allocate
    PROVE  IInv'
<1>1. TableOK(ht)
  BY DEF IInv, TypeOK
<1>2. EnterBucket(ht, 0) \in Slots(ht) \cup {PastEnd}
  BY <1>1, StartIs, ReachesIs
<1>3. it' \in Slots(ht) \cup {PastEnd}
  BY <1>2 DEF HTIterator_Allocate
<1>4. QED
  BY <1>3, MoveStep DEF HTIterator_Allocate

(* HTIterator_Next reaches the first place ahead, or the end. *)
LEMMA IterNextIs ==
    ASSUME IInv
    PROVE  /\ Reaches(ht, Ahead(ht, it), Advance(ht, it))
           /\ Advance(ht, it) \in Slots(ht) \cup {PastEnd}
<1>1. TableOK(ht) /\ it \in Slots(ht) \cup {PastEnd}
  BY DEF IInv, TypeOK
<1>2. CASE it \in Slots(ht)
  BY <1>1, <1>2, AdvanceIs, ReachesIs
<1>3. CASE it = PastEnd
  <2>1. it.idx = INVALID_IDX
    BY <1>3 DEF PastEnd
  <2>2. Ahead(ht, it) = {} /\ Advance(ht, it) = PastEnd
    BY <2>1 DEF Ahead, Advance
  <2>3. QED
    BY <2>2 DEF Reaches
<1>4. QED
  BY <1>1, <1>2, <1>3

(* HTIterator_Next changes nothing but the iterator. *)
LEMMA IterNextStep ==
    ASSUME IInv, HTIterator_Next
    PROVE  IInv'
  BY IterNextIs, MoveStep DEF HTIterator_Next

(* Where HTIterator_Remove leaves the iterator: the pair it removes is the *)
(* first of its key, at or before the iterator's place in the same bucket. *)
LEMMA IterRemoveIs ==
    ASSUME IInv, IterRemoveKey,
           NEW k, k = At(ht, it).key, NEW b, b = it.idx, NEW i, i = Found(ht, k)
    PROVE  /\ Sound(ht) /\ it \in Slots(ht) /\ k \in Keys /\ b \in Buckets(ht)
           /\ IntKey(k) = k
           /\ b = HashKeyToBucketNum(ht, k) /\ i \in 1..it.pos
           /\ ht' = Delete(ht, k)
           /\ it' = IF Advance(ht, it).idx = b THEN it ELSE Advance(ht, it)
           /\ Advance(ht, it).idx = b =>
                 /\ Advance(ht, it) = [idx |-> b, pos |-> it.pos + 1]
                 /\ it.pos < Len(ht.buckets[b])
           /\ it' \in Slots(ht') \cup {PastEnd}
<1>1. mode = "iter" /\ it.idx # INVALID_IDX
  BY DEF IterRemoveKey
<1>2. Sound(ht) /\ TableOK(ht) /\ it \in Slots(ht) \cup {PastEnd}
  BY <1>1, IInvSound DEF IInv, TypeOK
<1>3. it \in Slots(ht)
  BY <1>1, <1>2, RestIs
<1>4. /\ b \in Buckets(ht) /\ b \in Nat /\ it.pos \in 1..Len(ht.buckets[b]) /\ it.pos \in Nat
      /\ it = [idx |-> b, pos |-> it.pos] /\ k \in Keys
  BY <1>2, <1>3, SlotIs DEF KVs
<1>5. b = HashKeyToBucketNum(ht, k)
  BY <1>2, <1>3 DEF Sound, WellPlaced
<1> DEFINE next == Advance(ht, it)
<1>6. /\ i # 0 /\ FoundPair(ht, k) = At(ht, it) /\ ht' = Delete(ht, k)
      /\ it' = IF next.idx = b /\ i < next.pos THEN [next EXCEPT !.pos = @ - 1] ELSE next
  BY <1>5 DEF IterRemoveKey
<1>7. i \in 1..it.pos /\ IntKey(k) = k
  <2>0. Sound(ht) /\ k \in Keys /\ b = HashKeyToBucketNum(ht, k) /\ i = Found(ht, k) /\ i # 0
    BY <1>2, <1>4, <1>5, <1>6
  <2>1. /\ i \in 0..Len(ht.buckets[b]) /\ FoundPair(ht, k).key = IntKey(k)
        /\ \A s \in Slots(ht) : s.idx = b /\ At(ht, s).key = IntKey(k) => i <= s.pos
    BY <2>0, FoundIs, ZenonT(40)
  <2>2. IntKey(k) = k
    BY <1>6, <2>1
  <2>3. i <= it.pos
    BY <1>3, <2>1, <2>2
  <2>4. QED
    BY <1>4, <1>6, <2>1, <2>2, <2>3
<1>8. Len(ht.buckets[b]) \in Nat
  BY <1>2, <1>4, TableIs
<1>9. /\ next.idx = b => next = [idx |-> b, pos |-> it.pos + 1] /\ it.pos < Len(ht.buckets[b])
      /\ next \in Slots(ht) \cup {PastEnd}
  <2>1. next \in Slots(ht) \cup {PastEnd}
    BY IterNextIs
  <2>2. CASE it.pos < Len(ht.buckets[b])
    <3>1. next = [idx |-> b, pos |-> it.pos + 1]
      BY <1>1, <1>4, <2>2 DEF Advance
    <3>2. QED
      BY <2>1, <2>2, <3>1
  <2>3. CASE ~(it.pos < Len(ht.buckets[b]))
    <3>1. next = EnterBucket(ht, b + 1) /\ b + 1 \in Nat
      BY <1>1, <1>4, <2>3 DEF Advance
    <3>2. next = PastEnd \/ next \in From(ht, b + 1)
      BY <1>2, <3>1, EnterIs DEF Reaches
    <3>3. next.idx # b
      <4>1. CASE next = PastEnd
        BY <1>4, <4>1 DEF PastEnd, INVALID_IDX
      <4>2. CASE next \in From(ht, b + 1)
        <5>1. next \in Slots(ht) /\ next.idx >= b + 1
          BY <4>2 DEF From
        <5>2. next.idx \in Nat
          BY <1>2, <5>1, SlotIs
        <5>3. QED
          BY <1>4, <5>1, <5>2
      <4>3. QED
        BY <3>2, <4>1, <4>2
    <3>4. QED
      BY <2>1, <3>3
  <2>4. QED
    BY <2>2, <2>3
<1> HIDE DEF next
<1>10. it' = IF next.idx = b THEN it ELSE next
  <2>1. CASE next.idx = b
    <3>1. next = [idx |-> b, pos |-> it.pos + 1]
      BY <1>9, <2>1
    <3>2. i < next.pos /\ [next EXCEPT !.pos = @ - 1] = [idx |-> b, pos |-> it.pos]
      BY <1>4, <1>7, <3>1
    <3>3. QED
      BY <1>4, <1>6, <2>1, <3>2
  <2>2. CASE next.idx # b
    BY <1>6, <2>2
  <2>3. QED
    BY <2>1, <2>2
<1>11. Slots(ht') = Slots(ht) \ {[idx |-> b, pos |-> Len(ht.buckets[b])]}
  BY <1>2, <1>4, <1>5, <1>6, DeleteMoves
<1>12. it' \in Slots(ht') \cup {PastEnd}
  <2>1. CASE next.idx = b
    <3>1. it # [idx |-> b, pos |-> Len(ht.buckets[b])]
      BY <1>4, <1>8, <1>9, <2>1
    <3>2. QED
      BY <1>3, <1>10, <1>11, <2>1, <3>1
  <2>2. CASE next.idx # b
    <3>1. next # [idx |-> b, pos |-> Len(ht.buckets[b])]
      BY <2>2
    <3>2. QED
      BY <1>9, <1>10, <1>11, <2>2, <3>1
  <2>3. QED
    BY <2>1, <2>2
<1>13. QED
  BY <1>2, <1>3, <1>4, <1>5, <1>6, <1>7, <1>9, <1>10, <1>12 DEF next

(* HTIterator_Remove moves on, then removes by key. *)
LEMMA IterRemoveKeyStep ==
    ASSUME IInv, IterRemoveKey
    PROVE  IInv'
<1> DEFINE k == At(ht, it).key
<1>1. mode = "iter" /\ UNCHANGED <<mode, newht, pending, wide>>
  BY DEF IterRemoveKey
<1>2. /\ Sound(ht) /\ k \in Keys /\ ht' = Delete(ht, k) /\ Found(ht, k) # 0
      /\ it' \in Slots(ht') \cup {PastEnd}
  BY IterRemoveIs
<1>3. TypeOK /\ Phases /\ Placed /\ LoadBounded /\ KeysDistinct
  BY DEF IInv
<1> HIDE DEF k
<1>4. Sound(ht') /\ ht'.num_buckets = ht.num_buckets /\ ht'.num_elements = ht.num_elements - 1
  BY <1>2, DeleteSound
<1>5. ~wide => Distinct(ht')
  BY <1>2, <1>3, DeleteDistinct DEF KeysDistinct
<1>6. TypeOK'
  BY <1>1, <1>2, <1>3, <1>4 DEF TypeOK, Sound
<1>7. Phases'
  BY <1>1, <1>3, <1>4 DEF Phases, Sound
<1>8. Placed'
  BY <1>1, <1>3, <1>4 DEF Placed, Sound
<1>9. LoadBounded'
  <2>1. ht.num_buckets \in Nat /\ ht.num_elements \in Nat
    BY <1>2, TableIs DEF Sound
  <2>2. QED
    BY <1>1, <1>3, <1>4, <2>1 DEF LoadBounded
<1>10. Copied' /\ KeysDistinct'
  BY <1>1, <1>3, <1>5 DEF Copied, KeysDistinct
<1>11. QED
  BY <1>6, <1>7, <1>8, <1>9, <1>10 DEF IInv

(* HTIterator_Remove that does not find its own pair ends the process. *)
LEMMA IterRemoveExitsStep ==
    ASSUME IInv, IterRemoveExits
    PROVE  IInv'
  BY DEF IterRemoveExits, IInv, TypeOK, Phases, Placed, LoadBounded, Copied, KeysDistinct

(* Every call preserves the inductive invariant. *)
LEMMA IInvStep ==
    ASSUME IInv, [Next]_vars
    PROVE  IInv'
<1>0. wide \in BOOLEAN /\ TypeOK
  BY DEF IInv, TypeOK
<1>1. CASE UNCHANGED vars
  BY <1>0, <1>1, LookStep DEF vars
<1>2. ASSUME NEW n \in InitialBuckets, HashTable_Allocate(n)
      PROVE  IInv'
  BY <1>2, AllocateStep
<1>3. CASE HashTable_Free
  BY <1>3, FreeStep
<1>4. CASE HashTable_NumElements
  BY <1>0, <1>4, LookStep DEF HashTable_NumElements
<1>5. ASSUME NEW k \in Keys, NEW v \in Values, ht.num_elements < MaxElements,
             HashTable_Insert(k, v)
      PROVE  IInv'
  BY <1>5, InsertStep
<1>6. ASSUME NEW k \in Keys, NEW v \in Values, ht.num_elements < MaxElements, ResizeBegin(k, v)
      PROVE  IInv'
  BY <1>6, ResizeBeginStep
<1>7. ASSUME NEW k \in Keys, HashTable_Find(k)
      PROVE  IInv'
  <2>1. wide' \in BOOLEAN /\ (wide => wide')
    BY <1>0, <1>7, UsesIs DEF HashTable_Find
  <2>2. QED
    BY <1>7, <2>1, LookStep DEF HashTable_Find
<1>8. ASSUME NEW k \in Keys, HashTable_Remove(k)
      PROVE  IInv'
  BY <1>8, RemoveStep
<1>9. CASE ResizeCopy
  BY <1>9, ResizeCopyStep
<1>10. CASE ResizeEnd
  BY <1>10, ResizeEndStep
<1>11. CASE HTIterator_Allocate
  BY <1>11, IterAllocateStep
<1>12. CASE HTIterator_Free
  BY <1>12, MoveStep DEF HTIterator_Free
<1>13. CASE HTIterator_IsValid
  BY <1>0, <1>13, LookStep DEF HTIterator_IsValid
<1>14. CASE HTIterator_Next
  BY <1>14, IterNextStep
<1>15. CASE HTIterator_Get
  BY <1>0, <1>15, LookStep DEF HTIterator_Get
<1>16. CASE IterRemovePastEnd
  BY <1>0, <1>16, LookStep DEF IterRemovePastEnd
<1>17. CASE IterRemoveKey
  BY <1>17, IterRemoveKeyStep
<1>18. CASE IterRemoveExits
  BY <1>18, IterRemoveExitsStep
<1>19. QED
  BY <1>1, <1>2, <1>3, <1>4, <1>5, <1>6, <1>7, <1>8, <1>9, <1>10, <1>11, <1>12, <1>13,
     <1>14, <1>15, <1>16, <1>17, <1>18
     DEF Next, TableCalls, ResizeLoop, IteratorCalls, HTIterator_Remove

(* The inductive invariant holds in every state HashTable.c reaches, with  *)
(* any keys, sizes and sequences of calls: in particular an iterator that  *)
(* is not past the end is at a pair.                                       *)
THEOREM Invariance == Spec => []IInv
<1>1. Init => IInv
  BY InitIInv
<1>2. IInv /\ [Next]_vars => IInv'
  BY IInvStep
<1>3. QED
  BY <1>1, <1>2, PTL DEF Spec

(* Every pair is in the chain its key hashes to and num_elements counts    *)
(* the pairs, even with keys that hasKey confuses.                         *)
THEOREM PairsPlaced == Spec => []Placed
<1>1. IInv => Placed
  BY DEF IInv
<1>2. QED
  BY <1>1, Invariance, PTL

(* The load factor is at most 3 between calls, and the table MaybeResize   *)
(* fills never needs resizing itself.                                      *)
THEOREM LoadIsBounded == Spec => []LoadBounded
<1>1. IInv => LoadBounded
  BY DEF IInv
<1>2. QED
  BY <1>1, Invariance, PTL

-----------------------------------------------------------------------------
(* The map of a table whose keys are distinct. *)

(* The keys in a table, and in some of its slots. *)
KeysOf(t) == {kv.key : kv \in Pairs(t)}
KeysAt(t, S) == {At(t, s).key : s \in S}

(* It holds the pairs of the table. *)
LEMMA MapIs ==
    ASSUME NEW t, TableOK(t), Distinct(t)
    PROVE  /\ DOMAIN MapOf(t) = KeysOf(t)
           /\ MapOf(t) = [k \in KeysOf(t) |-> MapOf(t)[k]]
           /\ \A kv \in Pairs(t) : /\ kv.key \in KeysOf(t) /\ kv.key \in Keys
                                   /\ MapOf(t)[kv.key] = kv.value
                                   /\ kv = [key |-> kv.key, value |-> MapOf(t)[kv.key]]
           /\ KeysOf(t) = KeysAt(t, Slots(t))
<1>1. Pairs(t) = {At(t, s) : s \in Slots(t)} /\ \A s \in Slots(t) : At(t, s) \in KVs
  BY PairsAre, SlotIs
<1>2. ASSUME NEW x \in Pairs(t), NEW y \in Pairs(t), x.key = y.key
      PROVE  x = y
  <2>1. PICK r \in Slots(t) : x = At(t, r)
    BY <1>1, <1>2
  <2>2. PICK s \in Slots(t) : y = At(t, s)
    BY <1>1, <1>2
  <2>3. QED
    BY <1>2, <2>1, <2>2 DEF Distinct
<1>3. MapOf(t) = [k \in KeysOf(t) |-> (CHOOSE kv \in Pairs(t) : kv.key = k).value]
  BY DEF MapOf, KeysOf
<1>4. ASSUME NEW kv \in Pairs(t)
      PROVE  /\ kv.key \in KeysOf(t) /\ kv.key \in Keys
             /\ MapOf(t)[kv.key] = kv.value
             /\ kv = [key |-> kv.key, value |-> MapOf(t)[kv.key]]
  <2>1. kv \in KVs
    BY <1>1
  <2>2. kv.key \in KeysOf(t) /\ kv.key \in Keys
    BY <2>1 DEF KeysOf, KVs
  <2>3. (CHOOSE x \in Pairs(t) : x.key = kv.key) = kv
    BY <1>2
  <2>4. MapOf(t)[kv.key] = kv.value
    BY <1>3, <2>2, <2>3
  <2>5. kv = [key |-> kv.key, value |-> kv.value]
    BY <2>1 DEF KVs
  <2>6. QED
    BY <2>2, <2>4, <2>5
<1>5. DOMAIN MapOf(t) = KeysOf(t) /\ MapOf(t) = [k \in KeysOf(t) |-> MapOf(t)[k]]
  BY <1>3
<1>6. KeysOf(t) = KeysAt(t, Slots(t))
  BY <1>1 DEF KeysOf, KeysAt
<1>7. QED
  BY <1>4, <1>5, <1>6

(* Tables with the same pairs have the same map. *)
LEMMA SamePairs ==
    ASSUME NEW t, NEW u, Pairs(t) = Pairs(u)
    PROVE  MapOf(t) = MapOf(u)
  BY DEF MapOf

(* A table without pairs has the empty map. *)
LEMMA EmptyMap ==
    ASSUME NEW t, Pairs(t) = {}
    PROVE  MapOf(t) = [k \in {} |-> NoKey]
<1>1. DOMAIN MapOf(t) = {} /\ MapOf(t) = [k \in {} |-> MapOf(t)[k]]
  BY DEF MapOf
<1>2. QED
  BY <1>1

(* A map with one pair put in. *)
Grown(m, k, v) == [j \in DOMAIN m \cup {k} |-> IF j = k THEN v ELSE m[j]]

(* An insertion adds its pair to the map, or replaces that of its key. *)
LEMMA PutMap ==
    ASSUME NEW t, Sound(t), t.num_elements < MaxElements, NEW kv \in KVs,
           NEW u, u = Put(t, kv), Distinct(t), IntKey(kv.key) = kv.key
    PROVE  MapOf(u) = Grown(MapOf(t), kv.key, kv.value)
<1>1. TableOK(t) /\ TableOK(u)
  BY PutSound DEF Sound
<1>2. Distinct(u) /\ Pairs(u) = {y \in Pairs(t) : y.key # kv.key} \cup {kv}
  BY PutDistinct
<1>3. /\ DOMAIN MapOf(t) = KeysOf(t)
      /\ \A y \in Pairs(t) : MapOf(t)[y.key] = y.value
  BY <1>1, MapIs
<1>4. /\ MapOf(u) = [k \in KeysOf(u) |-> MapOf(u)[k]]
      /\ \A y \in Pairs(u) : MapOf(u)[y.key] = y.value
  BY <1>1, <1>2, MapIs
<1>5. KeysOf(u) = KeysOf(t) \cup {kv.key}
  BY <1>2 DEF KeysOf
<1>6. ASSUME NEW j \in KeysOf(u)
      PROVE  MapOf(u)[j] = IF j = kv.key THEN kv.value ELSE MapOf(t)[j]
  <2>1. PICK y \in Pairs(u) : y.key = j
    BY <1>6 DEF KeysOf
  <2>2. CASE j = kv.key
    BY <1>2, <1>4, <2>2
  <2>3. CASE j # kv.key
    <3>1. y \in Pairs(t)
      BY <1>2, <2>1, <2>3
    <3>2. QED
      BY <1>3, <1>4, <2>1, <2>3, <3>1
  <2>4. QED
    BY <2>2, <2>3
<1>7. QED
  BY <1>3, <1>4, <1>5, <1>6 DEF Grown

(* A removal takes its key out of the map. *)
LEMMA DeleteMap ==
    ASSUME NEW t, Sound(t), NEW k \in Keys, NEW u, u = Delete(t, k), Found(t, k) # 0,
           Distinct(t), IntKey(k) = k
    PROVE  MapOf(u) = [j \in DOMAIN MapOf(t) \ {k} |-> MapOf(t)[j]]
<1>1. TableOK(t) /\ TableOK(u)
  BY DeleteSound DEF Sound
<1>2. Distinct(u) /\ Pairs(u) = {y \in Pairs(t) : y.key # k}
  BY DeleteDistinct
<1>3. /\ DOMAIN MapOf(t) = KeysOf(t)
      /\ \A y \in Pairs(t) : MapOf(t)[y.key] = y.value
  BY <1>1, MapIs
<1>4. /\ MapOf(u) = [j \in KeysOf(u) |-> MapOf(u)[j]]
      /\ \A y \in Pairs(u) : MapOf(u)[y.key] = y.value
  BY <1>1, <1>2, MapIs
<1>5. KeysOf(u) = KeysOf(t) \ {k}
  BY <1>2 DEF KeysOf
<1>6. ASSUME NEW j \in KeysOf(u)
      PROVE  MapOf(u)[j] = MapOf(t)[j]
  <2>1. PICK y \in Pairs(u) : y.key = j
    BY <1>6 DEF KeysOf
  <2>2. QED
    BY <1>2, <1>3, <1>4, <2>1
<1>7. QED
  BY <1>3, <1>4, <1>5, <1>6

(* A lookup finds what the map has. *)
LEMMA FoundMap ==
    ASSUME NEW t, Sound(t), Distinct(t), NEW k \in Keys, IntKey(k) = k
    PROVE  /\ Found(t, k) # 0 <=> k \in DOMAIN MapOf(t)
           /\ Found(t, k) # 0 => FoundPair(t, k) = [key |-> k, value |-> MapOf(t)[k]]
<1> DEFINE b == HashKeyToBucketNum(t, k)
           i == Found(t, k)
           x == [idx |-> b, pos |-> i]
<1>1. TableOK(t)
  BY DEF Sound
<1>2. i = 0 => \A s \in Slots(t) : At(t, s).key # k
  BY FoundIs
<1>3. i # 0 => x \in Slots(t) /\ At(t, x) = FoundPair(t, k) /\ FoundPair(t, k).key = k
  BY FoundIs
<1>4. /\ DOMAIN MapOf(t) = KeysOf(t) /\ KeysOf(t) = {At(t, s).key : s \in Slots(t)}
      /\ \A kv \in Pairs(t) : kv = [key |-> kv.key, value |-> MapOf(t)[kv.key]]
  BY <1>1, MapIs DEF KeysAt
<1>5. Pairs(t) = {At(t, s) : s \in Slots(t)}
  BY <1>1, PairsAre
<1> HIDE DEF b, i, x
<1>6. CASE i = 0
  BY <1>2, <1>4, <1>6 DEF i
<1>7. CASE i # 0
  <2>1. FoundPair(t, k) \in Pairs(t) /\ FoundPair(t, k).key = k
    BY <1>3, <1>5, <1>7
  <2>2. k \in DOMAIN MapOf(t)
    BY <1>4, <2>1 DEF KeysOf
  <2>3. QED
    BY <1>4, <1>7, <2>1, <2>2 DEF i
<1>8. QED
  BY <1>6, <1>7

(* num_elements is the size of the map. *)
LEMMA CountIs ==
    ASSUME NEW t, TableOK(t), WellPlaced(t), Distinct(t)
    PROVE  t.num_elements = Cardinality(DOMAIN MapOf(t))
<1> DEFINE S == Slots(t)
           T == KeysOf(t)
           f == [s \in S |-> At(t, s).key]
<1>1. DOMAIN MapOf(t) = T /\ T = {At(t, s).key : s \in S}
  BY MapIs DEF KeysAt
<1>2. f \in [S -> T]
  BY <1>1
<1>3. f \in Injection(S, T)
  BY <1>2 DEF Injection, IsInjective, Distinct
<1>4. f \in Surjection(S, T)
  BY <1>1, <1>2 DEF Surjection
<1> HIDE DEF f
<1>5. ExistsBijection(S, T)
  BY <1>3, <1>4 DEF ExistsBijection, Bijection
<1>6. IsFiniteSet(S) /\ t.num_elements = Cardinality(S)
  BY DEF WellPlaced
<1> HIDE DEF S, T
<1>7. Cardinality(T) = Cardinality(S)
  BY <1>5, <1>6, FS_Bijection, Zenon
<1>8. QED
  BY <1>1, <1>6, <1>7

(* An iterator that moves to e goes to the key of e, and has the others of *)
(* the slots S before it.                                                  *)
LEMMA MoveIs ==
    ASSUME NEW t, TableOK(t), Distinct(t), NEW S, S \subseteq Slots(t), NEW e, Reaches(t, S, e)
    PROVE  \/ S = {} /\ KeysAt(t, S) = {} /\ e = PastEnd
           \/ /\ e \in S /\ At(t, e).key \in KeysAt(t, S)
              /\ KeysAt(t, Ahead(t, e)) = KeysAt(t, S) \ {At(t, e).key}
<1>1. CASE S = {} /\ e = PastEnd
  BY <1>1 DEF KeysAt
<1>2. CASE e \in S /\ S \subseteq Slots(t) /\ Ahead(t, e) = S \ {e}
  <2>1. At(t, e).key \in KeysAt(t, S)
    BY <1>2 DEF KeysAt
  <2>2. \A s \in S : s # e => At(t, s).key # At(t, e).key
    BY <1>2 DEF Distinct
  <2>3. KeysAt(t, S \ {e}) = KeysAt(t, S) \ {At(t, e).key}
    BY <2>2 DEF KeysAt
  <2>4. QED
    BY <1>2, <2>1, <2>3
<1>3. QED
  BY <1>1, <1>2 DEF Reaches

-----------------------------------------------------------------------------
(* The refinement, call by call.  Nothing is promised once `wide' holds,   *)
(* so each step is looked at with keys that fit an int.                    *)

(* What is known of a table whose keys fit. *)
LEMMA FitIs ==
    ASSUME IInv, ~wide
    PROVE  /\ TableOK(ht) /\ WellPlaced(ht) /\ Distinct(ht)
           /\ mode # "none" => Sound(ht)
           /\ mode = "resizing" => Sound(newht) /\ Distinct(newht)
           /\ it \in Slots(ht) \cup {PastEnd}
  BY IInvSound DEF IInv, TypeOK, Placed, KeysDistinct

(* HashTable_Allocate makes the empty map. *)
LEMMA AllocateRefines ==
    ASSUME IInv, NEW n \in InitialBuckets, HashTable_Allocate(n)
    PROVE  Abstract!Allocate
<1>1. /\ mode = "none" /\ mode' = "idle" /\ ht' = Empty(n) /\ out' = Void
  BY DEF HashTable_Allocate
<1>2. ht = NoTable
  BY <1>1 DEF IInv, Phases
<1>3. Pairs(ht) = Pairs(ht')
  BY <1>1, <1>2, EmptyIs DEF NoTable
<1>4. MapOf(ht') = MapOf(ht)
  BY <1>3, SamePairs
<1>5. QED
  BY <1>1, <1>4 DEF Abstract!Allocate, Customer, Void

(* HashTable_Free gives the map up. *)
LEMMA FreeRefines ==
    ASSUME IInv, ~wide, HashTable_Free
    PROVE  Abstract!Free
<1>1. /\ mode = "idle" /\ mode' = "none" /\ ht' = NoTable
      /\ out' = [Void EXCEPT !.freed = Pairs(ht)]
  BY DEF HashTable_Free
<1>2. MapOf(ht') = [k \in {} |-> NoKey]
  BY <1>1, EmptyIs, EmptyMap DEF NoTable
<1>3. /\ DOMAIN MapOf(ht) = KeysOf(ht)
      /\ \A kv \in Pairs(ht) : kv = [key |-> kv.key, value |-> MapOf(ht)[kv.key]]
  BY FitIs, MapIs
<1>4. Pairs(ht) = {[key |-> k, value |-> MapOf(ht)[k]] : k \in DOMAIN MapOf(ht)}
  <2>1. ASSUME NEW k \in KeysOf(ht)
        PROVE  [key |-> k, value |-> MapOf(ht)[k]] \in Pairs(ht)
    <3>1. PICK kv \in Pairs(ht) : kv.key = k
      BY DEF KeysOf
    <3>2. QED
      BY <1>3, <3>1
  <2>2. ASSUME NEW kv \in Pairs(ht)
        PROVE  \E k \in KeysOf(ht) : kv = [key |-> k, value |-> MapOf(ht)[k]]
    BY <1>3 DEF KeysOf
  <2>3. QED
    BY <1>3, <2>1, <2>2
<1>5. QED
  BY <1>1, <1>2, <1>4 DEF Abstract!Free, Abstract!Pair, Customer, Void

(* HashTable_NumElements counts the keys of the map. *)
LEMMA NumElementsRefines ==
    ASSUME IInv, ~wide, HashTable_NumElements
    PROVE  Abstract!NumElements
<1>1. ht.num_elements = Cardinality(DOMAIN MapOf(ht))
  BY FitIs, CountIs
<1>2. Abstract!Cardinality(DOMAIN MapOf(ht)) = Cardinality(DOMAIN MapOf(ht))
  BY DEF Abstract!Cardinality, Cardinality
<1>3. QED
  BY <1>1, <1>2
     DEF HashTable_NumElements, Abstract!NumElements, Void, Customer, CurrentKey, KeysAhead

(* The pair a lookup hands back. *)
LEMMA LookupIs ==
    ASSUME NEW t, Sound(t), Distinct(t), NEW k \in Keys, IntKey(k) = k,
           MapOf(t) = MapOf(ht), NEW op
    PROVE  Ret(op, k, Found(t, k) # 0, FoundPair(t, k)) =
           Abstract!Ret(op, k, Abstract!Has(k), Abstract!Lookup(k))
<1>1. /\ Found(t, k) # 0 <=> k \in DOMAIN MapOf(ht)
      /\ Found(t, k) # 0 => FoundPair(t, k) = [key |-> k, value |-> MapOf(ht)[k]]
  BY FoundMap
<1>2. Found(t, k) # 0 <=> Abstract!Has(k)
  BY <1>1 DEF Abstract!Has
<1>3. Found(t, k) # 0 => FoundPair(t, k) = Abstract!Lookup(k)
  BY <1>1, <1>2 DEF Abstract!Lookup, Abstract!Pair
<1>4. CASE Found(t, k) # 0
  BY <1>2, <1>3, <1>4 DEF Ret, Abstract!Ret
<1>5. CASE Found(t, k) = 0
  BY <1>2, <1>5 DEF Ret, Abstract!Ret
<1>6. QED
  BY <1>4, <1>5

(* HashTable_Insert sets its key and returns the old pair. *)
LEMMA InsertRefines ==
    ASSUME IInv, ~wide', NEW k \in Keys, NEW v \in Values, ht.num_elements < MaxElements,
           HashTable_Insert(k, v)
    PROVE  Abstract!Insert(k, v)
<1> DEFINE kv == [key |-> k, value |-> v]
<1>1. /\ mode = "idle" /\ mode' = mode /\ ht' = Put(ht, kv) /\ Uses(k)
      /\ out' = Ret("Insert", k, Found(ht, k) # 0, FoundPair(ht, k))
  BY DEF HashTable_Insert
<1>2. ~wide /\ IntKey(k) = k
  BY <1>1, UsesIs DEF IInv
<1>3. Sound(ht) /\ Distinct(ht)
  BY <1>1, <1>2, FitIs
<1>4. kv \in KVs /\ kv.key = k /\ kv.value = v
  BY DEF KVs
<1> HIDE DEF kv
<1>5. MapOf(ht') = Grown(MapOf(ht), kv.key, kv.value)
  BY <1>1, <1>2, <1>3, <1>4, PutMap
<1>6. MapOf(ht') = Abstract!With(k, v)
  BY <1>4, <1>5 DEF Abstract!With, Grown
<1>7. out' = Abstract!Ret("Insert", k, Abstract!Has(k), Abstract!Lookup(k))
  BY <1>1, <1>2, <1>3, LookupIs
<1>8. QED
  BY <1>1, <1>6, <1>7 DEF Abstract!Insert, Customer

(* So does the HashTable_Insert that had to resize. *)
LEMMA ResizeEndRefines ==
    ASSUME IInv, ~wide, ResizeEnd
    PROVE  \E k \in Keys, v \in Values : Abstract!Insert(k, v)
<1> DEFINE k == pending.key
           v == pending.value
<1>1. /\ mode = "resizing" /\ it.idx = INVALID_IDX /\ mode' = "idle"
      /\ ht' = Put(newht, pending)
      /\ out' = Ret("Insert", k, Found(newht, k) # 0, FoundPair(newht, k))
  BY DEF ResizeEnd
<1>2. Sound(newht) /\ Distinct(newht) /\ IntKey(k) = k /\ TableOK(ht)
  BY <1>1, FitIs DEF IInv, KeysDistinct
<1>3. pending \in KVs /\ k \in Keys /\ v \in Values
  BY <1>1 DEF IInv, Phases, KVs
<1>4. Rest(ht, it) = {}
  BY <1>1, <1>2, FitIs, RestIs
<1>5. Pairs(newht) = Pairs(ht)
  <2>1. Pairs(newht) = {At(ht, s) : s \in Slots(ht) \ Rest(ht, it)}
    BY <1>1 DEF IInv, Copied
  <2>2. QED
    BY <1>2, <1>4, <2>1, PairsAre
<1>6. MapOf(newht) = MapOf(ht)
  BY <1>5, SamePairs
<1>7. newht.num_elements < MaxElements
  <2>1. newht.num_elements + Cardinality({}) <= ht.num_elements /\ ht.num_elements < MaxElements
    BY <1>1, <1>4 DEF IInv, Copied, Phases
  <2>2. Cardinality({}) = 0
    BY FS_EmptySet, Zenon
  <2>3. newht.num_elements \in Nat /\ ht.num_elements \in Nat
    BY <1>2, TableIs DEF Sound
  <2>4. QED
    BY <2>1, <2>2, <2>3
<1>8. MapOf(ht') = Grown(MapOf(newht), k, v)
  BY <1>1, <1>2, <1>3, <1>7, PutMap
<1> HIDE DEF k, v
<1>9. MapOf(ht') = Abstract!With(k, v)
  BY <1>6, <1>8 DEF Abstract!With, Grown
<1>10. out' = Abstract!Ret("Insert", k, Abstract!Has(k), Abstract!Lookup(k))
  BY <1>1, <1>2, <1>3, <1>6, LookupIs
<1>11. Abstract!Insert(k, v)
  BY <1>1, <1>9, <1>10 DEF Abstract!Insert, Customer
<1>12. QED
  BY <1>3, <1>11

(* HashTable_Find returns the pair the map has for its key. *)
LEMMA FindRefines ==
    ASSUME IInv, ~wide', NEW k \in Keys, HashTable_Find(k)
    PROVE  Abstract!Find(k)
<1>1. /\ mode \in {"idle", "iter"} /\ Uses(k) /\ UNCHANGED <<ht, it, mode>>
      /\ out' = Ret("Find", k, Found(ht, k) # 0, FoundPair(ht, k))
  BY DEF HashTable_Find
<1>2. ~wide /\ IntKey(k) = k
  BY <1>1, UsesIs DEF IInv
<1>3. Sound(ht) /\ Distinct(ht)
  BY <1>1, <1>2, FitIs
<1>4. out' = Abstract!Ret("Find", k, Abstract!Has(k), Abstract!Lookup(k))
  BY <1>1, <1>2, <1>3, LookupIs
<1>5. QED
  BY <1>1, <1>4 DEF Abstract!Find, Customer, CurrentKey, KeysAhead

(* HashTable_Remove takes its key out and returns the pair. *)
LEMMA RemoveRefines ==
    ASSUME IInv, ~wide', NEW k \in Keys, HashTable_Remove(k)
    PROVE  Abstract!Remove(k)
<1>1. /\ mode = "idle" /\ mode' = mode /\ Uses(k)
      /\ ht' = IF Found(ht, k) = 0 THEN ht ELSE Delete(ht, k)
      /\ out' = Ret("Remove", k, Found(ht, k) # 0, FoundPair(ht, k))
  BY DEF HashTable_Remove
<1>2. ~wide /\ IntKey(k) = k
  BY <1>1, UsesIs DEF IInv
<1>3. Sound(ht) /\ Distinct(ht) /\ TableOK(ht)
  BY <1>1, <1>2, FitIs
<1>4. out' = Abstract!Ret("Remove", k, Abstract!Has(k), Abstract!Lookup(k))
  BY <1>1, <1>2, <1>3, LookupIs
<1>5. MapOf(ht') = [j \in DOMAIN MapOf(ht) \ {k} |-> MapOf(ht)[j]]
  <2>1. CASE Found(ht, k) # 0
    BY <1>1, <1>2, <1>3, <2>1, DeleteMap
  <2>2. CASE Found(ht, k) = 0
    <3>1. k \notin DOMAIN MapOf(ht)
      BY <1>2, <1>3, <2>2, FoundMap
    <3>2. MapOf(ht) = [j \in DOMAIN MapOf(ht) |-> MapOf(ht)[j]]
      BY <1>3, MapIs
    <3>3. DOMAIN MapOf(ht) \ {k} = DOMAIN MapOf(ht)
      BY <3>1
    <3>4. QED
      BY <1>1, <2>2, <3>2, <3>3
  <2>3. QED
    BY <2>1, <2>2
<1>6. QED
  BY <1>1, <1>4, <1>5 DEF Abstract!Remove, Abstract!Without, Customer

(* Where the iterator is, as the map sees it. *)
LEMMA CurrentIs ==
    ASSUME IInv, ~wide
    PROVE  /\ it.idx = INVALID_IDX => it = PastEnd /\ CurrentKey = NoKey /\ KeysAhead = {}
           /\ it.idx # INVALID_IDX =>
                 /\ it \in Slots(ht) /\ CurrentKey = At(ht, it).key
                 /\ CurrentKey \in Keys /\ CurrentKey # NoKey
                 /\ CurrentKey \in DOMAIN MapOf(ht)
                 /\ At(ht, it) = [key |-> CurrentKey, value |-> MapOf(ht)[CurrentKey]]
           /\ NoKey \notin DOMAIN MapOf(ht)
<1>1. TableOK(ht) /\ Distinct(ht) /\ it \in Slots(ht) \cup {PastEnd}
  BY FitIs
<1>2. /\ DOMAIN MapOf(ht) = KeysOf(ht)
      /\ \A kv \in Pairs(ht) : /\ kv.key \in KeysOf(ht) /\ kv.key \in Keys
                               /\ kv = [key |-> kv.key, value |-> MapOf(ht)[kv.key]]
  BY <1>1, MapIs
<1>3. NoKey \notin DOMAIN MapOf(ht)
  BY <1>2 DEF KeysOf
<1>4. ASSUME it.idx = INVALID_IDX
      PROVE  it = PastEnd /\ CurrentKey = NoKey /\ KeysAhead = {}
  <2>1. it = PastEnd /\ Ahead(ht, it) = {}
    BY <1>1, <1>4, RestIs
  <2>2. QED
    BY <1>4, <2>1 DEF CurrentKey, KeysAhead
<1>5. ASSUME it.idx # INVALID_IDX
      PROVE  /\ it \in Slots(ht) /\ CurrentKey = At(ht, it).key
             /\ CurrentKey \in Keys /\ CurrentKey # NoKey
             /\ CurrentKey \in DOMAIN MapOf(ht)
             /\ At(ht, it) = [key |-> CurrentKey, value |-> MapOf(ht)[CurrentKey]]
  <2>1. it \in Slots(ht)
    BY <1>1, <1>5, RestIs
  <2>2. At(ht, it) \in Pairs(ht)
    BY <1>1, <2>1, PairsAre
  <2>3. CurrentKey = At(ht, it).key
    BY <1>5 DEF CurrentKey
  <2>4. QED
    BY <1>2, <2>1, <2>2, <2>3
<1>6. QED
  BY <1>3, <1>4, <1>5

(* A move over a table that stays. *)
LEMMA MoveRefines ==
    ASSUME TableOK(ht), Distinct(ht), ht' = ht, mode' = "iter",
           NEW S, S \subseteq Slots(ht), Reaches(ht, S, it')
    PROVE  Abstract!MoveTo(KeysAt(ht, S)) /\ (it'.idx # INVALID_IDX <=> KeysAt(ht, S) # {})
<1> DEFINE K == KeysAt(ht, S)
<1>0. \/ S = {} /\ K = {} /\ it' = PastEnd
      \/ /\ it' \in S /\ At(ht, it').key \in K
         /\ KeysAt(ht, Ahead(ht, it')) = K \ {At(ht, it').key}
  BY MoveIs
<1> HIDE DEF K
<1> SUFFICES Abstract!MoveTo(K) /\ (it'.idx # INVALID_IDX <=> K # {})
  BY DEF K
<1>1. it'.idx = INVALID_IDX <=> S = {}
  BY ReachesIs
<1>2. /\ CurrentKey' = IF it'.idx = INVALID_IDX THEN NoKey ELSE At(ht, it').key
      /\ KeysAhead' = KeysAt(ht, Ahead(ht, it'))
      /\ Customer'
  BY DEF CurrentKey, KeysAhead, Customer, KeysAt
<1>3. CASE S = {} /\ K = {} /\ it' = PastEnd
  <2>1. it'.idx = INVALID_IDX /\ Ahead(ht, it') = {}
    BY <1>1, <1>3 DEF Ahead
  <2>2. CurrentKey' = NoKey /\ KeysAhead' = {}
    BY <1>2, <2>1 DEF KeysAt
  <2>3. QED
    BY <1>2, <1>3, <2>1, <2>2 DEF Abstract!MoveTo
<1>4. CASE /\ it' \in S /\ At(ht, it').key \in K
           /\ KeysAt(ht, Ahead(ht, it')) = K \ {At(ht, it').key}
  <2>1. it'.idx # INVALID_IDX /\ K # {}
    BY <1>1, <1>4
  <2>2. CurrentKey' \in K /\ KeysAhead' = K \ {CurrentKey'}
    BY <1>2, <1>4, <2>1
  <2>3. QED
    BY <1>2, <2>1, <2>2 DEF Abstract!MoveTo
<1>5. QED
  BY <1>0, <1>3, <1>4

(* HTIterator_Allocate starts a pass over all keys. *)
LEMMA IterAllocateRefines ==
    ASSUME IInv, ~wide, HTIterator_Allocate
    PROVE  Abstract!IterAllocate
<1>1. /\ mode = "idle" /\ mode' = "iter" /\ ht' = ht /\ out' = Void
      /\ it' = IF ht.num_elements = 0 THEN PastEnd ELSE EnterBucket(ht, 0)
  BY DEF HTIterator_Allocate
<1>2. TableOK(ht) /\ Distinct(ht) /\ WellPlaced(ht)
  BY FitIs
<1>3. Reaches(ht, Slots(ht), it')
  <2>1. CASE ht.num_elements = 0
    <3>1. Slots(ht) = {}
      BY <1>2, <2>1, FS_EmptySet, Zenon DEF WellPlaced
    <3>2. QED
      BY <1>1, <2>1, <3>1 DEF Reaches
  <2>2. CASE ht.num_elements # 0
    BY <1>1, <1>2, <2>2, StartIs
  <2>3. QED
    BY <2>1, <2>2
<1>4. DOMAIN MapOf(ht) = KeysAt(ht, Slots(ht))
  BY <1>2, MapIs
<1>5. Abstract!MoveTo(DOMAIN MapOf(ht))
  BY <1>1, <1>2, <1>3, <1>4, MoveRefines
<1>6. QED
  BY <1>1, <1>5 DEF Abstract!IterAllocate, Void

(* HTIterator_Next goes to a key that the pass has not met. *)
LEMMA IterNextRefines ==
    ASSUME IInv, ~wide, HTIterator_Next
    PROVE  Abstract!IterNext
<1>1. /\ mode = "iter" /\ mode' = mode /\ ht' = ht /\ it' = Advance(ht, it)
      /\ out' = Ret("Next", NoKey, it'.idx # INVALID_IDX, NoPair)
  BY DEF HTIterator_Next
<1>2. TableOK(ht) /\ Distinct(ht)
  BY FitIs
<1>3. Reaches(ht, Ahead(ht, it), it') /\ Ahead(ht, it) \subseteq Slots(ht)
  BY <1>1, IterNextIs DEF Ahead
<1>4. KeysAhead = KeysAt(ht, Ahead(ht, it))
  BY DEF KeysAhead, KeysAt
<1>5. Abstract!MoveTo(KeysAhead) /\ (it'.idx # INVALID_IDX <=> KeysAhead # {})
  BY <1>1, <1>2, <1>3, <1>4, MoveRefines
<1>6. out' = Abstract!Ret("Next", NoKey, KeysAhead # {}, Abstract!NoPair)
  BY <1>1, <1>5 DEF Ret, Abstract!Ret, NoPair
<1>7. Customer
  BY <1>1 DEF Customer
<1>8. QED
  BY <1>1, <1>5, <1>6, <1>7 DEF Abstract!IterNext

(* HTIterator_IsValid and HTIterator_Get look at the current key. *)
LEMMA IterLookRefines ==
    ASSUME IInv, ~wide
    PROVE  /\ HTIterator_Free => Abstract!IterFree
           /\ HTIterator_IsValid => Abstract!IterIsValid
           /\ HTIterator_Get => Abstract!IterGet
<1>0. (it.idx # INVALID_IDX <=> CurrentKey # NoKey)
  BY CurrentIs
<1>1. ASSUME HTIterator_Free
      PROVE  Abstract!IterFree
  BY <1>1 DEF HTIterator_Free, Abstract!IterFree, Customer, Void
<1>2. ASSUME HTIterator_IsValid
      PROVE  Abstract!IterIsValid
  <2>1. /\ mode = "iter" /\ UNCHANGED <<ht, it, mode>>
        /\ out' = Ret("IsValid", NoKey, it.idx # INVALID_IDX, NoPair)
    BY <1>2 DEF HTIterator_IsValid
  <2>2. out' = Abstract!Ret("IsValid", NoKey, CurrentKey # NoKey, Abstract!NoPair)
    BY <1>0, <2>1 DEF Ret, Abstract!Ret, NoPair
  <2>3. QED
    BY <2>1, <2>2 DEF Abstract!IterIsValid, Customer, CurrentKey, KeysAhead
<1>3. ASSUME HTIterator_Get
      PROVE  Abstract!IterGet
  <2>1. /\ mode = "iter" /\ UNCHANGED <<ht, it, mode>> /\ Customer
        /\ out' = Ret("Get", NoKey, it.idx # INVALID_IDX, At(ht, it))
    BY <1>3 DEF HTIterator_Get, Customer
  <2>2. out' = Abstract!Ret("Get", NoKey, CurrentKey # NoKey, Abstract!Lookup(CurrentKey))
    <3>1. CASE it.idx = INVALID_IDX
      BY <1>0, <2>1, <3>1 DEF Ret, Abstract!Ret
    <3>2. CASE it.idx # INVALID_IDX
      <4>1. Abstract!Lookup(CurrentKey) = At(ht, it)
        BY <3>2, CurrentIs DEF Abstract!Lookup, Abstract!Has, Abstract!Pair
      <4>2. QED
        BY <1>0, <2>1, <3>2, <4>1 DEF Ret, Abstract!Ret
    <3>3. QED
      BY <3>1, <3>2
  <2>3. /\ UNCHANGED <<CurrentKey, KeysAhead, Customer, MapOf(ht)>>
    BY <2>1 DEF Customer, CurrentKey, KeysAhead
  <2>4. QED
    BY <2>1, <2>2, <2>3 DEF Abstract!IterGet
<1>4. QED
  BY <1>1, <1>2, <1>3

(* HTIterator_Remove past the end returns false. *)
LEMMA IterRemovePastEndRefines ==
    ASSUME IInv, ~wide, IterRemovePastEnd
    PROVE  Abstract!IterRemove
<1>1. /\ mode = "iter" /\ it.idx = INVALID_IDX /\ UNCHANGED <<ht, it, mode>> /\ Customer
      /\ out' = Ret("IterRemove", NoKey, FALSE, NoPair)
  BY DEF IterRemovePastEnd, Customer
<1>2. CurrentKey = NoKey /\ KeysAhead = {} /\ NoKey \notin DOMAIN MapOf(ht)
  BY <1>1, CurrentIs
<1>3. UNCHANGED <<CurrentKey, KeysAhead, Customer, MapOf(ht)>>
  BY <1>1 DEF Customer, CurrentKey, KeysAhead
<1>4. MapOf(ht) = Abstract!Without(CurrentKey)
  <2>1. MapOf(ht) = [j \in DOMAIN MapOf(ht) |-> MapOf(ht)[j]]
    BY FitIs, MapIs
  <2>2. DOMAIN MapOf(ht) \ {CurrentKey} = DOMAIN MapOf(ht)
    BY <1>2
  <2>3. QED
    BY <2>1, <2>2 DEF Abstract!Without
<1>5. out' = Abstract!Ret("IterRemove", NoKey, CurrentKey # NoKey, Abstract!Lookup(CurrentKey))
  BY <1>1, <1>2 DEF Ret, Abstract!Ret
<1>6. Abstract!MoveTo(KeysAhead)
  BY <1>1, <1>2, <1>3 DEF Abstract!MoveTo
<1>7. QED
  BY <1>1, <1>3, <1>4, <1>5, <1>6 DEF Abstract!IterRemove

(* With distinct keys, the pair HTIterator_Remove looks up is the one the  *)
(* iterator is at.                                                         *)
LEMMA FoundHere ==
    ASSUME IInv, ~wide, mode = "iter", it.idx # INVALID_IDX,
           NEW k, k = At(ht, it).key
    PROVE  /\ k \in Keys /\ IntKey(k) = k /\ Found(ht, k) # 0
           /\ FoundPair(ht, k) = At(ht, it)
           /\ it = [idx |-> HashKeyToBucketNum(ht, k), pos |-> Found(ht, k)]
<1>1. Sound(ht) /\ Distinct(ht) /\ it \in Slots(ht) /\ k \in Keys
  BY FitIs, CurrentIs
<1>2. IntKey(k) = k
  BY <1>1 DEF Distinct
<1> DEFINE b == HashKeyToBucketNum(ht, k)
           i == Found(ht, k)
<1>3. i # 0
  BY <1>1, <1>2, FoundIs
<1>4. At(ht, [idx |-> b, pos |-> i]) = FoundPair(ht, k)
  BY <1>1, <1>3, FoundIs
<1>5. it = [idx |-> b, pos |-> i]
  BY <1>1, <1>2, <1>3, FoundUnique
<1>6. QED
  BY <1>1, <1>2, <1>3, <1>4, <1>5

(* The slots ahead of the iterator keep their keys and their order. *)
LEMMA AheadKept ==
    ASSUME IInv, ~wide, IterRemoveKey, NEW n, n = Advance(ht, it)
    PROVE  /\ n = PastEnd => it' = PastEnd
           /\ n \in Slots(ht) =>
                 /\ it' \in Slots(ht') /\ At(ht', it') = At(ht, n)
                 /\ KeysAt(ht', Ahead(ht', it')) = KeysAt(ht, Ahead(ht, n))
<1> DEFINE k == At(ht, it).key
           b == it.idx
           i == Found(ht, k)
<1>1. /\ Sound(ht) /\ it \in Slots(ht) /\ k \in Keys /\ b \in Buckets(ht)
      /\ b = HashKeyToBucketNum(ht, k) /\ i \in 1..it.pos
      /\ ht' = Delete(ht, k)
      /\ it' = IF n.idx = b THEN it ELSE n
      /\ n.idx = b => n = [idx |-> b, pos |-> it.pos + 1]
      /\ it' \in Slots(ht') \cup {PastEnd}
  BY IterRemoveIs
<1>2. it = [idx |-> b, pos |-> i] /\ it.pos = i
  BY <1>1, FoundHere DEF IterRemoveKey
<1>3. TableOK(ht) /\ i # 0 /\ i \in Nat /\ b \in Nat
  BY <1>1, <1>2, SlotIs, FoundHere DEF Sound, IterRemoveKey
<1>4. /\ TableOK(ht')
      /\ \A s \in Slots(ht') : /\ Origin(b, i, s) \in Slots(ht) \ {[idx |-> b, pos |-> i]}
                               /\ At(ht', s) = At(ht, Origin(b, i, s))
      /\ \A r \in Slots(ht) \ {[idx |-> b, pos |-> i]} :
            \E s \in Slots(ht') : r = Origin(b, i, s)
  BY <1>1, <1>3, DeleteMoves
<1> HIDE DEF k, b, i
<1>5. n = PastEnd => n.idx # b
  BY <1>3 DEF PastEnd, INVALID_IDX
<1>6. ASSUME n = PastEnd
      PROVE  it' = PastEnd
  BY <1>1, <1>5, <1>6
<1>7. ASSUME n \in Slots(ht)
      PROVE  /\ it' \in Slots(ht') /\ At(ht', it') = At(ht, n)
             /\ KeysAt(ht', Ahead(ht', it')) = KeysAt(ht, Ahead(ht, n))
  <2>1. n.idx \in Nat /\ n.pos \in Nat /\ n.idx # INVALID_IDX
    BY <1>3, <1>7, SlotIs DEF INVALID_IDX
  <2>2. it'.idx = n.idx /\ it'.idx \in Nat /\ it'.pos \in Nat /\ it'.idx # INVALID_IDX
    <3>1. CASE n.idx = b
      BY <1>1, <1>2, <1>3, <2>1, <3>1
    <3>2. CASE n.idx # b
      BY <1>1, <2>1, <3>2
    <3>3. QED
      BY <3>1, <3>2
  <2>3. it' \in Slots(ht')
    <3>1. PastEnd.idx = INVALID_IDX
      BY DEF PastEnd
    <3>2. QED
      BY <1>1, <2>2, <3>1
  <2>4. Origin(b, i, it') = n
    <3>1. CASE n.idx = b
      BY <1>1, <1>2, <1>3, <3>1 DEF Origin
    <3>2. CASE n.idx # b
      BY <1>1, <3>2 DEF Origin
    <3>3. QED
      BY <3>1, <3>2
  <2>5. At(ht', it') = At(ht, n)
    BY <1>4, <2>3, <2>4
  <2>6. ASSUME NEW s \in Slots(ht')
        PROVE  s \in Ahead(ht', it') <=> Origin(b, i, s) \in Ahead(ht, n)
    <3> DEFINE r == Origin(b, i, s)
    <3>1. s.idx \in Nat /\ s.pos \in Nat /\ s = [idx |-> s.idx, pos |-> s.pos] /\ r \in Slots(ht)
      BY <1>4, SlotIs
    <3>2. /\ r.idx = s.idx
          /\ r.pos = IF s.idx # b \/ s.pos < i THEN s.pos ELSE s.pos + 1
      BY <1>3, <3>1 DEF Origin
    <3> HIDE DEF r
    <3>3. /\ s \in Ahead(ht', it') <=> s.idx > n.idx \/ (s.idx = n.idx /\ s.pos > it'.pos)
          /\ r \in Ahead(ht, n) <=> r.idx > n.idx \/ (r.idx = n.idx /\ r.pos > n.pos)
      BY <2>1, <2>2, <3>1 DEF Ahead
    <3>4. ASSUME s.idx = n.idx
          PROVE  s.pos > it'.pos <=> r.pos > n.pos
      <4>1. CASE n.idx = b
        <5>1. it'.pos = i /\ n.pos = i + 1
          BY <1>1, <1>2, <4>1
        <5>2. QED
          BY <1>3, <3>1, <3>2, <3>4, <4>1, <5>1
      <4>2. CASE n.idx # b
        BY <1>1, <3>2, <3>4, <4>2
      <4>3. QED
        BY <4>1, <4>2
    <3>5. QED
      BY <3>2, <3>3, <3>4 DEF r
  <2>7. ASSUME NEW r \in Ahead(ht, n)
        PROVE  \E s \in Ahead(ht', it') : At(ht', s).key = At(ht, r).key
    <3>1. r \in Slots(ht) /\ r # it
      <4>1. r \in Slots(ht)
        BY DEF Ahead
      <4>2. Ahead(ht, n) = Ahead(ht, it) \ {n}
        BY <1>3, IterNextIs, ReachesIs
      <4>3. it \notin Ahead(ht, it)
        <5>1. it.idx # INVALID_IDX
          BY DEF IterRemoveKey
        <5>2. QED
          BY <1>1, <1>3, <5>1, RestIs
      <4>4. QED
        BY <4>1, <4>2, <4>3
    <3>2. PICK s \in Slots(ht') : r = Origin(b, i, s)
      BY <1>2, <1>4, <3>1
    <3>3. QED
      BY <1>4, <2>6, <3>2
  <2>8. ASSUME NEW s \in Ahead(ht', it')
        PROVE  \E r \in Ahead(ht, n) : At(ht', s).key = At(ht, r).key
    <3>1. s \in Slots(ht')
      BY DEF Ahead
    <3>2. QED
      BY <1>4, <2>6, <3>1
  <2>9. KeysAt(ht', Ahead(ht', it')) = KeysAt(ht, Ahead(ht, n))
    BY <2>7, <2>8 DEF KeysAt
  <2>10. QED
    BY <2>3, <2>5, <2>9
<1>8. QED
  BY <1>6, <1>7

(* HTIterator_Remove takes out the current key and goes to the next. *)
LEMMA IterRemoveKeyRefines ==
    ASSUME IInv, ~wide, IterRemoveKey
    PROVE  Abstract!IterRemove
<1> DEFINE k == At(ht, it).key
           n == Advance(ht, it)
           K == KeysAt(ht, Ahead(ht, it))
<1>1. /\ mode = "iter" /\ mode' = mode /\ it.idx # INVALID_IDX /\ Customer /\ Customer'
      /\ out' = Ret("IterRemove", NoKey, TRUE, At(ht, it)) /\ ht' = Delete(ht, k)
  BY DEF IterRemoveKey, Customer
<1>2. TableOK(ht) /\ Sound(ht) /\ Distinct(ht)
  BY <1>1, FitIs
<1>3. k \in Keys /\ IntKey(k) = k /\ Found(ht, k) # 0
  BY <1>1, FoundHere
<1>4. /\ CurrentKey = k /\ CurrentKey # NoKey
      /\ CurrentKey \in DOMAIN MapOf(ht)
      /\ At(ht, it) = [key |-> CurrentKey, value |-> MapOf(ht)[CurrentKey]]
  BY <1>1, CurrentIs
<1>5. KeysAhead = K
  BY DEF KeysAhead, KeysAt
<1>6. MapOf(ht') = [j \in DOMAIN MapOf(ht) \ {k} |-> MapOf(ht)[j]]
  BY <1>1, <1>2, <1>3, DeleteMap
<1>7. \/ K = {} /\ n = PastEnd
      \/ /\ n \in Slots(ht) /\ At(ht, n).key \in K
         /\ KeysAt(ht, Ahead(ht, n)) = K \ {At(ht, n).key}
  <2>1. Reaches(ht, Ahead(ht, it), n) /\ Ahead(ht, it) \subseteq Slots(ht)
    BY IterNextIs DEF Ahead
  <2>2. QED
    BY <1>2, <2>1, MoveIs
<1>8. /\ n = PastEnd => it' = PastEnd
      /\ n \in Slots(ht) =>
            /\ it' \in Slots(ht') /\ At(ht', it') = At(ht, n)
            /\ KeysAt(ht', Ahead(ht', it')) = KeysAt(ht, Ahead(ht, n))
  BY AheadKept
<1>9. /\ CurrentKey' = IF it'.idx = INVALID_IDX THEN NoKey ELSE At(ht', it').key
      /\ KeysAhead' = KeysAt(ht', Ahead(ht', it'))
  BY DEF CurrentKey, KeysAhead, KeysAt
<1>10. TableOK(ht')
  BY <1>1, <1>2, <1>3, DeleteSound DEF Sound
<1> HIDE DEF k, n, K
<1>11. Abstract!MoveTo(K)
  <2>1. CASE K = {} /\ n = PastEnd
    <3>1. it'.idx = INVALID_IDX
      BY <1>8, <2>1 DEF PastEnd
    <3>2. Ahead(ht', it') = {}
      BY <3>1 DEF Ahead
    <3>3. CurrentKey' = NoKey /\ KeysAhead' = {}
      BY <1>9, <3>1, <3>2 DEF KeysAt
    <3>4. QED
      BY <1>1, <2>1, <3>3 DEF Abstract!MoveTo
  <2>2. CASE /\ n \in Slots(ht) /\ At(ht, n).key \in K
             /\ KeysAt(ht, Ahead(ht, n)) = K \ {At(ht, n).key}
    <3>1. it' \in Slots(ht')
      BY <1>8, <2>2
    <3>2. it'.idx # INVALID_IDX
      BY <1>10, <3>1, SlotIs DEF INVALID_IDX
    <3>3. CurrentKey' \in K /\ KeysAhead' = K \ {CurrentKey'}
      BY <1>8, <1>9, <2>2, <3>2
    <3>4. QED
      BY <1>1, <3>3 DEF Abstract!MoveTo
  <2>3. QED
    BY <1>7, <2>1, <2>2
<1>12. out' = Abstract!Ret("IterRemove", NoKey, CurrentKey # NoKey, Abstract!Lookup(CurrentKey))
  <2>1. Abstract!Lookup(CurrentKey) = At(ht, it)
    BY <1>4 DEF Abstract!Lookup, Abstract!Has, Abstract!Pair
  <2>2. QED
    BY <1>1, <1>4, <2>1 DEF Ret, Abstract!Ret
<1>13. MapOf(ht') = Abstract!Without(CurrentKey)
  BY <1>4, <1>6 DEF Abstract!Without
<1>14. QED
  BY <1>1, <1>5, <1>11, <1>12, <1>13 DEF Abstract!IterRemove

(* One step of HashTable.c is one step of the map, or none. *)
LEMMA NextRefines ==
    ASSUME IInv, [Next]_vars, ~wide'
    PROVE  (Abstract!Calls /\ wide' = wide) \/ UNCHANGED Abstract!mapVars
<1> USE DEF Abstract!Calls
<1>0. TypeOK
  BY DEF IInv
<1>1. ASSUME NEW k, Uses(k)
      PROVE  ~wide /\ wide' = wide
  BY <1>0, <1>1, UsesIs DEF TypeOK
<1>2. CASE UNCHANGED vars
  BY <1>2 DEF vars, Abstract!mapVars, Customer, CurrentKey, KeysAhead
<1>3. ASSUME NEW n \in InitialBuckets, HashTable_Allocate(n)
      PROVE  Abstract!Calls /\ wide' = wide
  BY <1>3, AllocateRefines DEF HashTable_Allocate
<1>4. CASE HashTable_Free
  BY <1>4, FreeRefines DEF HashTable_Free
<1>5. CASE HashTable_NumElements
  BY <1>5, NumElementsRefines DEF HashTable_NumElements
<1>6. ASSUME NEW k \in Keys, NEW v \in Values, ht.num_elements < MaxElements,
             HashTable_Insert(k, v)
      PROVE  Abstract!Calls /\ wide' = wide
  BY <1>1, <1>6, InsertRefines DEF HashTable_Insert
<1>7. ASSUME NEW k \in Keys, NEW v \in Values, ht.num_elements < MaxElements, ResizeBegin(k, v)
      PROVE  Abstract!Calls /\ wide' = wide
  BY <1>1, <1>7 DEF ResizeBegin, Abstract!Grow, Customer
<1>8. ASSUME NEW k \in Keys, HashTable_Find(k)
      PROVE  Abstract!Calls /\ wide' = wide
  BY <1>1, <1>8, FindRefines DEF HashTable_Find
<1>9. ASSUME NEW k \in Keys, HashTable_Remove(k)
      PROVE  Abstract!Calls /\ wide' = wide
  BY <1>1, <1>9, RemoveRefines DEF HashTable_Remove
<1>10. CASE ResizeCopy
  BY <1>10 DEF ResizeCopy, Abstract!mapVars, Customer
<1>11. CASE ResizeEnd
  BY <1>11, ResizeEndRefines DEF ResizeEnd
<1>12. CASE HTIterator_Allocate
  BY <1>12, IterAllocateRefines DEF HTIterator_Allocate
<1>13. CASE HTIterator_Free
  BY <1>13, IterLookRefines DEF HTIterator_Free
<1>14. CASE HTIterator_IsValid
  BY <1>14, IterLookRefines DEF HTIterator_IsValid
<1>15. CASE HTIterator_Next
  BY <1>15, IterNextRefines DEF HTIterator_Next
<1>16. CASE HTIterator_Get
  BY <1>16, IterLookRefines DEF HTIterator_Get
<1>17. CASE IterRemovePastEnd
  BY <1>17, IterRemovePastEndRefines DEF IterRemovePastEnd
<1>18. CASE IterRemoveKey
  BY <1>18, IterRemoveKeyRefines DEF IterRemoveKey
<1>19. ASSUME IterRemoveExits
       PROVE  FALSE
  BY <1>19, FoundHere DEF IterRemoveExits
<1>20. QED
  BY <1>2, <1>3, <1>4, <1>5, <1>6, <1>7, <1>8, <1>9, <1>10, <1>11, <1>12, <1>13,
     <1>14, <1>15, <1>16, <1>17, <1>18, <1>19
     DEF Next, TableCalls, ResizeLoop, IteratorCalls, HTIterator_Remove

(* HashTable.c is the map HashTable.h promises, with any keys, values and  *)
(* table sizes, for as long as every key passed to it fits an int; its     *)
(* iterator visits each pair once, and the Verify333 of HTIterator_Remove  *)
(* never fails before that.                                                *)
THEOREM Refinement == Spec => ImplementsMap
<1>1. Init => Abstract!Init
  <2> SUFFICES ASSUME Init
               PROVE  Abstract!Init
    OBVIOUS
  <2>1. MapOf(ht) = [k \in {} |-> NoKey]
    BY EmptyIs, EmptyMap DEF Init, NoTable
  <2>2. QED
    BY <2>1 DEF Init, Abstract!Init, Customer, Void
<1>2. IInv /\ [Next]_vars => [Abstract!Next]_Abstract!mapVars
  <2> SUFFICES ASSUME IInv, [Next]_vars
               PROVE  Abstract!Next \/ UNCHANGED Abstract!mapVars
    OBVIOUS
  <2>1. CASE wide'
    BY <2>1 DEF Abstract!Next
  <2>2. CASE ~wide'
    BY <2>2, NextRefines DEF Abstract!Next
  <2>3. QED
    BY <2>1, <2>2
<1>3. QED
  BY <1>1, <1>2, Invariance, PTL DEF Spec, ImplementsMap, Abstract!Spec
=============================================================================
