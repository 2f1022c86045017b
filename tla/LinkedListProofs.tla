-------------------------- MODULE LinkedListProofs --------------------------
(***************************************************************************)
(* Proofs, for every set of nodes and payloads, that LinkedList.c keeps    *)
(* its chain of nodes intact and implements the list of IterableList.      *)
(*                                                                         *)
(* Pop, Slice, FreeSweep and the four cases of LLIterator_Remove all take  *)
(* one node out of the chain: UnlinkForward and UnlinkBackward say what    *)
(* that takes, LinkForward and LinkBackward the same of Push and Append.   *)
(***************************************************************************)
EXTENDS LinkedList, FiniteSetTheorems, SequenceTheorems, TLAPS

Shared == INSTANCE SharedLemmas

USE NodesAssumption, PayloadsAssumption

-----------------------------------------------------------------------------
(* Facts about sequences. *)

(* A sequence without its i-th element. *)
LEMMA RemoveAtProperties ==
    ASSUME NEW S, NEW s \in Seq(S), NEW i \in 1..Len(s)
    PROVE  /\ RemoveAt(s, i) \in Seq(S)
           /\ Len(RemoveAt(s, i)) = Len(s) - 1
           /\ \A k \in 1..(Len(s) - 1) :
                 RemoveAt(s, i)[k] = IF k < i THEN s[k] ELSE s[k + 1]
<1>1. RemoveAt(s, i) = Shared!RemoveAt(s, i)
  BY DEF RemoveAt, Shared!RemoveAt
<1>2. QED
  BY <1>1, Shared!RemoveAtProperties

(* Tail and Front are sequences without one element. *)
LEMMA EndsAreRemoveAt ==
    ASSUME NEW S, NEW s \in Seq(S), s # <<>>
    PROVE  /\ Len(s) \in Nat \ {0}
           /\ Tail(s) = RemoveAt(s, 1)
           /\ Front(s) = RemoveAt(s, Len(s))
<1>1. Len(s) \in Nat \ {0}
  OBVIOUS
<1>2. Tail(s) = RemoveAt(s, 1)
  <2>1. /\ Tail(s) \in Seq(S)
        /\ Len(Tail(s)) = Len(s) - 1
        /\ \A k \in 1..(Len(s) - 1) : Tail(s)[k] = s[k + 1]
    OBVIOUS
  <2>2. /\ RemoveAt(s, 1) \in Seq(S)
        /\ Len(RemoveAt(s, 1)) = Len(s) - 1
        /\ \A k \in 1..(Len(s) - 1) : RemoveAt(s, 1)[k] = s[k + 1]
    BY <1>1, RemoveAtProperties
  <2>3. QED
    BY <2>1, <2>2, SeqEqual
<1>3. Front(s) = RemoveAt(s, Len(s))
  <2>1. /\ Front(s) \in Seq(S)
        /\ Len(Front(s)) = Len(s) - 1
        /\ \A k \in 1..(Len(s) - 1) : Front(s)[k] = s[k]
    <3>1. Len(s) - 1 \in 0..Len(s)
      BY <1>1
    <3>2. ASSUME NEW n \in 0..Len(s)
          PROVE  /\ SubSeq(s, 1, n) \in Seq(S)
                 /\ Len(SubSeq(s, 1, n)) = n
                 /\ \A k \in 1..n : SubSeq(s, 1, n)[k] = s[k]
      OBVIOUS
    <3>3. QED
      BY <3>1, <3>2, Zenon DEF Front
  <2>2. /\ RemoveAt(s, Len(s)) \in Seq(S)
        /\ Len(RemoveAt(s, Len(s))) = Len(s) - 1
        /\ \A k \in 1..(Len(s) - 1) : RemoveAt(s, Len(s))[k] = s[k]
    BY <1>1, RemoveAtProperties
  <2>3. QED
    BY <2>1, <2>2, SeqEqual
<1>4. QED
  BY <1>1, <1>2, <1>3

(* e in front of s. *)
LEMMA PrependProperties ==
    ASSUME NEW S, NEW s \in Seq(S), NEW e \in S
    PROVE  /\ <<e>> \o s \in Seq(S)
           /\ Len(<<e>> \o s) = Len(s) + 1
           /\ (<<e>> \o s)[1] = e
           /\ \A k \in 1..Len(s) : (<<e>> \o s)[k + 1] = s[k]
<1>1. <<e>> \in Seq(S) /\ Len(<<e>>) = 1 /\ <<e>>[1] = e
  OBVIOUS
<1>2. /\ <<e>> \o s \in Seq(S)
      /\ Len(<<e>> \o s) = 1 + Len(s)
      /\ \A k \in 1..(1 + Len(s)) :
            (<<e>> \o s)[k] = IF k <= 1 THEN <<e>>[k] ELSE s[k - 1]
  BY <1>1, ConcatProperties
<1>3. ASSUME NEW k \in 1..Len(s)
      PROVE  (<<e>> \o s)[k + 1] = s[k]
  BY <1>2
<1>4. QED
  BY <1>1, <1>2, <1>3

(* A sequence without repetitions is no longer than its set is large. *)
LEMMA DistinctBound ==
    ASSUME NEW S, IsFiniteSet(S), NEW s \in Seq(S),
           \A j, k \in DOMAIN s : s[j] = s[k] => j = k
    PROVE  Len(s) \in 0..Cardinality(S)
<1>1. s \in Injection(1..Len(s), S)
  BY DEF Injection, IsInjective
<1>2. /\ Len(s) \in Nat
      /\ IsFiniteSet(1..Len(s))
      /\ Cardinality(1..Len(s)) = Len(s)
  <2>1. Len(s) \in Nat
    OBVIOUS
  <2> DEFINE l == Len(s)
  <2>2. l \in Nat
    BY <2>1
  <2> HIDE DEF l
  <2>3. 1 \in Int /\ l \in Int
    BY <2>2
  <2>4. IsFiniteSet(1..l) /\ Cardinality(1..l) = IF 1 > l THEN 0 ELSE l - 1 + 1
    BY <2>3, FS_Interval, Zenon
  <2>5. (IF 1 > l THEN 0 ELSE l - 1 + 1) = l
    BY <2>2
  <2>6. Cardinality(1..l) = l
    BY <2>4, <2>5
  <2>7. QED
    BY <2>1, <2>4, <2>6 DEF l
<1>3. Cardinality(1..Len(s)) <= Cardinality(S)
  BY <1>1, <1>2, FS_Injection, Zenon
<1>4. Cardinality(S) \in Nat
  BY FS_CardinalityType
<1>5. QED
  BY <1>2, <1>3, <1>4

-----------------------------------------------------------------------------
(* Taking a node out of the chain. *)

(* The step takes the i-th node out of the auxiliary order and frees it. *)
Unlinks(i) ==
    /\ order' = RemoveAt(order, i)
    /\ live' = live \ {order[i]}

(* Where the nodes that remain are found after it. *)
OneLess(i) ==
    /\ order' \in Seq(Nodes)
    /\ Len(order) \in Nat \ {0}
    /\ Len(order') = Len(order) - 1
    /\ DOMAIN order = 1..Len(order)
    /\ DOMAIN order' = 1..(Len(order) - 1)
    /\ \A k \in 1..(Len(order) - 1) :
          order'[k] = IF k < i THEN order[k] ELSE order[k + 1]

(* A step that unlinks the i-th node leaves the others, closed up. *)
LEMMA UnlinkOrder ==
    ASSUME order \in Seq(Nodes), NEW i \in 1..Len(order), Unlinks(i)
    PROVE  OneLess(i)
<1>1. /\ order' \in Seq(Nodes)
      /\ Len(order') = Len(order) - 1
      /\ \A k \in 1..(Len(order) - 1) :
            order'[k] = IF k < i THEN order[k] ELSE order[k + 1]
  BY RemoveAtProperties DEF Unlinks
<1>2. Len(order) \in Nat \ {0} /\ DOMAIN order = 1..Len(order)
  OBVIOUS
<1>3. DOMAIN order' = 1..(Len(order) - 1)
  BY <1>1
<1>4. QED
  BY <1>1, <1>2, <1>3 DEF OneLess

(* next pointers: the predecessor, or head, takes over the successor. *)
LEMMA UnlinkForward ==
    ASSUME order \in Seq(Nodes), Forward,
           NEW i \in 1..Len(order), Unlinks(i),
           head' = IF head = order[i] THEN next[order[i]] ELSE head,
           \A m \in live \ {order[i]} :
              /\ payload'[m] = payload[m]
              /\ next'[m] = IF next[m] = order[i] THEN next[order[i]] ELSE next[m]
    PROVE  Forward'
<1> OneLess(i)
  BY UnlinkOrder
<1> USE DEF OneLess
<1>1. live' = ToSet(order')
  <2>1. ASSUME NEW n \in live'
        PROVE  n \in ToSet(order')
    <3>1. PICK j \in 1..Len(order) : n = order[j] /\ j # i
      BY DEF Forward, Unlinks, ToSet
    <3>2. CASE j < i
      <4>1. j \in 1..(Len(order) - 1) /\ order'[j] = n
        BY <3>1, <3>2
      <4>2. QED
        BY <4>1 DEF ToSet
    <3>3. CASE ~(j < i)
      <4>1. j - 1 \in 1..(Len(order) - 1) /\ order'[j - 1] = n
        BY <3>1, <3>3
      <4>2. QED
        BY <4>1 DEF ToSet
    <3>4. QED
      BY <3>2, <3>3
  <2>2. ASSUME NEW n \in ToSet(order')
        PROVE  n \in live'
    <3>1. PICK k \in 1..(Len(order) - 1) : n = order'[k]
      BY DEF ToSet
    <3>2. PICK j \in 1..Len(order) : n = order[j] /\ j # i
      BY <3>1
    <3>3. n \in live
      BY <3>2 DEF Forward, ToSet
    <3>4. n # order[i]
      BY <3>2 DEF Forward
    <3>5. QED
      BY <3>3, <3>4 DEF Unlinks
  <2>3. QED
    BY <2>1, <2>2
<1>2. ASSUME NEW j \in DOMAIN order', NEW k \in DOMAIN order',
             order'[j] = order'[k]
      PROVE  j = k
  <2> DEFINE up(m) == IF m < i THEN m ELSE m + 1
  <2>1. /\ up(j) \in DOMAIN order /\ up(k) \in DOMAIN order
        /\ order'[j] = order[up(j)] /\ order'[k] = order[up(k)]
    OBVIOUS
  <2>2. up(j) = up(k)
    <3> HIDE DEF up
    <3>1. QED
      BY <1>2, <2>1 DEF Forward
  <2>3. j \in Int /\ k \in Int /\ i \in Int
    OBVIOUS
  <2>4. QED
    BY <2>2, <2>3
<1>3. head' = IF order' = <<>> THEN NULL ELSE order'[1]
  <2>1. order' = <<>> <=> Len(order) = 1
    <3>1. order' = <<>> <=> Len(order') = 0
      OBVIOUS
    <3>2. QED
      BY <3>1
  <2>2. head = order[1]
    BY DEF Forward
  <2>3. head = order[i] <=> i = 1
    BY <2>2 DEF Forward
  <2>4. CASE i = 1
    BY <2>1, <2>3, <2>4 DEF Forward
  <2>5. CASE i # 1
    BY <2>1, <2>2, <2>3, <2>5
  <2>6. QED
    BY <2>4, <2>5
<1>4. ASSUME NEW k \in DOMAIN order'
      PROVE  /\ payload'[order'[k]] \in Payloads
             /\ next'[order'[k]] = IF k = Len(order') THEN NULL ELSE order'[k + 1]
  <2> DEFINE j == IF k < i THEN k ELSE k + 1
  <2>1. j \in 1..Len(order) /\ j # i /\ order'[k] = order[j]
    OBVIOUS
  <2>2. order[j] \in live \ {order[i]}
    BY <2>1 DEF Forward, ToSet
  <2>3. payload'[order'[k]] \in Payloads
    BY <2>1, <2>2 DEF Forward
  <2>4. next[order[j]] = IF j = Len(order) THEN NULL ELSE order[j + 1]
    BY <2>1 DEF Forward
  <2>5. next[order[j]] = order[i] <=> j + 1 = i
    <3>1. order[i] # NULL
      OBVIOUS
    <3>2. CASE j = Len(order)
      BY <2>1, <2>4, <3>1, <3>2
    <3>3. CASE j # Len(order)
      <4>1. j + 1 \in 1..Len(order)
        BY <2>1, <3>3
      <4>2. QED
        BY <2>4, <3>3, <4>1 DEF Forward
    <3>4. QED
      BY <3>2, <3>3
  <2>6. next'[order[j]] = IF j + 1 = i THEN next[order[i]] ELSE next[order[j]]
    BY <2>2, <2>5
  <2>7. next[order[i]] = IF i = Len(order) THEN NULL ELSE order[i + 1]
    BY DEF Forward
  <2>8. CASE j + 1 = i
    <3>1. k = i - 1 /\ k = j
      BY <2>1, <2>8
    <3>2. QED
      BY <2>1, <2>3, <2>6, <2>7, <3>1
  <2>9. CASE j + 1 # i
    <3>1. CASE k < i
      BY <2>1, <2>3, <2>4, <2>6, <2>9, <3>1
    <3>2. CASE ~(k < i)
      BY <2>1, <2>3, <2>4, <2>6, <2>9, <3>2
    <3>3. QED
      BY <3>1, <3>2
  <2>10. QED
    BY <2>8, <2>9
<1>5. QED
  BY <1>1, <1>2, <1>3, <1>4 DEF Forward

(* prev pointers: the successor, or tail, takes over the predecessor. *)
LEMMA UnlinkBackward ==
    ASSUME order \in Seq(Nodes), Forward, Backward,
           NEW i \in 1..Len(order), Unlinks(i),
           num_elements' = num_elements - 1,
           tail' = IF tail = order[i] THEN prev[order[i]] ELSE tail,
           \A m \in live \ {order[i]} :
              prev'[m] = IF prev[m] = order[i] THEN prev[order[i]] ELSE prev[m]
    PROVE  Backward'
<1> OneLess(i)
  BY UnlinkOrder
<1> USE DEF OneLess
<1>1. num_elements' = Len(order')
  BY DEF Backward
<1>2. tail' = IF order' = <<>> THEN NULL ELSE order'[Len(order')]
  <2>1. order' = <<>> <=> Len(order) = 1
    <3>1. order' = <<>> <=> Len(order') = 0
      OBVIOUS
    <3>2. QED
      BY <3>1
  <2>2. tail = order[Len(order)]
    BY DEF Backward
  <2>3. tail = order[i] <=> i = Len(order)
    BY <2>2 DEF Forward
  <2>4. CASE i = Len(order)
    <3>1. tail' = IF i = 1 THEN NULL ELSE order[i - 1]
      BY <2>3, <2>4 DEF Backward
    <3>2. QED
      BY <2>1, <2>4, <3>1
  <2>5. CASE i # Len(order)
    BY <2>1, <2>2, <2>3, <2>5
  <2>6. QED
    BY <2>4, <2>5
<1>3. ASSUME NEW k \in DOMAIN order'
      PROVE  prev'[order'[k]] = IF k = 1 THEN NULL ELSE order'[k - 1]
  <2> DEFINE j == IF k < i THEN k ELSE k + 1
  <2>1. j \in 1..Len(order) /\ j # i /\ order'[k] = order[j]
    OBVIOUS
  <2>2. order[j] \in live \ {order[i]}
    BY <2>1 DEF Forward, ToSet
  <2>4. prev[order[j]] = IF j = 1 THEN NULL ELSE order[j - 1]
    BY <2>1 DEF Backward
  <2>5. prev[order[j]] = order[i] <=> j - 1 = i
    <3>1. order[i] # NULL
      OBVIOUS
    <3>2. CASE j = 1
      BY <2>1, <2>4, <3>1, <3>2
    <3>3. CASE j # 1
      <4>1. j - 1 \in 1..Len(order)
        BY <2>1, <3>3
      <4>2. QED
        BY <2>4, <3>3, <4>1 DEF Forward
    <3>4. QED
      BY <3>2, <3>3
  <2>6. prev'[order[j]] = IF j - 1 = i THEN prev[order[i]] ELSE prev[order[j]]
    BY <2>2, <2>5
  <2>7. prev[order[i]] = IF i = 1 THEN NULL ELSE order[i - 1]
    BY DEF Backward
  <2>8. CASE j - 1 = i
    <3>1. k = i
      BY <2>1, <2>8
    <3>2. QED
      BY <2>1, <2>6, <2>7, <2>8, <3>1
  <2>9. CASE j - 1 # i
    <3>1. CASE k < i
      BY <2>1, <2>4, <2>6, <2>9, <3>1
    <3>2. CASE ~(k < i)
      BY <2>1, <2>4, <2>6, <2>9, <3>2
    <3>3. QED
      BY <3>1, <3>2
  <2>10. QED
    BY <2>8, <2>9
<1>4. QED
  BY <1>1, <1>2, <1>3 DEF Backward

-----------------------------------------------------------------------------
(* Putting a node into the chain. *)

(* LinkedList_Push links the new node in front of the old head. *)
LEMMA PushChain ==
    ASSUME TypeOK, Forward, Backward, NEW n \in Nodes, NEW p \in Payloads,
           LinkedList_Push(n, p)
    PROVE  order' \in Seq(Nodes) /\ Forward' /\ Backward'
<1> DEFINE l == Len(order)
<1>1. /\ order \in Seq(Nodes) /\ l \in Nat
      /\ DOMAIN order = 1..l
      /\ n \notin live
  BY DEF TypeOK, LinkedList_Push, NewNode
<1>2. /\ order' \in Seq(Nodes)
      /\ Len(order') = l + 1
      /\ DOMAIN order' = 1..(l + 1)
      /\ order'[1] = n
      /\ \A k \in 1..l : order'[k + 1] = order[k]
  <2>1. /\ order' \in Seq(Nodes)
        /\ Len(order') = l + 1
        /\ order'[1] = n
        /\ \A k \in 1..l : order'[k + 1] = order[k]
    BY <1>1, PrependProperties DEF LinkedList_Push
  <2>2. QED
    BY <2>1
<1>3. ASSUME NEW k \in 2..(l + 1)
      PROVE  k - 1 \in 1..l /\ order'[k] = order[k - 1]
  <2>1. k - 1 \in 1..l /\ k = (k - 1) + 1
    BY <1>1
  <2>2. QED
    BY <1>2, <2>1
<1>4. \A k \in 1..l : order[k] \in live /\ order[k] # n
  BY <1>1 DEF Forward, ToSet
<1>5. /\ next' = [m \in Nodes |-> IF m = n THEN head
                                  ELSE IF m = NULL THEN n ELSE next[m]]
      /\ prev' = [m \in Nodes |-> IF m = n THEN NULL
                                  ELSE IF m = head THEN n ELSE prev[m]]
      /\ payload' = [payload EXCEPT ![n] = p]
      /\ live' = live \cup {n}
      /\ head' = n
      /\ tail' = IF num_elements = 0 THEN n ELSE tail
      /\ num_elements' = num_elements + 1
  BY DEF LinkedList_Push, NewNode
<1>6. order = <<>> <=> l = 0
  BY <1>1
<1> HIDE DEF l
<1>7. Forward'
  <2>1. live' = ToSet(order')
    <3>1. ASSUME NEW m \in live'
          PROVE  m \in ToSet(order')
      <4>1. CASE m = n
        BY <1>1, <1>2, <4>1 DEF ToSet
      <4>2. CASE m # n
        <5>1. PICK k \in 1..l : m = order[k]
          BY <1>1, <1>5, <4>2 DEF Forward, ToSet
        <5>2. k + 1 \in 1..(l + 1) /\ order'[k + 1] = m
          BY <1>1, <1>2, <5>1
        <5>3. QED
          BY <1>2, <5>2 DEF ToSet
      <4>3. QED
        BY <4>1, <4>2
    <3>2. ASSUME NEW m \in ToSet(order')
          PROVE  m \in live'
      <4>1. PICK k \in 1..(l + 1) : m = order'[k]
        BY <1>2 DEF ToSet
      <4>2. CASE k = 1
        BY <1>2, <1>5, <4>1, <4>2
      <4>3. CASE k # 1
        <5>1. k \in 2..(l + 1)
          BY <1>1, <4>3
        <5>2. QED
          BY <1>3, <1>4, <1>5, <4>1, <5>1
      <4>4. QED
        BY <4>2, <4>3
    <3>3. QED
      BY <3>1, <3>2
  <2>2. ASSUME NEW j \in DOMAIN order', NEW k \in DOMAIN order',
               order'[j] = order'[k]
        PROVE  j = k
    <3>1. CASE j = 1 \/ k = 1
      <4>1. \A m \in 2..(l + 1) : order'[m] # n
        BY <1>3, <1>4
      <4>2. QED
        BY <1>1, <1>2, <2>2, <3>1, <4>1
    <3>2. CASE j # 1 /\ k # 1
      <4>1. j \in 2..(l + 1) /\ k \in 2..(l + 1)
        BY <1>1, <1>2, <3>2
      <4>2. order[j - 1] = order[k - 1] /\ j - 1 \in DOMAIN order /\ k - 1 \in DOMAIN order
        BY <1>1, <1>3, <2>2, <4>1
      <4>3. j - 1 = k - 1
        BY <4>2 DEF Forward
      <4>4. QED
        BY <4>1, <4>3
    <3>3. QED
      BY <3>1, <3>2
  <2>3. order' # <<>> /\ head' = order'[1]
    BY <1>1, <1>2, <1>5
  <2>4. ASSUME NEW k \in DOMAIN order'
        PROVE  /\ payload'[order'[k]] \in Payloads
               /\ next'[order'[k]] = IF k = Len(order') THEN NULL ELSE order'[k + 1]
    <3>1. CASE k = 1
      <4>1. payload'[order'[k]] \in Payloads
        BY <1>2, <1>5, <3>1 DEF TypeOK
      <4>2. next'[order'[k]] = head
        BY <1>2, <1>5, <3>1
      <4>3. head = IF l = 0 THEN NULL ELSE order[1]
        BY <1>6 DEF Forward
      <4>4. CASE l = 0
        BY <1>2, <3>1, <4>1, <4>2, <4>3, <4>4
      <4>5. CASE l # 0
        <5>1. 1 \in 1..l
          BY <1>1, <4>5
        <5>2. order'[k + 1] = order[1] /\ k # Len(order')
          BY <1>1, <1>2, <3>1, <4>5, <5>1
        <5>3. QED
          BY <4>1, <4>2, <4>3, <4>5, <5>2
      <4>6. QED
        BY <4>4, <4>5
    <3>2. CASE k # 1
      <4>1. k \in 2..(l + 1)
        BY <1>1, <1>2, <3>2
      <4>2. order'[k] = order[k - 1] /\ k - 1 \in 1..l
        BY <1>3, <4>1
      <4>3. order[k - 1] \in Nodes /\ order[k - 1] # n /\ order[k - 1] # NULL
        BY <1>1, <1>4, <4>2
      <4>4. payload'[order'[k]] = payload[order[k - 1]] /\ next'[order'[k]] = next[order[k - 1]]
        BY <1>5, <4>2, <4>3 DEF TypeOK
      <4>5. /\ payload[order[k - 1]] \in Payloads
            /\ next[order[k - 1]] = IF k - 1 = l THEN NULL ELSE order[k]
        BY <1>1, <4>1, <4>2 DEF Forward, l
      <4>6. k - 1 # l => order'[k + 1] = order[k]
        BY <1>1, <1>2, <4>1
      <4>7. QED
        BY <1>1, <1>2, <4>1, <4>4, <4>5, <4>6
    <3>3. QED
      BY <3>1, <3>2
  <2>5. QED
    BY <2>1, <2>2, <2>3, <2>4 DEF Forward
<1>8. Backward'
  <2>1. num_elements' = Len(order')
    BY <1>2, <1>5 DEF Backward, l
  <2>2. order' # <<>> /\ tail' = order'[Len(order')]
    <3>1. num_elements = l /\ tail = IF l = 0 THEN NULL ELSE order[l]
      BY <1>6 DEF Backward, l
    <3>2. CASE l = 0
      BY <1>2, <1>5, <3>1, <3>2
    <3>3. CASE l # 0
      <4>1. l \in 1..l
        BY <1>1, <3>3
      <4>2. order'[l + 1] = order[l]
        BY <1>2, <4>1
      <4>3. QED
        BY <1>1, <1>2, <1>5, <3>1, <3>3, <4>2
    <3>4. QED
      BY <3>2, <3>3
  <2>3. ASSUME NEW k \in DOMAIN order'
        PROVE  prev'[order'[k]] = IF k = 1 THEN NULL ELSE order'[k - 1]
    <3>1. CASE k = 1
      BY <1>2, <1>5, <3>1
    <3>2. CASE k # 1
      <4>1. k \in 2..(l + 1)
        BY <1>1, <1>2, <3>2
      <4>2. order'[k] = order[k - 1] /\ k - 1 \in 1..l
        BY <1>3, <4>1
      <4>3. order[k - 1] \in Nodes /\ order[k - 1] # n
        BY <1>1, <1>4, <4>2
      <4>4. prev'[order'[k]] = IF order[k - 1] = head THEN n ELSE prev[order[k - 1]]
        BY <1>5, <4>2, <4>3
      <4>5. order[k - 1] = head <=> k = 2
        <5>1. head = order[1] /\ 1 \in DOMAIN order /\ k - 1 \in DOMAIN order
          BY <1>1, <1>6, <4>2 DEF Forward
        <5>2. order[k - 1] = order[1] <=> k - 1 = 1
          BY <5>1 DEF Forward
        <5>3. QED
          BY <4>1, <5>1, <5>2
      <4>6. prev[order[k - 1]] = IF k = 2 THEN NULL ELSE order[k - 2]
        BY <1>1, <4>1, <4>2 DEF Backward
      <4>7. k # 2 => k - 1 \in 2..(l + 1) /\ order'[k - 1] = order[k - 2]
        <5>1. k # 2 => k - 1 \in 2..(l + 1) /\ (k - 1) - 1 = k - 2
          BY <1>1, <4>1
        <5>2. QED
          BY <1>3, <5>1
      <4>8. QED
        BY <1>2, <3>2, <4>1, <4>4, <4>5, <4>6, <4>7
    <3>3. QED
      BY <3>1, <3>2
  <2>4. QED
    BY <2>1, <2>2, <2>3 DEF Backward
<1>9. QED
  BY <1>2, <1>7, <1>8

(* LinkedList_Append links it behind the old tail. *)
LEMMA AppendChain ==
    ASSUME TypeOK, Forward, Backward, NEW n \in Nodes, NEW p \in Payloads,
           LinkedList_Append(n, p)
    PROVE  order' \in Seq(Nodes) /\ Forward' /\ Backward'
<1> DEFINE l == Len(order)
<1>1. /\ order \in Seq(Nodes) /\ l \in Nat
      /\ DOMAIN order = 1..l
      /\ n \notin live
  BY DEF TypeOK, LinkedList_Append, NewNode
<1>2. /\ order' \in Seq(Nodes)
      /\ Len(order') = l + 1
      /\ DOMAIN order' = 1..(l + 1)
      /\ order'[l + 1] = n
      /\ \A k \in 1..l : order'[k] = order[k]
  BY <1>1 DEF LinkedList_Append
<1>3. \A k \in 1..l : order[k] \in live /\ order[k] # n /\ order[k] \in Nodes
  BY <1>1 DEF Forward, ToSet
<1>4. /\ next' = [m \in Nodes |-> IF m = n THEN NULL
                                  ELSE IF m = tail THEN n ELSE next[m]]
      /\ prev' = [m \in Nodes |-> IF m = n THEN tail
                                  ELSE IF m = NULL THEN n ELSE prev[m]]
      /\ payload' = [payload EXCEPT ![n] = p]
      /\ live' = live \cup {n}
      /\ head' = IF num_elements = 0 THEN n ELSE head
      /\ tail' = n
      /\ num_elements' = num_elements + 1
  BY DEF LinkedList_Append, NewNode
<1>5. /\ num_elements = l
      /\ head = IF l = 0 THEN NULL ELSE order[1]
      /\ tail = IF l = 0 THEN NULL ELSE order[l]
  <2>1. order = <<>> <=> l = 0
    BY <1>1
  <2>2. QED
    BY <2>1 DEF Forward, Backward
<1>6. \A k \in DOMAIN order :
         /\ payload[order[k]] \in Payloads
         /\ next[order[k]] = IF k = l THEN NULL ELSE order[k + 1]
         /\ prev[order[k]] = IF k = 1 THEN NULL ELSE order[k - 1]
  BY DEF Forward, Backward
<1>7. order' # <<>>
  BY <1>1, <1>2
<1> HIDE DEF l
<1>8. Forward'
  <2>1. live' = ToSet(order')
    <3>1. ASSUME NEW m \in live'
          PROVE  m \in ToSet(order')
      <4>1. CASE m = n
        <5>1. l + 1 \in DOMAIN order'
          BY <1>1, <1>2
        <5>2. QED
          BY <1>2, <4>1, <5>1 DEF ToSet
      <4>2. CASE m # n
        <5>1. PICK k \in 1..l : m = order[k]
          BY <1>1, <1>4, <4>2 DEF Forward, ToSet
        <5>2. k \in DOMAIN order' /\ order'[k] = m
          BY <1>1, <1>2, <5>1
        <5>3. QED
          BY <5>2 DEF ToSet
      <4>3. QED
        BY <4>1, <4>2
    <3>2. ASSUME NEW m \in ToSet(order')
          PROVE  m \in live'
      <4>1. PICK k \in 1..(l + 1) : m = order'[k]
        BY <1>2 DEF ToSet
      <4>2. k = l + 1 \/ k \in 1..l
        BY <1>1
      <4>3. QED
        BY <1>2, <1>3, <1>4, <4>1, <4>2
    <3>3. QED
      BY <3>1, <3>2
  <2>2. ASSUME NEW j \in DOMAIN order', NEW k \in DOMAIN order',
               order'[j] = order'[k]
        PROVE  j = k
    <3>1. (j = l + 1 \/ j \in 1..l) /\ (k = l + 1 \/ k \in 1..l)
      BY <1>1, <1>2
    <3>2. QED
      BY <1>1, <1>2, <1>3, <2>2, <3>1 DEF Forward
  <2>3. head' = order'[1]
    <3>1. CASE l = 0
      BY <1>2, <1>4, <1>5, <3>1
    <3>2. CASE l # 0
      <4>1. 1 \in 1..l
        BY <1>1, <3>2
      <4>2. QED
        BY <1>2, <1>4, <1>5, <3>2, <4>1
    <3>3. QED
      BY <3>1, <3>2
  <2>4. ASSUME NEW k \in DOMAIN order'
        PROVE  /\ payload'[order'[k]] \in Payloads
               /\ next'[order'[k]] = IF k = Len(order') THEN NULL ELSE order'[k + 1]
    <3>1. CASE k = l + 1
      BY <1>2, <1>4, <3>1 DEF TypeOK
    <3>2. CASE k # l + 1
      <4>1. k \in 1..l
        BY <1>1, <1>2, <3>2
      <4>2. order'[k] = order[k] /\ order[k] \in Nodes /\ order[k] # n
        BY <1>2, <1>3, <4>1
      <4>3. payload'[order'[k]] \in Payloads
        BY <1>1, <1>4, <1>6, <4>1, <4>2 DEF TypeOK
      <4>4. next'[order'[k]] = IF order[k] = tail THEN n ELSE next[order[k]]
        BY <1>4, <4>2
      <4>5. order[k] = tail <=> k = l
        <5>1. tail = order[l] /\ l \in DOMAIN order /\ k \in DOMAIN order
          BY <1>1, <1>5, <4>1
        <5>2. QED
          BY <5>1 DEF Forward
      <4>6. CASE k = l
        BY <1>2, <3>2, <4>3, <4>4, <4>5, <4>6
      <4>7. CASE k # l
        <5>1. k + 1 \in 1..l
          BY <1>1, <4>1, <4>7
        <5>2. order'[k + 1] = order[k + 1]
          BY <1>2, <5>1
        <5>3. QED
          BY <1>1, <1>2, <1>6, <3>2, <4>1, <4>3, <4>4, <4>5, <4>7, <5>2
      <4>8. QED
        BY <4>6, <4>7
    <3>3. QED
      BY <3>1, <3>2
  <2>5. QED
    BY <1>7, <2>1, <2>2, <2>3, <2>4 DEF Forward
<1>9. Backward'
  <2>1. num_elements' = Len(order') /\ tail' = order'[Len(order')]
    BY <1>2, <1>4, <1>5
  <2>2. ASSUME NEW k \in DOMAIN order'
        PROVE  prev'[order'[k]] = IF k = 1 THEN NULL ELSE order'[k - 1]
    <3>1. CASE k = l + 1
      <4>1. prev'[order'[k]] = tail
        BY <1>2, <1>4, <3>1
      <4>2. CASE l = 0
        BY <1>5, <3>1, <4>1, <4>2
      <4>3. CASE l # 0
        <5>1. l \in 1..l /\ k - 1 = l /\ k # 1
          BY <1>1, <3>1, <4>3
        <5>2. QED
          BY <1>2, <1>5, <4>1, <4>3, <5>1
      <4>4. QED
        BY <4>2, <4>3
    <3>2. CASE k # l + 1
      <4>1. k \in 1..l
        BY <1>1, <1>2, <3>2
      <4>2. order'[k] = order[k] /\ order[k] \in Nodes /\ order[k] # n /\ order[k] # NULL
        BY <1>2, <1>3, <4>1
      <4>3. prev'[order'[k]] = IF k = 1 THEN NULL ELSE order[k - 1]
        BY <1>1, <1>4, <1>6, <4>1, <4>2
      <4>4. k # 1 => k - 1 \in 1..l
        BY <1>1, <4>1
      <4>5. QED
        BY <1>2, <4>3, <4>4
    <3>3. QED
      BY <3>1, <3>2
  <2>3. QED
    BY <1>7, <2>1, <2>2 DEF Backward
<1>10. QED
  BY <1>2, <1>8, <1>9

-----------------------------------------------------------------------------
(* Taking a node out, as the calls do it: by its own next and prev. *)

(* What the next and prev of the i-th node say about the others. *)
LEMMA Neighbours ==
    ASSUME order \in Seq(Nodes), Forward, Backward, NEW i \in 1..Len(order),
           NEW x, x = order[i]
    PROVE  /\ x \in live /\ x \in Nodes
           /\ next[x] \in (live \ {x}) \cup {NULL}
           /\ prev[x] \in (live \ {x}) \cup {NULL}
           /\ head = x <=> prev[x] = NULL
           /\ tail = x <=> next[x] = NULL
           /\ head # NULL /\ tail # NULL
           /\ num_elements = 1 => next[x] = NULL /\ prev[x] = NULL
           /\ num_elements # 1 => next[x] # NULL \/ prev[x] # NULL
           /\ \A m \in live : next[m] = x <=> m = prev[x]
           /\ \A m \in live : prev[m] = x <=> m = next[x]
<1> DEFINE l == Len(order)
<1>1. /\ l \in Nat \ {0} /\ DOMAIN order = 1..l /\ order # <<>>
      /\ \A k \in 1..l : order[k] \in Nodes /\ order[k] \in live
  BY DEF Forward, ToSet
<1>2. /\ head = order[1] /\ tail = order[l] /\ num_elements = l
      /\ next[x] = IF i = l THEN NULL ELSE order[i + 1]
      /\ prev[x] = IF i = 1 THEN NULL ELSE order[i - 1]
      /\ \A k \in 1..l : /\ next[order[k]] = IF k = l THEN NULL ELSE order[k + 1]
                         /\ prev[order[k]] = IF k = 1 THEN NULL ELSE order[k - 1]
  BY <1>1 DEF Forward, Backward
<1>3. \A j, k \in 1..l : order[j] = order[k] => j = k
  BY <1>1 DEF Forward
<1>4. \A m \in live : \E k \in 1..l : m = order[k]
  BY <1>1 DEF Forward, ToSet
<1>5. i \in 1..l
  OBVIOUS
<1> HIDE DEF l
<1>6. next[x] \in (live \ {x}) \cup {NULL}
  <2>1. CASE i = l
    BY <1>2, <2>1
  <2>2. CASE i # l
    <3>1. i + 1 \in 1..l /\ i + 1 # i
      BY <1>1, <1>5, <2>2
    <3>2. QED
      BY <1>1, <1>2, <1>3, <1>5, <2>2, <3>1
  <2>3. QED
    BY <2>1, <2>2
<1>7. prev[x] \in (live \ {x}) \cup {NULL}
  <2>1. CASE i = 1
    BY <1>2, <2>1
  <2>2. CASE i # 1
    <3>1. i - 1 \in 1..l /\ i - 1 # i
      BY <1>1, <1>5, <2>2
    <3>2. QED
      BY <1>1, <1>2, <1>3, <1>5, <2>2, <3>1
  <2>3. QED
    BY <2>1, <2>2
<1>8. /\ next[x] = NULL <=> i = l
      /\ prev[x] = NULL <=> i = 1
  <2>1. i # l => i + 1 \in 1..l
    BY <1>1, <1>5
  <2>2. i # 1 => i - 1 \in 1..l
    BY <1>1, <1>5
  <2>3. QED
    BY <1>1, <1>2, <2>1, <2>2
<1>9. (head = x <=> i = 1) /\ (tail = x <=> i = l)
  <2>1. 1 \in 1..l /\ l \in 1..l
    BY <1>1
  <2>2. QED
    BY <1>2, <1>3, <1>5, <2>1
<1>10. ASSUME NEW m \in live
       PROVE  next[m] = x <=> m = prev[x]
  <2>1. PICK k \in 1..l : m = order[k]
    BY <1>4
  <2>2. next[m] = IF k = l THEN NULL ELSE order[k + 1]
    BY <1>2, <2>1
  <2>3. next[m] = x <=> k + 1 = i
    <3>1. k = l \/ k + 1 \in 1..l
      BY <1>1
    <3>2. k = l => k + 1 # i
      BY <1>1, <1>5
    <3>3. x # NULL
      BY <1>1, <1>5
    <3>4. CASE k = l
      BY <2>2, <3>2, <3>3, <3>4
    <3>5. CASE k # l
      BY <1>3, <1>5, <2>2, <3>1, <3>5
    <3>6. QED
      BY <3>4, <3>5
  <2>4. m = prev[x] <=> k + 1 = i
    <3>1. CASE i = 1
      <4>1. k + 1 # i
        BY <3>1
      <4>2. QED
        BY <1>1, <1>2, <2>1, <3>1, <4>1
    <3>2. CASE i # 1
      <4>1. i - 1 \in 1..l
        BY <1>1, <1>5, <3>2
      <4>2. m = prev[x] <=> k = i - 1
        BY <1>2, <1>3, <2>1, <3>2, <4>1
      <4>3. QED
        BY <1>5, <4>2
    <3>3. QED
      BY <3>1, <3>2
  <2>5. QED
    BY <2>3, <2>4
<1>11. ASSUME NEW m \in live
       PROVE  prev[m] = x <=> m = next[x]
  <2>1. PICK k \in 1..l : m = order[k]
    BY <1>4
  <2>2. prev[m] = IF k = 1 THEN NULL ELSE order[k - 1]
    BY <1>2, <2>1
  <2>3. prev[m] = x <=> i + 1 = k
    <3>1. k = 1 \/ k - 1 \in 1..l
      BY <1>1
    <3>2. k = 1 => i + 1 # k
      BY <1>1, <1>5
    <3>3. x # NULL
      BY <1>1, <1>5
    <3>4. CASE k = 1
      BY <2>2, <3>2, <3>3, <3>4
    <3>5. CASE k # 1
      <4>1. prev[m] = x <=> k - 1 = i
        BY <1>3, <1>5, <2>2, <3>1, <3>5
      <4>2. QED
        BY <1>5, <4>1
    <3>6. QED
      BY <3>4, <3>5
  <2>4. m = next[x] <=> i + 1 = k
    <3>1. CASE i = l
      <4>1. i + 1 # k
        BY <1>1, <3>1
      <4>2. QED
        BY <1>1, <1>2, <2>1, <3>1, <4>1
    <3>2. CASE i # l
      <4>1. i + 1 \in 1..l
        BY <1>1, <1>5, <3>2
      <4>2. QED
        BY <1>2, <1>3, <2>1, <3>2, <4>1
    <3>3. QED
      BY <3>1, <3>2
  <2>5. QED
    BY <2>3, <2>4
<1>12. num_elements = 1 => i = 1 /\ i = l
  BY <1>1, <1>2, <1>5
<1>13. i = 1 /\ i = l => num_elements = 1
  BY <1>2
<1>14. x \in live /\ x \in Nodes /\ head # NULL /\ tail # NULL
  <2>1. 1 \in 1..l /\ l \in 1..l
    BY <1>1
  <2>2. QED
    BY <1>1, <1>2, <1>5, <2>1
<1>15. QED
  BY <1>6, <1>7, <1>8, <1>9, <1>10, <1>11, <1>12, <1>13, <1>14

(* A call that lets the neighbours of the i-th node bypass it, and head or *)
(* tail too where it was an end, unlinks it.                               *)
Bypasses(x) ==
    /\ num_elements' = num_elements - 1
    /\ head' = IF prev[x] = NULL THEN next[x] ELSE head
    /\ tail' = IF next[x] = NULL THEN prev[x] ELSE tail
    /\ \A m \in live \ {x} :
          /\ payload'[m] = payload[m]
          /\ next'[m] = IF m = prev[x] THEN next[x] ELSE next[m]
          /\ prev'[m] = IF m = next[x] THEN prev[x] ELSE prev[m]

(* Pop, Slice and LLIterator_Remove keep the chain if they bypass. *)
LEMMA Unlink ==
    ASSUME order \in Seq(Nodes), Forward, Backward, NEW i \in 1..Len(order),
           Unlinks(i), Bypasses(order[i])
    PROVE  Forward' /\ Backward'
<1> DEFINE x == order[i]
<1>1. /\ head = x <=> prev[x] = NULL
      /\ tail = x <=> next[x] = NULL
      /\ \A m \in live : next[m] = x <=> m = prev[x]
      /\ \A m \in live : prev[m] = x <=> m = next[x]
  BY Neighbours
<1>2. Bypasses(x)
  OBVIOUS
<1> HIDE DEF x
<1>3. /\ head' = IF head = x THEN next[x] ELSE head
      /\ tail' = IF tail = x THEN prev[x] ELSE tail
      /\ num_elements' = num_elements - 1
  BY <1>1, <1>2 DEF Bypasses
<1>4. \A m \in live \ {x} :
         /\ payload'[m] = payload[m]
         /\ next'[m] = IF next[m] = x THEN next[x] ELSE next[m]
         /\ prev'[m] = IF prev[m] = x THEN prev[x] ELSE prev[m]
  BY <1>1, <1>2 DEF Bypasses
<1>5. Forward'
  BY <1>3, <1>4, UnlinkForward DEF x
<1>6. Backward'
  BY <1>3, <1>4, UnlinkBackward DEF x
<1>7. QED
  BY <1>5, <1>6

(* Nodes and NULL are what the chain's pointers hold, so that the arrays   *)
(* stay arrays when one field is overwritten and a node freed.             *)
LEMMA FreeNodeType ==
    ASSUME TypeOK, NEW n \in Nodes, NEW nxt, NEW prv,
           nxt \in [Nodes -> Pointers \cup {Garbage}],
           prv \in [Nodes -> Pointers \cup {Garbage}],
           FreeNode(n, nxt, prv)
    PROVE  /\ live' \subseteq Nodes
           /\ payload' \in [Nodes -> Payloads \cup {Garbage}]
           /\ next' \in [Nodes -> Pointers \cup {Garbage}]
           /\ prev' \in [Nodes -> Pointers \cup {Garbage}]
           /\ live' = live \ {n}
           /\ \A m \in live \ {n} : /\ payload'[m] = payload[m]
                                    /\ next'[m] = nxt[m]
                                    /\ prev'[m] = prv[m]
<1>1. live' \subseteq Nodes /\ live' = live \ {n}
  BY DEF TypeOK, FreeNode
<1>2. /\ payload' \in [Nodes -> Payloads \cup {Garbage}]
      /\ \A m \in live \ {n} : payload'[m] = payload[m]
  BY DEF TypeOK, FreeNode
<1>3. /\ next' \in [Nodes -> Pointers \cup {Garbage}]
      /\ \A m \in live \ {n} : next'[m] = nxt[m]
  BY DEF TypeOK, FreeNode
<1>4. /\ prev' \in [Nodes -> Pointers \cup {Garbage}]
      /\ \A m \in live \ {n} : prev'[m] = prv[m]
  BY DEF TypeOK, FreeNode
<1>5. QED
  BY <1>1, <1>2, <1>3, <1>4

(* TypeOK's conjuncts about the nodes and the list record. *)
StoreOK ==
    /\ live \subseteq Nodes
    /\ payload \in [Nodes -> Payloads \cup {Garbage}]
    /\ next \in [Nodes -> Pointers \cup {Garbage}]
    /\ prev \in [Nodes -> Pointers \cup {Garbage}]
    /\ head \in Pointers
    /\ tail \in Pointers
    /\ order \in Seq(Nodes)

(* After the step a list in use has at most as many elements as there are  *)
(* nodes.                                                                  *)
LEMMA CountBound ==
    ASSUME order' \in Seq(Nodes), Forward', Backward'
    PROVE  num_elements' \in 0..Cardinality(Nodes)
<1>1. Len(order') \in 0..Cardinality(Nodes)
  BY DistinctBound DEF Forward
<1>2. QED
  BY <1>1 DEF Backward

(* Removing the i-th node x by free(x) after bypassing it: the chain and   *)
(* the types survive.                                                      *)
LEMMA UnlinkStep ==
    ASSUME TypeOK, Forward, Backward, NEW i \in 1..Len(order),
           order' = RemoveAt(order, i),
           num_elements' = num_elements - 1,
           head' = IF prev[order[i]] = NULL THEN next[order[i]] ELSE head,
           tail' = IF next[order[i]] = NULL THEN prev[order[i]] ELSE tail,
           NEW nxt \in [Nodes -> Pointers \cup {Garbage}],
           NEW prv \in [Nodes -> Pointers \cup {Garbage}],
           \A m \in live \ {order[i]} :
              /\ nxt[m] = IF m = prev[order[i]] THEN next[order[i]] ELSE next[m]
              /\ prv[m] = IF m = next[order[i]] THEN prev[order[i]] ELSE prev[m],
           FreeNode(order[i], nxt, prv)
    PROVE  StoreOK' /\ num_elements' \in 0..Cardinality(Nodes) /\ Forward' /\ Backward'
<1> DEFINE x == order[i]
<1>1. /\ order \in Seq(Nodes) /\ x \in Nodes
      /\ head \in Pointers /\ tail \in Pointers
      /\ live \subseteq Nodes
  BY DEF TypeOK
<1>2. /\ next[x] \in (live \ {x}) \cup {NULL}
      /\ prev[x] \in (live \ {x}) \cup {NULL}
  BY <1>1, Neighbours
<1>3. /\ live' \subseteq Nodes
      /\ payload' \in [Nodes -> Payloads \cup {Garbage}]
      /\ next' \in [Nodes -> Pointers \cup {Garbage}]
      /\ prev' \in [Nodes -> Pointers \cup {Garbage}]
      /\ live' = live \ {x}
      /\ \A m \in live \ {x} : /\ payload'[m] = payload[m]
                               /\ next'[m] = nxt[m]
                               /\ prev'[m] = prv[m]
  BY <1>1, FreeNodeType
<1>4. Unlinks(i) /\ Bypasses(order[i])
  BY <1>3 DEF Unlinks, Bypasses
<1>5. Forward' /\ Backward'
  BY <1>1, <1>4, Unlink
<1>6. order' \in Seq(Nodes)
  BY <1>1, <1>4, UnlinkOrder DEF OneLess
<1>7. head' \in Pointers /\ tail' \in Pointers
  BY <1>1, <1>2 DEF Pointers
<1>8. num_elements' \in 0..Cardinality(Nodes)
  BY <1>5, <1>6, CountBound
<1>9. QED
  BY <1>3, <1>5, <1>6, <1>7, <1>8 DEF StoreOK

-----------------------------------------------------------------------------
(* The calls that remove a node, one by one. *)

(* LinkedList_Pop unlinks the first node. *)
LEMMA PopChain ==
    ASSUME TypeOK, Forward, Backward, LinkedList_Pop, num_elements # 0
    PROVE  StoreOK' /\ num_elements' \in 0..Cardinality(Nodes) /\ Forward' /\ Backward'
<1>1. order \in Seq(Nodes) /\ order # <<>> /\ 1 \in 1..Len(order) /\ head = order[1]
  <2>1. order \in Seq(Nodes) /\ num_elements = Len(order)
    BY DEF TypeOK, Backward
  <2>2. order # <<>> /\ 1 \in 1..Len(order)
    BY <2>1
  <2>3. QED
    BY <2>1, <2>2 DEF Forward
<1>2. order' = RemoveAt(order, 1)
  BY <1>1, EndsAreRemoveAt DEF LinkedList_Pop
<1>3. /\ head \in live /\ live \subseteq Nodes
      /\ next[head] \in (live \ {head}) \cup {NULL}
      /\ prev[head] = NULL
      /\ tail = head <=> next[head] = NULL
      /\ num_elements = 1 => next[head] = NULL
      /\ num_elements # 1 => next[head] # NULL
  BY <1>1, Neighbours DEF TypeOK
<1>4. num_elements' = num_elements - 1
  BY DEF LinkedList_Pop
<1>5. CASE num_elements = 1
  <2>1. head' = NULL /\ tail' = NULL /\ FreeNode(head, next, prev)
    BY <1>5 DEF LinkedList_Pop
  <2>2. next \in [Nodes -> Pointers \cup {Garbage}] /\ prev \in [Nodes -> Pointers \cup {Garbage}]
    BY DEF TypeOK
  <2>3. QED
    BY <1>1, <1>2, <1>3, <1>4, <1>5, <2>1, <2>2, UnlinkStep
<1>6. CASE num_elements # 1
  <2> DEFINE prv == [prev EXCEPT ![next[head]] = NULL]
  <2>1. head' = next[head] /\ tail' = tail /\ FreeNode(head, next, prv)
    BY <1>6 DEF LinkedList_Pop
  <2>2. next \in [Nodes -> Pointers \cup {Garbage}] /\ prv \in [Nodes -> Pointers \cup {Garbage}]
    BY DEF TypeOK, Pointers
  <2>3. \A m \in live \ {head} :
           /\ next[m] = IF m = prev[head] THEN next[head] ELSE next[m]
           /\ prv[m] = IF m = next[head] THEN prev[head] ELSE prev[m]
    BY <1>3 DEF TypeOK
  <2> HIDE DEF prv
  <2>4. QED
    BY <1>1, <1>2, <1>3, <1>4, <1>6, <2>1, <2>2, <2>3, UnlinkStep
<1>7. QED
  BY <1>5, <1>6

(* LinkedList_Slice unlinks the last node. *)
LEMMA SliceChain ==
    ASSUME TypeOK, Forward, Backward, LinkedList_Slice, num_elements # 0
    PROVE  StoreOK' /\ num_elements' \in 0..Cardinality(Nodes) /\ Forward' /\ Backward'
<1>1. /\ order \in Seq(Nodes) /\ order # <<>>
      /\ Len(order) \in 1..Len(order) /\ tail = order[Len(order)]
  <2>1. order \in Seq(Nodes) /\ num_elements = Len(order)
    BY DEF TypeOK, Backward
  <2>2. order # <<>> /\ Len(order) \in 1..Len(order)
    BY <2>1
  <2>3. QED
    BY <2>1, <2>2 DEF Backward
<1>2. order' = RemoveAt(order, Len(order))
  BY <1>1, EndsAreRemoveAt DEF LinkedList_Slice
<1>3. /\ tail \in live /\ live \subseteq Nodes
      /\ prev[tail] \in (live \ {tail}) \cup {NULL}
      /\ next[tail] = NULL
      /\ head = tail <=> prev[tail] = NULL
      /\ num_elements = 1 => prev[tail] = NULL
      /\ num_elements # 1 => prev[tail] # NULL
  BY <1>1, Neighbours DEF TypeOK
<1>4. num_elements' = num_elements - 1
  BY DEF LinkedList_Slice
<1>5. CASE num_elements = 1
  <2>1. head' = NULL /\ tail' = NULL /\ FreeNode(tail, next, prev)
    BY <1>5 DEF LinkedList_Slice
  <2>2. next \in [Nodes -> Pointers \cup {Garbage}] /\ prev \in [Nodes -> Pointers \cup {Garbage}]
    BY DEF TypeOK
  <2>3. QED
    BY <1>1, <1>2, <1>3, <1>4, <1>5, <2>1, <2>2, UnlinkStep
<1>6. CASE num_elements # 1
  <2> DEFINE nxt == [next EXCEPT ![prev[tail]] = NULL]
  <2>1. head' = head /\ tail' = prev[tail] /\ FreeNode(tail, nxt, prev)
    BY <1>6 DEF LinkedList_Slice
  <2>2. nxt \in [Nodes -> Pointers \cup {Garbage}] /\ prev \in [Nodes -> Pointers \cup {Garbage}]
    BY DEF TypeOK, Pointers
  <2>3. \A m \in live \ {tail} :
           /\ nxt[m] = IF m = prev[tail] THEN next[tail] ELSE next[m]
           /\ prev[m] = IF m = next[tail] THEN prev[tail] ELSE prev[m]
    BY <1>3 DEF TypeOK
  <2> HIDE DEF nxt
  <2>4. QED
    BY <1>1, <1>2, <1>3, <1>4, <1>6, <2>1, <2>2, <2>3, UnlinkStep
<1>7. QED
  BY <1>5, <1>6

(* The iterator's position is the index of its node. *)
LEMMA PositionIs ==
    ASSUME Forward, iter \in live, NULL \notin live
    PROVE  Position \in DOMAIN order /\ order[Position] = iter
<1>1. iter # NULL /\ \E k \in DOMAIN order : order[k] = iter
  BY DEF Forward, ToSet
<1>2. QED
  BY <1>1 DEF Position

(* LLIterator_Remove unlinks the iterator's node in each of its four cases *)
(* and leaves the iterator on a node that remains.                         *)
LEMMA RemoveChain ==
    ASSUME TypeOK, Forward, Backward, iter \in live, LLIterator_Remove
    PROVE  /\ StoreOK' /\ num_elements' \in 0..Cardinality(Nodes)
           /\ Forward' /\ Backward'
           /\ iter' \in live' \cup {NULL}
<1> DEFINE i == Position
<1>1. order \in Seq(Nodes) /\ live \subseteq Nodes /\ i \in 1..Len(order) /\ order[i] = iter
  <2>1. order \in Seq(Nodes) /\ live \subseteq Nodes /\ NULL \notin live
    BY DEF TypeOK
  <2>2. i \in DOMAIN order /\ order[i] = iter
    BY <2>1, PositionIs
  <2>3. QED
    BY <2>1, <2>2
<1>2. order' = RemoveAt(order, i) /\ num_elements' = num_elements - 1
  BY DEF LLIterator_Remove
<1> HIDE DEF i
<1>3. /\ next[iter] \in (live \ {iter}) \cup {NULL}
      /\ prev[iter] \in (live \ {iter}) \cup {NULL}
      /\ num_elements = 1 => next[iter] = NULL /\ prev[iter] = NULL
      /\ num_elements # 1 => next[iter] # NULL \/ prev[iter] # NULL
  BY <1>1, Neighbours
<1>4. next \in [Nodes -> Pointers \cup {Garbage}] /\ prev \in [Nodes -> Pointers \cup {Garbage}]
  BY DEF TypeOK
<1>5. CASE RemoveOnly
  <2>1. /\ num_elements = 1 /\ iter' = NULL /\ head' = NULL /\ tail' = NULL
        /\ FreeNode(iter, next, prev)
    BY <1>5 DEF RemoveOnly
  <2>2. QED
    BY <1>1, <1>2, <1>3, <1>4, <2>1, UnlinkStep
<1>6. CASE RemoveHead
  <2> DEFINE prv == [prev EXCEPT ![next[iter]] = NULL]
  <2>1. /\ num_elements # 1 /\ prev[iter] = NULL
        /\ iter' = next[iter] /\ head' = next[iter] /\ tail' = tail
        /\ FreeNode(iter, next, prv)
    BY <1>6 DEF RemoveHead
  <2>2. prv \in [Nodes -> Pointers \cup {Garbage}]
    BY <1>4 DEF Pointers
  <2>3. \A m \in live \ {iter} :
           /\ next[m] = IF m = prev[iter] THEN next[iter] ELSE next[m]
           /\ prv[m] = IF m = next[iter] THEN prev[iter] ELSE prev[m]
    BY <1>1, <1>3, <1>4, <2>1
  <2>4. live' = live \ {iter}
    BY <2>1 DEF FreeNode
  <2> HIDE DEF prv
  <2>5. QED
    BY <1>1, <1>2, <1>3, <1>4, <2>1, <2>2, <2>3, <2>4, UnlinkStep
<1>7. CASE RemoveTail
  <2> DEFINE nxt == [next EXCEPT ![prev[iter]] = NULL]
  <2>1. /\ num_elements # 1 /\ prev[iter] # NULL /\ next[iter] = NULL
        /\ iter' = prev[iter] /\ head' = head /\ tail' = prev[iter]
        /\ FreeNode(iter, nxt, prev)
    BY <1>7 DEF RemoveTail
  <2>2. nxt \in [Nodes -> Pointers \cup {Garbage}]
    BY <1>4 DEF Pointers
  <2>3. \A m \in live \ {iter} :
           /\ nxt[m] = IF m = prev[iter] THEN next[iter] ELSE next[m]
           /\ prev[m] = IF m = next[iter] THEN prev[iter] ELSE prev[m]
    BY <1>1, <1>3, <1>4, <2>1
  <2>4. live' = live \ {iter}
    BY <2>1 DEF FreeNode
  <2> HIDE DEF nxt
  <2>5. QED
    BY <1>1, <1>2, <1>3, <1>4, <2>1, <2>2, <2>3, <2>4, UnlinkStep
<1>8. CASE RemoveMiddle
  <2> DEFINE nxt == [next EXCEPT ![prev[iter]] = next[iter]]
             prv == [prev EXCEPT ![next[iter]] = prev[iter]]
  <2>1. /\ prev[iter] # NULL /\ next[iter] # NULL
        /\ iter' = next[iter] /\ head' = head /\ tail' = tail
        /\ FreeNode(iter, nxt, prv)
    BY <1>8 DEF RemoveMiddle
  <2>2. nxt \in [Nodes -> Pointers \cup {Garbage}] /\ prv \in [Nodes -> Pointers \cup {Garbage}]
    BY <1>1, <1>3, <1>4 DEF Pointers
  <2>3. \A m \in live \ {iter} :
           /\ nxt[m] = IF m = prev[iter] THEN next[iter] ELSE next[m]
           /\ prv[m] = IF m = next[iter] THEN prev[iter] ELSE prev[m]
    BY <1>1, <1>3, <1>4, <2>1
  <2>4. live' = live \ {iter}
    BY <2>1 DEF FreeNode
  <2> HIDE DEF nxt, prv
  <2>5. QED
    BY <1>1, <1>2, <1>3, <1>4, <2>1, <2>2, <2>3, <2>4, UnlinkStep
<1>9. QED
  BY <1>5, <1>6, <1>7, <1>8 DEF LLIterator_Remove

(* LinkedList_Free's sweep unlinks the first node too; only the chain of   *)
(* next pointers is left to keep.                                          *)
LEMMA SweepChain ==
    ASSUME TypeOK, Forward, FreeSweep
    PROVE  StoreOK' /\ Forward' /\ order # <<>> /\ head = order[1]
<1>1. order \in Seq(Nodes) /\ order # <<>> /\ 1 \in 1..Len(order) /\ head = order[1]
  <2>1. order \in Seq(Nodes) /\ order # <<>> /\ head = order[1]
    BY DEF TypeOK, FreeSweep, Forward
  <2>2. QED
    BY <2>1
<1>2. order' = RemoveAt(order, 1)
  BY <1>1, EndsAreRemoveAt DEF FreeSweep
<1>3. /\ next \in [Nodes -> Pointers \cup {Garbage}]
      /\ prev \in [Nodes -> Pointers \cup {Garbage}]
      /\ FreeNode(head, next, prev) /\ head \in Nodes
      /\ head' = next[head] /\ tail' = tail
      /\ tail \in Pointers
  BY <1>1 DEF TypeOK, FreeSweep
<1>4. /\ live' \subseteq Nodes
      /\ payload' \in [Nodes -> Payloads \cup {Garbage}]
      /\ next' \in [Nodes -> Pointers \cup {Garbage}]
      /\ prev' \in [Nodes -> Pointers \cup {Garbage}]
      /\ live' = live \ {head}
      /\ \A m \in live \ {head} : payload'[m] = payload[m] /\ next'[m] = next[m]
  BY <1>3, FreeNodeType
<1>5. ASSUME NEW m \in live
      PROVE  next[m] # head
  <2>1. PICK k \in 1..Len(order) : m = order[k]
    BY <1>1 DEF Forward, ToSet
  <2>2. next[m] = IF k = Len(order) THEN NULL ELSE order[k + 1]
    BY <1>1, <2>1 DEF Forward
  <2>3. k # Len(order) => k + 1 \in DOMAIN order /\ 1 \in DOMAIN order /\ k + 1 # 1
    BY <1>1
  <2>4. k # Len(order) => order[k + 1] # order[1]
    BY <2>3 DEF Forward
  <2>5. head # NULL
    BY <1>3
  <2>6. QED
    BY <1>1, <2>2, <2>4, <2>5
<1>6. Unlinks(1)
  BY <1>1, <1>2, <1>4 DEF Unlinks
<1>7. Forward'
  <2>1. head' = IF head = order[1] THEN next[order[1]] ELSE head
    BY <1>1, <1>3
  <2>2. \A m \in live \ {order[1]} :
           /\ payload'[m] = payload[m]
           /\ next'[m] = IF next[m] = order[1] THEN next[order[1]] ELSE next[m]
    BY <1>1, <1>4, <1>5
  <2>3. QED
    BY <1>1, <1>6, <2>1, <2>2, UnlinkForward
<1>8. order' \in Seq(Nodes)
  <2>1. OneLess(1)
    BY <1>1, <1>6, UnlinkOrder
  <2>2. QED
    BY <2>1 DEF OneLess
<1>9. head' \in Pointers
  <2>1. \A k \in 1..Len(order) :
           next[order[k]] = IF k = Len(order) THEN NULL ELSE order[k + 1]
    BY <1>1 DEF Forward
  <2>2. \A k \in 1..Len(order) : k # Len(order) => order[k + 1] \in Nodes
    BY <1>1
  <2>3. next[order[1]] \in Pointers
    BY <1>1, <2>1, <2>2 DEF Pointers
  <2>4. QED
    BY <1>1, <1>3, <2>3
<1>10. QED
  BY <1>1, <1>3, <1>4, <1>7, <1>8, <1>9 DEF StoreOK

-----------------------------------------------------------------------------
(* The inductive invariant. *)

(* The rest of TypeOK. *)
RestOK ==
    /\ iter \in Pointers
    /\ mode \in {"none", "idle", "iter", "sorting", "freeing"}
    /\ curnode \in Pointers
    /\ swapped \in BOOLEAN
    /\ ascending \in BOOLEAN
    /\ before \in Seq(Payloads)

(* TypeOK in its three parts. *)
LEMMA TypeParts ==
    /\ TypeOK <=> StoreOK /\ RestOK /\ num_elements \in 0..Cardinality(Nodes)
    /\ TypeOK' <=> StoreOK' /\ RestOK' /\ num_elements' \in 0..Cardinality(Nodes)
  BY DEF TypeOK, StoreOK, RestOK

(* A step that leaves nodes, record and order alone keeps the chain. *)
LEMMA SameChain ==
    ASSUME UNCHANGED <<fields, record, order>>
    PROVE  /\ Forward => Forward'
           /\ Backward => Backward'
           /\ StoreOK => StoreOK'
<1>1. UNCHANGED <<payload, next, prev, live, head, tail, num_elements, order>>
  BY DEF fields, record
<1>2. QED
  BY <1>1 DEF Forward, Backward, StoreOK

(* An empty list, as LinkedList_Allocate makes it, is a chain. *)
LEMMA EmptyChain ==
    ASSUME order = <<>>, live = {}, UNCHANGED <<order, live>>,
           head' = NULL, tail' = NULL, num_elements' = 0
    PROVE  Forward' /\ Backward'
  BY DEF Forward, Backward, ToSet

(* The invariant without StableSoFar, which no other part rests on. *)
Base == TypeOK /\ Chain /\ PassSoFar

(* It holds at the start. *)
LEMMA InitBase == Init => Base
<1> SUFFICES ASSUME Init PROVE Base
  OBVIOUS
<1>1. order = <<>> /\ live = {} /\ head = NULL /\ mode = "none" /\ iter = NULL
  BY DEF Init
<1>2. Forward
  BY <1>1 DEF Forward, ToSet
<1>3. Chain
  BY <1>1, <1>2 DEF Chain
<1>4. PassSoFar
  BY <1>1 DEF PassSoFar
<1>5. 0 \in 0..Cardinality(Nodes)
  <2>1. Cardinality(Nodes) \in Nat
    BY FS_CardinalityType, Zenon
  <2>2. QED
    BY <2>1
<1>6. TypeOK
  <2>1. order \in Seq(Nodes) /\ before \in Seq(Payloads)
    BY DEF Init
  <2>2. /\ payload \in [Nodes -> Payloads \cup {Garbage}]
        /\ next \in [Nodes -> Pointers \cup {Garbage}]
        /\ prev \in [Nodes -> Pointers \cup {Garbage}]
    BY DEF Init
  <2>3. QED
    BY <1>5, <2>1, <2>2 DEF Init, TypeOK, Pointers
<1>7. QED
  BY <1>3, <1>4, <1>6 DEF Base

(* One iteration of the sort's inner loop moves the cursor one node on.    *)
LEMMA CompareBase ==
    ASSUME Base, SortCompare
    PROVE  Base'
<1>1. /\ TypeOK /\ Forward /\ Backward /\ iter = NULL /\ mode = "sorting"
      /\ order \in Seq(Nodes) /\ Len(order) \in Nat /\ DOMAIN order = 1..Len(order)
      /\ live \subseteq Nodes
  BY DEF Base, Chain, SortCompare, TypeOK
<1>2. UNCHANGED <<next, prev, live, head, tail, num_elements, iter, mode, ascending,
                  before, order>>
  BY DEF SortCompare, record
<1>3. PICK k \in DOMAIN order :
         /\ order[k] = curnode
         /\ ~swapped => \A j \in 1..(k - 1) : ~MustSwap(Contents[j], Contents[j + 1])
  BY <1>1 DEF Base, PassSoFar
<1>4. /\ k + 1 \in 1..Len(order) /\ k \in 1..Len(order)
      /\ next[curnode] = order[k + 1]
  BY <1>1, <1>3 DEF SortCompare, Forward
<1>5. curnode \in Nodes /\ order[k + 1] \in Nodes /\ curnode # order[k + 1]
  BY <1>1, <1>3, <1>4 DEF Forward
<1>6. payload[curnode] \in Payloads /\ payload[order[k + 1]] \in Payloads
  BY <1>1, <1>3, <1>4 DEF Forward
<1>7. curnode' = order[k + 1]
  BY <1>4 DEF SortCompare
<1>8. \/ /\ MustSwap(payload[curnode], payload[order[k + 1]])
         /\ payload' = [payload EXCEPT ![curnode] = payload[order[k + 1]],
                                       ![order[k + 1]] = payload[curnode]]
         /\ swapped' = TRUE
      \/ /\ ~MustSwap(payload[curnode], payload[order[k + 1]])
         /\ payload' = payload
         /\ swapped' = swapped
  BY <1>4 DEF SortCompare
<1>9. /\ payload' \in [Nodes -> Payloads \cup {Garbage}]
      /\ swapped' \in BOOLEAN
      /\ \A m \in Nodes : payload[m] \in Payloads => payload'[m] \in Payloads
  <2> payload \in [Nodes -> Payloads \cup {Garbage}] /\ swapped \in BOOLEAN
    BY DEF Base, TypeOK
  <2>1. CASE payload' = payload /\ swapped' = swapped
    BY <2>1
  <2>2. CASE /\ payload' = [payload EXCEPT ![curnode] = payload[order[k + 1]],
                                           ![order[k + 1]] = payload[curnode]]
             /\ swapped' = TRUE
    BY <1>5, <1>6, <2>2
  <2>3. QED
    BY <1>8, <2>1, <2>2
<1>10. TypeOK'
  BY <1>1, <1>2, <1>5, <1>7, <1>9 DEF TypeOK, Pointers
<1>11. Forward'
  <2>1. \A j \in DOMAIN order : order[j] \in Nodes /\ payload[order[j]] \in Payloads
    BY <1>1 DEF Forward
  <2>2. \A j \in DOMAIN order : payload'[order[j]] \in Payloads
    BY <1>9, <2>1
  <2>3. QED
    BY <1>1, <1>2, <2>2 DEF Forward
<1>12. Chain'
  <2>1. Backward'
    BY <1>1, <1>2 DEF Backward
  <2>2. order[k + 1] \in live
    BY <1>1, <1>4 DEF Forward, ToSet
  <2>3. QED
    BY <1>1, <1>2, <1>7, <1>11, <2>1, <2>2 DEF Chain
<1>13. PassSoFar'
  <2>1. ASSUME ~swapped'
        PROVE  \A j \in 1..((k + 1) - 1) : ~MustSwap(Contents[j], Contents[j + 1])'
    <3>1. payload' = payload /\ ~swapped /\ ~MustSwap(payload[curnode], payload[order[k + 1]])
      BY <1>8, <2>1
    <3>2. Contents' = Contents
      BY <1>2, <3>1 DEF Contents
    <3>3. Contents[k] = payload[curnode] /\ Contents[k + 1] = payload[order[k + 1]]
      BY <1>1, <1>3, <1>4 DEF Contents
    <3>4. ASSUME NEW j \in 1..k
          PROVE  ~MustSwap(Contents[j], Contents[j + 1])
      <4>1. CASE j = k
        BY <3>1, <3>3, <4>1
      <4>2. CASE j # k
        BY <1>3, <1>4, <3>1, <4>2
      <4>3. QED
        BY <4>1, <4>2
    <3>5. (k + 1) - 1 = k
      BY <1>4
    <3>6. QED
      BY <1>2, <3>2, <3>4, <3>5 DEF MustSwap
  <2>2. k + 1 \in DOMAIN order'
    BY <1>1, <1>2, <1>4
  <2>3. order'[k + 1] = curnode'
    BY <1>2, <1>7
  <2>4. QED
    BY <2>1, <2>2, <2>3 DEF PassSoFar
<1>14. QED
  BY <1>10, <1>12, <1>13 DEF Base

(* The payloads of a chain are a sequence of payloads. *)
LEMMA ContentsType ==
    ASSUME order \in Seq(Nodes), Forward
    PROVE  Contents \in Seq(Payloads) /\ Len(Contents) = Len(order)
<1>1. Len(order) \in Nat /\ \A k \in 1..Len(order) : payload[order[k]] \in Payloads
  BY DEF Forward
<1>2. QED
  BY <1>1 DEF Contents

(* Every step preserves it. *)
LEMMA NextBase == Base /\ [Next]_vars => Base'
<1> SUFFICES ASSUME Base, [Next]_vars
             PROVE  Base'
  OBVIOUS
<1> USE DEF Base
<1>1. /\ TypeOK /\ StoreOK /\ RestOK /\ num_elements \in 0..Cardinality(Nodes)
      /\ Forward
      /\ order \in Seq(Nodes) /\ live \subseteq Nodes /\ Len(order) \in Nat
      /\ DOMAIN order = 1..Len(order)
  <2>1. StoreOK /\ RestOK /\ num_elements \in 0..Cardinality(Nodes)
    BY TypeParts
  <2>2. QED
    BY <2>1 DEF Chain, StoreOK
<1>2. CASE LinkedList_Allocate
  <2>1. live = {} /\ order = <<>>
    <3>1. live = {}
      BY <1>2 DEF Chain, LinkedList_Allocate
    <3>2. \A k \in 1..Len(order) : order[k] \in live
      BY <1>1 DEF Forward, ToSet
    <3>3. order # <<>> => 1 \in 1..Len(order)
      BY <1>1
    <3>4. QED
      BY <3>1, <3>2, <3>3
  <2>2. /\ mode' = "idle" /\ head' = NULL /\ tail' = NULL /\ num_elements' = 0
        /\ UNCHANGED <<payload, next, prev, live, iter, curnode, swapped, ascending,
                       before, order>>
    BY <1>2 DEF LinkedList_Allocate, fields, sortVars
  <2>3. Forward' /\ Backward'
    BY <2>1, <2>2, EmptyChain
  <2>4. iter = NULL
    BY <1>2 DEF Chain, LinkedList_Allocate
  <2>5. 0 \in 0..Cardinality(Nodes)
    <3>1. Cardinality(Nodes) \in Nat
      BY FS_CardinalityType, Zenon
    <3>2. QED
      BY <3>1
  <2>6. TypeOK'
    BY <1>1, <2>2, <2>5 DEF TypeOK, Pointers
  <2>7. QED
    BY <2>2, <2>3, <2>4, <2>6 DEF Chain, PassSoFar
<1>3. ASSUME NEW n \in Nodes, NEW p \in Payloads,
             LinkedList_Push(n, p) \/ LinkedList_Append(n, p)
      PROVE  Base'
  <2>1. /\ mode = "idle" /\ Backward /\ iter = NULL
        /\ UNCHANGED <<iter, mode, curnode, swapped, ascending, before>>
    BY <1>3 DEF LinkedList_Push, LinkedList_Append, sortVars, Chain
  <2>2. order' \in Seq(Nodes) /\ Forward' /\ Backward'
    BY <1>1, <1>3, <2>1, PushChain, AppendChain
  <2>3. num_elements' \in 0..Cardinality(Nodes)
    BY <2>2, CountBound
  <2>4. PICK nx \in Pointers, pv \in Pointers :
           NewNode(n, p, nx, pv) /\ head' \in Pointers /\ tail' \in Pointers
    BY <1>1, <1>3 DEF LinkedList_Push, LinkedList_Append, StoreOK, Pointers
  <2>5. /\ live' \subseteq Nodes
        /\ payload' \in [Nodes -> Payloads \cup {Garbage}]
        /\ next' \in [Nodes -> Pointers \cup {Garbage}]
        /\ prev' \in [Nodes -> Pointers \cup {Garbage}]
    BY <1>1, <2>4 DEF StoreOK, NewNode, Pointers
  <2>6. TypeOK'
    BY <1>1, <2>1, <2>2, <2>3, <2>4, <2>5 DEF TypeOK
  <2>7. QED
    BY <2>1, <2>2, <2>6 DEF Chain, PassSoFar
<1>4. CASE LinkedList_Pop \/ LinkedList_Slice
  <2>1. /\ mode = "idle" /\ Backward /\ iter = NULL
        /\ UNCHANGED <<iter, mode, curnode, swapped, ascending, before>>
    BY <1>4 DEF LinkedList_Pop, LinkedList_Slice, sortVars, Chain
  <2>2. StoreOK' /\ num_elements' \in 0..Cardinality(Nodes) /\ Forward' /\ Backward'
    <3>1. CASE num_elements = 0
      <4>1. UNCHANGED <<fields, record, order>>
        BY <1>4, <3>1 DEF LinkedList_Pop, LinkedList_Slice
      <4>2. Forward' /\ Backward' /\ StoreOK'
        BY <1>1, <2>1, <4>1, SameChain
      <4>3. QED
        BY <1>1, <4>1, <4>2 DEF record
    <3>2. CASE num_elements # 0
      BY <1>1, <1>4, <2>1, <3>2, PopChain, SliceChain
    <3>3. QED
      BY <3>1, <3>2
  <2>3. RestOK'
    BY <1>1, <2>1 DEF RestOK
  <2>4. TypeOK'
    BY <2>2, <2>3, TypeParts
  <2>5. QED
    BY <2>1, <2>2, <2>4 DEF Chain, PassSoFar
<1>5. ASSUME NEW asc \in BOOLEAN, LinkedList_Sort(asc)
      PROVE  Base'
  <2>1. /\ mode = "idle" /\ Backward /\ iter = NULL
        /\ UNCHANGED <<fields, record, iter, order>>
    BY <1>5 DEF LinkedList_Sort, Chain
  <2>2. Forward' /\ Backward' /\ StoreOK' /\ num_elements' \in 0..Cardinality(Nodes)
    <3>1. num_elements' = num_elements
      BY <2>1 DEF record
    <3>2. QED
      BY <1>1, <2>1, <3>1, SameChain
  <2>3. CASE num_elements < 2
    <3>1. UNCHANGED <<mode, curnode, swapped, ascending, before>>
      BY <1>1, <1>5, <2>3 DEF LinkedList_Sort, sortVars
    <3>2. RestOK'
      BY <1>1, <2>1, <3>1 DEF RestOK
    <3>3. TypeOK'
      BY <2>2, <3>2, TypeParts
    <3>4. QED
      BY <2>1, <2>2, <3>1, <3>3 DEF Chain, PassSoFar
  <2>4. CASE ~(num_elements < 2)
    <3>1. /\ mode' = "sorting" /\ ascending' = asc /\ swapped' = FALSE
          /\ curnode' = head /\ before' = Contents
      BY <1>5, <2>4 DEF LinkedList_Sort
    <3>2. 1 \in 1..Len(order) /\ head = order[1]
      <4>1. Len(order) >= 2 /\ num_elements = Len(order)
        BY <1>1, <2>1, <2>4 DEF Backward
      <4>2. order # <<>>
        BY <4>1
      <4>3. QED
        BY <1>1, <4>1, <4>2 DEF Forward
    <3>3. order[1] \in live /\ order[1] \in Nodes
      BY <1>1, <3>2 DEF Forward, ToSet
    <3>4. Contents \in Seq(Payloads)
      BY <1>1, ContentsType
    <3>5. RestOK'
      BY <1>1, <2>1, <3>1, <3>2, <3>3, <3>4 DEF RestOK, Pointers
    <3>6. TypeOK'
      BY <2>2, <3>5, TypeParts
    <3>7. live' = live /\ order' = order
      BY <2>1 DEF fields
    <3>8. PassSoFar'
      <4>1. 1 \in DOMAIN order' /\ order'[1] = curnode'
        BY <1>1, <3>1, <3>2, <3>7
      <4>2. \A j \in 1..(1 - 1) : FALSE
        OBVIOUS
      <4>3. \A j \in 1..(1 - 1) : ~MustSwap(Contents[j], Contents[j + 1])'
        BY <4>2
      <4>4. QED
        BY <4>1, <4>3 DEF PassSoFar
    <3>9. QED
      BY <2>1, <2>2, <3>1, <3>2, <3>3, <3>6, <3>7, <3>8 DEF Chain
  <2>5. QED
    BY <2>3, <2>4
<1>6. CASE SortCompare
  BY <1>6, CompareBase
<1>7. CASE SortPassEnd
  <2>1. /\ mode = "sorting" /\ Backward /\ iter = NULL /\ curnode \in live
        /\ UNCHANGED <<fields, record, iter, order>>
        /\ UNCHANGED <<live, head, num_elements>>
    BY <1>7 DEF SortPassEnd, Chain, fields, record
  <2>2. Forward' /\ Backward' /\ StoreOK' /\ num_elements' \in 0..Cardinality(Nodes)
    BY <1>1, <2>1, SameChain
  <2>3. CASE swapped
    <3>1. swapped' = FALSE /\ curnode' = head /\ UNCHANGED <<mode, ascending, before>>
      BY <1>7, <2>3 DEF SortPassEnd
    <3>2. 1 \in 1..Len(order) /\ head = order[1] /\ head \in live
      <4>1. order # <<>>
        BY <1>1, <2>1 DEF Forward, ToSet
      <4>2. 1 \in 1..Len(order)
        BY <1>1, <4>1
      <4>3. QED
        BY <1>1, <4>1, <4>2 DEF Forward, ToSet
    <3>3. RestOK'
      BY <1>1, <2>1, <3>1, <3>2 DEF RestOK, StoreOK
    <3>4. TypeOK'
      BY <2>2, <3>3, TypeParts
    <3>5. PassSoFar'
      <4>1. 1 \in DOMAIN order' /\ order'[1] = curnode'
        BY <1>1, <2>1, <3>1, <3>2
      <4>2. \A j \in 1..(1 - 1) : FALSE
        OBVIOUS
      <4>3. \A j \in 1..(1 - 1) : ~MustSwap(Contents[j], Contents[j + 1])'
        BY <4>2
      <4>4. QED
        BY <4>1, <4>3 DEF PassSoFar
    <3>6. QED
      BY <2>1, <2>2, <3>1, <3>2, <3>4, <3>5 DEF Chain
  <2>4. CASE ~swapped
    <3>1. /\ mode' = "idle" /\ curnode' = NULL /\ ascending' = FALSE /\ before' = <<>>
          /\ UNCHANGED swapped
      BY <1>7, <2>4 DEF SortPassEnd
    <3>2. <<>> \in Seq(Payloads)
      OBVIOUS
    <3>3. RestOK'
      BY <1>1, <2>1, <3>1, <3>2 DEF RestOK, Pointers
    <3>4. TypeOK'
      BY <2>2, <3>3, TypeParts
    <3>5. QED
      BY <2>1, <2>2, <3>1, <3>4 DEF Chain, PassSoFar
  <2>5. QED
    BY <2>3, <2>4
<1>8. CASE LinkedList_Free \/ FreeRecord
  <2>1. /\ iter = NULL
        /\ mode' \in {"freeing", "none"}
        /\ UNCHANGED <<fields, record, iter, curnode, swapped, ascending, before, order>>
        /\ UNCHANGED <<live, num_elements>>
    BY <1>8 DEF LinkedList_Free, FreeRecord, sortVars, Chain, fields, record
  <2>2. Forward' /\ StoreOK'
    BY <1>1, <2>1, SameChain
  <2>3. RestOK'
    BY <1>1, <2>1 DEF RestOK
  <2>4. TypeOK'
    BY <1>1, <2>1, <2>2, <2>3, TypeParts
  <2>5. mode' = "none" => live = {}
    <3>1. mode' = "none" => head = NULL
      BY <1>8 DEF LinkedList_Free, FreeRecord
    <3>2. head = NULL => order = <<>>
      BY <1>1 DEF Forward
    <3>3. order = <<>> => live = {}
      BY <1>1 DEF Forward, ToSet
    <3>4. QED
      BY <3>1, <3>2, <3>3
  <2>6. QED
    BY <2>1, <2>2, <2>4, <2>5 DEF Chain, PassSoFar
<1>9. CASE FreeSweep
  <2>1. StoreOK' /\ Forward'
    BY <1>1, <1>9, SweepChain
  <2>2. /\ mode = "freeing" /\ iter = NULL
        /\ UNCHANGED <<num_elements, iter, mode, curnode, swapped, ascending, before>>
    BY <1>9 DEF FreeSweep, sortVars, Chain
  <2>3. RestOK'
    BY <1>1, <2>2 DEF RestOK
  <2>4. TypeOK'
    BY <1>1, <2>1, <2>2, <2>3, TypeParts
  <2>5. QED
    BY <2>1, <2>2, <2>4 DEF Chain, PassSoFar
<1>10. CASE LLIterator_Allocate \/ LLIterator_Free \/ LLIterator_Rewind
            \/ LLIterator_IsValid \/ LLIterator_Next \/ LLIterator_Get
  <2>1. /\ mode \in {"idle", "iter"} /\ Backward
        /\ UNCHANGED <<fields, record, curnode, swapped, ascending, before, order>>
        /\ UNCHANGED <<live, num_elements>>
    BY <1>10 DEF LLIterator_Allocate, LLIterator_Free, LLIterator_Rewind,
         LLIterator_IsValid, LLIterator_Next, LLIterator_Get, sortVars, Chain,
         fields, record
  <2>2. Forward' /\ Backward' /\ StoreOK'
    BY <1>1, <2>1, SameChain
  <2>3. /\ mode' \in {"idle", "iter"}
        /\ mode' # "iter" => iter' = NULL
        /\ iter' \in {NULL, head, iter} \/ (iter # NULL /\ iter' = next[iter])
    BY <1>10 DEF LLIterator_Allocate, LLIterator_Free, LLIterator_Rewind,
         LLIterator_IsValid, LLIterator_Next, LLIterator_Get
  <2>4. iter \in live \cup {NULL}
    BY DEF Chain
  <2>5. head \in live \cup {NULL}
    <3>1. order # <<>> => 1 \in DOMAIN order
      BY <1>1
    <3>2. QED
      BY <1>1, <3>1 DEF Forward, ToSet
  <2>6. iter # NULL => next[iter] \in live \cup {NULL}
    <3>1. ASSUME iter # NULL
          PROVE  \E i \in 1..Len(order) : iter = order[i]
      BY <1>1, <2>4, <3>1 DEF Forward, ToSet
    <3>2. QED
      BY <1>1, <2>1, <3>1, Neighbours
  <2>7. iter' \in live' \cup {NULL}
    BY <2>1, <2>3, <2>4, <2>5, <2>6
  <2>8. RestOK'
    BY <1>1, <2>1, <2>3, <2>7 DEF RestOK, Pointers
  <2>9. TypeOK'
    BY <1>1, <2>1, <2>2, <2>8, TypeParts
  <2>10. QED
    BY <2>2, <2>3, <2>7, <2>9 DEF Chain, PassSoFar
<1>11. CASE LLIterator_Remove
  <2>1. /\ mode = "iter" /\ Backward /\ iter \in live
        /\ UNCHANGED <<mode, curnode, swapped, ascending, before>>
    BY <1>11 DEF LLIterator_Remove, sortVars, Chain
  <2>2. /\ StoreOK' /\ num_elements' \in 0..Cardinality(Nodes)
        /\ Forward' /\ Backward'
        /\ iter' \in live' \cup {NULL}
    BY <1>1, <1>11, <2>1, RemoveChain
  <2>3. live' \subseteq Nodes
    BY <2>2 DEF StoreOK
  <2>4. RestOK'
    BY <1>1, <2>1, <2>2, <2>3 DEF RestOK, Pointers
  <2>5. TypeOK'
    BY <2>2, <2>4, TypeParts
  <2>6. QED
    BY <2>1, <2>2, <2>5 DEF Chain, PassSoFar
<1>12. CASE UNCHANGED vars
  <2>1. UNCHANGED <<fields, record, order, payload, live, num_elements, iter, mode,
                    curnode, swapped, ascending, before>>
    BY <1>12 DEF vars, fields, record, sortVars
  <2>2. Forward' /\ StoreOK' /\ (Backward => Backward')
    BY <1>1, <2>1, SameChain
  <2>3. RestOK'
    BY <1>1, <2>1 DEF RestOK
  <2>4. TypeOK'
    BY <1>1, <2>1, <2>2, <2>3, TypeParts
  <2>5. PassSoFar'
    BY <2>1 DEF PassSoFar, Contents, MustSwap
  <2>6. QED
    BY <2>1, <2>2, <2>4, <2>5 DEF Chain
<1>13. QED
  BY <1>2, <1>3, <1>4, <1>5, <1>6, <1>7, <1>8, <1>9, <1>10, <1>11, <1>12
     DEF Next, SortLoop, FreeLoop, IteratorCalls

-----------------------------------------------------------------------------
(* The sort is stable. *)

(* What the payloads of a chain are. *)
LEMMA ContentsAre ==
    ASSUME order \in Seq(Nodes), Forward
    PROVE  /\ Contents \in Seq(Payloads)
           /\ Len(Contents) = Len(order)
           /\ Len(order) \in Nat
           /\ Contents = <<>> <=> order = <<>>
           /\ \A k \in 1..Len(order) : Contents[k] = payload[order[k]]
<1>1. Contents \in Seq(Payloads) /\ Len(Contents) = Len(order) /\ Len(order) \in Nat
  BY ContentsType
<1>2. \A k \in 1..Len(order) : Contents[k] = payload[order[k]]
  BY DEF Contents
<1>3. Contents = <<>> <=> order = <<>>
  <2>1. Contents = <<>> <=> Len(Contents) = 0
    BY <1>1
  <2>2. order = <<>> <=> Len(order) = 0
    OBVIOUS
  <2>3. QED
    BY <1>1, <2>1, <2>2
<1>4. QED
  BY <1>1, <1>2, <1>3

(* The step exchanges the k-th and the next payload, which are out of order. *)
SwapsAt(k) ==
    /\ MustSwap(Contents[k], Contents[k + 1])
    /\ Contents' = [Contents EXCEPT ![k] = Contents[k + 1], ![k + 1] = Contents[k]]

(* That, or nothing, is what one iteration of the inner loop does. *)
LEMMA CompareSwaps ==
    ASSUME Base, SortCompare
    PROVE  \/ Contents' = Contents
           \/ \E k \in 1..(Len(order) - 1) : SwapsAt(k)
<1>1. /\ TypeOK /\ Forward /\ order \in Seq(Nodes)
      /\ mode = "sorting" /\ order' = order
  BY DEF Base, Chain, TypeOK, SortCompare
<1>2. /\ Len(Contents) = Len(order) /\ Len(order) \in Nat /\ DOMAIN order = 1..Len(order)
      /\ \A k \in 1..Len(order) : Contents[k] = payload[order[k]]
  BY <1>1, ContentsAre
<1> DEFINE l == Len(order)
<1>3. PICK k \in DOMAIN order : order[k] = curnode
  BY <1>1 DEF Base, PassSoFar
<1>4. /\ k \in 1..l /\ k + 1 \in 1..l /\ k \in 1..(l - 1)
      /\ next[curnode] = order[k + 1]
  BY <1>1, <1>2, <1>3 DEF SortCompare, Forward
<1>5. CASE MustSwap(payload[curnode], payload[order[k + 1]])
  <2>1. payload' = [payload EXCEPT ![curnode] = payload[order[k + 1]],
                                   ![order[k + 1]] = payload[curnode]]
    BY <1>4, <1>5 DEF SortCompare
  <2>2. Contents[k] = payload[curnode] /\ Contents[k + 1] = payload[order[k + 1]]
    BY <1>2, <1>3, <1>4
  <2>3. /\ Contents = [j \in 1..l |-> payload[order[j]]]
        /\ Contents' = [j \in 1..l |-> payload'[order[j]]]
    BY <1>1 DEF Contents
  <2> DEFINE e == [Contents EXCEPT ![k] = Contents[k + 1], ![k + 1] = Contents[k]]
  <2>4. ASSUME NEW j \in 1..l
        PROVE  payload'[order[j]] = e[j]
    <3>1. order[j] \in Nodes /\ order[k] \in Nodes /\ order[k + 1] \in Nodes
      BY <1>1, <1>4
    <3>2. (order[j] = order[k] <=> j = k) /\ (order[j] = order[k + 1] <=> j = k + 1)
      BY <1>1, <1>2, <1>4 DEF Forward
    <3>3. k # k + 1
      BY <1>4
    <3>4. payload \in [Nodes -> Payloads \cup {Garbage}]
      BY <1>1 DEF TypeOK
    <3>5. payload'[order[j]] = IF j = k + 1 THEN payload[curnode]
                               ELSE IF j = k THEN payload[order[k + 1]]
                               ELSE payload[order[j]]
      BY <1>3, <2>1, <3>1, <3>2, <3>3, <3>4
    <3>6. e[j] = IF j = k + 1 THEN Contents[k]
                 ELSE IF j = k THEN Contents[k + 1] ELSE Contents[j]
      BY <1>4, <2>3, <3>3
    <3>7. Contents[j] = payload[order[j]]
      BY <1>2
    <3>8. QED
      BY <2>2, <3>5, <3>6, <3>7
  <2>5. e \in [1..l -> Payloads]
    <3>1. \A j \in 1..l : payload[order[j]] \in Payloads
      BY <1>1, <1>2 DEF Forward
    <3>2. Contents \in [1..l -> Payloads]
      BY <2>3, <3>1
    <3>3. QED
      BY <1>4, <3>2
  <2> HIDE DEF e
  <2>6. Contents' = e
    BY <2>3, <2>4, <2>5
  <2>7. SwapsAt(k)
    BY <1>5, <2>2, <2>6 DEF SwapsAt, e
  <2>8. QED
    BY <1>4, <2>7
<1>6. CASE ~MustSwap(payload[curnode], payload[order[k + 1]])
  <2>1. payload' = payload
    BY <1>4, <1>6 DEF SortCompare
  <2>2. QED
    BY <1>1, <2>1 DEF Contents
<1>7. QED
  BY <1>5, <1>6

(* f shows that t is a stable rearrangement of s, both of length l. *)
Shows(f, s, t, l) ==
    /\ f \in [1..l -> 1..l]
    /\ \A k \in 1..l : t[k] = s[f[k]]
    /\ \A j, k \in 1..l :
          j < k => f[j] # f[k] /\ (Key[t[j]] = Key[t[k]] => f[j] < f[k])

(* A sequence is a stable rearrangement of itself. *)
LEMMA StableRefl ==
    ASSUME NEW s \in Seq(Payloads)
    PROVE  StableRearrangement(s, s)
<1> DEFINE l == Len(s)
           f == [k \in 1..l |-> k]
<1>1. l \in Nat
  OBVIOUS
<1> HIDE DEF l
<1>2. Shows(f, s, s, l)
  BY <1>1 DEF Shows
<1>3. QED
  BY <1>2 DEF Shows, StableRearrangement, l

(* It still is one when two neighbours with different keys are exchanged. *)
LEMMA StableSwap ==
    ASSUME NEW s \in Seq(Payloads), NEW t \in Seq(Payloads),
           StableRearrangement(s, t),
           NEW i \in 1..(Len(t) - 1), Key[t[i]] # Key[t[i + 1]]
    PROVE  StableRearrangement(s, [t EXCEPT ![i] = t[i + 1], ![i + 1] = t[i]])
<1> DEFINE l == Len(t)
           u == [t EXCEPT ![i] = t[i + 1], ![i + 1] = t[i]]
           at(k) == IF k = i THEN i + 1 ELSE IF k = i + 1 THEN i ELSE k
<1>1. PICK f : Shows(f, s, t, l)
  BY DEF Shows, StableRearrangement
<1>2. l \in Nat /\ i \in 1..l /\ i + 1 \in 1..l /\ i \in Nat /\ DOMAIN t = 1..l
  OBVIOUS
<1>3. Len(u) = l
  BY <1>2
<1>4. ASSUME NEW k \in 1..l
      PROVE  u[k] = t[at(k)] /\ at(k) \in 1..l
  BY <1>2
<1> DEFINE g == [k \in 1..l |-> f[at(k)]]
<1>5. Len(s) = l
  BY DEF StableRearrangement
<1> HIDE DEF l, u
<1>6. g \in [1..l -> 1..l]
  BY <1>1, <1>4 DEF Shows
<1>7. ASSUME NEW k \in 1..l
      PROVE  u[k] = s[g[k]]
  BY <1>1, <1>4 DEF Shows
<1>8. ASSUME NEW j \in 1..l, NEW k \in 1..l, j < k
      PROVE  g[j] # g[k] /\ (Key[u[j]] = Key[u[k]] => g[j] < g[k])
  <2>1. /\ g[j] = f[at(j)] /\ g[k] = f[at(k)]
        /\ u[j] = t[at(j)] /\ u[k] = t[at(k)]
        /\ at(j) \in 1..l /\ at(k) \in 1..l
    BY <1>4
  <2>2. \A a, b \in 1..l :
           a < b => f[a] # f[b] /\ (Key[t[a]] = Key[t[b]] => f[a] < f[b])
    BY <1>1 DEF Shows
  <2>3. CASE j = i /\ k = i + 1
    <3>1. at(j) = i + 1 /\ at(k) = i /\ i < i + 1
      BY <1>2, <2>3
    <3>2. QED
      BY <1>2, <2>1, <2>2, <3>1
  <2>4. CASE ~(j = i /\ k = i + 1)
    <3>1. at(j) < at(k)
      BY <1>2, <1>8, <2>4
    <3>2. QED
      BY <2>1, <2>2, <3>1
  <2>5. QED
    BY <2>3, <2>4
<1>9. Shows(g, s, u, l)
  BY <1>6, <1>7, <1>8 DEF Shows
<1>10. Len(s) = Len(u) /\ \E h : Shows(h, s, u, Len(u))
  BY <1>3, <1>5, <1>9
<1>11. StableRearrangement(s, u)
  BY <1>10 DEF Shows, StableRearrangement
<1>12. QED
  BY <1>11 DEF u

(* Every step keeps the rearrangement stable. *)
LEMMA NextStable == Base /\ StableSoFar /\ [Next]_vars => StableSoFar'
<1> SUFFICES ASSUME Base, StableSoFar, [Next]_vars, mode' = "sorting"
             PROVE  StableRearrangement(before', Contents')
  BY DEF StableSoFar
<1>1. /\ order \in Seq(Nodes) /\ Forward /\ before \in Seq(Payloads)
      /\ Contents \in Seq(Payloads) /\ Len(Contents) = Len(order) /\ Len(order) \in Nat
  <2>1. order \in Seq(Nodes) /\ Forward /\ before \in Seq(Payloads)
    BY DEF Base, Chain, TypeOK
  <2>2. QED
    BY <2>1, ContentsType
<1>2. ASSUME UNCHANGED <<mode, before, payload, order>>
      PROVE  StableRearrangement(before', Contents')
  <2>1. Contents' = Contents /\ before' = before /\ mode = "sorting"
    BY <1>2 DEF Contents
  <2>2. QED
    BY <2>1 DEF StableSoFar
<1>3. ASSUME NEW asc \in BOOLEAN, LinkedList_Sort(asc)
      PROVE  StableRearrangement(before', Contents')
  <2>1. before' = Contents /\ UNCHANGED <<payload, order>>
    BY <1>3 DEF LinkedList_Sort, fields
  <2>2. Contents' = Contents
    BY <2>1 DEF Contents
  <2>3. QED
    BY <1>1, <2>1, <2>2, StableRefl
<1>4. CASE SortCompare
  <2>1. before' = before /\ mode = "sorting"
    BY <1>4 DEF SortCompare
  <2>2. StableRearrangement(before, Contents)
    BY <2>1 DEF StableSoFar
  <2>3. CASE Contents' = Contents
    BY <2>1, <2>2, <2>3
  <2>4. ASSUME NEW k \in 1..(Len(order) - 1), SwapsAt(k)
        PROVE  StableRearrangement(before', Contents')
    <3>1. k \in 1..(Len(Contents) - 1)
      BY <1>1
    <3>2. k \in 1..Len(Contents) /\ k + 1 \in 1..Len(Contents)
      BY <1>1
    <3>3. Contents[k] \in Payloads /\ Contents[k + 1] \in Payloads
      BY <1>1, <3>2
    <3>4. Key[Contents[k]] \in Int /\ Key[Contents[k + 1]] \in Int
      BY <3>3, KeyAssumption
    <3>5. Key[Contents[k]] # Key[Contents[k + 1]]
      BY <2>4, <3>4 DEF SwapsAt, MustSwap
    <3>6. StableRearrangement(before,
             [Contents EXCEPT ![k] = Contents[k + 1], ![k + 1] = Contents[k]])
      BY <1>1, <2>2, <3>1, <3>5, StableSwap
    <3>7. QED
      BY <2>1, <2>4, <3>6 DEF SwapsAt
  <2>5. QED
    BY <1>4, <2>3, <2>4, CompareSwaps
<1>5. CASE SortPassEnd
  <2>1. UNCHANGED <<mode, before, payload, order>>
    BY <1>5 DEF SortPassEnd, fields
  <2>2. QED
    BY <1>2, <2>1
<1>6. CASE UNCHANGED vars
  BY <1>2, <1>6 DEF vars, fields, sortVars
<1>7. ASSUME NEW n \in Nodes, NEW p \in Payloads
      PROVE  ~LinkedList_Push(n, p) /\ ~LinkedList_Append(n, p)
  BY DEF LinkedList_Push, LinkedList_Append
<1>8. /\ ~LinkedList_Allocate /\ ~LinkedList_Pop /\ ~LinkedList_Slice
      /\ ~LinkedList_Free /\ ~FreeLoop /\ ~IteratorCalls
  BY DEF LinkedList_Allocate, LinkedList_Pop, LinkedList_Slice, LinkedList_Free,
         FreeLoop, FreeSweep, FreeRecord, IteratorCalls, LLIterator_Allocate,
         LLIterator_Free, LLIterator_Rewind, LLIterator_IsValid, LLIterator_Next,
         LLIterator_Get, LLIterator_Remove
<1>9. QED
  BY <1>3, <1>4, <1>5, <1>6, <1>7, <1>8 DEF Next, SortLoop

(* Every reachable state of the list satisfies the inductive invariant. *)
THEOREM Invariance == Spec => []IInv
<1>1. Init => IInv
  <2>1. Init => StableSoFar
    BY DEF Init, StableSoFar
  <2>2. QED
    BY <2>1, InitBase DEF IInv, Base
<1>2. IInv /\ [Next]_vars => IInv'
  BY NextBase, NextStable DEF IInv, Base
<1>3. QED
  BY <1>1, <1>2, PTL DEF Spec

(* LinkedList.c keeps one doubly linked chain of all its allocated nodes,  *)
(* for any number of nodes and any sequence of calls: nothing leaks, and   *)
(* neither the iterator nor the sort cursor dangles.                       *)
THEOREM ChainIntact == Spec => []Chain
<1>1. IInv => Chain
  BY DEF IInv
<1>2. QED
  BY <1>1, Invariance, PTL

(* When LinkedList_Sort returns, its payloads are in order and are the     *)
(* ones it was given, rearranged so that equal ones keep their order: for  *)
(* lists of any length and any comparator that is a key's order.           *)
THEOREM StableSort == Spec => SortedStably
<1> DEFINE Returned ==
       mode = "sorting" /\ mode' = "idle" =>
          /\ \A k \in 1..(Len(order) - 1) : ~MustSwap(Contents[k], Contents[k + 1])
          /\ StableRearrangement(before, Contents)
<1>1. IInv /\ [Next]_vars => [Returned]_vars
  <2> SUFFICES ASSUME IInv, Next, mode = "sorting", mode' = "idle"
               PROVE  /\ \A k \in 1..(Len(order) - 1) :
                            ~MustSwap(Contents[k], Contents[k + 1])
                      /\ StableRearrangement(before, Contents)
    OBVIOUS
  <2>1. Forward /\ order \in Seq(Nodes) /\ Len(order) \in Nat /\ DOMAIN order = 1..Len(order)
    BY DEF IInv, Chain, TypeOK
  <2>2. SortPassEnd
    <3>1. ASSUME NEW n \in Nodes, NEW p \in Payloads
          PROVE  ~LinkedList_Push(n, p) /\ ~LinkedList_Append(n, p)
      BY DEF LinkedList_Push, LinkedList_Append
    <3>2. ASSUME NEW asc \in BOOLEAN
          PROVE  ~LinkedList_Sort(asc)
      BY DEF LinkedList_Sort
    <3>3. /\ ~LinkedList_Allocate /\ ~LinkedList_Pop /\ ~LinkedList_Slice
          /\ ~LinkedList_Free /\ ~FreeLoop /\ ~IteratorCalls /\ ~SortCompare
      BY DEF LinkedList_Allocate, LinkedList_Pop, LinkedList_Slice, LinkedList_Free,
             FreeLoop, FreeSweep, FreeRecord, IteratorCalls, LLIterator_Allocate,
             LLIterator_Free, LLIterator_Rewind, LLIterator_IsValid, LLIterator_Next,
             LLIterator_Get, LLIterator_Remove, SortCompare
    <3>4. QED
      BY <3>1, <3>2, <3>3 DEF Next, SortLoop
  <2>3. next[curnode] = NULL /\ ~swapped
    BY <2>2 DEF SortPassEnd
  <2>4. PICK k \in DOMAIN order :
           /\ order[k] = curnode
           /\ \A j \in 1..(k - 1) : ~MustSwap(Contents[j], Contents[j + 1])
    BY <2>3 DEF IInv, PassSoFar
  <2>5. k = Len(order)
    <3>1. k # Len(order) => k + 1 \in 1..Len(order)
      BY <2>1
    <3>2. k # Len(order) => order[k + 1] # NULL
      BY <2>1, <3>1
    <3>3. next[order[k]] = IF k = Len(order) THEN NULL ELSE order[k + 1]
      BY <2>1 DEF Forward
    <3>4. QED
      BY <2>3, <2>4, <3>2, <3>3
  <2>6. QED
    BY <2>4, <2>5 DEF IInv, StableSoFar
<1>2. QED
  BY <1>1, Invariance, PTL DEF Spec, SortedStably

-----------------------------------------------------------------------------
(* LinkedList.c implements IterableList. *)

(* In a sequence without repetitions an element has one index. *)
LEMMA UniqueIndex ==
    ASSUME NEW s, \A j, k \in DOMAIN s : s[j] = s[k] => j = k,
           NEW i \in DOMAIN s
    PROVE  (CHOOSE k \in DOMAIN s : s[k] = s[i]) = i
  OBVIOUS

(* The iterator on the i-th node is at position i, before a step ... *)
LEMMA PositionAt ==
    ASSUME Forward, NEW i \in DOMAIN order, iter = order[i], iter # NULL
    PROVE  Position = i
<1>1. \A j, k \in DOMAIN order : order[j] = order[k] => j = k
  BY DEF Forward
<1>2. (CHOOSE k \in DOMAIN order : order[k] = order[i]) = i
  BY <1>1, UniqueIndex, Zenon
<1>3. QED
  BY <1>2 DEF Position

(* ... and after it. *)
LEMMA PositionAtNext ==
    ASSUME Forward', NEW i \in DOMAIN order', iter' = order'[i], iter' # NULL
    PROVE  Position' = i
<1>1. \A j, k \in DOMAIN order' : order'[j] = order'[k] => j = k
  BY DEF Forward
<1>2. (CHOOSE k \in DOMAIN order' : order'[k] = order'[i]) = i
  BY <1>1, UniqueIndex, Zenon
<1>3. QED
  BY <1>2 DEF Position

(* Unlinking a node takes its payload out of the list. *)
LEMMA ContentsUnlink ==
    ASSUME order \in Seq(Nodes), Forward, NEW i \in 1..Len(order), Unlinks(i),
           \A m \in live \ {order[i]} : payload'[m] = payload[m]
    PROVE  Contents' = RemoveAt(Contents, i)
<1>1. OneLess(i)
  BY UnlinkOrder
<1>2. /\ Contents \in Seq(Payloads) /\ Len(Contents) = Len(order) /\ Len(order) \in Nat
      /\ \A k \in 1..Len(order) : Contents[k] = payload[order[k]]
  BY ContentsAre
<1> DEFINE c == Contents
           d == RemoveAt(Contents, i)
           l == Len(order)
<1>3. /\ d \in Seq(Payloads) /\ Len(d) = l - 1
      /\ \A k \in 1..(l - 1) : d[k] = IF k < i THEN c[k] ELSE c[k + 1]
  BY <1>2, RemoveAtProperties
<1>4. ASSUME NEW k \in 1..(l - 1)
      PROVE  payload'[order'[k]] = d[k] /\ d[k] \in Payloads
  <2> DEFINE j == IF k < i THEN k ELSE k + 1
  <2>1. j \in 1..l /\ j # i /\ d[k] = c[j]
    BY <1>2, <1>3
  <2>2. order'[k] = order[j]
    BY <1>1 DEF OneLess
  <2>3. order[j] \in live \ {order[i]}
    BY <2>1 DEF Forward, ToSet
  <2>4. c[j] = payload[order[j]] /\ payload[order[j]] \in Payloads
    BY <1>2, <2>1 DEF Forward
  <2>5. QED
    BY <2>1, <2>2, <2>3, <2>4
<1>5. l - 1 \in Nat /\ Len(order') = l - 1
  BY <1>1 DEF OneLess
<1> HIDE DEF c, d, l
<1>6. Contents' = [k \in 1..(l - 1) |-> payload'[order'[k]]]
  BY <1>5 DEF Contents
<1>7. Contents' \in Seq(Payloads) /\ Len(Contents') = l - 1
  BY <1>4, <1>5, <1>6
<1>8. \A k \in 1..(l - 1) : Contents'[k] = d[k]
  BY <1>4, <1>6
<1>9. Contents' = d
  BY <1>3, <1>7, <1>8, SeqEqual
<1>10. QED
  BY <1>9 DEF d

(* Taking the first or the last node out. *)
LEMMA ContentsEnds ==
    ASSUME order \in Seq(Nodes), Forward, order # <<>>
    PROVE  /\ 1 \in 1..Len(order) /\ Len(order) \in 1..Len(order)
           /\ RemoveAt(order, 1) = Tail(order)
           /\ RemoveAt(order, Len(order)) = Front(order)
           /\ RemoveAt(Contents, 1) = Tail(Contents)
           /\ RemoveAt(Contents, Len(order)) = Front(Contents)
           /\ Head(Contents) = payload[order[1]]
           /\ Last(Contents) = payload[order[Len(order)]]
<1>1. /\ Contents \in Seq(Payloads) /\ Len(Contents) = Len(order) /\ Contents # <<>>
      /\ \A k \in 1..Len(order) : Contents[k] = payload[order[k]]
  BY ContentsAre
<1>2. 1 \in 1..Len(order) /\ Len(order) \in 1..Len(order)
  OBVIOUS
<1>3. /\ Tail(order) = RemoveAt(order, 1)
      /\ Front(order) = RemoveAt(order, Len(order))
  BY EndsAreRemoveAt
<1>4. /\ Tail(Contents) = RemoveAt(Contents, 1)
      /\ Front(Contents) = RemoveAt(Contents, Len(Contents))
  BY <1>1, EndsAreRemoveAt, Zenon
<1>5. Head(Contents) = Contents[1] /\ Last(Contents) = Contents[Len(Contents)]
  BY <1>1 DEF Last
<1>6. QED
  BY <1>1, <1>2, <1>3, <1>4, <1>5

(* LinkedList_Push and LinkedList_Append add the payload at an end. *)
LEMMA AddRefines ==
    ASSUME Base, NEW n \in Nodes, NEW p \in Payloads
    PROVE  /\ LinkedList_Push(n, p) => Abstract!Push(p)
           /\ LinkedList_Append(n, p) => Abstract!AppendPayload(p)
<1>1. /\ TypeOK /\ Forward /\ order \in Seq(Nodes)
      /\ mode = "idle" => Backward /\ iter = NULL
      /\ payload \in [Nodes -> Payloads \cup {Garbage}]
  BY DEF Base, Chain, TypeOK
<1>2. /\ Contents \in Seq(Payloads) /\ Len(Contents) = Len(order) /\ Len(order) \in Nat
      /\ \A k \in 1..Len(order) : Contents[k] = payload[order[k]]
  BY <1>1, ContentsAre
<1>3. \A k \in 1..Len(order) : order[k] \in live
  BY <1>1 DEF Forward, ToSet
<1> DEFINE l == Len(order)
<1>4. ASSUME LinkedList_Push(n, p)
      PROVE  Abstract!Push(p)
  <2>1. /\ mode = "idle" /\ iter = NULL /\ out' = Void
        /\ UNCHANGED <<iter, mode, ascending>>
        /\ n \notin live /\ payload' = [payload EXCEPT ![n] = p]
        /\ order' = <<n>> \o order
    BY <1>1, <1>4 DEF LinkedList_Push, NewNode, sortVars
  <2>2. /\ Len(order') = l + 1 /\ order'[1] = n
        /\ \A k \in 1..l : order'[k + 1] = order[k]
    BY <1>1, <2>1, PrependProperties
  <2> DEFINE d == <<p>> \o Contents
  <2>3. /\ d \in Seq(Payloads) /\ Len(d) = l + 1 /\ d[1] = p
        /\ \A k \in 1..l : d[k + 1] = Contents[k]
    BY <1>2, PrependProperties
  <2> HIDE DEF d, l
  <2>4. ASSUME NEW k \in 1..(l + 1)
        PROVE  payload'[order'[k]] = d[k] /\ d[k] \in Payloads
    <3>1. CASE k = 1
      BY <1>1, <2>1, <2>2, <2>3, <3>1
    <3>2. CASE k # 1
      <4>1. k - 1 \in 1..l /\ (k - 1) + 1 = k
        BY <1>2, <3>2 DEF l
      <4>2. order'[k] = order[k - 1] /\ d[k] = Contents[k - 1]
        BY <2>2, <2>3, <4>1
      <4>3. order[k - 1] # n /\ order[k - 1] \in Nodes
        BY <1>1, <1>3, <2>1, <4>1 DEF l
      <4>4. payload'[order[k - 1]] = payload[order[k - 1]]
        BY <1>1, <2>1, <4>3
      <4>5. Contents[k - 1] = payload[order[k - 1]] /\ Contents[k - 1] \in Payloads
        BY <1>2, <4>1 DEF l
      <4>6. QED
        BY <4>2, <4>4, <4>5
    <3>3. QED
      BY <3>1, <3>2
  <2>5. Contents' = [k \in 1..(l + 1) |-> payload'[order'[k]]] /\ l + 1 \in Nat
    BY <1>2, <2>2 DEF Contents, l
  <2>6. Contents' \in Seq(Payloads) /\ Len(Contents') = l + 1
    BY <2>4, <2>5
  <2>7. \A k \in 1..(l + 1) : Contents'[k] = d[k]
    BY <2>4, <2>5
  <2>8. Contents' = d
    BY <2>3, <2>6, <2>7, SeqEqual
  <2>9. Position' = Position
    BY <2>1 DEF Position
  <2>10. QED
    BY <2>1, <2>8, <2>9 DEF Abstract!Push, Void, d
<1>5. ASSUME LinkedList_Append(n, p)
      PROVE  Abstract!AppendPayload(p)
  <2>1. /\ mode = "idle" /\ iter = NULL /\ out' = Void
        /\ UNCHANGED <<iter, mode, ascending>>
        /\ n \notin live /\ payload' = [payload EXCEPT ![n] = p]
        /\ order' = Append(order, n)
    BY <1>1, <1>5 DEF LinkedList_Append, NewNode, sortVars
  <2>2. /\ Len(order') = l + 1 /\ order'[l + 1] = n
        /\ \A k \in 1..l : order'[k] = order[k]
    BY <1>1, <2>1
  <2> DEFINE d == Append(Contents, p)
  <2>3. /\ d \in Seq(Payloads) /\ Len(d) = l + 1 /\ d[l + 1] = p
        /\ \A k \in 1..l : d[k] = Contents[k]
    BY <1>2
  <2> HIDE DEF d, l
  <2>4. ASSUME NEW k \in 1..(l + 1)
        PROVE  payload'[order'[k]] = d[k] /\ d[k] \in Payloads
    <3>1. CASE k = l + 1
      BY <1>1, <2>1, <2>2, <2>3, <3>1
    <3>2. CASE k # l + 1
      <4>1. k \in 1..l
        BY <1>2, <3>2 DEF l
      <4>2. order'[k] = order[k] /\ d[k] = Contents[k]
        BY <2>2, <2>3, <4>1
      <4>3. order[k] # n /\ order[k] \in Nodes
        BY <1>1, <1>3, <2>1, <4>1 DEF l
      <4>4. payload'[order[k]] = payload[order[k]]
        BY <1>1, <2>1, <4>3
      <4>5. Contents[k] = payload[order[k]] /\ Contents[k] \in Payloads
        BY <1>2, <4>1 DEF l
      <4>6. QED
        BY <4>2, <4>4, <4>5
    <3>3. QED
      BY <3>1, <3>2
  <2>5. Contents' = [k \in 1..(l + 1) |-> payload'[order'[k]]] /\ l + 1 \in Nat
    BY <1>2, <2>2 DEF Contents, l
  <2>6. Contents' \in Seq(Payloads) /\ Len(Contents') = l + 1
    BY <2>4, <2>5
  <2>7. \A k \in 1..(l + 1) : Contents'[k] = d[k]
    BY <2>4, <2>5
  <2>8. Contents' = d
    BY <2>3, <2>6, <2>7, SeqEqual
  <2>9. Position' = Position
    BY <2>1 DEF Position
  <2>10. QED
    BY <2>1, <2>8, <2>9 DEF Abstract!AppendPayload, Void, d
<1>6. QED
  BY <1>4, <1>5

(* LinkedList_Pop, LinkedList_Slice and the sweep of LinkedList_Free take  *)
(* the payload at an end and hand it out.                                  *)
LEMMA TakeRefines ==
    ASSUME Base
    PROVE  /\ LinkedList_Pop => Abstract!Pop
           /\ LinkedList_Slice => Abstract!Slice
           /\ FreeSweep => Abstract!FreeStep
<1>1. /\ TypeOK /\ Forward /\ order \in Seq(Nodes)
      /\ mode = "idle" => Backward
      /\ mode \in {"idle", "freeing"} => iter = NULL
      /\ payload \in [Nodes -> Payloads \cup {Garbage}]
      /\ live \subseteq Nodes
  BY DEF Base, Chain, TypeOK
<1>2. Contents = <<>> <=> order = <<>>
  BY <1>1, ContentsAre
<1>3. mode = "idle" => (num_elements = 0 <=> order = <<>>)
  BY <1>1 DEF Backward
<1>4. ASSUME order # <<>>
      PROVE  /\ 1 \in 1..Len(order) /\ Len(order) \in 1..Len(order)
             /\ RemoveAt(order, 1) = Tail(order)
             /\ RemoveAt(order, Len(order)) = Front(order)
             /\ RemoveAt(Contents, 1) = Tail(Contents)
             /\ RemoveAt(Contents, Len(order)) = Front(Contents)
             /\ Head(Contents) = payload[order[1]]
             /\ Last(Contents) = payload[order[Len(order)]]
             /\ head = order[1]
             /\ mode = "idle" => tail = order[Len(order)]
  BY <1>1, <1>4, ContentsEnds DEF Forward, Backward
<1>5. ASSUME LinkedList_Pop
      PROVE  Abstract!Pop
  <2>1. mode = "idle" /\ iter = NULL /\ UNCHANGED <<iter, mode, ascending>>
    BY <1>1, <1>5 DEF LinkedList_Pop, sortVars
  <2>2. Position' = Position
    BY <2>1 DEF Position
  <2>3. CASE order = <<>>
    <3>1. out' = Ret(FALSE) /\ UNCHANGED <<payload, order>>
      BY <1>3, <1>5, <2>1, <2>3 DEF LinkedList_Pop, fields
    <3>2. Contents' = Contents
      BY <3>1 DEF Contents
    <3>3. QED
      BY <1>2, <2>1, <2>2, <2>3, <3>1, <3>2 DEF Abstract!Pop, Ret
  <2>4. CASE order # <<>>
    <3>1. /\ out' = Val(payload[head]) /\ order' = Tail(order)
          /\ live' = live \ {head} /\ payload' = [payload EXCEPT ![head] = Garbage]
      BY <1>3, <1>5, <2>1, <2>4 DEF LinkedList_Pop, FreeNode
    <3>2. Unlinks(1)
      BY <1>4, <2>4, <3>1 DEF Unlinks
    <3>3. \A m \in live \ {order[1]} : payload'[m] = payload[m]
      BY <1>1, <1>4, <2>4, <3>1
    <3>4. Contents' = Tail(Contents)
      BY <1>1, <1>4, <2>4, <3>2, <3>3, ContentsUnlink
    <3>5. QED
      BY <1>2, <1>4, <2>1, <2>2, <2>4, <3>1, <3>4 DEF Abstract!Pop, Val
  <2>5. QED
    BY <2>3, <2>4
<1>6. ASSUME LinkedList_Slice
      PROVE  Abstract!Slice
  <2>1. mode = "idle" /\ iter = NULL /\ UNCHANGED <<iter, mode, ascending>>
    BY <1>1, <1>6 DEF LinkedList_Slice, sortVars
  <2>2. Position' = Position
    BY <2>1 DEF Position
  <2>3. CASE order = <<>>
    <3>1. out' = Ret(FALSE) /\ UNCHANGED <<payload, order>>
      BY <1>3, <1>6, <2>1, <2>3 DEF LinkedList_Slice, fields
    <3>2. Contents' = Contents
      BY <3>1 DEF Contents
    <3>3. QED
      BY <1>2, <2>1, <2>2, <2>3, <3>1, <3>2 DEF Abstract!Slice, Ret
  <2>4. CASE order # <<>>
    <3>1. /\ out' = Val(payload[tail]) /\ order' = Front(order)
          /\ live' = live \ {tail} /\ payload' = [payload EXCEPT ![tail] = Garbage]
      BY <1>3, <1>6, <2>1, <2>4 DEF LinkedList_Slice, FreeNode
    <3>2. Unlinks(Len(order))
      BY <1>4, <2>1, <2>4, <3>1 DEF Unlinks
    <3>3. \A m \in live \ {order[Len(order)]} : payload'[m] = payload[m]
      BY <1>1, <1>4, <2>1, <2>4, <3>1
    <3>4. Contents' = Front(Contents)
      BY <1>1, <1>4, <2>4, <3>2, <3>3, ContentsUnlink
    <3>5. Front(Contents) = Abstract!Front(Contents) /\ Last(Contents) = Abstract!Last(Contents)
      BY DEF Front, Last, Abstract!Front, Abstract!Last
    <3>6. QED
      BY <1>2, <1>4, <2>1, <2>2, <2>4, <3>1, <3>4, <3>5 DEF Abstract!Slice, Val
  <2>5. QED
    BY <2>3, <2>4
<1>7. ASSUME FreeSweep
      PROVE  Abstract!FreeStep
  <2>1. /\ mode = "freeing" /\ iter = NULL /\ UNCHANGED <<iter, mode, ascending>>
        /\ head # NULL
        /\ out' = [Void EXCEPT !.freed = payload[head]] /\ order' = Tail(order)
        /\ live' = live \ {head} /\ payload' = [payload EXCEPT ![head] = Garbage]
    BY <1>1, <1>7 DEF FreeSweep, sortVars, FreeNode
  <2>2. Position' = Position
    BY <2>1 DEF Position
  <2>3. order # <<>>
    BY <1>1, <2>1 DEF Forward
  <2>4. Unlinks(1)
    BY <1>4, <2>1, <2>3 DEF Unlinks
  <2>5. \A m \in live \ {order[1]} : payload'[m] = payload[m]
    BY <1>1, <1>4, <2>1, <2>3
  <2>6. Contents' = Tail(Contents)
    BY <1>1, <1>4, <2>3, <2>4, <2>5, ContentsUnlink
  <2>7. QED
    BY <1>2, <1>4, <2>1, <2>2, <2>3, <2>6 DEF Abstract!FreeStep, Void
<1>8. QED
  BY <1>5, <1>6, <1>7

(* The iterator calls that only move or read. *)
LEMMA IteratorRefines ==
    ASSUME Base, Base'
    PROVE  /\ LLIterator_Allocate => Abstract!IterAllocate
           /\ LLIterator_Free => Abstract!IterFree
           /\ LLIterator_Rewind => Abstract!IterRewind
           /\ LLIterator_IsValid => Abstract!IterIsValid
           /\ LLIterator_Next => Abstract!IterNext
           /\ LLIterator_Get => Abstract!IterGet
<1>1. /\ TypeOK /\ Forward /\ Forward' /\ order \in Seq(Nodes)
      /\ mode \in {"idle", "iter"} => Backward
      /\ live \subseteq Nodes /\ NULL \notin live
      /\ iter \in live \cup {NULL}
  BY DEF Base, Chain, TypeOK
<1>2. /\ Contents = <<>> <=> order = <<>>
      /\ Len(Contents) = Len(order) /\ Len(order) \in Nat /\ DOMAIN order = 1..Len(order)
      /\ \A k \in 1..Len(order) : Contents[k] = payload[order[k]]
  BY <1>1, ContentsAre
<1>3. ASSUME UNCHANGED <<fields, order>>
      PROVE  /\ Contents' = Contents
             /\ iter' = iter => Position' = Position
             /\ iter' = head => Position' = Abstract!Start
  <2>1. order' = order /\ payload' = payload
    BY <1>3 DEF fields
  <2>2. ASSUME iter' = head
        PROVE  Position' = Abstract!Start
    <3>1. CASE order = <<>>
      BY <1>1, <1>2, <2>2, <3>1 DEF Forward, Position, Abstract!Start
    <3>2. CASE order # <<>>
      <4>1. head = order[1] /\ 1 \in DOMAIN order /\ order[1] # NULL
        BY <1>1, <3>2 DEF Forward
      <4>2. Position' = 1
        BY <1>1, <2>1, <2>2, <4>1, PositionAtNext
      <4>3. QED
        BY <1>2, <3>2, <4>2 DEF Abstract!Start
    <3>3. QED
      BY <3>1, <3>2
  <2>3. Contents' = Contents
    BY <2>1 DEF Contents
  <2>4. iter' = iter => Position' = Position
    BY <2>1 DEF Position
  <2>5. QED
    BY <2>2, <2>3, <2>4
<1>4. iter # NULL => /\ Position \in 1..Len(order) /\ Position # 0
                     /\ order[Position] = iter
  <2>1. iter # NULL => Position \in DOMAIN order /\ order[Position] = iter
    BY <1>1, PositionIs
  <2>2. QED
    BY <1>2, <2>1
<1>5. iter = NULL => Position = 0
  BY DEF Position
<1>6. LLIterator_Allocate => Abstract!IterAllocate
  BY <1>3 DEF LLIterator_Allocate, Abstract!IterAllocate, Void, sortVars
<1>7. LLIterator_Free => Abstract!IterFree
  BY <1>3 DEF LLIterator_Free, Abstract!IterFree, Void, sortVars, Position
<1>8. LLIterator_Rewind => Abstract!IterRewind
  BY <1>3 DEF LLIterator_Rewind, Abstract!IterRewind, Void, sortVars
<1>9. LLIterator_IsValid => Abstract!IterIsValid
  <2>1. (iter # NULL) <=> (Position # 0)
    BY <1>4, <1>5
  <2>2. Ret(iter # NULL) = Abstract!Ret(Position # 0)
    BY <2>1 DEF Ret, Abstract!Ret
  <2>3. QED
    BY <1>3, <2>2 DEF LLIterator_IsValid, Abstract!IterIsValid, sortVars
<1>10. ASSUME LLIterator_Next
       PROVE  Abstract!IterNext
  <2>1. /\ mode = "iter" /\ iter # NULL /\ iter' = next[iter]
        /\ out' = Ret(next[iter] # NULL)
        /\ UNCHANGED <<fields, mode, ascending, order>>
    BY <1>10 DEF LLIterator_Next, sortVars
  <2>2. /\ Position \in 1..Len(order) /\ Position # 0
        /\ next[iter] = IF Position = Len(order) THEN NULL ELSE order[Position + 1]
    BY <1>1, <1>2, <1>4, <2>1 DEF Forward
  <2>3. CASE Position = Len(order)
    <3>1. Position' = 0 /\ ~(Position < Len(Contents)) /\ ~(next[iter] # NULL)
      <4>1. ~(Position < Len(Contents)) /\ next[iter] = NULL
        BY <1>2, <2>2, <2>3
      <4>2. Position' = 0
        BY <2>1, <4>1 DEF Position
      <4>3. QED
        BY <4>1, <4>2
    <3>2. Ret(next[iter] # NULL) = Abstract!Ret(Position < Len(Contents))
      BY <3>1 DEF Ret, Abstract!Ret
    <3>3. QED
      BY <1>3, <2>1, <2>2, <3>1, <3>2 DEF Abstract!IterNext
  <2>4. CASE Position # Len(order)
    <3>1. Position + 1 \in 1..Len(order) /\ Position < Len(Contents)
      BY <1>2, <2>2, <2>4
    <3>2. next[iter] = order[Position + 1] /\ next[iter] # NULL
      BY <1>1, <2>2, <2>4, <3>1
    <3>3. Position' = Position + 1
      BY <1>1, <1>2, <2>1, <3>1, <3>2, PositionAtNext
    <3>4. Ret(next[iter] # NULL) = Abstract!Ret(Position < Len(Contents))
      BY <3>1, <3>2 DEF Ret, Abstract!Ret
    <3>5. QED
      BY <1>3, <2>1, <2>2, <3>1, <3>3, <3>4 DEF Abstract!IterNext
  <2>5. QED
    BY <2>3, <2>4
<1>11. ASSUME LLIterator_Get
       PROVE  Abstract!IterGet
  <2>1. /\ mode = "iter" /\ iter # NULL /\ out' = Val(payload[iter])
        /\ UNCHANGED <<fields, iter, mode, ascending, order>>
    BY <1>11 DEF LLIterator_Get, sortVars
  <2>2. Contents[Position] = payload[iter] /\ Position # 0
    BY <1>2, <1>4, <2>1
  <2>3. QED
    BY <1>3, <2>1, <2>2 DEF Abstract!IterGet, Val
<1>12. QED
  BY <1>6, <1>7, <1>8, <1>9, <1>10, <1>11

(* LLIterator_Remove leaves the iterator at the successor of what it       *)
(* removes, or at the new tail, or nowhere.                                *)
LEMMA RemoveRefines ==
    ASSUME Base, Base', LLIterator_Remove
    PROVE  Abstract!IterRemove
<1>1. /\ TypeOK /\ Forward /\ Forward' /\ Backward /\ order \in Seq(Nodes)
      /\ live \subseteq Nodes /\ NULL \notin live /\ iter \in live
      /\ mode = "iter" /\ iter # NULL
      /\ UNCHANGED <<mode, ascending>>
  BY DEF Base, Chain, TypeOK, LLIterator_Remove, sortVars
<1> DEFINE i == Position
           l == Len(order)
<1>2. i \in 1..l /\ order[i] = iter /\ DOMAIN order = 1..l /\ l \in Nat
  BY <1>1, PositionIs
<1>3. /\ Len(Contents) = l /\ \A k \in 1..l : Contents[k] = payload[order[k]]
  BY <1>1, ContentsAre
<1>4. /\ order' = RemoveAt(order, i)
      /\ live' = live \ {iter} /\ payload' = [payload EXCEPT ![iter] = Garbage]
  BY DEF LLIterator_Remove, RemoveOnly, RemoveHead, RemoveTail, RemoveMiddle, FreeNode
<1> HIDE DEF i, l
<1>5. Unlinks(i)
  BY <1>2, <1>4 DEF Unlinks
<1>6. Contents' = RemoveAt(Contents, i)
  <2>1. \A m \in live \ {order[i]} : payload'[m] = payload[m]
    BY <1>1, <1>2, <1>4 DEF TypeOK
  <2>2. QED
    BY <1>1, <1>2, <1>5, <2>1, ContentsUnlink DEF l
<1>7. RemoveAt(Contents, i) = Abstract!RemoveAt(Contents, i)
  BY DEF RemoveAt, Abstract!RemoveAt
<1>8. /\ DOMAIN order' = 1..(l - 1)
      /\ \A k \in 1..(l - 1) : order'[k] = IF k < i THEN order[k] ELSE order[k + 1]
  <2>1. OneLess(i)
    BY <1>1, <1>2, <1>5, UnlinkOrder DEF l
  <2>2. QED
    BY <2>1 DEF OneLess, l
<1>9. /\ num_elements = l
      /\ next[iter] = IF i = l THEN NULL ELSE order[i + 1]
      /\ prev[iter] = IF i = 1 THEN NULL ELSE order[i - 1]
      /\ i # l => order[i + 1] # NULL
      /\ i # 1 => order[i - 1] # NULL
  <2>1. /\ num_elements = l
        /\ next[iter] = IF i = l THEN NULL ELSE order[i + 1]
        /\ prev[iter] = IF i = 1 THEN NULL ELSE order[i - 1]
    BY <1>1, <1>2 DEF Forward, Backward, l
  <2>2. (i # l => i + 1 \in 1..l) /\ (i # 1 => i - 1 \in 1..l)
    BY <1>2
  <2>3. \A k \in 1..l : order[k] # NULL
    BY <1>1 DEF l
  <2>4. QED
    BY <2>1, <2>2, <2>3
<1>10. /\ Position' = IF i = l THEN i - 1 ELSE i
       /\ \/ ~(l > 1) /\ out' = Freed(FALSE, payload[iter])
          \/ l > 1 /\ out' = Freed(TRUE, payload[iter])
  <2>1. CASE RemoveOnly
    <3>1. l = 1 /\ i = 1 /\ iter' = NULL /\ out' = Freed(FALSE, payload[iter])
      BY <1>2, <1>9, <2>1 DEF RemoveOnly
    <3>2. QED
      BY <3>1 DEF Position
  <2>2. CASE RemoveHead
    <3>1. /\ l # 1 /\ prev[iter] = NULL /\ iter' = next[iter]
          /\ out' = Freed(TRUE, payload[iter])
      BY <1>9, <2>2 DEF RemoveHead
    <3>2. i = 1 /\ i # l /\ l > 1 /\ 1 \in 1..(l - 1)
      BY <1>2, <1>9, <3>1
    <3>3. iter' = order'[1] /\ iter' # NULL
      BY <1>8, <1>9, <3>1, <3>2
    <3>4. Position' = 1
      BY <1>1, <1>8, <3>2, <3>3, PositionAtNext
    <3>5. QED
      BY <3>1, <3>2, <3>4
  <2>3. CASE RemoveTail
    <3>1. /\ prev[iter] # NULL /\ next[iter] = NULL /\ iter' = prev[iter]
          /\ out' = Freed(TRUE, payload[iter])
      BY <2>3 DEF RemoveTail
    <3>2. i = l /\ i # 1 /\ l > 1 /\ i - 1 \in 1..(l - 1)
      BY <1>2, <1>9, <3>1
    <3>3. iter' = order'[i - 1] /\ iter' # NULL
      BY <1>2, <1>8, <1>9, <3>1, <3>2
    <3>4. Position' = i - 1
      BY <1>1, <1>8, <3>2, <3>3, PositionAtNext
    <3>5. QED
      BY <3>1, <3>2, <3>4
  <2>4. CASE RemoveMiddle
    <3>1. /\ prev[iter] # NULL /\ next[iter] # NULL /\ iter' = next[iter]
          /\ out' = Freed(TRUE, payload[iter])
      BY <2>4 DEF RemoveMiddle
    <3>2. i # l /\ l > 1 /\ i \in 1..(l - 1)
      BY <1>2, <1>9, <3>1
    <3>3. iter' = order'[i] /\ iter' # NULL
      BY <1>2, <1>8, <1>9, <3>1, <3>2
    <3>4. Position' = i
      BY <1>1, <1>8, <3>2, <3>3, PositionAtNext
    <3>5. QED
      BY <3>1, <3>2, <3>4
  <2>5. QED
    BY <2>1, <2>2, <2>3, <2>4 DEF LLIterator_Remove
<1>11. out' = Abstract!Freed(Len(Contents) > 1, Contents[i])
  <2>1. Contents[i] = payload[iter]
    BY <1>2, <1>3
  <2>2. QED
    BY <1>3, <1>10, <2>1 DEF Freed, Abstract!Freed, Abstract!Ret
<1>12. i # 0
  BY <1>2
<1>13. QED
  BY <1>1, <1>3, <1>6, <1>7, <1>10, <1>11, <1>12 DEF Abstract!IterRemove, i

(* LinkedList_Sort only ever exchanges neighbours that are out of order,   *)
(* and stops only when no two neighbours are.                              *)
LEMMA SortRefines ==
    ASSUME Base, Base'
    PROVE  /\ \A asc \in BOOLEAN : LinkedList_Sort(asc) => Abstract!SortBegin(asc)
           /\ SortCompare => Abstract!SortSwap \/ UNCHANGED Abstract!listVars
           /\ SortPassEnd => Abstract!SortEnd \/ UNCHANGED Abstract!listVars
<1>1. /\ TypeOK /\ Forward /\ order \in Seq(Nodes)
      /\ mode \in {"idle", "sorting"} => Backward /\ iter = NULL
  BY DEF Base, Chain, TypeOK
<1>2. /\ Len(Contents) = Len(order) /\ Len(order) \in Nat /\ DOMAIN order = 1..Len(order)
      /\ \A k \in 1..Len(order) : Contents[k] = payload[order[k]]
  BY <1>1, ContentsAre
<1> DEFINE l == Len(order)
<1>3. ASSUME NEW asc \in BOOLEAN, LinkedList_Sort(asc)
      PROVE  Abstract!SortBegin(asc)
  <2>1. UNCHANGED <<payload, order, iter>> /\ num_elements = Len(Contents) /\ mode = "idle"
    BY <1>1, <1>2, <1>3 DEF LinkedList_Sort, fields, Backward
  <2>2. Contents' = Contents /\ Position' = Position
    BY <2>1 DEF Contents, Position
  <2>3. Len(Contents) < 2 \/ Len(Contents) >= 2
    BY <1>2
  <2>4. QED
    BY <1>2, <1>3, <2>1, <2>2, <2>3 DEF LinkedList_Sort, Abstract!SortBegin, sortVars, Void
<1>4. ASSUME SortCompare
      PROVE  Abstract!SortSwap \/ UNCHANGED Abstract!listVars
  <2>1. /\ mode = "sorting" /\ iter = NULL
        /\ UNCHANGED <<iter, mode, ascending, out, order>>
    BY <1>1, <1>4 DEF SortCompare
  <2>2. Position' = Position
    BY <2>1 DEF Position
  <2>3. CASE Contents' = Contents
    BY <2>1, <2>2, <2>3 DEF Abstract!listVars
  <2>4. ASSUME NEW k \in 1..(l - 1), SwapsAt(k)
        PROVE  Abstract!SortSwap
    <3>1. k \in Abstract!Inversions
      BY <1>2, <2>4 DEF SwapsAt, Abstract!Inversions, Abstract!OutOfOrder, MustSwap
    <3>2. QED
      BY <2>1, <2>2, <2>4, <3>1 DEF SwapsAt, Abstract!SortSwap
  <2>5. QED
    BY <1>4, <2>3, <2>4, CompareSwaps
<1>5. ASSUME SortPassEnd
      PROVE  Abstract!SortEnd \/ UNCHANGED Abstract!listVars
  <2>1. /\ mode = "sorting" /\ next[curnode] = NULL
        /\ UNCHANGED <<payload, order, iter>>
    BY <1>5 DEF SortPassEnd, fields
  <2>2. Contents' = Contents /\ Position' = Position
    BY <2>1 DEF Contents, Position
  <2>3. CASE swapped
    BY <1>5, <2>2, <2>3 DEF SortPassEnd, Abstract!listVars
  <2>4. CASE ~swapped
    <3>1. PICK k \in DOMAIN order :
             /\ order[k] = curnode
             /\ \A j \in 1..(k - 1) : ~MustSwap(Contents[j], Contents[j + 1])
      BY <2>1, <2>4 DEF Base, PassSoFar
    <3>2. k = l
      <4>1. k # l => k + 1 \in 1..l
        BY <1>2
      <4>2. k # l => order[k + 1] # NULL
        BY <1>1, <4>1
      <4>3. next[order[k]] = IF k = l THEN NULL ELSE order[k + 1]
        BY <1>1 DEF Forward
      <4>4. QED
        BY <2>1, <3>1, <4>2, <4>3
    <3>3. Abstract!Inversions = {}
      BY <1>2, <3>1, <3>2 DEF Abstract!Inversions, Abstract!OutOfOrder, MustSwap
    <3>4. QED
      BY <1>5, <2>1, <2>2, <2>4, <3>3 DEF SortPassEnd, Abstract!SortEnd, Void
  <2>5. QED
    BY <2>3, <2>4
<1>6. QED
  BY <1>3, <1>4, <1>5

(* LinkedList.c implements what LinkedList.h promises, for any number of   *)
(* nodes and any payloads.                                                 *)
THEOREM Refinement == Spec => ImplementsIterableList
<1>1. Init => Abstract!Init
  BY DEF Init, Abstract!Init, Contents, Position, Void
<1>2. Base /\ Base' /\ [Next]_vars => [Abstract!Next]_Abstract!listVars
  <2> SUFFICES ASSUME Base, Base', [Next]_vars
               PROVE  Abstract!Next \/ UNCHANGED Abstract!listVars
    OBVIOUS
  <2> USE DEF Abstract!Next
  <2>1. ASSUME UNCHANGED <<fields, order, iter>>
        PROVE  Contents' = Contents /\ Position' = Position
    BY <2>1 DEF fields, Contents, Position
  <2>2. CASE LinkedList_Allocate
    BY <2>1, <2>2 DEF LinkedList_Allocate, Abstract!Allocate, Void, sortVars
  <2>3. ASSUME NEW n \in Nodes, NEW p \in Payloads,
               LinkedList_Push(n, p) \/ LinkedList_Append(n, p)
        PROVE  Abstract!Next
    BY <2>3, AddRefines
  <2>4. CASE LinkedList_Pop \/ LinkedList_Slice
    BY <2>4, TakeRefines
  <2>5. ASSUME NEW asc \in BOOLEAN, LinkedList_Sort(asc)
        PROVE  Abstract!Next
    BY <2>5, SortRefines
  <2>6. CASE SortCompare \/ SortPassEnd
    BY <2>6, SortRefines
  <2>7. CASE LinkedList_Free
    BY <2>1, <2>7 DEF LinkedList_Free, Abstract!FreeBegin, sortVars
  <2>8. CASE FreeSweep
    BY <2>8, TakeRefines
  <2>9. CASE FreeRecord
    <3>1. mode = "freeing" /\ order = <<>>
      BY <2>9 DEF FreeRecord, Base, Chain, Forward, TypeOK
    <3>2. Contents = <<>>
      BY <3>1 DEF Contents
    <3>3. QED
      BY <2>1, <2>9, <3>1, <3>2 DEF FreeRecord, Abstract!FreeEnd, Void, sortVars
  <2>10. CASE LLIterator_Allocate \/ LLIterator_Free \/ LLIterator_Rewind
              \/ LLIterator_IsValid \/ LLIterator_Next \/ LLIterator_Get
    BY <2>10, IteratorRefines
  <2>11. CASE LLIterator_Remove
    BY <2>11, RemoveRefines
  <2>12. CASE UNCHANGED vars
    BY <2>1, <2>12 DEF vars, Abstract!listVars, sortVars
  <2>13. QED
    BY <2>2, <2>3, <2>4, <2>5, <2>6, <2>7, <2>8, <2>9, <2>10, <2>11, <2>12
       DEF Next, SortLoop, FreeLoop, IteratorCalls
<1>3. IInv => Base
  BY DEF IInv, Base
<1>4. QED
  BY <1>1, <1>2, <1>3, Invariance, PTL DEF Spec, ImplementsIterableList, Abstract!Spec
=============================================================================
