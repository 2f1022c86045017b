---------------------------- MODULE SharedLemmas ----------------------------
(***************************************************************************)
(* Facts that several proof modules use: about least elements, sequences   *)
(* and recursive functions, and about the layout of an index file, for     *)
(* tables with any number of elements, of lengths that the file can hold.  *)
(***************************************************************************)
EXTENDS IndexLayout, SequenceTheorems, FunctionTheorems, FiniteSetTheorems,
        WellFoundedInduction, TLAPS

(* A set of naturals that is not empty has a least element. *)
LEMMA LeastNat ==
    ASSUME NEW T, T \subseteq Nat, T # {}
    PROVE  \E x \in T : \A y \in T : x <= y
<1>1. \E x \in T : \A y \in T : ~(<<y, x>> \in OpToRel(<, Nat))
  BY NatLessThanWellFounded, WFMin, Zenon
<1>2. PICK x \in T : \A y \in T : ~(<<y, x>> \in OpToRel(<, Nat))
  BY <1>1, Zenon
<1>3. ASSUME NEW y \in T
      PROVE  x <= y
  <2>1. x \in Nat /\ y \in Nat
    OBVIOUS
  <2>2. ~(y < x)
    BY <1>2, <2>1 DEF OpToRel
  <2>3. QED
    BY <2>1, <2>2
<1>4. QED
  BY <1>3

(* It is what Min finds. *)
LEMMA MinIs ==
    ASSUME NEW T, T \subseteq Nat, T # {}
    PROVE  Min(T) \in T /\ \A y \in T : Min(T) <= y
<1>1. \E x \in T : \A y \in T : x <= y
  BY LeastNat, Zenon
<1>2. QED
  BY <1>1, Zenon DEF Min

(* A set of naturals up to N that is not empty has a greatest element,     *)
(* which Max finds.                                                        *)
LEMMA MaxIs ==
    ASSUME NEW N \in Nat, NEW T, T \subseteq 0..N, T # {}
    PROVE  Max(T) \in T /\ \A y \in T : y <= Max(T)
<1> DEFINE U == {N - y : y \in T}
<1>1. U \subseteq Nat /\ U # {}
  <2>1. \A y \in T : N - y \in Nat
    OBVIOUS
  <2>2. U \subseteq Nat
    BY <2>1
  <2>3. PICK y \in T : TRUE
    OBVIOUS
  <2>4. N - y \in U
    BY <2>3
  <2>5. QED
    BY <2>2, <2>4
<1>2. PICK u \in U : \A v \in U : u <= v
  <2> HIDE DEF U
  <2>1. QED
    BY <1>1, LeastNat
<1>3. PICK x \in T : u = N - x
  BY <1>2
<1>4. ASSUME NEW y \in T
      PROVE  x >= y
  <2>1. N - y \in U /\ x \in 0..N /\ y \in 0..N
    OBVIOUS
  <2>2. N - x <= N - y
    BY <1>2, <1>3, <2>1
  <2>3. QED
    BY <2>1, <2>2
<1>5. \E z \in T : \A y \in T : z >= y
  BY <1>4
<1>6. Max(T) \in T /\ \A y \in T : Max(T) >= y
  BY <1>5, Zenon DEF Max
<1>7. QED
  BY <1>6

(* s without its i-th element. *)
LEMMA RemoveAtProperties ==
    ASSUME NEW S, NEW s \in Seq(S), NEW i \in 1..Len(s)
    PROVE  /\ RemoveAt(s, i) \in Seq(S)
           /\ Len(RemoveAt(s, i)) = Len(s) - 1
           /\ \A k \in 1..(Len(s) - 1) :
                 RemoveAt(s, i)[k] = IF k < i THEN s[k] ELSE s[k + 1]
<1> DEFINE a == SubSeq(s, 1, i - 1)
           b == SubSeq(s, i + 1, Len(s))
<1>1. /\ a \in Seq(S)
      /\ Len(a) = i - 1
      /\ \A k \in 1..(i - 1) : a[k] = s[k]
  OBVIOUS
<1>2. /\ b \in Seq(S)
      /\ Len(b) = Len(s) - i
      /\ \A k \in 1..(Len(s) - i) : b[k] = s[i + k]
  OBVIOUS
<1>3. RemoveAt(s, i) = a \o b
  BY DEF RemoveAt
<1> HIDE DEF a, b
<1>4. /\ a \o b \in Seq(S)
      /\ Len(a \o b) = Len(s) - 1
      /\ \A k \in 1..(Len(s) - 1) :
            (a \o b)[k] = IF k <= i - 1 THEN a[k] ELSE b[k - (i - 1)]
  <2>1. Len(a) + Len(b) = Len(s) - 1
    BY <1>1, <1>2
  <2>2. /\ a \o b \in Seq(S)
        /\ Len(a \o b) = Len(a) + Len(b)
        /\ \A k \in 1..(Len(a) + Len(b)) :
              (a \o b)[k] = IF k <= Len(a) THEN a[k] ELSE b[k - Len(a)]
    BY <1>1, <1>2, ConcatProperties, Zenon
  <2>3. QED
    BY <1>1, <2>1, <2>2
<1>5. ASSUME NEW k \in 1..(Len(s) - 1)
      PROVE  (a \o b)[k] = IF k < i THEN s[k] ELSE s[k + 1]
  <2> i \in Nat /\ k \in Nat /\ Len(s) \in Nat
    OBVIOUS
  <2>1. CASE k < i
    BY <1>1, <1>4, <2>1
  <2>2. CASE ~(k < i)
    <3>1. k - (i - 1) \in 1..(Len(s) - i)
      BY <2>2
    <3>2. b[k - (i - 1)] = s[k + 1]
      BY <1>2, <3>1
    <3>3. (a \o b)[k] = b[k - (i - 1)]
      BY <1>4, <2>2
    <3>4. QED
      BY <2>2, <3>2, <3>3
  <2>3. QED
    BY <2>1, <2>2, Zenon
<1>6. QED
  BY <1>3, <1>4, <1>5
-----------------------------------------------------------------------------
(* Induction and recursion. *)

(* Induction up to N, for a property given as the set of what has it. *)
LEMMA Induction ==
    ASSUME NEW N \in Nat, NEW T, 0 \in T, \A n \in 1..N : n - 1 \in T => n \in T
    PROVE  \A n \in 0..N : n \in T
<1> SUFFICES ASSUME NEW m \in 0..N, m \notin T PROVE FALSE
  OBVIOUS
<1> DEFINE U == {n \in 0..N : n \notin T}
<1>1. U \subseteq Nat /\ U # {}
  OBVIOUS
<1>2. PICK x \in U : \A y \in U : x <= y
  BY <1>1, LeastNat, Zenon
<1>3. x # 0 /\ x \in 1..N
  BY <1>2
<1>4. x - 1 \in 0..N /\ ~(x <= x - 1)
  BY <1>3
<1>5. x - 1 \in T
  BY <1>2, <1>4
<1>6. QED
  BY <1>3, <1>5

(* h is defined by recursion on 0..N. *)
Recursion(h, N, S, base, step) ==
    /\ h \in [0..N -> S]
    /\ h[0] = base
    /\ \A n \in 1..N : h[n] = step[<<n, h[n - 1]>>]

(* A step of a type can be repeated: the recursion has a solution. *)
LEMMA RecursionExists ==
    ASSUME NEW N \in Nat, NEW S, NEW base \in S, NEW step \in [(1..N) \X S -> S]
    PROVE  \E h : Recursion(h, N, S, base, step)
<1> DEFINE T == {m \in 0..N : \E h : Recursion(h, m, S, base, step)}
<1>1. 0 \in T
  <2>1. Recursion([n \in 0..0 |-> base], 0, S, base, step)
    BY DEF Recursion
  <2>2. 0 \in 0..N
    OBVIOUS
  <2>3. QED
    BY <2>1, <2>2, Zenon
<1>2. ASSUME NEW m \in 1..N, m - 1 \in T
      PROVE  m \in T
  <2>1. PICK h : Recursion(h, m - 1, S, base, step)
    BY <1>2, Zenon
  <2> DEFINE g == [n \in 0..m |-> IF n = m THEN step[<<m, h[m - 1]>>] ELSE h[n]]
  <2>2. m \in Nat /\ m - 1 \in 0..(m - 1) /\ h[m - 1] \in S /\ m # 0
    BY <2>1 DEF Recursion
  <2>3. g \in [0..m -> S]
    BY <2>1, <2>2 DEF Recursion
  <2>4. g[0] = base
    BY <2>1, <2>2 DEF Recursion
  <2>5. ASSUME NEW n \in 1..m
        PROVE  g[n] = step[<<n, g[n - 1]>>]
    <3>1. n - 1 \in 0..m /\ n - 1 # m /\ g[n - 1] = h[n - 1]
      BY <2>2
    <3>2. CASE n = m
      BY <3>1, <3>2
    <3>3. CASE n # m
      BY <2>1, <3>1, <3>3 DEF Recursion
    <3>4. QED
      BY <3>2, <3>3
  <2>6. Recursion(g, m, S, base, step)
    BY <2>3, <2>4, <2>5 DEF Recursion
  <2>7. m \in 0..N
    OBVIOUS
  <2>8. QED
    BY <2>6, <2>7, Zenon
<1> HIDE DEF T
<1>3. N \in T
  BY <1>1, <1>2, Induction
<1>4. QED
  BY <1>3 DEF T

-----------------------------------------------------------------------------
(* Concatenations. *)

(* The elements of a \o b are those of a and those of b. *)
LEMMA ConcatIs ==
    ASSUME NEW S, NEW a \in Seq(S), NEW b \in Seq(S)
    PROVE  /\ a \o b \in Seq(S)
           /\ Len(a \o b) = Len(a) + Len(b)
           /\ \A k \in 1..Len(a) : (a \o b)[k] = a[k]
           /\ \A k \in 1..Len(b) : (a \o b)[Len(a) + k] = b[k]
           /\ ToSet(a \o b) = ToSet(a) \cup ToSet(b)
<1>1. /\ a \o b \in Seq(S)
      /\ Len(a \o b) = Len(a) + Len(b)
      /\ \A k \in 1..(Len(a) + Len(b)) :
            (a \o b)[k] = IF k <= Len(a) THEN a[k] ELSE b[k - Len(a)]
  BY ConcatProperties, Zenon
<1>2. Len(a) \in Nat /\ Len(b) \in Nat /\ DOMAIN a = 1..Len(a) /\ DOMAIN b = 1..Len(b)
  OBVIOUS
<1>3. DOMAIN (a \o b) = 1..(Len(a) + Len(b))
  BY <1>1
<1>4. ASSUME NEW k \in 1..Len(a)
      PROVE  k \in 1..(Len(a) + Len(b)) /\ (a \o b)[k] = a[k]
  BY <1>1, <1>2
<1>5. ASSUME NEW k \in 1..Len(b)
      PROVE  Len(a) + k \in 1..(Len(a) + Len(b)) /\ (a \o b)[Len(a) + k] = b[k]
  <2>1. Len(a) + k \in 1..(Len(a) + Len(b)) /\ ~(Len(a) + k <= Len(a))
        /\ (Len(a) + k) - Len(a) = k
    BY <1>2
  <2>2. QED
    BY <1>1, <2>1
<1>6. ASSUME NEW k \in 1..(Len(a) + Len(b))
      PROVE  (a \o b)[k] \in ToSet(a) \cup ToSet(b)
  <2>1. CASE k <= Len(a)
    BY <1>1, <1>2, <2>1 DEF ToSet
  <2>2. CASE ~(k <= Len(a))
    <3>1. k - Len(a) \in 1..Len(b)
      BY <1>2, <2>2
    <3>2. QED
      BY <1>1, <1>2, <2>2, <3>1 DEF ToSet
  <2>3. QED
    BY <2>1, <2>2
<1>7. ToSet(a \o b) = ToSet(a) \cup ToSet(b)
  <2>1. ToSet(a \o b) \subseteq ToSet(a) \cup ToSet(b)
    BY <1>3, <1>6 DEF ToSet
  <2>2. ToSet(a) \subseteq ToSet(a \o b)
    BY <1>2, <1>3, <1>4 DEF ToSet
  <2>3. ToSet(b) \subseteq ToSet(a \o b)
    BY <1>2, <1>3, <1>5 DEF ToSet
  <2>4. QED
    BY <2>1, <2>2, <2>3
<1>8. QED
  BY <1>1, <1>4, <1>5, <1>7

(* As sets. *)
LEMMA ToSetConcat ==
    ASSUME NEW S, NEW a \in Seq(S), NEW b \in Seq(S)
    PROVE  a \o b \in Seq(S) /\ ToSet(a \o b) = ToSet(a) \cup ToSet(b)
  BY ConcatIs

-----------------------------------------------------------------------------
(* The bytes of a sequence of writes. *)

(* Bytes adds up the lengths, one write after another. *)
LEMMA BytesIs ==
    ASSUME NEW W, \A w \in W : w.len \in Nat, NEW ws \in Seq(W)
    PROVE  \E h \in [0..Len(ws) -> Nat] :
              /\ h[0] = 0
              /\ \A n \in 1..Len(ws) : h[n] = h[n - 1] + ws[n].len
              /\ Bytes(ws) = h[Len(ws)]
<1> DEFINE N == Len(ws)
           step == [x \in (1..N) \X Nat |-> x[2] + ws[x[1]].len]
           F(g) == [n \in 0..N |-> IF n = 0 THEN 0 ELSE g[n - 1] + ws[n].len]
           sum == CHOOSE g : g = F(g)
<1>1. N \in Nat /\ \A n \in 1..N : ws[n].len \in Nat
  OBVIOUS
<1> HIDE DEF N
<1>2. step \in [(1..N) \X Nat -> Nat]
  BY <1>1
<1>3. PICK h : Recursion(h, N, Nat, 0, step)
  <2> HIDE DEF step
  <2>1. 0 \in Nat
    OBVIOUS
  <2>2. QED
    BY <1>1, <1>2, <2>1, RecursionExists, Zenon
<1>4. h = F(h)
  <2>1. ASSUME NEW n \in 0..N
        PROVE  h[n] = IF n = 0 THEN 0 ELSE h[n - 1] + ws[n].len
    <3>1. CASE n = 0
      BY <1>3, <3>1 DEF Recursion
    <3>2. CASE n # 0
      <4>1. n \in 1..N /\ n - 1 \in 0..N
        BY <1>1, <3>2
      <4>2. h[n - 1] \in Nat
        BY <1>3, <4>1 DEF Recursion
      <4>3. step[<<n, h[n - 1]>>] = h[n - 1] + ws[n].len
        BY <4>1, <4>2
      <4>4. QED
        BY <1>3, <3>2, <4>1, <4>3 DEF Recursion
    <3>3. QED
      BY <3>1, <3>2
  <2>2. QED
    BY <1>3, <2>1 DEF Recursion
<1> HIDE DEF F
<1>5. sum = F(sum)
  BY <1>4
<1>6. Bytes(ws) = sum[N]
  BY DEF Bytes, F, N
<1>7. \A n \in 0..N : sum[n] = IF n = 0 THEN 0 ELSE sum[n - 1] + ws[n].len
  BY <1>5 DEF F
<1>8. \A n \in 0..N : sum[n] \in Nat
  <2> HIDE DEF sum
  <2> DEFINE T == {n \in 0..N : sum[n] \in Nat}
  <2>1. 0 \in T
    <3>1. 0 \in 0..N /\ 0 \in Nat
      BY <1>1
    <3>2. sum[0] = 0
      BY <1>7, <3>1, Zenon
    <3>3. QED
      BY <3>1, <3>2
  <2>2. ASSUME NEW n \in 1..N, n - 1 \in T
        PROVE  n \in T
    <3>1. n \in 0..N /\ n # 0 /\ sum[n - 1] \in Nat /\ ws[n].len \in Nat
      BY <1>1, <2>2
    <3>2. sum[n] = sum[n - 1] + ws[n].len
      BY <1>7, <3>1
    <3>3. QED
      BY <3>1, <3>2
  <2>3. \A n \in 0..N : n \in T
    <3> HIDE DEF T
    <3>1. QED
      BY <1>1, <2>1, <2>2, Induction
  <2>4. QED
    BY <2>3
<1>9. sum = [n \in 0..N |-> sum[n]]
  BY <1>5 DEF F
<1>10. sum \in [0..N -> Nat]
  BY <1>8, <1>9
<1>11. QED
  <2> HIDE DEF sum
  <2>1. \A n \in 1..N : sum[n] = sum[n - 1] + ws[n].len
    BY <1>1, <1>7
  <2>2. QED
    BY <1>1, <1>6, <1>7, <1>10, <2>1 DEF N

(* Whatever adds them up comes to the same. *)
LEMMA SumsIs ==
    ASSUME NEW W, \A w \in W : w.len \in Nat, NEW ws \in Seq(W), NEW g,
           g[0] = 0, \A n \in 1..Len(ws) : g[n] = g[n - 1] + ws[n].len
    PROVE  Bytes(ws) = g[Len(ws)]
<1> DEFINE N == Len(ws)
<1>1. PICK h \in [0..N -> Nat] :
         /\ h[0] = 0
         /\ \A n \in 1..N : h[n] = h[n - 1] + ws[n].len
         /\ Bytes(ws) = h[N]
  BY BytesIs
<1>2. N \in Nat
  OBVIOUS
<1>3. \A n \in 1..N : g[n] = g[n - 1] + ws[n].len
  OBVIOUS
<1> HIDE DEF N
<1> DEFINE T == {n \in 0..N : g[n] = h[n]}
<1>4. 0 \in T
  BY <1>1, <1>2
<1>5. ASSUME NEW n \in 1..N, n - 1 \in T
      PROVE  n \in T
  BY <1>1, <1>2, <1>3, <1>5
<1>6. \A n \in 0..N : n \in T
  <2> HIDE DEF T
  <2>1. QED
    BY <1>2, <1>4, <1>5, Induction
<1>7. QED
  BY <1>1, <1>2, <1>6 DEF N

(* Nothing, one write, one sequence of writes after another. *)
LEMMA BytesConcat ==
    ASSUME NEW W, \A w \in W : w.len \in Nat, NEW a \in Seq(W), NEW b \in Seq(W)
    PROVE  /\ Bytes(a) \in Nat
           /\ Bytes(a \o b) = Bytes(a) + Bytes(b)
           /\ Bytes(<<>>) = 0
           /\ \A w \in W : Bytes(<<w>>) = w.len
<1>1. PICK f \in [0..Len(a) -> Nat] :
         /\ f[0] = 0
         /\ \A n \in 1..Len(a) : f[n] = f[n - 1] + a[n].len
         /\ Bytes(a) = f[Len(a)]
  BY BytesIs
<1>2. PICK h \in [0..Len(b) -> Nat] :
         /\ h[0] = 0
         /\ \A n \in 1..Len(b) : h[n] = h[n - 1] + b[n].len
         /\ Bytes(b) = h[Len(b)]
  BY BytesIs
<1>3. Len(a) \in Nat /\ Len(b) \in Nat
  OBVIOUS
<1>4. Bytes(a) \in Nat
  BY <1>1, <1>3
<1>5. /\ a \o b \in Seq(W)
      /\ Len(a \o b) = Len(a) + Len(b)
      /\ \A k \in 1..Len(a) : (a \o b)[k] = a[k]
      /\ \A k \in 1..Len(b) : (a \o b)[Len(a) + k] = b[k]
  BY ConcatIs
<1>6. Bytes(a \o b) = Bytes(a) + Bytes(b)
  <2> DEFINE la == Len(a)
             lb == Len(b)
             c == a \o b
             g == [n \in 0..(la + lb) |-> IF n <= la THEN f[n] ELSE f[la] + h[n - la]]
  <2>1. g[0] = 0 /\ g[la + lb] = Bytes(a) + Bytes(b)
    <3>1. g[0] = 0
      BY <1>1, <1>3
    <3>2. CASE lb = 0
      BY <1>1, <1>2, <1>3, <3>2
    <3>3. CASE lb # 0
      <4>1. ~(la + lb <= la) /\ (la + lb) - la = lb /\ la + lb \in 0..(la + lb)
        BY <1>3, <3>3
      <4>2. QED
        BY <1>1, <1>2, <3>1, <4>1
    <3>4. QED
      BY <3>1, <3>2, <3>3
  <2>2. ASSUME NEW n \in 1..(la + lb)
        PROVE  g[n] = g[n - 1] + c[n].len
    <3>1. CASE n <= la
      <4>1. n \in 1..la /\ n - 1 \in 0..(la + lb) /\ n - 1 <= la
        BY <1>3, <3>1
      <4>2. c[n] = a[n]
        BY <1>5, <4>1
      <4>3. QED
        BY <1>1, <3>1, <4>1, <4>2
    <3>2. CASE ~(n <= la)
      <4> DEFINE m == n - la
      <4>1. m \in 1..lb /\ n = la + m /\ n - 1 \in 0..(la + lb)
        BY <1>3, <3>2
      <4>2. c[n] = b[m]
        BY <1>5, <4>1
      <4>3. h[m] = h[m - 1] + b[m].len /\ h[m - 1] \in Nat /\ f[la] \in Nat /\ h[0] = 0
        <5>1. m \in 1..Len(b) /\ m - 1 \in 0..Len(b) /\ Len(a) \in 0..Len(a)
          BY <1>3, <4>1
        <5> HIDE DEF m
        <5>2. QED
          BY <1>1, <1>2, <5>1
      <4>4. g[n] = f[la] + h[m]
        BY <3>2, <1>3
      <4>5. g[n - 1] = f[la] + h[m - 1]
        <5>1. CASE m = 1
          BY <1>3, <4>1, <4>3, <5>1
        <5>2. CASE m # 1
          BY <1>3, <4>1, <5>2
        <5>3. QED
          BY <5>1, <5>2
      <4>6. b[m].len \in Nat
        <5>1. b[m] \in W
          BY <4>1
        <5>2. QED
          BY <5>1
      <4> HIDE DEF m, g, c
      <4>7. QED
        BY <4>2, <4>3, <4>4, <4>5, <4>6
    <3>3. QED
      BY <3>1, <3>2
  <2>3. Len(c) = la + lb /\ c \in Seq(W)
    BY <1>5
  <2> HIDE DEF g, c, la, lb
  <2>4. Bytes(c) = g[Len(c)]
    BY <2>1, <2>2, <2>3, SumsIs
  <2>5. QED
    BY <2>1, <2>3, <2>4 DEF c
<1>7. Bytes(<<>>) = 0
  <2> DEFINE g == [n \in 0..0 |-> 0]
  <2>1. <<>> \in Seq(W) /\ Len(<<>>) = 0 /\ g[0] = 0
    OBVIOUS
  <2>2. \A n \in 1..Len(<<>>) : g[n] = g[n - 1] + <<>>[n].len
    BY <2>1
  <2> HIDE DEF g
  <2>3. Bytes(<<>>) = g[Len(<<>>)]
    BY <2>1, <2>2, SumsIs
  <2>4. QED
    BY <2>1, <2>3
<1>8. ASSUME NEW w \in W
      PROVE  Bytes(<<w>>) = w.len
  <2> DEFINE g == [n \in 0..1 |-> IF n = 0 THEN 0 ELSE w.len]
             s == <<w>>
  <2>1. s \in Seq(W) /\ Len(s) = 1 /\ s[1] = w /\ g[0] = 0 /\ g[1] = w.len /\ w.len \in Nat
    OBVIOUS
  <2>2. \A n \in 1..Len(s) : g[n] = g[n - 1] + s[n].len
    BY <2>1
  <2> HIDE DEF g, s
  <2>3. Bytes(s) = g[Len(s)]
    BY <2>1, <2>2, SumsIs
  <2>4. QED
    BY <2>1, <2>3 DEF s
<1>9. QED
  BY <1>4, <1>6, <1>7, <1>8

-----------------------------------------------------------------------------
(* Where writes are. *)

(* Writes of at least one byte, with data from D. *)
Writes(D) == [at : Nat, len : Nat \ {0}, seek : BOOLEAN, data : D]

(* Two writes have no byte in common; a write is inside a stretch; one     *)
(* ends there.                                                             *)
Apart(v, x) == v.at + v.len <= x.at \/ x.at + x.len <= v.at
Within(v, from, to) == from <= v.at /\ v.at + v.len <= to
EndsAt(ws, to) == \E v \in ToSet(ws) : v.at + v.len = to

(* No two writes of a sequence have a byte in common. *)
AllApart(ws) == \A j, k \in 1..Len(ws) : j # k => Apart(ws[j], ws[k])

(* The writes fill the bytes from `from' up to `to', each byte once. *)
Tiles(D, ws, from, to) ==
    /\ ws \in Seq(Writes(D))
    /\ from \in Nat /\ to \in Nat /\ from <= to
    /\ AllApart(ws)
    /\ \A v \in ToSet(ws) : Within(v, from, to)
    /\ Bytes(ws) = to - from
    /\ from < to => EndsAt(ws, to)

(* The fields of a write, and the two ways to make one. *)
LEMMA WriteIs ==
    ASSUME NEW D, NEW at \in Nat, NEW len \in Nat \ {0}, NEW d \in D
    PROVE  /\ Seek(at, len, d) \in Writes(D) /\ Write(at, len, d) \in Writes(D)
           /\ Seek(at, len, d).at = at /\ Seek(at, len, d).len = len
           /\ Seek(at, len, d).data = d
           /\ Write(at, len, d).at = at /\ Write(at, len, d).len = len
           /\ Write(at, len, d).data = d
           /\ \A v \in Writes(D) : v.at \in Nat /\ v.len \in Nat \ {0} /\ v.data \in D
  BY DEF Seek, Write, Writes

(* The same of a write that a name stands for, made by a seek ... *)
LEMMA SeekIs ==
    ASSUME NEW D, NEW at \in Nat, NEW len \in Nat \ {0}, NEW d \in D,
           NEW v, v = Seek(at, len, d)
    PROVE  v \in Writes(D) /\ v.at = at /\ v.len = len
  BY WriteIs

(* ... or without one. *)
LEMMA WroteIs ==
    ASSUME NEW D, NEW at \in Nat, NEW len \in Nat \ {0}, NEW d \in D,
           NEW v, v = Write(at, len, d)
    PROVE  v \in Writes(D) /\ v.at = at /\ v.len = len
  BY WriteIs

(* BytesConcat, for such writes. *)
LEMMA BytesOf ==
    ASSUME NEW D, NEW a \in Seq(Writes(D)), NEW b \in Seq(Writes(D))
    PROVE  /\ Bytes(a) \in Nat
           /\ Bytes(a \o b) = Bytes(a) + Bytes(b)
           /\ Bytes(<<>>) = 0
           /\ \A w \in Writes(D) : Bytes(<<w>>) = w.len
<1>1. \A w \in Writes(D) : w.len \in Nat
  BY DEF Writes
<1>2. QED
  BY <1>1, BytesConcat

(* A pair is one sequence after the other. *)
LEMMA PairIs ==
    ASSUME NEW v, NEW x
    PROVE  <<v, x>> = <<v>> \o <<x>>
<1> DEFINE a == <<v>>
           b == <<x>>
           c == <<v, x>>
           S == {v, x}
<1>1. /\ a \in Seq(S) /\ b \in Seq(S) /\ c \in Seq(S)
      /\ Len(a) = 1 /\ a[1] = v /\ Len(b) = 1 /\ b[1] = x
      /\ Len(c) = 2 /\ c[1] = v /\ c[2] = x
  OBVIOUS
<1> HIDE DEF a, b, c, S
<1>2. /\ a \o b \in Seq(S) /\ Len(a \o b) = Len(a) + Len(b)
      /\ \A k \in 1..Len(a) : (a \o b)[k] = a[k]
      /\ \A k \in 1..Len(b) : (a \o b)[Len(a) + k] = b[k]
  <2>1. a \in Seq(S) /\ b \in Seq(S)
    BY <1>1
  <2>2. QED
    BY <2>1, ConcatIs
<1>3. Len(a \o b) = 2 /\ (a \o b)[1] = v /\ (a \o b)[2] = x
  BY <1>1, <1>2
<1>4. Len(c) = Len(a \o b) /\ \A k \in 1..Len(c) : c[k] = (a \o b)[k]
  BY <1>1, <1>3
<1>5. c = a \o b
  BY <1>1, <1>2, <1>4, SeqEqual
<1>6. QED
  BY <1>5 DEF a, b, c

(* Two fwrites write their bytes. *)
LEMMA TwoBytes ==
    ASSUME NEW m \in Nat \ {0}, NEW n \in Nat, NEW p \in Nat, NEW q \in Nat
    PROVE  \A x, y : Bytes(<<Seek(p, m, x), Write(q, n, y)>>) = m + n
<1> SUFFICES ASSUME NEW x, NEW y
             PROVE  Bytes(<<Seek(p, m, x), Write(q, n, y)>>) = m + n
  OBVIOUS
<1> DEFINE v == Seek(p, m, x)
           w == Write(q, n, y)
           W == {v, w}
<1>1. v.len = m /\ w.len = n
  BY DEF Seek, Write
<1> HIDE DEF v, w
<1>2. \A z \in W : z.len \in Nat
  BY <1>1
<1>3. <<v>> \in Seq(W) /\ <<w>> \in Seq(W) /\ v \in W /\ w \in W
  OBVIOUS
<1>6. <<v, w>> = <<v>> \o <<w>>
  BY PairIs
<1> HIDE DEF W
<1>4. Bytes(<<v>> \o <<w>>) = Bytes(<<v>>) + Bytes(<<w>>) /\ Bytes(<<v>>) = v.len /\ Bytes(<<w>>) = w.len
  BY <1>2, <1>3, BytesConcat
<1>5. QED
  BY <1>1, <1>4, <1>6 DEF v, w

(* Writes apart from one another stay so when others come behind them that *)
(* are apart from them.                                                    *)
LEMMA ApartConcat ==
    ASSUME NEW D, NEW a \in Seq(Writes(D)), NEW b \in Seq(Writes(D)),
           AllApart(a), AllApart(b),
           \A v \in ToSet(a), x \in ToSet(b) : Apart(v, x)
    PROVE  AllApart(a \o b)
<1> DEFINE c == a \o b
<1>1. /\ Len(c) = Len(a) + Len(b)
      /\ \A k \in 1..Len(a) : c[k] = a[k]
      /\ \A k \in 1..Len(b) : c[Len(a) + k] = b[k]
  BY ConcatIs
<1>2. Len(a) \in Nat /\ Len(b) \in Nat /\ DOMAIN a = 1..Len(a) /\ DOMAIN b = 1..Len(b)
  OBVIOUS
<1> HIDE DEF c
<1>3. ASSUME NEW v, NEW x, Apart(v, x)
      PROVE  Apart(x, v)
  BY <1>3 DEF Apart
<1>4. ASSUME NEW j \in 1..Len(c)
      PROVE  \/ j \in 1..Len(a) /\ c[j] = a[j] /\ c[j] \in ToSet(a)
             \/ /\ ~(j \in 1..Len(a)) /\ j - Len(a) \in 1..Len(b)
                /\ c[j] = b[j - Len(a)] /\ c[j] \in ToSet(b)
  <2>1. CASE j <= Len(a)
    <3>1. j \in 1..Len(a)
      BY <1>1, <1>2, <2>1
    <3>2. QED
      BY <1>1, <1>2, <3>1 DEF ToSet
  <2>2. CASE ~(j <= Len(a))
    <3>1. j - Len(a) \in 1..Len(b) /\ j = Len(a) + (j - Len(a)) /\ ~(j \in 1..Len(a))
      BY <1>1, <1>2, <2>2
    <3>2. c[j] = b[j - Len(a)]
      BY <1>1, <3>1
    <3>3. b[j - Len(a)] \in ToSet(b)
      BY <1>2, <3>1 DEF ToSet
    <3>4. QED
      BY <3>1, <3>2, <3>3
  <2>3. QED
    BY <2>1, <2>2
<1>5. ASSUME NEW j \in 1..Len(c), NEW k \in 1..Len(c), j # k
      PROVE  Apart(c[j], c[k])
  <2>1. CASE j \in 1..Len(a) /\ k \in 1..Len(a)
    BY <1>4, <1>5, <2>1 DEF AllApart
  <2>2. CASE j \in 1..Len(a) /\ ~(k \in 1..Len(a))
    BY <1>4, <2>2
  <2>3. CASE ~(j \in 1..Len(a)) /\ k \in 1..Len(a)
    BY <1>3, <1>4, <2>3
  <2>4. CASE ~(j \in 1..Len(a)) /\ ~(k \in 1..Len(a))
    <3>1. j - Len(a) # k - Len(a)
      BY <1>1, <1>2, <1>5
    <3>2. QED
      BY <1>4, <2>4, <3>1 DEF AllApart
  <2>5. QED
    BY <2>1, <2>2, <2>3, <2>4
<1>6. QED
  BY <1>5 DEF AllApart, c

(* One write fills its bytes, none fill none. *)
LEMMA TileOne ==
    ASSUME NEW D, NEW v \in Writes(D)
    PROVE  /\ Tiles(D, <<v>>, v.at, v.at + v.len)
           /\ \A at \in Nat : Tiles(D, <<>>, at, at)
           /\ ToSet(<<v>>) = {v} /\ ToSet(<<>>) = {}
<1>1. v.at \in Nat /\ v.len \in Nat \ {0}
  BY DEF Writes
<1>2. <<v>> \in Seq(Writes(D)) /\ Len(<<v>>) = 1 /\ <<v>>[1] = v /\ <<>> \in Seq(Writes(D))
      /\ Len(<<>>) = 0
  OBVIOUS
<1>3. ToSet(<<v>>) = {v} /\ ToSet(<<>>) = {}
  BY <1>2 DEF ToSet
<1>4. AllApart(<<v>>) /\ AllApart(<<>>)
  BY <1>2 DEF AllApart
<1>5. Bytes(<<v>>) = v.len /\ Bytes(<<>>) = 0
  BY <1>2, BytesOf
<1>6. Tiles(D, <<v>>, v.at, v.at + v.len)
  BY <1>1, <1>2, <1>3, <1>4, <1>5 DEF Tiles, Within, EndsAt
<1>7. ASSUME NEW at \in Nat
      PROVE  Tiles(D, <<>>, at, at)
  BY <1>2, <1>3, <1>4, <1>5 DEF Tiles
<1>8. QED
  BY <1>3, <1>6, <1>7

(* The same of a sequence that a name stands for. *)
LEMMA OneTile ==
    ASSUME NEW D, NEW v \in Writes(D), NEW s, s = <<v>>
    PROVE  /\ Tiles(D, s, v.at, v.at + v.len) /\ ToSet(s) = {v}
           /\ s \in Seq(Writes(D)) /\ AllApart(s) /\ Bytes(s) = v.len
<1>1. Tiles(D, s, v.at, v.at + v.len) /\ ToSet(s) = {v}
  BY TileOne, Zenon
<1>2. v.at \in Nat /\ v.len \in Nat
  BY DEF Writes
<1>3. QED
  BY <1>1, <1>2 DEF Tiles

(* Writes that fill neighbouring stretches fill both, whichever go first. *)
LEMMA TilesJoin ==
    ASSUME NEW D, NEW a, NEW b, NEW from, NEW mid, NEW to,
           Tiles(D, a, from, mid), Tiles(D, b, mid, to)
    PROVE  Tiles(D, a \o b, from, to) /\ Tiles(D, b \o a, from, to)
<1>1. /\ a \in Seq(Writes(D)) /\ b \in Seq(Writes(D))
      /\ from \in Nat /\ mid \in Nat /\ to \in Nat /\ from <= mid /\ mid <= to
      /\ AllApart(a) /\ AllApart(b)
      /\ Bytes(a) = mid - from /\ Bytes(b) = to - mid
      /\ from < mid => EndsAt(a, mid)
      /\ mid < to => EndsAt(b, to)
  BY DEF Tiles
<1>2. /\ \A v \in ToSet(a) : v \in Writes(D) /\ Within(v, from, mid)
      /\ \A v \in ToSet(b) : v \in Writes(D) /\ Within(v, mid, to)
  BY <1>1 DEF Tiles, ToSet
<1>3. \A v \in Writes(D) : v.at \in Nat /\ v.len \in Nat
  BY DEF Writes
<1>4. /\ a \o b \in Seq(Writes(D)) /\ ToSet(a \o b) = ToSet(a) \cup ToSet(b)
      /\ b \o a \in Seq(Writes(D)) /\ ToSet(b \o a) = ToSet(b) \cup ToSet(a)
  BY <1>1, ConcatIs
<1>5. Bytes(a \o b) = to - from /\ Bytes(b \o a) = to - from
  <2>1. Bytes(a \o b) = Bytes(a) + Bytes(b) /\ Bytes(b \o a) = Bytes(b) + Bytes(a)
    BY <1>1, BytesOf
  <2>2. QED
    BY <1>1, <2>1
<1>6. ASSUME NEW v \in ToSet(a), NEW x \in ToSet(b)
      PROVE  Apart(v, x) /\ Apart(x, v)
  <2>1. Within(v, from, mid) /\ Within(x, mid, to)
        /\ v.at \in Nat /\ v.len \in Nat /\ x.at \in Nat /\ x.len \in Nat
    BY <1>2, <1>3
  <2>2. QED
    BY <1>1, <2>1 DEF Within, Apart
<1>7. AllApart(a \o b) /\ AllApart(b \o a)
  BY <1>1, <1>6, ApartConcat
<1>8. ASSUME NEW v \in ToSet(a) \cup ToSet(b)
      PROVE  Within(v, from, to)
  <2>1. v.at \in Nat /\ v.len \in Nat /\ (Within(v, from, mid) \/ Within(v, mid, to))
    BY <1>2, <1>3
  <2>2. QED
    BY <1>1, <2>1 DEF Within
<1>9. from < to => EndsAt(a \o b, to) /\ EndsAt(b \o a, to)
  <2>1. CASE mid < to
    BY <1>1, <1>4, <2>1 DEF EndsAt
  <2>2. CASE ~(mid < to)
    <3>1. mid = to
      BY <1>1, <2>2
    <3>2. QED
      BY <1>1, <1>4, <3>1 DEF EndsAt
  <2>3. QED
    BY <2>1, <2>2
<1>10. from <= to
  BY <1>1
<1>11. QED
  BY <1>1, <1>4, <1>5, <1>7, <1>8, <1>9, <1>10 DEF Tiles

-----------------------------------------------------------------------------
(* Directory: records, and behind them the items they point at. *)

(* In the middle of its loop the writes fill the records up to r and the   *)
(* items up to p.                                                          *)
Partial(D, ws, at, r, start, p) ==
    /\ ws \in Seq(Writes(D))
    /\ at \in Nat /\ r \in Nat /\ start \in Nat /\ p \in Nat
    /\ at <= r /\ r <= start /\ start <= p
    /\ AllApart(ws)
    /\ \A v \in ToSet(ws) : Within(v, at, r) \/ Within(v, start, p)
    /\ Bytes(ws) = (r - at) + (p - start)
    /\ at < r => EndsAt(ws, r)
    /\ start < p => EndsAt(ws, p)

(* One record and its item. *)
LEMMA PartialStep ==
    ASSUME NEW D, NEW ws, NEW at, NEW r, NEW start, NEW p, Partial(D, ws, at, r, start, p),
           NEW size \in Nat \ {0}, r + size <= start, NEW d \in D,
           NEW item, NEW q, Tiles(D, item, p, q)
    PROVE  /\ Partial(D, ws \o <<Seek(r, size, d)>> \o item, at, r + size, start, q)
           /\ ToSet(ws \o <<Seek(r, size, d)>> \o item)
                = ToSet(ws) \cup {Seek(r, size, d)} \cup ToSet(item)
<1> DEFINE v == Seek(r, size, d)
           a == ws \o <<v>>
           b == a \o item
<1>1. /\ ws \in Seq(Writes(D))
      /\ at \in Nat /\ r \in Nat /\ start \in Nat /\ p \in Nat
      /\ at <= r /\ r <= start /\ start <= p
      /\ AllApart(ws)
      /\ Bytes(ws) = (r - at) + (p - start)
      /\ start < p => EndsAt(ws, p)
  BY DEF Partial
<1>2. /\ item \in Seq(Writes(D)) /\ q \in Nat /\ p <= q
      /\ AllApart(item) /\ Bytes(item) = q - p
      /\ p < q => EndsAt(item, q)
  BY DEF Tiles
<1>3. /\ v \in Writes(D) /\ v.at = r /\ v.len = size
      /\ \A x \in Writes(D) : x.at \in Nat /\ x.len \in Nat
  <2>1. v = Seek(r, size, d)
    OBVIOUS
  <2> HIDE DEF v
  <2>2. v \in Writes(D) /\ v.at = r /\ v.len = size
    BY <1>1, <2>1, SeekIs
  <2>3. \A x \in Writes(D) : x.at \in Nat /\ x.len \in Nat
    BY DEF Writes
  <2>4. QED
    BY <2>2, <2>3
<1> HIDE DEF v
<1>4. /\ <<v>> \in Seq(Writes(D)) /\ ToSet(<<v>>) = {v} /\ AllApart(<<v>>)
      /\ Bytes(<<v>>) = size
  <2>1. v \in Writes(D) /\ v.len = size
    BY <1>3
  <2> DEFINE one == <<v>>
  <2>2. one = <<v>>
    OBVIOUS
  <2> HIDE DEF one
  <2>3. one \in Seq(Writes(D)) /\ ToSet(one) = {v} /\ AllApart(one) /\ Bytes(one) = v.len
    BY <2>1, <2>2, OneTile
  <2>4. QED
    BY <2>1, <2>2, <2>3, Zenon
<1>5. /\ a \in Seq(Writes(D)) /\ ToSet(a) = ToSet(ws) \cup {v}
      /\ Bytes(a) = Bytes(ws) + size
  <2>1. a \in Seq(Writes(D)) /\ ToSet(a) = ToSet(ws) \cup ToSet(<<v>>)
    BY <1>1, <1>4, ToSetConcat, ZenonT(40)
  <2>2. Bytes(a) = Bytes(ws) + Bytes(<<v>>)
    <3> DEFINE one == <<v>>
    <3> HIDE DEF one
    <3>1. one \in Seq(Writes(D)) /\ a = ws \o one
      BY <1>4 DEF one
    <3> HIDE DEF a
    <3>2. Bytes(a) = Bytes(ws) + Bytes(one)
      BY <1>1, <3>1, BytesOf
    <3>3. QED
      BY <3>2 DEF one
  <2>3. QED
    BY <1>4, <2>1, <2>2
<1>6. /\ \A x \in ToSet(ws) : /\ x \in Writes(D)
                              /\ Within(x, at, r) \/ Within(x, start, p)
      /\ \A x \in ToSet(item) : x \in Writes(D) /\ Within(x, p, q)
  <2>1. /\ \A x \in ToSet(ws) : Within(x, at, r) \/ Within(x, start, p)
        /\ \A x \in ToSet(item) : Within(x, p, q)
    BY Zenon DEF Partial, Tiles
  <2>2. /\ \A x \in ToSet(ws) : x \in Writes(D)
        /\ \A x \in ToSet(item) : x \in Writes(D)
    <3> HIDE DEF a, b
    <3>1. QED
      BY <1>1, <1>2 DEF ToSet
  <2>3. QED
    BY <2>1, <2>2
<1>7. AllApart(a)
  <2>1. ASSUME NEW x \in ToSet(ws)
        PROVE  Apart(x, v)
    <3>1. x.at \in Nat /\ x.len \in Nat /\ (Within(x, at, r) \/ Within(x, start, p))
      BY <1>3, <1>6
    <3>2. QED
      BY <1>1, <1>3, <3>1 DEF Within, Apart
  <2>2. \A x \in ToSet(ws), y \in ToSet(<<v>>) : Apart(x, y)
    BY <1>4, <2>1
  <2>3. QED
    BY <1>1, <1>4, <2>2, ApartConcat
<1> HIDE DEF a
<1>8. /\ b \in Seq(Writes(D)) /\ ToSet(b) = ToSet(a) \cup ToSet(item)
      /\ Bytes(b) = Bytes(a) + Bytes(item)
  <2>1. b \in Seq(Writes(D)) /\ ToSet(b) = ToSet(a) \cup ToSet(item)
    BY <1>2, <1>5, ConcatIs
  <2>2. Bytes(b) = Bytes(a) + Bytes(item)
    BY <1>2, <1>5, BytesOf
  <2>3. QED
    BY <2>1, <2>2
<1>9. AllApart(b)
  <2>1. ASSUME NEW x \in ToSet(a), NEW y \in ToSet(item)
        PROVE  Apart(x, y)
    <3>1. y.at \in Nat /\ y.len \in Nat /\ Within(y, p, q)
      BY <1>3, <1>6
    <3>2. CASE x = v
      BY <1>1, <1>3, <3>1, <3>2 DEF Within, Apart
    <3>3. CASE x \in ToSet(ws)
      <4>1. x.at \in Nat /\ x.len \in Nat /\ (Within(x, at, r) \/ Within(x, start, p))
        BY <1>3, <1>6, <3>3
      <4>2. QED
        BY <1>1, <3>1, <4>1 DEF Within, Apart
    <3>4. QED
      BY <1>5, <3>2, <3>3
  <2>2. QED
    BY <1>2, <1>5, <1>7, <2>1, ApartConcat
<1>10. ASSUME NEW x \in ToSet(b)
       PROVE  Within(x, at, r + size) \/ Within(x, start, q)
  <2>1. CASE x = v
    BY <1>1, <1>3, <2>1 DEF Within
  <2>2. CASE x \in ToSet(ws)
    <3>1. x.at \in Nat /\ x.len \in Nat /\ (Within(x, at, r) \/ Within(x, start, p))
      BY <1>3, <1>6, <2>2
    <3>2. QED
      BY <1>1, <1>2, <3>1 DEF Within
  <2>3. CASE x \in ToSet(item)
    <3>1. x.at \in Nat /\ x.len \in Nat /\ Within(x, p, q)
      BY <1>3, <1>6, <2>3
    <3>2. QED
      BY <1>1, <1>2, <3>1 DEF Within
  <2>4. QED
    BY <1>5, <1>8, <2>1, <2>2, <2>3
<1>11. Bytes(b) = ((r + size) - at) + (q - start)
  BY <1>1, <1>2, <1>5, <1>8
<1>12. EndsAt(b, r + size)
  BY <1>3, <1>5, <1>8 DEF EndsAt
<1>13. start < q => EndsAt(b, q)
  <2>1. CASE p < q
    BY <1>2, <1>8, <2>1 DEF EndsAt
  <2>2. CASE ~(p < q)
    <3>1. p = q
      BY <1>1, <1>2, <2>2
    <3>2. QED
      BY <1>1, <1>5, <1>8, <3>1 DEF EndsAt
  <2>3. QED
    BY <2>1, <2>2
<1>14. r + size \in Nat /\ at <= r + size /\ start <= q
  BY <1>1, <1>2
<1>15. Partial(D, b, at, r + size, start, q)
  BY <1>1, <1>2, <1>8, <1>9, <1>10, <1>11, <1>12, <1>13, <1>14 DEF Partial
<1>16. ToSet(b) = ToSet(ws) \cup {v} \cup ToSet(item)
  BY <1>5, <1>8
<1>17. QED
  BY <1>15, <1>16 DEF a, v

(* When all records are written, nothing is left free between them and the *)
(* items.                                                                  *)
LEMMA PartialEnd ==
    ASSUME NEW D, NEW ws, NEW at, NEW start, NEW p, Partial(D, ws, at, start, start, p)
    PROVE  Tiles(D, ws, at, p)
<1>1. /\ ws \in Seq(Writes(D))
      /\ at \in Nat /\ start \in Nat /\ p \in Nat
      /\ at <= start /\ start <= p
      /\ AllApart(ws)
      /\ Bytes(ws) = (start - at) + (p - start)
      /\ at < start => EndsAt(ws, start)
      /\ start < p => EndsAt(ws, p)
  BY DEF Partial
<1>2. ASSUME NEW v \in ToSet(ws)
      PROVE  Within(v, at, p)
  <2>1. v \in Writes(D) /\ (Within(v, at, start) \/ Within(v, start, p))
    BY <1>1 DEF Partial, ToSet
  <2>2. v.at \in Nat /\ v.len \in Nat
    BY <2>1 DEF Writes
  <2>3. QED
    BY <1>1, <2>1, <2>2 DEF Within
<1>3. Bytes(ws) = p - at /\ at <= p
  BY <1>1
<1>4. at < p => EndsAt(ws, p)
  <2>1. CASE start < p
    BY <1>1, <2>1
  <2>2. CASE ~(start < p)
    <3>1. start = p
      BY <1>1, <2>2
    <3>2. QED
      BY <1>1, <3>1
  <2>3. QED
    BY <2>1, <2>2
<1>5. QED
  BY <1>1, <1>2, <1>3, <1>4 DEF Tiles

(* What Directory may be given: data and items that fill the bytes from    *)
(* their position on.                                                      *)
Fits(D, data, item, m, o) ==
    data[m][o] \in D /\ Tiles(D, item[m][o], o, o + Bytes(item[m][o]))

(* All n of them do, wherever they are put. *)
Items(D, size, n, data, item) ==
    /\ size \in Nat \ {0}
    /\ n \in Nat
    /\ \A m \in 1..n, o \in Nat : Fits(D, data, item, m, o)

(* The states of its loop, and one iteration. *)
LoopStates(D) == [recordPos : Nat, itemPos : Nat, ws : Seq(Writes(D))]

(* A record is written for the m-th item, and the item at the end of those *)
(* before.                                                                 *)
Iteration(size, data, item, m, s) ==
    [recordPos |-> s.recordPos + size,
     itemPos   |-> s.itemPos + Bytes(item[m][s.itemPos]),
     ws |-> s.ws \o <<Seek(s.recordPos, size, data[m][s.itemPos])>> \o item[m][s.itemPos]]

(* The loop, as the states before and after each iteration. *)
IsLoop(D, loop, at, size, n, data, item) ==
    /\ loop \in [0..n -> LoopStates(D)]
    /\ loop[0] = DirectoryStart(at, size, n)
    /\ \A m \in 1..n : loop[m] = Iteration(size, data, item, m, loop[m - 1])

(* An iteration leads from a state to a state. *)
LEMMA IterationType ==
    ASSUME NEW D, NEW size, NEW n, NEW data, NEW item, Items(D, size, n, data, item),
           NEW m \in 1..n, NEW s \in LoopStates(D)
    PROVE  Iteration(size, data, item, m, s) \in LoopStates(D)
<1>1. s.recordPos \in Nat /\ s.itemPos \in Nat /\ s.ws \in Seq(Writes(D)) /\ size \in Nat \ {0}
  BY DEF LoopStates, Items
<1> DEFINE v == Seek(s.recordPos, size, data[m][s.itemPos])
           t == item[m][s.itemPos]
<1>2. Fits(D, data, item, m, s.itemPos)
  BY <1>1 DEF Items
<1>3. data[m][s.itemPos] \in D /\ t \in Seq(Writes(D)) /\ Bytes(t) \in Nat
  <2>1. data[m][s.itemPos] \in D /\ t \in Seq(Writes(D))
    BY <1>2 DEF Fits, Tiles
  <2>2. QED
    BY <2>1, BytesOf
<1>4. v \in Writes(D)
  BY <1>1, <1>3, WriteIs
<1> HIDE DEF v, t
<1>5. <<v>> \in Seq(Writes(D))
  BY <1>4
<1>6. s.ws \o <<v>> \o t \in Seq(Writes(D))
  BY <1>1, <1>3, <1>5, ToSetConcat
<1>7. Iteration(size, data, item, m, s)
        = [recordPos |-> s.recordPos + size, itemPos |-> s.itemPos + Bytes(t),
           ws |-> s.ws \o <<v>> \o t]
  BY DEF Iteration, v, t
<1> DEFINE u == s.ws \o <<v>> \o t
           r == s.recordPos + size
           p == s.itemPos + Bytes(t)
<1>8. u \in Seq(Writes(D)) /\ r \in Nat /\ p \in Nat
  BY <1>1, <1>3, <1>6
<1>9. Iteration(size, data, item, m, s) = [recordPos |-> r, itemPos |-> p, ws |-> u]
  BY <1>7
<1> HIDE DEF u, r, p
<1>10. QED
  BY <1>8, <1>9 DEF LoopStates

(* Directory is such a loop. *)
LEMMA DirectoryLoop ==
    ASSUME NEW D, NEW at \in Nat, NEW size, NEW n, NEW data, NEW item,
           Items(D, size, n, data, item)
    PROVE  \E loop : /\ IsLoop(D, loop, at, size, n, data, item)
                     /\ Directory(at, size, n, data, item) = loop[n].ws
<1> DEFINE S == LoopStates(D)
           base == DirectoryStart(at, size, n)
           It(m, s) == Iteration(size, data, item, m, s)
           step == [x \in (1..n) \X S |-> It(x[1], x[2])]
           F(g) == [m \in 0..n |-> IF m = 0 THEN base ELSE It(m, g[m - 1])]
           loop == CHOOSE g : g = F(g)
<1>1. n \in Nat /\ size \in Nat
  BY DEF Items
<1>2. base \in S
  BY <1>1 DEF LoopStates, DirectoryStart
<1>3. \A m \in 1..n, s \in S : It(m, s) \in S
  BY IterationType
<1>4. Directory(at, size, n, data, item) = loop[n].ws
  BY DEF Directory, Iteration
<1> HIDE DEF S, base, It
<1>5. step \in [(1..n) \X S -> S]
  BY <1>3
<1>6. PICK h : Recursion(h, n, S, base, step)
  <2> HIDE DEF step
  <2>1. QED
    BY <1>1, <1>2, <1>5, RecursionExists, Zenon
<1>7. h = F(h)
  <2>1. ASSUME NEW m \in 0..n
        PROVE  h[m] = IF m = 0 THEN base ELSE It(m, h[m - 1])
    <3>1. CASE m = 0
      BY <1>6, <3>1 DEF Recursion
    <3>2. CASE m # 0
      <4>1. m \in 1..n /\ m - 1 \in 0..n
        BY <1>1, <3>2
      <4>2. h[m - 1] \in S
        BY <1>6, <4>1 DEF Recursion
      <4>3. step[<<m, h[m - 1]>>] = It(m, h[m - 1])
        BY <4>1, <4>2
      <4>4. QED
        BY <1>6, <3>2, <4>1, <4>3 DEF Recursion
    <3>3. QED
      BY <3>1, <3>2
  <2>2. QED
    BY <1>6, <2>1 DEF Recursion
<1> HIDE DEF F
<1>8. loop = F(loop)
  BY <1>7
<1> HIDE DEF loop
<1>9. /\ loop = [m \in 0..n |-> loop[m]]
      /\ \A m \in 0..n : loop[m] = IF m = 0 THEN base ELSE It(m, loop[m - 1])
  BY <1>8 DEF F
<1>10. loop[0] = base /\ \A m \in 1..n : loop[m] = It(m, loop[m - 1])
  <2>1. 0 \in 0..n /\ \A m \in 1..n : m \in 0..n /\ m # 0
    BY <1>1
  <2>2. QED
    BY <1>9, <2>1, Zenon
<1>11. \A m \in 0..n : loop[m] \in S
  <2> DEFINE T == {m \in 0..n : loop[m] \in S}
  <2>1. 0 \in T
    BY <1>1, <1>2, <1>10
  <2>2. ASSUME NEW m \in 1..n, m - 1 \in T
        PROVE  m \in T
    BY <1>1, <1>3, <1>10, <2>2
  <2>3. \A m \in 0..n : m \in T
    <3> HIDE DEF T
    <3>1. QED
      BY <1>1, <2>1, <2>2, Induction
  <2>4. QED
    BY <2>3
<1>12. loop \in [0..n -> S]
  BY <1>9, <1>11
<1>13. IsLoop(D, loop, at, size, n, data, item)
  BY <1>10, <1>12 DEF IsLoop, S, base, It
<1>14. QED
  BY <1>4, <1>13

(* The records before m and after it. *)
LEMMA RecordOffsets ==
    ASSUME NEW size \in Nat \ {0}, NEW n \in Nat, NEW m \in 1..n
    PROVE  /\ size * m = size * (m - 1) + size
           /\ size * m \in Nat /\ size * (m - 1) \in Nat /\ size * n \in Nat
           /\ size * m <= size * n
           /\ size * 0 = 0
<1>1. size * m = size * (m - 1) + size /\ size * 0 = 0
  OBVIOUS
<1>2. size * n = size * m + size * (n - m)
  OBVIOUS
<1>3. \A a, b \in Nat : a * b \in Nat
  OBVIOUS
<1>4. size \in Nat /\ m \in Nat /\ m - 1 \in Nat /\ n - m \in Nat
  OBVIOUS
<1>5. size * m \in Nat /\ size * (m - 1) \in Nat /\ size * n \in Nat /\ size * (n - m) \in Nat
  BY <1>3, <1>4
<1>6. size * m <= size * n
  BY <1>2, <1>5
<1>7. QED
  BY <1>1, <1>5, <1>6

(* After m iterations: where each of the items is, up to p. *)
Placed(ws, at, size, n, data, item, pos, m, p) ==
    \A j \in 1..m :
        /\ Seek(at + size * (j - 1), size, data[j][pos[j]]) \in ToSet(ws)
        /\ ToSet(item[j][pos[j]]) \subseteq ToSet(ws)
        /\ at + size * n <= pos[j]
        /\ pos[j] + Bytes(item[j][pos[j]]) <= p

(* The items follow one another behind the records. *)
InOrder(at, size, n, item, pos) ==
    /\ n > 0 => pos[1] = at + size * n
    /\ \A j, m \in 1..n : j < m => pos[j] + Bytes(item[j][pos[j]]) <= pos[m]

(* The loop fills the bytes from `at' on: every record says where its item *)
(* is, and the items follow one another.                                   *)
LEMMA DirectoryLaid ==
    ASSUME NEW D, NEW at \in Nat, NEW size, NEW n, NEW data, NEW item,
           Items(D, size, n, data, item)
    PROVE  \E pos \in [1..n -> Nat] :
              LET ws == Directory(at, size, n, data, item)
                  to == at + Bytes(ws)
              IN  /\ Tiles(D, ws, at, to)
                  /\ Placed(ws, at, size, n, data, item, pos, n, to)
                  /\ InOrder(at, size, n, item, pos)
<1>1. PICK loop : /\ IsLoop(D, loop, at, size, n, data, item)
                  /\ Directory(at, size, n, data, item) = loop[n].ws
  BY DirectoryLoop
<1> DEFINE pos == [m \in 1..n |-> loop[m - 1].itemPos]
           R(m) == at + size * m
           Done(m) == /\ loop[m].recordPos = R(m)
                      /\ Partial(D, loop[m].ws, at, R(m), R(n), loop[m].itemPos)
                      /\ Placed(loop[m].ws, at, size, n, data, item, pos, m, loop[m].itemPos)
           T == {m \in 0..n : Done(m)}
<1>2. n \in Nat /\ size \in Nat \ {0} /\ R(n) \in Nat
  BY DEF Items
<1>3. /\ \A m \in 0..n : loop[m].recordPos \in Nat /\ loop[m].itemPos \in Nat
                         /\ loop[m].ws \in Seq(Writes(D))
      /\ loop[0] = DirectoryStart(at, size, n)
      /\ \A m \in 1..n : loop[m] = Iteration(size, data, item, m, loop[m - 1])
  BY <1>1 DEF IsLoop, LoopStates
<1>4. /\ \A m \in 1..n : m - 1 \in 0..n /\ m \in 0..n
      /\ pos \in [1..n -> Nat]
      /\ \A m \in 1..n : pos[m] = loop[m - 1].itemPos
  BY <1>2, <1>3
<1>5. Done(0)
  <2>1. loop[0].recordPos = at /\ loop[0].itemPos = R(n) /\ loop[0].ws = <<>> /\ R(0) = at
    BY <1>2, <1>3 DEF DirectoryStart
  <2>2. Tiles(D, <<>>, at, at)
    <3>1. <<>> \in Seq(Writes(D)) /\ ToSet(<<>>) = {} /\ Len(<<>>) = 0
      BY DEF ToSet
    <3>2. Bytes(<<>>) = 0
      BY <3>1, BytesOf
    <3>3. QED
      BY <3>1, <3>2 DEF Tiles, AllApart
  <2>3. ToSet(<<>>) = {}
    BY DEF ToSet
  <2>4. R(n) >= at
    BY <1>2
  <2> HIDE DEF R
  <2>5. Partial(D, <<>>, at, at, R(n), R(n))
    BY <1>2, <2>2, <2>3, <2>4 DEF Partial, Tiles
  <2>6. Placed(<<>>, at, size, n, data, item, pos, 0, R(n))
    BY DEF Placed
  <2>7. QED
    BY <2>1, <2>5, <2>6
<1>6. ASSUME NEW m \in 1..n, Done(m - 1)
      PROVE  Done(m)
  <2> DEFINE s == loop[m - 1]
             r == s.recordPos
             p == s.itemPos
             d == data[m][p]
             t == item[m][p]
             q == p + Bytes(t)
             new == s.ws \o <<Seek(r, size, d)>> \o t
  <2>1. /\ R(m) = R(m - 1) + size /\ R(m) <= R(n) /\ R(m - 1) \in Nat
        /\ size * m \in Nat
    BY <1>2, RecordOffsets
  <2>2. /\ r = R(m - 1)
        /\ Partial(D, s.ws, at, R(m - 1), R(n), p)
        /\ Placed(s.ws, at, size, n, data, item, pos, m - 1, p)
    BY <1>6
  <2>3. p \in Nat /\ m - 1 \in 0..n /\ pos[m] = p
    BY <1>3, <1>4
  <2>4. d \in D /\ Tiles(D, t, p, q) /\ q \in Nat
    <3>1. Fits(D, data, item, m, p)
      BY <2>3 DEF Items
    <3>2. QED
      BY <3>1 DEF Fits, Tiles
  <2>5. loop[m].recordPos = r + size /\ loop[m].itemPos = q /\ loop[m].ws = new
    <3>1. loop[m] = [recordPos |-> r + size, itemPos |-> q, ws |-> new]
      BY <1>3, Zenon DEF Iteration
    <3> HIDE DEF s, r, p, d, t, q, new
    <3>2. QED
      BY <3>1
  <2> HIDE DEF R
  <2>6. /\ Partial(D, new, at, R(m), R(n), q)
        /\ ToSet(new) = ToSet(s.ws) \cup {Seek(r, size, d)} \cup ToSet(t)
    <3>1. Partial(D, s.ws, at, r, R(n), p) /\ r + size <= R(n)
      BY <2>1, <2>2
    <3> HIDE DEF s, r, p, d, t, q
    <3>2. /\ Partial(D, new, at, r + size, R(n), q)
          /\ ToSet(new) = ToSet(s.ws) \cup {Seek(r, size, d)} \cup ToSet(t)
      BY <1>2, <2>4, <3>1, PartialStep
    <3>3. QED
      BY <2>1, <2>2, <3>2
  <2>7. R(n) <= p
    BY <2>2 DEF Partial
  <2>8. p <= q
    BY <2>4 DEF Tiles
  <2>9. ASSUME NEW j \in 1..m
        PROVE  /\ Seek(at + size * (j - 1), size, data[j][pos[j]]) \in ToSet(new)
               /\ ToSet(item[j][pos[j]]) \subseteq ToSet(new)
               /\ at + size * n <= pos[j]
               /\ pos[j] + Bytes(item[j][pos[j]]) <= q
    <3>1. CASE j = m
      <4>1. Seek(at + size * (j - 1), size, data[j][pos[j]]) = Seek(r, size, d)
        BY <2>2, <2>3, <3>1 DEF R
      <4>2. item[j][pos[j]] = t /\ pos[j] = p
        BY <2>3, <3>1
      <4> HIDE DEF s, new, pos, r, d, t
      <4>3. QED
        BY <2>6, <2>7, <2>4, <4>1, <4>2 DEF R, q
    <3>2. CASE j # m
      <4>1. j \in 1..(m - 1) /\ j \in 1..n
        BY <3>2, <1>2
      <4>2. pos[j] \in Nat
        BY <1>4, <4>1
      <4>3. /\ Seek(at + size * (j - 1), size, data[j][pos[j]]) \in ToSet(s.ws)
            /\ ToSet(item[j][pos[j]]) \subseteq ToSet(s.ws)
            /\ at + size * n <= pos[j]
            /\ pos[j] + Bytes(item[j][pos[j]]) <= p
        <5> HIDE DEF s, p, pos
        <5>1. QED
          BY <2>2, <4>1, Zenon DEF Placed
      <4>4. Bytes(item[j][pos[j]]) \in Nat
        <5>1. Fits(D, data, item, j, pos[j])
          BY <4>1, <4>2 DEF Items
        <5>2. item[j][pos[j]] \in Seq(Writes(D))
          BY <5>1 DEF Fits, Tiles
        <5>3. QED
          BY <5>2, BytesOf
      <4> HIDE DEF s, p, q, new, pos, r, d, t
      <4>5. ToSet(s.ws) \subseteq ToSet(new)
        BY <2>6
      <4>6. pos[j] + Bytes(item[j][pos[j]]) <= q
        BY <2>3, <2>4, <2>8, <4>2, <4>3, <4>4
      <4>7. QED
        BY <4>3, <4>5, <4>6, Zenon
    <3>3. QED
      BY <3>1, <3>2, Zenon
  <2>10. Placed(new, at, size, n, data, item, pos, m, q)
    <3> HIDE DEF s, p, q, new, pos, r, d, t
    <3>1. QED
      BY <2>9, Zenon DEF Placed
  <2> HIDE DEF s, p, q, new, pos, r, d, t
  <2>11. QED
    BY <2>1, <2>2, <2>5, <2>6, <2>10
<1>7. \A m \in 0..n : Done(m)
  <2>1. 0 \in T
    BY <1>2, <1>5
  <2>2. ASSUME NEW m \in 1..n, m - 1 \in T
        PROVE  m \in T
    BY <1>4, <1>6, <2>2
  <2>3. \A m \in 0..n : m \in T
    <3> HIDE DEF T
    <3>1. QED
      BY <1>2, <2>1, <2>2, Induction
  <2>4. QED
    BY <2>3
<1> DEFINE ws == Directory(at, size, n, data, item)
           to == at + Bytes(ws)
<1>8. n \in 0..n /\ Done(n) /\ ws = loop[n].ws
  <2>1. n \in 0..n
    BY <1>2
  <2> HIDE DEF Done
  <2>2. QED
    BY <1>1, <1>7, <2>1
<1>9. Tiles(D, ws, at, loop[n].itemPos)
  <2> HIDE DEF R, ws
  <2>1. QED
    BY <1>8, PartialEnd
<1>10. to = loop[n].itemPos
  <2> HIDE DEF ws
  <2>1. Bytes(ws) = loop[n].itemPos - at
    BY <1>9 DEF Tiles
  <2>2. loop[n].itemPos \in Nat
    BY <1>3, <1>8
  <2>3. QED
    BY <2>1, <2>2
<1>11. InOrder(at, size, n, item, pos)
  <2>1. ASSUME NEW j \in 1..n, NEW m \in 1..n, j < m
        PROVE  pos[j] + Bytes(item[j][pos[j]]) <= pos[m]
    <3>1. m - 1 \in 0..n /\ j \in 1..(m - 1)
      BY <1>2, <2>1
    <3>2. Placed(loop[m - 1].ws, at, size, n, data, item, pos, m - 1, loop[m - 1].itemPos)
      BY <1>7, <3>1
    <3>3. pos[m] = loop[m - 1].itemPos
      BY <1>4
    <3> HIDE DEF pos
    <3>4. QED
      BY <3>1, <3>2, <3>3 DEF Placed
  <2>2. n > 0 => pos[1] = at + size * n
    BY <1>2, <1>3 DEF DirectoryStart
  <2> HIDE DEF pos
  <2>3. QED
    BY <2>1, <2>2 DEF InOrder
<1>12. Tiles(D, ws, at, to) /\ Placed(ws, at, size, n, data, item, pos, n, to)
  <2> HIDE DEF ws, to, pos
  <2>1. QED
    BY <1>8, <1>9, <1>10
<1> HIDE DEF pos
<1>13. QED
  BY <1>4, <1>11, <1>12

-----------------------------------------------------------------------------
(* Hash tables in the file. *)

(* Whatever the structs of the layout may hold. *)
IsData(D) ==
    \A j, k \in Nat : /\ [numBuckets |-> k] \in D
                      /\ [chainNumElements |-> j, position |-> k] \in D
                      /\ [position |-> k] \in D
                      /\ [docID |-> j, filenameBytes |-> k] \in D
                      /\ [docID |-> j, numPositions |-> k] \in D
                      /\ [wordBytes |-> j, postingsBytes |-> k] \in D

(* What an element is written as fills the bytes from its position on. *)
ElementsFit(D, fn, E) ==
    \A e \in E, o \in Nat : Tiles(D, fn[e][o], o, o + Bytes(fn[e][o]))

(* The element records of a bucket and the elements are among ws, and      *)
(* behind the records, up to `to'.                                         *)
BucketAt(ws, at, chain, fn, pos, to) ==
    /\ pos \in [1..Len(chain) -> Nat]
    /\ \A j \in 1..Len(chain) :
          /\ Seek(at + ElementRecordSize * (j - 1), ElementRecordSize, [position |-> pos[j]]) \in ws
          /\ ToSet(fn[chain[j]][pos[j]]) \subseteq ws
          /\ at + ElementRecordSize * Len(chain) <= pos[j]
          /\ pos[j] + Bytes(fn[chain[j]][pos[j]]) <= to

(* A bucket fills its bytes, and they are more than none if it has         *)
(* elements.                                                               *)
LEMMA BucketLaid ==
    ASSUME NEW D, IsData(D), NEW at \in Nat, NEW E, NEW chain \in Seq(E), NEW fn,
           ElementsFit(D, fn, E)
    PROVE  LET ws == WriteHTBucket(at, chain, fn)
               to == at + Bytes(ws)
           IN  /\ Tiles(D, ws, at, to)
               /\ \E pos : BucketAt(ToSet(ws), at, chain, fn, pos, to)
               /\ Len(chain) > 0 => at < to
<1> DEFINE n == Len(chain)
           data == [m \in 1..n |-> [o \in Nat |-> [position |-> o]]]
           item == [m \in 1..n |-> fn[chain[m]]]
           size == ElementRecordSize
           ws == WriteHTBucket(at, chain, fn)
           to == at + Bytes(ws)
<1>1. n \in Nat /\ size \in Nat \ {0} /\ \A m \in 1..n : chain[m] \in E
  BY DEF ElementRecordSize
<1>2. ws = Directory(at, size, n, data, item)
  BY DEF WriteHTBucket
<1>3. \A m \in 1..n, o \in Nat : data[m][o] = [position |-> o] /\ item[m][o] = fn[chain[m]][o]
  OBVIOUS
<1> HIDE DEF n, size, data, item, ws
<1>4. Items(D, size, n, data, item)
  <2>1. ASSUME NEW m \in 1..n, NEW o \in Nat
        PROVE  Fits(D, data, item, m, o)
    <3>1. data[m][o] \in D
      BY <1>3 DEF IsData
    <3>2. Tiles(D, fn[chain[m]][o], o, o + Bytes(fn[chain[m]][o]))
      BY <1>1 DEF ElementsFit
    <3>3. QED
      BY <1>3, <3>1, <3>2 DEF Fits
  <2>2. QED
    BY <1>1, <2>1 DEF Items
<1>5. PICK pos \in [1..n -> Nat] :
         /\ Tiles(D, ws, at, to)
         /\ Placed(ws, at, size, n, data, item, pos, n, to)
  <2>1. \E pos \in [1..n -> Nat] :
              LET w == Directory(at, size, n, data, item)
                  t == at + Bytes(w)
              IN  /\ Tiles(D, w, at, t)
                  /\ Placed(w, at, size, n, data, item, pos, n, t)
                  /\ InOrder(at, size, n, item, pos)
    BY <1>4, DirectoryLaid
  <2>2. QED
    BY <1>2, <2>1
<1>6. BucketAt(ToSet(ws), at, chain, fn, pos, to)
  <2>1. ASSUME NEW j \in 1..n
        PROVE  /\ Seek(at + size * (j - 1), size, [position |-> pos[j]]) \in ToSet(ws)
               /\ ToSet(fn[chain[j]][pos[j]]) \subseteq ToSet(ws)
               /\ at + size * n <= pos[j]
               /\ pos[j] + Bytes(fn[chain[j]][pos[j]]) <= to
    <3>1. /\ Seek(at + size * (j - 1), size, data[j][pos[j]]) \in ToSet(ws)
          /\ ToSet(item[j][pos[j]]) \subseteq ToSet(ws)
          /\ at + size * n <= pos[j]
          /\ pos[j] + Bytes(item[j][pos[j]]) <= to
      BY <1>5, Zenon DEF Placed
    <3>2. pos[j] \in Nat
      OBVIOUS
    <3>3. data[j][pos[j]] = [position |-> pos[j]] /\ item[j][pos[j]] = fn[chain[j]][pos[j]]
      BY <1>3, <3>2
    <3> HIDE DEF to
    <3>4. QED
      BY <3>1, <3>3
  <2>2. QED
    BY <2>1, Zenon DEF BucketAt, n, size
<1>7. ASSUME n > 0
      PROVE  at < to
  <2>1. 1 \in 1..n /\ at + size * (1 - 1) = at
    BY <1>1, <1>7
  <2>2. PICK x : x \in ToSet(ws) /\ x = Seek(at, size, [position |-> pos[1]])
    <3>1. Seek(at + size * (1 - 1), size, [position |-> pos[1]]) \in ToSet(ws)
      BY <1>6, <2>1, Zenon DEF BucketAt, n, size
    <3>2. QED
      BY <2>1, <3>1
  <2>3. Within(x, at, to) /\ to \in Nat
    BY <1>5, <2>2 DEF Tiles
  <2>4. x.at = at /\ x.len = size
    BY <2>2 DEF Seek
  <2> HIDE DEF to
  <2>5. QED
    BY <1>1, <2>3, <2>4 DEF Within
<1>8. QED
  BY <1>5, <1>6, <1>7 DEF ws, n

(* A hash table, its bucket records, its buckets and their elements are    *)
(* among ws, up to `to': bucket b at bpos[b], its elements at pos[b].      *)
TableAt(ws, at, table, fn, bpos, pos, to) ==
    LET n == Len(table)
        start == at + BucketListSize + BucketRecordSize * n
    IN  /\ Seek(at, BucketListSize, [numBuckets |-> n]) \in ws
        /\ bpos \in [1..n -> Nat]
        /\ n > 0 => bpos[1] = start
        /\ \A b \in 1..n :
              /\ Seek(at + BucketListSize + BucketRecordSize * (b - 1), BucketRecordSize,
                      WriteHTBucketRecord(Len(table[b]), bpos[b])) \in ws
              /\ BucketAt(ws, bpos[b], table[b], fn, pos[b], to)
              /\ start <= bpos[b] /\ bpos[b] <= to
              /\ \A c \in 1..n : b < c /\ Len(table[b]) > 0 => bpos[b] < bpos[c]

(* What is among some writes is among more. *)
LEMMA BucketMore ==
    ASSUME NEW ws, NEW at, NEW chain, NEW fn, NEW pos, NEW to \in Nat,
           BucketAt(ws, at, chain, fn, pos, to), NEW more, ws \subseteq more, NEW up \in Nat, to <= up,
           NEW D, NEW E, chain \in Seq(E), ElementsFit(D, fn, E)
    PROVE  BucketAt(more, at, chain, fn, pos, up)
<1>1. ASSUME NEW j \in 1..Len(chain)
      PROVE  pos[j] + Bytes(fn[chain[j]][pos[j]]) <= up
  <2>1. pos[j] + Bytes(fn[chain[j]][pos[j]]) <= to /\ pos[j] \in Nat /\ chain[j] \in E
    <3>1. pos[j] + Bytes(fn[chain[j]][pos[j]]) <= to /\ pos \in [1..Len(chain) -> Nat]
      BY Zenon DEF BucketAt
    <3>2. QED
      BY <3>1
  <2>2. fn[chain[j]][pos[j]] \in Seq(Writes(D))
    BY <2>1 DEF ElementsFit, Tiles
  <2>3. Bytes(fn[chain[j]][pos[j]]) \in Nat
    BY <2>2, BytesOf
  <2>4. QED
    BY <2>1, <2>3
<1>2. ASSUME NEW j \in 1..Len(chain)
      PROVE  /\ Seek(at + ElementRecordSize * (j - 1), ElementRecordSize, [position |-> pos[j]]) \in more
             /\ ToSet(fn[chain[j]][pos[j]]) \subseteq more
             /\ at + ElementRecordSize * Len(chain) <= pos[j]
  <2>1. /\ Seek(at + ElementRecordSize * (j - 1), ElementRecordSize, [position |-> pos[j]]) \in ws
        /\ ToSet(fn[chain[j]][pos[j]]) \subseteq ws
        /\ at + ElementRecordSize * Len(chain) <= pos[j]
    BY Zenon DEF BucketAt
  <2>2. QED
    BY <2>1, Zenon
<1>3. pos \in [1..Len(chain) -> Nat]
  BY DEF BucketAt
<1>4. QED
  BY <1>1, <1>2, <1>3, Zenon DEF BucketAt

(* A hash table fills its bytes. *)
LEMMA TableLaid ==
    ASSUME NEW D, IsData(D), NEW at \in Nat, NEW table, IsTable(table), NEW fn,
           ElementsFit(D, fn, Elements(table))
    PROVE  LET ws == WriteHashTable(at, table, fn)
               to == at + Bytes(ws)
           IN  /\ Tiles(D, ws, at, to)
               /\ \E bpos, pos : TableAt(ToSet(ws), at, table, fn, bpos, pos, to)
               /\ at + BucketListSize + BucketRecordSize * Len(table) <= to
<1> DEFINE n == Len(table)
           E == Elements(table)
           data == [m \in 1..n |-> [o \in Nat |-> WriteHTBucketRecord(Len(table[m]), o)]]
           item == [m \in 1..n |-> [o \in Nat |-> WriteHTBucket(o, table[m], fn)]]
           size == BucketRecordSize
           first == at + BucketListSize
           head == Seek(at, BucketListSize, [numBuckets |-> n])
           dir == Directory(first, size, n, data, item)
           ws == WriteHashTable(at, table, fn)
           to == at + Bytes(ws)
<1>1. n \in Nat /\ n > 0 /\ size \in Nat \ {0} /\ first \in Nat /\ BucketListSize \in Nat \ {0}
      /\ first = at + BucketListSize
  BY DEF IsTable, BucketRecordSize, BucketListSize
<1>2. \A m \in 1..n : table[m] \in Seq(E) /\ Len(table[m]) \in Nat
  BY DEF IsTable
<1>3. ws = <<head>> \o dir
  BY DEF WriteHashTable
<1>4. \A m \in 1..n, o \in Nat : /\ data[m][o] = WriteHTBucketRecord(Len(table[m]), o)
                                 /\ item[m][o] = WriteHTBucket(o, table[m], fn)
  OBVIOUS
<1>5. [numBuckets |-> n] \in D
  BY <1>1 DEF IsData
<1> HIDE DEF n, size, first, data, item, ws, dir, E
<1>6. ASSUME NEW m \in 1..n, NEW o \in Nat
      PROVE  /\ Tiles(D, item[m][o], o, o + Bytes(item[m][o]))
             /\ \E p : BucketAt(ToSet(item[m][o]), o, table[m], fn, p, o + Bytes(item[m][o]))
             /\ Len(table[m]) > 0 => o < o + Bytes(item[m][o])
  <2>1. table[m] \in Seq(E) /\ ElementsFit(D, fn, E)
    BY <1>2 DEF E
  <2>2. LET w == WriteHTBucket(o, table[m], fn)
            t == o + Bytes(w)
        IN  /\ Tiles(D, w, o, t)
            /\ \E p : BucketAt(ToSet(w), o, table[m], fn, p, t)
            /\ Len(table[m]) > 0 => o < t
    BY <2>1, BucketLaid
  <2>3. item[m][o] = WriteHTBucket(o, table[m], fn)
    BY <1>4
  <2>4. QED
    BY <2>2, <2>3
<1>7. Items(D, size, n, data, item)
  <2>1. ASSUME NEW m \in 1..n, NEW o \in Nat
        PROVE  Fits(D, data, item, m, o)
    <3>1. data[m][o] \in D
      <4>1. \A j, k \in Nat : [chainNumElements |-> j, position |-> k] \in D
        BY Zenon DEF IsData
      <4>2. WriteHTBucketRecord(Len(table[m]), o) \in D
        BY <1>2, <4>1, Zenon DEF WriteHTBucketRecord
      <4>3. QED
        BY <1>4, <4>2
    <3>2. QED
      BY <1>6, <3>1 DEF Fits
  <2>2. QED
    BY <1>1, <2>1 DEF Items
<1> DEFINE end == first + Bytes(dir)
<1>8. PICK bpos \in [1..n -> Nat] :
         /\ Tiles(D, dir, first, end)
         /\ Placed(dir, first, size, n, data, item, bpos, n, end)
         /\ InOrder(first, size, n, item, bpos)
  <2>1. \E p \in [1..n -> Nat] :
              LET w == Directory(first, size, n, data, item)
                  t == first + Bytes(w)
              IN  /\ Tiles(D, w, first, t)
                  /\ Placed(w, first, size, n, data, item, p, n, t)
                  /\ InOrder(first, size, n, item, p)
    BY <1>1, <1>7, DirectoryLaid
  <2>2. QED
    BY <2>1 DEF dir
<1>9. /\ head \in Writes(D) /\ head.at = at /\ head.len = BucketListSize
  <2> DEFINE hd == [numBuckets |-> n]
  <2>1. head = Seek(at, BucketListSize, hd)
    OBVIOUS
  <2> HIDE DEF head, hd
  <2>2. hd \in D
    BY <1>5 DEF hd
  <2>3. QED
    BY <1>1, <2>1, <2>2, SeekIs
<1> HIDE DEF head
<1>10. /\ Tiles(D, ws, at, end)
       /\ ToSet(ws) = {head} \cup ToSet(dir)
  <2>1. Tiles(D, <<head>>, at, first) /\ ToSet(<<head>>) = {head}
    BY <1>1, <1>9, TileOne
  <2>2. Tiles(D, <<head>> \o dir, at, end)
    <3> HIDE DEF end
    <3>1. QED
      BY <1>8, <2>1, TilesJoin
  <2>3. <<head>> \in Seq(Writes(D)) /\ dir \in Seq(Writes(D))
    BY <1>8, <2>1 DEF Tiles
  <2>4. ToSet(<<head>> \o dir) = ToSet(<<head>>) \cup ToSet(dir)
    BY <2>3, ToSetConcat, ZenonT(40)
  <2>5. QED
    BY <1>3, <2>1, <2>2, <2>4
<1>11. to = end /\ to \in Nat
  <2>1. end \in Nat /\ Bytes(ws) = end - at
    BY <1>10 DEF Tiles
  <2> HIDE DEF end
  <2>2. QED
    BY <2>1
<1>12. first + size * n \in Nat
  BY <1>1
<1>13. ASSUME NEW b \in 1..n
       PROVE  /\ bpos[b] \in Nat
              /\ Seek(first + size * (b - 1), size,
                      WriteHTBucketRecord(Len(table[b]), bpos[b])) \in ToSet(ws)
              /\ first + size * n <= bpos[b]
              /\ bpos[b] <= to
              /\ \E p : BucketAt(ToSet(ws), bpos[b], table[b], fn, p, to)
              /\ \A c \in 1..n : b < c /\ Len(table[b]) > 0 => bpos[b] < bpos[c]
  <2>1. bpos[b] \in Nat
    OBVIOUS
  <2>2. /\ Seek(first + size * (b - 1), size, data[b][bpos[b]]) \in ToSet(dir)
        /\ ToSet(item[b][bpos[b]]) \subseteq ToSet(dir)
        /\ first + size * n <= bpos[b]
        /\ bpos[b] + Bytes(item[b][bpos[b]]) <= end
    BY <1>8, Zenon DEF Placed
  <2> DEFINE t == item[b][bpos[b]]
             q == bpos[b] + Bytes(t)
  <2>3. /\ Tiles(D, t, bpos[b], q)
        /\ \E p : BucketAt(ToSet(t), bpos[b], table[b], fn, p, q)
        /\ Len(table[b]) > 0 => bpos[b] < q
    BY <1>6, <2>1
  <2>4. data[b][bpos[b]] = WriteHTBucketRecord(Len(table[b]), bpos[b])
    BY <1>4, <2>1
  <2>5. q \in Nat /\ bpos[b] <= q /\ q <= end /\ end \in Nat
    <3>1. q \in Nat /\ bpos[b] <= q
      BY <2>3 DEF Tiles
    <3>2. end \in Nat
      BY <1>8 DEF Tiles
    <3>3. QED
      BY <2>2, <3>1, <3>2
  <2>6. ToSet(t) \subseteq ToSet(ws)
    BY <1>10, <2>2
  <2>7. ASSUME NEW c \in 1..n, b < c, Len(table[b]) > 0
        PROVE  bpos[b] < bpos[c]
    <3>1. q <= bpos[c]
      BY <1>8, <2>7 DEF InOrder
    <3>2. bpos[c] \in Nat /\ bpos[b] < q
      BY <2>3, <2>7
    <3> HIDE DEF q
    <3>3. QED
      BY <2>1, <2>5, <3>1, <3>2
  <2> HIDE DEF t, q, end, to
  <2>8. \E p : BucketAt(ToSet(ws), bpos[b], table[b], fn, p, to)
    <3>1. PICK p : BucketAt(ToSet(t), bpos[b], table[b], fn, p, q)
      BY <2>3
    <3>2. table[b] \in Seq(E) /\ ElementsFit(D, fn, E)
      BY <1>2 DEF E
    <3>3. BucketAt(ToSet(ws), bpos[b], table[b], fn, p, to)
      BY <1>11, <2>5, <2>6, <3>1, <3>2, BucketMore
    <3>4. QED
      BY <3>3
  <2>9. bpos[b] <= to
    BY <1>11, <2>1, <2>5
  <2>10. Seek(first + size * (b - 1), size,
              WriteHTBucketRecord(Len(table[b]), bpos[b])) \in ToSet(ws)
    BY <1>10, <2>2, <2>4
  <2>11. QED
    BY <2>1, <2>2, <2>7, <2>8, <2>9, <2>10, Zenon
<1> DEFINE pos == [b \in 1..n |->
                     CHOOSE p : BucketAt(ToSet(ws), bpos[b], table[b], fn, p, to)]
<1> HIDE DEF to
<1>14. \A b \in 1..n : BucketAt(ToSet(ws), bpos[b], table[b], fn, pos[b], to)
  BY <1>13, Zenon
<1> HIDE DEF pos
<1>15. bpos[1] = first + size * n /\ 1 \in 1..n
  BY <1>1, <1>8 DEF InOrder
<1>16. TableAt(ToSet(ws), at, table, fn, bpos, pos, to)
  BY <1>8, <1>10, <1>13, <1>14, <1>15, Zenon DEF TableAt, n, size, first, head
<1>17. first + size * n <= to
  <2>1. first + size * n <= bpos[1] /\ bpos[1] <= to
    BY <1>13, <1>15
  <2>2. QED
    BY <1>15, <2>1
<1>18. QED
  BY <1>10, <1>11, <1>16, <1>17, Zenon DEF ws, n, size, first, to

-----------------------------------------------------------------------------
(* The elements. *)

(* The two ends of what is filled say how many bytes it is. *)
LEMMA TilesEnd ==
    ASSUME NEW D, NEW ws, NEW from, NEW to, Tiles(D, ws, from, to)
    PROVE  /\ to = from + Bytes(ws) /\ Tiles(D, ws, from, from + Bytes(ws))
           /\ from \in Nat /\ to \in Nat /\ Bytes(ws) \in Nat
<1>1. from \in Nat /\ to \in Nat /\ Bytes(ws) = to - from /\ ws \in Seq(Writes(D))
  BY DEF Tiles
<1>2. Bytes(ws) \in Nat
  BY <1>1, BytesOf
<1>3. to = from + Bytes(ws)
  BY <1>1, <1>2
<1>4. QED
  BY <1>1, <1>2, <1>3

(* Two writes, the second right behind the first. *)
LEMMA TilesTwo ==
    ASSUME NEW D, NEW v \in Writes(D), NEW x \in Writes(D), x.at = v.at + v.len
    PROVE  /\ Tiles(D, <<v, x>>, v.at, x.at + x.len)
           /\ ToSet(<<v, x>>) = {v, x}
<1>3. Tiles(D, <<v>>, v.at, x.at) /\ Tiles(D, <<x>>, x.at, x.at + x.len)
  BY TileOne
<1>4. <<v, x>> = <<v>> \o <<x>>
  BY PairIs
<1>5. Tiles(D, <<v>> \o <<x>>, v.at, x.at + x.len)
  BY <1>3, TilesJoin, Zenon
<1>6. ToSet(<<v, x>>) = {v, x}
  BY DEF ToSet
<1>7. QED
  BY <1>4, <1>5, <1>6

(* An int16_t holds the length of a text of a table. *)
LEMMA LengthHeld ==
    ASSUME NEW n \in 1..INT16_MAX
    PROVE  n \in Nat \ {0} /\ int16_t(n) = n
<1>1. n \in Nat /\ 1 <= n /\ n <= 32767
  BY SMT DEF INT16_MAX
<1>2. (n + 32768) % 65536 = n + 32768
  BY <1>1, SMT
<1>3. QED
  BY <1>1, <1>2, SMT DEF int16_t

(* Such a text is written whole. *)
LEMMA TextWhole ==
    ASSUME NEW at, NEW text, NEW n \in 1..INT16_MAX
    PROVE  WriteText(at, int16_t(n), text, n) = <<Write(at, n, [text |-> text])>>
<1>1. int16_t(n) = n /\ n \in Nat \ {0}
  BY LengthHeld
<1>2. ~(n <= 0)
  BY <1>1
<1> HIDE DEF int16_t
<1>3. QED
  BY <1>1, <1>2 DEF WriteText

(* What is written for a document of the doctable. *)
LEMMA DocnameWrites ==
    ASSUME NEW at, NEW e, e.len \in 1..INT16_MAX
    PROVE  WriteDocidToDocnameFn(at, e) =
              <<Seek(at, DoctableHeaderSize, [docID |-> e.key, filenameBytes |-> e.len]),
                Write(at + DoctableHeaderSize, e.len, [text |-> e.name])>>
<1> DEFINE k == e.len
           d == [docID |-> e.key, filenameBytes |-> e.len]
           v == Seek(at, DoctableHeaderSize, d)
           o == at + DoctableHeaderSize
           x == Write(o, k, [text |-> e.name])
<1>1. k \in 1..INT16_MAX
  OBVIOUS
<1>2. int16_t(k) = k
  BY <1>1, LengthHeld
<1>3. WriteText(o, int16_t(k), e.name, k) = <<x>>
  <2> HIDE DEF k, o
  <2>1. QED
    BY <1>1, TextWhole
<1>4. WriteDocidToDocnameFn(at, e) = <<v>> \o <<x>>
  BY <1>2, <1>3, Zenon DEF WriteDocidToDocnameFn
<1> HIDE DEF v, x
<1>5. <<v>> \o <<x>> = <<v, x>>
  BY PairIs
<1>6. QED
  BY <1>4, <1>5, Zenon DEF v, x, d, k, o

(* A document of the doctable. *)
LEMMA DocnameLaid ==
    ASSUME NEW D, IsData(D), NEW at \in Nat, NEW e, e.key \in Nat, e.len \in 1..INT16_MAX,
           [text |-> e.name] \in D
    PROVE  LET ws == WriteDocidToDocnameFn(at, e)
           IN  /\ Tiles(D, ws, at, at + Bytes(ws))
               /\ ToSet(ws) = {Seek(at, DoctableHeaderSize, [docID |-> e.key, filenameBytes |-> e.len]),
                               Write(at + DoctableHeaderSize, e.len, [text |-> e.name])}
<1> DEFINE ws == WriteDocidToDocnameFn(at, e)
           d == [docID |-> e.key, filenameBytes |-> e.len]
           x == [text |-> e.name]
<1>0. e.len \in Nat \ {0}
  BY LengthHeld
<1>1. d \in D
  BY <1>0 DEF IsData
<1>2. ws = <<Seek(at, DoctableHeaderSize, d), Write(at + DoctableHeaderSize, e.len, x)>>
  BY DocnameWrites
<1>3. DoctableHeaderSize \in Nat \ {0} /\ x \in D /\ e.len \in Nat \ {0}
  BY <1>0 DEF DoctableHeaderSize
<1> HIDE DEF d, x, ws
<1>4. /\ Tiles(D, ws, at, at + DoctableHeaderSize + e.len)
      /\ ToSet(ws) = {Seek(at, DoctableHeaderSize, d), Write(at + DoctableHeaderSize, e.len, x)}
  <2> DEFINE k == e.len
             o == at + DoctableHeaderSize
             v == Seek(at, DoctableHeaderSize, d)
             y == Write(o, k, x)
  <2>1. k \in Nat \ {0} /\ o \in Nat /\ ws = <<v, y>>
    BY <1>2, <1>3
  <2> HIDE DEF k, o
  <2>11. v = Seek(at, DoctableHeaderSize, d) /\ y = Write(o, k, x)
    OBVIOUS
  <2>12. at \in Nat
    OBVIOUS
  <2> HIDE DEF v, y
  <2>2. v \in Writes(D) /\ v.at = at /\ v.len = DoctableHeaderSize
    BY <1>1, <1>3, <2>11, <2>12, SeekIs
  <2>3. y \in Writes(D) /\ y.at = o /\ y.len = k
    BY <1>3, <2>1, <2>11, WroteIs
  <2> USE DEF v, y
  <2> HIDE DEF v, y
  <2>4. Tiles(D, ws, at, o + k) /\ ToSet(ws) = {v, y}
    <3>1. y.at = v.at + v.len
      BY <2>2, <2>3 DEF o
    <3>2. Tiles(D, <<v, y>>, v.at, y.at + y.len) /\ ToSet(<<v, y>>) = {v, y}
      BY <2>2, <2>3, <3>1, TilesTwo, Zenon
    <3>3. QED
      BY <2>1, <2>2, <2>3, <3>2
  <2>5. QED
    BY <2>4, Zenon DEF k, o, v, y
<1>5. QED
  BY <1>4, TilesEnd, Zenon DEF d, x, ws

(* The positions of a word in a document. *)
PositionWrite(at, positions, k) ==
    Write(at + PositionSize * (k - 1), PositionSize, [position |-> positions[k]])

(* They follow each other without a gap. *)
LEMMA PositionsLaid ==
    ASSUME NEW D, IsData(D), NEW at \in Nat, NEW positions \in Seq(Nat)
    PROVE  LET ws == [k \in 1..Len(positions) |-> PositionWrite(at, positions, k)]
           IN  Tiles(D, ws, at, at + PositionSize * Len(positions))
<1> DEFINE n == Len(positions)
           ws == [k \in 1..n |-> PositionWrite(at, positions, k)]
<1>1. n \in Nat /\ \A k \in 1..n : positions[k] \in Nat
  OBVIOUS
<1> HIDE DEF n
<1>2. ASSUME NEW k \in 1..n
      PROVE  /\ PositionWrite(at, positions, k) \in Writes(D)
             /\ PositionWrite(at, positions, k).at = at + 4 * (k - 1)
             /\ PositionWrite(at, positions, k).len = 4
  <2>1. [position |-> positions[k]] \in D
    BY <1>1 DEF IsData
  <2>2. at + 4 * (k - 1) \in Nat /\ 4 \in Nat \ {0}
    BY <1>1
  <2>3. PositionWrite(at, positions, k) = Write(at + 4 * (k - 1), 4, [position |-> positions[k]])
    BY DEF PositionWrite, PositionSize
  <2> DEFINE o == at + 4 * (k - 1)
             d == [position |-> positions[k]]
  <2> HIDE DEF o, d
  <2>4. Write(o, 4, d) \in Writes(D) /\ Write(o, 4, d).at = o /\ Write(o, 4, d).len = 4
    <3>1. o \in Nat /\ d \in D
      BY <2>1, <2>2 DEF o, d
    <3> DEFINE four == 4
               v == Write(o, four, d)
    <3>2. v = Write(o, four, d)
      OBVIOUS
    <3>3. four \in Nat \ {0}
      OBVIOUS
    <3> HIDE DEF v, four
    <3>4. v \in Writes(D) /\ v.at = o /\ v.len = four
      BY <3>1, <3>2, <3>3, WroteIs
    <3>5. QED
      BY <3>2, <3>4 DEF four
  <2>5. QED
    BY <2>3, <2>4 DEF o, d
<1>3. /\ ws \in Seq(Writes(D)) /\ Len(ws) = n /\ DOMAIN ws = 1..n
      /\ \A k \in 1..n : ws[k].at = at + 4 * (k - 1) /\ ws[k].len = 4
  <2>1. ws \in [1..n -> Writes(D)]
    BY <1>2
  <2>2. ws \in Seq(Writes(D)) /\ Len(ws) = n
    BY <1>1, <2>1
  <2>3. QED
    BY <1>2, <2>2
<1> HIDE DEF ws
<1>4. AllApart(ws)
  <2>1. ASSUME NEW j \in 1..n, NEW k \in 1..n, j # k
        PROVE  Apart(ws[j], ws[k])
    BY <1>1, <1>3, <2>1 DEF Apart
  <2>2. QED
    BY <1>3, <2>1 DEF AllApart
<1>5. Bytes(ws) = 4 * n
  <2> DEFINE g == [k \in 0..n |-> 4 * k]
  <2>1. g[0] = 0 /\ g[n] = 4 * n /\ \A k \in 1..Len(ws) : g[k] = g[k - 1] + ws[k].len
    BY <1>1, <1>3
  <2> HIDE DEF g
  <2>2. \A w \in Writes(D) : w.len \in Nat
    BY DEF Writes
  <2>3. Bytes(ws) = g[Len(ws)]
    BY <1>3, <2>1, <2>2, SumsIs
  <2>4. QED
    BY <1>3, <2>1, <2>3
<1>6. ASSUME NEW v \in ToSet(ws)
      PROVE  Within(v, at, at + 4 * n)
  <2>1. PICK k \in 1..n : v = ws[k]
    BY <1>3 DEF ToSet
  <2>2. QED
    BY <1>1, <1>3, <2>1 DEF Within
<1>7. at < at + 4 * n => EndsAt(ws, at + 4 * n)
  <2> SUFFICES ASSUME at < at + 4 * n PROVE EndsAt(ws, at + 4 * n)
    OBVIOUS
  <2>1. n \in 1..n /\ ws[n] \in ToSet(ws)
    BY <1>1, <1>3 DEF ToSet
  <2>2. ws[n].at + ws[n].len = at + 4 * n
    BY <1>1, <1>3, <2>1
  <2>3. QED
    BY <2>1, <2>2 DEF EndsAt
<1>8. at + 4 * n \in Nat /\ Bytes(ws) = (at + 4 * n) - at /\ at <= at + 4 * n
  BY <1>1, <1>5
<1>9. Tiles(D, ws, at, at + 4 * n)
  BY <1>3, <1>4, <1>6, <1>7, <1>8 DEF Tiles
<1>10. QED
  BY <1>9 DEF ws, n, PositionSize

(* An element of a docID table. *)
LEMMA PositionListLaid ==
    ASSUME NEW D, IsData(D), NEW at \in Nat, NEW e, e.key \in Nat, e.positions \in Seq(Nat)
    PROVE  LET ws == WriteDocidToPositionListFn(at, e)
           IN  /\ Tiles(D, ws, at, at + Bytes(ws))
               /\ ToSet(ws) =
                    {Seek(at, DocIDHeaderSize, [docID |-> e.key, numPositions |-> Len(e.positions)])}
                    \cup {PositionWrite(at + DocIDHeaderSize, e.positions, k) :
                             k \in 1..Len(e.positions)}
<1> DEFINE ws == WriteDocidToPositionListFn(at, e)
           n == Len(e.positions)
           d == [docID |-> e.key, numPositions |-> n]
           head == Seek(at, DocIDHeaderSize, d)
           start == at + DocIDHeaderSize
           list == [k \in 1..n |-> PositionWrite(start, e.positions, k)]
<1>1. n \in Nat /\ d \in D /\ start \in Nat /\ DocIDHeaderSize \in Nat \ {0}
  <2>1. n \in Nat /\ start \in Nat /\ DocIDHeaderSize \in Nat \ {0}
    BY DEF DocIDHeaderSize
  <2>2. d \in D
    BY <2>1, Zenon DEF IsData
  <2>3. QED
    BY <2>1, <2>2
<1>2. ws = <<head>> \o list
  BY DEF WriteDocidToPositionListFn, PositionWrite
<1>3. Tiles(D, list, start, start + PositionSize * n)
  <2> HIDE DEF start
  <2>1. QED
    BY <1>1, PositionsLaid
<1>4. ToSet(list) = {PositionWrite(start, e.positions, k) : k \in 1..n}
  BY DEF ToSet
<1> HIDE DEF d
<1>5. head \in Writes(D) /\ head.at = at /\ head.len = DocIDHeaderSize
  <2>1. head = Seek(at, DocIDHeaderSize, d)
    OBVIOUS
  <2> HIDE DEF head
  <2>2. QED
    BY <1>1, <2>1, SeekIs
<1> HIDE DEF head, list, n, ws
<1>6. Tiles(D, <<head>>, at, start) /\ ToSet(<<head>>) = {head}
  BY <1>5, TileOne
<1>7. Tiles(D, <<head>> \o list, at, start + PositionSize * n)
  BY <1>3, <1>6, TilesJoin, Zenon
<1>8. ToSet(<<head>> \o list) = {head} \cup ToSet(list)
  <2>1. <<head>> \in Seq(Writes(D)) /\ list \in Seq(Writes(D))
    BY <1>3, <1>6 DEF Tiles
  <2>2. ToSet(<<head>> \o list) = ToSet(<<head>>) \cup ToSet(list)
    BY <2>1, ToSetConcat, ZenonT(40)
  <2>3. QED
    BY <1>6, <2>2
<1>9. Tiles(D, ws, at, at + Bytes(ws))
  BY <1>2, <1>7, TilesEnd, Zenon
<1>10. QED
  BY <1>2, <1>4, <1>8, <1>9, Zenon DEF ws, head, d, n

-----------------------------------------------------------------------------
(* The two tables, and the docID table of a word. *)
DocFn(table) == [e \in Elements(table) |-> [o \in Nat |-> WriteDocidToDocnameFn(o, e)]]

(* The functions that write the elements: of the doctable, of a docID      *)
(* table and of the index.                                                 *)
PostingsFn(table) == [e \in Elements(table) |-> [o \in Nat |-> WriteDocidToPositionListFn(o, e)]]
WordFn(table) == [e \in Elements(table) |-> [o \in Nat |-> WriteWordToPostingsFn(o, e)]]

(* What WriteHashTable writes, all of it among ws. *)
HasTable(D, ws, at, table, fn, to) ==
    /\ Tiles(D, ws, at, to)
    /\ \E bpos, pos : TableAt(ToSet(ws), at, table, fn, bpos, pos, to)
    /\ at + BucketListSize + BucketRecordSize * Len(table) <= to

(* The key of an element is that of its bucket. *)
LEMMA ElementKeys ==
    ASSUME NEW table, IsTable(table), NEW e \in Elements(table)
    PROVE  e.key \in Nat
<1>1. PICK b \in DOMAIN table : e \in ToSet(table[b])
  BY DEF Elements
<1>2. QED
  BY <1>1 DEF IsTable

(* Its positions are numbers. *)
LEMMA PositionsAre ==
    ASSUME NEW table, IsPostings(table), NEW e \in Elements(table)
    PROVE  e.positions \in Seq(Nat)
<1> DEFINE s == e.positions
           R == 0..INT32_MAX
<1>1. s \in Seq(R)
  BY DEF IsPostings
<1>2. \A r \in R : r \in Nat
  <2> DEFINE m == INT32_MAX
  <2>1. m \in Nat
    BY SMT DEF INT32_MAX
  <2> HIDE DEF m
  <2>2. \A r \in 0..m : r \in Nat
    BY <2>1
  <2>3. QED
    BY <2>2 DEF m
<1> HIDE DEF s, R
<1>3. Len(s) \in Nat /\ DOMAIN s = 1..Len(s) /\ \A k \in 1..Len(s) : s[k] \in R
  BY <1>1
<1>4. s = [k \in 1..Len(s) |-> s[k]] /\ \A k \in 1..Len(s) : s[k] \in Nat
  BY <1>1, <1>2, <1>3
<1> DEFINE z == [k \in 1..Len(s) |-> s[k]]
<1>5. z \in Seq(Nat)
  BY <1>3, <1>4
<1>6. QED
  BY <1>4, <1>5 DEF s

(* A docID table. *)
LEMMA PostingsFit ==
    ASSUME NEW D, IsData(D), NEW table, IsPostings(table)
    PROVE  ElementsFit(D, PostingsFn(table), Elements(table))
<1>1. ASSUME NEW e \in Elements(table), NEW o \in Nat
      PROVE  LET ws == PostingsFn(table)[e][o] IN Tiles(D, ws, o, o + Bytes(ws))
  <2>1. PostingsFn(table)[e][o] = WriteDocidToPositionListFn(o, e)
    BY DEF PostingsFn
  <2>2. e.key \in Nat /\ e.positions \in Seq(Nat)
    BY ElementKeys, PositionsAre DEF IsPostings
  <2>3. LET ws == WriteDocidToPositionListFn(o, e) IN Tiles(D, ws, o, o + Bytes(ws))
    BY <2>2, PositionListLaid
  <2>4. QED
    BY <2>1, <2>3
<1>2. QED
  BY <1>1 DEF ElementsFit

(* The docID table of a word is laid out as a hash table. *)
LEMMA PostingsLaid ==
    ASSUME NEW D, IsData(D), NEW table, IsPostings(table), NEW at \in Nat
    PROVE  LET ws == WriteHashTable(at, table, PostingsFn(table))
           IN  HasTable(D, ws, at, table, PostingsFn(table), at + Bytes(ws))
<1>1. IsTable(table) /\ ElementsFit(D, PostingsFn(table), Elements(table))
  BY PostingsFit DEF IsPostings
<1> DEFINE fn == PostingsFn(table)
           ws == WriteHashTable(at, table, fn)
           to == at + Bytes(ws)
<1> HIDE DEF fn
<1>2. /\ Tiles(D, ws, at, to)
      /\ \E bpos, pos : TableAt(ToSet(ws), at, table, fn, bpos, pos, to)
      /\ at + BucketListSize + BucketRecordSize * Len(table) <= to
  BY <1>1, TableLaid DEF fn
<1>3. QED
  BY <1>2 DEF HasTable, fn

(* A word and its docID table. *)
Nested(at, e) ==
    WriteHashTable(at + PostingsHeaderSize + e.len, e.postings, PostingsFn(e.postings))

(* The header in front of the word, and its text. *)
WordHeader(at, e) ==
    Seek(at, PostingsHeaderSize, [wordBytes |-> e.len, postingsBytes |-> Bytes(Nested(at, e))])
WordText(at, e) == Write(at + PostingsHeaderSize, e.len, [text |-> e.word])

(* What is written for a word. *)
LEMMA WordWrites ==
    ASSUME NEW at, NEW e, e.len \in 1..INT16_MAX
    PROVE  WriteWordToPostingsFn(at, e) = (Nested(at, e) \o <<WordHeader(at, e)>>) \o <<WordText(at, e)>>
<1> DEFINE k == e.len
           o == at + PostingsHeaderSize
           x == Write(o, k, [text |-> e.word])
<1>1. k \in 1..INT16_MAX
  OBVIOUS
<1>2. int16_t(k) = k
  BY <1>1, LengthHeld
<1>3. WriteText(o, int16_t(k), e.word, k) = <<x>>
  <2> HIDE DEF k, o
  <2>1. QED
    BY <1>1, TextWhole
<1>4. QED
  BY <1>2, <1>3, Zenon DEF WriteWordToPostingsFn, Nested, PostingsFn, WordHeader, WordText

(* Header, text and docID table of a word fill the bytes one after the     *)
(* other.                                                                  *)
LEMMA WordLaid ==
    ASSUME NEW D, IsData(D), NEW at \in Nat, NEW e, e.len \in 1..INT16_MAX, IsPostings(e.postings),
           [text |-> e.word] \in D
    PROVE  LET ws == WriteWordToPostingsFn(at, e)
               start == at + PostingsHeaderSize + e.len
               to == start + Bytes(Nested(at, e))
           IN  /\ Tiles(D, ws, at, at + Bytes(ws))
               /\ at + Bytes(ws) = to /\ to \in Nat /\ start \in Nat
               /\ ToSet(ws) = ToSet(Nested(at, e)) \cup {WordHeader(at, e), WordText(at, e)}
               /\ HasTable(D, Nested(at, e), start, e.postings, PostingsFn(e.postings), to)
<1> DEFINE ws == WriteWordToPostingsFn(at, e)
           k == e.len
           mid == at + PostingsHeaderSize
           start == mid + k
           nested == Nested(at, e)
           to == start + Bytes(nested)
           v == WordHeader(at, e)
           x == WordText(at, e)
           dv == [wordBytes |-> e.len, postingsBytes |-> Bytes(Nested(at, e))]
           dx == [text |-> e.word]
<1>1. k \in Nat \ {0} /\ mid \in Nat /\ start \in Nat /\ PostingsHeaderSize \in Nat \ {0}
  BY LengthHeld DEF PostingsHeaderSize
<1>2. ws = (nested \o <<v>>) \o <<x>>
  BY WordWrites, Zenon
<1>3. HasTable(D, nested, start, e.postings, PostingsFn(e.postings), to)
  <2> DEFINE table == e.postings
             w == WriteHashTable(start, table, PostingsFn(table))
  <2>1. nested = w
    BY DEF Nested
  <2>2. IsPostings(table)
    OBVIOUS
  <2> HIDE DEF table, start
  <2>3. HasTable(D, w, start, table, PostingsFn(table), start + Bytes(w))
    BY <1>1, <2>2, PostingsLaid
  <2> HIDE DEF nested, w
  <2>4. QED
    BY <2>1, <2>3 DEF table
<1> HIDE DEF nested
<1>4. Tiles(D, nested, start, to) /\ Bytes(nested) \in Nat /\ to \in Nat
  <2>1. Tiles(D, nested, start, to)
    BY <1>3 DEF HasTable
  <2>2. QED
    BY <2>1, TilesEnd
<1>5. dv \in D /\ dx \in D
  <2>1. \A a, b \in Nat : [wordBytes |-> a, postingsBytes |-> b] \in D
    BY Zenon DEF IsData
  <2>2. QED
    BY <1>1, <1>4, <2>1 DEF nested
<1>6. v = Seek(at, PostingsHeaderSize, dv) /\ x = Write(mid, k, dx)
  BY Zenon DEF WordHeader, WordText
<1> HIDE DEF v, x, dv, dx, mid, k
<1>7. v \in Writes(D) /\ v.at = at /\ v.len = PostingsHeaderSize
  BY <1>1, <1>5, <1>6, SeekIs
<1>8. x \in Writes(D) /\ x.at = mid /\ x.len = k
  BY <1>1, <1>5, <1>6, WroteIs
<1>9. x.at = v.at + v.len
  BY <1>7, <1>8 DEF mid
<1>10. Tiles(D, <<v, x>>, v.at, x.at + x.len) /\ ToSet(<<v, x>>) = {v, x}
  BY <1>7, <1>8, <1>9, TilesTwo, Zenon
<1>11. Tiles(D, <<v, x>>, at, start)
  BY <1>7, <1>8, <1>10
<1> HIDE DEF start, to
<1>12. Tiles(D, nested \o <<v, x>>, at, to)
  BY <1>4, <1>11, TilesJoin, Zenon
<1>13. ToSet(nested \o <<v, x>>) = ToSet(nested) \cup {v, x}
  <2>1. nested \in Seq(Writes(D)) /\ <<v, x>> \in Seq(Writes(D))
    BY <1>4, <1>11 DEF Tiles
  <2>2. ToSet(nested \o <<v, x>>) = ToSet(nested) \cup ToSet(<<v, x>>)
    BY <2>1, ToSetConcat, ZenonT(40)
  <2>3. QED
    BY <1>10, <2>2
<1> HIDE DEF ws
<1>14. Tiles(D, ws, at, to) /\ ToSet(ws) = ToSet(nested) \cup {v, x}
  <2>1. nested \in Seq(Writes(D)) /\ v \in Writes(D) /\ x \in Writes(D)
    BY <1>4, <1>7, <1>8 DEF Tiles
  <2>2. (nested \o <<v>>) \o <<x>> = nested \o (<<v>> \o <<x>>)
    BY <2>1
  <2>3. <<v>> \o <<x>> = <<v, x>>
    BY PairIs
  <2>4. ws = nested \o <<v, x>>
    BY <1>2, <2>2, <2>3
  <2>5. QED
    BY <1>12, <1>13, <2>4
<1>15. Tiles(D, ws, at, at + Bytes(ws)) /\ to = at + Bytes(ws)
  BY <1>14, TilesEnd
<1>16. QED
  BY <1>1, <1>3, <1>4, <1>14, <1>15, Zenon DEF ws, nested, v, x, to, start, k, mid

(* The doctable. *)
LEMMA DocTableLaid ==
    ASSUME NEW D, IsData(D), NEW table, IsDocTable(table), NEW at \in Nat,
           \A e \in Elements(table) : [text |-> e.name] \in D
    PROVE  LET ws == WriteDocTable(table, at)
           IN  /\ HasTable(D, ws, at, table, DocFn(table), at + Bytes(ws))
               /\ ElementsFit(D, DocFn(table), Elements(table))
<1> DEFINE fn == DocFn(table)
           ws == WriteHashTable(at, table, fn)
           to == at + Bytes(ws)
<1>1. IsTable(table)
  BY DEF IsDocTable
<1>2. ElementsFit(D, fn, Elements(table))
  <2>1. ASSUME NEW e \in Elements(table), NEW o \in Nat
        PROVE  LET w == DocFn(table)[e][o] IN Tiles(D, w, o, o + Bytes(w))
    <3>1. DocFn(table)[e][o] = WriteDocidToDocnameFn(o, e)
      BY DEF DocFn
    <3>2. e.key \in Nat /\ e.len \in 1..INT16_MAX /\ [text |-> e.name] \in D
      BY <1>1, ElementKeys DEF IsDocTable
    <3>3. LET w == WriteDocidToDocnameFn(o, e) IN Tiles(D, w, o, o + Bytes(w))
      BY <3>2, DocnameLaid
    <3>4. QED
      BY <3>1, <3>3
  <2>2. QED
    BY <2>1 DEF ElementsFit
<1>3. WriteDocTable(table, at) = ws
  BY DEF WriteDocTable, DocFn
<1> HIDE DEF fn
<1>4. /\ Tiles(D, ws, at, to)
      /\ \E bpos, pos : TableAt(ToSet(ws), at, table, fn, bpos, pos, to)
      /\ at + BucketListSize + BucketRecordSize * Len(table) <= to
  BY <1>1, <1>2, TableLaid
<1> HIDE DEF ws
<1>5. HasTable(D, ws, at, table, fn, to)
  BY <1>4 DEF HasTable
<1>6. QED
  BY <1>2, <1>3, <1>5 DEF fn

(* The index. *)
LEMMA MemIndexLaid ==
    ASSUME NEW D, IsData(D), NEW table, IsMemIndex(table), NEW at \in Nat,
           \A e \in Elements(table) : [text |-> e.word] \in D
    PROVE  LET ws == WriteMemIndex(table, at)
           IN  /\ HasTable(D, ws, at, table, WordFn(table), at + Bytes(ws))
               /\ ElementsFit(D, WordFn(table), Elements(table))
<1> DEFINE fn == WordFn(table)
           ws == WriteHashTable(at, table, fn)
           to == at + Bytes(ws)
<1>1. IsTable(table)
  BY DEF IsMemIndex
<1>2. ElementsFit(D, fn, Elements(table))
  <2>1. ASSUME NEW e \in Elements(table), NEW o \in Nat
        PROVE  LET w == WordFn(table)[e][o] IN Tiles(D, w, o, o + Bytes(w))
    <3>1. WordFn(table)[e][o] = WriteWordToPostingsFn(o, e)
      BY DEF WordFn
    <3>2. e.len \in 1..INT16_MAX /\ IsPostings(e.postings) /\ [text |-> e.word] \in D
      BY DEF IsMemIndex
    <3>3. LET w == WriteWordToPostingsFn(o, e) IN Tiles(D, w, o, o + Bytes(w))
      BY <3>2, WordLaid
    <3>4. QED
      BY <3>1, <3>3
  <2>2. QED
    BY <2>1 DEF ElementsFit
<1>3. WriteMemIndex(table, at) = ws
  BY DEF WriteMemIndex, WordFn
<1> HIDE DEF fn
<1>4. /\ Tiles(D, ws, at, to)
      /\ \E bpos, pos : TableAt(ToSet(ws), at, table, fn, bpos, pos, to)
      /\ at + BucketListSize + BucketRecordSize * Len(table) <= to
  BY <1>1, <1>2, TableLaid
<1> HIDE DEF ws
<1>5. HasTable(D, ws, at, table, fn, to)
  BY <1>4 DEF HasTable
<1>6. QED
  BY <1>2, <1>3, <1>5 DEF fn

-----------------------------------------------------------------------------
(* The file. *)

(* Whatever the structs and texts of these tables may hold. *)
Structs ==
    [numBuckets : Nat] \cup [chainNumElements : Nat, position : Nat] \cup [position : Nat]
    \cup [docID : Nat, filenameBytes : Nat] \cup [docID : Nat, numPositions : Nat]
    \cup [wordBytes : Nat, postingsBytes : Nat]

(* These, and the names and words of the tables. *)
Data(dtable, mindex) ==
    Structs \cup {[text |-> e.name] : e \in Elements(dtable)}
            \cup {[text |-> e.word] : e \in Elements(mindex)}

(* That is enough for the tables. *)
LEMMA DataIs ==
    ASSUME NEW dtable, NEW mindex
    PROVE  /\ IsData(Data(dtable, mindex))
           /\ \A e \in Elements(dtable) : [text |-> e.name] \in Data(dtable, mindex)
           /\ \A e \in Elements(mindex) : [text |-> e.word] \in Data(dtable, mindex)
<1>1. \A j, k \in Nat : /\ [numBuckets |-> k] \in Structs
                        /\ [chainNumElements |-> j, position |-> k] \in Structs
                        /\ [position |-> k] \in Structs
                        /\ [docID |-> j, filenameBytes |-> k] \in Structs
                        /\ [docID |-> j, numPositions |-> k] \in Structs
                        /\ [wordBytes |-> j, postingsBytes |-> k] \in Structs
  BY DEF Structs
<1>2. Structs \subseteq Data(dtable, mindex)
  BY DEF Data
<1>3. IsData(Data(dtable, mindex))
  BY <1>1, <1>2, Zenon DEF IsData
<1>4. QED
  BY <1>3, Zenon DEF Data

(* The doctable right behind the header, the index right behind it. *)
LEMMA FileLaid ==
    ASSUME NEW dtable, IsDocTable(dtable), NEW mindex, IsMemIndex(mindex)
    PROVE  LET D == Data(dtable, mindex)
               docs == WriteDocTable(dtable, FileHeaderSize)
               mid == FileHeaderSize + Bytes(docs)
               words == WriteMemIndex(mindex, mid)
               to == mid + Bytes(words)
           IN  /\ HasTable(D, docs, FileHeaderSize, dtable, DocFn(dtable), mid)
               /\ ElementsFit(D, DocFn(dtable), Elements(dtable))
               /\ HasTable(D, words, mid, mindex, WordFn(mindex), to)
               /\ ElementsFit(D, WordFn(mindex), Elements(mindex))
               /\ Tiles(D, docs \o words, FileHeaderSize, to)
               /\ ToSet(docs \o words) = ToSet(docs) \cup ToSet(words)
               /\ Bytes(docs) \in Nat /\ Bytes(words) \in Nat /\ FileHeaderSize < to
<1> DEFINE D == Data(dtable, mindex)
           docs == WriteDocTable(dtable, FileHeaderSize)
           mid == FileHeaderSize + Bytes(docs)
           words == WriteMemIndex(mindex, mid)
           to == mid + Bytes(words)
<1>1. /\ IsData(D)
      /\ \A e \in Elements(dtable) : [text |-> e.name] \in D
      /\ \A e \in Elements(mindex) : [text |-> e.word] \in D
  BY DataIs, Zenon
<1> HIDE DEF D
<1>2. FileHeaderSize \in Nat
  BY DEF FileHeaderSize
<1>3. /\ HasTable(D, docs, FileHeaderSize, dtable, DocFn(dtable), mid)
      /\ ElementsFit(D, DocFn(dtable), Elements(dtable))
  BY <1>1, <1>2, DocTableLaid
<1> HIDE DEF docs
<1>4. Tiles(D, docs, FileHeaderSize, mid)
  BY <1>3 DEF HasTable
<1>5. mid \in Nat /\ Bytes(docs) \in Nat
  BY <1>4, TilesEnd
<1> HIDE DEF mid
<1>6. /\ HasTable(D, words, mid, mindex, WordFn(mindex), to)
      /\ ElementsFit(D, WordFn(mindex), Elements(mindex))
  BY <1>1, <1>5, MemIndexLaid
<1> HIDE DEF words
<1>7. Tiles(D, words, mid, to) /\ mid + BucketListSize + BucketRecordSize * Len(mindex) <= to
  BY <1>6 DEF HasTable
<1>8. to \in Nat /\ Bytes(words) \in Nat
  BY <1>7, TilesEnd
<1> HIDE DEF to
<1>9. Tiles(D, docs \o words, FileHeaderSize, to)
  BY <1>4, <1>7, TilesJoin, Zenon
<1>10. ToSet(docs \o words) = ToSet(docs) \cup ToSet(words)
  <2>1. docs \in Seq(Writes(D)) /\ words \in Seq(Writes(D))
    BY <1>4, <1>7 DEF Tiles
  <2>2. QED
    BY <2>1, ToSetConcat, ZenonT(40)
<1>11. FileHeaderSize < to
  <2>1. Len(mindex) \in Nat
    BY DEF IsMemIndex, IsTable
  <2>2. mid < to
    BY <1>5, <1>7, <1>8, <2>1 DEF BucketListSize, BucketRecordSize
  <2>3. FileHeaderSize <= mid
    BY <1>4 DEF Tiles
  <2>4. QED
    BY <1>2, <1>5, <1>8, <2>2, <2>3
<1>12. QED
  BY <1>3, <1>5, <1>6, <1>8, <1>9, <1>10, <1>11, Zenon DEF D, docs, mid, words, to

(* As a set: no write is made twice or into another, and the last byte is  *)
(* written.                                                                *)
LEMMA TilesSet ==
    ASSUME NEW D, NEW ws, NEW from, NEW to, Tiles(D, ws, from, to), from < to
    PROVE  /\ ws \in Seq(ToSet(ws))
           /\ Cardinality(ToSet(ws)) = Len(ws)
           /\ \A v, x \in ToSet(ws) : v # x => Apart(v, x)
           /\ \A v \in ToSet(ws) : v.at >= from /\ v \in Writes(D)
           /\ FileSize(ToSet(ws)) = to
<1> DEFINE S == ToSet(ws)
           n == Len(ws)
<1>1. /\ ws \in Seq(Writes(D)) /\ n \in Nat /\ DOMAIN ws = 1..n
      /\ from \in Nat /\ to \in Nat
      /\ \A v \in S : Within(v, from, to)
      /\ EndsAt(ws, to)
  BY DEF Tiles
<1>2. \A v \in S : v \in Writes(D) /\ v.at \in Nat /\ v.len \in Nat \ {0}
  <2>1. \A v \in Writes(D) : v.at \in Nat /\ v.len \in Nat \ {0}
    BY DEF Writes
  <2>2. \A v \in S : v \in Writes(D)
    BY <1>1 DEF ToSet
  <2>3. QED
    BY <2>1, <2>2
<1>3. S = {ws[j] : j \in 1..n}
  BY <1>1 DEF ToSet
<1>4. ws \in Seq(S)
  <2>1. ws = [j \in 1..n |-> ws[j]] /\ \A j \in 1..n : ws[j] \in S
    BY <1>1, <1>3
  <2> HIDE DEF S
  <2>2. QED
    BY <1>1, <2>1
<1>5. \A j, k \in 1..n : j # k => Apart(ws[j], ws[k])
  BY DEF Tiles, AllApart
<1> HIDE DEF n
<1>6. \A v, x \in S : v # x => Apart(v, x)
  BY <1>3, <1>5
<1>7. Cardinality(S) = n
  <2> DEFINE f == [j \in 1..n |-> ws[j]]
  <2>1. ASSUME NEW j \in 1..n, NEW k \in 1..n, ws[j] = ws[k]
        PROVE  j = k
    <3>1. ws[j].at \in Nat /\ ws[j].len \in Nat \ {0}
      BY <1>2, <1>3
    <3>2. ~Apart(ws[j], ws[j])
      BY <3>1 DEF Apart
    <3>3. QED
      BY <1>5, <2>1, <3>2
  <2>2. f \in Bijection(1..n, S)
    <3>1. f \in [1..n -> S] /\ \A v \in S : \E j \in 1..n : f[j] = v
      BY <1>3
    <3>2. \A j, k \in 1..n : f[j] = f[k] => j = k
      BY <2>1
    <3> HIDE DEF f, S
    <3>3. QED
      BY <3>1, <3>2, Fun_IsBij
  <2>3. ExistsBijection(1..n, S)
    BY <2>2, Zenon DEF ExistsBijection
  <2> HIDE DEF S
  <2>4. QED
    BY <1>1, <2>3, FS_CountingElements
<1>8. FileSize(S) = to
  <2> DEFINE M == {0} \cup {x.at + x.len : x \in S}
  <2>1. to \in M
    BY <1>1 DEF EndsAt
  <2>2. \A y \in M : y \in Nat /\ to >= y
    BY <1>1, <1>2 DEF Within
  <2>3. \A y \in M : (\A z \in M : y >= z) => y = to
    BY <1>1, <2>1, <2>2
  <2>4. FileSize(S) = CHOOSE y \in M : \A z \in M : y >= z
    BY DEF FileSize, Max
  <2> HIDE DEF M
  <2>5. QED
    BY <2>1, <2>2, <2>3, <2>4
<1>9. \A v \in S : v.at >= from
  BY <1>1, <1>2 DEF Within
<1>10. QED
  BY <1>2, <1>4, <1>6, <1>7, <1>8, <1>9 DEF n

-----------------------------------------------------------------------------
(* What the readers find. *)

(* A read at the offset of a write gets its data. *)
Shows(c, ws) == \A v \in ws : c[v.at] = v.data

(* So a reader finds the data at the place it was written to. *)
LEMMA ShowsWrite ==
    ASSUME NEW c, NEW ws, Shows(c, ws), NEW at, NEW len, NEW d
    PROVE  /\ Seek(at, len, d) \in ws => c[at] = d
           /\ Write(at, len, d) \in ws => c[at] = d
<1>1. /\ Seek(at, len, d).at = at /\ Seek(at, len, d).data = d
      /\ Write(at, len, d).at = at /\ Write(at, len, d).data = d
  BY DEF Seek, Write
<1>2. Seek(at, len, d) \in ws => c[Seek(at, len, d).at] = Seek(at, len, d).data
  BY Zenon DEF Shows
<1>3. Write(at, len, d) \in ws => c[Write(at, len, d).at] = Write(at, len, d).data
  BY Zenon DEF Shows
<1>4. QED
  BY <1>1, <1>2, <1>3

(* So it is in the file: no two writes are at the same offset. *)
LEMMA ContentsShow ==
    ASSUME NEW ws, \A v, x \in ws : v # x => v.at # x.at
    PROVE  Shows(Contents(ws), ws)
<1> SUFFICES ASSUME NEW v \in ws
             PROVE  Contents(ws)[v.at] = v.data
  BY DEF Shows
<1>1. \A x \in ws : x.at = v.at => x = v
  OBVIOUS
<1>2. (CHOOSE x \in ws : x.at = v.at) = v
  BY <1>1
<1>3. v.at \in {x.at : x \in ws}
  OBVIOUS
<1>4. Contents(ws)[v.at] = (CHOOSE x \in ws : x.at = v.at).data
  BY <1>3 DEF Contents
<1>5. QED
  BY <1>2, <1>4

(* A bucket of a table, as it is read. *)
BucketRead(c, ws, chain, fn, at, pos, to) ==
    /\ pos \in [1..Len(chain) -> Nat]
    /\ \A j \in 1..Len(chain) :
          /\ c[at + ElementRecordSize * (j - 1)] = [position |-> pos[j]]
          /\ ToSet(fn[chain[j]][pos[j]]) \subseteq ws
          /\ at + ElementRecordSize * Len(chain) <= pos[j]
          /\ 0 < pos[j] /\ pos[j] + Bytes(fn[chain[j]][pos[j]]) <= to

(* The reader of a bucket finds each of its elements. *)
LEMMA BucketIsRead ==
    ASSUME NEW c, NEW ws, Shows(c, ws), NEW at \in Nat, NEW S, NEW chain \in Seq(S), NEW fn,
           NEW pos, NEW to, BucketAt(ws, at, chain, fn, pos, to)
    PROVE  BucketRead(c, ws, chain, fn, at, pos, to)
<1>1. pos \in [1..Len(chain) -> Nat]
  BY DEF BucketAt
<1>2. ASSUME NEW j \in 1..Len(chain)
      PROVE  /\ c[at + ElementRecordSize * (j - 1)] = [position |-> pos[j]]
             /\ ToSet(fn[chain[j]][pos[j]]) \subseteq ws
             /\ at + ElementRecordSize * Len(chain) <= pos[j]
             /\ 0 < pos[j] /\ pos[j] + Bytes(fn[chain[j]][pos[j]]) <= to
  <2>1. /\ Seek(at + ElementRecordSize * (j - 1), ElementRecordSize, [position |-> pos[j]]) \in ws
        /\ ToSet(fn[chain[j]][pos[j]]) \subseteq ws
        /\ at + ElementRecordSize * Len(chain) <= pos[j]
        /\ pos[j] + Bytes(fn[chain[j]][pos[j]]) <= to
    BY Zenon DEF BucketAt
  <2>2. c[at + ElementRecordSize * (j - 1)] = [position |-> pos[j]]
    <3> DEFINE o == at + ElementRecordSize * (j - 1)
               d == [position |-> pos[j]]
    <3>1. Seek(o, ElementRecordSize, d) \in ws
      BY <2>1
    <3> HIDE DEF o, d
    <3>2. c[o] = d
      BY <3>1, ShowsWrite
    <3>3. QED
      BY <3>2 DEF o, d
  <2>3. pos[j] \in Nat /\ Len(chain) \in Nat /\ Len(chain) > 0
    BY <1>1
  <2>4. 0 < pos[j]
    BY <2>1, <2>3 DEF ElementRecordSize
  <2>5. QED
    BY <2>1, <2>2, <2>4, Zenon
<1>3. QED
  BY <1>1, <1>2, Zenon DEF BucketRead

(* A table, as it is read. *)
TableRead(c, ws, at, table, fn, bpos, pos, to) ==
    LET n == Len(table)
        start == at + BucketListSize + BucketRecordSize * n
    IN  /\ c[at] = [numBuckets |-> n]
        /\ bpos \in [1..n -> Nat] /\ bpos[1] = start
        /\ \A b \in 1..n :
              /\ c[at + BucketListSize + BucketRecordSize * (b - 1)]
                    = WriteHTBucketRecord(Len(table[b]), bpos[b])
              /\ BucketRead(c, ws, table[b], fn, bpos[b], pos[b], to)
              /\ start <= bpos[b] /\ bpos[b] <= to
              /\ \A d \in 1..n : b < d /\ Len(table[b]) > 0 => bpos[b] < bpos[d]

(* The reader of a table finds each of its buckets. *)
LEMMA TableIsRead ==
    ASSUME NEW c, NEW ws, Shows(c, ws), NEW at \in Nat, NEW table, IsTable(table), NEW fn,
           NEW bpos, NEW pos, NEW to, TableAt(ws, at, table, fn, bpos, pos, to)
    PROVE  TableRead(c, ws, at, table, fn, bpos, pos, to)
<1> DEFINE n == Len(table)
           start == at + BucketListSize + BucketRecordSize * n
           rec(b) == at + BucketListSize + BucketRecordSize * (b - 1)
<1>1. n \in Nat /\ n > 0 /\ \A b \in 1..n : table[b] \in Seq(Elements(table))
  BY DEF IsTable
<1>2. /\ Seek(at, BucketListSize, [numBuckets |-> n]) \in ws
      /\ bpos \in [1..n -> Nat]
      /\ n > 0 => bpos[1] = start
      /\ \A b \in 1..n :
            /\ Seek(rec(b), BucketRecordSize, WriteHTBucketRecord(Len(table[b]), bpos[b])) \in ws
            /\ BucketAt(ws, bpos[b], table[b], fn, pos[b], to)
            /\ start <= bpos[b] /\ bpos[b] <= to
            /\ \A d \in 1..n : b < d /\ Len(table[b]) > 0 => bpos[b] < bpos[d]
  BY Zenon DEF TableAt
<1>3. c[at] = [numBuckets |-> n]
  BY <1>2, ShowsWrite, Zenon
<1>4. ASSUME NEW b \in 1..n
      PROVE  /\ c[rec(b)] = WriteHTBucketRecord(Len(table[b]), bpos[b])
             /\ BucketRead(c, ws, table[b], fn, bpos[b], pos[b], to)
  <2>1. c[rec(b)] = WriteHTBucketRecord(Len(table[b]), bpos[b])
    <3> DEFINE o == rec(b)
               d == WriteHTBucketRecord(Len(table[b]), bpos[b])
    <3>1. Seek(o, BucketRecordSize, d) \in ws
      BY <1>2
    <3> HIDE DEF o, d
    <3>2. c[o] = d
      BY <3>1, ShowsWrite
    <3>3. QED
      BY <3>2 DEF o, d
  <2>2. bpos[b] \in Nat
    BY <1>2
  <2> HIDE DEF n
  <2>3. BucketRead(c, ws, table[b], fn, bpos[b], pos[b], to)
    BY <1>1, <1>2, <2>2, BucketIsRead, Zenon
  <2>4. QED
    BY <2>1, <2>3
<1>5. bpos[1] = start
  BY <1>1, <1>2
<1>6. QED
  BY <1>2, <1>3, <1>4, <1>5, Zenon DEF TableRead

(* HashTableReader: the positions of the bucket of the key. *)
LEMMA PositionsRead ==
    ASSUME NEW c, NEW ws, NEW at \in Nat, NEW table, IsTable(table), NEW fn, NEW bpos, NEW pos,
           NEW to, TableRead(c, ws, at, table, fn, bpos, pos, to), NEW key \in Nat
    PROVE  LET b == (key % Len(table)) + 1
           IN  /\ b \in 1..Len(table)
               /\ LookupElementPositions(c, at, key) = pos[b]
<1> DEFINE n == Len(table)
           b == (key % n) + 1
           record == c[at + BucketListSize + BucketRecordSize * (key % n)]
<1>1. n \in Nat /\ n > 0 /\ b \in 1..n /\ b - 1 = key % n
  BY DEF IsTable
<1>2. /\ c[at] = [numBuckets |-> n]
      /\ c[at + BucketListSize + BucketRecordSize * (b - 1)]
            = WriteHTBucketRecord(Len(table[b]), bpos[b])
      /\ BucketRead(c, ws, table[b], fn, bpos[b], pos[b], to)
  BY <1>1, Zenon DEF TableRead
<1>3. c[at].numBuckets = n /\ record = WriteHTBucketRecord(Len(table[b]), bpos[b])
  BY <1>1, <1>2
<1>4. LookupElementPositions(c, at, key)
        = [j \in 1..record.chainNumElements |->
              c[record.position + ElementRecordSize * (j - 1)].position]
  BY <1>3, Zenon DEF LookupElementPositions, ReadAt
<1> HIDE DEF record, b
<1>5. record.chainNumElements = Len(table[b]) /\ record.position = bpos[b]
  BY <1>3 DEF WriteHTBucketRecord
<1>6. /\ pos[b] \in [1..Len(table[b]) -> Nat]
      /\ \A j \in 1..Len(table[b]) : c[bpos[b] + ElementRecordSize * (j - 1)] = [position |-> pos[b][j]]
  BY <1>2, Zenon DEF BucketRead
<1>7. ASSUME NEW j \in 1..Len(table[b])
      PROVE  c[bpos[b] + ElementRecordSize * (j - 1)].position = pos[b][j]
  <2> DEFINE o == bpos[b] + ElementRecordSize * (j - 1)
             x == pos[b][j]
  <2>1. c[o] = [position |-> x]
    BY <1>6, Zenon
  <2> HIDE DEF o, x
  <2>2. c[o].position = x
    BY <2>1
  <2>3. QED
    BY <2>2 DEF o, x
<1>8. LookupElementPositions(c, at, key) = [j \in 1..Len(table[b]) |-> pos[b][j]]
  BY <1>4, <1>5, <1>7
<1>9. [j \in 1..Len(table[b]) |-> pos[b][j]] = pos[b]
  BY <1>6
<1>10. QED
  BY <1>1, <1>8, <1>9 DEF b

(* The only match is the first. *)
LEMMA FirstMatchIs ==
    ASSUME NEW n \in Nat, NEW elements \in [1..n -> Nat], NEW matches, NEW j \in 1..n,
           elements[j] \in matches, \A m \in 1..n : elements[m] \in matches => m = j
    PROVE  FirstMatch(elements, matches) = elements[j]
<1> DEFINE T == {m \in 1..Len(elements) : elements[m] \in matches}
<1>1. elements \in Seq(Nat) /\ Len(elements) = n
  OBVIOUS
<1>2. T = {j}
  BY <1>1
<1>3. SelectInSeq(elements, LAMBDA p : p \in matches) = Min(T)
  BY <1>2 DEF SelectInSeq
<1> HIDE DEF T
<1>4. Min(T) = j
  <2>1. T \subseteq Nat /\ T # {}
    BY <1>2
  <2>2. Min(T) \in T
    BY <2>1, MinIs
  <2>3. QED
    BY <1>2, <2>2
<1>5. j # 0
  OBVIOUS
<1>6. FirstMatch(elements, matches) = IF j = 0 THEN 0 ELSE elements[j]
  BY <1>3, <1>4, Zenon DEF FirstMatch
<1>7. QED
  BY <1>5, <1>6

(* Each element of a table is in the bucket of its key. *)
LEMMA InItsBucket ==
    ASSUME NEW table, IsTable(table), NEW e \in Elements(table)
    PROVE  LET b == (e.key % Len(table)) + 1
           IN  /\ e.key \in Nat
               /\ b \in 1..Len(table)
               /\ \E j \in 1..Len(table[b]) : table[b][j] = e
<1>1. PICK b \in DOMAIN table : e \in ToSet(table[b])
  BY DEF Elements
<1>2. e.key \in Nat /\ e.key % Len(table) = b - 1
  BY <1>1 DEF IsTable
<1>3. Len(table) \in Nat /\ DOMAIN table = 1..Len(table) /\ table[b] \in Seq(Elements(table))
  BY <1>1 DEF IsTable
<1>4. (e.key % Len(table)) + 1 = b
  BY <1>1, <1>2, <1>3
<1>5. \E j \in 1..Len(table[b]) : table[b][j] = e
  BY <1>1, <1>3 DEF ToSet
<1>6. QED
  BY <1>1, <1>2, <1>3, <1>4, <1>5

(* The elements of a table, their buckets and their places in these. *)
LEMMA ElementsAre ==
    ASSUME NEW table, IsTable(table), NEW b \in 1..Len(table), NEW j \in 1..Len(table[b])
    PROVE  /\ table[b][j] \in Elements(table)
           /\ table[b][j].key \in Nat /\ table[b][j].key % Len(table) = b - 1
           /\ DOMAIN table = 1..Len(table) /\ DOMAIN table[b] = 1..Len(table[b])
           /\ Len(table[b]) \in Nat
<1>1. DOMAIN table = 1..Len(table) /\ table[b] \in Seq(Elements(table))
  BY DEF IsTable
<1>2. table[b][j] \in ToSet(table[b])
  BY <1>1 DEF ToSet
<1>3. QED
  BY <1>1, <1>2 DEF IsTable

(* A document is found by its number, *)
LEMMA DocMatchIs ==
    ASSUME NEW c, NEW ws, NEW at \in Nat, NEW table, IsTable(table), KeysDiffer(table),
           NEW fn, NEW bpos, NEW pos, NEW to, TableRead(c, ws, at, table, fn, bpos, pos, to),
           \A b \in 1..Len(table) : \A j \in 1..Len(table[b]) :
               c[pos[b][j]].docID = table[b][j].key,
           NEW e \in Elements(table)
    PROVE  \E b \in 1..Len(table) : \E j \in 1..Len(table[b]) :
              /\ table[b][j] = e
              /\ DocMatch(c, LookupElementPositions(c, at, e.key), e.key) = pos[b][j]
<1> DEFINE b == (e.key % Len(table)) + 1
           es == pos[b]
           n == Len(table[b])
           M == {p \in ToSet(es) : c[p].docID = e.key}
<1>1. e.key \in Nat /\ b \in 1..Len(table) /\ \E j \in 1..n : table[b][j] = e
  BY InItsBucket
<1>2. PICK j \in 1..n : table[b][j] = e
  BY <1>1
<1>3. LookupElementPositions(c, at, e.key) = es
  BY <1>1, PositionsRead
<1> HIDE DEF b
<1>4. es \in [1..n -> Nat] /\ n \in Nat
  <2>1. BucketRead(c, ws, table[b], fn, bpos[b], es, to)
    BY <1>1, Zenon DEF TableRead
  <2>2. QED
    BY <1>1, <2>1, ElementsAre DEF BucketRead
<1>5. \A m \in 1..n : es[m] \in ToSet(es)
  BY <1>4 DEF ToSet
<1>6. es[j] \in M
  BY <1>1, <1>2, <1>5
<1>7. ASSUME NEW m \in 1..n, es[m] \in M
      PROVE  m = j
  <2>1. table[b][m].key = table[b][j].key
    BY <1>1, <1>2, <1>7
  <2>2. b \in DOMAIN table /\ m \in DOMAIN table[b] /\ j \in DOMAIN table[b]
    BY <1>1, ElementsAre
  <2>3. QED
    BY <2>1, <2>2, Zenon DEF KeysDiffer
<1>8. DocMatch(c, es, e.key) = FirstMatch(es, M)
  BY DEF DocMatch, ReadAt
<1> HIDE DEF M, es, n
<1>9. FirstMatch(es, M) = es[j]
  BY <1>4, <1>6, <1>7, FirstMatchIs
<1>10. QED
  BY <1>1, <1>2, <1>3, <1>8, <1>9, Zenon DEF es, n

(* and a word by its letters. *)
LEMMA WordMatchIs ==
    ASSUME NEW c, NEW ws, NEW at \in Nat, NEW table, IsTable(table), WordsDiffer(table),
           NEW fn, NEW bpos, NEW pos, NEW to, TableRead(c, ws, at, table, fn, bpos, pos, to),
           \A b \in 1..Len(table) : \A j \in 1..Len(table[b]) :
               /\ c[pos[b][j]].wordBytes = table[b][j].len
               /\ c[pos[b][j] + PostingsHeaderSize].text = table[b][j].word,
           NEW e \in Elements(table)
    PROVE  \E b \in 1..Len(table) : \E j \in 1..Len(table[b]) :
              /\ table[b][j] = e
              /\ WordMatch(c, LookupElementPositions(c, at, e.key), e) = pos[b][j]
<1> DEFINE b == (e.key % Len(table)) + 1
           es == pos[b]
           n == Len(table[b])
           M == {p \in ToSet(es) : c[p].wordBytes = e.len /\ c[p + PostingsHeaderSize].text = e.word}
<1>1. e.key \in Nat /\ b \in 1..Len(table) /\ \E j \in 1..n : table[b][j] = e
  BY InItsBucket
<1>2. PICK j \in 1..n : table[b][j] = e
  BY <1>1
<1>3. LookupElementPositions(c, at, e.key) = es
  BY <1>1, PositionsRead
<1> HIDE DEF b
<1>4. es \in [1..n -> Nat] /\ n \in Nat
  <2>1. BucketRead(c, ws, table[b], fn, bpos[b], es, to)
    BY <1>1, Zenon DEF TableRead
  <2>2. QED
    BY <1>1, <2>1, ElementsAre DEF BucketRead
<1>5. \A m \in 1..n : es[m] \in ToSet(es)
  BY <1>4 DEF ToSet
<1>6. es[j] \in M
  BY <1>1, <1>2, <1>5
<1>7. ASSUME NEW m \in 1..n, es[m] \in M
      PROVE  m = j
  <2>1. table[b][m].word = table[b][j].word
    BY <1>1, <1>2, <1>7
  <2>2. b \in DOMAIN table /\ m \in DOMAIN table[b] /\ j \in DOMAIN table[b]
    BY <1>1, ElementsAre
  <2>3. QED
    BY <2>1, <2>2, Zenon DEF WordsDiffer
<1>8. WordMatch(c, es, e) = FirstMatch(es, M)
  BY DEF WordMatch, ReadAt
<1> HIDE DEF M, es, n
<1>9. FirstMatch(es, M) = es[j]
  BY <1>4, <1>6, <1>7, FirstMatchIs
<1>10. QED
  BY <1>1, <1>2, <1>3, <1>8, <1>9, Zenon DEF es, n

(* The elements, as they are read. *)
DocnameRead(c, at, e) ==
    /\ c[at] = [docID |-> e.key, filenameBytes |-> e.len]
    /\ c[at + DoctableHeaderSize] = [text |-> e.name]

(* A docID and the positions of the word in the document. *)
PositionListRead(c, at, e) ==
    /\ c[at] = [docID |-> e.key, numPositions |-> Len(e.positions)]
    /\ \A j \in 1..Len(e.positions) :
          c[at + DocIDHeaderSize + PositionSize * (j - 1)] = [position |-> e.positions[j]]

(* A word, with the size of its docID table. *)
WordRead(c, at, e) ==
    /\ c[at] = [wordBytes |-> e.len, postingsBytes |-> Bytes(Nested(at, e))]
    /\ c[at + PostingsHeaderSize] = [text |-> e.word]

(* An element of the doctable is read as it was written, *)
LEMMA DocnameIsRead ==
    ASSUME NEW c, NEW ws, Shows(c, ws), NEW at \in Nat, NEW e, e.len \in 1..INT16_MAX,
           ToSet(WriteDocidToDocnameFn(at, e)) \subseteq ws
    PROVE  DocnameRead(c, at, e)
<1> DEFINE d == [docID |-> e.key, filenameBytes |-> e.len]
           x == [text |-> e.name]
           o == at + DoctableHeaderSize
           v == Seek(at, DoctableHeaderSize, d)
           y == Write(o, e.len, x)
<1>1. WriteDocidToDocnameFn(at, e) = <<v, y>>
  BY DocnameWrites
<1> HIDE DEF v, y
<1>2. ToSet(<<v, y>>) = {v, y}
  BY DEF ToSet
<1>3. v \in ws /\ y \in ws
  BY <1>1, <1>2
<1> HIDE DEF d, x, o
<1>4. c[at] = d /\ c[o] = x
  BY <1>3, ShowsWrite DEF v, y
<1>5. QED
  BY <1>4 DEF DocnameRead, d, x, o

(* one of a docID table too, *)
LEMMA PositionListIsRead ==
    ASSUME NEW c, NEW ws, Shows(c, ws), NEW D, IsData(D), NEW at \in Nat, NEW e,
           e.key \in Nat, e.positions \in Seq(Nat),
           ToSet(WriteDocidToPositionListFn(at, e)) \subseteq ws
    PROVE  PositionListRead(c, at, e)
<1> DEFINE d == [docID |-> e.key, numPositions |-> Len(e.positions)]
           n == Len(e.positions)
           v == Seek(at, DocIDHeaderSize, d)
           P(k) == PositionWrite(at + DocIDHeaderSize, e.positions, k)
<1>1. ToSet(WriteDocidToPositionListFn(at, e)) = {v} \cup {P(k) : k \in 1..n}
  BY PositionListLaid
<1>2. v \in ws /\ \A k \in 1..n : P(k) \in ws
  BY <1>1
<1>3. c[at] = d
  <2> HIDE DEF d
  <2>1. QED
    BY <1>2, ShowsWrite
<1>4. ASSUME NEW k \in 1..n
      PROVE  c[at + DocIDHeaderSize + PositionSize * (k - 1)] = [position |-> e.positions[k]]
  <2> DEFINE o == at + DocIDHeaderSize + PositionSize * (k - 1)
             x == [position |-> e.positions[k]]
  <2>1. Write(o, PositionSize, x) \in ws
    BY <1>2 DEF PositionWrite
  <2> HIDE DEF o, x
  <2>2. c[o] = x
    BY <2>1, ShowsWrite
  <2>3. QED
    BY <2>2 DEF o, x
<1>5. QED
  BY <1>3, <1>4 DEF PositionListRead

(* and one of the index, with the docID table behind it. *)
LEMMA WordIsRead ==
    ASSUME NEW c, NEW ws, Shows(c, ws), NEW D, IsData(D), NEW at \in Nat, NEW e,
           e.len \in 1..INT16_MAX, IsPostings(e.postings), [text |-> e.word] \in D,
           ToSet(WriteWordToPostingsFn(at, e)) \subseteq ws
    PROVE  WordRead(c, at, e) /\ ToSet(Nested(at, e)) \subseteq ws
<1> DEFINE d == [wordBytes |-> e.len, postingsBytes |-> Bytes(Nested(at, e))]
           x == [text |-> e.word]
           o == at + PostingsHeaderSize
<1>1. ToSet(WriteWordToPostingsFn(at, e)) = ToSet(Nested(at, e)) \cup {WordHeader(at, e), WordText(at, e)}
  BY WordLaid
<1>2. /\ Seek(at, PostingsHeaderSize, d) \in ws /\ Write(o, e.len, x) \in ws
      /\ ToSet(Nested(at, e)) \subseteq ws
  BY <1>1 DEF WordHeader, WordText
<1> HIDE DEF d, x, o
<1>3. c[at] = d /\ c[o] = x
  BY <1>2, ShowsWrite
<1>4. QED
  BY <1>2, <1>3 DEF WordRead, d, x, o

(* Where the elements of a table are. *)
LEMMA ElementWrites ==
    ASSUME NEW c, NEW ws, NEW at, NEW table, IsTable(table), NEW fn, NEW bpos, NEW pos, NEW to,
           TableRead(c, ws, at, table, fn, bpos, pos, to),
           NEW b \in 1..Len(table), NEW j \in 1..Len(table[b])
    PROVE  /\ pos[b][j] \in Nat /\ 0 < pos[b][j]
           /\ ToSet(fn[table[b][j]][pos[b][j]]) \subseteq ws
           /\ pos[b][j] + Bytes(fn[table[b][j]][pos[b][j]]) <= to
<1>1. BucketRead(c, ws, table[b], fn, bpos[b], pos[b], to)
  BY Zenon DEF TableRead
<1>2. /\ pos[b] \in [1..Len(table[b]) -> Nat]
      /\ ToSet(fn[table[b][j]][pos[b][j]]) \subseteq ws
      /\ 0 < pos[b][j] /\ pos[b][j] + Bytes(fn[table[b][j]][pos[b][j]]) <= to
  BY <1>1, Zenon DEF BucketRead
<1>3. QED
  BY <1>2

(* The doctable, as it is read. *)
LEMMA DocTableReads ==
    ASSUME NEW c, NEW D, NEW ws, Shows(c, ToSet(ws)), NEW at \in Nat, NEW table, IsDocTable(table),
           NEW to, HasTable(D, ws, at, table, DocFn(table), to)
    PROVE  \E bpos, pos :
              /\ TableRead(c, ToSet(ws), at, table, DocFn(table), bpos, pos, to)
              /\ \A b \in 1..Len(table) : \A j \in 1..Len(table[b]) :
                    DocnameRead(c, pos[b][j], table[b][j])
<1>1. IsTable(table)
  BY DEF IsDocTable
<1>2. PICK bpos, pos : TableAt(ToSet(ws), at, table, DocFn(table), bpos, pos, to)
  BY DEF HasTable
<1>3. TableRead(c, ToSet(ws), at, table, DocFn(table), bpos, pos, to)
  BY <1>1, <1>2, TableIsRead
<1>4. ASSUME NEW b \in 1..Len(table), NEW j \in 1..Len(table[b])
      PROVE  DocnameRead(c, pos[b][j], table[b][j])
  <2> DEFINE p == pos[b][j]
             e == table[b][j]
  <2>1. p \in Nat /\ ToSet(DocFn(table)[e][p]) \subseteq ToSet(ws)
    BY <1>1, <1>3, ElementWrites
  <2>2. e \in Elements(table)
    BY <1>1, ElementsAre
  <2> HIDE DEF p, e
  <2>3. DocFn(table)[e][p] = WriteDocidToDocnameFn(p, e) /\ e.len \in 1..INT16_MAX
    BY <2>1, <2>2 DEF DocFn, IsDocTable
  <2>4. DocnameRead(c, p, e)
    BY <2>1, <2>3, DocnameIsRead
  <2>5. QED
    BY <2>4 DEF p, e
<1>5. QED
  BY <1>3, <1>4

(* Each document is found under its number, with its name. *)
LEMMA DocLookup ==
    ASSUME NEW c, NEW D, NEW ws, Shows(c, ToSet(ws)), NEW at \in Nat, NEW table, IsDocTable(table),
           NEW to, HasTable(D, ws, at, table, DocFn(table), to), NEW e \in Elements(table)
    PROVE  DocTable_LookupDocID(c, at, e.key) = [found |-> TRUE, name |-> e.name]
<1>1. IsTable(table) /\ KeysDiffer(table)
  BY DEF IsDocTable
<1>2. PICK bpos, pos :
         /\ TableRead(c, ToSet(ws), at, table, DocFn(table), bpos, pos, to)
         /\ \A b \in 1..Len(table) : \A j \in 1..Len(table[b]) :
               DocnameRead(c, pos[b][j], table[b][j])
  BY DocTableReads, Zenon
<1>3. ASSUME NEW b \in 1..Len(table), NEW j \in 1..Len(table[b])
      PROVE  c[pos[b][j]].docID = table[b][j].key
  <2>1. c[pos[b][j]] = [docID |-> table[b][j].key, filenameBytes |-> table[b][j].len]
    BY <1>2, Zenon DEF DocnameRead
  <2>2. QED
    BY <2>1
<1>4. PICK b \in 1..Len(table) : \E j \in 1..Len(table[b]) :
         /\ table[b][j] = e
         /\ DocMatch(c, LookupElementPositions(c, at, e.key), e.key) = pos[b][j]
  BY <1>1, <1>2, <1>3, DocMatchIs
<1>5. PICK j \in 1..Len(table[b]) :
         /\ table[b][j] = e
         /\ DocMatch(c, LookupElementPositions(c, at, e.key), e.key) = pos[b][j]
  BY <1>4
<1> DEFINE p == pos[b][j]
<1>6. p \in Nat /\ p # 0
  <2>1. p \in Nat /\ 0 < p
    BY <1>1, <1>2, ElementWrites, Zenon
  <2> HIDE DEF p
  <2>2. QED
    BY <2>1
<1>7. c[p + DoctableHeaderSize] = [text |-> e.name]
  BY <1>2, <1>5, Zenon DEF DocnameRead
<1> HIDE DEF p
<1>8. DocTable_LookupDocID(c, at, e.key) =
        IF p = 0 THEN NotFound ELSE [found |-> TRUE, name |-> c[p + DoctableHeaderSize].text]
  BY <1>5, Zenon DEF DocTable_LookupDocID, ReadAt, p
<1>9. QED
  BY <1>6, <1>7, <1>8

(* A docID table, as it is read. *)
LEMMA PostingsRead ==
    ASSUME NEW c, NEW D, IsData(D), NEW ws, Shows(c, ToSet(ws)), NEW at \in Nat, NEW table,
           IsPostings(table), NEW to, HasTable(D, ws, at, table, PostingsFn(table), to)
    PROVE  \E bpos, pos :
              /\ TableRead(c, ToSet(ws), at, table, PostingsFn(table), bpos, pos, to)
              /\ \A b \in 1..Len(table) : \A j \in 1..Len(table[b]) :
                    PositionListRead(c, pos[b][j], table[b][j])
<1>1. IsTable(table)
  BY DEF IsPostings
<1>2. PICK bpos, pos : TableAt(ToSet(ws), at, table, PostingsFn(table), bpos, pos, to)
  BY DEF HasTable
<1>3. TableRead(c, ToSet(ws), at, table, PostingsFn(table), bpos, pos, to)
  BY <1>1, <1>2, TableIsRead
<1>4. ASSUME NEW b \in 1..Len(table), NEW j \in 1..Len(table[b])
      PROVE  PositionListRead(c, pos[b][j], table[b][j])
  <2> DEFINE p == pos[b][j]
             e == table[b][j]
  <2>1. p \in Nat /\ ToSet(PostingsFn(table)[e][p]) \subseteq ToSet(ws)
    BY <1>1, <1>3, ElementWrites
  <2>2. e \in Elements(table) /\ e.key \in Nat
    BY <1>1, ElementsAre
  <2> HIDE DEF p, e
  <2>3. PostingsFn(table)[e][p] = WriteDocidToPositionListFn(p, e)
    BY <2>1, <2>2 DEF PostingsFn
  <2>4. e.positions \in Seq(Nat)
    BY <2>2, PositionsAre
  <2>5. PositionListRead(c, p, e)
    BY <2>1, <2>2, <2>3, <2>4, PositionListIsRead
  <2>6. QED
    BY <2>5 DEF p, e
<1>5. QED
  BY <1>3, <1>4

(* Each document is found in it, with the positions of the word. *)
LEMMA PostingsLookup ==
    ASSUME NEW c, NEW D, IsData(D), NEW ws, Shows(c, ToSet(ws)), NEW at \in Nat, NEW table,
           IsPostings(table), NEW to, HasTable(D, ws, at, table, PostingsFn(table), to),
           NEW e \in Elements(table)
    PROVE  DocIDTable_LookupDocID(c, at, e.key) = [found |-> TRUE, positions |-> e.positions]
<1>1. IsTable(table) /\ KeysDiffer(table) /\ e.positions \in Seq(Nat)
  BY PositionsAre DEF IsPostings
<1>2. PICK bpos, pos :
         /\ TableRead(c, ToSet(ws), at, table, PostingsFn(table), bpos, pos, to)
         /\ \A b \in 1..Len(table) : \A j \in 1..Len(table[b]) :
               PositionListRead(c, pos[b][j], table[b][j])
  BY PostingsRead, Zenon
<1>3. ASSUME NEW b \in 1..Len(table), NEW j \in 1..Len(table[b])
      PROVE  c[pos[b][j]].docID = table[b][j].key
  <2>1. c[pos[b][j]] = [docID |-> table[b][j].key, numPositions |-> Len(table[b][j].positions)]
    BY <1>2, Zenon DEF PositionListRead
  <2>2. QED
    BY <2>1
<1>4. PICK b \in 1..Len(table) : \E j \in 1..Len(table[b]) :
         /\ table[b][j] = e
         /\ DocMatch(c, LookupElementPositions(c, at, e.key), e.key) = pos[b][j]
  BY <1>1, <1>2, <1>3, DocMatchIs
<1>5. PICK j \in 1..Len(table[b]) :
         /\ table[b][j] = e
         /\ DocMatch(c, LookupElementPositions(c, at, e.key), e.key) = pos[b][j]
  BY <1>4
<1> DEFINE p == pos[b][j]
           n == Len(e.positions)
           o(k) == p + DocIDHeaderSize + PositionSize * (k - 1)
<1>6. p \in Nat /\ p # 0
  <2>1. p \in Nat /\ 0 < p
    BY <1>1, <1>2, ElementWrites, Zenon
  <2> HIDE DEF p
  <2>2. QED
    BY <2>1
<1>7. /\ c[p] = [docID |-> e.key, numPositions |-> n]
      /\ \A k \in 1..n : c[o(k)] = [position |-> e.positions[k]]
  BY <1>2, <1>5, Zenon DEF PositionListRead
<1> HIDE DEF p, n
<1>8. c[p].numPositions = n
  BY <1>7
<1>9. DocIDTable_LookupDocID(c, at, e.key) =
        IF p = 0 THEN NotFound
        ELSE [found |-> TRUE, positions |-> [k \in 1..c[p].numPositions |-> c[o(k)].position]]
  BY <1>5, Zenon DEF DocIDTable_LookupDocID, ReadAt, p
<1>10. [k \in 1..n |-> c[o(k)].position] = e.positions
  <2>1. ASSUME NEW k \in 1..n
        PROVE  c[o(k)].position = e.positions[k]
    <3> DEFINE x == e.positions[k]
    <3>1. c[o(k)] = [position |-> x]
      BY <1>7, Zenon
    <3> HIDE DEF o, x
    <3>2. c[o(k)].position = x
      BY <3>1
    <3>3. QED
      BY <3>2 DEF x
  <2>2. e.positions = [k \in 1..n |-> e.positions[k]]
    BY <1>1 DEF n
  <2> HIDE DEF o
  <2>3. QED
    BY <2>1, <2>2
<1>11. QED
  BY <1>6, <1>8, <1>9, <1>10

(* The index, as it is read. *)
MemIndexRead(c, ws, at, table, bpos, pos, to) ==
    /\ TableRead(c, ws, at, table, WordFn(table), bpos, pos, to)
    /\ \A b \in 1..Len(table) : \A j \in 1..Len(table[b]) :
          /\ WordRead(c, pos[b][j], table[b][j])
          /\ ToSet(Nested(pos[b][j], table[b][j])) \subseteq ws

(* The index is read as it was written. *)
LEMMA MemIndexReads ==
    ASSUME NEW c, NEW D, IsData(D), NEW ws, Shows(c, ToSet(ws)), NEW at \in Nat, NEW table,
           IsMemIndex(table), \A e \in Elements(table) : [text |-> e.word] \in D,
           NEW to, HasTable(D, ws, at, table, WordFn(table), to)
    PROVE  \E bpos, pos : MemIndexRead(c, ToSet(ws), at, table, bpos, pos, to)
<1>1. IsTable(table)
  BY DEF IsMemIndex
<1>2. PICK bpos, pos : TableAt(ToSet(ws), at, table, WordFn(table), bpos, pos, to)
  BY DEF HasTable
<1>3. TableRead(c, ToSet(ws), at, table, WordFn(table), bpos, pos, to)
  BY <1>1, <1>2, TableIsRead
<1>4. ASSUME NEW b \in 1..Len(table), NEW j \in 1..Len(table[b])
      PROVE  /\ WordRead(c, pos[b][j], table[b][j])
             /\ ToSet(Nested(pos[b][j], table[b][j])) \subseteq ToSet(ws)
  <2> DEFINE p == pos[b][j]
             e == table[b][j]
  <2>1. p \in Nat /\ ToSet(WordFn(table)[e][p]) \subseteq ToSet(ws)
    BY <1>1, <1>3, ElementWrites
  <2>2. e \in Elements(table)
    BY <1>1, ElementsAre
  <2> HIDE DEF p, e
  <2>3. WordFn(table)[e][p] = WriteWordToPostingsFn(p, e)
    BY <2>1, <2>2 DEF WordFn
  <2>4. e.len \in 1..INT16_MAX /\ IsPostings(e.postings) /\ [text |-> e.word] \in D
    BY <2>2 DEF IsMemIndex
  <2>5. WordRead(c, p, e) /\ ToSet(Nested(p, e)) \subseteq ToSet(ws)
    BY <2>1, <2>3, <2>4, WordIsRead
  <2>6. QED
    BY <2>5 DEF p, e
<1>5. MemIndexRead(c, ToSet(ws), at, table, bpos, pos, to)
  BY <1>3, <1>4, Zenon DEF MemIndexRead
<1>6. QED
  BY <1>5, Zenon

(* Each word is found, and behind it its docID table. *)
LEMMA WordLookup ==
    ASSUME NEW c, NEW D, IsData(D), NEW ws, Shows(c, ToSet(ws)), NEW at \in Nat, NEW table,
           IsMemIndex(table), \A e \in Elements(table) : [text |-> e.word] \in D,
           NEW to, HasTable(D, ws, at, table, WordFn(table), to), NEW e \in Elements(table)
    PROVE  \E start \in Nat :
              /\ start # 0
              /\ LookupWord(c, at, e) = [found |-> TRUE, table |-> start]
              /\ \E nested, end : /\ HasTable(D, nested, start, e.postings, PostingsFn(e.postings), end)
                                  /\ Shows(c, ToSet(nested))
                                  /\ end <= to
<1>1. IsTable(table) /\ WordsDiffer(table) /\ e.len \in 1..INT16_MAX /\ IsPostings(e.postings)
      /\ [text |-> e.word] \in D
  BY DEF IsMemIndex
<1>2. PICK bpos, pos : MemIndexRead(c, ToSet(ws), at, table, bpos, pos, to)
  BY MemIndexReads, Zenon
<1>3. /\ TableRead(c, ToSet(ws), at, table, WordFn(table), bpos, pos, to)
       /\ \A b \in 1..Len(table) : \A j \in 1..Len(table[b]) :
             /\ WordRead(c, pos[b][j], table[b][j])
             /\ ToSet(Nested(pos[b][j], table[b][j])) \subseteq ToSet(ws)
  BY <1>2, Zenon DEF MemIndexRead
<1>4. ASSUME NEW b \in 1..Len(table), NEW j \in 1..Len(table[b])
      PROVE  /\ c[pos[b][j]].wordBytes = table[b][j].len
             /\ c[pos[b][j] + PostingsHeaderSize].text = table[b][j].word
  <2>1. /\ c[pos[b][j]] = [wordBytes |-> table[b][j].len,
                           postingsBytes |-> Bytes(Nested(pos[b][j], table[b][j]))]
        /\ c[pos[b][j] + PostingsHeaderSize] = [text |-> table[b][j].word]
    BY <1>3, Zenon DEF WordRead
  <2>2. QED
    BY <2>1
<1>5. PICK b \in 1..Len(table) : \E j \in 1..Len(table[b]) :
         /\ table[b][j] = e
         /\ WordMatch(c, LookupElementPositions(c, at, e.key), e) = pos[b][j]
  BY <1>1, <1>3, <1>4, WordMatchIs
<1>6. PICK j \in 1..Len(table[b]) :
         /\ table[b][j] = e
         /\ WordMatch(c, LookupElementPositions(c, at, e.key), e) = pos[b][j]
  BY <1>5
<1> DEFINE p == pos[b][j]
           start == p + PostingsHeaderSize + e.len
           nested == Nested(p, e)
           end == start + Bytes(nested)
<1>7. p \in Nat /\ p # 0
  <2>1. p \in Nat /\ 0 < p
    BY <1>1, <1>3, ElementWrites, Zenon
  <2> HIDE DEF p
  <2>2. QED
    BY <2>1
<1>71. p + Bytes(WordFn(table)[e][p]) <= to
  BY <1>1, <1>3, <1>6, ElementWrites, Zenon
<1>8. c[p].wordBytes = e.len /\ ToSet(nested) \subseteq ToSet(ws)
  BY <1>3, <1>4, <1>6
<1> HIDE DEF p
<1>9. LookupWord(c, at, e) =
        IF p = 0 THEN NotFound
        ELSE [found |-> TRUE, table |-> p + PostingsHeaderSize + c[p].wordBytes]
  BY <1>6, Zenon DEF LookupWord, ReadAt, p
<1>10. LookupWord(c, at, e) = [found |-> TRUE, table |-> start]
  BY <1>7, <1>8, <1>9
<1>11. HasTable(D, nested, start, e.postings, PostingsFn(e.postings), end) /\ start \in Nat
       /\ end = p + Bytes(WriteWordToPostingsFn(p, e))
  <2>1. p \in Nat /\ e.len \in 1..INT16_MAX /\ IsPostings(e.postings) /\ [text |-> e.word] \in D
    BY <1>1, <1>7
  <2>2. LET s == p + PostingsHeaderSize + e.len
            t == s + Bytes(Nested(p, e))
        IN  /\ p + Bytes(WriteWordToPostingsFn(p, e)) = t /\ s \in Nat
            /\ HasTable(D, Nested(p, e), s, e.postings, PostingsFn(e.postings), t)
    <3> HIDE DEF start, nested, end
    <3>1. QED
      BY <2>1, WordLaid, ZenonT(40)
  <2>3. QED
    BY <2>2, Zenon
<1>111. end <= to
  <2>1. WordFn(table)[e][p] = WriteWordToPostingsFn(p, e)
    <3>1. e \in Elements(table) /\ p \in Nat
      BY <1>1, <1>7
    <3> HIDE DEF start, nested
    <3>2. QED
      BY <3>1, Zenon DEF WordFn
  <2> HIDE DEF end
  <2>2. QED
    BY <1>71, <1>11, <2>1
<1>12. Shows(c, ToSet(nested))
  BY <1>8 DEF Shows
<1>13. start # 0
  BY <1>1, <1>7 DEF PostingsHeaderSize
<1> HIDE DEF start, nested, end
<1>14. QED
  BY <1>10, <1>11, <1>111, <1>12, <1>13

-----------------------------------------------------------------------------
(* The list of the documents of a word. *)

(* FlattenSeq appends one sequence after another. *)
LEMMA FlattenLoop ==
    ASSUME NEW S, NEW seqs \in Seq(Seq(S)), Len(seqs) > 0
    PROVE  \E flat \in [1..Len(seqs) -> Seq(S)] :
              /\ flat[1] = seqs[1]
              /\ \A m \in 2..Len(seqs) : flat[m] = flat[m - 1] \o seqs[m]
              /\ FlattenSeq(seqs) = flat[Len(seqs)]
<1> DEFINE N == Len(seqs)
           Q == Seq(S)
           Join(m, s) == IF m = 1 THEN seqs[m] ELSE s \o seqs[m]
           step == [x \in (1..N) \X Q |-> Join(x[1], x[2])]
           F(g) == [m \in 1..N |-> Join(m, g[m - 1])]
           flat == CHOOSE g : g = F(g)
<1>1. N \in Nat /\ N > 0 /\ \A m \in 1..N : seqs[m] \in Q
  OBVIOUS
<1>2. \A m \in 1..N, s \in Q : Join(m, s) \in Q
  <2>1. ASSUME NEW m \in 1..N, NEW s \in Q
        PROVE  s \o seqs[m] \in Q
    BY <1>1, ToSetConcat
  <2>2. QED
    BY <1>1, <2>1
<1>3. FlattenSeq(seqs) = flat[N]
  BY <1>1 DEF FlattenSeq
<1>4. <<>> \in Q
  OBVIOUS
<1> HIDE DEF Q, Join, N
<1>5. step \in [(1..N) \X Q -> Q]
  BY <1>2
<1>6. PICK h : Recursion(h, N, Q, <<>>, step)
  <2> HIDE DEF step
  <2>1. QED
    BY <1>1, <1>4, <1>5, RecursionExists, Zenon
<1> DEFINE g == [m \in 1..N |-> h[m]]
<1>7. \A m \in 1..N : h[m] \in Q /\ h[m] = Join(m, h[m - 1])
  <2>1. ASSUME NEW m \in 1..N
        PROVE  h[m] \in Q /\ h[m] = Join(m, h[m - 1])
    <3>1. m \in 0..N /\ m - 1 \in 0..N
      BY <1>1
    <3>2. h[m] \in Q /\ h[m - 1] \in Q
      BY <1>6, <3>1 DEF Recursion
    <3>3. step[<<m, h[m - 1]>>] = Join(m, h[m - 1])
      BY <3>2
    <3>4. QED
      BY <1>6, <3>2, <3>3 DEF Recursion
  <2>2. QED
    BY <2>1
<1>8. \A m \in 1..N : Join(m, h[m - 1]) = Join(m, g[m - 1])
  <2>1. ASSUME NEW m \in 1..N
        PROVE  Join(m, h[m - 1]) = Join(m, g[m - 1])
    <3>1. CASE m = 1
      BY <3>1 DEF Join
    <3>2. CASE m # 1
      <4>1. m - 1 \in 1..N
        BY <1>1, <3>2
      <4>2. QED
        BY <4>1
    <3>3. QED
      BY <3>1, <3>2
  <2>2. QED
    BY <2>1
<1>9. g = F(g)
  BY <1>7, <1>8
<1> HIDE DEF F, g
<1>10. flat = F(flat)
  BY <1>9
<1> HIDE DEF flat
<1>11. flat = [m \in 1..N |-> flat[m]] /\ \A m \in 1..N : flat[m] = Join(m, flat[m - 1])
  BY <1>10 DEF F
<1>12. \A m \in 1..N : flat[m] \in Q
  <2> DEFINE T == {m \in 0..N : m = 0 \/ flat[m] \in Q}
  <2>1. 0 \in T
    BY <1>1
  <2>2. ASSUME NEW m \in 1..N, m - 1 \in T
        PROVE  m \in T
    <3>1. m \in 0..N /\ flat[m] = Join(m, flat[m - 1])
      <4>1. m \in 0..N
        BY <1>1
      <4>2. QED
        BY <1>11, <4>1, Zenon
    <3>2. CASE m = 1
      BY <1>1, <3>1, <3>2 DEF Join
    <3>3. CASE m # 1
      BY <1>2, <2>2, <3>1, <3>3
    <3>4. QED
      BY <3>2, <3>3
  <2>3. \A m \in 0..N : m \in T
    <3> HIDE DEF T
    <3>1. QED
      BY <1>1, <2>1, <2>2, Induction
  <2>4. QED
    BY <1>1, <2>3
<1>13. flat \in [1..N -> Q]
  BY <1>11, <1>12
<1>14. flat[1] = seqs[1] /\ \A m \in 2..N : flat[m] = flat[m - 1] \o seqs[m]
  <2>1. 1 \in 1..N /\ \A m \in 2..N : m \in 1..N /\ m # 1
    BY <1>1
  <2>2. QED
    BY <1>11, <2>1, Zenon DEF Join
<1>15. QED
  BY <1>3, <1>13, <1>14 DEF Q, N

(* Sets of their own, each as large as its sequence is long. *)
SizesOf(seqs, sets) ==
    /\ \A m \in 1..Len(seqs) : IsFiniteSet(sets[m]) /\ Cardinality(sets[m]) = Len(seqs[m])
    /\ \A j, m \in 1..Len(seqs) : j # m => sets[j] \cap sets[m] = {}

(* The sequences together, and the sets together. *)
AllOf(seqs) == UNION {ToSet(seqs[m]) : m \in 1..Len(seqs)}

(* The union of the sets. *)
AllSets(seqs, sets) == UNION {sets[m] : m \in 1..Len(seqs)}

(* What is in it, and how long it is. *)
LEMMA FlattenIs ==
    ASSUME NEW S, NEW seqs \in Seq(Seq(S)), Len(seqs) > 0,
           NEW sets, SizesOf(seqs, sets)
    PROVE  /\ ToSet(FlattenSeq(seqs)) = AllOf(seqs)
           /\ Len(FlattenSeq(seqs)) = Cardinality(AllSets(seqs, sets))
<1> DEFINE N == Len(seqs)
           Q == Seq(S)
           Union(m) == UNION {ToSet(seqs[j]) : j \in 1..m}
           Sets(m) == UNION {sets[j] : j \in 1..m}
<1>1. N \in Nat /\ N > 0 /\ \A m \in 1..N : seqs[m] \in Q
  OBVIOUS
<1>2. PICK flat \in [1..N -> Q] :
         /\ flat[1] = seqs[1]
         /\ \A m \in 2..N : flat[m] = flat[m - 1] \o seqs[m]
         /\ FlattenSeq(seqs) = flat[N]
  BY FlattenLoop
<1> DEFINE Done(m) == /\ ToSet(flat[m]) = Union(m)
                      /\ IsFiniteSet(Sets(m))
                      /\ Len(flat[m]) = Cardinality(Sets(m))
           T == {m \in 0..N : m = 0 \/ Done(m)}
<1> HIDE DEF N
<1>3. \A m \in 1..N : /\ IsFiniteSet(sets[m]) /\ Cardinality(sets[m]) = Len(seqs[m])
                      /\ \A j \in 1..N : j # m => sets[j] \cap sets[m] = {}
  BY DEF N, SizesOf
<1>4. ASSUME NEW m \in 1..N, m - 1 \in T
      PROVE  m \in T
  <2>1. CASE m = 1
    <3>1. Union(1) = ToSet(seqs[1]) /\ Sets(1) = sets[1]
      BY DEF ToSet
    <3>2. 1 \in 1..N
      BY <1>1
    <3> HIDE DEF Union, Sets
    <3>3. QED
      BY <1>2, <1>3, <2>1, <3>1, <3>2
  <2>2. CASE m # 1
    <3>1. m - 1 \in 1..N /\ m \in 2..N /\ m \in 0..N /\ m - 1 # 0 /\ 1..m = (1..(m - 1)) \cup {m}
      BY <1>1, <2>2
    <3>2. Done(m - 1)
      BY <1>4, <3>1
    <3>3. Union(m) = Union(m - 1) \cup ToSet(seqs[m]) /\ Sets(m) = Sets(m - 1) \cup sets[m]
      BY <3>1
    <3>4. Sets(m - 1) \cap sets[m] = {}
      <4>1. ASSUME NEW j \in 1..(m - 1)
            PROVE  sets[j] \cap sets[m] = {}
        <5>1. j \in 1..N /\ j # m
          BY <1>1
        <5>2. QED
          BY <1>3, <5>1
      <4>2. QED
        BY <4>1
    <3> HIDE DEF Union, Sets
    <3>5. /\ flat[m] = flat[m - 1] \o seqs[m]
          /\ flat[m - 1] \in Q /\ seqs[m] \in Q
      BY <1>1, <1>2, <3>1
    <3>6. /\ Len(flat[m]) = Len(flat[m - 1]) + Len(seqs[m])
          /\ ToSet(flat[m]) = ToSet(flat[m - 1]) \cup ToSet(seqs[m])
      BY <3>5, ConcatIs
    <3>7. /\ IsFiniteSet(Sets(m - 1) \cup sets[m])
          /\ Cardinality(Sets(m - 1) \cup sets[m]) = Cardinality(Sets(m - 1)) + Cardinality(sets[m])
      <4>1. IsFiniteSet(Sets(m - 1)) /\ IsFiniteSet(sets[m])
        BY <1>3, <3>2
      <4>2. /\ IsFiniteSet(Sets(m - 1) \cup sets[m])
            /\ Cardinality(Sets(m - 1) \cup sets[m])
                  = Cardinality(Sets(m - 1)) + Cardinality(sets[m])
                      - Cardinality(Sets(m - 1) \cap sets[m])
        BY <4>1, FS_Union
      <4>3. Cardinality(Sets(m - 1) \cap sets[m]) = 0
        BY <3>4, FS_EmptySet
      <4>4. Cardinality(Sets(m - 1)) \in Nat /\ Cardinality(sets[m]) \in Nat
        BY <4>1, FS_CardinalityType
      <4>5. QED
        BY <4>2, <4>3, <4>4
    <3>8. Done(m)
      BY <1>3, <3>2, <3>3, <3>6, <3>7
    <3>9. QED
      BY <3>1, <3>8
  <2>3. QED
    BY <2>1, <2>2
<1>5. Done(N)
  <2>1. 0 \in T
    BY <1>1
  <2>2. \A m \in 0..N : m \in T
    <3> HIDE DEF T
    <3>1. QED
      BY <1>1, <1>4, <2>1, Induction
  <2>3. N \in 0..N /\ N # 0
    BY <1>1
  <2>4. QED
    BY <2>2, <2>3
<1>6. QED
  BY <1>2, <1>5 DEF N, AllOf, AllSets

(* What a docID table's header says of a document. *)
DocIDHeader(e) == [docID |-> e.key, numPositions |-> Len(e.positions)]

(* The chains of a table have as many elements as they are long, and no    *)
(* element is in two.                                                      *)
LEMMA ChainsAre ==
    ASSUME NEW table, IsTable(table), KeysDiffer(table)
    PROVE  /\ \A b \in 1..Len(table) : /\ IsFiniteSet(ToSet(table[b]))
                                       /\ Cardinality(ToSet(table[b])) = Len(table[b])
           /\ \A b, d \in 1..Len(table) : b # d => ToSet(table[b]) \cap ToSet(table[d]) = {}
           /\ Elements(table) = UNION {ToSet(table[b]) : b \in 1..Len(table)}
<1>1. Len(table) \in Nat /\ DOMAIN table = 1..Len(table)
      /\ \A b \in 1..Len(table) : table[b] \in Seq(Elements(table))
  BY DEF IsTable
<1>2. ASSUME NEW b \in 1..Len(table)
      PROVE  /\ IsFiniteSet(ToSet(table[b]))
             /\ Cardinality(ToSet(table[b])) = Len(table[b])
  <2> DEFINE s == table[b]
             n == Len(s)
             S == ToSet(s)
             f == [j \in 1..n |-> s[j]]
  <2>1. n \in Nat /\ DOMAIN s = 1..n /\ S = {s[j] : j \in 1..n}
    BY <1>1 DEF ToSet
  <2>2. \A j, k \in 1..n : s[j] = s[k] => j = k
    BY <1>1, <2>1 DEF KeysDiffer
  <2> HIDE DEF n, S, s
  <2>3. f \in [1..n -> S] /\ \A v \in S : \E j \in 1..n : f[j] = v
    BY <2>1
  <2>4. \A j, k \in 1..n : f[j] = f[k] => j = k
    BY <2>2
  <2> HIDE DEF f
  <2>5. f \in Bijection(1..n, S)
    BY <2>3, <2>4, Fun_IsBij
  <2>6. ExistsBijection(1..n, S)
    BY <2>5, Zenon DEF ExistsBijection
  <2>7. Cardinality(S) = n
    BY <2>1, <2>6, FS_CountingElements
  <2>8. IsFiniteSet(S)
    <3>1. IsFiniteSet(1..n)
      BY <2>1, FS_Interval
    <3>2. QED
      BY <2>6, <3>1, FS_Bijection
  <2>9. QED
    BY <2>7, <2>8 DEF n, S, s
<1>3. ASSUME NEW b \in 1..Len(table), NEW d \in 1..Len(table), b # d
      PROVE  ToSet(table[b]) \cap ToSet(table[d]) = {}
  <2>1. ASSUME NEW e, e \in ToSet(table[b]), e \in ToSet(table[d])
        PROVE  FALSE
    <3>1. e.key % Len(table) = b - 1 /\ e.key % Len(table) = d - 1
      BY <1>1, <2>1 DEF IsTable
    <3>2. QED
      BY <1>3, <3>1
  <2>2. QED
    BY <2>1
<1>4. QED
  BY <1>1, <1>2, <1>3 DEF Elements

(* These headers, bucket by bucket. *)
DocIDHeaders(table) ==
    [b \in 1..Len(table) |-> [j \in 1..Len(table[b]) |-> DocIDHeader(table[b][j])]]

(* All of them, as a set. *)
HeadersListed(table) == {DocIDHeader(e) : e \in Elements(table)}

(* They are what GetDocIDList reads: each document of the table once. *)
LEMMA ListRead ==
    ASSUME NEW c, NEW D, IsData(D), NEW ws, Shows(c, ToSet(ws)), NEW at \in Nat, NEW table,
           IsPostings(table), NEW to, HasTable(D, ws, at, table, PostingsFn(table), to)
    PROVE  /\ GetDocIDList(c, at) = FlattenSeq(DocIDHeaders(table))
           /\ Len(GetDocIDList(c, at)) = Cardinality(Elements(table))
           /\ ToSet(GetDocIDList(c, at)) = HeadersListed(table)
<1> DEFINE n == Len(table)
           rec(b) == c[at + BucketListSize + BucketRecordSize * (b - 1)]
           head(b, j) == c[c[rec(b).position + (j - 1) * ElementRecordSize].position]
           bucket(b) == [j \in 1..rec(b).chainNumElements |-> head(b, j)]
           seqs == DocIDHeaders(table)
<1>1. IsTable(table) /\ KeysDiffer(table) /\ n \in Nat /\ n > 0
  BY DEF IsPostings, IsTable
<1>2. PICK bpos, pos :
         /\ TableRead(c, ToSet(ws), at, table, PostingsFn(table), bpos, pos, to)
         /\ \A b \in 1..Len(table) : \A j \in 1..Len(table[b]) :
               PositionListRead(c, pos[b][j], table[b][j])
  BY PostingsRead, Zenon
<1>3. c[at] = [numBuckets |-> n]
  BY <1>2, Zenon DEF TableRead
<1>4. c[at].numBuckets = n
  BY <1>3
<1>5. GetDocIDList(c, at) = FlattenSeq([b \in 1..n |-> bucket(b)])
  BY <1>4, Zenon DEF GetDocIDList, ReadAt
<1>6. ASSUME NEW b \in 1..n
      PROVE  bucket(b) = seqs[b]
  <2>1. rec(b) = WriteHTBucketRecord(Len(table[b]), bpos[b])
        /\ BucketRead(c, ToSet(ws), table[b], PostingsFn(table), bpos[b], pos[b], to)
    BY <1>2, Zenon DEF TableRead
  <2>2. rec(b).chainNumElements = Len(table[b]) /\ rec(b).position = bpos[b] /\ bpos[b] \in Nat
    <3>1. bpos \in [1..n -> Nat]
      BY <1>2, Zenon DEF TableRead
    <3> HIDE DEF rec
    <3>2. QED
      BY <2>1, <3>1 DEF WriteHTBucketRecord
  <2>3. ASSUME NEW j \in 1..Len(table[b])
        PROVE  head(b, j) = DocIDHeader(table[b][j])
    <3> DEFINE o == bpos[b] + ElementRecordSize * (j - 1)
               p == pos[b][j]
    <3>1. c[o] = [position |-> p]
      BY <2>1, Zenon DEF BucketRead
    <3>2. rec(b).position + (j - 1) * ElementRecordSize = o
      BY <2>2 DEF ElementRecordSize
    <3>3. c[p] = DocIDHeader(table[b][j])
      BY <1>2, Zenon DEF PositionListRead, DocIDHeader
    <3> HIDE DEF o, p, rec
    <3>4. c[o].position = p
      BY <3>1
    <3>5. QED
      BY <3>2, <3>3, <3>4
  <2> HIDE DEF rec, head
  <2>4. bucket(b) = [j \in 1..Len(table[b]) |-> DocIDHeader(table[b][j])]
    BY <2>2, <2>3
  <2>5. QED
    BY <2>4 DEF DocIDHeaders
<1>7. seqs = [b \in 1..n |-> seqs[b]]
  BY DEF DocIDHeaders
<1>8. GetDocIDList(c, at) = FlattenSeq(seqs)
  <2> HIDE DEF bucket, seqs
  <2>1. [b \in 1..n |-> bucket(b)] = [b \in 1..n |-> seqs[b]]
    BY <1>6
  <2>2. QED
    BY <1>5, <1>7, <2>1
<1> DEFINE S == {DocIDHeader(e) : e \in Elements(table)}
           sets == [b \in 1..n |-> ToSet(table[b])]
<1>9. ASSUME NEW b \in 1..n
      PROVE  /\ seqs[b] \in Seq(S) /\ Len(seqs[b]) = Len(table[b])
             /\ ToSet(seqs[b]) = {DocIDHeader(e) : e \in ToSet(table[b])}
  <2> DEFINE s == table[b]
             m == Len(s)
  <2>1. m \in Nat /\ DOMAIN s = 1..m /\ \A j \in 1..m : s[j] \in Elements(table)
    BY <1>1 DEF IsTable
  <2>2. seqs[b] = [j \in 1..m |-> DocIDHeader(s[j])]
    BY DEF DocIDHeaders
  <2> HIDE DEF seqs, s, m
  <2>3. seqs[b] \in [1..m -> S]
    BY <2>1, <2>2
  <2>4. seqs[b] \in Seq(S) /\ Len(seqs[b]) = m
    <3> HIDE DEF S
    <3>1. QED
      BY <2>1, <2>3
  <2>5. ToSet(seqs[b]) = {DocIDHeader(e) : e \in ToSet(s)}
    BY <2>1, <2>2 DEF ToSet
  <2>6. QED
    BY <2>4, <2>5 DEF s, m
<1>10. seqs \in Seq(Seq(S)) /\ Len(seqs) = n
  <2> HIDE DEF seqs, S
  <2>1. seqs \in [1..n -> Seq(S)]
    BY <1>7, <1>9
  <2>2. QED
    BY <1>1, <2>1
<1>11. /\ \A b \in 1..n : /\ IsFiniteSet(ToSet(table[b]))
                          /\ Cardinality(ToSet(table[b])) = Len(table[b])
       /\ \A b, d \in 1..n : b # d => ToSet(table[b]) \cap ToSet(table[d]) = {}
       /\ Elements(table) = UNION {ToSet(table[b]) : b \in 1..n}
  BY <1>1, ChainsAre, Zenon
<1>12. \A b \in 1..n : sets[b] = ToSet(table[b])
  OBVIOUS
<1>13. UNION {sets[b] : b \in 1..n} = Elements(table)
  BY <1>11
<1> HIDE DEF sets, seqs, S, n
<1>14. /\ ToSet(FlattenSeq(seqs)) = AllOf(seqs)
       /\ Len(FlattenSeq(seqs)) = Cardinality(AllSets(seqs, sets))
  <2>1. Len(seqs) > 0 /\ seqs \in Seq(Seq(S))
    BY <1>1, <1>10
  <2>2. \A m \in 1..Len(seqs) : IsFiniteSet(sets[m]) /\ Cardinality(sets[m]) = Len(seqs[m])
    BY <1>9, <1>10, <1>11, <1>12
  <2>3. \A j, m \in 1..Len(seqs) : j # m => sets[j] \cap sets[m] = {}
    BY <1>10, <1>11, <1>12
  <2>4. SizesOf(seqs, sets)
    BY <2>2, <2>3, Zenon DEF SizesOf
  <2>5. QED
    BY <2>1, <2>4, FlattenIs, Zenon
<1>15. UNION {ToSet(seqs[m]) : m \in 1..n} = S
  <2>1. \A m \in 1..n : ToSet(seqs[m]) = {DocIDHeader(e) : e \in ToSet(table[m])}
    BY <1>9
  <2>2. ASSUME NEW x
        PROVE  x \in UNION {ToSet(seqs[m]) : m \in 1..n} <=> x \in S
    <3>1. x \in UNION {ToSet(seqs[m]) : m \in 1..n} <=> \E m \in 1..n : x \in ToSet(seqs[m])
      BY Zenon
    <3>2. x \in S <=> \E e \in Elements(table) : x = DocIDHeader(e)
      BY Zenon DEF S
    <3>3. \A e : e \in Elements(table) <=> \E b \in 1..n : e \in ToSet(table[b])
      BY <1>11, Zenon
    <3>4. \A m \in 1..n : x \in ToSet(seqs[m]) <=> \E e \in ToSet(table[m]) : x = DocIDHeader(e)
      BY <2>1, Zenon
    <3>5. QED
      BY <3>1, <3>2, <3>3, <3>4, Zenon
  <2>3. QED
    BY <2>2, Zenon
<1>16. QED
  BY <1>8, <1>10, <1>13, <1>14, <1>15, Zenon DEF S, seqs, AllOf, AllSets, HeadersListed

-----------------------------------------------------------------------------
(* How far the readers read.                                               *)

(* The runs that start with an fseek and stay inside a file of that size. *)
InsideRuns(size) == {r \in [seek : {TRUE}, at : Nat, len : Nat] : r.at + r.len <= size}

(* A sequence of such runs. *)
Inside(rs, size) == rs \in Seq(InsideRuns(size))

(* One run of them. *)
LEMMA RunInside ==
    ASSUME NEW size \in Nat, NEW at \in Nat, NEW len \in Nat, at + len <= size
    PROVE  Run(at, len) \in InsideRuns(size)
  BY DEF Run, InsideRuns

(* One after the other, and in a larger file. *)
LEMMA RunsInsideJoin ==
    ASSUME NEW size \in Nat, NEW a, NEW b, Inside(a, size), Inside(b, size)
    PROVE  Inside(a \o b, size)
<1> DEFINE S == InsideRuns(size)
<1>1. a \in Seq(S) /\ b \in Seq(S)
  BY DEF Inside
<1> HIDE DEF S
<1>2. a \o b \in Seq(S)
  BY <1>1
<1>3. QED
  BY <1>2 DEF Inside, S

(* What is inside a file is inside a larger one. *)
LEMMA RunsInsideWider ==
    ASSUME NEW small \in Nat, NEW size \in Nat, small <= size, NEW rs, Inside(rs, small)
    PROVE  Inside(rs, size)
<1>1. ASSUME NEW r \in InsideRuns(small)
      PROVE  r \in InsideRuns(size)
  <2>1. r \in [seek : {TRUE}, at : Nat, len : Nat] /\ r.at + r.len <= small
    BY DEF InsideRuns
  <2>2. r.at + r.len <= size
    BY <2>1
  <2>3. QED
    BY <2>1, <2>2 DEF InsideRuns
<1> DEFINE S == InsideRuns(small)
           T == InsideRuns(size)
<1>2. rs \in Seq(S) /\ S \subseteq T
  BY <1>1 DEF Inside
<1> HIDE DEF S, T
<1>3. rs \in Seq(T)
  BY <1>2
<1>4. QED
  BY <1>3 DEF Inside, T

(* An element and all its bytes are inside its table. *)
LEMMA ElementsEnd ==
    ASSUME NEW c, NEW ws, NEW at, NEW table, IsTable(table), NEW fn, NEW bpos, NEW pos,
           NEW to \in Nat, TableRead(c, ws, at, table, fn, bpos, pos, to),
           NEW D, ElementsFit(D, fn, Elements(table)),
           NEW b \in 1..Len(table), NEW j \in 1..Len(table[b])
    PROVE  /\ pos[b][j] \in Nat /\ 0 < pos[b][j]
           /\ Bytes(fn[table[b][j]][pos[b][j]]) \in Nat
           /\ pos[b][j] + Bytes(fn[table[b][j]][pos[b][j]]) <= to
<1> DEFINE p == pos[b][j]
           e == table[b][j]
           s == fn[e][p]
<1>1. p \in Nat /\ 0 < p /\ p + Bytes(s) <= to
  BY ElementWrites, Zenon
<1>2. e \in Elements(table)
  BY ElementsAre
<1> HIDE DEF p, e
<1>3. Tiles(D, s, p, p + Bytes(s))
  BY <1>1, <1>2 DEF ElementsFit
<1> HIDE DEF s
<1>4. Bytes(s) \in Nat
  BY <1>3, TilesEnd
<1>5. QED
  BY <1>1, <1>4 DEF p, e, s

(* The header of a table, its records and the positions in its buckets are *)
(* inside it.                                                              *)
LEMMA PositionsInside ==
    ASSUME NEW c, NEW ws, NEW at \in Nat, NEW table, IsTable(table), NEW fn, NEW bpos, NEW pos,
           NEW to \in Nat, TableRead(c, ws, at, table, fn, bpos, pos, to),
           NEW D, ElementsFit(D, fn, Elements(table)), NEW b \in 1..Len(table)
    PROVE  /\ at + BucketListSize <= to
           /\ at + BucketListSize + BucketRecordSize * (b - 1) + BucketRecordSize <= to
           /\ bpos[b] \in Nat /\ Len(table[b]) \in Nat
           /\ pos[b] \in [1..Len(table[b]) -> Nat]
           /\ bpos[b] + ElementRecordSize * Len(table[b]) <= to
<1> DEFINE n == Len(table)
           len == Len(table[b])
           start == at + BucketListSize + BucketRecordSize * n
<1>1. n \in Nat /\ b \in 1..n /\ len \in Nat
  BY DEF IsTable
<1>2. /\ bpos \in [1..n -> Nat]
      /\ BucketRead(c, ws, table[b], fn, bpos[b], pos[b], to)
      /\ start <= bpos[b] /\ bpos[b] <= to
  BY Zenon DEF TableRead
<1>3. pos[b] \in [1..len -> Nat]
  BY <1>2, Zenon DEF BucketRead
<1> DEFINE q == bpos[b]
<1>4. q + ElementRecordSize * len <= to
  <2>1. CASE len = 0
    <3> HIDE DEF len, q
    <3>1. QED
      BY <1>2, <2>1 DEF ElementRecordSize, q
  <2>2. CASE len # 0
    <3> DEFINE m == Bytes(fn[table[b][1]][pos[b][1]])
               p == pos[b][1]
    <3>1. 1 \in 1..len
      BY <1>1, <2>2
    <3>2. p \in Nat /\ m \in Nat /\ p + m <= to
      BY <3>1, ElementsEnd
    <3>3. q + ElementRecordSize * len <= p
      BY <1>2, <3>1, Zenon DEF BucketRead
    <3>4. q \in Nat
      BY <1>1, <1>2
    <3> HIDE DEF m, p, q, len
    <3>5. QED
      BY <1>1, <3>2, <3>3, <3>4 DEF ElementRecordSize
  <2>3. QED
    BY <2>1, <2>2
<1>5. /\ at + BucketListSize <= to
      /\ at + BucketListSize + BucketRecordSize * (b - 1) + BucketRecordSize <= to
      /\ q \in Nat
  <2>1. q \in Nat
    BY <1>1, <1>2
  <2> HIDE DEF q, n
  <2>2. QED
    BY <1>1, <1>2, <2>1 DEF BucketListSize, BucketRecordSize, q
<1>6. QED
  BY <1>1, <1>3, <1>4, <1>5

(* So the constructor of a reader and HashTableReader stay inside it. *)
LEMMA PositionRunsInside ==
    ASSUME NEW c, NEW ws, NEW at \in Nat, NEW table, IsTable(table), NEW fn, NEW bpos, NEW pos,
           NEW to \in Nat, TableRead(c, ws, at, table, fn, bpos, pos, to),
           NEW D, ElementsFit(D, fn, Elements(table)), NEW key \in Nat
    PROVE  Inside(HeaderRuns(at), to) /\ Inside(ElementPositionsRuns(c, at, key), to)
<1> DEFINE n == Len(table)
           b == (key % n) + 1
           rec == at + BucketListSize + BucketRecordSize * (key % n)
           S == InsideRuns(to)
<1>1. n \in Nat /\ n > 0 /\ b \in 1..n /\ b - 1 = key % n /\ key % n \in Nat
  BY DEF IsTable
<1>2. /\ at + BucketListSize <= to
      /\ rec + BucketRecordSize <= to
      /\ bpos[b] \in Nat /\ Len(table[b]) \in Nat
      /\ bpos[b] + ElementRecordSize * Len(table[b]) <= to
  <2>1. /\ at + BucketListSize <= to
        /\ at + BucketListSize + BucketRecordSize * (b - 1) + BucketRecordSize <= to
        /\ bpos[b] \in Nat /\ Len(table[b]) \in Nat
        /\ bpos[b] + ElementRecordSize * Len(table[b]) <= to
    <3> HIDE DEF b, rec
    <3>1. QED
      BY <1>1, PositionsInside DEF n
  <2>2. rec = at + BucketListSize + BucketRecordSize * (b - 1)
    BY <1>1
  <2>3. QED
    BY <2>1, <2>2
<1>3. c[at].numBuckets = n /\ c[rec] = WriteHTBucketRecord(Len(table[b]), bpos[b])
  <2>1. c[at] = [numBuckets |-> n]
    BY Zenon DEF TableRead
  <2>2. c[at + BucketListSize + BucketRecordSize * (b - 1)] = WriteHTBucketRecord(Len(table[b]), bpos[b])
    BY <1>1, Zenon DEF TableRead
  <2>3. QED
    BY <1>1, <2>1, <2>2
<1> DEFINE q == bpos[b]
           len == Len(table[b])
           r1 == Run(rec, BucketRecordSize)
           r2 == Run(q, ElementRecordSize * len)
<1>4. ElementPositionsRuns(c, at, key) = <<r1, r2>>
  <2>1. c[rec].position = q /\ c[rec].chainNumElements = len
    BY <1>3 DEF WriteHTBucketRecord
  <2>2. ElementPositionsRuns(c, at, key) =
           <<Run(at + BucketListSize + BucketRecordSize * (key % c[at].numBuckets), BucketRecordSize),
             Run(c[at + BucketListSize + BucketRecordSize * (key % c[at].numBuckets)].position,
                 ElementRecordSize
                    * c[at + BucketListSize + BucketRecordSize * (key % c[at].numBuckets)].chainNumElements)>>
    BY Zenon DEF ElementPositionsRuns, ReadAt
  <2>3. QED
    BY <1>3, <2>1, <2>2
<1>5. rec \in Nat /\ BucketRecordSize \in Nat /\ BucketListSize \in Nat
  BY <1>1 DEF BucketRecordSize, BucketListSize
<1>6. q \in Nat /\ len \in Nat /\ q + ElementRecordSize * len <= to
  BY <1>2
<1> HIDE DEF rec, q, len, b, n
<1>7. r1 \in S
  BY <1>2, <1>5, RunInside
<1>8. r2 \in S
  <2>1. ElementRecordSize * len \in Nat
    BY <1>6 DEF ElementRecordSize
  <2>2. QED
    BY <1>6, <2>1, RunInside
<1>9. Run(at, BucketListSize) \in S
  BY <1>2, <1>5, RunInside
<1> HIDE DEF S, r1, r2
<1>10. <<r1, r2>> \in Seq(S)
  BY <1>7, <1>8
<1>11. HeaderRuns(at) \in Seq(S)
  BY <1>9 DEF HeaderRuns
<1>12. QED
  BY <1>4, <1>10, <1>11 DEF Inside, S

(* The elements looked at are among those of the bucket. *)
LEMMA UpToIs ==
    ASSUME NEW elements \in Seq(Nat), NEW at
    PROVE  UpTo(elements, at) \in Seq(ToSet(elements))
<1> DEFINE n == Len(elements)
           S == ToSet(elements)
           I == {j \in 1..n : elements[j] = at}
           m == SelectInSeq(elements, LAMBDA p : p = at)
<1>1. n \in Nat /\ elements = [j \in 1..n |-> elements[j]] /\ \A j \in 1..n : elements[j] \in S
  BY DEF ToSet
<1>2. elements \in Seq(S)
  <2> HIDE DEF S, n
  <2>1. elements \in [1..n -> S]
    BY <1>1
  <2>2. QED
    BY <1>1, <2>1
<1>3. m \in 0..n
  <2>1. m = IF I = {} THEN 0 ELSE Min(I)
    BY DEF SelectInSeq
  <2>2. I # {} => Min(I) \in I
    <3>1. I \subseteq Nat
      OBVIOUS
    <3> HIDE DEF I
    <3>2. QED
      BY <3>1, MinIs
  <2> HIDE DEF m
  <2>3. I \subseteq 0..n /\ 0 \in 0..n
    BY <1>1
  <2> HIDE DEF I
  <2>4. QED
    BY <2>1, <2>2, <2>3
<1>4. UpTo(elements, at) = IF at = 0 THEN elements ELSE SubSeq(elements, 1, m)
  BY Zenon DEF UpTo
<1> HIDE DEF m, S
<1>5. SubSeq(elements, 1, m) \in Seq(S)
  BY <1>2, <1>3
<1>6. QED
  BY <1>2, <1>4, <1>5 DEF S

(* Runs at such elements. *)
LEMMA SeenInside ==
    ASSUME NEW elements \in Seq(Nat), NEW at, NEW run, NEW size \in Nat,
           \A p \in ToSet(elements) : run[p] \in InsideRuns(size)
    PROVE  LET seen == UpTo(elements, at)
           IN  Inside([n \in DOMAIN seen |-> run[seen[n]]], size)
<1> DEFINE seen == UpTo(elements, at)
           S == InsideRuns(size)
           E == ToSet(elements)
<1>1. seen \in Seq(E)
  BY UpToIs
<1> HIDE DEF S, seen, E
<1>2. \A p \in E : run[p] \in S
  BY DEF S, E
<1>3. DOMAIN seen = 1..Len(seen) /\ Len(seen) \in Nat /\ \A n \in 1..Len(seen) : seen[n] \in E
  BY <1>1
<1>4. [n \in DOMAIN seen |-> run[seen[n]]] \in Seq(S)
  BY <1>2, <1>3
<1>5. QED
  BY <1>4, Zenon DEF Inside, S, seen

(* A document's name is read inside the doctable. *)
LEMMA DocRunsInside ==
    ASSUME NEW c, NEW D, NEW ws, Shows(c, ToSet(ws)), NEW at \in Nat, NEW table, IsDocTable(table),
           NEW to \in Nat, HasTable(D, ws, at, table, DocFn(table), to),
           ElementsFit(D, DocFn(table), Elements(table)), NEW docid \in Nat
    PROVE  /\ Inside(HeaderRuns(at), to)
           /\ Inside(ElementPositionsRuns(c, at, docid), to)
           /\ Inside(DocTableRuns(c, LookupElementPositions(c, at, docid), docid), to)
<1>1. IsTable(table)
  BY DEF IsDocTable
<1>2. PICK bpos, pos :
         /\ TableRead(c, ToSet(ws), at, table, DocFn(table), bpos, pos, to)
         /\ \A b \in 1..Len(table) : \A j \in 1..Len(table[b]) :
               DocnameRead(c, pos[b][j], table[b][j])
  BY DocTableReads, Zenon
<1>3. Inside(HeaderRuns(at), to) /\ Inside(ElementPositionsRuns(c, at, docid), to)
  BY <1>1, <1>2, PositionRunsInside
<1> DEFINE b == (docid % Len(table)) + 1
           es == pos[b]
           len == Len(table[b])
           match == DocMatch(c, es, docid)
           name(p) == IF p = match THEN c[p].filenameBytes ELSE 0
           run == [p \in ToSet(es) |-> Run(p, DoctableHeaderSize + name(p))]
<1>4. b \in 1..Len(table) /\ LookupElementPositions(c, at, docid) = es
  BY <1>1, <1>2, PositionsRead
<1> HIDE DEF b
<1>5. es \in [1..len -> Nat] /\ len \in Nat
  BY <1>1, <1>2, <1>4, PositionsInside
<1>6. es \in Seq(Nat) /\ \A p \in ToSet(es) : \E j \in 1..len : p = es[j]
  <2> HIDE DEF es, len
  <2>1. es \in Seq(Nat) /\ DOMAIN es = 1..len
    BY <1>5
  <2>2. QED
    BY <2>1 DEF ToSet
<1>7. ASSUME NEW p \in ToSet(es)
      PROVE  run[p] \in InsideRuns(to)
  <2>1. PICK j \in 1..len : p = es[j]
    BY <1>6
  <2> DEFINE e == table[b][j]
             m == Bytes(DocFn(table)[e][p])
  <2>2. p \in Nat /\ m \in Nat /\ p + m <= to
    BY <1>1, <1>2, <1>4, <2>1, ElementsEnd
  <2>3. e \in Elements(table)
    BY <1>1, <1>4, ElementsAre
  <2>4. c[p] = [docID |-> e.key, filenameBytes |-> e.len]
    BY <1>2, <1>4, <2>1, Zenon DEF DocnameRead
  <2>5. c[p].filenameBytes = e.len /\ e.len \in 1..INT16_MAX /\ e.len \in Nat
    BY <2>3, <2>4, LengthHeld DEF IsDocTable
  <2>6. m = DoctableHeaderSize + e.len
    <3>1. DocFn(table)[e][p] = WriteDocidToDocnameFn(p, e)
      BY <2>2, <2>3 DEF DocFn
    <3> DEFINE x == [docID |-> e.key, filenameBytes |-> e.len]
               y == [text |-> e.name]
               k == e.len
               o == p + DoctableHeaderSize
    <3>2. DocFn(table)[e][p] = <<Seek(p, DoctableHeaderSize, x), Write(o, k, y)>>
      BY <2>5, <3>1, DocnameWrites
    <3>3. DoctableHeaderSize \in Nat \ {0} /\ k \in Nat /\ o \in Nat
      BY <2>2, <2>5 DEF DoctableHeaderSize
    <3> HIDE DEF x, y, k, o
    <3>4. Bytes(<<Seek(p, DoctableHeaderSize, x), Write(o, k, y)>>) = DoctableHeaderSize + k
      BY <2>2, <3>3, TwoBytes
    <3>5. QED
      BY <3>2, <3>4 DEF k
  <2> HIDE DEF e, m, match
  <2>7. name(p) \in Nat /\ name(p) <= e.len
    BY <2>5
  <2>8. run[p] = Run(p, DoctableHeaderSize + name(p))
    OBVIOUS
  <2> DEFINE k == DoctableHeaderSize + name(p)
  <2>9. k \in Nat /\ p + k <= to
    BY <2>2, <2>5, <2>6, <2>7 DEF DoctableHeaderSize
  <2> HIDE DEF name, k
  <2>10. Run(p, k) \in InsideRuns(to)
    BY <2>2, <2>9, RunInside
  <2>11. QED
    BY <2>8, <2>10 DEF k
<1> HIDE DEF run, es
<1>8. LET seen == UpTo(es, match)
      IN  Inside([n \in DOMAIN seen |-> run[seen[n]]], to)
  BY <1>6, <1>7, SeenInside
<1>9. DocTableRuns(c, es, docid) = LET seen == UpTo(es, match) IN [n \in DOMAIN seen |-> run[seen[n]]]
  <2> DEFINE seen == UpTo(es, match)
  <2>1. \A n \in DOMAIN seen : seen[n] \in ToSet(es)
    <3>1. seen \in Seq(ToSet(es))
      BY <1>6, UpToIs
    <3> HIDE DEF seen
    <3>2. QED
      BY <3>1
  <2>2. DocTableRuns(c, es, docid) = [n \in DOMAIN seen |-> Run(seen[n], DoctableHeaderSize + name(seen[n]))]
    BY DEF DocTableRuns, ReadAt
  <2> HIDE DEF seen, name, match
  <2>3. \A n \in DOMAIN seen : run[seen[n]] = Run(seen[n], DoctableHeaderSize + name(seen[n]))
    BY <2>1 DEF run
  <2>4. QED
    BY <2>2, <2>3, Zenon DEF seen
<1>10. QED
  BY <1>3, <1>4, <1>8, <1>9

(* The words of a bucket are read inside the index. *)
LEMMA WordRunsInside ==
    ASSUME NEW c, NEW D, IsData(D), NEW ws, Shows(c, ToSet(ws)), NEW at \in Nat, NEW table,
           IsMemIndex(table), \A e \in Elements(table) : [text |-> e.word] \in D,
           NEW to \in Nat, HasTable(D, ws, at, table, WordFn(table), to),
           ElementsFit(D, WordFn(table), Elements(table)), NEW q, q.key \in Nat
    PROVE  /\ Inside(HeaderRuns(at), to)
           /\ Inside(ElementPositionsRuns(c, at, q.key), to)
           /\ Inside(LookupWordRuns(c, LookupElementPositions(c, at, q.key), q), to)
<1>1. IsTable(table)
  BY DEF IsMemIndex
<1>2. PICK bpos, pos : MemIndexRead(c, ToSet(ws), at, table, bpos, pos, to)
  BY MemIndexReads, Zenon
<1>3. /\ TableRead(c, ToSet(ws), at, table, WordFn(table), bpos, pos, to)
       /\ \A b \in 1..Len(table) : \A j \in 1..Len(table[b]) : WordRead(c, pos[b][j], table[b][j])
  BY <1>2, Zenon DEF MemIndexRead
<1>4. Inside(HeaderRuns(at), to) /\ Inside(ElementPositionsRuns(c, at, q.key), to)
  BY <1>1, <1>3, PositionRunsInside
<1> DEFINE b == (q.key % Len(table)) + 1
           es == pos[b]
           len == Len(table[b])
           match == WordMatch(c, es, q)
           word(p) == IF c[p].wordBytes = q.len THEN q.len ELSE 0
           run == [p \in ToSet(es) |-> Run(p, PostingsHeaderSize + word(p))]
<1>5. b \in 1..Len(table) /\ LookupElementPositions(c, at, q.key) = es
  <2> DEFINE key == q.key
  <2>1. key \in Nat
    OBVIOUS
  <2> HIDE DEF key
  <2>2. LET d == (key % Len(table)) + 1
        IN  d \in 1..Len(table) /\ LookupElementPositions(c, at, key) = pos[d]
    BY <1>1, <1>3, <2>1, PositionsRead
  <2>3. QED
    BY <2>2, Zenon DEF key
<1> HIDE DEF b
<1>6. es \in [1..len -> Nat] /\ len \in Nat
  BY <1>1, <1>3, <1>5, PositionsInside
<1>7. es \in Seq(Nat) /\ \A p \in ToSet(es) : \E j \in 1..len : p = es[j]
  <2> HIDE DEF es, len
  <2>1. es \in Seq(Nat) /\ DOMAIN es = 1..len
    BY <1>6
  <2>2. QED
    BY <2>1 DEF ToSet
<1>8. ASSUME NEW p \in ToSet(es)
      PROVE  run[p] \in InsideRuns(to)
  <2>1. PICK j \in 1..len : p = es[j]
    BY <1>7
  <2> DEFINE e == table[b][j]
             m == Bytes(WordFn(table)[e][p])
             k == Bytes(Nested(p, e))
  <2>2. p \in Nat /\ m \in Nat /\ p + m <= to
    BY <1>1, <1>3, <1>5, <2>1, ElementsEnd
  <2>3. e \in Elements(table)
    BY <1>1, <1>5, ElementsAre
  <2>4. c[p] = [wordBytes |-> e.len, postingsBytes |-> k]
    BY <1>3, <1>5, <2>1, Zenon DEF WordRead
  <2>5. c[p].wordBytes = e.len /\ e.len \in 1..INT16_MAX /\ IsPostings(e.postings) /\ [text |-> e.word] \in D
    BY <2>3, <2>4 DEF IsMemIndex
  <2> HIDE DEF e
  <2>6. p + m = p + PostingsHeaderSize + e.len + k /\ k \in Nat
    <3>1. WordFn(table)[e][p] = WriteWordToPostingsFn(p, e)
      BY <2>2, <2>3 DEF WordFn
    <3> DEFINE start == p + PostingsHeaderSize + e.len
    <3>2. /\ p + Bytes(WriteWordToPostingsFn(p, e)) = start + k
          /\ HasTable(D, Nested(p, e), start, e.postings, PostingsFn(e.postings), start + k)
      BY <2>2, <2>5, WordLaid
    <3>3. Tiles(D, Nested(p, e), start, start + k)
      BY <3>2 DEF HasTable
    <3> HIDE DEF start, k
    <3>4. k \in Nat
      BY <3>3, TilesEnd DEF k
    <3>5. m = Bytes(WriteWordToPostingsFn(p, e))
      BY <3>1
    <3> HIDE DEF m
    <3>6. p + m = start + k
      BY <3>2, <3>5, Zenon
    <3>7. QED
      BY <3>4, <3>6 DEF start
  <2> HIDE DEF m, k, match
  <2>7. e.len \in Nat /\ word(p) \in Nat /\ word(p) <= e.len
    BY <2>5, LengthHeld
  <2>8. run[p] = Run(p, PostingsHeaderSize + word(p))
    OBVIOUS
  <2> DEFINE n == PostingsHeaderSize + word(p)
  <2>9. n \in Nat /\ p + n <= to
    <3> DEFINE w == word(p)
               l == e.len
    <3>1. w \in Nat /\ w <= l /\ l \in Nat /\ p \in Nat /\ m \in Nat /\ k \in Nat
      BY <2>2, <2>5, <2>6, <2>7
    <3>2. p + m = p + PostingsHeaderSize + l + k /\ p + m <= to /\ n = PostingsHeaderSize + w
      BY <2>2, <2>6
    <3> HIDE DEF word, n, w, l
    <3>3. QED
      BY <3>1, <3>2 DEF PostingsHeaderSize
  <2> HIDE DEF word, n
  <2>10. Run(p, n) \in InsideRuns(to)
    BY <2>2, <2>9, RunInside
  <2>11. QED
    BY <2>8, <2>10 DEF n
<1> HIDE DEF run, es
<1>9. LET seen == UpTo(es, match)
      IN  Inside([n \in DOMAIN seen |-> run[seen[n]]], to)
  BY <1>7, <1>8, SeenInside
<1>10. LookupWordRuns(c, es, q) = LET seen == UpTo(es, match) IN [n \in DOMAIN seen |-> run[seen[n]]]
  <2> DEFINE seen == UpTo(es, match)
  <2>1. \A n \in DOMAIN seen : seen[n] \in ToSet(es)
    <3>1. seen \in Seq(ToSet(es))
      BY <1>7, UpToIs
    <3> HIDE DEF seen
    <3>2. QED
      BY <3>1
  <2>2. LookupWordRuns(c, es, q) = [n \in DOMAIN seen |-> Run(seen[n], PostingsHeaderSize + word(seen[n]))]
    BY DEF LookupWordRuns, ReadAt
  <2> HIDE DEF seen, word, match
  <2>3. \A n \in DOMAIN seen : run[seen[n]] = Run(seen[n], PostingsHeaderSize + word(seen[n]))
    BY <2>1 DEF run
  <2>4. QED
    BY <2>2, <2>3, Zenon DEF seen
<1>11. QED
  BY <1>4, <1>5, <1>9, <1>10

(* What a flattened sequence of sequences consists of. *)
LEMMA FlattenType ==
    ASSUME NEW S, NEW seqs \in Seq(Seq(S)), Len(seqs) > 0
    PROVE  FlattenSeq(seqs) \in Seq(S)
<1>1. PICK flat \in [1..Len(seqs) -> Seq(S)] :
         /\ flat[1] = seqs[1]
         /\ \A m \in 2..Len(seqs) : flat[m] = flat[m - 1] \o seqs[m]
         /\ FlattenSeq(seqs) = flat[Len(seqs)]
  BY FlattenLoop, Zenon
<1>2. Len(seqs) \in 1..Len(seqs)
  OBVIOUS
<1>3. QED
  BY <1>1, <1>2, Zenon

(* The header of a list of positions is part of it. *)
LEMMA PositionListHolds ==
    ASSUME NEW D, IsData(D), NEW at \in Nat, NEW e, e.key \in Nat, e.positions \in Seq(Nat)
    PROVE  DocIDHeaderSize <= Bytes(WriteDocidToPositionListFn(at, e))
<1> DEFINE ws == WriteDocidToPositionListFn(at, e)
           d == [docID |-> e.key, numPositions |-> Len(e.positions)]
           v == Seek(at, DocIDHeaderSize, d)
           n == Bytes(ws)
<1>1. Tiles(D, ws, at, at + n) /\ v \in ToSet(ws)
  BY PositionListLaid, Zenon
<1> HIDE DEF ws, d, n
<1>2. Within(v, at, at + n)
  BY <1>1, Zenon DEF Tiles
<1>3. n \in Nat
  BY <1>1, TilesEnd DEF n
<1>4. QED
  BY <1>2, <1>3 DEF Within, Seek, DocIDHeaderSize, n, ws

(* The list of documents of a word is read inside its docID table. *)
LEMMA ListRunsInside ==
    ASSUME NEW c, NEW D, IsData(D), NEW ws, Shows(c, ToSet(ws)), NEW at \in Nat, NEW table,
           IsPostings(table), NEW to \in Nat, HasTable(D, ws, at, table, PostingsFn(table), to)
    PROVE  Inside(HeaderRuns(at), to) /\ Inside(GetDocIDListRuns(c, at), to)
<1> DEFINE n == Len(table)
           S == InsideRuns(to)
           o(b) == at + BucketListSize + BucketRecordSize * (b - 1)
           position(b, j) == c[o(b)].position + ElementRecordSize * (j - 1)
           element(p) == <<Run(p, ElementRecordSize), Run(c[p].position, DocIDHeaderSize)>>
           bucket(b) == [j \in 1..c[o(b)].chainNumElements |-> element(position(b, j))]
           chain(b) == <<<<Run(o(b), BucketRecordSize)>>>> \o bucket(b)
           seqs == [b \in 1..n |-> FlattenSeq(chain(b))]
<1>1. IsTable(table) /\ n \in Nat /\ n > 0
  BY DEF IsPostings, IsTable
<1>2. PICK bpos, pos :
         /\ TableRead(c, ToSet(ws), at, table, PostingsFn(table), bpos, pos, to)
         /\ \A b \in 1..Len(table) : \A j \in 1..Len(table[b]) :
               PositionListRead(c, pos[b][j], table[b][j])
  BY PostingsRead, Zenon
<1>3. ElementsFit(D, PostingsFn(table), Elements(table))
  BY PostingsFit
<1>4. Inside(HeaderRuns(at), to)
  <2>1. 0 \in Nat
    OBVIOUS
  <2>2. QED
    BY <1>1, <1>2, <1>3, <2>1, PositionRunsInside
<1>5. c[at].numBuckets = n
  <2>1. c[at] = [numBuckets |-> n]
    BY <1>2, Zenon DEF TableRead
  <2>2. QED
    BY <2>1
<1>6. GetDocIDListRuns(c, at) = FlattenSeq(seqs)
  BY <1>5 DEF GetDocIDListRuns, ReadAt
<1>7. ASSUME NEW b \in 1..n
      PROVE  seqs[b] \in Seq(S)
  <2> DEFINE len == Len(table[b])
             q == bpos[b]
  <2>1. /\ o(b) + BucketRecordSize <= to
        /\ q \in Nat /\ len \in Nat
        /\ pos[b] \in [1..len -> Nat]
        /\ q + ElementRecordSize * len <= to
    BY <1>1, <1>2, <1>3, PositionsInside
  <2>2. o(b) \in Nat
    BY <1>1 DEF BucketListSize, BucketRecordSize
  <2>3. c[o(b)] = WriteHTBucketRecord(len, q) /\ BucketRead(c, ToSet(ws), table[b], PostingsFn(table), q, pos[b], to)
    BY <1>2, Zenon DEF TableRead
  <2> HIDE DEF o, q, len
  <2>4. c[o(b)].position = q /\ c[o(b)].chainNumElements = len
    BY <2>3 DEF WriteHTBucketRecord
  <2>5. Run(o(b), BucketRecordSize) \in S
    <3>1. BucketRecordSize \in Nat
      BY DEF BucketRecordSize
    <3>2. QED
      BY <2>1, <2>2, <3>1, RunInside
  <2>6. ASSUME NEW j \in 1..len
        PROVE  element(position(b, j)) \in Seq(S)
    <3> DEFINE p == q + ElementRecordSize * (j - 1)
               x == pos[b][j]
               e == table[b][j]
    <3>1. position(b, j) = p
      BY <2>4
    <3>2. p \in Nat /\ p + ElementRecordSize <= to /\ ElementRecordSize \in Nat
      BY <2>1 DEF ElementRecordSize
    <3>3. c[p] = [position |-> x]
      BY <2>3, Zenon DEF BucketRead, len
    <3>4. x \in Nat /\ Bytes(PostingsFn(table)[e][x]) \in Nat /\ x + Bytes(PostingsFn(table)[e][x]) <= to
      <4>1. j \in 1..Len(table[b])
        BY DEF len
      <4>2. QED
        BY <1>1, <1>2, <1>3, <4>1, ElementsEnd
    <3>5. e \in Elements(table) /\ e.key \in Nat
      BY <1>1, ElementsAre DEF len
    <3>6. e.positions \in Seq(Nat)
      BY <3>5, PositionsAre
    <3> HIDE DEF p, x, e
    <3>7. PostingsFn(table)[e][x] = WriteDocidToPositionListFn(x, e)
      BY <3>4, <3>5 DEF PostingsFn
    <3>8. DocIDHeaderSize <= Bytes(PostingsFn(table)[e][x])
      BY <3>4, <3>5, <3>6, <3>7, PositionListHolds
    <3>9. DocIDHeaderSize \in Nat /\ x + DocIDHeaderSize <= to
      BY <3>4, <3>8 DEF DocIDHeaderSize
    <3>10. Run(p, ElementRecordSize) \in S /\ Run(x, DocIDHeaderSize) \in S
      BY <3>2, <3>4, <3>9, RunInside
    <3>11. element(p) = <<Run(p, ElementRecordSize), Run(x, DocIDHeaderSize)>>
      BY <3>3
    <3> HIDE DEF S, element
    <3>12. element(p) \in Seq(S)
      BY <3>10, <3>11
    <3>13. QED
      BY <3>1, <3>12
  <2> DEFINE R == Seq(S)
  <2>7. bucket(b) \in Seq(R)
    <3>1. bucket(b) = [j \in 1..len |-> element(position(b, j))]
      BY <2>4
    <3> HIDE DEF element, position, bucket, R
    <3>2. QED
      BY <2>1, <2>6, <3>1 DEF R
  <2>8. <<Run(o(b), BucketRecordSize)>> \in R
    <3> HIDE DEF S
    <3>1. QED
      BY <2>5
  <2> HIDE DEF bucket, R
  <2> DEFINE head == <<Run(o(b), BucketRecordSize)>>
  <2> HIDE DEF head
  <2>9. <<head>> \o bucket(b) \in Seq(R) /\ Len(<<head>> \o bucket(b)) > 0
    BY <2>7, <2>8 DEF head
  <2>10. FlattenSeq(<<head>> \o bucket(b)) \in Seq(S)
    BY <2>9, FlattenType DEF R
  <2>11. QED
    BY <2>10 DEF head
<1> DEFINE R == Seq(S)
<1>8. seqs \in Seq(R) /\ Len(seqs) > 0
  <2>1. seqs = [b \in 1..n |-> seqs[b]]
    BY Zenon
  <2> HIDE DEF seqs
  <2>2. \A b \in 1..n : seqs[b] \in R
    BY <1>7
  <2> HIDE DEF R
  <2>3. seqs \in [1..n -> R]
    BY <2>1, <2>2
  <2>4. QED
    BY <1>1, <2>3
<1> HIDE DEF seqs
<1>9. FlattenSeq(seqs) \in Seq(S)
  BY <1>8, FlattenType
<1>10. QED
  BY <1>4, <1>6, <1>9 DEF Inside

-----------------------------------------------------------------------------
(* What is not in a table is not found in it.                              *)

(* No match is no element. *)
LEMMA FirstMatchNone ==
    ASSUME NEW n \in Nat, NEW elements \in [1..n -> Nat], NEW matches,
           \A m \in 1..n : elements[m] \notin matches
    PROVE  FirstMatch(elements, matches) = 0
<1>1. {m \in 1..Len(elements) : elements[m] \in matches} = {}
  OBVIOUS
<1>2. SelectInSeq(elements, LAMBDA p : p \in matches) = 0
  BY <1>1 DEF SelectInSeq
<1>3. QED
  BY <1>2, Zenon DEF FirstMatch

(* The positions of a bucket, which is that of a key. *)
InBucket(c, at, table, pos, key, b) ==
    /\ LookupElementPositions(c, at, key) = pos[b]
    /\ pos[b] \in [1..Len(table[b]) -> Nat] /\ Len(table[b]) \in Nat
    /\ \A p \in ToSet(pos[b]) : \E j \in 1..Len(table[b]) : p = pos[b][j]

(* Each key has one. *)
LEMMA BucketPositions ==
    ASSUME NEW c, NEW ws, NEW at \in Nat, NEW table, IsTable(table), NEW fn, NEW bpos, NEW pos,
           NEW to, TableRead(c, ws, at, table, fn, bpos, pos, to), NEW key \in Nat
    PROVE  \E b \in 1..Len(table) : InBucket(c, at, table, pos, key, b)
<1> DEFINE b == (key % Len(table)) + 1
           n == Len(table[b])
           es == pos[b]
<1>1. b \in 1..Len(table) /\ LookupElementPositions(c, at, key) = es
  BY PositionsRead
<1> HIDE DEF b
<1>2. es \in [1..n -> Nat]
  BY <1>1, Zenon DEF TableRead, BucketRead
<1>3. n \in Nat
  <2>1. table[b] \in Seq(Elements(table))
    BY <1>1 DEF IsTable
  <2>2. QED
    BY <2>1
<1>4. \A p \in ToSet(es) : \E j \in 1..n : p = es[j]
  <2> HIDE DEF es, n
  <2>1. DOMAIN es = 1..n
    BY <1>2
  <2>2. QED
    BY <2>1 DEF ToSet
<1>5. InBucket(c, at, table, pos, key, b)
  BY <1>1, <1>2, <1>3, <1>4 DEF InBucket
<1>6. QED
  BY <1>1, <1>5

(* A document that the doctable does not have. *)
LEMMA NoDocument ==
    ASSUME NEW c, NEW D, NEW ws, Shows(c, ToSet(ws)), NEW at \in Nat, NEW table, IsDocTable(table),
           NEW to, HasTable(D, ws, at, table, DocFn(table), to),
           NEW docid \in Nat, \A e \in Elements(table) : e.key # docid
    PROVE  DocTable_LookupDocID(c, at, docid) = NotFound
<1>1. IsTable(table)
  BY DEF IsDocTable
<1>2. PICK bpos, pos :
         /\ TableRead(c, ToSet(ws), at, table, DocFn(table), bpos, pos, to)
         /\ \A b \in 1..Len(table) : \A j \in 1..Len(table[b]) :
               DocnameRead(c, pos[b][j], table[b][j])
  BY DocTableReads, Zenon
<1>3. PICK b \in 1..Len(table) : InBucket(c, at, table, pos, docid, b)
  BY <1>1, <1>2, BucketPositions, Zenon
<1> DEFINE es == pos[b]
           n == Len(table[b])
           M == {p \in ToSet(es) : c[p].docID = docid}
<1>4. ASSUME NEW m \in 1..n
      PROVE  es[m] \notin M
  <2>1. c[es[m]] = [docID |-> table[b][m].key, filenameBytes |-> table[b][m].len]
    BY <1>2, <1>4, Zenon DEF DocnameRead
  <2>2. c[es[m]].docID = table[b][m].key /\ table[b][m] \in Elements(table)
    BY <1>1, <2>1, ElementsAre
  <2>3. QED
    BY <2>2
<1>5. DocMatch(c, es, docid) = FirstMatch(es, M)
  BY DEF DocMatch, ReadAt
<1> HIDE DEF M, es, n
<1>6. FirstMatch(es, M) = 0
  <2>1. n \in Nat /\ es \in [1..n -> Nat]
    BY <1>3 DEF es, n, InBucket
  <2>2. QED
    BY <1>4, <2>1, FirstMatchNone
<1>7. DocMatch(c, LookupElementPositions(c, at, docid), docid) = 0
  BY <1>3, <1>5, <1>6 DEF es, InBucket
<1>8. QED
  BY <1>7, Zenon DEF DocTable_LookupDocID

(* A word that the index does not have. *)
LEMMA NoWord ==
    ASSUME NEW c, NEW D, IsData(D), NEW ws, Shows(c, ToSet(ws)), NEW at \in Nat, NEW table,
           IsMemIndex(table), \A e \in Elements(table) : [text |-> e.word] \in D,
           NEW to, HasTable(D, ws, at, table, WordFn(table), to),
           NEW q, q.key \in Nat, \A e \in Elements(table) : e.word # q.word
    PROVE  LookupWord(c, at, q) = NotFound
<1> DEFINE key == q.key
<1>1. IsTable(table)
  BY DEF IsMemIndex
<1>2. PICK bpos, pos : MemIndexRead(c, ToSet(ws), at, table, bpos, pos, to)
  BY MemIndexReads, Zenon
<1>3. /\ TableRead(c, ToSet(ws), at, table, WordFn(table), bpos, pos, to)
       /\ \A b \in 1..Len(table) : \A j \in 1..Len(table[b]) : WordRead(c, pos[b][j], table[b][j])
  BY <1>2, Zenon DEF MemIndexRead
<1>4. key \in Nat
  OBVIOUS
<1> HIDE DEF key
<1>5. PICK b \in 1..Len(table) : InBucket(c, at, table, pos, key, b)
  BY <1>1, <1>3, <1>4, BucketPositions, Zenon
<1> DEFINE es == pos[b]
           n == Len(table[b])
           M == {p \in ToSet(es) : c[p].wordBytes = q.len /\ c[p + PostingsHeaderSize].text = q.word}
<1>6. ASSUME NEW m \in 1..n
      PROVE  es[m] \notin M
  <2>1. c[es[m] + PostingsHeaderSize] = [text |-> table[b][m].word]
    BY <1>3, <1>6, Zenon DEF WordRead
  <2>2. c[es[m] + PostingsHeaderSize].text = table[b][m].word /\ table[b][m] \in Elements(table)
    BY <1>1, <2>1, ElementsAre
  <2>3. QED
    BY <2>2
<1>7. WordMatch(c, es, q) = FirstMatch(es, M)
  BY DEF WordMatch, ReadAt
<1> HIDE DEF M, es, n
<1>8. FirstMatch(es, M) = 0
  BY <1>5, <1>6, FirstMatchNone DEF es, n, InBucket
<1>9. WordMatch(c, LookupElementPositions(c, at, q.key), q) = 0
  BY <1>5, <1>7, <1>8 DEF es, key, InBucket
<1>10. QED
  BY <1>9, Zenon DEF LookupWord

(* A key is that of one element, whichever bucket it is in, *)
LEMMA OneKey ==
    ASSUME NEW table, IsTable(table), KeysDiffer(table),
           NEW d \in Elements(table), NEW e \in Elements(table), d.key = e.key
    PROVE  d = e
<1> DEFINE b == (d.key % Len(table)) + 1
<1>1. b \in 1..Len(table) /\ \E j \in 1..Len(table[b]) : table[b][j] = d
  BY InItsBucket
<1>2. \E j \in 1..Len(table[b]) : table[b][j] = e
  BY InItsBucket
<1> HIDE DEF b
<1>3. PICK j \in 1..Len(table[b]) : table[b][j] = d
  BY <1>1
<1>4. PICK k \in 1..Len(table[b]) : table[b][k] = e
  BY <1>2
<1>5. b \in DOMAIN table /\ j \in DOMAIN table[b] /\ k \in DOMAIN table[b]
  BY <1>1, <1>3, <1>4, ElementsAre
<1>6. j = k
  BY <1>3, <1>4, <1>5, Zenon DEF KeysDiffer
<1>7. QED
  BY <1>3, <1>4, <1>6

(* and so is a word, if it has one key. *)
LEMMA OneWord ==
    ASSUME NEW table, IsTable(table), WordsDiffer(table),
           NEW d \in Elements(table), NEW e \in Elements(table), d.key = e.key, d.word = e.word
    PROVE  d = e
<1> DEFINE b == (d.key % Len(table)) + 1
<1>1. b \in 1..Len(table) /\ \E j \in 1..Len(table[b]) : table[b][j] = d
  BY InItsBucket
<1>2. \E j \in 1..Len(table[b]) : table[b][j] = e
  <2>1. (e.key % Len(table)) + 1 = b
    OBVIOUS
  <2>2. \E j \in 1..Len(table[(e.key % Len(table)) + 1]) : table[(e.key % Len(table)) + 1][j] = e
    BY InItsBucket
  <2> HIDE DEF b
  <2>3. QED
    BY <2>1, <2>2, Zenon
<1> HIDE DEF b
<1>3. PICK j \in 1..Len(table[b]) : table[b][j] = d
  BY <1>1
<1>4. PICK k \in 1..Len(table[b]) : table[b][k] = e
  BY <1>2
<1>5. b \in DOMAIN table /\ j \in DOMAIN table[b] /\ k \in DOMAIN table[b]
  BY <1>1, <1>3, <1>4, ElementsAre
<1>6. j = k
  BY <1>3, <1>4, <1>5, Zenon DEF WordsDiffer
<1>7. QED
  BY <1>3, <1>4, <1>6

(* A sequence with as many members as places has each of them once. *)
LEMMA EachOnce ==
    ASSUME NEW S, NEW s \in Seq(S), Cardinality(ToSet(s)) = Len(s)
    PROVE  \A j, k \in 1..Len(s) : s[j] = s[k] => j = k
<1> DEFINE n == Len(s)
           T == ToSet(s)
<1>1. n \in Nat /\ DOMAIN s = 1..n
  OBVIOUS
<1>2. IsFiniteSet(1..n) /\ Cardinality(1..n) = n
  <2> HIDE DEF n
  <2>1. 1 \in Int /\ n \in Int
    BY <1>1
  <2>2. IsFiniteSet(1..n) /\ Cardinality(1..n) = IF 1 > n THEN 0 ELSE n - 1 + 1
    BY <2>1, FS_Interval, Zenon
  <2>3. QED
    BY <1>1, <2>2
<1>3. s \in [1..n -> T] /\ \A t \in T : \E j \in 1..n : s[j] = t
  <2>1. \A j \in 1..n : s[j] \in T
    BY <1>1, Zenon DEF ToSet
  <2>2. \A t \in T : \E j \in 1..n : s[j] = t
    BY <1>1, Zenon DEF ToSet
  <2>3. s \in [1..n -> S]
    BY <1>1
  <2> HIDE DEF T, n
  <2>4. QED
    BY <2>1, <2>2, <2>3
<1>4. s \in Surjection(1..n, T)
  <2> HIDE DEF T, n
  <2>1. QED
    BY <1>3 DEF Surjection
<1>5. s \in Injection(1..n, T)
  <2>1. Cardinality(1..n) = Cardinality(T)
    BY <1>2
  <2> HIDE DEF T, n
  <2>2. QED
    BY <1>2, <1>4, <2>1, FS_SurjSameCardinalityImpliesInj
<1>6. QED
  BY <1>1, <1>5, Zenon DEF Injection, IsInjective

(* GetDocIDList names each document once. *)
LEMMA ListDiffers ==
    ASSUME NEW c, NEW D, IsData(D), NEW ws, Shows(c, ToSet(ws)), NEW at \in Nat, NEW table,
           IsPostings(table), NEW to, HasTable(D, ws, at, table, PostingsFn(table), to)
    PROVE  LET list == GetDocIDList(c, at)
           IN  /\ list \in Seq([docID : Nat, numPositions : Nat])
               /\ ToSet(list) = HeadersListed(table)
               /\ \A j, k \in 1..Len(list) : list[j].docID = list[k].docID => j = k
<1> DEFINE list == GetDocIDList(c, at)
           H == [docID : Nat, numPositions : Nat]
           E == Elements(table)
           seqs == DocIDHeaders(table)
           n == Len(table)
<1>1. /\ list = FlattenSeq(seqs)
      /\ Len(list) = Cardinality(E)
      /\ ToSet(list) = HeadersListed(table)
  BY ListRead, Zenon
<1>2. IsTable(table) /\ KeysDiffer(table) /\ n \in Nat /\ n > 0
      /\ \A e \in E : e.key \in Nat /\ e.positions \in Seq(Nat)
  <2>1. IsTable(table) /\ KeysDiffer(table)
    BY DEF IsPostings
  <2>2. \A e \in E : e.key \in Nat
    BY <2>1, ElementKeys
  <2>3. \A e \in E : e.positions \in Seq(Nat)
    BY PositionsAre
  <2>4. n \in Nat /\ n > 0
    BY <2>1 DEF IsTable
  <2>5. QED
    BY <2>1, <2>2, <2>3, <2>4
<1>3. ASSUME NEW e \in E
      PROVE  DocIDHeader(e) \in H /\ DocIDHeader(e).docID = e.key
  <2>1. e.key \in Nat /\ Len(e.positions) \in Nat
    BY <1>2
  <2>2. QED
    BY <2>1 DEF DocIDHeader
<1>4. seqs \in Seq(Seq(H)) /\ Len(seqs) > 0
  <2>1. ASSUME NEW b \in 1..n
        PROVE  [j \in 1..Len(table[b]) |-> DocIDHeader(table[b][j])] \in Seq(H)
    <3> DEFINE m == Len(table[b])
    <3>1. \A j \in 1..m : DocIDHeader(table[b][j]) \in H
      BY <1>2, <1>3, ElementsAre
    <3>2. m \in Nat
      BY <1>2, <2>1 DEF IsTable
    <3> HIDE DEF H, m
    <3>3. QED
      BY <3>1, <3>2 DEF m
  <2> DEFINE R == Seq(H)
             f == [b \in 1..n |-> [j \in 1..Len(table[b]) |-> DocIDHeader(table[b][j])]]
  <2>2. seqs = f
    BY Zenon DEF DocIDHeaders
  <2> HIDE DEF R, n, seqs
  <2>3. f \in [1..n -> R]
    BY <2>1 DEF R
  <2> HIDE DEF f
  <2>4. f \in Seq(R) /\ Len(f) = n
    BY <1>2, <2>3
  <2>5. QED
    BY <1>2, <2>2, <2>4 DEF R
<1> HIDE DEF seqs
<1>5. list \in Seq(H)
  BY <1>1, <1>4, FlattenType
<1>6. IsFiniteSet(E)
  <2>1. /\ \A b \in 1..n : IsFiniteSet(ToSet(table[b]))
        /\ E = UNION {ToSet(table[b]) : b \in 1..n}
    BY <1>2, ChainsAre
  <2>2. IsFiniteSet(ToSet(list))
    <3> DEFINE m == Len(list)
               T == ToSet(list)
    <3> HIDE DEF list, H
    <3>1. m \in Nat /\ DOMAIN list = 1..m /\ T = {list[j] : j \in 1..m}
      BY <1>5 DEF ToSet
    <3>2. list \in Surjection(1..m, T)
      BY <1>5, <3>1 DEF Surjection
    <3> HIDE DEF T, m
    <3>3. ExistsSurjection(1..m, T)
      BY <3>2 DEF ExistsSurjection
    <3>4. QED
      BY <3>1, <3>3, FS_NatSurjection DEF T
  <2> DEFINE T == ToSet(list)
             f == [e \in E |-> DocIDHeader(e)]
  <2>3. f \in Injection(E, T)
    <3>1. T = {DocIDHeader(e) : e \in E}
      BY <1>1 DEF HeadersListed
    <3> HIDE DEF T, E
    <3>2. f \in [E -> T]
      BY <3>1
    <3>3. ASSUME NEW d \in E, NEW e \in E, f[d] = f[e]
          PROVE  d = e
      <4>1. d.key = e.key
        BY <1>3, <3>3
      <4>2. QED
        BY <1>2, <4>1, OneKey DEF E
    <3>4. IsInjective(f)
      BY <3>2, <3>3 DEF IsInjective
    <3>5. QED
      BY <3>2, <3>4 DEF Injection
  <2> HIDE DEF f, T, E
  <2>4. QED
    BY <2>2, <2>3, FS_Injection DEF T
<1>7. Cardinality(ToSet(list)) = Cardinality(E)
  <2> DEFINE T == ToSet(list)
             f == [e \in E |-> DocIDHeader(e)]
  <2>1. T = {DocIDHeader(e) : e \in E}
    BY <1>1 DEF HeadersListed
  <2> HIDE DEF T, E
  <2>2. f \in [E -> T]
    BY <2>1
  <2>3. ASSUME NEW d \in E, NEW e \in E, f[d] = f[e]
        PROVE  d = e
    <3>1. d.key = e.key
      BY <1>3, <2>3
    <3>2. QED
      BY <1>2, <3>1, OneKey DEF E
  <2>4. f \in Injection(E, T)
    BY <2>2, <2>3 DEF Injection, IsInjective
  <2>5. f \in Surjection(E, T)
    BY <2>1, <2>2 DEF Surjection
  <2> HIDE DEF f
  <2>6. ExistsBijection(E, T)
    BY <2>4, <2>5 DEF ExistsBijection, Bijection
  <2>7. QED
    BY <1>6, <2>6, FS_Bijection DEF T
<1> HIDE DEF list
<1>8. \A j, k \in 1..Len(list) : list[j] = list[k] => j = k
  <2> HIDE DEF H
  <2>1. QED
    BY <1>1, <1>5, <1>7, EachOnce
<1>9. ASSUME NEW j \in 1..Len(list), NEW k \in 1..Len(list), list[j].docID = list[k].docID
      PROVE  j = k
  <2>1. list[j] \in ToSet(list) /\ list[k] \in ToSet(list)
    <3> HIDE DEF H
    <3>1. QED
      BY <1>5 DEF ToSet
  <2>2. PICK d \in E : list[j] = DocIDHeader(d)
    BY <1>1, <2>1 DEF HeadersListed
  <2>3. PICK e \in E : list[k] = DocIDHeader(e)
    BY <1>1, <2>1 DEF HeadersListed
  <2>4. d.key = e.key
    BY <1>3, <1>9, <2>2, <2>3
  <2>5. d = e
    BY <1>2, <2>4, OneKey
  <2>6. QED
    BY <1>8, <2>2, <2>3, <2>5
<1>10. QED
  BY <1>1, <1>5, <1>9 DEF list
=============================================================================
