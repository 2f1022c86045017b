-------------------------- MODULE HttpServerProofs --------------------------
(***************************************************************************)
(* Proofs about HttpServer for any clients, descriptors and number of      *)
(* threads: no descriptor leaks, a server that returns has served and      *)
(* closed what it accepted, and a client whose connection nobody else      *)
(* touched has its requests answered once each and in order.               *)
(*                                                                         *)
(* Tasks share descriptor numbers and close them more than once, so the    *)
(* proofs rest on who owns a number: Descriptors says that a number in use *)
(* is that of the task which has still to close it, and that no task has   *)
(* the number of the listening socket.                                     *)
(***************************************************************************)
EXTENDS HttpServer, SequenceTheorems, TLAPS

Shared == INSTANCE SharedLemmas

USE ServerAssumption

-----------------------------------------------------------------------------
(* Descriptors and headers. *)

(* socket() and accept() find a free number if there is one. *)
LEMMA LowestFreeIsFree ==
    ASSUME FreeFds # {}
    PROVE  LowestFree \in Fds /\ fdtab[LowestFree] = None
<1>1. FreeFds \subseteq Nat
  BY DEF FreeFds
<1>2. \E f \in FreeFds : \A g \in FreeFds : f <= g
  BY <1>1, Shared!LeastNat, Zenon
<1>3. LowestFree \in FreeFds
  BY <1>2, Zenon DEF LowestFree
<1>4. QED
  BY <1>3 DEF FreeFds

(* HeaderEnd finds the first piece that ends a header. *)
LEMMA HeaderEndIs ==
    ASSUME NEW b \in Seq(Pieces), HeaderEnd(b) # 0
    PROVE  /\ HeaderEnd(b) \in 1..Len(b)
           /\ EndsHeader(b[HeaderEnd(b)])
           /\ \A k \in 1..Len(b) : k < HeaderEnd(b) => ~EndsHeader(b[k])
<1> DEFINE I == {i \in 1..Len(b) : EndsHeader(b[i])}
<1>1. HeaderEnd(b) = IF I # {} THEN Min(I) ELSE 0
  BY DEF HeaderEnd, SelectInSeq
<1>2. I # {} /\ HeaderEnd(b) = Min(I)
  BY <1>1
<1>3. I \subseteq Nat
  OBVIOUS
<1>4. \E x \in I : \A y \in I : x <= y
  BY <1>2, <1>3, Shared!LeastNat, Zenon
<1>5. Min(I) \in I /\ \A y \in I : Min(I) <= y
  BY <1>4, Zenon DEF Min
<1>6. QED
  BY <1>2, <1>5

-----------------------------------------------------------------------------
(* Descriptors and the pool. *)

(* A running task has a number, and the number is free or a connection's.  *)
LEMMA NumberOfTask ==
    ASSUME Bookkeeping, NEW c \in Clients, c \in active
    PROVE  /\ client_fd[c] \in Fds
           /\ fdtab[client_fd[c]] \in Clients \cup {None}
           /\ pc[c] \notin {"none", "queued", "done"}
           /\ c # hst
<1>1. pc[c] \notin {"none", "queued", "done"}
  BY DEF Bookkeeping, InPool
<1>2. c # hst
  BY <1>1 DEF Bookkeeping, Lifecycle
<1>3. client_fd[c] \in Fds
  BY <1>1 DEF Bookkeeping, Lifecycle, TypeOK
<1>4. fdtab[client_fd[c]] \in Clients \cup {None}
  BY <1>3 DEF Bookkeeping, Descriptors, TypeOK
<1>5. QED
  BY <1>1, <1>2, <1>3, <1>4

(* A task that moves on, and perhaps closes its number, changes nobody     *)
(* else's place and gives nobody a connection.                             *)
LEMMA TaskMoves ==
    ASSUME Bookkeeping, NEW c \in Clients, c \in active,
           NEW p \in Places \ {"none", "queued", "done"},
           pc' = [pc EXCEPT ![c] = p],
           UNCHANGED <<client, main, hst, queue, active, done, client_fd>>,
           fdtab' = fdtab \/ CloseFd(client_fd[c])
    PROVE  /\ InPool' /\ Lifecycle' /\ Descriptors'
           /\ pc' \in [Clients -> Places]
           /\ fdtab' \in [Fds -> Clients \cup {Listening, None}]
           /\ \A d \in Clients : Connected(d)' => Connected(d)
<1> USE DEF Bookkeeping
<1>1. /\ pc \in [Clients -> Places] /\ fdtab \in [Fds -> Clients \cup {Listening, None}]
      /\ client_fd \in [Clients -> Fds \cup {None}] /\ hst \in Clients \cup {None}
  BY DEF TypeOK
<1>2. /\ pc[c] \notin {"none", "queued", "done"} /\ c # hst /\ client_fd[c] \in Fds
      /\ fdtab[client_fd[c]] \in Clients \cup {None}
  BY NumberOfTask
<1>3. /\ pc' \in [Clients -> Places] /\ pc'[c] = p
      /\ \A d \in Clients : d # c => pc'[d] = pc[d]
  BY <1>1
<1>4. /\ fdtab' \in [Fds -> Clients \cup {Listening, None}]
      /\ \A f \in Fds : fdtab'[f] = fdtab[f] \/ fdtab'[f] = None
  BY <1>1 DEF CloseFd
<1>5. InPool'
  BY <1>2, <1>3 DEF InPool
<1>6. Lifecycle'
  BY <1>1, <1>2, <1>3 DEF Lifecycle
<1>7. Descriptors'
  <2>1. ASSUME NEW f \in Fds
        PROVE  /\ fdtab'[f] \in Clients => /\ client_fd[fdtab'[f]] = f
                                           /\ pc'[fdtab'[f]] # "done"
               /\ fdtab'[f] = Listening => /\ main \notin {"bind", "returned"}
                                           /\ \A d \in Clients : client_fd[d] # f
    <3>1. CASE fdtab'[f] = None
      BY <3>1
    <3>2. CASE fdtab'[f] = fdtab[f]
      BY <1>3, <3>2 DEF Descriptors
    <3>3. QED
      BY <1>4, <3>1, <3>2
  <2>2. QED
    BY <2>1 DEF Descriptors
<1>8. \A d \in Clients : Connected(d)' => Connected(d)
  BY <1>4 DEF Connected
<1>9. QED
  BY <1>3, <1>4, <1>5, <1>6, <1>7, <1>8

(* A client sends a piece; a piece that ends a header has the next number. *)
Sends(c, piece) ==
    /\ inbox' = [inbox EXCEPT ![c] = Append(@, piece)]
    /\ asked' = [asked EXCEPT ![c] = IF EndsHeader(piece) THEN Append(@, piece) ELSE @]
    /\ EndsHeader(piece) => piece.id = Len(asked[c]) + 1

(* Every piece that a client sends is of this kind. *)
LEMMA SendIs ==
    ASSUME TypeOK, NEW c \in Clients, NEW kind \in Kinds, Send(c, kind)
    PROVE  \E piece \in Pieces : Sends(c, piece)
<1> DEFINE id == IF kind = "part" THEN 0 ELSE Len(asked[c]) + 1
           piece == [from |-> c, kind |-> kind, id |-> id]
<1>1. id \in Nat
  BY DEF TypeOK
<1>2. piece \in Pieces
  BY <1>1 DEF Pieces
<1>3. EndsHeader(piece) => piece.id = Len(asked[c]) + 1
  BY DEF EndsHeader
<1>4. /\ inbox' = [inbox EXCEPT ![c] = Append(@, piece)]
      /\ asked' = [asked EXCEPT ![c] = IF EndsHeader(piece) THEN Append(@, piece) ELSE @]
  BY DEF Send
<1> HIDE DEF piece
<1>5. Sends(c, piece)
  BY <1>3, <1>4 DEF Sends
<1>6. QED
  BY <1>2, <1>5

(* The clients' own steps. *)
LEMMA ClientKeeps ==
    ASSUME Bookkeeping, NEW c \in Clients, Client(c)
    PROVE  Bookkeeping'
<1> USE DEF Bookkeeping
<1>1. /\ UNCHANGED <<outbox, fdtab, main, hst, queue, active, done, pc, client_fd, peer,
                     buffer_, req, stop, robbed>>
  BY DEF Client, Connect, Stall, Send, HangUp, poolVars, taskVars
<1>2. /\ client' \in [Clients -> {"new", "waiting", "open", "eof", "gone"}]
      /\ \A d \in Clients : client'[d] \in {"new", "waiting"} <=> client[d] \in {"new", "waiting"}
  <2> client \in [Clients -> {"new", "waiting", "open", "eof", "gone"}]
    BY DEF TypeOK
  <2>1. CASE Connect(c)
    BY <2>1 DEF Connect
  <2>2. CASE client' = client
    BY <2>2
  <2>3. ASSUME NEW how \in {"eof", "gone"}, HangUp(c, how)
        PROVE  <1>2!:
    BY <2>3 DEF HangUp
  <2>4. QED
    BY <2>1, <2>2, <2>3 DEF Client, Send, Stall
<1>3. /\ inbox' \in [Clients -> Seq(Pieces)] /\ asked' \in [Clients -> Seq(Pieces)]
      /\ sent' \in 0..MaxSends /\ stalled' \subseteq Clients
  <2> /\ inbox \in [Clients -> Seq(Pieces)] /\ asked \in [Clients -> Seq(Pieces)]
      /\ sent \in 0..MaxSends /\ stalled \subseteq Clients
    BY DEF TypeOK
  <2>1. CASE UNCHANGED <<inbox, asked, sent, stalled>>
    BY <2>1
  <2>4. CASE Stall(c)
    BY <2>4 DEF Stall
  <2>2. ASSUME NEW kind \in Kinds, Send(c, kind)
        PROVE  <1>3!:
    <3>1. PICK piece \in Pieces : Sends(c, piece)
      BY <2>2, SendIs
    <3>2. inbox' \in [Clients -> Seq(Pieces)]
      BY <3>1 DEF Sends
    <3>3. asked' \in [Clients -> Seq(Pieces)]
      BY <3>1 DEF Sends
    <3>4. sent' \in 0..MaxSends /\ stalled' = stalled
      BY <2>2 DEF Send
    <3>5. QED
      BY <3>2, <3>3, <3>4
  <2>3. QED
    BY <2>1, <2>2, <2>4 DEF Client, Connect, HangUp
<1>4. TypeOK'
  BY <1>1, <1>2, <1>3 DEF TypeOK
<1>5. InPool' /\ Descriptors' /\ Peers'
  BY <1>1 DEF InPool, Descriptors, Peers, Connected
<1>6. Lifecycle'
  BY <1>1, <1>2 DEF Lifecycle
<1>7. QED
  BY <1>4, <1>5, <1>6

(* A sequence without elements is empty. *)
LEMMA QueueEmpty ==
    ASSUME NEW q \in Seq(Clients), \A c \in Clients : c \notin ToSet(q)
    PROVE  q = <<>>
<1>1. \A i \in DOMAIN q : q[i] \in Clients /\ q[i] \in ToSet(q)
  BY DEF ToSet
<1>2. QED
  BY <1>1

(* The main thread's steps that accept and dispatch nothing. *)
LEMMA MainKeeps ==
    ASSUME Bookkeeping,
           BindAndListen \/ BindFails \/ AcceptFails \/ Return \/ DrainPool
             \/ (\E c \in Clients : AcceptExits(c) \/ ProcessThrows(c))
    PROVE  Bookkeeping'
<1> USE DEF Bookkeeping
<1>1. UNCHANGED <<client, inbox, asked, sent, stalled, robbed, outbox, hst, queue, active, done, pc,
                  client_fd, peer, buffer_, req, stop>>
  BY DEF BindAndListen, BindFails, AcceptFails, Return, DrainPool, AcceptExits, ProcessThrows,
         network, poolVars, taskVars, Pool!Close, Pool!Vanish, Pool!Drain
<1>2. InPool'
  BY <1>1 DEF InPool
<1>3. main' \in {"bind", "accept", "dispatch", "delete", "returned", "exited"}
  BY DEF BindAndListen, BindFails, AcceptFails, Return, DrainPool, AcceptExits, ProcessThrows,
         TypeOK
<1>4. /\ main' # "bind"
      /\ main' = "dispatch" => main = "dispatch"
      /\ hst # None => main' \in {"dispatch", "exited"}
  BY DEF BindAndListen, BindFails, AcceptFails, Return, DrainPool, AcceptExits, ProcessThrows,
         Lifecycle
<1>5. main' = "returned" => queue = <<>> /\ active = {}
  <2>1. CASE BindFails
    <3>1. \A c \in Clients : pc[c] = "none"
      BY <2>1 DEF BindFails, Lifecycle
    <3>2. active = {}
      BY <3>1 DEF InPool, TypeOK
    <3>3. \A c \in Clients : c \notin ToSet(queue)
      BY <3>1 DEF InPool
    <3>4. queue = <<>>
      BY <3>3, QueueEmpty DEF TypeOK
    <3>5. QED
      BY <3>2, <3>4
  <2>2. CASE Return
    BY <2>2 DEF Return, Pool!Vanish
  <2>3. CASE ~(BindFails \/ Return)
    BY <2>3 DEF BindAndListen, AcceptFails, DrainPool, AcceptExits, ProcessThrows, Lifecycle
  <2>4. QED
    BY <2>1, <2>2, <2>3
<1>6. Lifecycle'
  BY <1>1, <1>4, <1>5 DEF Lifecycle
<1>7. /\ fdtab' \in [Fds -> Clients \cup {Listening, None}]
      /\ Descriptors'
      /\ \A d \in Clients : Connected(d)' => Connected(d)
  <2> fdtab \in [Fds -> Clients \cup {Listening, None}]
    BY DEF TypeOK
  <2>1. CASE BindAndListen
    <3>1. /\ fdtab' = [fdtab EXCEPT ![LowestFree] = Listening] /\ main' = "accept"
          /\ \A c \in Clients : client_fd[c] = None
      BY <2>1 DEF BindAndListen, Lifecycle
    <3> HIDE DEF Bookkeeping
    <3>2. /\ fdtab' \in [Fds -> Clients \cup {Listening, None}]
          /\ \A f \in Fds : fdtab'[f] = fdtab[f] \/ fdtab'[f] = Listening
      BY <3>1
    <3>3. \A d \in Clients : ~Connected(d)'
      BY <1>1, <3>1 DEF Connected
    <3>4. \A f \in Fds : fdtab'[f] \notin Clients
      BY <1>1, <3>1, <3>2 DEF Bookkeeping, Descriptors
    <3>5. \A c \in Clients : client_fd'[c] = None
      BY <1>1, <3>1
    <3>6. Descriptors'
      BY <3>1, <3>4, <3>5 DEF Descriptors
    <3>7. QED
      BY <3>2, <3>3, <3>6
  <2>2. CASE Return
    BY <1>1, <2>2 DEF Return, Descriptors, Connected
  <2>3. CASE AcceptFails \/ DrainPool \/ (\E c \in Clients : AcceptExits(c) \/ ProcessThrows(c))
    <3>1. fdtab' = fdtab /\ main' \notin {"bind", "returned"}
      BY <2>3 DEF AcceptFails, DrainPool, AcceptExits, ProcessThrows
    <3>2. QED
      BY <1>1, <3>1 DEF Descriptors, Connected
  <2>4. CASE BindFails
    <3>1. fdtab' = fdtab /\ \A f \in Fds : fdtab[f] # Listening
      BY <2>4 DEF BindFails, Descriptors
    <3>2. QED
      BY <1>1, <3>1 DEF Descriptors, Connected
  <2>5. QED
    BY <2>1, <2>2, <2>3, <2>4
<1>8. TypeOK' /\ Peers'
  BY <1>1, <1>3, <1>7 DEF TypeOK, Peers
<1>9. QED
  BY <1>2, <1>6, <1>7, <1>8

(* accept() gives a connection a number that no other task owns. *)
LEMMA AcceptKeeps ==
    ASSUME Bookkeeping, NEW c \in Clients, Accept(c)
    PROVE  Bookkeeping'
<1> DEFINE f0 == LowestFree
<1> USE DEF Bookkeeping
<1>1. /\ main = "accept" /\ main' = "dispatch" /\ hst' = c /\ client[c] = "waiting"
      /\ client' = [client EXCEPT ![c] = "open"]
      /\ fdtab' = [fdtab EXCEPT ![f0] = c]
      /\ client_fd' = [client_fd EXCEPT ![c] = f0]
      /\ UNCHANGED <<inbox, asked, sent, stalled, robbed, outbox, queue, active, done, pc, peer,
                     buffer_, req, stop>>
  BY DEF Accept, poolVars
<1>2. f0 \in Fds /\ fdtab[f0] = None
  BY LowestFreeIsFree DEF Accept
<1>3. /\ client \in [Clients -> {"new", "waiting", "open", "eof", "gone"}]
      /\ fdtab \in [Fds -> Clients \cup {Listening, None}]
      /\ client_fd \in [Clients -> Fds \cup {None}]
  BY DEF TypeOK
<1>4. hst = None /\ client_fd[c] = None /\ pc[c] = "none"
  BY <1>1 DEF Lifecycle
<1> HIDE DEF f0, Bookkeeping
<1>5. /\ client' \in [Clients -> {"new", "waiting", "open", "eof", "gone"}]
      /\ client'[c] = "open" /\ \A d \in Clients : d # c => client'[d] = client[d]
  BY <1>1, <1>3
<1>6. /\ fdtab' \in [Fds -> Clients \cup {Listening, None}]
      /\ fdtab'[f0] = c /\ \A f \in Fds : f # f0 => fdtab'[f] = fdtab[f]
  BY <1>1, <1>2, <1>3
<1>7. /\ client_fd' \in [Clients -> Fds \cup {None}]
      /\ client_fd'[c] = f0 /\ \A d \in Clients : d # c => client_fd'[d] = client_fd[d]
  BY <1>1, <1>2, <1>3
<1>8. TypeOK'
  BY <1>1, <1>5, <1>6, <1>7 DEF Bookkeeping, TypeOK
<1>9. InPool'
  BY <1>1 DEF Bookkeeping, InPool
<1>10. Lifecycle'
  BY <1>1, <1>2, <1>4, <1>5, <1>7 DEF Bookkeeping, Lifecycle
<1>11. Descriptors'
  <2>1. ASSUME NEW f \in Fds
        PROVE  /\ fdtab'[f] \in Clients => /\ client_fd'[fdtab'[f]] = f
                                           /\ pc'[fdtab'[f]] # "done"
               /\ fdtab'[f] = Listening => /\ main' \notin {"bind", "returned"}
                                           /\ \A d \in Clients : client_fd'[d] # f
    <3>1. CASE f = f0
      BY <1>1, <1>4, <1>6, <1>7, <3>1
    <3>2. CASE f # f0
      BY <1>1, <1>2, <1>4, <1>6, <1>7, <3>2 DEF Bookkeeping, Descriptors
    <3>3. QED
      BY <3>1, <3>2
  <2>2. QED
    BY <2>1 DEF Descriptors
<1>12. Peers'
  <2>1. ASSUME NEW d \in Clients, pc'[d] \in {"read", "writing"}
        PROVE  /\ client_fd'[peer'[d]] # None
               /\ Connected(d)' => peer'[d] = d
    <3>1. d # c
      BY <1>1, <1>4, <2>1
    <3>2. Connected(d)' => Connected(d)
      BY <1>2, <1>6, <1>7, <3>1 DEF Connected
    <3>3. /\ client_fd[peer[d]] # None /\ peer[d] \in Clients /\ peer'[d] = peer[d]
          /\ Connected(d) => peer[d] = d
      BY <1>1, <2>1 DEF Bookkeeping, Peers, TypeOK
    <3>4. client_fd'[peer[d]] # None
      BY <1>2, <1>7, <3>3, ServerAssumption
    <3>5. QED
      BY <3>2, <3>3, <3>4
  <2>2. QED
    BY <2>1 DEF Peers
<1>13. QED
  BY <1>8, <1>9, <1>10, <1>11, <1>12 DEF Bookkeeping

(* A queue gets a task it did not have, and a task leaves it. *)
LEMMA QueueAppend ==
    ASSUME NEW q \in Seq(Clients), NEW t \in Clients, t \notin ToSet(q),
           \A j, k \in DOMAIN q : q[j] = q[k] => j = k
    PROVE  /\ Append(q, t) \in Seq(Clients)
           /\ ToSet(Append(q, t)) = ToSet(q) \cup {t}
           /\ \A j, k \in DOMAIN Append(q, t) : Append(q, t)[j] = Append(q, t)[k] => j = k
<1> DEFINE r == Append(q, t)
<1>1. /\ r \in Seq(Clients) /\ DOMAIN r = 1..(Len(q) + 1) /\ DOMAIN q = 1..Len(q)
      /\ Len(q) \in Nat
      /\ r[Len(q) + 1] = t /\ \A i \in DOMAIN q : r[i] = q[i]
  OBVIOUS
<1> HIDE DEF r
<1>2. ToSet(r) = ToSet(q) \cup {t}
  <2>1. \A x \in ToSet(r) : x \in ToSet(q) \cup {t}
    BY <1>1 DEF ToSet
  <2>2. t \in ToSet(r)
    BY <1>1 DEF ToSet
  <2>3. \A x \in ToSet(q) : x \in ToSet(r)
    BY <1>1 DEF ToSet
  <2>4. QED
    BY <2>1, <2>2, <2>3
<1>3. \A i \in DOMAIN q : q[i] # t
  BY DEF ToSet
<1>4. ASSUME NEW j \in DOMAIN r, NEW k \in DOMAIN r, r[j] = r[k]
      PROVE  j = k
  BY <1>1, <1>3, <1>4
<1>5. QED
  BY <1>1, <1>2, <1>4 DEF r

(* A queue of distinct clients without its first. *)
LEMMA QueueTail ==
    ASSUME NEW q \in Seq(Clients), q # <<>>,
           \A j, k \in DOMAIN q : q[j] = q[k] => j = k
    PROVE  /\ Head(q) \in Clients /\ Tail(q) \in Seq(Clients)
           /\ Head(q) \in ToSet(q) /\ ToSet(Tail(q)) = ToSet(q) \ {Head(q)}
           /\ \A j, k \in DOMAIN Tail(q) : Tail(q)[j] = Tail(q)[k] => j = k
<1> DEFINE r == Tail(q)  h == Head(q)
<1>1. /\ h \in Clients /\ r \in Seq(Clients) /\ h = q[1]
      /\ Len(q) \in Nat /\ Len(q) >= 1
      /\ DOMAIN q = 1..Len(q) /\ DOMAIN r = 1..(Len(q) - 1)
      /\ \A i \in 1..(Len(q) - 1) : r[i] = q[i + 1]
  OBVIOUS
<1> HIDE DEF r, h
<1>2. h \in ToSet(q)
  BY <1>1 DEF ToSet
<1>3. \A x \in ToSet(r) : x \in ToSet(q) /\ x # h
  <2>1. ASSUME NEW i \in 1..(Len(q) - 1)
        PROVE  r[i] \in ToSet(q) /\ r[i] # h
    <3>1. i + 1 \in DOMAIN q /\ 1 \in DOMAIN q /\ i + 1 # 1
      BY <1>1
    <3>2. QED
      BY <1>1, <3>1 DEF ToSet
  <2>2. QED
    BY <1>1, <2>1 DEF ToSet
<1>4. \A x \in ToSet(q) : x # h => x \in ToSet(r)
  <2>1. ASSUME NEW i \in DOMAIN q, q[i] # h
        PROVE  q[i] \in ToSet(r)
    <3>1. i - 1 \in DOMAIN r /\ r[i - 1] = q[i]
      BY <1>1, <2>1
    <3>2. QED
      BY <3>1 DEF ToSet
  <2>2. QED
    BY <2>1 DEF ToSet
<1>5. ASSUME NEW j \in DOMAIN r, NEW k \in DOMAIN r, r[j] = r[k]
      PROVE  j = k
  <2>1. j + 1 \in DOMAIN q /\ k + 1 \in DOMAIN q /\ q[j + 1] = q[k + 1]
    BY <1>1, <1>5
  <2>2. j + 1 = k + 1
    BY <2>1
  <2>3. QED
    BY <1>1, <2>2
<1>6. ToSet(r) = ToSet(q) \ {h}
  BY <1>3, <1>4
<1>7. QED
  BY <1>1, <1>2, <1>5, <1>6 DEF r, h

(* The pool takes a connection, and a task begins. *)
LEMMA DispatchKeeps ==
    ASSUME Bookkeeping, Dispatch \/ StartTask
    PROVE  Bookkeeping'
<1> USE DEF Bookkeeping
<1>1. /\ UNCHANGED <<client, inbox, asked, sent, stalled, robbed, outbox, fdtab, client_fd, peer,
                      buffer_, req, stop, done>>
  BY DEF Dispatch, StartTask, network, Pool!Submit, Pool!Start
<1>2. /\ hst \in Clients \cup {None} /\ queue \in Seq(Clients) /\ pc \in [Clients -> Places]
      /\ \A j, k \in DOMAIN queue : queue[j] = queue[k] => j = k
  BY DEF TypeOK, Lifecycle
<1>3. CASE Dispatch
  <2>1. /\ main = "dispatch" /\ main' = "accept" /\ hst' = None
        /\ hst \in Clients /\ hst \notin ToSet(queue) /\ hst \notin active
        /\ queue' = Append(queue, hst) /\ active' = active
        /\ pc' = [pc EXCEPT ![hst] = "queued"] /\ pc[hst] = "none"
    <3>1. /\ main = "dispatch" /\ main' = "accept" /\ hst' = None
          /\ queue' = Append(queue, hst) /\ active' = active
          /\ pc' = [pc EXCEPT ![hst] = "queued"]
      BY <1>3 DEF Dispatch, Pool!Submit
    <3>2. hst \in Clients /\ pc[hst] = "none"
      BY <1>2, <3>1 DEF Lifecycle
    <3>3. hst \notin ToSet(queue) /\ hst \notin active
      BY <3>2 DEF InPool
    <3>4. QED
      BY <3>1, <3>2, <3>3
  <2>2. /\ pc' \in [Clients -> Places] /\ pc'[hst] = "queued"
        /\ \A d \in Clients : d # hst => pc'[d] = pc[d]
    BY <1>2, <2>1 DEF Places
  <2>3. /\ queue' \in Seq(Clients) /\ ToSet(queue') = ToSet(queue) \cup {hst}
        /\ \A j, k \in DOMAIN queue' : queue'[j] = queue'[k] => j = k
    BY <1>2, <2>1, QueueAppend
  <2>4. TypeOK'
    BY <1>1, <2>1, <2>2, <2>3 DEF TypeOK
  <2>5. InPool'
    BY <1>1, <2>1, <2>2, <2>3 DEF InPool
  <2>6. Lifecycle'
    BY <1>1, <2>1, <2>2, <2>3 DEF Lifecycle
  <2>7. Descriptors' /\ Peers'
    BY <1>1, <2>1, <2>2 DEF Descriptors, Peers, Connected
  <2>8. QED
    BY <2>4, <2>5, <2>6, <2>7
<1>4. CASE StartTask
  <2> DEFINE h == Head(queue)
  <2>1. /\ UNCHANGED <<main, hst>> /\ main # "returned"
        /\ queue # <<>> /\ queue' = Tail(queue) /\ active' = active \cup {h}
        /\ pc' = [pc EXCEPT ![h] = "next"]
    BY <1>4 DEF StartTask, Running, Pool!Start
  <2> HIDE DEF h
  <2>3. /\ h \in Clients /\ queue' \in Seq(Clients)
        /\ h \in ToSet(queue) /\ ToSet(queue') = ToSet(queue) \ {h}
        /\ \A j, k \in DOMAIN queue' : queue'[j] = queue'[k] => j = k
    BY <1>2, <2>1, QueueTail DEF h
  <2>2. /\ pc' \in [Clients -> Places] /\ pc'[h] = "next" /\ pc[h] = "queued"
        /\ \A d \in Clients : d # h => pc'[d] = pc[d]
    BY <1>2, <2>1, <2>3 DEF Places, InPool
  <2>4. TypeOK'
    <3>1. active' \subseteq Clients
      BY <2>1, <2>3 DEF TypeOK
    <3>2. \A d \in Clients : pc'[d] \in {"read", "writing"} => peer'[d] \in Clients
      BY <1>1, <2>2 DEF TypeOK
    <3>3. QED
      BY <1>1, <2>1, <2>2, <2>3, <3>1, <3>2 DEF TypeOK
  <2>5. InPool'
    BY <1>1, <2>1, <2>2, <2>3 DEF InPool
  <2>6. Lifecycle'
    BY <1>1, <2>1, <2>2, <2>3 DEF Lifecycle
  <2>7. Descriptors' /\ Peers'
    BY <1>1, <2>1, <2>2 DEF Descriptors, Peers, Connected
  <2>8. QED
    BY <2>4, <2>5, <2>6, <2>7
<1>5. QED
  BY <1>3, <1>4

(* The steps of HttpServer_ThrFn's loop. *)
LEMMA TaskKeeps ==
    ASSUME Bookkeeping, NEW c \in Clients,
           ParseRequest(c) \/ ReadCall(c) \/ ReadData(c) \/ ReadEnds(c)
             \/ CloseAfterRead(c) \/ ProcessRequest(c) \/ WriteCall(c) \/ WriteResponse(c)
             \/ WriteFails(c) \/ CloseAfterWrite(c) \/ CheckClose(c)
    PROVE  Bookkeeping'
<1> DEFINE Ps == Places \ {"none", "queued", "done"}
<1>1. /\ c \in active /\ (\E p \in Ps : pc' = [pc EXCEPT ![c] = p])
      /\ UNCHANGED <<client, main, hst, queue, active, done, client_fd>>
      /\ fdtab' = fdtab \/ CloseFd(client_fd[c])
  BY DEF ParseRequest, ReadCall, ReadData, ReadEnds, CloseAfterRead, ProcessRequest,
         WriteCall, WriteResponse, WriteFails, CloseAfterWrite, CheckClose, Goto, Places,
         network, poolVars
<1>2. PICK p \in Ps : pc' = [pc EXCEPT ![c] = p]
  BY <1>1
<1>3. /\ InPool' /\ Lifecycle' /\ Descriptors'
      /\ pc' \in [Clients -> Places]
      /\ fdtab' \in [Fds -> Clients \cup {Listening, None}]
      /\ \A d \in Clients : Connected(d)' => Connected(d)
  BY <1>1, <1>2, TaskMoves
<1>4. /\ UNCHANGED <<asked, sent, stalled>>
      /\ ~ReadData(c) => UNCHANGED <<inbox, robbed>>
      /\ ~(ReadData(c) \/ ParseRequest(c)) => UNCHANGED buffer_
      /\ ~WriteResponse(c) => UNCHANGED outbox
  BY DEF ParseRequest, ReadCall, ReadData, ReadEnds, CloseAfterRead, ProcessRequest,
         WriteCall, WriteResponse, WriteFails, CloseAfterWrite, CheckClose, network
<1>5. TypeOK
  BY DEF Bookkeeping
<1>6. PICK r : /\ peer' = [peer EXCEPT ![c] = r]
               /\ r \in Clients \cup {None}
               /\ p \in {"read", "writing"} =>
                     r \in Clients /\ client_fd[r] # None /\ (Connected(c)' => r = c)
  <2>1. CASE ReadCall(c) \/ WriteCall(c)
    <3>1. fdtab[client_fd[c]] \in Clients \cup {None}
      BY <1>1, NumberOfTask
    <3>2. /\ peer' = [peer EXCEPT ![c] = fdtab[client_fd[c]]] /\ UNCHANGED <<fdtab, client_fd>>
          /\ \/ pc' = [pc EXCEPT ![c] = IF peer'[c] = None THEN "failed" ELSE "read"]
             \/ pc' = [pc EXCEPT ![c] = IF peer'[c] = None THEN "unwritten" ELSE "writing"]
      BY <2>1 DEF ReadCall, WriteCall, Goto
    <3>3. /\ peer'[c] = fdtab[client_fd[c]] /\ pc'[c] = p
      BY <1>2, <1>5, <3>2 DEF TypeOK
    <3>4. p \in {"read", "writing"} => fdtab[client_fd[c]] # None
      BY <1>5, <3>2, <3>3 DEF TypeOK
    <3>5. Connected(c)' => fdtab[client_fd[c]] = c
      BY <3>2 DEF Connected
    <3>6. fdtab[client_fd[c]] # None => client_fd[fdtab[client_fd[c]]] # None
      BY <1>1, <3>1, NumberOfTask, ServerAssumption DEF Bookkeeping, Descriptors
    <3>7. QED
      BY <3>1, <3>2, <3>4, <3>5, <3>6
  <2>2. CASE ReadData(c) \/ ReadEnds(c) \/ WriteResponse(c) \/ WriteFails(c)
    <3>1. p \notin {"read", "writing"}
      <4>1. pc \in [Clients -> Places]
        BY <1>5 DEF TypeOK
      <4>2. \E r \in {"next", "failed", "check", "unwritten"} : pc' = [pc EXCEPT ![c] = r]
        BY <2>2 DEF ReadData, ReadEnds, WriteResponse, WriteFails, Goto
      <4>3. QED
        BY <1>2, <4>1, <4>2
    <3>2. peer' = [peer EXCEPT ![c] = None]
      BY <2>2 DEF ReadData, ReadEnds, WriteResponse, WriteFails
    <3>3. QED
      BY <3>1, <3>2
  <2>3. CASE ParseRequest(c) \/ CloseAfterRead(c) \/ ProcessRequest(c) \/ CloseAfterWrite(c)
               \/ CheckClose(c)
    <3>1. p \notin {"read", "writing"}
      <4>1. pc \in [Clients -> Places]
        BY <1>5 DEF TypeOK
      <4>2. \E r \in {"next", "process", "write", "check", "return"} : pc' = [pc EXCEPT ![c] = r]
        BY <2>3 DEF ParseRequest, CloseAfterRead, ProcessRequest, CloseAfterWrite, CheckClose, Goto
      <4>3. QED
        BY <1>2, <4>1, <4>2
    <3>2. peer' = peer
      BY <2>3 DEF ParseRequest, CloseAfterRead, ProcessRequest, CloseAfterWrite, CheckClose
    <3>3. peer' = [peer EXCEPT ![c] = peer[c]] /\ peer[c] \in Clients \cup {None}
      BY <1>5, <3>2 DEF TypeOK
    <3>4. QED
      BY <3>1, <3>3
  <2>4. QED
    BY <2>1, <2>2, <2>3, Zenon
<1>7. /\ peer' \in [Clients -> Clients \cup {None}]
      /\ \A d \in Clients : pc'[d] \in {"read", "writing"} =>
            peer'[d] \in Clients /\ client_fd'[peer'[d]] # None /\ (Connected(d)' => peer'[d] = d)
  <2>0. /\ peer \in [Clients -> Clients \cup {None}] /\ pc \in [Clients -> Places]
        /\ peer' = [peer EXCEPT ![c] = r] /\ r \in Clients \cup {None}
    BY <1>5, <1>6 DEF TypeOK
  <2>1. /\ peer' \in [Clients -> Clients \cup {None}] /\ peer'[c] = r
        /\ pc'[c] = p /\ \A d \in Clients : d # c => peer'[d] = peer[d] /\ pc'[d] = pc[d]
    BY <1>2, <2>0
  <2>2. ASSUME NEW d \in Clients, pc'[d] \in {"read", "writing"}
        PROVE  peer'[d] \in Clients /\ client_fd'[peer'[d]] # None /\ (Connected(d)' => peer'[d] = d)
    <3>1. CASE d = c
      <4>1. p \in {"read", "writing"} /\ peer'[d] = r /\ client_fd' = client_fd
        BY <1>1, <2>1, <2>2, <3>1
      <4>2. r \in Clients /\ client_fd[r] # None /\ (Connected(c)' => r = c)
        BY <1>6, <4>1
      <4>3. QED
        BY <3>1, <4>1, <4>2
    <3>2. CASE d # c
      <4>1. pc[d] \in {"read", "writing"} /\ peer'[d] = peer[d] /\ client_fd' = client_fd
        BY <1>1, <2>1, <2>2, <3>2
      <4>2. /\ peer[d] \in Clients /\ client_fd[peer[d]] # None
            /\ Connected(d) => peer[d] = d
        BY <1>5, <4>1 DEF Bookkeeping, TypeOK, Peers
      <4>3. QED
        BY <1>3, <4>1, <4>2
    <3>3. QED
      BY <3>1, <3>2
  <2>3. QED
    BY <2>1, <2>2
<1>8. /\ inbox' \in [Clients -> Seq(Pieces)] /\ robbed' \subseteq Clients
      /\ buffer_' \in [Clients -> Seq(Pieces)] /\ req' \in [Clients -> Pieces \cup {None}]
  <2>1. CASE ParseRequest(c)
    <3> DEFINE b == buffer_[c]  e == HeaderEnd(b)
    <3>1. /\ req' = [req EXCEPT ![c] = b[e]] /\ e # 0
          /\ buffer_' = [buffer_ EXCEPT ![c] = SubSeq(b, e + 1, Len(b))]
          /\ UNCHANGED <<inbox, robbed>>
      BY <1>4, <1>5, <2>1 DEF ParseRequest, TypeOK, network
    <3>2. b \in Seq(Pieces)
      BY <1>5 DEF TypeOK
    <3>3. e \in 1..Len(b)
      BY <3>1, <3>2, HeaderEndIs
    <3>4. b[e] \in Pieces /\ SubSeq(b, e + 1, Len(b)) \in Seq(Pieces)
      <4> HIDE DEF b, e
      <4>1. QED
        BY <3>2, <3>3
    <3>5. QED
      BY <1>5, <3>1, <3>4 DEF TypeOK
  <2>2. CASE ReadData(c)
    <3> DEFINE d == peer[c]
    <3>1. PICK n \in 1..Len(inbox[d]) :
             /\ buffer_' = [buffer_ EXCEPT ![c] = @ \o SubSeq(inbox[d], 1, n)]
             /\ inbox' = [inbox EXCEPT ![d] = SubSeq(@, n + 1, Len(@))]
      BY <2>2 DEF ReadData
    <3>2. d \in Clients
      BY <1>5, <2>2 DEF ReadData, TypeOK
    <3>3. robbed' = robbed \cup ({d} \ {c}) /\ req' = req
      BY <2>2 DEF ReadData
    <3> HIDE DEF d
    <3>4. inbox[d] \in Seq(Pieces) /\ buffer_[c] \in Seq(Pieces)
      BY <1>5, <3>2 DEF TypeOK
    <3>5. SubSeq(inbox[d], n + 1, Len(inbox[d])) \in Seq(Pieces)
      BY <3>1, <3>4
    <3>6. buffer_[c] \o SubSeq(inbox[d], 1, n) \in Seq(Pieces)
      BY <3>1, <3>4
    <3>7. QED
      BY <1>5, <3>1, <3>2, <3>3, <3>5, <3>6 DEF TypeOK
  <2>3. CASE ~(ParseRequest(c) \/ ReadData(c))
    <3>1. req' = req \/ req' = [req EXCEPT ![c] = None]
      BY <2>3 DEF ReadCall, ReadEnds, CloseAfterRead, ProcessRequest,
         WriteCall, WriteResponse, WriteFails, CloseAfterWrite, CheckClose
    <3>2. QED
      BY <1>4, <1>5, <2>3, <3>1 DEF TypeOK
  <2>4. QED
    BY <2>1, <2>2, <2>3
<1>9. outbox' \in [Clients -> Seq([by : Clients, id : Nat])]
  <2>1. CASE WriteResponse(c)
    <3> DEFINE to == peer[c]
               response == [by |-> c, id |-> IF req[c] = None THEN 0 ELSE req[c].id]
    <3>1. to \in Clients
      BY <1>5, <2>1 DEF WriteResponse, TypeOK
    <3>2. response \in [by : Clients, id : Nat]
      BY <1>5 DEF TypeOK, Pieces
    <3>3. outbox' = [outbox EXCEPT ![to] = Append(@, response)]
      BY <2>1 DEF WriteResponse
    <3> HIDE DEF to, response
    <3>4. QED
      BY <1>5, <3>1, <3>2, <3>3 DEF TypeOK
  <2>2. CASE ~WriteResponse(c)
    BY <1>4, <1>5, <2>2 DEF TypeOK
  <2>3. QED
    BY <2>1, <2>2
<1>10. stop' \in [Clients -> BOOLEAN]
  <2>1. PICK b \in BOOLEAN : stop' = [stop EXCEPT ![c] = b] \/ stop' = stop
    <3>1. (stop[c] \/ WantsClose(req[c])) \in BOOLEAN
      BY DEF WantsClose
    <3>2. QED
      BY <3>1 DEF ParseRequest, ReadCall, ReadData, ReadEnds, CloseAfterRead, ProcessRequest,
         WriteCall, WriteResponse, WriteFails, CloseAfterWrite, CheckClose
  <2>2. QED
    BY <1>5, <2>1 DEF TypeOK
<1>11. TypeOK'
  BY <1>1, <1>3, <1>4, <1>5, <1>7, <1>8, <1>9, <1>10 DEF TypeOK
<1>12. Peers'
  BY <1>7 DEF Peers
<1>13. QED
  BY <1>3, <1>11, <1>12 DEF Bookkeeping

(* A task's last close() and its return to the pool. *)
LEMMA ReturnKeeps ==
    ASSUME Bookkeeping, NEW c \in Clients, TaskReturns(c)
    PROVE  Bookkeeping'
<1> USE DEF Bookkeeping
<1>1. /\ UNCHANGED <<client, inbox, asked, sent, stalled, robbed, outbox, main, hst, queue,
                     client_fd, peer, buffer_, req, stop>>
      /\ main # "returned" /\ pc[c] = "return" /\ pc' = [pc EXCEPT ![c] = "done"]
      /\ c \in active /\ active' = active \ {c} /\ done' = done \cup {c}
      /\ fdtab' = [fdtab EXCEPT ![client_fd[c]] = None]
  BY DEF TaskReturns, Running, network, Pool!Finish, CloseFd
<1>2. client_fd[c] \in Fds /\ fdtab[client_fd[c]] \in Clients \cup {None} /\ c # hst
  BY <1>1, NumberOfTask
<1>3. /\ pc \in [Clients -> Places] /\ fdtab \in [Fds -> Clients \cup {Listening, None}]
      /\ hst \in Clients \cup {None}
  BY DEF TypeOK
<1>4. /\ pc' \in [Clients -> Places] /\ pc'[c] = "done"
      /\ \A d \in Clients : d # c => pc'[d] = pc[d]
  BY <1>1, <1>3 DEF Places
<1>5. /\ fdtab' \in [Fds -> Clients \cup {Listening, None}]
      /\ fdtab'[client_fd[c]] = None
      /\ \A f \in Fds : f # client_fd[c] => fdtab'[f] = fdtab[f]
  BY <1>1, <1>2, <1>3
<1>6. TypeOK'
  <2>1. active' \subseteq Clients /\ done' \subseteq Clients
    BY <1>1 DEF TypeOK
  <2>2. \A d \in Clients : pc'[d] \in {"read", "writing"} => peer'[d] \in Clients
    BY <1>1, <1>4 DEF TypeOK
  <2>3. QED
    BY <1>1, <1>4, <1>5, <2>1, <2>2 DEF TypeOK
<1>7. InPool'
  BY <1>1, <1>4 DEF InPool
<1>8. Lifecycle'
  BY <1>1, <1>2, <1>3, <1>4 DEF Lifecycle
<1>9. Descriptors'
  <2>1. ASSUME NEW f \in Fds
        PROVE  /\ fdtab'[f] \in Clients => /\ client_fd'[fdtab'[f]] = f
                                           /\ pc'[fdtab'[f]] # "done"
               /\ fdtab'[f] = Listening => /\ main' \notin {"bind", "returned"}
                                           /\ \A d \in Clients : client_fd'[d] # f
    <3>1. CASE f = client_fd[c]
      BY <1>5, <3>1
    <3>2. CASE f # client_fd[c]
      <4>1. fdtab'[f] = fdtab[f]
        BY <1>5, <3>2
      <4>2. fdtab[f] \in Clients => fdtab[f] # c
        BY <3>2 DEF Descriptors
      <4>3. QED
        BY <1>1, <1>4, <4>1, <4>2 DEF Descriptors
    <3>3. QED
      BY <3>1, <3>2
  <2>2. QED
    BY <2>1 DEF Descriptors
<1>10. Peers'
  BY <1>1, <1>4, <1>5 DEF Peers, Connected
<1>11. QED
  BY <1>6, <1>7, <1>8, <1>9, <1>10

(* Who owns a descriptor, a place in the pool and a blocked read is kept   *)
(* right by every step of the server and its clients.                      *)
LEMMA BookkeepingStep == Bookkeeping /\ [Next]_vars => Bookkeeping'
<1> SUFFICES ASSUME Bookkeeping, [Next]_vars
             PROVE  Bookkeeping'
  OBVIOUS
<1>1. ASSUME NEW c \in Clients, Client(c)
      PROVE  Bookkeeping'
  BY <1>1, ClientKeeps
<1>2. ASSUME NEW c \in Clients, Accept(c)
      PROVE  Bookkeeping'
  BY <1>2, AcceptKeeps
<1>3. ASSUME NEW c \in Clients, AcceptExits(c) \/ ProcessThrows(c)
      PROVE  Bookkeeping'
  BY <1>3, MainKeeps
<1>4. ASSUME NEW c \in Clients, Task(c)
      PROVE  Bookkeeping'
  <2>1. CASE TaskReturns(c)
    BY <2>1, ReturnKeeps
  <2>2. CASE ~TaskReturns(c)
    BY <1>4, <2>2, TaskKeeps, Zenon DEF Task
  <2>3. QED
    BY <2>1, <2>2
<1>5. CASE BindAndListen \/ BindFails \/ AcceptFails \/ DrainPool \/ Return
  BY <1>5, MainKeeps
<1>6. CASE Dispatch \/ StartTask
  BY <1>6, DispatchKeeps
<1>7. CASE UNCHANGED vars
  BY <1>7 DEF vars, network, poolVars, taskVars, Bookkeeping, TypeOK, InPool, Lifecycle,
         Descriptors, Peers, Connected
<1>8. QED
  BY <1>1, <1>2, <1>3, <1>4, <1>5, <1>6, <1>7 DEF Next

(* The server starts with its books in order. *)
LEMMA BookkeepingInit == Init => Bookkeeping
<1> SUFFICES ASSUME Init
             PROVE  Bookkeeping
  OBVIOUS
<1> USE DEF Init, Pool!Init
<1>1. TypeOK
  BY DEF TypeOK, Places
<1>2. ToSet(queue) = {}
  BY DEF ToSet
<1>3. InPool
  BY <1>2 DEF InPool
<1>4. Lifecycle
  BY DEF Lifecycle
<1>5. Descriptors /\ Peers
  BY DEF Descriptors, Peers
<1>6. QED
  BY <1>1, <1>3, <1>4, <1>5 DEF Bookkeeping

(* What ownership says of leaks and of the end of Run. *)
LEMMA BooksBalance == Bookkeeping => NoLeak /\ CleanReturn
<1> SUFFICES ASSUME Bookkeeping
             PROVE  NoLeak /\ CleanReturn
  OBVIOUS
<1>1. NoLeak
  BY DEF NoLeak, Bookkeeping, TypeOK, InPool, Lifecycle, Descriptors
<1>2. ASSUME main = "returned"
      PROVE  /\ \A c \in Clients : client_fd[c] # None => pc[c] = "done"
             /\ FreeFds = Fds
  <2>1. queue = <<>> /\ active = {} /\ hst = None
    BY <1>2 DEF Bookkeeping, Lifecycle
  <2>2. ToSet(queue) = {}
    BY <2>1 DEF ToSet
  <2>3. \A c \in Clients : client_fd[c] # None => pc[c] = "done"
    BY <2>1, <2>2 DEF Bookkeeping, InPool, Lifecycle
  <2>4. ASSUME NEW f \in Fds
        PROVE  fdtab[f] \notin Clients /\ fdtab[f] # Listening
    <3>1. fdtab[f] \in Clients => client_fd[fdtab[f]] = f /\ pc[fdtab[f]] # "done"
      BY DEF Bookkeeping, Descriptors
    <3>2. fdtab[f] # Listening
      BY <1>2 DEF Bookkeeping, Descriptors
    <3>3. QED
      BY <2>3, <3>1, <3>2
  <2>5. FreeFds = Fds
    BY <2>4 DEF FreeFds, Bookkeeping, TypeOK
  <2>6. QED
    BY <2>3, <2>5
<1>3. QED
  BY <1>1, <1>2 DEF CleanReturn

(* The server owns what it should in every state: its descriptors, places  *)
(* in the pool and blocked reads are accounted for.                        *)
THEOREM BooksAlwaysBalance == Spec => []Bookkeeping
  BY BookkeepingInit, BookkeepingStep, PTL DEF Spec

(* No descriptor leaks: an open connection is about to be dispatched or    *)
(* belongs to a task that has still to close it, whatever numbers tasks    *)
(* close twice and whomever the kernel gives them to in between.           *)
THEOREM NoLeaks == Spec => []NoLeak
  BY BooksAlwaysBalance, BooksBalance, PTL

(* A Run that returns has served every connection it accepted to its end,  *)
(* and has left no descriptor open.                                        *)
THEOREM ReturnsClean == Spec => []CleanReturn
  BY BooksAlwaysBalance, BooksBalance, PTL

-----------------------------------------------------------------------------
(* What a stream of pieces holds. *)

(* A piece that ends no header adds no request. *)
LEMMA FitsPart ==
    ASSUME NEW str \in Seq(Pieces), NEW n \in Nat, NEW R \in Seq(Pieces), NEW x \in Pieces,
           Fits(str, n, R), ~EndsHeader(x)
    PROVE  Fits(Append(str, x), n, R)
<1> DEFINE t == Append(str, x)
<1>1. /\ DOMAIN t = 1..(Len(str) + 1) /\ DOMAIN str = 1..Len(str) /\ Len(str) \in Nat
      /\ t[Len(str) + 1] = x /\ \A k \in DOMAIN str : t[k] = str[k]
  OBVIOUS
<1> HIDE DEF t
<1>2. \A k \in DOMAIN t : EndsHeader(t[k]) => k \in DOMAIN str /\ t[k] = str[k]
  BY <1>1
<1>3. \A k \in DOMAIN str : k \in DOMAIN t /\ t[k] = str[k]
  BY <1>1
<1>4. QED
  BY <1>2, <1>3, SMTT(30) DEF Fits, t

(* A piece that ends one adds the next request. *)
LEMMA FitsRequest ==
    ASSUME NEW str \in Seq(Pieces), NEW n \in Nat, NEW R \in Seq(Pieces), NEW x \in Pieces,
           Fits(str, n, R), n <= Len(R), x.id = Len(R) + 1
    PROVE  Fits(Append(str, x), n, Append(R, x))
<1> DEFINE t == Append(str, x)  Q == Append(R, x)  l == Len(str)  m == Len(R)
<1>1. /\ DOMAIN t = 1..(l + 1) /\ DOMAIN str = 1..l /\ l \in Nat /\ m \in Nat
      /\ t[l + 1] = x /\ \A k \in 1..l : t[k] = str[k]
      /\ Len(Q) = m + 1 /\ Q[m + 1] = x /\ \A i \in 1..m : Q[i] = R[i]
  OBVIOUS
<1>2. /\ \A k \in 1..l : EndsHeader(str[k]) =>
            str[k].id \in (n + 1)..m /\ str[k] = R[str[k].id]
      /\ \A j, k \in 1..l :
            j < k /\ EndsHeader(str[j]) /\ EndsHeader(str[k]) => str[j].id < str[k].id
      /\ \A i \in (n + 1)..m : \E k \in 1..l : str[k] = R[i]
  BY <1>1, Zenon DEF Fits
<1>3. n <= m /\ x.id = m + 1
  OBVIOUS
<1> HIDE DEF t, Q, l, m
<1>4. ASSUME NEW k \in 1..(l + 1), EndsHeader(t[k])
      PROVE  t[k].id \in (n + 1)..(m + 1) /\ t[k] = Q[t[k].id]
  <2>1. CASE k = l + 1
    BY <1>1, <1>3, <2>1
  <2>2. CASE k \in 1..l
    <3>1. t[k].id \in (n + 1)..m /\ t[k] = R[t[k].id]
      BY <1>1, <1>2, <1>4, <2>2
    <3>2. t[k].id \in 1..m
      BY <1>1, <3>1
    <3>3. QED
      BY <1>1, <3>1, <3>2
  <2>3. QED
    BY <1>1, <2>1, <2>2
<1>5. ASSUME NEW j \in 1..(l + 1), NEW k \in 1..(l + 1), j < k,
             EndsHeader(t[j]), EndsHeader(t[k])
      PROVE  t[j].id < t[k].id
  <2>1. j \in 1..l /\ t[j] = str[j]
    BY <1>1, <1>5
  <2>2. CASE k = l + 1
    <3>1. t[j].id \in (n + 1)..m
      BY <1>2, <1>5, <2>1
    <3>2. QED
      BY <1>1, <1>3, <2>2, <3>1
  <2>3. CASE k \in 1..l
    BY <1>1, <1>2, <1>5, <2>1, <2>3
  <2>4. QED
    BY <1>1, <2>2, <2>3
<1>6. ASSUME NEW i \in (n + 1)..(m + 1)
      PROVE  \E k \in 1..(l + 1) : t[k] = Q[i]
  <2>1. CASE i = m + 1
    BY <1>1, <2>1
  <2>2. CASE i \in (n + 1)..m
    <3>1. PICK k \in 1..l : str[k] = R[i]
      BY <1>2, <2>2
    <3>2. k \in 1..(l + 1) /\ t[k] = str[k] /\ i \in 1..m
      BY <1>1, <2>2
    <3>3. Q[i] = R[i]
      BY <1>1, <3>2
    <3>4. QED
      BY <3>1, <3>2, <3>3
  <2>3. QED
    BY <1>1, <2>1, <2>2
<1>7. Fits(t, n, Q)
  BY <1>1, <1>4, <1>5, <1>6 DEF Fits
<1>8. QED
  BY <1>7 DEF t, Q

(* The first piece that ends a header is the next request, and the rest of *)
(* the stream holds those after it.                                        *)
LEMMA FitsParsed ==
    ASSUME NEW str \in Seq(Pieces), NEW n \in Nat, NEW R \in Seq(Pieces), NEW q \in 1..Len(str),
           Fits(str, n, R), EndsHeader(str[q]),
           \A k \in 1..Len(str) : k < q => ~EndsHeader(str[k]),
           \A i \in 1..Len(R) : EndsHeader(R[i]) /\ R[i].id = i
    PROVE  /\ n + 1 \in 1..Len(R) /\ str[q] = R[n + 1]
           /\ Fits(SubSeq(str, q + 1, Len(str)), n + 1, R)
<1> DEFINE t == SubSeq(str, q + 1, Len(str))  l == Len(str)  m == Len(R)
<1>1. /\ l \in Nat /\ m \in Nat /\ q \in 1..l /\ DOMAIN str = 1..l
      /\ DOMAIN t = 1..(l - q) /\ \A k \in 1..(l - q) : t[k] = str[k + q]
  OBVIOUS
<1>2. /\ \A k \in 1..l : EndsHeader(str[k]) =>
            str[k].id \in (n + 1)..m /\ str[k] = R[str[k].id]
      /\ \A j, k \in 1..l :
            j < k /\ EndsHeader(str[j]) /\ EndsHeader(str[k]) => str[j].id < str[k].id
      /\ \A i \in (n + 1)..m : \E k \in 1..l : str[k] = R[i]
  BY <1>1, Zenon DEF Fits
<1>3. /\ \A k \in 1..l : k < q => ~EndsHeader(str[k])
      /\ \A i \in 1..m : EndsHeader(R[i]) /\ R[i].id = i
  OBVIOUS
<1> HIDE DEF t, l, m
<1>4. str[q].id \in (n + 1)..m /\ str[q] = R[str[q].id]
  BY <1>1, <1>2
<1>5. n + 1 \in (n + 1)..m /\ n + 1 \in 1..m
  BY <1>1, <1>4
<1>6. str[q].id = n + 1
  <2>1. PICK k \in 1..l : str[k] = R[n + 1]
    BY <1>2, <1>5
  <2>2. EndsHeader(str[k]) /\ str[k].id = n + 1
    BY <1>3, <1>5, <2>1
  <2>3. ~(k < q)
    BY <1>3, <2>2
  <2>4. ~(q < k)
    <3>1. ASSUME q < k
          PROVE  str[q].id < n + 1
      BY <1>1, <1>2, <2>2, <3>1
    <3>2. QED
      BY <1>1, <1>4, <3>1
  <2>5. k = q
    BY <1>1, <2>3, <2>4
  <2>6. QED
    BY <2>2, <2>5
<1>7. str[q] = R[n + 1]
  BY <1>4, <1>6
<1>8. ASSUME NEW k \in 1..(l - q), EndsHeader(t[k])
      PROVE  t[k].id \in (n + 1 + 1)..m /\ t[k] = R[t[k].id]
  <2>1. k + q \in 1..l /\ q < k + q /\ t[k] = str[k + q]
    BY <1>1
  <2>2. str[q].id < str[k + q].id
    BY <1>1, <1>2, <1>8, <2>1
  <2>3. str[k + q].id \in (n + 1)..m /\ str[k + q] = R[str[k + q].id]
    BY <1>2, <1>8, <2>1
  <2>4. str[k + q].id \in (n + 1 + 1)..m
    BY <1>1, <1>6, <2>2, <2>3
  <2>5. QED
    BY <2>1, <2>3, <2>4
<1>9. ASSUME NEW j \in 1..(l - q), NEW k \in 1..(l - q), j < k,
             EndsHeader(t[j]), EndsHeader(t[k])
      PROVE  t[j].id < t[k].id
  <2>1. /\ j + q \in 1..l /\ k + q \in 1..l /\ j + q < k + q
        /\ t[j] = str[j + q] /\ t[k] = str[k + q]
    BY <1>1, <1>9
  <2>2. QED
    BY <1>2, <1>9, <2>1
<1>10. ASSUME NEW i \in (n + 1 + 1)..m
       PROVE  \E k \in 1..(l - q) : t[k] = R[i]
  <2>1. i \in (n + 1)..m /\ i \in 1..m /\ i # n + 1
    BY <1>1
  <2>2. PICK k \in 1..l : str[k] = R[i]
    BY <1>2, <2>1
  <2>3. EndsHeader(str[k]) /\ str[k].id = i
    BY <1>3, <2>1, <2>2
  <2>4. ~(k < q) /\ k # q
    BY <1>3, <1>6, <2>1, <2>3
  <2>5. k - q \in 1..(l - q) /\ (k - q) + q = k
    BY <1>1, <2>4
  <2>6. t[k - q] = str[k]
    BY <1>1, <2>5
  <2>7. QED
    BY <2>2, <2>5, <2>6
<1>11. Fits(t, n + 1, R)
  <2> DEFINE n1 == n + 1
  <2>1. DOMAIN t = 1..(l - q) /\ Len(R) = m
    BY <1>1 DEF m
  <2>2. /\ \A k \in 1..(l - q) : EndsHeader(t[k]) =>
              t[k].id \in (n1 + 1)..m /\ t[k] = R[t[k].id]
        /\ \A j, k \in 1..(l - q) :
              j < k /\ EndsHeader(t[j]) /\ EndsHeader(t[k]) => t[j].id < t[k].id
        /\ \A i \in (n1 + 1)..m : \E k \in 1..(l - q) : t[k] = R[i]
    BY <1>8, <1>9, <1>10
  <2> HIDE DEF n1
  <2>3. Fits(t, n1, R)
    BY <2>1, <2>2, Zenon DEF Fits
  <2>4. QED
    BY <2>3 DEF n1
<1>12. QED
  BY <1>5, <1>7, <1>11 DEF t, l, m

(* A piece that arrives is the last of the stream. *)
LEMMA StreamSend ==
    ASSUME NEW b \in Seq(Pieces), NEW i \in Seq(Pieces), NEW x \in Pieces
    PROVE  b \o Append(i, x) = Append(b \o i, x)
<1> DEFINE s == b \o Append(i, x)  t == Append(b \o i, x)
<1>1. s \in Seq(Pieces) /\ t \in Seq(Pieces) /\ Len(s) = Len(t)
  OBVIOUS
<1>2. ASSUME NEW k \in 1..Len(s)
      PROVE  s[k] = t[k]
  OBVIOUS
<1> HIDE DEF s, t
<1>3. s = t
  BY <1>1, <1>2, SeqEqual, Zenon
<1>4. QED
  BY <1>3 DEF s, t

(* read() moves pieces from the inbox to the buffer and keeps the stream. *)
LEMMA StreamRead ==
    ASSUME NEW b \in Seq(Pieces), NEW i \in Seq(Pieces), NEW n \in 1..Len(i)
    PROVE  (b \o SubSeq(i, 1, n)) \o SubSeq(i, n + 1, Len(i)) = b \o i
<1> DEFINE x == SubSeq(i, 1, n)  y == SubSeq(i, n + 1, Len(i))  m == 1
<1>1. /\ m \in 1..(Len(i) + 1) /\ n \in (m - 1)..Len(i) /\ Len(i) \in n..Len(i)
  OBVIOUS
<1>2. x \o y = SubSeq(i, 1, Len(i))
  <2> HIDE DEF m
  <2>1. SubSeq(i, m, n) \o SubSeq(i, n + 1, Len(i)) = SubSeq(i, m, Len(i))
    BY <1>1, ConcatAdjacentSubSeq, Zenon
  <2>2. QED
    BY <2>1 DEF m
<1>3. SubSeq(i, 1, Len(i)) = i
  BY SubSeqFull, Zenon
<1>6. x \in Seq(Pieces) /\ y \in Seq(Pieces)
  OBVIOUS
<1> HIDE DEF x, y
<1>4. (b \o x) \o y = b \o (x \o y)
  BY <1>6, ConcatAssociative, SMTT(30)
<1>5. QED
  BY <1>2, <1>3, <1>4 DEF x, y

(* What is left when a request is taken out of the buffer. *)
LEMMA StreamParse ==
    ASSUME NEW b \in Seq(Pieces), NEW i \in Seq(Pieces), NEW q \in 1..Len(b)
    PROVE  /\ b \o i \in Seq(Pieces) /\ q \in 1..Len(b \o i)
           /\ \A k \in 1..Len(b) : (b \o i)[k] = b[k]
           /\ SubSeq(b, q + 1, Len(b)) \o i = SubSeq(b \o i, q + 1, Len(b \o i))
<1> DEFINE u == b \o i  x == SubSeq(b, q + 1, Len(b))
           s == x \o i  t == SubSeq(u, q + 1, Len(u))
<1>1. /\ u \in Seq(Pieces) /\ Len(u) = Len(b) + Len(i)
      /\ \A k \in 1..Len(b) : u[k] = b[k]
      /\ \A k \in 1..Len(i) : u[Len(b) + k] = i[k]
  OBVIOUS
<1>9. x \in Seq(Pieces) /\ Len(x) = Len(b) - q /\ \A k \in 1..(Len(b) - q) : x[k] = b[k + q]
  OBVIOUS
<1>2. Len(b) \in Nat /\ Len(i) \in Nat
  OBVIOUS
<1> HIDE DEF u, x
<1>3. /\ s \in Seq(Pieces) /\ Len(s) = Len(x) + Len(i)
      /\ \A k \in 1..(Len(x) + Len(i)) : s[k] = IF k <= Len(x) THEN x[k] ELSE i[k - Len(x)]
  BY <1>9, ConcatProperties, ZenonT(40)
<1>4. /\ t \in Seq(Pieces) /\ Len(t) = Len(b) - q + Len(i)
      /\ \A k \in 1..Len(t) : t[k] = u[k + q]
  BY <1>1, <1>9
<1> HIDE DEF s, t
<1>5. ASSUME NEW k \in 1..Len(s)
      PROVE  s[k] = t[k]
  <2>1. t[k] = u[k + q] /\ k \in 1..(Len(x) + Len(i))
    BY <1>2, <1>3, <1>4, <1>9
  <2>2. CASE k <= Len(x)
    <3>1. k \in 1..(Len(b) - q) /\ k + q \in 1..Len(b)
      BY <1>2, <1>9, <2>1, <2>2
    <3>2. s[k] = x[k]
      BY <1>3, <2>1, <2>2
    <3>3. QED
      BY <1>1, <1>9, <2>1, <3>1, <3>2
  <2>3. CASE k > Len(x)
    <3> DEFINE j == k - Len(x)
    <3>1. j \in 1..Len(i) /\ k + q = Len(b) + j
      BY <1>1, <1>2, <1>3, <1>9, <2>3
    <3>2. s[k] = i[j]
      BY <1>2, <1>3, <1>9, <2>1, <2>3
    <3> HIDE DEF j
    <3>3. QED
      BY <1>1, <2>1, <3>1, <3>2
  <2>4. QED
    BY <1>1, <1>2, <1>3, <1>9, <2>2, <2>3
<1>6. s = t
  <2>1. Len(s) = Len(t)
    BY <1>2, <1>3, <1>4, <1>9
  <2>2. QED
    BY <1>3, <1>4, <1>5, <2>1, SeqEqual, Zenon
<1>7. q \in 1..Len(u)
  BY <1>1, <1>2
<1>8. QED
  BY <1>1, <1>6, <1>7 DEF u, x, s, t

-----------------------------------------------------------------------------
(* One client's part of the invariant. *)

(* What it has asked and been sent, and that answers are in order unless   *)
(* the connection was disturbed.                                           *)
Kept(c) ==
    /\ \A i \in DOMAIN asked[c] : EndsHeader(asked[c][i]) /\ asked[c][i].id = i
    /\ client_fd[c] = None =>
          inbox[c] = <<>> /\ buffer_[c] = <<>> /\ outbox[c] = <<>> /\ asked[c] = <<>>
    /\ Served(c) /\ Undisturbed(c) => InOrder(c)
    /\ Undisturbed(c) => Answered(c)

(* The invariant, client by client. *)
LEMMA IInvByClient == IInv <=> Bookkeeping /\ \A c \in Clients : Kept(c)
  BY DEF IInv, Numbered, Untouched, InService, AnswersInOrder, Kept

(* What a client's sequences hold, and that requests can be counted. *)
LEMMA ClientSequences ==
    ASSUME TypeOK, NEW c \in Clients
    PROVE  /\ inbox[c] \in Seq(Pieces) /\ buffer_[c] \in Seq(Pieces) /\ asked[c] \in Seq(Pieces)
           /\ Stream(c) \in Seq(Pieces)
           /\ Len(outbox[c]) \in Nat /\ DOMAIN outbox[c] = 1..Len(outbox[c])
           /\ Parsed(c) = IF pc[c] \in Serving THEN Len(outbox[c]) + 1 ELSE Len(outbox[c])
           /\ Parsed(c) \in Nat
<1>1. inbox[c] \in Seq(Pieces) /\ buffer_[c] \in Seq(Pieces) /\ asked[c] \in Seq(Pieces)
  BY DEF TypeOK
<1>2. Stream(c) \in Seq(Pieces)
  BY <1>1 DEF Stream
<1>3. Len(outbox[c]) \in Nat /\ DOMAIN outbox[c] = 1..Len(outbox[c])
  <2> DEFINE A == [by : Clients, id : Nat]
  <2>1. outbox[c] \in Seq(A)
    BY DEF TypeOK
  <2> HIDE DEF A
  <2>2. QED
    BY <2>1
<1>4. Parsed(c) = IF pc[c] \in Serving THEN Len(outbox[c]) + 1 ELSE Len(outbox[c])
  <2>1. CASE pc[c] \in Serving
    BY <1>3, <2>1 DEF Parsed
  <2>2. CASE pc[c] \notin Serving
    BY <1>3, <2>2 DEF Parsed
  <2>3. QED
    BY <2>1, <2>2
<1>5. Parsed(c) \in Nat
  BY <1>3, <1>4
<1>6. QED
  BY <1>1, <1>2, <1>3, <1>4, <1>5

(* A step that leaves a client's stream and answers alone, and moves its   *)
(* task at most within a request or between requests.                      *)
LEMMA Bystander ==
    ASSUME NEW c \in Clients, Kept(c),
           client_fd'[c] = None => client_fd[c] = None,
           Served(c)' => Served(c),
           inbox'[c] = inbox[c], asked'[c] = asked[c], outbox'[c] = outbox[c],
           buffer_'[c] = buffer_[c], req'[c] = req[c],
           pc'[c] \in Serving <=> pc[c] \in Serving, pc'[c] = "check" <=> pc[c] = "check",
           robbed \subseteq robbed'
    PROVE  Kept(c)'
<1>1. Undisturbed(c)' => Undisturbed(c)
  BY DEF Undisturbed, OwnAnswers
<1>2. Parsed(c)' = Parsed(c) /\ Stream(c)' = Stream(c)
  BY DEF Parsed, Stream
<1>3. pc'[c] \in Serving \cup {"check"} <=> pc[c] \in Serving \cup {"check"}
  OBVIOUS
<1>4. InOrder(c) => InOrder(c)'
  BY <1>2, <1>3 DEF InOrder
<1>5. Answered(c) => Answered(c)'
  BY DEF Answered
<1>6. QED
  BY <1>1, <1>4, <1>5 DEF Kept

(* A step after which a client's connection is closed, or not its own      *)
(* any more.                                                               *)
LEMMA Leaver ==
    ASSUME NEW c \in Clients, Kept(c), client_fd'[c] # None, asked'[c] = asked[c],
           (~Served(c)' /\ outbox'[c] = outbox[c]) \/ ~Undisturbed(c)',
           robbed \subseteq robbed'
    PROVE  Kept(c)'
<1>1. CASE ~Undisturbed(c)'
  BY <1>1 DEF Kept
<1>2. CASE ~Served(c)' /\ outbox'[c] = outbox[c]
  <2>1. Undisturbed(c)' => Undisturbed(c)
    BY <1>2 DEF Undisturbed, OwnAnswers
  <2>2. Answered(c) => Answered(c)'
    BY <1>2 DEF Answered
  <2>3. QED
    BY <1>2, <2>1, <2>2 DEF Kept
<1>3. QED
  BY <1>1, <1>2

(* A client's own step. *)
LEMMA ClientOrder ==
    ASSUME IInv, NEW c \in Clients, Client(c), NEW d \in Clients
    PROVE  Kept(d)'
<1>1. Bookkeeping /\ TypeOK /\ Kept(d)
  BY IInvByClient DEF Bookkeeping
<1>2. UNCHANGED <<outbox, fdtab, pc, peer, client_fd, buffer_, req, robbed>>
  BY DEF Client, Connect, Stall, Send, HangUp, taskVars
<1>3. Served(d)' <=> Served(d)
  BY <1>2 DEF Served, Connected
<1>4. CASE inbox'[d] = inbox[d] /\ asked'[d] = asked[d]
  BY <1>1, <1>2, <1>3, <1>4, Bystander
<1>5. ASSUME NEW kind \in Kinds, Send(d, kind)
      PROVE  Kept(d)'
  <2>1. PICK piece \in Pieces : Sends(d, piece)
    BY <1>1, <1>5, SendIs
  <2> DEFINE R == asked[d]  str == Stream(d)
             R1 == IF EndsHeader(piece) THEN Append(R, piece) ELSE R
  <2>2. /\ inbox'[d] = Append(inbox[d], piece) /\ asked'[d] = R1
        /\ EndsHeader(piece) => piece.id = Len(R) + 1
    BY <1>1, <2>1 DEF Sends, TypeOK
  <2>3. /\ inbox[d] \in Seq(Pieces) /\ buffer_[d] \in Seq(Pieces) /\ R \in Seq(Pieces)
        /\ Len(outbox[d]) \in Nat /\ DOMAIN outbox[d] = 1..Len(outbox[d])
    BY <1>1, ClientSequences
  <2>4. client_fd'[d] # None
    BY <1>1, <1>2, <1>5 DEF Send, Bookkeeping, Lifecycle
  <2>5. str \in Seq(Pieces)
    BY <1>1, ClientSequences
  <2>6. Stream(d)' = Append(str, piece)
    <3>1. buffer_[d] \in Seq(Pieces) /\ inbox[d] \in Seq(Pieces) /\ piece \in Pieces
      BY <2>1, <2>3
    <3>2. buffer_[d] \o Append(inbox[d], piece) = Append(buffer_[d] \o inbox[d], piece)
      BY <3>1, StreamSend
    <3>3. QED
      BY <1>2, <2>2, <3>2 DEF Stream
  <2>7. Parsed(d)' = Parsed(d) /\ Parsed(d) \in Nat
    <3>1. Parsed(d) \in Nat
      BY <1>1, ClientSequences
    <3>2. QED
      BY <1>2, <3>1 DEF Parsed
  <2>8. Undisturbed(d)' <=> Undisturbed(d)
    BY <1>2 DEF Undisturbed, OwnAnswers
  <2> HIDE DEF str
  <2>9. /\ R1 \in Seq(Pieces) /\ Len(R) <= Len(R1) /\ \A i \in 1..Len(R) : R1[i] = R[i]
        /\ Len(R) \in Nat /\ Len(R1) \in Nat
        /\ \A i \in 1..Len(R1) : \/ i \in 1..Len(R)
                                 \/ i = Len(R) + 1 /\ R1[i] = piece /\ EndsHeader(piece)
    <3> HIDE DEF R
    <3>1. CASE EndsHeader(piece)
      BY <2>1, <2>3, <3>1
    <3>2. CASE ~EndsHeader(piece)
      BY <2>1, <2>3, <3>2
    <3>3. QED
      BY <3>1, <3>2
  <2>10. \A i \in DOMAIN R1 : EndsHeader(R1[i]) /\ R1[i].id = i
    <3>1. \A i \in 1..Len(R) : EndsHeader(R[i]) /\ R[i].id = i
      BY <1>1, <2>3 DEF Kept
    <3>2. DOMAIN R1 = 1..Len(R1)
      BY <2>9
    <3>3. QED
      BY <2>2, <2>9, <3>1, <3>2
  <2>11. ASSUME Answered(d)
         PROVE  Answered(d)'
    <3>1. Len(outbox[d]) <= Len(R)
      BY <2>3, <2>11 DEF Answered
    <3>2. \A i \in DOMAIN outbox[d] : R1[i] = R[i]
      BY <2>3, <2>9, <3>1
    <3>3. Len(outbox[d]) <= Len(R1)
      BY <2>3, <2>9, <3>1
    <3> HIDE DEF R1
    <3>4. QED
      BY <1>2, <2>2, <2>11, <3>2, <3>3 DEF Answered
  <2>12. ASSUME InOrder(d)
         PROVE  InOrder(d)'
    <3> DEFINE n == Parsed(d)
    <3>1. n <= Len(R) /\ n \in Nat /\ Fits(str, n, R)
      BY <2>7, <2>12 DEF InOrder, str
    <3> HIDE DEF n
    <3>2. Fits(Append(str, piece), n, R1)
      <4>1. CASE EndsHeader(piece)
        BY <2>1, <2>2, <2>3, <2>5, <3>1, <4>1, FitsRequest
      <4>2. CASE ~EndsHeader(piece)
        BY <2>1, <2>3, <2>5, <3>1, <4>2, FitsPart
      <4>3. QED
        BY <4>1, <4>2
    <3> HIDE DEF R1
    <3>3. n <= Len(R1) /\ \A i \in 1..n : R1[i] = R[i]
      BY <2>9, <3>1
    <3>4. /\ Parsed(d) = n /\ Parsed(d)' = n /\ Stream(d)' = Append(str, piece)
          /\ asked'[d] = R1 /\ pc'[d] = pc[d] /\ req'[d] = req[d]
      BY <1>2, <2>2, <2>6, <2>7 DEF n
    <3>5. DOMAIN R = 1..Len(R) /\ DOMAIN R1 = 1..Len(R1)
      BY <2>3, <2>9
    <3>6. pc[d] \in Serving \cup {"check"} => n \in DOMAIN R /\ req[d] = R[n]
      BY <2>12, <3>4 DEF InOrder
    <3>7. pc[d] \in Serving \cup {"check"} => n \in DOMAIN R1 /\ req[d] = R1[n]
      BY <2>9, <3>3, <3>5, <3>6
    <3>8. \A i \in 1..n : WantsClose(R1[i]) => i = n /\ pc[d] \in Serving \cup {"check"}
      BY <2>12, <3>3, <3>4 DEF InOrder
    <3>9. QED
      BY <3>2, <3>3, <3>4, <3>7, <3>8 DEF InOrder
  <2>13. QED
    BY <1>1, <1>3, <2>2, <2>4, <2>8, <2>10, <2>11, <2>12 DEF Kept
<1>6. QED
  <2>1. CASE UNCHANGED <<inbox, asked>>
    BY <1>4, <2>1
  <2>2. ASSUME NEW kind \in Kinds, Send(c, kind), d # c
        PROVE  inbox'[d] = inbox[d] /\ asked'[d] = asked[d]
    <3>1. PICK piece \in Pieces : Sends(c, piece)
      BY <1>1, <2>2, SendIs
    <3>2. QED
      BY <1>1, <2>2, <3>1 DEF Sends, TypeOK
  <2>3. QED
    BY <1>4, <1>5, <2>1, <2>2 DEF Client, Connect, Stall, HangUp

(* The main thread's and the pool's steps but for accept() leave streams   *)
(* and answers alone.                                                      *)
LEMMA MainOrder ==
    ASSUME IInv, NEW d \in Clients,
           BindAndListen \/ BindFails \/ AcceptFails \/ Return \/ DrainPool
             \/ (\E c \in Clients : AcceptExits(c) \/ ProcessThrows(c))
             \/ Dispatch \/ StartTask
    PROVE  Kept(d)'
<1>1. Bookkeeping /\ TypeOK /\ Kept(d)
  BY IInvByClient DEF Bookkeeping
<1>2. UNCHANGED <<client_fd, peer, inbox, asked, outbox, buffer_, req, robbed>>
  BY DEF BindAndListen, BindFails, AcceptFails, Return, DrainPool, AcceptExits, ProcessThrows,
         Dispatch, StartTask, network, taskVars
<1>3. Connected(d)' => Connected(d)
  <2>1. CASE BindAndListen
    <3>1. client_fd[d] = None
      BY <1>1, <2>1 DEF BindAndListen, Bookkeeping, Lifecycle
    <3>2. QED
      BY <1>2, <3>1 DEF Connected
  <2>2. CASE Return
    BY <1>1, <1>2, <2>2 DEF Return, Connected
  <2>3. CASE UNCHANGED fdtab
    BY <1>2, <2>3 DEF Connected
  <2>4. QED
    BY <2>1, <2>2, <2>3 DEF BindFails, AcceptFails, DrainPool, AcceptExits, ProcessThrows,
         Dispatch, StartTask
<1>4. \/ pc'[d] = pc[d]
      \/ /\ pc[d] \in {"none", "queued"}
         /\ pc'[d] \in {"queued", "next"}
  <2>1. CASE UNCHANGED pc
    BY <2>1
  <2>2. CASE Dispatch
    <3>1. hst \in Clients /\ pc[hst] = "none" /\ pc' = [pc EXCEPT ![hst] = "queued"]
      BY <1>1, <2>2 DEF Dispatch, Bookkeeping, Lifecycle, TypeOK
    <3>2. QED
      BY <1>1, <3>1 DEF TypeOK
  <2>3. CASE StartTask
    <3>1. /\ queue \in Seq(Clients) /\ queue # <<>> /\ pc' = [pc EXCEPT ![Head(queue)] = "next"]
          /\ \A j, k \in DOMAIN queue : queue[j] = queue[k] => j = k
      BY <1>1, <2>3 DEF StartTask, Pool!Start, Bookkeeping, Lifecycle, TypeOK
    <3>2. Head(queue) \in Clients /\ Head(queue) \in ToSet(queue)
      BY <3>1, QueueTail
    <3>3. pc[Head(queue)] = "queued"
      BY <1>1, <3>2 DEF Bookkeeping, InPool
    <3>4. QED
      BY <1>1, <3>1, <3>2, <3>3 DEF TypeOK
  <2>4. QED
    BY <2>1, <2>2, <2>3 DEF BindAndListen, BindFails, AcceptFails, Return, DrainPool,
         AcceptExits, ProcessThrows, taskVars
<1>5. (pc'[d] \in Serving <=> pc[d] \in Serving) /\ (pc'[d] = "check" <=> pc[d] = "check")
  BY <1>4 DEF Serving
<1>6. Served(d)' => Served(d)
  BY <1>2, <1>3, <1>4 DEF Served
<1>7. QED
  BY <1>1, <1>2, <1>5, <1>6, Bystander

(* A new connection has no history. *)
LEMMA AcceptOrder ==
    ASSUME IInv, NEW c \in Clients, Accept(c), NEW d \in Clients
    PROVE  Kept(d)'
<1> DEFINE f0 == LowestFree
<1>1. Bookkeeping /\ TypeOK /\ Kept(d)
  BY IInvByClient DEF Bookkeeping
<1>2. /\ UNCHANGED <<inbox, asked, outbox, buffer_, req, robbed, pc, peer>>
      /\ client_fd' = [client_fd EXCEPT ![c] = f0]
      /\ fdtab' = [fdtab EXCEPT ![f0] = c]
  BY DEF Accept
<1>3. f0 \in Fds
  BY LowestFreeIsFree DEF Accept
<1>4. client_fd[c] = None /\ pc[c] = "none"
  BY <1>1 DEF Accept, Bookkeeping, Lifecycle
<1> HIDE DEF f0
<1>5. CASE d # c
  <2>1. client_fd'[d] = client_fd[d]
    BY <1>1, <1>2, <1>5 DEF TypeOK
  <2>2. Connected(d)' => Connected(d)
    BY <1>1, <1>2, <1>3, <1>5, <2>1 DEF Connected, TypeOK
  <2>3. Served(d)' => Served(d)
    BY <1>2, <2>2 DEF Served
  <2>4. QED
    BY <1>1, <1>2, <2>1, <2>3, Bystander
<1>6. CASE d = c
  <2>1. inbox[d] = <<>> /\ buffer_[d] = <<>> /\ outbox[d] = <<>> /\ asked[d] = <<>>
    BY <1>1, <1>4, <1>6 DEF Kept
  <2>2. client_fd'[d] # None
    BY <1>1, <1>2, <1>3, <1>6 DEF TypeOK
  <2>3. Stream(d)' = <<>> /\ Parsed(d)' = 0
    BY <1>2, <1>4, <1>6, <2>1 DEF Stream, Parsed, Serving
  <2>4. Fits(<<>>, 0, <<>>)
    BY DEF Fits
  <2>5. InOrder(d)'
    BY <1>2, <1>4, <1>6, <2>1, <2>3, <2>4 DEF InOrder, Serving
  <2>6. Answered(d)'
    BY <1>2, <2>1 DEF Answered
  <2>7. QED
    BY <1>2, <2>1, <2>2, <2>5, <2>6 DEF Kept
<1>7. QED
  BY <1>5, <1>6

(* A task's step and a client whose connection the task neither reads from *)
(* nor writes to.                                                          *)
LEMMA TaskElsewhere ==
    ASSUME IInv, NEW c \in Clients, Task(c), NEW d \in Clients, d # c,
           ~(ReadData(c) /\ peer[c] = d),
           ~(WriteResponse(c) /\ peer[c] = d)
    PROVE  Kept(d)'
<1>1. Bookkeeping /\ TypeOK /\ Kept(d)
  BY IInvByClient DEF Bookkeeping
<1>2. /\ UNCHANGED <<asked, client_fd>>
      /\ \E p : pc' = [pc EXCEPT ![c] = p]
      /\ peer' = peer \/ \E p : peer' = [peer EXCEPT ![c] = p]
      /\ fdtab' = fdtab \/ CloseFd(client_fd[c])
      /\ robbed \subseteq robbed'
  BY DEF Task, ParseRequest, ReadCall, ReadData, ReadEnds, CloseAfterRead, ProcessRequest,
         WriteCall, WriteResponse, WriteFails, CloseAfterWrite, CheckClose, TaskReturns,
         Goto, network
<1>3. pc'[d] = pc[d] /\ peer'[d] = peer[d]
  BY <1>1, <1>2 DEF TypeOK
<1>4. Served(d)' => Served(d)
  <2>1. \A f \in Fds : fdtab'[f] = fdtab[f] \/ fdtab'[f] = None
    BY <1>1, <1>2 DEF CloseFd, TypeOK
  <2>2. QED
    BY <1>2, <1>3, <2>1 DEF Served, Connected
<1>5. inbox'[d] = inbox[d] /\ buffer_'[d] = buffer_[d]
  <2>1. CASE ReadData(c)
    <3>1. peer[c] \in Clients /\ peer[c] # d
      BY <1>1, <2>1 DEF ReadData, TypeOK
    <3>2. QED
      BY <1>1, <2>1, <3>1 DEF ReadData, TypeOK
  <2>2. CASE ~ReadData(c)
    <3>1. inbox' = inbox
      BY <2>2 DEF Task, ParseRequest, ReadCall, ReadEnds, CloseAfterRead, ProcessRequest,
         WriteCall, WriteResponse, WriteFails, CloseAfterWrite, CheckClose, TaskReturns, network
    <3>2. buffer_' = buffer_ \/ \E x : buffer_' = [buffer_ EXCEPT ![c] = x]
      BY <2>2 DEF Task, ParseRequest, ReadCall, ReadEnds, CloseAfterRead, ProcessRequest,
         WriteCall, WriteResponse, WriteFails, CloseAfterWrite, CheckClose, TaskReturns
    <3>3. QED
      BY <1>1, <3>1, <3>2 DEF TypeOK
  <2>3. QED
    BY <2>1, <2>2
<1>6. outbox'[d] = outbox[d]
  <2>1. CASE WriteResponse(c)
    BY <1>1, <2>1 DEF WriteResponse, TypeOK
  <2>2. CASE ~WriteResponse(c)
    BY <2>2 DEF Task, ParseRequest, ReadCall, ReadData, ReadEnds, CloseAfterRead,
         ProcessRequest, WriteCall, WriteFails, CloseAfterWrite, CheckClose, TaskReturns
  <2>3. QED
    BY <2>1, <2>2
<1>7. req'[d] = req[d]
  <2>1. req' = req \/ \E x : req' = [req EXCEPT ![c] = x]
    BY DEF Task, ParseRequest, ReadCall, ReadData, ReadEnds, CloseAfterRead, ProcessRequest,
         WriteCall, WriteResponse, WriteFails, CloseAfterWrite, CheckClose, TaskReturns
  <2>2. QED
    BY <1>1, <2>1 DEF TypeOK
<1>8. QED
  BY <1>1, <1>2, <1>3, <1>4, <1>5, <1>6, <1>7, Bystander

(* A task has been accepted. *)
LEMMA TaskAccepted ==
    ASSUME IInv, NEW c \in Clients, Task(c)
    PROVE  /\ Bookkeeping /\ TypeOK /\ Kept(c) /\ c \in active
           /\ client_fd[c] \in Fds /\ client_fd[c] # None /\ client_fd' = client_fd
           /\ fdtab[client_fd[c]] \in Clients \cup {None}
<1>1. Bookkeeping /\ TypeOK /\ Kept(c)
  BY IInvByClient DEF Bookkeeping
<1>2. c \in active /\ client_fd' = client_fd
  BY DEF Task, ParseRequest, ReadCall, ReadData, ReadEnds, CloseAfterRead, ProcessRequest,
         WriteCall, WriteResponse, WriteFails, CloseAfterWrite, CheckClose, TaskReturns,
         Goto, Pool!Finish
<1>3. client_fd[c] \in Fds /\ fdtab[client_fd[c]] \in Clients \cup {None}
  BY <1>1, <1>2, NumberOfTask
<1>4. client_fd[c] # None
  BY <1>3
<1>5. QED
  BY <1>1, <1>2, <1>3, <1>4

(* A close() ends the client's service. *)
LEMMA CloseOrder ==
    ASSUME IInv, NEW c \in Clients, Task(c), CloseFd(client_fd[c]), pc'[c] # "writing",
           UNCHANGED <<asked, outbox, robbed>>
    PROVE  Kept(c)'
<1>1. TypeOK /\ Kept(c) /\ client_fd[c] \in Fds /\ client_fd[c] # None /\ client_fd' = client_fd
  BY TaskAccepted
<1>2. fdtab'[client_fd[c]] = None
  BY <1>1 DEF CloseFd, TypeOK
<1>3. ~Served(c)'
  BY <1>1, <1>2 DEF Served, Connected
<1>4. QED
  BY <1>1, <1>3, Leaver

(* Steps within a request, or between two, that touch no stream. *)
LEMMA QuietOrder ==
    ASSUME IInv, NEW c \in Clients,
           ReadCall(c) \/ ReadEnds(c) \/ ProcessRequest(c) \/ WriteCall(c) \/ WriteFails(c)
    PROVE  Kept(c)'
<1>1. TypeOK /\ Kept(c)
  BY IInvByClient DEF Bookkeeping
<1>2. UNCHANGED <<client_fd, inbox, asked, outbox, buffer_, req, robbed, fdtab>>
  BY DEF ReadCall, ReadEnds, ProcessRequest, WriteCall, WriteFails, network
<1>3. (pc'[c] \in Serving <=> pc[c] \in Serving) /\ (pc'[c] = "check" <=> pc[c] = "check")
  BY <1>1 DEF ReadCall, ReadEnds, ProcessRequest, WriteCall, WriteFails, Goto, Serving, TypeOK
<1>4. Served(c)' => Served(c)
  <2>1. Connected(c)' => Connected(c)
    BY <1>2 DEF Connected
  <2>2. CASE WriteCall(c)
    <3>1. client_fd[c] \in Fds /\ peer'[c] = fdtab[client_fd[c]]
      BY <1>1, <2>2, TaskAccepted DEF WriteCall, Task, TypeOK
    <3>2. QED
      BY <2>1, <3>1 DEF Served, Connected
  <2>3. CASE ~WriteCall(c)
    <3>1. pc'[c] # "writing"
      BY <1>1, <2>3 DEF ReadCall, ReadEnds, ProcessRequest, WriteFails, Goto, TypeOK
    <3>2. QED
      BY <2>1, <3>1 DEF Served
  <2>4. QED
    BY <2>2, <2>3
<1>5. QED
  BY <1>1, <1>2, <1>3, <1>4, Bystander

(* The end of the loop body: a request with "Connection: close" was the    *)
(* last one, and the connection is closed.                                 *)
LEMMA CheckOrder ==
    ASSUME IInv, NEW c \in Clients, CheckClose(c)
    PROVE  Kept(c)'
<1>1. TypeOK /\ Kept(c) /\ client_fd[c] # None /\ client_fd' = client_fd
  BY TaskAccepted DEF Task
<1>2. UNCHANGED <<inbox, asked, outbox, buffer_, req, robbed>>
  BY DEF CheckClose, network
<1>3. CASE WantsClose(req[c])
  <2>1. pc'[c] # "writing"
    BY <1>1 DEF CheckClose, Goto, TypeOK
  <2>2. QED
    BY <1>2, <1>3, <2>1, CloseOrder DEF CheckClose, Task
<1>4. CASE ~WantsClose(req[c])
  <2>1. fdtab' = fdtab /\ pc[c] = "check" /\ pc'[c] \in {"return", "next"}
    BY <1>1, <1>4 DEF CheckClose, Goto, TypeOK
  <2>2. Served(c)' = Served(c) /\ Stream(c)' = Stream(c) /\ Undisturbed(c)' = Undisturbed(c)
    BY <1>1, <1>2, <2>1 DEF Served, Connected, Stream, Undisturbed, OwnAnswers
  <2>3. pc[c] \notin Serving /\ pc'[c] \notin Serving /\ pc'[c] \notin Serving \cup {"check"}
    BY <2>1 DEF Serving
  <2>4. Parsed(c)' = Parsed(c)
    BY <1>2, <2>3 DEF Parsed
  <2>5. Answered(c)' = Answered(c)
    BY <1>2 DEF Answered
  <2>6. ASSUME InOrder(c)
        PROVE  InOrder(c)'
    <3>1. req[c] = asked[c][Parsed(c)]
      BY <2>1, <2>6 DEF InOrder
    <3>2. \A i \in 1..Parsed(c) : ~WantsClose(asked[c][i])
      BY <1>4, <2>6, <3>1 DEF InOrder
    <3>3. QED
      BY <1>2, <2>2, <2>3, <2>4, <2>6, <3>2 DEF InOrder
  <2>7. QED
    BY <1>1, <1>2, <2>2, <2>5, <2>6 DEF Kept
<1>5. QED
  BY <1>3, <1>4

(* The request taken out of the buffer is the next one the client sent. *)
LEMMA ParseOrder ==
    ASSUME IInv, NEW c \in Clients, ParseRequest(c)
    PROVE  Kept(c)'
<1> DEFINE b == buffer_[c]  q == HeaderEnd(b)  ib == inbox[c]  str == b \o ib
           R == asked[c]  n == Parsed(c)
<1>1. TypeOK /\ Kept(c) /\ client_fd[c] # None /\ client_fd' = client_fd
  BY TaskAccepted DEF Task
<1>2. /\ pc[c] = "next" /\ q # 0 /\ UNCHANGED <<inbox, asked, outbox, robbed, fdtab>>
      /\ pc' = [pc EXCEPT ![c] = "process"] /\ req' = [req EXCEPT ![c] = b[q]]
      /\ buffer_' = [buffer_ EXCEPT ![c] = SubSeq(b, q + 1, Len(b))]
  BY <1>1 DEF ParseRequest, Goto, network, TypeOK
<1>3. /\ pc'[c] = "process" /\ req'[c] = b[q] /\ buffer_'[c] = SubSeq(b, q + 1, Len(b))
  BY <1>1, <1>2 DEF TypeOK
<1>4. /\ b \in Seq(Pieces) /\ ib \in Seq(Pieces) /\ R \in Seq(Pieces)
      /\ Len(outbox[c]) \in Nat /\ n \in Nat
      /\ n = IF pc[c] \in Serving THEN Len(outbox[c]) + 1 ELSE Len(outbox[c])
  BY <1>1, ClientSequences
<1>5. /\ q \in 1..Len(b) /\ EndsHeader(b[q])
      /\ \A k \in 1..Len(b) : k < q => ~EndsHeader(b[k])
  BY <1>2, <1>4, HeaderEndIs
<1>6. Stream(c) = str /\ Stream(c)' = SubSeq(b, q + 1, Len(b)) \o ib
  BY <1>2, <1>3 DEF Stream
<1>7. n = Len(outbox[c]) /\ Parsed(c)' = n + 1
  BY <1>2, <1>3, <1>4 DEF Parsed, Serving
<1>8. Served(c)' = Served(c) /\ Undisturbed(c)' = Undisturbed(c) /\ Answered(c)' = Answered(c)
  BY <1>1, <1>2, <1>3 DEF Served, Connected, Undisturbed, OwnAnswers, Answered
<1> HIDE DEF b, q, ib, str, R, n
<1>9. /\ str \in Seq(Pieces) /\ q \in 1..Len(str)
      /\ \A k \in 1..Len(b) : str[k] = b[k]
      /\ SubSeq(b, q + 1, Len(b)) \o ib = SubSeq(str, q + 1, Len(str))
  BY <1>4, <1>5, StreamParse DEF str
<1>10. ASSUME InOrder(c)
       PROVE  InOrder(c)'
  <2>1. Fits(str, n, R)
    BY <1>6, <1>10 DEF InOrder, n, R
  <2>2. EndsHeader(str[q]) /\ str[q] = b[q]
    BY <1>5, <1>9
  <2>3. ASSUME NEW k \in 1..Len(str), k < q
        PROVE  ~EndsHeader(str[k])
    <3>1. k \in 1..Len(b)
      BY <1>4, <1>5, <2>3
    <3>2. QED
      BY <1>5, <1>9, <2>3, <3>1
  <2>4. \A i \in 1..Len(R) : EndsHeader(R[i]) /\ R[i].id = i
    BY <1>1, <1>4 DEF Kept, R
  <2>5. /\ n + 1 \in 1..Len(R) /\ str[q] = R[n + 1]
        /\ Fits(SubSeq(str, q + 1, Len(str)), n + 1, R)
    <3>1. str \in Seq(Pieces) /\ n \in Nat /\ R \in Seq(Pieces) /\ q \in 1..Len(str)
      BY <1>4, <1>9
    <3>2. EndsHeader(str[q]) /\ \A k \in 1..Len(str) : k < q => ~EndsHeader(str[k])
      BY <2>2, <2>3
    <3>3. QED
      BY <2>1, <2>4, <3>1, <3>2, FitsParsed, Zenon
  <2>6. \A i \in 1..n : ~WantsClose(R[i])
    <3>1. pc[c] \notin Serving \cup {"check"}
      BY <1>2 DEF Serving
    <3>2. QED
      BY <1>10, <3>1 DEF InOrder, n, R
  <2>7. \A i \in 1..(n + 1) : WantsClose(R[i]) => i = n + 1
    BY <1>4, <2>6
  <2>8. pc'[c] \in Serving
    BY <1>3 DEF Serving
  <2>9. /\ Parsed(c)' = n + 1 /\ asked'[c] = R /\ req'[c] = R[n + 1]
        /\ Stream(c)' = SubSeq(str, q + 1, Len(str))
    BY <1>2, <1>3, <1>6, <1>7, <1>9, <2>2, <2>5 DEF R
  <2>10. n + 1 <= Len(R) /\ n + 1 \in DOMAIN R
    BY <1>4, <2>5
  <2>11. QED
    BY <2>5, <2>7, <2>8, <2>9, <2>10 DEF InOrder
<1>11. QED
  BY <1>1, <1>2, <1>8, <1>10 DEF Kept

(* read() moves a client's pieces to its own task's buffer, or robs it. *)
LEMMA ReadOrder ==
    ASSUME IInv, NEW c \in Clients, ReadData(c), NEW d \in Clients, d = c \/ d = peer[c]
    PROVE  Kept(d)'
<1> DEFINE r == peer[c]
<1>1. Bookkeeping /\ TypeOK /\ Kept(c) /\ client_fd[c] # None /\ client_fd' = client_fd
  BY TaskAccepted DEF Task
<1>2. /\ pc[c] = "read" /\ UNCHANGED <<asked, outbox, req, fdtab>>
      /\ pc' = [pc EXCEPT ![c] = "next"] /\ robbed' = robbed \cup ({r} \ {c})
      /\ inbox[r] # <<>>
  BY DEF ReadData, Goto
<1>3. r \in Clients
  BY <1>1, <1>2 DEF TypeOK
<1>4. PICK m \in 1..Len(inbox[r]) :
         /\ buffer_' = [buffer_ EXCEPT ![c] = @ \o SubSeq(inbox[r], 1, m)]
         /\ inbox' = [inbox EXCEPT ![r] = SubSeq(@, m + 1, Len(@))]
  BY DEF ReadData
<1>5. CASE r = c
  <2>1. d = c
    BY <1>5
  <2>2. /\ buffer_'[c] = buffer_[c] \o SubSeq(inbox[c], 1, m)
        /\ inbox'[c] = SubSeq(inbox[c], m + 1, Len(inbox[c]))
        /\ pc'[c] = "next"
    BY <1>1, <1>2, <1>4, <1>5 DEF TypeOK
  <2>3. inbox[c] \in Seq(Pieces) /\ buffer_[c] \in Seq(Pieces)
    BY <1>1, ClientSequences
  <2>4. Stream(c)' = Stream(c)
    <3>1. m \in 1..Len(inbox[c])
      BY <1>4, <1>5
    <3>2. (buffer_[c] \o SubSeq(inbox[c], 1, m)) \o SubSeq(inbox[c], m + 1, Len(inbox[c]))
             = buffer_[c] \o inbox[c]
      BY <2>3, <3>1, StreamRead
    <3>3. QED
      BY <2>2, <3>2 DEF Stream
  <2>5. Parsed(c)' = Parsed(c)
    BY <1>2, <2>2 DEF Parsed, Serving
  <2>6. robbed' = robbed
    BY <1>2, <1>5
  <2>7. /\ Served(c)' = Served(c) /\ Undisturbed(c)' = Undisturbed(c)
        /\ Answered(c)' = Answered(c)
    BY <1>1, <1>2, <2>2, <2>6 DEF Served, Connected, Undisturbed, OwnAnswers, Answered
  <2>8. pc[c] \notin Serving \cup {"check"} /\ pc'[c] \notin Serving \cup {"check"}
    BY <1>2, <2>2 DEF Serving
  <2>9. InOrder(c) => InOrder(c)'
    BY <1>2, <2>4, <2>5, <2>8 DEF InOrder
  <2>10. QED
    BY <1>1, <1>2, <2>1, <2>7, <2>9 DEF Kept
<1>6. CASE r # c
  <2>1. CASE d = c
    <3>1. ~Connected(c)
      BY <1>1, <1>2, <1>6 DEF Bookkeeping, Peers
    <3>2. ~Served(c)'
      BY <1>1, <1>2, <3>1 DEF Served, Connected, TypeOK
    <3>3. QED
      BY <1>1, <1>2, <2>1, <3>2, Leaver
  <2>2. CASE d = r
    <3>1. Kept(d)
      BY IInvByClient
    <3>2. client_fd[d] # None
      BY <1>2, <2>2, <3>1 DEF Kept
    <3>3. ~Undisturbed(d)'
      BY <1>2, <1>6, <2>2 DEF Undisturbed
    <3>4. QED
      BY <1>1, <1>2, <3>1, <3>2, <3>3, Leaver
  <2>3. QED
    BY <2>1, <2>2
<1>7. QED
  BY <1>5, <1>6

(* A response goes to the client whose request it answers, as the next of  *)
(* its answers, or to a stranger.                                          *)
LEMMA WriteOrder ==
    ASSUME IInv, NEW c \in Clients, WriteResponse(c),
           NEW d \in Clients, d = c \/ d = peer[c]
    PROVE  Kept(d)'
<1> DEFINE to == peer[c]
           response == [by |-> c, id |-> IF req[c] = None THEN 0 ELSE req[c].id]
<1>1. /\ Bookkeeping /\ TypeOK /\ Kept(c) /\ client_fd[c] \in Fds /\ client_fd[c] # None
      /\ client_fd' = client_fd
  BY TaskAccepted DEF Task
<1>2. /\ pc[c] = "writing" /\ outbox' = [outbox EXCEPT ![to] = Append(@, response)]
      /\ pc' = [pc EXCEPT ![c] = "check"]
      /\ UNCHANGED <<inbox, asked, robbed, fdtab, buffer_, req>>
  BY DEF WriteResponse, Goto, network
<1>3. to \in Clients /\ pc'[c] = "check"
  BY <1>1, <1>2 DEF TypeOK
<1>4. outbox'[to] = Append(outbox[to], response)
  BY <1>1, <1>2, <1>3 DEF TypeOK
<1>5. /\ Len(outbox'[to]) = Len(outbox[to]) + 1 /\ DOMAIN outbox'[to] = 1..(Len(outbox[to]) + 1)
      /\ Len(outbox[to]) \in Nat /\ outbox'[to][Len(outbox[to]) + 1] = response
      /\ \A i \in 1..Len(outbox[to]) : outbox'[to][i] = outbox[to][i]
  <2> DEFINE A == [by : Clients, id : Nat]
  <2>1. outbox[to] \in Seq(A)
    BY <1>1, <1>3 DEF TypeOK
  <2>2. response \in A
    BY <1>1 DEF TypeOK, Pieces
  <2> HIDE DEF A, response
  <2>3. QED
    BY <1>4, <2>1, <2>2
<1>6. CASE to # c
  <2>1. CASE d = c
    <3>1. ~Served(c)'
      BY <1>1, <1>2, <1>3, <1>6 DEF Bookkeeping, Peers, Served, Connected
    <3>2. outbox'[c] = outbox[c]
      BY <1>1, <1>2, <1>6 DEF TypeOK
    <3>3. QED
      BY <1>1, <1>2, <2>1, <3>1, <3>2, Leaver
  <2>2. CASE d = to
    <3>1. response.by # to
      BY <1>6
    <3>2. ~Undisturbed(d)'
      <4>1. Len(outbox[d]) + 1 \in DOMAIN outbox'[d]
        BY <1>5, <2>2
      <4>2. outbox'[d][Len(outbox[d]) + 1].by # d
        BY <1>5, <2>2, <3>1
      <4>3. QED
        BY <4>1, <4>2 DEF Undisturbed, OwnAnswers
    <3>3. client_fd[d] # None
      BY <1>1, <1>2, <2>2 DEF Bookkeeping, Peers
    <3>4. Kept(d)
      BY IInvByClient
    <3>5. QED
      BY <1>1, <1>2, <3>2, <3>3, <3>4, Leaver
  <2>3. QED
    BY <2>1, <2>2
<1>7. CASE to = c
  <2> DEFINE l == Len(outbox[c])  R == asked[c]
  <2>1. Served(c)
    BY <1>2, <1>7 DEF Served
  <2>2. Stream(c)' = Stream(c) /\ l \in Nat /\ asked'[c] = R /\ req'[c] = req[c]
    BY <1>2, <1>5, <1>7 DEF Stream
  <2>3. Parsed(c) = l + 1 /\ Parsed(c)' = l + 1
    <3>1. pc[c] \in Serving /\ pc'[c] \notin Serving
      BY <1>2, <1>3 DEF Serving
    <3>2. Parsed(c) = l + 1
      BY <3>1 DEF Parsed
    <3>3. Parsed(c)' = Len(outbox'[c]) + 0
      BY <3>1 DEF Parsed
    <3>4. Len(outbox'[c]) = l + 1 /\ l \in Nat
      BY <1>5, <1>7
    <3>5. QED
      BY <3>2, <3>3, <3>4
  <2>4. pc[c] \in Serving \cup {"check"} /\ pc'[c] \in Serving \cup {"check"}
    BY <1>2, <1>3 DEF Serving
  <2>5. Undisturbed(c)' => Undisturbed(c)
    <3>1. DOMAIN outbox[c] = 1..l
      BY <1>1, ClientSequences
    <3>2. \A i \in DOMAIN outbox[c] : i \in DOMAIN outbox'[c] /\ outbox'[c][i] = outbox[c][i]
      BY <1>5, <1>7, <3>1
    <3>3. QED
      BY <1>2, <3>2 DEF Undisturbed, OwnAnswers
  <2>6. ASSUME Undisturbed(c)
        PROVE  InOrder(c)' /\ Answered(c)'
    <3>1. InOrder(c) /\ Answered(c)
      BY <1>1, <2>1, <2>6 DEF Kept
    <3>2. InOrder(c)'
      BY <2>2, <2>3, <2>4, <3>1 DEF InOrder
    <3>3. l + 1 <= Len(R) /\ l + 1 \in DOMAIN R /\ req[c] = R[l + 1]
      BY <2>3, <2>4, <3>1 DEF InOrder
    <3>4. R \in Seq(Pieces) /\ \A i \in DOMAIN R : R[i].id = i
      BY <1>1 DEF TypeOK, Kept
    <3>5. R[l + 1] \in Pieces /\ R[l + 1].id = l + 1
      BY <3>3, <3>4
    <3>6. req[c] # None /\ req[c].id = l + 1
      BY <3>3, <3>5 DEF Pieces
    <3>7. response.id = l + 1
      BY <3>6
    <3>8. \A i \in 1..l : outbox[c][i].id = i
      BY <1>1, <3>1, ClientSequences DEF Answered
    <3>9. \A i \in 1..(l + 1) : WantsClose(R[i]) => i = l + 1
      BY <2>3, <3>1 DEF InOrder
    <3> HIDE DEF response, l, R
    <3>10. /\ Len(outbox'[c]) = l + 1 /\ DOMAIN outbox'[c] = 1..(l + 1)
           /\ outbox'[c][l + 1] = response /\ \A i \in 1..l : outbox'[c][i] = outbox[c][i]
      BY <1>5, <1>7 DEF l
    <3>11. \A i \in 1..(l + 1) : outbox'[c][i].id = i
      BY <2>2, <3>7, <3>8, <3>10
    <3>12. Answered(c)'
      BY <2>2, <3>3, <3>9, <3>10, <3>11 DEF Answered
    <3>13. QED
      BY <3>2, <3>12
  <2>7. d = c
    BY <1>7
  <2>8. QED
    BY <1>1, <2>1, <2>2, <2>5, <2>6, <2>7 DEF Kept
<1>8. QED
  BY <1>6, <1>7

(* A task's steps keep every client's part. *)
LEMMA TaskOrder ==
    ASSUME IInv, NEW c \in Clients, Task(c), NEW d \in Clients
    PROVE  Kept(d)'
<1>1. CASE ReadData(c) /\ (d = c \/ d = peer[c])
  BY <1>1, ReadOrder
<1>2. CASE WriteResponse(c) /\ (d = c \/ d = peer[c])
  BY <1>2, WriteOrder
<1>3. CASE d # c /\ ~(ReadData(c) /\ peer[c] = d) /\ ~(WriteResponse(c) /\ peer[c] = d)
  BY <1>3, TaskElsewhere
<1>4. CASE d = c /\ ParseRequest(c)
  BY <1>4, ParseOrder
<1>5. CASE d = c /\ (ReadCall(c) \/ ReadEnds(c) \/ ProcessRequest(c) \/ WriteCall(c) \/ WriteFails(c))
  BY <1>5, QuietOrder
<1>6. CASE d = c /\ CheckClose(c)
  BY <1>6, CheckOrder
<1>7. CASE d = c /\ (CloseAfterRead(c) \/ CloseAfterWrite(c) \/ TaskReturns(c))
  <2>1. CloseFd(client_fd[c]) /\ UNCHANGED <<asked, outbox, robbed>>
    BY <1>7 DEF CloseAfterRead, CloseAfterWrite, TaskReturns, network
  <2>2. pc \in [Clients -> Places]
    BY DEF IInv, Bookkeeping, TypeOK
  <2>3. pc'[c] # "writing"
    BY <1>7, <2>2 DEF CloseAfterRead, CloseAfterWrite, TaskReturns, Goto
  <2>4. QED
    BY <1>7, <2>1, <2>3, CloseOrder DEF Task
<1>8. QED
  BY <1>1, <1>2, <1>3, <1>4, <1>5, <1>6, <1>7 DEF Task

(* The invariant holds at the start and is kept by every step. *)
LEMMA IInvInit == Init => IInv
<1> SUFFICES ASSUME Init
             PROVE  IInv
  OBVIOUS
<1>1. Bookkeeping
  BY BookkeepingInit
<1>2. ASSUME NEW c \in Clients
      PROVE  Kept(c)
  BY DEF Init, Kept, Served, Connected, Answered
<1>3. QED
  BY <1>1, <1>2, IInvByClient

(* Every step of the server and of its clients preserves the invariant. *)
LEMMA IInvStep == IInv /\ [Next]_vars => IInv'
<1> SUFFICES ASSUME IInv, [Next]_vars
             PROVE  IInv'
  OBVIOUS
<1>1. Bookkeeping'
  BY BookkeepingStep DEF IInv
<1>2. ASSUME NEW d \in Clients
      PROVE  Kept(d)'
  <2>1. ASSUME NEW c \in Clients, Client(c)
        PROVE  Kept(d)'
    BY <2>1, ClientOrder
  <2>2. ASSUME NEW c \in Clients, Accept(c)
        PROVE  Kept(d)'
    BY <2>2, AcceptOrder
  <2>3. ASSUME NEW c \in Clients, AcceptExits(c) \/ ProcessThrows(c)
        PROVE  Kept(d)'
    BY <2>3, MainOrder
  <2>4. ASSUME NEW c \in Clients, Task(c)
        PROVE  Kept(d)'
    BY <2>4, TaskOrder
  <2>5. CASE BindAndListen \/ BindFails \/ AcceptFails \/ DrainPool \/ Return
               \/ Dispatch \/ StartTask
    BY <2>5, MainOrder
  <2>6. CASE UNCHANGED vars
    <3>1. UNCHANGED <<client_fd, peer, inbox, asked, outbox, buffer_, req, robbed, pc, fdtab>>
      BY <2>6 DEF vars, network, taskVars
    <3>2. Served(d)' => Served(d)
      BY <3>1 DEF Served, Connected
    <3>3. Kept(d)
      BY IInvByClient
    <3>4. QED
      BY <3>1, <3>2, <3>3, Bystander
  <2>7. QED
    BY <2>1, <2>2, <2>3, <2>4, <2>5, <2>6 DEF Next
<1>3. QED
  BY <1>1, <1>2 DEF IInv, Numbered, Untouched, InService, AnswersInOrder, Kept

(* The inductive invariant holds in every state: ownership of descriptors, *)
(* the order of a client's stream and the answers it has had.              *)
THEOREM Invariance == Spec => []IInv
  BY IInvInit, IInvStep, PTL DEF Spec

(* A client whose connection no other task touched has its requests        *)
(* answered once each, in the order it sent them, whatever pieces they     *)
(* came in, and none after one that asked to close: HttpConnection keeps   *)
(* what follows a request in buffer_, and ThrFn stops where it says.       *)
THEOREM InOrderAnswers == Spec => []AnswersInOrder
<1>1. IInv => AnswersInOrder
  BY DEF IInv
<1>2. QED
  BY <1>1, Invariance, PTL
=============================================================================
