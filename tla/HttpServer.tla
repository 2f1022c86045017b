----------------------------- MODULE HttpServer -----------------------------
(***************************************************************************)
(* hw4/HttpServer.cc with HttpConnection.cc and ServerSocket.cc: the main  *)
(* thread accepts connections and dispatches a task for each into the      *)
(* thread pool; a task serves one client until it asks to close, or fails. *)
(*                                                                         *)
(* The pool is TaskPool, which ThreadPool implements (ThreadPoolProofs).   *)
(* The kernel's descriptor table is modelled because tasks share it: a     *)
(* new descriptor gets the lowest free number, a number that was closed is *)
(* soon another client's, and a read or a write that is blocked keeps its  *)
(* connection whatever happens to the number.                              *)
(*                                                                         *)
(* A client sends pieces of requests.  A "part" has no end of header, a    *)
(* "keep" ends the header of a request, a "close" that of a request with   *)
(* "Connection: close"; id numbers the requests of a client.               *)
(***************************************************************************)
EXTENDS Integers, Sequences, SequencesExt, FiniteSets

CONSTANTS
    Clients,      \* a client opens one connection; its task has the same name
    NumThreads,   \* kNumThreads
    Fds,          \* descriptor numbers
    Kinds,        \* the kinds of pieces clients send
    MaxSends,     \* bound: pieces the clients send, together
    Listening,    \* the listening socket, in the descriptor table
    None          \* a free descriptor, no client, no request

ASSUME ServerAssumption ==
    /\ Fds \subseteq Nat
    /\ NumThreads \in Nat \ {0}
    /\ Kinds \subseteq {"part", "keep", "close"}
    /\ MaxSends \in Nat
    /\ {Listening, None} \cap Clients = {}
    /\ Listening # None
    /\ None \notin Fds /\ None \notin [from : Clients, kind : Kinds, id : Nat]

VARIABLES
    client,    \* "new", "waiting" (in the backlog), "open", "eof" (sends no more), "gone"
    inbox,     \* what a client sent and nobody has read
    outbox,    \* the responses a client was sent
    asked,     \* history: the requests a client has sent, in order
    sent,      \* how many pieces the clients have sent, for the bound
    stalled,   \* the clients that do not read what is being written to them
    robbed,    \* history: the clients that another client's task has read from
    fdtab,     \* the descriptor table: Listening, a client or None
    main,      \* where HttpServer::Run is
    hst,       \* the client accepted and not yet dispatched
    queue, active, done, phase,   \* the pool, as in TaskPool
    pc,        \* where a task is in HttpServer_ThrFn
    client_fd, \* a task's client_fd, which is its connection's fd_ too
    peer,      \* the connection a task's read() or write() is on
    buffer_,   \* a task's HttpConnection::buffer_
    req,       \* the request a task is serving; None after a failed read
    stop       \* a task's local `done'

network  == <<client, inbox, asked, sent, stalled, robbed>>
poolVars == <<queue, active, done, phase>>
taskVars == <<pc, client_fd, peer, buffer_, req, stop>>
vars     == <<network, outbox, fdtab, main, hst, poolVars, taskVars>>

Pool == INSTANCE TaskPool WITH Tasks <- Clients

Init ==
    /\ client = [c \in Clients |-> "new"]
    /\ inbox = [c \in Clients |-> <<>>]
    /\ outbox = [c \in Clients |-> <<>>]
    /\ asked = [c \in Clients |-> <<>>]
    /\ sent = 0
    /\ stalled = {}
    /\ robbed = {}
    /\ fdtab = [f \in Fds |-> None]
    /\ main = "bind"
    /\ hst = None
    /\ Pool!Init
    /\ pc = [c \in Clients |-> "none"]
    /\ client_fd = [c \in Clients |-> None]
    /\ peer = [c \in Clients |-> None]
    /\ buffer_ = [c \in Clients |-> <<>>]
    /\ req = [c \in Clients |-> None]
    /\ stop = [c \in Clients |-> FALSE]

(* Nothing happens after the process has ended. *)
Running == main \notin {"exited", "returned"}

-----------------------------------------------------------------------------
(* The clients. *)

Connect(c) ==
    /\ client[c] = "new"
    /\ client' = [client EXCEPT ![c] = "waiting"]
    /\ UNCHANGED <<inbox, asked, sent, stalled, robbed, outbox, fdtab, main, hst, poolVars, taskVars>>

EndsHeader(piece) == piece.kind # "part"

Send(c, kind) ==
    /\ client[c] = "open"
    /\ sent < MaxSends
    /\ LET id == IF kind = "part" THEN 0 ELSE Len(asked[c]) + 1
           piece == [from |-> c, kind |-> kind, id |-> id]
       IN  /\ inbox' = [inbox EXCEPT ![c] = Append(@, piece)]
           /\ asked' = [asked EXCEPT ![c] = IF EndsHeader(piece) THEN Append(@, piece) ELSE @]
    /\ sent' = sent + 1
    /\ UNCHANGED <<client, stalled, robbed, outbox, fdtab, main, hst, poolVars, taskVars>>

(* The client stops sending, or disappears. *)
HangUp(c, how) ==
    /\ client[c] \in {"open", "eof"} \ {how}
    /\ client' = [client EXCEPT ![c] = how]
    /\ UNCHANGED <<inbox, asked, sent, stalled, robbed, outbox, fdtab, main, hst, poolVars, taskVars>>

(* A response on its way to the client finds the socket full, because the  *)
(* client does not read; or the client reads on.                           *)
Stall(c) ==
    /\ client[c] \in {"open", "eof"}
    /\ \E t \in active : pc[t] = "writing" /\ peer[t] = c
    /\ stalled' = IF c \in stalled THEN stalled \ {c} ELSE stalled \cup {c}
    /\ UNCHANGED <<client, inbox, asked, sent, robbed, outbox, fdtab, main, hst, poolVars, taskVars>>

-----------------------------------------------------------------------------
(* The descriptor table. *)

FreeFds == {f \in Fds : fdtab[f] = None}
LowestFree == CHOOSE f \in FreeFds : \A g \in FreeFds : f <= g

(* close(f); of a number that is not open it fails, which nobody checks. *)
CloseFd(f) == fdtab' = [fdtab EXCEPT ![f] = None]

-----------------------------------------------------------------------------
(* HttpServer::Run, the main thread. *)

BindAndListen ==
    /\ main = "bind"
    /\ fdtab' = [fdtab EXCEPT ![LowestFree] = Listening]
    /\ main' = "accept"
    /\ UNCHANGED <<network, outbox, hst, poolVars, taskVars>>

BindFails ==
    /\ main = "bind"
    /\ main' = "returned"
    /\ phase' = "gone"
    /\ UNCHANGED <<network, outbox, fdtab, hst, queue, active, done, taskVars>>

Accept(c) ==
    /\ main = "accept"
    /\ client[c] = "waiting"
    /\ FreeFds # {}
    /\ client' = [client EXCEPT ![c] = "open"]
    /\ fdtab' = [fdtab EXCEPT ![LowestFree] = c]
    /\ client_fd' = [client_fd EXCEPT ![c] = LowestFree]
    /\ hst' = c
    /\ main' = "dispatch"
    /\ UNCHANGED <<inbox, asked, sent, stalled, robbed, outbox, poolVars, pc, peer, buffer_, req, stop>>

(* accept() fails, of descriptors running out or otherwise: the loop ends  *)
(* and ~ThreadPool begins.                                                 *)
AcceptFails ==
    /\ main = "accept"
    /\ main' = "delete"
    /\ Pool!Close
    /\ UNCHANGED <<network, outbox, fdtab, hst, taskVars>>

(* Verify333(getnameinfo(...) == 0) *)
AcceptExits(c) ==
    /\ main = "accept"
    /\ client[c] = "waiting"
    /\ main' = "exited"
    /\ UNCHANGED <<network, outbox, fdtab, hst, poolVars, taskVars>>

(* Mutant: a connection is dropped when tasks are already waiting. *)
Dispatch_DropWhenBusy ==
    /\ main = "dispatch"
    /\ main' = "accept"
    /\ hst' = None
    /\ IF queue # <<>> THEN UNCHANGED <<poolVars, pc>>
       ELSE /\ Pool!Submit(hst)
            /\ pc' = [pc EXCEPT ![hst] = "queued"]
    /\ UNCHANGED <<network, outbox, fdtab, client_fd, peer, buffer_, req, stop>>

Dispatch ==
    /\ main = "dispatch"
    /\ main' = "accept"
    /\ hst' = None
    /\ Pool!Submit(hst)
    /\ pc' = [pc EXCEPT ![hst] = "queued"]
    /\ UNCHANGED <<network, outbox, fdtab, client_fd, peer, buffer_, req, stop>>

(* A worker, or while the pool drains the main thread, takes a task. *)
StartTask ==
    /\ Running
    /\ Pool!Start
    /\ pc' = [pc EXCEPT ![Head(queue)] = "next"]
    /\ UNCHANGED <<network, outbox, fdtab, main, hst, client_fd, peer, buffer_, req, stop>>

DrainPool ==
    /\ main = "delete"
    /\ Pool!Drain
    /\ UNCHANGED <<network, outbox, fdtab, main, hst, taskVars>>

(* Mutant: Run does not wait for the tasks that are still queued. *)
Return_NoDrain ==
    /\ main = "delete"
    /\ phase = "draining"
    /\ phase' = "gone"
    /\ main' = "returned"
    /\ fdtab' = [f \in Fds |-> IF fdtab[f] = Listening THEN None ELSE fdtab[f]]
    /\ UNCHANGED <<network, outbox, hst, queue, active, done, taskVars>>

(* The pool is gone and Run returns; ~ServerSocket closes its socket. *)
Return ==
    /\ main = "delete"
    /\ Pool!Vanish
    /\ main' = "returned"
    /\ fdtab' = [f \in Fds |-> IF fdtab[f] = Listening THEN None ELSE fdtab[f]]
    /\ UNCHANGED <<network, outbox, hst, taskVars>>

-----------------------------------------------------------------------------
(* HttpServer_ThrFn.  A task reads a request, processes it, writes the     *)
(* response, and closes when the client asked for it; each close() is a    *)
(* step, since other threads use descriptors in between.                   *)

Goto(c, p) == Running /\ c \in active /\ pc' = [pc EXCEPT ![c] = p]

(* Where in its buffer_ a request ends; 0 if nowhere. *)
HeaderEnd(b) == SelectInSeq(b, EndsHeader)

(* Mutant: what follows the request in buffer_ is thrown away. *)
ParseRequest_DropRest(c) ==
    /\ pc[c] = "next" /\ HeaderEnd(buffer_[c]) # 0
    /\ Goto(c, "process")
    /\ req' = [req EXCEPT ![c] = buffer_[c][HeaderEnd(buffer_[c])]]
    /\ buffer_' = [buffer_ EXCEPT ![c] = <<>>]
    /\ UNCHANGED <<network, outbox, fdtab, main, hst, poolVars, client_fd, peer, stop>>

(* A whole request is in buffer_: it is taken out and parsed. *)
ParseRequest(c) ==
    /\ pc[c] = "next" /\ HeaderEnd(buffer_[c]) # 0
    /\ Goto(c, "process")
    /\ req' = [req EXCEPT ![c] = buffer_[c][HeaderEnd(buffer_[c])]]
    /\ buffer_' = [buffer_ EXCEPT ![c] = SubSeq(@, HeaderEnd(@) + 1, Len(@))]
    /\ UNCHANGED <<network, outbox, fdtab, main, hst, poolVars, client_fd, peer, stop>>

(* A response is made, without looking at the connection. *)
ProcessRequest(c) ==
    /\ pc[c] = "process"
    /\ Goto(c, "write")
    /\ UNCHANGED <<network, outbox, fdtab, main, hst, poolVars, client_fd, peer, buffer_, req, stop>>

(* ProcessFileRequest throws for a file name without a dot, which nobody   *)
(* catches: the process ends.  The empty request is no file request.       *)
ProcessThrows(c) ==
    /\ Running /\ c \in active
    /\ pc[c] = "process" /\ req[c] # None
    /\ main' = "exited"
    /\ UNCHANGED <<network, outbox, fdtab, hst, poolVars, taskVars>>

(* Mutant: the result -1 of read() is not recognised. *)
ReadCall_NoCheck(c) ==
    /\ pc[c] = "next" /\ HeaderEnd(buffer_[c]) = 0
    /\ peer' = [peer EXCEPT ![c] = fdtab[client_fd[c]]]
    /\ Goto(c, "read")
    /\ UNCHANGED <<network, outbox, fdtab, main, hst, poolVars, client_fd, buffer_, req, stop>>

(* read() is called: it is on whatever the number means now. *)
ReadCall(c) ==
    /\ pc[c] = "next" /\ HeaderEnd(buffer_[c]) = 0
    /\ peer' = [peer EXCEPT ![c] = fdtab[client_fd[c]]]
    /\ Goto(c, IF peer'[c] = None THEN "failed" ELSE "read")
    /\ UNCHANGED <<network, outbox, fdtab, main, hst, poolVars, client_fd, buffer_, req, stop>>

(* read() returns some of what the client sent. *)
ReadData(c) ==
    /\ pc[c] = "read" /\ inbox[peer[c]] # <<>>
    /\ Goto(c, "next")
    /\ \E n \in 1..Len(inbox[peer[c]]) :
          /\ buffer_' = [buffer_ EXCEPT ![c] = @ \o SubSeq(inbox[peer[c]], 1, n)]
          /\ inbox' = [inbox EXCEPT ![peer[c]] = SubSeq(@, n + 1, Len(@))]
    /\ peer' = [peer EXCEPT ![c] = None]
    /\ robbed' = robbed \cup ({peer[c]} \ {c})
    /\ UNCHANGED <<client, asked, sent, stalled, outbox, fdtab, main, hst, poolVars, client_fd, req, stop>>

(* Mutant: the end of the stream is read again and again. *)
ReadEnds_Retry(c) ==
    /\ pc[c] = "read"
    /\ \/ client[peer[c]] = "eof" /\ inbox[peer[c]] = <<>>
       \/ client[peer[c]] = "gone"
    /\ Goto(c, "next")
    /\ peer' = [peer EXCEPT ![c] = None]
    /\ UNCHANGED <<network, outbox, fdtab, main, hst, poolVars, client_fd, buffer_, req, stop>>

(* read() returns 0 at the end of the stream, -1 when the client is gone;  *)
(* GetNextRequest returns false.                                           *)
ReadEnds(c) ==
    /\ pc[c] = "read"
    /\ \/ client[peer[c]] = "eof" /\ inbox[peer[c]] = <<>>
       \/ client[peer[c]] = "gone"
    /\ Goto(c, "failed")
    /\ peer' = [peer EXCEPT ![c] = None]
    /\ UNCHANGED <<network, outbox, fdtab, main, hst, poolVars, client_fd, buffer_, req, stop>>

(* GetNextRequest failed: the connection is closed, and the loop body goes *)
(* on with an empty request.                                               *)
CloseAfterRead(c) ==
    /\ pc[c] = "failed"
    /\ CloseFd(client_fd[c])
    /\ stop' = [stop EXCEPT ![c] = TRUE]
    /\ req' = [req EXCEPT ![c] = None]
    /\ Goto(c, "process")
    /\ UNCHANGED <<network, outbox, main, hst, poolVars, client_fd, peer, buffer_>>

(* WriteResponse calls write(), on whatever the number means now. *)
WriteCall(c) ==
    /\ pc[c] = "write"
    /\ peer' = [peer EXCEPT ![c] = fdtab[client_fd[c]]]
    /\ Goto(c, IF peer'[c] = None THEN "unwritten" ELSE "writing")
    /\ UNCHANGED <<network, outbox, fdtab, main, hst, poolVars, client_fd, buffer_, req, stop>>

(* write() has put the whole response into the socket, or to the client.   *)
(* Until there is room for all of it, it blocks.                           *)
WriteResponse(c) ==
    LET response == [by |-> c, id |-> IF req[c] = None THEN 0 ELSE req[c].id]
    IN  /\ pc[c] = "writing" /\ peer[c] \notin stalled
        /\ outbox' = [outbox EXCEPT ![peer[c]] = Append(@, response)]
        /\ Goto(c, "check")
        /\ peer' = [peer EXCEPT ![c] = None]
        /\ UNCHANGED <<network, fdtab, main, hst, poolVars, client_fd, buffer_, req, stop>>

(* write() fails once the client is gone, also if it was blocked. *)
WriteFails(c) ==
    /\ pc[c] = "writing" /\ client[peer[c]] = "gone"
    /\ Goto(c, "unwritten")
    /\ peer' = [peer EXCEPT ![c] = None]
    /\ UNCHANGED <<network, outbox, fdtab, main, hst, poolVars, client_fd, buffer_, req, stop>>

CloseAfterWrite(c) ==
    /\ pc[c] = "unwritten"
    /\ CloseFd(client_fd[c])
    /\ stop' = [stop EXCEPT ![c] = TRUE]
    /\ Goto(c, "check")
    /\ UNCHANGED <<network, outbox, main, hst, poolVars, client_fd, peer, buffer_, req>>

WantsClose(r) == r # None /\ r.kind = "close"

(* The end of the loop body: "Connection: close", and the loop's test. *)
CheckClose(c) ==
    /\ pc[c] = "check"
    /\ IF WantsClose(req[c]) THEN CloseFd(client_fd[c]) ELSE UNCHANGED fdtab
    /\ stop' = [stop EXCEPT ![c] = @ \/ WantsClose(req[c])]
    /\ Goto(c, IF stop'[c] THEN "return" ELSE "next")
    /\ UNCHANGED <<network, outbox, main, hst, poolVars, client_fd, peer, buffer_, req>>

(* The task returns; ~HttpConnection closes fd_. *)
TaskReturns(c) ==
    /\ Running
    /\ pc[c] = "return"
    /\ CloseFd(client_fd[c])
    /\ pc' = [pc EXCEPT ![c] = "done"]
    /\ Pool!Finish(c)
    /\ UNCHANGED <<network, outbox, main, hst, client_fd, peer, buffer_, req, stop>>

-----------------------------------------------------------------------------
Task(c) ==
    \/ ParseRequest(c) \/ ReadCall(c) \/ ReadData(c) \/ ReadEnds(c)
    \/ CloseAfterRead(c) \/ ProcessRequest(c) \/ WriteCall(c) \/ WriteResponse(c)
    \/ WriteFails(c) \/ CloseAfterWrite(c) \/ CheckClose(c) \/ TaskReturns(c)

Client(c) ==
    \/ Connect(c) \/ Stall(c)
    \/ \E kind \in Kinds : Send(c, kind)
    \/ \E how \in {"eof", "gone"} : HangUp(c, how)

Next ==
    \/ \E c \in Clients : Client(c) \/ Accept(c) \/ AcceptExits(c) \/ Task(c) \/ ProcessThrows(c)
    \/ BindAndListen \/ BindFails \/ AcceptFails \/ Dispatch
    \/ StartTask \/ DrainPool \/ Return

Spec == Init /\ [][Next]_vars

(* The threads keep running and the pool, TaskPool's FairSpec, keeps       *)
(* starting tasks.  No fairness of clients: one that is idle, or that does *)
(* not read what it is sent, keeps its thread.                             *)
FairSpec ==
    /\ Spec
    /\ \A c \in Clients : WF_vars(Task(c)) /\ WF_vars(Accept(c))
    /\ WF_vars(Dispatch) /\ WF_vars(StartTask)
    /\ WF_vars(DrainPool) /\ WF_vars(Return)

-----------------------------------------------------------------------------
Places == {"none", "queued", "next", "read", "failed", "process", "write", "writing", "unwritten",
           "check", "return", "done"}
Pieces == [from : Clients, kind : Kinds, id : Nat]

(* A blocked read or write is on a connection, never on the listening      *)
(* socket or on a free number.                                             *)
TypeOK ==
    /\ client \in [Clients -> {"new", "waiting", "open", "eof", "gone"}]
    /\ inbox \in [Clients -> Seq(Pieces)]
    /\ asked \in [Clients -> Seq(Pieces)]
    /\ sent \in 0..MaxSends
    /\ stalled \subseteq Clients
    /\ robbed \subseteq Clients
    /\ outbox \in [Clients -> Seq([by : Clients, id : Nat])]
    /\ fdtab \in [Fds -> Clients \cup {Listening, None}]
    /\ main \in {"bind", "accept", "dispatch", "delete", "returned", "exited"}
    /\ hst \in Clients \cup {None}
    /\ queue \in Seq(Clients)
    /\ active \subseteq Clients
    /\ done \subseteq Clients
    /\ pc \in [Clients -> Places]
    /\ client_fd \in [Clients -> Fds \cup {None}]
    /\ peer \in [Clients -> Clients \cup {None}]
    /\ buffer_ \in [Clients -> Seq(Pieces)]
    /\ req \in [Clients -> Pieces \cup {None}]
    /\ stop \in [Clients -> BOOLEAN]
    /\ \A c \in Clients : pc[c] \in {"read", "writing"} => peer[c] \in Clients

(* No descriptor leaks: an open connection belongs to the main thread,     *)
(* which is about to dispatch it, or to a task that has still to close it. *)
NoLeak ==
    \A f \in Fds :
        fdtab[f] \in Clients =>
            fdtab[f] = hst \/ fdtab[f] \in ToSet(queue) \cup active

(* When Run returns, every connection it accepted has been served to the   *)
(* end and every descriptor is closed.                                     *)
CleanReturn ==
    main = "returned" =>
        /\ \A c \in Clients : client_fd[c] # None => pc[c] = "done"
        /\ FreeFds = Fds

(* Once the clients have stopped sending, and those that are still there   *)
(* read what they are sent, every accepted connection is served to its end *)
(* and a server whose accept() fails returns, unless the process dies.     *)
Quiet ==
    \A c \in Clients :
        \/ client[c] \in {"new", "waiting", "gone"}
        \/ client[c] = "eof" /\ c \notin stalled
ServedToTheEnd ==
    <>[]Quiet =>
        /\ \A c \in Clients : pc[c] = "queued" ~> pc[c] = "done" \/ main = "exited"
        /\ main = "delete" ~> main \in {"returned", "exited"}

(* All that a client was sent came from its own task, and all that it sent *)
(* and that was read went there; OwnClient, below, is about the others.    *)
OwnAnswers(c) == \A i \in DOMAIN outbox[c] : outbox[c][i].by = c
Undisturbed(c) == OwnAnswers(c) /\ c \notin robbed

(* What such a client sees: its requests are answered once each, in the    *)
(* order it sent them, whatever pieces they arrive in; none is made up,    *)
(* and none follows the answer to a request with "Connection: close"       *)
(* (HttpServer.cc: "then shut down the connection -- we're done").         *)
Answered(c) ==
    /\ Len(outbox[c]) <= Len(asked[c])
    /\ \A i \in DOMAIN outbox[c] :
          /\ outbox[c][i].id = i
          /\ WantsClose(asked[c][i]) => i = Len(outbox[c])
AnswersInOrder == \A c \in Clients : Undisturbed(c) => Answered(c)

-----------------------------------------------------------------------------
(* The inductive invariant. *)

(* A task is where the pool says it is. *)
InPool ==
    \A c \in Clients :
        /\ pc[c] = "queued" <=> c \in ToSet(queue)
        /\ pc[c] \notin {"none", "queued", "done"} <=> c \in active
        /\ pc[c] = "done" <=> c \in done

(* A connection is accepted, dispatched and served once. *)
Lifecycle ==
    /\ \A j, k \in DOMAIN queue : queue[j] = queue[k] => j = k
    /\ hst # None => main \in {"dispatch", "exited"} /\ pc[hst] = "none"
    /\ main = "dispatch" => hst # None
    /\ \A c \in Clients :
          /\ client_fd[c] = None <=> pc[c] = "none" /\ c # hst
          /\ client_fd[c] = None <=> client[c] \in {"new", "waiting"}
          /\ main = "bind" => client_fd[c] = None
    /\ main = "returned" => queue = <<>> /\ active = {}

(* Its number still means the client's connection. *)
Connected(c) == client_fd[c] \in Fds /\ fdtab[client_fd[c]] = c

(* A number in use is the number of the task that owns the connection, and *)
(* no task has the number of the listening socket, so that no close() hits *)
(* that one.                                                               *)
Descriptors ==
    \A f \in Fds :
        /\ fdtab[f] \in Clients => client_fd[fdtab[f]] = f /\ pc[fdtab[f]] # "done"
        /\ fdtab[f] = Listening =>
              /\ main \notin {"bind", "returned"}
              /\ \A c \in Clients : client_fd[c] # f

(* A read or write is on a connection that was accepted, the task's own if *)
(* that one is still there.                                                *)
Peers ==
    \A c \in Clients : pc[c] \in {"read", "writing"} =>
        /\ client_fd[peer[c]] # None
        /\ Connected(c) => peer[c] = c

(* Requests are numbered in the order they are sent. *)
Numbered ==
    \A c \in Clients : \A i \in DOMAIN asked[c] :
        EndsHeader(asked[c][i]) /\ asked[c][i].id = i

(* Nothing has come and gone over a connection that was not accepted. *)
Untouched ==
    \A c \in Clients : client_fd[c] = None =>
        inbox[c] = <<>> /\ buffer_[c] = <<>> /\ outbox[c] = <<>> /\ asked[c] = <<>>

(* What was sent and not parsed, and how many requests were parsed. *)
Stream(c) == buffer_[c] \o inbox[c]
Serving == {"process", "write", "writing", "unwritten"}
Parsed(c) == Len(outbox[c]) + IF pc[c] \in Serving THEN 1 ELSE 0

(* The requests in a stream are those after the first n, all of them and   *)
(* in order.                                                               *)
Fits(stream, n, requests) ==
    /\ \A k \in DOMAIN stream : EndsHeader(stream[k]) =>
          /\ stream[k].id \in (n + 1)..Len(requests)
          /\ stream[k] = requests[stream[k].id]
    /\ \A j, k \in DOMAIN stream :
          j < k /\ EndsHeader(stream[j]) /\ EndsHeader(stream[k]) =>
              stream[j].id < stream[k].id
    /\ \A i \in (n + 1)..Len(requests) :
          \E k \in DOMAIN stream : stream[k] = requests[i]

(* The task is serving the last request it parsed, only that one may have  *)
(* asked to close, and the others are still to come.                       *)
InOrder(c) ==
    /\ Parsed(c) <= Len(asked[c])
    /\ pc[c] \in Serving \cup {"check"} =>
          Parsed(c) \in DOMAIN asked[c] /\ req[c] = asked[c][Parsed(c)]
    /\ \A i \in 1..Parsed(c) : WantsClose(asked[c][i]) =>
          i = Parsed(c) /\ pc[c] \in Serving \cup {"check"}
    /\ Fits(Stream(c), Parsed(c), asked[c])

(* A write() goes on after another thread has closed its number. *)
Served(c) == Connected(c) \/ (pc[c] = "writing" /\ peer[c] = c)

InService == \A c \in Clients : Served(c) /\ Undisturbed(c) => InOrder(c)

(* All that the descriptors and the pool take. *)
Bookkeeping == TypeOK /\ InPool /\ Lifecycle /\ Descriptors /\ Peers

IInv == Bookkeeping /\ Numbered /\ Untouched /\ InService /\ AnswersInOrder

-----------------------------------------------------------------------------
(* HttpServer.cc: "read and process the next request from our current      *)
(* client, then write out our response" - to that client.                  *)
OwnClient == \A c \in Clients : OwnAnswers(c)
=============================================================================
