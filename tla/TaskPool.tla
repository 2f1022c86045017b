------------------------------ MODULE TaskPool ------------------------------
(***************************************************************************)
(* What hw4's ThreadPool promises its customers (hw4/ThreadPool.h), with   *)
(* no threads, no lock and no condition variable: tasks are started in the *)
(* order they were dispatched, each exactly once, at most NumThreads at a  *)
(* time; deleting the pool starts nothing new until the running tasks have *)
(* finished, and then runs what is left one task at a time.                *)
(***************************************************************************)
EXTENDS Naturals, Sequences, FiniteSets, SequencesExt

CONSTANTS
    Tasks,       \* the Task objects customers may dispatch
    NumThreads   \* the constructor's num_threads

VARIABLES
    queue,       \* dispatched and not started
    active,      \* started and not finished
    done,        \* finished
    phase        \* "open", "closing", "draining" or "gone"

poolVars == <<queue, active, done, phase>>

Init ==
    /\ queue = <<>>
    /\ active = {}
    /\ done = {}
    /\ phase = "open"

(* A customer hands over a Task it has just allocated. *)
Submit(t) ==
    /\ phase = "open"
    /\ t \notin ToSet(queue) \cup active \cup done
    /\ queue' = Append(queue, t)
    /\ UNCHANGED <<active, done, phase>>

(* While open up to NumThreads tasks run; while draining, one at a time. *)
MayStart ==
    \/ phase = "open" /\ Cardinality(active) < NumThreads
    \/ phase = "draining" /\ active = {}

Start ==
    /\ MayStart
    /\ queue # <<>>
    /\ queue' = Tail(queue)
    /\ active' = active \cup {Head(queue)}
    /\ UNCHANGED <<done, phase>>

Finish(t) ==
    /\ t \in active
    /\ active' = active \ {t}
    /\ done' = done \cup {t}
    /\ UNCHANGED <<queue, phase>>

(* The customer deletes the pool. *)
Close ==
    /\ phase = "open"
    /\ phase' = "closing"
    /\ UNCHANGED <<queue, active, done>>

Drain ==
    /\ phase = "closing"
    /\ active = {}
    /\ phase' = "draining"
    /\ UNCHANGED <<queue, active, done>>

Vanish ==
    /\ phase = "draining"
    /\ queue = <<>>
    /\ active = {}
    /\ phase' = "gone"
    /\ UNCHANGED <<queue, active, done>>

Gone ==
    /\ phase = "gone"
    /\ UNCHANGED poolVars

Next ==
    \/ \E t \in Tasks : Submit(t) \/ Finish(t)
    \/ Start
    \/ Close
    \/ Drain
    \/ Vanish
    \/ Gone

Spec == Init /\ [][Next]_poolVars

(* The pool keeps starting work, tasks return, and a deletion completes.   *)
FairSpec ==
    /\ Spec
    /\ WF_poolVars(Start)
    /\ WF_poolVars(Drain)
    /\ WF_poolVars(Vanish)
    /\ \A t \in Tasks : WF_poolVars(Finish(t))

=============================================================================
