----------------------------- MODULE ThreadPool -----------------------------
(***************************************************************************)
(* hw4/ThreadPool.cc: the constructor, Dispatch, the destructor and the    *)
(* worker routine ThreadLoop, over one pthread mutex (qlock_) and one      *)
(* condition variable (qcond_).                                            *)
(*                                                                         *)
(* One thread, the Owner, constructs the pool, dispatches tasks and        *)
(* destroys the pool, as HttpServer::Run and test_threadpool.cc do.  A     *)
(* step is the code between two points where a thread may block or let     *)
(* another in: taking the mutex is a step of its own, and so is what is    *)
(* done while it is held.                                                  *)
(***************************************************************************)
EXTENDS Integers, Sequences, FiniteSets, SequencesExt

CONSTANTS
    NumThreads,   \* the constructor's argument
    Tasks,        \* the Task objects the Owner may allocate and dispatch
    NoTask        \* what a thread holds when it holds no Task

ASSUME NumThreadsAssumption == NumThreads \in Nat \ {0}
ASSUME NoTaskAssumption == NoTask \notin Tasks

Owner   == 0
Workers == 1..NumThreads          \* thread_array_[k] is worker k+1
Threads == {Owner} \cup Workers
Nobody  == -1

VARIABLES
    qlock,                \* the thread holding qlock_, or Nobody
    work_queue,           \* work_queue_
    killthreads,          \* killthreads_
    num_threads_running,  \* num_threads_running_
    pc,                   \* where each thread is
    task,                 \* each thread's t / nextTask
    i,                    \* the Owner's loop index (constructor, destructor)
    num_threads,          \* the destructor's local copy
    dispatched,           \* history: the tasks given to Dispatch
    runs,                 \* history: how often each task's f_ was invoked
    finished              \* history: the tasks whose f_ has returned

poolState == <<work_queue, killthreads, num_threads_running>>
ownerVars == <<i, num_threads>>
history   == <<dispatched, runs, finished>>
vars      == <<qlock, poolState, pc, task, ownerVars, history>>

OwnerPCs ==
    {"ctor", "spawn", "ctor_test", "ctor_sleep", "ready", "dispatch",
     "dtor", "kill_loop", "join", "relock", "serial", "serial_run", "gone"}
WorkerPCs ==
    {"unborn", "start", "loop", "waiting", "reacquire", "drain", "running",
     "task_done", "exit", "dead"}

Init ==
    /\ qlock = Nobody
    /\ work_queue = <<>>
    /\ killthreads = FALSE
    /\ num_threads_running = 0
    /\ pc = [t \in Threads |-> IF t = Owner THEN "ctor" ELSE "unborn"]
    /\ task = [t \in Threads |-> NoTask]
    /\ i = 0
    /\ num_threads = 0
    /\ dispatched = {}
    /\ runs = [t \in Tasks |-> 0]
    /\ finished = {}

-----------------------------------------------------------------------------
(* pthread_mutex_lock, _unlock and the pc move that goes with them.        *)

Goto(t, to) == pc' = [pc EXCEPT ![t] = to]

Lock(t, from, to) ==
    /\ pc[t] = from
    /\ qlock = Nobody
    /\ qlock' = t
    /\ Goto(t, to)

Unlock == qlock' = Nobody

(* The threads blocked in pthread_cond_wait(&qcond_, ...). *)
qcond == {w \in Workers : pc[w] = "waiting"}

(* Mutant: front() without pop_front(). *)
TakeTask_NoPop(t) ==
    /\ work_queue # <<>>
    /\ work_queue' = work_queue
    /\ task' = [task EXCEPT ![t] = Head(work_queue)]
    /\ runs' = [runs EXCEPT ![Head(work_queue)] = @ + 1]

(* front(), pop_front() and the call of f_, as ThreadLoop and the          *)
(* destructor do it.                                                       *)
TakeTask(t) ==
    /\ work_queue # <<>>
    /\ work_queue' = Tail(work_queue)
    /\ task' = [task EXCEPT ![t] = Head(work_queue)]
    /\ runs' = [runs EXCEPT ![Head(work_queue)] = @ + 1]

(* f_ returns. *)
ReturnFromTask(t) ==
    /\ finished' = finished \cup {task[t]}
    /\ task' = [task EXCEPT ![t] = NoTask]

-----------------------------------------------------------------------------
(* ThreadPool::ThreadPool *)

CtorLock ==
    /\ Lock(Owner, "ctor", "spawn")
    /\ UNCHANGED <<poolState, task, ownerVars, history>>

(* One iteration of the pthread_create loop. *)
CtorSpawn ==
    /\ pc[Owner] = "spawn"
    /\ i' = i + 1
    /\ pc' = [pc EXCEPT ![i + 1] = "start",
                        ![Owner] = IF i + 1 = NumThreads THEN "ctor_test"
                                                         ELSE "spawn"]
    /\ UNCHANGED <<qlock, poolState, task, num_threads, history>>

(* The test of the "wait for all of the threads to be born" loop: either   *)
(* way the mutex is released.                                              *)
CtorTest ==
    /\ pc[Owner] = "ctor_test"
    /\ Unlock
    /\ Goto(Owner, IF num_threads_running = NumThreads THEN "ready"
                                                       ELSE "ctor_sleep")
    /\ UNCHANGED <<poolState, task, ownerVars, history>>

CtorWake ==
    /\ Lock(Owner, "ctor_sleep", "ctor_test")
    /\ UNCHANGED <<poolState, task, ownerVars, history>>

-----------------------------------------------------------------------------
(* ThreadPool::Dispatch *)

DispatchLock(t) ==
    /\ t \in Tasks \ dispatched
    /\ Lock(Owner, "ready", "dispatch")
    /\ task' = [task EXCEPT ![Owner] = t]
    /\ UNCHANGED <<poolState, ownerVars, history>>

(* Mutant: no pthread_cond_signal. *)
Dispatch_NoSignal ==
    /\ pc[Owner] = "dispatch"
    /\ killthreads = FALSE
    /\ work_queue' = Append(work_queue, task[Owner])
    /\ Goto(Owner, "ready")
    /\ Unlock
    /\ dispatched' = dispatched \cup {task[Owner]}
    /\ task' = [task EXCEPT ![Owner] = NoTask]
    /\ UNCHANGED <<killthreads, num_threads_running, ownerVars, runs, finished>>

(* Mutant: push_front instead of push_back. *)
Dispatch_PushFront ==
    /\ pc[Owner] = "dispatch"
    /\ killthreads = FALSE
    /\ work_queue' = <<task[Owner]>> \o work_queue
    /\ \/ /\ qcond = {}
          /\ Goto(Owner, "ready")
       \/ \E w \in qcond :
             pc' = [pc EXCEPT ![w] = "reacquire", ![Owner] = "ready"]
    /\ Unlock
    /\ dispatched' = dispatched \cup {task[Owner]}
    /\ task' = [task EXCEPT ![Owner] = NoTask]
    /\ UNCHANGED <<killthreads, num_threads_running, ownerVars, runs, finished>>

(* pthread_cond_signal wakes one waiter, if there is one. *)
Dispatch ==
    /\ pc[Owner] = "dispatch"
    /\ killthreads = FALSE
    /\ work_queue' = Append(work_queue, task[Owner])
    /\ \/ /\ qcond = {}
          /\ Goto(Owner, "ready")
       \/ \E w \in qcond :
             pc' = [pc EXCEPT ![w] = "reacquire", ![Owner] = "ready"]
    /\ Unlock
    /\ dispatched' = dispatched \cup {task[Owner]}
    /\ task' = [task EXCEPT ![Owner] = NoTask]
    /\ UNCHANGED <<killthreads, num_threads_running, ownerVars, runs, finished>>

-----------------------------------------------------------------------------
(* ThreadPool::~ThreadPool *)

DtorLock ==
    /\ Lock(Owner, "ready", "dtor")
    /\ UNCHANGED <<poolState, task, ownerVars, history>>

DtorKill ==
    /\ pc[Owner] = "dtor"
    /\ num_threads' = num_threads_running
    /\ killthreads' = TRUE
    /\ i' = 0
    /\ Goto(Owner, "kill_loop")
    /\ UNCHANGED <<qlock, work_queue, num_threads_running, task, history>>

(* Mutant: pthread_cond_signal instead of _broadcast. *)
DtorBroadcast_Signal ==
    /\ pc[Owner] = "kill_loop"
    /\ i < num_threads
    /\ \/ /\ qcond = {}
          /\ Goto(Owner, "join")
       \/ \E w \in qcond :
             pc' = [pc EXCEPT ![w] = "reacquire", ![Owner] = "join"]
    /\ Unlock
    /\ UNCHANGED <<poolState, task, ownerVars, history>>

(* pthread_cond_broadcast wakes every waiter; then the mutex is released. *)
DtorBroadcast ==
    /\ pc[Owner] = "kill_loop"
    /\ i < num_threads
    /\ pc' = [t \in Threads |-> IF t = Owner THEN "join"
                                ELSE IF t \in qcond THEN "reacquire"
                                ELSE pc[t]]
    /\ Unlock
    /\ UNCHANGED <<poolState, task, ownerVars, history>>

(* Mutant: the threads are not joined. *)
DtorJoin_NoWait ==
    /\ pc[Owner] = "join"
    /\ i' = i + 1
    /\ Goto(Owner, "relock")
    /\ UNCHANGED <<qlock, poolState, task, num_threads, history>>

(* pthread_join(thread_array_[i]) returns once that thread has returned. *)
DtorJoin ==
    /\ pc[Owner] = "join"
    /\ pc[i + 1] = "dead"
    /\ i' = i + 1
    /\ Goto(Owner, "relock")
    /\ UNCHANGED <<qlock, poolState, task, num_threads, history>>

DtorRelock ==
    /\ Lock(Owner, "relock", "kill_loop")
    /\ UNCHANGED <<poolState, task, ownerVars, history>>

(* Every join is done: Verify333(num_threads_running_ == 0), unlock. *)
DtorVerify ==
    /\ pc[Owner] = "kill_loop"
    /\ i >= num_threads
    /\ num_threads_running = 0
    /\ Unlock
    /\ Goto(Owner, "serial")
    /\ UNCHANGED <<poolState, task, ownerVars, history>>

(* "Empty the task queue, serially issuing any remaining work": no lock. *)
DtorTakeTask ==
    /\ pc[Owner] = "serial"
    /\ TakeTask(Owner)
    /\ Goto(Owner, "serial_run")
    /\ UNCHANGED <<qlock, killthreads, num_threads_running, ownerVars,
                   dispatched, finished>>

DtorTaskReturns ==
    /\ pc[Owner] = "serial_run"
    /\ ReturnFromTask(Owner)
    /\ Goto(Owner, "serial")
    /\ UNCHANGED <<qlock, poolState, ownerVars, dispatched, runs>>

(* Mutant: the destructor does not issue the remaining work. *)
DtorReturn_NoDrain ==
    /\ pc[Owner] = "serial"
    /\ Goto(Owner, "gone")
    /\ UNCHANGED <<qlock, poolState, task, ownerVars, history>>

DtorReturn ==
    /\ pc[Owner] = "serial"
    /\ work_queue = <<>>
    /\ Goto(Owner, "gone")
    /\ UNCHANGED <<qlock, poolState, task, ownerVars, history>>

-----------------------------------------------------------------------------
(* ThreadLoop *)

WorkerStart(w) ==
    /\ Lock(w, "start", "loop")
    /\ num_threads_running' = num_threads_running + 1
    /\ UNCHANGED <<work_queue, killthreads, task, ownerVars, history>>

(* The outer loop's test; pthread_cond_wait releases the mutex. *)
WorkerWait(w) ==
    /\ pc[w] = "loop"
    /\ killthreads = FALSE
    /\ Unlock
    /\ Goto(w, "waiting")
    /\ UNCHANGED <<poolState, task, ownerVars, history>>

WorkerSeesKill(w) ==
    /\ pc[w] = "loop"
    /\ killthreads = TRUE
    /\ Goto(w, "exit")
    /\ UNCHANGED <<qlock, poolState, task, ownerVars, history>>

(* POSIX lets pthread_cond_wait return with no signal. *)
SpuriousWakeup(w) ==
    /\ pc[w] = "waiting"
    /\ Goto(w, "reacquire")
    /\ UNCHANGED <<qlock, poolState, task, ownerVars, history>>

WorkerReacquire(w) ==
    /\ Lock(w, "reacquire", "drain")
    /\ UNCHANGED <<poolState, task, ownerVars, history>>

(* Mutant: the inner loop does not test killthreads_. *)
WorkerTakeTask_IgnoreKill(w) ==
    /\ pc[w] = "drain"
    /\ TakeTask(w)
    /\ Unlock
    /\ Goto(w, "running")
    /\ UNCHANGED <<killthreads, num_threads_running, ownerVars, dispatched,
                   finished>>

(* The inner loop: take a task, release the mutex and run it ... *)
WorkerTakeTask(w) ==
    /\ pc[w] = "drain"
    /\ killthreads = FALSE
    /\ TakeTask(w)
    /\ Unlock
    /\ Goto(w, "running")
    /\ UNCHANGED <<killthreads, num_threads_running, ownerVars, dispatched,
                   finished>>

(* ... or leave the loop when there is none, or the pool is dying. *)
WorkerNoTask(w) ==
    /\ pc[w] = "drain"
    /\ work_queue = <<>> \/ killthreads = TRUE
    /\ Goto(w, "loop")
    /\ UNCHANGED <<qlock, poolState, task, ownerVars, history>>

WorkerTaskReturns(w) ==
    /\ pc[w] = "running"
    /\ ReturnFromTask(w)
    /\ Goto(w, "task_done")
    /\ UNCHANGED <<qlock, poolState, ownerVars, dispatched, runs>>

(* Mutant: the mutex is not taken again after a task. *)
WorkerRelock_NoLock(w) ==
    /\ pc[w] = "task_done"
    /\ Goto(w, "drain")
    /\ UNCHANGED <<qlock, poolState, task, ownerVars, history>>

WorkerRelock(w) ==
    /\ Lock(w, "task_done", "drain")
    /\ UNCHANGED <<poolState, task, ownerVars, history>>

(* Mutant: the dying thread does not decrement the count. *)
WorkerExit_NotCounted(w) ==
    /\ pc[w] = "exit"
    /\ Unlock
    /\ Goto(w, "dead")
    /\ UNCHANGED <<poolState, task, ownerVars, history>>

WorkerExit(w) ==
    /\ pc[w] = "exit"
    /\ num_threads_running' = num_threads_running - 1
    /\ Unlock
    /\ Goto(w, "dead")
    /\ UNCHANGED <<work_queue, killthreads, task, ownerVars, history>>

-----------------------------------------------------------------------------
(* The Owner's calls, and what each call does once it has been made. *)
OwnerCalls == \/ \E t \in Tasks : DispatchLock(t)
              \/ DtorLock

OwnerStep ==
    \/ CtorLock \/ CtorSpawn \/ CtorTest \/ CtorWake
    \/ Dispatch
    \/ DtorKill \/ DtorBroadcast \/ DtorJoin \/ DtorRelock \/ DtorVerify
    \/ DtorTakeTask \/ DtorTaskReturns \/ DtorReturn

WorkerStep(w) ==
    \/ WorkerStart(w) \/ WorkerWait(w) \/ WorkerSeesKill(w)
    \/ WorkerReacquire(w) \/ WorkerTakeTask(w) \/ WorkerNoTask(w)
    \/ WorkerTaskReturns(w) \/ WorkerRelock(w) \/ WorkerExit(w)

(* The pool is gone: nothing is left to happen. *)
PoolGone ==
    /\ pc[Owner] = "gone"
    /\ UNCHANGED vars

Next ==
    \/ OwnerCalls
    \/ OwnerStep
    \/ \E w \in Workers : WorkerStep(w) \/ SpuriousWakeup(w)
    \/ PoolGone

Spec == Init /\ [][Next]_vars

(***************************************************************************)
(* The scheduler runs every thread, the mutex does not starve a thread     *)
(* that keeps asking for it (strong fairness: between two of its attempts  *)
(* every other thread sleeps, waits, or runs a task without it), and task  *)
(* functions return.  Nothing obliges the Owner to call anything, and      *)
(* nothing obliges the system to wake a waiter spuriously.                 *)
(***************************************************************************)
FairSpec ==
    /\ Spec
    /\ SF_vars(OwnerStep)
    /\ \A w \in Workers : SF_vars(WorkerStep(w))

-----------------------------------------------------------------------------
(* Every variable stays in the range the C++ declarations intend; in       *)
(* particular the unsigned num_threads_running_ never goes below zero.     *)
TypeOK ==
    /\ qlock \in Threads \cup {Nobody}
    /\ work_queue \in Seq(Tasks)
    /\ killthreads \in BOOLEAN
    /\ num_threads_running \in 0..NumThreads
    /\ pc \in [Threads -> OwnerPCs \cup WorkerPCs]
    /\ pc[Owner] \in OwnerPCs
    /\ \A w \in Workers : pc[w] \in WorkerPCs
    /\ task \in [Threads -> Tasks \cup {NoTask}]
    /\ i \in 0..NumThreads
    /\ num_threads \in 0..NumThreads
    /\ dispatched \subseteq Tasks
    /\ runs \in [Tasks -> Nat]
    /\ finished \subseteq Tasks

(* The points at which a thread reads or writes work_queue_, killthreads_  *)
(* or num_threads_running_.                                                *)
LockedPCs ==
    {"spawn", "ctor_test", "dispatch", "dtor", "kill_loop",
     "loop", "drain", "exit"}
TouchesPool(t) == pc[t] \in LockedPCs \cup {"serial"}

(* The pool's shared fields are never touched by two threads at once, not  *)
(* even by the destructor's tail, which empties work_queue_ after it has   *)
(* released qlock_ (ThreadPool.cc:85-92).                                  *)
NoDataRace ==
    \A t, u \in Threads : TouchesPool(t) /\ TouchesPool(u) => t = u

(* num_threads_running_ counts the threads that have entered ThreadLoop's  *)
(* critical section and not left it: the destructor copies it as the       *)
(* number of threads to join.                                              *)
Counted == {w \in Workers : pc[w] \notin {"unborn", "start", "dead"}}
RunningCount == num_threads_running = Cardinality(Counted)

(* ~ThreadPool's Verify333(num_threads_running_ == 0) (ThreadPool.cc:80)   *)
(* never ends the process: once the last join returns, no worker is left.  *)
JoinedAll ==
    /\ pc[Owner] = "kill_loop" /\ i >= num_threads =>
          num_threads_running = 0
    /\ pc[Owner] \in {"serial", "serial_run", "gone"} =>
          \A w \in Workers : pc[w] = "dead"

(* No wake-up is lost: if a worker sleeps in pthread_cond_wait although    *)
(* tasks are queued, then for each queued task another worker is on its    *)
(* way to the queue (woken, or back from a task).                          *)
OnTheWay == {w \in Workers : pc[w] \in {"reacquire", "drain", "task_done"}}
WorkConserving == qcond # {} => Len(work_queue) <= Cardinality(OnTheWay)

(* Each dispatched task is in exactly one place: queued once, held by one  *)
(* thread, or finished; its f_ has been invoked once if it left the queue  *)
(* and never otherwise (the Task is deleted by its f_, so a second         *)
(* invocation would be a use after free).                                  *)
Holders == {t \in Threads : pc[t] \in {"running", "serial_run"}}
Running == {task[t] : t \in Holders}
RunOnce ==
    /\ \A j, k \in DOMAIN work_queue : work_queue[j] = work_queue[k] => j = k
    /\ \A t, u \in Holders : task[t] = task[u] => t = u
    /\ ToSet(work_queue) \cap Running = {}
    /\ ToSet(work_queue) \cap finished = {}
    /\ Running \cap finished = {}
    /\ dispatched = ToSet(work_queue) \cup Running \cup finished
    /\ \A t \in Tasks : runs[t] = IF t \in Running \cup finished THEN 1 ELSE 0

(* Once the destructor has set killthreads_, no worker picks up another    *)
(* task: what is queued then is left for the destructor's serial loop.     *)
NoStartAfterKill ==
    [][killthreads => \A w \in Workers : task'[w] \in {task[w], NoTask}]_vars

(* Every task handed to Dispatch is run to completion, by a worker or by   *)
(* the destructor (test_threadpool.cc:57-62: all 300 tasks finish), and    *)
(* deleting the pool returns with every dispatched task done.              *)
EveryTaskFinishes ==
    /\ \A t \in Tasks : t \in dispatched ~> t \in finished
    /\ pc[Owner] = "dtor" ~> (pc[Owner] = "gone" /\ finished = dispatched)

-----------------------------------------------------------------------------
(* The inductive invariant: what the properties above rest on. *)

(* The mutex is held exactly by the thread that is inside a locked region. *)
LockHeld == \A t \in Threads : qlock = t <=> pc[t] \in LockedPCs

InCtor == pc[Owner] \in {"ctor", "spawn", "ctor_test", "ctor_sleep"}
InDtor == pc[Owner] \in {"kill_loop", "join", "relock", "serial",
                         "serial_run", "gone"}

(* Workers are born in order while the constructor holds the mutex, and    *)
(* the constructor returns only once each has been counted.                *)
Births ==
    /\ pc[Owner] = "ctor" => i = 0
    /\ pc[Owner] = "spawn" => i < NumThreads
    /\ pc[Owner] \in {"ctor", "spawn"} =>
          \A w \in Workers : pc[w] = IF w <= i THEN "start" ELSE "unborn"
    /\ pc[Owner] \notin {"ctor", "spawn"} =>
          \A w \in Workers : pc[w] # "unborn"
    /\ ~InCtor => \A w \in Workers : pc[w] # "start"

(* Workers die only after killthreads_ is set, in any order; the           *)
(* destructor joins them in order.                                         *)
Deaths ==
    /\ killthreads <=> InDtor
    /\ InDtor => num_threads = NumThreads
    /\ \A w \in Workers : pc[w] \in {"exit", "dead"} => killthreads
    /\ InDtor => \A w \in Workers : w <= i => pc[w] = "dead"
    /\ pc[Owner] = "join" => i < NumThreads
    /\ pc[Owner] \in {"serial", "serial_run", "gone"} => i = NumThreads

(* A worker is back at the outer loop only with nothing left to take, and  *)
(* the first broadcast leaves nobody waiting.                              *)
Sleepers ==
    /\ InCtor => work_queue = <<>>
    /\ \A w \in Workers :
          pc[w] = "loop" => killthreads \/ work_queue = <<>>
    /\ InDtor /\ ~(pc[Owner] = "kill_loop" /\ i = 0) => qcond = {}

(* The thread that runs or dispatches a task holds one. *)
Held ==
    /\ \A t \in Holders : task[t] \in Tasks
    /\ pc[Owner] = "dispatch" => task[Owner] \in Tasks \ dispatched

IInv ==
    /\ TypeOK
    /\ LockHeld
    /\ Births
    /\ Deaths
    /\ Sleepers
    /\ Held
    /\ RunningCount
    /\ WorkConserving
    /\ RunOnce

-----------------------------------------------------------------------------
(* The pool implements the abstract one. *)
Phase ==
    CASE pc[Owner] \in {"serial", "serial_run"} -> "draining"
      [] pc[Owner] = "gone"                     -> "gone"
      [] OTHER -> IF killthreads THEN "closing" ELSE "open"

Abstract == INSTANCE TaskPool WITH
    queue  <- work_queue,
    active <- Running,
    done   <- finished,
    phase  <- Phase

(* Every behaviour of the pool's threads is one TaskPool allows: FIFO      *)
(* start, at most NumThreads at once, serial draining after a deletion.    *)
ImplementsTaskPool == Abstract!Spec

(* With fair threads the pool also keeps TaskPool's progress promises.     *)
ImplementsFairTaskPool == Abstract!FairSpec
=============================================================================
