-------------------------- MODULE ThreadPoolProofs --------------------------
(***************************************************************************)
(* Proofs, for every number of worker threads and every set of tasks, of   *)
(* ThreadPool's safety properties and of its refinement of TaskPool.       *)
(*                                                                         *)
(* IInv is preserved part by part: each ...Step lemma below proves one     *)
(* part, with one step per action of ThreadPool.cc.  Most actions touch    *)
(* neither the tasks nor the census of workers; the ...Frame lemmas        *)
(* dispose of them.                                                        *)
(***************************************************************************)
EXTENDS ThreadPool, FiniteSetTheorems, SequenceTheorems, TLAPS

USE NumThreadsAssumption, NoTaskAssumption DEF Owner, Workers, Threads, Nobody

-----------------------------------------------------------------------------
(* Facts about sets of workers and about the queue. *)

(* A set of workers is finite, has at most NumThreads members, and has     *)
(* NumThreads of them only if it has them all.                             *)
LEMMA WorkerSets ==
    ASSUME NEW S \in SUBSET Workers
    PROVE  /\ IsFiniteSet(S)
           /\ Cardinality(S) \in 0..NumThreads
           /\ Cardinality(S) = NumThreads <=> S = Workers
           /\ Cardinality(S) = 0 <=> S = {}
<1>1. IsFiniteSet(Workers) /\ Cardinality(Workers) = NumThreads
  BY FS_Interval
<1>2. /\ IsFiniteSet(S)
      /\ Cardinality(S) <= Cardinality(Workers)
      /\ Cardinality(Workers) = Cardinality(S) => Workers = S
  BY <1>1, FS_Subset
<1>3. Cardinality(S) \in Nat
  BY <1>2, FS_CardinalityType
<1>4. Cardinality(S) = 0 <=> S = {}
  BY <1>2, FS_EmptySet
<1>5. QED
  BY <1>1, <1>2, <1>3, <1>4

(* One worker joins or leaves a set of workers. *)
LEMMA WorkerSetChange ==
    ASSUME NEW S \in SUBSET Workers, NEW w \in Workers
    PROVE  /\ w \notin S => Cardinality(S \cup {w}) = Cardinality(S) + 1
           /\ w \in S => Cardinality(S \ {w}) = Cardinality(S) - 1
<1>1. IsFiniteSet(S)
  BY WorkerSets
<1>2. QED
  BY <1>1, FS_AddElement, FS_RemoveElement

(* What pop_front leaves of the queue. *)
LEMMA QueueTail ==
    ASSUME NEW q \in Seq(Tasks), q # <<>>
    PROVE  /\ Head(q) \in Tasks
           /\ Tail(q) \in Seq(Tasks)
           /\ Len(Tail(q)) = Len(q) - 1
           /\ DOMAIN q = 1..Len(q)
           /\ DOMAIN Tail(q) = 1..(Len(q) - 1)
           /\ \A k \in DOMAIN Tail(q) : Tail(q)[k] = q[k + 1]
           /\ Head(q) = q[1]
           /\ ToSet(q) = {Head(q)} \cup ToSet(Tail(q))
<1>1. /\ Head(q) \in Tasks
      /\ Tail(q) \in Seq(Tasks)
      /\ Len(q) \in Nat \ {0}
      /\ Len(Tail(q)) = Len(q) - 1
      /\ DOMAIN q = 1..Len(q)
      /\ DOMAIN Tail(q) = 1..(Len(q) - 1)
      /\ \A k \in DOMAIN Tail(q) : Tail(q)[k] = q[k + 1]
      /\ Head(q) = q[1]
  BY HeadTailProperties
<1>2. ToSet(q) \subseteq {Head(q)} \cup ToSet(Tail(q))
  <2> SUFFICES ASSUME NEW k \in DOMAIN q, k # 1
               PROVE  q[k] \in ToSet(Tail(q))
    BY <1>1 DEF ToSet
  <2>1. k - 1 \in DOMAIN Tail(q) /\ Tail(q)[k - 1] = q[k]
    BY <1>1
  <2>2. QED
    BY <2>1 DEF ToSet
<1>3. {Head(q)} \cup ToSet(Tail(q)) \subseteq ToSet(q)
  <2>1. Head(q) \in ToSet(q)
    BY <1>1 DEF ToSet
  <2>2. ASSUME NEW k \in DOMAIN Tail(q) PROVE Tail(q)[k] \in ToSet(q)
    <3>1. k + 1 \in DOMAIN q
      BY <1>1
    <3>2. QED
      BY <3>1, <1>1 DEF ToSet
  <2>3. QED
    BY <2>1, <2>2 DEF ToSet
<1>4. QED
  BY <1>1, <1>2, <1>3

(* What push_back adds to the queue. *)
LEMMA QueueAppend ==
    ASSUME NEW q \in Seq(Tasks), NEW t \in Tasks
    PROVE  /\ Append(q, t) \in Seq(Tasks)
           /\ Len(Append(q, t)) = Len(q) + 1
           /\ ToSet(Append(q, t)) = ToSet(q) \cup {t}
           /\ DOMAIN q = 1..Len(q)
           /\ DOMAIN Append(q, t) = 1..(Len(q) + 1)
           /\ \A k \in DOMAIN q : Append(q, t)[k] = q[k]
           /\ Append(q, t)[Len(q) + 1] = t
<1>1. /\ Append(q, t) \in Seq(Tasks)
      /\ Len(q) \in Nat
      /\ Len(Append(q, t)) = Len(q) + 1
      /\ DOMAIN q = 1..Len(q)
      /\ DOMAIN Append(q, t) = 1..(Len(q) + 1)
      /\ \A k \in DOMAIN q : Append(q, t)[k] = q[k]
      /\ Append(q, t)[Len(q) + 1] = t
  BY AppendProperties
<1>2. ToSet(Append(q, t)) = ToSet(q) \cup {t}
  <2>1. ToSet(q) \cup {t} \subseteq ToSet(Append(q, t))
    <3>1. \A k \in DOMAIN q : k \in DOMAIN Append(q, t)
      BY <1>1
    <3>2. Len(q) + 1 \in DOMAIN Append(q, t)
      BY <1>1
    <3>3. QED
      BY <1>1, <3>1, <3>2 DEF ToSet
  <2>2. ASSUME NEW k \in DOMAIN Append(q, t)
        PROVE  Append(q, t)[k] \in ToSet(q) \cup {t}
    <3>1. k \in DOMAIN q \/ k = Len(q) + 1
      BY <1>1
    <3>2. QED
      BY <1>1, <3>1 DEF ToSet
  <2>3. QED
    BY <2>1, <2>2 DEF ToSet
<1>3. QED
  BY <1>1, <1>2
(* Running, when no thread starts or ends a task. *)
LEMMA RunningFrame ==
    ASSUME Holders' = Holders, \A t \in Holders : task'[t] = task[t]
    PROVE  Running' = Running
BY DEF Running

(* Thread h starts the task at the head of the queue. *)
LEMMA RunningTake ==
    ASSUME TypeOK, NEW h \in Threads, h \notin Holders, TakeTask(h),
           Holders' = Holders \cup {h}
    PROVE  Running' = Running \cup {Head(work_queue)}
<1>1. task'[h] = Head(work_queue) /\ \A t \in Holders : task'[t] = task[t]
  BY DEF TakeTask, TypeOK, Holders
<1>2. QED
  BY <1>1 DEF Running

(* Thread h's task returns; by RunOnce nobody else was running it. *)
LEMMA RunningReturn ==
    ASSUME TypeOK, RunOnce, NEW h \in Threads, h \in Holders,
           ReturnFromTask(h), Holders' = Holders \ {h}
    PROVE  Running' = Running \ {task[h]}
<1>1. \A t \in Holders' : task'[t] = task[t]
  BY DEF ReturnFromTask, TypeOK, Holders
<1>2. Running' = {task[t] : t \in Holders \ {h}}
  BY <1>1 DEF Running
<1>3. \A t \in Holders \ {h} : task[t] # task[h]
  BY DEF RunOnce
<1>4. QED
  BY <1>2, <1>3 DEF Running

(* A step that moves no task leaves RunOnce alone. *)
LEMMA RunOnceFrame ==
    ASSUME RunOnce, Holders' = Holders, \A t \in Holders : task'[t] = task[t],
           UNCHANGED <<work_queue, history>>
    PROVE  RunOnce'
<1>1. Running' = Running
  BY RunningFrame
<1>2. QED
  BY <1>1 DEF RunOnce, history, ToSet

(* Thread h takes the first task of the queue and starts to run it. *)
LEMMA RunOnceTake ==
    ASSUME TypeOK, RunOnce, NEW h \in Threads, h \notin Holders,
           TakeTask(h), Holders' = Holders \cup {h},
           UNCHANGED <<dispatched, finished>>
    PROVE  RunOnce'
<1> DEFINE hd == Head(work_queue)
<1>1. /\ hd \in Tasks
      /\ ToSet(work_queue) = {hd} \cup ToSet(work_queue')
      /\ DOMAIN work_queue = 1..Len(work_queue)
      /\ DOMAIN work_queue' = 1..(Len(work_queue) - 1)
      /\ \A k \in DOMAIN work_queue' : work_queue'[k] = work_queue[k + 1]
      /\ hd = work_queue[1]
  BY QueueTail DEF TakeTask, TypeOK
<1>2. Len(work_queue) \in Nat \ {0}
  BY DEF TakeTask, TypeOK
<1>3. task'[h] = hd /\ \A t \in Holders : task'[t] = task[t]
  BY DEF TakeTask, TypeOK, Holders
<1>4. Running' = Running \cup {hd}
  BY RunningTake
<1>5. \A j, k \in DOMAIN work_queue' : work_queue'[j] = work_queue'[k] => j = k
  <2> SUFFICES ASSUME NEW j \in DOMAIN work_queue', NEW k \in DOMAIN work_queue',
                      work_queue'[j] = work_queue'[k]
               PROVE  j = k
    OBVIOUS
  <2>1. j + 1 \in DOMAIN work_queue /\ k + 1 \in DOMAIN work_queue
    BY <1>1, <1>2
  <2>2. j + 1 = k + 1
    BY <1>1, <2>1 DEF RunOnce
  <2>3. QED
    BY <1>1, <1>2, <2>2
<1>6. hd \notin ToSet(work_queue')
  <2> SUFFICES ASSUME NEW k \in DOMAIN work_queue', work_queue'[k] = hd
               PROVE  FALSE
    BY DEF ToSet
  <2>1. k + 1 \in DOMAIN work_queue /\ 1 \in DOMAIN work_queue /\ k + 1 # 1
    BY <1>1, <1>2
  <2>2. QED
    BY <1>1, <2>1 DEF RunOnce
<1>7. hd \notin Running /\ hd \notin finished
  BY <1>1 DEF RunOnce
<1>8. \A t, u \in Holders' : task'[t] = task'[u] => t = u
  BY <1>3, <1>7 DEF RunOnce, Running
<1>9. /\ ToSet(work_queue') \cap Running' = {}
      /\ ToSet(work_queue') \cap finished' = {}
      /\ Running' \cap finished' = {}
      /\ dispatched' = ToSet(work_queue') \cup Running' \cup finished'
  BY <1>1, <1>4, <1>6, <1>7 DEF RunOnce
<1>10. \A t \in Tasks : runs'[t] = IF t \in Running' \cup finished' THEN 1 ELSE 0
  <2>1. runs' = [runs EXCEPT ![hd] = @ + 1] /\ runs \in [Tasks -> Nat]
    BY DEF TakeTask, TypeOK
  <2>2. \A t \in Tasks : runs[t] = IF t \in Running \cup finished THEN 1 ELSE 0
    BY DEF RunOnce
  <2>3. QED
    BY <1>1, <1>4, <1>7, <2>1, <2>2
<1>11. QED
  BY <1>5, <1>8, <1>9, <1>10 DEF RunOnce, ToSet

(* Thread h's task returns. *)
LEMMA RunOnceReturn ==
    ASSUME TypeOK, RunOnce, NEW h \in Threads, h \in Holders,
           ReturnFromTask(h), Holders' = Holders \ {h},
           UNCHANGED <<work_queue, dispatched, runs>>
    PROVE  RunOnce'
<1>1. \A t \in Holders' : task'[t] = task[t]
  BY DEF ReturnFromTask, TypeOK, Holders
<1>2. Running' = Running \ {task[h]} /\ task[h] \in Running
  BY RunningReturn DEF Running
<1>3. finished' = finished \cup {task[h]}
  BY DEF ReturnFromTask
<1>4. Running' \cup finished' = Running \cup finished
  BY <1>2, <1>3
<1>5. QED
  <2>1. \A t, u \in Holders' : task'[t] = task'[u] => t = u
    BY <1>1 DEF RunOnce
  <2>2. /\ ToSet(work_queue) \cap Running' = {}
        /\ ToSet(work_queue) \cap finished' = {}
        /\ Running' \cap finished' = {}
        /\ dispatched = ToSet(work_queue) \cup Running' \cup finished'
    BY <1>2, <1>3 DEF RunOnce
  <2>3. \A t \in Tasks : runs[t] = IF t \in Running' \cup finished' THEN 1 ELSE 0
    BY <1>4 DEF RunOnce
  <2>4. QED
    BY <2>1, <2>2, <2>3 DEF RunOnce, ToSet

(* The Owner pushes a fresh task. *)
LEMMA RunOnceDispatch ==
    ASSUME TypeOK, Held, RunOnce, Dispatch
    PROVE  RunOnce'
<1> DEFINE t0 == task[Owner]
<1>1. t0 \in Tasks /\ t0 \notin dispatched
  BY DEF Held, Dispatch
<1>2. /\ ToSet(work_queue') = ToSet(work_queue) \cup {t0}
      /\ DOMAIN work_queue = 1..Len(work_queue)
      /\ DOMAIN work_queue' = 1..(Len(work_queue) + 1)
      /\ \A k \in DOMAIN work_queue : work_queue'[k] = work_queue[k]
      /\ work_queue'[Len(work_queue) + 1] = t0
  BY <1>1, QueueAppend DEF Dispatch, TypeOK
<1>3. Len(work_queue) \in Nat
  BY DEF TypeOK
<1>4. Holders' = Holders /\ \A t \in Holders : task'[t] = task[t]
  <2>1. Owner \notin Holders
    BY DEF Dispatch, Holders
  <2>2. \A t \in Threads : pc'[t] \in {"running", "serial_run"} <=>
                           pc[t] \in {"running", "serial_run"}
    BY DEF Dispatch, Goto, qcond, TypeOK
  <2>3. QED
    BY <2>1, <2>2 DEF Dispatch, Holders, TypeOK
<1>5. Running' = Running
  BY <1>4 DEF Running
<1>6. t0 \notin ToSet(work_queue) /\ t0 \notin Running /\ t0 \notin finished
  BY <1>1 DEF RunOnce
<1>7. \A j, k \in DOMAIN work_queue' : work_queue'[j] = work_queue'[k] => j = k
  <2> SUFFICES ASSUME NEW j \in DOMAIN work_queue', NEW k \in DOMAIN work_queue',
                      work_queue'[j] = work_queue'[k]
               PROVE  j = k
    OBVIOUS
  <2>1. /\ j \in DOMAIN work_queue \/ j = Len(work_queue) + 1
        /\ k \in DOMAIN work_queue \/ k = Len(work_queue) + 1
    BY <1>2, <1>3
  <2>2. \A m \in DOMAIN work_queue : work_queue[m] # t0
    BY <1>6 DEF ToSet
  <2>3. QED
    BY <1>2, <2>1, <2>2 DEF RunOnce
<1>8. UNCHANGED <<runs, finished>> /\ dispatched' = dispatched \cup {t0}
  BY DEF Dispatch
<1>9. /\ \A t, u \in Holders' : task'[t] = task'[u] => t = u
      /\ \A t \in Tasks : runs'[t] = IF t \in Running' \cup finished' THEN 1 ELSE 0
  BY <1>4, <1>5, <1>8 DEF RunOnce
<1>10. /\ ToSet(work_queue') \cap Running' = {}
       /\ ToSet(work_queue') \cap finished' = {}
       /\ Running' \cap finished' = {}
       /\ dispatched' = ToSet(work_queue') \cup Running' \cup finished'
  BY <1>2, <1>5, <1>6, <1>8 DEF RunOnce
<1>11. QED
  BY <1>7, <1>9, <1>10 DEF RunOnce, ToSet

(* Two more frames: a step in which no worker is born, dies, falls asleep, *)
(* wakes, takes or returns from a task.                                    *)
LEMMA CountFrame ==
    ASSUME RunningCount, Counted' = Counted, UNCHANGED num_threads_running
    PROVE  RunningCount'
BY DEF RunningCount

(* The same for WorkConserving. *)
LEMMA ConservingFrame ==
    ASSUME WorkConserving, OnTheWay' = OnTheWay, qcond' = qcond,
           UNCHANGED work_queue
    PROVE  WorkConserving'
BY DEF WorkConserving

(* The pcs after Dispatch has woken worker w. *)
LEMMA WakeOne ==
    ASSUME NEW S, NEW f \in [Threads -> S], NEW w \in Workers
    PROVE  LET g == [f EXCEPT ![w] = "reacquire", ![Owner] = "ready"]
           IN  g[Owner] = "ready" /\ \A u \in Workers : g[u] \in {f[u], "reacquire"}
<1>1. \A u \in Workers : u # Owner /\ u \in Threads
  OBVIOUS
<1>2. Owner \in Threads
  OBVIOUS
<1>3. QED
  BY <1>1, <1>2

(* Locking and unlocking keep the mutex with the thread that is inside. *)
LEMMA LockHeldStep ==
    ASSUME TypeOK, LockHeld, Births, [Next]_vars
    PROVE  LockHeld'
<1> USE DEF TypeOK, LockHeld, LockedPCs, Goto, Lock, Unlock
<1>1. ASSUME NEW t \in Tasks, DispatchLock(t) PROVE LockHeld'
  BY <1>1 DEF DispatchLock
<1>2. CASE DtorLock  BY <1>2 DEF DtorLock
<1>3. CASE OwnerStep
  <2>1. CASE CtorLock  BY <2>1 DEF CtorLock
  <2>2. CASE CtorSpawn  BY <2>2 DEF CtorSpawn, Births
  <2>3. CASE CtorTest  BY <2>3 DEF CtorTest
  <2>4. CASE CtorWake  BY <2>4 DEF CtorWake
  <2>5. CASE Dispatch
    <3>1. qlock' = Nobody /\ pc[Owner] = "dispatch"
      BY <2>5 DEF Dispatch
    <3>2. /\ pc'[Owner] = "ready"
          /\ \A w \in Workers : pc'[w] \in {pc[w], "reacquire"}
      <4>1. CASE Goto(Owner, "ready")
        BY <4>1
      <4>2. CASE \E w \in qcond :
                    pc' = [pc EXCEPT ![w] = "reacquire", ![Owner] = "ready"]
        <5>1. PICK w \in Workers :
                    pc' = [pc EXCEPT ![w] = "reacquire", ![Owner] = "ready"]
          BY <4>2 DEF qcond
        <5>2. QED
          BY <5>1, WakeOne
      <4>3. QED
        BY <2>5, <4>1, <4>2 DEF Dispatch
    <3>3. \A w \in Workers : pc[w] \notin LockedPCs
      BY <3>1
    <3>4. QED
      BY <3>1, <3>2, <3>3
  <2>6. CASE DtorKill  BY <2>6 DEF DtorKill
  <2>7. CASE DtorBroadcast  BY <2>7 DEF DtorBroadcast, qcond
  <2>8. CASE DtorJoin  BY <2>8 DEF DtorJoin
  <2>9. CASE DtorRelock  BY <2>9 DEF DtorRelock
  <2>10. CASE DtorVerify  BY <2>10 DEF DtorVerify
  <2>11. CASE DtorTakeTask  BY <2>11 DEF DtorTakeTask
  <2>12. CASE DtorTaskReturns  BY <2>12 DEF DtorTaskReturns
  <2>13. CASE DtorReturn  BY <2>13 DEF DtorReturn
  <2>14. QED
    BY <1>3, <2>1, <2>2, <2>3, <2>4, <2>5, <2>6, <2>7, <2>8, <2>9, <2>10,
       <2>11, <2>12, <2>13 DEF OwnerStep
<1>4. ASSUME NEW w \in Workers, WorkerStep(w) \/ SpuriousWakeup(w)
      PROVE  LockHeld'
  <2>1. CASE WorkerStart(w)  BY <2>1 DEF WorkerStart
  <2>2. CASE WorkerWait(w)  BY <2>2 DEF WorkerWait
  <2>3. CASE WorkerSeesKill(w)  BY <2>3 DEF WorkerSeesKill
  <2>4. CASE WorkerReacquire(w)  BY <2>4 DEF WorkerReacquire
  <2>5. CASE WorkerTakeTask(w)  BY <2>5 DEF WorkerTakeTask
  <2>6. CASE WorkerNoTask(w)  BY <2>6 DEF WorkerNoTask
  <2>7. CASE WorkerTaskReturns(w)  BY <2>7 DEF WorkerTaskReturns
  <2>8. CASE WorkerRelock(w)  BY <2>8 DEF WorkerRelock
  <2>9. CASE WorkerExit(w)  BY <2>9 DEF WorkerExit
  <2>10. CASE SpuriousWakeup(w)  BY <2>10 DEF SpuriousWakeup
  <2>11. QED
    BY <1>4, <2>1, <2>2, <2>3, <2>4, <2>5, <2>6, <2>7, <2>8, <2>9, <2>10 DEF WorkerStep
<1>5. CASE PoolGone \/ UNCHANGED vars
  BY <1>5 DEF PoolGone, vars
<1>6. QED
  BY <1>1, <1>2, <1>3, <1>4, <1>5 DEF Next, OwnerCalls

(* The constructor returns only when every worker has been counted. *)
LEMMA BirthsStep ==
    ASSUME TypeOK, LockHeld, Births, Deaths, RunningCount, [Next]_vars
    PROVE  Births'
<1> USE DEF TypeOK, Births, InCtor, Goto, Lock, Unlock, ownerVars
<1>1. ASSUME NEW t \in Tasks, DispatchLock(t) PROVE Births'
  BY <1>1 DEF DispatchLock
<1>2. CASE DtorLock  BY <1>2 DEF DtorLock
<1>3. CASE OwnerStep
  <2>1. CASE CtorLock  BY <2>1 DEF CtorLock
  <2>2. CASE CtorSpawn
    <3>1. /\ i \in 0..(NumThreads - 1) /\ i' = i + 1
          /\ \A w \in Workers : pc[w] = IF w <= i THEN "start" ELSE "unborn"
      BY <2>2 DEF CtorSpawn
    <3>2. i + 1 \in Workers /\ i + 1 # Owner
      BY <3>1
    <3>3. /\ pc'[Owner] = IF i + 1 = NumThreads THEN "ctor_test" ELSE "spawn"
          /\ pc'[i + 1] = "start"
          /\ \A w \in Workers : w # i + 1 => pc'[w] = pc[w]
      BY <2>2, <3>2 DEF CtorSpawn
    <3>4. \A w \in Workers : pc'[w] = IF w <= i' THEN "start" ELSE "unborn"
      BY <3>1, <3>3
    <3>5. QED
      BY <3>1, <3>3, <3>4
  <2>3. CASE CtorTest
    <3>1. CASE num_threads_running = NumThreads
      <4>1. Counted = Workers
        BY <3>1, WorkerSets DEF RunningCount, Counted
      <4>2. QED
        BY <2>3, <4>1 DEF CtorTest, Counted
    <3>2. CASE num_threads_running # NumThreads
      BY <2>3, <3>2 DEF CtorTest
    <3>3. QED
      BY <3>1, <3>2
  <2>4. CASE CtorWake  BY <2>4 DEF CtorWake
  <2>5. CASE Dispatch  BY <2>5 DEF Dispatch, qcond
  <2>6. CASE DtorKill  BY <2>6 DEF DtorKill
  <2>7. CASE DtorBroadcast  BY <2>7 DEF DtorBroadcast, qcond
  <2>8. CASE DtorJoin  BY <2>8 DEF DtorJoin
  <2>9. CASE DtorRelock  BY <2>9 DEF DtorRelock
  <2>10. CASE DtorVerify  BY <2>10 DEF DtorVerify
  <2>11. CASE DtorTakeTask  BY <2>11 DEF DtorTakeTask
  <2>12. CASE DtorTaskReturns  BY <2>12 DEF DtorTaskReturns
  <2>13. CASE DtorReturn  BY <2>13 DEF DtorReturn
  <2>14. QED
    BY <1>3, <2>1, <2>2, <2>3, <2>4, <2>5, <2>6, <2>7, <2>8, <2>9, <2>10,
       <2>11, <2>12, <2>13 DEF OwnerStep
<1>4. ASSUME NEW w \in Workers, WorkerStep(w) \/ SpuriousWakeup(w)
      PROVE  Births'
  <2>1. CASE WorkerStart(w)  BY <2>1 DEF WorkerStart, LockHeld, LockedPCs
  <2>2. CASE WorkerWait(w)  BY <2>2 DEF WorkerWait
  <2>3. CASE WorkerSeesKill(w)  BY <2>3 DEF WorkerSeesKill
  <2>4. CASE WorkerReacquire(w)  BY <2>4 DEF WorkerReacquire
  <2>5. CASE WorkerTakeTask(w)  BY <2>5 DEF WorkerTakeTask
  <2>6. CASE WorkerNoTask(w)  BY <2>6 DEF WorkerNoTask
  <2>7. CASE WorkerTaskReturns(w)  BY <2>7 DEF WorkerTaskReturns
  <2>8. CASE WorkerRelock(w)  BY <2>8 DEF WorkerRelock
  <2>9. CASE WorkerExit(w)  BY <2>9 DEF WorkerExit
  <2>10. CASE SpuriousWakeup(w)  BY <2>10 DEF SpuriousWakeup
  <2>11. QED
    BY <1>4, <2>1, <2>2, <2>3, <2>4, <2>5, <2>6, <2>7, <2>8, <2>9, <2>10 DEF WorkerStep
<1>5. CASE PoolGone \/ UNCHANGED vars
  BY <1>5 DEF PoolGone, vars
<1>6. QED
  BY <1>1, <1>2, <1>3, <1>4, <1>5 DEF Next, OwnerCalls

(* The destructor joins all NumThreads workers, in order. *)
LEMMA DeathsStep ==
    ASSUME TypeOK, Births, Deaths, RunningCount, [Next]_vars
    PROVE  Deaths'
<1> USE DEF TypeOK, Deaths, InDtor, Goto, Lock, Unlock, poolState, ownerVars
<1>1. ASSUME NEW t \in Tasks, DispatchLock(t) PROVE Deaths'
  BY <1>1 DEF DispatchLock
<1>2. CASE DtorLock  BY <1>2 DEF DtorLock
<1>3. CASE OwnerStep
  <2>1. CASE CtorLock  BY <2>1 DEF CtorLock
  <2>2. CASE CtorSpawn  BY <2>2 DEF CtorSpawn, Births
  <2>3. CASE CtorTest  BY <2>3 DEF CtorTest
  <2>4. CASE CtorWake  BY <2>4 DEF CtorWake
  <2>5. CASE Dispatch  BY <2>5 DEF Dispatch, qcond
  <2>6. CASE DtorKill
    <3>1. Counted = Workers
      BY <2>6 DEF DtorKill, Births, InCtor, Counted
    <3>2. num_threads_running = NumThreads
      BY <3>1, WorkerSets DEF RunningCount
    <3>3. QED
      BY <2>6, <3>2 DEF DtorKill
  <2>7. CASE DtorBroadcast  BY <2>7 DEF DtorBroadcast, qcond
  <2>8. CASE DtorJoin  BY <2>8 DEF DtorJoin
  <2>9. CASE DtorRelock  BY <2>9 DEF DtorRelock
  <2>10. CASE DtorVerify  BY <2>10 DEF DtorVerify
  <2>11. CASE DtorTakeTask  BY <2>11 DEF DtorTakeTask
  <2>12. CASE DtorTaskReturns  BY <2>12 DEF DtorTaskReturns
  <2>13. CASE DtorReturn  BY <2>13 DEF DtorReturn
  <2>14. QED
    BY <1>3, <2>1, <2>2, <2>3, <2>4, <2>5, <2>6, <2>7, <2>8, <2>9, <2>10,
       <2>11, <2>12, <2>13 DEF OwnerStep
<1>4. ASSUME NEW w \in Workers, WorkerStep(w) \/ SpuriousWakeup(w)
      PROVE  Deaths'
  <2>1. CASE WorkerStart(w)  BY <2>1 DEF WorkerStart
  <2>2. CASE WorkerWait(w)  BY <2>2 DEF WorkerWait
  <2>3. CASE WorkerSeesKill(w)  BY <2>3 DEF WorkerSeesKill
  <2>4. CASE WorkerReacquire(w)  BY <2>4 DEF WorkerReacquire
  <2>5. CASE WorkerTakeTask(w)  BY <2>5 DEF WorkerTakeTask
  <2>6. CASE WorkerNoTask(w)  BY <2>6 DEF WorkerNoTask
  <2>7. CASE WorkerTaskReturns(w)  BY <2>7 DEF WorkerTaskReturns
  <2>8. CASE WorkerRelock(w)  BY <2>8 DEF WorkerRelock
  <2>9. CASE WorkerExit(w)  BY <2>9 DEF WorkerExit
  <2>10. CASE SpuriousWakeup(w)  BY <2>10 DEF SpuriousWakeup
  <2>11. QED
    BY <1>4, <2>1, <2>2, <2>3, <2>4, <2>5, <2>6, <2>7, <2>8, <2>9, <2>10 DEF WorkerStep
<1>5. CASE PoolGone \/ UNCHANGED vars
  <2>1. UNCHANGED <<pc, i, num_threads, killthreads>>
    BY <1>5 DEF PoolGone, vars
  <2>2. QED
    BY <2>1
<1>6. QED
  BY <1>1, <1>2, <1>3, <1>4, <1>5 DEF Next, OwnerCalls

(* A worker never goes to sleep on a non-empty queue. *)
LEMMA SleepersStep ==
    ASSUME TypeOK, LockHeld, Births, Deaths, Sleepers, [Next]_vars
    PROVE  Sleepers'
<1> USE DEF TypeOK, Sleepers, InCtor, InDtor, qcond, Goto, Lock, Unlock,
    poolState, ownerVars
<1>1. ASSUME NEW t \in Tasks, DispatchLock(t) PROVE Sleepers'
  BY <1>1 DEF DispatchLock
<1>2. CASE DtorLock  BY <1>2 DEF DtorLock
<1>3. CASE OwnerStep
  <2>1. CASE CtorLock  BY <2>1 DEF CtorLock
  <2>2. CASE CtorSpawn  BY <2>2 DEF CtorSpawn
  <2>3. CASE CtorTest  BY <2>3 DEF CtorTest
  <2>4. CASE CtorWake  BY <2>4 DEF CtorWake
  <2>5. CASE Dispatch  BY <2>5 DEF Dispatch, LockHeld, LockedPCs
  <2>6. CASE DtorKill  BY <2>6 DEF DtorKill, Deaths
  <2>7. CASE DtorBroadcast  BY <2>7 DEF DtorBroadcast
  <2>8. CASE DtorJoin  BY <2>8 DEF DtorJoin
  <2>9. CASE DtorRelock  BY <2>9 DEF DtorRelock
  <2>10. CASE DtorVerify  BY <2>10 DEF DtorVerify, Deaths
  <2>11. CASE DtorTakeTask  BY <2>11 DEF DtorTakeTask, TakeTask, Deaths
  <2>12. CASE DtorTaskReturns  BY <2>12 DEF DtorTaskReturns
  <2>13. CASE DtorReturn  BY <2>13 DEF DtorReturn
  <2>14. QED
    BY <1>3, <2>1, <2>2, <2>3, <2>4, <2>5, <2>6, <2>7, <2>8, <2>9, <2>10,
       <2>11, <2>12, <2>13 DEF OwnerStep
<1>4. ASSUME NEW w \in Workers, WorkerStep(w) \/ SpuriousWakeup(w)
      PROVE  Sleepers'
  <2>1. CASE WorkerStart(w)  BY <2>1 DEF WorkerStart, Births
  <2>2. CASE WorkerWait(w)  BY <2>2 DEF WorkerWait, Deaths
  <2>3. CASE WorkerSeesKill(w)  BY <2>3 DEF WorkerSeesKill
  <2>4. CASE WorkerReacquire(w)  BY <2>4 DEF WorkerReacquire
  <2>5. CASE WorkerTakeTask(w)
    BY <2>5 DEF WorkerTakeTask, TakeTask, LockHeld, LockedPCs
  <2>6. CASE WorkerNoTask(w)  BY <2>6 DEF WorkerNoTask
  <2>7. CASE WorkerTaskReturns(w)  BY <2>7 DEF WorkerTaskReturns
  <2>8. CASE WorkerRelock(w)  BY <2>8 DEF WorkerRelock
  <2>9. CASE WorkerExit(w)  BY <2>9 DEF WorkerExit
  <2>10. CASE SpuriousWakeup(w)  BY <2>10 DEF SpuriousWakeup
  <2>11. QED
    BY <1>4, <2>1, <2>2, <2>3, <2>4, <2>5, <2>6, <2>7, <2>8, <2>9, <2>10 DEF WorkerStep
<1>5. CASE PoolGone \/ UNCHANGED vars
  <2>1. UNCHANGED <<pc, i, work_queue, killthreads>>
    BY <1>5 DEF PoolGone, vars
  <2>2. QED
    BY <2>1
<1>6. QED
  BY <1>1, <1>2, <1>3, <1>4, <1>5 DEF Next, OwnerCalls

(* Whoever runs or dispatches a task holds one. *)
LEMMA HeldStep ==
    ASSUME TypeOK, LockHeld, Births, Held, [Next]_vars
    PROVE  Held'
<1> USE DEF TypeOK, Held, Holders, Goto, Lock, Unlock, history
<1>1. ASSUME NEW t \in Tasks, DispatchLock(t) PROVE Held'
  BY <1>1 DEF DispatchLock
<1>2. CASE DtorLock  BY <1>2 DEF DtorLock
<1>3. CASE OwnerStep
  <2>1. CASE CtorLock  BY <2>1 DEF CtorLock
  <2>2. CASE CtorSpawn  BY <2>2 DEF CtorSpawn, Births
  <2>3. CASE CtorTest  BY <2>3 DEF CtorTest
  <2>4. CASE CtorWake  BY <2>4 DEF CtorWake
  <2>5. CASE Dispatch  BY <2>5 DEF Dispatch, qcond
  <2>6. CASE DtorKill  BY <2>6 DEF DtorKill
  <2>7. CASE DtorBroadcast  BY <2>7 DEF DtorBroadcast, qcond
  <2>8. CASE DtorJoin  BY <2>8 DEF DtorJoin
  <2>9. CASE DtorRelock  BY <2>9 DEF DtorRelock
  <2>10. CASE DtorVerify  BY <2>10 DEF DtorVerify
  <2>11. CASE DtorTakeTask  BY <2>11, QueueTail DEF DtorTakeTask, TakeTask
  <2>12. CASE DtorTaskReturns  BY <2>12 DEF DtorTaskReturns, ReturnFromTask
  <2>13. CASE DtorReturn  BY <2>13 DEF DtorReturn
  <2>14. QED
    BY <1>3, <2>1, <2>2, <2>3, <2>4, <2>5, <2>6, <2>7, <2>8, <2>9, <2>10,
       <2>11, <2>12, <2>13 DEF OwnerStep
<1>4. ASSUME NEW w \in Workers, WorkerStep(w) \/ SpuriousWakeup(w)
      PROVE  Held'
  <2>1. CASE WorkerStart(w)  BY <2>1 DEF WorkerStart
  <2>2. CASE WorkerWait(w)  BY <2>2 DEF WorkerWait
  <2>3. CASE WorkerSeesKill(w)  BY <2>3 DEF WorkerSeesKill
  <2>4. CASE WorkerReacquire(w)  BY <2>4 DEF WorkerReacquire
  <2>5. CASE WorkerTakeTask(w)
    BY <2>5, QueueTail DEF WorkerTakeTask, TakeTask, LockHeld, LockedPCs
  <2>6. CASE WorkerNoTask(w)  BY <2>6 DEF WorkerNoTask
  <2>7. CASE WorkerTaskReturns(w)
    BY <2>7 DEF WorkerTaskReturns, ReturnFromTask
  <2>8. CASE WorkerRelock(w)  BY <2>8 DEF WorkerRelock
  <2>9. CASE WorkerExit(w)  BY <2>9 DEF WorkerExit
  <2>10. CASE SpuriousWakeup(w)  BY <2>10 DEF SpuriousWakeup
  <2>11. QED
    BY <1>4, <2>1, <2>2, <2>3, <2>4, <2>5, <2>6, <2>7, <2>8, <2>9, <2>10 DEF WorkerStep
<1>5. CASE PoolGone \/ UNCHANGED vars
  BY <1>5 DEF PoolGone, vars
<1>6. QED
  BY <1>1, <1>2, <1>3, <1>4, <1>5 DEF Next, OwnerCalls

(* No step loses, duplicates or re-runs a task. *)
LEMMA RunOnceStep ==
    ASSUME TypeOK, Births, Held, RunOnce, [Next]_vars
    PROVE  RunOnce'
<1> USE DEF Holders, Goto, Lock, TypeOK, poolState
<1>1. ASSUME NEW t \in Tasks, DispatchLock(t) PROVE RunOnce'
  BY <1>1, RunOnceFrame DEF DispatchLock
<1>2. CASE DtorLock  BY <1>2, RunOnceFrame DEF DtorLock
<1>3. CASE OwnerStep
  <2>1. CASE CtorLock  BY <2>1, RunOnceFrame DEF CtorLock
  <2>2. CASE CtorSpawn  BY <2>2, RunOnceFrame DEF CtorSpawn, Births
  <2>3. CASE CtorTest  BY <2>3, RunOnceFrame DEF CtorTest
  <2>4. CASE CtorWake  BY <2>4, RunOnceFrame DEF CtorWake
  <2>5. CASE Dispatch  BY <2>5, RunOnceDispatch
  <2>6. CASE DtorKill  BY <2>6, RunOnceFrame DEF DtorKill
  <2>7. CASE DtorBroadcast  BY <2>7, RunOnceFrame DEF DtorBroadcast, qcond
  <2>8. CASE DtorJoin  BY <2>8, RunOnceFrame DEF DtorJoin
  <2>9. CASE DtorRelock  BY <2>9, RunOnceFrame DEF DtorRelock
  <2>10. CASE DtorVerify  BY <2>10, RunOnceFrame DEF DtorVerify
  <2>11. CASE DtorTakeTask
    <3>1. Holders' = Holders \cup {Owner} /\ Owner \notin Holders
      BY <2>11 DEF DtorTakeTask, Holders, Goto, TypeOK
    <3>2. QED
      BY <2>11, <3>1, RunOnceTake DEF DtorTakeTask
  <2>12. CASE DtorTaskReturns
    <3>1. Holders' = Holders \ {Owner} /\ Owner \in Holders
      BY <2>12 DEF DtorTaskReturns, Holders, Goto, TypeOK
    <3>2. QED
      BY <2>12, <3>1, RunOnceReturn DEF DtorTaskReturns, poolState
  <2>13. CASE DtorReturn  BY <2>13, RunOnceFrame DEF DtorReturn
  <2>14. QED
    BY <1>3, <2>1, <2>2, <2>3, <2>4, <2>5, <2>6, <2>7, <2>8, <2>9, <2>10,
       <2>11, <2>12, <2>13 DEF OwnerStep
<1>4. ASSUME NEW w \in Workers, WorkerStep(w) \/ SpuriousWakeup(w)
      PROVE  RunOnce'
  <2>1. CASE WorkerStart(w)  BY <2>1, RunOnceFrame DEF WorkerStart
  <2>2. CASE WorkerWait(w)  BY <2>2, RunOnceFrame DEF WorkerWait
  <2>3. CASE WorkerSeesKill(w)  BY <2>3, RunOnceFrame DEF WorkerSeesKill
  <2>4. CASE WorkerReacquire(w)  BY <2>4, RunOnceFrame DEF WorkerReacquire
  <2>5. CASE WorkerTakeTask(w)
    <3>1. Holders' = Holders \cup {w} /\ w \notin Holders
      BY <2>5 DEF WorkerTakeTask, Holders, Goto, TypeOK
    <3>2. QED
      BY <2>5, <3>1, RunOnceTake DEF WorkerTakeTask
  <2>6. CASE WorkerNoTask(w)  BY <2>6, RunOnceFrame DEF WorkerNoTask
  <2>7. CASE WorkerTaskReturns(w)
    <3>1. Holders' = Holders \ {w} /\ w \in Holders
      BY <2>7 DEF WorkerTaskReturns, Holders, Goto, TypeOK
    <3>2. QED
      BY <2>7, <3>1, RunOnceReturn DEF WorkerTaskReturns, poolState
  <2>8. CASE WorkerRelock(w)  BY <2>8, RunOnceFrame DEF WorkerRelock
  <2>9. CASE WorkerExit(w)  BY <2>9, RunOnceFrame DEF WorkerExit
  <2>10. CASE SpuriousWakeup(w)  BY <2>10, RunOnceFrame DEF SpuriousWakeup
  <2>11. QED
    BY <1>4, <2>1, <2>2, <2>3, <2>4, <2>5, <2>6, <2>7, <2>8, <2>9, <2>10 DEF WorkerStep
<1>5. CASE PoolGone \/ UNCHANGED vars
  BY <1>5, RunOnceFrame DEF PoolGone, vars
<1>6. QED
  BY <1>1, <1>2, <1>3, <1>4, <1>5 DEF Next, OwnerCalls

(* num_threads_running_ follows births and deaths. *)
LEMMA RunningCountStep ==
    ASSUME TypeOK, Births, RunningCount, [Next]_vars
    PROVE  RunningCount'
<1> USE DEF Counted, Goto, Lock, TypeOK, poolState
<1>1. ASSUME NEW t \in Tasks, DispatchLock(t) PROVE RunningCount'
  BY <1>1, CountFrame DEF DispatchLock
<1>2. CASE DtorLock  BY <1>2, CountFrame DEF DtorLock
<1>3. CASE OwnerStep
  <2>1. CASE CtorLock  BY <2>1, CountFrame DEF CtorLock
  <2>2. CASE CtorSpawn  BY <2>2, CountFrame DEF CtorSpawn, Births
  <2>3. CASE CtorTest  BY <2>3, CountFrame DEF CtorTest
  <2>4. CASE CtorWake  BY <2>4, CountFrame DEF CtorWake
  <2>5. CASE Dispatch  BY <2>5, CountFrame DEF Dispatch, qcond
  <2>6. CASE DtorKill  BY <2>6, CountFrame DEF DtorKill
  <2>7. CASE DtorBroadcast  BY <2>7, CountFrame DEF DtorBroadcast, qcond
  <2>8. CASE DtorJoin  BY <2>8, CountFrame DEF DtorJoin
  <2>9. CASE DtorRelock  BY <2>9, CountFrame DEF DtorRelock
  <2>10. CASE DtorVerify  BY <2>10, CountFrame DEF DtorVerify
  <2>11. CASE DtorTakeTask  BY <2>11, CountFrame DEF DtorTakeTask
  <2>12. CASE DtorTaskReturns  BY <2>12, CountFrame DEF DtorTaskReturns
  <2>13. CASE DtorReturn  BY <2>13, CountFrame DEF DtorReturn
  <2>14. QED
    BY <1>3, <2>1, <2>2, <2>3, <2>4, <2>5, <2>6, <2>7, <2>8, <2>9, <2>10,
       <2>11, <2>12, <2>13 DEF OwnerStep
<1>4. ASSUME NEW w \in Workers, WorkerStep(w) \/ SpuriousWakeup(w)
      PROVE  RunningCount'
  <2>1. CASE WorkerStart(w)
    <3>1. Counted' = Counted \cup {w} /\ w \notin Counted
      BY <2>1 DEF WorkerStart, Counted, Goto, Lock, TypeOK
    <3>2. QED
      BY <2>1, <3>1, WorkerSetChange DEF WorkerStart, Counted, RunningCount
  <2>2. CASE WorkerWait(w)  BY <2>2, CountFrame DEF WorkerWait
  <2>3. CASE WorkerSeesKill(w)  BY <2>3, CountFrame DEF WorkerSeesKill
  <2>4. CASE WorkerReacquire(w)  BY <2>4, CountFrame DEF WorkerReacquire
  <2>5. CASE WorkerTakeTask(w)  BY <2>5, CountFrame DEF WorkerTakeTask
  <2>6. CASE WorkerNoTask(w)  BY <2>6, CountFrame DEF WorkerNoTask
  <2>7. CASE WorkerTaskReturns(w)  BY <2>7, CountFrame DEF WorkerTaskReturns
  <2>8. CASE WorkerRelock(w)  BY <2>8, CountFrame DEF WorkerRelock
  <2>9. CASE WorkerExit(w)
    <3>1. Counted' = Counted \ {w} /\ w \in Counted
      BY <2>9 DEF WorkerExit, Counted, Goto, TypeOK
    <3>2. QED
      BY <2>9, <3>1, WorkerSetChange DEF WorkerExit, Counted, RunningCount
  <2>10. CASE SpuriousWakeup(w)  BY <2>10, CountFrame DEF SpuriousWakeup
  <2>11. QED
    BY <1>4, <2>1, <2>2, <2>3, <2>4, <2>5, <2>6, <2>7, <2>8, <2>9, <2>10 DEF WorkerStep
<1>5. CASE PoolGone \/ UNCHANGED vars
  BY <1>5, CountFrame DEF PoolGone, vars
<1>6. QED
  BY <1>1, <1>2, <1>3, <1>4, <1>5 DEF Next, OwnerCalls

(* Every push wakes a sleeper if there is one, and nobody falls asleep   *)
(* while a task is queued.                                               *)
LEMMA WorkConservingStep ==
    ASSUME TypeOK, LockHeld, Births, Deaths, Sleepers, Held,
           WorkConserving, [Next]_vars
    PROVE  WorkConserving'
<1> USE DEF OnTheWay, qcond, Goto, Lock, TypeOK, poolState
<1>1. ASSUME NEW t \in Tasks, DispatchLock(t) PROVE WorkConserving'
  BY <1>1, ConservingFrame DEF DispatchLock
<1>2. CASE DtorLock  BY <1>2, ConservingFrame DEF DtorLock
<1>3. CASE OwnerStep
  <2>1. CASE CtorLock  BY <2>1, ConservingFrame DEF CtorLock
  <2>2. CASE CtorSpawn  BY <2>2, ConservingFrame DEF CtorSpawn, Births
  <2>3. CASE CtorTest  BY <2>3, ConservingFrame DEF CtorTest
  <2>4. CASE CtorWake  BY <2>4, ConservingFrame DEF CtorWake
  <2>5. CASE Dispatch
    <3>1. task[Owner] \in Tasks
      BY <2>5 DEF Held, Dispatch
    <3>2. Len(work_queue') = Len(work_queue) + 1 /\ Len(work_queue) \in Nat
      BY <2>5, <3>1, QueueAppend DEF Dispatch, TypeOK
    <3>3. CASE qcond = {}
      <4>1. qcond' = {}
        BY <2>5, <3>3 DEF Dispatch, qcond, Goto, TypeOK
      <4>2. QED
        BY <4>1 DEF WorkConserving
    <3>4. ASSUME NEW w \in qcond,
                 pc' = [pc EXCEPT ![w] = "reacquire", ![Owner] = "ready"]
          PROVE  WorkConserving'
      <4>1. OnTheWay' = OnTheWay \cup {w} /\ w \in Workers \ OnTheWay
        BY <2>5, <3>4 DEF OnTheWay, qcond, TypeOK
      <4>2. Cardinality(OnTheWay') = Cardinality(OnTheWay) + 1
        BY <4>1, WorkerSetChange DEF OnTheWay
      <4>3. Cardinality(OnTheWay) \in Nat
        BY WorkerSets DEF OnTheWay
      <4>4. QED
        BY <3>2, <3>4, <4>2, <4>3 DEF WorkConserving
    <3>5. QED
      BY <2>5, <3>3, <3>4 DEF Dispatch
  <2>6. CASE DtorKill  BY <2>6, ConservingFrame DEF DtorKill
  <2>7. CASE DtorBroadcast
    <3>1. qcond' = {}
      BY <2>7 DEF DtorBroadcast, qcond
    <3>2. QED
      BY <3>1 DEF WorkConserving
  <2>8. CASE DtorJoin  BY <2>8, ConservingFrame DEF DtorJoin
  <2>9. CASE DtorRelock  BY <2>9, ConservingFrame DEF DtorRelock
  <2>10. CASE DtorVerify  BY <2>10, ConservingFrame DEF DtorVerify
  <2>11. CASE DtorTakeTask
    <3>1. qcond = {}
      BY <2>11 DEF DtorTakeTask, Sleepers, InDtor
    <3>2. qcond' = {}
      BY <2>11, <3>1 DEF DtorTakeTask, qcond, Goto, TypeOK
    <3>3. QED
      BY <3>2 DEF WorkConserving
  <2>12. CASE DtorTaskReturns  BY <2>12, ConservingFrame DEF DtorTaskReturns
  <2>13. CASE DtorReturn  BY <2>13, ConservingFrame DEF DtorReturn
  <2>14. QED
    BY <1>3, <2>1, <2>2, <2>3, <2>4, <2>5, <2>6, <2>7, <2>8, <2>9, <2>10,
       <2>11, <2>12, <2>13 DEF OwnerStep
<1>4. ASSUME NEW w \in Workers, WorkerStep(w) \/ SpuriousWakeup(w)
      PROVE  WorkConserving'
  <2>1. CASE WorkerStart(w)  BY <2>1, ConservingFrame DEF WorkerStart
  <2>2. CASE WorkerWait(w)
    <3>1. work_queue' = <<>>
      BY <2>2 DEF WorkerWait, Sleepers, poolState
    <3>2. Cardinality(OnTheWay') \in Nat
      BY WorkerSets DEF OnTheWay
    <3>3. QED
      BY <3>1, <3>2 DEF WorkConserving
  <2>3. CASE WorkerSeesKill(w)  BY <2>3, ConservingFrame DEF WorkerSeesKill
  <2>4. CASE WorkerReacquire(w)  BY <2>4, ConservingFrame DEF WorkerReacquire
  <2>5. CASE WorkerTakeTask(w)
    <3>1. /\ OnTheWay' = OnTheWay \ {w} /\ w \in OnTheWay
          /\ qcond' = qcond
      BY <2>5 DEF WorkerTakeTask, OnTheWay, qcond, Goto, TypeOK
    <3>2. Cardinality(OnTheWay') = Cardinality(OnTheWay) - 1
      BY <3>1, WorkerSetChange DEF OnTheWay
    <3>3. Cardinality(OnTheWay) \in Nat /\ Len(work_queue) \in Nat
      BY WorkerSets DEF OnTheWay, TypeOK
    <3>4. Len(work_queue') = Len(work_queue) - 1
      BY <2>5, QueueTail DEF WorkerTakeTask, TakeTask, TypeOK
    <3>5. QED
      BY <3>1, <3>2, <3>3, <3>4 DEF WorkConserving
  <2>6. CASE WorkerNoTask(w)
    <3>1. CASE killthreads
      <4>1. InDtor /\ pc[Owner] # "kill_loop"
        BY <2>6, <3>1 DEF WorkerNoTask, Deaths, LockHeld, LockedPCs
      <4>2. qcond = {}
        BY <4>1 DEF Sleepers
      <4>3. qcond' = {}
        BY <2>6, <4>2 DEF WorkerNoTask, qcond, Goto, TypeOK
      <4>4. QED
        BY <4>3 DEF WorkConserving
    <3>2. CASE ~killthreads
      <4>1. work_queue' = <<>>
        BY <2>6, <3>2 DEF WorkerNoTask, poolState
      <4>2. Cardinality(OnTheWay') \in Nat
        BY WorkerSets DEF OnTheWay
      <4>3. QED
        BY <4>1, <4>2 DEF WorkConserving
    <3>3. QED
      BY <3>1, <3>2
  <2>7. CASE WorkerTaskReturns(w)
    <3>1. /\ OnTheWay' = OnTheWay \cup {w} /\ w \notin OnTheWay
          /\ qcond' \subseteq qcond
      BY <2>7 DEF WorkerTaskReturns, OnTheWay, qcond, Goto, TypeOK
    <3>2. Cardinality(OnTheWay') = Cardinality(OnTheWay) + 1
      BY <3>1, WorkerSetChange DEF OnTheWay
    <3>3. Cardinality(OnTheWay) \in Nat /\ Len(work_queue) \in Nat
      BY WorkerSets DEF OnTheWay, TypeOK
    <3>4. UNCHANGED work_queue
      BY <2>7 DEF WorkerTaskReturns, poolState
    <3>5. QED
      BY <3>1, <3>2, <3>3, <3>4 DEF WorkConserving
  <2>8. CASE WorkerRelock(w)  BY <2>8, ConservingFrame DEF WorkerRelock
  <2>9. CASE WorkerExit(w)  BY <2>9, ConservingFrame DEF WorkerExit
  <2>10. CASE SpuriousWakeup(w)
    <3>1. /\ OnTheWay' = OnTheWay \cup {w} /\ w \notin OnTheWay
          /\ qcond' \subseteq qcond
      BY <2>10 DEF SpuriousWakeup, OnTheWay, qcond, Goto, TypeOK
    <3>2. Cardinality(OnTheWay') = Cardinality(OnTheWay) + 1
      BY <3>1, WorkerSetChange DEF OnTheWay
    <3>3. Cardinality(OnTheWay) \in Nat /\ Len(work_queue) \in Nat
      BY WorkerSets DEF OnTheWay, TypeOK
    <3>4. UNCHANGED work_queue
      BY <2>10 DEF SpuriousWakeup, poolState
    <3>5. QED
      BY <3>1, <3>2, <3>3, <3>4 DEF WorkConserving
  <2>11. QED
    BY <1>4, <2>1, <2>2, <2>3, <2>4, <2>5, <2>6, <2>7, <2>8, <2>9, <2>10 DEF WorkerStep
<1>5. CASE PoolGone \/ UNCHANGED vars
  BY <1>5 DEF PoolGone, vars, WorkConserving
<1>6. QED
  BY <1>1, <1>2, <1>3, <1>4, <1>5 DEF Next, OwnerCalls

(* Types, with the bounds of num_threads_running_ and of the loop index. *)
LEMMA TypeOKStep ==
    ASSUME TypeOK, Births, Deaths, Held, RunningCount, [Next]_vars
    PROVE  TypeOK'
<1> USE DEF TypeOK, OwnerPCs, WorkerPCs, Goto, Lock, Unlock, poolState,
    ownerVars, history
<1>1. ASSUME NEW t \in Tasks, DispatchLock(t) PROVE TypeOK'
  BY <1>1 DEF DispatchLock
<1>2. CASE DtorLock  BY <1>2 DEF DtorLock
<1>3. CASE OwnerStep
  <2>1. CASE CtorLock  BY <2>1 DEF CtorLock
  <2>2. CASE CtorSpawn
    <3>1. i + 1 \in Workers
      BY <2>2 DEF CtorSpawn, Births
    <3>2. i' \in 0..NumThreads
      BY <2>2, <3>1 DEF CtorSpawn
    <3>3. /\ pc' \in [Threads -> OwnerPCs \cup WorkerPCs]
          /\ pc'[Owner] \in OwnerPCs
          /\ \A w \in Workers : pc'[w] \in WorkerPCs
      BY <2>2, <3>1 DEF CtorSpawn
    <3>4. QED
      BY <2>2, <3>2, <3>3 DEF CtorSpawn
  <2>3. CASE CtorTest  BY <2>3 DEF CtorTest
  <2>4. CASE CtorWake  BY <2>4 DEF CtorWake
  <2>5. CASE Dispatch
    <3>1. task[Owner] \in Tasks
      BY <2>5 DEF Dispatch, Held
    <3>2. work_queue' \in Seq(Tasks)
      BY <2>5, <3>1, QueueAppend DEF Dispatch
    <3>3. /\ pc' \in [Threads -> OwnerPCs \cup WorkerPCs]
          /\ pc'[Owner] \in OwnerPCs
          /\ \A w \in Workers : pc'[w] \in WorkerPCs
      BY <2>5 DEF Dispatch, qcond
    <3>4. QED
      BY <2>5, <3>1, <3>2, <3>3 DEF Dispatch
  <2>6. CASE DtorKill  BY <2>6 DEF DtorKill
  <2>7. CASE DtorBroadcast  BY <2>7 DEF DtorBroadcast, qcond
  <2>8. CASE DtorJoin  BY <2>8 DEF DtorJoin, Deaths, InDtor
  <2>9. CASE DtorRelock  BY <2>9 DEF DtorRelock
  <2>10. CASE DtorVerify  BY <2>10 DEF DtorVerify
  <2>11. CASE DtorTakeTask  BY <2>11, QueueTail DEF DtorTakeTask, TakeTask
  <2>12. CASE DtorTaskReturns
    BY <2>12 DEF DtorTaskReturns, ReturnFromTask, Held, Holders
  <2>13. CASE DtorReturn  BY <2>13 DEF DtorReturn
  <2>14. QED
    BY <1>3, <2>1, <2>2, <2>3, <2>4, <2>5, <2>6, <2>7, <2>8, <2>9, <2>10,
       <2>11, <2>12, <2>13 DEF OwnerStep
<1>4. ASSUME NEW w \in Workers, WorkerStep(w) \/ SpuriousWakeup(w)
      PROVE  TypeOK'
  <2>1. CASE WorkerStart(w)
    <3>1. w \notin Counted
      BY <2>1 DEF WorkerStart, Counted
    <3>2. num_threads_running # NumThreads
      BY <3>1, WorkerSets DEF Counted, RunningCount
    <3>3. QED
      BY <2>1, <3>2 DEF WorkerStart
  <2>2. CASE WorkerWait(w)  BY <2>2 DEF WorkerWait
  <2>3. CASE WorkerSeesKill(w)  BY <2>3 DEF WorkerSeesKill
  <2>4. CASE WorkerReacquire(w)  BY <2>4 DEF WorkerReacquire
  <2>5. CASE WorkerTakeTask(w)
    BY <2>5, QueueTail DEF WorkerTakeTask, TakeTask
  <2>6. CASE WorkerNoTask(w)  BY <2>6 DEF WorkerNoTask
  <2>7. CASE WorkerTaskReturns(w)
    BY <2>7 DEF WorkerTaskReturns, ReturnFromTask, Held, Holders
  <2>8. CASE WorkerRelock(w)  BY <2>8 DEF WorkerRelock
  <2>9. CASE WorkerExit(w)
    <3>1. w \in Counted
      BY <2>9 DEF WorkerExit, Counted
    <3>2. num_threads_running # 0
      BY <3>1, WorkerSets DEF Counted, RunningCount
    <3>3. QED
      BY <2>9, <3>2 DEF WorkerExit
  <2>10. CASE SpuriousWakeup(w)  BY <2>10 DEF SpuriousWakeup
  <2>11. QED
    BY <1>4, <2>1, <2>2, <2>3, <2>4, <2>5, <2>6, <2>7, <2>8, <2>9, <2>10 DEF WorkerStep
<1>5. CASE PoolGone \/ UNCHANGED vars
  BY <1>5 DEF PoolGone, vars
<1>6. QED
  BY <1>1, <1>2, <1>3, <1>4, <1>5 DEF Next, OwnerCalls
-----------------------------------------------------------------------------
(* The theorems. *)

(* The constructor's first state satisfies every part of the invariant. *)
LEMMA InitIInv == Init => IInv
<1> SUFFICES ASSUME Init PROVE IInv
  OBVIOUS
<1> USE DEF Init
<1>1. TypeOK
  <2>1. /\ pc \in [Threads -> OwnerPCs \cup WorkerPCs]
        /\ pc[Owner] \in OwnerPCs
        /\ \A w \in Workers : pc[w] \in WorkerPCs
    BY DEF OwnerPCs, WorkerPCs
  <2>2. work_queue \in Seq(Tasks) /\ runs \in [Tasks -> Nat]
    OBVIOUS
  <2>3. task \in [Threads -> Tasks \cup {NoTask}]
    OBVIOUS
  <2>4. /\ qlock \in Threads \cup {Nobody}
        /\ num_threads_running \in 0..NumThreads
        /\ i \in 0..NumThreads
        /\ num_threads \in 0..NumThreads
    OBVIOUS
  <2>5. killthreads \in BOOLEAN /\ dispatched \subseteq Tasks /\ finished \subseteq Tasks
    OBVIOUS
  <2>6. QED
    BY <2>1, <2>2, <2>3, <2>4, <2>5 DEF TypeOK
<1>2. LockHeld /\ Births /\ Deaths /\ Held
  BY DEF LockHeld, LockedPCs, Births, Deaths, InCtor, InDtor, Held, Holders
<1>3. qcond = {} /\ Counted = {} /\ Holders = {}
  BY DEF qcond, Counted, Holders
<1>4. Sleepers /\ WorkConserving
  BY <1>3 DEF Sleepers, InDtor, WorkConserving
<1>5. RunningCount
  BY <1>3, WorkerSets DEF RunningCount
<1>6. RunOnce
  BY <1>3 DEF RunOnce, Running, ToSet
<1>7. QED
  BY <1>1, <1>2, <1>4, <1>5, <1>6 DEF IInv

(* The conjunction of the parts is preserved by every step of ThreadPool.cc. *)
LEMMA IInvStep == IInv /\ [Next]_vars => IInv'
BY LockHeldStep, BirthsStep, DeathsStep, SleepersStep, HeldStep, RunOnceStep,
   RunningCountStep, WorkConservingStep, TypeOKStep DEF IInv

(* For any number of worker threads and any set of tasks, ThreadPool's     *)
(* state keeps its types and every part of the inductive invariant.        *)
THEOREM InductiveInvariant == Spec => []IInv
BY InitIInv, IInvStep, PTL DEF Spec

(* num_threads_running_, work_queue_ and the loop indices of ThreadPool.cc *)
(* stay in range.                                                          *)
THEOREM TypeCorrect == Spec => []TypeOK
<1>1. IInv => TypeOK
  BY DEF IInv
<1>2. QED
  BY <1>1, InductiveInvariant, PTL

(* No two threads ever touch the pool's shared fields at the same time,    *)
(* including the destructor's unlocked tail.                               *)
THEOREM DataRaceFreedom == Spec => []NoDataRace
<1>1. IInv => NoDataRace
  <2> SUFFICES ASSUME IInv, NEW t \in Threads, NEW u \in Threads,
                      TouchesPool(t), TouchesPool(u), t # u
               PROVE  FALSE
    BY DEF NoDataRace
  <2>1. CASE pc[t] \in LockedPCs /\ pc[u] \in LockedPCs
    BY <2>1 DEF IInv, LockHeld
  <2>2. ASSUME NEW x \in Threads, NEW y \in Threads, x # y,
               pc[x] = "serial", TouchesPool(y)
        PROVE  FALSE
    <3>1. x = Owner /\ y \in Workers
      BY <2>2 DEF IInv, TypeOK, WorkerPCs
    <3>2. pc[y] = "dead"
      BY <2>2, <3>1 DEF IInv, Deaths, InDtor
    <3>3. QED
      BY <2>2, <3>2 DEF TouchesPool, LockedPCs
  <2>3. QED
    BY <2>1, <2>2 DEF TouchesPool
<1>2. QED
  BY <1>1, InductiveInvariant, PTL

(* The destructor's Verify333 holds, and no worker outlives the joins. *)
THEOREM DestructorJoinsAll == Spec => []JoinedAll
<1>1. IInv => JoinedAll
  <2> SUFFICES ASSUME IInv PROVE JoinedAll
    OBVIOUS
  <2>1. ASSUME pc[Owner] = "kill_loop", i >= num_threads
        PROVE  num_threads_running = 0
    <3>1. \A w \in Workers : pc[w] = "dead"
      BY <2>1 DEF IInv, TypeOK, Deaths, InDtor
    <3>2. Counted = {}
      BY <3>1 DEF Counted
    <3>3. QED
      BY <3>2, WorkerSets DEF IInv, RunningCount
  <2>2. ASSUME pc[Owner] \in {"serial", "serial_run", "gone"}
        PROVE  \A w \in Workers : pc[w] = "dead"
    BY <2>2 DEF IInv, TypeOK, Deaths, InDtor
  <2>3. QED
    BY <2>1, <2>2 DEF JoinedAll
<1>2. QED
  BY <1>1, InductiveInvariant, PTL

(* No wake-up is ever lost: pthread_cond_signal under the mutex is enough. *)
THEOREM NoLostWakeup == Spec => []WorkConserving
<1>1. IInv => WorkConserving
  BY DEF IInv
<1>2. QED
  BY <1>1, InductiveInvariant, PTL

(* No task is lost, duplicated or invoked twice, by workers or destructor. *)
THEOREM ExactlyOnce == Spec => []RunOnce
<1>1. IInv => RunOnce
  BY DEF IInv
<1>2. QED
  BY <1>1, InductiveInvariant, PTL

(* Once killthreads_ is set only the destructor picks up tasks. *)
THEOREM KillStopsWorkers == Spec => NoStartAfterKill
<1> DEFINE A == killthreads => \A w \in Workers : task'[w] \in {task[w], NoTask}
<1>1. IInv /\ [Next]_vars => [A]_vars
  <2> SUFFICES ASSUME IInv, Next, killthreads, NEW w \in Workers
               PROVE  task'[w] \in {task[w], NoTask}
    OBVIOUS
  <2> USE DEF IInv, TypeOK
  <2>1. ASSUME NEW t \in Tasks, DispatchLock(t) PROVE task'[w] = task[w]
    BY <2>1 DEF DispatchLock
  <2>2. CASE DtorLock  BY <2>2 DEF DtorLock
  <2>3. CASE OwnerStep
    <3>1. CASE Dispatch
      BY <3>1 DEF Dispatch
    <3>2. CASE DtorTakeTask
      BY <3>2 DEF DtorTakeTask, TakeTask
    <3>3. CASE DtorTaskReturns
      BY <3>3 DEF DtorTaskReturns, ReturnFromTask
    <3>4. CASE ~(Dispatch \/ DtorTakeTask \/ DtorTaskReturns)
      BY <2>3, <3>4 DEF OwnerStep, CtorLock, CtorSpawn, CtorTest, CtorWake,
           DtorKill, DtorBroadcast, DtorJoin, DtorRelock, DtorVerify, DtorReturn
    <3>5. QED
      BY <3>1, <3>2, <3>3, <3>4
  <2>4. ASSUME NEW v \in Workers, WorkerStep(v) \/ SpuriousWakeup(v)
        PROVE  task'[w] \in {task[w], NoTask}
    BY <2>4 DEF WorkerStep, WorkerStart, WorkerWait, WorkerSeesKill,
         WorkerReacquire, WorkerTakeTask, WorkerNoTask, WorkerTaskReturns,
         ReturnFromTask, WorkerRelock, WorkerExit, SpuriousWakeup
  <2>5. CASE PoolGone  BY <2>5 DEF PoolGone, vars
  <2>6. QED
    BY <2>1, <2>2, <2>3, <2>4, <2>5 DEF Next, OwnerCalls
<1>2. QED
  BY <1>1, InductiveInvariant, PTL DEF Spec, NoStartAfterKill

-----------------------------------------------------------------------------
(* ThreadPool implements TaskPool. *)

(* When worker w is about to take a task, fewer than NumThreads are running. *)
LEMMA RoomToRun ==
    ASSUME IInv, NEW w \in Workers, pc[w] = "drain"
    PROVE  Cardinality(Running) < NumThreads
<1>1. Holders \subseteq Workers /\ Holders # Workers
  <2>1. Owner \notin Holders
    <3>1. pc[Owner] # "serial_run"
      BY DEF IInv, Deaths, InDtor, TypeOK
    <3>2. QED
      BY <3>1 DEF IInv, TypeOK, OwnerPCs, Holders
  <2>2. w \notin Holders
    BY DEF Holders
  <2>3. QED
    BY <2>1, <2>2 DEF Holders
<1>2. IsFiniteSet(Holders) /\ Cardinality(Holders) \in Nat /\ Cardinality(Holders) < NumThreads
  BY <1>1, WorkerSets
<1>3. [t \in Holders |-> task[t]] \in Surjection(Holders, Running)
  BY DEF Surjection, Running
<1>4. Cardinality(Running) <= Cardinality(Holders) /\ IsFiniteSet(Running)
  BY <1>2, <1>3, FS_Surjection
<1>5. Cardinality(Running) \in Nat
  BY <1>4, FS_CardinalityType
<1>6. QED
  BY <1>2, <1>4, <1>5

(* The constructor's first state is TaskPool's. *)
LEMMA RefinesInit == Init => Abstract!Init
<1> SUFFICES ASSUME Init PROVE Abstract!Init
  OBVIOUS
<1>1. Running = {}
  BY DEF Init, Running, Holders
<1>2. Phase = "open"
  BY DEF Init, Phase
<1>3. QED
  BY <1>1, <1>2 DEF Init, Abstract!Init

(* A step TaskPool does not see. *)
LEMMA AbstractFrame ==
    ASSUME Holders' = Holders, \A t \in Holders : task'[t] = task[t],
           UNCHANGED <<work_queue, finished, killthreads>>,
           pc'[Owner] = pc[Owner] \/
             {pc[Owner], pc'[Owner]} \cap {"serial", "serial_run", "gone"} = {}
    PROVE  [Abstract!Next]_(Abstract!poolVars)
<1>1. Running' = Running
  BY RunningFrame
<1>2. Phase' = Phase
  BY DEF Phase
<1>3. QED
  BY <1>1, <1>2 DEF Abstract!poolVars

(* Every step of the pool's threads is a step of TaskPool or changes       *)
(* nothing TaskPool can see.                                               *)
LEMMA RefinesNext ==
    ASSUME IInv, [Next]_vars
    PROVE  [Abstract!Next]_(Abstract!poolVars)
<1> USE DEF IInv, TypeOK, Holders, Goto, Lock, poolState, history
<1>1. ASSUME NEW t \in Tasks, DispatchLock(t) PROVE [Abstract!Next]_(Abstract!poolVars)
  BY <1>1, AbstractFrame DEF DispatchLock
<1>2. CASE DtorLock  BY <1>2, AbstractFrame DEF DtorLock
<1>3. CASE OwnerStep
  <2>1. CASE CtorLock  BY <2>1, AbstractFrame DEF CtorLock
  <2>2. CASE CtorSpawn  BY <2>2, AbstractFrame DEF CtorSpawn, Births
  <2>3. CASE CtorTest  BY <2>3, AbstractFrame DEF CtorTest
  <2>4. CASE CtorWake  BY <2>4, AbstractFrame DEF CtorWake
  <2>5. CASE Dispatch
    <3>1. task[Owner] \in Tasks \ dispatched
      BY <2>5 DEF Dispatch, Held
    <3>2. task[Owner] \notin ToSet(work_queue) \cup Running \cup finished
      BY <3>1 DEF RunOnce
    <3>3. Holders' = Holders /\ \A u \in Holders : task'[u] = task[u]
      BY <2>5 DEF Dispatch, qcond
    <3>4. Running' = Running
      BY <3>3, RunningFrame
    <3>5. Phase = "open" /\ Phase' = "open"
      BY <2>5 DEF Dispatch, qcond, Phase
    <3>6. work_queue' = Append(work_queue, task[Owner]) /\ UNCHANGED finished
      BY <2>5 DEF Dispatch
    <3> HIDE DEF IInv
    <3>7. Abstract!Submit(task[Owner])
      BY <3>2, <3>4, <3>5, <3>6 DEF Abstract!Submit, Abstract!ToSet, ToSet
    <3>8. QED
      BY <3>1, <3>7 DEF Abstract!Next
  <2>6. CASE DtorKill
    <3>1. Holders' = Holders /\ \A u \in Holders : task'[u] = task[u]
      BY <2>6 DEF DtorKill
    <3>2. Running' = Running
      BY <3>1, RunningFrame
    <3>3. Phase = "open" /\ Phase' = "closing"
      BY <2>6 DEF DtorKill, Phase, Deaths, InDtor
    <3>4. Abstract!Close
      BY <2>6, <3>2, <3>3 DEF DtorKill, history, Abstract!Close
    <3>5. QED
      BY <3>4 DEF Abstract!Next
  <2>7. CASE DtorBroadcast  BY <2>7, AbstractFrame DEF DtorBroadcast, qcond
  <2>8. CASE DtorJoin  BY <2>8, AbstractFrame DEF DtorJoin
  <2>9. CASE DtorRelock  BY <2>9, AbstractFrame DEF DtorRelock
  <2>10. CASE DtorVerify
    <3>1. i = NumThreads
      BY <2>10 DEF DtorVerify, Deaths, InDtor
    <3>2. Holders = {}
      BY <2>10, <3>1 DEF DtorVerify, Deaths, InDtor
    <3>3. Holders' = Holders
      BY <2>10 DEF DtorVerify
    <3>4. Running = {} /\ Running' = {}
      BY <3>2, <3>3 DEF Running
    <3>5. Phase = "closing" /\ Phase' = "draining"
      BY <2>10 DEF DtorVerify, Phase, Deaths, InDtor
    <3>6. Abstract!Drain
      BY <2>10, <3>4, <3>5 DEF DtorVerify, history, Abstract!Drain
    <3>7. QED
      BY <3>6 DEF Abstract!Next
  <2>11. CASE DtorTakeTask
    <3>1. Holders = {} /\ Holders' = {Owner}
      BY <2>11 DEF DtorTakeTask, Deaths, InDtor
    <3>2. task'[Owner] = Head(work_queue)
      BY <2>11 DEF DtorTakeTask, TakeTask
    <3>3. Running = {} /\ Running' = {Head(work_queue)}
      <4> HIDE DEF IInv, Holders
      <4>1. QED
        BY <3>1, <3>2 DEF Running
    <3>4. Phase = "draining" /\ Phase' = "draining"
      BY <2>11 DEF DtorTakeTask, Phase
    <3>5. Abstract!Start
      BY <2>11, <3>3, <3>4 DEF DtorTakeTask, TakeTask, Abstract!Start, Abstract!MayStart
    <3>6. QED
      BY <3>5 DEF Abstract!Next
  <2>12. CASE DtorTaskReturns
    <3>1. Owner \in Holders /\ Holders' = Holders \ {Owner}
      BY <2>12 DEF DtorTaskReturns
    <3>2. Running' = Running \ {task[Owner]} /\ finished' = finished \cup {task[Owner]}
      BY <2>12, <3>1, RunningReturn DEF DtorTaskReturns, ReturnFromTask
    <3>3. task[Owner] \in Running /\ task[Owner] \in Tasks
      BY <3>1 DEF Running, Held
    <3>4. Phase' = Phase
      BY <2>12 DEF DtorTaskReturns, Phase
    <3>5. Abstract!Finish(task[Owner])
      BY <2>12, <3>2, <3>3, <3>4 DEF DtorTaskReturns, Abstract!Finish
    <3>6. QED
      BY <3>3, <3>5 DEF Abstract!Next
  <2>13. CASE DtorReturn
    <3>1. Holders = {} /\ Holders' = {}
      BY <2>13 DEF DtorReturn, Deaths, InDtor
    <3>2. Running = {} /\ Running' = {}
      BY <3>1 DEF Running
    <3>3. Phase = "draining" /\ Phase' = "gone"
      BY <2>13 DEF DtorReturn, Phase
    <3>4. Abstract!Vanish
      BY <2>13, <3>2, <3>3 DEF DtorReturn, history, Abstract!Vanish
    <3>5. QED
      BY <3>4 DEF Abstract!Next
  <2>14. QED
    BY <1>3, <2>1, <2>2, <2>3, <2>4, <2>5, <2>6, <2>7, <2>8, <2>9, <2>10,
       <2>11, <2>12, <2>13 DEF OwnerStep
<1>4. ASSUME NEW w \in Workers, WorkerStep(w) \/ SpuriousWakeup(w)
      PROVE  [Abstract!Next]_(Abstract!poolVars)
  <2>1. CASE WorkerStart(w)  BY <2>1, AbstractFrame DEF WorkerStart
  <2>2. CASE WorkerWait(w)  BY <2>2, AbstractFrame DEF WorkerWait
  <2>3. CASE WorkerSeesKill(w)  BY <2>3, AbstractFrame DEF WorkerSeesKill
  <2>4. CASE WorkerReacquire(w)  BY <2>4, AbstractFrame DEF WorkerReacquire
  <2>5. CASE WorkerTakeTask(w)
    <3>1. w \notin Holders /\ Holders' = Holders \cup {w}
      BY <2>5 DEF WorkerTakeTask
    <3>2. Running' = Running \cup {Head(work_queue)}
      BY <2>5, <3>1, RunningTake DEF WorkerTakeTask
    <3>3. Phase = "open" /\ Phase' = "open"
      BY <2>5 DEF WorkerTakeTask, Phase, Deaths, InDtor
    <3>4. Cardinality(Running) < NumThreads
      BY <2>5, RoomToRun DEF WorkerTakeTask
    <3>5. work_queue # <<>> /\ work_queue' = Tail(work_queue) /\ UNCHANGED finished
      BY <2>5 DEF WorkerTakeTask, TakeTask
    <3> HIDE DEF IInv
    <3>6. Abstract!Cardinality(Running) = Cardinality(Running)
      BY DEF Abstract!Cardinality, Cardinality
    <3>7. Abstract!Start
      BY <3>2, <3>3, <3>4, <3>5, <3>6 DEF Abstract!Start, Abstract!MayStart
    <3>8. QED
      BY <3>7 DEF Abstract!Next
  <2>6. CASE WorkerNoTask(w)  BY <2>6, AbstractFrame DEF WorkerNoTask
  <2>7. CASE WorkerTaskReturns(w)
    <3>1. w \in Holders /\ Holders' = Holders \ {w}
      BY <2>7 DEF WorkerTaskReturns
    <3>2. Running' = Running \ {task[w]} /\ finished' = finished \cup {task[w]}
      BY <2>7, <3>1, RunningReturn DEF WorkerTaskReturns, ReturnFromTask
    <3>3. task[w] \in Running /\ task[w] \in Tasks
      BY <3>1 DEF Running, Held
    <3>4. Phase' = Phase
      BY <2>7 DEF WorkerTaskReturns, Phase
    <3>5. Abstract!Finish(task[w])
      BY <2>7, <3>2, <3>3, <3>4 DEF WorkerTaskReturns, Abstract!Finish
    <3>6. QED
      BY <3>3, <3>5 DEF Abstract!Next
  <2>8. CASE WorkerRelock(w)  BY <2>8, AbstractFrame DEF WorkerRelock
  <2>9. CASE WorkerExit(w)  BY <2>9, AbstractFrame DEF WorkerExit
  <2>10. CASE SpuriousWakeup(w)  BY <2>10, AbstractFrame DEF SpuriousWakeup
  <2>11. QED
    BY <1>4, <2>1, <2>2, <2>3, <2>4, <2>5, <2>6, <2>7, <2>8, <2>9, <2>10 DEF WorkerStep
<1>5. CASE PoolGone \/ UNCHANGED vars
  BY <1>5, AbstractFrame DEF PoolGone, vars
<1>6. QED
  BY <1>1, <1>2, <1>3, <1>4, <1>5 DEF Next, OwnerCalls

(* ThreadPool's threads, mutex and condition variable implement TaskPool:  *)
(* FIFO start, at most NumThreads at once, nothing started while the       *)
(* destructor waits for its threads, serial draining, each task once.      *)
THEOREM Refinement == Spec => ImplementsTaskPool
BY RefinesInit, RefinesNext, InductiveInvariant, PTL
   DEF Spec, ImplementsTaskPool, Abstract!Spec
=============================================================================
