------------------------ MODULE ThreadPoolQueueProofs ------------------------
(***************************************************************************)
(* Proofs about ThreadPoolQueue, for any number of clients, workers, tasks  *)
(* and threads: the types, the thread count, the concurrency limit and the  *)
(* wake-up, none of them inductive alone (ThreadPoolInv is); the end of the *)
(* queue; and that it implements the contract of DispatchQueue.             *)
(***************************************************************************)
EXTENDS ThreadPoolQueue, QueueServiceProofs

(* Where a callback is and what its thread is doing for the queue: it has a *)
(* task exactly inside InvokeTask, and it is in a QueueService method only  *)
(* from a task or at the end of the callback.                               *)
CallbackShape ==
  \A w \in Worker : /\ running[w] # NoTask <=> pc[w] = "run"
                    /\ call[w] # "none" => pc[w] \in {"run", "release"}

(* The destructor has run only after the last handle, task and callback.    *)
DestroyedShape ==
  lifetime # "alive" => handles = {} /\ IsEmpty /\ \A w \in Worker : pc[w] = "idle"

SchedulerTypeOK ==
  /\ m_usedThreads \in Nat /\ m_usedThreads <= MaxThreads
  /\ submitted \in Nat
  /\ pc \in [Worker -> Place]
  /\ lifetime \in Lifetime

ThreadPoolInv ==
  /\ ServiceInv
  /\ SchedulerTypeOK
  /\ CallbackShape
  /\ DestroyedShape
  /\ UsedThreadsExact
  /\ NoLostWakeup

-----------------------------------------------------------------------------
(* Facts about the sets the invariant counts *)

(* The sets of callbacks and of submitting threads are finite, and their    *)
(* cardinalities are numbers.                                               *)
LEMMA FiniteCounts ==
  /\ IsFiniteSet(Active) /\ Cardinality(Active) \in Nat
  /\ IsFiniteSet(Submitting) /\ Cardinality(Submitting) \in Nat
<1>1. IsFiniteSet(Thread)
  BY ThreadAssumption, FS_Union DEF Thread
<1>2. IsFiniteSet(Active) /\ IsFiniteSet(Submitting)
  BY <1>1, ThreadAssumption, FS_Subset DEF Active, Submitting
<1> QED
  BY <1>2, FS_CardinalityType

(* Steps in which no callback is counted, submitted, started or uncounted.  *)
LEMMA CountKept ==
  ASSUME UsedThreadsExact, UNCHANGED <<m_usedThreads, submitted>>,
         lifetime' = "alive" => lifetime = "alive",
         \A w \in Worker : pc'[w] \in {"deque", "run", "dec"} <=> pc[w] \in {"deque", "run", "dec"},
         \A a \in Thread : call'[a] = "submit" <=> call[a] = "submit"
  PROVE  UsedThreadsExact'
<1>1. Active' = Active /\ Submitting' = Submitting
  BY DEF Active, Submitting
<1> QED
  BY <1>1 DEF UsedThreadsExact

(* A thread that may call the queue keeps it alive.                         *)
LEMMA CallerKeepsAlive ==
  ASSUME ThreadPoolInv, NEW a \in Thread, CanCall(a)
  PROVE  lifetime = "alive" /\ call[a] = "none" /\ (a \in Worker => pc[a] = "run")
<1>1. a \in handles \/ (a \in Worker /\ pc[a] = "run")
  BY DEF ThreadPoolInv, CallbackShape, CanCall
<1>2. lifetime = "alive"
  BY <1>1 DEF ThreadPoolInv, DestroyedShape
<1>3. a \in Worker => a \notin handles
  BY ThreadAssumption DEF ThreadPoolInv, ServiceInv, ServiceTypeOK
<1> QED
  BY <1>1, <1>2, <1>3 DEF CanCall

(* The locked section of a method called by a user of the queue: only the   *)
(* caller's place moves, and if the queue now has tasks to run that it had  *)
(* not before, the caller owes a post.                                      *)
LEMMA UserCall ==
  ASSUME ThreadPoolInv, NEW a \in Thread, CanCall(a),
         UNCHANGED schedulerVars, UNCHANGED <<running, handles>>, ServiceInv',
         NEW x \in CallState \ {"submit"}, call' = [call EXCEPT ![a] = x],
         HasTasks' => HasTasks \/ x = "schedule"
  PROVE  ThreadPoolInv'
<1> USE DEF schedulerVars
<1>1. lifetime = "alive" /\ call[a] = "none" /\ (a \in Worker => pc[a] = "run")
  BY CallerKeepsAlive
<1>2. call \in [Thread -> CallState]
  BY DEF ThreadPoolInv, ServiceInv, ServiceTypeOK
<1>3. SchedulerTypeOK'
  BY DEF ThreadPoolInv, SchedulerTypeOK
<1>4. CallbackShape'
  BY <1>1, <1>2 DEF ThreadPoolInv, CallbackShape, Thread
<1>5. DestroyedShape'
  BY <1>1 DEF DestroyedShape
<1>6. UsedThreadsExact'
  BY <1>1, <1>2, CountKept DEF ThreadPoolInv
<1>7. NoLostWakeup'
  <2> SUFFICES ASSUME HasTasks'
               PROVE  \/ submitted' > 0 \/ Active' # {}
                      \/ \E b \in Thread : call'[b] \in {"schedule", "submit"}
                      \/ \E w \in Worker : pc'[w] = "check"
    BY DEF NoLostWakeup
  <2>1. CASE x = "schedule"
    BY <1>2, <2>1
  <2>2. CASE HasTasks
    <3>1. Active' = Active
      BY DEF Active
    <3>2. \A b \in Thread : call[b] \in {"schedule", "submit"} => call'[b] = call[b]
      BY <1>1, <1>2
    <3> QED
      BY <2>2, <3>1, <3>2 DEF ThreadPoolInv, NoLostWakeup
  <2> QED
    BY <2>1, <2>2
<1> QED
  BY <1>3, <1>4, <1>5, <1>6, <1>7 DEF ThreadPoolInv

-----------------------------------------------------------------------------
(* Calls of the queue's users *)

(* Whatever method a client or a task calls.                                *)
LEMMA UserMethodKeeps ==
  ASSUME ThreadPoolInv, NEW a \in Thread, UserMethod(a), UNCHANGED schedulerVars
  PROVE  ThreadPoolInv'
<1>1. ServiceInv' /\ CanCall(a) /\ UNCHANGED <<running, handles>>
  BY UserMethodStep DEF ThreadPoolInv
<1>2. PICK x \in {"none", "schedule", "shutdown", "terminate"} :
        call' = [call EXCEPT ![a] = x] /\ (HasTasks' => HasTasks \/ x = "schedule")
  BY UserMethodStep DEF ThreadPoolInv
<1> QED
  BY <1>1, <1>2, UserCall DEF CallState

-----------------------------------------------------------------------------
(* Steps outside the locked sections *)

(* A client drops its reference; only the last one destroys the queue, and  *)
(* then nothing is pending or running.                                      *)
LEMMA ReleaseHandleStep ==
  ASSUME ThreadPoolInv, NEW c \in Client, ReleaseHandle(c)
  PROVE  ThreadPoolInv'
<1> USE DEF ThreadPoolInv
<1>1. call \in [Thread -> CallState] /\ c \in Thread /\ c \notin Worker /\ call[c] = "none"
  BY ThreadAssumption DEF ServiceInv, ServiceTypeOK, Thread, ReleaseHandle
<1>2. \/ call' = call /\ m_shutdownAction' = m_shutdownAction
      \/ call' = [call EXCEPT ![c] = "wait"] /\ m_shutdownAction' = "complete"
  BY DEF ReleaseHandle
<1>3. \A a \in Thread : call[a] # "none" => call'[a] = call[a]
  BY <1>1, <1>2
<1>4. \A a \in Thread : call'[a] = call[a] \/ call'[a] = "wait"
  BY <1>1, <1>2
<1>5. ServiceInv' /\ HasTasks' = HasTasks /\ IsEmpty' = IsEmpty
  <2>1. call' \in [Thread -> CallState]
    BY <1>1, <1>2 DEF CallState
  <2>2. PostsOwed'
    BY <1>4 DEF ServiceInv, PostsOwed, ReleaseHandle
  <2>3. m_shutdownAction' \in {"none", "complete", "cancel"}
    BY <1>2 DEF ServiceInv, ServiceTypeOK
  <2>4. handles' \subseteq Client /\ guards \subseteq handles'
    BY DEF ServiceInv, ServiceTypeOK, ReleaseHandle
  <2> QED
    BY <2>1, <2>2, <2>3, <2>4, ServiceFrame DEF ReleaseHandle, ServiceInv, ServiceTypeOK
<1>6. SchedulerTypeOK'
  BY DEF SchedulerTypeOK, ReleaseHandle, Lifetime
<1>7. CallbackShape'
  BY <1>1, <1>2 DEF CallbackShape, ReleaseHandle, Thread
<1>8. DestroyedShape'
  <2>1. CASE handles = {c} /\ ~m_strongOwnerPtr /\ InCallback = {}
    <3>1. IsEmpty
      BY <2>1 DEF ServiceInv, OwnerHeldIffPending
    <3>2. \A w \in Worker : pc'[w] = "idle"
      BY <2>1 DEF InCallback, ReleaseHandle
    <3> QED
      BY <1>5, <2>1, <3>1, <3>2 DEF DestroyedShape, ReleaseHandle
  <2>2. CASE ~(handles = {c} /\ ~m_strongOwnerPtr /\ InCallback = {})
    BY <1>5, <2>2 DEF DestroyedShape, ReleaseHandle
  <2> QED
    BY <2>1, <2>2
<1>9. UsedThreadsExact'
  BY <1>3, <1>4, CountKept DEF ReleaseHandle
<1>10. NoLostWakeup'
  <2>1. Active' = Active
    BY DEF Active, ReleaseHandle
  <2> QED
    BY <1>3, <1>5, <2>1 DEF NoLostWakeup, ReleaseHandle
<1> QED
  BY <1>5, <1>6, <1>7, <1>8, <1>9, <1>10

(* Post of the scheduler.  At the limit it returns without a submission:    *)
(* by UsedThreadsExact there is a counted callback that will look at the    *)
(* queue after the task was put in it.                                      *)
LEMMA SchedulerPostStep ==
  ASSUME ThreadPoolInv, NEW a \in Thread, SchedulerPost(a)
  PROVE  ThreadPoolInv'
<1> USE DEF ThreadPoolInv
<1>1. /\ call \in [Thread -> CallState] /\ toSchedule \in [Thread -> Nat]
      /\ call[a] = "schedule" /\ toSchedule[a] > 0
  BY DEF ServiceInv, ServiceTypeOK, PostsOwed, SchedulerPost
<1>2. /\ m_usedThreads \in Nat /\ m_usedThreads <= MaxThreads /\ MaxThreads \in Nat \ {0}
      /\ submitted \in Nat
  BY MaxThreadsAssumption DEF SchedulerTypeOK
<1>3. Active' = Active
  BY DEF Active, SchedulerPost
<1>4. ASSUME NEW x \in CallState, x # "wait", call' = [call EXCEPT ![a] = x]
      PROVE  CallbackShape'
  BY <1>1, <1>4 DEF CallbackShape, SchedulerPost, Thread
<1>5. CASE m_usedThreads = MaxThreads
  <2>1. OweSchedulerPosts(a, toSchedule[a] - 1) /\ UNCHANGED m_usedThreads
    BY <1>5 DEF SchedulerPost, SchedulerPostDone
  <2>2. toSchedule' \in [Thread -> Nat] /\ call' \in [Thread -> CallState] /\ PostsOwed'
    BY <1>1, <2>1, OweSchedulerPostsInv DEF ServiceInv
  <2>3. ServiceInv' /\ HasTasks' = HasTasks /\ IsEmpty' = IsEmpty
    BY <2>2, ServiceFrame DEF SchedulerPost, ServiceInv, ServiceTypeOK
  <2>4. /\ call' = [call EXCEPT ![a] = IF toSchedule[a] - 1 > 0 THEN "schedule" ELSE "none"]
    BY <2>1 DEF OweSchedulerPosts
  <2>5. CallbackShape'
    BY <1>4, <2>4 DEF CallState
  <2>6. UsedThreadsExact'
    BY <1>1, <2>1, <2>4, CountKept DEF SchedulerPost
  <2>7. NoLostWakeup'
    <3>1. CASE lifetime = "alive"
      <4>1. submitted + Cardinality(Active) + Cardinality(Submitting) > 0
        BY <1>2, <1>5, <3>1 DEF UsedThreadsExact
      <4>2. Active = {} => Cardinality(Active) = 0
        BY FS_EmptySet
      <4>3. Submitting = {} => Cardinality(Submitting) = 0
        BY FS_EmptySet
      <4>4. submitted > 0 \/ Active # {} \/ Submitting # {}
        BY <1>2, <4>1, <4>2, <4>3, FiniteCounts
      <4>5. Submitting # {} => \E b \in Thread : call'[b] = "submit"
        BY <1>1, <2>4 DEF Submitting
      <4> QED
        BY <1>3, <4>4, <4>5 DEF NoLostWakeup, SchedulerPost
    <3>2. CASE lifetime # "alive"
      BY <2>3, <3>2 DEF DestroyedShape, HasTasks, NoLostWakeup
    <3> QED
      BY <3>1, <3>2
  <2> QED
    BY <2>1, <2>3, <2>5, <2>6, <2>7 DEF SchedulerPost, SchedulerTypeOK, DestroyedShape
<1>6. CASE m_usedThreads # MaxThreads
  <2>1. /\ m_usedThreads' = m_usedThreads + 1 /\ UNCHANGED toSchedule
        /\ call' = [call EXCEPT ![a] = "submit"]
    BY <1>6 DEF SchedulerPost
  <2>2. call' \in [Thread -> CallState] /\ PostsOwed'
    BY <1>1, <2>1 DEF CallState, PostsOwed, ServiceInv
  <2>3. ServiceInv' /\ HasTasks' = HasTasks /\ IsEmpty' = IsEmpty
    BY <2>1, <2>2, ServiceFrame DEF SchedulerPost, ServiceInv, ServiceTypeOK
  <2>4. CallbackShape'
    BY <1>4, <2>1 DEF CallState
  <2>5. UsedThreadsExact'
    <3>1. Submitting' = Submitting \cup {a} /\ a \notin Submitting
      BY <1>1, <2>1 DEF Submitting
    <3>2. Cardinality(Submitting') = Cardinality(Submitting) + 1
      BY <3>1, FiniteCounts, FS_AddElement
    <3> QED
      BY <1>2, <1>3, <2>1, <3>2, FiniteCounts DEF UsedThreadsExact, SchedulerPost
  <2>6. NoLostWakeup'
    BY <1>1, <2>1 DEF NoLostWakeup
  <2>7. SchedulerTypeOK'
    BY <1>2, <1>6, <2>1 DEF SchedulerPost, SchedulerTypeOK
  <2> QED
    BY <2>3, <2>4, <2>5, <2>6, <2>7 DEF SchedulerPost, DestroyedShape
<1> QED
  BY <1>5, <1>6

(* SubmitThreadpoolWork: the thread counted in Post becomes a submitted     *)
(* callback.                                                                *)
LEMMA SubmitStep ==
  ASSUME ThreadPoolInv, NEW a \in Thread, SubmitThreadpoolWork(a)
  PROVE  ThreadPoolInv'
<1> USE DEF ThreadPoolInv
<1>1. /\ call \in [Thread -> CallState] /\ toSchedule \in [Thread -> Nat]
      /\ call[a] = "submit" /\ toSchedule[a] > 0
  BY DEF ServiceInv, ServiceTypeOK, PostsOwed, SubmitThreadpoolWork
<1>2. m_usedThreads \in Nat /\ submitted \in Nat /\ submitted' = submitted + 1
  BY DEF SchedulerTypeOK, SubmitThreadpoolWork
<1>3. OweSchedulerPosts(a, toSchedule[a] - 1)
  BY DEF SubmitThreadpoolWork, SchedulerPostDone
<1>4. toSchedule' \in [Thread -> Nat] /\ call' \in [Thread -> CallState] /\ PostsOwed'
  BY <1>1, <1>3, OweSchedulerPostsInv DEF ServiceInv
<1>5. ServiceInv' /\ HasTasks' = HasTasks /\ IsEmpty' = IsEmpty
  BY <1>4, ServiceFrame DEF SubmitThreadpoolWork, ServiceInv, ServiceTypeOK
<1>6. call' = [call EXCEPT ![a] = IF toSchedule[a] - 1 > 0 THEN "schedule" ELSE "none"]
  BY <1>3 DEF OweSchedulerPosts
<1>7. CallbackShape'
  BY <1>1, <1>6 DEF CallbackShape, SubmitThreadpoolWork, Thread
<1>8. UsedThreadsExact'
  <2>1. Active' = Active
    BY DEF Active, SubmitThreadpoolWork
  <2>2. Submitting' = Submitting \ {a} /\ a \in Submitting
    BY <1>1, <1>6 DEF Submitting
  <2>3. Cardinality(Submitting') = Cardinality(Submitting) - 1
    BY <2>2, FiniteCounts, FS_RemoveElement
  <2> QED
    BY <1>2, <2>1, <2>3, FiniteCounts DEF UsedThreadsExact, SubmitThreadpoolWork
<1>9. NoLostWakeup'
  BY <1>2 DEF NoLostWakeup
<1> QED
  BY <1>2, <1>5, <1>7, <1>8, <1>9 DEF SubmitThreadpoolWork, SchedulerTypeOK, DestroyedShape

(* The ends of Shutdown and AwaitTermination move only the caller, from a   *)
(* place to one where it owes no post.                                      *)
LEMMA CallerMoves ==
  ASSUME ThreadPoolInv, NEW a \in Thread, NEW x \in {"none", "wait"},
         call[a] \in {"shutdown", "terminate", "wait"}, call' = [call EXCEPT ![a] = x],
         a \in Worker => x = "none",
         UNCHANGED tqVars,
         UNCHANGED <<m_shutdownAction, m_suspendCounter, handles, guards, toSchedule, toCancel,
                     running, deferred, outcome, m_usedThreads, submitted, pc>>,
         lifetime' \in Lifetime, (lifetime = "alive") = (lifetime' = "alive")
  PROVE  ThreadPoolInv'
<1> USE DEF ThreadPoolInv
<1>1. call \in [Thread -> CallState] /\ call' \in [Thread -> CallState]
  BY DEF ServiceInv, ServiceTypeOK, CallState
<1>2. PostsOwed'
  BY <1>1 DEF ServiceInv, PostsOwed
<1>3. ServiceInv' /\ HasTasks' = HasTasks /\ IsEmpty' = IsEmpty
  BY <1>1, <1>2, ServiceFrame DEF ServiceInv, ServiceTypeOK
<1>4. CallbackShape'
  BY <1>1 DEF CallbackShape, Thread
<1>5. UsedThreadsExact'
  BY <1>1, CountKept
<1>6. NoLostWakeup'
  <2>1. Active' = Active
    BY DEF Active
  <2>2. \A b \in Thread : call[b] \in {"schedule", "submit"} => call'[b] = call[b]
    BY <1>1
  <2> QED
    BY <1>3, <2>1, <2>2 DEF NoLostWakeup
<1> QED
  BY <1>3, <1>4, <1>5, <1>6 DEF SchedulerTypeOK, DestroyedShape

(* CancelTask touches neither the queue nor the counters.                   *)
LEMMA CancelTaskStep ==
  ASSUME ThreadPoolInv, NEW a \in Thread, CancelTask(a), UNCHANGED schedulerVars
  PROVE  ThreadPoolInv'
<1> USE DEF ThreadPoolInv, schedulerVars
<1>1. ServiceInv'
  BY CancelTaskInv
<1>2. HasTasks' = HasTasks /\ IsEmpty' = IsEmpty
  BY DEF CancelTask, tqVars, HasTasks, IsEmpty, ReadBufferIsEmpty
<1>3. CallbackShape'
  BY DEF CallbackShape, CancelTask
<1>4. UsedThreadsExact'
  BY CountKept DEF CancelTask
<1>5. NoLostWakeup'
  BY <1>2 DEF NoLostWakeup, Active, CancelTask
<1> QED
  BY <1>1, <1>2, <1>3, <1>4, <1>5 DEF SchedulerTypeOK, DestroyedShape, CancelTask

(* The scheduler call at the end of Shutdown or AwaitTermination.           *)
LEMMA SchedulerShutdownStep ==
  ASSUME ThreadPoolInv, NEW a \in Thread, SchedulerShutdown(a)
  PROVE  ThreadPoolInv'
<1>1. \E x \in {"none", "wait"} : call' = [call EXCEPT ![a] = x] /\ (a \in Worker => x = "none")
  BY ThreadAssumption DEF SchedulerShutdown
<1>2. lifetime \in Lifetime
  BY DEF ThreadPoolInv, SchedulerTypeOK
<1> QED
  BY <1>1, <1>2, CallerMoves DEF SchedulerShutdown, schedulerVars

(* The wait for the callbacks returns.                                      *)
LEMMA WaitReturnsStep ==
  ASSUME ThreadPoolInv, NEW c \in Client, WaitReturns(c)
  PROVE  ThreadPoolInv'
<1>1. c \in Thread /\ c \notin Worker
  BY ThreadAssumption DEF Thread
<1>2. lifetime' \in Lifetime /\ (lifetime = "alive") = (lifetime' = "alive")
  BY DEF ThreadPoolInv, SchedulerTypeOK, WaitReturns, Lifetime
<1> QED
  BY <1>1, <1>2, CallerMoves DEF WaitReturns

-----------------------------------------------------------------------------
(* WorkCallback *)

(* A submitted callback starts: it stays counted if the queue is alive, and *)
(* returns at once if not.                                                  *)
LEMMA StartCallbackStep ==
  ASSUME ThreadPoolInv, NEW w \in Worker, StartCallback(w)
  PROVE  ThreadPoolInv'
<1> USE DEF ThreadPoolInv
<1>1. pc \in [Worker -> Place] /\ pc[w] = "idle" /\ submitted \in Nat /\ submitted > 0
  BY DEF SchedulerTypeOK, StartCallback
<1>2. ServiceInv' /\ HasTasks' = HasTasks /\ IsEmpty' = IsEmpty
  <2>1. UNCHANGED tqVars /\ UNCHANGED serviceVars
    BY DEF StartCallback
  <2>2. PostsOwed'
    BY <2>1 DEF serviceVars, ServiceInv, PostsOwed
  <2> QED
    BY <2>1, <2>2, ServiceFrame DEF serviceVars, ServiceInv, ServiceTypeOK
<1>3. SchedulerTypeOK'
  BY <1>1 DEF SchedulerTypeOK, StartCallback, Place
<1>4. CallbackShape'
  BY <1>1 DEF CallbackShape, StartCallback, serviceVars
<1>5. DestroyedShape'
  BY <1>1, <1>2 DEF DestroyedShape, StartCallback, serviceVars
<1>6. CASE lifetime = "alive"
  <2>1. Active' = Active \cup {w} /\ w \notin Active
    BY <1>1, <1>6 DEF Active, StartCallback
  <2>2. Cardinality(Active') = Cardinality(Active) + 1
    BY <2>1, FiniteCounts, FS_AddElement
  <2>3. Submitting' = Submitting
    BY DEF Submitting, StartCallback, serviceVars
  <2>4. UsedThreadsExact'
    BY <1>1, <2>2, <2>3, FiniteCounts DEF UsedThreadsExact, StartCallback, SchedulerTypeOK
  <2>5. NoLostWakeup'
    BY <2>1 DEF NoLostWakeup
  <2> QED
    BY <1>2, <1>3, <1>4, <1>5, <2>4, <2>5
<1>7. CASE lifetime # "alive"
  <2>1. UsedThreadsExact'
    BY <1>7 DEF UsedThreadsExact, StartCallback
  <2>2. NoLostWakeup'
    BY <1>2, <1>7 DEF NoLostWakeup, DestroyedShape, HasTasks
  <2> QED
    BY <1>2, <1>3, <1>4, <1>5, <2>1, <2>2
<1> QED
  BY <1>6, <1>7

(* A callback that is counted moves inside its loop.                        *)
LEMMA CallbackLoop ==
  ASSUME ThreadPoolInv, NEW w \in Worker, NEW x \in {"deque", "run", "dec"}, ServiceInv',
         pc[w] \in {"deque", "run"}, pc' = [pc EXCEPT ![w] = x],
         running'[w] # NoTask <=> x = "run", call[w] = "none" \/ (x = "run" /\ pc[w] = "run"),
         \A v \in Worker : v # w => running'[v] = running[v],
         UNCHANGED <<call, handles, m_usedThreads, submitted, lifetime>>
  PROVE  ThreadPoolInv'
<1> USE DEF ThreadPoolInv
<1>1. pc \in [Worker -> Place]
  BY DEF SchedulerTypeOK
<1>2. SchedulerTypeOK'
  BY <1>1 DEF SchedulerTypeOK, Place
<1>3. CallbackShape'
  BY <1>1 DEF CallbackShape
<1>4. DestroyedShape'
  BY DEF DestroyedShape
<1>5. UsedThreadsExact'
  BY <1>1, CountKept
<1>6. NoLostWakeup'
  <2>1. w \in Active'
    BY <1>1 DEF Active
  <2> QED
    BY <2>1 DEF NoLostWakeup
<1> QED
  BY <1>2, <1>3, <1>4, <1>5, <1>6

(* The callback takes a task, or finds none and leaves its loop.            *)
LEMMA WorkerDequeStep ==
  ASSUME ThreadPoolInv, NEW w \in Worker, WorkerDeque(w)
  PROVE  ThreadPoolInv'
<1>1. pc[w] = "deque" /\ call[w] = "none" /\ running[w] = NoTask
  BY DEF ThreadPoolInv, CallbackShape, WorkerDeque
<1>2. UNCHANGED <<m_usedThreads, submitted, lifetime>>
  BY DEF WorkerDeque
<1>3. CASE HasTasks
  <2>1. PICK t \in Task : TryDequeTask(w, t)
    BY <1>3 DEF WorkerDeque
  <2>2. ServiceInv'
    BY <2>1, TryDequeTaskInv DEF ThreadPoolInv
  <2>3. /\ running' = [running EXCEPT ![w] = t] /\ UNCHANGED <<call, handles>>
        /\ running \in [Worker -> Task \cup {NoTask}]
    BY <2>1 DEF TryDequeTask, ThreadPoolInv, ServiceInv, ServiceTypeOK
  <2>4. running'[w] # NoTask /\ \A v \in Worker : v # w => running'[v] = running[v]
    BY <2>3, NoTaskAssumption
  <2>5. pc' = [pc EXCEPT ![w] = "run"]
    BY <1>3 DEF WorkerDeque
  <2> QED
    BY <1>1, <1>2, <2>2, <2>3, <2>4, <2>5, CallbackLoop
<1>4. CASE ~HasTasks
  <2>1. UNCHANGED tqVars /\ UNCHANGED serviceVars /\ pc' = [pc EXCEPT ![w] = "dec"]
    BY <1>4 DEF WorkerDeque
  <2>2. PostsOwed'
    BY <2>1 DEF serviceVars, ThreadPoolInv, ServiceInv, PostsOwed
  <2>3. ServiceInv'
    BY <2>1, <2>2, ServiceFrame DEF serviceVars, ThreadPoolInv, ServiceInv, ServiceTypeOK
  <2> QED
    BY <1>1, <1>2, <2>1, <2>3, CallbackLoop DEF serviceVars
<1> QED
  BY <1>3, <1>4

(* The running task ends; the callback stays counted whether it goes on or  *)
(* its time is over.                                                        *)
LEMMA WorkerInvokeStep ==
  ASSUME ThreadPoolInv, NEW w \in Worker, WorkerInvoke(w)
  PROVE  ThreadPoolInv'
<1>1. pc[w] = "run" /\ InvokeTaskStep(w) /\ call[w] = "none"
  BY DEF WorkerInvoke, InvokeTaskStep
<1>2. ServiceInv'
  BY <1>1, InvokeTaskStepInv DEF ThreadPoolInv
<1>3. UNCHANGED <<call, handles, m_usedThreads, submitted, lifetime>>
  BY DEF WorkerInvoke, InvokeTaskStep
<1>4. \A v \in Worker : v # w => running'[v] = running[v]
  BY DEF WorkerInvoke, InvokeTaskStep, ThreadPoolInv, ServiceInv, ServiceTypeOK
<1>5. pc \in [Worker -> Place]
  BY DEF ThreadPoolInv, SchedulerTypeOK
<1>6. CASE running'[w] # NoTask
  <2>1. pc' = [pc EXCEPT ![w] = "run"]
    BY <1>1, <1>5, <1>6 DEF WorkerInvoke
  <2> QED
    BY <1>1, <1>2, <1>3, <1>4, <1>6, <2>1, CallbackLoop
<1>7. CASE running'[w] = NoTask
  <2>1. PICK x \in {"deque", "dec"} : pc' = [pc EXCEPT ![w] = x]
    BY <1>7 DEF WorkerInvoke
  <2> QED
    BY <1>1, <1>2, <1>3, <1>4, <1>7, <2>1, CallbackLoop
<1> QED
  BY <1>6, <1>7

(* The callback leaves the count, and is about to look at the queue again.  *)
LEMMA WorkerDecStep ==
  ASSUME ThreadPoolInv, NEW w \in Worker, WorkerDec(w)
  PROVE  ThreadPoolInv'
<1> USE DEF ThreadPoolInv
<1>1. /\ pc \in [Worker -> Place] /\ pc[w] = "dec" /\ pc' = [pc EXCEPT ![w] = "check"]
      /\ m_usedThreads \in Nat /\ submitted \in Nat /\ MaxThreads \in Nat
  BY MaxThreadsAssumption DEF SchedulerTypeOK, WorkerDec
<1>2. ServiceInv' /\ HasTasks' = HasTasks /\ IsEmpty' = IsEmpty
  <2>1. UNCHANGED tqVars /\ UNCHANGED serviceVars
    BY DEF WorkerDec
  <2>2. PostsOwed'
    BY <2>1 DEF serviceVars, ServiceInv, PostsOwed
  <2> QED
    BY <2>1, <2>2, ServiceFrame DEF serviceVars, ServiceInv, ServiceTypeOK
<1>3. lifetime = "alive" /\ lifetime' = "alive"
  BY <1>1 DEF DestroyedShape, WorkerDec
<1>4. Active' = Active \ {w} /\ w \in Active
  BY <1>1 DEF Active
<1>5. Cardinality(Active') = Cardinality(Active) - 1 /\ Cardinality(Active') \in Nat
  <2>1. IsFiniteSet(Active') /\ Cardinality(Active') = Cardinality(Active) - 1
    BY <1>4, FiniteCounts, FS_RemoveElement
  <2> QED
    BY <2>1, FS_CardinalityType
<1>6. Submitting' = Submitting
  BY DEF Submitting, WorkerDec, serviceVars
<1>7. m_usedThreads = submitted + Cardinality(Active) + Cardinality(Submitting)
  BY <1>3 DEF UsedThreadsExact
<1>8. UsedThreadsExact'
  BY <1>1, <1>5, <1>6, <1>7, FiniteCounts DEF UsedThreadsExact, WorkerDec
<1>9. SchedulerTypeOK'
  BY <1>1, <1>5, <1>7, FiniteCounts DEF SchedulerTypeOK, WorkerDec, Place
<1>10. CallbackShape'
  BY <1>1 DEF CallbackShape, WorkerDec, serviceVars
<1>11. DestroyedShape'
  BY <1>3 DEF DestroyedShape
<1>12. NoLostWakeup'
  BY <1>1 DEF NoLostWakeup
<1> QED
  BY <1>2, <1>8, <1>9, <1>10, <1>11, <1>12

(* The look at the queue: a task that was posted while the callback was     *)
(* still counted, so that Post returned at the limit, is scheduled here.    *)
LEMMA WorkerCheckStep ==
  ASSUME ThreadPoolInv, NEW w \in Worker, WorkerCheck(w)
  PROVE  ThreadPoolInv'
<1> USE DEF ThreadPoolInv
<1> DEFINE n == IF HasTasks THEN 1 ELSE 0
<1>1. /\ pc \in [Worker -> Place] /\ pc[w] = "check" /\ pc' = [pc EXCEPT ![w] = "release"]
      /\ call \in [Thread -> CallState] /\ w \in Thread /\ call[w] = "none"
  BY DEF SchedulerTypeOK, ServiceInv, ServiceTypeOK, CallbackShape, WorkerCheck, Thread
<1>2. OweSchedulerPosts(w, n) /\ n \in Nat
  BY DEF WorkerCheck
<1>3. toSchedule' \in [Thread -> Nat] /\ call' \in [Thread -> CallState] /\ PostsOwed'
  BY <1>1, <1>2, OweSchedulerPostsInv DEF ServiceInv
<1>4. ServiceInv' /\ HasTasks' = HasTasks /\ IsEmpty' = IsEmpty
  BY <1>3, ServiceFrame DEF WorkerCheck, ServiceInv, ServiceTypeOK
<1>5. call' = [call EXCEPT ![w] = IF HasTasks THEN "schedule" ELSE "none"]
  <2>1. CASE HasTasks
    BY <1>2, <2>1 DEF OweSchedulerPosts
  <2>2. CASE ~HasTasks
    BY <1>2, <2>2 DEF OweSchedulerPosts
  <2> QED
    BY <2>1, <2>2
<1>6. SchedulerTypeOK'
  BY <1>1 DEF SchedulerTypeOK, WorkerCheck, Place
<1>7. CallbackShape'
  BY <1>1, <1>5 DEF CallbackShape, WorkerCheck, Thread
<1>8. DestroyedShape'
  BY <1>1, <1>4 DEF DestroyedShape, WorkerCheck
<1>9. UsedThreadsExact'
  BY <1>1, <1>5, CountKept DEF WorkerCheck
<1>10. NoLostWakeup'
  BY <1>1, <1>4, <1>5 DEF NoLostWakeup
<1> QED
  BY <1>4, <1>6, <1>7, <1>8, <1>9, <1>10

(* The callback drops its reference; the last one destroys an empty queue.  *)
LEMMA WorkerReleaseStep ==
  ASSUME ThreadPoolInv, NEW w \in Worker, WorkerRelease(w)
  PROVE  ThreadPoolInv'
<1> USE DEF ThreadPoolInv
<1>1. /\ pc \in [Worker -> Place] /\ pc[w] = "release" /\ pc' = [pc EXCEPT ![w] = "idle"]
      /\ call[w] = "none"
  BY DEF SchedulerTypeOK, WorkerRelease
<1>2. m_shutdownAction' \in {"none", "complete", "cancel"}
  BY DEF ServiceInv, ServiceTypeOK, WorkerRelease
<1>3. ServiceInv' /\ HasTasks' = HasTasks /\ IsEmpty' = IsEmpty
  <2>1. PostsOwed'
    BY DEF ServiceInv, PostsOwed, WorkerRelease
  <2> QED
    BY <1>2, <2>1, ServiceFrame DEF ServiceInv, ServiceTypeOK, WorkerRelease
<1>4. SchedulerTypeOK'
  BY <1>1 DEF SchedulerTypeOK, WorkerRelease, Place, Lifetime
<1>5. CallbackShape'
  BY <1>1 DEF CallbackShape, WorkerRelease
<1>6. DestroyedShape'
  <2>1. CASE handles = {} /\ ~m_strongOwnerPtr /\ InCallback = {w}
    <3>1. IsEmpty
      BY <2>1 DEF ServiceInv, OwnerHeldIffPending
    <3>2. \A v \in Worker : pc'[v] = "idle"
      BY <1>1, <2>1 DEF InCallback
    <3> QED
      BY <1>3, <2>1, <3>1, <3>2 DEF DestroyedShape, WorkerRelease
  <2>2. CASE ~(handles = {} /\ ~m_strongOwnerPtr /\ InCallback = {w})
    BY <1>1, <1>3, <2>2 DEF DestroyedShape, WorkerRelease
  <2> QED
    BY <2>1, <2>2
<1>7. UsedThreadsExact'
  <2>1. lifetime' = "alive" => lifetime = "alive"
    BY DEF WorkerRelease
  <2> QED
    BY <1>1, <2>1, CountKept DEF WorkerRelease
<1>8. NoLostWakeup'
  <2>1. Active' = Active
    BY <1>1 DEF Active
  <2>2. \A v \in Worker : pc[v] = "check" => pc'[v] = "check"
    BY <1>1
  <2> QED
    BY <1>3, <2>1, <2>2 DEF NoLostWakeup, WorkerRelease
<1> QED
  BY <1>3, <1>4, <1>5, <1>6, <1>7, <1>8

-----------------------------------------------------------------------------
(* The invariant of the queue *)

(* A new queue satisfies the invariant.                                     *)
LEMMA InitThreadPoolInv == Init => ThreadPoolInv
<1> HAVE Init
<1>1. ServiceInv
  BY ServiceInitInv DEF Init
<1>2. SchedulerTypeOK
  BY MaxThreadsAssumption DEF Init, SchedulerTypeOK, Place, Lifetime
<1>3. CallbackShape
  BY DEF Init, ServiceInit, CallbackShape, Thread
<1>4. DestroyedShape
  BY DEF Init, DestroyedShape
<1>5. UsedThreadsExact
  <2>1. Active = {} /\ Submitting = {}
    BY DEF Init, ServiceInit, Active, Submitting
  <2> QED
    BY <2>1, FS_EmptySet DEF Init, UsedThreadsExact
<1>6. NoLostWakeup
  <2>1. IsEmpty
    BY InitTypeOwner DEF Init, ServiceInit, TQInit, OwnerHeldIffPending, IsEmpty, ReadBufferIsEmpty
  <2> QED
    BY <2>1 DEF NoLostWakeup, HasTasks
<1> QED
  BY <1>1, <1>2, <1>3, <1>4, <1>5, <1>6 DEF ThreadPoolInv

(* Every step keeps the invariant: one case per action.                     *)
LEMMA NextThreadPoolInv ==
  ASSUME ThreadPoolInv, [Next]_vars
  PROVE  ThreadPoolInv'
<1>1. ASSUME NEW c \in Client, ClientCall(c) PROVE ThreadPoolInv'
  <2>1. c \in Thread /\ UserMethod(c)
    BY <1>1 DEF ClientCall, UserMethod, Thread
  <2> QED
    BY <1>1, <2>1, UserMethodKeeps DEF ClientCall
<1>2. ASSUME NEW c \in Client, ReleaseHandle(c) PROVE ThreadPoolInv'
  BY <1>2, ReleaseHandleStep
<1>3. ASSUME NEW c \in Client, WaitReturns(c) PROVE ThreadPoolInv'
  BY <1>3, WaitReturnsStep
<1>4. ASSUME NEW w \in Worker, TaskCall(w) PROVE ThreadPoolInv'
  <2>1. w \in Thread /\ UserMethod(w)
    BY <1>4 DEF TaskCall, UserMethod, Thread
  <2> QED
    BY <1>4, <2>1, UserMethodKeeps DEF TaskCall
<1>5. ASSUME NEW w \in Worker, WorkerStep(w) PROVE ThreadPoolInv'
  BY <1>5, StartCallbackStep, WorkerDequeStep, WorkerInvokeStep, WorkerDecStep,
     WorkerCheckStep, WorkerReleaseStep DEF WorkerStep
<1>6. ASSUME NEW a \in Thread, Continue(a) PROVE ThreadPoolInv'
  BY <1>6, CancelTaskStep, SchedulerPostStep, SubmitStep, SchedulerShutdownStep DEF Continue
<1>7. ASSUME UNCHANGED vars PROVE ThreadPoolInv'
  <2>1. UNCHANGED tqVars /\ UNCHANGED serviceVars
    BY <1>7 DEF vars
  <2>2. PostsOwed'
    BY <2>1 DEF serviceVars, ThreadPoolInv, ServiceInv, PostsOwed
  <2>3. ServiceInv' /\ HasTasks' = HasTasks /\ IsEmpty' = IsEmpty
    BY <2>1, <2>2, ServiceFrame DEF serviceVars, ThreadPoolInv, ServiceInv, ServiceTypeOK
  <2>4. UsedThreadsExact'
    BY <1>7, CountKept DEF vars, serviceVars, ThreadPoolInv
  <2> QED
    BY <1>7, <2>3, <2>4 DEF vars, serviceVars, ThreadPoolInv, SchedulerTypeOK, CallbackShape,
       DestroyedShape, NoLostWakeup, Active
<1> QED
  BY <1>1, <1>2, <1>3, <1>4, <1>5, <1>6, <1>7 DEF Next

(* The inductive invariant: exact thread count and wake-ups that are never  *)
(* lost need each other, the places of the callbacks, and the shape of a    *)
(* destroyed queue.                                                         *)
THEOREM ThreadPoolInvariant == Spec => []ThreadPoolInv
<1>1. ThreadPoolInv /\ [Next]_vars => ThreadPoolInv'
  BY NextThreadPoolInv
<1> QED
  BY InitThreadPoolInv, <1>1, PTL DEF Spec

(* Every variable keeps its type: the counters m_usedThreads and            *)
(* m_suspendCounter, which the code only increments and decrements, never   *)
(* go below zero.                                                           *)
THEOREM ThreadPoolTypeCorrect == Spec => []TypeOK
<1>1. ThreadPoolInv => TypeOK
  BY DEF ThreadPoolInv, ServiceInv, SchedulerTypeOK, TypeOK
<1> QED
  BY <1>1, ThreadPoolInvariant, PTL

(* m_usedThreads is exact, for any number of threads and any MaxThreads.    *)
THEOREM ThreadCountExact == Spec => []UsedThreadsExact
<1>1. ThreadPoolInv => UsedThreadsExact
  BY DEF ThreadPoolInv
<1> QED
  BY <1>1, ThreadPoolInvariant, PTL

(* No wake-up is lost: a queue with tasks it may run is never left with     *)
(* nobody on the way to run them.                                           *)
THEOREM WakeupNeverLost == Spec => []NoLostWakeup
<1>1. ThreadPoolInv => NoLostWakeup
  BY DEF ThreadPoolInv
<1> QED
  BY <1>1, ThreadPoolInvariant, PTL

(* At most m_maxThreads tasks run at a time; a serial queue is serial.      *)
THEOREM ConcurrencyBounded == Spec => []ConcurrencyBound
<1>1. ASSUME ThreadPoolInv PROVE ConcurrencyBound
  <2> DEFINE R == {w \in Worker : running[w] # NoTask}
  <2> USE DEF ThreadPoolInv
  <2>1. R \subseteq Active
    BY <1>1 DEF CallbackShape, Active
  <2>2. /\ IsFiniteSet(R) /\ Cardinality(R) <= Cardinality(Active)
        /\ Cardinality(R) \in Nat
    BY <2>1, FiniteCounts, FS_Subset, FS_CardinalityType
  <2>3. CASE lifetime = "alive"
    <3>1. Cardinality(Active) <= MaxThreads
      BY <1>1, <2>3, FiniteCounts, MaxThreadsAssumption DEF UsedThreadsExact, SchedulerTypeOK
    <3> QED
      BY <2>2, <3>1, FiniteCounts, MaxThreadsAssumption DEF ConcurrencyBound
  <2>4. CASE lifetime # "alive"
    <3>1. R = {}
      BY <1>1, <2>4 DEF CallbackShape, DestroyedShape
    <3> QED
      BY <3>1, FS_EmptySet, MaxThreadsAssumption DEF ConcurrencyBound
  <2> QED
    BY <2>3, <2>4
<1> QED
  BY <1>1, ThreadPoolInvariant, PTL

(* The QueueService is referenced by its TaskQueue exactly while a task is  *)
(* pending, in every interleaving of the queue's users and callbacks.       *)
THEOREM QueueKeptWhilePending == Spec => []OwnerHeldIffPending
<1>1. ThreadPoolInv => OwnerHeldIffPending
  BY DEF ThreadPoolInv, ServiceInv
<1> QED
  BY <1>1, ThreadPoolInvariant, PTL

-----------------------------------------------------------------------------
(* Where the tasks are, and the contract *)

(* Every step keeps each accepted task in exactly one place.                *)
LEMMA NextTaskPlaces ==
  ASSUME ThreadPoolInv, TaskPlaces, [Next]_vars
  PROVE  TaskPlaces'
<1>0. ServiceTypeOK
  BY DEF ThreadPoolInv, ServiceInv
<1> USE PlaceTypes
<1>1. ASSUME NEW c \in Client, ClientCall(c) PROVE TaskPlaces'
  <2>1. c \in Thread /\ UserMethod(c)
    BY <1>1 DEF ClientCall, UserMethod, Thread
  <2> QED
    BY <2>1, UserMethodPlaces DEF ThreadPoolInv
<1>2. ASSUME NEW w \in Worker, TaskCall(w) PROVE TaskPlaces'
  <2>1. w \in Thread /\ UserMethod(w)
    BY <1>2 DEF TaskCall, UserMethod, Thread
  <2> QED
    BY <2>1, UserMethodPlaces DEF ThreadPoolInv
<1>3. ASSUME NEW c \in Client, ReleaseHandle(c) PROVE TaskPlaces'
  BY <1>0, <1>3, PlacesKept DEF ReleaseHandle
<1>4. ASSUME NEW c \in Client, WaitReturns(c) PROVE TaskPlaces'
  BY <1>0, <1>4, PlacesKept DEF WaitReturns
<1>5. ASSUME NEW w \in Worker, WorkerStep(w) PROVE TaskPlaces'
  <2>1. ASSUME StartCallback(w) \/ WorkerDec(w) PROVE TaskPlaces'
    BY <1>0, <2>1, PlacesKept DEF StartCallback, WorkerDec, serviceVars
  <2>2. ASSUME WorkerDeque(w) PROVE TaskPlaces'
    <3>1. running[w] = NoTask
      BY <2>2 DEF WorkerDeque, ThreadPoolInv, CallbackShape
    <3>2. CASE HasTasks
      BY <1>0, <2>2, <3>1, <3>2, TryDequeTaskPlaces DEF WorkerDeque
    <3>3. CASE ~HasTasks
      BY <1>0, <2>2, <3>3, PlacesKept DEF WorkerDeque, serviceVars
    <3> QED
      BY <3>2, <3>3
  <2>3. ASSUME WorkerInvoke(w) PROVE TaskPlaces'
    BY <1>0, <2>3, InvokeTaskStepPlaces DEF WorkerInvoke
  <2>4. ASSUME WorkerCheck(w) PROVE TaskPlaces'
    <3>1. call[w] = "none" /\ w \in Thread
      BY <2>4 DEF WorkerCheck, ThreadPoolInv, CallbackShape, Thread
    <3> QED
      BY <1>0, <2>4, <3>1, PlacesKept DEF WorkerCheck, OweSchedulerPosts
  <2>5. ASSUME WorkerRelease(w) PROVE TaskPlaces'
    BY <1>0, <2>5, PlacesKept DEF WorkerRelease
  <2> QED
    BY <1>5, <2>1, <2>2, <2>3, <2>4, <2>5 DEF WorkerStep
<1>6. ASSUME NEW a \in Thread, Continue(a) PROVE TaskPlaces'
  <2>1. ASSUME CancelTask(a) PROVE TaskPlaces'
    BY <1>0, <2>1, CancelTaskPlaces
  <2>2. ASSUME SchedulerPost(a) PROVE TaskPlaces'
    BY <1>0, <2>2, PlacesKept DEF SchedulerPost, SchedulerPostDone, OweSchedulerPosts
  <2>3. ASSUME SubmitThreadpoolWork(a) PROVE TaskPlaces'
    BY <1>0, <2>3, PlacesKept DEF SubmitThreadpoolWork, SchedulerPostDone, OweSchedulerPosts
  <2>4. ASSUME SchedulerShutdown(a) PROVE TaskPlaces'
    BY <1>0, <2>4, PlacesKept DEF SchedulerShutdown
  <2> QED
    BY <1>6, <2>1, <2>2, <2>3, <2>4 DEF Continue
<1>7. ASSUME UNCHANGED vars PROVE TaskPlaces'
  BY <1>0, <1>7, PlacesKept DEF vars, serviceVars
<1> QED
  BY <1>1, <1>2, <1>3, <1>4, <1>5, <1>6, <1>7 DEF Next

(* No task is lost, duplicated or in two places at once, in any             *)
(* interleaving of posts, callbacks, deferrals and shutdowns.               *)
THEOREM TasksInOnePlace == Spec => [](ThreadPoolInv /\ TaskPlaces)
<1>1. Init => ThreadPoolInv /\ TaskPlaces
  BY InitThreadPoolInv, ServiceInitPlaces DEF Init
<1>2. ThreadPoolInv /\ TaskPlaces /\ [Next]_vars => (ThreadPoolInv /\ TaskPlaces)'
  BY NextThreadPoolInv, NextTaskPlaces
<1> QED
  BY <1>1, <1>2, PTL DEF Spec

(* A task that has started, and one deferred by it, is in a callback.       *)
LEMMA NothingStartedOutsideRun ==
  ASSUME ThreadPoolInv, TaskPlaces, \A w \in Worker : pc[w] # "run"
  PROVE  \A t \in Task : outcome[t] \notin {"deferred", "started"}
<1>1. \A w \in Worker : running[w] = NoTask /\ deferred[w] = <<>>
  BY DEF ThreadPoolInv, CallbackShape, TaskPlaces
<1>2. \A t \in Task : outcome[t] # "started"
  BY <1>1, NoTaskAssumption DEF TaskPlaces, RunningExact
<1>3. \A t \in Task : outcome[t] # "deferred"
  BY <1>1, HoldsNothing DEF TaskPlaces
<1> QED
  BY <1>2, <1>3

(* "Queue must be empty before destruction": ~TaskQueue finds its queue     *)
(* empty, no callback is left in the destroyed scheduler, and no task was   *)
(* dropped on the way.                                                      *)
THEOREM DestroyedEmpty == Spec => []DestroyedQueueIsEmpty
<1>1. ASSUME ThreadPoolInv, TaskPlaces PROVE DestroyedQueueIsEmpty
  <2> SUFFICES ASSUME lifetime # "alive" PROVE DestroyedQueueIsEmpty
    BY DEF DestroyedQueueIsEmpty
  <2>1. IsEmpty /\ \A w \in Worker : pc[w] = "idle"
    BY <1>1 DEF ThreadPoolInv, DestroyedShape
  <2>2. \A t \in Task : outcome[t] \notin {"deferred", "started"}
    BY <1>1, <2>1, NothingStartedOutsideRun
  <2>3. \A t \in Task : outcome[t] # "queued"
    <3>1. Contents = <<>>
      BY <1>1, <2>1, EmptyContents DEF ThreadPoolInv, ServiceInv, ServiceTypeOK
    <3> QED
      BY <1>1, <3>1, HoldsNothing DEF TaskPlaces, Only
  <2> QED
    BY <2>1, <2>2, <2>3 DEF DestroyedQueueIsEmpty
<1> QED
  BY <1>1, TasksInOnePlace, PTL

(* AwaitTermination returns to a client only when no task is running, and   *)
(* none is pending that the queue may run and nobody is scheduling.         *)
THEOREM TerminationAwaited == Spec => AwaitTerminationWaits
<1> DEFINE Waits == \A c \in Client :
             call[c] = "wait" /\ call'[c] = "none" =>
               /\ \A t \in Task : outcome[t] \notin {"started", "deferred"}
               /\ \/ IsEmpty
                  \/ m_suspendCounter > 0
                  \/ \E a \in Thread : call[a] \in {"schedule", "submit"}
<1>1. ASSUME ThreadPoolInv, TaskPlaces, [Next]_vars PROVE [Waits]_vars
  <2> SUFFICES ASSUME NEW c \in Client, call[c] = "wait", call'[c] = "none"
               PROVE  /\ \A t \in Task : outcome[t] \notin {"started", "deferred"}
                      /\ \/ IsEmpty
                         \/ m_suspendCounter > 0
                         \/ \E a \in Thread : call[a] \in {"schedule", "submit"}
    OBVIOUS
  <2>0. /\ call \in [Thread -> CallState] /\ m_suspendCounter \in Nat /\ submitted \in Nat
        /\ c \in Thread /\ c \notin Worker
    BY <1>1, ThreadAssumption DEF ThreadPoolInv, ServiceInv, ServiceTypeOK, SchedulerTypeOK, Thread
  <2>1. submitted = 0 /\ InCallback = {}
    <3>1. PICK d \in Client : WaitReturns(d)
      <4>1. call' # call
        OBVIOUS
      <4>2. ASSUME NEW d \in Client, ClientCall(d) PROVE FALSE
        <5>1. d # c => call'[c] = call[c]
          BY <2>0, <4>2 DEF ClientCall, Post, Suspend, Resume, Shutdown, AwaitTermination,
             BeginShutdown, OweSchedulerPosts, Thread
        <5>2. call[d] = "none"
          BY <4>2 DEF ClientCall, Post, Suspend, Resume, Shutdown, AwaitTermination,
             BeginShutdown, CanCall
        <5> QED
          BY <5>1, <5>2
      <4>3. ASSUME NEW d \in Client, ReleaseHandle(d) PROVE FALSE
        BY <2>0, <4>3 DEF ReleaseHandle
      <4>4. ASSUME NEW w \in Worker, TaskCall(w) PROVE FALSE
        BY <2>0, <4>4 DEF TaskCall, Post, InvokeInPlace, Defer, Shutdown, AwaitTermination,
           BeginShutdown, OweSchedulerPosts, Thread
      <4>5. ASSUME NEW w \in Worker, WorkerStep(w) PROVE FALSE
        BY <2>0, <4>5 DEF WorkerStep, StartCallback, WorkerDeque, TryDequeTask, WorkerInvoke,
           InvokeTaskStep, WorkerDec, WorkerCheck, OweSchedulerPosts, WorkerRelease, serviceVars
      <4>6. ASSUME NEW a \in Thread, Continue(a) PROVE FALSE
        BY <2>0, <4>6 DEF Continue, CancelTask, SchedulerPost, SubmitThreadpoolWork,
           SchedulerShutdown, SchedulerPostDone, OweSchedulerPosts
      <4> QED
        BY <1>1, <4>1, <4>2, <4>3, <4>4, <4>5, <4>6 DEF Next, vars, serviceVars
    <3> QED
      BY <3>1 DEF WaitReturns
  <2>2. \A w \in Worker : pc[w] = "idle"
    BY <2>1 DEF InCallback
  <2>3. \A t \in Task : outcome[t] \notin {"started", "deferred"}
    BY <1>1, <2>2, NothingStartedOutsideRun
  <2>4. HasTasks => \E a \in Thread : call[a] \in {"schedule", "submit"}
    BY <1>1, <2>0, <2>1, <2>2 DEF ThreadPoolInv, NoLostWakeup, Active
  <2> QED
    BY <2>0, <2>3, <2>4 DEF HasTasks
<1> QED
  BY <1>1, TasksInOnePlace, PTL DEF Spec, AwaitTerminationWaits

-----------------------------------------------------------------------------
(* The queue implements DispatchQueue *)

(* Steps that neither move a task nor change what the users see.            *)
LEMMA ContractUnchanged ==
  ASSUME UNCHANGED <<tqVars, m_shutdownAction, m_suspendCounter, outcome>>
  PROVE  UNCHANGED Contract!vars
BY SameContents DEF Contract!vars

(* Post is the contract's Post.                                             *)
LEMMA PostContract ==
  ASSUME ThreadPoolInv, NEW a \in Thread, NEW t \in Task, Post(a, t)
  PROVE  Contract!Next
<1>1. Contract!Post(t)
  BY PostEffect DEF Contract!Post, ThreadPoolInv, ServiceInv
<1> QED
  BY <1>1 DEF Contract!Next

(* Running or deferring a task within a running one is InTask.              *)
LEMMA InTaskContract ==
  ASSUME ThreadPoolInv, TaskPlaces, NEW w \in Worker, NEW t \in Task,
         InvokeInPlace(w, t) \/ Defer(w, t), pc[w] = "run"
  PROVE  Contract!Next
<1>1. running[w] # NoTask
  BY DEF ThreadPoolInv, CallbackShape
<1>2. Contract!InTask(t)
  BY <1>1, InTaskEffect DEF Contract!InTask, Contract!Started, ThreadPoolInv, ServiceInv
<1> QED
  BY <1>2 DEF Contract!Next

(* The locked section of Shutdown and AwaitTermination is Shutdown.         *)
LEMMA ShutdownContract ==
  ASSUME ThreadPoolInv, NEW a \in Thread, Shutdown(a) \/ AwaitTermination(a)
  PROVE  Contract!Next
<1>1. PICK action \in {"complete", "cancel"}, next \in {"shutdown", "terminate"} :
        BeginShutdown(a, action, next)
  BY DEF Shutdown, AwaitTermination
<1>2. Contract!Shutdown
  BY <1>1, BeginShutdownEffect DEF Contract!Shutdown, ThreadPoolInv, ServiceInv
<1> QED
  BY <1>2 DEF Contract!Next

(* The destructor's AwaitTermination finds nothing to complete.             *)
LEMMA DestroyContract ==
  ASSUME UNCHANGED <<tqVars, m_suspendCounter, outcome>>,
         m_shutdownAction' \in {m_shutdownAction, "complete"}
  PROVE  [Contract!Next]_Contract!vars
<1>1. CASE m_shutdownAction' = m_shutdownAction
  BY <1>1, ContractUnchanged
<1>2. CASE m_shutdownAction' = "complete"
  <2>1. Contract!Shutdown
    BY <1>2, SameContents DEF Contract!Shutdown
  <2> QED
    BY <2>1 DEF Contract!Next
<1> QED
  BY <1>1, <1>2

(* Suspend and Resume.                                                      *)
LEMMA SuspendContract ==
  ASSUME ThreadPoolInv, NEW c \in Client, Suspend(c) \/ Resume(c)
  PROVE  Contract!Next
<1>1. Suspend(c) => Contract!Suspend
  BY SameContents DEF Suspend, Contract!Suspend
<1>2. Resume(c) => Contract!Resume
  BY ResumeEffect DEF Contract!Resume, ThreadPoolInv
<1> QED
  BY <1>1, <1>2 DEF Contract!Next

(* TryDequeTask starts the first pending task, below the limit: the worker  *)
(* that takes it is counted and runs no task yet.                           *)
LEMMA DequeContract ==
  ASSUME ThreadPoolInv, TaskPlaces, NEW w \in Worker, NEW t \in Task, TryDequeTask(w, t),
         pc[w] = "deque"
  PROVE  Contract!Next
<1> DEFINE R == {v \in Worker : running[v] # NoTask}
           S == {u \in Task : outcome[u] = "started"}
<1>1. running[w] = NoTask /\ lifetime = "alive"
  BY DEF ThreadPoolInv, CallbackShape, DestroyedShape
<1>2. Contents # <<>> /\ t = Head(Contents) /\ Contents' = Tail(Contents) /\ outcome[t] = "queued"
  BY <1>1, TryDequeTaskPlaces DEF ThreadPoolInv, ServiceInv
<1>3. R \subseteq Active \ {w} /\ w \in Active
  BY <1>1 DEF ThreadPoolInv, CallbackShape, Active
<1>4. /\ Cardinality(R) \in Nat /\ Cardinality(S) \in Nat /\ Cardinality(S) <= Cardinality(R)
  BY StartedTasksRun DEF ThreadPoolInv, ServiceInv
<1>5. IsFiniteSet(Active \ {w}) /\ Cardinality(Active \ {w}) = Cardinality(Active) - 1
  BY <1>3, FiniteCounts, FS_RemoveElement
<1>6. Cardinality(R) <= Cardinality(Active \ {w})
  BY <1>3, <1>5, FS_Subset
<1>7. Cardinality(Active) <= MaxThreads
  BY <1>1, FiniteCounts, MaxThreadsAssumption DEF ThreadPoolInv, UsedThreadsExact, SchedulerTypeOK
<1>8. Cardinality(S) < MaxThreads
  BY <1>4, <1>5, <1>6, <1>7, FiniteCounts, MaxThreadsAssumption
<1>9. Contract!Cardinality(S) = Cardinality(S)
  BY Zenon DEF Contract!Cardinality, Cardinality
<1>10. Contract!Start
  BY <1>2, <1>8, <1>9 DEF Contract!Start, Contract!Started, TryDequeTask
<1> QED
  BY <1>10 DEF Contract!Next

(* The end of a task is Finish.                                             *)
LEMMA InvokeContract ==
  ASSUME ThreadPoolInv, TaskPlaces, NEW w \in Worker, InvokeTaskStep(w)
  PROVE  Contract!Next
<1>1. /\ Contents' = Contents /\ UNCHANGED <<m_shutdownAction, m_suspendCounter>>
      /\ running[w] \in Task /\ outcome[running[w]] = "started"
      /\ \/ outcome' = [outcome EXCEPT ![running[w]] = "invoked"]
         \/ \E d \in Task : /\ outcome[d] = "deferred"
                            /\ outcome' = [outcome EXCEPT ![running[w]] = "invoked", ![d] = "started"]
  BY InvokeTaskStepPlaces DEF InvokeTaskStep, ThreadPoolInv, ServiceInv
<1>2. Contract!Finish(running[w])
  BY <1>1 DEF Contract!Finish
<1> QED
  BY <1>1, <1>2 DEF Contract!Next

(* CancelTask is Cancel.                                                    *)
LEMMA CancelContract ==
  ASSUME ThreadPoolInv, TaskPlaces, NEW a \in Thread, CancelTask(a)
  PROVE  Contract!Next
<1>1. PICK t \in Task : outcome[t] = "taken" /\ outcome' = [outcome EXCEPT ![t] = "canceled"]
  BY CancelTaskEffect DEF ThreadPoolInv, ServiceInv
<1>2. Contract!Cancel(t)
  BY <1>1, CancelTaskEffect DEF Contract!Cancel, ThreadPoolInv, ServiceInv
<1> QED
  BY <1>2 DEF Contract!Next

(* Every step of the queue is a step of the contract or leaves it alone.    *)
LEMMA NextContract ==
  ASSUME ThreadPoolInv, TaskPlaces, [Next]_vars
  PROVE  [Contract!Next]_Contract!vars
<1>1. ASSUME NEW c \in Client, ClientCall(c) PROVE Contract!Next
  BY <1>1, PostContract, SuspendContract, ShutdownContract DEF ClientCall, Thread
<1>2. ASSUME NEW w \in Worker, TaskCall(w) PROVE Contract!Next
  BY <1>2, PostContract, InTaskContract, ShutdownContract DEF TaskCall, Thread
<1>3. ASSUME NEW c \in Client, ReleaseHandle(c) PROVE [Contract!Next]_Contract!vars
  BY <1>3, DestroyContract DEF ReleaseHandle
<1>4. ASSUME NEW c \in Client, WaitReturns(c) PROVE UNCHANGED Contract!vars
  BY <1>4, ContractUnchanged DEF WaitReturns
<1>5. ASSUME NEW w \in Worker, StartCallback(w) \/ WorkerDec(w) \/ WorkerCheck(w)
      PROVE  UNCHANGED Contract!vars
  BY <1>5, ContractUnchanged DEF StartCallback, WorkerDec, WorkerCheck, serviceVars
<1>6. ASSUME NEW w \in Worker, WorkerDeque(w) PROVE [Contract!Next]_Contract!vars
  <2>1. CASE HasTasks
    BY <1>6, <2>1, DequeContract DEF WorkerDeque
  <2>2. CASE ~HasTasks
    BY <1>6, <2>2, ContractUnchanged DEF WorkerDeque, serviceVars
  <2> QED
    BY <2>1, <2>2
<1>7. ASSUME NEW w \in Worker, WorkerInvoke(w) PROVE Contract!Next
  BY <1>7, InvokeContract DEF WorkerInvoke
<1>8. ASSUME NEW w \in Worker, WorkerRelease(w) PROVE [Contract!Next]_Contract!vars
  BY <1>8, DestroyContract DEF WorkerRelease
<1>9. ASSUME NEW a \in Thread, Continue(a) PROVE [Contract!Next]_Contract!vars
  <2>1. ASSUME CancelTask(a) PROVE Contract!Next
    BY <2>1, CancelContract
  <2>2. ASSUME SchedulerPost(a) \/ SubmitThreadpoolWork(a) \/ SchedulerShutdown(a)
        PROVE  UNCHANGED Contract!vars
    BY <2>2, ContractUnchanged DEF SchedulerPost, SubmitThreadpoolWork, SchedulerShutdown
  <2> QED
    BY <1>9, <2>1, <2>2 DEF Continue
<1>10. ASSUME UNCHANGED vars PROVE UNCHANGED Contract!vars
  BY <1>10, ContractUnchanged DEF vars, serviceVars
<1> QED
  BY <1>1, <1>2, <1>3, <1>4, <1>5, <1>6, <1>7, <1>8, <1>9, <1>10 DEF Next, WorkerStep

(* A queue with any number of clients, callbacks, tasks and threads is a    *)
(* DispatchQueue: tasks start in the order they were posted, at most        *)
(* MaxThreads at a time, none while it is suspended, and each is invoked    *)
(* once or canceled once.                                                   *)
THEOREM ThreadPoolImplementsContract == Spec => ImplementsContract
<1>1. Init => Contract!Init
  <2> HAVE Init
  <2>1. Contents = <<>>
    BY EmptyContents, InitTypeOwner DEF Init, ServiceInit, TQInit, IsEmpty, ReadBufferIsEmpty
  <2> QED
    BY <2>1 DEF Init, ServiceInit, Contract!Init
<1>2. ThreadPoolInv /\ TaskPlaces /\ [Next]_vars => [Contract!Next]_Contract!vars
  BY NextContract
<1> QED
  BY <1>1, <1>2, TasksInOnePlace, PTL DEF Spec, ImplementsContract, Contract!Spec

=============================================================================
