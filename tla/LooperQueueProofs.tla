-------------------------- MODULE LooperQueueProofs --------------------------
(***************************************************************************)
(* Proofs about LooperQueue, for any number of clients and tasks: the       *)
(* types, the wake-up of the looper thread, and that the queue implements   *)
(* the contract of DispatchQueue.                                           *)
(***************************************************************************)
EXTENDS LooperQueue, QueueServiceProofs

(* The looper has a task exactly inside InvokeTask, and it is in a method   *)
(* of QueueService only from a task.                                        *)
LooperShape ==
  /\ running[Looper] # NoTask <=> pc = "run"
  /\ call[Looper] # "none" => pc = "run"

(* Nothing is posted before the constructor has ended, nor after the last   *)
(* reference is gone.                                                       *)
UnusedIsEmpty ==
  ~m_queueIsSet \/ lifetime # "alive" => IsEmpty /\ ~HoldsQueue
NoHandleAfterDestroy == lifetime # "alive" => handles = {}

(* A queue that has tasks to run finds its looper awake: it is on its way   *)
(* to TryDequeTask, the event is set, or a thread is about to set it -      *)
(* unless the scheduler was shut down.                                      *)
LooperIsAwake ==
  HasTasks => \/ m_isShutdown
              \/ m_wakeUpEvent
              \/ pc \in {"reset", "start", "deque", "run"}
              \/ \E a \in Thread : call[a] = "schedule"

LooperTypeOK ==
  /\ m_queueIsSet \in BOOLEAN /\ m_wakeUpEvent \in BOOLEAN
  /\ m_isShutdown \in BOOLEAN /\ joinable \in BOOLEAN
  /\ pc \in Place
  /\ lifetime \in {"alive", "destroying", "freed"}

LooperInv ==
  /\ ServiceInv
  /\ TaskPlaces
  /\ LooperTypeOK
  /\ LooperShape
  /\ UnusedIsEmpty
  /\ NoHandleAfterDestroy
  /\ LooperIsAwake

-----------------------------------------------------------------------------
(* The users' methods *)

(* A method that a client calls after the constructor, or a task: its       *)
(* caller has a reference to the queue, and announces what it has posted.   *)
LEMMA UserMethodKeeps ==
  ASSUME LooperInv, NEW a \in Thread, UserMethod(a), m_queueIsSet \/ pc = "run",
         UNCHANGED looperVars
  PROVE  LooperInv'
<1> USE DEF LooperInv
<1>1. ServiceInv' /\ CanCall(a) /\ UNCHANGED <<running, handles>> /\ TaskPlaces'
  BY UserMethodStep, UserMethodPlaces
<1>2. PICK x \in {"none", "schedule", "shutdown", "terminate"} :
        call' = [call EXCEPT ![a] = x] /\ (HasTasks' => HasTasks \/ x = "schedule")
  BY UserMethodStep
<1>3. call \in [Thread -> CallState] /\ Looper \in Thread /\ Looper \in Worker /\ Looper \notin handles
  BY ThreadAssumption, LooperAssumption DEF ServiceInv, ServiceTypeOK, Thread
<1>4. a = Looper => pc = "run"
  BY <1>1, <1>3 DEF CanCall, LooperShape
<1>5. a \in handles \/ a = Looper
  BY <1>1, LooperAssumption DEF CanCall
<1>6. m_queueIsSet /\ lifetime = "alive"
  BY <1>4, <1>5 DEF UnusedIsEmpty, NoHandleAfterDestroy, HoldsQueue
<1>7. LooperTypeOK'
  BY DEF LooperTypeOK, looperVars
<1>8. LooperShape'
  BY <1>1, <1>2, <1>3, <1>4 DEF LooperShape, looperVars
<1>9. UnusedIsEmpty' /\ NoHandleAfterDestroy'
  BY <1>6 DEF UnusedIsEmpty, NoHandleAfterDestroy, looperVars
<1>10. LooperIsAwake'
  <2>1. \A b \in Thread : call[b] = "schedule" => call'[b] = "schedule"
    BY <1>1, <1>2, <1>3 DEF CanCall
  <2>2. x = "schedule" => call'[a] = "schedule"
    BY <1>2, <1>3
  <2> QED
    BY <1>2, <2>1, <2>2 DEF LooperIsAwake, looperVars
<1> QED
  BY <1>1, <1>7, <1>8, <1>9, <1>10

-----------------------------------------------------------------------------
(* The scheduler, in the thread that calls it *)

(* Steps that change neither the queue nor what runs: only the caller's     *)
(* place and the scheduler's fields, and no owed post is forgotten.         *)
LEMMA CallerSteps ==
  ASSUME LooperInv, UNCHANGED tqVars, UNCHANGED pc, m_queueIsSet' = m_queueIsSet,
         UNCHANGED <<m_suspendCounter, guards, toCancel, running, deferred, outcome>>,
         m_shutdownAction' \in {"none", "complete", "cancel"}, guards \subseteq handles',
         handles' \subseteq handles, LooperTypeOK',
         call' \in [Thread -> CallState], toSchedule' \in [Thread -> Nat], PostsOwed',
         \A a \in Thread : call[a] = "shutdown" => call'[a] = "shutdown" \/ toCancel[a] = <<>>,
         call[Looper] = "none" => call'[Looper] = "none",
         lifetime' # "alive" => handles' = {} /\ IsEmpty /\ ~HoldsQueue,
         m_isShutdown => m_isShutdown', m_wakeUpEvent => m_wakeUpEvent',
         (\A a \in Thread : call[a] = "schedule" => call'[a] = "schedule") \/ m_wakeUpEvent'
  PROVE  LooperInv'
<1> USE DEF LooperInv
<1>1. handles' \subseteq Client
  BY DEF ServiceInv, ServiceTypeOK
<1>2. ServiceInv' /\ HasTasks' = HasTasks /\ IsEmpty' = IsEmpty
  BY <1>1, ServiceFrame
<1>3. TaskPlaces'
  BY PlacesKept DEF ServiceInv
<1>4. LooperShape'
  BY DEF LooperShape
<1>5. UnusedIsEmpty' /\ NoHandleAfterDestroy'
  BY <1>2 DEF UnusedIsEmpty, NoHandleAfterDestroy, HoldsQueue
<1>6. LooperIsAwake'
  BY <1>2 DEF LooperIsAwake
<1> QED
  BY <1>2, <1>3, <1>4, <1>5, <1>6

(* The last reference is dropped by a client.                               *)
LEMMA ReleaseHandleStep ==
  ASSUME LooperInv, NEW c \in Client, ReleaseHandle(c)
  PROVE  LooperInv'
<1> USE DEF LooperInv
<1>1. /\ call \in [Thread -> CallState] /\ c \in Thread /\ c # Looper /\ call[c] = "none"
      /\ toSchedule' \in [Thread -> Nat]
  BY ThreadAssumption, LooperAssumption DEF ServiceInv, ServiceTypeOK, Thread, ReleaseHandle
<1>2. call' = call \/ call' = [call EXCEPT ![c] = "wait"]
  <2>1. [call EXCEPT ![c] = "none"] = call
    BY <1>1
  <2>2. call' \in {call, [call EXCEPT ![c] = "wait"], [call EXCEPT ![c] = "none"]}
    BY DEF ReleaseHandle
  <2> QED
    BY <2>1, <2>2
<1>3. call' \in [Thread -> CallState] /\ \A a \in Thread : call[a] # "none" => call'[a] = call[a]
  <2>1. CASE call' = call
    BY <1>1, <2>1
  <2>2. CASE call' = [call EXCEPT ![c] = "wait"]
    BY <1>1, <2>2 DEF CallState
  <2> QED
    BY <1>2, <2>1, <2>2
<1>4. PostsOwed'
  <2>1. toSchedule' = toSchedule /\ \A a \in Thread : call'[a] = call[a] \/ call'[a] = "wait"
    BY <1>1, <1>2 DEF ReleaseHandle
  <2> QED
    BY <2>1 DEF ServiceInv, PostsOwed
<1>5. call'[Looper] = call[Looper]
  BY <1>1, <1>2, LooperAssumption DEF Thread
<1>6. lifetime' # "alive" => handles' = {} /\ IsEmpty /\ ~HoldsQueue
  <2>1. CASE handles = {c} /\ ~m_strongOwnerPtr /\ ~HoldsQueue
    BY <2>1 DEF ReleaseHandle, ServiceInv, OwnerHeldIffPending
  <2>2. CASE ~(handles = {c} /\ ~m_strongOwnerPtr /\ ~HoldsQueue)
    BY <2>2 DEF ReleaseHandle, UnusedIsEmpty, NoHandleAfterDestroy
  <2> QED
    BY <2>1, <2>2
<1>7. LooperTypeOK' /\ (m_isShutdown => m_isShutdown') /\ (m_wakeUpEvent => m_wakeUpEvent')
  BY DEF LooperTypeOK, ReleaseHandle, Destroy
<1>8. m_shutdownAction' \in {"none", "complete", "cancel"} /\ guards \subseteq handles'
  BY DEF ReleaseHandle, Destroy, ServiceInv, ServiceTypeOK
<1> QED
  BY <1>1, <1>3, <1>4, <1>5, <1>6, <1>7, <1>8, CallerSteps DEF ReleaseHandle

(* Post sets the event.                                                     *)
LEMMA SchedulerPostStep ==
  ASSUME LooperInv, NEW a \in Thread, SchedulerPost(a)
  PROVE  LooperInv'
<1> USE DEF LooperInv
<1>1. call \in [Thread -> CallState] /\ toSchedule \in [Thread -> Nat] /\ call[a] = "schedule"
  BY DEF ServiceInv, ServiceTypeOK, SchedulerPost
<1>2. toSchedule[a] - 1 \in Nat
  BY <1>1 DEF ServiceInv, PostsOwed
<1>3. toSchedule' \in [Thread -> Nat] /\ call' \in [Thread -> CallState] /\ PostsOwed'
  BY <1>2, OweSchedulerPostsInv DEF SchedulerPost, SchedulerPostDone, ServiceInv
<1>4. /\ \A b \in Thread : call[b] = "shutdown" => call'[b] = "shutdown"
      /\ call[Looper] = "none" => call'[Looper] = "none"
  BY <1>1, LooperAssumption DEF SchedulerPost, SchedulerPostDone, OweSchedulerPosts, Thread
<1>5. lifetime' # "alive" => handles' = {} /\ IsEmpty /\ ~HoldsQueue
  BY DEF SchedulerPost, UnusedIsEmpty, NoHandleAfterDestroy
<1>6. LooperTypeOK'
  BY DEF LooperTypeOK, SchedulerPost
<1> QED
  BY <1>3, <1>4, <1>5, <1>6, CallerSteps DEF SchedulerPost, ServiceInv, ServiceTypeOK

LEMMA SchedulerShutdownStep ==
  ASSUME LooperInv, NEW a \in Thread, SchedulerShutdown(a)
  PROVE  LooperInv'
<1> USE DEF LooperInv
<1>1. call \in [Thread -> CallState] /\ call[a] \in {"shutdown", "terminate"} /\ toCancel[a] = <<>>
  BY DEF ServiceInv, ServiceTypeOK, SchedulerShutdown
<1>2. \E x \in {"wait", "none"} : call' = [call EXCEPT ![a] = x]
  BY DEF SchedulerShutdown
<1>3. /\ call' \in [Thread -> CallState] /\ PostsOwed'
      /\ \A b \in Thread : call[b] = "shutdown" => call'[b] = "shutdown" \/ toCancel[b] = <<>>
      /\ call[Looper] = "none" => call'[Looper] = "none"
  BY <1>1, <1>2, LooperAssumption DEF ServiceInv, PostsOwed, SchedulerShutdown, CallState, Thread
<1>4. lifetime' # "alive" => handles' = {} /\ IsEmpty /\ ~HoldsQueue
  BY DEF SchedulerShutdown, UnusedIsEmpty, NoHandleAfterDestroy
<1>5. LooperTypeOK'
  BY DEF LooperTypeOK, SchedulerShutdown
<1> QED
  BY <1>3, <1>4, <1>5, CallerSteps DEF SchedulerShutdown, ServiceInv, ServiceTypeOK

LEMMA WaitReturnsStep ==
  ASSUME LooperInv, NEW c \in Client, WaitReturns(c)
  PROVE  LooperInv'
<1> USE DEF LooperInv
<1>1. call \in [Thread -> CallState] /\ call[c] = "wait" /\ call' = [call EXCEPT ![c] = "none"]
  BY DEF ServiceInv, ServiceTypeOK, WaitReturns
<1>2. /\ call' \in [Thread -> CallState] /\ PostsOwed'
      /\ \A b \in Thread : call[b] \in {"shutdown", "schedule"} => call'[b] = call[b]
      /\ call[Looper] = "none" => call'[Looper] = "none"
  BY <1>1, LooperAssumption DEF ServiceInv, PostsOwed, WaitReturns, CallState, Thread
<1>3. lifetime' # "alive" => handles' = {} /\ IsEmpty /\ ~HoldsQueue
  BY DEF WaitReturns, UnusedIsEmpty, NoHandleAfterDestroy
<1>4. LooperTypeOK'
  BY DEF LooperTypeOK, WaitReturns
<1> QED
  BY <1>2, <1>3, <1>4, CallerSteps DEF WaitReturns, ServiceInv, ServiceTypeOK

(* CancelTask of the tasks that Shutdown took.                              *)
LEMMA CancelTaskStep ==
  ASSUME LooperInv, NEW a \in Thread, CancelTask(a), UNCHANGED looperVars
  PROVE  LooperInv'
<1> USE DEF LooperInv
<1>1. ServiceInv' /\ TaskPlaces' /\ UNCHANGED <<call, running, handles, m_suspendCounter>>
  BY CancelTaskInv, CancelTaskPlaces DEF CancelTask, ServiceInv
<1>2. IsEmpty' = IsEmpty
  BY TaskQueueUnchanged DEF CancelTask, ServiceInv, ServiceTypeOK
<1> QED
  BY <1>1, <1>2 DEF looperVars, LooperTypeOK, LooperShape, UnusedIsEmpty, NoHandleAfterDestroy,
     LooperIsAwake, HasTasks, HoldsQueue

-----------------------------------------------------------------------------
(* RunLoop *)

(* Steps of the loop that do not touch the queue: the looper goes to sleep  *)
(* only past a test that found nothing to run.                              *)
LEMMA LoopSteps ==
  ASSUME LooperInv, UNCHANGED <<tqVars, serviceVars, m_queueIsSet, lifetime, m_isShutdown>>,
         LooperTypeOK', pc # "run", pc' # "run",
         (m_wakeUpEvent' = m_wakeUpEvent /\ ~(pc = "deque" /\ HasTasks)) \/ pc' = "start",
         pc = "start" => pc' \in {"deque", "test"} /\ (pc' = "test" => IsEmpty),
         pc = "reset" => pc' = "start",
         pc' \in {"deque", "drop"} => m_queueIsSet /\ lifetime = "alive"
  PROVE  LooperInv'
<1> USE DEF LooperInv
<1>1. ServiceInv' /\ HasTasks' = HasTasks /\ IsEmpty' = IsEmpty
  <2>1. PostsOwed'
    BY DEF serviceVars, ServiceInv, PostsOwed
  <2> QED
    BY <2>1, ServiceFrame DEF serviceVars, ServiceInv, ServiceTypeOK
<1>2. TaskPlaces'
  BY PlacesKept DEF ServiceInv, serviceVars
<1>3. LooperShape'
  BY DEF LooperShape, serviceVars
<1>4. UnusedIsEmpty' /\ NoHandleAfterDestroy'
  BY <1>1 DEF UnusedIsEmpty, NoHandleAfterDestroy, HoldsQueue, serviceVars
<1>5. LooperIsAwake'
  <2> SUFFICES ASSUME HasTasks', ~m_isShutdown', ~m_wakeUpEvent',
                      pc' \notin {"reset", "start", "deque", "run"}
               PROVE  \E a \in Thread : call'[a] = "schedule"
    BY DEF LooperIsAwake
  <2>1. HasTasks /\ ~m_isShutdown /\ ~m_wakeUpEvent /\ pc \notin {"reset", "start", "deque", "run"}
    BY <1>1 DEF HasTasks
  <2> QED
    BY <2>1 DEF LooperIsAwake, serviceVars
<1> QED
  BY <1>1, <1>2, <1>3, <1>4, <1>5

LEMMA LooperWalks ==
  ASSUME LooperInv, LooperStart \/ LooperTest \/ LooperWait \/ LooperReset
  PROVE  LooperInv'
<1> USE DEF LooperInv, Goto
<1>1. CASE LooperStart
  BY <1>1, LoopSteps DEF LooperStart, LooperTypeOK, Place, UnusedIsEmpty
<1>2. CASE LooperTest
  BY <1>2, LoopSteps DEF LooperTest, LooperTypeOK, Place
<1>3. CASE LooperWait
  BY <1>3, LoopSteps DEF LooperWait, LooperTypeOK, Place
<1>4. CASE LooperReset
  BY <1>4, LoopSteps DEF LooperReset, LooperTypeOK, Place
<1> QED
  BY <1>1, <1>2, <1>3, <1>4

(* TryDequeTask starts a task, or the queue has none to run.                *)
LEMMA LooperDequeStep ==
  ASSUME LooperInv, LooperDeque
  PROVE  LooperInv'
<1> USE DEF LooperInv, Goto
<1>0. pc = "deque" /\ Looper \in Worker /\ m_queueIsSet /\ lifetime = "alive"
  BY LooperAssumption DEF LooperDeque, UnusedIsEmpty, HoldsQueue
<1>1. CASE ~HasTasks
  BY <1>0, <1>1, LoopSteps DEF LooperDeque, LooperTypeOK, Place
<1>2. CASE HasTasks
  <2>1. PICK t \in Task : TryDequeTask(Looper, t)
    BY <1>2 DEF LooperDeque
  <2>2. ServiceInv'
    BY <1>0, <2>1, TryDequeTaskInv
  <2>3. TaskPlaces'
    BY <1>0, <2>1, TryDequeTaskPlaces DEF LooperShape, ServiceInv
  <2>4. LooperTypeOK' /\ pc' = "run" /\ m_queueIsSet' /\ lifetime' = "alive"
    BY <1>0, <1>2 DEF LooperDeque, LooperTypeOK, Place
  <2>5. LooperShape'
    BY <1>0, <2>1, <2>4, NoTaskAssumption DEF LooperShape, TryDequeTask, ServiceInv, ServiceTypeOK
  <2> QED
    BY <2>2, <2>3, <2>4, <2>5 DEF UnusedIsEmpty, NoHandleAfterDestroy, LooperIsAwake
<1> QED
  BY <1>1, <1>2

LEMMA LooperInvokeStep ==
  ASSUME LooperInv, LooperInvoke
  PROVE  LooperInv'
<1> USE DEF LooperInv, Goto
<1>0. pc = "run" /\ Looper \in Worker /\ m_queueIsSet /\ lifetime = "alive"
  BY LooperAssumption DEF LooperInvoke, UnusedIsEmpty, HoldsQueue
<1>1. ServiceInv' /\ TaskPlaces'
  BY <1>0, InvokeTaskStepInv, InvokeTaskStepPlaces DEF LooperInvoke, ServiceInv
<1>2. /\ LooperTypeOK' /\ m_queueIsSet' /\ lifetime' = "alive" /\ pc' \in {"run", "deque"}
      /\ pc' = "run" <=> running'[Looper] # NoTask
  BY <1>0 DEF LooperInvoke, LooperTypeOK, Place
<1>3. call' = call /\ call[Looper] = "none"
  BY DEF LooperInvoke, InvokeTaskStep
<1> QED
  BY <1>1, <1>2, <1>3 DEF LooperShape, UnusedIsEmpty, NoHandleAfterDestroy, LooperIsAwake

(* The looper drops its reference, perhaps the last one.                    *)
LEMMA LooperDropStep ==
  ASSUME LooperInv, LooperDrop
  PROVE  LooperInv'
<1> USE DEF LooperInv, Goto
<1>0. /\ pc = "drop" /\ pc' = "test" /\ UNCHANGED tqVars /\ m_queueIsSet' = m_queueIsSet
      /\ UNCHANGED <<m_suspendCounter, handles, guards, call, toSchedule, toCancel, running,
                     deferred, outcome>>
  BY DEF LooperDrop
<1>1. ServiceInv' /\ HasTasks' = HasTasks /\ IsEmpty' = IsEmpty
  <2>1. PostsOwed' /\ m_shutdownAction' \in {"none", "complete", "cancel"}
    BY <1>0 DEF LooperDrop, Destroy, ServiceInv, ServiceTypeOK, PostsOwed
  <2> QED
    BY <1>0, <2>1, ServiceFrame DEF ServiceInv, ServiceTypeOK
<1>2. TaskPlaces'
  BY <1>0, PlacesKept DEF ServiceInv
<1>3. LooperTypeOK' /\ LooperShape'
  BY <1>0 DEF LooperDrop, Destroy, LooperTypeOK, LooperShape, Place
<1>4. CASE handles = {} /\ ~m_strongOwnerPtr
  <2>1. IsEmpty
    BY <1>4 DEF ServiceInv, OwnerHeldIffPending
  <2> QED
    BY <1>0, <1>1, <1>2, <1>3, <1>4, <2>1
       DEF UnusedIsEmpty, NoHandleAfterDestroy, LooperIsAwake, HoldsQueue, HasTasks
<1>5. CASE ~(handles = {} /\ ~m_strongOwnerPtr)
  <2>1. UNCHANGED <<lifetime, m_isShutdown, m_wakeUpEvent>>
    BY <1>5 DEF LooperDrop
  <2>2. UnusedIsEmpty' /\ NoHandleAfterDestroy'
    BY <1>0, <1>1, <2>1 DEF UnusedIsEmpty, NoHandleAfterDestroy, HoldsQueue
  <2>3. LooperIsAwake'
    BY <1>0, <1>1, <2>1 DEF LooperIsAwake
  <2> QED
    BY <1>1, <1>2, <1>3, <2>2, <2>3
<1> QED
  BY <1>4, <1>5

(* The end of the constructor.                                              *)
LEMMA InitializeSchedulerStep ==
  ASSUME LooperInv, InitializeScheduler
  PROVE  LooperInv'
<1> USE DEF LooperInv
<1>1. ServiceInv' /\ HasTasks' = HasTasks /\ IsEmpty' = IsEmpty
  <2>1. PostsOwed'
    BY DEF InitializeScheduler, serviceVars, ServiceInv, PostsOwed
  <2> QED
    BY <2>1, ServiceFrame DEF InitializeScheduler, serviceVars, ServiceInv, ServiceTypeOK
<1>2. TaskPlaces'
  BY PlacesKept DEF InitializeScheduler, ServiceInv, serviceVars
<1> QED
  BY <1>1, <1>2 DEF InitializeScheduler, serviceVars, LooperTypeOK, LooperShape, UnusedIsEmpty,
     NoHandleAfterDestroy, LooperIsAwake, HoldsQueue

-----------------------------------------------------------------------------
(* The invariant of the queue *)

LEMMA InitLooperInv == Init => LooperInv
<1> HAVE Init
<1>1. ServiceInv /\ TaskPlaces
  BY ServiceInitInv, ServiceInitPlaces DEF Init
<1>2. LooperTypeOK
  BY DEF Init, LooperTypeOK, Place
<1>3. LooperShape
  <2>1. running[Looper] = NoTask /\ call[Looper] = "none" /\ pc = "start"
    BY LooperAssumption DEF Init, ServiceInit, Thread
  <2> QED
    BY <2>1 DEF LooperShape
<1>4. IsEmpty
  BY InitTypeOwner DEF Init, ServiceInit, TQInit, OwnerHeldIffPending, IsEmpty, ReadBufferIsEmpty
<1> QED
  BY <1>1, <1>2, <1>3, <1>4
     DEF Init, LooperInv, UnusedIsEmpty, NoHandleAfterDestroy, LooperIsAwake, HoldsQueue, HasTasks

(* Every step keeps the invariant: one case per action.                     *)
LEMMA NextLooperInv ==
  ASSUME LooperInv, [Next]_vars
  PROVE  LooperInv'
<1>1. ASSUME NEW c \in Client, ClientCall(c) PROVE LooperInv'
  <2>1. c \in Thread /\ UserMethod(c)
    BY <1>1 DEF ClientCall, UserMethod, Thread
  <2> QED
    BY <1>1, <2>1, UserMethodKeeps DEF ClientCall
<1>2. ASSUME TaskCall PROVE LooperInv'
  <2>1. Looper \in Worker /\ Looper \in Thread
    BY LooperAssumption DEF Thread
  <2>2. UserMethod(Looper)
    BY <1>2, <2>1 DEF TaskCall, UserMethod
  <2> QED
    BY <1>2, <2>1, <2>2, UserMethodKeeps DEF TaskCall
<1>3. ASSUME NEW c \in Client, ReleaseHandle(c) \/ WaitReturns(c) PROVE LooperInv'
  BY <1>3, ReleaseHandleStep, WaitReturnsStep
<1>4. ASSUME LooperStep PROVE LooperInv'
  BY <1>4, LooperWalks, LooperDequeStep, LooperInvokeStep, LooperDropStep DEF LooperStep
<1>5. ASSUME NEW a \in Thread, Continue(a) PROVE LooperInv'
  BY <1>5, CancelTaskStep, SchedulerPostStep, SchedulerShutdownStep DEF Continue
<1>6. ASSUME UNCHANGED vars PROVE LooperInv'
  <2>1. PostsOwed'
    BY <1>6 DEF vars, serviceVars, LooperInv, ServiceInv, PostsOwed
  <2>2. ServiceInv' /\ HasTasks' = HasTasks /\ IsEmpty' = IsEmpty
    BY <1>6, <2>1, ServiceFrame DEF vars, serviceVars, LooperInv, ServiceInv, ServiceTypeOK
  <2>3. TaskPlaces'
    BY <1>6, PlacesKept DEF vars, serviceVars, LooperInv, ServiceInv
  <2> QED
    BY <1>6, <2>2, <2>3 DEF vars, serviceVars, looperVars, LooperInv, LooperTypeOK, LooperShape,
       UnusedIsEmpty, NoHandleAfterDestroy, LooperIsAwake, HoldsQueue
<1> QED
  BY <1>1, <1>2, <1>3, <1>4, <1>5, <1>6, InitializeSchedulerStep DEF Next

(* The inductive invariant of the looper's queue.                           *)
THEOREM LooperInvariant == Spec => []LooperInv
<1>1. LooperInv /\ [Next]_vars => LooperInv'
  BY NextLooperInv
<1> QED
  BY InitLooperInv, <1>1, PTL DEF Spec

(* Every variable keeps its type; m_suspendCounter never goes below zero.   *)
THEOREM LooperTypeCorrect == Spec => []TypeOK
<1>1. LooperInv => TypeOK
  BY DEF LooperInv, ServiceInv, LooperTypeOK, TypeOK
<1> QED
  BY <1>1, LooperInvariant, PTL

(* The event never loses a wake-up: while the scheduler is not shut down, a *)
(* queue with tasks to run has its looper on the way to them, the event     *)
(* set, or a thread that is about to set it, although RunLoop resets the    *)
(* event without a lock.                                                    *)
THEOREM LooperWakesUp == Spec => []LooperIsAwake
<1>1. LooperInv => LooperIsAwake
  BY DEF LooperInv
<1> QED
  BY <1>1, LooperInvariant, PTL

-----------------------------------------------------------------------------
(* The queue implements DispatchQueue *)

(* Steps that neither move a task nor change what the users see.            *)
LEMMA ContractUnchanged ==
  ASSUME UNCHANGED <<tqVars, m_shutdownAction, m_suspendCounter, outcome>>
  PROVE  UNCHANGED Contract!vars
BY SameContents DEF Contract!vars

(* The methods of the queue's users.                                        *)
LEMMA UserMethodContract ==
  ASSUME LooperInv, NEW a \in Thread, UserMethod(a)
  PROVE  Contract!Next
<1> USE DEF LooperInv, ServiceInv
<1>1. ASSUME NEW t \in Task, Post(a, t) PROVE Contract!Next
  <2>1. Contract!Post(t)
    BY <1>1, PostEffect DEF Contract!Post
  <2> QED
    BY <2>1 DEF Contract!Next
<1>2. ASSUME Suspend(a) PROVE Contract!Suspend
  BY <1>2, SameContents DEF Suspend, Contract!Suspend
<1>3. ASSUME a \in Client, Resume(a) PROVE Contract!Resume
  BY <1>3, ResumeEffect DEF Contract!Resume
<1>4. ASSUME a \in Worker, NEW t \in Task, InvokeInPlace(a, t) \/ Defer(a, t) PROVE Contract!Next
  <2>1. running[a] # NoTask
    BY <1>4, ThreadAssumption DEF InvokeInPlace, Defer, CanCall, ServiceTypeOK
  <2>2. Contract!InTask(t)
    BY <1>4, <2>1, InTaskEffect DEF Contract!InTask, Contract!Started
  <2> QED
    BY <2>2 DEF Contract!Next
<1>5. ASSUME Shutdown(a) \/ AwaitTermination(a) PROVE Contract!Shutdown
  <2>1. PICK action \in {"complete", "cancel"}, next \in {"shutdown", "terminate"} :
          BeginShutdown(a, action, next)
    BY <1>5 DEF Shutdown, AwaitTermination
  <2> QED
    BY <2>1, BeginShutdownEffect DEF Contract!Shutdown
<1> QED
  BY <1>1, <1>2, <1>3, <1>4, <1>5 DEF UserMethod, Contract!Next

(* The destructor's Shutdown finds nothing to complete.                     *)
LEMMA DestroyContract ==
  ASSUME UNCHANGED <<tqVars, m_suspendCounter, outcome>>,
         m_shutdownAction' \in {m_shutdownAction, "complete"}
  PROVE  [Contract!Next]_Contract!vars
<1>1. CASE m_shutdownAction' = m_shutdownAction
  BY <1>1, ContractUnchanged
<1>2. CASE m_shutdownAction' = "complete"
  <2>1. Contract!Shutdown
    BY <1>2, SameContents DEF Contract!Shutdown
  <2> QED
    BY <2>1 DEF Contract!Next
<1> QED
  BY <1>1, <1>2

(* The looper starts a task only when it runs none.                         *)
LEMMA DequeContract ==
  ASSUME LooperInv, NEW t \in Task, TryDequeTask(Looper, t), pc = "deque"
  PROVE  Contract!Next
<1> DEFINE R == {w \in Worker : running[w] # NoTask}
           S == {u \in Task : outcome[u] = "started"}
<1> USE DEF LooperInv
<1>1. Looper \in Worker /\ running[Looper] = NoTask /\ R = {}
  BY LooperAssumption DEF LooperShape
<1>2. Contents # <<>> /\ t = Head(Contents) /\ Contents' = Tail(Contents) /\ outcome[t] = "queued"
  BY <1>1, TryDequeTaskPlaces DEF ServiceInv
<1>3. Cardinality(S) \in Nat /\ Cardinality(S) <= Cardinality(R)
  BY StartedTasksRun DEF ServiceInv
<1>4. Cardinality(S) < 1
  BY <1>1, <1>3, FS_EmptySet
<1>5. Contract!Cardinality(S) = Cardinality(S)
  BY Zenon DEF Contract!Cardinality, Cardinality
<1>6. Contract!Start
  BY <1>2, <1>4, <1>5 DEF Contract!Start, Contract!Started, TryDequeTask
<1> QED
  BY <1>6 DEF Contract!Next

(* The end of a task is Finish.                                             *)
LEMMA InvokeContract ==
  ASSUME LooperInv, InvokeTaskStep(Looper)
  PROVE  Contract!Next
<1>1. /\ Contents' = Contents /\ UNCHANGED <<m_shutdownAction, m_suspendCounter>>
      /\ running[Looper] \in Task /\ outcome[running[Looper]] = "started"
      /\ \/ outcome' = [outcome EXCEPT ![running[Looper]] = "invoked"]
         \/ \E d \in Task : /\ outcome[d] = "deferred"
                            /\ outcome' = [outcome EXCEPT ![running[Looper]] = "invoked",
                                                          ![d] = "started"]
  BY InvokeTaskStepPlaces, LooperAssumption DEF InvokeTaskStep, LooperInv, ServiceInv
<1>2. Contract!Finish(running[Looper])
  BY <1>1 DEF Contract!Finish
<1> QED
  BY <1>1, <1>2 DEF Contract!Next

(* CancelTask is Cancel.                                                    *)
LEMMA CancelContract ==
  ASSUME LooperInv, NEW a \in Thread, CancelTask(a)
  PROVE  Contract!Next
<1>1. PICK t \in Task : outcome[t] = "taken" /\ outcome' = [outcome EXCEPT ![t] = "canceled"]
  BY CancelTaskEffect DEF LooperInv, ServiceInv
<1>2. Contract!Cancel(t)
  BY <1>1, CancelTaskEffect DEF Contract!Cancel, LooperInv, ServiceInv
<1> QED
  BY <1>2 DEF Contract!Next

(* Every step of the queue is a step of the contract or leaves it alone.    *)
LEMMA NextContract ==
  ASSUME LooperInv, [Next]_vars
  PROVE  [Contract!Next]_Contract!vars
<1>1. ASSUME NEW c \in Client, ClientCall(c) PROVE Contract!Next
  <2>1. c \in Thread /\ UserMethod(c)
    BY <1>1 DEF ClientCall, UserMethod, Thread
  <2> QED
    BY <2>1, UserMethodContract
<1>2. ASSUME TaskCall PROVE Contract!Next
  <2>1. Looper \in Worker /\ Looper \in Thread
    BY LooperAssumption DEF Thread
  <2>2. UserMethod(Looper)
    BY <1>2, <2>1 DEF TaskCall, UserMethod
  <2> QED
    BY <2>1, <2>2, UserMethodContract
<1>3. ASSUME NEW c \in Client, ReleaseHandle(c) PROVE [Contract!Next]_Contract!vars
  BY <1>3, DestroyContract DEF ReleaseHandle, Destroy
<1>4. ASSUME NEW c \in Client, WaitReturns(c) PROVE UNCHANGED Contract!vars
  BY <1>4, ContractUnchanged DEF WaitReturns
<1>5. ASSUME LooperStart \/ LooperTest \/ LooperWait \/ LooperReset \/ InitializeScheduler
      PROVE  UNCHANGED Contract!vars
  BY <1>5, ContractUnchanged
     DEF LooperStart, LooperTest, LooperWait, LooperReset, InitializeScheduler, serviceVars
<1>6. ASSUME LooperDeque PROVE [Contract!Next]_Contract!vars
  <2>1. CASE HasTasks
    BY <1>6, <2>1, DequeContract DEF LooperDeque, Goto
  <2>2. CASE ~HasTasks
    BY <1>6, <2>2, ContractUnchanged DEF LooperDeque, serviceVars
  <2> QED
    BY <2>1, <2>2
<1>7. ASSUME LooperInvoke PROVE Contract!Next
  BY <1>7, InvokeContract DEF LooperInvoke
<1>8. ASSUME LooperDrop PROVE [Contract!Next]_Contract!vars
  BY <1>8, DestroyContract DEF LooperDrop, Destroy
<1>9. ASSUME NEW a \in Thread, Continue(a) PROVE [Contract!Next]_Contract!vars
  <2>1. ASSUME CancelTask(a) PROVE Contract!Next
    BY <2>1, CancelContract
  <2>2. ASSUME SchedulerPost(a) \/ SchedulerShutdown(a) PROVE UNCHANGED Contract!vars
    BY <2>2, ContractUnchanged DEF SchedulerPost, SchedulerShutdown
  <2> QED
    BY <1>9, <2>1, <2>2 DEF Continue
<1>10. ASSUME UNCHANGED vars PROVE UNCHANGED Contract!vars
  BY <1>10, ContractUnchanged DEF vars, serviceVars
<1> QED
  BY <1>1, <1>2, <1>3, <1>4, <1>5, <1>6, <1>7, <1>8, <1>9, <1>10 DEF Next, LooperStep

(* The looper's queue is a serial DispatchQueue, for any number of clients  *)
(* and tasks.                                                               *)
THEOREM LooperImplementsContract == Spec => ImplementsContract
<1>1. Init => Contract!Init
  <2> HAVE Init
  <2>1. Contents = <<>>
    BY EmptyContents, InitTypeOwner DEF Init, ServiceInit, TQInit, IsEmpty, ReadBufferIsEmpty
  <2> QED
    BY <2>1 DEF Init, ServiceInit, Contract!Init
<1>2. LooperInv /\ [Next]_vars => [Contract!Next]_Contract!vars
  BY NextContract
<1> QED
  BY <1>1, <1>2, LooperInvariant, PTL DEF Spec, ImplementsContract, Contract!Spec

=============================================================================
