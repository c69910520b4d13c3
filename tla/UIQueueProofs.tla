---------------------------- MODULE UIQueueProofs ----------------------------
(***************************************************************************)
(* Proofs about UIQueue, for any number of clients, tasks and handlers: the *)
(* two counts of UISchedulerWinRT, the termination event, and that the      *)
(* queue implements the contract of DispatchQueue.                          *)
(***************************************************************************)
EXTENDS UIQueue, QueueServiceProofs

(* The UI thread has a task exactly inside InvokeTask, and it is in a       *)
(* method of QueueService only from a task or in ~CleanupContext.           *)
UIShape ==
  /\ running[UI] # NoTask <=> pc = "run"
  /\ call[UI] # "none" => pc \in {"run", "cancel"}
  /\ pc = "cancel" => call[UI] = "shutdown" /\ post[UI] = "out"

(* A thread in scheduler->Post() owes that call until it returns.           *)
PostShape ==
  \A a \in Thread : /\ post[a] \in {"enqueue", "release"} => call[a] = "submit"
                    /\ post[a] = "cleanup" => call[a] \in {"submit", "shutdown"}
                    /\ post[a] # "out" => toSchedule[a] > 0

(* Who has a reference to the handler: the threads in Post, the dispatcher  *)
(* for each handler it has not begun, and the UI thread for the one it has. *)
Posting == {a \in Thread : post[a] \in {"enqueue", "release"}}
Entering == {a \in Thread : post[a] = "enqueue"}
UIHandler == IF pc \in {"take", "strong", "deque", "run", "drop", "release"} THEN 1 ELSE 0
UITaking == IF pc = "take" THEN 1 ELSE 0

(* m_handlerRefCount is exact, and m_taskCount is never less than the       *)
(* handlers that may still call TryTakeTask.                                *)
RefCountExact == m_handlerRefCount = enqueued + UIHandler + Cardinality(Posting)
TasksCounted == m_taskCount >= enqueued + UITaking + Cardinality(Entering)

TerminatedShape == m_terminationEvent => m_isShutdown /\ m_handlerRefCount = 0

UITypeOK ==
  /\ m_handlerRefCount \in Nat /\ m_taskCount \in Nat /\ enqueued \in Nat
  /\ m_isShutdown \in BOOLEAN /\ m_terminationEvent \in BOOLEAN
  /\ isOpen \in BOOLEAN /\ refused \in BOOLEAN
  /\ post \in [Thread -> PostPlace]
  /\ pc \in Place
  /\ lifetime \in {"alive", "destroying", "freed"}

UIInv ==
  /\ ServiceInv
  /\ TaskPlaces
  /\ UITypeOK
  /\ UIShape
  /\ PostShape
  /\ RefCountExact
  /\ TasksCounted
  /\ TerminatedShape

-----------------------------------------------------------------------------
(* The counts *)

LEMMA UIThread == UI \in Worker /\ UI \in Thread /\ UI \notin Client
BY UIAssumption, ThreadAssumption DEF Thread

LEMMA FiniteCounts ==
  /\ IsFiniteSet(Posting) /\ Cardinality(Posting) \in Nat
  /\ IsFiniteSet(Entering) /\ Cardinality(Entering) \in Nat
<1>1. IsFiniteSet(Thread)
  BY ThreadAssumption, FS_Union DEF Thread
<1>2. IsFiniteSet(Posting) /\ IsFiniteSet(Entering)
  BY <1>1, FS_Subset DEF Posting, Entering
<1> QED
  BY <1>2, FS_CardinalityType

(* Steps in which no handler is made, given away, begun or released.        *)
LEMMA CountsKept ==
  ASSUME RefCountExact, TasksCounted, UNCHANGED <<m_handlerRefCount, m_taskCount, enqueued>>,
         \A a \in Thread : /\ post'[a] \in {"enqueue", "release"} <=> post[a] \in {"enqueue", "release"}
                           /\ post'[a] = "enqueue" <=> post[a] = "enqueue",
         UIHandler' = UIHandler, UITaking' = UITaking
  PROVE  RefCountExact' /\ TasksCounted'
<1>1. Posting' = Posting /\ Entering' = Entering
  BY DEF Posting, Entering
<1> QED
  BY <1>1 DEF RefCountExact, TasksCounted

(* The release of the last handler, by a holder that is not to call         *)
(* TryTakeTask: nobody else is.                                             *)
LEMMA NobodyTakes ==
  ASSUME UITypeOK, RefCountExact, m_handlerRefCount = 1,
         \/ pc = "release"
         \/ \E a \in Thread : post[a] = "release"
  PROVE  enqueued = 0 /\ UITaking = 0 /\ Cardinality(Entering) = 0
<1>1. /\ enqueued \in Nat /\ UIHandler \in {0, 1} /\ Cardinality(Posting) \in Nat
      /\ 1 = enqueued + UIHandler + Cardinality(Posting)
      /\ UIHandler = 0 => UITaking = 0
  BY FiniteCounts DEF UITypeOK, RefCountExact, UIHandler, UITaking
<1>2. CASE pc = "release"
  <2>1. UIHandler = 1 /\ UITaking = 0
    BY <1>2 DEF UIHandler, UITaking
  <2>2. Posting = {}
    BY <1>1, <2>1, FiniteCounts, FS_EmptySet
  <2>3. Entering = {}
    BY <2>2 DEF Posting, Entering
  <2> QED
    BY <1>1, <2>1, <2>3, FS_EmptySet
<1>3. CASE \E a \in Thread : post[a] = "release"
  <2>1. PICK a \in Thread : post[a] = "release"
    BY <1>3
  <2>2. a \in Posting
    BY <2>1 DEF Posting
  <2>3. IsFiniteSet(Posting \ {a}) /\ Cardinality(Posting \ {a}) = Cardinality(Posting) - 1
    BY <2>2, FiniteCounts, FS_RemoveElement
  <2>4. Cardinality(Posting \ {a}) \in Nat
    BY <2>3, FS_CardinalityType
  <2>5. enqueued = 0 /\ UIHandler = 0 /\ Cardinality(Posting \ {a}) = 0
    BY <1>1, <2>3, <2>4
  <2>6. Posting \ {a} = {}
    BY <2>3, <2>5, FS_EmptySet
  <2>7. Entering = {}
    BY <2>1, <2>6 DEF Posting, Entering
  <2> QED
    BY <1>1, <2>5, <2>7, FS_EmptySet
<1> QED
  BY <1>2, <1>3

(* ReleaseHandlerRef, by a holder.  The counts of the holders are changed   *)
(* by the caller's step.                                                    *)
LEMMA ReleaseHandlerRefStep ==
  ASSUME UITypeOK, TerminatedShape, ReleaseHandlerRef, m_handlerRefCount > 0
  PROVE  /\ m_handlerRefCount' \in Nat /\ m_handlerRefCount' = m_handlerRefCount - 1
         /\ m_taskCount' \in Nat /\ m_isShutdown' \in BOOLEAN /\ m_terminationEvent' \in BOOLEAN
         /\ m_taskCount' = m_taskCount \/ m_handlerRefCount = 1
         /\ TerminatedShape'
<1>1. m_handlerRefCount \in Nat /\ m_taskCount \in Nat
  BY DEF UITypeOK
<1>2. m_isShutdown' \in BOOLEAN /\ m_terminationEvent' \in BOOLEAN
  <2>1. m_terminationEvent' = m_terminationEvent \/ m_terminationEvent' \in BOOLEAN
    BY DEF ReleaseHandlerRef, CheckTermination
  <2>2. m_isShutdown' \in BOOLEAN
    BY DEF ReleaseHandlerRef
  <2> QED
    BY <2>1, <2>2 DEF UITypeOK
<1>3. ~m_terminationEvent
  BY <1>1 DEF TerminatedShape
<1>4. TerminatedShape'
  <2>1. CASE m_handlerRefCount = 1
    <3>1. m_terminationEvent' = (m_terminationEvent \/ m_isShutdown') /\ m_handlerRefCount' = 0
      BY <1>1, <2>1 DEF ReleaseHandlerRef, CheckTermination
    <3>2. m_terminationEvent' => m_isShutdown'
      BY <1>3, <3>1
    <3> QED
      BY <3>1, <3>2 DEF TerminatedShape
  <2>2. CASE m_handlerRefCount # 1
    BY <1>3, <2>2 DEF TerminatedShape, ReleaseHandlerRef
  <2> QED
    BY <2>1, <2>2
<1> QED
  BY <1>1, <1>2, <1>4 DEF ReleaseHandlerRef, HandlersDropped

(* UISchedulerWinRT::Shutdown sets the event only without handlers.         *)
LEMMA SchedulerIsShutdownStep ==
  ASSUME UITypeOK, TerminatedShape, SchedulerIsShutdown
  PROVE  /\ UNCHANGED <<m_handlerRefCount, m_taskCount>> /\ TerminatedShape'
         /\ m_isShutdown' \in BOOLEAN /\ m_terminationEvent' \in BOOLEAN
BY DEF UITypeOK, TerminatedShape, SchedulerIsShutdown, CheckTermination

-----------------------------------------------------------------------------
(* Canceling the tasks of handlers that were thrown away *)

LEMMA CancelPendingStep ==
  ASSUME ServiceInv, TaskPlaces, NEW a \in Thread, call[a] # "shutdown", CancelPending(a)
  PROVE  ServiceInv' /\ TaskPlaces'
<1> USE DEF ServiceInv
<1>1. TQTypeOK' /\ OwnerHeldIffPending'
  BY DequeueAllType, DequeueAllOwner DEF CancelPending, ServiceTypeOK
<1>2. toCancel' \in [Thread -> Seq(Task)]
  BY ContentsType DEF CancelPending, ServiceTypeOK
<1>3. outcome' \in [Task -> Outcome]
  BY DEF CancelPending, ServiceTypeOK, Outcome
<1>4. call' \in [Thread -> CallState]
  BY DEF CancelPending, ServiceTypeOK, CallState
<1>5. SuspendExact' /\ PostsOwed'
  BY DEF CancelPending, ServiceTypeOK, SuspendExact, PostsOwed
<1>6. ServiceInv'
  BY <1>1, <1>2, <1>3, <1>4, <1>5 DEF CancelPending, ServiceTypeOK
<1>7. toCancel[a] = <<>>
  BY DEF TaskPlaces
<1>8. TaskPlaces'
  BY <1>7, TakeAllPlaces DEF CancelPending
<1> QED
  BY <1>6, <1>8

-----------------------------------------------------------------------------
(* The users' methods, and the steps of a caller *)

(* A method of the queue changes nothing of the scheduler.                  *)
LEMMA UserMethodKeeps ==
  ASSUME UIInv, NEW a \in Thread, UserMethod(a), UNCHANGED uiVars
  PROVE  UIInv'
<1> USE DEF UIInv, uiVars, countVars
<1>1. ServiceInv' /\ TaskPlaces' /\ CanCall(a) /\ UNCHANGED running
  BY UserMethodStep, UserMethodPlaces
<1>2. PICK x \in {"none", "schedule", "shutdown", "terminate"} : call' = [call EXCEPT ![a] = x]
  BY UserMethodStep
<1>3. call \in [Thread -> CallState] /\ handles \subseteq Client /\ call[a] = "none" /\ post[a] = "out"
  BY <1>1 DEF ServiceInv, ServiceTypeOK, CanCall, PostShape, UITypeOK, PostPlace
<1>4. a = UI => pc = "run"
  BY <1>1, <1>3, UIThread DEF CanCall, UIShape
<1>5. UITypeOK' /\ TerminatedShape'
  BY DEF UITypeOK, TerminatedShape
<1>6. UIShape'
  BY <1>1, <1>2, <1>3, <1>4, UIThread DEF UIShape
<1>7. PostShape'
  <2>1. \A b \in Thread : b # a => toSchedule'[b] = toSchedule[b] /\ call'[b] = call[b]
    BY <1>2, <1>3, UserMethodStep
  <2> QED
    BY <1>3, <2>1 DEF PostShape
<1>8. RefCountExact' /\ TasksCounted'
  BY CountsKept DEF UIHandler, UITaking
<1> QED
  BY <1>1, <1>5, <1>6, <1>7, <1>8

LEMMA CancelTaskStep ==
  ASSUME UIInv, NEW a \in Thread, CancelTask(a), UNCHANGED uiVars
  PROVE  UIInv'
<1> USE DEF UIInv, uiVars, countVars
<1>1. ServiceInv' /\ TaskPlaces'
  BY CancelTaskInv, CancelTaskPlaces DEF ServiceInv
<1>2. UNCHANGED <<call, running, toSchedule>>
  BY DEF CancelTask
<1>3. RefCountExact' /\ TasksCounted'
  BY CountsKept DEF UIHandler, UITaking
<1> QED
  BY <1>1, <1>2, <1>3 DEF UITypeOK, TerminatedShape, UIShape, PostShape

(* The last reference is dropped by a client.                               *)
LEMMA ReleaseHandleStep ==
  ASSUME UIInv, NEW c \in Client, ReleaseHandle(c)
  PROVE  UIInv'
<1> USE DEF UIInv
<1>1. /\ call \in [Thread -> CallState] /\ c \in Thread /\ c # UI /\ call[c] = "none"
      /\ handles' \subseteq Client /\ guards \subseteq handles'
      /\ UNCHANGED <<toSchedule, toCancel, enqueued, post, pc, isOpen, refused, running>>
  BY UIThread DEF ServiceInv, ServiceTypeOK, Thread, ReleaseHandle
<1>2. call' = call \/ call' = [call EXCEPT ![c] = "wait"]
  BY DEF ReleaseHandle
<1>3. call' \in [Thread -> CallState] /\ \A a \in Thread : call[a] # "none" => call'[a] = call[a]
  <2>1. CASE call' = call
    BY <1>1, <2>1
  <2>2. CASE call' = [call EXCEPT ![c] = "wait"]
    BY <1>1, <2>2 DEF CallState
  <2> QED
    BY <1>2, <2>1, <2>2
<1>4. PostsOwed'
  <2>1. \A a \in Thread : call'[a] = call[a] \/ call'[a] = "wait"
    BY <1>1, <1>2
  <2> QED
    BY <1>1, <2>1 DEF ServiceInv, PostsOwed
<1>5. m_shutdownAction' \in {"none", "complete", "cancel"}
  BY DEF ReleaseHandle, Destroy, ServiceInv, ServiceTypeOK
<1>6. ServiceInv'
  BY <1>1, <1>3, <1>4, <1>5, ServiceFrame DEF ReleaseHandle, ServiceInv, ServiceTypeOK
<1>7. TaskPlaces'
  BY <1>3, PlacesKept DEF ReleaseHandle, ServiceInv
<1>8. /\ UNCHANGED <<m_handlerRefCount, m_taskCount>> /\ TerminatedShape'
      /\ m_isShutdown' \in BOOLEAN /\ m_terminationEvent' \in BOOLEAN
  <2>1. CASE handles = {c} /\ ~m_strongOwnerPtr /\ ~HoldsQueue
    BY <2>1, SchedulerIsShutdownStep DEF ReleaseHandle, Destroy
  <2>2. CASE ~(handles = {c} /\ ~m_strongOwnerPtr /\ ~HoldsQueue)
    BY <2>2 DEF ReleaseHandle, countVars, UITypeOK, TerminatedShape
  <2> QED
    BY <2>1, <2>2
<1>9. UITypeOK'
  <2>1. lifetime' \in {"alive", "destroying", "freed"}
    BY DEF ReleaseHandle, Destroy, UITypeOK
  <2> QED
    BY <1>1, <1>8, <2>1 DEF UITypeOK
<1>10. RefCountExact' /\ TasksCounted'
  BY <1>1, <1>8, CountsKept DEF UIHandler, UITaking
<1>11. UIShape'
  BY <1>1, <1>2, UIThread DEF UIShape
<1>12. PostShape'
  BY <1>1, <1>3 DEF PostShape
<1> QED
  BY <1>6, <1>7, <1>8, <1>9, <1>10, <1>11, <1>12

LEMMA WaitReturnsStep ==
  ASSUME UIInv, NEW c \in Client, WaitReturns(c)
  PROVE  UIInv'
<1> USE DEF UIInv
<1>1. /\ call \in [Thread -> CallState] /\ c \in Thread /\ c # UI /\ call[c] = "wait"
      /\ call' = [call EXCEPT ![c] = "none"]
      /\ UNCHANGED <<toSchedule, toCancel, countVars, enqueued, post, pc, isOpen, refused, running>>
  BY UIThread DEF ServiceInv, ServiceTypeOK, Thread, WaitReturns
<1>2. call' \in [Thread -> CallState] /\ PostsOwed' /\ \A a \in Thread : a # c => call'[a] = call[a]
  BY <1>1 DEF CallState, ServiceInv, PostsOwed
<1>3. ServiceInv'
  BY <1>2, ServiceFrame DEF WaitReturns, ServiceInv, ServiceTypeOK
<1>4. TaskPlaces'
  BY <1>1, <1>2, PlacesKept DEF WaitReturns, ServiceInv
<1>5. UITypeOK' /\ TerminatedShape'
  BY <1>1 DEF WaitReturns, UITypeOK, TerminatedShape, countVars
<1>6. RefCountExact' /\ TasksCounted'
  BY <1>1, CountsKept DEF UIHandler, UITaking, countVars
<1>7. UIShape' /\ PostShape'
  BY <1>1, <1>2, UIThread DEF UIShape, PostShape
<1> QED
  BY <1>3, <1>4, <1>5, <1>6, <1>7

-----------------------------------------------------------------------------
(* UISchedulerWinRT, in the thread that calls it *)

(* One scheduler->Post() has returned; this thread may owe another one.     *)
LEMMA PostDone ==
  ASSUME UIInv, NEW a \in Thread, toSchedule[a] > 0, SchedulerPostDone(a),
         call[a] # "none", toCancel[a] = <<>>,
         UNCHANGED <<tqVars, m_shutdownAction, m_suspendCounter, handles, guards, toCancel,
                     running, deferred, outcome>>
  PROVE  /\ ServiceInv' /\ TaskPlaces'
         /\ \E x \in {"none", "schedule"} : call' = [call EXCEPT ![a] = x]
         /\ \A b \in Thread : b # a => call'[b] = call[b] /\ toSchedule'[b] = toSchedule[b]
<1> USE DEF UIInv
<1>1. toSchedule \in [Thread -> Nat] /\ call \in [Thread -> CallState]
  BY DEF ServiceInv, ServiceTypeOK
<1>2. toSchedule[a] - 1 \in Nat
  BY <1>1
<1>3. toSchedule' \in [Thread -> Nat] /\ call' \in [Thread -> CallState] /\ PostsOwed'
  BY <1>2, OweSchedulerPostsInv DEF SchedulerPostDone, ServiceInv
<1>4. /\ \E x \in {"none", "schedule"} : call' = [call EXCEPT ![a] = x]
      /\ \A b \in Thread : b # a => call'[b] = call[b] /\ toSchedule'[b] = toSchedule[b]
  BY <1>1 DEF SchedulerPostDone, OweSchedulerPosts
<1>5. ServiceInv'
  BY <1>3, ServiceFrame DEF ServiceInv, ServiceTypeOK
<1>6. TaskPlaces'
  BY <1>4, PlacesKept DEF ServiceInv
<1> QED
  BY <1>4, <1>5, <1>6

(* The locked section of Post: a handler and a task are counted, unless the *)
(* scheduler is shut down.                                                  *)
LEMMA SchedulerPostStep ==
  ASSUME UIInv, NEW a \in Thread, SchedulerPost(a)
  PROVE  UIInv'
<1> USE DEF UIInv
<1>1. /\ call \in [Thread -> CallState] /\ call[a] = "schedule" /\ toSchedule[a] > 0
      /\ toCancel[a] = <<>> /\ post[a] = "out" /\ (a = UI => pc = "run")
      /\ UNCHANGED <<running, pc, enqueued, isOpen, lifetime, m_isShutdown, m_terminationEvent>>
      /\ post \in [Thread -> PostPlace]
  <2>1. /\ call \in [Thread -> CallState] /\ call[a] = "schedule" /\ post \in [Thread -> PostPlace]
        /\ UNCHANGED <<running, pc, enqueued, isOpen, lifetime, m_isShutdown, m_terminationEvent>>
    BY DEF SchedulerPost, ServiceInv, ServiceTypeOK, UITypeOK
  <2>2. toCancel[a] = <<>> /\ toSchedule[a] > 0
    BY <2>1 DEF TaskPlaces, ServiceInv, PostsOwed
  <2>3. post[a] = "out" /\ (a = UI => pc = "run")
    BY <2>1, UIThread DEF PostShape, UIShape, PostPlace
  <2> QED
    BY <2>1, <2>2, <2>3
<1>2. CASE m_isShutdown
  <2>1. SchedulerPostDone(a) /\ refused' = TRUE /\ UNCHANGED <<m_taskCount, m_handlerRefCount, post>>
    BY <1>2 DEF SchedulerPost
  <2>2. /\ ServiceInv' /\ TaskPlaces'
        /\ \E x \in {"none", "schedule"} : call' = [call EXCEPT ![a] = x]
        /\ \A b \in Thread : b # a => call'[b] = call[b] /\ toSchedule'[b] = toSchedule[b]
    BY <1>1, <2>1, PostDone DEF SchedulerPost
  <2>3. UITypeOK' /\ TerminatedShape'
    BY <1>1, <2>1 DEF UITypeOK, TerminatedShape
  <2>4. RefCountExact' /\ TasksCounted'
    BY <1>1, <2>1, CountsKept DEF UIHandler, UITaking
  <2>5. UIShape'
    BY <1>1, <2>1, <2>2, UIThread DEF UIShape
  <2>6. PostShape'
    BY <1>1, <2>1, <2>2 DEF PostShape
  <2> QED
    BY <2>2, <2>3, <2>4, <2>5, <2>6
<1>3. CASE ~m_isShutdown
  <2>1. /\ m_taskCount' = m_taskCount + 1 /\ m_handlerRefCount' = m_handlerRefCount + 1
        /\ call' = [call EXCEPT ![a] = "submit"] /\ post' = [post EXCEPT ![a] = "enqueue"]
        /\ UNCHANGED <<toSchedule, refused>>
    BY <1>3 DEF SchedulerPost
  <2>2. call' \in [Thread -> CallState] /\ PostsOwed' /\ \A b \in Thread : b # a => call'[b] = call[b]
    BY <1>1, <2>1 DEF CallState, ServiceInv, PostsOwed
  <2>3. ServiceInv'
    BY <2>1, <2>2, ServiceFrame DEF SchedulerPost, ServiceInv, ServiceTypeOK
  <2>4. TaskPlaces'
    BY <1>1, <2>1, <2>2, PlacesKept DEF SchedulerPost, ServiceInv
  <2>5. UITypeOK'
    BY <1>1, <2>1 DEF UITypeOK, PostPlace
  <2>6. TerminatedShape'
    BY <1>1, <1>3 DEF TerminatedShape
  <2>7. RefCountExact' /\ TasksCounted'
    <3>1. Posting' = Posting \cup {a} /\ a \notin Posting /\ Entering' = Entering \cup {a} /\ a \notin Entering
      BY <1>1, <2>1 DEF Posting, Entering
    <3>2. /\ Cardinality(Posting') = Cardinality(Posting) + 1
          /\ Cardinality(Entering') = Cardinality(Entering) + 1
      BY <3>1, FiniteCounts, FS_AddElement
    <3>3. UIHandler' = UIHandler /\ UITaking' = UITaking /\ UIHandler \in Nat /\ UITaking \in Nat
      BY <1>1 DEF UIHandler, UITaking
    <3> QED
      BY <1>1, <2>1, <3>2, <3>3, FiniteCounts DEF RefCountExact, TasksCounted, UITypeOK
  <2>8. UIShape'
    BY <1>1, <2>1, <2>2, UIThread DEF UIShape
  <2>9. PostShape'
    BY <1>1, <2>1, <2>2 DEF PostShape
  <2> QED
    BY <2>3, <2>4, <2>5, <2>6, <2>7, <2>8, <2>9
<1> QED
  BY <1>2, <1>3

(* TryEnqueue: the dispatcher takes a reference, or refuses.                *)
LEMMA TryEnqueueStep ==
  ASSUME UIInv, NEW a \in Thread, TryEnqueue(a)
  PROVE  UIInv'
<1> USE DEF UIInv
<1>1. /\ post[a] = "enqueue" /\ post' = [post EXCEPT ![a] = "release"] /\ post \in [Thread -> PostPlace]
      /\ UNCHANGED <<tqVars, serviceVars, m_taskCount, m_isShutdown, m_terminationEvent, isOpen,
                     pc, lifetime, refused>>
  BY DEF TryEnqueue, UITypeOK
<1>2. ServiceInv' /\ TaskPlaces' /\ UNCHANGED <<call, running, toSchedule>>
  BY <1>1, ServiceStutter DEF serviceVars
<1>3. /\ UIHandler' = UIHandler /\ UITaking' = UITaking /\ UIHandler \in Nat /\ UITaking \in Nat
      /\ enqueued \in Nat /\ m_handlerRefCount \in Nat /\ m_taskCount \in Nat
  BY <1>1 DEF UIHandler, UITaking, UITypeOK
<1>4. Posting' = Posting /\ a \in Posting /\ Entering' = Entering \ {a} /\ a \in Entering
  BY <1>1 DEF Posting, Entering
<1>5. Cardinality(Entering') = Cardinality(Entering) - 1
  BY <1>4, FiniteCounts, FS_RemoveElement
<1>6. Cardinality(Posting) > 0
  BY <1>4, FiniteCounts, FS_EmptySet
<1>7. m_handlerRefCount > 0 /\ ~m_terminationEvent
  BY <1>3, <1>6, FiniteCounts DEF RefCountExact, TerminatedShape
<1>8. \/ enqueued' = enqueued + 1 /\ m_handlerRefCount' = m_handlerRefCount + 1
      \/ enqueued' = enqueued /\ m_handlerRefCount' = m_handlerRefCount
  BY DEF TryEnqueue
<1>9. RefCountExact' /\ TasksCounted'
  BY <1>1, <1>3, <1>4, <1>5, <1>8, FiniteCounts DEF RefCountExact, TasksCounted
<1>10. UITypeOK' /\ TerminatedShape'
  BY <1>1, <1>3, <1>7, <1>8 DEF UITypeOK, TerminatedShape, PostPlace
<1>11. UIShape' /\ PostShape'
  BY <1>1, <1>2, UIThread DEF UIShape, PostShape
<1> QED
  BY <1>2, <1>9, <1>10, <1>11

(* The handler variable of Post is destroyed.                               *)
LEMMA PosterReleaseStep ==
  ASSUME UIInv, NEW a \in Thread, PosterRelease(a)
  PROVE  UIInv'
<1> USE DEF UIInv
<1>1. /\ post[a] = "release" /\ post \in [Thread -> PostPlace] /\ ReleaseHandlerRef
      /\ call[a] = "submit" /\ toSchedule[a] > 0 /\ (a = UI => pc = "run") /\ toCancel[a] = <<>>
      /\ UNCHANGED <<tqVars, m_shutdownAction, m_suspendCounter, handles, guards, toCancel, running,
                     deferred, outcome, isOpen, enqueued, pc, lifetime, refused>>
  BY UIThread DEF PosterRelease, UITypeOK, PostShape, UIShape, TaskPlaces
<1>2. /\ UIHandler' = UIHandler /\ UITaking' = UITaking /\ UIHandler \in Nat /\ UITaking \in Nat
      /\ enqueued \in Nat /\ m_handlerRefCount \in Nat /\ m_taskCount \in Nat
  BY <1>1 DEF UIHandler, UITaking, UITypeOK
<1>3. \E x \in {"cleanup", "out"} : post' = [post EXCEPT ![a] = x]
  BY DEF PosterRelease
<1>4. Posting' = Posting \ {a} /\ a \in Posting /\ Entering' = Entering
  BY <1>1, <1>3 DEF Posting, Entering
<1>5. Cardinality(Posting') = Cardinality(Posting) - 1 /\ Cardinality(Posting) > 0
  BY <1>4, FiniteCounts, FS_RemoveElement, FS_EmptySet
<1>6. m_handlerRefCount > 0
  BY <1>2, <1>5, FiniteCounts DEF RefCountExact
<1>7. /\ m_handlerRefCount' \in Nat /\ m_handlerRefCount' = m_handlerRefCount - 1
      /\ m_taskCount' \in Nat /\ m_isShutdown' \in BOOLEAN /\ m_terminationEvent' \in BOOLEAN
      /\ m_taskCount' = m_taskCount \/ m_handlerRefCount = 1
      /\ TerminatedShape'
  BY <1>1, <1>6, ReleaseHandlerRefStep
<1>8. RefCountExact'
  BY <1>1, <1>2, <1>5, <1>7, FiniteCounts DEF RefCountExact
<1>9. TasksCounted'
  <2>1. CASE m_taskCount' = m_taskCount
    BY <1>1, <1>2, <1>4, <2>1 DEF TasksCounted
  <2>2. CASE m_handlerRefCount = 1
    <3>1. enqueued = 0 /\ UITaking = 0 /\ Cardinality(Entering) = 0
      BY <1>1, <2>2, NobodyTakes
    <3> QED
      BY <1>1, <1>2, <1>4, <1>7, <3>1 DEF TasksCounted
  <2> QED
    BY <1>7, <2>1, <2>2
<1>10. UITypeOK'
  BY <1>1, <1>3, <1>7 DEF UITypeOK, PostPlace
<1>11. CASE HandlersDropped
  <2>1. post' = [post EXCEPT ![a] = "cleanup"] /\ UNCHANGED <<call, toSchedule>>
    BY <1>11 DEF PosterRelease
  <2>2. ServiceInv' /\ TaskPlaces'
    BY <1>1, <2>1, ServiceStutter DEF serviceVars
  <2>3. UIShape' /\ PostShape'
    BY <1>1, <2>1, UIThread DEF UIShape, PostShape
  <2> QED
    BY <1>7, <1>8, <1>9, <1>10, <2>2, <2>3
<1>12. CASE ~HandlersDropped
  <2>1. post' = [post EXCEPT ![a] = "out"] /\ SchedulerPostDone(a)
    BY <1>12 DEF PosterRelease
  <2>2. /\ ServiceInv' /\ TaskPlaces'
        /\ \E x \in {"none", "schedule"} : call' = [call EXCEPT ![a] = x]
        /\ \A b \in Thread : b # a => call'[b] = call[b] /\ toSchedule'[b] = toSchedule[b]
    BY <1>1, <2>1, PostDone
  <2>3. UIShape' /\ PostShape'
    BY <1>1, <2>1, <2>2, UIThread DEF UIShape, PostShape
  <2> QED
    BY <1>7, <1>8, <1>9, <1>10, <2>2, <2>3
<1> QED
  BY <1>11, <1>12

(* ~CleanupContext in a poster.                                             *)
LEMMA PosterCleanupStep ==
  ASSUME UIInv, NEW a \in Thread, PosterCleanup(a)
  PROVE  UIInv'
<1> USE DEF UIInv, uiVars, countVars
<1>1. post[a] = "cleanup" /\ call[a] = "submit" /\ CancelPending(a) /\ UNCHANGED uiVars
  BY DEF PosterCleanup
<1>2. ServiceInv' /\ TaskPlaces'
  BY <1>1, CancelPendingStep
<1>3. /\ call' = [call EXCEPT ![a] = "shutdown"] /\ UNCHANGED <<running, toSchedule>>
      /\ call \in [Thread -> CallState]
  BY <1>1 DEF CancelPending, ServiceInv, ServiceTypeOK
<1>4. RefCountExact' /\ TasksCounted'
  BY <1>1, CountsKept DEF UIHandler, UITaking
<1>5. UIShape' /\ PostShape'
  BY <1>1, <1>3, UIThread DEF UIShape, PostShape
<1> QED
  BY <1>1, <1>2, <1>4, <1>5 DEF UITypeOK, TerminatedShape

(* The end of QueueService::Shutdown or of the Shutdown of AwaitTermination.*)
LEMMA SchedulerShutdownStep ==
  ASSUME UIInv, NEW a \in Thread, SchedulerShutdown(a)
  PROVE  UIInv'
<1> USE DEF UIInv
<1>1. /\ call[a] \in {"shutdown", "terminate"} /\ toCancel[a] = <<>> /\ post' = [post EXCEPT ![a] = "out"]
      /\ pc' = (IF a = UI /\ pc = "cancel" THEN "last" ELSE pc) /\ SchedulerIsShutdown
      /\ call \in [Thread -> CallState] /\ post \in [Thread -> PostPlace]
      /\ UNCHANGED <<tqVars, m_shutdownAction, m_suspendCounter, handles, guards, toCancel, running,
                     deferred, outcome, isOpen, enqueued, lifetime, refused>>
  BY DEF SchedulerShutdown, ServiceInv, ServiceTypeOK, UITypeOK
<1>2. post[a] \in {"out", "cleanup"} /\ (a = UI => pc \in {"run", "cancel"})
  BY <1>1, UIThread DEF PostShape, UITypeOK, PostPlace, UIShape
<1>3. /\ UNCHANGED <<m_handlerRefCount, m_taskCount>> /\ TerminatedShape'
      /\ m_isShutdown' \in BOOLEAN /\ m_terminationEvent' \in BOOLEAN
  BY <1>1, SchedulerIsShutdownStep
<1>4. UITypeOK'
  BY <1>1, <1>3 DEF UITypeOK, PostPlace, Place
<1>5. RefCountExact' /\ TasksCounted'
  BY <1>1, <1>2, <1>3, CountsKept DEF UIHandler, UITaking
<1>6. CASE post[a] = "cleanup"
  <2>1. SchedulerPostDone(a) /\ toSchedule[a] > 0
    BY <1>6 DEF SchedulerShutdown, PostShape
  <2>2. /\ ServiceInv' /\ TaskPlaces'
        /\ \E x \in {"none", "schedule"} : call' = [call EXCEPT ![a] = x]
        /\ \A b \in Thread : b # a => call'[b] = call[b] /\ toSchedule'[b] = toSchedule[b]
    BY <1>1, <2>1, PostDone
  <2>3. a = UI => pc = "run" /\ pc' = "run"
    BY <1>1, <1>2, <1>6 DEF UIShape
  <2>4. UIShape'
    BY <1>1, <2>2, <2>3, UIThread DEF UIShape
  <2>5. PostShape'
    BY <1>1, <2>2 DEF PostShape
  <2> QED
    BY <1>3, <1>4, <1>5, <2>2, <2>4, <2>5
<1>7. CASE post[a] # "cleanup"
  <2>1. /\ toSchedule' = toSchedule
        /\ \E x \in {"wait", "none"} : call' = [call EXCEPT ![a] = x] /\ (a = UI => x = "none")
    BY <1>7 DEF SchedulerShutdown
  <2>2. call' \in [Thread -> CallState] /\ PostsOwed' /\ \A b \in Thread : b # a => call'[b] = call[b]
    BY <1>1, <2>1 DEF CallState, ServiceInv, PostsOwed
  <2>3. ServiceInv'
    BY <1>1, <2>1, <2>2, ServiceFrame DEF ServiceInv, ServiceTypeOK
  <2>4. TaskPlaces'
    BY <1>1, <2>2, PlacesKept DEF ServiceInv
  <2>5. UIShape'
    <3>1. CASE a = UI
      BY <1>1, <2>1, <3>1, UIThread DEF UIShape
    <3>2. CASE a # UI
      BY <1>1, <2>2, <3>2, UIThread DEF UIShape
    <3> QED
      BY <3>1, <3>2
  <2>6. PostShape'
    BY <1>1, <2>1, <2>2 DEF PostShape
  <2> QED
    BY <1>3, <1>4, <1>5, <2>3, <2>4, <2>5, <2>6
<1> QED
  BY <1>6, <1>7

-----------------------------------------------------------------------------
(* The UI thread *)

(* The dispatcher hands over the next handler, or is closed.                *)
LEMMA DispatcherStep ==
  ASSUME UIInv, NextHandler \/ CloseDispatcher
  PROVE  UIInv'
<1> USE DEF UIInv, Goto
<1>1. UNCHANGED <<tqVars, serviceVars, countVars, post, lifetime, refused>> /\ pc = "idle"
  BY DEF NextHandler, CloseDispatcher
<1>2. ServiceInv' /\ TaskPlaces' /\ UNCHANGED <<call, running, toSchedule>>
  BY <1>1, ServiceStutter DEF serviceVars
<1>3. pc' \in {"idle", "take", "release"}
  BY <1>1 DEF NextHandler, CloseDispatcher
<1>4. UIShape' /\ PostShape' /\ TerminatedShape'
  BY <1>1, <1>2, <1>3 DEF UIShape, PostShape, TerminatedShape, countVars
<1>5. CASE CloseDispatcher
  <2>1. RefCountExact' /\ TasksCounted'
    BY <1>1, <1>5, CountsKept DEF CloseDispatcher, UIHandler, UITaking, countVars
  <2>2. UITypeOK'
    BY <1>1, <1>5 DEF CloseDispatcher, UITypeOK, countVars
  <2> QED
    BY <1>2, <1>4, <2>1, <2>2
<1>6. CASE NextHandler
  <2>1. enqueued > 0 /\ enqueued' = enqueued - 1 /\ pc' \in {"take", "release"} /\ isOpen' = isOpen
    BY <1>6 DEF NextHandler
  <2>2. UITypeOK'
    BY <1>1, <2>1 DEF UITypeOK, countVars, Place
  <2>3. Posting' = Posting /\ Entering' = Entering
    BY <1>1 DEF Posting, Entering
  <2>4. UIHandler = 0 /\ UITaking = 0 /\ UIHandler' = 1 /\ UITaking' \in {0, 1}
    BY <1>1, <2>1 DEF UIHandler, UITaking
  <2>5. RefCountExact' /\ TasksCounted'
    BY <1>1, <2>1, <2>3, <2>4, FiniteCounts DEF RefCountExact, TasksCounted, UITypeOK, countVars
  <2> QED
    BY <1>2, <1>4, <2>2, <2>5
<1> QED
  BY <1>5, <1>6

(* TryTakeTask: a handler that is invoked was counted.                      *)
LEMMA TryTakeTaskStep ==
  ASSUME UIInv, TryTakeTask
  PROVE  UIInv'
<1> USE DEF UIInv, Goto
<1>1. /\ pc = "take" /\ pc' = "strong" /\ m_taskCount' = m_taskCount - 1
      /\ UNCHANGED <<tqVars, serviceVars, m_handlerRefCount, m_isShutdown, m_terminationEvent,
                     isOpen, enqueued, post, lifetime, refused>>
  BY DEF TryTakeTask
<1>2. ServiceInv' /\ TaskPlaces' /\ UNCHANGED <<call, running, toSchedule>>
  BY <1>1, ServiceStutter DEF serviceVars
<1>3. Posting' = Posting /\ Entering' = Entering
  BY <1>1 DEF Posting, Entering
<1>4. UIHandler = 1 /\ UITaking = 1 /\ UIHandler' = 1 /\ UITaking' = 0
  BY <1>1 DEF UIHandler, UITaking
<1>5. m_taskCount \in Nat /\ enqueued \in Nat /\ m_taskCount > 0
  BY <1>4, FiniteCounts DEF TasksCounted, UITypeOK
<1>6. RefCountExact' /\ TasksCounted'
  BY <1>1, <1>3, <1>4, <1>5, FiniteCounts DEF RefCountExact, TasksCounted
<1>7. UITypeOK'
  BY <1>1, <1>5 DEF UITypeOK, Place
<1>8. UIShape' /\ PostShape' /\ TerminatedShape'
  BY <1>1, <1>2 DEF UIShape, PostShape, TerminatedShape
<1> QED
  BY <1>2, <1>6, <1>7, <1>8

(* Steps of a handler between TryTakeTask and its release.                  *)
LEMMA HandlerSteps ==
  ASSUME UIInv, UNCHANGED <<countVars, isOpen, enqueued, post, lifetime, refused>>,
         pc \in {"strong", "deque", "run"}, pc' \in {"deque", "run", "drop", "release"},
         ServiceInv', TaskPlaces', call' = call, toSchedule' = toSchedule,
         call[UI] # "none" => pc' = "run",
         running'[UI] # NoTask <=> pc' = "run"
  PROVE  UIInv'
<1> USE DEF UIInv
<1>1. UIShape' /\ PostShape' /\ TerminatedShape'
  BY DEF UIShape, PostShape, TerminatedShape, countVars
<1>2. RefCountExact' /\ TasksCounted'
  BY CountsKept DEF UIHandler, UITaking, countVars
<1>3. UITypeOK'
  BY DEF UITypeOK, Place, countVars
<1> QED
  BY <1>1, <1>2, <1>3

LEMMA InvokeSteps ==
  ASSUME UIInv, GetStrongPtr \/ UIDeque \/ UIInvoke
  PROVE  UIInv'
<1> USE DEF UIInv, Goto
<1>1. CASE GetStrongPtr
  <2>1. pc = "strong" /\ pc' \in {"deque", "release"}
    BY <1>1 DEF GetStrongPtr
  <2>2. ServiceInv' /\ TaskPlaces' /\ UNCHANGED <<call, running, toSchedule>>
    BY <1>1, ServiceStutter DEF GetStrongPtr, serviceVars
  <2> QED
    BY <1>1, <2>1, <2>2, HandlerSteps DEF GetStrongPtr, UIShape
<1>2. CASE UIDeque /\ ~HasTasks
  <2>1. pc = "deque" /\ pc' = "drop"
    BY <1>2 DEF UIDeque
  <2>2. ServiceInv' /\ TaskPlaces' /\ UNCHANGED <<call, running, toSchedule>>
    BY <1>2, ServiceStutter DEF UIDeque, serviceVars
  <2> QED
    BY <1>2, <2>1, <2>2, HandlerSteps DEF UIDeque, UIShape
<1>3. CASE UIDeque /\ HasTasks
  <2>1. PICK t \in Task : TryDequeTask(UI, t)
    BY <1>3 DEF UIDeque
  <2>2. pc = "deque" /\ pc' = "run" /\ running[UI] = NoTask
    BY <1>3 DEF UIDeque, UIShape
  <2>3. ServiceInv' /\ TaskPlaces'
    BY <2>1, <2>2, UIThread, TryDequeTaskInv, TryDequeTaskPlaces DEF ServiceInv
  <2>4. UNCHANGED <<call, toSchedule>> /\ running'[UI] = t
    BY <2>1, UIThread DEF TryDequeTask, ServiceInv, ServiceTypeOK
  <2> QED
    BY <1>3, <2>2, <2>3, <2>4, NoTaskAssumption, HandlerSteps DEF UIDeque
<1>4. CASE UIInvoke
  <2>1. /\ pc = "run" /\ pc' \in {"run", "drop"} /\ (pc' = "run" <=> running'[UI] # NoTask)
        /\ InvokeTaskStep(UI)
    BY <1>4 DEF UIInvoke
  <2>2. ServiceInv' /\ TaskPlaces'
    BY <2>1, UIThread, InvokeTaskStepInv, InvokeTaskStepPlaces DEF ServiceInv
  <2>3. UNCHANGED <<call, toSchedule>> /\ call[UI] = "none"
    BY <2>1 DEF InvokeTaskStep
  <2> QED
    BY <1>4, <2>1, <2>2, <2>3, HandlerSteps DEF UIInvoke
<1> QED
  BY <1>1, <1>2, <1>3, <1>4

(* The UI thread drops its reference, perhaps the last one.                 *)
LEMMA DropQueueStep ==
  ASSUME UIInv, DropQueue
  PROVE  UIInv'
<1> USE DEF UIInv, Goto
<1>1. /\ (pc = "drop" /\ pc' = "release") \/ (pc = "last" /\ pc' = "idle")
      /\ UNCHANGED <<tqVars, m_suspendCounter, handles, guards, call, toSchedule, toCancel,
                     running, deferred, outcome, isOpen, enqueued, post, refused>>
  BY DEF DropQueue
<1>2. PostsOwed' /\ m_shutdownAction' \in {"none", "complete", "cancel"}
  BY <1>1 DEF DropQueue, Destroy, ServiceInv, ServiceTypeOK, PostsOwed
<1>3. ServiceInv'
  BY <1>1, <1>2, ServiceFrame DEF ServiceInv, ServiceTypeOK
<1>4. TaskPlaces'
  BY <1>1, PlacesKept DEF ServiceInv
<1>5. /\ UNCHANGED <<m_handlerRefCount, m_taskCount>> /\ TerminatedShape'
      /\ m_isShutdown' \in BOOLEAN /\ m_terminationEvent' \in BOOLEAN
  <2>1. CASE handles = {} /\ ~m_strongOwnerPtr
    BY <2>1, SchedulerIsShutdownStep DEF DropQueue, Destroy
  <2>2. CASE ~(handles = {} /\ ~m_strongOwnerPtr)
    BY <2>2 DEF DropQueue, countVars, UITypeOK, TerminatedShape
  <2> QED
    BY <2>1, <2>2
<1>6. UITypeOK'
  <2>1. lifetime' \in {"alive", "destroying", "freed"}
    BY DEF DropQueue, Destroy, UITypeOK
  <2> QED
    BY <1>1, <1>5, <2>1 DEF UITypeOK, Place
<1>7. RefCountExact' /\ TasksCounted'
  BY <1>1, <1>5, CountsKept DEF UIHandler, UITaking
<1>8. UIShape' /\ PostShape'
  BY <1>1 DEF UIShape, PostShape
<1> QED
  BY <1>3, <1>4, <1>5, <1>6, <1>7, <1>8

(* The dispatcher releases a handler.                                       *)
LEMMA UIReleaseStep ==
  ASSUME UIInv, UIRelease
  PROVE  UIInv'
<1> USE DEF UIInv, Goto
<1>1. /\ pc = "release" /\ pc' \in {"cleanup", "idle"} /\ ReleaseHandlerRef
      /\ UNCHANGED <<tqVars, serviceVars, isOpen, enqueued, post, lifetime, refused>>
  BY DEF UIRelease
<1>2. ServiceInv' /\ TaskPlaces' /\ UNCHANGED <<call, running, toSchedule>>
  BY <1>1, ServiceStutter DEF serviceVars
<1>3. Posting' = Posting /\ Entering' = Entering
  BY <1>1 DEF Posting, Entering
<1>4. UIHandler = 1 /\ UITaking = 0 /\ UIHandler' = 0 /\ UITaking' = 0
  BY <1>1 DEF UIHandler, UITaking
<1>5. m_handlerRefCount > 0 /\ enqueued \in Nat /\ m_taskCount \in Nat /\ m_handlerRefCount \in Nat
  BY <1>4, FiniteCounts DEF RefCountExact, UITypeOK
<1>6. /\ m_handlerRefCount' \in Nat /\ m_handlerRefCount' = m_handlerRefCount - 1
      /\ m_taskCount' \in Nat /\ m_isShutdown' \in BOOLEAN /\ m_terminationEvent' \in BOOLEAN
      /\ m_taskCount' = m_taskCount \/ m_handlerRefCount = 1
      /\ TerminatedShape'
  BY <1>1, <1>5, ReleaseHandlerRefStep
<1>7. RefCountExact'
  BY <1>1, <1>3, <1>4, <1>5, <1>6, FiniteCounts DEF RefCountExact
<1>8. TasksCounted'
  <2>1. CASE m_taskCount' = m_taskCount
    BY <1>1, <1>3, <1>4, <2>1 DEF TasksCounted
  <2>2. CASE m_handlerRefCount = 1
    <3>1. enqueued = 0 /\ Cardinality(Entering) = 0
      BY <1>1, <2>2, NobodyTakes
    <3> QED
      BY <1>1, <1>3, <1>4, <1>6, <3>1 DEF TasksCounted
  <2> QED
    BY <1>6, <2>1, <2>2
<1>9. UITypeOK'
  BY <1>1, <1>6 DEF UITypeOK, Place
<1>10. UIShape' /\ PostShape'
  BY <1>1, <1>2 DEF UIShape, PostShape
<1> QED
  BY <1>2, <1>6, <1>7, <1>8, <1>9, <1>10

(* ~CleanupContext in the UI thread.                                        *)
LEMMA UICleanupStep ==
  ASSUME UIInv, UICleanup
  PROVE  UIInv'
<1> USE DEF UIInv, Goto
<1>1. /\ pc = "cleanup" /\ call[UI] = "none" /\ running[UI] = NoTask
      /\ post \in [Thread -> PostPlace] /\ call \in [Thread -> CallState]
      /\ UNCHANGED <<countVars, isOpen, enqueued, post, lifetime, refused>>
  BY DEF UICleanup, UIShape, UITypeOK, ServiceInv, ServiceTypeOK
<1>2. post[UI] = "out"
  BY <1>1, UIThread DEF PostShape, PostPlace
<1>3. pc' \in {"cancel", "idle"}
  BY DEF UICleanup
<1>4. UITypeOK' /\ TerminatedShape'
  BY <1>1, <1>3 DEF UITypeOK, Place, countVars, TerminatedShape
<1>5. RefCountExact' /\ TasksCounted'
  BY <1>1, <1>3, CountsKept DEF UIHandler, UITaking, countVars
<1>6. CASE lifetime = "alive"
  <2>1. pc' = "cancel" /\ CancelPending(UI)
    BY <1>6 DEF UICleanup
  <2>2. ServiceInv' /\ TaskPlaces'
    BY <1>1, <2>1, UIThread, CancelPendingStep
  <2>3. call' = [call EXCEPT ![UI] = "shutdown"] /\ UNCHANGED <<running, toSchedule>>
    BY <2>1 DEF CancelPending
  <2>4. UIShape' /\ PostShape'
    BY <1>1, <1>2, <2>1, <2>3, UIThread DEF UIShape, PostShape
  <2> QED
    BY <1>4, <1>5, <2>2, <2>4
<1>7. CASE lifetime # "alive"
  <2>1. pc' = "idle" /\ UNCHANGED <<tqVars, serviceVars>>
    BY <1>7 DEF UICleanup
  <2>2. ServiceInv' /\ TaskPlaces' /\ UNCHANGED <<call, running, toSchedule>>
    BY <2>1, ServiceStutter DEF serviceVars
  <2>3. UIShape' /\ PostShape'
    BY <1>1, <2>1, <2>2 DEF UIShape, PostShape
  <2> QED
    BY <1>4, <1>5, <2>2, <2>3
<1> QED
  BY <1>6, <1>7

-----------------------------------------------------------------------------
(* The invariant of the queue *)

LEMMA InitUIInv == Init => UIInv
<1> HAVE Init
<1>1. ServiceInv /\ TaskPlaces
  BY ServiceInitInv, ServiceInitPlaces DEF Init
<1>2. UITypeOK /\ TerminatedShape
  BY DEF Init, UITypeOK, TerminatedShape, Place, PostPlace
<1>3. UIShape
  <2>1. running[UI] = NoTask /\ call[UI] = "none" /\ pc = "idle"
    BY UIThread DEF Init, ServiceInit
  <2> QED
    BY <2>1 DEF UIShape
<1>4. PostShape
  BY DEF Init, PostShape
<1>5. Posting = {} /\ Entering = {} /\ UIHandler = 0 /\ UITaking = 0
  BY DEF Init, Posting, Entering, UIHandler, UITaking
<1>6. RefCountExact /\ TasksCounted
  BY <1>5, FS_EmptySet DEF Init, RefCountExact, TasksCounted
<1> QED
  BY <1>1, <1>2, <1>3, <1>4, <1>6 DEF UIInv

(* Every step keeps the invariant: one case per action.                     *)
LEMMA NextUIInv ==
  ASSUME UIInv, [Next]_vars
  PROVE  UIInv'
<1>1. ASSUME NEW c \in Client, ClientCall(c) PROVE UIInv'
  <2>1. c \in Thread /\ UserMethod(c)
    BY <1>1 DEF ClientCall, UserMethod, Thread
  <2> QED
    BY <1>1, <2>1, UserMethodKeeps DEF ClientCall
<1>2. ASSUME TaskCall PROVE UIInv'
  <2>1. UserMethod(UI)
    BY <1>2, UIThread DEF TaskCall, UserMethod
  <2> QED
    BY <1>2, <2>1, UIThread, UserMethodKeeps DEF TaskCall
<1>3. ASSUME NEW c \in Client, ReleaseHandle(c) \/ WaitReturns(c) PROVE UIInv'
  BY <1>3, ReleaseHandleStep, WaitReturnsStep
<1>4. ASSUME UIStep \/ CloseDispatcher PROVE UIInv'
  BY <1>4, DispatcherStep, TryTakeTaskStep, InvokeSteps, DropQueueStep, UIReleaseStep,
     UICleanupStep DEF UIStep
<1>5. ASSUME NEW a \in Thread, Continue(a) PROVE UIInv'
  BY <1>5, CancelTaskStep, SchedulerPostStep, TryEnqueueStep, PosterReleaseStep,
     PosterCleanupStep, SchedulerShutdownStep DEF Continue
<1>6. ASSUME UNCHANGED vars PROVE UIInv'
  <2>1. ServiceInv' /\ TaskPlaces'
    BY <1>6, ServiceStutter DEF vars, UIInv
  <2>2. RefCountExact' /\ TasksCounted'
    BY <1>6, CountsKept DEF vars, uiVars, countVars, UIInv, UIHandler, UITaking
  <2> QED
    BY <1>6, <2>1, <2>2 DEF vars, serviceVars, uiVars, countVars, UIInv, UITypeOK, UIShape,
       PostShape, TerminatedShape
<1> QED
  BY <1>1, <1>2, <1>3, <1>4, <1>5, <1>6 DEF Next

(* The inductive invariant of the UI queue.                                 *)
THEOREM UIInvariant == Spec => []UIInv
<1>1. UIInv /\ [Next]_vars => UIInv'
  BY NextUIInv
<1> QED
  BY InitUIInv, <1>1, PTL DEF Spec

(* Every variable keeps its type: the VerifyElseCrash conditions of         *)
(* ReleaseHandlerRef and TryTakeTask hold, for any number of handlers.      *)
THEOREM UITypeCorrect == Spec => []TypeOK
<1>1. UIInv => TypeOK
  BY DEF UIInv, ServiceInv, UITypeOK, TypeOK
<1> QED
  BY <1>1, UIInvariant, PTL

(* The termination event is set only when no thread and no dispatcher has a *)
(* handler of the scheduler, and none is ever made again.                   *)
THEOREM TerminatedWithoutHandlers == Spec => []TerminatedHasNoHandlers
<1>1. ASSUME UIInv PROVE TerminatedHasNoHandlers
  <2> SUFFICES ASSUME m_terminationEvent PROVE TerminatedHasNoHandlers
    BY DEF TerminatedHasNoHandlers
  <2>1. /\ m_isShutdown /\ m_handlerRefCount = 0 /\ enqueued \in Nat /\ UIHandler \in {0, 1}
        /\ 0 = enqueued + UIHandler + Cardinality(Posting)
    BY <1>1 DEF UIInv, TerminatedShape, UITypeOK, RefCountExact, UIHandler
  <2>2. enqueued = 0 /\ UIHandler = 0 /\ Cardinality(Posting) = 0
    BY <2>1, FiniteCounts
  <2>3. Posting = {}
    BY <2>2, FiniteCounts, FS_EmptySet
  <2>4. pc \notin {"take", "strong", "deque", "run", "drop", "release"}
    BY <2>2 DEF UIHandler
  <2> QED
    BY <2>1, <2>2, <2>3, <2>4 DEF TerminatedHasNoHandlers, Posting
<1> QED
  BY <1>1, UIInvariant, PTL

-----------------------------------------------------------------------------
(* The queue implements DispatchQueue *)

(* Steps that neither move a task nor change what the users see.            *)
LEMMA ContractUnchanged ==
  ASSUME UNCHANGED <<tqVars, m_shutdownAction, m_suspendCounter, outcome>>
  PROVE  UNCHANGED Contract!vars
BY SameContents DEF Contract!vars

(* The methods of the queue's users.                                        *)
LEMMA UserMethodContract ==
  ASSUME UIInv, NEW a \in Thread, UserMethod(a)
  PROVE  Contract!Next
<1> USE DEF UIInv, ServiceInv
<1>1. ASSUME NEW t \in Task, Post(a, t) PROVE Contract!Next
  <2>1. Contract!Post(t)
    BY <1>1, PostEffect DEF Contract!Post
  <2> QED
    BY <2>1 DEF Contract!Next
<1>2. ASSUME Suspend(a) PROVE Contract!Suspend
  BY <1>2, SameContents DEF Suspend, Contract!Suspend
<1>3. ASSUME a \in Client, Resume(a) PROVE Contract!Resume
  BY <1>3, ResumeEffect DEF Contract!Resume
<1>4. ASSUME a \in Worker, NEW t \in Task, InvokeInPlace(a, t) \/ Defer(a, t) PROVE Contract!Next
  <2>1. running[a] # NoTask
    BY <1>4, ThreadAssumption DEF InvokeInPlace, Defer, CanCall, ServiceTypeOK
  <2>2. Contract!InTask(t)
    BY <1>4, <2>1, InTaskEffect DEF Contract!InTask, Contract!Started
  <2> QED
    BY <2>2 DEF Contract!Next
<1>5. ASSUME Shutdown(a) \/ AwaitTermination(a) PROVE Contract!Shutdown
  <2>1. PICK action \in {"complete", "cancel"}, next \in {"shutdown", "terminate"} :
          BeginShutdown(a, action, next)
    BY <1>5 DEF Shutdown, AwaitTermination
  <2> QED
    BY <2>1, BeginShutdownEffect DEF Contract!Shutdown
<1> QED
  BY <1>1, <1>2, <1>3, <1>4, <1>5 DEF UserMethod, Contract!Next

(* The destructor's Shutdown finds nothing to complete.                     *)
LEMMA DestroyContract ==
  ASSUME UNCHANGED <<tqVars, m_suspendCounter, outcome>>,
         m_shutdownAction' \in {m_shutdownAction, "complete"}
  PROVE  [Contract!Next]_Contract!vars
<1>1. CASE m_shutdownAction' = m_shutdownAction
  BY <1>1, ContractUnchanged
<1>2. CASE m_shutdownAction' = "complete"
  <2>1. Contract!Shutdown
    BY <1>2, SameContents DEF Contract!Shutdown
  <2> QED
    BY <2>1 DEF Contract!Next
<1> QED
  BY <1>1, <1>2

(* The UI thread starts a task only when it runs none.                         *)
LEMMA DequeContract ==
  ASSUME UIInv, NEW t \in Task, TryDequeTask(UI, t), pc = "deque"
  PROVE  Contract!Next
<1> DEFINE R == {w \in Worker : running[w] # NoTask}
           S == {u \in Task : outcome[u] = "started"}
<1> USE DEF UIInv
<1>1. UI \in Worker /\ running[UI] = NoTask /\ R = {}
  BY UIThread, UIAssumption DEF UIShape
<1>2. Contents # <<>> /\ t = Head(Contents) /\ Contents' = Tail(Contents) /\ outcome[t] = "queued"
  BY <1>1, TryDequeTaskPlaces DEF ServiceInv
<1>3. Cardinality(S) \in Nat /\ Cardinality(S) <= Cardinality(R)
  BY StartedTasksRun DEF ServiceInv
<1>4. Cardinality(S) < 1
  BY <1>1, <1>3, FS_EmptySet
<1>5. Contract!Cardinality(S) = Cardinality(S)
  BY Zenon DEF Contract!Cardinality, Cardinality
<1>6. Contract!Start
  BY <1>2, <1>4, <1>5 DEF Contract!Start, Contract!Started, TryDequeTask
<1> QED
  BY <1>6 DEF Contract!Next

(* The end of a task is Finish.                                             *)
LEMMA InvokeContract ==
  ASSUME UIInv, InvokeTaskStep(UI)
  PROVE  Contract!Next
<1>1. /\ Contents' = Contents /\ UNCHANGED <<m_shutdownAction, m_suspendCounter>>
      /\ running[UI] \in Task /\ outcome[running[UI]] = "started"
      /\ \/ outcome' = [outcome EXCEPT ![running[UI]] = "invoked"]
         \/ \E d \in Task : /\ outcome[d] = "deferred"
                            /\ outcome' = [outcome EXCEPT ![running[UI]] = "invoked",
                                                          ![d] = "started"]
  BY InvokeTaskStepPlaces, UIThread DEF InvokeTaskStep, UIInv, ServiceInv
<1>2. Contract!Finish(running[UI])
  BY <1>1 DEF Contract!Finish
<1> QED
  BY <1>1, <1>2 DEF Contract!Next

(* CancelTask is Cancel.                                                    *)
LEMMA CancelContract ==
  ASSUME UIInv, NEW a \in Thread, CancelTask(a)
  PROVE  Contract!Next
<1>1. PICK t \in Task : outcome[t] = "taken" /\ outcome' = [outcome EXCEPT ![t] = "canceled"]
  BY CancelTaskEffect DEF UIInv, ServiceInv
<1>2. Contract!Cancel(t)
  BY <1>1, CancelTaskEffect DEF Contract!Cancel, UIInv, ServiceInv
<1> QED
  BY <1>2 DEF Contract!Next

(* ~CleanupContext takes all that is queued, as Shutdown(Cancel) does.      *)
LEMMA CancelPendingContract ==
  ASSUME UIInv, NEW a \in Thread, CancelPending(a)
  PROVE  Contract!Next
<1>1. Contents' = <<>>
  BY DequeueAllEmpties DEF CancelPending, UIInv, ServiceInv, ServiceTypeOK
<1>2. Contract!Shutdown
  BY <1>1 DEF CancelPending, Contract!Shutdown
<1> QED
  BY <1>2 DEF Contract!Next

(* Every step of the queue is a step of the contract or leaves it alone.    *)
LEMMA NextContract ==
  ASSUME UIInv, [Next]_vars
  PROVE  [Contract!Next]_Contract!vars
<1>1. ASSUME NEW c \in Client, ClientCall(c) PROVE Contract!Next
  <2>1. c \in Thread /\ UserMethod(c)
    BY <1>1 DEF ClientCall, UserMethod, Thread
  <2> QED
    BY <2>1, UserMethodContract
<1>2. ASSUME TaskCall PROVE Contract!Next
  <2>1. UserMethod(UI)
    BY <1>2, UIThread DEF TaskCall, UserMethod
  <2> QED
    BY <2>1, UIThread, UserMethodContract
<1>3. ASSUME NEW c \in Client, ReleaseHandle(c) PROVE [Contract!Next]_Contract!vars
  BY <1>3, DestroyContract DEF ReleaseHandle, Destroy
<1>4. ASSUME NEW c \in Client, WaitReturns(c) PROVE UNCHANGED Contract!vars
  BY <1>4, ContractUnchanged DEF WaitReturns
<1>5. ASSUME NextHandler \/ CloseDispatcher \/ TryTakeTask \/ GetStrongPtr \/ UIRelease
      PROVE  UNCHANGED Contract!vars
  BY <1>5, ContractUnchanged
     DEF NextHandler, CloseDispatcher, TryTakeTask, GetStrongPtr, UIRelease, serviceVars
<1>6. ASSUME UIDeque PROVE [Contract!Next]_Contract!vars
  <2>1. CASE HasTasks
    BY <1>6, <2>1, DequeContract DEF UIDeque, Goto
  <2>2. CASE ~HasTasks
    BY <1>6, <2>2, ContractUnchanged DEF UIDeque, serviceVars
  <2> QED
    BY <2>1, <2>2
<1>7. ASSUME UIInvoke PROVE Contract!Next
  BY <1>7, InvokeContract DEF UIInvoke
<1>8. ASSUME DropQueue PROVE [Contract!Next]_Contract!vars
  BY <1>8, DestroyContract DEF DropQueue, Destroy
<1>9. ASSUME UICleanup PROVE [Contract!Next]_Contract!vars
  <2>1. CASE lifetime = "alive"
    BY <1>9, <2>1, UIThread, CancelPendingContract DEF UICleanup
  <2>2. CASE lifetime # "alive"
    BY <1>9, <2>2, ContractUnchanged DEF UICleanup, serviceVars
  <2> QED
    BY <2>1, <2>2
<1>10. ASSUME NEW a \in Thread, Continue(a) PROVE [Contract!Next]_Contract!vars
  <2>1. ASSUME CancelTask(a) PROVE Contract!Next
    BY <2>1, CancelContract
  <2>2. ASSUME SchedulerPost(a) \/ TryEnqueue(a) \/ PosterRelease(a) \/ SchedulerShutdown(a)
        PROVE  UNCHANGED Contract!vars
    BY <2>2, ContractUnchanged
       DEF SchedulerPost, TryEnqueue, PosterRelease, SchedulerShutdown, serviceVars
  <2>3. ASSUME PosterCleanup(a) PROVE Contract!Next
    BY <2>3, CancelPendingContract DEF PosterCleanup
  <2> QED
    BY <1>10, <2>1, <2>2, <2>3 DEF Continue
<1>11. ASSUME UNCHANGED vars PROVE UNCHANGED Contract!vars
  BY <1>11, ContractUnchanged DEF vars, serviceVars
<1> QED
  BY <1>1, <1>2, <1>3, <1>4, <1>5, <1>6, <1>7, <1>8, <1>9, <1>10, <1>11 DEF Next, UIStep

(* The UI thread's queue is a serial DispatchQueue for any number of        *)
(* clients and tasks, although handlers are thrown away behind its back.    *)
THEOREM UIImplementsContract == Spec => ImplementsContract
<1>1. Init => Contract!Init
  <2> HAVE Init
  <2>1. Contents = <<>>
    BY EmptyContents, InitTypeOwner DEF Init, ServiceInit, TQInit, IsEmpty, ReadBufferIsEmpty
  <2> QED
    BY <2>1 DEF Init, ServiceInit, Contract!Init
<1>2. UIInv /\ [Next]_vars => [Contract!Next]_Contract!vars
  BY NextContract
<1> QED
  BY <1>1, <1>2, UIInvariant, PTL DEF Spec, ImplementsContract, Contract!Spec

=============================================================================
