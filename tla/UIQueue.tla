------------------------------- MODULE UIQueue -------------------------------
(***************************************************************************)
(* A dispatch queue driven by UISchedulerWinRT                              *)
(* (Mso/src/dispatchQueue/uiScheduler_winrt.cpp): every task of the queue   *)
(* is announced by a handler given to the DispatcherQueue of the UI thread. *)
(* The handlers are one object whose reference count is m_handlerRefCount;  *)
(* a count that reaches zero while m_taskCount is not zero tells that the   *)
(* dispatcher has thrown handlers away, and the tasks are canceled.         *)
(*                                                                          *)
(* The DispatcherQueue is external: TryEnqueue adds a reference and the     *)
(* handler, or fails once the dispatcher is closed; the UI thread invokes   *)
(* and releases the handlers one by one, and a closed dispatcher releases   *)
(* what it still has.  GetOrCreateUIThreadQueue and its registry of queues  *)
(* are left out.                                                            *)
(***************************************************************************)
EXTENDS QueueService

CONSTANTS UI,           \* the dispatcher's thread
          MaxHandlers   \* bound on both counts when a client calls Suspend

ASSUME UIAssumption == Worker = {UI} /\ MaxHandlers \in Nat

VARIABLES
  m_handlerRefCount,
  m_taskCount,
  m_isShutdown,
  m_terminationEvent,
  isOpen,      \* the dispatcher takes handlers and invokes them
  enqueued,    \* the handlers in the dispatcher
  post,        \* where each thread is in scheduler->Post()
  pc,          \* where the UI thread is in its handler
  lifetime,    \* of the QueueService
  refused      \* scheduler->Post() was called after scheduler->Shutdown()

countVars == <<m_handlerRefCount, m_taskCount, m_isShutdown, m_terminationEvent>>
uiVars == <<countVars, isOpen, enqueued, post, pc, lifetime, refused>>
vars == <<tqVars, serviceVars, uiVars>>

(* enqueue: at TryEnqueue.  release: at the destructor of handler.          *)
(* cleanup: at the end of that Release, with a queue to shut down.          *)
PostPlace == {"out", "enqueue", "release", "cleanup"}

(* take: at TryTakeTask.  strong: at GetStrongPtr.  deque: at TryDequeTask. *)
(* run: in InvokeTask.  drop: at the end of Invoke.  release: at the        *)
(* dispatcher's Release.  cleanup: at its end, with a queue to shut down.   *)
(* cancel: in that Shutdown.  last: at the end of ~CleanupContext.          *)
Place == {"idle", "take", "strong", "deque", "run", "drop", "release", "cleanup",
          "cancel", "last"}
HoldsQueue == pc \in {"deque", "run", "drop", "cancel", "last"}

Init ==
  /\ ServiceInit
  /\ m_handlerRefCount = 0 /\ m_taskCount = 0
  /\ m_isShutdown = FALSE /\ m_terminationEvent = FALSE
  /\ isOpen = TRUE /\ enqueued = 0
  /\ post = [a \in Thread |-> "out"]
  /\ pc = "idle"
  /\ lifetime = "alive"
  /\ refused = FALSE

-----------------------------------------------------------------------------
(* Mutant: the event does not wait for the handlers.                        *)
CheckTerminationEarly(refs) == m_terminationEvent' = (m_terminationEvent \/ m_isShutdown')

(* CleanupContext::CheckTermination and the Set() of ~CleanupContext.       *)
CheckTermination(refs) ==
  m_terminationEvent' = (m_terminationEvent \/ (m_isShutdown' /\ refs = 0))

(* Mutant: CheckShutdown does not look at m_taskCount.                      *)
HandlersDroppedNever == FALSE

(* CleanupContext::CheckShutdown for the Release of the last handler: some  *)
(* of them were not invoked.                                                *)
HandlersDropped == m_handlerRefCount = 1 /\ m_taskCount # 0

(* ReleaseHandlerRef under m_mutex.                                         *)
ReleaseHandlerRef ==
  /\ m_handlerRefCount' = m_handlerRefCount - 1
  /\ m_taskCount' = IF HandlersDropped THEN 0 ELSE m_taskCount
  /\ m_isShutdown' = (m_isShutdown \/ HandlersDropped)
  /\ IF m_handlerRefCount = 1
     THEN CheckTermination(0)
     ELSE UNCHANGED m_terminationEvent

(* UISchedulerWinRT::Shutdown.                                              *)
SchedulerIsShutdown ==
  /\ m_isShutdown' = TRUE
  /\ CheckTermination(m_handlerRefCount)
  /\ UNCHANGED <<m_handlerRefCount, m_taskCount>>

(* Mutant: the tasks are canceled, and the queue stays open.                *)
CancelPendingStaysOpen(a) ==
  /\ DequeueAll(Contents)
  /\ toCancel' = [toCancel EXCEPT ![a] = Contents]
  /\ outcome' = [t \in Task |-> IF outcome[t] = "queued" THEN "taken" ELSE outcome[t]]
  /\ call' = [call EXCEPT ![a] = "shutdown"]
  /\ UNCHANGED <<m_shutdownAction, m_suspendCounter, handles, guards, toSchedule, running,
                 deferred>>

(* queue->Shutdown(PendingTaskAction::Cancel) of ~CleanupContext, under the *)
(* lock of the queue.                                                       *)
CancelPending(a) ==
  /\ m_shutdownAction' = "cancel"
  /\ DequeueAll(Contents)
  /\ toCancel' = [toCancel EXCEPT ![a] = Contents]
  /\ outcome' = [t \in Task |-> IF outcome[t] = "queued" THEN "taken" ELSE outcome[t]]
  /\ call' = [call EXCEPT ![a] = "shutdown"]
  /\ UNCHANGED <<m_suspendCounter, handles, guards, toSchedule, running, deferred>>

-----------------------------------------------------------------------------
(* Calls of the queue's users.  Every Resume announces the tasks again, so  *)
(* without MaxHandlers a slow UI thread would let the counts grow forever.  *)
ClientCall(c) ==
  /\ \/ \E t \in Task : Post(c, t)
     \/ Suspend(c) /\ m_handlerRefCount <= MaxHandlers /\ m_taskCount <= MaxHandlers
     \/ Resume(c)
     \/ Shutdown(c)
     \/ AwaitTermination(c)
  /\ UNCHANGED uiVars

TaskCall ==
  /\ pc = "run"
  /\ \/ \E t \in Task : Post(UI, t) \/ InvokeInPlace(UI, t) \/ Defer(UI, t)
     \/ Shutdown(UI)
     \/ AwaitTermination(UI)
  /\ UNCHANGED uiVars

(* ~QueueService: Shutdown, then UISchedulerWinRT::AwaitTermination, which  *)
(* waits except in the UI thread.                                           *)
Destroy(waits) ==
  /\ m_shutdownAction' = "complete"
  /\ SchedulerIsShutdown
  /\ lifetime' = IF waits THEN "destroying" ELSE "freed"

ReleaseHandle(c) ==
  /\ c \in handles \ guards /\ call[c] = "none"
  /\ handles' = handles \ {c}
  /\ IF handles = {c} /\ ~m_strongOwnerPtr /\ ~HoldsQueue
     THEN Destroy(TRUE) /\ call' = [call EXCEPT ![c] = "wait"]
     ELSE UNCHANGED <<m_shutdownAction, countVars, lifetime, call>>
  /\ UNCHANGED <<tqVars, m_suspendCounter, guards, toSchedule, toCancel, running, deferred,
                 outcome, isOpen, enqueued, post, pc, refused>>

-----------------------------------------------------------------------------
(* UISchedulerWinRT::Post, in the thread that calls it *)

(* The locked section, with MakeDispatcherQueueHandler.                     *)
SchedulerPost(a) ==
  /\ call[a] = "schedule"
  /\ IF m_isShutdown
     THEN SchedulerPostDone(a) /\ refused' = TRUE
          /\ UNCHANGED <<m_taskCount, m_handlerRefCount, post>>
     ELSE /\ m_taskCount' = m_taskCount + 1
          /\ m_handlerRefCount' = m_handlerRefCount + 1
          /\ call' = [call EXCEPT ![a] = "submit"]
          /\ post' = [post EXCEPT ![a] = "enqueue"]
          /\ UNCHANGED <<toSchedule, refused>>
  /\ UNCHANGED <<tqVars, m_shutdownAction, m_suspendCounter, handles, guards, toCancel, running,
                 deferred, outcome, m_isShutdown, m_terminationEvent, isOpen, enqueued, pc,
                 lifetime>>

TryEnqueue(a) ==
  /\ post[a] = "enqueue"
  /\ post' = [post EXCEPT ![a] = "release"]
  /\ IF isOpen
     THEN enqueued' = enqueued + 1 /\ m_handlerRefCount' = m_handlerRefCount + 1
     ELSE UNCHANGED <<enqueued, m_handlerRefCount>>
  /\ UNCHANGED <<tqVars, serviceVars, m_taskCount, m_isShutdown, m_terminationEvent, isOpen, pc,
                 lifetime, refused>>

(* Mutant: only the UI thread looks whether its Release was the last.       *)
PosterReleaseQuiet(a) ==
  /\ post[a] = "release"
  /\ m_handlerRefCount' = m_handlerRefCount - 1
  /\ post' = [post EXCEPT ![a] = "out"] /\ SchedulerPostDone(a)
  /\ UNCHANGED <<tqVars, m_shutdownAction, m_suspendCounter, handles, guards, toCancel, running,
                 deferred, outcome, m_taskCount, m_isShutdown, m_terminationEvent, isOpen,
                 enqueued, pc, lifetime, refused>>

(* The handler variable is destroyed; scheduler->Post() returns, unless the *)
(* cleanup is this thread's.                                                *)
PosterRelease(a) ==
  /\ post[a] = "release"
  /\ ReleaseHandlerRef
  /\ IF HandlersDropped
     THEN post' = [post EXCEPT ![a] = "cleanup"] /\ UNCHANGED <<call, toSchedule>>
     ELSE post' = [post EXCEPT ![a] = "out"] /\ SchedulerPostDone(a)
  /\ UNCHANGED <<tqVars, m_shutdownAction, m_suspendCounter, handles, guards, toCancel, running,
                 deferred, outcome, isOpen, enqueued, pc, lifetime, refused>>

(* The poster has a reference to the queue, so GetStrongPtr succeeds.       *)
PosterCleanup(a) ==
  /\ post[a] = "cleanup" /\ call[a] = "submit"
  /\ CancelPending(a)
  /\ UNCHANGED uiVars

(* The end of QueueService::Shutdown, and the Shutdown of AwaitTermination, *)
(* which then waits except in the UI thread.  A Shutdown within Post goes   *)
(* back to it, and one of ~CleanupContext to its end.                       *)
SchedulerShutdown(a) ==
  /\ call[a] \in {"shutdown", "terminate"} /\ toCancel[a] = <<>>
  /\ SchedulerIsShutdown
  /\ IF post[a] = "cleanup"
     THEN SchedulerPostDone(a)
     ELSE /\ call' = [call EXCEPT ![a] = IF @ = "terminate" /\ a # UI THEN "wait" ELSE "none"]
          /\ UNCHANGED toSchedule
  /\ post' = [post EXCEPT ![a] = "out"]
  /\ pc' = IF a = UI /\ pc = "cancel" THEN "last" ELSE pc
  /\ UNCHANGED <<tqVars, m_shutdownAction, m_suspendCounter, handles, guards, toCancel, running,
                 deferred, outcome, isOpen, enqueued, lifetime, refused>>

(* m_terminationEvent.Wait() returns.                                       *)
WaitReturns(c) ==
  /\ call[c] = "wait" /\ m_terminationEvent
  /\ call' = [call EXCEPT ![c] = "none"]
  /\ lifetime' = IF c \notin handles THEN "freed" ELSE lifetime
  /\ UNCHANGED <<tqVars, m_shutdownAction, m_suspendCounter, handles, guards, toSchedule,
                 toCancel, running, deferred, outcome, countVars, isOpen, enqueued, post, pc,
                 refused>>

-----------------------------------------------------------------------------
(* The UI thread *)

Goto(from, to) == pc = from /\ pc' = to

(* DispatcherQueue: the next handler is invoked, or released if the         *)
(* dispatcher is closed.                                                    *)
NextHandler ==
  /\ enqueued > 0 /\ enqueued' = enqueued - 1
  /\ Goto("idle", IF isOpen THEN "take" ELSE "release")
  /\ UNCHANGED <<tqVars, serviceVars, countVars, isOpen, post, lifetime, refused>>

CloseDispatcher ==
  /\ pc = "idle" /\ isOpen
  /\ isOpen' = FALSE
  /\ UNCHANGED <<tqVars, serviceVars, countVars, enqueued, post, pc, lifetime, refused>>

TryTakeTask ==
  /\ Goto("take", "strong")
  /\ m_taskCount' = m_taskCount - 1
  /\ UNCHANGED <<tqVars, serviceVars, m_handlerRefCount, m_isShutdown, m_terminationEvent,
                 isOpen, enqueued, post, lifetime, refused>>

GetStrongPtr ==
  /\ Goto("strong", IF lifetime = "alive" THEN "deque" ELSE "release")
  /\ UNCHANGED <<tqVars, serviceVars, countVars, isOpen, enqueued, post, lifetime, refused>>

UIDeque ==
  /\ IF HasTasks
     THEN Goto("deque", "run") /\ \E t \in Task : TryDequeTask(UI, t)
     ELSE Goto("deque", "drop") /\ UNCHANGED <<tqVars, serviceVars>>
  /\ UNCHANGED <<countVars, isOpen, enqueued, post, lifetime, refused>>

UIInvoke ==
  /\ InvokeTaskStep(UI)
  /\ Goto("run", IF running'[UI] # NoTask THEN "run" ELSE "drop")
  /\ UNCHANGED <<countVars, isOpen, enqueued, post, lifetime, refused>>

(* The UI thread drops its reference and destroys the queue if it was the   *)
(* last.                                                                    *)
DropQueue ==
  /\ Goto("drop", "release") \/ Goto("last", "idle")
  /\ IF handles = {} /\ ~m_strongOwnerPtr
     THEN Destroy(FALSE)
     ELSE UNCHANGED <<m_shutdownAction, countVars, lifetime>>
  /\ UNCHANGED <<tqVars, m_suspendCounter, handles, guards, call, toSchedule, toCancel,
                 running, deferred, outcome, isOpen, enqueued, post, refused>>

(* The dispatcher releases a handler it has invoked or thrown away.         *)
UIRelease ==
  /\ Goto("release", IF HandlersDropped THEN "cleanup" ELSE "idle")
  /\ ReleaseHandlerRef
  /\ UNCHANGED <<tqVars, serviceVars, isOpen, enqueued, post, lifetime, refused>>

UICleanup ==
  /\ IF lifetime = "alive"
     THEN Goto("cleanup", "cancel") /\ CancelPending(UI)
     ELSE Goto("cleanup", "idle") /\ UNCHANGED <<tqVars, serviceVars>>
  /\ UNCHANGED <<countVars, isOpen, enqueued, post, lifetime, refused>>

-----------------------------------------------------------------------------
Continue(a) ==
  \/ CancelTask(a) /\ UNCHANGED uiVars
  \/ SchedulerPost(a) \/ TryEnqueue(a) \/ PosterRelease(a) \/ PosterCleanup(a)
  \/ SchedulerShutdown(a)

UIStep ==
  \/ NextHandler \/ TryTakeTask \/ GetStrongPtr \/ UIDeque \/ UIInvoke
  \/ DropQueue \/ UIRelease \/ UICleanup

Next ==
  \/ \E c \in Client : ClientCall(c) \/ ReleaseHandle(c) \/ WaitReturns(c)
  \/ TaskCall \/ UIStep \/ CloseDispatcher
  \/ \E a \in Thread : Continue(a)

Spec == Init /\ [][Next]_vars

(* Begun methods go on, the UI thread pumps its dispatcher, tasks return,   *)
(* and a wait that can return does.  Nobody has to close the dispatcher.    *)
Fairness ==
  /\ \A a \in Thread : WF_vars(Continue(a))
  /\ WF_vars(UIStep) /\ SF_vars(UIInvoke)
  /\ \A c \in Client : WF_vars(WaitReturns(c))

FairSpec == Spec /\ Fairness

-----------------------------------------------------------------------------
(* Properties *)

(* The types, and the VerifyElseCrash conditions of ReleaseHandlerRef and   *)
(* TryTakeTask: neither count goes below zero, however invocations, thrown  *)
(* away handlers and failed TryEnqueue calls meet.                          *)
TypeOK ==
  /\ ServiceTypeOK
  /\ {m_handlerRefCount, m_taskCount, enqueued} \subseteq Nat
  /\ {m_isShutdown, m_terminationEvent, isOpen, refused} \subseteq BOOLEAN
  /\ post \in [Thread -> PostPlace]
  /\ pc \in Place
  /\ lifetime \in {"alive", "destroying", "freed"}

(* The termination event is set only when no thread and no dispatcher has a *)
(* handler of the scheduler any more, and stays true of it: the scheduler   *)
(* may be freed after AwaitTermination.                                     *)
TerminatedHasNoHandlers ==
  m_terminationEvent =>
    /\ m_isShutdown /\ m_handlerRefCount = 0 /\ enqueued = 0
    /\ pc \notin {"take", "strong", "deque", "run", "drop", "release"}
    /\ \A a \in Thread : post[a] \notin {"enqueue", "release"}

(* The queue seen by its users is the serial one of module DispatchQueue.   *)
Contract == INSTANCE DispatchQueue WITH
              MaxConcurrent <- 1,
              pending <- Contents,
              status <- outcome,
              isShutdown <- (m_shutdownAction # "none"),
              suspendCount <- m_suspendCounter
ImplementsContract == Contract!Spec

(* A task the queue has accepted is invoked or canceled, although the       *)
(* dispatcher may be closed at any time, unless the queue is suspended or   *)
(* the scheduler had already been told to shut down when the task was       *)
(* announced.                                                               *)
AcceptedTaskEnds ==
  \A t \in Task :
    outcome[t] \in {"queued", "deferred", "started", "taken"} ~>
      (outcome[t] \in {"invoked", "canceled"} \/ m_suspendCounter > 0 \/ refused)

(* A wait for the termination event, in AwaitTermination or the destructor  *)
(* of the queue, returns whether or not the dispatcher is closed meanwhile: *)
(* whichever Release is the last, in the UI thread or a poster, sets it.    *)
AwaitTerminationReturns ==
  \A c \in Client : call[c] = "wait" ~> call[c] = "none"

=============================================================================
