----------------------------- MODULE LooperQueue -----------------------------
(***************************************************************************)
(* A dispatch queue driven by LooperScheduler                               *)
(* (Mso/src/dispatchQueue/looperScheduler.cpp): one dedicated thread drains *)
(* the queue, tests m_isShutdown, and waits on a manual-reset event that    *)
(* Post and Shutdown set.  The thread is started by the constructor, before *)
(* InitializeScheduler gives the scheduler its weak reference to the queue. *)
(*                                                                          *)
(* std::thread and ManualResetEvent are external: Wait returns while the    *)
(* event is set, join returns once RunLoop has returned.  The optional      *)
(* callbacks of DispatchQueueSettings are left out.                         *)
(***************************************************************************)
EXTENDS QueueService

CONSTANT Looper   \* the scheduler's thread

ASSUME LooperAssumption == Worker = {Looper}

VARIABLES
  m_queueIsSet,    \* InitializeScheduler has run
  m_wakeUpEvent,
  m_isShutdown,
  joinable,        \* m_looperThread.joinable()
  pc,              \* where the looper is in RunLoop
  lifetime         \* of the QueueService

looperVars == <<m_queueIsSet, m_wakeUpEvent, m_isShutdown, joinable, pc, lifetime>>
vars == <<tqVars, serviceVars, looperVars>>

(* start: at the top of the loop.  deque: at TryDequeTask, holding a        *)
(* reference to the queue.  run: in InvokeTask.  drop: at the end of that   *)
(* reference's scope.  test: at the test of m_isShutdown.  wait, reset: on  *)
(* the event.  done: RunLoop has returned.                                  *)
Place == {"start", "deque", "run", "drop", "test", "wait", "reset", "done"}
HoldsQueue == pc \in {"deque", "run", "drop"}

Init ==
  /\ ServiceInit
  /\ m_queueIsSet = FALSE
  /\ m_wakeUpEvent = FALSE
  /\ m_isShutdown = FALSE
  /\ joinable = TRUE
  /\ pc = "start"
  /\ lifetime = "alive"

(* The end of the QueueService constructor; nobody has a handle before.     *)
InitializeScheduler ==
  /\ ~m_queueIsSet
  /\ m_queueIsSet' = TRUE
  /\ UNCHANGED <<tqVars, serviceVars, m_wakeUpEvent, m_isShutdown, joinable, pc, lifetime>>

-----------------------------------------------------------------------------
(* Calls of the queue's users.  Joining one std::thread from two threads is *)
(* undefined, so clients are assumed not to call AwaitTermination at the    *)
(* same time.                                                               *)
ClientCall(c) ==
  /\ m_queueIsSet
  /\ \/ \E t \in Task : Post(c, t)
     \/ Suspend(c)
     \/ Resume(c)
     \/ Shutdown(c)
     \/ AwaitTermination(c) /\ \A d \in Client : call[d] \notin {"terminate", "wait"}
  /\ UNCHANGED looperVars

TaskCall ==
  /\ pc = "run"
  /\ \/ \E t \in Task : Post(Looper, t) \/ InvokeInPlace(Looper, t) \/ Defer(Looper, t)
     \/ Shutdown(Looper)
     \/ AwaitTermination(Looper) /\ \A d \in Client : call[d] \notin {"terminate", "wait"}
  /\ UNCHANGED looperVars

(* ~QueueService in the thread of the last reference: Shutdown, then        *)
(* LooperScheduler::AwaitTermination, which joins in a client and detaches  *)
(* in the looper.                                                           *)
Destroy(waits) ==
  /\ m_shutdownAction' = "complete"
  /\ m_isShutdown' = TRUE
  /\ m_wakeUpEvent' = TRUE
  /\ lifetime' = IF waits THEN "destroying" ELSE "freed"

ReleaseHandle(c) ==
  /\ m_queueIsSet
  /\ c \in handles \ guards /\ call[c] = "none"
  /\ handles' = handles \ {c}
  /\ IF handles = {c} /\ ~m_strongOwnerPtr /\ ~HoldsQueue
     THEN Destroy(joinable) /\ call' = [call EXCEPT ![c] = IF joinable THEN "wait" ELSE "none"]
     ELSE UNCHANGED <<m_shutdownAction, m_isShutdown, m_wakeUpEvent, lifetime, call>>
  /\ UNCHANGED <<tqVars, m_suspendCounter, guards, toSchedule, toCancel, running, deferred,
                 outcome, m_queueIsSet, joinable, pc>>

-----------------------------------------------------------------------------
(* LooperScheduler, in the thread that calls it *)

(* Mutant: Post does not set the event.                                     *)
SchedulerPostSilent(a) ==
  /\ call[a] = "schedule"
  /\ SchedulerPostDone(a)
  /\ UNCHANGED <<tqVars, m_shutdownAction, m_suspendCounter, handles, guards, toCancel,
                 running, deferred, outcome, looperVars>>

SchedulerPost(a) ==
  /\ call[a] = "schedule"
  /\ m_wakeUpEvent' = TRUE
  /\ SchedulerPostDone(a)
  /\ UNCHANGED <<tqVars, m_shutdownAction, m_suspendCounter, handles, guards, toCancel,
                 running, deferred, outcome, m_queueIsSet, m_isShutdown, joinable, pc, lifetime>>

(* Mutant: Shutdown does not set the event.                                 *)
SchedulerShutdownSilent(a) ==
  /\ call[a] \in {"shutdown", "terminate"} /\ toCancel[a] = <<>>
  /\ m_isShutdown' = TRUE
  /\ LET terminates == call[a] = "terminate" /\ joinable
     IN /\ call' = [call EXCEPT ![a] = IF terminates /\ a # Looper THEN "wait" ELSE "none"]
        /\ joinable' = (joinable /\ ~(terminates /\ a = Looper))
  /\ UNCHANGED <<tqVars, m_shutdownAction, m_suspendCounter, handles, guards, toSchedule,
                 toCancel, running, deferred, outcome, m_queueIsSet, m_wakeUpEvent, pc, lifetime>>

(* Shutdown, and the part of AwaitTermination that does not block: it joins *)
(* in a client, detaches in the looper, and does neither a second time.     *)
SchedulerShutdown(a) ==
  /\ call[a] \in {"shutdown", "terminate"} /\ toCancel[a] = <<>>
  /\ m_isShutdown' = TRUE
  /\ m_wakeUpEvent' = TRUE
  /\ LET terminates == call[a] = "terminate" /\ joinable
     IN /\ call' = [call EXCEPT ![a] = IF terminates /\ a # Looper THEN "wait" ELSE "none"]
        /\ joinable' = (joinable /\ ~(terminates /\ a = Looper))
  /\ UNCHANGED <<tqVars, m_shutdownAction, m_suspendCounter, handles, guards, toSchedule,
                 toCancel, running, deferred, outcome, m_queueIsSet, pc, lifetime>>

(* m_looperThread.join() returns.                                           *)
WaitReturns(c) ==
  /\ call[c] = "wait" /\ pc = "done"
  /\ call' = [call EXCEPT ![c] = "none"]
  /\ joinable' = FALSE
  /\ lifetime' = IF lifetime = "destroying" THEN "freed" ELSE lifetime
  /\ UNCHANGED <<tqVars, m_shutdownAction, m_suspendCounter, handles, guards, toSchedule,
                 toCancel, running, deferred, outcome, m_queueIsSet, m_wakeUpEvent,
                 m_isShutdown, pc>>

-----------------------------------------------------------------------------
(* RunLoop *)

Goto(from, to) == pc = from /\ pc' = to

LooperStart ==
  /\ Goto("start", IF m_queueIsSet /\ lifetime = "alive" THEN "deque" ELSE "test")
  /\ UNCHANGED <<tqVars, serviceVars, m_queueIsSet, m_wakeUpEvent, m_isShutdown, joinable, lifetime>>

LooperDeque ==
  /\ IF HasTasks
     THEN Goto("deque", "run") /\ \E t \in Task : TryDequeTask(Looper, t)
     ELSE Goto("deque", "drop") /\ UNCHANGED <<tqVars, serviceVars>>
  /\ UNCHANGED <<m_queueIsSet, m_wakeUpEvent, m_isShutdown, joinable, lifetime>>

LooperInvoke ==
  /\ InvokeTaskStep(Looper)
  /\ Goto("run", IF running'[Looper] # NoTask THEN "run" ELSE "deque")
  /\ UNCHANGED <<m_queueIsSet, m_wakeUpEvent, m_isShutdown, joinable, lifetime>>

(* The looper drops its reference and destroys the queue if it was the last.*)
LooperDrop ==
  /\ Goto("drop", "test")
  /\ IF handles = {} /\ ~m_strongOwnerPtr
     THEN Destroy(FALSE) /\ joinable' = FALSE
     ELSE UNCHANGED <<m_shutdownAction, m_isShutdown, m_wakeUpEvent, lifetime, joinable>>
  /\ UNCHANGED <<tqVars, m_suspendCounter, handles, guards, call, toSchedule, toCancel,
                 running, deferred, outcome, m_queueIsSet>>

LooperTest ==
  /\ Goto("test", IF m_isShutdown THEN "done" ELSE "wait")
  /\ UNCHANGED <<tqVars, serviceVars, m_queueIsSet, m_wakeUpEvent, m_isShutdown, joinable, lifetime>>

LooperWait ==
  /\ m_wakeUpEvent
  /\ Goto("wait", "reset")
  /\ UNCHANGED <<tqVars, serviceVars, m_queueIsSet, m_wakeUpEvent, m_isShutdown, joinable, lifetime>>

LooperReset ==
  /\ Goto("reset", "start")
  /\ m_wakeUpEvent' = FALSE
  /\ UNCHANGED <<tqVars, serviceVars, m_queueIsSet, m_isShutdown, joinable, lifetime>>

-----------------------------------------------------------------------------
Continue(a) ==
  \/ CancelTask(a) /\ UNCHANGED looperVars
  \/ SchedulerPost(a)
  \/ SchedulerShutdown(a)

LooperStep ==
  \/ LooperStart \/ LooperDeque \/ LooperInvoke \/ LooperDrop
  \/ LooperTest \/ LooperWait \/ LooperReset

Next ==
  \/ InitializeScheduler
  \/ \E c \in Client : ClientCall(c) \/ ReleaseHandle(c) \/ WaitReturns(c)
  \/ TaskCall \/ LooperStep
  \/ \E a \in Thread : Continue(a)

Spec == Init /\ [][Next]_vars

(* As in ThreadPoolQueue: begun methods go on, the looper thread runs, its  *)
(* tasks return, a join that can return does.                               *)
Fairness ==
  /\ WF_vars(InitializeScheduler)
  /\ \A a \in Thread : WF_vars(Continue(a))
  /\ WF_vars(LooperStep) /\ SF_vars(LooperInvoke)
  /\ \A c \in Client : WF_vars(WaitReturns(c))

FairSpec == Spec /\ Fairness

-----------------------------------------------------------------------------
(* Properties *)

(* The types; m_suspendCounter never goes below zero.                       *)
TypeOK ==
  /\ ServiceTypeOK
  /\ {m_queueIsSet, m_wakeUpEvent, m_isShutdown, joinable} \subseteq BOOLEAN
  /\ pc \in Place
  /\ lifetime \in {"alive", "destroying", "freed"}

(* The queue seen by its users is the serial one of module DispatchQueue.   *)
Contract == INSTANCE DispatchQueue WITH
              MaxConcurrent <- 1,
              pending <- Contents,
              status <- outcome,
              isShutdown <- (m_shutdownAction # "none"),
              suspendCount <- m_suspendCounter
ImplementsContract == Contract!Spec

(* A task the queue has accepted is invoked or canceled, unless the queue   *)
(* is suspended or the scheduler is told to shut down first.                *)
AcceptedTaskEnds ==
  \A t \in Task :
    outcome[t] \in {"queued", "deferred", "started", "taken"} ~>
      (outcome[t] \in {"invoked", "canceled"} \/ m_suspendCounter > 0 \/ m_isShutdown)

(* After Shutdown the looper thread ends, so that join returns, whichever   *)
(* step of RunLoop the shutdown met: between the test and the wait it is    *)
(* the event that wakes the looper again.                                   *)
LooperEnds ==
  /\ m_isShutdown ~> pc = "done"
  /\ \A a \in Thread : call[a] \in {"terminate", "wait"} ~> call[a] = "none"

(* "Waits until all pending tasks are completed after shutdown"             *)
(* (dispatchQueue.h:195).                                                   *)
AwaitTerminationWaits ==
  [][\A c \in Client :
       call[c] = "wait" /\ call'[c] = "none" =>
         \/ IsEmpty
         \/ m_suspendCounter > 0
         \/ \E a \in Thread : call[a] = "schedule"]_vars

=============================================================================
