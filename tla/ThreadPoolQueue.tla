--------------------------- MODULE ThreadPoolQueue ---------------------------
(***************************************************************************)
(* A dispatch queue driven by ThreadPoolSchedulerWin                        *)
(* (Mso/src/dispatchQueue/threadPoolScheduler_win.cpp): the serial queue    *)
(* when MaxThreads is 1, a concurrent queue otherwise.  m_usedThreads       *)
(* counts the callbacks that are submitted or running; Post submits one     *)
(* more unless the count is at its limit, and a callback runs tasks until   *)
(* the queue is empty or 100 ms are over, takes itself out of the count and *)
(* looks at the queue once more.                                            *)
(*                                                                          *)
(* The Windows thread pool is external: SubmitThreadpoolWork makes one more *)
(* callback runnable, WaitForThreadpoolWorkCallbacks returns when none is   *)
(* submitted or running, and closing a work object lets the callbacks it    *)
(* has submitted run.                                                       *)
(***************************************************************************)
EXTENDS QueueService

CONSTANT MaxThreads   \* m_maxThreads

ASSUME MaxThreadsAssumption == MaxThreads \in Nat \ {0}

VARIABLES
  m_usedThreads,
  submitted,   \* callbacks submitted to the thread pool and not yet started
  pc,          \* where each worker is in WorkCallback
  lifetime     \* of the QueueService and of the scheduler it owns

vars == <<tqVars, serviceVars, m_usedThreads, submitted, pc, lifetime>>
schedulerVars == <<m_usedThreads, submitted, pc, lifetime>>

(* idle: not in WorkCallback.  deque: at TryDequeTask.  run: in InvokeTask. *)
(* dec: at --m_usedThreads.  check: at HasTasks.  release: at the end of    *)
(* the strong reference's scope.                                            *)
Place == {"idle", "deque", "run", "dec", "check", "release"}

(* alive; destroying: the last reference is gone and a client is in the     *)
(* destructor; freed: QueueService and scheduler are destroyed.             *)
Lifetime == {"alive", "destroying", "freed"}

Init ==
  /\ ServiceInit
  /\ m_usedThreads = 0
  /\ submitted = 0
  /\ pc = [w \in Worker |-> "idle"]
  /\ lifetime = "alive"

(* The callbacks m_usedThreads counts once they have started.               *)
Active == {w \in Worker : pc[w] \in {"deque", "run", "dec"}}
InCallback == {w \in Worker : pc[w] # "idle"}
Submitting == {a \in Thread : call[a] = "submit"}

-----------------------------------------------------------------------------
(* Calls of the queue's users *)

ClientCall(c) ==
  /\ \/ \E t \in Task : Post(c, t)
     \/ Suspend(c)
     \/ Resume(c)
     \/ Shutdown(c)
     \/ AwaitTermination(c)
  /\ UNCHANGED schedulerVars

TaskCall(w) ==
  /\ pc[w] = "run"
  /\ \/ \E t \in Task : Post(w, t) \/ InvokeInPlace(w, t) \/ Defer(w, t)
     \/ Shutdown(w)
     \/ AwaitTermination(w)
  /\ UNCHANGED schedulerVars

(* Mutant: pending tasks do not keep the queue alive.                       *)
ReleaseHandleIgnoresTasks(c) ==
  /\ c \in handles \ guards /\ call[c] = "none"
  /\ handles' = handles \ {c}
  /\ IF handles = {c} /\ InCallback = {}
     THEN /\ lifetime' = "destroying"
          /\ m_shutdownAction' = "complete"
          /\ call' = [call EXCEPT ![c] = "wait"]
     ELSE UNCHANGED <<lifetime, m_shutdownAction, call>>
  /\ UNCHANGED <<tqVars, m_suspendCounter, guards, toSchedule, toCancel, running,
                 deferred, outcome, m_usedThreads, submitted, pc>>

(* A client drops its reference.  The last one destroys the QueueService,   *)
(* whose destructor calls AwaitTermination.                                 *)
ReleaseHandle(c) ==
  /\ c \in handles \ guards /\ call[c] = "none"
  /\ handles' = handles \ {c}
  /\ IF handles = {c} /\ ~m_strongOwnerPtr /\ InCallback = {}
     THEN /\ lifetime' = "destroying"
          /\ m_shutdownAction' = "complete"
          /\ call' = [call EXCEPT ![c] = "wait"]
     ELSE UNCHANGED <<lifetime, m_shutdownAction, call>>
  /\ UNCHANGED <<tqVars, m_suspendCounter, guards, toSchedule, toCancel, running,
                 deferred, outcome, m_usedThreads, submitted, pc>>

-----------------------------------------------------------------------------
(* ThreadPoolSchedulerWin, in the thread that calls it *)

(* Mutant: the limit is off by one.                                         *)
SchedulerPostOverLimit(a) ==
  /\ call[a] = "schedule"
  /\ IF m_usedThreads > MaxThreads
     THEN SchedulerPostDone(a) /\ UNCHANGED m_usedThreads
     ELSE /\ m_usedThreads' = m_usedThreads + 1
          /\ call' = [call EXCEPT ![a] = "submit"]
          /\ UNCHANGED toSchedule
  /\ UNCHANGED <<tqVars, m_shutdownAction, m_suspendCounter, handles, guards, toCancel,
                 running, deferred, outcome, submitted, pc, lifetime>>

(* Post up to the compare-exchange that succeeds, or the early return.      *)
SchedulerPost(a) ==
  /\ call[a] = "schedule"
  /\ IF m_usedThreads = MaxThreads
     THEN SchedulerPostDone(a) /\ UNCHANGED m_usedThreads
     ELSE /\ m_usedThreads' = m_usedThreads + 1
          /\ call' = [call EXCEPT ![a] = "submit"]
          /\ UNCHANGED toSchedule
  /\ UNCHANGED <<tqVars, m_shutdownAction, m_suspendCounter, handles, guards, toCancel,
                 running, deferred, outcome, submitted, pc, lifetime>>

SubmitThreadpoolWork(a) ==
  /\ call[a] = "submit"
  /\ submitted' = submitted + 1
  /\ SchedulerPostDone(a)
  /\ UNCHANGED <<tqVars, m_shutdownAction, m_suspendCounter, handles, guards, toCancel,
                 running, deferred, outcome, m_usedThreads, pc, lifetime>>

(* Mutant: AwaitTermination waits in a callback of its own scheduler.       *)
SchedulerShutdownWaitsInTask(a) ==
  /\ call[a] \in {"shutdown", "terminate"} /\ toCancel[a] = <<>>
  /\ call' = [call EXCEPT ![a] = IF @ = "terminate" THEN "wait" ELSE "none"]
  /\ UNCHANGED <<tqVars, m_shutdownAction, m_suspendCounter, handles, guards, toSchedule,
                 toCancel, running, deferred, outcome, schedulerVars>>

(* Shutdown does nothing in this scheduler; AwaitTermination returns at     *)
(* once in a thread that is running one of its callbacks.                   *)
SchedulerShutdown(a) ==
  /\ call[a] \in {"shutdown", "terminate"} /\ toCancel[a] = <<>>
  /\ call' = [call EXCEPT ![a] = IF @ = "terminate" /\ a \in Client THEN "wait" ELSE "none"]
  /\ UNCHANGED <<tqVars, m_shutdownAction, m_suspendCounter, handles, guards, toSchedule,
                 toCancel, running, deferred, outcome, schedulerVars>>

(* Mutant: callbacks that run already are not waited for.                   *)
WaitReturnsIgnoresRunning(c) ==
  /\ call[c] = "wait" /\ submitted = 0
  /\ call' = [call EXCEPT ![c] = "none"]
  /\ lifetime' = IF lifetime = "destroying" THEN "freed" ELSE lifetime
  /\ UNCHANGED <<tqVars, m_shutdownAction, m_suspendCounter, handles, guards, toSchedule,
                 toCancel, running, deferred, outcome, m_usedThreads, submitted, pc>>

(* WaitForThreadpoolWorkCallbacks returns.                                  *)
WaitReturns(c) ==
  /\ call[c] = "wait" /\ submitted = 0 /\ InCallback = {}
  /\ call' = [call EXCEPT ![c] = "none"]
  /\ lifetime' = IF lifetime = "destroying" THEN "freed" ELSE lifetime
  /\ UNCHANGED <<tqVars, m_shutdownAction, m_suspendCounter, handles, guards, toSchedule,
                 toCancel, running, deferred, outcome, m_usedThreads, submitted, pc>>

-----------------------------------------------------------------------------
(* WorkCallback *)

(* A submitted callback starts.  It returns at once if the weak reference   *)
(* to the queue has expired; after the scheduler is freed it reads a        *)
(* dangling pointer (NoCallbackAfterFree), taken here to find it expired.   *)
StartCallback(w) ==
  /\ pc[w] = "idle" /\ submitted > 0
  /\ submitted' = submitted - 1
  /\ pc' = [pc EXCEPT ![w] = IF lifetime = "alive" THEN "deque" ELSE "idle"]
  /\ UNCHANGED <<tqVars, serviceVars, m_usedThreads, lifetime>>

WorkerDeque(w) ==
  /\ pc[w] = "deque"
  /\ IF HasTasks
     THEN (\E t \in Task : TryDequeTask(w, t)) /\ pc' = [pc EXCEPT ![w] = "run"]
     ELSE pc' = [pc EXCEPT ![w] = "dec"] /\ UNCHANGED <<tqVars, serviceVars>>
  /\ UNCHANGED <<m_usedThreads, submitted, lifetime>>

(* The running task returns.  After the last deferred one the callback goes *)
(* on to the next task, or ends because its 100 ms are over.                *)
WorkerInvoke(w) ==
  /\ pc[w] = "run"
  /\ InvokeTaskStep(w)
  /\ IF running'[w] # NoTask
     THEN UNCHANGED pc
     ELSE \E next \in {"deque", "dec"} : pc' = [pc EXCEPT ![w] = next]
  /\ UNCHANGED <<m_usedThreads, submitted, lifetime>>

WorkerDec(w) ==
  /\ pc[w] = "dec"
  /\ m_usedThreads' = m_usedThreads - 1
  /\ pc' = [pc EXCEPT ![w] = "check"]
  /\ UNCHANGED <<tqVars, serviceVars, submitted, lifetime>>

(* Mutant: the queue is not looked at again after the decrement.            *)
WorkerCheckSkipped(w) ==
  /\ pc[w] = "check"
  /\ pc' = [pc EXCEPT ![w] = "release"]
  /\ UNCHANGED <<tqVars, serviceVars, m_usedThreads, submitted, lifetime>>

WorkerCheck(w) ==
  /\ pc[w] = "check"
  /\ OweSchedulerPosts(w, IF HasTasks THEN 1 ELSE 0)
  /\ pc' = [pc EXCEPT ![w] = "release"]
  /\ UNCHANGED <<tqVars, m_shutdownAction, m_suspendCounter, handles, guards, toCancel,
                 running, deferred, outcome, m_usedThreads, submitted, lifetime>>

(* The callback drops its reference.  If it is the last one, the            *)
(* QueueService and the scheduler are destroyed here, and AwaitTermination  *)
(* does not wait.                                                           *)
WorkerRelease(w) ==
  /\ pc[w] = "release" /\ call[w] = "none"
  /\ pc' = [pc EXCEPT ![w] = "idle"]
  /\ IF handles = {} /\ ~m_strongOwnerPtr /\ InCallback = {w}
     THEN lifetime' = "freed" /\ m_shutdownAction' = "complete"
     ELSE UNCHANGED <<lifetime, m_shutdownAction>>
  /\ UNCHANGED <<tqVars, m_suspendCounter, handles, guards, call, toSchedule, toCancel,
                 running, deferred, outcome, m_usedThreads, submitted>>

-----------------------------------------------------------------------------
(* The rest of a method a thread has begun.                                 *)
Continue(a) ==
  \/ CancelTask(a) /\ UNCHANGED schedulerVars
  \/ SchedulerPost(a)
  \/ SubmitThreadpoolWork(a)
  \/ SchedulerShutdown(a)

WorkerStep(w) ==
  \/ StartCallback(w) \/ WorkerDeque(w) \/ WorkerInvoke(w)
  \/ WorkerDec(w) \/ WorkerCheck(w) \/ WorkerRelease(w)

Next ==
  \/ \E c \in Client : ClientCall(c) \/ ReleaseHandle(c) \/ WaitReturns(c)
  \/ \E w \in Worker : TaskCall(w) \/ WorkerStep(w)
  \/ \E a \in Thread : Continue(a)

Spec == Init /\ [][Next]_vars

(* Threads that are inside a method go on, the thread pool runs what was    *)
(* submitted to it, a wait whose condition stays true returns, and a task   *)
(* returns however often it calls the queue (strong fairness: between its   *)
(* calls it can return, and some day it does).  Nothing obliges anyone to   *)
(* call the queue.                                                          *)
Fairness ==
  /\ \A a \in Thread : WF_vars(Continue(a))
  /\ \A w \in Worker : WF_vars(WorkerStep(w)) /\ SF_vars(WorkerInvoke(w))
  /\ \A c \in Client : WF_vars(WaitReturns(c))

FairSpec == Spec /\ Fairness

-----------------------------------------------------------------------------
(* Properties *)

(* The types; m_usedThreads and m_suspendCounter, which the code only       *)
(* counts up and down, never go below zero.                                 *)
TypeOK ==
  /\ ServiceTypeOK
  /\ m_usedThreads \in Nat
  /\ submitted \in Nat
  /\ pc \in [Worker -> Place]
  /\ lifetime \in Lifetime

(* m_usedThreads is exactly the number of callbacks that are counted but    *)
(* not submitted, submitted, or running: a callback counted twice or not    *)
(* uncounted would make Post's early return drop wake-ups for good.         *)
UsedThreadsExact ==
  lifetime = "alive" =>
    m_usedThreads = submitted + Cardinality(Active) + Cardinality(Submitting)

(* m_maxThreads bounds the tasks that run at the same time; a serial queue  *)
(* (MaxThreads = 1) never runs two.                                         *)
ConcurrencyBound ==
  Cardinality({w \in Worker : running[w] # NoTask}) <= MaxThreads

(* A queue that may run a task has a callback on its way to take it, or a   *)
(* thread that still owes a scheduler->Post(), or a callback about to look  *)
(* at the queue again: Post's early return at the limit, and the decrement  *)
(* before HasTasks in WorkCallback, never lose the last wake-up.            *)
NoLostWakeup ==
  HasTasks =>
    \/ submitted > 0
    \/ Active # {}
    \/ \E a \in Thread : call[a] \in {"schedule", "submit"}
    \/ \E w \in Worker : pc[w] = "check"

(* "Queue must be empty before destruction" (taskQueue.cpp:44), the         *)
(* VerifyElseCrash of ~TaskQueue; and a destroyed queue runs nothing.       *)
DestroyedQueueIsEmpty ==
  lifetime # "alive" => /\ IsEmpty
                        /\ \A w \in Worker : pc[w] = "idle"
                        /\ \A t \in Task : outcome[t] \notin {"queued", "deferred", "started"}

(* "Waits until all pending tasks are completed after shutdown"             *)
(* (dispatchQueue.h:195): when AwaitTermination returns to a client, no     *)
(* task is running, and none is pending unless the queue is suspended or    *)
(* another thread is still inside the Post or Resume that schedules it.     *)
AwaitTerminationWaits ==
  [][\A c \in Client :
       call[c] = "wait" /\ call'[c] = "none" =>
         /\ \A t \in Task : outcome[t] \notin {"started", "deferred"}
         /\ \/ IsEmpty
            \/ m_suspendCounter > 0
            \/ \E a \in Thread : call[a] \in {"schedule", "submit"}]_vars

(* The queue seen by its users is the one of module DispatchQueue.          *)
Contract == INSTANCE DispatchQueue WITH
              MaxConcurrent <- MaxThreads,
              pending <- Contents,
              status <- outcome,
              isShutdown <- (m_shutdownAction # "none"),
              suspendCount <- m_suspendCounter
ImplementsContract == Contract!Spec

(* Every task a queue accepts is invoked or canceled, unless the queue is   *)
(* suspended: no interleaving of posts at the thread limit, expiring        *)
(* callbacks, Resume and Shutdown strands it.                               *)
AcceptedTaskEnds ==
  \A t \in Task :
    outcome[t] \in {"queued", "deferred", "started", "taken"} ~>
      (outcome[t] \in {"invoked", "canceled"} \/ m_suspendCounter > 0)

(* AwaitTermination returns, even on a queue its caller has suspended:      *)
(* clients that wait for the queue, and tasks that terminate their own      *)
(* queue, do not deadlock.  (Only another client that suspends and resumes  *)
(* the queue for ever can keep the callbacks coming.)                       *)
AwaitTerminationReturns ==
  \A a \in Thread :
    call[a] \in {"terminate", "wait"} ~> (call[a] = "none" \/ guards \ {a} # {})

(* "The ThreadPoolSchedulerWin is alive here because m_threadPoolWork must  *)
(* be completed before it is destroyed" (threadPoolScheduler_win.cpp:119).  *)
NoCallbackAfterFree == lifetime = "freed" => submitted = 0

=============================================================================
