---------------------------- MODULE QueueService ----------------------------
(***************************************************************************)
(* Mso::QueueService (Mso/src/dispatchQueue/queueService.cpp): what every   *)
(* dispatch queue does, whichever scheduler drives it.  A method of         *)
(* QueueService is a section under m_mutex followed by calls made after the *)
(* lock is released, so each method is split there: the locked section is   *)
(* one action, and the rest is left in call[a], toSchedule[a] and           *)
(* toCancel[a] for the caller a to carry out while other threads run.       *)
(*                                                                          *)
(* This module has no next-state relation: ThreadPoolQueue and LooperQueue  *)
(* compose these operations with their scheduler.  The callers are Clients, *)
(* threads that hold a reference to the queue, and Workers, the scheduler's *)
(* threads while they run a task of this queue.                             *)
(***************************************************************************)
EXTENDS TaskQueue, FiniteSets

CONSTANTS Client,   \* threads outside the queue
          Worker    \* threads of the scheduler

Thread == Client \cup Worker

ASSUME ThreadAssumption ==
  Client \cap Worker = {} /\ IsFiniteSet(Client) /\ IsFiniteSet(Worker)

VARIABLES
  m_shutdownAction,  \* "none", "complete" or "cancel"
  m_suspendCounter,
  handles,           \* the clients that hold a reference to the queue
  guards,            \* the clients that owe a Resume for their Suspend
  call,              \* where in a QueueService method each thread is
  toSchedule,        \* scheduler->Post() calls each thread has yet to make
  toCancel,          \* tasks each thread took in Shutdown and has yet to cancel
  running,           \* the task each worker is invoking, or NoTask
  deferred,          \* TaskContext::m_deferQueue of that invocation
  outcome            \* what has become of each task

serviceVars == <<m_shutdownAction, m_suspendCounter, handles, guards, call,
                 toSchedule, toCancel, running, deferred, outcome>>

(* none: in no method.  schedule: about to call scheduler->Post().          *)
(* submit: inside it, the thread is counted but not submitted.              *)
(* shutdown, terminate: after the lock of Shutdown, called directly or by   *)
(* AwaitTermination.  wait: inside scheduler->AwaitTermination().           *)
CallState == {"none", "schedule", "submit", "shutdown", "terminate", "wait"}

(* queued: in m_queue.  taken: removed by Shutdown, not yet canceled.       *)
Outcome == {"new", "queued", "deferred", "started", "invoked", "taken", "canceled"}

ServiceInit ==
  /\ TQInit
  /\ m_shutdownAction = "none"
  /\ m_suspendCounter = 0
  /\ handles = Client
  /\ guards = {}
  /\ call = [a \in Thread |-> "none"]
  /\ toSchedule = [a \in Thread |-> 0]
  /\ toCancel = [a \in Thread |-> <<>>]
  /\ running = [w \in Worker |-> NoTask]
  /\ deferred = [w \in Worker |-> <<>>]
  /\ outcome = [t \in Task |-> "new"]

(* A thread that is in no method may call one if it has a reference.        *)
CanCall(a) ==
  /\ call[a] = "none"
  /\ a \in handles \/ (a \in Worker /\ running[a] # NoTask)

-----------------------------------------------------------------------------
(* The caller a leaves the lock owing n calls of scheduler->Post().         *)
OweSchedulerPosts(a, n) ==
  /\ toSchedule' = [toSchedule EXCEPT ![a] = n]
  /\ call' = [call EXCEPT ![a] = IF n > 0 THEN "schedule" ELSE "none"]

(* After one scheduler->Post() has returned.                                *)
SchedulerPostDone(a) == OweSchedulerPosts(a, toSchedule[a] - 1)

(* Mutant: Post forgets that the queue is shut down.                        *)
PostIgnoresShutdown(a, t) ==
  /\ CanCall(a) /\ outcome[t] = "new"
  /\ Enqueue(t)
  /\ outcome' = [outcome EXCEPT ![t] = "queued"]
  /\ OweSchedulerPosts(a, IF m_suspendCounter = 0 THEN 1 ELSE 0)
  /\ UNCHANGED <<m_shutdownAction, m_suspendCounter, handles, guards, toCancel,
                 running, deferred>>

(* Post: a task posted after Shutdown is canceled by its poster.  Nothing   *)
(* starts a task batch, so m_taskBatches stays empty and is left out.       *)
Post(a, t) ==
  /\ CanCall(a) /\ outcome[t] = "new"
  /\ IF m_shutdownAction # "none"
     THEN /\ outcome' = [outcome EXCEPT ![t] = "canceled"]
          /\ UNCHANGED <<tqVars, toSchedule, call>>
     ELSE /\ Enqueue(t)
          /\ outcome' = [outcome EXCEPT ![t] = "queued"]
          /\ OweSchedulerPosts(a, IF m_suspendCounter = 0 THEN 1 ELSE 0)
  /\ UNCHANGED <<m_shutdownAction, m_suspendCounter, handles, guards, toCancel,
                 running, deferred>>

(* InvokeElsePost from a task of this queue: the task runs in place, within *)
(* the running one.  The other branch, without thread access, is Post.      *)
InvokeInPlace(w, t) ==
  /\ CanCall(w) /\ outcome[t] = "new"
  /\ outcome' = [outcome EXCEPT ![t] = "invoked"]
  /\ UNCHANGED <<tqVars, m_shutdownAction, m_suspendCounter, handles, guards, call,
                 toSchedule, toCancel, running, deferred>>

(* DeferElsePost from a task of this queue.  The other branch is Post.      *)
Defer(w, t) ==
  /\ CanCall(w) /\ outcome[t] = "new"
  /\ deferred' = [deferred EXCEPT ![w] = Append(@, t)]
  /\ outcome' = [outcome EXCEPT ![t] = "deferred"]
  /\ UNCHANGED <<tqVars, m_shutdownAction, m_suspendCounter, handles, guards, call,
                 toSchedule, toCancel, running>>

Suspend(c) ==
  /\ CanCall(c) /\ c \in handles \ guards
  /\ m_suspendCounter' = m_suspendCounter + 1
  /\ guards' = guards \cup {c}
  /\ UNCHANGED <<tqVars, m_shutdownAction, handles, call, toSchedule, toCancel,
                 running, deferred, outcome>>

Resume(c) ==
  /\ CanCall(c) /\ c \in guards
  /\ m_suspendCounter' = m_suspendCounter - 1
  /\ guards' = guards \ {c}
  /\ OweSchedulerPosts(c, IF m_suspendCounter = 1 THEN Size ELSE 0)
  /\ UNCHANGED <<tqVars, m_shutdownAction, handles, toCancel, running, deferred, outcome>>

(* The locked section of Shutdown.  next is what follows it: the end of     *)
(* Shutdown, or scheduler->AwaitTermination() in AwaitTermination.          *)
BeginShutdown(a, action, next) ==
  /\ CanCall(a)
  /\ m_shutdownAction' = action
  /\ call' = [call EXCEPT ![a] = next]
  /\ IF action = "cancel"
     THEN /\ DequeueAll(Contents)
          /\ toCancel' = [toCancel EXCEPT ![a] = Contents]
          /\ outcome' = [t \in Task |-> IF outcome[t] = "queued" THEN "taken" ELSE outcome[t]]
     ELSE UNCHANGED <<tqVars, toCancel, outcome>>
  /\ UNCHANGED <<m_suspendCounter, handles, guards, toSchedule, running, deferred>>

Shutdown(a) == \E action \in {"complete", "cancel"} : BeginShutdown(a, action, "shutdown")

AwaitTermination(a) == BeginShutdown(a, "complete", "terminate")

(* Shutdown after the lock: CancelTask for the tasks taken, one by one.     *)
CancelTask(a) ==
  /\ call[a] = "shutdown" /\ toCancel[a] # <<>>
  /\ outcome' = [outcome EXCEPT ![Head(toCancel[a])] = "canceled"]
  /\ toCancel' = [toCancel EXCEPT ![a] = Tail(@)]
  /\ UNCHANGED <<tqVars, m_shutdownAction, m_suspendCounter, handles, guards, call,
                 toSchedule, running, deferred>>

-----------------------------------------------------------------------------
(* The scheduler's side of the interface. *)

HasTasks == m_suspendCounter = 0 /\ ~IsEmpty

(* TryDequeTask returning true, followed by the start of InvokeTask.        *)
TryDequeTask(w, t) ==
  /\ m_suspendCounter = 0
  /\ TryDequeue(t)
  /\ running' = [running EXCEPT ![w] = t]
  /\ outcome' = [outcome EXCEPT ![t] = "started"]
  /\ UNCHANGED <<m_shutdownAction, m_suspendCounter, handles, guards, call, toSchedule,
                 toCancel, deferred>>

(* InvokeTask: the running task returns; the next deferred task of its      *)
(* context runs, and InvokeTask returns when there is none.                 *)
InvokeTaskStep(w) ==
  LET more == deferred[w] # <<>>
      next == IF more THEN Head(deferred[w]) ELSE NoTask
  IN /\ call[w] = "none" /\ running[w] # NoTask
     /\ running' = [running EXCEPT ![w] = next]
     /\ deferred' = [deferred EXCEPT ![w] = IF more THEN Tail(@) ELSE @]
     /\ outcome' = [t \in Task |-> CASE t = running[w] -> "invoked"
                                     [] t = next -> "started"
                                     [] OTHER -> outcome[t]]
     /\ UNCHANGED <<tqVars, m_shutdownAction, m_suspendCounter, handles, guards, call,
                    toSchedule, toCancel>>

-----------------------------------------------------------------------------
(* The types of the fields above and of the TaskQueue.                      *)
ServiceTypeOK ==
  /\ TQTypeOK
  /\ m_shutdownAction \in {"none", "complete", "cancel"}
  /\ m_suspendCounter \in Nat
  /\ handles \subseteq Client
  /\ guards \subseteq handles
  /\ call \in [Thread -> CallState]
  /\ toSchedule \in [Thread -> Nat]
  /\ toCancel \in [Thread -> Seq(Task)]
  /\ running \in [Worker -> Task \cup {NoTask}]
  /\ deferred \in [Worker -> Seq(Task)]
  /\ outcome \in [Task -> Outcome]

=============================================================================
