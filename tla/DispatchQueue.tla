---------------------------- MODULE DispatchQueue ----------------------------
(***************************************************************************)
(* What a Mso::DispatchQueue promises its users (dispatchQueue.h), without  *)
(* locks, buffers, schedulers or threads: tasks start in the order they     *)
(* were posted, at most MaxConcurrent of them at a time, none from the      *)
(* queue while it is suspended; a task posted after Shutdown is canceled,   *)
(* pending ones are completed or canceled; no task is invoked twice, or     *)
(* both invoked and canceled.  ThreadPoolQueue and LooperQueue implement    *)
(* this specification.                                                      *)
(***************************************************************************)
EXTENDS Naturals, Sequences, FiniteSets

CONSTANTS Task, MaxConcurrent

VARIABLES pending,    \* the queue
          status,     \* what has become of each task
          isShutdown,
          suspendCount

vars == <<pending, status, isShutdown, suspendCount>>

Started == {t \in Task : status[t] = "started"}

Init ==
  /\ pending = <<>>
  /\ status = [t \in Task |-> "new"]
  /\ isShutdown = FALSE
  /\ suspendCount = 0

Post(t) ==
  /\ status[t] = "new"
  /\ IF isShutdown
     THEN status' = [status EXCEPT ![t] = "canceled"] /\ UNCHANGED pending
     ELSE status' = [status EXCEPT ![t] = "queued"] /\ pending' = Append(pending, t)
  /\ UNCHANGED <<isShutdown, suspendCount>>

Start ==
  /\ suspendCount = 0 /\ pending # <<>>
  /\ Cardinality(Started) < MaxConcurrent
  /\ status[Head(pending)] = "queued"
  /\ status' = [status EXCEPT ![Head(pending)] = "started"]
  /\ pending' = Tail(pending)
  /\ UNCHANGED <<isShutdown, suspendCount>>

(* A running task runs a new one in place, or defers it to its own end.     *)
InTask(t) ==
  /\ Started # {} /\ status[t] = "new"
  /\ \E s \in {"invoked", "deferred"} : status' = [status EXCEPT ![t] = s]
  /\ UNCHANGED <<pending, isShutdown, suspendCount>>

(* A task ends; a deferred one may take its place.                          *)
Finish(t) ==
  /\ status[t] = "started"
  /\ LET finished == [status EXCEPT ![t] = "invoked"]
     IN \/ status' = finished
        \/ \E d \in Task : /\ status[d] = "deferred"
                           /\ status' = [finished EXCEPT ![d] = "started"]
  /\ UNCHANGED <<pending, isShutdown, suspendCount>>

Shutdown ==
  /\ isShutdown' = TRUE
  /\ \/ UNCHANGED <<pending, status>>
     \/ /\ pending' = <<>>
        /\ status' = [t \in Task |-> IF status[t] = "queued" THEN "taken" ELSE status[t]]
  /\ UNCHANGED suspendCount

Cancel(t) ==
  /\ status[t] = "taken"
  /\ status' = [status EXCEPT ![t] = "canceled"]
  /\ UNCHANGED <<pending, isShutdown, suspendCount>>

Suspend == suspendCount' = suspendCount + 1 /\ UNCHANGED <<pending, status, isShutdown>>

Resume ==
  /\ suspendCount > 0
  /\ suspendCount' = suspendCount - 1
  /\ UNCHANGED <<pending, status, isShutdown>>

Next ==
  \/ Start \/ Shutdown \/ Suspend \/ Resume
  \/ \E t \in Task : Post(t) \/ InTask(t) \/ Finish(t) \/ Cancel(t)

Spec == Init /\ [][Next]_vars

=============================================================================
