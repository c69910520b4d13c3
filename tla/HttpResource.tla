---------------------------- MODULE HttpResource ----------------------------
(***************************************************************************)
(* HTTP requests: HttpTurboModule and WinRTHttpResource.  Each request is a *)
(* coroutine that runs in the thread pool; JavaScript may abort it, and a   *)
(* timer may cancel it, at any time.  What the request sends to JavaScript  *)
(* is kept in the order of the events.                                      *)
(***************************************************************************)
EXTENDS Naturals, Sequences

CONSTANTS
  Request,    \* request ids
  MaxChunks   \* a bound on the segments of a response's body

(* responseType and incrementalUpdates of a request.                        *)
Kinds == {"text", "incremental", "base64", "blob"}

VARIABLES
  pc,          \* where PerformSendRequest is
  kind, timed, \* the request's arguments: its kind, and whether Timeout > 0
  op,          \* sendRequestOp
  timer,       \* sendRequestTimeout; "fired" is *timedOut
  m_responses, \* the requests that AbortRequest can find
  aborting,    \* calls of AbortRequest that hold an operation and not the lock
  chunks,      \* segments read so far
  heard        \* events sent to JavaScript, per request

vars == <<pc, kind, timed, op, timer, m_responses, aborting, chunks, heard>>

Init ==
  /\ pc = [r \in Request |-> "new"] /\ kind = [r \in Request |-> "text"]
  /\ timed = [r \in Request |-> FALSE] /\ op = [r \in Request |-> "none"]
  /\ timer = [r \in Request |-> "off"] /\ m_responses = {} /\ aborting = {}
  /\ chunks = [r \in Request |-> 0] /\ heard = [r \in Request |-> <<>>]

At(r, l) == pc[r] = l
Goto(r, l) == pc' = [pc EXCEPT ![r] = l]
SendEvents(r, events) == heard' = [heard EXCEPT ![r] = @ \o events]

(* The last events of a request, and UntrackResponse.                       *)
Finish(r, events) ==
  Goto(r, "done") /\ SendEvents(r, events) /\ m_responses' = m_responses \ {r}

(* Events that complete a request for JavaScript.  (A Cancel that throws is *)
(* reported in the same way, and is told apart here.)                       *)
Completion == {"complete", "error", "timeout"}

(* Events that are reported through m_onError.                              *)
Failure == {"error", "timeout", "cancel failed"}

-----------------------------------------------------------------------------
(* SendRequest, in JavaScript's thread: the method or the URL may be        *)
(* invalid.                                                                 *)
SendRequest(r, k, t) ==
  /\ At(r, "new")
  /\ kind' = [kind EXCEPT ![r] = k] /\ timed' = [timed EXCEPT ![r] = t]
  /\ \/ Goto(r, "create") /\ UNCHANGED <<m_responses, heard>>
     \/ Finish(r, <<"error">>)
  /\ UNCHANGED <<op, timer, aborting, chunks>>

(* CreateRequest throws, or reports an error of its own and returns no      *)
(* request.                                                                 *)
CreateRequest(r) ==
  /\ At(r, "create")
  /\ \/ Goto(r, "send") /\ UNCHANGED <<m_responses, heard>>
     \/ Goto(r, "send null") /\ SendEvents(r, <<"error">>) /\ UNCHANGED m_responses
     \/ Finish(r, <<"error">>)
  /\ UNCHANGED <<kind, timed, op, timer, aborting, chunks>>

(* SendRequestAsync starts the operation or throws, as it does without a    *)
(* request; TrackResponse; the timer starts.                                *)
SendRequestAsync(r) ==
  /\ \/ /\ At(r, "send") /\ Goto(r, "waiting")
        /\ op' = [op EXCEPT ![r] = "running"] /\ m_responses' = m_responses \cup {r}
        /\ timer' = [timer EXCEPT ![r] = IF timed[r] THEN "armed" ELSE "off"]
        /\ UNCHANGED heard
     \/ At(r, "send") /\ Finish(r, <<"error">>) /\ UNCHANGED <<op, timer>>
     \/ At(r, "send null") /\ Finish(r, <<"error">>) /\ UNCHANGED <<op, timer>>
  /\ UNCHANGED <<kind, timed, aborting, chunks>>

(* The operation ends: with a response, with none, or with an error.  A     *)
(* redirection may create a request and report its error.  (A response has  *)
(* a content: its headers are read before the code asks whether there is    *)
(* one.)                                                                    *)
OperationEnds(r) ==
  /\ op[r] = "running"
  /\ \E o \in {"response", "null", "error"} :
       /\ op' = [op EXCEPT ![r] = o]
       /\ (o = "error" /\ SendEvents(r, <<"error">>)) \/ UNCHANGED heard
  /\ UNCHANGED <<pc, kind, timed, timer, m_responses, aborting, chunks>>

TimerFires(r) ==
  /\ timer[r] = "armed" /\ timer' = [timer EXCEPT ![r] = "fired"]
  /\ UNCHANGED <<pc, kind, timed, op, m_responses, aborting, chunks, heard>>

(* Cancel has no effect on an operation that has ended.                     *)
Cancelled(o) == IF o = "running" THEN "cancelled" ELSE o

(* Mutant: only the operation wakes the request.                            *)
WokenByOperation(r) == op[r] # "running"

(* when_any of the operation and of the timer, or the operation alone.      *)
Woken(r) == op[r] # "running" \/ timer[r] = "fired"

(* Mutant: a request whose timer has fired goes on.                         *)
AwaitResponseIgnoresTimer(r) ==
  /\ At(r, "waiting") /\ Woken(r)
  /\ timer' = [timer EXCEPT ![r] = IF @ = "armed" THEN "cancelled" ELSE @]
  /\ op' = [op EXCEPT ![r] = IF timed[r] THEN Cancelled(@) ELSE @]
  /\ IF op'[r] = "error"
     THEN Finish(r, <<"error">>)
     ELSE Goto(r, "reading") /\ SendEvents(r, <<"response">>) /\ UNCHANGED m_responses
  /\ UNCHANGED <<kind, timed, aborting, chunks>>

(* The request wakes up, cancels both, and looks at the timer first.        *)
AwaitResponse(r) ==
  /\ At(r, "waiting") /\ Woken(r)
  /\ timer' = [timer EXCEPT ![r] = IF @ = "armed" THEN "cancelled" ELSE @]
  /\ op' = [op EXCEPT ![r] = IF timed[r] THEN Cancelled(@) ELSE @]
  /\ IF timer[r] = "fired" THEN Finish(r, <<"timeout">>)
     ELSE CASE op[r] \in {"error", "cancelled", "null"} -> Finish(r, <<"error">>)
            [] op[r] = "response" ->
                 Goto(r, "reading") /\ SendEvents(r, <<"response">>) /\ UNCHANGED m_responses
  /\ UNCHANGED <<kind, timed, aborting, chunks>>

(* One LoadAsync: a segment, the end, or an exception.                      *)
Segment(r) ==
  CASE kind[r] = "incremental" -> <<"incremental">>
    [] kind[r] = "base64" -> <<"progress">>
    [] OTHER -> <<>>

(* Mutant: an error while reading is reported and reading goes on.          *)
LoadAsyncGoesOn(r) ==
  /\ At(r, "reading")
  /\ \/ /\ chunks[r] < MaxChunks /\ chunks' = [chunks EXCEPT ![r] = @ + 1]
        /\ SendEvents(r, <<"error">>) /\ UNCHANGED <<pc, m_responses>>
     \/ Finish(r, <<"data", "complete">>) /\ UNCHANGED chunks
  /\ UNCHANGED <<kind, timed, op, timer, aborting>>

LoadAsync(r) ==
  /\ At(r, "reading")
  /\ \/ /\ chunks[r] < MaxChunks /\ chunks' = [chunks EXCEPT ![r] = @ + 1]
        /\ SendEvents(r, Segment(r)) /\ UNCHANGED <<pc, m_responses>>
     \/ /\ Finish(r, CASE kind[r] = "blob" -> <<"data", "complete", "complete">>
                       [] kind[r] = "incremental" -> <<"complete">>
                       [] OTHER -> <<"data", "complete">>)
        /\ UNCHANGED chunks
     \/ Finish(r, <<"error">>) /\ UNCHANGED chunks
  /\ UNCHANGED <<kind, timed, op, timer, aborting>>

-----------------------------------------------------------------------------
(* AbortRequest, in two steps: the lock is left before Cancel.  Without an  *)
(* entry in the map it returns.  (A Cancel that failed is not tried again:  *)
(* a bound.)                                                                *)

AbortRequest(r) ==
  /\ r \in m_responses \ aborting /\ \A i \in DOMAIN heard[r] : heard[r][i] # "cancel failed"
  /\ aborting' = aborting \cup {r}
  /\ UNCHANGED <<pc, kind, timed, op, timer, m_responses, chunks, heard>>

AbortCancels(r) ==
  /\ r \in aborting /\ aborting' = aborting \ {r}
  /\ \/ op' = [op EXCEPT ![r] = Cancelled(@)] /\ UNCHANGED heard
     \/ SendEvents(r, <<"cancel failed">>) /\ UNCHANGED op
  /\ UNCHANGED <<pc, kind, timed, timer, m_responses, chunks>>

Perform(r) == CreateRequest(r) \/ SendRequestAsync(r) \/ AwaitResponse(r) \/ LoadAsync(r)

Next ==
  \E r \in Request :
    \/ \E k \in Kinds, t \in BOOLEAN : SendRequest(r, k, t)
    \/ Perform(r) \/ OperationEnds(r) \/ TimerFires(r) \/ AbortRequest(r) \/ AbortCancels(r)

Spec == Init /\ [][Next]_vars

(* The thread pool runs coroutines and timers; the server may never answer. *)
Fairness ==
  \A r \in Request :
    WF_vars(Perform(r)) /\ WF_vars(TimerFires(r)) /\ WF_vars(AbortCancels(r))
FairSpec == Spec /\ Fairness

-----------------------------------------------------------------------------
(* Properties *)

(* The types; a request is in the map from its start to its end.            *)
TypeOK ==
  /\ pc \in [Request -> {"new", "create", "send", "send null", "waiting", "reading", "done"}]
  /\ op \in [Request -> {"none", "running", "response", "null", "error", "cancelled"}]
  /\ timer \in [Request -> {"off", "armed", "fired", "cancelled"}]
  /\ kind \in [Request -> Kinds] /\ timed \in [Request -> BOOLEAN]
  /\ \A r \in Request : r \in m_responses <=> pc[r] \in {"waiting", "reading"}

(* Nothing but another completion follows a completion: once JavaScript has *)
(* been told of an error, of a timeout or of the end, no response and no    *)
(* data of that request arrive, although CreateRequest, a redirection, the  *)
(* timer, an abort and the reader report independently of each other.       *)
CompletionIsLast ==
  \A r \in Request : \A i, j \in DOMAIN heard[r] :
    i < j /\ heard[r][i] \in Completion => heard[r][j] \in Completion \cup {"cancel failed"}

(* A request that was cancelled while it ran is never answered, whatever    *)
(* its kind: once an abort has cancelled the operation, or the timer has    *)
(* fired, JavaScript hears of failures only - no response, no data, whole   *)
(* or in segments, no progress and no success - although the operation may  *)
(* have got its response before the request looked at the timer.            *)
CancelledIsNotAnswered ==
  \A r \in Request : op[r] = "cancelled" \/ timer[r] = "fired" =>
    \A i \in DOMAIN heard[r] : heard[r][i] \in Failure

(* A request completes although the server never answers, if it has a       *)
(* timeout or an abort finds it, unless Cancel itself fails.                *)
RequestCompletes ==
  \A r \in Request :
    /\ (timed[r] /\ At(r, "create")) ~> At(r, "done")
    /\ (r \in aborting) ~>
         (At(r, "done") \/ \E i \in DOMAIN heard[r] : heard[r][i] = "cancel failed")

=============================================================================
