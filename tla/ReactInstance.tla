---------------------------- MODULE ReactInstance ----------------------------
(***************************************************************************)
(* ReactInstanceWin and its JavaScript thread (ReactInstanceWin.cpp,        *)
(* MessageQueueThreadImpl.cpp, TaskDispatchThread.cpp).  The instance is    *)
(* initialised and destroyed in the native queue, JavaScript runs in its    *)
(* own thread, the UI thread may report errors, and any thread calls        *)
(* JavaScript functions.  m_state is atomic and written without m_mutex;    *)
(* m_jsCallQueue is only used under it.                                     *)
(***************************************************************************)
EXTENDS Naturals, Sequences

CONSTANT JsCall \* CallJsFunction calls, each made by a thread of its own

VARIABLES
  m_state, m_isLoaded, m_isDestroyed, m_jsCallQueue,
  whenLoaded,   \* m_whenLoaded: "pending", "ok", "error" or "canceled"
  whenDestroyed,
  instance,     \* m_bridgelessReactInstance is not null
  running,      \* running_ of the JS thread
  jsQueue,      \* the JS thread's tasks, by dispatch time
  pc,           \* where each thread and the initialisation is
  entry,        \* the entry DrainJSCallQueue took out
  order,        \* calls that were queued or let through, history
  outcome,      \* what became of each call, history
  threw,        \* InitializeBridgeless caught an exception, history
  crashed

promises == <<whenLoaded, whenDestroyed, crashed>>
calls == <<m_jsCallQueue, entry, order, outcome>>
jsThread == <<running, jsQueue>>
flags == <<m_isLoaded, m_isDestroyed, instance, threw>>
vars == <<m_state, flags, promises, calls, jsThread, pc>>

Init ==
  /\ m_state = "Loading" /\ m_isLoaded = FALSE /\ m_isDestroyed = FALSE /\ m_jsCallQueue = <<>>
  /\ whenLoaded = "pending" /\ whenDestroyed = FALSE /\ crashed = FALSE
  /\ instance = FALSE /\ running = TRUE /\ jsQueue = <<>>
  /\ pc = [init |-> "ui", native |-> "idle", js |-> "idle", ui |-> "idle"]
  /\ entry = <<>> /\ order = <<>> /\ outcome = [c \in JsCall |-> "none"] /\ threw = FALSE

Goto(t, l) == pc' = [pc EXCEPT ![t] = l]

(* TaskDispatchThread::runAsync: dropped when the thread was told to quit.  *)
RunAsync(tasks) == jsQueue' = IF running THEN jsQueue \o tasks ELSE jsQueue

-----------------------------------------------------------------------------
(* The queue of calls *)

(* What happens to calls that are thrown away.                              *)
Abandoned == {m_jsCallQueue[i] : i \in DOMAIN m_jsCallQueue}

(* Mutant: the calls are kept after an error.                               *)
AbandonUnlessError ==
  IF m_state = "Unloaded"
  THEN /\ m_jsCallQueue' = <<>>
       /\ outcome' = [c \in JsCall |-> IF c \in Abandoned THEN "dropped" ELSE outcome[c]]
  ELSE UNCHANGED <<m_jsCallQueue, outcome>>

AbandonJSCallQueue ==
  IF m_state \in {"HasError", "Unloaded"}
  THEN /\ m_jsCallQueue' = <<>>
       /\ outcome' = [c \in JsCall |-> IF c \in Abandoned THEN "dropped" ELSE outcome[c]]
  ELSE UNCHANGED <<m_jsCallQueue, outcome>>

(* callFunctionOnModule puts the call into the JS thread.                   *)
CallFunctionOnModule(c) ==
  /\ outcome' = [outcome EXCEPT ![c] = IF instance /\ running THEN "called" ELSE "dropped"]
  /\ RunAsync(IF instance THEN <<"call">> ELSE <<>>)

(* Mutant: a loaded instance is called at once, whatever waits.             *)
CallJsFunctionAtOnce(c) ==
  /\ outcome[c] = "none" /\ m_state \in {"Loading", "Loaded"}
  /\ outcome' = [outcome EXCEPT ![c] = IF m_state = "Loaded" THEN "calling" ELSE "queued"]
  /\ m_jsCallQueue' = IF m_state = "Loaded" THEN m_jsCallQueue ELSE Append(m_jsCallQueue, c)
  /\ order' = Append(order, c)
  /\ UNCHANGED <<m_state, flags, promises, entry, jsThread, pc>>

(* CallJsFunction under the lock.  The state WaitingForDebugger, which      *)
(* queues like Loading, is left out: only OnWaitingForDebugger              *)
(* (ReactInstanceWin.cpp:865) enters it, and nothing calls that.            *)
CallJsFunction(c) ==
  /\ outcome[c] = "none"
  /\ \/ /\ m_state = "Loaded" /\ m_jsCallQueue = <<>>
        /\ outcome' = [outcome EXCEPT ![c] = "calling"]
        /\ order' = Append(order, c) /\ UNCHANGED m_jsCallQueue
     \/ /\ m_state = "Loading" \/ (m_state = "Loaded" /\ m_jsCallQueue # <<>>)
        /\ outcome' = [outcome EXCEPT ![c] = "queued"]
        /\ order' = Append(order, c) /\ m_jsCallQueue' = Append(m_jsCallQueue, c)
     \/ /\ m_state \notin {"Loading", "Loaded"}
        /\ outcome' = [outcome EXCEPT ![c] = "dropped"]
        /\ UNCHANGED <<order, m_jsCallQueue>>
  /\ UNCHANGED <<m_state, flags, promises, entry, jsThread, pc>>

(* CallJsFunction after the lock.                                           *)
CallNow(c) ==
  /\ outcome[c] = "calling"
  /\ CallFunctionOnModule(c)
  /\ UNCHANGED <<m_state, flags, promises, m_jsCallQueue, entry, order, running, pc>>

-----------------------------------------------------------------------------
(* The native queue *)

(* InitializeBridgeless posts to the UI thread, which posts back.           *)
InitUIDependentCalls ==
  /\ pc.init = "ui" /\ pc.ui = "idle" /\ Goto("init", "native")
  /\ UNCHANGED <<m_state, flags, promises, calls, jsThread>>

StartInitialize ==
  /\ pc.init = "native" /\ pc.native = "idle"
  /\ pc' = [pc EXCEPT !.init = "done", !.native = "init"]
  /\ UNCHANGED <<m_state, flags, promises, calls, jsThread>>

(* After an early Destroy the instance may be released: both posts hold     *)
(* weak pointers, and a promise that is released unset is canceled.         *)
Release ==
  /\ m_isDestroyed /\ pc.native = "idle" /\ pc.init \in {"ui", "native"}
  /\ Goto("init", "done") /\ whenLoaded' = "canceled"
  /\ UNCHANGED <<m_state, flags, whenDestroyed, crashed, calls, jsThread>>

(* OnError: the state first, then the queue, which is a step of its own.    *)
SetHasError == m_state' = "HasError"

(* The exception handlers of InitializeBridgeless.                          *)
InitializeThrows ==
  /\ pc.native \in {"init", "load"}
  /\ threw' = TRUE /\ SetHasError /\ Goto("native", "abandon")
  /\ UNCHANGED <<m_isLoaded, m_isDestroyed, instance, promises, calls, jsThread>>

(* InitializeBridgeless up to the runOnQueueSync that creates the runtime.  *)
CreateRuntime ==
  /\ pc.native = "init"
  /\ RunAsync(<<"runtime">>) /\ Goto("native", "wait")
  /\ UNCHANGED <<m_state, flags, promises, calls, running>>

(* The rest, LoadJSBundlesBridgeless included, when the bundle is there.    *)
LoadJSBundlesBridgeless ==
  /\ pc.native = "load"
  /\ RunAsync(<<"created", "script", "loaded">>) /\ Goto("native", "idle")
  /\ UNCHANGED <<m_state, flags, promises, calls, running>>

(* The bundle could not be downloaded: devSettings->errorCallback, and the  *)
(* loaded task is posted all the same.                                      *)
DownloadFails ==
  /\ pc.native = "load"
  /\ SetHasError /\ RunAsync(<<"created", "loaded">>) /\ Goto("native", "abandon")
  /\ UNCHANGED <<flags, promises, calls, running>>

(* Destroy is called when an unload comes, or by ReactHost::Finalize.       *)
Destroy ==
  /\ pc.native = "idle" /\ ~m_isDestroyed
  /\ m_isDestroyed' = TRUE /\ m_state' = "Unloaded" /\ Goto("native", "destroy")
  /\ UNCHANGED <<m_isLoaded, instance, threw, promises, calls, jsThread>>

(* Mutant: the thread is told to quit before the last task is posted.       *)
DestroyInstanceQuitsFirst ==
  /\ pc.native = "destroy"
  /\ AbandonJSCallQueue
  /\ Goto("native", IF instance THEN "wait" ELSE "idle")
  /\ running' = FALSE
  /\ UNCHANGED <<m_state, flags, promises, entry, order, jsQueue>>

DestroyInstance ==
  /\ pc.native = "destroy"
  /\ AbandonJSCallQueue
  /\ IF instance THEN RunAsync(<<"destroy">>) /\ Goto("native", "wait")
                 ELSE Goto("native", "idle") /\ UNCHANGED jsQueue
  /\ UNCHANGED <<m_state, flags, promises, entry, order, running>>

(* The end of OnError in the native queue or the UI thread.                 *)
AbandonAfterError(t) ==
  /\ t \in {"native", "ui"} /\ pc[t] = "abandon"
  /\ AbandonJSCallQueue /\ Goto(t, "idle")
  /\ UNCHANGED <<m_state, flags, promises, entry, order, jsThread>>

(* OnError for an exception in the UI message thread.                       *)
UIError ==
  /\ pc.ui = "idle" /\ m_state # "HasError"
  /\ SetHasError /\ Goto("ui", "abandon")
  /\ UNCHANGED <<flags, promises, calls, jsThread>>

-----------------------------------------------------------------------------
(* The JS thread.  It takes tasks until it was told to quit and none is     *)
(* left.                                                                    *)

Takes(task) ==
  /\ pc.js = "idle" /\ jsQueue # <<>> /\ Head(jsQueue) = task
  /\ jsQueue' = Tail(jsQueue)

RuntimeTask ==
  /\ Takes("runtime") /\ instance' = TRUE /\ Goto("native", "load")
  /\ UNCHANGED <<m_state, m_isLoaded, m_isDestroyed, threw, promises, calls, running>>

(* A script or a call runs; OnJSError if it throws.                         *)
JsTask ==
  /\ \E task \in {"created", "script", "call"} : Takes(task)
  /\ \/ UNCHANGED <<m_state, pc>>
     \/ Head(jsQueue) # "created" /\ SetHasError /\ Goto("js", "jsError")
  /\ UNCHANGED <<flags, promises, calls, running>>

(* The task of LoadJSBundlesBridgeless looks at the state.                  *)
LoadedTask ==
  /\ Takes("loaded")
  /\ Goto("js", IF m_state # "HasError" THEN "loaded" ELSE "guard")
  /\ UNCHANGED <<m_state, flags, promises, calls, running>>

(* m_whenLoaded.SetValue and SetError crash when it was set before.         *)
SetWhenLoaded(result) ==
  IF whenLoaded = "pending"
  THEN whenLoaded' = result /\ UNCHANGED <<whenDestroyed, crashed>>
  ELSE crashed' = TRUE /\ UNCHANGED <<whenLoaded, whenDestroyed>>

(* OnReactInstanceLoaded, up to the queue of calls.                         *)
OnReactInstanceLoaded(result) ==
  IF m_isLoaded THEN Goto("js", "idle") /\ UNCHANGED <<m_state, m_isLoaded, promises>>
  ELSE /\ m_isLoaded' = TRUE /\ SetWhenLoaded(result)
       /\ IF result = "ok" THEN m_state' = "Loaded" /\ Goto("js", "drain")
          ELSE m_state' = "HasError" /\ Goto("js", "abandon")

(* The call of OnReactInstanceLoaded, and the one in ~LoadedCallbackGuard   *)
(* when the first was not made.                                             *)
InstanceLoaded ==
  /\ \/ pc.js = "loaded" /\ OnReactInstanceLoaded("ok")
     \/ pc.js = "guard" /\ OnReactInstanceLoaded("canceled")
  /\ UNCHANGED <<m_isDestroyed, instance, threw, calls, jsThread>>

(* OnJSError after it wrote the state.                                      *)
OnJSError ==
  /\ pc.js = "jsError"
  /\ AbandonJSCallQueue /\ OnReactInstanceLoaded("error")
  /\ UNCHANGED <<m_isDestroyed, instance, threw, entry, order, jsThread>>

AbandonInJS ==
  /\ pc.js = "abandon"
  /\ AbandonJSCallQueue /\ Goto("js", "idle")
  /\ UNCHANGED <<m_state, flags, promises, entry, order, jsThread>>

(* DrainJSCallQueue: one entry under the lock, called outside of it.        *)
DrainJSCallQueue ==
  /\ pc.js = "drain"
  /\ IF m_state = "Loaded" /\ m_jsCallQueue # <<>>
     THEN /\ entry' = <<Head(m_jsCallQueue)>> /\ m_jsCallQueue' = Tail(m_jsCallQueue)
          /\ Goto("js", "call")
     ELSE Goto("js", "idle") /\ UNCHANGED <<entry, m_jsCallQueue>>
  /\ UNCHANGED <<m_state, flags, promises, order, outcome, jsThread>>

DrainCall ==
  /\ pc.js = "call"
  /\ CallFunctionOnModule(entry[1]) /\ entry' = <<>> /\ Goto("js", "drain")
  /\ UNCHANGED <<m_state, flags, promises, m_jsCallQueue, order, running>>

(* Destroy's work in the JS thread: the instance goes, the thread is told   *)
(* to quit, and the continuation of m_whenDestroyed cancels m_whenLoaded.   *)
DestroyTask ==
  /\ Takes("destroy")
  /\ instance' = FALSE /\ running' = FALSE /\ whenDestroyed' = TRUE
  /\ whenLoaded' = IF whenLoaded = "pending" THEN "canceled" ELSE whenLoaded
  /\ Goto("native", "idle")
  /\ UNCHANGED <<m_state, m_isLoaded, m_isDestroyed, threw, crashed, calls>>

NativeNext ==
  \/ InitUIDependentCalls \/ StartInitialize \/ CreateRuntime \/ LoadJSBundlesBridgeless \/ DownloadFails
  \/ InitializeThrows \/ DestroyInstance \/ \E t \in {"native", "ui"} : AbandonAfterError(t)

JsNext ==
  \/ RuntimeTask \/ JsTask \/ LoadedTask \/ InstanceLoaded \/ OnJSError \/ AbandonInJS
  \/ DrainJSCallQueue \/ DrainCall \/ DestroyTask

Next ==
  /\ ~crashed
  /\ \/ NativeNext \/ JsNext \/ Destroy \/ Release \/ UIError
     \/ \E c \in JsCall : CallJsFunction(c) \/ CallNow(c)

Spec == Init /\ [][Next]_vars

(* The threads run what was given to them; nobody has to unload, to call    *)
(* JavaScript or to fail.                                                   *)
Fairness == WF_vars(~crashed /\ NativeNext) /\ WF_vars(~crashed /\ JsNext)
FairSpec == Spec /\ Fairness

-----------------------------------------------------------------------------
(* Properties *)

(* The types; a call is queued exactly while it is in the queue or is the   *)
(* entry that is about to be called, and is in one place only.              *)
TypeOK ==
  /\ m_state \in {"Loading", "Loaded", "HasError", "Unloaded"}
  /\ whenLoaded \in {"pending", "ok", "error", "canceled"}
  /\ m_jsCallQueue \in Seq(JsCall) /\ order \in Seq(JsCall)
  /\ outcome \in [JsCall -> {"none", "queued", "calling", "called", "dropped"}]
  /\ jsQueue \in Seq({"runtime", "created", "script", "loaded", "call", "destroy"})

(* A queued call waits in one place, and is not stranded: once the instance *)
(* is no longer loading, a thread is on its way to drain or to abandon the  *)
(* queue, although m_state is written without the lock the queue is used    *)
(* under.                                                                   *)
NoStrandedCall ==
  LET waiting == entry \o m_jsCallQueue IN
  /\ {waiting[i] : i \in DOMAIN waiting} = {c \in JsCall : outcome[c] = "queued"}
  /\ \A i, j \in DOMAIN waiting : waiting[i] = waiting[j] => i = j
  /\ m_jsCallQueue # <<>> /\ m_state # "Loading" =>
       \/ pc.js \in {"jsError", "abandon", "drain", "call"}
       \/ pc.native \in {"abandon", "destroy"} \/ pc.ui = "abandon"

Earlier(c) == {order[i] : i \in {j \in DOMAIN order : \E k \in DOMAIN order : k > j /\ order[k] = c}}

(* A call never overtakes one that still waits in the queue.  (It may       *)
(* overtake the entry DrainJSCallQueue has just taken out.)                 *)
QueuedCallsKeepOrder ==
  [][\A c \in JsCall : outcome[c] # "called" /\ outcome'[c] = "called" =>
       \A d \in Earlier(c) : outcome[d] # "queued" \/ entry = <<d>>]_vars

(* The futures ReactHost waits for complete.  OnInstanceLoaded is called    *)
(* however loading ends, once (a second SetValue or SetError would crash),  *)
(* unless InitializeBridgeless caught an exception; and Destroy does not    *)
(* wait for ever for the JS thread: what it returns completes if there was  *)
(* an instance to destroy.                                                  *)
FuturesComplete ==
  /\ []~crashed
  /\ <>(whenLoaded # "pending" \/ threw)
  /\ (pc.native = "destroy" /\ instance) ~> (pc.native = "idle" /\ whenDestroyed)

=============================================================================
