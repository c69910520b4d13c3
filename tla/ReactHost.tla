------------------------------ MODULE ReactHost ------------------------------
(***************************************************************************)
(* The React host (Microsoft.ReactNative/ReactHost): ReactHost owns the     *)
(* React instance, each ReactViewHost a view shown by it, and an            *)
(* AsyncActionQueue shared by all of them runs the load, unload, init and   *)
(* uninit actions one after the other.                                      *)
(*                                                                          *)
(* Everything here runs in the host's serial native queue.  A public method *)
(* is one task of that queue; an action that cannot finish at once leaves   *)
(* the queue to other tasks until a future completes.  What a task still    *)
(* has to do inline (continuations of futures that are already complete,    *)
(* the next action of the AsyncActionQueue) is done before the next task:   *)
(* Inline is the guard that says so.                                        *)
(*                                                                          *)
(* The React instance and the platform's view instances are external: their *)
(* futures complete some time after the call.                               *)
(***************************************************************************)
EXTENDS Naturals, Sequences, FiniteSets

CONSTANTS View,         \* the ReactViewHosts of the host
          Options,      \* values of ReactOptions
          Inspectable,  \* those with Hermes and the direct debugger on
          MaxRequests   \* bound on the calls of public methods

ASSUME HostAssumption == Inspectable \subseteq Options /\ MaxRequests \in Nat

VARIABLES
  (* ReactHost *)
  m_options, m_pendingUnloadActionId, m_nextUnloadActionId, m_isInstanceUnloading,
  m_reactInstance,       \* 0, or the number of the instance created last
  m_inspectorPage,       \* m_inspectorPageId has a value
  isClosed,              \* m_notifyWhenClosed is null
  isFinalized,           \* the last reference is gone and Finalize has run
  (* ReactViewHost, for each view *)
  m_viewInstance,        \* the views with an attached instance: also m_viewHosts
  m_isViewInstanceInited, m_pendingUninitActionId, m_nextUninitActionId,
  (* AsyncActionQueue *)
  m_actions,
  current,               \* the action being invoked, or NoAction
  phase,                 \* what the current action waits for
  waitingOn,             \* the views whose futures it waits for
  (* environment and history *)
  reloadCalls,           \* options captured by ReloadInstance calls not yet in the queue
  requests,              \* number of public calls made
  created,               \* number of instances created
  instanceOptions,       \* the options the last instance was created with
  boundTo,               \* the instance each view was last initialised with
  lastRequest,           \* the last host request that entered the queue
  viewUnloaded,          \* views whose last request that is still to run, or the
                         \* last one since they were attached, was UnloadViewInstance
  crashed                \* a VerifyElseCrash has failed

hostVars == <<m_options, m_pendingUnloadActionId, m_nextUnloadActionId,
              m_isInstanceUnloading, m_reactInstance, m_inspectorPage, isClosed, isFinalized>>
viewVars == <<m_viewInstance, m_isViewInstanceInited, m_pendingUninitActionId,
              m_nextUninitActionId>>
queueVars == <<m_actions, current, phase, waitingOn>>
instanceVars == <<created, instanceOptions, boundTo>>
requestVars == <<reloadCalls, requests, lastRequest, viewUnloaded>>
vars == <<hostVars, viewVars, queueVars, instanceVars, requestVars, crashed>>

NoAction == [type |-> "none"]
Load(o) == [type |-> "load", options |-> o]
Unload(id, close) == [type |-> "unload", id |-> id, close |-> close]
InitView(v, new) == [type |-> "init", view |-> v, newOptions |-> new]
UninitView(v, id) == [type |-> "uninit", view |-> v, id |-> id]

Init ==
  /\ m_options \in Options
  /\ m_pendingUnloadActionId = 0 /\ m_nextUnloadActionId = 0
  /\ m_isInstanceUnloading = FALSE
  /\ m_reactInstance = 0
  /\ m_inspectorPage = FALSE
  /\ isClosed = FALSE /\ isFinalized = FALSE
  /\ m_viewInstance = {}
  /\ m_isViewInstanceInited = {}
  /\ m_pendingUninitActionId = [v \in View |-> 0]
  /\ m_nextUninitActionId = [v \in View |-> 0]
  /\ m_actions = <<>> /\ current = NoAction /\ phase = "idle" /\ waitingOn = {}
  /\ reloadCalls = {} /\ requests = 0
  /\ created = 0 /\ instanceOptions = m_options /\ boundTo = [v \in View |-> 0]
  /\ lastRequest = [kind |-> "none"] /\ viewUnloaded = {}
  /\ crashed = FALSE

-----------------------------------------------------------------------------
(* The native queue *)

(* phase: idle, nothing is invoked; done, the action's future is complete;  *)
(* uninitViews and updateViews wait for waitingOn, loading for whenLoaded,  *)
(* destroying for Destroy, view for InitRootView or UninitRootView.         *)
Phase == {"idle", "done", "uninitViews", "updateViews", "loading", "destroying", "view"}

(* The current task of the native queue still has something to do.          *)
Inline ==
  \/ phase = "done"
  \/ phase = "idle" /\ m_actions # <<>>
  \/ phase \in {"uninitViews", "updateViews"} /\ waitingOn = {}

QueueIsFree == ~Inline /\ ~crashed /\ ~isFinalized

Idle == phase = "idle" /\ m_actions = <<>>

(* PostAction(s).  An action posted to an idle AsyncActionQueue is invoked  *)
(* inline: StartAction is then the only step that is enabled.               *)
PostActions(actions) ==
  /\ m_actions' = m_actions \o actions
  /\ UNCHANGED <<current, phase, waitingOn>>

Request ==
  /\ QueueIsFree /\ requests < MaxRequests
  /\ requests' = requests + 1

-----------------------------------------------------------------------------
(* ReactHost's public methods *)

(* MakeUnloadInstanceAction: the new action is the pending one.             *)
NextUnloadId == m_nextUnloadActionId + 1
MakeUnloadInstanceAction ==
  /\ m_nextUnloadActionId' = NextUnloadId
  /\ m_pendingUnloadActionId' = NextUnloadId

PostReload(options) ==
  /\ MakeUnloadInstanceAction
  /\ PostActions(<<Unload(NextUnloadId, FALSE), Load(options)>>)
  /\ lastRequest' = [kind |-> "reload", options |-> options]
  /\ UNCHANGED <<m_options, m_isInstanceUnloading, m_reactInstance, m_inspectorPage, isClosed,
                 isFinalized, viewVars, instanceVars, viewUnloaded, crashed>>

(* ReloadInstance reads m_options in the calling thread, under the lock ... *)
CallReloadInstance ==
  /\ ~crashed /\ ~isFinalized
  /\ requests < MaxRequests /\ requests' = requests + 1
  /\ reloadCalls' = reloadCalls \cup {m_options}
  /\ UNCHANGED <<hostVars, viewVars, queueVars, instanceVars, lastRequest, viewUnloaded, crashed>>

(* ... and reloads with what it read when its task runs.                    *)
ReloadInstance ==
  /\ QueueIsFree
  /\ \E o \in reloadCalls : reloadCalls' = reloadCalls \ {o} /\ PostReload(o)
  /\ UNCHANGED requests

ReloadInstanceWithOptions ==
  /\ Request
  /\ \E o \in Options : PostReload(o)
  /\ UNCHANGED reloadCalls

PostUnload(close) ==
  /\ Request
  /\ MakeUnloadInstanceAction
  /\ PostActions(<<Unload(NextUnloadId, close)>>)
  /\ lastRequest' = [kind |-> "unload"]
  /\ isClosed' = (isClosed \/ close)
  /\ UNCHANGED <<m_options, m_isInstanceUnloading, m_reactInstance, m_inspectorPage, isFinalized,
                 viewVars, instanceVars, reloadCalls, viewUnloaded, crashed>>

UnloadInstance == PostUnload(FALSE)
Close == PostUnload(TRUE)

-----------------------------------------------------------------------------
(* ReactViewHost's public methods *)

(* Mutant: m_isInstanceUnloading is not looked at.                          *)
CanInitWhileUnloading(v, instance) ==
  /\ ~isClosed
  /\ m_pendingUnloadActionId = 0 /\ m_pendingUninitActionId[v] = 0
  /\ instance # 0

(* The conditions of InitViewInstanceInQueue for the given instance.        *)
CanInit(v, instance) ==
  /\ ~isClosed
  /\ m_pendingUnloadActionId = 0 /\ m_pendingUninitActionId[v] = 0
  /\ ~m_isInstanceUnloading
  /\ instance # 0

(* Attaching initialises the view at once, outside the AsyncActionQueue.    *)
AttachViewInstance(v) ==
  /\ Request /\ v \notin m_viewInstance
  /\ m_viewInstance' = m_viewInstance \cup {v}
  /\ IF v \notin m_isViewInstanceInited /\ CanInit(v, m_reactInstance)
     THEN /\ m_isViewInstanceInited' = m_isViewInstanceInited \cup {v}
          /\ boundTo' = [boundTo EXCEPT ![v] = m_reactInstance]
     ELSE UNCHANGED <<m_isViewInstanceInited, boundTo>>
  /\ viewUnloaded' = IF m_pendingUninitActionId[v] = 0 THEN viewUnloaded \ {v} ELSE viewUnloaded
  /\ UNCHANGED <<hostVars, m_pendingUninitActionId, m_nextUninitActionId, queueVars, created,
                 instanceOptions, reloadCalls, lastRequest, crashed>>

(* So does detaching: the view would not be there for a later action.       *)
DetachViewInstance(v) ==
  /\ Request /\ v \in m_viewInstance
  /\ m_viewInstance' = m_viewInstance \ {v}
  /\ m_isViewInstanceInited' = m_isViewInstanceInited \ {v}
  /\ UNCHANGED <<hostVars, m_pendingUninitActionId, m_nextUninitActionId, queueVars,
                 instanceVars, reloadCalls, lastRequest, viewUnloaded, crashed>>

(* MakeUninitViewInstanceAction, followed by the given actions.             *)
PostUninit(v, others) ==
  LET id == m_nextUninitActionId[v] + 1
  IN /\ Request
     /\ m_nextUninitActionId' = [m_nextUninitActionId EXCEPT ![v] = id]
     /\ m_pendingUninitActionId' = [m_pendingUninitActionId EXCEPT ![v] = id]
     /\ PostActions(<<UninitView(v, id)>> \o others)
     /\ UNCHANGED <<hostVars, m_viewInstance, m_isViewInstanceInited, instanceVars, reloadCalls,
                    lastRequest, crashed>>

ReloadViewInstance(v) ==
  /\ \E new \in BOOLEAN : PostUninit(v, <<InitView(v, new)>>)   \* ... or WithOptions
  /\ viewUnloaded' = viewUnloaded \ {v}

UnloadViewInstance(v) ==
  /\ PostUninit(v, <<>>)
  /\ viewUnloaded' = viewUnloaded \cup {v}

-----------------------------------------------------------------------------
(* The actions.  Each operator is the action's function up to the point     *)
(* where it returns its future.                                             *)

(* A canceled, failed or succeeded future: the action is complete.          *)
Returned == phase' = "done" /\ waitingOn' = {}

(* Mutant: a load does not look at the pending unload.                      *)
LoadInQueueIgnoresUnload(action) ==
  LET instance == created + 1
      inited == {v \in m_viewInstance : CanInit(v, instance)}
  IN /\ IF isClosed
        THEN Returned /\ UNCHANGED <<m_options, m_inspectorPage, m_reactInstance, instanceVars,
                                     m_isViewInstanceInited, crashed>>
        ELSE /\ m_options' = action.options
             /\ m_inspectorPage' = (action.options \in Inspectable)
             /\ m_reactInstance' = instance
             /\ created' = instance
             /\ instanceOptions' = action.options
             /\ phase' = "loading" /\ UNCHANGED waitingOn
             /\ crashed' = (m_viewInstance \cap m_isViewInstanceInited # {})
             /\ m_isViewInstanceInited' = m_isViewInstanceInited \cup inited
             /\ boundTo' = [v \in View |-> IF v \in inited THEN instance ELSE boundTo[v]]
     /\ UNCHANGED <<m_pendingUnloadActionId, m_nextUnloadActionId, m_isInstanceUnloading,
                    isClosed, isFinalized, m_viewInstance, m_pendingUninitActionId,
                    m_nextUninitActionId>>

(* LoadInQueue.  The instance's constructor completes whenCreated, so the   *)
(* attached views are initialised before LoadInQueue returns.  A view that  *)
(* is still initialised fails the VerifyElseCrash of                        *)
(* InitViewInstanceInQueue(options).                                        *)
LoadInQueue(action) ==
  LET instance == created + 1
      inited == {v \in m_viewInstance : CanInit(v, instance)}
  IN /\ IF isClosed
        THEN Returned /\ UNCHANGED <<m_options, m_inspectorPage, m_reactInstance, instanceVars,
                                     m_isViewInstanceInited, crashed>>
        ELSE /\ m_options' = action.options
             /\ IF m_pendingUnloadActionId # 0
                THEN Returned /\ UNCHANGED <<m_inspectorPage, m_reactInstance, instanceVars,
                                             m_isViewInstanceInited, crashed>>
                ELSE /\ m_inspectorPage' = (action.options \in Inspectable)
                     /\ m_reactInstance' = instance
                     /\ created' = instance
                     /\ instanceOptions' = action.options
                     /\ phase' = "loading" /\ UNCHANGED waitingOn
                     /\ crashed' = (m_viewInstance \cap m_isViewInstanceInited # {})
                     /\ m_isViewInstanceInited' = m_isViewInstanceInited \cup inited
                     /\ boundTo' = [v \in View |-> IF v \in inited THEN instance ELSE boundTo[v]]
     /\ UNCHANGED <<m_pendingUnloadActionId, m_nextUnloadActionId, m_isInstanceUnloading,
                    isClosed, isFinalized, m_viewInstance, m_pendingUninitActionId,
                    m_nextUninitActionId>>

(* Mutant: the pending unload is not cleared when it runs.                  *)
UnloadInQueueStaysPending(action) ==
  LET views == {v \in m_viewInstance : m_pendingUninitActionId[v] = 0}
  IN /\ IF action.id # m_pendingUnloadActionId
        THEN Returned /\ UNCHANGED <<m_isInstanceUnloading, m_isViewInstanceInited>>
        ELSE /\ m_isInstanceUnloading' = TRUE
             /\ m_isViewInstanceInited' = m_isViewInstanceInited \ views
             /\ phase' = "uninitViews" /\ waitingOn' = views
     /\ UNCHANGED <<m_options, m_pendingUnloadActionId, m_nextUnloadActionId, m_reactInstance,
                    m_inspectorPage, isClosed, isFinalized, m_viewInstance,
                    m_pendingUninitActionId, m_nextUninitActionId, instanceVars, crashed>>

(* Mutant: the inspector page goes before the views and the instance.       *)
UnloadInQueueRemovesPage(action) ==
  LET views == {v \in m_viewInstance : m_pendingUninitActionId[v] = 0}
  IN /\ IF action.id # m_pendingUnloadActionId
        THEN Returned /\ UNCHANGED <<m_pendingUnloadActionId, m_isInstanceUnloading,
                                     m_isViewInstanceInited, m_inspectorPage>>
        ELSE /\ m_pendingUnloadActionId' = 0
             /\ m_isInstanceUnloading' = TRUE
             /\ m_inspectorPage' = FALSE
             /\ m_isViewInstanceInited' = m_isViewInstanceInited \ views
             /\ phase' = "uninitViews" /\ waitingOn' = views
     /\ UNCHANGED <<m_options, m_nextUnloadActionId, m_reactInstance, isClosed, isFinalized,
                    m_viewInstance, m_pendingUninitActionId, m_nextUninitActionId,
                    instanceVars, crashed>>

(* UnloadInQueue up to the wait for the views.  UninitViewInstanceInQueue(0)*)
(* is canceled for a view that has an uninit action of its own pending.     *)
UnloadInQueue(action) ==
  LET views == {v \in m_viewInstance : m_pendingUninitActionId[v] = 0}
  IN /\ IF action.id # m_pendingUnloadActionId
        THEN Returned /\ UNCHANGED <<m_pendingUnloadActionId, m_isInstanceUnloading,
                                     m_isViewInstanceInited>>
        ELSE /\ m_pendingUnloadActionId' = 0
             /\ m_isInstanceUnloading' = TRUE
             /\ m_isViewInstanceInited' = m_isViewInstanceInited \ views
             /\ phase' = "uninitViews" /\ waitingOn' = views
     /\ UNCHANGED <<m_options, m_nextUnloadActionId, m_reactInstance, m_inspectorPage, isClosed,
                    isFinalized, m_viewInstance, m_pendingUninitActionId, m_nextUninitActionId,
                    instanceVars, crashed>>

InitViewInstanceInQueue(action) ==
  LET v == action.view
  IN /\ crashed' = (action.newOptions /\ v \in m_isViewInstanceInited)
     /\ IF /\ v \in m_viewInstance \ m_isViewInstanceInited
           /\ CanInit(v, m_reactInstance)
        THEN /\ m_isViewInstanceInited' = m_isViewInstanceInited \cup {v}
             /\ boundTo' = [boundTo EXCEPT ![v] = m_reactInstance]
             /\ phase' = "view" /\ UNCHANGED waitingOn
        ELSE Returned /\ UNCHANGED <<m_isViewInstanceInited, boundTo>>
     /\ UNCHANGED <<hostVars, m_viewInstance, m_pendingUninitActionId, m_nextUninitActionId,
                    created, instanceOptions>>

UninitViewInstanceInQueue(action) ==
  LET v == action.view
      isNewest == action.id = m_pendingUninitActionId[v]
  IN /\ m_pendingUninitActionId' =
          IF isNewest THEN [m_pendingUninitActionId EXCEPT ![v] = 0] ELSE m_pendingUninitActionId
     /\ IF isNewest /\ m_pendingUnloadActionId = 0 /\ v \in m_viewInstance
        THEN /\ m_isViewInstanceInited' = m_isViewInstanceInited \ {v}
             /\ phase' = "view" /\ UNCHANGED waitingOn
        ELSE Returned /\ UNCHANGED m_isViewInstanceInited
     /\ UNCHANGED <<hostVars, m_viewInstance, m_nextUninitActionId, instanceVars, crashed>>

(* InvokeAction on the first action of the queue.                           *)
StartAction ==
  /\ phase = "idle" /\ m_actions # <<>> /\ ~crashed
  /\ LET action == Head(m_actions)
     IN /\ current' = action
        /\ \/ action.type = "load" /\ LoadInQueue(action)
           \/ action.type = "unload" /\ UnloadInQueue(action)
           \/ action.type = "init" /\ InitViewInstanceInQueue(action)
           \/ action.type = "uninit" /\ UninitViewInstanceInQueue(action)
  /\ m_actions' = Tail(m_actions)
  /\ UNCHANGED requestVars

(* CompleteAction; the next action, if any, is started inline.              *)
CompleteAction ==
  /\ phase = "done"
  /\ phase' = "idle" /\ current' = NoAction
  /\ UNCHANGED <<hostVars, viewVars, m_actions, waitingOn, instanceVars, requestVars, crashed>>

(* Mutant: m_isInstanceUnloading is not reset.                              *)
DestroyInstanceKeepsUnloading ==
  /\ phase = "uninitViews" /\ waitingOn = {}
  /\ m_reactInstance' = 0
  /\ m_inspectorPage' = (m_inspectorPage /\ ~current.close)
  /\ phase' = IF m_reactInstance # 0 THEN "destroying" ELSE "done"
  /\ UNCHANGED <<m_options, m_pendingUnloadActionId, m_nextUnloadActionId, m_isInstanceUnloading,
                 isClosed, isFinalized, viewVars, m_actions, current, waitingOn, instanceVars,
                 requestVars, crashed>>

(* Mutant: the future for all of no views never completes.                  *)
DestroyInstanceNeedsViews ==
  /\ phase = "uninitViews" /\ waitingOn = {} /\ m_viewInstance # {}
  /\ m_reactInstance' = 0
  /\ m_isInstanceUnloading' = FALSE
  /\ m_inspectorPage' = (m_inspectorPage /\ ~current.close)
  /\ phase' = IF m_reactInstance # 0 THEN "destroying" ELSE "done"
  /\ UNCHANGED <<m_options, m_pendingUnloadActionId, m_nextUnloadActionId, isClosed, isFinalized,
                 viewVars, m_actions, current, waitingOn, instanceVars, requestVars, crashed>>

(* The rest of UnloadInQueue, once all views are uninitialised.             *)
DestroyInstance ==
  /\ phase = "uninitViews" /\ waitingOn = {}
  /\ m_reactInstance' = 0
  /\ m_isInstanceUnloading' = FALSE
  /\ m_inspectorPage' = (m_inspectorPage /\ ~current.close)
  /\ phase' = IF m_reactInstance # 0 THEN "destroying" ELSE "done"
  /\ UNCHANGED <<m_options, m_pendingUnloadActionId, m_nextUnloadActionId, isClosed, isFinalized,
                 viewVars, m_actions, current, waitingOn, instanceVars, requestVars, crashed>>

-----------------------------------------------------------------------------
(* Futures of the instance and of the views complete *)

CompletePhase(from, to) ==
  /\ QueueIsFree /\ phase = from
  /\ phase' = to
  /\ UNCHANGED <<hostVars, viewVars, m_actions, current, instanceVars, requestVars, crashed>>

(* The views that LoadInQueue updates after whenLoaded.                     *)
Updated ==
  {v \in m_viewInstance \cap m_isViewInstanceInited :
     ~isClosed /\ m_pendingUnloadActionId = 0 /\ m_pendingUninitActionId[v] = 0}

InstanceLoaded == CompletePhase("loading", "updateViews") /\ waitingOn' = Updated
InstanceFailed == CompletePhase("loading", "done") /\ UNCHANGED waitingOn
InstanceDestroyed == CompletePhase("destroying", "done") /\ UNCHANGED waitingOn
ViewActionDone == CompletePhase("view", "done") /\ UNCHANGED waitingOn

ViewDone(v) ==
  /\ QueueIsFree /\ v \in waitingOn
  /\ waitingOn' = waitingOn \ {v}
  /\ UNCHANGED <<hostVars, viewVars, m_actions, current, phase, instanceVars, requestVars, crashed>>

ViewsUpdated ==
  /\ phase = "updateViews" /\ waitingOn = {}
  /\ phase' = "done"
  /\ UNCHANGED <<hostVars, viewVars, m_actions, current, waitingOn, instanceVars, requestVars,
                 crashed>>

(* Finalize, when nobody but the native queue can reach the host any more:  *)
(* UnloadInQueue(CloseHost, 0), without views to wait for.                  *)
Finalize ==
  /\ QueueIsFree /\ Idle /\ m_viewInstance = {} /\ reloadCalls = {}
  /\ isFinalized' = TRUE /\ isClosed' = TRUE
  /\ IF ~isClosed /\ m_pendingUnloadActionId = 0
     THEN m_reactInstance' = 0 /\ m_inspectorPage' = FALSE
     ELSE UNCHANGED <<m_reactInstance, m_inspectorPage>>
  /\ UNCHANGED <<m_options, m_pendingUnloadActionId, m_nextUnloadActionId, m_isInstanceUnloading,
                 viewVars, queueVars, instanceVars, requestVars, crashed>>

-----------------------------------------------------------------------------
HostRequest ==
  \/ CallReloadInstance \/ ReloadInstanceWithOptions \/ UnloadInstance \/ Close

ViewRequest(v) ==
  \/ AttachViewInstance(v) \/ DetachViewInstance(v)
  \/ ReloadViewInstance(v) \/ UnloadViewInstance(v)

(* What happens without anyone asking for it.                               *)
Progress ==
  \/ StartAction \/ CompleteAction \/ DestroyInstance \/ ViewsUpdated
  \/ InstanceLoaded \/ InstanceFailed \/ InstanceDestroyed \/ ViewActionDone
  \/ \E v \in View : ViewDone(v)
  \/ ReloadInstance

Next ==
  \/ HostRequest
  \/ \E v \in View : ViewRequest(v)
  \/ Progress
  \/ Finalize

Spec == Init /\ [][Next]_vars

(* The native queue runs its tasks, and the futures of the instance and of  *)
(* the views complete.                                                      *)
FairSpec == Spec /\ WF_vars(Progress)

-----------------------------------------------------------------------------
(* Properties *)

Action ==
  [type : {"none"}] \cup [type : {"load"}, options : Options]
  \cup [type : {"unload"}, id : Nat, close : BOOLEAN]
  \cup [type : {"init"}, view : View, newOptions : BOOLEAN]
  \cup [type : {"uninit"}, view : View, id : Nat]

(* The types of the host's, the views' and the action queue's fields.       *)
TypeOK ==
  /\ m_options \in Options
  /\ {m_pendingUnloadActionId, m_nextUnloadActionId, m_reactInstance, created} \subseteq Nat
  /\ {m_isInstanceUnloading, m_inspectorPage, isClosed, isFinalized, crashed} \subseteq BOOLEAN
  /\ m_viewInstance \subseteq View
  /\ m_isViewInstanceInited \subseteq View
  /\ m_pendingUninitActionId \in [View -> Nat]
  /\ m_nextUninitActionId \in [View -> Nat]
  /\ m_actions \in Seq(Action)
  /\ current \in Action
  /\ phase \in Phase
  /\ waitingOn \subseteq View
  /\ instanceOptions \in Options
  /\ boundTo \in [View -> Nat]

(* A load never replaces a live instance: m_reactInstance goes from one     *)
(* instance to the next only through null, after the views were told and    *)
(* Destroy was called, however reloads, unloads and failures interleave.    *)
NoLoadOverInstance ==
  [][m_reactInstance # 0 /\ m_reactInstance' # 0 => m_reactInstance' = m_reactInstance]_vars

(* Consolidation of requests never loses the last one: when the action      *)
(* queue is idle again, after a reload there is an instance, created with   *)
(* the options of that reload, and after an unload or a close there is      *)
(* none; and no unload is left pending.  Finalize, which unloads outside    *)
(* the action queue with the id 0, leaves no instance and no view either.   *)
LastRequestWins ==
  /\ Idle /\ ~crashed =>
       /\ m_pendingUnloadActionId = 0
       /\ lastRequest.kind = "reload" /\ ~isClosed =>
            m_reactInstance # 0 /\ instanceOptions = lastRequest.options
       /\ lastRequest.kind = "unload" \/ isClosed => m_reactInstance = 0
  /\ isFinalized => m_reactInstance = 0 /\ m_isViewInstanceInited = {}

(* A view that shows the root view of an instance that is gone still has    *)
(* its own uninit action, or an unload of the host, ahead of it.            *)
StaleViewIsUninited ==
  \A v \in m_isViewInstanceInited :
    ~crashed /\ boundTo[v] # m_reactInstance =>
      m_pendingUninitActionId[v] # 0 \/ m_pendingUnloadActionId # 0

(* After attaching, reloading views, reloading the host, in any order, a    *)
(* view that was not unloaded on request shows the current instance once    *)
(* the action queue is idle.                                                *)
AttachedViewIsShown ==
  Idle /\ ~crashed /\ m_reactInstance # 0 =>
    \A v \in m_viewInstance \ viewUnloaded :
      v \in m_isViewInstanceInited /\ boundTo[v] = m_reactInstance

(* A live instance has an inspector page exactly if its own options make it *)
(* inspectable, also when a canceled load has changed m_options since.      *)
InspectorPageMatchesInstance ==
  m_reactInstance # 0 => (m_inspectorPage <=> instanceOptions \in Inspectable)

(* "The next action does not start until the previous action is completed"  *)
(* (AsyncActionQueue.h:18), yet the queue never gets stuck: it is idle      *)
(* again and again, unless an assertion has ended the process.              *)
ActionQueueDrains == []<>(Idle \/ crashed)

=============================================================================
