-------------------------- MODULE ReactHostProofs --------------------------
(***************************************************************************)
(* The consolidation of loads, unloads, inits and uninits by ids, for any   *)
(* views, options and number of requests: a load never replaces an          *)
(* instance, and the last request to the host and to each view is the one   *)
(* that counts in the end.                                                  *)
(***************************************************************************)
EXTENDS ReactHost, Integers, TLAPS

(* The unload actions of q carry ids that grow from the first to the last   *)
(* and do not exceed the pending one.                                       *)
IdsGrow(q, pending, next) ==
  /\ pending \in Nat /\ next \in Nat /\ pending <= next
  /\ \A i \in DOMAIN q : q[i].type = "unload" => q[i].id \in 1..pending
  /\ \A i, j \in DOMAIN q : i < j /\ q[i].type = "unload" /\ q[j].type = "unload" => q[i].id < q[j].id

(* A load follows the unload it was posted with.                            *)
LoadsFollowUnloads(q) ==
  \A i \in DOMAIN q : i > 1 /\ q[i].type = "load" => q[i - 1].type = "unload"

(* When a load comes first, its unload has run, is running, or has left the *)
(* work to a newer one.                                                     *)
LoadIsReady ==
  m_actions # <<>> /\ m_actions[1].type = "load" =>
    m_pendingUnloadActionId # 0 \/ m_reactInstance = 0 \/ phase = "uninitViews"

HostInv ==
  /\ TypeOK /\ reloadCalls \subseteq Options
  /\ IdsGrow(m_actions, m_pendingUnloadActionId, m_nextUnloadActionId)
  /\ LoadsFollowUnloads(m_actions)
  /\ LoadIsReady
  /\ InspectorPageMatchesInstance

-----------------------------------------------------------------------------
(* The action queue *)

LEMMA Appended ==
  ASSUME NEW q \in Seq(Action), NEW e \in Seq(Action)
  PROVE  /\ q \o e \in Seq(Action)
         /\ DOMAIN q = 1..Len(q) /\ Len(q) \in Nat
         /\ DOMAIN (q \o e) = 1..(Len(q) + Len(e))
         /\ \A i \in DOMAIN (q \o e) :
              \/ i \in DOMAIN q /\ (q \o e)[i] = q[i]
              \/ i > Len(q) /\ i - Len(q) \in DOMAIN e /\ (q \o e)[i] = e[i - Len(q)]
  OBVIOUS

(* An unload with the next id, alone or with its load, may be posted.       *)
LEMMA PostUnloadKeeps ==
  ASSUME NEW q \in Seq(Action), NEW e \in Seq(Action), NEW p, NEW n,
         IdsGrow(q, p, n), LoadsFollowUnloads(q),
         1 \in DOMAIN e, e[1].type = "unload", e[1].id = n + 1,
         \A i \in DOMAIN e : i > 1 => i = 2 /\ e[i].type = "load"
  PROVE  /\ IdsGrow(q \o e, n + 1, n + 1) /\ LoadsFollowUnloads(q \o e)
  <1> DEFINE u == q \o e
  <1>0. /\ p \in Nat /\ n \in Nat /\ p <= n /\ Len(q) \in Nat
        /\ DOMAIN q = 1..Len(q) /\ DOMAIN u = 1..(Len(q) + Len(e)) /\ DOMAIN e = 1..Len(e) /\ Len(e) \in Nat
    BY Appended DEF IdsGrow
  <1>1. \A i \in DOMAIN u : \/ i \in DOMAIN q /\ u[i] = q[i]
                            \/ i = Len(q) + 1 /\ u[i].type = "unload" /\ u[i].id = n + 1
                            \/ i = Len(q) + 2 /\ u[i].type = "load"
    <2> SUFFICES ASSUME NEW i \in DOMAIN u, ~(i \in DOMAIN q /\ u[i] = q[i])
                 PROVE  \/ i = Len(q) + 1 /\ u[i].type = "unload" /\ u[i].id = n + 1
                        \/ i = Len(q) + 2 /\ u[i].type = "load"
      OBVIOUS
    <2>1. i > Len(q) /\ i - Len(q) \in DOMAIN e /\ u[i] = e[i - Len(q)] BY Appended
    <2>2. CASE i - Len(q) = 1 BY <1>0, <2>1, <2>2
    <2>3. CASE i - Len(q) > 1 BY <1>0, <2>1, <2>3
    <2> QED BY <1>0, <2>1, <2>2, <2>3
  <1> HIDE DEF u
  <1>2. IdsGrow(u, n + 1, n + 1)
    <2>1. ASSUME NEW i \in DOMAIN u, u[i].type = "unload" PROVE u[i].id \in 1..(n + 1)
      BY <1>0, <1>1, <2>1 DEF IdsGrow
    <2>2. ASSUME NEW i \in DOMAIN u, NEW j \in DOMAIN u, i < j, u[i].type = "unload", u[j].type = "unload"
          PROVE  u[i].id < u[j].id
      <3>1. i \in DOMAIN q /\ u[i] = q[i] BY <1>0, <1>1, <2>2
      <3>2. CASE j \in DOMAIN q /\ u[j] = q[j] BY <2>2, <3>1, <3>2 DEF IdsGrow
      <3>3. CASE u[j].id = n + 1 BY <1>0, <2>2, <3>1, <3>3 DEF IdsGrow
      <3> QED BY <1>1, <2>2, <3>2, <3>3
    <2> QED BY <1>0, <2>1, <2>2 DEF IdsGrow
  <1>3. LoadsFollowUnloads(u)
    <2> SUFFICES ASSUME NEW i \in DOMAIN u, i > 1, u[i].type = "load" PROVE u[i - 1].type = "unload"
      BY DEF LoadsFollowUnloads
    <2>1. i - 1 \in DOMAIN u BY <1>0
    <2>2. CASE i \in DOMAIN q /\ u[i] = q[i]
      <3>1. i - 1 \in DOMAIN q /\ i - 1 < Len(q) + 1 BY <1>0, <2>2
      <3>2. u[i - 1] = q[i - 1] BY <1>0, <1>1, <2>1, <3>1
      <3> QED BY <2>2, <3>2 DEF LoadsFollowUnloads
    <2>3. CASE i = Len(q) + 2 BY <1>0, <1>1, <2>1, <2>3
    <2> QED BY <1>1, <2>2, <2>3
  <1> QED BY <1>2, <1>3 DEF u

(* Actions of views may be posted.                                          *)
LEMMA PostViewKeeps ==
  ASSUME NEW q \in Seq(Action), NEW e \in Seq(Action), NEW p, NEW n,
         IdsGrow(q, p, n), LoadsFollowUnloads(q),
         \A i \in DOMAIN e : e[i].type \in {"init", "uninit"}
  PROVE  IdsGrow(q \o e, p, n) /\ LoadsFollowUnloads(q \o e)
  <1> DEFINE u == q \o e
  <1>0. Len(q) \in Nat /\ DOMAIN q = 1..Len(q) /\ DOMAIN u = 1..(Len(q) + Len(e)) /\ Len(e) \in Nat
    BY Appended
  <1>1. \A i \in DOMAIN u : (i \in DOMAIN q /\ u[i] = q[i]) \/ (i > Len(q) /\ u[i].type \in {"init", "uninit"})
    BY Appended
  <1> HIDE DEF u
  <1>2. IdsGrow(u, p, n) BY <1>1 DEF IdsGrow
  <1>3. LoadsFollowUnloads(u)
    <2> SUFFICES ASSUME NEW i \in DOMAIN u, i > 1, u[i].type = "load" PROVE u[i - 1].type = "unload"
      BY DEF LoadsFollowUnloads
    <2>1. i \in DOMAIN q /\ u[i] = q[i] BY <1>1
    <2>2. i - 1 \in DOMAIN u /\ i - 1 \in DOMAIN q /\ ~(i - 1 > Len(q)) BY <1>0, <2>1
    <2>3. u[i - 1] = q[i - 1] BY <1>1, <2>2
    <2> QED BY <2>1, <2>3 DEF LoadsFollowUnloads
  <1> QED BY <1>2, <1>3 DEF u

(* The first action may be taken away, and when it is the pending unload    *)
(* no other is left.                                                        *)
LEMMA TailKeeps ==
  ASSUME NEW q \in Seq(Action), q # <<>>, NEW p, NEW n, IdsGrow(q, p, n), LoadsFollowUnloads(q)
  PROVE  /\ Tail(q) \in Seq(Action) /\ LoadsFollowUnloads(Tail(q)) /\ IdsGrow(Tail(q), p, n)
         /\ q[1].type = "unload" /\ q[1].id = p => IdsGrow(Tail(q), 0, n)
         /\ Tail(q) # <<>> /\ Tail(q)[1].type = "load" => q[1].type = "unload"
  <1> DEFINE u == Tail(q)
  <1>0. /\ u \in Seq(Action) /\ Len(q) \in Nat /\ Len(q) > 0 /\ DOMAIN q = 1..Len(q)
        /\ DOMAIN u = 1..(Len(q) - 1) /\ (u # <<>> => 1 \in DOMAIN u)
    OBVIOUS
  <1>1. \A i \in DOMAIN u : i + 1 \in DOMAIN q /\ i + 1 > 1 /\ u[i] = q[i + 1] OBVIOUS
  <1> HIDE DEF u
  <1>2. IdsGrow(u, p, n)
    <2>1. \A i \in DOMAIN u : u[i].type = "unload" => u[i].id \in 1..p BY <1>1 DEF IdsGrow
    <2>2. ASSUME NEW i \in DOMAIN u, NEW j \in DOMAIN u, i < j, u[i].type = "unload", u[j].type = "unload"
          PROVE  u[i].id < u[j].id
      <3>1. i + 1 < j + 1 BY <1>0, <2>2
      <3> QED BY <1>1, <2>2, <3>1 DEF IdsGrow
    <2> QED BY <2>1, <2>2 DEF IdsGrow
  <1>3. ASSUME q[1].type = "unload", q[1].id = p PROVE IdsGrow(u, 0, n)
    <2>1. \A i \in DOMAIN u : u[i].type # "unload"
      <3> SUFFICES ASSUME NEW i \in DOMAIN u, u[i].type = "unload" PROVE FALSE OBVIOUS
      <3>1. 1 \in DOMAIN q /\ 1 < i + 1 BY <1>0, <1>1
      <3>2. q[1].id < q[i + 1].id /\ q[i + 1].id \in 1..p /\ p \in Nat
        BY <1>1, <1>3, <3>1 DEF IdsGrow
      <3> QED BY <1>3, <3>2
    <2> QED BY <2>1 DEF IdsGrow
  <1>4. LoadsFollowUnloads(u)
    <2> SUFFICES ASSUME NEW i \in DOMAIN u, i > 1, u[i].type = "load" PROVE u[i - 1].type = "unload"
      BY DEF LoadsFollowUnloads
    <2>1. i - 1 \in DOMAIN u /\ (i - 1) + 1 = i /\ (i + 1) - 1 = i BY <1>0
    <2>2. u[i] = q[i + 1] /\ u[i - 1] = q[i] BY <1>1, <2>1
    <2> QED BY <1>1, <2>1, <2>2 DEF LoadsFollowUnloads
  <1>5. u # <<>> /\ u[1].type = "load" => q[1].type = "unload"
    <2> SUFFICES ASSUME u # <<>>, u[1].type = "load" PROVE q[1].type = "unload" OBVIOUS
    <2>1. 2 \in DOMAIN q /\ 2 > 1 /\ u[1] = q[2] /\ 2 - 1 = 1 BY <1>0, <1>1
    <2> QED BY <2>1 DEF LoadsFollowUnloads
  <1> QED BY <1>0, <1>2, <1>3, <1>4, <1>5 DEF u

-----------------------------------------------------------------------------
(* Each step keeps HostInv *)

LEMMA HostInit == Init => HostInv
  <1> SUFFICES ASSUME Init PROVE HostInv OBVIOUS
  <1>0. current \in Action BY DEF Init, NoAction, Action
  <1>a. m_actions \in Seq(Action) BY DEF Init
  <1>b. /\ m_pendingUninitActionId \in [View -> Nat] /\ m_nextUninitActionId \in [View -> Nat]
        /\ boundTo \in [View -> Nat]
    BY DEF Init
  <1>c. {m_isInstanceUnloading, m_inspectorPage, isClosed, isFinalized, crashed} \subseteq BOOLEAN
    BY DEF Init
  <1>1. TypeOK BY <1>0, <1>a, <1>b, <1>c DEF Init, TypeOK, Phase
  <1> QED
    BY <1>1 DEF Init, HostInv, IdsGrow, LoadsFollowUnloads, LoadIsReady, InspectorPageMatchesInstance

(* What a step that leaves the action queue and the pending unload alone    *)
(* has to keep.                                                             *)
LEMMA QueueUnchanged ==
  ASSUME HostInv, UNCHANGED <<m_actions, m_pendingUnloadActionId, m_nextUnloadActionId>>
  PROVE  /\ IdsGrow(m_actions, m_pendingUnloadActionId, m_nextUnloadActionId)'
         /\ LoadsFollowUnloads(m_actions)'
  BY DEF HostInv, IdsGrow, LoadsFollowUnloads

LEMMA UnloadIsAction ==
  ASSUME HostInv, NEW c \in BOOLEAN, NEW o \in Options
  PROVE  /\ Unload(NextUnloadId, c) \in Action /\ Load(o) \in Action
  BY DEF HostInv, TypeOK, Unload, Load, Action, NextUnloadId

(* An unload posted with or without its load.                               *)
LEMMA UnloadPosted ==
  ASSUME HostInv, MakeUnloadInstanceAction, NEW c \in BOOLEAN, NEW o \in Options,
         NEW e \in {<<Unload(NextUnloadId, c)>>, <<Unload(NextUnloadId, c), Load(o)>>},
         PostActions(e), UNCHANGED m_reactInstance
  PROVE  /\ m_actions' \in Seq(Action) /\ m_pendingUnloadActionId' \in Nat /\ m_nextUnloadActionId' \in Nat
         /\ IdsGrow(m_actions, m_pendingUnloadActionId, m_nextUnloadActionId)'
         /\ LoadsFollowUnloads(m_actions)'
         /\ LoadIsReady'
  <1> DEFINE n == m_nextUnloadActionId
  <1>1. e \in Seq(Action)
    <2>1. Unload(NextUnloadId, c) \in Action /\ Load(o) \in Action BY UnloadIsAction
    <2> HIDE DEF NextUnloadId
    <2>2. CASE e = <<Unload(NextUnloadId, c)>> BY <2>1, <2>2
    <2>3. CASE e = <<Unload(NextUnloadId, c), Load(o)>> BY <2>1, <2>3
    <2> QED BY <2>2, <2>3
  <1>2. /\ 1 \in DOMAIN e /\ e[1].type = "unload" /\ e[1].id = n + 1
        /\ \A i \in DOMAIN e : i > 1 => i = 2 /\ e[i].type = "load"
    <2>1. CASE e = <<Unload(NextUnloadId, c)>> BY <2>1 DEF Unload, NextUnloadId
    <2>2. CASE e = <<Unload(NextUnloadId, c), Load(o)>> BY <2>2 DEF Unload, Load, NextUnloadId
    <2> QED BY <2>1, <2>2
  <1>3. m_actions \in Seq(Action) /\ n \in Nat BY DEF HostInv, TypeOK
  <1>4. /\ IdsGrow(m_actions \o e, n + 1, n + 1) /\ LoadsFollowUnloads(m_actions \o e)
        /\ m_actions \o e \in Seq(Action)
    BY <1>1, <1>2, <1>3, PostUnloadKeeps, Appended DEF HostInv
  <1>5. m_actions' = m_actions \o e /\ m_pendingUnloadActionId' = n + 1 /\ m_nextUnloadActionId' = n + 1
    BY DEF PostActions, MakeUnloadInstanceAction, NextUnloadId
  <1> QED BY <1>3, <1>4, <1>5 DEF IdsGrow, LoadsFollowUnloads, LoadIsReady

LEMMA PostReloadKeeps ==
  ASSUME HostInv, NEW o \in Options, PostReload(o), reloadCalls' \subseteq Options
  PROVE  HostInv'
  <1> DEFINE e == <<Unload(NextUnloadId, FALSE), Load(o)>>
  <1>1. MakeUnloadInstanceAction /\ PostActions(e) /\ UNCHANGED m_reactInstance BY DEF PostReload
  <1>2. /\ m_actions' \in Seq(Action) /\ m_pendingUnloadActionId' \in Nat /\ m_nextUnloadActionId' \in Nat
        /\ IdsGrow(m_actions, m_pendingUnloadActionId, m_nextUnloadActionId)'
        /\ LoadsFollowUnloads(m_actions)'
        /\ LoadIsReady'
    BY <1>1, UnloadPosted
  <1>3. TypeOK' BY <1>2 DEF HostInv, TypeOK, PostReload, PostActions, viewVars, instanceVars
  <1>4. InspectorPageMatchesInstance'
    BY DEF HostInv, InspectorPageMatchesInstance, PostReload, instanceVars
  <1> QED BY <1>2, <1>3, <1>4 DEF HostInv

LEMMA PostUnloadActionKeeps ==
  ASSUME HostInv, NEW c \in BOOLEAN, PostUnload(c)
  PROVE  HostInv'
  <1> DEFINE e == <<Unload(NextUnloadId, c)>>
  <1>1. MakeUnloadInstanceAction /\ PostActions(e) /\ UNCHANGED m_reactInstance BY DEF PostUnload
  <1>2. m_options \in Options BY DEF HostInv, TypeOK
  <1>3. /\ m_actions' \in Seq(Action) /\ m_pendingUnloadActionId' \in Nat /\ m_nextUnloadActionId' \in Nat
        /\ IdsGrow(m_actions, m_pendingUnloadActionId, m_nextUnloadActionId)'
        /\ LoadsFollowUnloads(m_actions)'
        /\ LoadIsReady'
    BY <1>1, <1>2, UnloadPosted
  <1>4. TypeOK' BY <1>3 DEF HostInv, TypeOK, PostUnload, PostActions, viewVars, instanceVars
  <1>5. InspectorPageMatchesInstance' /\ reloadCalls' \subseteq Options
    BY DEF HostInv, InspectorPageMatchesInstance, PostUnload, instanceVars
  <1> QED BY <1>3, <1>4, <1>5 DEF HostInv

(* The requests to the host.                                                *)
LEMMA HostRequestKeeps ==
  ASSUME HostInv, HostRequest \/ ReloadInstance
  PROVE  HostInv'
  <1>1. CASE CallReloadInstance
    <2>1. TypeOK'
      BY <1>1 DEF CallReloadInstance, HostInv, TypeOK, hostVars, viewVars, queueVars, instanceVars
    <2>2. LoadIsReady' /\ InspectorPageMatchesInstance' /\ reloadCalls' \subseteq Options
      BY <1>1 DEF CallReloadInstance, HostInv, TypeOK, LoadIsReady, InspectorPageMatchesInstance,
                  hostVars, queueVars, instanceVars
    <2>3. UNCHANGED <<m_actions, m_pendingUnloadActionId, m_nextUnloadActionId>>
      BY <1>1 DEF CallReloadInstance, hostVars, queueVars
    <2> QED BY <2>1, <2>2, <2>3, QueueUnchanged DEF HostInv
  <1>2. CASE ReloadInstance BY <1>2, PostReloadKeeps DEF ReloadInstance, HostInv
  <1>3. CASE ReloadInstanceWithOptions
    BY <1>3, PostReloadKeeps DEF ReloadInstanceWithOptions, HostInv
  <1>4. CASE UnloadInstance BY <1>4, PostUnloadActionKeeps DEF UnloadInstance
  <1>5. CASE Close BY <1>5, PostUnloadActionKeeps DEF Close
  <1> QED BY <1>1, <1>2, <1>3, <1>4, <1>5 DEF HostRequest

-----------------------------------------------------------------------------
(* The requests to a view.                                                  *)
LEMMA PostUninitKeeps ==
  ASSUME HostInv, NEW v \in View, NEW others \in Seq(Action), PostUninit(v, others),
         \A i \in DOMAIN others : others[i].type = "init"
  PROVE  HostInv'
  <1> DEFINE id == m_nextUninitActionId[v] + 1
             e == <<UninitView(v, id)>> \o others
  <1>1. id \in Nat BY DEF HostInv, TypeOK
  <1>2. UninitView(v, id) \in Action /\ UninitView(v, id).type = "uninit"
    BY <1>1 DEF UninitView, Action
  <1>3. e \in Seq(Action) /\ \A i \in DOMAIN e : e[i].type \in {"init", "uninit"}
    <2> DEFINE d == <<UninitView(v, id)>>
    <2>1. d \in Seq(Action) /\ Len(d) = 1 /\ DOMAIN d = {1} /\ d[1] = UninitView(v, id)
      BY <1>2
    <2> HIDE DEF d, id
    <2>2. e \in Seq(Action) /\ \A i \in DOMAIN e : \/ i \in DOMAIN d /\ e[i] = d[i]
                                                   \/ i - Len(d) \in DOMAIN others /\ e[i] = others[i - Len(d)]
      BY <2>1, Appended DEF d
    <2> QED BY <1>2, <2>1, <2>2
  <1>4. m_actions' = m_actions \o e /\ UNCHANGED <<current, phase, waitingOn>>
    BY DEF PostUninit, PostActions
  <1> HIDE DEF e
  <1>5. m_actions \in Seq(Action) BY DEF HostInv, TypeOK
  <1>6. UNCHANGED <<m_pendingUnloadActionId, m_nextUnloadActionId, m_reactInstance>>
    BY DEF PostUninit, hostVars
  <1>7. m_actions' \in Seq(Action) BY <1>3, <1>4, <1>5, Appended
  <1>8. /\ IdsGrow(m_actions, m_pendingUnloadActionId, m_nextUnloadActionId)'
        /\ LoadsFollowUnloads(m_actions)'
    <2> DEFINE u == m_actions \o e
    <2>1. IdsGrow(u, m_pendingUnloadActionId, m_nextUnloadActionId) /\ LoadsFollowUnloads(u)
      BY <1>3, <1>5, PostViewKeeps DEF HostInv
    <2> QED BY <1>4, <1>6, <2>1 DEF IdsGrow, LoadsFollowUnloads
  <1>9. LoadIsReady'
    <2>1. CASE m_actions = <<>>
      <3>1. m_actions' # <<>> => 1 \in DOMAIN m_actions' /\ 1 \in DOMAIN e /\ m_actions'[1] = e[1]
        BY <1>3, <1>4, <2>1
      <3> QED BY <1>3, <3>1 DEF LoadIsReady
    <2>2. CASE m_actions # <<>>
      <3>1. m_actions'[1] = m_actions[1] BY <1>3, <1>4, <1>5, <2>2
      <3> QED BY <1>4, <1>6, <2>2, <3>1 DEF LoadIsReady, HostInv
    <2> QED BY <2>1, <2>2
  <1>10. TypeOK'
    <2>1. /\ m_nextUninitActionId' = [m_nextUninitActionId EXCEPT ![v] = id]
          /\ m_pendingUninitActionId' = [m_pendingUninitActionId EXCEPT ![v] = id]
      BY DEF PostUninit
    <2> HIDE DEF id
    <2> QED
      BY <1>1, <1>4, <1>7, <2>1 DEF PostUninit, HostInv, TypeOK, hostVars, instanceVars
  <1>11. InspectorPageMatchesInstance' /\ reloadCalls' \subseteq Options
    BY DEF HostInv, InspectorPageMatchesInstance, PostUninit, hostVars, instanceVars
  <1> QED BY <1>8, <1>9, <1>10, <1>11 DEF HostInv

LEMMA ViewRequestKeeps ==
  ASSUME HostInv, NEW v \in View, ViewRequest(v)
  PROVE  HostInv'
  <1>1. CASE AttachViewInstance(v)
    <2>0. /\ UNCHANGED <<hostVars, m_pendingUninitActionId, m_nextUninitActionId, queueVars, created,
                         instanceOptions, reloadCalls, crashed>>
          /\ m_viewInstance' = m_viewInstance \cup {v}
          /\ m_isViewInstanceInited' \in {m_isViewInstanceInited, m_isViewInstanceInited \cup {v}}
          /\ boundTo' \in {boundTo, [boundTo EXCEPT ![v] = m_reactInstance]}
      BY <1>1 DEF AttachViewInstance
    <2>1. TypeOK' BY <2>0 DEF HostInv, TypeOK, hostVars, queueVars
    <2>2. LoadIsReady' /\ InspectorPageMatchesInstance' /\ reloadCalls' \subseteq Options
      BY <2>0 DEF HostInv, LoadIsReady, InspectorPageMatchesInstance, hostVars, queueVars
    <2>3. UNCHANGED <<m_actions, m_pendingUnloadActionId, m_nextUnloadActionId>>
      BY <2>0 DEF hostVars, queueVars
    <2> QED BY <2>1, <2>2, <2>3, QueueUnchanged DEF HostInv
  <1>2. CASE DetachViewInstance(v)
    <2>1. TypeOK' BY <1>2 DEF DetachViewInstance, HostInv, TypeOK, hostVars, queueVars, instanceVars
    <2>2. LoadIsReady' /\ InspectorPageMatchesInstance' /\ reloadCalls' \subseteq Options
      BY <1>2 DEF DetachViewInstance, HostInv, LoadIsReady, InspectorPageMatchesInstance, hostVars,
                  queueVars, instanceVars
    <2>3. UNCHANGED <<m_actions, m_pendingUnloadActionId, m_nextUnloadActionId>>
      BY <1>2 DEF DetachViewInstance, hostVars, queueVars
    <2> QED BY <2>1, <2>2, <2>3, QueueUnchanged DEF HostInv
  <1>3. CASE ReloadViewInstance(v)
    <2>1. PICK new \in BOOLEAN : PostUninit(v, <<InitView(v, new)>>) BY <1>3 DEF ReloadViewInstance
    <2>2. InitView(v, new) \in Action /\ InitView(v, new).type = "init" BY DEF InitView, Action
    <2>3. /\ <<InitView(v, new)>> \in Seq(Action)
          /\ \A i \in DOMAIN <<InitView(v, new)>> : <<InitView(v, new)>>[i].type = "init"
      BY <2>2
    <2> QED BY <2>1, <2>3, PostUninitKeeps
  <1>4. CASE UnloadViewInstance(v)
    <2>1. PostUninit(v, <<>>) BY <1>4 DEF UnloadViewInstance
    <2>2. <<>> \in Seq(Action) /\ DOMAIN <<>> = {} OBVIOUS
    <2> QED BY <2>1, <2>2, PostUninitKeeps
  <1> QED BY <1>1, <1>2, <1>3, <1>4 DEF ViewRequest

-----------------------------------------------------------------------------
(* The actions *)

(* What the actions are made of.                                            *)
LEMMA ActionFields ==
  ASSUME NEW a \in Action
  PROVE  /\ a.type = "load" => a.options \in Options
         /\ a.type \in {"init", "uninit"} => a.view \in View
         /\ a.type = "unload" => a.id \in Nat
  BY DEF Action

LEMMA StartActionKeeps ==
  ASSUME HostInv, StartAction
  PROVE  HostInv'
  <1> DEFINE a == m_actions[1]
  <1>1. /\ m_actions \in Seq(Action) /\ m_actions # <<>> /\ Head(m_actions) = a /\ a \in Action
        /\ m_actions' = Tail(m_actions) /\ current' = a /\ phase = "idle"
        /\ UNCHANGED <<reloadCalls, requests, lastRequest, viewUnloaded>>
    BY DEF StartAction, HostInv, TypeOK, requestVars
  <1>2. /\ Tail(m_actions) \in Seq(Action) /\ LoadsFollowUnloads(Tail(m_actions))
        /\ IdsGrow(Tail(m_actions), m_pendingUnloadActionId, m_nextUnloadActionId)
        /\ a.type = "unload" /\ a.id = m_pendingUnloadActionId
             => IdsGrow(Tail(m_actions), 0, m_nextUnloadActionId)
        /\ Tail(m_actions) # <<>> /\ Tail(m_actions)[1].type = "load" => a.type = "unload"
    BY <1>1, TailKeeps DEF HostInv
  <1>3. /\ a.type = "load" => a.options \in Options
        /\ a.type \in {"init", "uninit"} => a.view \in View
        /\ a.type = "unload" => a.id \in 1..m_pendingUnloadActionId
    <2>1. 1 \in DOMAIN m_actions BY <1>1
    <2> QED BY <1>1, <2>1, ActionFields DEF HostInv, IdsGrow
  <1>4. m_actions' \in Seq(Action) /\ current' \in Action /\ LoadsFollowUnloads(m_actions)'
    BY <1>1, <1>2 DEF LoadsFollowUnloads
  <1>5. reloadCalls' \subseteq Options BY <1>1 DEF HostInv
  <1>6. CASE a.type = "load" /\ LoadInQueue(a)
    <2>1. /\ UNCHANGED <<m_pendingUnloadActionId, m_nextUnloadActionId>>
          /\ IdsGrow(m_actions, m_pendingUnloadActionId, m_nextUnloadActionId)' /\ LoadIsReady'
      BY <1>1, <1>2, <1>6 DEF LoadInQueue, IdsGrow, LoadIsReady
    <2>2. InspectorPageMatchesInstance'
      BY <1>6 DEF LoadInQueue, HostInv, InspectorPageMatchesInstance, instanceVars
    <2>3. TypeOK'
      <3>1. CASE isClosed \/ m_pendingUnloadActionId # 0
        BY <1>3, <1>4, <1>6, <3>1 DEF LoadInQueue, Returned, HostInv, TypeOK, Phase, instanceVars
      <3>2. CASE ~(isClosed \/ m_pendingUnloadActionId # 0)
        <4>1. /\ m_options' \in Options /\ instanceOptions' \in Options
              /\ m_reactInstance' \in Nat /\ created' \in Nat /\ phase' \in Phase
              /\ m_isViewInstanceInited' \subseteq View
              /\ UNCHANGED <<m_pendingUnloadActionId, m_nextUnloadActionId, m_isInstanceUnloading,
                             isClosed, isFinalized, m_viewInstance, m_pendingUninitActionId,
                             m_nextUninitActionId, waitingOn>>
          BY <1>3, <1>6, <3>2 DEF LoadInQueue, HostInv, TypeOK, Phase
        <4>2. m_inspectorPage' \in BOOLEAN /\ crashed' \in BOOLEAN
          <5>1. m_inspectorPage' = (a.options \in Inspectable)
            BY <1>6, <3>2, Zenon DEF LoadInQueue
          <5>2. crashed' = (m_viewInstance \cap m_isViewInstanceInited # {})
            BY <1>6, <3>2, Zenon DEF LoadInQueue
          <5>3. m_inspectorPage' \in BOOLEAN BY <5>1, SMT
          <5>4. crashed' \in BOOLEAN BY <5>2, SMT
          <5> QED BY <5>3, <5>4
        <4>3. boundTo' \in [View -> Nat] BY <1>6, <3>2 DEF LoadInQueue, HostInv, TypeOK
        <4> QED BY <1>4, <4>1, <4>2, <4>3 DEF HostInv, TypeOK
      <3> QED BY <3>1, <3>2
    <2> QED BY <1>4, <1>5, <2>1, <2>2, <2>3 DEF HostInv
  <1>7. CASE a.type = "unload" /\ UnloadInQueue(a)
    <2>1. /\ IdsGrow(m_actions, m_pendingUnloadActionId, m_nextUnloadActionId)' /\ LoadIsReady'
      <3>1. CASE a.id # m_pendingUnloadActionId
        BY <1>1, <1>2, <1>3, <1>7, <3>1 DEF UnloadInQueue, IdsGrow, LoadIsReady
      <3>2. CASE a.id = m_pendingUnloadActionId
        BY <1>1, <1>2, <1>7, <3>2 DEF UnloadInQueue, IdsGrow, LoadIsReady
      <3> QED BY <3>1, <3>2
    <2>2. InspectorPageMatchesInstance'
      BY <1>7 DEF UnloadInQueue, HostInv, InspectorPageMatchesInstance, instanceVars
    <2>3. TypeOK'
      <3>1. CASE a.id # m_pendingUnloadActionId
        BY <1>4, <1>7, <3>1 DEF UnloadInQueue, Returned, HostInv, TypeOK, Phase, instanceVars
      <3>2. CASE a.id = m_pendingUnloadActionId
        <4>1. /\ m_pendingUnloadActionId' = 0 /\ m_isInstanceUnloading' = TRUE
              /\ m_isViewInstanceInited' \subseteq View /\ waitingOn' \subseteq View
              /\ phase' = "uninitViews"
              /\ UNCHANGED <<m_options, m_nextUnloadActionId, m_reactInstance, m_inspectorPage, isClosed,
                             isFinalized, m_viewInstance, m_pendingUninitActionId, m_nextUninitActionId,
                             created, instanceOptions, boundTo, crashed>>
          BY <1>7, <3>2 DEF UnloadInQueue, HostInv, TypeOK, instanceVars
        <4> QED BY <1>4, <4>1 DEF HostInv, TypeOK, Phase
      <3> QED BY <3>1, <3>2
    <2> QED BY <1>4, <1>5, <2>1, <2>2, <2>3 DEF HostInv
  <1>8. CASE a.type = "init" /\ InitViewInstanceInQueue(a)
    <2>1. /\ IdsGrow(m_actions, m_pendingUnloadActionId, m_nextUnloadActionId)' /\ LoadIsReady'
      BY <1>1, <1>2, <1>8 DEF InitViewInstanceInQueue, IdsGrow, LoadIsReady, hostVars
    <2>2. InspectorPageMatchesInstance'
      BY <1>8 DEF InitViewInstanceInQueue, HostInv, InspectorPageMatchesInstance, hostVars
    <2>3. TypeOK'
      BY <1>3, <1>4, <1>8 DEF InitViewInstanceInQueue, Returned, HostInv, TypeOK, Phase, hostVars
    <2> QED BY <1>4, <1>5, <2>1, <2>2, <2>3 DEF HostInv
  <1>9. CASE a.type = "uninit" /\ UninitViewInstanceInQueue(a)
    <2>1. /\ IdsGrow(m_actions, m_pendingUnloadActionId, m_nextUnloadActionId)' /\ LoadIsReady'
      BY <1>1, <1>2, <1>9 DEF UninitViewInstanceInQueue, IdsGrow, LoadIsReady, hostVars
    <2>2. InspectorPageMatchesInstance'
      BY <1>9 DEF UninitViewInstanceInQueue, HostInv, InspectorPageMatchesInstance, hostVars, instanceVars
    <2>3. TypeOK'
      BY <1>3, <1>4, <1>9 DEF UninitViewInstanceInQueue, Returned, HostInv, TypeOK, Phase, hostVars,
                              instanceVars
    <2> QED BY <1>4, <1>5, <2>1, <2>2, <2>3 DEF HostInv
  <1> QED BY <1>1, <1>6, <1>7, <1>8, <1>9 DEF StartAction

(* The steps of an action that is under way.                                *)
LEMMA PhaseKeeps ==
  ASSUME HostInv, UNCHANGED <<hostVars, viewVars, m_actions, instanceVars, requestVars, crashed>>,
         current' \in Action, phase' \in Phase, waitingOn' \subseteq View,
         phase = "uninitViews" => phase' = "uninitViews"
  PROVE  HostInv'
  <1>1. TypeOK' BY DEF HostInv, TypeOK, hostVars, viewVars, instanceVars
  <1>2. LoadIsReady' BY DEF HostInv, LoadIsReady, hostVars
  <1>3. InspectorPageMatchesInstance' /\ reloadCalls' \subseteq Options
    BY DEF HostInv, InspectorPageMatchesInstance, hostVars, instanceVars, requestVars
  <1>4. UNCHANGED <<m_actions, m_pendingUnloadActionId, m_nextUnloadActionId>> BY DEF hostVars
  <1> QED BY <1>1, <1>2, <1>3, <1>4, QueueUnchanged DEF HostInv

LEMMA ProgressKeeps ==
  ASSUME HostInv, Progress
  PROVE  HostInv'
  <1>0. current \in Action /\ phase \in Phase /\ waitingOn \subseteq View BY DEF HostInv, TypeOK
  <1>1. CASE StartAction BY <1>1, StartActionKeeps
  <1>2. CASE CompleteAction
    <2>1. NoAction \in Action BY DEF NoAction, Action
    <2> QED BY <1>0, <1>2, <2>1, PhaseKeeps DEF CompleteAction, Phase
  <1>3. CASE DestroyInstance
    <2>1. TypeOK'
      <3>1. m_inspectorPage' \in BOOLEAN BY <1>3, Zenon DEF DestroyInstance
      <3>2. m_reactInstance' \in Nat /\ m_isInstanceUnloading' \in BOOLEAN /\ phase' \in Phase
        BY <1>3 DEF DestroyInstance, Phase
      <3>3. UNCHANGED <<m_options, m_pendingUnloadActionId, m_nextUnloadActionId, isClosed, isFinalized,
                        viewVars, m_actions, current, waitingOn, instanceVars, crashed>>
        BY <1>3 DEF DestroyInstance
      <3> QED BY <3>1, <3>2, <3>3 DEF HostInv, TypeOK, viewVars, instanceVars
    <2>2. LoadIsReady' /\ InspectorPageMatchesInstance' /\ reloadCalls' \subseteq Options
      BY <1>3 DEF DestroyInstance, HostInv, LoadIsReady, InspectorPageMatchesInstance, requestVars
    <2>3. UNCHANGED <<m_actions, m_pendingUnloadActionId, m_nextUnloadActionId>>
      BY <1>3 DEF DestroyInstance
    <2> QED BY <2>1, <2>2, <2>3, QueueUnchanged DEF HostInv
  <1>4. CASE ViewsUpdated BY <1>0, <1>4, PhaseKeeps DEF ViewsUpdated, Phase
  <1>5. CASE InstanceLoaded
    <2>1. Updated \subseteq View BY DEF Updated, HostInv, TypeOK
    <2> QED BY <1>0, <1>5, <2>1, PhaseKeeps DEF InstanceLoaded, CompletePhase, Phase
  <1>6. CASE InstanceFailed BY <1>0, <1>6, PhaseKeeps DEF InstanceFailed, CompletePhase, Phase
  <1>7. CASE InstanceDestroyed BY <1>0, <1>7, PhaseKeeps DEF InstanceDestroyed, CompletePhase, Phase
  <1>8. CASE ViewActionDone BY <1>0, <1>8, PhaseKeeps DEF ViewActionDone, CompletePhase, Phase
  <1>9. CASE \E v \in View : ViewDone(v) BY <1>0, <1>9, PhaseKeeps DEF ViewDone
  <1>10. CASE ReloadInstance BY <1>10, HostRequestKeeps
  <1> QED
    BY <1>1, <1>2, <1>3, <1>4, <1>5, <1>6, <1>7, <1>8, <1>9, <1>10 DEF Progress

LEMMA FinalizeKeeps ==
  ASSUME HostInv, Finalize
  PROVE  HostInv'
  <1>0. /\ m_actions = <<>> /\ m_reactInstance' \in {0, m_reactInstance}
        /\ m_inspectorPage' \in {FALSE, m_inspectorPage}
        /\ m_reactInstance' # 0 => m_inspectorPage' = m_inspectorPage /\ m_reactInstance' = m_reactInstance
        /\ UNCHANGED <<m_actions, m_pendingUnloadActionId, m_nextUnloadActionId>>
    BY DEF Finalize, Idle, queueVars
  <1>1. TypeOK'
    BY <1>0 DEF Finalize, HostInv, TypeOK, viewVars, queueVars, instanceVars
  <1>2. LoadIsReady' /\ InspectorPageMatchesInstance' /\ reloadCalls' \subseteq Options
    BY <1>0 DEF Finalize, HostInv, LoadIsReady, InspectorPageMatchesInstance, instanceVars, requestVars
  <1> QED BY <1>0, <1>1, <1>2, QueueUnchanged DEF HostInv

LEMMA HostStep == HostInv /\ [Next]_vars => HostInv'
  <1> SUFFICES ASSUME HostInv, [Next]_vars PROVE HostInv' OBVIOUS
  <1>1. CASE HostRequest BY <1>1, HostRequestKeeps
  <1>2. CASE \E v \in View : ViewRequest(v) BY <1>2, ViewRequestKeeps
  <1>3. CASE Progress BY <1>3, ProgressKeeps
  <1>4. CASE Finalize BY <1>4, FinalizeKeeps
  <1>5. CASE UNCHANGED vars
    <2>1. UNCHANGED <<hostVars, viewVars, queueVars, instanceVars, requestVars, crashed>>
      BY <1>5 DEF vars
    <2> QED BY <2>1, PhaseKeeps DEF HostInv, TypeOK, queueVars
  <1> QED BY <1>1, <1>2, <1>3, <1>4, <1>5 DEF Next

-----------------------------------------------------------------------------
(* Theorems *)

(* Ids of unloads grow along the queue and never exceed the pending one,    *)
(* and a load that comes first finds no instance or a newer unload ahead.   *)
THEOREM HostInvariant == Spec => []HostInv
  BY HostInit, HostStep, PTL DEF Spec

(* The fields of the host, the views and the action queue keep their types. *)
THEOREM HostTypeCorrect == Spec => []TypeOK
  <1>1. HostInv => TypeOK BY DEF HostInv
  <1> QED BY <1>1, HostInvariant, PTL

(* The inspector page is there exactly for a live instance whose own        *)
(* options make it inspectable.                                             *)
THEOREM InspectorPageExact == Spec => []InspectorPageMatchesInstance
  <1>1. HostInv => InspectorPageMatchesInstance BY DEF HostInv
  <1> QED BY <1>1, HostInvariant, PTL

(* LoadInQueue runs only when there is no instance or a newer unload is     *)
(* pending, so it never replaces a live instance, for any number of views,  *)
(* options and requests.                                                    *)
THEOREM LoadNeverReplacesInstance == Spec => NoLoadOverInstance
  <1> DEFINE Keeps == m_reactInstance # 0 /\ m_reactInstance' # 0 => m_reactInstance' = m_reactInstance
  <1>1. ASSUME HostInv, Next PROVE Keeps
    <2>1. CASE HostRequest \/ ReloadInstance
      BY <2>1 DEF HostRequest, CallReloadInstance, ReloadInstance, ReloadInstanceWithOptions,
                  UnloadInstance, Close, PostUnload, PostReload, hostVars
    <2>2. CASE \E v \in View : ViewRequest(v)
      BY <2>2 DEF ViewRequest, AttachViewInstance, DetachViewInstance, ReloadViewInstance,
                  UnloadViewInstance, PostUninit, hostVars
    <2>3. CASE StartAction
      <3>1. Head(m_actions) = m_actions[1] /\ m_actions # <<>> /\ phase = "idle"
        BY <2>3, <1>1 DEF StartAction, HostInv, TypeOK
      <3>2. CASE Head(m_actions).type = "load" /\ LoadInQueue(Head(m_actions))
        BY <1>1, <3>1, <3>2 DEF HostInv, LoadIsReady, LoadInQueue
      <3>3. CASE ~(Head(m_actions).type = "load" /\ LoadInQueue(Head(m_actions)))
        BY <2>3, <3>3 DEF StartAction, UnloadInQueue, InitViewInstanceInQueue,
                          UninitViewInstanceInQueue, hostVars
      <3> QED BY <3>2, <3>3
    <2>4. CASE DestroyInstance BY <2>4 DEF DestroyInstance
    <2>5. CASE \/ CompleteAction \/ ViewsUpdated \/ InstanceLoaded \/ InstanceFailed
               \/ InstanceDestroyed \/ ViewActionDone \/ \E v \in View : ViewDone(v)
      BY <2>5 DEF CompleteAction, ViewsUpdated, InstanceLoaded, InstanceFailed, InstanceDestroyed,
                  ViewActionDone, ViewDone, CompletePhase, hostVars
    <2>6. CASE Finalize BY <2>6 DEF Finalize
    <2> QED BY <1>1, <2>1, <2>2, <2>3, <2>4, <2>5, <2>6 DEF Next, Progress
  <1>2. HostInv /\ [Next]_vars => [Keeps]_vars BY <1>1
  <1> QED BY <1>2, HostInvariant, PTL DEF Spec, NoLoadOverInstance

-----------------------------------------------------------------------------
(* The last request is never lost.  What is still to run of a request is    *)
(* said of the queue of actions by two operators: q has an action of S, and *)
(* q has one that no action of T comes after.                               *)

Has(q, S) == \E i \in DOMAIN q : q[i] \in S
HasLast(q, S, T) ==
  \E i \in DOMAIN q : q[i] \in S /\ \A j \in DOMAIN q : j > i => q[j] \notin T

Loads == {a \in Action : a.type = "load"}
LoadsOf(o) == {a \in Loads : a.options = o}
Unloads == {a \in Action : a.type = "unload"}
UnloadsOf(id) == {a \in Unloads : a.id = id}
Inits(v) == {a \in Action : a.type = "init" /\ a.view = v}
Uninits(v) == {a \in Action : a.type = "uninit" /\ a.view = v}
UninitsOf(v, id) == {a \in Uninits(v) : a.id = id}

(* A pending id is the id of an action that is still to run, and 0 of none. *)
PendingIsQueued ==
  /\ m_pendingUnloadActionId # 0 => Has(m_actions, UnloadsOf(m_pendingUnloadActionId))
  /\ \A v \in View :
       /\ m_pendingUninitActionId[v] # 0 => Has(m_actions, UninitsOf(v, m_pendingUninitActionId[v]))
       /\ ~Has(m_actions, UninitsOf(v, 0))

(* While the views are uninitialised no view is initialised: those that     *)
(* still are have an uninit action of their own.                            *)
UnloadingViews ==
  /\ m_isInstanceUnloading <=> phase = "uninitViews"
  /\ phase = "uninitViews" => \A v \in m_isViewInstanceInited : m_pendingUninitActionId[v] # 0

(* The last reload is in the queue, or there is the instance it asked for   *)
(* and nothing in the queue or under way that touches it.                   *)
ReloadIsKept ==
  lastRequest.kind = "reload" /\ ~isClosed =>
    \/ HasLast(m_actions, LoadsOf(lastRequest.options), Loads \cup Unloads)
    \/ /\ m_reactInstance # 0 /\ instanceOptions = lastRequest.options
       /\ ~Has(m_actions, Loads \cup Unloads) /\ phase # "uninitViews"

(* After an unload or a close there is no instance, or it is on its way     *)
(* out, and a load that is still in the queue comes before an unload.       *)
UnloadIsKept ==
  /\ lastRequest.kind = "unload" => ~HasLast(m_actions, Loads, Unloads)
  /\ lastRequest.kind = "unload" \/ isClosed =>
       m_pendingUnloadActionId # 0 \/ m_reactInstance = 0 \/ phase = "uninitViews"

(* A view with an uninit action that is not to stay unloaded has an init    *)
(* action after it.                                                         *)
InitFollows ==
  \A v \in View \ viewUnloaded :
    m_pendingUninitActionId[v] # 0 => HasLast(m_actions, Inits(v), Uninits(v))

(* With an instance that stays, an attached view shows it or will be        *)
(* initialised.                                                             *)
ShownOrAhead ==
  ~crashed /\ m_reactInstance # 0 /\ m_pendingUnloadActionId = 0 /\ phase # "uninitViews" /\ ~isClosed =>
    \A v \in m_viewInstance \ viewUnloaded :
      \/ v \in m_isViewInstanceInited /\ boundTo[v] = m_reactInstance /\ m_pendingUninitActionId[v] = 0
      \/ HasLast(m_actions, Inits(v), Uninits(v))

FinalizedIsIdle ==
  isFinalized => Idle /\ m_viewInstance = {} /\ m_reactInstance = 0

RequestInv ==
  /\ lastRequest \in [kind : {"none", "unload"}] \cup [kind : {"reload"}, options : Options]
  /\ m_isViewInstanceInited \subseteq m_viewInstance
  /\ PendingIsQueued
  /\ UnloadingViews
  /\ StaleViewIsUninited
  /\ ReloadIsKept
  /\ UnloadIsKept
  /\ InitFollows
  /\ ShownOrAhead
  /\ FinalizedIsIdle

(* What is in a longer queue, in its tail, and in the queues that are       *)
(* posted.                                                                  *)
LEMMA HasAppended ==
  ASSUME NEW q \in Seq(Action), NEW e \in Seq(Action), NEW S, NEW T
  PROVE  /\ Has(q \o e, S) <=> Has(q, S) \/ Has(e, S)
         /\ HasLast(q \o e, S, T) <=> HasLast(e, S, T) \/ (HasLast(q, S, T) /\ ~Has(e, T))
<1> DEFINE u == q \o e
<1>1. /\ Len(q) \in Nat /\ Len(e) \in Nat /\ DOMAIN q = 1..Len(q) /\ DOMAIN e = 1..Len(e)
      /\ DOMAIN u = 1..(Len(q) + Len(e))
  BY Appended
<1>2. /\ \A i \in DOMAIN q : i \in DOMAIN u /\ u[i] = q[i]
      /\ \A i \in DOMAIN e : Len(q) + i \in DOMAIN u /\ u[Len(q) + i] = e[i]
  OBVIOUS
<1>3. \A i \in DOMAIN u : i \in DOMAIN q \/ \E k \in DOMAIN e : i = Len(q) + k
  <2> SUFFICES ASSUME NEW i \in DOMAIN u, i \notin DOMAIN q PROVE \E k \in DOMAIN e : i = Len(q) + k
    OBVIOUS
  <2>1. i - Len(q) \in DOMAIN e /\ i = Len(q) + (i - Len(q))
    BY <1>1
  <2> QED
    BY <2>1
<1> HIDE DEF u
<1>4. Has(u, S) <=> Has(q, S) \/ Has(e, S)
  BY <1>2, <1>3 DEF Has
<1>5. ASSUME HasLast(u, S, T) PROVE HasLast(e, S, T) \/ (HasLast(q, S, T) /\ ~Has(e, T))
  <2>1. PICK i \in DOMAIN u : u[i] \in S /\ \A j \in DOMAIN u : j > i => u[j] \notin T
    BY <1>5 DEF HasLast
  <2>2. CASE i \in DOMAIN q
    <3>1. q[i] \in S /\ \A j \in DOMAIN q : j > i => q[j] \notin T
      BY <1>2, <2>1, <2>2
    <3>2. \A k \in DOMAIN e : Len(q) + k > i
      BY <1>1, <2>2
    <3> QED
      BY <1>2, <2>1, <2>2, <3>1, <3>2 DEF HasLast, Has
  <2>3. ASSUME NEW k \in DOMAIN e, i = Len(q) + k PROVE HasLast(e, S, T)
    <3>1. \A j \in DOMAIN e : j > k => Len(q) + j > i
      BY <1>1, <2>3
    <3> QED
      BY <1>2, <2>1, <2>3, <3>1 DEF HasLast
  <2> QED
    BY <1>3, <2>2, <2>3
<1>6. ASSUME HasLast(e, S, T) PROVE HasLast(u, S, T)
  <2>1. PICK k \in DOMAIN e : e[k] \in S /\ \A j \in DOMAIN e : j > k => e[j] \notin T
    BY <1>6 DEF HasLast
  <2>2. ASSUME NEW j \in DOMAIN u, j > Len(q) + k PROVE u[j] \notin T
    <3>1. j \notin DOMAIN q
      BY <1>1, <2>2
    <3>2. PICK l \in DOMAIN e : j = Len(q) + l
      BY <1>3, <3>1
    <3>3. l > k
      BY <1>1, <2>2, <3>2
    <3> QED
      BY <1>2, <2>1, <3>2, <3>3
  <2> QED
    BY <1>2, <2>1, <2>2 DEF HasLast
<1>7. ASSUME HasLast(q, S, T), ~Has(e, T) PROVE HasLast(u, S, T)
  <2>1. PICK i \in DOMAIN q : q[i] \in S /\ \A j \in DOMAIN q : j > i => q[j] \notin T
    BY <1>7 DEF HasLast
  <2>2. \A j \in DOMAIN u : j > i => u[j] \notin T
    BY <1>2, <1>3, <1>7, <2>1 DEF Has
  <2> QED
    BY <1>2, <2>1, <2>2 DEF HasLast
<1> QED
  BY <1>4, <1>5, <1>6, <1>7 DEF u

LEMMA HasTail ==
  ASSUME NEW q \in Seq(Action), q # <<>>, NEW S, NEW T
  PROVE  /\ Has(q, S) <=> q[1] \in S \/ Has(Tail(q), S)
         /\ HasLast(q, S, T) <=> HasLast(Tail(q), S, T) \/ (q[1] \in S /\ ~Has(Tail(q), T))
<1> DEFINE d == <<q[1]>>
<1>1. q[1] \in Action /\ Tail(q) \in Seq(Action) /\ q = d \o Tail(q)
  OBVIOUS
<1>2. d \in Seq(Action) /\ DOMAIN d = {1} /\ d[1] = q[1]
  BY <1>1
<1>3. (Has(d, S) <=> q[1] \in S) /\ (HasLast(d, S, T) <=> q[1] \in S)
  BY <1>2 DEF Has, HasLast
<1> HIDE DEF d
<1>4. /\ Has(d \o Tail(q), S) <=> Has(d, S) \/ Has(Tail(q), S)
      /\ HasLast(d \o Tail(q), S, T) <=> HasLast(Tail(q), S, T) \/ (HasLast(d, S, T) /\ ~Has(Tail(q), T))
  BY <1>1, <1>2, HasAppended
<1> QED
  BY <1>1, <1>3, <1>4

LEMMA HasOne ==
  ASSUME NEW a, NEW S, NEW T
  PROVE  (Has(<<a>>, S) <=> a \in S) /\ (HasLast(<<a>>, S, T) <=> a \in S)
BY DEF Has, HasLast

LEMMA HasTwo ==
  ASSUME NEW a, NEW b, NEW S, NEW T
  PROVE  /\ Has(<<a, b>>, S) <=> a \in S \/ b \in S
         /\ HasLast(<<a, b>>, S, T) <=> b \in S \/ (a \in S /\ b \notin T)
<1> DEFINE e == <<a, b>>
<1>1. DOMAIN e = {1, 2} /\ e[1] = a /\ e[2] = b
  OBVIOUS
<1> HIDE DEF e
<1>2. Has(e, S) <=> a \in S \/ b \in S
  BY <1>1 DEF Has
<1>3. HasLast(e, S, T) <=> b \in S \/ (a \in S /\ b \notin T)
  BY <1>1 DEF HasLast
<1> QED
  BY <1>2, <1>3 DEF e

LEMMA TwoActions ==
  ASSUME NEW a \in Action, NEW b \in Action
  PROVE  <<a, b>> \in Seq(Action)
OBVIOUS

LEMMA HasNone ==
  ASSUME NEW S, NEW T
  PROVE  ~Has(<<>>, S) /\ ~HasLast(<<>>, S, T)
BY DEF Has, HasLast

LEMMA HasMonotone ==
  ASSUME NEW q, NEW S, NEW T, S \subseteq T, Has(q, S)
  PROVE  Has(q, T)
BY DEF Has

(* Which sets an action is in follows from its type.                        *)
LEMMA ActionKinds ==
  ASSUME NEW a \in Action, NEW v
  PROVE  /\ a \in Loads <=> a.type = "load"
         /\ a \in Unloads <=> a.type = "unload"
         /\ a \in Inits(v) <=> a.type = "init" /\ a.view = v
         /\ a \in Uninits(v) <=> a.type = "uninit" /\ a.view = v
         /\ \A o : a \in LoadsOf(o) <=> a.type = "load" /\ a.options = o
         /\ \A id : a \in UnloadsOf(id) <=> a.type = "unload" /\ a.id = id
         /\ \A id : a \in UninitsOf(v, id) <=> a.type = "uninit" /\ a.view = v /\ a.id = id
BY DEF Loads, LoadsOf, Unloads, UnloadsOf, Inits, Uninits, UninitsOf

LEMMA RequestInit == Init => RequestInv
<1> SUFFICES ASSUME Init PROVE RequestInv
  OBVIOUS
<1>1. m_actions = <<>> /\ \A S, T : ~Has(m_actions, S) /\ ~HasLast(m_actions, S, T)
  BY HasNone DEF Init
<1> QED
  BY <1>1 DEF Init, RequestInv, PendingIsQueued, UnloadingViews, StaleViewIsUninited, ReloadIsKept,
     UnloadIsKept, InitFollows, ShownOrAhead, FinalizedIsIdle

(* Steps that leave the host, the views and the queue alone, and neither    *)
(* begin nor end the wait for the views.                                    *)
LEMMA RequestKept ==
  ASSUME RequestInv,
         UNCHANGED <<hostVars, viewVars, m_actions, instanceVars, lastRequest, viewUnloaded, crashed>>,
         phase' = "uninitViews" <=> phase = "uninitViews",
         isFinalized => phase' = phase
  PROVE  RequestInv'
<1> USE DEF RequestInv, hostVars, viewVars, instanceVars
<1>1. PendingIsQueued' /\ UnloadingViews' /\ StaleViewIsUninited' /\ FinalizedIsIdle'
  BY DEF PendingIsQueued, UnloadingViews, StaleViewIsUninited, FinalizedIsIdle, Idle
<1>2. ReloadIsKept' /\ UnloadIsKept'
  BY DEF ReloadIsKept, UnloadIsKept
<1>3. InitFollows' /\ ShownOrAhead'
  BY DEF InitFollows, ShownOrAhead
<1> QED
  BY <1>1, <1>2, <1>3

-----------------------------------------------------------------------------
(* The requests *)

(* Actions posted by the host do not disturb the ones of the views.         *)
LEMMA HostPosted ==
  ASSUME HostInv, RequestInv, NEW e \in Seq(Action), PostActions(e),
         \A v \in View : ~Has(e, Uninits(v)), \A v \in View : ~Has(e, UninitsOf(v, 0)),
         UNCHANGED <<viewVars, viewUnloaded>>
  PROVE  /\ \A v \in View :
              /\ m_pendingUninitActionId'[v] # 0 => Has(m_actions', UninitsOf(v, m_pendingUninitActionId'[v]))
              /\ ~Has(m_actions', UninitsOf(v, 0))
         /\ InitFollows'
<1>1. m_actions' = m_actions \o e /\ m_actions \in Seq(Action)
  BY DEF PostActions, HostInv, TypeOK
<1>2. \A S, T : /\ Has(m_actions', S) <=> Has(m_actions, S) \/ Has(e, S)
                /\ HasLast(m_actions', S, T) <=> HasLast(e, S, T) \/ (HasLast(m_actions, S, T) /\ ~Has(e, T))
  BY <1>1, HasAppended
<1>3. UNCHANGED <<m_pendingUninitActionId, viewUnloaded>>
  BY DEF viewVars
<1> QED
  BY <1>2, <1>3 DEF RequestInv, PendingIsQueued, InitFollows

LEMMA PostReloadRequest ==
  ASSUME HostInv, RequestInv, QueueIsFree, NEW o \in Options, PostReload(o)
  PROVE  RequestInv'
<1> DEFINE n == NextUnloadId
           e == <<Unload(n, FALSE), Load(o)>>
<1>1. /\ Unload(n, FALSE) \in Action /\ Unload(n, FALSE).type = "unload" /\ Unload(n, FALSE).id = n
      /\ Load(o) \in Action /\ Load(o).type = "load" /\ Load(o).options = o
  BY UnloadIsAction DEF Unload, Load
<1>2. n # 0
  BY DEF NextUnloadId, HostInv, TypeOK
<1>3. PostActions(e) /\ m_pendingUnloadActionId' = n /\ lastRequest' = [kind |-> "reload", options |-> o]
  BY DEF PostReload, MakeUnloadInstanceAction
<1>4. UNCHANGED <<m_isInstanceUnloading, m_reactInstance, isClosed, isFinalized, viewVars, instanceVars,
                  viewUnloaded, crashed, phase>>
  BY DEF PostReload, PostActions
<1>5. \A S, T : /\ Has(e, S) <=> Unload(n, FALSE) \in S \/ Load(o) \in S
                /\ HasLast(e, S, T) <=> Load(o) \in S \/ (Unload(n, FALSE) \in S /\ Load(o) \notin T)
  BY HasTwo
<1>6. e \in Seq(Action)
  BY <1>1, TwoActions
<1> HIDE DEF e, n
<1>7. \A v \in View : ~Has(e, Uninits(v)) /\ ~Has(e, UninitsOf(v, 0))
  BY <1>1, <1>5, ActionKinds
<1>8. /\ \A v \in View :
           /\ m_pendingUninitActionId'[v] # 0 => Has(m_actions', UninitsOf(v, m_pendingUninitActionId'[v]))
           /\ ~Has(m_actions', UninitsOf(v, 0))
      /\ InitFollows'
  BY <1>3, <1>4, <1>6, <1>7, HostPosted
<1>9. \A S, T : /\ Has(e, S) => Has(m_actions', S)
                /\ HasLast(e, S, T) => HasLast(m_actions', S, T)
  <2>1. m_actions' = m_actions \o e /\ m_actions \in Seq(Action)
    BY <1>3 DEF PostActions, HostInv, TypeOK
  <2> QED
    BY <1>6, <2>1, HasAppended
<1>10. PendingIsQueued'
  BY <1>1, <1>3, <1>5, <1>8, <1>9, ActionKinds DEF PendingIsQueued
<1>11. ReloadIsKept'
  <2>1. HasLast(m_actions', LoadsOf(o), Loads \cup Unloads)
    BY <1>1, <1>5, <1>9, ActionKinds
  <2> QED
    BY <1>3, <2>1 DEF ReloadIsKept
<1>12. UnloadIsKept' /\ ShownOrAhead' /\ StaleViewIsUninited'
  BY <1>2, <1>3 DEF UnloadIsKept, ShownOrAhead, StaleViewIsUninited
<1>13. UnloadingViews' /\ FinalizedIsIdle' /\ m_isViewInstanceInited' \subseteq m_viewInstance'
  BY <1>4 DEF RequestInv, UnloadingViews, FinalizedIsIdle, QueueIsFree, viewVars
<1> QED
  BY <1>3, <1>8, <1>10, <1>11, <1>12, <1>13 DEF RequestInv

LEMMA PostUnloadRequest ==
  ASSUME HostInv, RequestInv, NEW c \in BOOLEAN, PostUnload(c)
  PROVE  RequestInv'
<1> DEFINE n == NextUnloadId
           e == <<Unload(n, c)>>
<1>1. /\ Unload(n, c) \in Action /\ Unload(n, c).type = "unload" /\ Unload(n, c).id = n
      /\ m_options \in Options
  BY UnloadIsAction DEF Unload, HostInv, TypeOK
<1>2. n # 0
  BY DEF NextUnloadId, HostInv, TypeOK
<1>3. /\ PostActions(e) /\ m_pendingUnloadActionId' = n /\ lastRequest' = [kind |-> "unload"]
      /\ QueueIsFree
  BY DEF PostUnload, MakeUnloadInstanceAction, Request
<1>4. UNCHANGED <<m_isInstanceUnloading, m_reactInstance, isFinalized, viewVars, instanceVars,
                  viewUnloaded, crashed, phase>>
  BY DEF PostUnload, PostActions
<1>5. \A S, T : (Has(e, S) <=> Unload(n, c) \in S) /\ (HasLast(e, S, T) <=> Unload(n, c) \in S)
  BY HasOne
<1>6. e \in Seq(Action)
  BY <1>1
<1> HIDE DEF e, n
<1>7. \A v \in View : ~Has(e, Uninits(v)) /\ ~Has(e, UninitsOf(v, 0))
  BY <1>1, <1>5, ActionKinds
<1>8. /\ \A v \in View :
           /\ m_pendingUninitActionId'[v] # 0 => Has(m_actions', UninitsOf(v, m_pendingUninitActionId'[v]))
           /\ ~Has(m_actions', UninitsOf(v, 0))
      /\ InitFollows'
  BY <1>3, <1>4, <1>6, <1>7, HostPosted
<1>9. \A S, T : /\ Has(e, S) => Has(m_actions', S)
                /\ HasLast(m_actions', S, T) => HasLast(e, S, T) \/ ~Has(e, T)
  <2>1. m_actions' = m_actions \o e /\ m_actions \in Seq(Action)
    BY <1>3 DEF PostActions, HostInv, TypeOK
  <2> QED
    BY <1>6, <2>1, HasAppended
<1>10. PendingIsQueued'
  BY <1>1, <1>3, <1>5, <1>8, <1>9, ActionKinds DEF PendingIsQueued
<1>11. UnloadIsKept'
  <2>1. ~HasLast(m_actions', Loads, Unloads)
    BY <1>1, <1>5, <1>9, ActionKinds
  <2> QED
    BY <1>2, <1>3, <2>1 DEF UnloadIsKept
<1>12. ReloadIsKept' /\ ShownOrAhead' /\ StaleViewIsUninited'
  BY <1>2, <1>3 DEF ReloadIsKept, ShownOrAhead, StaleViewIsUninited
<1>13. UnloadingViews' /\ FinalizedIsIdle' /\ m_isViewInstanceInited' \subseteq m_viewInstance'
  BY <1>3, <1>4 DEF RequestInv, UnloadingViews, FinalizedIsIdle, QueueIsFree, viewVars
<1> QED
  BY <1>3, <1>8, <1>10, <1>11, <1>12, <1>13 DEF RequestInv

(* Reloading or unloading a view.                                           *)
LEMMA PostUninitRequest ==
  ASSUME HostInv, RequestInv, NEW v \in View, NEW others \in {<<>>} \cup {<<InitView(v, new)>> : new \in BOOLEAN},
         PostUninit(v, others),
         viewUnloaded' = IF others = <<>> THEN viewUnloaded \cup {v} ELSE viewUnloaded \ {v}
  PROVE  RequestInv'
<1> DEFINE id == m_nextUninitActionId[v] + 1
           e == <<UninitView(v, id)>> \o others
           d == <<UninitView(v, id)>>
<1>1. id \in Nat /\ id # 0
  BY DEF HostInv, TypeOK
<1>2. /\ QueueIsFree /\ PostActions(e) /\ UNCHANGED <<hostVars, m_viewInstance, m_isViewInstanceInited,
                                                     instanceVars, lastRequest, crashed>>
      /\ m_pendingUninitActionId' = [m_pendingUninitActionId EXCEPT ![v] = id]
  BY DEF PostUninit, Request
<1> HIDE DEF id
<1>3. /\ UninitView(v, id) \in Action /\ UninitView(v, id).type = "uninit"
      /\ UninitView(v, id).view = v /\ UninitView(v, id).id = id
  BY <1>1 DEF UninitView, Action
<1>4. /\ others \in Seq(Action)
      /\ \A u \in View : ~Has(others, Uninits(u)) /\ (u # v => ~Has(others, Inits(u)))
      /\ \A u \in View : \A i : ~Has(others, UninitsOf(u, i))
      /\ ~Has(others, Loads \cup Unloads) /\ ~HasLast(others, Loads, Unloads)
      /\ others # <<>> => HasLast(others, Inits(v), Uninits(v))
  <2>1. CASE others = <<>>
    <3>1. others \in Seq(Action) /\ \A S, T : ~Has(others, S) /\ ~HasLast(others, S, T)
      BY <2>1, HasNone
    <3> QED
      BY <2>1, <3>1
  <2>2. CASE others # <<>>
    <3>1. PICK new \in BOOLEAN : others = <<InitView(v, new)>>
      BY <2>2
    <3>2. /\ InitView(v, new) \in Action /\ InitView(v, new).type = "init" /\ InitView(v, new).view = v
      BY DEF InitView, Action
    <3>3. \A S, T : (Has(others, S) <=> InitView(v, new) \in S) /\ (HasLast(others, S, T) <=> InitView(v, new) \in S)
      BY <3>1, HasOne
    <3>4. others \in Seq(Action)
      BY <3>1, <3>2
    <3> QED
      BY <3>2, <3>3, <3>4, ActionKinds
  <2> QED
    BY <2>1, <2>2
<1>5. /\ d \in Seq(Action)
      /\ \A S, T : (Has(d, S) <=> UninitView(v, id) \in S) /\ (HasLast(d, S, T) <=> UninitView(v, id) \in S)
  BY <1>3, HasOne
<1> HIDE DEF d
<1>6. /\ e \in Seq(Action)
      /\ \A S, T : /\ Has(e, S) <=> UninitView(v, id) \in S \/ Has(others, S)
                   /\ HasLast(e, S, T) <=> \/ HasLast(others, S, T)
                                           \/ UninitView(v, id) \in S /\ ~Has(others, T)
  BY <1>4, <1>5, HasAppended, Appended DEF d
<1> HIDE DEF e
<1>7. \A S, T : /\ Has(m_actions', S) <=> Has(m_actions, S) \/ Has(e, S)
                /\ HasLast(m_actions', S, T) <=> HasLast(e, S, T) \/ (HasLast(m_actions, S, T) /\ ~Has(e, T))
  <2>1. m_actions' = m_actions \o e /\ m_actions \in Seq(Action)
    BY <1>2 DEF PostActions, HostInv, TypeOK
  <2> QED
    BY <1>6, <2>1, HasAppended
<1>8. /\ ~Has(e, Loads \cup Unloads) /\ ~HasLast(e, Loads, Unloads) /\ ~Has(e, Unloads)
      /\ Has(e, UninitsOf(v, id)) /\ \A u \in View : ~Has(e, UninitsOf(u, 0))
      /\ \A u \in View : u # v => ~Has(e, Uninits(u))
      /\ others # <<>> => HasLast(e, Inits(v), Uninits(v))
  <2>1. ~Has(others, Unloads)
    BY <1>4, HasMonotone
  <2> QED
    BY <1>1, <1>3, <1>4, <1>6, <2>1, ActionKinds
<1>9. /\ m_pendingUninitActionId'[v] = id
      /\ \A u \in View : u # v => m_pendingUninitActionId'[u] = m_pendingUninitActionId[u]
  BY <1>2 DEF HostInv, TypeOK
<1>10. PendingIsQueued'
  BY <1>2, <1>7, <1>8, <1>9 DEF PendingIsQueued, RequestInv, hostVars
<1>11. InitFollows'
  BY <1>7, <1>8, <1>9 DEF InitFollows, RequestInv
<1>12. ShownOrAhead'
  <2> SUFFICES ASSUME ~crashed, m_reactInstance # 0, m_pendingUnloadActionId = 0, phase # "uninitViews",
                      ~isClosed, NEW u \in m_viewInstance \ viewUnloaded'
               PROVE  \/ /\ u \in m_isViewInstanceInited /\ boundTo[u] = m_reactInstance
                         /\ m_pendingUninitActionId'[u] = 0
                      \/ HasLast(m_actions', Inits(u), Uninits(u))
    BY <1>2 DEF ShownOrAhead, hostVars, instanceVars, PostActions
  <2>1. CASE u = v
    BY <1>7, <1>8, <2>1
  <2>2. CASE u # v
    <3>1. u \in View /\ u \notin viewUnloaded
      BY <2>2 DEF HostInv, TypeOK
    <3> QED
      BY <1>7, <1>8, <1>9, <2>2, <3>1 DEF RequestInv, ShownOrAhead
  <2> QED
    BY <2>1, <2>2
<1>13. ReloadIsKept' /\ UnloadIsKept'
  BY <1>2, <1>7, <1>8 DEF RequestInv, ReloadIsKept, UnloadIsKept, hostVars, instanceVars, PostActions
<1>14. StaleViewIsUninited'
  BY <1>1, <1>2, <1>9 DEF RequestInv, HostInv, TypeOK, StaleViewIsUninited, hostVars, instanceVars
<1>15. UnloadingViews'
  BY <1>1, <1>2, <1>9 DEF RequestInv, HostInv, TypeOK, UnloadingViews, hostVars, PostActions
<1>16. FinalizedIsIdle' /\ m_isViewInstanceInited' \subseteq m_viewInstance'
  BY <1>2 DEF RequestInv, FinalizedIsIdle, QueueIsFree, hostVars
<1> QED
  BY <1>2, <1>10, <1>11, <1>12, <1>13, <1>14, <1>15, <1>16 DEF RequestInv

(* Attaching a view shows it at once, unless it has an action ahead.        *)
LEMMA AttachRequest ==
  ASSUME HostInv, RequestInv, NEW v \in View, AttachViewInstance(v)
  PROVE  RequestInv'
<1> DEFINE shown == v \notin m_isViewInstanceInited /\ CanInit(v, m_reactInstance)
<1> USE DEF RequestInv, hostVars, queueVars
<1>1. /\ QueueIsFree /\ v \notin m_viewInstance /\ m_viewInstance' = m_viewInstance \cup {v}
      /\ UNCHANGED <<hostVars, m_pendingUninitActionId, queueVars, instanceOptions, lastRequest, crashed>>
      /\ viewUnloaded' = IF m_pendingUninitActionId[v] = 0 THEN viewUnloaded \ {v} ELSE viewUnloaded
  BY DEF AttachViewInstance, Request
<1>2. /\ shown => m_isViewInstanceInited' = m_isViewInstanceInited \cup {v} /\ boundTo'[v] = m_reactInstance
      /\ ~shown => m_isViewInstanceInited' = m_isViewInstanceInited
      /\ \A u \in View : u # v => boundTo'[u] = boundTo[u]
      /\ v \notin m_isViewInstanceInited
  BY <1>1 DEF AttachViewInstance, HostInv, TypeOK
<1>3. PendingIsQueued' /\ InitFollows'
  BY <1>1 DEF PendingIsQueued, InitFollows
<1>4. ReloadIsKept' /\ UnloadIsKept'
  BY <1>1 DEF ReloadIsKept, UnloadIsKept
<1>5. m_isViewInstanceInited' \subseteq m_viewInstance' /\ FinalizedIsIdle'
  BY <1>1, <1>2 DEF FinalizedIsIdle, QueueIsFree
<1>6. UnloadingViews'
  <2>1. phase = "uninitViews" => ~shown
    BY DEF CanInit, UnloadingViews
  <2> QED
    BY <1>1, <1>2, <2>1 DEF UnloadingViews
<1>7. StaleViewIsUninited'
  BY <1>1, <1>2 DEF StaleViewIsUninited, HostInv, TypeOK
<1>8. ShownOrAhead'
  <2> SUFFICES ASSUME ~crashed, m_reactInstance # 0, m_pendingUnloadActionId = 0, phase # "uninitViews",
                      ~isClosed, NEW u \in m_viewInstance' \ viewUnloaded'
               PROVE  \/ /\ u \in m_isViewInstanceInited' /\ boundTo'[u] = m_reactInstance
                         /\ m_pendingUninitActionId[u] = 0
                      \/ HasLast(m_actions, Inits(u), Uninits(u))
    BY <1>1 DEF ShownOrAhead
  <2>1. CASE u = v /\ m_pendingUninitActionId[v] = 0
    BY <1>2, <2>1 DEF CanInit, UnloadingViews
  <2>2. CASE u = v /\ m_pendingUninitActionId[v] # 0
    BY <1>1, <2>2 DEF InitFollows
  <2>3. CASE u # v
    <3>1. u \in View /\ u \in m_viewInstance \ viewUnloaded
      BY <1>1, <2>3 DEF HostInv, TypeOK
    <3> QED
      BY <1>1, <1>2, <2>3, <3>1 DEF ShownOrAhead
  <2> QED
    BY <2>1, <2>2, <2>3
<1> QED
  BY <1>1, <1>3, <1>4, <1>5, <1>6, <1>7, <1>8

LEMMA DetachRequest ==
  ASSUME HostInv, RequestInv, NEW v \in View, DetachViewInstance(v)
  PROVE  RequestInv'
<1> USE DEF RequestInv, hostVars, queueVars, instanceVars
<1>1. /\ QueueIsFree /\ m_viewInstance' = m_viewInstance \ {v}
      /\ m_isViewInstanceInited' = m_isViewInstanceInited \ {v}
      /\ UNCHANGED <<hostVars, m_pendingUninitActionId, queueVars, instanceVars, lastRequest, viewUnloaded,
                     crashed>>
  BY DEF DetachViewInstance, Request
<1>2. PendingIsQueued' /\ InitFollows' /\ ReloadIsKept' /\ UnloadIsKept'
  BY <1>1 DEF PendingIsQueued, InitFollows, ReloadIsKept, UnloadIsKept
<1>3. StaleViewIsUninited' /\ UnloadingViews' /\ m_isViewInstanceInited' \subseteq m_viewInstance'
  BY <1>1 DEF StaleViewIsUninited, UnloadingViews
<1>4. FinalizedIsIdle' /\ ShownOrAhead'
  BY <1>1 DEF FinalizedIsIdle, QueueIsFree, ShownOrAhead
<1> QED
  BY <1>1, <1>2, <1>3, <1>4

LEMMA AnyRequest ==
  ASSUME HostInv, RequestInv, HostRequest \/ ReloadInstance \/ \E v \in View : ViewRequest(v)
  PROVE  RequestInv'
<1>1. CASE CallReloadInstance
  BY <1>1, RequestKept DEF CallReloadInstance, queueVars
<1>2. CASE ReloadInstance \/ ReloadInstanceWithOptions
  BY <1>2, PostReloadRequest DEF ReloadInstance, ReloadInstanceWithOptions, Request, HostInv
<1>3. CASE UnloadInstance \/ Close
  BY <1>3, PostUnloadRequest DEF UnloadInstance, Close
<1>4. ASSUME NEW v \in View, ViewRequest(v) PROVE RequestInv'
  <2>1. CASE ReloadViewInstance(v)
    <3>1. PICK new \in BOOLEAN : PostUninit(v, <<InitView(v, new)>>)
      BY <2>1 DEF ReloadViewInstance
    <3>2. <<InitView(v, new)>> # <<>>
      OBVIOUS
    <3> QED
      BY <2>1, <3>1, <3>2, PostUninitRequest DEF ReloadViewInstance
  <2>2. CASE UnloadViewInstance(v)
    BY <2>2, PostUninitRequest DEF UnloadViewInstance
  <2> QED
    BY <1>4, <2>1, <2>2, AttachRequest, DetachRequest DEF ViewRequest
<1> QED
  BY <1>1, <1>2, <1>3, <1>4 DEF HostRequest

-----------------------------------------------------------------------------
(* The actions *)

(* What is left in the queue when its first action starts.                  *)
RestOfQueue(a) ==
  /\ a \in Action /\ m_actions' \in Seq(Action)
  /\ phase = "idle" /\ ~crashed /\ ~isFinalized
  /\ UNCHANGED <<lastRequest, viewUnloaded>>
  /\ m_pendingUnloadActionId # 0 =>
       a \in UnloadsOf(m_pendingUnloadActionId) \/ Has(m_actions', UnloadsOf(m_pendingUnloadActionId))
  /\ m_pendingUnloadActionId = 0 => a \notin Unloads /\ ~Has(m_actions', Unloads)
  /\ \A v \in View :
       /\ m_pendingUninitActionId[v] # 0 =>
            \/ a \in UninitsOf(v, m_pendingUninitActionId[v])
            \/ Has(m_actions', UninitsOf(v, m_pendingUninitActionId[v]))
       /\ a \notin UninitsOf(v, 0) /\ ~Has(m_actions', UninitsOf(v, 0))
       /\ HasLast(m_actions, Inits(v), Uninits(v)) =>
            \/ HasLast(m_actions', Inits(v), Uninits(v))
            \/ a \in Inits(v) /\ ~Has(m_actions', Uninits(v)) /\ m_pendingUninitActionId[v] = 0
  /\ lastRequest.kind = "reload" /\ ~isClosed =>
       \/ HasLast(m_actions', LoadsOf(lastRequest.options), Loads \cup Unloads)
       \/ /\ a \in LoadsOf(lastRequest.options) /\ m_pendingUnloadActionId = 0
          /\ ~Has(m_actions', Loads \cup Unloads)
       \/ /\ m_reactInstance # 0 /\ instanceOptions = lastRequest.options
          /\ a \notin Loads \cup Unloads /\ ~Has(m_actions', Loads \cup Unloads)
  /\ lastRequest.kind = "unload" =>
       /\ ~HasLast(m_actions', Loads, Unloads)
       /\ a \in Loads => m_pendingUnloadActionId # 0

LEMMA StartActionRest ==
  ASSUME HostInv, RequestInv, StartAction
  PROVE  RestOfQueue(Head(m_actions))
<1> DEFINE a == m_actions[1]
<1>1. /\ m_actions \in Seq(Action) /\ m_actions # <<>> /\ Head(m_actions) = a /\ a \in Action
      /\ m_actions' = Tail(m_actions) /\ m_actions' \in Seq(Action)
      /\ phase = "idle" /\ ~crashed /\ UNCHANGED <<lastRequest, viewUnloaded>>
  BY DEF StartAction, HostInv, TypeOK, requestVars
<1>2. ~isFinalized
  BY <1>1 DEF RequestInv, FinalizedIsIdle, Idle
<1>3. \A S, T : /\ Has(m_actions, S) <=> a \in S \/ Has(m_actions', S)
                /\ HasLast(m_actions, S, T) <=> HasLast(m_actions', S, T) \/ (a \in S /\ ~Has(m_actions', T))
  BY <1>1, HasTail
<1>4. m_pendingUnloadActionId = 0 => ~Has(m_actions, Unloads)
  BY DEF HostInv, IdsGrow, Has, Unloads
<1> HIDE DEF a
<1>5. \A v \in View : m_pendingUninitActionId[v] # 0 => Has(m_actions, Uninits(v))
  <2>1. ASSUME NEW v \in View, m_pendingUninitActionId[v] # 0 PROVE Has(m_actions, Uninits(v))
    <3>1. UninitsOf(v, m_pendingUninitActionId[v]) \subseteq Uninits(v)
      BY DEF UninitsOf
    <3> QED
      BY <2>1, <3>1, HasMonotone DEF RequestInv, PendingIsQueued
  <2> QED
    BY <2>1
<1>6. \A v \in View : HasLast(m_actions, Inits(v), Uninits(v)) =>
            \/ HasLast(m_actions', Inits(v), Uninits(v))
            \/ a \in Inits(v) /\ ~Has(m_actions', Uninits(v)) /\ m_pendingUninitActionId[v] = 0
  <2>1. \A v \in View : a \in Inits(v) => a \notin Uninits(v)
    BY <1>1, ActionKinds
  <2> QED
    BY <1>3, <1>5, <2>1
<1>7. m_pendingUnloadActionId # 0 => Has(m_actions, Unloads) /\ Has(m_actions, Loads \cup Unloads)
  <2>1. /\ UnloadsOf(m_pendingUnloadActionId) \subseteq Unloads
        /\ UnloadsOf(m_pendingUnloadActionId) \subseteq Loads \cup Unloads
    BY DEF UnloadsOf
  <2> QED
    BY <2>1, HasMonotone DEF RequestInv, PendingIsQueued
<1>8. lastRequest.kind = "reload" /\ ~isClosed =>
       \/ HasLast(m_actions', LoadsOf(lastRequest.options), Loads \cup Unloads)
       \/ /\ a \in LoadsOf(lastRequest.options) /\ m_pendingUnloadActionId = 0
          /\ ~Has(m_actions', Loads \cup Unloads)
       \/ /\ m_reactInstance # 0 /\ instanceOptions = lastRequest.options
          /\ a \notin Loads \cup Unloads /\ ~Has(m_actions', Loads \cup Unloads)
  <2>1. ASSUME a \in LoadsOf(lastRequest.options), ~Has(m_actions', Loads \cup Unloads)
        PROVE  m_pendingUnloadActionId = 0
    <3>1. a \notin Unloads
      BY <1>1, <2>1, ActionKinds
    <3>2. ~Has(m_actions', Unloads)
      BY <2>1, HasMonotone
    <3> QED
      BY <1>3, <1>7, <3>1, <3>2
  <2> QED
    BY <1>3, <2>1 DEF RequestInv, ReloadIsKept
<1>9. lastRequest.kind = "unload" =>
       ~HasLast(m_actions', Loads, Unloads) /\ (a \in Loads => m_pendingUnloadActionId # 0)
  BY <1>3, <1>4 DEF RequestInv, UnloadIsKept
<1>10. /\ m_pendingUnloadActionId # 0 =>
            a \in UnloadsOf(m_pendingUnloadActionId) \/ Has(m_actions', UnloadsOf(m_pendingUnloadActionId))
       /\ m_pendingUnloadActionId = 0 => a \notin Unloads /\ ~Has(m_actions', Unloads)
       /\ \A v \in View :
            /\ m_pendingUninitActionId[v] # 0 =>
                 \/ a \in UninitsOf(v, m_pendingUninitActionId[v])
                 \/ Has(m_actions', UninitsOf(v, m_pendingUninitActionId[v]))
            /\ a \notin UninitsOf(v, 0) /\ ~Has(m_actions', UninitsOf(v, 0))
  BY <1>3, <1>4 DEF RequestInv, PendingIsQueued
<1> QED
  BY <1>1, <1>2, <1>6, <1>8, <1>9, <1>10 DEF RestOfQueue

(* LoadInQueue: the views that are not to be uninitialised show the new     *)
(* instance.                                                                *)
LEMMA LoadRequest ==
  ASSUME HostInv, RequestInv, NEW a, RestOfQueue(a), a.type = "load", LoadInQueue(a)
  PROVE  RequestInv'
<1> USE DEF RequestInv, RestOfQueue
<1>1. /\ a \in Loads /\ a \notin Unloads
      /\ \A v \in View : a \notin Inits(v) /\ a \notin Uninits(v)
      /\ \A id : a \notin UnloadsOf(id)
      /\ \A v \in View : \A id : a \notin UninitsOf(v, id)
  BY ActionKinds
<1>2. UNCHANGED <<m_pendingUnloadActionId, m_isInstanceUnloading, isClosed, isFinalized, m_viewInstance,
                  m_pendingUninitActionId>>
  BY DEF LoadInQueue
<1>3. PendingIsQueued' /\ InitFollows' /\ FinalizedIsIdle'
  BY <1>1, <1>2 DEF PendingIsQueued, InitFollows, FinalizedIsIdle
<1>4. CASE isClosed \/ m_pendingUnloadActionId # 0
  <2>1. /\ phase' = "done" /\ UNCHANGED <<m_reactInstance, created, instanceOptions, boundTo,
                                          m_isViewInstanceInited, crashed>>
    BY <1>4 DEF LoadInQueue, Returned, instanceVars
  <2>2. UnloadingViews' /\ StaleViewIsUninited' /\ m_isViewInstanceInited' \subseteq m_viewInstance'
    BY <1>2, <2>1 DEF UnloadingViews, StaleViewIsUninited
  <2>3. ReloadIsKept' /\ UnloadIsKept'
    BY <1>1, <1>2, <1>4, <2>1 DEF ReloadIsKept, UnloadIsKept
  <2>4. ShownOrAhead'
    BY <1>2, <1>4 DEF ShownOrAhead
  <2> QED
    BY <1>3, <2>2, <2>3, <2>4
<1>5. CASE ~isClosed /\ m_pendingUnloadActionId = 0
  <2> DEFINE instance == created + 1
             inited == {v \in m_viewInstance : CanInit(v, instance)}
  <2>1. /\ m_reactInstance' = instance /\ instanceOptions' = a.options /\ phase' = "loading"
        /\ crashed' = (m_viewInstance \cap m_isViewInstanceInited # {})
        /\ m_isViewInstanceInited' = m_isViewInstanceInited \cup inited
        /\ boundTo' = [v \in View |-> IF v \in inited THEN instance ELSE boundTo[v]]
    BY <1>5, Zenon DEF LoadInQueue
  <2>2. instance # 0 /\ m_viewInstance \subseteq View
    BY DEF HostInv, TypeOK
  <2>3. inited = {v \in m_viewInstance : m_pendingUninitActionId[v] = 0}
    BY <1>5, <2>2 DEF CanInit, UnloadingViews
  <2> HIDE DEF instance, inited
  <2>4. ~crashed' => m_isViewInstanceInited' = inited /\ \A v \in inited : boundTo'[v] = m_reactInstance'
    BY <2>1, <2>2, <2>3
  <2>5. UnloadingViews' /\ StaleViewIsUninited' /\ m_isViewInstanceInited' \subseteq m_viewInstance'
    BY <1>2, <2>1, <2>3, <2>4 DEF UnloadingViews, StaleViewIsUninited
  <2>6. ReloadIsKept'
    BY <1>1, <1>2, <2>1, <2>2, ActionKinds DEF ReloadIsKept
  <2>7. UnloadIsKept'
    BY <1>1, <1>2, <1>5 DEF UnloadIsKept
  <2>8. ShownOrAhead'
    BY <1>2, <1>3, <2>2, <2>3, <2>4 DEF ShownOrAhead, InitFollows
  <2> QED
    BY <1>3, <2>5, <2>6, <2>7, <2>8
<1> QED
  BY <1>4, <1>5

(* UnloadInQueue: the pending unload takes the views away, except those     *)
(* that have an action of their own.                                        *)
LEMMA UnloadRequest ==
  ASSUME HostInv, RequestInv, NEW a, RestOfQueue(a), a.type = "unload", UnloadInQueue(a)
  PROVE  RequestInv'
<1> USE DEF RequestInv, RestOfQueue
<1>1. /\ a \notin Loads /\ a \in Unloads /\ \A o : a \notin LoadsOf(o)
      /\ \A v \in View : a \notin Inits(v) /\ a \notin Uninits(v)
      /\ \A id : a \in UnloadsOf(id) <=> a.id = id
      /\ \A v \in View : \A id : a \notin UninitsOf(v, id)
  BY ActionKinds
<1>2. UNCHANGED <<m_reactInstance, isClosed, isFinalized, m_viewInstance, m_pendingUninitActionId,
                  instanceVars, crashed>>
  BY DEF UnloadInQueue
<1>3. InitFollows' /\ FinalizedIsIdle'
  BY <1>1, <1>2 DEF InitFollows, FinalizedIsIdle
<1>4. CASE a.id # m_pendingUnloadActionId
  <2>1. phase' = "done" /\ UNCHANGED <<m_pendingUnloadActionId, m_isInstanceUnloading, m_isViewInstanceInited>>
    BY <1>4 DEF UnloadInQueue, Returned
  <2>2. PendingIsQueued'
    BY <1>1, <1>2, <1>4, <2>1 DEF PendingIsQueued
  <2>3. UnloadingViews' /\ StaleViewIsUninited' /\ m_isViewInstanceInited' \subseteq m_viewInstance'
    BY <1>2, <2>1 DEF UnloadingViews, StaleViewIsUninited, instanceVars
  <2>4. ReloadIsKept' /\ UnloadIsKept'
    BY <1>1, <1>2, <2>1 DEF ReloadIsKept, UnloadIsKept, instanceVars
  <2>5. ShownOrAhead'
    BY <1>1, <1>2, <2>1 DEF ShownOrAhead, instanceVars
  <2> QED
    BY <1>3, <2>2, <2>3, <2>4, <2>5
<1>5. CASE a.id = m_pendingUnloadActionId
  <2> DEFINE views == {v \in m_viewInstance : m_pendingUninitActionId[v] = 0}
  <2>1. /\ phase' = "uninitViews" /\ m_pendingUnloadActionId' = 0 /\ m_isInstanceUnloading' = TRUE
        /\ m_isViewInstanceInited' = m_isViewInstanceInited \ views
    BY <1>5 DEF UnloadInQueue
  <2>2. /\ m_isViewInstanceInited' \subseteq m_viewInstance'
        /\ \A v \in m_isViewInstanceInited' : m_pendingUninitActionId'[v] # 0
    BY <1>2, <2>1
  <2>3. UnloadingViews' /\ StaleViewIsUninited'
    BY <2>1, <2>2 DEF UnloadingViews, StaleViewIsUninited
  <2>4. PendingIsQueued'
    BY <1>1, <1>2, <2>1 DEF PendingIsQueued
  <2>5. ReloadIsKept' /\ UnloadIsKept'
    BY <1>1, <1>2, <2>1 DEF ReloadIsKept, UnloadIsKept, instanceVars
  <2>6. ShownOrAhead'
    BY <2>1 DEF ShownOrAhead
  <2> QED
    BY <1>3, <2>2, <2>3, <2>4, <2>5, <2>6
<1> QED
  BY <1>4, <1>5

(* InitViewInstanceInQueue: a last init action finds its view ready, or     *)
(* showing the instance already.                                            *)
LEMMA InitViewRequest ==
  ASSUME HostInv, RequestInv, NEW a, RestOfQueue(a), a.type = "init", InitViewInstanceInQueue(a)
  PROVE  RequestInv'
<1> DEFINE w == a.view
           shown == w \in m_viewInstance \ m_isViewInstanceInited /\ CanInit(w, m_reactInstance)
<1> USE DEF RequestInv, RestOfQueue, hostVars
<1>1. /\ a \notin Loads /\ a \notin Unloads /\ \A o : a \notin LoadsOf(o)
      /\ \A v \in View : (a \in Inits(v) <=> v = w) /\ a \notin Uninits(v)
      /\ \A id : a \notin UnloadsOf(id)
      /\ \A v \in View : \A id : a \notin UninitsOf(v, id)
  BY ActionKinds
<1>2. w \in View /\ boundTo \in [View -> Nat] /\ m_viewInstance \subseteq View
  BY ActionFields DEF HostInv, TypeOK
<1>3. /\ UNCHANGED <<hostVars, m_viewInstance, m_pendingUninitActionId, instanceOptions>>
      /\ phase' \in {"view", "done"}
      /\ shown => m_isViewInstanceInited' = m_isViewInstanceInited \cup {w} /\ boundTo'[w] = m_reactInstance
      /\ ~shown => UNCHANGED <<m_isViewInstanceInited, boundTo>>
      /\ \A v \in View : v # w => boundTo'[v] = boundTo[v]
  BY <1>2 DEF InitViewInstanceInQueue, Returned
<1> HIDE DEF w
<1>4. PendingIsQueued' /\ InitFollows' /\ FinalizedIsIdle'
  BY <1>1, <1>3 DEF PendingIsQueued, InitFollows, FinalizedIsIdle
<1>5. UnloadingViews' /\ m_isViewInstanceInited' \subseteq m_viewInstance'
  BY <1>3 DEF UnloadingViews
<1>6. StaleViewIsUninited'
  BY <1>2, <1>3 DEF StaleViewIsUninited
<1>7. ReloadIsKept' /\ UnloadIsKept'
  BY <1>1, <1>3 DEF ReloadIsKept, UnloadIsKept
<1>8. ShownOrAhead'
  <2> SUFFICES ASSUME m_reactInstance # 0, m_pendingUnloadActionId = 0, ~isClosed,
                      NEW v \in m_viewInstance \ viewUnloaded, ~HasLast(m_actions', Inits(v), Uninits(v))
               PROVE  /\ v \in m_isViewInstanceInited' /\ boundTo'[v] = m_reactInstance
                      /\ m_pendingUninitActionId[v] = 0
    BY <1>3 DEF ShownOrAhead
  <2>1. \/ v \in m_isViewInstanceInited /\ boundTo[v] = m_reactInstance /\ m_pendingUninitActionId[v] = 0
        \/ v = w /\ m_pendingUninitActionId[v] = 0
    BY <1>1, <1>2 DEF ShownOrAhead
  <2>2. ~m_isInstanceUnloading
    BY DEF UnloadingViews
  <2>3. CASE v \in m_isViewInstanceInited
    <3>1. boundTo[v] = m_reactInstance /\ m_pendingUninitActionId[v] = 0
      BY <2>1, <2>3 DEF StaleViewIsUninited
    <3> QED
      BY <1>2, <1>3, <2>3, <3>1
  <2>4. CASE v \notin m_isViewInstanceInited
    <3>1. shown
      BY <2>1, <2>2, <2>4 DEF CanInit
    <3> QED
      BY <1>3, <2>1, <2>4, <3>1
  <2> QED
    BY <2>3, <2>4
<1> QED
  BY <1>3, <1>4, <1>5, <1>6, <1>7, <1>8

(* UninitViewInstanceInQueue: the pending action hands its view over to the *)
(* init action that follows, or to the pending unload.                      *)
LEMMA UninitViewRequest ==
  ASSUME HostInv, RequestInv, NEW a, RestOfQueue(a), a.type = "uninit", UninitViewInstanceInQueue(a)
  PROVE  RequestInv'
<1> DEFINE w == a.view
           newest == a.id = m_pendingUninitActionId[w]
<1> USE DEF RequestInv, RestOfQueue, hostVars, instanceVars
<1>1. /\ a \notin Loads /\ a \notin Unloads /\ \A o : a \notin LoadsOf(o)
      /\ \A v \in View : a \notin Inits(v)
      /\ \A id : a \notin UnloadsOf(id)
      /\ \A v \in View : \A id : a \in UninitsOf(v, id) <=> v = w /\ id = a.id
  BY ActionKinds
<1>2. w \in View /\ m_viewInstance \subseteq View /\ m_pendingUninitActionId \in [View -> Nat]
  BY ActionFields DEF HostInv, TypeOK
<1>3. /\ UNCHANGED <<hostVars, m_viewInstance, instanceVars, crashed>>
      /\ phase' \in {"view", "done"}
      /\ newest => m_pendingUninitActionId'[w] = 0
      /\ newest /\ m_pendingUnloadActionId = 0 /\ w \in m_viewInstance =>
           m_isViewInstanceInited' = m_isViewInstanceInited \ {w}
      /\ m_isViewInstanceInited \ {w} \subseteq m_isViewInstanceInited'
      /\ m_isViewInstanceInited' \subseteq m_isViewInstanceInited
      /\ ~newest => UNCHANGED <<m_isViewInstanceInited, m_pendingUninitActionId>>
      /\ \A v \in View : v # w => m_pendingUninitActionId'[v] = m_pendingUninitActionId[v]
  BY <1>2 DEF UninitViewInstanceInQueue, Returned
<1>4. newest => m_pendingUninitActionId[w] # 0
  BY <1>1, <1>2
<1> HIDE DEF w
<1>5. PendingIsQueued'
  <2>1. \A v \in View : m_pendingUninitActionId'[v] # 0 =>
           /\ m_pendingUninitActionId'[v] = m_pendingUninitActionId[v]
           /\ ~(v = w /\ newest)
    BY <1>3
  <2> QED
    BY <1>1, <1>3, <2>1 DEF PendingIsQueued
<1>6. InitFollows' /\ FinalizedIsIdle'
  <2>1. \A v \in View : m_pendingUninitActionId'[v] # 0 => m_pendingUninitActionId[v] # 0
    BY <1>3
  <2> QED
    BY <1>1, <1>3, <2>1 DEF InitFollows, FinalizedIsIdle
<1>7. UnloadingViews' /\ m_isViewInstanceInited' \subseteq m_viewInstance'
  BY <1>3 DEF UnloadingViews
<1>8. StaleViewIsUninited'
  BY <1>2, <1>3 DEF StaleViewIsUninited
<1>9. ReloadIsKept' /\ UnloadIsKept'
  BY <1>1, <1>3 DEF ReloadIsKept, UnloadIsKept
<1>10. ShownOrAhead'
  <2> SUFFICES ASSUME ~crashed, m_reactInstance # 0, m_pendingUnloadActionId = 0, ~isClosed,
                      NEW v \in m_viewInstance \ viewUnloaded, ~HasLast(m_actions', Inits(v), Uninits(v))
               PROVE  /\ v \in m_isViewInstanceInited' /\ boundTo[v] = m_reactInstance
                      /\ m_pendingUninitActionId'[v] = 0
    BY <1>3 DEF ShownOrAhead
  <2>1. v \in m_isViewInstanceInited /\ boundTo[v] = m_reactInstance /\ m_pendingUninitActionId[v] = 0
    BY <1>1, <1>2 DEF ShownOrAhead
  <2> QED
    BY <1>2, <1>3, <1>4, <2>1
<1> QED
  BY <1>3, <1>5, <1>6, <1>7, <1>8, <1>9, <1>10

(* The views are gone, and the instance goes.                               *)
LEMMA DestroyRequest ==
  ASSUME RequestInv, DestroyInstance
  PROVE  RequestInv'
<1> USE DEF RequestInv, viewVars, instanceVars, requestVars
<1>1. /\ phase = "uninitViews" /\ phase' \in {"destroying", "done"} /\ m_reactInstance' = 0
      /\ m_isInstanceUnloading' = FALSE
      /\ UNCHANGED <<m_pendingUnloadActionId, isClosed, isFinalized, viewVars, m_actions, instanceVars,
                     requestVars, crashed>>
  BY DEF DestroyInstance
<1>2. PendingIsQueued' /\ InitFollows' /\ UnloadIsKept' /\ ShownOrAhead'
  BY <1>1 DEF PendingIsQueued, InitFollows, UnloadIsKept, ShownOrAhead
<1>3. UnloadingViews' /\ StaleViewIsUninited' /\ ReloadIsKept' /\ FinalizedIsIdle'
  BY <1>1 DEF UnloadingViews, StaleViewIsUninited, ReloadIsKept, FinalizedIsIdle, Idle
<1> QED
  BY <1>1, <1>2, <1>3

(* The last reference is gone.                                              *)
LEMMA FinalizeRequest ==
  ASSUME HostInv, RequestInv, Finalize
  PROVE  RequestInv'
<1> USE DEF RequestInv, viewVars, instanceVars, requestVars, queueVars
<1>1. /\ Idle /\ m_viewInstance = {} /\ isClosed' = TRUE /\ isFinalized' = TRUE
      /\ UNCHANGED <<m_pendingUnloadActionId, m_isInstanceUnloading, viewVars, queueVars, instanceVars,
                     requestVars, crashed>>
  BY DEF Finalize
<1>2. m_pendingUnloadActionId = 0
  BY <1>1, HasNone DEF PendingIsQueued, Idle
<1>3. m_reactInstance' = 0
  BY <1>1, <1>2 DEF Finalize, UnloadIsKept, Idle
<1>4. m_isViewInstanceInited' = {}
  BY <1>1
<1>5. PendingIsQueued' /\ InitFollows' /\ UnloadIsKept' /\ ShownOrAhead'
  BY <1>1, <1>3 DEF PendingIsQueued, InitFollows, UnloadIsKept, ShownOrAhead
<1>6. UnloadingViews' /\ StaleViewIsUninited' /\ ReloadIsKept' /\ FinalizedIsIdle'
  BY <1>1, <1>3, <1>4 DEF UnloadingViews, StaleViewIsUninited, ReloadIsKept, FinalizedIsIdle, Idle
<1> QED
  BY <1>1, <1>4, <1>5, <1>6

(* Every step keeps the invariant: one case per action.                     *)
LEMMA RequestStep ==
  ASSUME HostInv, RequestInv, [Next]_vars
  PROVE  RequestInv'
<1>1. CASE HostRequest \/ ReloadInstance \/ \E v \in View : ViewRequest(v)
  BY <1>1, AnyRequest
<1>2. CASE StartAction
  <2>1. RestOfQueue(Head(m_actions))
    BY <1>2, StartActionRest
  <2> QED
    BY <1>2, <2>1, LoadRequest, UnloadRequest, InitViewRequest, UninitViewRequest DEF StartAction
<1>3. CASE CompleteAction \/ ViewsUpdated
  BY <1>3, RequestKept DEF CompleteAction, ViewsUpdated, requestVars, RequestInv, FinalizedIsIdle, Idle
<1>4. CASE \/ InstanceLoaded \/ InstanceFailed \/ InstanceDestroyed \/ ViewActionDone
           \/ \E v \in View : ViewDone(v)
  BY <1>4, RequestKept DEF InstanceLoaded, InstanceFailed, InstanceDestroyed, ViewActionDone, ViewDone,
     CompletePhase, QueueIsFree, requestVars
<1>5. CASE UNCHANGED vars
  BY <1>5, RequestKept DEF vars, queueVars, requestVars
<1> QED
  BY <1>1, <1>2, <1>3, <1>4, <1>5, DestroyRequest, FinalizeRequest DEF Next, Progress

-----------------------------------------------------------------------------
(* Theorems about the requests *)

(* What was requested last is in the queue, under way, or done.             *)
THEOREM RequestInvariant == Spec => [](HostInv /\ RequestInv)
<1>1. HostInv /\ RequestInv /\ [Next]_vars => HostInv' /\ RequestInv'
  BY HostStep, RequestStep
<1> QED
  BY HostInit, RequestInit, <1>1, PTL DEF Spec

(* However reloads, unloads and closes are consolidated by their ids, an    *)
(* idle host is in the state that the last of them asked for, for any       *)
(* number of requests.                                                      *)
THEOREM LastRequestIsServed == Spec => []LastRequestWins
<1>1. ASSUME RequestInv PROVE LastRequestWins
  <2> USE <1>1 DEF RequestInv
  <2>1. ASSUME Idle
        PROVE  /\ m_pendingUnloadActionId = 0
               /\ lastRequest.kind = "reload" /\ ~isClosed =>
                    m_reactInstance # 0 /\ instanceOptions = lastRequest.options
               /\ lastRequest.kind = "unload" \/ isClosed => m_reactInstance = 0
    <3>1. m_pendingUnloadActionId = 0
      BY <2>1, HasNone DEF PendingIsQueued, Idle
    <3> QED
      BY <2>1, <3>1, HasNone DEF ReloadIsKept, UnloadIsKept, Idle
  <2>2. isFinalized => m_reactInstance = 0 /\ m_isViewInstanceInited = {}
    BY DEF FinalizedIsIdle
  <2> QED
    BY <2>1, <2>2 DEF LastRequestWins
<1> QED
  BY <1>1, RequestInvariant, PTL

(* A view left with the root view of an instance that is gone has an uninit *)
(* action or an unload ahead, for any number of views.                      *)
THEOREM StaleViewsGoAway == Spec => []StaleViewIsUninited
<1>1. RequestInv => StaleViewIsUninited
  BY DEF RequestInv
<1> QED
  BY <1>1, RequestInvariant, PTL

(* An idle host with an instance shows it in every attached view that was   *)
(* not unloaded on request.                                                 *)
THEOREM AttachedViewsAreShown == Spec => []AttachedViewIsShown
<1>1. ASSUME HostInv, RequestInv PROVE AttachedViewIsShown
  <2> USE <1>1 DEF RequestInv
  <2> SUFFICES ASSUME Idle, ~crashed, m_reactInstance # 0, NEW v \in m_viewInstance \ viewUnloaded
               PROVE  v \in m_isViewInstanceInited /\ boundTo[v] = m_reactInstance
    BY DEF AttachedViewIsShown
  <2>1. m_pendingUnloadActionId = 0 /\ phase = "idle" /\ m_actions = <<>>
    BY HasNone DEF PendingIsQueued, Idle
  <2>2. ~isClosed
    BY <2>1 DEF UnloadIsKept
  <2> QED
    BY <2>1, <2>2, HasNone DEF ShownOrAhead
<1> QED
  BY <1>1, RequestInvariant, PTL

=============================================================================
