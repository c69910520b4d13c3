------------------------ MODULE NotificationService ------------------------
(***************************************************************************)
(* ReactNotificationService: the service of an instance ("child") and the   *)
(* root service of its host.  A subscription of the child is also listed in *)
(* the root, as a view; notifications are sent from the root.  A list of    *)
(* subscriptions is an immutable snapshot that threads replace with         *)
(* compare-and-retry.  Each action is one critical section of m_mutex or    *)
(* one access that no lock protects.                                        *)
(*                                                                          *)
(* A subscription is listed at most once and never returns to a list, so a  *)
(* snapshot that was replaced does not recur: comparing contents is         *)
(* comparing pointers, and the empty snapshot stands for no entry.          *)
(***************************************************************************)
EXTENDS Naturals, Sequences, SequencesExt

CONSTANTS
  Sub,        \* subscriptions of the child service to one notification
  Posted,     \* the ones that have a dispatcher
  Thread,     \* threads of the application
  dispatcher, \* the dispatcher's thread
  MaxSends    \* a bound on notifications

Threads == Thread \cup {dispatcher}
Service == {"child", "root"}
None == "none"

VARIABLES
  m_subscriptions, \* each service's snapshot
  m_handler,       \* the subscriptions that have a handler
  hasParent,       \* m_parentSubscription is set
  m_isSubscribed,  \* the views that are subscribed
  alive,           \* the child service is
  posted,          \* calls waiting in the dispatcher
  op,              \* what each thread is doing
  sends,           \* notifications sent so far
  state,           \* of each subscription: "new", "adding", "active", "removing" or "removed"
  quiet            \* subscriptions whose Unsubscribe returned in the dispatcher

lists == <<m_subscriptions, m_handler, hasParent, m_isSubscribed, alive>>
history == <<state, quiet>>
vars == <<lists, posted, op, sends, history>>

(* A thread's frame: the call, the subscription, the step, the snapshot it  *)
(* read, the subscriptions left to visit; for a notification, who was       *)
(* active when it started and who was reached.                              *)
Idle == [do |-> "idle", sub |-> None, at |-> "", snap |-> <<>>, left |-> <<>>]

Init ==
  /\ m_subscriptions = [v \in Service |-> <<>>]
  /\ m_handler = {} /\ hasParent = {} /\ m_isSubscribed = {} /\ alive = TRUE
  /\ posted = <<>> /\ op = [t \in Threads |-> Idle] /\ sends = 0
  /\ state = [s \in Sub |-> "new"] /\ quiet = {}

Does(t, what, at) == op[t].do = what /\ op[t].at = at
Set(t, frame) == op' = [op EXCEPT ![t] = frame]
To(t, at) == Set(t, [op[t] EXCEPT !.at = at])
Begin(t, what, s, at) == op[t] = Idle /\ Set(t, [Idle EXCEPT !.do = what, !.sub = s, !.at = at])

-----------------------------------------------------------------------------
(* ModifySubscriptions: read the snapshot, then try to replace it by new,   *)
(* which is made from the snapshot that was read.                           *)

(* Mutant: the snapshot is replaced without comparing.                      *)
ReplaceUnchecked(t, v, new, next) ==
  m_subscriptions' = [m_subscriptions EXCEPT ![v] = new] /\ To(t, next)

Replace(t, v, new, next) ==
  IF op[t].snap # m_subscriptions[v]
  THEN Set(t, [op[t] EXCEPT !.snap = m_subscriptions[v]]) /\ UNCHANGED m_subscriptions
  ELSE m_subscriptions' = [m_subscriptions EXCEPT ![v] = new] /\ To(t, next)

(* One step of the loop, in service v, by a thread whose steps there are v  *)
(* and ReplaceIn[v].                                                        *)
ReplaceIn == [child |-> "replace in child", root |-> "replace in root"]

Modify(t, what, v, new, next) ==
  /\ \/ /\ Does(t, what, v)
        /\ Set(t, [op[t] EXCEPT !.snap = m_subscriptions[v], !.at = ReplaceIn[v]])
        /\ UNCHANGED m_subscriptions
     \/ Does(t, what, ReplaceIn[v]) /\ Replace(t, v, new, next)
  /\ UNCHANGED <<m_handler, hasParent, m_isSubscribed, alive, posted, sends, history>>

-----------------------------------------------------------------------------
(* Subscribe *)

Subscribe(t, s) ==
  /\ alive /\ state[s] = "new" /\ Begin(t, "subscribe", s, "child")
  /\ state' = [state EXCEPT ![s] = "adding"] /\ m_handler' = m_handler \cup {s}
  /\ UNCHANGED <<m_subscriptions, hasParent, m_isSubscribed, alive, posted, sends, quiet>>

(* AddSubscriptionFromChild makes the view, which sets itself as parent.    *)
MakeView(t) ==
  /\ Does(t, "subscribe", "view") /\ To(t, "root")
  /\ hasParent' = hasParent \cup {op[t].sub} /\ m_isSubscribed' = m_isSubscribed \cup {op[t].sub}
  /\ UNCHANGED <<m_subscriptions, m_handler, alive, posted, sends, history>>

SubscribeReturns(t) ==
  /\ Does(t, "subscribe", "return") /\ Set(t, Idle)
  /\ state' = [state EXCEPT ![op[t].sub] = "active"]
  /\ UNCHANGED <<lists, posted, sends, quiet>>

AddSubscription(t) ==
  LET add == Append(op[t].snap, op[t].sub) IN
  Modify(t, "subscribe", "child", add, "view") \/ Modify(t, "subscribe", "root", add, "return")

-----------------------------------------------------------------------------
(* Unsubscribe, by a caller or by the service's destructor *)

Removes == {"unsubscribe", "destroy"}

Unsubscribe(t, s) ==
  /\ state[s] \in {"active", "removing"} /\ Begin(t, "unsubscribe", s, "view")
  /\ state' = [state EXCEPT ![s] = "removing"]
  /\ UNCHANGED <<lists, posted, sends, quiet>>

(* The view is left first: m_isSubscribed.exchange(false).                  *)
LeaveView(t) ==
  /\ op[t].do \in Removes /\ op[t].at = "view"
  /\ To(t, IF op[t].sub \in hasParent \cap m_isSubscribed THEN "root" ELSE "handler")
  /\ m_isSubscribed' = m_isSubscribed \ (hasParent \cap {op[t].sub})
  /\ UNCHANGED <<m_subscriptions, m_handler, hasParent, alive, posted, sends, history>>

DropHandler(t) ==
  /\ op[t].do \in Removes /\ op[t].at = "handler"
  /\ To(t, IF op[t].sub \in m_handler /\ alive THEN "child" ELSE "return")
  /\ m_handler' = m_handler \ {op[t].sub}
  /\ UNCHANGED <<m_subscriptions, hasParent, m_isSubscribed, alive, posted, sends, history>>

RemoveSubscription(t) ==
  LET remove == RemoveFirst(op[t].snap, op[t].sub) IN
  \E what \in Removes :
    Modify(t, what, "root", remove, "handler") \/ Modify(t, what, "child", remove, "return")

(* A removal is over when no other thread is still at it.                   *)
UnsubscribeReturns(t) ==
  /\ Does(t, "unsubscribe", "return") /\ Set(t, Idle)
  /\ state' = [state EXCEPT ![op[t].sub] =
       IF \E u \in Threads \ {t} : op[u].do \in Removes /\ op[u].sub = op[t].sub
       THEN "removing" ELSE "removed"]
  /\ quiet' = IF t = dispatcher THEN quiet \cup {op[t].sub} ELSE quiet
  /\ UNCHANGED <<lists, posted, sends>>

(* The last reference to the child service is gone: no call runs in it.     *)
(* UnsubscribeAll takes the list and unsubscribes each.                     *)
UnsubscribeAll(t) ==
  /\ alive /\ op[t] = Idle
  /\ \A u \in Threads : op[u].do # "subscribe" /\ op[u].at \notin {"child", "replace in child"}
  /\ alive' = FALSE /\ m_subscriptions' = [m_subscriptions EXCEPT !["child"] = <<>>]
  /\ Set(t, [Idle EXCEPT !.do = "destroy", !.at = "return", !.left = m_subscriptions["child"]])
  /\ state' = [s \in Sub |-> IF state[s] = "active" THEN "removing" ELSE state[s]]
  /\ UNCHANGED <<m_handler, hasParent, m_isSubscribed, posted, sends, quiet>>

DestroyNext(t) ==
  /\ Does(t, "destroy", "return")
  /\ Set(t, IF op[t].left = <<>> THEN Idle
            ELSE [op[t] EXCEPT !.sub = Head(op[t].left), !.left = Tail(op[t].left), !.at = "view"])
  /\ state' = IF op[t].left = <<>>
              THEN [s \in Sub |-> IF state[s] = "removing" /\ \A u \in Threads : op[u].sub # s \/ u = t
                                  THEN "removed" ELSE state[s]]
              ELSE state
  /\ UNCHANGED <<lists, posted, sends, quiet>>

-----------------------------------------------------------------------------
(* SendNotification *)

(* The child calls the root, which takes its snapshot.                      *)
SendNotification(t) ==
  /\ op[t] = Idle /\ sends < MaxSends /\ sends' = sends + 1
  /\ Set(t, [Idle EXCEPT !.do = "send", !.at = "next", !.left = m_subscriptions["root"]])
  /\ UNCHANGED <<lists, posted, history>>

(* CallHandler of the next view: the handler is looked up, and then posted  *)
(* or called.                                                               *)
CallHandler(t) ==
  /\ Does(t, "send", "next") /\ op[t].left # <<>>
  /\ LET s == Head(op[t].left)
         rest == [op[t] EXCEPT !.left = Tail(@)]
     IN \/ s \in m_handler \cap Posted /\ posted' = Append(posted, s) /\ Set(t, rest)
        \/ s \in m_handler \ Posted /\ Set(t, [rest EXCEPT !.sub = s, !.at = "call"]) /\ UNCHANGED posted
        \/ s \notin m_handler /\ Set(t, rest) /\ UNCHANGED posted
  /\ UNCHANGED <<lists, sends, history>>

SendReturns(t) ==
  /\ Does(t, "send", "next") /\ op[t].left = <<>> /\ Set(t, Idle)
  /\ UNCHANGED <<lists, posted, sends, history>>

(* Mutant: the handler is called without looking it up again.               *)
DispatchUnchecked ==
  /\ posted # <<>> /\ posted' = Tail(posted)
  /\ Begin(dispatcher, "handle", Head(posted), "call")
  /\ UNCHANGED <<lists, sends, history>>

(* The dispatcher looks the handler up again.                               *)
Dispatch ==
  /\ posted # <<>> /\ posted' = Tail(posted)
  /\ IF Head(posted) \in m_handler
     THEN Begin(dispatcher, "handle", Head(posted), "call")
     ELSE op[dispatcher] = Idle /\ UNCHANGED op
  /\ UNCHANGED <<lists, sends, history>>

(* The handler runs.                                                        *)
Call(t) ==
  /\ op[t].at = "call"
  /\ Set(t, IF op[t].do = "send" THEN [op[t] EXCEPT !.at = "next", !.sub = None] ELSE Idle)
  /\ UNCHANGED <<lists, posted, sends, history>>

Continue(t) ==
  \/ AddSubscription(t) \/ MakeView(t) \/ SubscribeReturns(t)
  \/ LeaveView(t) \/ DropHandler(t) \/ RemoveSubscription(t) \/ UnsubscribeReturns(t)
  \/ DestroyNext(t) \/ CallHandler(t) \/ SendReturns(t) \/ Call(t)

Next ==
  \/ \E t \in Threads, s \in Sub : Subscribe(t, s) \/ Unsubscribe(t, s)
  \/ \E t \in Threads : SendNotification(t) \/ UnsubscribeAll(t) \/ Continue(t)
  \/ Dispatch

Spec == Init /\ [][Next]_vars

(* Threads run.                                                             *)
Fairness == WF_vars(Dispatch) /\ \A t \in Threads : WF_vars(Continue(t))
FairSpec == Spec /\ Fairness

-----------------------------------------------------------------------------
(* Properties *)

(* The types; no list names a subscription twice.                           *)
TypeOK ==
  /\ \A v \in Service : m_subscriptions[v] \in Seq(Sub) /\ IsInjective(m_subscriptions[v])
  /\ state \in [Sub -> {"new", "adding", "active", "removing", "removed"}]
  /\ m_handler \cup hasParent \cup m_isSubscribed \cup quiet \subseteq Sub
  /\ posted \in Seq(Posted) /\ alive \in BOOLEAN

(* The lists are exactly the subscriptions.  No update is lost: one whose   *)
(* Subscribe has returned is in both lists until someone removes it,        *)
(* however Subscribe and Unsubscribe of others interleave with it.  One     *)
(* that was removed, by its owner, by the destruction of the child service  *)
(* or by both at once, is in no list and has no handler left to keep        *)
(* objects alive.                                                           *)
ListedIffSubscribed ==
  \A s \in Sub :
    /\ state[s] = "active" =>
         s \in m_handler /\ \A v \in Service : Contains(m_subscriptions[v], s)
    /\ state[s] = "removed" =>
         s \notin m_handler /\ \A v \in Service : ~Contains(m_subscriptions[v], s)

(* What the interface recommends is enough: after Unsubscribe has returned  *)
(* in the dispatcher of the subscription, its handler is not called.        *)
NoCallAfterUnsubscribe ==
  [][\A t \in Threads : Call(t) /\ op[t].sub \in Posted => op[t].sub \notin quiet]_vars

=============================================================================
