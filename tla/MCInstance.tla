----------------------------- MODULE MCInstance -----------------------------
(***************************************************************************)
(* One run over three parts of a React instance that share no state: the    *)
(* life of ReactInstanceWin, the notification service and the timers.  The  *)
(* initial state chooses the part that runs; the others stay in their       *)
(* initial states, so every behaviour is one of that module's FairSpec.     *)
(***************************************************************************)
EXTENDS Naturals, Sequences

CONSTANTS JsCall, Sub, Posted, Thread, dispatcher, MaxSends, Timer, Periods, MaxNow

VARIABLES
  part,
  m_state, m_isLoaded, m_isDestroyed, m_jsCallQueue, whenLoaded, whenDestroyed,
  instance, running, jsQueue, pc, entry, order, outcome, threw, crashed,
  m_subscriptions, m_handler, hasParent, m_isSubscribed, alive, posted, op,
  sends, state, quiet,
  now, ui, m_timerQueue, m_usingRendering, due, tick, life, called

instanceVars == <<m_state, m_isLoaded, m_isDestroyed, m_jsCallQueue, whenLoaded, whenDestroyed,
                  instance, running, jsQueue, pc, entry, order, outcome, threw, crashed>>
notificationVars == <<m_subscriptions, m_handler, hasParent, m_isSubscribed, alive, posted, op,
                      sends, state, quiet>>
timerVars == <<now, ui, m_timerQueue, m_usingRendering, due, tick, life, called>>
vars == <<part, instanceVars, notificationVars, timerVars>>

Instance == INSTANCE ReactInstance
Notification == INSTANCE NotificationService
Timers == INSTANCE Timing

(* None is no subscription, and durations are natural numbers.              *)
ASSUME SubAssumption == Notification!None \notin Sub
ASSUME PeriodsAssumption == Periods \subseteq Nat

Init ==
  /\ part \in {"instance", "notification", "timers"}
  /\ Instance!Init /\ Notification!Init /\ Timers!Init

OnlyInstance == part = "instance" /\ UNCHANGED <<part, notificationVars, timerVars>>
OnlyNotification == part = "notification" /\ UNCHANGED <<part, instanceVars, timerVars>>
OnlyTimers == part = "timers" /\ UNCHANGED <<part, instanceVars, notificationVars>>

Next ==
  \/ OnlyInstance /\ Instance!Next
  \/ OnlyNotification /\ Notification!Next
  \/ OnlyTimers /\ Timers!Next

(* The fairness of the three modules, each where it is the part that runs.  *)
Fairness ==
  /\ WF_vars(OnlyInstance /\ ~crashed /\ Instance!NativeNext)
  /\ WF_vars(OnlyInstance /\ ~crashed /\ Instance!JsNext)
  /\ WF_vars(OnlyNotification /\ Notification!Dispatch)
  /\ \A t \in Thread \cup {dispatcher} : WF_vars(OnlyNotification /\ Notification!Continue(t))
  /\ WF_vars(OnlyTimers /\ Timers!UI)
  /\ WF_vars(OnlyTimers /\ Timers!DispatcherTick)
  /\ WF_vars(OnlyTimers /\ Timers!Advance)

FairSpec == Init /\ [][Next]_vars /\ Fairness

-----------------------------------------------------------------------------
(* The properties of the three modules, where their comments are.           *)

(* ReactInstance: a queued call is drained or abandoned, once.              *)
NoStrandedCall == Instance!NoStrandedCall
(* ReactInstance: a call does not overtake one that waits in the queue.     *)
QueuedCallsKeepOrder == Instance!QueuedCallsKeepOrder
(* ReactInstance: loading is reported once, and a destruction ends.         *)
FuturesComplete == part = "instance" => Instance!FuturesComplete
(* NotificationService: no concurrent update of a list is lost.             *)
ListedIffSubscribed == Notification!ListedIffSubscribed
(* NotificationService: no call after Unsubscribe in the dispatcher.        *)
NoCallAfterUnsubscribe == Notification!NoCallAfterUnsubscribe
(* Timing: a deleted timer is not called.                                   *)
DeletedIsSilent == Timers!DeletedIsSilent
(* Timing: a timer that falls due is called.                                *)
TimersAreCalled == Timers!TimersAreCalled

=============================================================================
