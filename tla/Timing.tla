------------------------------- MODULE Timing -------------------------------
(***************************************************************************)
(* JavaScript's timers: TimerRegistry posts to the UI thread, where Timing  *)
(* keeps them in a heap.  Two sources drive its ticks: a dispatcher timer   *)
(* set for the front of the heap, and a posted render frame while an        *)
(* animation frame is wanted.  Time is counted in milliseconds.             *)
(***************************************************************************)
EXTENDS Naturals, Sequences, FiniteSets

CONSTANTS
  Timer,    \* timer ids
  Periods,  \* durations JavaScript asks for
  MaxNow    \* a bound on time

VARIABLES
  now,
  ui,             \* the UI dispatcher's queue
  m_timerQueue,   \* timers in the heap
  m_usingRendering,
  due,            \* when the dispatcher timer ticks; {} when it is stopped
  tick,           \* the run of OnTick under way, or Idle
  life,           \* of each timer: "new", "created", "deleting" or "deleted"
  called          \* the timers that have been called

js == <<life, called>>
vars == <<now, ui, m_timerQueue, m_usingRendering, due, tick, js>>

Idle == [running |-> FALSE, now |-> 0, emitted |-> FALSE, ready |-> {}]
Times == 0..MaxNow

Init ==
  /\ now = 0 /\ ui = <<>> /\ m_timerQueue = {} /\ m_usingRendering = FALSE
  /\ due = {} /\ tick = Idle
  /\ life = [t \in Timer |-> "new"] /\ called = {}

IsAnimationFrameRequest(period, repeat) == ~repeat /\ period = 1

(* The timers that may be at the front of the heap.                         *)
Front(q) == {e \in q : \A f \in q : e.target <= f.target}
FrontTime(q) == (CHOOSE e \in Front(q) : TRUE).target
Later(a, b) == IF a > b THEN a ELSE b

Frame == [do |-> "frame"]
FramePosted == \E i \in DOMAIN ui : ui[i] = Frame

-----------------------------------------------------------------------------
(* JavaScript *)

createTimer(t, period, repeat) ==
  /\ life[t] = "new" /\ life' = [life EXCEPT ![t] = "created"]
  /\ ui' = Append(ui, [do |-> "create", id |-> t, target |-> now + period,
                       period |-> period, repeat |-> repeat])
  /\ UNCHANGED <<now, m_timerQueue, m_usingRendering, due, tick, called>>

deleteTimer(t) ==
  /\ life[t] = "created" /\ life' = [life EXCEPT ![t] = "deleting"]
  /\ ui' = Append(ui, [do |-> "delete", id |-> t])
  /\ UNCHANGED <<now, m_timerQueue, m_usingRendering, due, tick, called>>

-----------------------------------------------------------------------------
(* The two sources of ticks *)

(* StartDispatcherTimer for the front of the queue q.                       *)
StartDispatcherTimer(q) ==
  m_usingRendering' = FALSE /\ due' = {Later(FrontTime(q), now)}

StopTicks == m_usingRendering' = FALSE /\ due' = {}

(* StartRendering stops the dispatcher timer and posts a frame.             *)
StartRendering(rest) ==
  m_usingRendering' = TRUE /\ due' = {} /\ ui' = Append(rest, Frame)

-----------------------------------------------------------------------------
(* Tasks of the UI thread *)

Task(what) == ~tick.running /\ ui # <<>> /\ Head(ui).do = what

Entry(task) == [id |-> task.id, target |-> task.target, period |-> task.period, repeat |-> task.repeat]

(* A timer of 0 ms that does not repeat is called at once.                  *)
callTimerAtOnce ==
  /\ Task("create") /\ Head(ui).period = 0 /\ ~Head(ui).repeat
  /\ called' = called \cup {Head(ui).id} /\ ui' = Tail(ui)
  /\ UNCHANGED <<now, m_timerQueue, m_usingRendering, due, tick, life>>

createTimerOnQueue ==
  /\ Task("create") /\ (Head(ui).period # 0 \/ Head(ui).repeat)
  /\ LET e == Entry(Head(ui))
         q == m_timerQueue \cup {e}
     IN /\ m_timerQueue' = q
        /\ IF ~m_usingRendering /\ IsAnimationFrameRequest(e.period, e.repeat)
           THEN StartRendering(Tail(ui))
           ELSE /\ ui' = Tail(ui)
                /\ IF ~m_usingRendering /\ e \in Front(q)
                   THEN StartDispatcherTimer(q) ELSE UNCHANGED <<m_usingRendering, due>>
  /\ UNCHANGED <<now, tick, js>>

(* Mutant: the timer is looked for only at the front of the heap.           *)
deleteTimerOnQueueFront ==
  /\ Task("delete") /\ ui' = Tail(ui)
  /\ m_timerQueue' = {e \in m_timerQueue : e.id # Head(ui).id \/ e \notin Front(m_timerQueue)}
  /\ IF m_timerQueue' = {} THEN StopTicks ELSE UNCHANGED <<m_usingRendering, due>>
  /\ life' = [life EXCEPT ![Head(ui).id] = "deleted"]
  /\ UNCHANGED <<now, tick, called>>

deleteTimerOnQueue ==
  /\ Task("delete") /\ ui' = Tail(ui)
  /\ m_timerQueue' = {e \in m_timerQueue : e.id # Head(ui).id}
  /\ IF m_timerQueue' = {} THEN StopTicks ELSE UNCHANGED <<m_usingRendering, due>>
  /\ life' = [life EXCEPT ![Head(ui).id] = "deleted"]
  /\ UNCHANGED <<now, tick, called>>

(* OnTick starts: from a frame, or from the dispatcher timer.               *)
Started == [Idle EXCEPT !.running = TRUE, !.now = now]

RenderFrame ==
  /\ Task("frame") /\ ui' = Tail(ui) /\ m_usingRendering' = FALSE /\ tick' = Started
  /\ UNCHANGED <<now, m_timerQueue, due, js>>

DispatcherTick ==
  /\ ~tick.running /\ \E d \in due : d <= now
  /\ tick' = Started
  /\ UNCHANGED <<now, ui, m_timerQueue, m_usingRendering, due, js>>

-----------------------------------------------------------------------------
(* OnTick *)

Ready(e) == e.target < tick.now

PopReady ==
  /\ tick.running
  /\ \E e \in Front(m_timerQueue) :
       /\ Ready(e)
       /\ m_timerQueue' = (m_timerQueue \ {e}) \cup
            (IF e.repeat THEN {[e EXCEPT !.target = tick.now + e.period]} ELSE {})
       /\ tick' = [tick EXCEPT !.ready = @ \cup {e.id},
                     !.emitted = @ \/ IsAnimationFrameRequest(e.period, e.repeat)]
  /\ UNCHANGED <<now, ui, m_usingRendering, due, js>>

(* Mutant: after an animation frame no timer is started.                    *)
EndTickWaits ==
  /\ tick.running /\ \A e \in m_timerQueue : ~Ready(e)
  /\ IF m_timerQueue = {} THEN StopTicks /\ UNCHANGED ui
     ELSE IF tick.emitted THEN UNCHANGED <<m_usingRendering, due, ui>>
     ELSE StartDispatcherTimer(m_timerQueue) /\ UNCHANGED ui
  /\ called' = called \cup tick.ready
  /\ tick' = Idle
  /\ UNCHANGED <<now, m_timerQueue, life>>

EndTick ==
  /\ tick.running /\ \A e \in m_timerQueue : ~Ready(e)
  /\ IF m_timerQueue = {} THEN StopTicks /\ UNCHANGED ui
     ELSE IF m_usingRendering /\ tick.emitted
          THEN ui' = Append(ui, Frame) /\ UNCHANGED <<m_usingRendering, due>>
     ELSE StartDispatcherTimer(m_timerQueue) /\ UNCHANGED ui
  /\ called' = called \cup tick.ready
  /\ tick' = Idle
  /\ UNCHANGED <<now, m_timerQueue, life>>

Advance ==
  /\ now < MaxNow /\ now' = now + 1
  /\ UNCHANGED <<ui, m_timerQueue, m_usingRendering, due, tick, js>>

UI ==
  \/ callTimerAtOnce \/ createTimerOnQueue \/ deleteTimerOnQueue \/ RenderFrame
  \/ PopReady \/ EndTick

Next ==
  \/ \E t \in Timer : deleteTimer(t) \/ \E p \in Periods, r \in BOOLEAN : createTimer(t, p, r)
  \/ UI \/ DispatcherTick \/ Advance

Spec == Init /\ [][Next]_vars

(* The UI thread runs its tasks, the timer ticks, and time passes.          *)
Fairness == WF_vars(UI) /\ WF_vars(DispatcherTick) /\ WF_vars(Advance)
FairSpec == Spec /\ Fairness

-----------------------------------------------------------------------------
(* Properties *)

(* The types; a timer is in the heap at most once.                          *)
TypeOK ==
  /\ now \in Times /\ m_usingRendering \in BOOLEAN /\ Cardinality(due) <= 1
  /\ \A e, f \in m_timerQueue : e.id = f.id => e = f
  /\ \A e \in m_timerQueue : e.target \in Nat /\ e.period \in Periods
  /\ called \subseteq Timer

(* A timer that the UI thread has deleted is not called any more.           *)
DeletedIsSilent == [][\A t \in Timer : life[t] = "deleted" => t \notin tick.ready /\ (t \in called' => t \in called)]_vars

(* A timer that falls due while time is counted is called or deleted.       *)
TimersAreCalled ==
  \A t \in Timer :
    (\E e \in m_timerQueue : e.id = t /\ e.target < MaxNow) ~> (t \in called \/ life[t] = "deleted")

=============================================================================
