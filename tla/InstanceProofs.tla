--------------------------- MODULE InstanceProofs ---------------------------
(***************************************************************************)
(* The calls of a React instance, its notification service and its timers,  *)
(* for any number of calls, subscriptions, threads and timers.  For each    *)
(* part: an inductive invariant, what the steps do to it, and the           *)
(* properties that follow.                                                  *)
(***************************************************************************)
EXTENDS MCInstance, Integers, TLAPS

-----------------------------------------------------------------------------
(* ReactInstance: the invariant                                             *)

(* The labels of the threads and the tasks of the JS thread.                *)
JsPc == {"idle", "jsError", "loaded", "guard", "drain", "abandon", "call"}
NativePc == {"idle", "init", "wait", "load", "abandon", "destroy"}
JsTasks == {"runtime", "created", "script", "loaded", "call", "destroy"}

PcTypes == pc \in [init : {"ui", "native", "done"}, native : NativePc, js : JsPc, ui : {"idle", "abandon"}]
InstanceTypes == Instance!TypeOK /\ PcTypes

(* The tasks the native queue waits for: there is one, and it does wait.    *)
Awaited == {"runtime", "destroy"}
AwaitedIn(q, at) ==
  /\ \A i \in DOMAIN q : q[i] \in Awaited => at = "wait"
  /\ \A i, j \in DOMAIN q : q[i] \in Awaited /\ q[j] \in Awaited => i = j
OneAwaited == AwaitedIn(jsQueue, pc.native)

(* The call c is in the queue.                                              *)
Waits(c) == \E i \in DOMAIN m_jsCallQueue : m_jsCallQueue[i] = c

(* The entry, the queue and the outcomes tell the same.                     *)
QueueExact ==
  /\ IF pc.js = "call" THEN \E c \in JsCall : entry = <<c>> /\ ~Waits(c) /\ outcome[c] = "queued"
                       ELSE entry = <<>>
  /\ \A c \in JsCall : Waits(c) => outcome[c] = "queued"
  /\ \A c \in JsCall : outcome[c] = "queued" => Waits(c) \/ entry = <<c>>
  /\ \A i, j \in DOMAIN m_jsCallQueue : m_jsCallQueue[i] = m_jsCallQueue[j] => i = j

(* Who is going to empty the queue, by the state.  A loaded instance is     *)
(* drained by the JS thread itself.  After an error or Destroy each of the  *)
(* threads that wrote the state still has to look at the queue, and one of  *)
(* them finds it abandoned, or loaded again and draining.                   *)
QueueIsServed ==
  /\ m_state = "Loaded" /\ m_jsCallQueue # <<>> => pc.js \in {"drain", "call"}
  /\ m_state \in {"HasError", "Unloaded"} /\ m_jsCallQueue # <<>> =>
       pc.js \in {"jsError", "abandon"} \/ pc.native \in {"abandon", "destroy"} \/ pc.ui = "abandon"
  /\ pc.js \in {"jsError", "abandon"} => m_state \in {"HasError", "Unloaded"}
  /\ pc.native = "destroy" \/ pc.native = "abandon" \/ pc.ui = "abandon" => m_state # "Loading"

(* The queue keeps the order of the calls, and nothing younger than a       *)
(* waiting call is on its way to JavaScript.                                *)
OrderKept ==
  /\ \A k \in DOMAIN order : outcome[order[k]] # "none"
  /\ \A a, b \in DOMAIN m_jsCallQueue, j, k \in DOMAIN order :
       a < b /\ order[j] = m_jsCallQueue[a] /\ order[k] = m_jsCallQueue[b] => j < k
  /\ \A c \in JsCall, j, k \in DOMAIN order :
       Waits(c) /\ order[j] = c /\ j < k =>
         outcome[order[k]] \notin {"calling", "called"} /\ entry # <<order[k]>>

(* The inductive invariant of ReactInstance.                                *)
InstanceInv == InstanceTypes /\ OneAwaited /\ QueueExact /\ QueueIsServed /\ OrderKept

-----------------------------------------------------------------------------
(* ReactInstance: the queue of the JS thread                                *)

(* What is behind a queue of tasks when more are posted.                    *)
LEMMA Posts ==
  ASSUME NEW q \in Seq(JsTasks), NEW p \in Seq(JsTasks)
  PROVE  /\ q \o p \in Seq(JsTasks)
         /\ \A i \in DOMAIN (q \o p) :
              \/ i \in DOMAIN q /\ (q \o p)[i] = q[i]
              \/ i - Len(q) \in DOMAIN p /\ (q \o p)[i] = p[i - Len(q)]
         /\ Len(q) \in Nat /\ \A i \in DOMAIN (q \o p) : i \in Nat
  OBVIOUS

(* Posting tasks nobody waits for.                                          *)
LEMMA PostFree ==
  ASSUME NEW q \in Seq(JsTasks), NEW p \in Seq(JsTasks), NEW at, AwaitedIn(q, at),
         \A i \in DOMAIN p : p[i] \notin Awaited
  PROVE  q \o p \in Seq(JsTasks) /\ AwaitedIn(q \o p, at)
  BY Posts DEF AwaitedIn

(* Posting a task that the native queue waits for.                          *)
LEMMA PostAwaited ==
  ASSUME NEW q \in Seq(JsTasks), NEW task \in Awaited, NEW at, AwaitedIn(q, at), at # "wait"
  PROVE  q \o <<task>> \in Seq(JsTasks) /\ AwaitedIn(q \o <<task>>, "wait")
  <1>1. task \in JsTasks
    BY DEF Awaited, JsTasks
  <1>2. PICK p : p = <<task>>
    OBVIOUS
  <1>3. p \in Seq(JsTasks) /\ Len(p) = 1
    BY <1>1, <1>2
  <1>4. DOMAIN p = {1}
    BY <1>3
  <1>5. \A i \in DOMAIN (q \o p) : (q \o p)[i] \in Awaited => i - Len(q) = 1
    BY Posts, <1>3, <1>4 DEF AwaitedIn
  <1>6. \A i, j \in DOMAIN (q \o p) : (q \o p)[i] \in Awaited /\ (q \o p)[j] \in Awaited => i = j
    BY Posts, <1>3, <1>5
  <1> QED BY Posts, <1>2, <1>3, <1>6 DEF AwaitedIn

(* The tasks that are posted without waiting.                               *)
Free(p) ==
  \/ p = <<>> \/ p = <<"call">> \/ p = <<"created", "script", "loaded">> \/ p = <<"created", "loaded">>

LEMMA FreeTasks ==
  ASSUME NEW p, Free(p)
  PROVE  p \in Seq(JsTasks) /\ \A i \in DOMAIN p : p[i] \notin Awaited
  <1>1. CASE p = <<>>
    BY <1>1
  <1>2. CASE p = <<"call">>
    BY <1>2 DEF JsTasks, Awaited
  <1>3. CASE p = <<"created", "script", "loaded">>
    BY <1>3 DEF JsTasks, Awaited
  <1>4. CASE p = <<"created", "loaded">>
    BY <1>4 DEF JsTasks, Awaited
  <1> QED BY <1>1, <1>2, <1>3, <1>4 DEF Free

(* RunAsync of such tasks, whether the thread still takes them or not.      *)
LEMMA RunAsyncFree ==
  ASSUME InstanceInv, NEW p, Free(p), Instance!RunAsync(p)
  PROVE  jsQueue' \in Seq(JsTasks) /\ AwaitedIn(jsQueue', pc.native)
  <1>1. jsQueue \in Seq(JsTasks) /\ AwaitedIn(jsQueue, pc.native)
    BY DEF InstanceInv, InstanceTypes, PcTypes, Instance!TypeOK, OneAwaited, JsTasks
  <1>2. CASE running
    <2>1. jsQueue' = jsQueue \o p
      BY <1>2 DEF Instance!RunAsync
    <2>2. jsQueue \o p \in Seq(JsTasks) /\ AwaitedIn(jsQueue \o p, pc.native)
      BY <1>1, FreeTasks, PostFree
    <2> QED BY <2>1, <2>2
  <1>3. CASE ~running
    BY <1>1, <1>3 DEF Instance!RunAsync
  <1> QED BY <1>2, <1>3

(* RunAsync of a task that the native queue waits for.                      *)
LEMMA RunAsyncAwaited ==
  ASSUME InstanceInv, NEW task \in Awaited, Instance!RunAsync(<<task>>), pc.native # "wait"
  PROVE  jsQueue' \in Seq(JsTasks) /\ AwaitedIn(jsQueue', "wait")
  <1>1. jsQueue \in Seq(JsTasks) /\ AwaitedIn(jsQueue, pc.native)
    BY DEF InstanceInv, InstanceTypes, PcTypes, Instance!TypeOK, OneAwaited, JsTasks
  <1>2. CASE running
    <2>1. jsQueue' = jsQueue \o <<task>>
      BY <1>2 DEF Instance!RunAsync
    <2>2. jsQueue \o <<task>> \in Seq(JsTasks) /\ AwaitedIn(jsQueue \o <<task>>, "wait")
      BY <1>1, PostAwaited
    <2> QED BY <2>1, <2>2
  <1>3. CASE ~running
    BY <1>1, <1>3 DEF Instance!RunAsync, AwaitedIn
  <1> QED BY <1>2, <1>3

(* A task is taken.                                                         *)
LEMMA TakeTask ==
  ASSUME NEW q \in Seq(JsTasks), NEW at, AwaitedIn(q, at), q # <<>>
  PROVE  /\ Tail(q) \in Seq(JsTasks) /\ AwaitedIn(Tail(q), at)
         /\ Head(q) \in Awaited => at = "wait" /\ \A other : AwaitedIn(Tail(q), other)
  <1>1. Tail(q) \in Seq(JsTasks) /\ Head(q) = q[1] /\ 1 \in DOMAIN q
    OBVIOUS
  <1>2. \A i \in DOMAIN Tail(q) : i \in Nat /\ i + 1 # 1 /\ i + 1 \in DOMAIN q /\ Tail(q)[i] = q[i + 1]
    OBVIOUS
  <1>3. \A i, j \in DOMAIN Tail(q) : i + 1 = j + 1 => i = j
    BY <1>2
  <1> QED BY <1>1, <1>2, <1>3 DEF AwaitedIn

-----------------------------------------------------------------------------
(* ReactInstance: steps that leave the calls alone or abandon them          *)

(* The calls are left alone.                                                *)
LEMMA SameCalls ==
  ASSUME QueueExact, OrderKept, UNCHANGED Instance!calls, pc'.js = "call" <=> pc.js = "call"
  PROVE  QueueExact' /\ OrderKept'
  <1>1. UNCHANGED <<m_jsCallQueue, entry, order, outcome>>
    BY DEF Instance!calls
  <1>2. \A c : Waits(c)' <=> Waits(c)
    BY <1>1 DEF Waits
  <1>3. QueueExact'
    BY <1>1, <1>2 DEF QueueExact
  <1>4. OrderKept'
    BY <1>1, <1>2 DEF OrderKept
  <1> QED BY <1>3, <1>4

(* AbandonJSCallQueue, at the end of an error or of Destroy.                *)
LEMMA Abandons ==
  ASSUME InstanceInv, Instance!AbandonJSCallQueue, UNCHANGED <<entry, order>>, pc'.js = "call" <=> pc.js = "call"
  PROVE  /\ QueueExact' /\ OrderKept'
         /\ m_jsCallQueue' \in Seq(JsCall) /\ order' \in Seq(JsCall)
         /\ outcome' \in [JsCall -> {"none", "queued", "calling", "called", "dropped"}]
         /\ IF m_state \in {"HasError", "Unloaded"} THEN m_jsCallQueue' = <<>>
                                                   ELSE m_jsCallQueue' = m_jsCallQueue
         /\ \A c \in JsCall : outcome'[c] = "called" => outcome[c] = "called"
  <1>1. /\ m_jsCallQueue \in Seq(JsCall) /\ order \in Seq(JsCall)
        /\ outcome \in [JsCall -> {"none", "queued", "calling", "called", "dropped"}]
        /\ QueueExact /\ OrderKept
    BY DEF InstanceInv, InstanceTypes, PcTypes, Instance!TypeOK
  <1>2. CASE m_state \in {"HasError", "Unloaded"}
    <2>1. /\ m_jsCallQueue' = <<>>
          /\ outcome' = [c \in JsCall |-> IF c \in Instance!Abandoned THEN "dropped" ELSE outcome[c]]
      BY <1>2 DEF Instance!AbandonJSCallQueue
    <2>2. \A c : c \in Instance!Abandoned <=> Waits(c)
      BY DEF Instance!Abandoned, Waits
    <2>3. \A c : ~Waits(c)'
      BY <2>1 DEF Waits
    <2>4. outcome' \in [JsCall -> {"none", "queued", "calling", "called", "dropped"}]
      BY <1>1, <2>1
    <2>5. \A c \in JsCall : IF Waits(c) THEN outcome'[c] = "dropped" ELSE outcome'[c] = outcome[c]
      BY <2>1, <2>2
    <2>6. DOMAIN m_jsCallQueue' = {}
      BY <2>1
    <2>7. QueueExact'
      BY <1>1, <2>3, <2>5, <2>6 DEF QueueExact
    <2>8. OrderKept'
      <3>1. \A k \in DOMAIN order : order[k] \in JsCall
        BY <1>1
      <3> QED BY <1>1, <2>3, <2>5, <2>6, <3>1 DEF OrderKept
    <2> QED BY <1>1, <1>2, <2>1, <2>4, <2>5, <2>7, <2>8
  <1>3. CASE m_state \notin {"HasError", "Unloaded"}
    <2>1. UNCHANGED Instance!calls
      BY <1>3 DEF Instance!AbandonJSCallQueue, Instance!calls
    <2>2. QueueExact' /\ OrderKept'
      BY <1>1, <2>1, SameCalls
    <2> QED BY <1>1, <1>3, <2>1, <2>2 DEF Instance!calls
  <1> QED BY <1>2, <1>3

-----------------------------------------------------------------------------
(* ReactInstance: calls keep the invariant                                  *)

(* The entries of the queue and of the history are calls.                   *)
LEMMA CallTypes ==
  ASSUME InstanceInv
  PROVE  /\ m_jsCallQueue \in Seq(JsCall) /\ order \in Seq(JsCall)
         /\ \A i \in DOMAIN m_jsCallQueue : m_jsCallQueue[i] \in JsCall
         /\ \A k \in DOMAIN order : order[k] \in JsCall
         /\ outcome \in [JsCall -> {"none", "queued", "calling", "called", "dropped"}]
         /\ QueueExact /\ OrderKept
  BY DEF InstanceInv, InstanceTypes, PcTypes, Instance!TypeOK

(* The entry is a queued call that left the queue.                          *)
LEMMA EntryIsQueued ==
  ASSUME InstanceInv, NEW c, entry = <<c>>
  PROVE  pc.js = "call" /\ c \in JsCall /\ outcome[c] = "queued" /\ ~Waits(c)
  <1>1. QueueExact
    BY DEF InstanceInv
  <1>2. entry # <<>> /\ entry[1] = c
    OBVIOUS
  <1>3. pc.js = "call"
    BY <1>1, <1>2 DEF QueueExact
  <1>4. PICK d \in JsCall : entry = <<d>> /\ ~Waits(d) /\ outcome[d] = "queued"
    BY <1>1, <1>3 DEF QueueExact
  <1>5. d = c
    BY <1>2, <1>4
  <1> QED BY <1>3, <1>4, <1>5

(* A call finds its way to JavaScript, or does not.                         *)
LEMMA OutcomeDecided ==
  ASSUME InstanceInv, NEW c \in JsCall, outcome' \in [JsCall -> {"none", "queued", "calling", "called", "dropped"}],
         outcome'[c] \in {"calling", "called", "dropped"}, outcome[c] # "queued", ~Waits(c),
         \A d \in JsCall : d # c => outcome'[d] = outcome[d],
         outcome'[c] = "calling" => m_jsCallQueue = <<>>,
         outcome'[c] = "called" => outcome[c] = "calling",
         UNCHANGED <<m_jsCallQueue, entry, pc>>,
         order' = order
  PROVE  QueueExact' /\ OrderKept'
  <1>1. \A d : Waits(d)' <=> Waits(d)
    BY DEF Waits
  <1>2. QueueExact'
    BY <1>1, CallTypes DEF QueueExact
  <1>3. \A d : m_jsCallQueue = <<>> => ~Waits(d)
    BY DEF Waits
  <1>4. OrderKept'
    BY <1>1, <1>3, CallTypes DEF OrderKept
  <1> QED BY <1>2, <1>4

LEMMA CallNowInv ==
  ASSUME InstanceInv, NEW c \in JsCall, Instance!CallNow(c)
  PROVE  InstanceInv'
  <1>1. outcome[c] = "calling" /\ UNCHANGED <<m_state, m_jsCallQueue, entry, order, pc, whenLoaded>>
    BY DEF Instance!CallNow, Instance!promises
  <1>2. PICK o \in {"called", "dropped"} : outcome' = [outcome EXCEPT ![c] = o]
    BY DEF Instance!CallNow, Instance!CallFunctionOnModule
  <1>3. outcome' \in [JsCall -> {"none", "queued", "calling", "called", "dropped"}]
        /\ outcome'[c] = o /\ \A d \in JsCall : d # c => outcome'[d] = outcome[d]
    BY <1>2, CallTypes
  <1>4. ~Waits(c)
    BY <1>1, CallTypes DEF QueueExact
  <1>5. QueueExact' /\ OrderKept'
    BY <1>1, <1>2, <1>3, <1>4, OutcomeDecided
  <1>6. jsQueue' \in Seq(JsTasks) /\ AwaitedIn(jsQueue', pc.native)
    <2>1. PICK p : Free(p) /\ Instance!RunAsync(p)
      BY DEF Instance!CallNow, Instance!CallFunctionOnModule, Free
    <2> QED BY <2>1, RunAsyncFree
  <1>7. InstanceTypes'
    BY <1>1, <1>3, <1>6 DEF InstanceInv, InstanceTypes, PcTypes, Instance!TypeOK, JsTasks
  <1>8. OneAwaited' /\ QueueIsServed'
    BY <1>1, <1>6 DEF InstanceInv, OneAwaited, QueueIsServed
  <1> QED BY <1>5, <1>7, <1>8 DEF InstanceInv

(* A call that goes through or is queued is the last in the order.          *)
LEMMA AppendedCall ==
  ASSUME NEW l \in Seq(JsCall), NEW c \in JsCall
  PROVE  /\ Append(l, c) \in Seq(JsCall) /\ Append(l, c) # <<>> /\ Len(l) + 1 \in DOMAIN Append(l, c)
         /\ Append(l, c)[Len(l) + 1] = c /\ DOMAIN l \subseteq DOMAIN Append(l, c)
         /\ \A i \in DOMAIN l : i \in Nat /\ i < Len(l) + 1 /\ Append(l, c)[i] = l[i]
         /\ \A i \in DOMAIN Append(l, c) : i \in DOMAIN l \/ i = Len(l) + 1
         /\ Len(l) + 1 \in Nat
  OBVIOUS

LEMMA CallJsFunctionInv ==
  ASSUME InstanceInv, NEW c \in JsCall, Instance!CallJsFunction(c)
  PROVE  InstanceInv'
  <1>1. outcome[c] = "none" /\ UNCHANGED <<m_state, entry, jsQueue, pc, whenLoaded>>
    BY DEF Instance!CallJsFunction, Instance!promises, Instance!jsThread
  <1>2. ~Waits(c) /\ entry # <<c>>
    BY <1>1, CallTypes, EntryIsQueued DEF QueueExact
  <1>3. \A k \in DOMAIN order : order[k] # c
    BY <1>1, CallTypes DEF OrderKept
  <1>4. CASE m_state = "Loaded" /\ m_jsCallQueue = <<>> /\ m_jsCallQueue' = m_jsCallQueue
             /\ outcome' = [outcome EXCEPT ![c] = "calling"] /\ order' = Append(order, c)
    <2>1. outcome' \in [JsCall -> {"none", "queued", "calling", "called", "dropped"}]
          /\ outcome'[c] = "calling" /\ \A d \in JsCall : d # c => outcome'[d] = outcome[d]
      BY <1>4, CallTypes
    <2>2. \A d : ~Waits(d) /\ ~Waits(d)'
      BY <1>4 DEF Waits
    <2>3. DOMAIN m_jsCallQueue' = {}
      BY <1>4
    <2>4. QueueExact'
      BY <1>1, <2>1, <2>2, <2>3, CallTypes DEF QueueExact
    <2>5. order' \in Seq(JsCall) /\ \A k \in DOMAIN order' : order'[k] = c \/ (k \in DOMAIN order
            /\ order'[k] = order[k])
      BY <1>4, CallTypes, AppendedCall
    <2>6. \A k \in DOMAIN order' : outcome'[order'[k]] # "none"
      BY <1>3, <2>1, <2>5, CallTypes DEF OrderKept
    <2>7. OrderKept'
      BY <2>2, <2>3, <2>6 DEF OrderKept
    <2>8. InstanceTypes'
      BY <1>1, <1>4, <2>1, <2>5 DEF InstanceInv, InstanceTypes, PcTypes, Instance!TypeOK
    <2>9. OneAwaited' /\ QueueIsServed'
      BY <1>1, <1>4 DEF InstanceInv, OneAwaited, QueueIsServed
    <2> QED BY <2>4, <2>7, <2>8, <2>9 DEF InstanceInv
  <1>5. CASE /\ m_state = "Loading" \/ (m_state = "Loaded" /\ m_jsCallQueue # <<>>)
             /\ outcome' = [outcome EXCEPT ![c] = "queued"]
             /\ order' = Append(order, c) /\ m_jsCallQueue' = Append(m_jsCallQueue, c)
    <2>1. outcome' \in [JsCall -> {"none", "queued", "calling", "called", "dropped"}]
          /\ outcome'[c] = "queued" /\ \A d \in JsCall : d # c => outcome'[d] = outcome[d]
      BY <1>5, CallTypes
    <2>2. \A d : Waits(d)' <=> Waits(d) \/ d = c
      BY <1>5, CallTypes, AppendedCall DEF Waits
    <2>3. /\ m_jsCallQueue' \in Seq(JsCall) /\ Len(m_jsCallQueue) + 1 \in DOMAIN m_jsCallQueue'
          /\ m_jsCallQueue'[Len(m_jsCallQueue) + 1] = c
          /\ \A i \in DOMAIN m_jsCallQueue : i < Len(m_jsCallQueue) + 1 /\ m_jsCallQueue'[i] = m_jsCallQueue[i]
          /\ \A i \in DOMAIN m_jsCallQueue' : i \in DOMAIN m_jsCallQueue \/ i = Len(m_jsCallQueue) + 1
          /\ Len(m_jsCallQueue) + 1 \in Nat /\ \A i \in DOMAIN m_jsCallQueue : i \in Nat
      BY <1>5, CallTypes, AppendedCall
    <2>4. /\ order' \in Seq(JsCall) /\ Len(order) + 1 \in Nat
          /\ \A k \in DOMAIN order' : k \in DOMAIN order \/ k = Len(order) + 1
          /\ order'[Len(order) + 1] = c
          /\ \A k \in DOMAIN order : k \in Nat /\ k < Len(order) + 1 /\ order'[k] = order[k]
      BY <1>5, CallTypes, AppendedCall
    <2>5. QueueExact'
      <3>1. \A i, j \in DOMAIN m_jsCallQueue' : m_jsCallQueue'[i] = m_jsCallQueue'[j] => i = j
        BY <1>2, <2>3, CallTypes DEF QueueExact, Waits
      <3> QED BY <1>1, <1>2, <2>1, <2>2, <3>1, CallTypes DEF QueueExact
    <2>6. \A k \in DOMAIN order' : outcome'[order'[k]] # "none"
      BY <1>3, <2>1, <2>4, CallTypes DEF OrderKept
    <2>7. ASSUME NEW a \in DOMAIN m_jsCallQueue', NEW b \in DOMAIN m_jsCallQueue',
                 NEW j \in DOMAIN order', NEW k \in DOMAIN order',
                 a < b, order'[j] = m_jsCallQueue'[a], order'[k] = m_jsCallQueue'[b]
          PROVE  j < k
      <3>1. a \in DOMAIN m_jsCallQueue /\ m_jsCallQueue'[a] = m_jsCallQueue[a]
        BY <2>3, <2>7
      <3>2. m_jsCallQueue[a] # c
        BY <1>2, <3>1 DEF Waits
      <3>3. j \in DOMAIN order /\ order'[j] = order[j]
        BY <2>4, <2>7, <3>1, <3>2
      <3>4. CASE b \in DOMAIN m_jsCallQueue
        <4>1. m_jsCallQueue'[b] = m_jsCallQueue[b] /\ m_jsCallQueue[b] # c
          BY <1>2, <2>3, <3>4 DEF Waits
        <4>2. k \in DOMAIN order /\ order'[k] = order[k]
          BY <2>4, <2>7, <4>1
        <4> QED BY <2>7, <3>1, <3>3, <3>4, <4>1, <4>2, CallTypes DEF OrderKept
      <3>5. CASE b = Len(m_jsCallQueue) + 1
        <4>1. order'[k] = c
          BY <2>3, <2>7, <3>5
        <4>2. k = Len(order) + 1
          BY <1>3, <2>4, <4>1
        <4> QED BY <2>4, <3>3, <4>2
      <3> QED BY <2>3, <3>4, <3>5
    <2>8. ASSUME NEW d \in JsCall, NEW j \in DOMAIN order', NEW k \in DOMAIN order',
                 Waits(d)', order'[j] = d, j < k
          PROVE  outcome'[order'[k]] \notin {"calling", "called"} /\ entry' # <<order'[k]>>
      <3>1. CASE k = Len(order) + 1
        BY <1>1, <1>2, <2>1, <2>4, <3>1
      <3>2. CASE k \in DOMAIN order
        <4>1. j \in DOMAIN order
          BY <2>4, <2>8, <3>2
        <4>2. order'[j] = order[j] /\ order'[k] = order[k] /\ order[j] # c /\ order[k] # c /\ order[k] \in JsCall
          BY <1>3, <2>4, <3>2, <4>1, CallTypes
        <4>3. Waits(d)
          BY <2>2, <2>8, <4>2
        <4> QED BY <1>1, <2>1, <2>8, <3>2, <4>1, <4>2, <4>3, CallTypes DEF OrderKept
      <3> QED BY <2>4, <3>1, <3>2
    <2>9. OrderKept'
      BY <2>6, <2>7, <2>8 DEF OrderKept
    <2>10. InstanceTypes'
      BY <1>1, <2>1, <2>3, <2>4 DEF InstanceInv, InstanceTypes, PcTypes, Instance!TypeOK
    <2>11. OneAwaited' /\ QueueIsServed'
      BY <1>1, <1>5 DEF InstanceInv, OneAwaited, QueueIsServed
    <2> QED BY <2>5, <2>9, <2>10, <2>11 DEF InstanceInv
  <1>6. CASE outcome' = [outcome EXCEPT ![c] = "dropped"] /\ UNCHANGED <<order, m_jsCallQueue>>
    <2>1. outcome' \in [JsCall -> {"none", "queued", "calling", "called", "dropped"}]
          /\ outcome'[c] = "dropped" /\ \A d \in JsCall : d # c => outcome'[d] = outcome[d]
      BY <1>6, CallTypes
    <2>2. QueueExact' /\ OrderKept'
      BY <1>1, <1>2, <1>6, <2>1, OutcomeDecided
    <2>3. InstanceTypes'
      BY <1>1, <1>6, <2>1 DEF InstanceInv, InstanceTypes, PcTypes, Instance!TypeOK
    <2>4. OneAwaited' /\ QueueIsServed'
      BY <1>1, <1>6 DEF InstanceInv, OneAwaited, QueueIsServed
    <2> QED BY <2>2, <2>3, <2>4 DEF InstanceInv
  <1> QED BY <1>4, <1>5, <1>6 DEF Instance!CallJsFunction

LEMMA DrainJSCallQueueInv ==
  ASSUME InstanceInv, Instance!DrainJSCallQueue
  PROVE  InstanceInv'
  <1>1. pc.js = "drain" /\ UNCHANGED <<m_state, order, outcome, jsQueue, whenLoaded>> /\ entry = <<>>
    BY DEF Instance!DrainJSCallQueue, Instance!promises, Instance!jsThread, InstanceInv, QueueExact
  <1>2. CASE m_state = "Loaded" /\ m_jsCallQueue # <<>>
    <2>1. entry' = <<Head(m_jsCallQueue)>> /\ m_jsCallQueue' = Tail(m_jsCallQueue) /\ Instance!Goto("js", "call")
      BY <1>2 DEF Instance!DrainJSCallQueue
    <2>2. PICK c \in JsCall : c = Head(m_jsCallQueue) /\ c = m_jsCallQueue[1] /\ 1 \in DOMAIN m_jsCallQueue
      BY <1>2, CallTypes
    <2>3. /\ m_jsCallQueue' \in Seq(JsCall)
          /\ \A i \in DOMAIN m_jsCallQueue' :
               i \in Nat /\ 1 < i + 1 /\ i + 1 \in DOMAIN m_jsCallQueue /\ m_jsCallQueue'[i] = m_jsCallQueue[i + 1]
          /\ \A i \in DOMAIN m_jsCallQueue : i \in Nat /\ (i # 1 => i - 1 \in DOMAIN m_jsCallQueue')
      BY <1>2, <2>1, CallTypes
    <2>4. \A i, j \in DOMAIN m_jsCallQueue : m_jsCallQueue[i] = m_jsCallQueue[j] => i = j
      BY CallTypes DEF QueueExact
    <2>5. \A d : Waits(d)' <=> Waits(d) /\ d # c
      <3>1. ASSUME NEW d, Waits(d)' PROVE Waits(d) /\ d # c
        <4>1. PICK i \in DOMAIN m_jsCallQueue' : m_jsCallQueue'[i] = d
          BY <3>1 DEF Waits
        <4> QED BY <2>2, <2>3, <2>4, <4>1 DEF Waits
      <3>2. ASSUME NEW d, Waits(d), d # c PROVE Waits(d)'
        <4>1. PICK i \in DOMAIN m_jsCallQueue : m_jsCallQueue[i] = d
          BY <3>2 DEF Waits
        <4>2. i # 1 /\ i \in Nat
          BY <2>2, <2>3, <3>2, <4>1
        <4>3. i - 1 \in DOMAIN m_jsCallQueue' /\ (i - 1) + 1 = i
          BY <2>3, <4>2
        <4>4. m_jsCallQueue'[i - 1] = d
          BY <2>3, <4>1, <4>3
        <4> QED BY <4>3, <4>4 DEF Waits
      <3> QED BY <3>1, <3>2
    <2>6. pc'.js = "call" /\ pc'.native = pc.native /\ pc'.ui = pc.ui
          /\ PcTypes'
      BY <2>1 DEF Instance!Goto, InstanceInv, InstanceTypes, PcTypes, JsPc
    <2>7. Waits(c) /\ outcome[c] = "queued" /\ entry' = <<c>>
      BY <2>1, <2>2, CallTypes DEF Waits, QueueExact
    <2>8. \A d \in JsCall : entry # <<d>>
      BY <1>1
    <2>9. QueueExact'
      <3>1. \A i, j \in DOMAIN m_jsCallQueue' : m_jsCallQueue'[i] = m_jsCallQueue'[j] => i = j
        BY <2>3, <2>4
      <3>2. \A d \in JsCall : Waits(d)' => outcome'[d] = "queued"
        BY <1>1, <2>5, CallTypes DEF QueueExact
      <3>3. \A d \in JsCall : outcome'[d] = "queued" => Waits(d)' \/ entry' = <<d>>
        BY <1>1, <2>5, <2>7, <2>8, CallTypes DEF QueueExact
      <3> QED BY <1>1, <2>5, <2>6, <2>7, <3>1, <3>2, <3>3 DEF QueueExact
    <2>10. ASSUME NEW a \in DOMAIN m_jsCallQueue', NEW b \in DOMAIN m_jsCallQueue',
                  NEW j \in DOMAIN order, NEW k \in DOMAIN order,
                  a < b, order[j] = m_jsCallQueue'[a], order[k] = m_jsCallQueue'[b]
           PROVE  j < k
      <3>1. a + 1 \in DOMAIN m_jsCallQueue /\ b + 1 \in DOMAIN m_jsCallQueue /\ a + 1 < b + 1
        BY <2>3, <2>10
      <3> QED BY <2>3, <2>10, <3>1, CallTypes DEF OrderKept
    <2>11. ASSUME NEW d \in JsCall, NEW j \in DOMAIN order, NEW k \in DOMAIN order,
                  Waits(d)', order[j] = d, j < k
           PROVE  outcome[order[k]] \notin {"calling", "called"} /\ order[k] # c
      <3>1. Waits(d)
        BY <2>5, <2>11
      <3>2. PICK i \in DOMAIN m_jsCallQueue' : m_jsCallQueue'[i] = d
        BY <2>11 DEF Waits
      <3>3. i + 1 \in DOMAIN m_jsCallQueue /\ 1 < i + 1 /\ m_jsCallQueue[i + 1] = d
        BY <2>3, <3>2
      <3>4. ASSUME order[k] = c PROVE k < j
        BY <2>2, <2>11, <3>3, <3>4, CallTypes DEF OrderKept
      <3>5. j \in Nat /\ k \in Nat
        BY CallTypes
      <3> QED BY <2>11, <3>1, <3>4, <3>5, CallTypes DEF OrderKept
    <2>12. OrderKept'
      <3>1. \A k \in DOMAIN order : order[k] # c => entry' # <<order[k]>>
        BY <2>7
      <3>2. \A k \in DOMAIN order' : outcome'[order'[k]] # "none"
        BY <1>1, CallTypes DEF OrderKept
      <3> QED BY <1>1, <2>10, <2>11, <3>1, <3>2 DEF OrderKept
    <2>13. InstanceTypes'
      BY <1>1, <2>3, <2>6 DEF InstanceInv, InstanceTypes, PcTypes, Instance!TypeOK
    <2>14. OneAwaited'
      BY <1>1, <2>6 DEF InstanceInv, OneAwaited
    <2>15. QueueIsServed'
      BY <1>1, <1>2, <2>6 DEF InstanceInv, QueueIsServed
    <2> QED BY <2>9, <2>12, <2>13, <2>14, <2>15 DEF InstanceInv
  <1>3. CASE ~(m_state = "Loaded" /\ m_jsCallQueue # <<>>)
    <2>1. Instance!Goto("js", "idle") /\ UNCHANGED <<entry, m_jsCallQueue>>
      BY <1>3 DEF Instance!DrainJSCallQueue
    <2>2. pc'.js = "idle" /\ pc'.native = pc.native /\ pc'.ui = pc.ui
          /\ PcTypes'
      BY <2>1 DEF Instance!Goto, InstanceInv, InstanceTypes, PcTypes, JsPc
    <2>3. QueueExact' /\ OrderKept'
      BY <1>1, <2>1, <2>2, CallTypes, SameCalls DEF Instance!calls
    <2>4. InstanceTypes' /\ OneAwaited'
      BY <1>1, <2>1, <2>2 DEF InstanceInv, InstanceTypes, PcTypes, Instance!TypeOK, OneAwaited
    <2>5. QueueIsServed'
      BY <1>1, <1>3, <2>1, <2>2 DEF InstanceInv, QueueIsServed
    <2> QED BY <2>3, <2>4, <2>5 DEF InstanceInv
  <1> QED BY <1>2, <1>3

LEMMA DrainCallInv ==
  ASSUME InstanceInv, Instance!DrainCall
  PROVE  InstanceInv'
  <1>1. pc.js = "call" /\ UNCHANGED <<m_state, m_jsCallQueue, order, whenLoaded>> /\ entry' = <<>>
          /\ Instance!Goto("js", "drain")
    BY DEF Instance!DrainCall, Instance!promises
  <1>2. PICK c \in JsCall : entry = <<c>> /\ ~Waits(c) /\ outcome[c] = "queued"
    BY <1>1, CallTypes DEF QueueExact
  <1>3. PICK o \in {"called", "dropped"} : outcome' = [outcome EXCEPT ![c] = o]
    BY <1>2 DEF Instance!DrainCall, Instance!CallFunctionOnModule
  <1>4. outcome' \in [JsCall -> {"none", "queued", "calling", "called", "dropped"}]
        /\ outcome'[c] = o /\ \A d \in JsCall : d # c => outcome'[d] = outcome[d]
    BY <1>3, CallTypes
  <1>5. pc'.js = "drain" /\ pc'.native = pc.native /\ pc'.ui = pc.ui
        /\ PcTypes'
    BY <1>1 DEF Instance!Goto, InstanceInv, InstanceTypes, PcTypes, JsPc
  <1>6. \A d : Waits(d)' <=> Waits(d)
    BY <1>1 DEF Waits
  <1>7. \A d \in JsCall : d # c => entry # <<d>>
    BY <1>2
  <1>8. QueueExact'
    <2>1. \A d \in JsCall : Waits(d)' => outcome'[d] = "queued"
      BY <1>2, <1>4, <1>6, CallTypes DEF QueueExact
    <2>2. \A d \in JsCall : outcome'[d] = "queued" => Waits(d)'
      BY <1>3, <1>4, <1>6, <1>7, CallTypes DEF QueueExact
    <2>3. \A i, j \in DOMAIN m_jsCallQueue' : m_jsCallQueue'[i] = m_jsCallQueue'[j] => i = j
      BY <1>1, CallTypes DEF QueueExact
    <2> QED BY <1>1, <1>5, <2>1, <2>2, <2>3 DEF QueueExact
  <1>9. OrderKept'
    <2>1. \A d \in JsCall : entry' # <<d>>
      BY <1>1
    <2>2. ASSUME NEW d \in JsCall, NEW j \in DOMAIN order, NEW k \in DOMAIN order,
                 Waits(d), order[j] = d, j < k
          PROVE  outcome'[order[k]] \notin {"calling", "called"}
      <3>1. outcome[order[k]] \notin {"calling", "called"} /\ entry # <<order[k]>> /\ order[k] \in JsCall
        BY <2>2, CallTypes DEF OrderKept
      <3>2. order[k] # c
        BY <1>2, <3>1
      <3> QED BY <1>4, <3>1, <3>2
    <2>3. \A k \in DOMAIN order' : outcome'[order'[k]] # "none"
      BY <1>1, <1>3, <1>4, CallTypes DEF OrderKept
    <2>4. \A a, b \in DOMAIN m_jsCallQueue', j, k \in DOMAIN order' :
            a < b /\ order'[j] = m_jsCallQueue'[a] /\ order'[k] = m_jsCallQueue'[b] => j < k
      BY <1>1, CallTypes DEF OrderKept
    <2> QED BY <1>1, <1>6, <2>1, <2>2, <2>3, <2>4, CallTypes DEF OrderKept
  <1>10. jsQueue' \in Seq(JsTasks) /\ AwaitedIn(jsQueue', pc.native)
    <2>1. PICK p : Free(p) /\ Instance!RunAsync(p)
      BY DEF Instance!DrainCall, Instance!CallFunctionOnModule, Free
    <2> QED BY <2>1, RunAsyncFree
  <1>11. InstanceTypes' /\ OneAwaited'
    BY <1>1, <1>4, <1>5, <1>10 DEF InstanceInv, InstanceTypes, PcTypes, Instance!TypeOK, JsTasks, OneAwaited
  <1>12. QueueIsServed'
    BY <1>1, <1>5 DEF InstanceInv, QueueIsServed
  <1> QED BY <1>8, <1>9, <1>11, <1>12 DEF InstanceInv

-----------------------------------------------------------------------------
(* ReactInstance: the native queue, the UI thread and the tasks of the JS   *)
(* thread keep the invariant                                                *)

(* A step that leaves the calls alone.                                      *)
LEMMA ThreadStep ==
  ASSUME InstanceInv, UNCHANGED Instance!calls, PcTypes', pc'.js = "call" <=> pc.js = "call",
         m_state' \in {"Loading", "Loaded", "HasError", "Unloaded"},
         whenLoaded' \in {"pending", "ok", "error", "canceled"},
         jsQueue' \in Seq(JsTasks), OneAwaited', QueueIsServed'
  PROVE  InstanceInv'
  <1>1. QueueExact' /\ OrderKept'
    BY CallTypes, SameCalls
  <1>2. InstanceTypes'
    BY CallTypes DEF InstanceTypes, PcTypes, Instance!TypeOK, Instance!calls, JsTasks
  <1> QED BY <1>1, <1>2 DEF InstanceInv

LEMMA StateTypes ==
  ASSUME InstanceInv
  PROVE  /\ PcTypes /\ m_state \in {"Loading", "Loaded", "HasError", "Unloaded"}
         /\ whenLoaded \in {"pending", "ok", "error", "canceled"}
         /\ jsQueue \in Seq(JsTasks) /\ AwaitedIn(jsQueue, pc.native) /\ QueueIsServed
  BY DEF InstanceInv, InstanceTypes, PcTypes, Instance!TypeOK, JsTasks, OneAwaited

LEMMA InitUIDependentCallsInv ==
  ASSUME InstanceInv, Instance!InitUIDependentCalls
  PROVE  InstanceInv'
  <1>1. PcTypes' /\ pc'.js = pc.js /\ pc'.native = pc.native /\ pc'.ui = pc.ui
    BY StateTypes DEF Instance!InitUIDependentCalls, Instance!Goto, PcTypes
  <1>2. UNCHANGED <<m_state, Instance!calls, whenLoaded, jsQueue, m_jsCallQueue>>
    BY DEF Instance!InitUIDependentCalls, Instance!promises, Instance!jsThread, Instance!calls
  <1>3. OneAwaited' /\ QueueIsServed'
    BY <1>1, <1>2, StateTypes DEF OneAwaited, QueueIsServed
  <1> QED BY <1>1, <1>2, <1>3, StateTypes, ThreadStep

LEMMA ReleaseInv ==
  ASSUME InstanceInv, Instance!Release
  PROVE  InstanceInv'
  <1>1. PcTypes' /\ pc'.js = pc.js /\ pc'.native = pc.native /\ pc'.ui = pc.ui
    BY StateTypes DEF Instance!Release, Instance!Goto, PcTypes
  <1>2. UNCHANGED <<m_state, Instance!calls, jsQueue, m_jsCallQueue>> /\ whenLoaded' = "canceled"
    BY DEF Instance!Release, Instance!jsThread, Instance!calls
  <1>3. OneAwaited' /\ QueueIsServed'
    BY <1>1, <1>2, StateTypes DEF OneAwaited, QueueIsServed
  <1> QED BY <1>1, <1>2, <1>3, StateTypes, ThreadStep

LEMMA StartInitializeInv ==
  ASSUME InstanceInv, Instance!StartInitialize
  PROVE  InstanceInv'
  <1>1. PcTypes' /\ pc'.js = pc.js /\ pc.native = "idle" /\ pc'.native = "init" /\ pc'.ui = pc.ui
    BY StateTypes DEF Instance!StartInitialize, PcTypes, NativePc
  <1>2. UNCHANGED <<m_state, Instance!calls, whenLoaded, jsQueue, m_jsCallQueue>>
    BY DEF Instance!StartInitialize, Instance!promises, Instance!jsThread, Instance!calls
  <1>3. OneAwaited' /\ QueueIsServed'
    BY <1>1, <1>2, StateTypes DEF OneAwaited, AwaitedIn, QueueIsServed
  <1> QED BY <1>1, <1>2, <1>3, StateTypes, ThreadStep

LEMMA InitializeThrowsInv ==
  ASSUME InstanceInv, Instance!InitializeThrows
  PROVE  InstanceInv'
  <1>1. PcTypes' /\ pc'.js = pc.js /\ pc.native \in {"init", "load"} /\ pc'.native = "abandon" /\ pc'.ui = pc.ui
    BY StateTypes DEF Instance!InitializeThrows, Instance!Goto, PcTypes, NativePc
  <1>2. UNCHANGED <<Instance!calls, whenLoaded, jsQueue, m_jsCallQueue>> /\ m_state' = "HasError"
    BY DEF Instance!InitializeThrows, Instance!SetHasError, Instance!promises, Instance!jsThread, Instance!calls
  <1>3. OneAwaited' /\ QueueIsServed'
    BY <1>1, <1>2, StateTypes DEF OneAwaited, AwaitedIn, QueueIsServed
  <1> QED BY <1>1, <1>2, <1>3, StateTypes, ThreadStep

LEMMA CreateRuntimeInv ==
  ASSUME InstanceInv, Instance!CreateRuntime
  PROVE  InstanceInv'
  <1>1. PcTypes' /\ pc'.js = pc.js /\ pc.native = "init" /\ pc'.native = "wait" /\ pc'.ui = pc.ui
    BY StateTypes DEF Instance!CreateRuntime, Instance!Goto, PcTypes, NativePc
  <1>2. UNCHANGED <<m_state, Instance!calls, whenLoaded, m_jsCallQueue>> /\ Instance!RunAsync(<<"runtime">>)
    BY DEF Instance!CreateRuntime, Instance!promises, Instance!calls
  <1>3. jsQueue' \in Seq(JsTasks) /\ AwaitedIn(jsQueue', "wait")
    BY <1>1, <1>2, RunAsyncAwaited DEF Awaited
  <1>4. OneAwaited' /\ QueueIsServed'
    BY <1>1, <1>2, <1>3, StateTypes DEF OneAwaited, QueueIsServed
  <1> QED BY <1>1, <1>2, <1>3, <1>4, StateTypes, ThreadStep

LEMMA LoadJSBundlesBridgelessInv ==
  ASSUME InstanceInv, Instance!LoadJSBundlesBridgeless
  PROVE  InstanceInv'
  <1>1. PcTypes' /\ pc'.js = pc.js /\ pc.native = "load" /\ pc'.native = "idle" /\ pc'.ui = pc.ui
    BY StateTypes DEF Instance!LoadJSBundlesBridgeless, Instance!Goto, PcTypes, NativePc
  <1>2. UNCHANGED <<m_state, Instance!calls, whenLoaded, m_jsCallQueue>> /\ Instance!RunAsync(<<"created",
          "script", "loaded">>)
    BY DEF Instance!LoadJSBundlesBridgeless, Instance!promises, Instance!calls
  <1>3. jsQueue' \in Seq(JsTasks) /\ AwaitedIn(jsQueue', pc.native)
    <2>1. PICK p : Free(p) /\ Instance!RunAsync(p)
      BY <1>2 DEF Free
    <2> QED BY <2>1, RunAsyncFree
  <1>4. OneAwaited' /\ QueueIsServed'
    BY <1>1, <1>2, <1>3, StateTypes DEF OneAwaited, AwaitedIn, QueueIsServed
  <1> QED BY <1>1, <1>2, <1>3, <1>4, StateTypes, ThreadStep

LEMMA DownloadFailsInv ==
  ASSUME InstanceInv, Instance!DownloadFails
  PROVE  InstanceInv'
  <1>1. PcTypes' /\ pc'.js = pc.js /\ pc.native = "load" /\ pc'.native = "abandon" /\ pc'.ui = pc.ui
    BY StateTypes DEF Instance!DownloadFails, Instance!Goto, PcTypes, NativePc
  <1>2. UNCHANGED <<Instance!calls, whenLoaded, m_jsCallQueue>> /\ m_state' = "HasError"
          /\ Instance!RunAsync(<<"created", "loaded">>)
    BY DEF Instance!DownloadFails, Instance!SetHasError, Instance!promises, Instance!calls
  <1>3. jsQueue' \in Seq(JsTasks) /\ AwaitedIn(jsQueue', pc.native)
    <2>1. PICK p : Free(p) /\ Instance!RunAsync(p)
      BY <1>2 DEF Free
    <2> QED BY <2>1, RunAsyncFree
  <1>4. OneAwaited' /\ QueueIsServed'
    BY <1>1, <1>2, <1>3, StateTypes DEF OneAwaited, AwaitedIn, QueueIsServed
  <1> QED BY <1>1, <1>2, <1>3, <1>4, StateTypes, ThreadStep

LEMMA DestroyInv ==
  ASSUME InstanceInv, Instance!Destroy
  PROVE  InstanceInv'
  <1>1. PcTypes' /\ pc'.js = pc.js /\ pc.native = "idle" /\ pc'.native = "destroy" /\ pc'.ui = pc.ui
    BY StateTypes DEF Instance!Destroy, Instance!Goto, PcTypes, NativePc
  <1>2. UNCHANGED <<Instance!calls, whenLoaded, jsQueue, m_jsCallQueue>> /\ m_state' = "Unloaded"
    BY DEF Instance!Destroy, Instance!promises, Instance!jsThread, Instance!calls
  <1>3. OneAwaited' /\ QueueIsServed'
    BY <1>1, <1>2, StateTypes DEF OneAwaited, AwaitedIn, QueueIsServed
  <1> QED BY <1>1, <1>2, <1>3, StateTypes, ThreadStep

LEMMA UIErrorInv ==
  ASSUME InstanceInv, Instance!UIError
  PROVE  InstanceInv'
  <1>1. PcTypes' /\ pc'.js = pc.js /\ pc'.native = pc.native /\ pc'.ui = "abandon"
    BY StateTypes DEF Instance!UIError, Instance!Goto, PcTypes
  <1>2. UNCHANGED <<Instance!calls, whenLoaded, jsQueue, m_jsCallQueue>> /\ m_state' = "HasError"
    BY DEF Instance!UIError, Instance!SetHasError, Instance!promises, Instance!jsThread, Instance!calls
  <1>3. OneAwaited' /\ QueueIsServed'
    BY <1>1, <1>2, StateTypes DEF OneAwaited, QueueIsServed
  <1> QED BY <1>1, <1>2, <1>3, StateTypes, ThreadStep

(* A step that abandons the queue, or leaves it to the thread that drains.  *)
LEMMA AbandonStep ==
  ASSUME InstanceInv, Instance!AbandonJSCallQueue, UNCHANGED <<entry, order>>, PcTypes',
         pc'.js = "call" <=> pc.js = "call",
         m_state' \in {"Loading", "Loaded", "HasError", "Unloaded"},
         whenLoaded' \in {"pending", "ok", "error", "canceled"},
         jsQueue' \in Seq(JsTasks), OneAwaited', QueueIsServed'
  PROVE  InstanceInv'
  <1>1. QueueExact' /\ OrderKept'
    BY Abandons
  <1>2. InstanceTypes'
    BY Abandons DEF InstanceTypes, PcTypes, Instance!TypeOK, JsTasks
  <1> QED BY <1>1, <1>2 DEF InstanceInv

LEMMA DestroyInstanceInv ==
  ASSUME InstanceInv, Instance!DestroyInstance
  PROVE  InstanceInv'
  <1>1. PcTypes' /\ pc'.js = pc.js /\ pc.native = "destroy" /\ pc'.native \in {"wait", "idle"} /\ pc'.ui = pc.ui
    BY StateTypes DEF Instance!DestroyInstance, Instance!Goto, PcTypes, NativePc
  <1>2. UNCHANGED <<m_state, whenLoaded, entry, order>> /\ Instance!AbandonJSCallQueue
    BY DEF Instance!DestroyInstance, Instance!promises
  <1>3. jsQueue' \in Seq(JsTasks) /\ AwaitedIn(jsQueue', pc'.native)
    <2>1. CASE instance
      <3>1. Instance!RunAsync(<<"destroy">>) /\ Instance!Goto("native", "wait")
        BY <2>1 DEF Instance!DestroyInstance
      <3>2. pc'.native = "wait"
        BY <3>1, StateTypes DEF Instance!Goto, PcTypes
      <3>3. jsQueue' \in Seq(JsTasks) /\ AwaitedIn(jsQueue', "wait")
        BY <1>1, <3>1, RunAsyncAwaited DEF Awaited
      <3> QED BY <3>2, <3>3
    <2>2. CASE ~instance
      <3>1. jsQueue' = jsQueue
        BY <2>2 DEF Instance!DestroyInstance
      <3> QED BY <1>1, <3>1, StateTypes DEF AwaitedIn
    <2> QED BY <2>1, <2>2
  <1>4. QueueIsServed'
    BY <1>1, <1>2, StateTypes, Abandons DEF QueueIsServed
  <1> QED BY <1>1, <1>2, <1>3, <1>4, StateTypes, AbandonStep DEF OneAwaited

LEMMA AbandonAfterErrorInv ==
  ASSUME InstanceInv, NEW t \in {"native", "ui"}, Instance!AbandonAfterError(t)
  PROVE  InstanceInv'
  <1>1. UNCHANGED <<m_state, whenLoaded, entry, order, jsQueue>> /\ Instance!AbandonJSCallQueue
    BY DEF Instance!AbandonAfterError, Instance!promises, Instance!jsThread
  <1>2. CASE t = "native"
    <2>1. PcTypes' /\ pc'.js = pc.js /\ pc.native = "abandon" /\ pc'.native = "idle" /\ pc'.ui = pc.ui
      BY <1>2, StateTypes DEF Instance!AbandonAfterError, Instance!Goto, PcTypes, NativePc
    <2>2. OneAwaited' /\ QueueIsServed'
      BY <1>1, <2>1, StateTypes, Abandons DEF OneAwaited, AwaitedIn, QueueIsServed
    <2> QED BY <1>1, <2>1, <2>2, StateTypes, AbandonStep
  <1>3. CASE t = "ui"
    <2>1. PcTypes' /\ pc'.js = pc.js /\ pc.ui = "abandon" /\ pc'.native = pc.native /\ pc'.ui = "idle"
      BY <1>3, StateTypes DEF Instance!AbandonAfterError, Instance!Goto, PcTypes
    <2>2. OneAwaited' /\ QueueIsServed'
      BY <1>1, <2>1, StateTypes, Abandons DEF OneAwaited, QueueIsServed
    <2> QED BY <1>1, <2>1, <2>2, StateTypes, AbandonStep
  <1> QED BY <1>2, <1>3

LEMMA AbandonInJSInv ==
  ASSUME InstanceInv, Instance!AbandonInJS
  PROVE  InstanceInv'
  <1>1. UNCHANGED <<m_state, whenLoaded, entry, order, jsQueue>> /\ Instance!AbandonJSCallQueue
    BY DEF Instance!AbandonInJS, Instance!promises, Instance!jsThread
  <1>2. PcTypes' /\ pc.js = "abandon" /\ pc'.js = "idle" /\ pc'.native = pc.native /\ pc'.ui = pc.ui
    BY StateTypes DEF Instance!AbandonInJS, Instance!Goto, PcTypes, JsPc
  <1>3. OneAwaited' /\ QueueIsServed'
    BY <1>1, <1>2, StateTypes, Abandons DEF OneAwaited, QueueIsServed
  <1> QED BY <1>1, <1>2, <1>3, StateTypes, AbandonStep

(* OnReactInstanceLoaded: the promise, the state and where the thread goes. *)
LEMMA Loads ==
  ASSUME InstanceInv, NEW result \in {"ok", "error", "canceled"}, Instance!OnReactInstanceLoaded(result)
  PROVE  /\ PcTypes' /\ pc'.native = pc.native /\ pc'.ui = pc.ui
         /\ whenLoaded' \in {"pending", "ok", "error", "canceled"}
         /\ \/ pc'.js = "idle" /\ m_state' = m_state
            \/ pc'.js = "drain" /\ m_state' = "Loaded" /\ result = "ok"
            \/ pc'.js = "abandon" /\ m_state' = "HasError"
  <1>1. CASE m_isLoaded
    <2>1. Instance!Goto("js", "idle") /\ UNCHANGED <<m_state, whenLoaded>>
      BY <1>1 DEF Instance!OnReactInstanceLoaded, Instance!promises
    <2> QED BY <2>1, StateTypes DEF Instance!Goto, PcTypes, JsPc
  <1>2. CASE ~m_isLoaded
    <2>1. whenLoaded' \in {"pending", "ok", "error", "canceled"}
      BY <1>2, StateTypes DEF Instance!OnReactInstanceLoaded, Instance!SetWhenLoaded
    <2>2. CASE result = "ok"
      <3>1. Instance!Goto("js", "drain") /\ m_state' = "Loaded"
        BY <1>2, <2>2 DEF Instance!OnReactInstanceLoaded
      <3> QED BY <2>1, <2>2, <3>1, StateTypes DEF Instance!Goto, PcTypes, JsPc
    <2>3. CASE result # "ok"
      <3>1. Instance!Goto("js", "abandon") /\ m_state' = "HasError"
        BY <1>2, <2>3 DEF Instance!OnReactInstanceLoaded
      <3> QED BY <2>1, <3>1, StateTypes DEF Instance!Goto, PcTypes, JsPc
    <2> QED BY <2>2, <2>3
  <1> QED BY <1>1, <1>2

LEMMA InstanceLoadedInv ==
  ASSUME InstanceInv, Instance!InstanceLoaded
  PROVE  InstanceInv'
  <1>1. UNCHANGED <<Instance!calls, jsQueue, m_jsCallQueue>> /\ pc.js \in {"loaded", "guard"}
    BY DEF Instance!InstanceLoaded, Instance!jsThread, Instance!calls
  <1>2. PICK result \in {"ok", "error", "canceled"} : Instance!OnReactInstanceLoaded(result)
    BY DEF Instance!InstanceLoaded
  <1>3. /\ PcTypes' /\ pc'.native = pc.native /\ pc'.ui = pc.ui
        /\ whenLoaded' \in {"pending", "ok", "error", "canceled"}
        /\ \/ pc'.js = "idle" /\ m_state' = m_state
           \/ pc'.js = "drain" /\ m_state' = "Loaded" /\ result = "ok"
           \/ pc'.js = "abandon" /\ m_state' = "HasError"
    BY <1>2, Loads
  <1>4. OneAwaited' /\ QueueIsServed'
    BY <1>1, <1>3, StateTypes DEF OneAwaited, QueueIsServed
  <1> QED BY <1>1, <1>3, <1>4, StateTypes, ThreadStep

LEMMA OnJSErrorInv ==
  ASSUME InstanceInv, Instance!OnJSError
  PROVE  InstanceInv'
  <1>1. UNCHANGED <<entry, order, jsQueue>> /\ pc.js = "jsError" /\ Instance!AbandonJSCallQueue
        /\ Instance!OnReactInstanceLoaded("error")
    BY DEF Instance!OnJSError, Instance!jsThread
  <1>2. /\ PcTypes' /\ pc'.native = pc.native /\ pc'.ui = pc.ui
        /\ whenLoaded' \in {"pending", "ok", "error", "canceled"}
        /\ \/ pc'.js = "idle" /\ m_state' = m_state
           \/ pc'.js = "abandon" /\ m_state' = "HasError"
    BY <1>1, Loads
  <1>3. m_jsCallQueue' = <<>>
    BY <1>1, <1>2, StateTypes, Abandons DEF QueueIsServed
  <1>4. OneAwaited' /\ QueueIsServed'
    BY <1>1, <1>2, <1>3, StateTypes DEF OneAwaited, QueueIsServed
  <1> QED BY <1>1, <1>2, <1>4, StateTypes, AbandonStep

(* The JS thread takes a task.                                              *)
LEMMA TakesTask ==
  ASSUME InstanceInv, NEW task, Instance!Takes(task)
  PROVE  /\ pc.js = "idle" /\ jsQueue' \in Seq(JsTasks) /\ AwaitedIn(jsQueue', pc.native)
         /\ task \in Awaited => pc.native = "wait" /\ \A other : AwaitedIn(jsQueue', other)
  <1>1. pc.js = "idle" /\ jsQueue # <<>> /\ Head(jsQueue) = task /\ jsQueue' = Tail(jsQueue)
    BY DEF Instance!Takes
  <1>2. PICK q : q = Tail(jsQueue)
    OBVIOUS
  <1>3. /\ q \in Seq(JsTasks) /\ AwaitedIn(q, pc.native)
        /\ task \in Awaited => pc.native = "wait" /\ \A other : AwaitedIn(q, other)
    BY <1>1, <1>2, StateTypes, TakeTask
  <1>4. jsQueue' = q
    BY <1>1, <1>2
  <1> QED BY <1>1, <1>3, <1>4

LEMMA RuntimeTaskInv ==
  ASSUME InstanceInv, Instance!RuntimeTask
  PROVE  InstanceInv'
  <1>1. PcTypes' /\ pc'.js = pc.js /\ pc'.native = "load" /\ pc'.ui = pc.ui
    BY StateTypes DEF Instance!RuntimeTask, Instance!Goto, PcTypes, NativePc
  <1>2. UNCHANGED <<m_state, Instance!calls, whenLoaded, m_jsCallQueue>> /\ Instance!Takes("runtime")
    BY DEF Instance!RuntimeTask, Instance!promises, Instance!calls
  <1>3. pc.native = "wait" /\ jsQueue' \in Seq(JsTasks) /\ AwaitedIn(jsQueue', "load")
    BY <1>2, TakesTask DEF Awaited
  <1>4. OneAwaited' /\ QueueIsServed'
    BY <1>1, <1>2, <1>3, StateTypes DEF OneAwaited, QueueIsServed
  <1> QED BY <1>1, <1>2, <1>3, <1>4, StateTypes, ThreadStep

LEMMA DestroyTaskInv ==
  ASSUME InstanceInv, Instance!DestroyTask
  PROVE  InstanceInv'
  <1>1. PcTypes' /\ pc'.js = pc.js /\ pc'.native = "idle" /\ pc'.ui = pc.ui
    BY StateTypes DEF Instance!DestroyTask, Instance!Goto, PcTypes, NativePc
  <1>2. UNCHANGED <<m_state, Instance!calls, m_jsCallQueue>> /\ Instance!Takes("destroy")
        /\ whenLoaded' \in {"pending", "ok", "error", "canceled"}
    BY StateTypes DEF Instance!DestroyTask, Instance!calls
  <1>3. pc.native = "wait" /\ jsQueue' \in Seq(JsTasks) /\ AwaitedIn(jsQueue', "idle")
    BY <1>2, TakesTask DEF Awaited
  <1>4. OneAwaited' /\ QueueIsServed'
    BY <1>1, <1>2, <1>3, StateTypes DEF OneAwaited, QueueIsServed
  <1> QED BY <1>1, <1>2, <1>3, <1>4, StateTypes, ThreadStep

LEMMA JsTaskInv ==
  ASSUME InstanceInv, Instance!JsTask
  PROVE  InstanceInv'
  <1>1. UNCHANGED <<Instance!calls, whenLoaded, m_jsCallQueue>> /\ \E task : Instance!Takes(task)
    BY DEF Instance!JsTask, Instance!promises, Instance!calls
  <1>2. pc.js = "idle" /\ jsQueue' \in Seq(JsTasks) /\ AwaitedIn(jsQueue', pc.native)
    BY <1>1, TakesTask
  <1>3. /\ PcTypes' /\ pc'.native = pc.native /\ pc'.ui = pc.ui
        /\ \/ pc'.js = "idle" /\ m_state' = m_state
           \/ pc'.js = "jsError" /\ m_state' = "HasError"
    BY <1>2, StateTypes DEF Instance!JsTask, Instance!SetHasError, Instance!Goto, PcTypes, JsPc
  <1>4. OneAwaited' /\ QueueIsServed'
    BY <1>1, <1>2, <1>3, StateTypes DEF OneAwaited, QueueIsServed
  <1> QED BY <1>1, <1>2, <1>3, <1>4, StateTypes, ThreadStep

LEMMA LoadedTaskInv ==
  ASSUME InstanceInv, Instance!LoadedTask
  PROVE  InstanceInv'
  <1>1. UNCHANGED <<m_state, Instance!calls, whenLoaded, m_jsCallQueue>> /\ Instance!Takes("loaded")
    BY DEF Instance!LoadedTask, Instance!promises, Instance!calls
  <1>2. pc.js = "idle" /\ jsQueue' \in Seq(JsTasks) /\ AwaitedIn(jsQueue', pc.native)
    BY <1>1, TakesTask
  <1>3. PcTypes' /\ pc'.native = pc.native /\ pc'.ui = pc.ui /\ pc'.js \in {"loaded", "guard"}
    BY StateTypes DEF Instance!LoadedTask, Instance!Goto, PcTypes, JsPc
  <1>4. OneAwaited' /\ QueueIsServed'
    BY <1>1, <1>2, <1>3, StateTypes DEF OneAwaited, QueueIsServed
  <1> QED BY <1>1, <1>2, <1>3, <1>4, StateTypes, ThreadStep

-----------------------------------------------------------------------------
(* ReactInstance: theorems                                                  *)

LEMMA InstanceInit == Instance!Init => InstanceInv
  <1> SUFFICES ASSUME Instance!Init PROVE InstanceInv
    OBVIOUS
  <1>1. /\ m_state = "Loading" /\ m_jsCallQueue = <<>> /\ entry = <<>> /\ order = <<>> /\ jsQueue = <<>>
        /\ whenLoaded = "pending" /\ outcome = [c \in JsCall |-> "none"]
        /\ pc = [init |-> "ui", native |-> "idle", js |-> "idle", ui |-> "idle"]
    BY DEF Instance!Init
  <1>2. pc.js = "idle" /\ pc.native = "idle" /\ pc.ui = "idle"
    BY <1>1
  <1>3. InstanceTypes
    BY <1>1 DEF InstanceTypes, PcTypes, Instance!TypeOK, JsPc, NativePc
  <1>4. OneAwaited /\ QueueIsServed
    BY <1>1, <1>2 DEF OneAwaited, AwaitedIn, QueueIsServed
  <1>5. \A c : ~Waits(c)
    <2>1. DOMAIN m_jsCallQueue = {}
      BY <1>1
    <2> QED BY <2>1 DEF Waits
  <1>6. QueueExact /\ OrderKept
    BY <1>1, <1>2, <1>5 DEF QueueExact, OrderKept
  <1> QED BY <1>3, <1>4, <1>6 DEF InstanceInv

LEMMA InstanceStep == InstanceInv /\ [Instance!Next]_Instance!vars => InstanceInv'
  <1> SUFFICES ASSUME InstanceInv, [Instance!Next]_Instance!vars PROVE InstanceInv'
    OBVIOUS
  <1>1. CASE Instance!NativeNext
    BY <1>1, InitUIDependentCallsInv, StartInitializeInv, CreateRuntimeInv, LoadJSBundlesBridgelessInv,
       DownloadFailsInv, InitializeThrowsInv, DestroyInstanceInv, AbandonAfterErrorInv DEF Instance!NativeNext
  <1>2. CASE Instance!JsNext
    BY <1>2, RuntimeTaskInv, JsTaskInv, LoadedTaskInv, InstanceLoadedInv, OnJSErrorInv, AbandonInJSInv,
       DrainJSCallQueueInv, DrainCallInv, DestroyTaskInv DEF Instance!JsNext
  <1>3. CASE Instance!Destroy \/ Instance!Release \/ Instance!UIError
    BY <1>3, DestroyInv, ReleaseInv, UIErrorInv
  <1>4. ASSUME NEW c \in JsCall, Instance!CallJsFunction(c) \/ Instance!CallNow(c)
        PROVE  InstanceInv'
    BY <1>4, CallJsFunctionInv, CallNowInv
  <1>5. CASE UNCHANGED Instance!vars
    <2>1. UNCHANGED <<Instance!calls, m_jsCallQueue, m_state, whenLoaded, jsQueue, pc>>
      BY <1>5 DEF Instance!vars, Instance!calls, Instance!promises, Instance!jsThread
    <2>2. PcTypes' /\ OneAwaited' /\ QueueIsServed'
      BY <2>1, StateTypes DEF PcTypes, OneAwaited, QueueIsServed
    <2> QED BY <2>1, <2>2, StateTypes, ThreadStep
  <1> QED BY <1>1, <1>2, <1>3, <1>4, <1>5 DEF Instance!Next

(* InstanceInv holds in every reachable state of an instance.               *)
THEOREM InstanceInvariant == Instance!Spec => []InstanceInv
  BY InstanceInit, InstanceStep, PTL DEF Instance!Spec

(* The entry in front of the queue.                                         *)
LEMMA Joined ==
  ASSUME NEW e \in Seq(JsCall), NEW q \in Seq(JsCall)
  PROVE  /\ e \o q \in Seq(JsCall) /\ Len(e \o q) = Len(e) + Len(q)
         /\ \A i \in 1..(Len(e) + Len(q)) : (e \o q)[i] = IF i <= Len(e) THEN e[i] ELSE q[i - Len(e)]
  OBVIOUS

LEMMA EntryFirst ==
  ASSUME NEW q \in Seq(JsCall), NEW c \in JsCall
  PROVE  \E n \in Nat :
           /\ DOMAIN (<<c>> \o q) = 1..(n + 1) /\ (<<c>> \o q)[1] = c
           /\ \A i \in 2..(n + 1) : i - 1 \in DOMAIN q /\ (<<c>> \o q)[i] = q[i - 1]
           /\ \A i \in DOMAIN q : i + 1 \in 2..(n + 1) /\ (<<c>> \o q)[i + 1] = q[i]
  <1>1. PICK e : e = <<c>>
    OBVIOUS
  <1>2. e \in Seq(JsCall) /\ Len(e) = 1 /\ e[1] = c
    BY <1>1
  <1>3. PICK w : w = e \o q
    OBVIOUS
  <1>4. PICK n \in Nat : n = Len(q)
    OBVIOUS
  <1>5. w \in Seq(JsCall) /\ Len(w) = 1 + n
        /\ \A i \in 1..(1 + n) : w[i] = IF i <= 1 THEN e[i] ELSE q[i - 1]
    <2>1. \A i \in 1..(Len(e) + Len(q)) : w[i] = IF i <= Len(e) THEN e[i] ELSE q[i - Len(e)]
      BY <1>2, <1>3, Joined
    <2>2. w \in Seq(JsCall) /\ Len(w) = Len(e) + Len(q)
      BY <1>2, <1>3, Joined
    <2> QED BY <1>2, <1>4, <2>1, <2>2
  <1>6. DOMAIN w = 1..(1 + n) /\ DOMAIN q = 1..n
    BY <1>4, <1>5
  <1>7. /\ DOMAIN w = 1..(n + 1) /\ w[1] = c
        /\ \A i \in 2..(n + 1) : i - 1 \in DOMAIN q /\ w[i] = q[i - 1]
        /\ \A i \in DOMAIN q : i + 1 \in 2..(n + 1) /\ w[i + 1] = q[i]
    BY <1>2, <1>5, <1>6
  <1> QED BY <1>1, <1>3, <1>7

LEMMA NobodyIsStranded == InstanceInv => Instance!NoStrandedCall
  <1> SUFFICES ASSUME InstanceInv PROVE Instance!NoStrandedCall
    OBVIOUS
  <1>1. PICK w : w = entry \o m_jsCallQueue
    OBVIOUS
  <1>2. /\ {w[i] : i \in DOMAIN w} = {c \in JsCall : outcome[c] = "queued"}
        /\ \A i, j \in DOMAIN w : w[i] = w[j] => i = j
    <2>1. CASE pc.js = "call"
      <3>1. PICK c \in JsCall : entry = <<c>> /\ ~Waits(c) /\ outcome[c] = "queued"
        BY <2>1, CallTypes DEF QueueExact
      <3>2. PICK n \in Nat :
              /\ DOMAIN w = 1..(n + 1) /\ w[1] = c
              /\ \A i \in 2..(n + 1) : i - 1 \in DOMAIN m_jsCallQueue /\ w[i] = m_jsCallQueue[i - 1]
              /\ \A i \in DOMAIN m_jsCallQueue : i + 1 \in 2..(n + 1) /\ w[i + 1] = m_jsCallQueue[i]
        <4>1. m_jsCallQueue \in Seq(JsCall) /\ w = <<c>> \o m_jsCallQueue
          BY <1>1, <3>1, CallTypes
        <4> QED BY <4>1, EntryFirst
      <3>3. \A i \in DOMAIN w : i = 1 \/ i \in 2..(n + 1)
        BY <3>2
      <3>4. 1 \in DOMAIN w /\ \A i \in 2..(n + 1) : i \in DOMAIN w /\ i \in Nat
        BY <3>2
      <3>5. ASSUME NEW d PROVE (\E i \in DOMAIN w : w[i] = d) <=> d = c \/ Waits(d)
        BY <3>2, <3>3, <3>4 DEF Waits
      <3>6. ASSUME NEW d PROVE d = c \/ Waits(d) <=> d \in JsCall /\ outcome[d] = "queued"
        <4>1. Waits(d) => d \in JsCall
          BY CallTypes DEF Waits
        <4>2. d # c => entry # <<d>>
          BY <3>1
        <4> QED BY <3>1, <4>1, <4>2, CallTypes DEF QueueExact
      <3>7. ASSUME NEW i \in DOMAIN w, NEW j \in DOMAIN w, w[i] = w[j] PROVE i = j
        <4>1. \A k \in 2..(n + 1) : w[k] # c
          BY <3>1, <3>2 DEF Waits
        <4>2. CASE i = 1 \/ j = 1
          BY <3>2, <3>3, <3>7, <4>1, <4>2
        <4>3. CASE i # 1 /\ j # 1
          <5>1. i \in 2..(n + 1) /\ j \in 2..(n + 1)
            BY <3>3, <4>3
          <5>2. i - 1 \in DOMAIN m_jsCallQueue /\ j - 1 \in DOMAIN m_jsCallQueue
                /\ m_jsCallQueue[i - 1] = m_jsCallQueue[j - 1]
            BY <3>2, <3>7, <5>1
          <5>3. i - 1 = j - 1
            BY <5>2, CallTypes DEF QueueExact
          <5> QED BY <5>1, <5>3
        <4> QED BY <4>2, <4>3
      <3> QED BY <3>5, <3>6, <3>7
    <2>2. CASE pc.js # "call"
      <3>1. entry = <<>> /\ m_jsCallQueue \in Seq(JsCall)
        BY <2>2, CallTypes DEF QueueExact
      <3>2. w = m_jsCallQueue
        BY <1>1, <3>1
      <3>3. \A d \in JsCall : entry # <<d>>
        BY <3>1
      <3>4. \A d : (\E i \in DOMAIN w : w[i] = d) <=> Waits(d)
        BY <3>2 DEF Waits
      <3>5. \A d : Waits(d) <=> d \in JsCall /\ outcome[d] = "queued"
        <4>1. \A d : Waits(d) => d \in JsCall
          BY CallTypes DEF Waits
        <4> QED BY <3>3, <4>1, CallTypes DEF QueueExact
      <3> QED BY <3>2, <3>4, <3>5, CallTypes DEF QueueExact
    <2> QED BY <2>1, <2>2
  <1>3. m_jsCallQueue # <<>> /\ m_state # "Loading" =>
          \/ pc.js \in {"jsError", "abandon", "drain", "call"}
          \/ pc.native \in {"abandon", "destroy"} \/ pc.ui = "abandon"
    BY StateTypes DEF QueueIsServed
  <1> QED BY <1>1, <1>2, <1>3 DEF Instance!NoStrandedCall

(* NoStrandedCall, for any number of calls: a queued call is in one place,  *)
(* and there is always a thread that will drain or abandon it.              *)
THEOREM NoCallIsStranded == Instance!Spec => []NoStrandedCall
  BY InstanceInvariant, NobodyIsStranded, PTL DEF NoStrandedCall

(* Only CallNow and DrainCall call JavaScript.                              *)
LEMMA CallsInOrder ==
  ASSUME InstanceInv, [Instance!Next]_Instance!vars, NEW c \in JsCall, outcome[c] # "called", outcome'[c] = "called"
  PROVE  \A d \in Instance!Earlier(c) : outcome[d] # "queued" \/ entry = <<d>>
  <1>1. outcome[c] = "calling" \/ entry = <<c>>
    <2>1. CASE Instance!AbandonJSCallQueue
      <3>1. outcome' = outcome
              \/ outcome' = [d \in JsCall |-> IF d \in Instance!Abandoned THEN "dropped" ELSE outcome[d]]
        BY <2>1 DEF Instance!AbandonJSCallQueue
      <3> QED BY <3>1
    <2>2. CASE outcome' = outcome
      BY <2>2
    <2>3. ASSUME NEW d \in JsCall, Instance!CallJsFunction(d) PROVE FALSE
      BY <2>3, CallTypes DEF Instance!CallJsFunction
    <2>4. ASSUME NEW d \in JsCall, Instance!CallNow(d) PROVE outcome[c] = "calling"
      BY <2>4, CallTypes DEF Instance!CallNow, Instance!CallFunctionOnModule
    <2>5. CASE Instance!DrainCall
      <3>1. PICK d \in JsCall : entry = <<d>>
        BY <2>5, CallTypes DEF Instance!DrainCall, QueueExact
      <3>2. PICK o : outcome' = [outcome EXCEPT ![d] = o]
        BY <2>5, <3>1 DEF Instance!DrainCall, Instance!CallFunctionOnModule
      <3> QED BY <3>1, <3>2, CallTypes
    <2>6. CASE Instance!Next
      <3>1. CASE Instance!NativeNext
        BY <2>1, <2>2, <3>1 DEF Instance!NativeNext, Instance!InitUIDependentCalls, Instance!StartInitialize,
           Instance!CreateRuntime,
           Instance!LoadJSBundlesBridgeless, Instance!DownloadFails, Instance!InitializeThrows,
           Instance!DestroyInstance, Instance!AbandonAfterError, Instance!calls
      <3>2. CASE Instance!JsNext
        BY <2>1, <2>2, <2>5, <3>2 DEF Instance!JsNext, Instance!RuntimeTask, Instance!JsTask,
           Instance!LoadedTask, Instance!InstanceLoaded, Instance!OnJSError,
           Instance!AbandonInJS, Instance!DrainJSCallQueue, Instance!DestroyTask, Instance!calls
      <3>3. CASE Instance!Destroy \/ Instance!Release \/ Instance!UIError
        BY <2>2, <3>3 DEF Instance!Destroy, Instance!Release, Instance!UIError, Instance!calls
      <3> QED BY <2>3, <2>4, <2>6, <3>1, <3>2, <3>3 DEF Instance!Next
    <2> QED BY <2>2, <2>6 DEF Instance!vars, Instance!calls
  <1>2. ASSUME NEW d \in Instance!Earlier(c), outcome[d] = "queued", entry # <<d>>
        PROVE  FALSE
    <2>1. PICK j \in DOMAIN order, k \in DOMAIN order : k > j /\ order[j] = d /\ order[k] = c
      BY <1>2 DEF Instance!Earlier
    <2>2. d \in JsCall /\ j \in Nat /\ k \in Nat
      BY <2>1, CallTypes
    <2>3. Waits(d)
      BY <1>2, <2>2, CallTypes DEF QueueExact
    <2> QED BY <1>1, <2>1, <2>2, <2>3, CallTypes DEF OrderKept
  <1> QED BY <1>2

(* QueuedCallsKeepOrder: no call reaches JavaScript before one that waits in *)
(* the queue and was made earlier.                                          *)
THEOREM CallsKeepOrder == Instance!Spec => QueuedCallsKeepOrder
  <1>1. InstanceInv /\ [Instance!Next]_Instance!vars =>
          [\A c \in JsCall : outcome[c] # "called" /\ outcome'[c] = "called" =>
             \A d \in Instance!Earlier(c) : outcome[d] # "queued" \/ entry = <<d>>]_Instance!vars
    BY CallsInOrder
  <1> QED BY <1>1, InstanceInvariant, PTL DEF Instance!Spec, QueuedCallsKeepOrder, Instance!QueuedCallsKeepOrder

-----------------------------------------------------------------------------
(* NotificationService: the invariant                                       *)

(* The steps of ModifySubscriptions in each service, and all steps.         *)
AtChild == {"child", "replace in child"}
AtRoot == {"root", "replace in root"}
Step == AtChild \cup AtRoot \cup {"", "view", "handler", "return", "next", "call"}

(* s is in the list of service v.                                           *)
In(v, s) == Notification!Contains(m_subscriptions[v], s)

(* t subscribes or removes s.                                               *)
Adds(t, s) == op[t].do = "subscribe" /\ op[t].sub = s
RemovesIt(t, s) == op[t].do \in Notification!Removes /\ op[t].sub = s
(* s is to be removed by a thread that has not come to it.                  *)
ToRemove(t, s) == op[t].do = "destroy" /\ Notification!Contains(op[t].left, s)

(* The types of the threads' frames.                                        *)
Do == {"idle", "subscribe", "send", "handle"} \cup Notification!Removes
Frame == [do : Do, sub : Sub \cup {Notification!None}, at : Step, snap : Seq(Sub), left : Seq(Sub)]

FramesOK ==
  /\ m_subscriptions \in [Notification!Service -> Seq(Sub)]
  /\ op \in [Notification!Threads -> Frame]

(* Subscribe of thread t, by the step it is at: what it has done and what is *)
(* still to do.                                                             *)
Adding(t) ==
  LET s == op[t].sub IN
  /\ s \in Sub /\ alive /\ state[s] = "adding" /\ s \in m_handler
  /\ op[t].at \in {"view", "return"} \cup AtChild \cup AtRoot
  /\ op[t].at \in AtChild <=> ~In("child", s)
  /\ op[t].at = "return" <=> In("root", s)
  /\ op[t].at \in AtRoot \cup {"return"} <=> s \in hasParent
  /\ op[t].at \in AtRoot \cup {"return"} <=> s \in m_isSubscribed

(* Unsubscribe or the destructor in thread t, by the step it is at.  The    *)
(* destructor also visits subscriptions that others have removed.           *)
Removing(t) ==
  LET s == op[t].sub IN
  /\ op[t].at \in {"view", "handler", "return"} \cup AtChild \cup AtRoot
  /\ op[t].do = "unsubscribe" => s \in Sub /\ state[s] = "removing"
  /\ op[t].do = "destroy" => ~alive /\ (s = Notification!None => op[t].at = "return")
  /\ s \in Sub => state[s] \in {"removing", "removed"}
  /\ op[t].at # "view" => s \notin m_isSubscribed
  /\ op[t].at \in AtChild \cup {"return"} => s \notin m_handler

(* The threads together: a subscription is added by one, and the service is *)
(* destroyed by one.                                                        *)
FrameInv ==
  \A t \in Notification!Threads :
    /\ op[t].do = "subscribe" => Adding(t)
    /\ op[t].do \in Notification!Removes => Removing(t)
    /\ op[t].do = "destroy" =>
         \A s \in Sub : Notification!Contains(op[t].left, s) => state[s] \in {"removing", "removed"}
    /\ \A u \in Notification!Threads : op[t].do = "subscribe" /\ op[u].do = "subscribe"
       /\ op[t].sub = op[u].sub => t = u
    /\ \A u \in Notification!Threads : op[t].do = "destroy" /\ op[u].do = "destroy" => t = u

(* What holds of a subscription in each state.  What is left of one that is *)
(* being removed (a view, a handler, an entry in a list) has a thread that  *)
(* is going to remove it.                                                   *)
SubInv(s) ==
  /\ state[s] = "new" => s \notin m_handler \cup hasParent \cup m_isSubscribed /\ ~In("child", s) /\ ~In("root", s)
  /\ state[s] = "adding" => \E t \in Notification!Threads : Adds(t, s)
  /\ state[s] = "active" => s \in m_handler /\ s \in m_isSubscribed /\ In("child", s) /\ In("root", s) /\ alive
  /\ state[s] \in {"active", "removing", "removed"} => s \in hasParent
  /\ s \in m_isSubscribed =>
       \/ state[s] \in {"adding", "active"}
       \/ \E t \in Notification!Threads : RemovesIt(t, s) /\ op[t].at = "view"
       \/ \E t \in Notification!Threads : ToRemove(t, s)
  /\ s \in m_handler =>
       \/ state[s] \in {"adding", "active"}
       \/ \E t \in Notification!Threads : RemovesIt(t, s) /\ op[t].at \in AtRoot \cup {"view", "handler"}
       \/ \E t \in Notification!Threads : ToRemove(t, s)
  /\ In("root", s) => s \in m_isSubscribed \/ \E t \in Notification!Threads : RemovesIt(t, s) /\ op[t].at \in AtRoot
  /\ In("child", s) => s \in m_handler \/ \E t \in Notification!Threads : RemovesIt(t, s) /\ op[t].at \in AtChild
  /\ state[s] = "removed" => s \notin m_handler /\ s \notin m_isSubscribed /\ ~In("child", s) /\ ~In("root", s)

(* The list of a destroyed service stays empty.                             *)
DestroyedIsEmpty == ~alive => m_subscriptions["child"] = <<>>

(* An unsubscribed handler is gone for good, and handlers that have a       *)
(* dispatcher are called by its thread only, which looked them up.          *)
QuietInv ==
  /\ \A s \in quiet : state[s] \in {"removing", "removed"} /\ s \notin m_handler
  /\ \A t \in Notification!Threads : op[t].at = "call" /\ op[t].sub \in Posted =>
       t = dispatcher /\ op[t].sub \notin quiet /\ op[t].do = "handle"

(* The inductive invariant of NotificationService.                          *)
NotificationInv ==
  /\ Notification!TypeOK /\ FramesOK /\ FrameInv /\ (\A s \in Sub : SubInv(s)) /\ DestroyedIsEmpty /\ QuietInv

-----------------------------------------------------------------------------
(* NotificationService: lists without repetition                            *)

LEMMA EmptyList == <<>> \in Seq(Sub)
  OBVIOUS

LEMMA ContainsEmpty == ASSUME NEW x PROVE ~Notification!Contains(<<>>, x)
  BY DEF Notification!Contains

(* Appending a new subscription.                                            *)
LEMMA ContainsAppend ==
  ASSUME NEW l \in Seq(Sub), NEW s \in Sub, Notification!IsInjective(l), ~Notification!Contains(l, s)
  PROVE  /\ Append(l, s) \in Seq(Sub) /\ Notification!IsInjective(Append(l, s))
         /\ \A x : Notification!Contains(Append(l, s), x) <=> Notification!Contains(l, x) \/ x = s
  BY DEF Notification!Contains, Notification!IsInjective

(* Taking the first subscription.                                           *)
LEMMA ContainsTail ==
  ASSUME NEW l \in Seq(Sub), l # <<>>
  PROVE  /\ Head(l) \in Sub /\ Tail(l) \in Seq(Sub)
         /\ \A x : Notification!Contains(l, x) <=> x = Head(l) \/ Notification!Contains(Tail(l), x)
  <1>1. Head(l) \in Sub /\ Tail(l) \in Seq(Sub) /\ Len(l) \in Nat /\ Len(l) > 0
        /\ Len(Tail(l)) = Len(l) - 1 /\ Head(l) = l[1]
        /\ \A i \in 1..Len(Tail(l)) : Tail(l)[i] = l[i + 1]
    OBVIOUS
  <1>2. ASSUME NEW x, Notification!Contains(l, x)
        PROVE  x = Head(l) \/ Notification!Contains(Tail(l), x)
    <2>1. PICK i \in 1..Len(l) : l[i] = x
      BY <1>2 DEF Notification!Contains
    <2>2. CASE i = 1
      BY <2>1, <2>2, <1>1
    <2>3. CASE i # 1
      <3>1. i - 1 \in 1..Len(Tail(l)) /\ Tail(l)[i - 1] = x
        BY <2>1, <2>3, <1>1
      <3> QED BY <3>1 DEF Notification!Contains
    <2> QED BY <2>2, <2>3
  <1>3. ASSUME NEW x, x = Head(l) \/ Notification!Contains(Tail(l), x)
        PROVE  Notification!Contains(l, x)
    <2>1. CASE x = Head(l)
      <3>1. 1 \in 1..Len(l) /\ l[1] = x
        BY <2>1, <1>1
      <3> QED BY <3>1 DEF Notification!Contains
    <2>2. CASE Notification!Contains(Tail(l), x)
      <3>1. PICK i \in 1..Len(Tail(l)) : Tail(l)[i] = x
        BY <2>2 DEF Notification!Contains
      <3>2. i + 1 \in 1..Len(l) /\ l[i + 1] = x
        BY <3>1, <1>1
      <3> QED BY <3>2 DEF Notification!Contains
    <2> QED BY <1>3, <2>1, <2>2
  <1> QED BY <1>1, <1>2, <1>3

LEMMA Concatenated ==
  ASSUME NEW a \in Seq(Sub), NEW b \in Seq(Sub)
  PROVE  a \o b \in Seq(Sub) /\ Len(a \o b) = Len(a) + Len(b)
  OBVIOUS

(* RemoveFirst takes out one subscription, wherever it is.                  *)
LEMMA ContainsRemoved ==
  ASSUME NEW l \in Seq(Sub), NEW s, Notification!IsInjective(l)
  PROVE  /\ Notification!RemoveFirst(l, s) \in Seq(Sub) /\ Notification!IsInjective(Notification!RemoveFirst(l, s))
         /\ \A x : Notification!Contains(Notification!RemoveFirst(l, s), x) <=> Notification!Contains(l, x) /\ x # s
  <1>1. CASE ~\E i \in 1..Len(l) : l[i] = s
    BY <1>1 DEF Notification!RemoveFirst, Notification!Contains
  <1>2. CASE \E i \in 1..Len(l) : l[i] = s
    <2>1. PICK k \in 1..Len(l) : l[k] = s
      BY <1>2
    <2>2. {i \in 1..Len(l) : l[i] = s} = {k}
      BY <2>1 DEF Notification!IsInjective
    <2>3. Notification!Min({k}) = k
      BY <2>1 DEF Notification!Min
    <2>4. Notification!RemoveFirst(l, s) = Notification!RemoveAt(l, k)
      BY <1>2, <2>2, <2>3 DEF Notification!RemoveFirst, Notification!SelectInSeq
    <2> DEFINE a == SubSeq(l, 1, k - 1)
               b == SubSeq(l, k + 1, Len(l))
    <2>5. a \in Seq(Sub) /\ Len(a) = k - 1 /\ \A i \in 1..(k - 1) : a[i] = l[i]
      BY <2>1
    <2>6. b \in Seq(Sub) /\ Len(b) = Len(l) - k /\ \A i \in 1..(Len(l) - k) : b[i] = l[k + i]
      BY <2>1
    <2> DEFINE c == a \o b
    <2>7. /\ c \in Seq(Sub) /\ Len(c) = Len(l) - 1
          /\ \A i \in 1..(Len(l) - 1) : c[i] = IF i < k THEN l[i] ELSE l[i + 1]
      <3>0. c \in Seq(Sub) /\ Len(c) = Len(a) + Len(b)
        BY <2>5, <2>6, Concatenated
      <3> HIDE DEF a, b
      <3>1. c \in Seq(Sub) /\ Len(c) = Len(l) - 1
        BY <3>0, <2>1, <2>5, <2>6
      <3>2. ASSUME NEW i \in 1..(Len(l) - 1)
            PROVE  c[i] = IF i < k THEN l[i] ELSE l[i + 1]
        <4>1. CASE i < k
          BY <2>1, <2>5, <2>6, <4>1
        <4>2. CASE ~(i < k)
          <5>1. c[i] = b[i - (k - 1)] /\ i - (k - 1) \in 1..(Len(l) - k)
            BY <2>1, <2>5, <2>6, <4>2
          <5>2. b[i - (k - 1)] = l[k + (i - (k - 1))]
            BY <5>1, <2>6
          <5>3. k + (i - (k - 1)) = i + 1
            BY <2>1
          <5> QED BY <4>2, <5>1, <5>2, <5>3
        <4> QED BY <4>1, <4>2
      <3> QED BY <3>1, <3>2
    <2>8. Notification!RemoveFirst(l, s) = c
      BY <2>4 DEF Notification!RemoveAt
    <2> HIDE DEF c
    <2>9. DOMAIN c = 1..(Len(l) - 1) /\ DOMAIN l = 1..Len(l) /\ Len(l) \in Nat
      BY <2>7
    <2>10. Notification!IsInjective(c)
      <3> SUFFICES ASSUME NEW i \in 1..(Len(l) - 1), NEW j \in 1..(Len(l) - 1), c[i] = c[j]
                   PROVE  i = j
        BY <2>9 DEF Notification!IsInjective
      <3>1. \A m, n \in 1..Len(l) : l[m] = l[n] => m = n
        BY <2>9 DEF Notification!IsInjective
      <3> QED BY <3>1, <2>7, <2>9, <2>1
    <2>11. ASSUME NEW x, Notification!Contains(c, x)
           PROVE  Notification!Contains(l, x) /\ x # s
      <3>1. PICK i \in 1..(Len(l) - 1) : c[i] = x
        BY <2>7, <2>11 DEF Notification!Contains
      <3>2. PICK j \in 1..Len(l) : j # k /\ l[j] = x
        <4>1. CASE i < k
          BY <3>1, <4>1, <2>7, <2>9
        <4>2. CASE ~(i < k)
          <5>1. i + 1 \in 1..Len(l) /\ i + 1 # k /\ l[i + 1] = x
            BY <3>1, <4>2, <2>7, <2>9
          <5> QED BY <5>1
        <4> QED BY <4>1, <4>2
      <3> QED BY <3>2, <2>1, <2>9 DEF Notification!Contains, Notification!IsInjective
    <2>12. ASSUME NEW x, Notification!Contains(l, x), x # s
           PROVE  Notification!Contains(c, x)
      <3>1. PICK j \in 1..Len(l) : l[j] = x
        BY <2>12 DEF Notification!Contains
      <3>2. j # k
        BY <2>1, <3>1, <2>12
      <3>3. PICK i \in 1..(Len(l) - 1) : c[i] = x
        <4>1. CASE j < k
          <5>1. j \in 1..(Len(l) - 1) /\ c[j] = x
            BY <3>1, <4>1, <2>7, <2>9
          <5> QED BY <5>1
        <4>2. CASE ~(j < k)
          <5>1. j - 1 \in 1..(Len(l) - 1) /\ ~(j - 1 < k) /\ (j - 1) + 1 = j
            BY <3>1, <4>2, <3>2, <2>9
          <5>2. c[j - 1] = x
            BY <5>1, <2>7, <3>1
          <5> QED BY <5>1, <5>2
        <4> QED BY <4>1, <4>2
      <3> QED BY <3>3, <2>7 DEF Notification!Contains
    <2> QED BY <2>7, <2>8, <2>10, <2>11, <2>12
  <1> QED BY <1>1, <1>2

-----------------------------------------------------------------------------
(* NotificationService: frames                                              *)

LEMMA IdleFrame ==
  /\ Notification!Idle \in Frame
  /\ Notification!Idle.do = "idle" /\ Notification!Idle.sub = Notification!None /\ Notification!Idle.at = ""
     /\ Notification!Idle.left = <<>>
  BY DEF Notification!Idle, Frame, Do, Step

(* Only the frame of t changes, and fields d, s, a and l are what it gets.  *)
Becomes(t, d, s, a, l) ==
  /\ op' \in [Notification!Threads -> Frame]
  /\ op'[t].do = d /\ op'[t].sub = s /\ op'[t].at = a /\ op'[t].left = l
  /\ \A u \in Notification!Threads : u # t => op'[u] = op[u]

LEMMA SetFrame ==
  ASSUME FramesOK, NEW t \in Notification!Threads, NEW f \in Frame, Notification!Set(t, f)
  PROVE  Becomes(t, f.do, f.sub, f.at, f.left)
  BY DEF FramesOK, Notification!Set, Becomes

LEMMA BeginFrame ==
  ASSUME FramesOK, NEW t \in Notification!Threads, NEW what \in Do, NEW s \in Sub, NEW a \in Step,
           Notification!Begin(t, what, s, a)
  PROVE  op[t] = Notification!Idle /\ op[t].do = "idle" /\ Becomes(t, what, s, a, <<>>)
  <1>1. op[t] = Notification!Idle /\ Notification!Idle \in Frame
          /\ op' = [op EXCEPT ![t] = [Notification!Idle EXCEPT !.do = what, !.sub = s, !.at = a]]
    BY IdleFrame DEF Notification!Begin, Notification!Set
  <1>2. PICK f \in Frame : f = Notification!Idle
    BY <1>1
  <1>3. PICK g : g = [f EXCEPT !.do = what, !.sub = s, !.at = a]
    OBVIOUS
  <1>4. g \in Frame /\ g.do = what /\ g.sub = s /\ g.at = a /\ g.left = f.left
    BY <1>3 DEF Frame
  <1>5. op' = [op EXCEPT ![t] = g]
    BY <1>1, <1>2, <1>3
  <1> QED BY <1>1, <1>2, <1>4, <1>5, IdleFrame DEF Becomes, FramesOK

LEMMA ToFrame ==
  ASSUME FramesOK, NEW t \in Notification!Threads, NEW a \in Step, Notification!To(t, a)
  PROVE  Becomes(t, op[t].do, op[t].sub, a, op[t].left)
  BY DEF FramesOK, Notification!Set, Notification!To, Becomes, Frame

-----------------------------------------------------------------------------
(* NotificationService: every step keeps the invariant                      *)

LEMMA InitNotification == Notification!Init => NotificationInv
  <1> SUFFICES ASSUME Notification!Init PROVE NotificationInv
    OBVIOUS
  <1>1. \A v \in Notification!Service : m_subscriptions[v] = <<>>
    BY DEF Notification!Init, Notification!Service
  <1>2. \A v \in Notification!Service : \A x : ~In(v, x)
    BY <1>1, ContainsEmpty DEF In
  <1>3. Notification!TypeOK
    BY <1>1 DEF Notification!Init, Notification!TypeOK, Notification!IsInjective, Notification!Service
  <1>0. FramesOK
    <2>1. m_subscriptions \in [Notification!Service -> Seq(Sub)]
      BY EmptyList, Zenon DEF Notification!Init
    <2>2. op \in [Notification!Threads -> Frame]
      BY IdleFrame DEF Notification!Init
    <2> QED BY <2>1, <2>2 DEF FramesOK
  <1>4. \A t \in Notification!Threads : op[t].do = "idle" /\ op[t].at = ""
    BY DEF Notification!Init, Notification!Idle
  <1>5. FrameInv /\ QuietInv
    BY <1>4 DEF Notification!Init, FrameInv, QuietInv, Notification!Removes
  <1>6. \A s \in Sub : SubInv(s)
    BY <1>2 DEF Notification!Init, SubInv, Notification!Service
  <1>7. DestroyedIsEmpty
    BY DEF Notification!Init, DestroyedIsEmpty
  <1> QED BY <1>0, <1>3, <1>5, <1>6, <1>7 DEF NotificationInv

(* A step that leaves the lists alone.                                      *)
LEMMA SameLists ==
  ASSUME UNCHANGED m_subscriptions
  PROVE  \A v, x : In(v, x)' <=> In(v, x)
  BY DEF In

LEMMA SubscribeInv ==
  ASSUME NotificationInv, NEW t \in Notification!Threads, NEW s \in Sub, Notification!Subscribe(t, s)
  PROVE  NotificationInv'
  <1> USE DEF NotificationInv
  <1>1. \A v, x : In(v, x)' <=> In(v, x)
    BY SameLists DEF Notification!Subscribe
  <1>2. "subscribe" \in Do /\ "child" \in Step
    BY DEF Do, Step, AtChild
  <1>3. op[t].do = "idle" /\ Becomes(t, "subscribe", s, "child", <<>>)
    BY <1>2, BeginFrame DEF Notification!Subscribe
  <1>4. /\ op' \in [Notification!Threads -> Frame] /\ op'[t].do = "subscribe" /\ op'[t].sub = s
           /\ op'[t].at = "child"
        /\ \A u \in Notification!Threads : u # t => op'[u] = op[u]
    BY <1>3 DEF Becomes
  <1>5. /\ state[s] = "new" /\ state'[s] = "adding" /\ \A x \in Sub : x # s => state'[x] = state[x]
        /\ m_handler' = m_handler \cup {s} /\ alive
        /\ UNCHANGED <<m_subscriptions, hasParent, m_isSubscribed, alive, posted, sends, quiet>>
    BY DEF Notification!Subscribe, Notification!TypeOK
  <1>6. Notification!TypeOK' /\ FramesOK'
    BY <1>4, <1>5 DEF Notification!Subscribe, Notification!TypeOK, FramesOK
  <1>7. FrameInv'
    <2>0. s \notin m_handler /\ s \notin hasParent /\ s \notin m_isSubscribed /\ ~In("child", s) /\ ~In("root", s)
      BY <1>5 DEF SubInv
    <2>1. ASSUME NEW u \in Notification!Threads, op'[u].do = "subscribe" PROVE Adding(u)'
      <3>1. CASE u = t
        BY <1>1, <1>4, <1>5, <2>0, <3>1 DEF Adding, AtChild, AtRoot
      <3>2. CASE u # t
        <4>1. Adding(u) /\ op'[u] = op[u]
          BY <1>4, <2>1, <3>2 DEF FrameInv
        <4>2. op[u].sub \in Sub /\ op[u].sub # s
          BY <4>1, <1>5 DEF Adding
        <4> QED BY <1>1, <1>5, <4>1, <4>2 DEF Adding
      <3> QED BY <3>1, <3>2
    <2>2. ASSUME NEW u \in Notification!Threads, op'[u].do \in Notification!Removes PROVE Removing(u)'
      <3>1. u # t /\ op'[u] = op[u] /\ Removing(u)
        BY <1>4, <2>2 DEF FrameInv, Notification!Removes
      <3>2. op[u].sub # s
        BY <3>1, <1>5 DEF Removing
      <3> QED BY <3>1, <3>2, <1>5 DEF Removing
    <2>3. ASSUME NEW u \in Notification!Threads, op'[u].do = "subscribe", u # t PROVE op'[u].sub # s
      BY <1>4, <1>5, <2>3 DEF FrameInv, Adding
    <2> QED BY <1>4, <1>5, <2>1, <2>2, <2>3 DEF FrameInv, Notification!Removes
  <1>8. \A x \in Sub : SubInv(x)'
    BY <1>1, <1>4, <1>5, <1>3 DEF SubInv, Adds, RemovesIt, ToRemove, Notification!Removes
  <1>9. DestroyedIsEmpty' /\ QuietInv'
    BY <1>4, <1>5 DEF DestroyedIsEmpty, QuietInv, Notification!TypeOK
  <1> QED BY <1>6, <1>7, <1>8, <1>9

(* A step of a thread that neither subscribes nor removes, before or after. *)
LEMMA OtherCall ==
  ASSUME NotificationInv, NEW t \in Notification!Threads, UNCHANGED <<Notification!lists, Notification!history>>,
         op' \in [Notification!Threads -> Frame], \A u \in Notification!Threads : u # t => op'[u] = op[u],
         op[t].do \notin Notification!Removes \cup {"subscribe"},
           op'[t].do \notin Notification!Removes \cup {"subscribe"},
         posted' \in Seq(Posted),
         op'[t].at = "call" /\ op'[t].sub \in Posted =>
           t = dispatcher /\ op'[t].do = "handle" /\ op'[t].sub \in m_handler
  PROVE  NotificationInv'
  <1> USE DEF NotificationInv
  <1>1. \A v, x : In(v, x)' <=> In(v, x)
    BY SameLists DEF Notification!lists
  <1>2. Notification!TypeOK' /\ FramesOK'
    BY DEF Notification!TypeOK, FramesOK, Notification!lists, Notification!history
  <1>3. UNCHANGED <<m_subscriptions, m_handler, hasParent, m_isSubscribed, alive, state, quiet>>
    BY DEF Notification!lists, Notification!history
  <1>4. FrameInv'
    <2>1. ASSUME NEW u \in Notification!Threads, op'[u].do \in Notification!Removes \cup {"subscribe"}
          PROVE op'[u] = op[u]
      BY <2>1
    <2>2. ASSUME NEW u \in Notification!Threads, op'[u].do = "subscribe" PROVE Adding(u)'
      BY <1>1, <1>3, <2>1, <2>2 DEF FrameInv, Adding
    <2>3. ASSUME NEW u \in Notification!Threads, op'[u].do \in Notification!Removes PROVE Removing(u)'
      BY <1>1, <1>3, <2>1, <2>3 DEF FrameInv, Removing
    <2> QED BY <1>3, <2>1, <2>2, <2>3 DEF FrameInv, Notification!Removes
  <1>5. \A x \in Sub : SubInv(x)'
    BY <1>1, <1>3 DEF SubInv, Adds, RemovesIt, ToRemove, Notification!Removes
  <1>6. DestroyedIsEmpty' /\ QuietInv'
    BY <1>3 DEF DestroyedIsEmpty, QuietInv, Notification!TypeOK
  <1> QED BY <1>2, <1>4, <1>5, <1>6

LEMMA SendNotificationInv ==
  ASSUME NotificationInv, NEW t \in Notification!Threads, Notification!SendNotification(t)
  PROVE  NotificationInv'
  <1>1. FramesOK /\ Notification!TypeOK
    BY DEF NotificationInv
  <1>2. op[t].do = "idle"
    BY IdleFrame DEF Notification!SendNotification
  <1>3. PICK l \in Seq(Sub) : l = m_subscriptions["root"]
    BY <1>1 DEF Notification!TypeOK, Notification!Service
  <1>4. PICK f \in Frame : f = Notification!Idle
    BY IdleFrame
  <1>5. PICK g : g = [f EXCEPT !.do = "send", !.at = "next", !.left = l]
    OBVIOUS
  <1>6. g \in Frame /\ g.do = "send" /\ g.at = "next" /\ g.sub = f.sub
    BY <1>5 DEF Frame, Do, Step
  <1>7. Notification!Set(t, g)
    BY <1>3, <1>4, <1>5 DEF Notification!SendNotification
  <1>8. Becomes(t, "send", f.sub, "next", g.left)
    BY <1>1, <1>6, <1>7, SetFrame
  <1> QED BY <1>1, <1>2, <1>8, OtherCall DEF Becomes, Notification!SendNotification, Notification!TypeOK,
             Notification!Removes

LEMMA CallHandlerInv ==
  ASSUME NotificationInv, NEW t \in Notification!Threads, Notification!CallHandler(t)
  PROVE  NotificationInv'
  <1>1. FramesOK /\ Notification!TypeOK /\ op[t] \in Frame
    BY DEF NotificationInv, FramesOK
  <1>2. op[t].do = "send" /\ op[t].left \in Seq(Sub) /\ op[t].left # <<>>
    BY <1>1 DEF Notification!CallHandler, Notification!Does, Frame
  <1>3. PICK s \in Sub : s = Head(op[t].left)
    BY <1>2, ContainsTail
  <1>4. PICK rest : rest = [op[t] EXCEPT !.left = Tail(op[t].left)]
    OBVIOUS
  <1>5. rest \in Frame /\ rest.do = "send" /\ rest.sub = op[t].sub /\ rest.at = "next"
    <2>1. Tail(op[t].left) \in Seq(Sub)
      BY <1>2, ContainsTail
    <2> QED BY <1>1, <1>2, <1>4, <2>1 DEF Frame, Notification!CallHandler, Notification!Does
  <1>6. PICK c : c = [rest EXCEPT !.sub = s, !.at = "call"]
    OBVIOUS
  <1>7. c \in Frame /\ c.do = "send" /\ c.sub = s /\ c.at = "call"
    BY <1>5, <1>6 DEF Frame, Step
  <1>8. \/ s \in m_handler \cap Posted /\ posted' = Append(posted, s) /\ Notification!Set(t, rest)
        \/ s \in m_handler \ Posted /\ Notification!Set(t, c) /\ UNCHANGED posted
        \/ s \notin m_handler /\ Notification!Set(t, rest) /\ UNCHANGED posted
    BY <1>3, <1>4, <1>6 DEF Notification!CallHandler
  <1>9. posted' \in Seq(Posted)
    BY <1>1, <1>8 DEF Notification!TypeOK
  <1>10. CASE Notification!Set(t, rest)
    <2>1. Becomes(t, "send", op[t].sub, "next", rest.left)
      BY <1>1, <1>5, <1>10, SetFrame
    <2> QED BY <1>2, <1>9, <2>1, OtherCall DEF Becomes, Notification!CallHandler, Notification!Removes
  <1>11. CASE s \in m_handler \ Posted /\ Notification!Set(t, c)
    <2>1. Becomes(t, "send", s, "call", c.left)
      BY <1>1, <1>7, <1>11, SetFrame
    <2> QED BY <1>2, <1>9, <1>11, <2>1, OtherCall DEF Becomes, Notification!CallHandler, Notification!Removes
  <1> QED BY <1>8, <1>10, <1>11

LEMMA SendReturnsInv ==
  ASSUME NotificationInv, NEW t \in Notification!Threads, Notification!SendReturns(t)
  PROVE  NotificationInv'
  <1>1. FramesOK /\ Notification!TypeOK /\ op[t].do = "send"
    BY DEF NotificationInv, Notification!SendReturns, Notification!Does
  <1>2. Becomes(t, "idle", Notification!None, "", <<>>)
    BY <1>1, SetFrame, IdleFrame DEF Notification!SendReturns
  <1> QED BY <1>1, <1>2, OtherCall DEF Becomes, Notification!SendReturns, Notification!TypeOK,
             Notification!Removes

LEMMA DispatchInv ==
  ASSUME NotificationInv, Notification!Dispatch
  PROVE  NotificationInv'
  <1>1. FramesOK /\ Notification!TypeOK /\ dispatcher \in Notification!Threads
    BY DEF NotificationInv, Notification!Threads
  <1>2. posted' \in Seq(Posted) /\ Head(posted) \in Posted
    BY <1>1 DEF Notification!TypeOK, Notification!Dispatch
  <1>3. CASE Head(posted) \in m_handler
    <2>1. Head(posted) \in Sub /\ "handle" \in Do /\ "call" \in Step
      BY <1>1, <1>3 DEF Notification!TypeOK, Do, Step
    <2>2. op[dispatcher].do = "idle" /\ Becomes(dispatcher, "handle", Head(posted), "call", <<>>)
      BY <1>1, <1>3, <2>1, BeginFrame DEF Notification!Dispatch
    <2> QED BY <1>1, <1>2, <1>3, <2>2, OtherCall DEF Becomes, Notification!Dispatch, Notification!Removes
  <1>4. CASE Head(posted) \notin m_handler
    <2>1. op[dispatcher] = Notification!Idle /\ op' = op
      BY <1>4 DEF Notification!Dispatch
    <2> QED BY <1>1, <1>2, <2>1, IdleFrame, OtherCall DEF Notification!Dispatch, Notification!Removes, FramesOK
  <1> QED BY <1>3, <1>4

LEMMA CallInv ==
  ASSUME NotificationInv, NEW t \in Notification!Threads, Notification!Call(t)
  PROVE  NotificationInv'
  <1>1. FramesOK /\ Notification!TypeOK /\ op[t] \in Frame
    BY DEF NotificationInv, FramesOK
  <1>2. op[t].do \notin Notification!Removes \cup {"subscribe"}
    BY DEF NotificationInv, FrameInv, Notification!Call, Adding, Removing, AtChild, AtRoot
  <1>3. CASE op[t].do = "send"
    <2>1. PICK g : g = [op[t] EXCEPT !.at = "next", !.sub = Notification!None]
      OBVIOUS
    <2>2. g \in Frame /\ g.do = "send" /\ g.at = "next" /\ g.sub = Notification!None
      BY <1>1, <1>3, <2>1 DEF Frame, Step
    <2>3. Becomes(t, "send", Notification!None, "next", g.left)
      BY <1>1, <1>3, <2>1, <2>2, SetFrame DEF Notification!Call
    <2> QED BY <1>1, <1>2, <2>3, OtherCall DEF Becomes, Notification!Call, Notification!TypeOK,
               Notification!Removes
  <1>4. CASE op[t].do # "send"
    <2>1. Becomes(t, "idle", Notification!None, "", <<>>)
      BY <1>1, <1>4, SetFrame, IdleFrame DEF Notification!Call
    <2> QED BY <1>1, <1>2, <2>1, OtherCall DEF Becomes, Notification!Call, Notification!TypeOK,
               Notification!Removes
  <1> QED BY <1>3, <1>4

(* ModifySubscriptions reads a snapshot, for the first time or again.       *)
LEMMA Rereads ==
  ASSUME NotificationInv, NEW t \in Notification!Threads,
         UNCHANGED <<Notification!lists, posted, Notification!history>>,
         op' \in [Notification!Threads -> Frame], \A u \in Notification!Threads : u # t => op'[u] = op[u],
         op'[t].do = op[t].do, op'[t].sub = op[t].sub, op'[t].left = op[t].left,
         \/ op[t].at \in AtChild /\ op'[t].at \in AtChild
         \/ op[t].at \in AtRoot /\ op'[t].at \in AtRoot
  PROVE  NotificationInv'
  <1> USE DEF NotificationInv
  <1>1. \A v, x : In(v, x)' <=> In(v, x)
    BY SameLists DEF Notification!lists
  <1>2. Notification!TypeOK' /\ FramesOK'
    BY DEF Notification!TypeOK, FramesOK, Notification!lists, Notification!history
  <1>3. UNCHANGED <<m_subscriptions, m_handler, hasParent, m_isSubscribed, alive, state, quiet>>
    BY DEF Notification!lists, Notification!history
  <1>4. \A u \in Notification!Threads :
          /\ op'[u].do = op[u].do /\ op'[u].sub = op[u].sub /\ op'[u].left = op[u].left
          /\ op'[u].at \in AtChild <=> op[u].at \in AtChild
          /\ op'[u].at \in AtRoot <=> op[u].at \in AtRoot
          /\ op'[u].at \notin AtChild \cup AtRoot => op'[u].at = op[u].at
          /\ op[u].at \notin AtChild \cup AtRoot => op'[u].at = op[u].at
    BY DEF AtChild, AtRoot
  <1>5. FrameInv'
    <2>1. ASSUME NEW u \in Notification!Threads, op'[u].do = "subscribe" PROVE Adding(u)'
      <3>1. Adding(u)
        BY <1>4, <2>1 DEF FrameInv
      <3> QED BY <1>1, <1>3, <1>4, <3>1 DEF Adding, AtChild, AtRoot
    <2>2. ASSUME NEW u \in Notification!Threads, op'[u].do \in Notification!Removes PROVE Removing(u)'
      <3>1. Removing(u)
        BY <1>4, <2>2 DEF FrameInv
      <3> QED BY <1>1, <1>3, <1>4, <3>1 DEF Removing, AtChild, AtRoot
    <2> QED BY <1>3, <1>4, <2>1, <2>2 DEF FrameInv
  <1>6. \A x \in Sub : SubInv(x)'
    <2>1. \A u \in Notification!Threads, x \in Sub :
            /\ Adds(u, x)' <=> Adds(u, x)
            /\ RemovesIt(u, x)' <=> RemovesIt(u, x)
            /\ ToRemove(u, x)' <=> ToRemove(u, x)
      BY <1>4 DEF Adds, RemovesIt, ToRemove
    <2>2. \A u \in Notification!Threads :
            /\ op'[u].at = "view" <=> op[u].at = "view"
            /\ op'[u].at = "handler" <=> op[u].at = "handler"
      BY <1>4 DEF AtChild, AtRoot
    <2>3. \A u \in Notification!Threads :
            op'[u].at \in AtRoot \cup {"view", "handler"} <=> op[u].at \in AtRoot \cup {"view", "handler"}
      BY <1>4, <2>2
    <2> QED BY <1>1, <1>3, <1>4, <2>1, <2>2, <2>3 DEF SubInv
  <1>7. DestroyedIsEmpty' /\ QuietInv'
    BY <1>3, <1>4 DEF DestroyedIsEmpty, QuietInv, AtChild, AtRoot
  <1> QED BY <1>2, <1>5, <1>6, <1>7

(* A step of ModifySubscriptions reads or replaces.                         *)
LEMMA ModifySteps ==
  ASSUME NotificationInv, NEW t \in Notification!Threads, NEW what \in Do, NEW v \in Notification!Service,
         NEW new, NEW next \in Step, Notification!Modify(t, what, v, new, next)
  PROVE  /\ op[t].do = what
         /\ op[t].at \in (IF v = "child" THEN AtChild ELSE AtRoot)
         /\ \/ NotificationInv'
            \/ /\ op[t].snap = m_subscriptions[v] /\ Notification!To(t, next)
               /\ m_subscriptions' = [m_subscriptions EXCEPT ![v] = new]
               /\ UNCHANGED <<m_handler, hasParent, m_isSubscribed, alive, posted, sends, Notification!history>>
  <1>1. FramesOK /\ Notification!TypeOK /\ op[t] \in Frame
    BY DEF NotificationInv, FramesOK
  <1>2. PICK l \in Seq(Sub) : l = m_subscriptions[v]
    BY <1>1 DEF FramesOK
  <1> DEFINE here == IF v = "child" THEN AtChild ELSE AtRoot
  <1>3. Notification!ReplaceIn[v] \in here /\ v \in here /\ Notification!ReplaceIn[v] \in Step
    <2>1. CASE v = "child"
      BY <2>1 DEF Notification!ReplaceIn, AtChild, Step
    <2>2. CASE v = "root"
      BY <2>2 DEF Notification!ReplaceIn, AtRoot, Step
    <2> QED BY <2>1, <2>2 DEF Notification!Service
  <1>4. op[t].do = what /\ op[t].at \in here
    BY <1>3 DEF Notification!Modify, Notification!Does
  <1>0. \/ op[t].at \in AtChild /\ Notification!ReplaceIn[v] \in AtChild
        \/ op[t].at \in AtRoot /\ Notification!ReplaceIn[v] \in AtRoot
    BY <1>3, <1>4
  <1>5. CASE Notification!Does(t, what, v) /\ Notification!Set(t, [op[t] EXCEPT !.snap = l,
               !.at = Notification!ReplaceIn[v]]) /\ UNCHANGED m_subscriptions
    <2>1. PICK g : g = [op[t] EXCEPT !.snap = l, !.at = Notification!ReplaceIn[v]]
      OBVIOUS
    <2>2. g \in Frame /\ g.do = op[t].do /\ g.sub = op[t].sub /\ g.at = Notification!ReplaceIn[v]
            /\ g.left = op[t].left
      BY <1>1, <1>3, <2>1 DEF Frame
    <2>3. Becomes(t, op[t].do, op[t].sub, Notification!ReplaceIn[v], op[t].left)
      BY <1>1, <1>5, <2>1, <2>2, SetFrame
    <2>4. UNCHANGED <<Notification!lists, posted, Notification!history>>
      BY <1>5 DEF Notification!Modify, Notification!lists
    <2>5. NotificationInv'
      BY <1>0, <2>3, <2>4, Rereads DEF Becomes
    <2> QED BY <1>4, <2>5
  <1>6. CASE Notification!Does(t, what, Notification!ReplaceIn[v]) /\ Notification!Replace(t, v, new, next)
    <2>1. CASE op[t].snap # m_subscriptions[v]
      <3>1. PICK g : g = [op[t] EXCEPT !.snap = l]
        OBVIOUS
      <3>2. g \in Frame /\ g.do = op[t].do /\ g.sub = op[t].sub /\ g.at = op[t].at /\ g.left = op[t].left
        BY <1>1, <3>1 DEF Frame
      <3>3. Notification!Set(t, g) /\ UNCHANGED m_subscriptions
        BY <1>2, <1>6, <2>1, <3>1 DEF Notification!Replace
      <3>4. Becomes(t, op[t].do, op[t].sub, op[t].at, op[t].left)
        BY <1>1, <3>2, <3>3, SetFrame
      <3>5. UNCHANGED <<Notification!lists, posted, Notification!history>>
        BY <3>3 DEF Notification!Modify, Notification!lists
      <3>6. NotificationInv'
        BY <1>0, <3>4, <3>5, Rereads DEF Becomes
      <3> QED BY <1>4, <3>6
    <2>2. CASE op[t].snap = m_subscriptions[v]
      BY <1>4, <1>6, <2>2 DEF Notification!Replace, Notification!Modify
    <2> QED BY <2>1, <2>2
  <1> QED BY <1>2, <1>5, <1>6 DEF Notification!Modify

(* Subscribe adds to list v, where it was not, and goes on.                 *)
LEMMA AddTo ==
  ASSUME NotificationInv, NEW t \in Notification!Threads, op[t].do = "subscribe",
         NEW v \in Notification!Service, NEW next,
         \/ v = "child" /\ op[t].at \in AtChild /\ next = "view"
         \/ v = "root" /\ op[t].at \in AtRoot /\ next = "return",
         Notification!To(t, next),
         m_subscriptions' = [m_subscriptions EXCEPT ![v] = Append(m_subscriptions[v], op[t].sub)],
         UNCHANGED <<m_handler, hasParent, m_isSubscribed, alive, posted, sends, Notification!history>>
  PROVE  NotificationInv'
  <1> USE DEF NotificationInv
  <1>1. PICK s \in Sub : s = op[t].sub /\ alive /\ state[s] = "adding" /\ s \in m_handler
                         /\ (v = "child" => s \notin hasParent /\ s \notin m_isSubscribed /\ ~In("root", s))
                         /\ (v = "root" => s \in hasParent /\ s \in m_isSubscribed /\ In("child", s))
    BY DEF FrameInv, Adding, AtChild, AtRoot
  <1>2. ~In(v, s)
    BY <1>1 DEF FrameInv, Adding, AtChild, AtRoot, Notification!Service
  <1>3. m_subscriptions[v] \in Seq(Sub) /\ Notification!IsInjective(m_subscriptions[v])
    BY DEF Notification!TypeOK
  <1>4. /\ Append(m_subscriptions[v], s) \in Seq(Sub) /\ Notification!IsInjective(Append(m_subscriptions[v], s))
        /\ \A x : Notification!Contains(Append(m_subscriptions[v], s), x)
           <=> Notification!Contains(m_subscriptions[v], x) \/ x = s
    BY <1>2, <1>3, ContainsAppend DEF In
  <1>5. /\ m_subscriptions' \in [Notification!Service -> Seq(Sub)]
           /\ m_subscriptions'[v] = Append(m_subscriptions[v], s)
        /\ \A w \in Notification!Service : w # v => m_subscriptions'[w] = m_subscriptions[w]
    BY <1>1, <1>4 DEF FramesOK
  <1>6. \A w \in Notification!Service : \A x : In(w, x)' <=> In(w, x) \/ (w = v /\ x = s)
    BY <1>4, <1>5 DEF In
  <1>7. next \in Step
    BY DEF Step
  <1>8. /\ op' \in [Notification!Threads -> Frame] /\ op'[t].do = "subscribe" /\ op'[t].sub = s /\ op'[t].at = next
        /\ \A u \in Notification!Threads : u # t => op'[u] = op[u]
    BY <1>1, <1>7, ToFrame DEF Becomes
  <1>9. UNCHANGED <<m_handler, hasParent, m_isSubscribed, alive, posted, state, quiet>>
    BY DEF Notification!history
  <1>10. Notification!TypeOK' /\ FramesOK'
    BY <1>4, <1>5, <1>8, <1>9 DEF Notification!TypeOK, FramesOK
  <1>11. FrameInv'
    <2>1. ASSUME NEW u \in Notification!Threads, op'[u].do = "subscribe" PROVE Adding(u)'
      <3>1. CASE u = t
        <4>1. CASE v = "child"
          <5>1. next = "view"
            BY <1>1, <1>6, <4>1 DEF Notification!Service
          <5>2. \A x : In("child", x)' <=> In("child", x) \/ x = s
            BY <1>6, <4>1 DEF Notification!Service
          <5>3. \A x : In("root", x)' <=> In("root", x)
            BY <1>6, <4>1 DEF Notification!Service
          <5>4. op'[u].sub = s /\ op'[u].at = "view"
            BY <1>8, <3>1, <5>1
          <5>5. Notification!Contains(m_subscriptions'["child"], op'[u].sub)
            BY <1>1, <5>2, <5>4 DEF In
          <5>6. ~Notification!Contains(m_subscriptions'["root"], op'[u].sub)
            BY <1>1, <5>3, <5>4, <4>1 DEF In
          <5>7. s \in Sub /\ alive' /\ state'[s] = "adding" /\ s \in m_handler'
            BY <1>1, <1>9
          <5>8. s \notin hasParent' /\ s \notin m_isSubscribed'
            BY <1>1, <1>9, <4>1
          <5> QED BY <5>4, <5>5, <5>6, <5>7, <5>8 DEF Adding, AtChild, AtRoot, In
        <4>2. CASE v = "root"
          <5>1. next = "return"
            BY <1>1, <1>6, <4>2 DEF Notification!Service
          <5>2. \A x : In("child", x)' <=> In("child", x)
            BY <1>6, <4>2 DEF Notification!Service
          <5>3. \A x : In("root", x)' <=> In("root", x) \/ x = s
            BY <1>6, <4>2 DEF Notification!Service
          <5>4. op'[u].sub = s /\ op'[u].at = "return"
            BY <1>8, <3>1, <5>1
          <5>5. Notification!Contains(m_subscriptions'["child"], op'[u].sub)
            BY <1>1, <5>2, <5>4, <4>2 DEF In
          <5>6. Notification!Contains(m_subscriptions'["root"], op'[u].sub)
            BY <1>1, <5>3, <5>4 DEF In
          <5>7. s \in Sub /\ alive' /\ state'[s] = "adding" /\ s \in m_handler'
            BY <1>1, <1>9
          <5>8. s \in hasParent' /\ s \in m_isSubscribed'
            BY <1>1, <1>9, <4>2
          <5> QED BY <5>4, <5>5, <5>6, <5>7, <5>8 DEF Adding, AtChild, AtRoot, In
        <4> QED BY <4>1, <4>2 DEF Notification!Service
      <3>2. CASE u # t
        <4>1. Adding(u) /\ op'[u] = op[u] /\ op[u].sub # s
          BY <1>1, <1>8, <2>1, <3>2 DEF FrameInv
        <4> QED BY <1>6, <1>9, <4>1 DEF Adding, Notification!Service
      <3> QED BY <3>1, <3>2
    <2>2. ASSUME NEW u \in Notification!Threads, op'[u].do \in Notification!Removes PROVE Removing(u)'
      <3>1. Removing(u) /\ op'[u] = op[u]
        BY <1>8, <2>2 DEF FrameInv, Notification!Removes
      <3> QED BY <1>9, <3>1 DEF Removing
    <2> QED BY <1>1, <1>8, <1>9, <2>1, <2>2 DEF FrameInv, Notification!Removes
  <1>12. \A x \in Sub : SubInv(x)'
    <2>1. \A u \in Notification!Threads, x \in Sub :
            /\ Adds(u, x)' <=> Adds(u, x)
            /\ RemovesIt(u, x)' <=> RemovesIt(u, x)
            /\ ToRemove(u, x)' <=> ToRemove(u, x)
            /\ RemovesIt(u, x) => op'[u].at = op[u].at
      BY <1>1, <1>8 DEF Adds, RemovesIt, ToRemove, Notification!Removes
    <2>2. ASSUME NEW x \in Sub, x # s PROVE SubInv(x)'
      BY <1>6, <1>9, <2>1, <2>2 DEF SubInv, Notification!Service
    <2>3. SubInv(s)'
      BY <1>1, <1>6, <1>8, <1>9 DEF SubInv, Notification!Service, Adds
    <2> QED BY <2>2, <2>3
  <1>13. DestroyedIsEmpty' /\ QuietInv'
    BY <1>1, <1>8, <1>9 DEF DestroyedIsEmpty, QuietInv, Notification!TypeOK
  <1> QED BY <1>10, <1>11, <1>12, <1>13

LEMMA AddSubscriptionInv ==
  ASSUME NotificationInv, NEW t \in Notification!Threads, Notification!AddSubscription(t)
  PROVE  NotificationInv'
  <1>1. "subscribe" \in Do /\ "view" \in Step /\ "return" \in Step /\ "child" \in Notification!Service
          /\ "root" \in Notification!Service
    BY DEF Do, Step, Notification!Service
  <1>2. PICK add : add = Append(op[t].snap, op[t].sub)
    OBVIOUS
  <1>3. CASE Notification!Modify(t, "subscribe", "child", add, "view")
    <2>1. /\ op[t].do = "subscribe" /\ op[t].at \in AtChild
          /\ \/ NotificationInv'
             \/ /\ op[t].snap = m_subscriptions["child"] /\ Notification!To(t, "view")
                /\ m_subscriptions' = [m_subscriptions EXCEPT !["child"] = add]
                /\ UNCHANGED <<m_handler, hasParent, m_isSubscribed, alive, posted, sends, Notification!history>>
      BY <1>1, <1>3, ModifySteps
    <2>2. CASE op[t].snap = m_subscriptions["child"] /\ Notification!To(t, "view")
               /\ m_subscriptions' = [m_subscriptions EXCEPT !["child"] = add]
               /\ UNCHANGED <<m_handler, hasParent, m_isSubscribed, alive, posted, sends, Notification!history>>
      BY <1>1, <1>2, <2>1, <2>2, AddTo
    <2> QED BY <2>1, <2>2
  <1>4. CASE Notification!Modify(t, "subscribe", "root", add, "return")
    <2>1. /\ op[t].do = "subscribe" /\ op[t].at \in AtRoot
          /\ \/ NotificationInv'
             \/ /\ op[t].snap = m_subscriptions["root"] /\ Notification!To(t, "return")
                /\ m_subscriptions' = [m_subscriptions EXCEPT !["root"] = add]
                /\ UNCHANGED <<m_handler, hasParent, m_isSubscribed, alive, posted, sends, Notification!history>>
      BY <1>1, <1>4, ModifySteps
    <2>2. CASE op[t].snap = m_subscriptions["root"] /\ Notification!To(t, "return")
               /\ m_subscriptions' = [m_subscriptions EXCEPT !["root"] = add]
               /\ UNCHANGED <<m_handler, hasParent, m_isSubscribed, alive, posted, sends, Notification!history>>
      BY <1>1, <1>2, <2>1, <2>2, AddTo
    <2> QED BY <2>1, <2>2
  <1> QED BY <1>2, <1>3, <1>4 DEF Notification!AddSubscription

LEMMA MakeViewInv ==
  ASSUME NotificationInv, NEW t \in Notification!Threads, Notification!MakeView(t)
  PROVE  NotificationInv'
  <1> USE DEF NotificationInv
  <1>1. \A v, x : In(v, x)' <=> In(v, x)
    BY SameLists DEF Notification!MakeView
  <1>2. op[t].do = "subscribe" /\ op[t].at = "view" /\ Notification!To(t, "root") /\ "root" \in Step
    BY DEF Notification!MakeView, Notification!Does, Step, AtRoot
  <1>3. PICK s \in Sub : s = op[t].sub /\ alive /\ state[s] = "adding" /\ s \in m_handler
                         /\ s \notin hasParent /\ s \notin m_isSubscribed /\ ~In("root", s) /\ In("child", s)
    BY <1>2 DEF FrameInv, Adding, AtChild, AtRoot
  <1>4. /\ op' \in [Notification!Threads -> Frame] /\ op'[t].do = "subscribe" /\ op'[t].sub = s
           /\ op'[t].at = "root"
        /\ \A u \in Notification!Threads : u # t => op'[u] = op[u]
    BY <1>2, <1>3, ToFrame DEF Becomes
  <1>5. /\ hasParent' = hasParent \cup {s} /\ m_isSubscribed' = m_isSubscribed \cup {s}
        /\ UNCHANGED <<m_subscriptions, m_handler, alive, posted, state, quiet>>
    BY <1>3 DEF Notification!MakeView, Notification!history
  <1>6. Notification!TypeOK' /\ FramesOK'
    BY <1>4, <1>5 DEF Notification!TypeOK, FramesOK
  <1>7. FrameInv'
    <2>1. ASSUME NEW u \in Notification!Threads, op'[u].do = "subscribe" PROVE Adding(u)'
      <3>1. CASE u = t
        BY <1>1, <1>3, <1>4, <1>5, <3>1 DEF Adding, AtChild, AtRoot
      <3>2. CASE u # t
        <4>1. Adding(u) /\ op'[u] = op[u] /\ op[u].sub # s
          BY <1>2, <1>3, <1>4, <2>1, <3>2 DEF FrameInv
        <4> QED BY <1>1, <1>5, <4>1 DEF Adding
      <3> QED BY <3>1, <3>2
    <2>2. ASSUME NEW u \in Notification!Threads, op'[u].do \in Notification!Removes PROVE Removing(u)'
      <3>1. Removing(u) /\ op'[u] = op[u] /\ op[u].sub # s
        BY <1>3, <1>4, <2>2 DEF FrameInv, Notification!Removes, Removing
      <3> QED BY <1>5, <3>1 DEF Removing
    <2> QED BY <1>2, <1>3, <1>4, <1>5, <2>1, <2>2 DEF FrameInv, Notification!Removes
  <1>8. \A x \in Sub : SubInv(x)'
    <2>1. \A u \in Notification!Threads, x \in Sub :
            /\ Adds(u, x)' <=> Adds(u, x)
            /\ RemovesIt(u, x)' <=> RemovesIt(u, x)
            /\ ToRemove(u, x)' <=> ToRemove(u, x)
            /\ RemovesIt(u, x) => op'[u].at = op[u].at
      BY <1>2, <1>3, <1>4 DEF Adds, RemovesIt, ToRemove, Notification!Removes
    <2>2. ASSUME NEW x \in Sub, x # s PROVE SubInv(x)'
      BY <1>1, <1>5, <2>1, <2>2 DEF SubInv
    <2>3. SubInv(s)'
      BY <1>1, <1>3, <1>4, <1>5 DEF SubInv, Adds
    <2> QED BY <2>2, <2>3
  <1>9. DestroyedIsEmpty' /\ QuietInv'
    BY <1>3, <1>4, <1>5 DEF DestroyedIsEmpty, QuietInv, Notification!TypeOK
  <1> QED BY <1>6, <1>7, <1>8, <1>9

LEMMA SubscribeReturnsInv ==
  ASSUME NotificationInv, NEW t \in Notification!Threads, Notification!SubscribeReturns(t)
  PROVE  NotificationInv'
  <1> USE DEF NotificationInv
  <1>1. \A v, x : In(v, x)' <=> In(v, x)
    BY SameLists DEF Notification!SubscribeReturns, Notification!lists
  <1>2. op[t].do = "subscribe" /\ op[t].at = "return" /\ Notification!Set(t, Notification!Idle)
    BY DEF Notification!SubscribeReturns, Notification!Does
  <1>3. PICK s \in Sub : s = op[t].sub /\ alive /\ state[s] = "adding" /\ s \in m_handler
                         /\ s \in hasParent /\ s \in m_isSubscribed /\ In("root", s) /\ In("child", s)
    BY <1>2 DEF FrameInv, Adding, AtChild, AtRoot
  <1>4. /\ op' \in [Notification!Threads -> Frame] /\ op'[t].do = "idle" /\ op'[t].at = ""
        /\ \A u \in Notification!Threads : u # t => op'[u] = op[u]
    BY <1>2, IdleFrame, SetFrame DEF Becomes
  <1>5. /\ state'[s] = "active" /\ \A x \in Sub : x # s => state'[x] = state[x]
        /\ UNCHANGED <<m_subscriptions, m_handler, hasParent, m_isSubscribed, alive, posted, quiet>>
    BY <1>3 DEF Notification!SubscribeReturns, Notification!lists, Notification!TypeOK
  <1>6. Notification!TypeOK' /\ FramesOK'
    BY <1>3, <1>4, <1>5 DEF Notification!TypeOK, FramesOK, Notification!SubscribeReturns
  <1>7. FrameInv'
    <2>1. ASSUME NEW u \in Notification!Threads, op'[u].do = "subscribe" PROVE Adding(u)'
      <3>1. Adding(u) /\ op'[u] = op[u] /\ op[u].sub # s
        BY <1>2, <1>3, <1>4, <2>1 DEF FrameInv
      <3> QED BY <1>1, <1>5, <3>1 DEF Adding
    <2>2. ASSUME NEW u \in Notification!Threads, op'[u].do \in Notification!Removes PROVE Removing(u)'
      <3>1. Removing(u) /\ op'[u] = op[u] /\ op[u].sub # s
        BY <1>3, <1>4, <2>2 DEF FrameInv, Notification!Removes, Removing
      <3> QED BY <1>5, <3>1 DEF Removing
    <2>3. ASSUME NEW u \in Notification!Threads, op'[u].do = "destroy", NEW x \in Sub,
                   Notification!Contains(op'[u].left, x)
          PROVE  state'[x] \in {"removing", "removed"}
      BY <1>3, <1>4, <1>5, <2>3 DEF FrameInv
    <2>4. ASSUME NEW u \in Notification!Threads, NEW w \in Notification!Threads, op'[u].do # "idle",
                   op'[w].do # "idle"
          PROVE  /\ op'[u].do = "subscribe" /\ op'[w].do = "subscribe" /\ op'[u].sub = op'[w].sub => u = w
                 /\ op'[u].do = "destroy" /\ op'[w].do = "destroy" => u = w
      <3>1. op'[u] = op[u] /\ op'[w] = op[w]
        BY <1>4, <2>4
      <3> QED BY <3>1 DEF FrameInv
    <2> QED BY <2>1, <2>2, <2>3, <2>4 DEF FrameInv
  <1>8. \A x \in Sub : SubInv(x)'
    <2>1. \A u \in Notification!Threads, x \in Sub :
            /\ x # s => (Adds(u, x)' <=> Adds(u, x))
            /\ RemovesIt(u, x)' <=> RemovesIt(u, x)
            /\ ToRemove(u, x)' <=> ToRemove(u, x)
            /\ RemovesIt(u, x) => op'[u].at = op[u].at
      BY <1>2, <1>3, <1>4 DEF Adds, RemovesIt, ToRemove, Notification!Removes
    <2>2. ASSUME NEW x \in Sub, x # s PROVE SubInv(x)'
      BY <1>1, <1>5, <2>1, <2>2 DEF SubInv
    <2>3. SubInv(s)'
      BY <1>1, <1>3, <1>4, <1>5 DEF SubInv
    <2> QED BY <2>2, <2>3
  <1>9. DestroyedIsEmpty' /\ QuietInv'
    BY <1>3, <1>4, <1>5 DEF DestroyedIsEmpty, QuietInv, Notification!TypeOK
  <1> QED BY <1>6, <1>7, <1>8, <1>9

LEMMA UnsubscribeInv ==
  ASSUME NotificationInv, NEW t \in Notification!Threads, NEW s \in Sub, Notification!Unsubscribe(t, s)
  PROVE  NotificationInv'
  <1> USE DEF NotificationInv
  <1>1. \A v, x : In(v, x)' <=> In(v, x)
    BY SameLists DEF Notification!Unsubscribe, Notification!lists
  <1>2. "unsubscribe" \in Do /\ "view" \in Step
    BY DEF Do, Step, Notification!Removes
  <1>3. op[t].do = "idle" /\ Becomes(t, "unsubscribe", s, "view", <<>>)
    BY <1>2, BeginFrame DEF Notification!Unsubscribe
  <1>4. /\ op' \in [Notification!Threads -> Frame] /\ op'[t].do = "unsubscribe" /\ op'[t].sub = s
           /\ op'[t].at = "view"
        /\ \A u \in Notification!Threads : u # t => op'[u] = op[u]
    BY <1>3 DEF Becomes
  <1>5. /\ state[s] \in {"active", "removing"} /\ state'[s] = "removing"
        /\ \A x \in Sub : x # s => state'[x] = state[x]
        /\ UNCHANGED <<m_subscriptions, m_handler, hasParent, m_isSubscribed, alive, posted, quiet>>
    BY DEF Notification!Unsubscribe, Notification!lists, Notification!TypeOK
  <1>6. Notification!TypeOK' /\ FramesOK'
    BY <1>4, <1>5 DEF Notification!Unsubscribe, Notification!TypeOK, FramesOK
  <1>7. FrameInv'
    <2>1. ASSUME NEW u \in Notification!Threads, op'[u].do = "subscribe" PROVE Adding(u)'
      <3>1. Adding(u) /\ op'[u] = op[u]
        BY <1>4, <2>1 DEF FrameInv
      <3>2. op[u].sub # s
        BY <1>5, <3>1 DEF Adding
      <3> QED BY <1>1, <1>5, <3>1, <3>2 DEF Adding
    <2>2. ASSUME NEW u \in Notification!Threads, op'[u].do \in Notification!Removes PROVE Removing(u)'
      <3>1. CASE u = t
        BY <1>4, <1>5, <3>1 DEF Removing, AtChild
      <3>2. CASE u # t
        <4>1. Removing(u) /\ op'[u] = op[u]
          BY <1>4, <2>2, <3>2 DEF FrameInv
        <4> QED BY <1>5, <4>1 DEF Removing
      <3> QED BY <3>1, <3>2
    <2>3. ASSUME NEW u \in Notification!Threads, op'[u].do = "destroy", NEW x \in Sub,
                   Notification!Contains(op'[u].left, x)
          PROVE  state'[x] \in {"removing", "removed"}
      BY <1>4, <1>5, <2>3 DEF FrameInv
    <2>4. ASSUME NEW u \in Notification!Threads, NEW w \in Notification!Threads, op'[u].do # "unsubscribe",
                   op'[w].do # "unsubscribe"
          PROVE  /\ op'[u].do = "subscribe" /\ op'[w].do = "subscribe" /\ op'[u].sub = op'[w].sub => u = w
                 /\ op'[u].do = "destroy" /\ op'[w].do = "destroy" => u = w
      <3>1. op'[u] = op[u] /\ op'[w] = op[w]
        BY <1>4, <2>4
      <3> QED BY <3>1 DEF FrameInv
    <2> QED BY <2>1, <2>2, <2>3, <2>4 DEF FrameInv
  <1>8. \A x \in Sub : SubInv(x)'
    <2>1. \A u \in Notification!Threads, x \in Sub :
            /\ Adds(u, x)' <=> Adds(u, x)
            /\ x # s => (RemovesIt(u, x)' <=> RemovesIt(u, x))
            /\ ToRemove(u, x)' <=> ToRemove(u, x)
            /\ RemovesIt(u, x) => op'[u].at = op[u].at
      BY <1>3, <1>4 DEF Adds, RemovesIt, ToRemove, Notification!Removes
    <2>2. ASSUME NEW x \in Sub, x # s PROVE SubInv(x)'
      BY <1>1, <1>5, <2>1, <2>2 DEF SubInv
    <2>3. RemovesIt(t, s)' /\ op'[t].at = "view"
      BY <1>4 DEF RemovesIt, Notification!Removes
    <2>4. ASSUME NEW u \in Notification!Threads, RemovesIt(u, s) PROVE RemovesIt(u, s)' /\ op'[u].at = op[u].at
      BY <1>3, <1>4, <2>4 DEF RemovesIt, Notification!Removes
    <2>5. SubInv(s)'
      BY <1>1, <1>5, <2>3, <2>4 DEF SubInv
    <2> QED BY <2>2, <2>5
  <1>9. DestroyedIsEmpty' /\ QuietInv'
    BY <1>4, <1>5 DEF DestroyedIsEmpty, QuietInv, Notification!TypeOK
  <1> QED BY <1>6, <1>7, <1>8, <1>9

LEMMA LeaveViewInv ==
  ASSUME NotificationInv, NEW t \in Notification!Threads, Notification!LeaveView(t)
  PROVE  NotificationInv'
  <1> USE DEF NotificationInv
  <1>1. \A v, x : In(v, x)' <=> In(v, x)
    BY SameLists DEF Notification!LeaveView
  <1>2. op[t].do \in Notification!Removes /\ op[t].at = "view" /\ Removing(t)
    BY DEF Notification!LeaveView, FrameInv
  <1>3. PICK s \in Sub : s = op[t].sub /\ state[s] \in {"removing", "removed"} /\ s \in hasParent
    <2>1. op[t].sub \in Sub
      BY <1>2 DEF Removing, Notification!Removes, FramesOK, Frame
    <2> QED BY <1>2, <2>1 DEF Removing, SubInv
  <1>4. PICK a : a = IF s \in m_isSubscribed THEN "root" ELSE "handler"
    OBVIOUS
  <1>5. a \in Step /\ Notification!To(t, a)
    BY <1>3, <1>4 DEF Notification!LeaveView, Step, AtRoot
  <1>6. /\ op' \in [Notification!Threads -> Frame] /\ op'[t].do = op[t].do /\ op'[t].sub = s /\ op'[t].at = a
        /\ op'[t].left = op[t].left
        /\ \A u \in Notification!Threads : u # t => op'[u] = op[u]
    BY <1>3, <1>5, ToFrame DEF Becomes
  <1>7. /\ m_isSubscribed' = m_isSubscribed \ {s}
        /\ UNCHANGED <<m_subscriptions, m_handler, hasParent, alive, posted, state, quiet>>
    BY <1>3 DEF Notification!LeaveView, Notification!history
  <1>8. Notification!TypeOK' /\ FramesOK'
    BY <1>6, <1>7 DEF Notification!TypeOK, FramesOK
  <1>9. FrameInv'
    <2>1. ASSUME NEW u \in Notification!Threads, op'[u].do = "subscribe" PROVE Adding(u)'
      <3>1. Adding(u) /\ op'[u] = op[u]
        BY <1>2, <1>6, <2>1 DEF FrameInv, Notification!Removes
      <3>2. op[u].sub # s
        BY <1>3, <3>1 DEF Adding
      <3> QED BY <1>1, <1>7, <3>1, <3>2 DEF Adding
    <2>2. ASSUME NEW u \in Notification!Threads, op'[u].do \in Notification!Removes PROVE Removing(u)'
      <3>1. CASE u = t
        BY <1>2, <1>3, <1>4, <1>6, <1>7, <3>1, SubAssumption DEF Removing, AtRoot, AtChild
      <3>2. CASE u # t
        <4>1. Removing(u) /\ op'[u] = op[u]
          BY <1>6, <2>2, <3>2 DEF FrameInv
        <4> QED BY <1>7, <4>1 DEF Removing
      <3> QED BY <3>1, <3>2
    <2>3. \A u \in Notification!Threads : op'[u].do = op[u].do /\ op'[u].sub = op[u].sub /\ op'[u].left = op[u].left
      BY <1>3, <1>6
    <2> QED BY <1>7, <2>1, <2>2, <2>3 DEF FrameInv
  <1>10. \A x \in Sub : SubInv(x)'
    <2>1. \A u \in Notification!Threads, x \in Sub :
            /\ Adds(u, x)' <=> Adds(u, x)
            /\ RemovesIt(u, x)' <=> RemovesIt(u, x)
            /\ ToRemove(u, x)' <=> ToRemove(u, x)
            /\ RemovesIt(u, x) /\ x # s => op'[u].at = op[u].at
      BY <1>3, <1>6 DEF Adds, RemovesIt, ToRemove
    <2>2. ASSUME NEW x \in Sub, x # s PROVE SubInv(x)'
      BY <1>1, <1>7, <2>1, <2>2 DEF SubInv
    <2>3. RemovesIt(t, s)' /\ op'[t].at \in AtRoot \cup {"handler"} /\ (s \in m_isSubscribed
            => op'[t].at \in AtRoot)
      BY <1>2, <1>4, <1>6 DEF RemovesIt, AtRoot
    <2>4. ASSUME NEW u \in Notification!Threads, RemovesIt(u, s), op[u].at # "view"
          PROVE  RemovesIt(u, s)' /\ op'[u].at = op[u].at
      BY <1>2, <1>6, <2>4 DEF RemovesIt
    <2>5. \A u \in Notification!Threads : RemovesIt(u, s) /\ op[u].at \in AtRoot \cup AtChild => op[u].at # "view"
      BY DEF AtRoot, AtChild
    <2>6. SubInv(s)'
      BY <1>1, <1>3, <1>7, <2>3, <2>4, <2>5 DEF SubInv
    <2> QED BY <2>2, <2>6
  <1>11. DestroyedIsEmpty' /\ QuietInv'
    BY <1>4, <1>6, <1>7 DEF DestroyedIsEmpty, QuietInv, Notification!TypeOK
  <1> QED BY <1>8, <1>9, <1>10, <1>11

LEMMA DropHandlerInv ==
  ASSUME NotificationInv, NEW t \in Notification!Threads, Notification!DropHandler(t)
  PROVE  NotificationInv'
  <1> USE DEF NotificationInv
  <1>1. \A v, x : In(v, x)' <=> In(v, x)
    BY SameLists DEF Notification!DropHandler
  <1>2. op[t].do \in Notification!Removes /\ op[t].at = "handler" /\ Removing(t)
    BY DEF Notification!DropHandler, FrameInv
  <1>3. PICK s \in Sub : s = op[t].sub /\ state[s] \in {"removing", "removed"} /\ s \notin m_isSubscribed
    <2>1. op[t].sub \in Sub
      BY <1>2 DEF Removing, Notification!Removes, FramesOK, Frame
    <2> QED BY <1>2, <2>1 DEF Removing
  <1>4. PICK a : a = IF s \in m_handler /\ alive THEN "child" ELSE "return"
    OBVIOUS
  <1>5. a \in Step /\ Notification!To(t, a)
    BY <1>3, <1>4 DEF Notification!DropHandler, Step, AtChild
  <1>6. /\ op' \in [Notification!Threads -> Frame] /\ op'[t].do = op[t].do /\ op'[t].sub = s /\ op'[t].at = a
        /\ op'[t].left = op[t].left
        /\ \A u \in Notification!Threads : u # t => op'[u] = op[u]
    BY <1>3, <1>5, ToFrame DEF Becomes
  <1>7. /\ m_handler' = m_handler \ {s}
        /\ UNCHANGED <<m_subscriptions, hasParent, m_isSubscribed, alive, posted, state, quiet>>
    BY <1>3 DEF Notification!DropHandler, Notification!history
  <1>8. Notification!TypeOK' /\ FramesOK'
    BY <1>6, <1>7 DEF Notification!TypeOK, FramesOK
  <1>9. FrameInv'
    <2>1. ASSUME NEW u \in Notification!Threads, op'[u].do = "subscribe" PROVE Adding(u)'
      <3>1. Adding(u) /\ op'[u] = op[u]
        BY <1>2, <1>6, <2>1 DEF FrameInv, Notification!Removes
      <3>2. op[u].sub # s
        BY <1>3, <3>1 DEF Adding
      <3> QED BY <1>1, <1>7, <3>1, <3>2 DEF Adding
    <2>2. ASSUME NEW u \in Notification!Threads, op'[u].do \in Notification!Removes PROVE Removing(u)'
      <3>1. CASE u = t
        BY <1>2, <1>3, <1>4, <1>6, <1>7, <3>1, SubAssumption DEF Removing, AtRoot, AtChild
      <3>2. CASE u # t
        <4>1. Removing(u) /\ op'[u] = op[u]
          BY <1>6, <2>2, <3>2 DEF FrameInv
        <4> QED BY <1>7, <4>1 DEF Removing
      <3> QED BY <3>1, <3>2
    <2>3. \A u \in Notification!Threads : op'[u].do = op[u].do /\ op'[u].sub = op[u].sub /\ op'[u].left = op[u].left
      BY <1>3, <1>6
    <2> QED BY <1>7, <2>1, <2>2, <2>3 DEF FrameInv
  <1>10. \A x \in Sub : SubInv(x)'
    <2>1. \A u \in Notification!Threads, x \in Sub :
            /\ Adds(u, x)' <=> Adds(u, x)
            /\ RemovesIt(u, x)' <=> RemovesIt(u, x)
            /\ ToRemove(u, x)' <=> ToRemove(u, x)
            /\ RemovesIt(u, x) /\ x # s => op'[u].at = op[u].at
      BY <1>3, <1>6 DEF Adds, RemovesIt, ToRemove
    <2>2. ASSUME NEW x \in Sub, x # s PROVE SubInv(x)'
      BY <1>1, <1>7, <2>1, <2>2 DEF SubInv
    <2>3. RemovesIt(t, s)' /\ (s \in m_handler /\ alive => op'[t].at \in AtChild)
      BY <1>2, <1>4, <1>6 DEF RemovesIt, AtChild
    <2>4. ASSUME NEW u \in Notification!Threads, RemovesIt(u, s), op[u].at # "handler"
          PROVE  RemovesIt(u, s)' /\ op'[u].at = op[u].at
      BY <1>2, <1>6, <2>4 DEF RemovesIt
    <2>5. \A u \in Notification!Threads : RemovesIt(u, s) /\ op[u].at \in AtRoot \cup AtChild
            => op[u].at # "handler"
      BY DEF AtRoot, AtChild
    <2>6. ~alive => ~In("child", s)
      BY ContainsEmpty DEF DestroyedIsEmpty, In
    <2>7. SubInv(s)'
      BY <1>1, <1>3, <1>7, <2>3, <2>4, <2>5, <2>6 DEF SubInv
    <2> QED BY <2>2, <2>7
  <1>11. DestroyedIsEmpty' /\ QuietInv'
    BY <1>4, <1>6, <1>7 DEF DestroyedIsEmpty, QuietInv, Notification!TypeOK
  <1> QED BY <1>8, <1>9, <1>10, <1>11

(* Unsubscribe or the destructor removes from list v and goes on.           *)
LEMMA RemoveFrom ==
  ASSUME NotificationInv, NEW t \in Notification!Threads, op[t].do \in Notification!Removes,
         NEW v \in Notification!Service, NEW next,
         \/ v = "child" /\ op[t].at \in AtChild /\ next = "return"
         \/ v = "root" /\ op[t].at \in AtRoot /\ next = "handler",
         Notification!To(t, next),
         m_subscriptions' = [m_subscriptions EXCEPT ![v] = Notification!RemoveFirst(m_subscriptions[v], op[t].sub)],
         UNCHANGED <<m_handler, hasParent, m_isSubscribed, alive, posted, sends, Notification!history>>
  PROVE  NotificationInv'
  <1> USE DEF NotificationInv
  <1>1. PICK s \in Sub : s = op[t].sub /\ state[s] \in {"removing", "removed"} /\ s \notin m_isSubscribed
                         /\ (v = "child" => s \notin m_handler)
    <2>1. Removing(t)
      BY DEF FrameInv
    <2>2. op[t].at \notin {"return", "view"}
      BY DEF AtChild, AtRoot
    <2>3. op[t].sub \in Sub
      BY <2>1, <2>2 DEF Removing, Notification!Removes, FramesOK, Frame
    <2> QED BY <2>1, <2>2, <2>3 DEF Removing, AtChild, AtRoot
  <1>2. m_subscriptions[v] \in Seq(Sub) /\ Notification!IsInjective(m_subscriptions[v])
    BY DEF Notification!TypeOK
  <1>3. PICK l : l = Notification!RemoveFirst(m_subscriptions[v], s)
    OBVIOUS
  <1>4. /\ l \in Seq(Sub) /\ Notification!IsInjective(l)
        /\ \A x : Notification!Contains(l, x) <=> Notification!Contains(m_subscriptions[v], x) /\ x # s
    BY <1>2, <1>3, ContainsRemoved
  <1>5. /\ m_subscriptions' \in [Notification!Service -> Seq(Sub)] /\ m_subscriptions'[v] = l
        /\ \A w \in Notification!Service : w # v => m_subscriptions'[w] = m_subscriptions[w]
    BY <1>1, <1>3, <1>4 DEF FramesOK
  <1>6. \A w \in Notification!Service : \A x : In(w, x)' <=> In(w, x) /\ (w # v \/ x # s)
    BY <1>4, <1>5 DEF In
  <1>7. next \in Step
    BY DEF Step
  <1>8. /\ op' \in [Notification!Threads -> Frame] /\ op'[t].do = op[t].do /\ op'[t].sub = s /\ op'[t].at = next
        /\ op'[t].left = op[t].left
        /\ \A u \in Notification!Threads : u # t => op'[u] = op[u]
    BY <1>1, <1>7, ToFrame DEF Becomes
  <1>9. UNCHANGED <<m_handler, hasParent, m_isSubscribed, alive, posted, state, quiet>>
    BY DEF Notification!history
  <1>10. Notification!TypeOK' /\ FramesOK'
    BY <1>4, <1>5, <1>8, <1>9 DEF Notification!TypeOK, FramesOK
  <1>11. FrameInv'
    <2>1. ASSUME NEW u \in Notification!Threads, op'[u].do = "subscribe" PROVE Adding(u)'
      <3>1. Adding(u) /\ op'[u] = op[u]
        BY <1>8, <2>1 DEF FrameInv, Notification!Removes
      <3>2. op[u].sub # s
        BY <1>1, <3>1 DEF Adding
      <3> QED BY <1>6, <1>9, <3>1, <3>2 DEF Adding, Notification!Service
    <2>2. ASSUME NEW u \in Notification!Threads, op'[u].do \in Notification!Removes PROVE Removing(u)'
      <3>1. CASE u = t
        <4>1. Removing(t)
          BY DEF FrameInv
        <4>2. next \in {"return", "handler"} /\ (next = "return" => s \notin m_handler) /\ s # Notification!None
          BY <1>1, SubAssumption
        <4>3. /\ op'[u].sub = s /\ op'[u].at = next /\ op'[u].do = op[t].do
              /\ op[t].do = "unsubscribe" => state'[s] = "removing"
              /\ op[t].do = "destroy" => ~alive'
          BY <1>1, <1>8, <1>9, <3>1, <4>1 DEF Removing
        <4>4. s \in Sub /\ state'[s] \in {"removing", "removed"} /\ s \notin m_isSubscribed'
              /\ (next = "return" => s \notin m_handler') /\ next \notin AtChild
          BY <1>1, <1>9, <4>2 DEF AtChild
        <4> HIDE DEF NotificationInv
        <4> QED BY <4>2, <4>3, <4>4 DEF Removing
      <3>2. CASE u # t
        <4>1. Removing(u) /\ op'[u] = op[u]
          BY <1>8, <2>2, <3>2 DEF FrameInv
        <4> QED BY <1>9, <4>1 DEF Removing
      <3> QED BY <3>1, <3>2
    <2>3. \A u \in Notification!Threads : op'[u].do = op[u].do /\ op'[u].sub = op[u].sub /\ op'[u].left = op[u].left
      BY <1>1, <1>8
    <2> QED BY <1>9, <2>1, <2>2, <2>3 DEF FrameInv
  <1>12. \A x \in Sub : SubInv(x)'
    <2>0. /\ \A x : In("child", x)' <=> In("child", x) /\ (v # "child" \/ x # s)
          /\ \A x : In("root", x)' <=> In("root", x) /\ (v # "root" \/ x # s)
      BY <1>6 DEF Notification!Service
    <2>1. \A u \in Notification!Threads, x \in Sub :
            /\ Adds(u, x)' <=> Adds(u, x)
            /\ RemovesIt(u, x)' <=> RemovesIt(u, x)
            /\ ToRemove(u, x)' <=> ToRemove(u, x)
            /\ RemovesIt(u, x) /\ x # s => op'[u].at = op[u].at
      BY <1>1, <1>8 DEF Adds, RemovesIt, ToRemove
    <2>2. ASSUME NEW x \in Sub, x # s PROVE SubInv(x)'
      BY <1>9, <2>0, <2>1, <2>2 DEF SubInv
    <2>3. RemovesIt(t, s)' /\ (v = "root" => op'[t].at = "handler")
      BY <1>8 DEF RemovesIt
    <2>4. ASSUME NEW u \in Notification!Threads, RemovesIt(u, s), u # t
          PROVE  RemovesIt(u, s)' /\ op'[u].at = op[u].at
      BY <1>8, <2>4 DEF RemovesIt
    <2>5. /\ v = "child" => op[t].at \in AtChild /\ op[t].at \notin AtRoot \cup {"view", "handler"}
          /\ v = "root" => op[t].at \in AtRoot /\ op[t].at \notin AtChild \cup {"view"}
          /\ v = "child" \/ v = "root"
      BY DEF AtRoot, AtChild
    <2>6. SubInv(s)'
      <3>1. CASE v = "child"
        BY <1>1, <1>9, <2>0, <2>1, <2>3, <2>4, <2>5, <3>1 DEF SubInv
      <3>2. CASE v = "root"
        BY <1>1, <1>9, <2>0, <2>1, <2>3, <2>4, <2>5, <3>2 DEF SubInv
      <3> QED BY <2>5, <3>1, <3>2
    <2> QED BY <2>2, <2>6
  <1>13. DestroyedIsEmpty'
    <2>1. Notification!RemoveFirst(<<>>, s) = <<>>
      BY DEF Notification!RemoveFirst
    <2> QED BY <1>3, <1>5, <1>9, <2>1 DEF DestroyedIsEmpty, Notification!Service
  <1>14. QuietInv'
    BY <1>8, <1>9 DEF QuietInv
  <1> QED BY <1>10, <1>11, <1>12, <1>13, <1>14

LEMMA RemoveSubscriptionInv ==
  ASSUME NotificationInv, NEW t \in Notification!Threads, Notification!RemoveSubscription(t)
  PROVE  NotificationInv'
  <1>1. PICK remove : remove = Notification!RemoveFirst(op[t].snap, op[t].sub)
    OBVIOUS
  <1>2. PICK what \in Notification!Removes : \/ Notification!Modify(t, what, "root", remove, "handler")
                                \/ Notification!Modify(t, what, "child", remove, "return")
    BY <1>1 DEF Notification!RemoveSubscription
  <1>3. what \in Do /\ "handler" \in Step /\ "return" \in Step /\ "child" \in Notification!Service
          /\ "root" \in Notification!Service
    BY DEF Do, Step, Notification!Service
  <1>4. CASE Notification!Modify(t, what, "root", remove, "handler")
    <2>1. /\ op[t].do = what /\ op[t].at \in AtRoot
          /\ \/ NotificationInv'
             \/ /\ op[t].snap = m_subscriptions["root"] /\ Notification!To(t, "handler")
                /\ m_subscriptions' = [m_subscriptions EXCEPT !["root"] = remove]
                /\ UNCHANGED <<m_handler, hasParent, m_isSubscribed, alive, posted, sends, Notification!history>>
      BY <1>3, <1>4, ModifySteps
    <2>2. CASE op[t].snap = m_subscriptions["root"] /\ Notification!To(t, "handler")
               /\ m_subscriptions' = [m_subscriptions EXCEPT !["root"] = remove]
               /\ UNCHANGED <<m_handler, hasParent, m_isSubscribed, alive, posted, sends, Notification!history>>
      BY <1>1, <1>3, <2>1, <2>2, RemoveFrom
    <2> QED BY <2>1, <2>2
  <1>5. CASE Notification!Modify(t, what, "child", remove, "return")
    <2>1. /\ op[t].do = what /\ op[t].at \in AtChild
          /\ \/ NotificationInv'
             \/ /\ op[t].snap = m_subscriptions["child"] /\ Notification!To(t, "return")
                /\ m_subscriptions' = [m_subscriptions EXCEPT !["child"] = remove]
                /\ UNCHANGED <<m_handler, hasParent, m_isSubscribed, alive, posted, sends, Notification!history>>
      BY <1>3, <1>5, ModifySteps
    <2>2. CASE op[t].snap = m_subscriptions["child"] /\ Notification!To(t, "return")
               /\ m_subscriptions' = [m_subscriptions EXCEPT !["child"] = remove]
               /\ UNCHANGED <<m_handler, hasParent, m_isSubscribed, alive, posted, sends, Notification!history>>
      BY <1>1, <1>3, <2>1, <2>2, RemoveFrom
    <2> QED BY <2>1, <2>2
  <1> QED BY <1>2, <1>4, <1>5

LEMMA UnsubscribeReturnsInv ==
  ASSUME NotificationInv, NEW t \in Notification!Threads, Notification!UnsubscribeReturns(t)
  PROVE  NotificationInv'
  <1> USE DEF NotificationInv
  <1>1. \A v, x : In(v, x)' <=> In(v, x)
    BY SameLists DEF Notification!UnsubscribeReturns, Notification!lists
  <1>2. op[t].do = "unsubscribe" /\ op[t].at = "return" /\ Notification!Set(t, Notification!Idle) /\ Removing(t)
    BY DEF Notification!UnsubscribeReturns, Notification!Does, FrameInv, Notification!Removes
  <1>3. PICK s \in Sub : s = op[t].sub /\ state[s] = "removing" /\ s \notin m_isSubscribed /\ s \notin m_handler
    BY <1>2 DEF Removing
  <1>4. /\ op' \in [Notification!Threads -> Frame] /\ op'[t].do = "idle" /\ op'[t].at = ""
        /\ \A u \in Notification!Threads : u # t => op'[u] = op[u]
    BY <1>2, IdleFrame, SetFrame DEF Becomes
  <1>5. /\ state'[s] \in {"removing", "removed"}
        /\ state'[s] = "removed" => \A u \in Notification!Threads : u # t => ~RemovesIt(u, s)
        /\ state'[s] = "removing" \/ \A u \in Notification!Threads : u # t => ~RemovesIt(u, s)
        /\ \A x \in Sub : x # s => state'[x] = state[x]
        /\ UNCHANGED <<m_subscriptions, m_handler, hasParent, m_isSubscribed, alive, posted>>
        /\ quiet' \subseteq quiet \cup {s} /\ (t # dispatcher => quiet' = quiet)
    BY <1>3 DEF Notification!UnsubscribeReturns, Notification!lists, Notification!TypeOK, RemovesIt
  <1>6. Notification!TypeOK' /\ FramesOK'
    <2>1. state' \in [Sub -> {"new", "adding", "active", "removing", "removed"}]
      BY <1>3 DEF Notification!UnsubscribeReturns, Notification!TypeOK
    <2> QED BY <1>3, <1>4, <1>5, <2>1 DEF Notification!TypeOK, FramesOK
  <1>7. FrameInv'
    <2>1. ASSUME NEW u \in Notification!Threads, op'[u].do = "subscribe" PROVE Adding(u)'
      <3>1. Adding(u) /\ op'[u] = op[u]
        BY <1>4, <2>1 DEF FrameInv
      <3>2. op[u].sub # s
        BY <1>3, <3>1 DEF Adding
      <3> QED BY <1>1, <1>5, <3>1, <3>2 DEF Adding
    <2>2. ASSUME NEW u \in Notification!Threads, op'[u].do \in Notification!Removes PROVE Removing(u)'
      <3>1. u # t /\ Removing(u) /\ op'[u] = op[u]
        BY <1>4, <2>2 DEF FrameInv, Notification!Removes
      <3>2. op[u].sub = s => state'[s] = "removing"
        BY <1>5, <2>2, <3>1 DEF RemovesIt
      <3> QED BY <1>3, <1>5, <3>1, <3>2 DEF Removing
    <2>3. ASSUME NEW u \in Notification!Threads, op'[u].do = "destroy", NEW x \in Sub,
                   Notification!Contains(op'[u].left, x)
          PROVE  state'[x] \in {"removing", "removed"}
      BY <1>4, <1>5, <2>3 DEF FrameInv
    <2>4. ASSUME NEW u \in Notification!Threads, NEW w \in Notification!Threads, op'[u].do # "idle",
                   op'[w].do # "idle"
          PROVE  /\ op'[u].do = "subscribe" /\ op'[w].do = "subscribe" /\ op'[u].sub = op'[w].sub => u = w
                 /\ op'[u].do = "destroy" /\ op'[w].do = "destroy" => u = w
      <3>1. op'[u] = op[u] /\ op'[w] = op[w]
        BY <1>4, <2>4
      <3> QED BY <3>1 DEF FrameInv
    <2> QED BY <2>1, <2>2, <2>3, <2>4 DEF FrameInv
  <1>8. \A x \in Sub : SubInv(x)'
    <2>1. \A u \in Notification!Threads, x \in Sub :
            /\ Adds(u, x)' <=> Adds(u, x)
            /\ RemovesIt(u, x)' <=> RemovesIt(u, x) /\ u # t
            /\ ToRemove(u, x)' <=> ToRemove(u, x)
            /\ RemovesIt(u, x) /\ u # t => op'[u].at = op[u].at
      BY <1>2, <1>4 DEF Adds, RemovesIt, ToRemove, Notification!Removes
    <2>2. op[t].at \notin AtChild \cup AtRoot \cup {"view", "handler"}
      BY <1>2 DEF AtChild, AtRoot
    <2>3. ASSUME NEW x \in Sub, x # s PROVE SubInv(x)'
      BY <1>1, <1>5, <2>1, <2>2, <2>3 DEF SubInv
    <2>4. SubInv(s)'
      BY <1>1, <1>3, <1>5, <2>1, <2>2 DEF SubInv
    <2> QED BY <2>3, <2>4
  <1>9. DestroyedIsEmpty' /\ QuietInv'
    BY <1>3, <1>4, <1>5 DEF DestroyedIsEmpty, QuietInv, Notification!TypeOK
  <1> QED BY <1>6, <1>7, <1>8, <1>9

LEMMA UnsubscribeAllInv ==
  ASSUME NotificationInv, NEW t \in Notification!Threads, Notification!UnsubscribeAll(t)
  PROVE  NotificationInv'
  <1> USE DEF NotificationInv
  <1>1. op[t].do = "idle" /\ alive
    BY IdleFrame DEF Notification!UnsubscribeAll
  <1>2. PICK l \in Seq(Sub) : l = m_subscriptions["child"]
    BY DEF Notification!TypeOK, Notification!Service
  <1>3. PICK f \in Frame : f = Notification!Idle /\ f.sub = Notification!None
    BY IdleFrame
  <1>4. PICK g : g = [f EXCEPT !.do = "destroy", !.at = "return", !.left = l]
    OBVIOUS
  <1>5. g \in Frame /\ g.do = "destroy" /\ g.at = "return" /\ g.sub = Notification!None /\ g.left = l
    BY <1>3, <1>4 DEF Frame, Do, Step, Notification!Removes
  <1>6. Notification!Set(t, g)
    BY <1>2, <1>3, <1>4 DEF Notification!UnsubscribeAll
  <1>7. /\ op' \in [Notification!Threads -> Frame] /\ op'[t].do = "destroy"
           /\ op'[t].sub = Notification!None /\ op'[t].at = "return"
        /\ op'[t].left = l /\ \A u \in Notification!Threads : u # t => op'[u] = op[u]
    BY <1>5, <1>6, SetFrame DEF Becomes
  <1>8. /\ alive' = FALSE /\ UNCHANGED <<m_handler, hasParent, m_isSubscribed, posted, quiet>>
        /\ \A x \in Sub : state'[x] = IF state[x] = "active" THEN "removing" ELSE state[x]
        /\ \A u \in Notification!Threads : op[u].do # "subscribe" /\ op[u].at \notin AtChild
    BY DEF Notification!UnsubscribeAll, AtChild
  <1>9. /\ m_subscriptions' \in [Notification!Service -> Seq(Sub)] /\ m_subscriptions'["child"] = <<>>
        /\ m_subscriptions'["root"] = m_subscriptions["root"]
    BY EmptyList DEF Notification!UnsubscribeAll, FramesOK, Notification!Service
  <1>10. (\A x : ~In("child", x)') /\ (\A x : In("root", x)' <=> In("root", x))
         /\ (\A x : In("child", x) <=> Notification!Contains(l, x))
    BY <1>2, <1>9, ContainsEmpty DEF In
  <1>11. Notification!TypeOK' /\ FramesOK'
    <2>1. state' \in [Sub -> {"new", "adding", "active", "removing", "removed"}]
      BY DEF Notification!UnsubscribeAll, Notification!TypeOK
    <2>2. Notification!IsInjective(m_subscriptions'["child"]) /\ Notification!IsInjective(m_subscriptions'["root"])
      BY <1>9 DEF Notification!IsInjective, Notification!TypeOK, Notification!Service
    <2> QED BY <1>7, <1>8, <1>9, <2>1, <2>2 DEF Notification!TypeOK, FramesOK, Notification!Service
  <1>12. \A u \in Notification!Threads : op[u].do # "destroy"
    BY <1>1 DEF FrameInv, Removing, Notification!Removes
  <1>13. FrameInv'
    <2>1. \A u \in Notification!Threads : op'[u].do # "subscribe" /\ (op'[u].do = "destroy" => u = t)
      BY <1>7, <1>8, <1>12
    <2>2. ASSUME NEW u \in Notification!Threads, op'[u].do \in Notification!Removes PROVE Removing(u)'
      <3>1. CASE u = t
        <4>1. Notification!None \notin m_isSubscribed' /\ Notification!None \notin m_handler'
          BY <1>11, SubAssumption DEF Notification!TypeOK
        <4> QED BY <1>7, <1>8, <3>1, <4>1, SubAssumption DEF Removing
      <3>2. CASE u # t
        <4>1. Removing(u) /\ op'[u] = op[u] /\ op[u].do = "unsubscribe"
          BY <1>7, <1>12, <2>2, <3>2 DEF FrameInv, Notification!Removes
        <4> QED BY <1>8, <4>1 DEF Removing
      <3> QED BY <3>1, <3>2
    <2>3. ASSUME NEW u \in Notification!Threads, op'[u].do = "destroy", NEW x \in Sub,
                   Notification!Contains(op'[u].left, x)
          PROVE  state'[x] \in {"removing", "removed"}
      <3>1. In("child", x)
        BY <1>7, <1>10, <2>1, <2>3
      <3>2. state[x] # "adding"
        BY <1>8 DEF SubInv, Adds
      <3>3. state[x] # "new"
        BY <3>1 DEF SubInv
      <3>4. state[x] \in {"new", "adding", "active", "removing", "removed"}
        BY DEF Notification!TypeOK
      <3> QED BY <1>8, <3>2, <3>3, <3>4
    <2> QED BY <2>1, <2>2, <2>3 DEF FrameInv
  <1>14. \A x \in Sub : SubInv(x)'
    <2> SUFFICES ASSUME NEW x \in Sub PROVE SubInv(x)'
      OBVIOUS
    <2>1. ASSUME NEW u \in Notification!Threads, RemovesIt(u, x)
          PROVE  RemovesIt(u, x)' /\ op'[u].at = op[u].at /\ op[u].at \notin AtChild
      BY <1>1, <1>7, <1>8, <2>1 DEF RemovesIt, Notification!Removes
    <2>2. In("child", x) => ToRemove(t, x)'
      BY <1>7, <1>10 DEF ToRemove
    <2>3. \A u \in Notification!Threads : ~ToRemove(u, x)
      BY <1>12 DEF ToRemove
    <2>4. state[x] # "adding"
      BY <1>8 DEF SubInv, Adds
    <2> QED BY <1>8, <1>10, <2>1, <2>2, <2>3, <2>4 DEF SubInv
  <1>15. DestroyedIsEmpty' /\ QuietInv'
    BY <1>7, <1>8, <1>9 DEF DestroyedIsEmpty, QuietInv, Notification!TypeOK
  <1> QED BY <1>11, <1>13, <1>14, <1>15

LEMMA DestroyNextInv ==
  ASSUME NotificationInv, NEW t \in Notification!Threads, Notification!DestroyNext(t)
  PROVE  NotificationInv'
  <1> USE DEF NotificationInv
  <1>1. \A v, x : In(v, x)' <=> In(v, x)
    BY SameLists DEF Notification!DestroyNext, Notification!lists
  <1>2. op[t].do = "destroy" /\ op[t].at = "return" /\ Removing(t) /\ op[t] \in Frame
    BY DEF Notification!DestroyNext, Notification!Does, FrameInv, Notification!Removes, FramesOK
  <1>3. UNCHANGED <<m_subscriptions, m_handler, hasParent, m_isSubscribed, alive, posted, quiet>> /\ ~alive
    BY <1>2 DEF Notification!DestroyNext, Notification!lists, Removing
  <1>4. \A x : ~In("child", x)
    BY <1>3, ContainsEmpty DEF DestroyedIsEmpty, In
  <1>5. \A u \in Notification!Threads : u # t => op[u].do # "destroy"
    BY <1>2 DEF FrameInv
  <1>6. CASE op[t].left = <<>>
    <2>1. Notification!Set(t, Notification!Idle)
      BY <1>6 DEF Notification!DestroyNext
    <2>2. /\ op' \in [Notification!Threads -> Frame] /\ op'[t].do = "idle" /\ op'[t].at = ""
          /\ \A u \in Notification!Threads : u # t => op'[u] = op[u]
      BY <2>1, IdleFrame, SetFrame DEF Becomes
    <2>3. \A x \in Sub :
            \/ state'[x] = state[x]
            \/ state'[x] = "removed" /\ state[x] = "removing" /\ \A u \in Notification!Threads : u # t
               => op[u].sub # x
      BY <1>6 DEF Notification!DestroyNext
    <2>4. Notification!TypeOK' /\ FramesOK'
      <3>1. state' \in [Sub -> {"new", "adding", "active", "removing", "removed"}]
        BY <1>6 DEF Notification!DestroyNext, Notification!TypeOK
      <3> QED BY <1>3, <2>2, <3>1 DEF Notification!TypeOK, FramesOK
    <2>5. FrameInv'
      <3>1. ASSUME NEW u \in Notification!Threads, op'[u].do = "subscribe" PROVE Adding(u)'
        <4>1. u # t /\ Adding(u) /\ op'[u] = op[u]
          BY <2>2, <3>1 DEF FrameInv
        <4>2. op[u].sub \in Sub /\ state'[op[u].sub] = state[op[u].sub]
          BY <2>3, <4>1 DEF Adding
        <4> QED BY <1>1, <1>3, <4>1, <4>2 DEF Adding
      <3>2. ASSUME NEW u \in Notification!Threads, op'[u].do \in Notification!Removes PROVE Removing(u)'
        <4>1. u # t /\ Removing(u) /\ op'[u] = op[u]
          BY <2>2, <3>2 DEF FrameInv, Notification!Removes
        <4>2. op[u].sub \in Sub => state'[op[u].sub] = state[op[u].sub]
          BY <2>3, <4>1
        <4> QED BY <1>3, <4>1, <4>2 DEF Removing
      <3>3. \A u \in Notification!Threads : op'[u].do # "destroy"
        BY <1>5, <2>2
      <3>4. ASSUME NEW u \in Notification!Threads, NEW w \in Notification!Threads, op'[u].do = "subscribe",
                     op'[w].do = "subscribe",
                   op'[u].sub = op'[w].sub
            PROVE  u = w
        <4>1. op'[u] = op[u] /\ op'[w] = op[w]
          BY <2>2, <3>4
        <4> QED BY <3>4, <4>1 DEF FrameInv
      <3> QED BY <3>1, <3>2, <3>3, <3>4 DEF FrameInv
    <2>6. \A x \in Sub : SubInv(x)'
      <3> SUFFICES ASSUME NEW x \in Sub PROVE SubInv(x)'
        OBVIOUS
      <3>1. \A u \in Notification!Threads :
              /\ Adds(u, x) => Adds(u, x)'
              /\ RemovesIt(u, x) /\ u # t => RemovesIt(u, x)' /\ op'[u].at = op[u].at
              /\ ~ToRemove(u, x)
        <4>1. ~Notification!Contains(op[t].left, x)
          BY <1>6, ContainsEmpty
        <4> QED BY <1>2, <1>5, <2>2, <4>1 DEF Adds, RemovesIt, ToRemove, Notification!Removes
      <3>2. op[t].at \notin AtRoot \cup AtChild \cup {"view", "handler"}
        BY <1>2 DEF AtRoot, AtChild
      <3>3. CASE state'[x] = state[x]
        BY <1>1, <1>3, <3>1, <3>2, <3>3 DEF SubInv
      <3>4. CASE state'[x] = "removed" /\ state[x] = "removing" /\ \A u \in Notification!Threads : u # t
                   => op[u].sub # x
        <4>1. \A u \in Notification!Threads : RemovesIt(u, x) => u = t
          BY <3>4 DEF RemovesIt
        <4>2. x \notin m_isSubscribed /\ x \notin m_handler /\ ~In("root", x)
          BY <3>1, <3>2, <3>4, <4>1 DEF SubInv
        <4> QED BY <1>1, <1>3, <1>4, <3>4, <4>2 DEF SubInv
      <3> QED BY <2>3, <3>3, <3>4
    <2>7. DestroyedIsEmpty' /\ QuietInv'
      <3>1. DestroyedIsEmpty'
        BY <1>3 DEF DestroyedIsEmpty
      <3>2. \A s \in quiet : s \in Sub /\ state'[s] \in {"removing", "removed"} /\ s \notin m_handler
        BY <2>3 DEF QuietInv, Notification!TypeOK
      <3>3. QuietInv'
        BY <1>3, <2>2, <3>2 DEF QuietInv
      <3> QED BY <3>1, <3>3
    <2> QED BY <2>4, <2>5, <2>6, <2>7
  <1>7. CASE op[t].left # <<>>
    <2>1. PICK s \in Sub, l \in Seq(Sub) :
            s = Head(op[t].left) /\ l = Tail(op[t].left) /\ \A x : Notification!Contains(op[t].left, x)
              <=> x = s \/ Notification!Contains(l, x)
      <3>1. PICK k \in Seq(Sub) : k = op[t].left
        BY <1>2 DEF Frame
      <3>2. /\ Head(k) \in Sub /\ Tail(k) \in Seq(Sub)
            /\ \A x : Notification!Contains(k, x) <=> x = Head(k) \/ Notification!Contains(Tail(k), x)
        BY <1>7, <3>1, ContainsTail
      <3> HIDE DEF NotificationInv
      <3> QED BY <3>1, <3>2
    <2>2. PICK g : g = [op[t] EXCEPT !.sub = s, !.left = l, !.at = "view"]
      OBVIOUS
    <2>3. g \in Frame /\ g.do = "destroy" /\ g.sub = s /\ g.left = l /\ g.at = "view"
      BY <1>2, <2>2 DEF Frame, Step
    <2>4. Notification!Set(t, g) /\ state' = state
      BY <1>7, <2>1, <2>2 DEF Notification!DestroyNext
    <2>5. /\ op' \in [Notification!Threads -> Frame] /\ op'[t].do = "destroy" /\ op'[t].sub = s
             /\ op'[t].at = "view"
          /\ op'[t].left = l /\ \A u \in Notification!Threads : u # t => op'[u] = op[u]
      BY <2>3, <2>4, SetFrame DEF Becomes
    <2>6. Notification!TypeOK' /\ FramesOK'
      BY <1>3, <2>4, <2>5 DEF Notification!TypeOK, FramesOK
    <2>7. state[s] \in {"removing", "removed"}
      BY <1>2, <2>1 DEF FrameInv
    <2>8. FrameInv'
      <3>1. ASSUME NEW u \in Notification!Threads, op'[u].do = "subscribe" PROVE Adding(u)'
        <4>1. Adding(u) /\ op'[u] = op[u]
          BY <2>5, <3>1 DEF FrameInv
        <4> QED BY <1>1, <1>3, <2>4, <4>1 DEF Adding
      <3>2. ASSUME NEW u \in Notification!Threads, op'[u].do \in Notification!Removes PROVE Removing(u)'
        <4>1. CASE u = t
          BY <1>3, <2>4, <2>5, <2>7, <4>1, SubAssumption DEF Removing, AtChild
        <4>2. CASE u # t
          <5>1. Removing(u) /\ op'[u] = op[u]
            BY <2>5, <3>2, <4>2 DEF FrameInv
          <5> QED BY <1>3, <2>4, <5>1 DEF Removing
        <4> QED BY <4>1, <4>2
      <3>3. ASSUME NEW u \in Notification!Threads, op'[u].do = "destroy", NEW x \in Sub,
                     Notification!Contains(op'[u].left, x)
            PROVE  state'[x] \in {"removing", "removed"}
        BY <1>2, <1>5, <2>1, <2>4, <2>5, <3>3 DEF FrameInv
      <3>4. ASSUME NEW u \in Notification!Threads, NEW w \in Notification!Threads, op'[u].do = "subscribe",
                     op'[w].do = "subscribe",
                   op'[u].sub = op'[w].sub
            PROVE  u = w
        <4>1. op'[u] = op[u] /\ op'[w] = op[w]
          BY <2>5, <3>4
        <4> QED BY <3>4, <4>1 DEF FrameInv
      <3>5. \A u, w \in Notification!Threads : op'[u].do = "destroy" /\ op'[w].do = "destroy" => u = w
        BY <1>5, <2>5
      <3> QED BY <3>1, <3>2, <3>3, <3>4, <3>5 DEF FrameInv
    <2>9. \A x \in Sub : SubInv(x)'
      <3> SUFFICES ASSUME NEW x \in Sub PROVE SubInv(x)'
        OBVIOUS
      <3>1. \A u \in Notification!Threads :
              /\ Adds(u, x) => Adds(u, x)'
              /\ RemovesIt(u, x) /\ u # t => RemovesIt(u, x)' /\ op'[u].at = op[u].at
              /\ ToRemove(u, x) => u = t /\ (ToRemove(t, x)' \/ (RemovesIt(t, x)' /\ op'[t].at = "view"))
        BY <1>2, <1>5, <2>1, <2>5 DEF Adds, RemovesIt, ToRemove, Notification!Removes
      <3>2. op[t].at \notin AtRoot \cup AtChild \cup {"view", "handler"}
        BY <1>2 DEF AtRoot, AtChild
      <3> QED BY <1>1, <1>3, <2>4, <3>1, <3>2 DEF SubInv
    <2>10. DestroyedIsEmpty' /\ QuietInv'
      BY <1>3, <2>4, <2>5 DEF DestroyedIsEmpty, QuietInv, Notification!TypeOK
    <2> QED BY <2>6, <2>8, <2>9, <2>10
  <1> QED BY <1>6, <1>7

LEMMA ContinueInv ==
  ASSUME NotificationInv, NEW t \in Notification!Threads, Notification!Continue(t)
  PROVE  NotificationInv'
  BY AddSubscriptionInv, MakeViewInv, SubscribeReturnsInv, LeaveViewInv, DropHandlerInv,
     RemoveSubscriptionInv, UnsubscribeReturnsInv, DestroyNextInv, CallHandlerInv, SendReturnsInv,
     CallInv DEF Notification!Continue

LEMMA NotificationUnchanged ==
  ASSUME NotificationInv, UNCHANGED Notification!vars
  PROVE  NotificationInv'
  <1>1. UNCHANGED <<m_subscriptions, m_handler, hasParent, m_isSubscribed, alive, posted, op, sends, state, quiet>>
    BY DEF Notification!vars, Notification!lists, Notification!history
  <1>2. \A v, x : In(v, x)' <=> In(v, x)
    BY <1>1, SameLists
  <1>3. (Notification!TypeOK /\ FramesOK)' /\ DestroyedIsEmpty' /\ QuietInv'
    BY <1>1 DEF NotificationInv, Notification!TypeOK, FramesOK, DestroyedIsEmpty, QuietInv
  <1>4. FrameInv'
    <2>1. \A u \in Notification!Threads : (Adding(u) => Adding(u)') /\ (Removing(u) => Removing(u)')
      BY <1>1, <1>2 DEF Adding, Removing
    <2> QED BY <1>1, <2>1 DEF NotificationInv, FrameInv
  <1>5. \A x \in Sub : SubInv(x)'
    BY <1>1, <1>2 DEF NotificationInv, SubInv, Adds, RemovesIt, ToRemove
  <1> QED BY <1>3, <1>4, <1>5 DEF NotificationInv

LEMMA NotificationStep == NotificationInv /\ [Notification!Next]_Notification!vars => NotificationInv'
  <1> SUFFICES ASSUME NotificationInv, [Notification!Next]_Notification!vars PROVE NotificationInv'
    OBVIOUS
  <1>1. ASSUME NEW t \in Notification!Threads, NEW s \in Sub, Notification!Subscribe(t, s)
                 \/ Notification!Unsubscribe(t, s)
        PROVE  NotificationInv'
    BY <1>1, SubscribeInv, UnsubscribeInv
  <1>2. ASSUME NEW t \in Notification!Threads, Notification!SendNotification(t)
                 \/ Notification!UnsubscribeAll(t) \/ Notification!Continue(t)
        PROVE  NotificationInv'
    BY <1>2, SendNotificationInv, UnsubscribeAllInv, ContinueInv
  <1>3. CASE Notification!Dispatch
    BY <1>3, DispatchInv
  <1>4. CASE UNCHANGED Notification!vars
    BY <1>4, NotificationUnchanged
  <1> QED BY <1>1, <1>2, <1>3, <1>4 DEF Notification!Next

(* NotificationInv holds in every reachable state of the two services.      *)
THEOREM NotificationInvariant == Notification!Spec => []NotificationInv
  BY InitNotification, NotificationStep, PTL DEF Notification!Spec

(* ListedIffSubscribed, for any number of subscriptions and threads: no     *)
(* update of a list is lost, and nothing of a removed subscription is left. *)
THEOREM ListsAreExact == Notification!Spec => []ListedIffSubscribed
  <1>1. NotificationInv => Notification!ListedIffSubscribed
    BY DEF NotificationInv, SubInv, Notification!ListedIffSubscribed, In, Notification!Service
  <1> QED BY <1>1, NotificationInvariant, PTL DEF ListedIffSubscribed

(* NoCallAfterUnsubscribe: once Unsubscribe has returned in the dispatcher  *)
(* of a subscription, its handler is not called.                            *)
THEOREM QuietAfterUnsubscribe == Notification!Spec => NoCallAfterUnsubscribe
  <1>1. ASSUME NotificationInv PROVE [\A t \in Notification!Threads : Notification!Call(t)
                 /\ op[t].sub \in Posted => op[t].sub \notin quiet]_Notification!vars
    BY <1>1 DEF NotificationInv, QuietInv, Notification!Call
  <1> QED BY <1>1, NotificationInvariant, PTL DEF NoCallAfterUnsubscribe, Notification!NoCallAfterUnsubscribe

-----------------------------------------------------------------------------
(* Timing: the invariant                                                    *)

(* The tasks of the UI thread, and the entries of the heap.                 *)
UITask ==
  [do : {"create"}, id : Timer, target : Nat, period : Periods, repeat : BOOLEAN]
    \cup [do : {"delete"}, id : Timer] \cup {Timers!Frame}
HeapEntry == [id : Timer, target : Nat, period : Periods, repeat : BOOLEAN]

(* A queue of the UI thread and the life of the timers: a timer is created  *)
(* before it is deleted, and what was deleted is not going to be created.   *)
QueueOK(q, lf) ==
  /\ \A i \in DOMAIN q : q[i].do = "create" => lf[q[i].id] \in {"created", "deleting"}
  /\ \A i \in DOMAIN q : q[i].do = "delete" => lf[q[i].id] \in {"deleting", "deleted"}
  /\ \A i, j \in DOMAIN q : q[i].do = "create" /\ q[j].do = "delete" /\ q[i].id = q[j].id => i < j

TimerTypes ==
  /\ now \in Nat /\ ui \in Seq(UITask) /\ m_timerQueue \subseteq HeapEntry
  /\ tick \in [running : BOOLEAN, now : Nat, emitted : BOOLEAN, ready : SUBSET Timer]

(* The inductive invariant of Timing: nothing that waits to be created, is in *)
(* the heap or is about to be called has been deleted.                      *)
SilentInv ==
  /\ TimerTypes
  /\ life \in [Timer -> {"new", "created", "deleting", "deleted"}]
  /\ QueueOK(ui, life)
  /\ ~tick.running => tick.ready = {}
  /\ \A e \in m_timerQueue : life[e.id] \in {"created", "deleting"}
  /\ \A t \in tick.ready : life[t] \in {"created", "deleting"}

-----------------------------------------------------------------------------
(* Timing: the queue of the UI thread                                       *)

LEMMA TaskFields ==
  ASSUME NEW x \in UITask
  PROVE  /\ x.do \in {"create", "delete", "frame"}
         /\ x.do # "frame" => x.id \in Timer
         /\ x.do = "create" => x.target \in Nat /\ x.period \in Periods /\ x.repeat \in BOOLEAN
  BY DEF UITask, Timers!Frame

LEMMA FrameTask == Timers!Frame \in UITask /\ Timers!Frame.do = "frame"
  BY DEF UITask, Timers!Frame

(* What happens to a queue that is in order.                                *)
LEMMA TailOK ==
  ASSUME NEW q \in Seq(UITask), NEW lf, QueueOK(q, lf), q # <<>>
  PROVE  Tail(q) \in Seq(UITask) /\ QueueOK(Tail(q), lf) /\ Head(q) \in UITask
  <1>1. Tail(q) \in Seq(UITask) /\ Head(q) = q[1] /\ 1 \in DOMAIN q /\ Head(q) \in UITask
    OBVIOUS
  <1>2. \A i \in DOMAIN Tail(q) : i \in Int /\ i + 1 \in DOMAIN q /\ Tail(q)[i] = q[i + 1]
    OBVIOUS
  <1>3. DOMAIN q \subseteq Int
    OBVIOUS
  <1>4. ASSUME NEW i \in DOMAIN Tail(q), NEW j \in DOMAIN Tail(q), i + 1 < j + 1 PROVE i < j
    BY <1>2, <1>4
  <1> QED BY <1>1, <1>2, <1>4 DEF QueueOK

LEMMA AppendOK ==
  ASSUME NEW q \in Seq(UITask), NEW lf, QueueOK(q, lf), NEW x \in UITask,
         x.do = "create" => /\ lf[x.id] \in {"created", "deleting"}
                            /\ \A i \in DOMAIN q : q[i].do = "delete" => q[i].id # x.id,
         x.do = "delete" => lf[x.id] \in {"deleting", "deleted"}
  PROVE  Append(q, x) \in Seq(UITask) /\ QueueOK(Append(q, x), lf)
  <1> DEFINE r == Append(q, x)
  <1>1. /\ r \in Seq(UITask) /\ Len(q) \in Nat /\ DOMAIN q = 1..Len(q) /\ DOMAIN r = 1..(Len(q) + 1)
        /\ r[Len(q) + 1] = x /\ \A i \in DOMAIN q : r[i] = q[i]
    OBVIOUS
  <1> HIDE DEF r
  <1>2. ASSUME NEW i \in DOMAIN r PROVE (i \in DOMAIN q /\ r[i] = q[i]) \/ (i = Len(q) + 1 /\ r[i] = x)
    BY <1>1
  <1>3. ASSUME NEW i \in DOMAIN r, r[i].do = "create" PROVE lf[r[i].id] \in {"created", "deleting"}
    BY <1>2, <1>3 DEF QueueOK
  <1>4. ASSUME NEW i \in DOMAIN r, r[i].do = "delete" PROVE lf[r[i].id] \in {"deleting", "deleted"}
    BY <1>2, <1>4 DEF QueueOK
  <1>5. ASSUME NEW i \in DOMAIN r, NEW j \in DOMAIN r, r[i].do = "create", r[j].do = "delete", r[i].id = r[j].id
        PROVE  i < j
    <2>1. CASE i \in DOMAIN q /\ j \in DOMAIN q
      BY <1>1, <1>5, <2>1 DEF QueueOK
    <2>2. CASE i \in DOMAIN q /\ j = Len(q) + 1
      BY <1>1, <2>2
    <2>3. CASE i = Len(q) + 1
      BY <1>1, <1>2, <1>5, <2>3
    <2> QED BY <1>2, <2>1, <2>2, <2>3
  <1>6. QueueOK(r, lf)
    BY <1>3, <1>4, <1>5 DEF QueueOK
  <1> QED BY <1>1, <1>6 DEF r

LEMMA FrameOK ==
  ASSUME NEW q \in Seq(UITask), NEW lf, QueueOK(q, lf)
  PROVE  Append(q, Timers!Frame) \in Seq(UITask) /\ QueueOK(Append(q, Timers!Frame), lf)
  BY FrameTask, AppendOK

-----------------------------------------------------------------------------
(* Timing: every step keeps the invariant                                   *)

LEMMA TimersInit == Timers!Init => SilentInv
  BY DEF Timers!Init, SilentInv, TimerTypes, QueueOK, Timers!Idle

(* A step that keeps the timers' lives, and takes from the heap and the     *)
(* tick's timers only what the heap holds.                                  *)
LEMMA SameLife ==
  ASSUME SilentInv, UNCHANGED life, TimerTypes', QueueOK(ui', life),
         ~tick'.running => tick'.ready = {},
         \A e \in m_timerQueue' : life[e.id] \in {"created", "deleting"},
         \A t \in tick'.ready : life[t] \in {"created", "deleting"}
  PROVE  SilentInv'
  BY DEF SilentInv

LEMMA createTimerInv ==
  ASSUME SilentInv, NEW t \in Timer, NEW p \in Periods, NEW r \in BOOLEAN, Timers!createTimer(t, p, r)
  PROVE  SilentInv'
  <1>1. life[t] = "new" /\ life' = [life EXCEPT ![t] = "created"]
        /\ life \in [Timer -> {"new", "created", "deleting", "deleted"}]
    BY DEF Timers!createTimer, SilentInv
  <1>2. PICK x : x = [do |-> "create", id |-> t, target |-> now + p, period |-> p, repeat |-> r]
    OBVIOUS
  <1>3. now + p \in Nat
    BY PeriodsAssumption DEF SilentInv, TimerTypes
  <1>4. x \in UITask /\ x.do = "create" /\ x.id = t
    BY <1>2, <1>3 DEF UITask
  <1>5. ui \in Seq(UITask) /\ QueueOK(ui, life) /\ ui' = Append(ui, x)
    BY <1>2 DEF Timers!createTimer, SilentInv, TimerTypes
  <1>6. \A i \in DOMAIN ui : ui[i] \in UITask
    BY <1>5
  <1>7. \A i \in DOMAIN ui : ui[i].do \in {"create", "delete"} => ui[i].id \in Timer /\ ui[i].id # t
    BY <1>1, <1>5, <1>6, TaskFields DEF QueueOK
  <1>8. QueueOK(ui, life')
    BY <1>1, <1>5, <1>7 DEF QueueOK
  <1>9. ui' \in Seq(UITask) /\ QueueOK(ui', life')
    <2>1. PICK lf : lf = life' /\ lf[t] = "created"
      BY <1>1
    <2>2. QueueOK(ui, lf) /\ \A i \in DOMAIN ui : ui[i].do = "delete" => ui[i].id # t
      BY <1>7, <1>8, <2>1
    <2>3. Append(ui, x) \in Seq(UITask) /\ QueueOK(Append(ui, x), lf)
      BY <1>4, <1>5, <2>1, <2>2, AppendOK
    <2> QED BY <1>5, <2>1, <2>3
  <1> QED BY <1>1, <1>9 DEF SilentInv, TimerTypes, Timers!createTimer, HeapEntry

LEMMA deleteTimerInv ==
  ASSUME SilentInv, NEW t \in Timer, Timers!deleteTimer(t)
  PROVE  SilentInv'
  <1>1. life[t] = "created" /\ life' = [life EXCEPT ![t] = "deleting"]
        /\ life \in [Timer -> {"new", "created", "deleting", "deleted"}]
    BY DEF Timers!deleteTimer, SilentInv
  <1>2. PICK x : x = [do |-> "delete", id |-> t]
    OBVIOUS
  <1>4. x \in UITask /\ x.do = "delete" /\ x.id = t
    BY <1>2 DEF UITask
  <1>5. ui \in Seq(UITask) /\ QueueOK(ui, life) /\ ui' = Append(ui, x)
    BY <1>2 DEF Timers!deleteTimer, SilentInv, TimerTypes
  <1>6. \A i \in DOMAIN ui : ui[i] \in UITask
    BY <1>5
  <1>7. \A i \in DOMAIN ui : ui[i].do \in {"create", "delete"} => ui[i].id \in Timer
    BY <1>6, TaskFields
  <1>8. QueueOK(ui, life')
    BY <1>1, <1>5, <1>7 DEF QueueOK
  <1>9. ui' \in Seq(UITask) /\ QueueOK(ui', life')
    <2>1. PICK lf : lf = life' /\ lf[t] = "deleting"
      BY <1>1
    <2>2. QueueOK(ui, lf)
      BY <1>8, <2>1
    <2>3. Append(ui, x) \in Seq(UITask) /\ QueueOK(Append(ui, x), lf)
      BY <1>4, <1>5, <2>1, <2>2, AppendOK
    <2> QED BY <1>5, <2>1, <2>3
  <1> QED BY <1>1, <1>9 DEF SilentInv, TimerTypes, Timers!deleteTimer, HeapEntry

(* The task at the front of the queue, and what is left without it.         *)
LEMMA FrontTask ==
  ASSUME SilentInv, NEW what, Timers!Task(what)
  PROVE  /\ ~tick.running /\ ui \in Seq(UITask) /\ ui # <<>> /\ Head(ui) \in UITask /\ Head(ui).do = what
         /\ Tail(ui) \in Seq(UITask) /\ QueueOK(Tail(ui), life)
         /\ what = "create" => life[Head(ui).id] \in {"created", "deleting"}
  <1>1. ~tick.running /\ ui \in Seq(UITask) /\ ui # <<>> /\ Head(ui).do = what /\ QueueOK(ui, life)
    BY DEF Timers!Task, SilentInv, TimerTypes
  <1>2. Head(ui) \in UITask /\ Tail(ui) \in Seq(UITask) /\ QueueOK(Tail(ui), life)
    BY <1>1, TailOK
  <1>3. Head(ui) = ui[1] /\ 1 \in DOMAIN ui
    BY <1>1
  <1> QED BY <1>1, <1>2, <1>3 DEF QueueOK

LEMMA callTimerAtOnceInv ==
  ASSUME SilentInv, Timers!callTimerAtOnce
  PROVE  SilentInv' /\ life[Head(ui).id] # "deleted"
  <1>1. Timers!Task("create")
    BY DEF Timers!callTimerAtOnce
  <1>2. Tail(ui) \in Seq(UITask) /\ QueueOK(Tail(ui), life) /\ life[Head(ui).id] \in {"created", "deleting"}
    BY <1>1, FrontTask
  <1> QED BY <1>2 DEF SilentInv, TimerTypes, Timers!callTimerAtOnce

LEMMA createTimerOnQueueInv ==
  ASSUME SilentInv, Timers!createTimerOnQueue
  PROVE  SilentInv'
  <1>1. Timers!Task("create") /\ UNCHANGED <<now, tick, life>>
    BY DEF Timers!createTimerOnQueue, Timers!js
  <1>2. Head(ui) \in UITask /\ Head(ui).do = "create" /\ Tail(ui) \in Seq(UITask) /\ QueueOK(Tail(ui), life)
        /\ life[Head(ui).id] \in {"created", "deleting"}
    BY <1>1, FrontTask
  <1>3. PICK e : e = Timers!Entry(Head(ui))
    OBVIOUS
  <1>4. e \in HeapEntry /\ e.id = Head(ui).id
    BY <1>2, <1>3, TaskFields DEF Timers!Entry, HeapEntry
  <1>5. m_timerQueue' = m_timerQueue \cup {e} /\ (ui' = Tail(ui) \/ ui' = Append(Tail(ui), Timers!Frame))
    BY <1>3 DEF Timers!createTimerOnQueue, Timers!StartRendering
  <1>6. ui' \in Seq(UITask) /\ QueueOK(ui', life)
    BY <1>2, <1>5, FrameOK
  <1> QED BY <1>1, <1>2, <1>4, <1>5, <1>6 DEF SilentInv, TimerTypes

LEMMA deleteTimerOnQueueInv ==
  ASSUME SilentInv, Timers!deleteTimerOnQueue
  PROVE  SilentInv'
  <1>1. Timers!Task("delete") /\ UNCHANGED <<now, tick>> /\ ui' = Tail(ui)
        /\ m_timerQueue' = {e \in m_timerQueue : e.id # Head(ui).id}
    BY DEF Timers!deleteTimerOnQueue
  <1>2. ~tick.running /\ Head(ui) \in UITask /\ Head(ui).do = "delete" /\ ui \in Seq(UITask) /\ ui # <<>>
        /\ Tail(ui) \in Seq(UITask) /\ QueueOK(Tail(ui), life) /\ QueueOK(ui, life)
    BY <1>1, FrontTask DEF SilentInv
  <1>3. PICK t \in Timer : t = Head(ui).id
    BY <1>2, TaskFields
  <1>4. life' = [life EXCEPT ![t] = "deleted"] /\ life \in [Timer -> {"new", "created", "deleting", "deleted"}]
    BY <1>3 DEF Timers!deleteTimerOnQueue, SilentInv
  <1>5. \A i \in DOMAIN Tail(ui) : i \in Int /\ i + 1 \in DOMAIN ui /\ ~(i + 1 < 1) /\ Tail(ui)[i] = ui[i + 1]
    BY <1>2
  <1>6. Head(ui) = ui[1] /\ 1 \in DOMAIN ui
    BY <1>2
  <1>7. \A i \in DOMAIN Tail(ui) : Tail(ui)[i].do = "create" => Tail(ui)[i].id # t
    BY <1>2, <1>3, <1>5, <1>6 DEF QueueOK
  <1>8. \A i \in DOMAIN Tail(ui) : Tail(ui)[i] \in UITask
    BY <1>2
  <1>9. \A i \in DOMAIN Tail(ui) : Tail(ui)[i].do \in {"create", "delete"} => Tail(ui)[i].id \in Timer
    BY <1>8, TaskFields
  <1>10. QueueOK(Tail(ui), life')
    BY <1>2, <1>4, <1>7, <1>9 DEF QueueOK
  <1>11. QueueOK(ui', life')
    BY <1>1, <1>10
  <1>12. tick.ready = {}
    BY <1>2 DEF SilentInv
  <1>13. \A e \in m_timerQueue' : e \in m_timerQueue /\ e.id \in Timer /\ e.id # t
    BY <1>1, <1>3 DEF SilentInv, TimerTypes, HeapEntry
  <1>14. \A e \in m_timerQueue' : life'[e.id] \in {"created", "deleting"}
    BY <1>4, <1>13 DEF SilentInv
  <1>15. TimerTypes'
    BY <1>1, <1>2, <1>13 DEF SilentInv, TimerTypes
  <1> QED BY <1>1, <1>4, <1>11, <1>12, <1>14, <1>15 DEF SilentInv

LEMMA StartTickInv ==
  ASSUME SilentInv, Timers!RenderFrame \/ Timers!DispatcherTick
  PROVE  SilentInv'
  <1>1. tick' \in [running : BOOLEAN, now : Nat, emitted : BOOLEAN, ready : SUBSET Timer] /\ tick'.ready = {}
    BY DEF Timers!RenderFrame, Timers!DispatcherTick, Timers!Started, Timers!Idle, SilentInv, TimerTypes
  <1>2. UNCHANGED <<now, m_timerQueue, life>>
    BY DEF Timers!RenderFrame, Timers!DispatcherTick, Timers!js
  <1>3. ui' \in Seq(UITask) /\ QueueOK(ui', life)
    <2>1. CASE Timers!RenderFrame
      BY <2>1, FrontTask DEF Timers!RenderFrame
    <2>2. CASE Timers!DispatcherTick
      BY <2>2 DEF Timers!DispatcherTick, SilentInv, TimerTypes
    <2> QED BY <2>1, <2>2
  <1> QED BY <1>1, <1>2, <1>3 DEF SilentInv, TimerTypes

LEMMA PopReadyInv ==
  ASSUME SilentInv, Timers!PopReady
  PROVE  SilentInv'
  <1>1. tick.running /\ UNCHANGED <<now, ui, life>>
    BY DEF Timers!PopReady, Timers!js
  <1>2. PICK e \in Timers!Front(m_timerQueue) :
          /\ m_timerQueue' = (m_timerQueue \ {e}) \cup
               (IF e.repeat THEN {[e EXCEPT !.target = tick.now + e.period]} ELSE {})
          /\ tick' = [tick EXCEPT !.ready = @ \cup {e.id},
                        !.emitted = @ \/ Timers!IsAnimationFrameRequest(e.period, e.repeat)]
    BY DEF Timers!PopReady
  <1>3. e \in m_timerQueue /\ e \in HeapEntry /\ life[e.id] \in {"created", "deleting"}
    BY <1>2 DEF Timers!Front, SilentInv, TimerTypes
  <1>4. PICK f : f = [e EXCEPT !.target = tick.now + e.period]
    OBVIOUS
  <1>5. f \in HeapEntry /\ f.id = e.id
    BY <1>3, <1>4, PeriodsAssumption DEF HeapEntry, SilentInv, TimerTypes
  <1>6. m_timerQueue' \subseteq m_timerQueue \cup {f}
    BY <1>2, <1>4
  <1>7. tick' \in [running : BOOLEAN, now : Nat, emitted : BOOLEAN, ready : SUBSET Timer]
        /\ tick'.ready = tick.ready \cup {e.id} /\ tick'.running
    BY <1>1, <1>2, <1>3 DEF SilentInv, TimerTypes, HeapEntry, Timers!IsAnimationFrameRequest
  <1> QED BY <1>1, <1>3, <1>5, <1>6, <1>7 DEF SilentInv, TimerTypes

LEMMA EndTickInv ==
  ASSUME SilentInv, Timers!EndTick
  PROVE  SilentInv'
  <1>1. ui' = ui \/ ui' = Append(ui, Timers!Frame)
    BY DEF Timers!EndTick
  <1>2. ui' \in Seq(UITask) /\ QueueOK(ui', life)
    BY <1>1, FrameOK DEF SilentInv, TimerTypes
  <1>3. tick' \in [running : BOOLEAN, now : Nat, emitted : BOOLEAN, ready : SUBSET Timer] /\ tick'.ready = {}
    BY DEF Timers!EndTick, Timers!Idle
  <1>4. UNCHANGED <<now, m_timerQueue, life>>
    BY DEF Timers!EndTick
  <1> QED BY <1>2, <1>3, <1>4 DEF SilentInv, TimerTypes

LEMMA TimersStep == SilentInv /\ [Timers!Next]_Timers!vars => SilentInv'
  <1> SUFFICES ASSUME SilentInv, [Timers!Next]_Timers!vars PROVE SilentInv'
    OBVIOUS
  <1>1. ASSUME NEW t \in Timer, Timers!deleteTimer(t) \/ \E p \in Periods,
                 r \in BOOLEAN : Timers!createTimer(t, p, r)
        PROVE  SilentInv'
    BY <1>1, deleteTimerInv, createTimerInv
  <1>2. CASE Timers!UI \/ Timers!DispatcherTick
    BY <1>2, callTimerAtOnceInv, createTimerOnQueueInv, deleteTimerOnQueueInv, StartTickInv, PopReadyInv,
       EndTickInv DEF Timers!UI
  <1>3. CASE Timers!Advance
    BY <1>3 DEF Timers!Advance, SilentInv, TimerTypes, Timers!js
  <1>4. CASE UNCHANGED Timers!vars
    BY <1>4 DEF Timers!vars, SilentInv, TimerTypes, Timers!js
  <1> QED BY <1>1, <1>2, <1>3, <1>4 DEF Timers!Next

(* SilentInv holds in every reachable state of the timers.                  *)
THEOREM TimersInvariant == Timers!Spec => []SilentInv
  BY TimersInit, TimersStep, PTL DEF Timers!Spec

(* Only callTimerAtOnce and EndTick call timers.                            *)
LEMMA CallsAreLive ==
  ASSUME SilentInv, [Timers!Next]_Timers!vars
  PROVE  \A t \in Timer : life[t] = "deleted" => t \notin tick.ready /\ (t \in called' => t \in called)
  <1>1. \A t \in tick.ready : life[t] # "deleted"
    BY DEF SilentInv
  <1>2. CASE Timers!callTimerAtOnce
    <2>1. life[Head(ui).id] # "deleted" /\ called' = called \cup {Head(ui).id}
      BY <1>2, callTimerAtOnceInv DEF Timers!callTimerAtOnce
    <2> QED BY <1>1, <2>1
  <1>3. CASE Timers!EndTick
    BY <1>1, <1>3 DEF Timers!EndTick
  <1>4. CASE UNCHANGED called
    BY <1>1, <1>4
  <1>5. Timers!callTimerAtOnce \/ Timers!EndTick \/ UNCHANGED called
    BY DEF Timers!Next, Timers!vars, Timers!js, Timers!UI, Timers!createTimer, Timers!deleteTimer,
       Timers!createTimerOnQueue, Timers!deleteTimerOnQueue, Timers!RenderFrame,
       Timers!DispatcherTick, Timers!PopReady, Timers!Advance
  <1> QED BY <1>2, <1>3, <1>4, <1>5

(* DeletedIsSilent: a timer that the UI thread has deleted is not called,   *)
(* whatever waits in its queue or is ready in a tick.                       *)
THEOREM DeletedTimersAreSilent == Timers!Spec => DeletedIsSilent
  <1>1. SilentInv /\ [Timers!Next]_Timers!vars =>
          [\A t \in Timer : life[t] = "deleted" => t \notin tick.ready /\ (t \in called'
            => t \in called)]_Timers!vars
    BY CallsAreLive
  <1> QED BY <1>1, TimersInvariant, PTL DEF Timers!Spec, DeletedIsSilent, Timers!DeletedIsSilent

-----------------------------------------------------------------------------
(* The three parts                                                          *)

(* A behaviour of the three parts together, one of which runs, is a         *)
(* behaviour of each.                                                       *)
THEOREM PartsAreBehaviours == FairSpec => Instance!Spec /\ Notification!Spec /\ Timers!Spec
  <1>1. Init => Instance!Init /\ Notification!Init /\ Timers!Init
    BY DEF Init
  <1>2. [Next]_vars => [Instance!Next]_Instance!vars
    BY DEF Next, vars, OnlyInstance, OnlyNotification, OnlyTimers, instanceVars, Instance!vars, Instance!flags,
       Instance!promises, Instance!calls, Instance!jsThread
  <1>3. [Next]_vars => [Notification!Next]_Notification!vars
    BY DEF Next, vars, OnlyInstance, OnlyNotification, OnlyTimers, notificationVars, Notification!vars,
       Notification!lists, Notification!history
  <1>4. [Next]_vars => [Timers!Next]_Timers!vars
    BY DEF Next, vars, OnlyInstance, OnlyNotification, OnlyTimers, timerVars, Timers!vars, Timers!js
  <1> QED BY <1>1, <1>2, <1>3, <1>4, PTL DEF FairSpec, Instance!Spec, Notification!Spec, Timers!Spec

=============================================================================
