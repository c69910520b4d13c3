-------------------------- MODULE NetworkingProofs --------------------------
(***************************************************************************)
(* What JavaScript hears of an HTTP request, for any set of requests and    *)
(* any number of segments; and what a WebSocket sends, for any number of    *)
(* messages.                                                                *)
(***************************************************************************)
EXTENDS MCNetworking, Integers, TLAPS

-----------------------------------------------------------------------------
(* HttpResource: the invariant                                              *)

Event == Completion \cup {"response", "incremental", "progress", "data", "cancel failed"}

(* Properties of what one request has heard.                                *)
Orderly(s) ==
  \A i, j \in DOMAIN s : i < j /\ s[i] \in Completion => s[j] \in Completion \cup {"cancel failed"}
Open(s) == \A i \in DOMAIN s : s[i] \notin Completion
Closing(s) == \A i \in DOMAIN s : s[i] \in Completion \cup {"cancel failed"}
Unanswered(s) == \A i \in DOMAIN s : s[i] \in Failure

(* A request that can still hear a response or data is open: it has not     *)
(* been told of its end, not even by a redirection.                         *)
MayHear(r) ==
  \/ pc[r] \in {"new", "create", "send", "reading"}
  \/ pc[r] = "waiting" /\ op[r] # "error"

(* What holds of each request.  Anything but failures is heard only of a    *)
(* request whose operation was answered and whose timer was stopped.        *)
ReqInv(r) ==
  /\ Orderly(heard[r])
  /\ MayHear(r) => Open(heard[r])
  /\ pc[r] = "reading" => op[r] = "response" /\ timer[r] \in {"off", "cancelled"}
  /\ pc[r] = "waiting" => op[r] # "none"
  /\ op[r] = "running" => pc[r] \in {"waiting", "done"}
  /\ timer[r] = "armed" => pc[r] \in {"waiting", "done"}
  /\ \/ Unanswered(heard[r])
     \/ pc[r] \in {"reading", "done"} /\ op[r] = "response" /\ timer[r] \in {"off", "cancelled"}

HeardInv == heard \in [Request -> Seq(Event)] /\ \A r \in Request : ReqInv(r)

HttpInv == TypeOK /\ HeardInv

-----------------------------------------------------------------------------
(* HttpResource: appending events                                           *)

(* An event of s \o e is one of s or one of e, and those of s come first.   *)
LEMMA Appended ==
  ASSUME NEW s \in Seq(Event), NEW e \in Seq(Event)
  PROVE  /\ s \o e \in Seq(Event)
         /\ \A i \in DOMAIN (s \o e) :
              \/ i \in DOMAIN s /\ (s \o e)[i] = s[i]
              \/ i > Len(s) /\ i - Len(s) \in DOMAIN e /\ (s \o e)[i] = e[i - Len(s)]
  OBVIOUS

(* What is appended to an open sequence may be anything orderly; a closing  *)
(* event may follow anything.                                               *)
LEMMA OrderlyAppend ==
  ASSUME NEW s \in Seq(Event), NEW e \in Seq(Event),
         Orderly(s), Orderly(e), Open(s) \/ Closing(e)
  PROVE  Orderly(s \o e)
  <1> DEFINE u == s \o e
  <1> SUFFICES ASSUME NEW i \in DOMAIN u, NEW j \in DOMAIN u, i < j, u[i] \in Completion
               PROVE  u[j] \in Completion \cup {"cancel failed"}
    BY DEF Orderly
  <1>0. i \in Int /\ j \in Int /\ Len(s) \in Nat /\ DOMAIN s = 1..Len(s) /\ DOMAIN u = 1..(Len(s) + Len(e))
    BY Appended
  <1>1. CASE j \in DOMAIN s /\ u[j] = s[j]
    <2>1. i \in DOMAIN s /\ u[i] = s[i] BY <1>0, <1>1, Appended
    <2> QED BY <1>1, <2>1 DEF Orderly
  <1>2. CASE j > Len(s) /\ j - Len(s) \in DOMAIN e /\ u[j] = e[j - Len(s)]
    <2>1. CASE Closing(e) BY <1>2, <2>1 DEF Closing
    <2>2. CASE Open(s)
      <3>1. i > Len(s) /\ i - Len(s) \in DOMAIN e /\ u[i] = e[i - Len(s)] BY <2>2, Appended DEF Open
      <3>2. i - Len(s) < j - Len(s) BY <1>0
      <3> QED BY <1>2, <3>1, <3>2 DEF Orderly
    <2> QED BY <2>1, <2>2
  <1> QED BY <1>1, <1>2, Appended

LEMMA OpenAppend ==
  ASSUME NEW s \in Seq(Event), NEW e \in Seq(Event), Open(s), Open(e)
  PROVE  Open(s \o e)
  BY Appended DEF Open

LEMMA UnansweredAppend ==
  ASSUME NEW s \in Seq(Event), NEW e \in Seq(Event), Unanswered(s), Unanswered(e)
  PROVE  Unanswered(s \o e)
  BY Appended DEF Unanswered

(* The sequences of events the code appends.                                *)
LEMMA NoEvent == <<>> \in Seq(Event) /\ Orderly(<<>>) /\ Open(<<>>) /\ Unanswered(<<>>)
  BY DEF Orderly, Open, Unanswered

LEMMA OneEvent ==
  ASSUME NEW a \in Event
  PROVE  /\ <<a>> \in Seq(Event) /\ Orderly(<<a>>)
         /\ a \in Completion \cup {"cancel failed"} => Closing(<<a>>)
         /\ a \notin Completion => Open(<<a>>)
         /\ a \in Failure => Unanswered(<<a>>)
  <1>1. <<a>> \in Seq(Event) /\ DOMAIN <<a>> = {1} /\ <<a>>[1] = a OBVIOUS
  <1> QED BY <1>1 DEF Orderly, Closing, Open, Unanswered

LEMMA TwoEvents ==
  ASSUME NEW a \in Event, NEW b \in Completion
  PROVE  <<a, b>> \in Seq(Event) /\ Orderly(<<a, b>>)
  <1>1. b \in Event BY DEF Event
  <1>2. <<a, b>> \in Seq(Event) /\ DOMAIN <<a, b>> = {1, 2} /\ <<a, b>>[1] = a /\ <<a, b>>[2] = b
    BY <1>1
  <1>3. \A i, j \in {1, 2} : i < j => j = 2 OBVIOUS
  <1> QED BY <1>2, <1>3, Zenon DEF Orderly

LEMMA ThreeEvents ==
  ASSUME NEW a \in Event, NEW b \in Completion, NEW c \in Completion
  PROVE  <<a, b, c>> \in Seq(Event) /\ Orderly(<<a, b, c>>)
  <1>1. b \in Event /\ c \in Event BY DEF Event
  <1>2. /\ <<a, b, c>> \in Seq(Event) /\ DOMAIN <<a, b, c>> = {1, 2, 3}
        /\ <<a, b, c>>[1] = a /\ <<a, b, c>>[2] = b /\ <<a, b, c>>[3] = c
    BY <1>1
  <1>3. \A i, j \in {1, 2, 3} : i < j => j = 2 \/ j = 3 OBVIOUS
  <1> QED BY <1>2, <1>3, Zenon DEF Orderly

-----------------------------------------------------------------------------
(* Steps *)

LEMMA InitInv == Init => HttpInv
  <1> SUFFICES ASSUME Init PROVE HttpInv OBVIOUS
  <1>1. TypeOK BY DEF Init, TypeOK, Kinds
  <1>2. heard \in [Request -> Seq(Event)] BY NoEvent DEF Init
  <1>3. ASSUME NEW r \in Request PROVE ReqInv(r)
    <2>1. heard[r] = <<>> /\ pc[r] = "new" /\ op[r] = "none" /\ timer[r] = "off" BY DEF Init
    <2> QED BY <2>1, NoEvent DEF ReqInv, MayHear
  <1> QED BY <1>1, <1>2, <1>3 DEF HttpInv, HeardInv

Same(q) == pc'[q] = pc[q] /\ op'[q] = op[q] /\ timer'[q] = timer[q] /\ heard'[q] = heard[q]

(* A step concerns one request.                                             *)
LEMMA OneRequest ==
  ASSUME HttpInv, NEW r \in Request, TypeOK', heard' \in [Request -> Seq(Event)],
         ReqInv(r)', \A q \in Request \ {r} : Same(q)
  PROVE  HttpInv'
  <1>1. ASSUME NEW q \in Request \ {r} PROVE ReqInv(q)'
    BY <1>1 DEF HttpInv, HeardInv, Same, ReqInv, MayHear
  <1> QED BY <1>1 DEF HttpInv, HeardInv

LEMMA Sent ==
  ASSUME HttpInv, NEW r \in Request, NEW e \in Seq(Event), SendEvents(r, e)
  PROVE  /\ heard' \in [Request -> Seq(Event)] /\ heard'[r] = heard[r] \o e
         /\ heard[r] \in Seq(Event)
         /\ \A q \in Request \ {r} : heard'[q] = heard[q]
  <1>1. heard \in [Request -> Seq(Event)] BY DEF HttpInv, HeardInv
  <1>2. heard[r] \o e \in Seq(Event) BY <1>1, Appended
  <1> QED BY <1>1, <1>2 DEF SendEvents

(* A request that was not answered may end with a failure.                  *)
LEMMA Ends ==
  ASSUME HttpInv, NEW r \in Request, NEW a \in {"error", "timeout"}, Finish(r, <<a>>), Unanswered(heard[r])
  PROVE  ReqInv(r)' /\ heard' \in [Request -> Seq(Event)] /\ pc'[r] = "done"
         /\ \A q \in Request \ {r} : heard'[q] = heard[q] /\ pc'[q] = pc[q]
  <1>1. a \in Event /\ a \in Failure /\ a \in Completion BY DEF Event, Failure, Completion
  <1>2. /\ heard' \in [Request -> Seq(Event)] /\ heard'[r] = heard[r] \o <<a>> /\ heard[r] \in Seq(Event)
        /\ \A q \in Request \ {r} : heard'[q] = heard[q]
    BY <1>1, OneEvent, Sent DEF Finish
  <1>3. Orderly(heard'[r]) /\ Unanswered(heard'[r])
    BY <1>1, <1>2, OneEvent, OrderlyAppend, UnansweredAppend DEF HttpInv, HeardInv, ReqInv
  <1>4. pc'[r] = "done" /\ \A q \in Request \ {r} : pc'[q] = pc[q]
    BY DEF Finish, Goto, HttpInv, TypeOK
  <1> QED BY <1>2, <1>3, <1>4 DEF ReqInv, MayHear

LEMMA SendRequestInv ==
  ASSUME HttpInv, NEW r \in Request, NEW k \in Kinds, NEW t \in BOOLEAN, SendRequest(r, k, t)
  PROVE  HttpInv'
  <1> USE DEF HttpInv
  <1>1. TypeOK' BY DEF SendRequest, Finish, Goto, At, TypeOK
  <1>2. op'[r] # "running" /\ Unanswered(heard[r]) /\ pc[r] = "new"
    BY DEF SendRequest, At, HeardInv, ReqInv
  <1>3. CASE Goto(r, "create") /\ UNCHANGED <<m_responses, heard>>
    <2>1. ReqInv(r)' BY <1>2, <1>3 DEF SendRequest, Goto, TypeOK, HeardInv, ReqInv, MayHear
    <2>2. \A q \in Request \ {r} : Same(q) BY <1>3 DEF SendRequest, Goto, TypeOK, Same
    <2> QED BY <1>1, <1>3, <2>1, <2>2, OneRequest DEF HeardInv
  <1>4. CASE Finish(r, <<"error">>)
    <2>1. "error" \in Completion BY DEF Completion
    <2> QED BY <1>1, <1>2, <1>4, <2>1, Ends, OneRequest DEF SendRequest, Same
  <1> QED BY <1>3, <1>4 DEF SendRequest

LEMMA CreateRequestInv ==
  ASSUME HttpInv, NEW r \in Request, CreateRequest(r)
  PROVE  HttpInv'
  <1> USE DEF HttpInv
  <1>1. TypeOK' BY DEF CreateRequest, Finish, Goto, At, TypeOK
  <1>2. op'[r] # "running" /\ Unanswered(heard[r]) /\ pc[r] = "create"
    BY DEF CreateRequest, At, HeardInv, ReqInv
  <1>e. "error" \in Completion /\ "error" \in Event /\ "error" \in Failure BY DEF Completion, Event, Failure
  <1>3. CASE Goto(r, "send") /\ UNCHANGED <<m_responses, heard>>
    <2>1. ReqInv(r)' BY <1>2, <1>3 DEF CreateRequest, Goto, TypeOK, HeardInv, ReqInv, MayHear
    <2>2. \A q \in Request \ {r} : Same(q) BY <1>3 DEF CreateRequest, Goto, TypeOK, Same
    <2> QED BY <1>1, <1>3, <2>1, <2>2, OneRequest DEF HeardInv
  <1>4. CASE Goto(r, "send null") /\ SendEvents(r, <<"error">>)
    <2>1. /\ heard' \in [Request -> Seq(Event)] /\ heard'[r] = heard[r] \o <<"error">>
          /\ heard[r] \in Seq(Event) /\ \A q \in Request \ {r} : heard'[q] = heard[q]
      BY <1>e, <1>4, OneEvent, Sent
    <2>2. Orderly(heard'[r]) /\ Unanswered(heard'[r])
      BY <1>e, <1>2, <2>1, OneEvent, OrderlyAppend, UnansweredAppend DEF HeardInv, ReqInv
    <2>3. ReqInv(r)'
      BY <1>2, <1>4, <2>2 DEF CreateRequest, Goto, TypeOK, HeardInv, ReqInv, MayHear
    <2>4. \A q \in Request \ {r} : Same(q) BY <1>4, <2>1 DEF CreateRequest, Goto, TypeOK, Same
    <2> QED BY <1>1, <2>1, <2>3, <2>4, OneRequest
  <1>5. CASE Finish(r, <<"error">>)
    BY <1>1, <1>2, <1>e, <1>5, Ends, OneRequest DEF CreateRequest, Same
  <1> QED BY <1>3, <1>4, <1>5 DEF CreateRequest

LEMMA SendRequestAsyncInv ==
  ASSUME HttpInv, NEW r \in Request, SendRequestAsync(r)
  PROVE  HttpInv'
  <1> USE DEF HttpInv
  <1>1. TypeOK' BY DEF SendRequestAsync, Finish, Goto, At, TypeOK
  <1>2. Unanswered(heard[r]) /\ pc[r] \in {"send", "send null"} /\ op[r] # "running"
    BY DEF SendRequestAsync, At, HeardInv, ReqInv
  <1>3. CASE At(r, "send") /\ Goto(r, "waiting") /\ UNCHANGED heard
             /\ op' = [op EXCEPT ![r] = "running"]
             /\ timer' = [timer EXCEPT ![r] = IF timed[r] THEN "armed" ELSE "off"]
    <2>1. ReqInv(r)' BY <1>2, <1>3 DEF At, Goto, TypeOK, HeardInv, ReqInv, MayHear
    <2>2. \A q \in Request \ {r} : Same(q) BY <1>3 DEF Goto, TypeOK, Same
    <2> QED BY <1>1, <1>3, <2>1, <2>2, OneRequest DEF HeardInv
  <1>4. CASE Finish(r, <<"error">>) /\ UNCHANGED <<op, timer>>
    <2>1. "error" \in Completion BY DEF Completion
    <2> QED BY <1>1, <1>2, <1>4, <2>1, Ends, OneRequest DEF Same
  <1> QED BY <1>3, <1>4 DEF SendRequestAsync

LEMMA OperationEndsInv ==
  ASSUME HttpInv, NEW r \in Request, OperationEnds(r)
  PROVE  HttpInv'
  <1> USE DEF HttpInv
  <1>1. PICK o \in {"response", "null", "error"} :
          /\ op' = [op EXCEPT ![r] = o]
          /\ (o = "error" /\ SendEvents(r, <<"error">>)) \/ UNCHANGED heard
    BY DEF OperationEnds
  <1>2. TypeOK' BY <1>1 DEF OperationEnds, TypeOK
  <1>3. Unanswered(heard[r]) /\ pc[r] \in {"waiting", "done"} /\ op[r] = "running"
    BY DEF OperationEnds, HeardInv, ReqInv
  <1>4. op'[r] = o /\ pc' = pc /\ timer' = timer BY <1>1 DEF OperationEnds, TypeOK
  <1>5. CASE UNCHANGED heard
    <2>1. ReqInv(r)' BY <1>3, <1>4, <1>5 DEF HeardInv, ReqInv, MayHear
    <2>2. \A q \in Request \ {r} : Same(q) BY <1>1, <1>4, <1>5 DEF TypeOK, Same
    <2> QED BY <1>2, <1>5, <2>1, <2>2, OneRequest DEF HeardInv
  <1>6. CASE o = "error" /\ SendEvents(r, <<"error">>)
    <2>1. "error" \in Completion /\ "error" \in Event /\ "error" \in Failure BY DEF Completion, Event, Failure
    <2>2. /\ heard' \in [Request -> Seq(Event)] /\ heard'[r] = heard[r] \o <<"error">>
          /\ heard[r] \in Seq(Event) /\ \A q \in Request \ {r} : heard'[q] = heard[q]
      BY <1>6, <2>1, OneEvent, Sent
    <2>3. Orderly(heard'[r]) /\ Unanswered(heard'[r])
      BY <1>3, <2>1, <2>2, OneEvent, OrderlyAppend, UnansweredAppend DEF HeardInv, ReqInv
    <2>4. ReqInv(r)' BY <1>3, <1>4, <1>6, <2>3 DEF HeardInv, ReqInv, MayHear
    <2>5. \A q \in Request \ {r} : Same(q) BY <1>1, <1>4, <2>2 DEF TypeOK, Same
    <2> QED BY <1>2, <2>2, <2>4, <2>5, OneRequest
  <1> QED BY <1>1, <1>5, <1>6

LEMMA AwaitResponseInv ==
  ASSUME HttpInv, NEW r \in Request, AwaitResponse(r)
  PROVE  HttpInv'
  <1> USE DEF HttpInv
  <1>1. Unanswered(heard[r]) /\ pc[r] = "waiting" /\ (op[r] # "running" \/ timer[r] = "fired")
    BY DEF AwaitResponse, At, Woken, HeardInv, ReqInv
  <1>2. /\ \A q \in Request \ {r} : op'[q] = op[q] /\ timer'[q] = timer[q]
        /\ timer[r] # "fired" => timer'[r] \in {"off", "cancelled"} /\ op'[r] = op[r]
        /\ timer'[r] # "armed"
        /\ op' \in [Request -> {"none", "running", "response", "null", "error", "cancelled"}]
        /\ timer' \in [Request -> {"off", "armed", "fired", "cancelled"}]
        /\ UNCHANGED <<kind, timed>>
    BY <1>1 DEF AwaitResponse, Cancelled, TypeOK
  <1>3. ASSUME NEW a \in {"error", "timeout"}, Finish(r, <<a>>) PROVE HttpInv'
    <2>1. TypeOK' BY <1>2, <1>3 DEF Finish, Goto, TypeOK
    <2> QED BY <1>1, <1>2, <1>3, <2>1, Ends, OneRequest DEF Same
  <1>4. CASE /\ timer[r] # "fired" /\ op[r] = "response" /\ Goto(r, "reading")
             /\ SendEvents(r, <<"response">>) /\ UNCHANGED m_responses
    <2>1. TypeOK' BY <1>1, <1>2, <1>4 DEF Goto, TypeOK
    <2>2. "response" \in Event /\ "response" \notin Completion BY DEF Completion, Event
    <2>3. /\ heard' \in [Request -> Seq(Event)] /\ heard'[r] = heard[r] \o <<"response">>
          /\ heard[r] \in Seq(Event) /\ \A q \in Request \ {r} : heard'[q] = heard[q]
      BY <1>4, <2>2, OneEvent, Sent
    <2>4. Open(heard[r]) BY <1>1, <1>4 DEF HeardInv, ReqInv, MayHear
    <2>5. Orderly(heard'[r]) /\ Open(heard'[r])
      BY <2>2, <2>3, <2>4, OneEvent, OrderlyAppend, OpenAppend DEF HeardInv, ReqInv
    <2>6. pc'[r] = "reading" /\ op'[r] = "response" /\ timer'[r] \in {"off", "cancelled"}
      BY <1>2, <1>4 DEF Goto, TypeOK
    <2>7. ReqInv(r)' BY <2>5, <2>6 DEF ReqInv, MayHear
    <2>8. \A q \in Request \ {r} : Same(q) BY <1>2, <1>4, <2>3 DEF Goto, TypeOK, Same
    <2> QED BY <2>1, <2>3, <2>7, <2>8, OneRequest
  <1>5. \/ Finish(r, <<"timeout">>) \/ Finish(r, <<"error">>)
        \/ /\ timer[r] # "fired" /\ op[r] = "response" /\ Goto(r, "reading")
           /\ SendEvents(r, <<"response">>) /\ UNCHANGED m_responses
    <2>1. CASE timer[r] = "fired" BY <2>1 DEF AwaitResponse
    <2>2. CASE timer[r] # "fired"
      <3>1. op[r] \in {"response", "null", "error", "cancelled"}
        BY <1>1, <2>2 DEF TypeOK, HeardInv, ReqInv
      <3> QED BY <2>2, <3>1 DEF AwaitResponse
    <2> QED BY <2>1, <2>2
  <1> QED BY <1>3, <1>4, <1>5

LEMMA LoadAsyncInv ==
  ASSUME HttpInv, NEW r \in Request, LoadAsync(r)
  PROVE  HttpInv'
  <1> USE DEF HttpInv
  <1>1. /\ Open(heard[r]) /\ Orderly(heard[r]) /\ pc[r] = "reading"
        /\ op[r] = "response" /\ timer[r] \in {"off", "cancelled"}
        /\ UNCHANGED <<kind, timed, op, timer>>
    BY DEF LoadAsync, At, HeardInv, ReqInv, MayHear
  <1>2. "error" \in Completion /\ "complete" \in Completion /\ "data" \in Event /\ "complete" \in Event
    BY DEF Completion, Event
  <1>3. CASE SendEvents(r, Segment(r)) /\ UNCHANGED <<pc, m_responses>>
    <2>1. "incremental" \in Event \ Completion /\ "progress" \in Event \ Completion
      BY DEF Completion, Event
    <2>2. Segment(r) \in {<<"incremental">>, <<"progress">>, <<>>}
      BY DEF Segment
    <2>3. /\ Segment(r) \in Seq(Event) /\ Orderly(Segment(r)) /\ Open(Segment(r))
      BY <2>1, <2>2, OneEvent, NoEvent
    <2>4. /\ heard' \in [Request -> Seq(Event)] /\ heard'[r] = heard[r] \o Segment(r)
          /\ heard[r] \in Seq(Event) /\ \A q \in Request \ {r} : heard'[q] = heard[q]
      BY <1>3, <2>3, Sent
    <2>5. Orderly(heard'[r]) /\ Open(heard'[r])
      BY <1>1, <2>3, <2>4, OrderlyAppend, OpenAppend
    <2>6. ReqInv(r)' BY <1>1, <1>3, <2>5 DEF ReqInv, MayHear
    <2>7. \A q \in Request \ {r} : Same(q) BY <1>1, <1>3, <2>4 DEF Same
    <2>8. TypeOK' BY <1>1, <1>3 DEF TypeOK
    <2> QED BY <2>4, <2>6, <2>7, <2>8, OneRequest
  <1>4. ASSUME NEW e \in Seq(Event), Orderly(e), Finish(r, e) PROVE HttpInv'
    <2>1. /\ heard' \in [Request -> Seq(Event)] /\ heard'[r] = heard[r] \o e
          /\ heard[r] \in Seq(Event) /\ \A q \in Request \ {r} : heard'[q] = heard[q]
      BY <1>4, Sent DEF Finish
    <2>2. Orderly(heard'[r]) BY <1>1, <1>4, <2>1, OrderlyAppend
    <2>3. pc'[r] = "done" /\ \A q \in Request \ {r} : pc'[q] = pc[q]
      BY <1>4 DEF Finish, Goto, TypeOK
    <2>4. ReqInv(r)' BY <1>1, <2>2, <2>3 DEF ReqInv, MayHear
    <2>5. \A q \in Request \ {r} : Same(q) BY <1>1, <2>1, <2>3 DEF Same
    <2>6. TypeOK' BY <1>1, <1>4 DEF Finish, Goto, TypeOK
    <2> QED BY <2>1, <2>4, <2>5, <2>6, OneRequest
  <1>5. /\ <<"error">> \in Seq(Event) /\ Orderly(<<"error">>)
        /\ <<"complete">> \in Seq(Event) /\ Orderly(<<"complete">>)
    BY <1>2, OneEvent DEF Event
  <1>6. <<"data", "complete">> \in Seq(Event) /\ Orderly(<<"data", "complete">>)
    BY <1>2, TwoEvents
  <1>7. <<"data", "complete", "complete">> \in Seq(Event) /\ Orderly(<<"data", "complete", "complete">>)
    BY <1>2, ThreeEvents
  <1>8. CASE SendEvents(r, Segment(r)) /\ UNCHANGED <<pc, m_responses>> BY <1>3, <1>8
  <1>9. CASE Finish(r, CASE kind[r] = "blob" -> <<"data", "complete", "complete">>
                         [] kind[r] = "incremental" -> <<"complete">>
                         [] OTHER -> <<"data", "complete">>)
    <2>1. CASE kind[r] = "blob"
      <3>1. Finish(r, <<"data", "complete", "complete">>) BY <1>9, <2>1
      <3> QED BY <1>4, <1>7, <3>1
    <2>2. CASE kind[r] = "incremental"
      <3>1. Finish(r, <<"complete">>) BY <1>9, <2>2
      <3> QED BY <1>4, <1>5, <3>1
    <2>3. CASE kind[r] \notin {"blob", "incremental"}
      <3>1. Finish(r, <<"data", "complete">>) BY <1>9, <2>3
      <3> QED BY <1>4, <1>6, <3>1
    <2> QED BY <2>1, <2>2, <2>3
  <1>10. CASE Finish(r, <<"error">>) BY <1>4, <1>5, <1>10
  <1> QED BY <1>8, <1>9, <1>10 DEF LoadAsync

LEMMA AbortCancelsInv ==
  ASSUME HttpInv, NEW r \in Request, AbortCancels(r)
  PROVE  HttpInv'
  <1> USE DEF HttpInv
  <1>1. UNCHANGED <<pc, kind, timed, timer, m_responses>> BY DEF AbortCancels
  <1>2. CASE op' = [op EXCEPT ![r] = Cancelled(@)] /\ UNCHANGED heard
    <2>1. TypeOK' BY <1>1, <1>2 DEF Cancelled, TypeOK
    <2>2. op'[r] = IF op[r] = "running" THEN "cancelled" ELSE op[r] BY <1>2 DEF Cancelled, TypeOK
    <2>3. ReqInv(r)' BY <1>1, <1>2, <2>2 DEF HeardInv, ReqInv, MayHear
    <2>4. \A q \in Request \ {r} : Same(q) BY <1>1, <1>2 DEF TypeOK, Same
    <2> QED BY <1>2, <2>1, <2>3, <2>4, OneRequest DEF HeardInv
  <1>3. CASE SendEvents(r, <<"cancel failed">>) /\ UNCHANGED op
    <2>1. "cancel failed" \in (Event \ Completion) \cap Failure BY DEF Event, Completion, Failure
    <2>2. /\ heard' \in [Request -> Seq(Event)] /\ heard'[r] = heard[r] \o <<"cancel failed">>
          /\ heard[r] \in Seq(Event) /\ \A q \in Request \ {r} : heard'[q] = heard[q]
      BY <1>3, <2>1, OneEvent, Sent
    <2>3. /\ Orderly(heard'[r]) /\ (Unanswered(heard[r]) => Unanswered(heard'[r]))
          /\ (Open(heard[r]) => Open(heard'[r]))
      BY <2>1, <2>2, OneEvent, OrderlyAppend, UnansweredAppend, OpenAppend DEF HeardInv, ReqInv
    <2>4. ReqInv(r)' BY <1>1, <1>3, <2>3 DEF HeardInv, ReqInv, MayHear
    <2>5. \A q \in Request \ {r} : Same(q) BY <1>1, <1>3, <2>2 DEF Same
    <2>6. TypeOK' BY <1>1, <1>3 DEF TypeOK
    <2> QED BY <2>2, <2>4, <2>5, <2>6, OneRequest
  <1> QED BY <1>2, <1>3 DEF AbortCancels

LEMMA StepInv == HttpInv /\ [Next]_vars => HttpInv'
  <1> SUFFICES ASSUME HttpInv, [Next]_vars PROVE HttpInv' OBVIOUS
  <1>1. CASE UNCHANGED vars
    BY <1>1 DEF vars, HttpInv, TypeOK, HeardInv, ReqInv, MayHear
  <1>2. ASSUME NEW r \in Request, TimerFires(r) PROVE HttpInv'
    <2>1. TypeOK' BY <1>2 DEF TimerFires, HttpInv, TypeOK
    <2>2. ReqInv(r)' BY <1>2 DEF TimerFires, HttpInv, TypeOK, HeardInv, ReqInv, MayHear
    <2>3. \A q \in Request \ {r} : Same(q) BY <1>2 DEF TimerFires, HttpInv, TypeOK, Same
    <2>4. heard' \in [Request -> Seq(Event)] BY <1>2 DEF TimerFires, HttpInv, HeardInv
    <2> QED BY <1>2, <2>1, <2>2, <2>3, <2>4, OneRequest
  <1>3. ASSUME NEW r \in Request, AbortRequest(r) PROVE HttpInv'
    BY <1>3 DEF AbortRequest, HttpInv, TypeOK, HeardInv, ReqInv, MayHear
  <1>4. CASE Next
    BY <1>2, <1>3, <1>4, SendRequestInv, CreateRequestInv, SendRequestAsyncInv, OperationEndsInv,
       AwaitResponseInv, LoadAsyncInv, AbortCancelsInv DEF Next, Perform
  <1> QED BY <1>1, <1>4

-----------------------------------------------------------------------------
(* HttpResource: theorems                                                   *)

(* The inductive invariant: a request that can still hear a response or     *)
(* data has heard of no end, and only one that was answered in time has     *)
(* heard anything but failures.                                             *)
THEOREM HttpInvariant == Spec => []HttpInv
  BY InitInv, StepInv, PTL DEF Spec

(* A request is in the map that AbortRequest looks into exactly while it    *)
(* waits for its response or reads it.                                      *)
THEOREM HttpTypeCorrect == Spec => []TypeOK
  <1>1. HttpInv => TypeOK BY DEF HttpInv
  <1> QED BY <1>1, HttpInvariant, PTL

(* JavaScript hears nothing but completions after a completion, for any     *)
(* number of requests and of segments.                                      *)
THEOREM NothingAfterCompletion == Spec => []CompletionIsLast
  <1>1. HttpInv => CompletionIsLast BY DEF HttpInv, HeardInv, ReqInv, Orderly, CompletionIsLast
  <1> QED BY <1>1, HttpInvariant, PTL

(* A request of any kind that was cancelled by an abort or by its timer     *)
(* hears of failures only: neither a response nor data nor its success.     *)
THEOREM CancelledHearsFailuresOnly == Spec => []CancelledIsNotAnswered
  <1>1. HttpInv => CancelledIsNotAnswered
    BY DEF HttpInv, HeardInv, ReqInv, Unanswered, CancelledIsNotAnswered
  <1> QED BY <1>1, HttpInvariant, PTL

-----------------------------------------------------------------------------
(* WebSocket: the invariant                                                 *)

(* What the two queues and the step variable hold.                          *)
Work == Socket!Message \cup Tasks
Handler == {"open", "error", "message", "close"}
Steps == {"start", "connecting", "connected", "calling", "resume", "storing"}

SocketTypes ==
  /\ m_readyState \in {"Connecting", "Open", "Closing", "Closed"}
  /\ socket \in {"new", "none", "connecting", "open", "closed"}
  /\ step \in Steps
  /\ sequencer \in Seq(Socket!Message \cup {"connect", "close"})
  /\ background \in Seq(Work) /\ calling \in Seq(Handler)
  /\ m_writer \in Seq(Socket!Message) /\ stored \in Seq(Seq(Socket!Message))
  /\ sent \in Seq(Socket!Message) /\ beforeClose \in Seq(Seq(Socket!Message))

(* x is in q; it is there once; only the front may be x.                    *)
Occurs(x, q) == \E i \in DOMAIN q : q[i] = x
Once(x, q) == \A i, j \in DOMAIN q : q[i] = x /\ q[j] = x => i = j
First(x, q) == \A i \in DOMAIN q : q[i] = x => i = 1

(* A task that waits for something is the running one and is waited for     *)
(* once.  Connect is the first of all tasks.                                *)
TaskInv ==
  /\ step \in {"connecting", "connected", "calling"} => sequencer # <<>> /\ sequencer[1] = "connect"
  /\ step \in {"resume", "storing"} => sequencer # <<>> /\ sequencer[1] \in Socket!Message
  /\ First("connect", sequencer) /\ First("connect", background)
  /\ Occurs("connect", background) => sequencer = <<>>
  /\ Once("resume", background) /\ (step = "resume" <=> Occurs("resume", background))
  /\ Once("open", calling) /\ (step = "calling" <=> Occurs("open", calling))
  /\ socket \in {"new", "none"} => background = <<>> /\ sequencer = <<>> /\ m_writer = <<>>

(* A failure is handled before the write goes on.                           *)
FailFirst(q) == \E i, j \in DOMAIN q : i < j /\ q[i] = "fail" /\ q[j] = "resume"
(* The socket is open or may still become open: it does not open twice.     *)
MayStore == m_readyState = "Open" \/ Occurs("connect", background) \/ Occurs("connect", sequencer)

(* As long as messages may be stored, the writer holds the message of the   *)
(* running write and nothing else; what a write leaves behind after a       *)
(* failure is never stored.                                                 *)
WriterInv ==
  MayStore => IF step = "resume" THEN m_writer = <<sequencer[1]>> \/ FailFirst(background)
                                 ELSE m_writer = <<>>

(* The order of Messages: every message of p precedes those of q, the       *)
(* messages of q are in order, and they are among the first n.              *)
Before(a, b) == \E k, l \in DOMAIN Messages : k < l /\ Messages[k] = a /\ Messages[l] = b
Ahead(p, q) ==
  \A i \in DOMAIN p, j \in DOMAIN q : p[i] \in Socket!Message /\ q[j] \in Socket!Message => Before(p[i], q[j])
InOrder(q) ==
  \A i, j \in DOMAIN q : i < j /\ q[i] \in Socket!Message /\ q[j] \in Socket!Message => Before(q[i], q[j])
AmongFirst(n, q) ==
  \A i \in DOMAIN q : q[i] \in Socket!Message => \E k \in 1..n : k \in DOMAIN Messages /\ q[i] = Messages[k]

(* What was stored, the tasks of the sequencer and the background queue form *)
(* one line, in the order of Send.                                          *)
InLine(n, out, tasks, back) ==
  /\ InOrder(out) /\ InOrder(tasks) /\ InOrder(back)
  /\ Ahead(out, tasks) /\ Ahead(out, back) /\ Ahead(tasks, back)
  /\ AmongFirst(n, out) /\ AmongFirst(n, tasks) /\ AmongFirst(n, back)

(* The messages stored, and the tasks whose message is not.                 *)
Out == [i \in DOMAIN stored |-> stored[i][1]]
Unstored == IF step = "storing" THEN Tail(sequencer) ELSE sequencer

(* Messages are sent, queued and stored in their order, each in one piece.  *)
OrderInv ==
  /\ Len(sent) <= Len(Messages) /\ \A k \in DOMAIN sent : sent[k] = Messages[k]
  /\ \A i \in DOMAIN stored : Len(stored[i]) = 1
  /\ InLine(Len(sent), Out, Unstored, background)

(* Behind every task of S there is a Close.                                 *)
CloseBehind(S, tasks, back) ==
  /\ \A i \in DOMAIN tasks : tasks[i] \in S =>
       (\E j \in DOMAIN tasks : i < j /\ tasks[j] = "close") \/ Occurs("close", back)
  /\ \A i \in DOMAIN back : back[i] \in S => \E j \in DOMAIN back : i < j /\ back[j] = "close"

(* The messages sent before Close.                                          *)
Covered == IF beforeClose = <<>> THEN {} ELSE {beforeClose[1][i] : i \in DOMAIN beforeClose[1]}

CloseInv ==
  /\ \A m \in Covered : \E k \in DOMAIN sent : sent[k] = m
  /\ CloseBehind(Covered, sequencer, background)

(* The inductive invariant of WebSocket.                                    *)
SocketInv == SocketTypes /\ TaskInv /\ WriterInv /\ OrderInv /\ CloseInv

-----------------------------------------------------------------------------
(* WebSocket: queues                                                        *)

(* A queue without its front.                                               *)
LEMMA Tailed ==
  ASSUME NEW T, NEW q \in Seq(T), q # <<>>
  PROVE  /\ Tail(q) \in Seq(T) /\ Head(q) \in T /\ Head(q) = q[1]
         /\ Len(q) \in Nat \ {0} /\ DOMAIN q = 1..Len(q)
         /\ Len(Tail(q)) = Len(q) - 1 /\ DOMAIN Tail(q) = 1..(Len(q) - 1)
         /\ \A i \in DOMAIN Tail(q) : i + 1 \in DOMAIN q /\ Tail(q)[i] = q[i + 1]
         /\ \A i \in DOMAIN q : i # 1 => i - 1 \in DOMAIN Tail(q) /\ Tail(q)[i - 1] = q[i]
  OBVIOUS

(* A queue with work behind it.                                             *)
LEMMA Joined ==
  ASSUME NEW T, NEW q \in Seq(T), NEW w \in Seq(T)
  PROVE  /\ q \o w \in Seq(T) /\ Len(q) \in Nat /\ Len(w) \in Nat
         /\ Len(q \o w) = Len(q) + Len(w)
         /\ DOMAIN q = 1..Len(q) /\ DOMAIN w = 1..Len(w) /\ DOMAIN (q \o w) = 1..(Len(q) + Len(w))
         /\ \A i \in DOMAIN q : i \in DOMAIN (q \o w) /\ (q \o w)[i] = q[i]
         /\ \A i \in DOMAIN w : i + Len(q) \in DOMAIN (q \o w) /\ (q \o w)[i + Len(q)] = w[i]
         /\ \A i \in DOMAIN (q \o w) :
              \/ i \in DOMAIN q
              \/ i > Len(q) /\ i - Len(q) \in DOMAIN w /\ (q \o w)[i] = w[i - Len(q)]
  OBVIOUS

LEMMA AppendIsJoin ==
  ASSUME NEW T, NEW q \in Seq(T), NEW x \in T
  PROVE  Append(q, x) = q \o <<x>> /\ <<x>> \in Seq(T) /\ DOMAIN <<x>> = {1} /\ <<x>>[1] = x
  OBVIOUS

(* Where a task is after a queue was shortened or extended.                 *)
LEMMA PlacesAfterTail ==
  ASSUME NEW T, NEW q \in Seq(T), q # <<>>, NEW x
  PROVE  /\ Occurs(x, Tail(q)) => Occurs(x, q)
         /\ Occurs(x, q) => q[1] = x \/ Occurs(x, Tail(q))
         /\ First(x, q) => ~Occurs(x, Tail(q)) /\ First(x, Tail(q))
         /\ Once(x, q) => Once(x, Tail(q)) /\ (q[1] = x => ~Occurs(x, Tail(q)))
  BY Tailed DEF Occurs, First, Once

LEMMA PlacesAfterJoin ==
  ASSUME NEW T, NEW q \in Seq(T), NEW w \in Seq(T), NEW x
  PROVE  /\ Occurs(x, q \o w) <=> Occurs(x, q) \/ Occurs(x, w)
         /\ First(x, q) /\ ~Occurs(x, w) => First(x, q \o w)
         /\ q = <<>> /\ First(x, w) => First(x, q \o w)
         /\ Once(x, q) /\ ~Occurs(x, w) => Once(x, q \o w)
         /\ Once(x, w) /\ ~Occurs(x, q) => Once(x, q \o w)
  <1>0. DOMAIN (q \o w) = 1..(Len(q) + Len(w)) /\ Len(q) \in Nat /\ Len(w) \in Nat BY Joined
  <1>1. Occurs(x, q \o w) => Occurs(x, q) \/ Occurs(x, w)
    BY Joined DEF Occurs
  <1>2. Occurs(x, q) => Occurs(x, q \o w)
    BY Joined DEF Occurs
  <1>3. Occurs(x, w) => Occurs(x, q \o w)
    <2> SUFFICES ASSUME NEW i \in DOMAIN w, w[i] = x PROVE Occurs(x, q \o w) BY DEF Occurs
    <2>1. i + Len(q) \in DOMAIN (q \o w) /\ (q \o w)[i + Len(q)] = x BY Joined
    <2> QED BY <2>1 DEF Occurs
  <1>4. First(x, q) /\ ~Occurs(x, w) => First(x, q \o w)
    BY Joined DEF Occurs, First
  <1>5. q = <<>> /\ First(x, w) => First(x, q \o w)
    BY DEF First
  <1>6. Once(x, q) /\ ~Occurs(x, w) => Once(x, q \o w)
    BY Joined DEF Occurs, Once
  <1>7. Once(x, w) /\ ~Occurs(x, q) => Once(x, q \o w)
    <2> SUFFICES ASSUME Once(x, w), ~Occurs(x, q), NEW i \in DOMAIN (q \o w), NEW j \in DOMAIN (q \o w),
                        (q \o w)[i] = x, (q \o w)[j] = x
                 PROVE  i = j
      BY DEF Once
    <2>1. i > Len(q) /\ i - Len(q) \in DOMAIN w /\ w[i - Len(q)] = x BY Joined DEF Occurs
    <2>2. j > Len(q) /\ j - Len(q) \in DOMAIN w /\ w[j - Len(q)] = x BY Joined DEF Occurs
    <2>3. i - Len(q) = j - Len(q) BY <2>1, <2>2 DEF Once
    <2> QED BY <1>0, <2>3
  <1> QED BY <1>1, <1>2, <1>3, <1>4, <1>5, <1>6, <1>7

(* A failure stays in front of the write it belongs to.                     *)
LEMMA FailStaysFirst ==
  ASSUME NEW T, NEW q \in Seq(T)
  PROVE  /\ \A w \in Seq(T) : FailFirst(q) => FailFirst(q \o w)
         /\ q # <<>> /\ FailFirst(q) => q[1] = "fail" \/ FailFirst(Tail(q))
         /\ q # <<>> /\ q[1] = "resume" /\ Once("resume", q) => ~FailFirst(q)
  <1>1. ASSUME NEW w \in Seq(T), FailFirst(q) PROVE FailFirst(q \o w)
    <2>1. PICK i \in DOMAIN q, j \in DOMAIN q : i < j /\ q[i] = "fail" /\ q[j] = "resume" BY <1>1 DEF FailFirst
    <2>2. i \in DOMAIN (q \o w) /\ j \in DOMAIN (q \o w) /\ (q \o w)[i] = q[i] /\ (q \o w)[j] = q[j] BY Joined
    <2> QED BY <2>1, <2>2 DEF FailFirst
  <1>2. ASSUME q # <<>>, FailFirst(q), q[1] # "fail" PROVE FailFirst(Tail(q))
    <2>1. PICK i \in DOMAIN q, j \in DOMAIN q : i < j /\ q[i] = "fail" /\ q[j] = "resume" BY <1>2 DEF FailFirst
    <2>2. DOMAIN q = 1..Len(q) /\ Len(q) \in Nat BY <1>2, Tailed
    <2>3. i # 1 /\ j # 1 BY <1>2, <2>1, <2>2
    <2>4. i - 1 \in DOMAIN Tail(q) /\ Tail(q)[i - 1] = "fail" /\ j - 1 \in DOMAIN Tail(q)
            /\ Tail(q)[j - 1] = "resume"
      BY <1>2, <2>1, <2>3, Tailed
    <2>5. i - 1 < j - 1 BY <2>1, <2>2
    <2> QED BY <2>4, <2>5 DEF FailFirst
  <1>3. ASSUME q # <<>>, q[1] = "resume", Once("resume", q) PROVE ~FailFirst(q)
    <2>1. DOMAIN q = 1..Len(q) /\ Len(q) \in Nat \ {0} BY <1>3, Tailed
    <2> QED BY <1>3, <2>1 DEF FailFirst, Once
  <1> QED BY <1>1, <1>2, <1>3

-----------------------------------------------------------------------------
(* WebSocket: messages in a line                                            *)

(* Taking the front of a queue.                                             *)
LEMMA TailInOrder ==
  ASSUME NEW T, NEW q \in Seq(T), q # <<>>, NEW p, NEW n
  PROVE  /\ InOrder(q) => InOrder(Tail(q))
         /\ Ahead(p, q) => Ahead(p, Tail(q))
         /\ Ahead(q, p) => Ahead(Tail(q), p)
         /\ AmongFirst(n, q) => AmongFirst(n, Tail(q))
  <1>1. InOrder(q) => InOrder(Tail(q))
    BY Tailed DEF InOrder
  <1>2. Ahead(p, q) => Ahead(p, Tail(q)) BY Tailed DEF Ahead
  <1>3. Ahead(q, p) => Ahead(Tail(q), p) BY Tailed DEF Ahead
  <1>4. AmongFirst(n, q) => AmongFirst(n, Tail(q)) BY Tailed DEF AmongFirst
  <1> QED BY <1>1, <1>2, <1>3, <1>4

(* Extending a queue.                                                       *)
LEMMA JoinInOrder ==
  ASSUME NEW T, NEW q \in Seq(T), NEW w \in Seq(T), NEW p, NEW n
  PROVE  /\ InOrder(q) /\ InOrder(w) /\ Ahead(q, w) => InOrder(q \o w)
         /\ Ahead(p, q) /\ Ahead(p, w) => Ahead(p, q \o w)
         /\ Ahead(q, p) /\ Ahead(w, p) => Ahead(q \o w, p)
         /\ AmongFirst(n, q) /\ AmongFirst(n, w) => AmongFirst(n, q \o w)
  <1>1. ASSUME InOrder(q), InOrder(w), Ahead(q, w) PROVE InOrder(q \o w)
    <2> SUFFICES ASSUME NEW i \in DOMAIN (q \o w), NEW j \in DOMAIN (q \o w), i < j,
                        (q \o w)[i] \in Socket!Message, (q \o w)[j] \in Socket!Message
                 PROVE  Before((q \o w)[i], (q \o w)[j])
      BY DEF InOrder
    <2>0. /\ DOMAIN (q \o w) = 1..(Len(q) + Len(w)) /\ Len(q) \in Nat /\ Len(w) \in Nat
          /\ DOMAIN q = 1..Len(q) /\ DOMAIN w = 1..Len(w)
      BY Joined
    <2>1. CASE i \in DOMAIN q /\ j \in DOMAIN q BY <1>1, <2>1, Joined DEF InOrder
    <2>2. CASE i \in DOMAIN q /\ j \notin DOMAIN q
      <3>1. j - Len(q) \in DOMAIN w /\ (q \o w)[j] = w[j - Len(q)] /\ (q \o w)[i] = q[i] BY <2>2, Joined
      <3> QED BY <1>1, <2>2, <3>1 DEF Ahead
    <2>3. CASE i \notin DOMAIN q
      <3>1. j \notin DOMAIN q BY <2>0, <2>3
      <3>2. /\ j - Len(q) \in DOMAIN w /\ (q \o w)[j] = w[j - Len(q)]
            /\ i - Len(q) \in DOMAIN w /\ (q \o w)[i] = w[i - Len(q)]
        BY <2>3, <3>1, Joined
      <3>3. i - Len(q) < j - Len(q) BY <2>0
      <3> QED BY <1>1, <3>2, <3>3 DEF InOrder
    <2> QED BY <2>1, <2>2, <2>3
  <1>2. Ahead(p, q) /\ Ahead(p, w) => Ahead(p, q \o w) BY Joined DEF Ahead
  <1>3. Ahead(q, p) /\ Ahead(w, p) => Ahead(q \o w, p) BY Joined DEF Ahead
  <1>4. AmongFirst(n, q) /\ AmongFirst(n, w) => AmongFirst(n, q \o w) BY Joined DEF AmongFirst
  <1> QED BY <1>1, <1>2, <1>3, <1>4

LEMMA NoMessageInOrder ==
  ASSUME NEW w, NEW p, NEW n, \A i \in DOMAIN w : w[i] \notin Socket!Message
  PROVE  InOrder(w) /\ Ahead(p, w) /\ AmongFirst(n, w)
  BY DEF InOrder, Ahead, AmongFirst

(* The front of a queue precedes the rest.                                  *)
LEMMA HeadInOrder ==
  ASSUME NEW T, NEW q \in Seq(T), q # <<>>, NEW p, NEW n
  PROVE  /\ InOrder(<<Head(q)>>)
         /\ InOrder(q) => Ahead(<<Head(q)>>, Tail(q))
         /\ Ahead(p, q) => Ahead(p, <<Head(q)>>)
         /\ Ahead(q, p) => Ahead(<<Head(q)>>, p)
         /\ AmongFirst(n, q) => AmongFirst(n, <<Head(q)>>)
  <1>1. DOMAIN <<Head(q)>> = {1} /\ <<Head(q)>>[1] = q[1] /\ 1 \in DOMAIN q BY Tailed
  <1>2. InOrder(<<Head(q)>>) BY <1>1 DEF InOrder
  <1>3. ASSUME InOrder(q) PROVE Ahead(<<Head(q)>>, Tail(q))
    <2> SUFFICES ASSUME NEW j \in DOMAIN Tail(q), q[1] \in Socket!Message, Tail(q)[j] \in Socket!Message
                 PROVE  Before(q[1], Tail(q)[j])
      BY <1>1 DEF Ahead
    <2>1. j + 1 \in DOMAIN q /\ Tail(q)[j] = q[j + 1] /\ 1 < j + 1 BY Tailed
    <2> QED BY <1>1, <1>3, <2>1 DEF InOrder
  <1>4. Ahead(p, q) => Ahead(p, <<Head(q)>>) BY <1>1 DEF Ahead
  <1>5. Ahead(q, p) => Ahead(<<Head(q)>>, p) BY <1>1 DEF Ahead
  <1>6. AmongFirst(n, q) => AmongFirst(n, <<Head(q)>>) BY <1>1 DEF AmongFirst
  <1> QED BY <1>2, <1>3, <1>4, <1>5, <1>6

(* The changes of the line: tasks are posted, a task ends, work is dropped, *)
(* moves to the sequencer or is stored, and the next message is sent.       *)
LEMMA LinePost ==
  ASSUME NEW n, NEW o \in Seq(Work), NEW r \in Seq(Work), NEW b \in Seq(Work), InLine(n, o, r, b),
         NEW w \in Seq(Work), \A i \in DOMAIN w : w[i] \notin Socket!Message
  PROVE  InLine(n, o, r, b \o w)
  BY NoMessageInOrder, JoinInOrder DEF InLine

LEMMA LineSkip ==
  ASSUME NEW n, NEW o \in Seq(Work), NEW r \in Seq(Work), NEW b \in Seq(Work), InLine(n, o, r, b),
         r # <<>>
  PROVE  InLine(n, o, Tail(r), b)
  BY TailInOrder DEF InLine

LEMMA LineDrop ==
  ASSUME NEW n, NEW o \in Seq(Work), NEW r \in Seq(Work), NEW b \in Seq(Work), InLine(n, o, r, b),
         b # <<>>
  PROVE  InLine(n, o, r, Tail(b))
  BY TailInOrder DEF InLine

LEMMA LineMove ==
  ASSUME NEW n, NEW o \in Seq(Work), NEW r \in Seq(Work), NEW b \in Seq(Work), InLine(n, o, r, b),
         b # <<>>
  PROVE  InLine(n, o, r \o <<Head(b)>>, Tail(b))
  <1>1. <<Head(b)>> \in Seq(Work) BY Tailed
  <1>2. /\ InOrder(<<Head(b)>>) /\ Ahead(<<Head(b)>>, Tail(b)) /\ Ahead(o, <<Head(b)>>)
        /\ Ahead(r, <<Head(b)>>) /\ AmongFirst(n, <<Head(b)>>)
    BY HeadInOrder DEF InLine
  <1>3. /\ InOrder(Tail(b)) /\ Ahead(o, Tail(b)) /\ Ahead(r, Tail(b)) /\ AmongFirst(n, Tail(b))
    BY TailInOrder DEF InLine
  <1>4. /\ InOrder(r \o <<Head(b)>>) /\ Ahead(o, r \o <<Head(b)>>) /\ Ahead(r \o <<Head(b)>>, Tail(b))
        /\ AmongFirst(n, r \o <<Head(b)>>)
    BY <1>1, <1>2, <1>3, JoinInOrder DEF InLine
  <1> QED BY <1>3, <1>4 DEF InLine

LEMMA LineStore ==
  ASSUME NEW n, NEW o \in Seq(Work), NEW r \in Seq(Work), NEW b \in Seq(Work), InLine(n, o, r, b),
         r # <<>>
  PROVE  InLine(n, o \o <<Head(r)>>, Tail(r), b)
  <1>1. <<Head(r)>> \in Seq(Work) BY Tailed
  <1>2. /\ InOrder(<<Head(r)>>) /\ Ahead(<<Head(r)>>, Tail(r)) /\ Ahead(o, <<Head(r)>>)
        /\ Ahead(<<Head(r)>>, b) /\ AmongFirst(n, <<Head(r)>>)
    BY HeadInOrder DEF InLine
  <1>3. /\ InOrder(Tail(r)) /\ Ahead(o, Tail(r)) /\ Ahead(Tail(r), b) /\ AmongFirst(n, Tail(r))
    BY TailInOrder DEF InLine
  <1>4. /\ InOrder(o \o <<Head(r)>>) /\ Ahead(o \o <<Head(r)>>, Tail(r)) /\ Ahead(o \o <<Head(r)>>, b)
        /\ AmongFirst(n, o \o <<Head(r)>>)
    BY <1>1, <1>2, <1>3, JoinInOrder DEF InLine
  <1> QED BY <1>3, <1>4 DEF InLine

LEMMA LineSend ==
  ASSUME NEW n \in Nat, NEW o \in Seq(Work), NEW r \in Seq(Work), NEW b \in Seq(Work), InLine(n, o, r, b),
         n < Len(Messages)
  PROVE  InLine(n + 1, o, r, b \o <<Messages[n + 1]>>)
  <1> DEFINE m == Messages[n + 1]  w == <<m>>
  <1>0. n + 1 \in DOMAIN Messages /\ DOMAIN Messages = 1..Len(Messages) /\ Len(Messages) \in Nat
    BY MessagesAssumption
  <1>1. m \in Socket!Message /\ m \in Work BY <1>0 DEF Socket!Message, Work
  <1>2. w \in Seq(Work) /\ DOMAIN w = {1} /\ w[1] = m BY <1>1
  <1>3. ASSUME NEW q \in Seq(Work), AmongFirst(n, q) PROVE Ahead(q, w) /\ AmongFirst(n + 1, q)
    <2>1. ASSUME NEW i \in DOMAIN q, q[i] \in Socket!Message
          PROVE  Before(q[i], m) /\ \E k \in 1..(n + 1) : k \in DOMAIN Messages /\ q[i] = Messages[k]
      <3>1. PICK k \in 1..n : k \in DOMAIN Messages /\ q[i] = Messages[k] BY <1>3, <2>1 DEF AmongFirst
      <3>2. k < n + 1 /\ k \in 1..(n + 1) BY <3>1
      <3> HIDE DEF m
      <3>3. m = Messages[n + 1] BY DEF m
      <3> QED BY <1>0, <3>1, <3>2, <3>3 DEF Before
    <2>2. Ahead(q, w)
      <3> HIDE DEF w, m
      <3> QED BY <1>2, <2>1 DEF Ahead
    <2>3. AmongFirst(n + 1, q) BY <2>1 DEF AmongFirst
    <2> QED BY <2>2, <2>3
  <1>4. InOrder(w) /\ AmongFirst(n + 1, w)
    <2>1. \E k \in 1..(n + 1) : k \in DOMAIN Messages /\ m = Messages[k] BY <1>0
    <2> HIDE DEF w, m
    <2> QED BY <1>2, <2>1 DEF InOrder, AmongFirst
  <1> HIDE DEF w, m
  <1>5. /\ Ahead(o, w) /\ Ahead(r, w) /\ Ahead(b, w)
        /\ AmongFirst(n + 1, o) /\ AmongFirst(n + 1, r) /\ AmongFirst(n + 1, b)
    BY <1>3 DEF InLine
  <1>6. InLine(n + 1, o, r, b \o w) BY <1>2, <1>4, <1>5, JoinInOrder DEF InLine
  <1> QED BY <1>6 DEF w, m

(* Close stays behind what was sent before it.                              *)
LEMMA ClosePost ==
  ASSUME NEW S, NEW r \in Seq(Work), NEW b \in Seq(Work), CloseBehind(S, r, b),
         NEW w \in Seq(Work), \A i \in DOMAIN w : w[i] \notin S
  PROVE  CloseBehind(S, r, b \o w)
  <1>1. Occurs("close", b) => Occurs("close", b \o w) BY PlacesAfterJoin
  <1>2. ASSUME NEW i \in DOMAIN (b \o w), (b \o w)[i] \in S
        PROVE  \E j \in DOMAIN (b \o w) : i < j /\ (b \o w)[j] = "close"
    <2>1. i \in DOMAIN b /\ (b \o w)[i] = b[i] BY <1>2, Joined
    <2>2. PICK j \in DOMAIN b : i < j /\ b[j] = "close" BY <1>2, <2>1 DEF CloseBehind
    <2> QED BY <2>2, Joined
  <1> QED BY <1>1, <1>2 DEF CloseBehind

LEMMA CloseSkip ==
  ASSUME NEW S, NEW r \in Seq(Work), NEW b \in Seq(Work), CloseBehind(S, r, b), r # <<>>
  PROVE  CloseBehind(S, Tail(r), b)
  <1>1. ASSUME NEW i \in DOMAIN Tail(r), Tail(r)[i] \in S, ~Occurs("close", b)
        PROVE  \E j \in DOMAIN Tail(r) : i < j /\ Tail(r)[j] = "close"
    <2>1. i + 1 \in DOMAIN r /\ Tail(r)[i] = r[i + 1] /\ i \in Nat \ {0} /\ DOMAIN r = 1..Len(r) /\ Len(r) \in Nat
      BY <1>1, Tailed
    <2>2. PICK j \in DOMAIN r : i + 1 < j /\ r[j] = "close" BY <1>1, <2>1 DEF CloseBehind
    <2>3. j # 1 /\ i < j - 1 BY <2>1, <2>2
    <2>4. j - 1 \in DOMAIN Tail(r) /\ Tail(r)[j - 1] = "close" BY <2>2, <2>3, Tailed
    <2> QED BY <2>3, <2>4
  <1> QED BY <1>1 DEF CloseBehind

(* The front of the background queue goes to the end of the sequencer, or   *)
(* is dropped when it is no Close.                                          *)
LEMMA CloseMove ==
  ASSUME NEW S, NEW r \in Seq(Work), NEW b \in Seq(Work), CloseBehind(S, r, b), b # <<>>, "close" \notin S
  PROVE  /\ CloseBehind(S, r \o <<Head(b)>>, Tail(b))
         /\ Head(b) # "close" => CloseBehind(S, r, Tail(b))
  <1> DEFINE w == <<Head(b)>>
  <1>0. w \in Seq(Work) /\ DOMAIN w = {1} /\ w[1] = b[1] /\ Head(b) = b[1] /\ Len(r) \in Nat
        /\ DOMAIN b = 1..Len(b) /\ Len(b) \in Nat \ {0} /\ DOMAIN r = 1..Len(r)
    BY Tailed, Joined
  <1>1. ASSUME NEW i \in DOMAIN Tail(b), Tail(b)[i] \in S
        PROVE  \E j \in DOMAIN Tail(b) : i < j /\ Tail(b)[j] = "close"
    <2>1. i + 1 \in DOMAIN b /\ Tail(b)[i] = b[i + 1] /\ i \in Nat \ {0} BY Tailed
    <2>2. PICK j \in DOMAIN b : i + 1 < j /\ b[j] = "close" BY <1>1, <2>1 DEF CloseBehind
    <2>3. j # 1 /\ i < j - 1 BY <1>0, <2>1, <2>2
    <2>4. j - 1 \in DOMAIN Tail(b) /\ Tail(b)[j - 1] = "close" BY <2>2, <2>3, Tailed
    <2> QED BY <2>3, <2>4
  <1>2. Occurs("close", b) => b[1] = "close" \/ Occurs("close", Tail(b)) BY PlacesAfterTail
  <1>3. b[1] \in S => Occurs("close", Tail(b))
    <2> SUFFICES ASSUME b[1] \in S PROVE Occurs("close", Tail(b)) OBVIOUS
    <2>1. PICK j \in DOMAIN b : 1 < j /\ b[j] = "close" BY <1>0 DEF CloseBehind
    <2>2. Occurs("close", b) BY <2>1 DEF Occurs
    <2> QED BY <1>2, <2>2
  <1> HIDE DEF w
  <1>4. ASSUME NEW i \in DOMAIN (r \o w), (r \o w)[i] \in S
        PROVE  (\E j \in DOMAIN (r \o w) : i < j /\ (r \o w)[j] = "close") \/ Occurs("close", Tail(b))
    <2>1. CASE i \in DOMAIN r
      <3>1. (r \o w)[i] = r[i] BY <1>0, <2>1, Joined
      <3>2. CASE \E j \in DOMAIN r : i < j /\ r[j] = "close"
        <4>1. PICK j \in DOMAIN r : i < j /\ r[j] = "close" BY <3>2
        <4>2. j \in DOMAIN (r \o w) /\ (r \o w)[j] = "close" BY <1>0, <4>1, Joined
        <4> QED BY <4>1, <4>2
      <3>3. CASE b[1] = "close"
        <4>1. 1 + Len(r) \in DOMAIN (r \o w) /\ (r \o w)[1 + Len(r)] = "close" BY <1>0, <3>3, Joined
        <4>2. i < 1 + Len(r) BY <1>0, <2>1
        <4> QED BY <4>1, <4>2
      <3> QED BY <1>2, <1>4, <2>1, <3>1, <3>2, <3>3 DEF CloseBehind
    <2>2. CASE i \notin DOMAIN r
      <3>1. (r \o w)[i] = b[1] BY <1>0, <2>2, Joined
      <3> QED BY <1>3, <1>4, <3>1
    <2> QED BY <2>1, <2>2
  <1>5. CloseBehind(S, r \o w, Tail(b)) BY <1>1, <1>4 DEF CloseBehind
  <1>6. b[1] # "close" => CloseBehind(S, r, Tail(b)) BY <1>1, <1>2 DEF CloseBehind
  <1> QED BY <1>0, <1>5, <1>6 DEF w

-----------------------------------------------------------------------------
(* WebSocket: every step keeps the invariant                                *)

(* The sequences the code posts.                                            *)
LEMMA Literals ==
  /\ \A x, y : Occurs(x, <<y>>) <=> x = y
  /\ \A x, y, z : Occurs(x, <<y, z>>) <=> x = y \/ x = z
  /\ \A x, y : First(x, <<y>>) /\ Once(x, <<y>>)
  /\ \A x : ~Occurs(x, <<>>) /\ First(x, <<>>) /\ Once(x, <<>>)
  /\ FailFirst(<<"fail", "resume">>)
  BY DEF Occurs, First, Once, FailFirst

LEMMA FailJoined ==
  ASSUME NEW T, NEW q \in Seq(T), NEW w \in Seq(T), FailFirst(w)
  PROVE  FailFirst(q \o w)
  <1>1. PICK i \in DOMAIN w, j \in DOMAIN w : i < j /\ w[i] = "fail" /\ w[j] = "resume" BY DEF FailFirst
  <1>2. i \in Nat /\ j \in Nat /\ Len(q) \in Nat BY Joined
  <1>3. i + Len(q) < j + Len(q) BY <1>1, <1>2
  <1>4. /\ i + Len(q) \in DOMAIN (q \o w) /\ (q \o w)[i + Len(q)] = "fail"
        /\ j + Len(q) \in DOMAIN (q \o w) /\ (q \o w)[j + Len(q)] = "resume"
    BY <1>1, Joined
  <1> QED BY <1>3, <1>4 DEF FailFirst

LEMMA TaskSeqs ==
  /\ Seq(Tasks) \subseteq Seq(Work) /\ Seq(Socket!Message) \subseteq Seq(Work)
  /\ Seq(Socket!Message \cup {"connect", "close"}) \subseteq Seq(Work)
  /\ \A w \in Seq(Tasks) : \A i \in DOMAIN w : w[i] \notin Socket!Message
  /\ <<"connect">> \in Seq(Tasks) /\ <<"close">> \in Seq(Tasks) /\ <<"fail">> \in Seq(Tasks)
  /\ <<"resume">> \in Seq(Tasks) /\ <<"closed">> \in Seq(Tasks)
  /\ <<"fail", "resume">> \in Seq(Tasks) /\ <<"close", "fail">> \in Seq(Tasks)
  <1>1. Tasks \subseteq Work /\ Socket!Message \subseteq Work /\ Socket!Message \cup {"connect",
          "close"} \subseteq Work
    BY DEF Work, Tasks
  <1>2. \A x \in Tasks : x \notin Socket!Message BY MessagesAssumption
  <1>3. \A w \in Seq(Tasks) : \A i \in DOMAIN w : w[i] \in Tasks OBVIOUS
  <1>4. /\ <<"connect">> \in Seq(Tasks) /\ <<"close">> \in Seq(Tasks) /\ <<"fail">> \in Seq(Tasks)
        /\ <<"resume">> \in Seq(Tasks) /\ <<"closed">> \in Seq(Tasks)
        /\ <<"fail", "resume">> \in Seq(Tasks) /\ <<"close", "fail">> \in Seq(Tasks)
    BY DEF Tasks
  <1> QED BY <1>1, <1>2, <1>3, <1>4

(* Tasks are posted; neither Connect nor the rest of a write.               *)
Posts(w) == w \in Seq(Tasks) /\ background' = background \o w
Quiet == background' = background \/ \E w : Posts(w)
NoNewTask ==
  background' = background \/ \E w : Posts(w) /\ ~Occurs("connect", w) /\ ~Occurs("resume", w)

LEMMA Posted ==
  ASSUME SocketInv, NEW w, Posts(w)
  PROVE  /\ background' \in Seq(Work)
         /\ \A x : Occurs(x, background') <=> Occurs(x, background) \/ Occurs(x, w)
         /\ \A x : First(x, background) /\ ~Occurs(x, w) => First(x, background')
         /\ \A x : background = <<>> /\ First(x, w) => First(x, background')
         /\ \A x : Once(x, background) /\ ~Occurs(x, w) => Once(x, background')
         /\ \A x : Once(x, w) /\ ~Occurs(x, background) => Once(x, background')
         /\ FailFirst(background) \/ FailFirst(w) => FailFirst(background')
  <1>1. background \in Seq(Work) /\ w \in Seq(Work) /\ background' = background \o w
    BY TaskSeqs DEF SocketInv, SocketTypes, Posts
  <1>2. background \o w \in Seq(Work) BY <1>1
  <1> QED BY <1>1, <1>2, PlacesAfterJoin, FailStaysFirst, FailJoined

(* What the parts of the line are.                                          *)
LEMMA OutType ==
  ASSUME SocketInv
  PROVE  /\ Out \in Seq(Work) /\ Unstored \in Seq(Work) /\ background \in Seq(Work) /\ sequencer \in Seq(Work)
         /\ Len(sent) \in Nat /\ Len(Out) = Len(stored) /\ DOMAIN Out = DOMAIN stored
         /\ step # "storing" => Unstored = sequencer
         /\ step = "storing" => Unstored = Tail(sequencer)
  <1>1. background \in Seq(Work) /\ sequencer \in Seq(Work) BY TaskSeqs DEF SocketInv, SocketTypes
  <1>2. Len(sent) \in Nat BY DEF SocketInv, SocketTypes
  <1>3. Unstored \in Seq(Work)
    <2>1. CASE step = "storing"
      <3>1. sequencer # <<>> BY <2>1 DEF SocketInv, TaskInv
      <3> QED BY <1>1, <2>1, <3>1, Tailed DEF Unstored
    <2> QED BY <1>1, <2>1 DEF Unstored
  <1>4. Out \in Seq(Socket!Message) /\ Len(Out) = Len(stored) /\ DOMAIN Out = DOMAIN stored
    <2>1. \A i \in 1..Len(stored) : stored[i][1] \in Socket!Message BY DEF SocketInv, SocketTypes, OrderInv
    <2>2. DOMAIN stored = 1..Len(stored) /\ Len(stored) \in Nat BY DEF SocketInv, SocketTypes
    <2> QED BY <2>1, <2>2 DEF Out
  <1> QED BY <1>1, <1>2, <1>3, <1>4, TaskSeqs DEF Unstored

(* A step that sends and stores nothing keeps the order.                    *)
LEMMA OrderStep ==
  ASSUME SocketInv, UNCHANGED <<stored, sent>>, Quiet,
         Unstored' = Unstored \/ (Unstored # <<>> /\ Unstored' = Tail(Unstored))
  PROVE  OrderInv'
  <1> DEFINE n == Len(sent)
  <1>1. InLine(n, Out, Unstored, background) BY DEF SocketInv, OrderInv
  <1>2. Out' = Out /\ n' = n BY DEF Out
  <1>3. PICK r \in Seq(Work) : Unstored' = r /\ InLine(n, Out, r, background)
    BY <1>1, OutType, LineSkip, Tailed
  <1>4. InLine(n, Out, r, background')
    <2>1. CASE background' = background BY <1>3, <2>1
    <2>2. ASSUME NEW w, Posts(w) PROVE InLine(n, Out, r, background')
      <3>1. w \in Seq(Work) /\ (\A i \in DOMAIN w : w[i] \notin Socket!Message) /\ background' = background \o w
        BY <2>2, TaskSeqs DEF Posts
      <3> QED BY <1>3, <3>1, LinePost, OutType
    <2> QED BY <2>1, <2>2 DEF Quiet
  <1> QED BY <1>2, <1>3, <1>4 DEF SocketInv, OrderInv

(* A step that takes nothing from the background queue keeps Close behind.  *)
LEMMA CloseStep ==
  ASSUME SocketInv, UNCHANGED <<beforeClose, sent>>, Quiet,
         sequencer' = sequencer \/ (sequencer # <<>> /\ sequencer' = Tail(sequencer))
  PROVE  CloseInv'
  <1>0. Covered' = Covered BY DEF Covered
  <1>1. CloseBehind(Covered, sequencer, background) BY DEF SocketInv, CloseInv
  <1>2. PICK r \in Seq(Work) : sequencer' = r /\ CloseBehind(Covered, r, background)
    BY <1>1, OutType, CloseSkip, Tailed
  <1>3. CloseBehind(Covered, r, background')
    <2>1. CASE background' = background BY <1>2, <2>1
    <2>2. ASSUME NEW w, Posts(w) PROVE CloseBehind(Covered, r, background')
      <3>1. w \in Seq(Work) /\ (\A i \in DOMAIN w : w[i] \notin Socket!Message) /\ background' = background \o w
        BY <2>2, TaskSeqs DEF Posts
      <3>2. Covered \subseteq Socket!Message BY DEF Covered, SocketInv, SocketTypes
      <3> QED BY <1>2, <3>1, <3>2, ClosePost, OutType
    <2> QED BY <2>1, <2>2 DEF Quiet
  <1> QED BY <1>0, <1>2, <1>3 DEF SocketInv, CloseInv

(* The running task ends.                                                   *)
LEMMA TaskEnds ==
  ASSUME SocketInv, sequencer # <<>>, Socket!Complete, UNCHANGED <<stored, sent, beforeClose, m_writer>>, NoNewTask,
         step # "resume", m_readyState' = m_readyState \/ m_readyState' # "Open",
         socket' \in {"connecting", "open", "closed"} \/ UNCHANGED socket,
         ~Occurs("open", calling')
  PROVE  TaskInv' /\ WriterInv' /\ OrderInv' /\ CloseInv' /\ sequencer' \in Seq(Socket!Message \cup {"connect",
    "close"})
         /\ background' \in Seq(Work)
  <1>1. sequencer' = Tail(sequencer) /\ step' = "start" BY DEF Socket!Complete
  <1>2. ~Occurs("connect", background) /\ ~Occurs("resume", background) BY DEF SocketInv, TaskInv
  <1>3. ~Occurs("connect", background') /\ ~Occurs("resume", background') /\ background' \in Seq(Work)
    BY <1>2, Posted DEF NoNewTask, SocketInv, SocketTypes
  <1>4. First("connect", sequencer') /\ ~Occurs("connect", sequencer')
    BY <1>1, OutType, PlacesAfterTail DEF SocketInv, TaskInv
  <1>5. TaskInv'
    <2>1. First("connect", background') /\ Once("resume", background') /\ Once("open", calling')
      BY <1>3 DEF Occurs, First, Once
    <2>2. socket' \notin {"new", "none"} BY DEF SocketInv, TaskInv
    <2> QED BY <1>1, <1>3, <1>4, <2>1, <2>2 DEF TaskInv
  <1>6. WriterInv'
    <2>1. MayStore' => MayStore BY <1>3, <1>4 DEF MayStore
    <2> QED BY <1>1, <2>1 DEF SocketInv, WriterInv
  <1>7. Unstored' = Unstored \/ (Unstored # <<>> /\ Unstored' = Tail(Unstored)) BY <1>1 DEF Unstored
  <1>8. OrderInv' BY <1>7, OrderStep DEF NoNewTask, Quiet
  <1>9. CloseInv' BY <1>1, CloseStep DEF NoNewTask, Quiet
  <1>10. sequencer' \in Seq(Socket!Message \cup {"connect", "close"}) BY <1>1, Tailed DEF SocketInv, SocketTypes
  <1> QED BY <1>3, <1>5, <1>6, <1>8, <1>9, <1>10

LEMMA FailPosts ==
  ASSUME Socket!Fail PROVE Posts(<<"fail">>)
  BY TaskSeqs DEF Socket!Fail, Socket!PostBackground, Posts

(* Tasks are posted, and the running one, if any, goes on.                  *)
LEMMA TaskGoesOn ==
  ASSUME SocketInv, UNCHANGED <<stored, sent, beforeClose, m_writer, sequencer, step>>, NoNewTask,
         m_readyState' = m_readyState \/ m_readyState' # "Open",
         socket' \notin {"new", "none"} \/ UNCHANGED <<socket, background>>,
         Occurs("open", calling') <=> Occurs("open", calling), Once("open", calling')
  PROVE  TaskInv' /\ WriterInv' /\ OrderInv' /\ CloseInv' /\ background' \in Seq(Work)
  <1>1. /\ background' \in Seq(Work) /\ First("connect", background') /\ Once("resume", background')
        /\ Occurs("connect", background') <=> Occurs("connect", background)
        /\ Occurs("resume", background') <=> Occurs("resume", background)
        /\ FailFirst(background) => FailFirst(background')
    BY Posted DEF NoNewTask, SocketInv, SocketTypes, TaskInv
  <1>2. TaskInv' BY <1>1 DEF SocketInv, TaskInv
  <1>3. WriterInv' BY <1>1 DEF SocketInv, WriterInv, MayStore
  <1>4. Unstored' = Unstored BY DEF Unstored
  <1>5. OrderInv' BY <1>4, OrderStep DEF NoNewTask, Quiet
  <1>6. CloseInv' BY CloseStep DEF NoNewTask, Quiet
  <1> QED BY <1>1, <1>2, <1>3, <1>5, <1>6

(* The calls of JavaScript.                                                 *)
LEMMA ConnectInv == SocketInv /\ Socket!Connect => SocketInv'
  <1> SUFFICES ASSUME SocketInv, Socket!Connect PROVE SocketInv' OBVIOUS
  <1>1. background = <<>> /\ sequencer = <<>> /\ m_writer = <<>> /\ socket = "new"
    BY DEF SocketInv, TaskInv, Socket!Connect
  <1>2. step \notin {"resume", "calling", "connecting", "connected", "storing"} /\ ~Occurs("open", calling)
    BY <1>1, Literals DEF SocketInv, TaskInv
  <1>3. Quiet BY TaskSeqs DEF Socket!Connect, Quiet, Posts, Socket!Fail, Socket!PostBackground
  <1>4. Unstored' = Unstored BY DEF Unstored, Socket!Connect
  <1>5. OrderInv' /\ CloseInv' BY <1>3, <1>4, OrderStep, CloseStep DEF Socket!Connect
  <1>6. background' = <<>> \/ background' = <<"connect">> \/ background' = <<"fail">>
    BY <1>1 DEF Socket!Connect, Socket!PostBackground, Socket!Fail
  <1>7. SocketTypes'
    <2>1. <<>> \in Seq(Work) /\ <<"connect">> \in Seq(Work) /\ <<"fail">> \in Seq(Work) BY DEF Work, Tasks
    <2>2. background' \in Seq(Work) BY <1>6, <2>1
    <2> QED BY <2>2 DEF SocketInv, SocketTypes, Socket!Connect
  <1>8. TaskInv'
    <2>1. First("connect", background') /\ ~Occurs("resume", background') /\ Once("resume", background')
      BY <1>6, Literals
    <2>2. socket' = "none" => background' = <<>> BY <1>1 DEF Socket!Connect
    <2>3. socket' # "new" /\ UNCHANGED <<sequencer, step, calling, m_writer>> BY DEF Socket!Connect
    <2> QED BY <1>1, <1>2, <2>1, <2>2, <2>3 DEF SocketInv, TaskInv
  <1>9. WriterInv' BY <1>1, <1>2 DEF WriterInv, Socket!Connect
  <1> QED BY <1>5, <1>7, <1>8, <1>9 DEF SocketInv

LEMMA SendInv == SocketInv /\ Socket!Send => SocketInv'
  <1> SUFFICES ASSUME SocketInv, Socket!Send PROVE SocketInv' OBVIOUS
  <1> DEFINE n == Len(sent)  m == Messages[n + 1]  w == <<m>>
  <1>0. /\ UNCHANGED <<m_readyState, sequencer, step, calling, m_writer, stored, socket, received, beforeClose>>
        /\ sent' = Append(sent, m) /\ background' = background \o w /\ n < Len(Messages)
        /\ socket \notin {"new", "none"}
    BY DEF Socket!Send, Socket!PostBackground
  <1>1. n \in Nat /\ Len(Messages) \in Nat /\ DOMAIN Messages = 1..Len(Messages) /\ n + 1 \in DOMAIN Messages
    BY <1>0, MessagesAssumption DEF SocketInv, SocketTypes
  <1>2. m \in Socket!Message /\ m \in Work /\ m \notin Tasks BY <1>1, MessagesAssumption DEF Socket!Message,
                                                                Work
  <1>3. w \in Seq(Work) /\ DOMAIN w = {1} /\ w[1] = m /\ \A x : Occurs(x, w) <=> x = m BY <1>2, Literals
  <1>4. /\ sent' \in Seq(Socket!Message) /\ Len(sent') = n + 1 /\ DOMAIN sent' = 1..(n + 1) /\ sent'[n + 1] = m
        /\ DOMAIN sent = 1..n /\ \A k \in 1..n : sent'[k] = sent[k]
    BY <1>0, <1>1, <1>2 DEF SocketInv, SocketTypes
  <1>a. \A k \in 1..n : sent[k] = Messages[k] BY <1>4 DEF SocketInv, OrderInv
  <1>5. OrderInv'
    <2>1. InLine(n + 1, Out, Unstored, background \o w) BY <1>0, <1>1, LineSend, OutType DEF SocketInv, OrderInv
    <2>2. Out' = Out /\ Unstored' = Unstored BY <1>0 DEF Out, Unstored
    <2>3. \A k \in 1..(n + 1) : sent'[k] = Messages[k] BY <1>1, <1>4, <1>a
    <2>4. InLine(Len(sent'), Out', Unstored', background') BY <1>0, <1>4, <2>1, <2>2
    <2> QED BY <1>0, <1>1, <1>4, <2>3, <2>4 DEF SocketInv, OrderInv
  <1>6. CloseInv'
    <2>1. Covered' = Covered BY <1>0 DEF Covered
    <2>2. \A x \in Covered : \E k \in 1..n : sent[k] = x BY <1>4 DEF SocketInv, CloseInv
    <2>3. m \notin Covered
      <3> SUFFICES ASSUME NEW k \in 1..n, Messages[k] = m PROVE FALSE BY <2>2, <1>a
      <3>1. k \in DOMAIN Messages /\ k # n + 1 BY <1>1
      <3> QED BY <1>1, <3>1, MessagesAssumption
    <2>4. CloseBehind(Covered, sequencer, background \o w)
      <3> HIDE DEF w
      <3> QED BY <1>3, <2>3, ClosePost, OutType DEF SocketInv, CloseInv
    <2>5. \A x \in Covered' : \E k \in DOMAIN sent' : sent'[k] = x BY <1>1, <1>4, <2>1, <2>2
    <2> QED BY <1>0, <2>1, <2>4, <2>5 DEF CloseInv
  <1> HIDE DEF n, m, w
  <1>7. background \in Seq(Work) BY OutType
  <1>8. SocketTypes'
    <2>1. background' \in Seq(Work) BY <1>0, <1>3, <1>7, Joined
    <2> QED BY <1>0, <1>4, <2>1 DEF SocketInv, SocketTypes
  <1>9. /\ \A x \in Tasks : Occurs(x, background') <=> Occurs(x, background)
        /\ \A x \in Tasks : First(x, background) => First(x, background')
        /\ \A x \in Tasks : Once(x, background) => Once(x, background')
        /\ FailFirst(background) => FailFirst(background')
    BY <1>0, <1>2, <1>3, <1>7, PlacesAfterJoin, FailStaysFirst
  <1>10. TaskInv'
    <2>1. "connect" \in Tasks /\ "resume" \in Tasks BY DEF Tasks
    <2> QED BY <1>0, <1>9, <2>1 DEF SocketInv, TaskInv
  <1>11. WriterInv'
    <2>1. "connect" \in Tasks BY DEF Tasks
    <2> QED BY <1>0, <1>9, <2>1 DEF SocketInv, WriterInv, MayStore
  <1> QED BY <1>5, <1>6, <1>8, <1>10, <1>11 DEF SocketInv

LEMMA CloseCallInv == SocketInv /\ Socket!Close => SocketInv'
  <1> SUFFICES ASSUME SocketInv, Socket!Close PROVE SocketInv' OBVIOUS
  <1>0. /\ UNCHANGED <<m_readyState, sequencer, step, calling, m_writer, stored, socket, received, sent>>
        /\ beforeClose = <<>> /\ beforeClose' = <<sent>> /\ Posts(<<"close">>) /\ socket \notin {"new", "none"}
    BY TaskSeqs DEF Socket!Close, Socket!PostBackground, Posts
  <1>1. Quiet BY <1>0 DEF Quiet
  <1>2. Unstored' = Unstored BY <1>0 DEF Unstored
  <1>3. OrderInv' BY <1>0, <1>1, <1>2, OrderStep
  <1>4. /\ background' \in Seq(Work) /\ First("connect", background') /\ Once("resume", background')
        /\ Occurs("connect", background') <=> Occurs("connect", background)
        /\ Occurs("resume", background') <=> Occurs("resume", background)
        /\ FailFirst(background) => FailFirst(background')
    BY <1>0, Posted, Literals DEF SocketInv, TaskInv
  <1>5. SocketTypes'
    <2>1. beforeClose' \in Seq(Seq(Socket!Message))
      <3>1. sent \in Seq(Socket!Message) BY DEF SocketInv, SocketTypes
      <3> QED BY <1>0, <3>1
    <2> QED BY <1>0, <1>4, <2>1 DEF SocketInv, SocketTypes
  <1>6. TaskInv' BY <1>0, <1>4 DEF SocketInv, TaskInv
  <1>7. WriterInv' BY <1>0, <1>4 DEF SocketInv, WriterInv, MayStore
  <1>8. CloseInv'
    <2>1. Covered' = {sent[i] : i \in DOMAIN sent}
      <3>1. beforeClose' # <<>> /\ beforeClose'[1] = sent BY <1>0
      <3> QED BY <3>1 DEF Covered
    <2>2. Covered' \subseteq Socket!Message BY <2>1 DEF SocketInv, SocketTypes
    <2>3. "close" \notin Socket!Message BY MessagesAssumption DEF Tasks
    <2> DEFINE w == <<"close">>
    <2>4. w \in Seq(Work) /\ DOMAIN w = {1} /\ w[1] = "close" /\ background \in Seq(Work)
            /\ background' = background \o w
      <3>1. w \in Seq(Work) /\ DOMAIN w = {1} /\ w[1] = "close" BY DEF Work, Tasks
      <3>2. background' = background \o w BY <1>0 DEF Posts
      <3> QED BY <3>1, <3>2, OutType
    <2>5. Occurs("close", background') BY <1>0, Posted, Literals
    <2> HIDE DEF w
    <2>6. ASSUME NEW i \in DOMAIN background', background'[i] \in Socket!Message
          PROVE  \E j \in DOMAIN background' : i < j /\ background'[j] = "close"
      <3>1. i \in DOMAIN background BY <2>3, <2>4, <2>6, Joined
      <3>2. 1 + Len(background) \in DOMAIN background' /\ background'[1 + Len(background)] = "close" BY <2>4,
                                                                                                        Joined
      <3>3. i < 1 + Len(background) BY <2>4, <3>1, Joined
      <3> QED BY <3>2, <3>3
    <2>7. CloseBehind(Covered', sequencer', background') BY <2>2, <2>5, <2>6 DEF CloseBehind
    <2>8. \A x \in Covered' : \E k \in DOMAIN sent' : sent'[k] = x BY <1>0, <2>1
    <2> QED BY <2>7, <2>8 DEF CloseInv
  <1> QED BY <1>3, <1>5, <1>6, <1>7, <1>8 DEF SocketInv

LEMMA FailIsNoTask ==
  ASSUME Socket!Fail \/ background' = background PROVE NoNewTask
  BY FailPosts, Literals DEF NoNewTask

LEMMA RunningTask ==
  ASSUME SocketInv, NEW task, Socket!Running(task)
  PROVE  sequencer # <<>> /\ sequencer[1] = task /\ socket \notin {"new", "none"}
  BY OutType, Tailed DEF Socket!Running, SocketInv, TaskInv

(* The tasks of the sequencer.                                              *)
LEMMA StartConnectInv == SocketInv /\ Socket!StartConnect => SocketInv'
  <1> SUFFICES ASSUME SocketInv, Socket!StartConnect PROVE SocketInv' OBVIOUS
  <1>0. sequencer # <<>> /\ sequencer[1] = "connect" /\ step = "start" /\ socket \notin {"new", "none"}
    BY RunningTask DEF Socket!StartConnect
  <1>1. UNCHANGED <<m_readyState, calling, m_writer, stored, socket, sent, beforeClose>>
    BY DEF Socket!StartConnect, Socket!js
  <1>2. ~Occurs("open", calling) /\ ~Occurs("resume", background) BY <1>0 DEF SocketInv, TaskInv
  <1>3. CASE Socket!Fail /\ Socket!Complete
    <2>1. NoNewTask BY <1>3, FailIsNoTask
    <2>2. /\ TaskInv' /\ WriterInv' /\ OrderInv' /\ CloseInv' /\ background' \in Seq(Work)
          /\ sequencer' \in Seq(Socket!Message \cup {"connect", "close"})
      BY <1>0, <1>1, <1>2, <1>3, <2>1, TaskEnds
    <2>3. SocketTypes' BY <1>1, <1>3, <2>2 DEF SocketInv, SocketTypes, Socket!Complete, Steps
    <2> QED BY <2>2, <2>3 DEF SocketInv
  <1>4. CASE step' = "connecting" /\ UNCHANGED <<background, sequencer>>
    <2>1. SocketTypes' BY <1>1, <1>4 DEF SocketInv, SocketTypes, Steps
    <2>2. TaskInv' BY <1>0, <1>1, <1>2, <1>4 DEF SocketInv, TaskInv
    <2>3. WriterInv' BY <1>0, <1>1, <1>4 DEF SocketInv, WriterInv, MayStore
    <2>4. Unstored' = Unstored BY <1>0, <1>4 DEF Unstored
    <2>5. OrderInv' BY <1>1, <1>4, <2>4, OrderStep DEF Quiet
    <2>6. CloseInv' BY <1>1, <1>4, CloseStep DEF Quiet
    <2> QED BY <2>1, <2>2, <2>3, <2>5, <2>6 DEF SocketInv
  <1> QED BY <1>3, <1>4 DEF Socket!StartConnect

LEMMA ConnectAsyncInv == SocketInv /\ Socket!ConnectAsync => SocketInv'
  <1> SUFFICES ASSUME SocketInv, Socket!ConnectAsync PROVE SocketInv' OBVIOUS
  <1>0. sequencer # <<>> /\ sequencer[1] = "connect" /\ step = "connecting" /\ socket \notin {"new", "none"}
    BY RunningTask DEF Socket!ConnectAsync
  <1>1. UNCHANGED <<m_readyState, calling, m_writer, stored, sent, beforeClose>> BY DEF Socket!ConnectAsync,
                                                                                    Socket!js
  <1>2. ~Occurs("open", calling) /\ ~Occurs("resume", background) BY <1>0 DEF SocketInv, TaskInv
  <1>3. CASE Socket!Fail /\ Socket!Complete /\ UNCHANGED socket
    <2>1. NoNewTask BY <1>3, FailIsNoTask
    <2>2. /\ TaskInv' /\ WriterInv' /\ OrderInv' /\ CloseInv' /\ background' \in Seq(Work)
          /\ sequencer' \in Seq(Socket!Message \cup {"connect", "close"})
      BY <1>0, <1>1, <1>2, <1>3, <2>1, TaskEnds
    <2>3. SocketTypes' BY <1>1, <1>3, <2>2 DEF SocketInv, SocketTypes, Socket!Complete, Steps
    <2> QED BY <2>2, <2>3 DEF SocketInv
  <1>4. CASE step' = "connected" /\ socket' = "open" /\ UNCHANGED <<background, sequencer>>
    <2>1. SocketTypes' BY <1>1, <1>4 DEF SocketInv, SocketTypes, Steps
    <2>2. TaskInv' BY <1>0, <1>1, <1>2, <1>4 DEF SocketInv, TaskInv
    <2>3. WriterInv' BY <1>0, <1>1, <1>4 DEF SocketInv, WriterInv, MayStore
    <2>4. Unstored' = Unstored BY <1>0, <1>4 DEF Unstored
    <2>5. OrderInv' BY <1>1, <1>4, <2>4, OrderStep DEF Quiet
    <2>6. CloseInv' BY <1>1, <1>4, CloseStep DEF Quiet
    <2> QED BY <2>1, <2>2, <2>3, <2>5, <2>6 DEF SocketInv
  <1> QED BY <1>3, <1>4 DEF Socket!ConnectAsync

LEMMA ConnectedInv == SocketInv /\ Socket!Connected => SocketInv'
  <1> SUFFICES ASSUME SocketInv, Socket!Connected PROVE SocketInv' OBVIOUS
  <1>0. sequencer # <<>> /\ sequencer[1] = "connect" /\ step = "connected" /\ socket \notin {"new", "none"}
    BY RunningTask DEF Socket!Connected
  <1>1. /\ UNCHANGED <<background, sequencer, m_writer, stored, socket, sent, beforeClose>>
        /\ m_readyState' = "Open" /\ step' = "calling" /\ calling' = calling \o <<"open">>
    BY DEF Socket!Connected, Socket!PostCalling, Socket!js
  <1>2. ~Occurs("open", calling) /\ ~Occurs("resume", background) BY <1>0 DEF SocketInv, TaskInv
  <1>3. <<"open">> \in Seq(Handler) BY DEF Handler
  <1>4. calling' \in Seq(Handler) /\ Occurs("open", calling') /\ Once("open", calling')
    <2>1. calling \in Seq(Handler) BY DEF SocketInv, SocketTypes
    <2> QED BY <1>1, <1>2, <1>3, <2>1, PlacesAfterJoin, Joined, Literals
  <1>5. SocketTypes' BY <1>1, <1>4 DEF SocketInv, SocketTypes, Steps
  <1>6. TaskInv' BY <1>0, <1>1, <1>2, <1>4 DEF SocketInv, TaskInv
  <1>7. WriterInv'
    <2>1. Occurs("connect", sequencer)
      <3>1. 1 \in DOMAIN sequencer BY <1>0, OutType, Tailed
      <3> QED BY <1>0, <3>1 DEF Occurs
    <2>2. m_writer = <<>> BY <1>0, <2>1 DEF SocketInv, WriterInv, MayStore
    <2> QED BY <1>1, <2>2 DEF WriterInv
  <1>8. Unstored' = Unstored BY <1>0, <1>1 DEF Unstored
  <1>9. OrderInv' BY <1>1, <1>8, OrderStep DEF Quiet
  <1>10. CloseInv' BY <1>1, CloseStep DEF Quiet
  <1> QED BY <1>5, <1>6, <1>7, <1>9, <1>10 DEF SocketInv

LEMMA PerformCloseInv == SocketInv /\ Socket!PerformClose => SocketInv'
  <1> SUFFICES ASSUME SocketInv, Socket!PerformClose PROVE SocketInv' OBVIOUS
  <1>0. sequencer # <<>> /\ step = "start" /\ Socket!Complete /\ NoNewTask
    BY RunningTask, FailIsNoTask DEF Socket!PerformClose
  <1>1. /\ UNCHANGED <<calling, m_writer, stored, sent, beforeClose>>
        /\ (m_readyState' = "Closing" /\ socket' = "closed") \/ UNCHANGED <<m_readyState, socket>>
    BY DEF Socket!PerformClose, Socket!js
  <1>2. ~Occurs("open", calling) BY <1>0 DEF SocketInv, TaskInv
  <1>3. /\ TaskInv' /\ WriterInv' /\ OrderInv' /\ CloseInv' /\ background' \in Seq(Work)
        /\ sequencer' \in Seq(Socket!Message \cup {"connect", "close"})
    BY <1>0, <1>1, <1>2, TaskEnds
  <1>4. SocketTypes' BY <1>0, <1>1, <1>3 DEF SocketInv, SocketTypes, Socket!Complete, Steps
  <1> QED BY <1>3, <1>4 DEF SocketInv

LEMMA StoreAsyncInv == ASSUME NEW m \in Socket!Message PROVE SocketInv /\ Socket!StoreAsync(m) => SocketInv'
  <1> SUFFICES ASSUME SocketInv, Socket!StoreAsync(m) PROVE SocketInv' OBVIOUS
  <1>0. sequencer # <<>> /\ step = "storing" /\ Socket!Complete /\ NoNewTask
    BY RunningTask, FailIsNoTask DEF Socket!StoreAsync
  <1>1. UNCHANGED <<m_readyState, calling, m_writer, stored, socket, sent, beforeClose>>
    BY DEF Socket!StoreAsync, Socket!js
  <1>2. ~Occurs("open", calling) BY <1>0 DEF SocketInv, TaskInv
  <1>3. /\ TaskInv' /\ WriterInv' /\ OrderInv' /\ CloseInv' /\ background' \in Seq(Work)
        /\ sequencer' \in Seq(Socket!Message \cup {"connect", "close"})
    BY <1>0, <1>1, <1>2, TaskEnds
  <1>4. SocketTypes' BY <1>0, <1>1, <1>3 DEF SocketInv, SocketTypes, Socket!Complete, Steps
  <1> QED BY <1>3, <1>4 DEF SocketInv

LEMMA PerformWriteInv == ASSUME NEW m \in Socket!Message PROVE SocketInv /\ Socket!PerformWrite(m) => SocketInv'
  <1> SUFFICES ASSUME SocketInv, Socket!PerformWrite(m) PROVE SocketInv' OBVIOUS
  <1>0. sequencer # <<>> /\ sequencer[1] = m /\ step = "start" /\ step' = "resume" /\ socket \notin {"new", "none"}
    BY RunningTask DEF Socket!PerformWrite
  <1>1. UNCHANGED <<m_readyState, sequencer, calling, stored, socket, sent, beforeClose>>
    BY DEF Socket!PerformWrite, Socket!js
  <1>2. PICK w \in {<<"resume">>, <<"fail", "resume">>} :
          /\ Posts(w)
          /\ \/ m_writer' = Append(m_writer, m)
             \/ w = <<"fail", "resume">> /\ UNCHANGED m_writer
    BY TaskSeqs DEF Socket!PerformWrite, Socket!PostBackground, Posts
  <1>3. ~Occurs("open", calling) /\ ~Occurs("resume", background) /\ ~Occurs("connect", background)
    BY <1>0 DEF SocketInv, TaskInv
  <1>4. Occurs("resume", w) /\ Once("resume", w) /\ ~Occurs("connect", w)
    BY <1>2, Literals DEF Once
  <1>5. /\ background' \in Seq(Work) /\ First("connect", background') /\ Once("resume", background')
        /\ ~Occurs("connect", background') /\ Occurs("resume", background')
        /\ w = <<"fail", "resume">> => FailFirst(background')
    BY <1>2, <1>3, <1>4, Posted, Literals DEF SocketInv, TaskInv
  <1>6. SocketTypes'
    <2>0. m_writer \in Seq(Socket!Message) /\ Append(m_writer, m) \in Seq(Socket!Message) BY DEF SocketInv,
                                                                                             SocketTypes
    <2>1. m_writer' \in Seq(Socket!Message)
      <3>1. m_writer' = Append(m_writer, m) \/ m_writer' = m_writer BY <1>2
      <3> QED BY <2>0, <3>1
    <2> QED BY <1>0, <1>1, <1>5, <2>1 DEF SocketInv, SocketTypes, Steps
  <1>7. TaskInv' BY <1>0, <1>1, <1>3, <1>5 DEF SocketInv, TaskInv
  <1>8. WriterInv'
    <2> SUFFICES ASSUME MayStore' PROVE m_writer' = <<m>> \/ FailFirst(background')
      BY <1>0, <1>1 DEF WriterInv
    <2>1. MayStore BY <1>1, <1>5 DEF MayStore
    <2>2. m_writer = <<>> BY <1>0, <2>1 DEF SocketInv, WriterInv
    <2> QED BY <1>2, <1>5, <2>2
  <1>9. Unstored' = Unstored BY <1>0, <1>1 DEF Unstored
  <1>10. Quiet BY <1>2 DEF Quiet
  <1>11. OrderInv' BY <1>1, <1>9, <1>10, OrderStep
  <1>12. CloseInv' BY <1>1, <1>10, CloseStep
  <1> QED BY <1>6, <1>7, <1>8, <1>11, <1>12 DEF SocketInv

(* The background queue takes its front.                                    *)
LEMMA Taken ==
  ASSUME SocketInv, background # <<>>, background' = Tail(background)
  PROVE  /\ background' \in Seq(Work) /\ background[1] = Head(background) /\ background[1] \in Work
         /\ Occurs(background[1], background) /\ ~Occurs("connect", background')
         /\ \A x : Occurs(x, background') => Occurs(x, background)
         /\ \A x : Occurs(x, background) => background[1] = x \/ Occurs(x, background')
         /\ First("connect", background') /\ Once("resume", background')
         /\ background[1] = "resume" => ~Occurs("resume", background') /\ ~FailFirst(background)
         /\ FailFirst(background) => background[1] = "fail" \/ FailFirst(background')
         /\ socket \notin {"new", "none"}
  <1>1. background \in Seq(Work) BY OutType
  <1>2. background' \in Seq(Work) /\ background[1] = Head(background) /\ background[1] \in Work
          /\ 1 \in DOMAIN background
    BY <1>1, Tailed
  <1>3. Occurs(background[1], background) BY <1>2 DEF Occurs
  <1>4. First("connect", background) /\ Once("resume", background) /\ socket \notin {"new", "none"}
    BY DEF SocketInv, TaskInv
  <1> QED BY <1>1, <1>2, <1>3, <1>4, PlacesAfterTail, FailStaysFirst

LEMMA CoveredMessages ==
  ASSUME SocketInv PROVE Covered \subseteq Socket!Message /\ "close" \notin Covered
  BY MessagesAssumption DEF SocketInv, SocketTypes, Covered, Tasks

(* The front is dropped: "fail", "closed" or "resume".                      *)
LEMMA DropKeepsOrder ==
  ASSUME SocketInv, background # <<>>, background' = Tail(background), Head(background) # "close",
         UNCHANGED <<sent, beforeClose>>
  PROVE  /\ CloseBehind(Covered, sequencer, background')
         /\ InLine(Len(sent), Out, Unstored, background')
         /\ UNCHANGED Covered
  <1>1. background \in Seq(Work) /\ sequencer \in Seq(Work) BY OutType
  <1>2. CloseBehind(Covered, sequencer, background) /\ InLine(Len(sent), Out, Unstored, background)
    BY DEF SocketInv, CloseInv, OrderInv
  <1>3. "close" \notin Covered BY CoveredMessages
  <1>4. CloseBehind(Covered, sequencer, Tail(background)) BY <1>1, <1>2, <1>3, CloseMove
  <1>5. InLine(Len(sent), Out, Unstored, Tail(background)) BY <1>1, <1>2, LineDrop, OutType
  <1>6. UNCHANGED Covered BY DEF Covered
  <1> QED BY <1>4, <1>5, <1>6

(* The background queue: a failure or the end, a task for the sequencer, the *)
(* rest of a write.                                                         *)
LEMMA BackgroundCloses ==
  ASSUME SocketInv, background # <<>>, background' = Tail(background),
         Head(background) \in {"fail", "closed"}, m_readyState' = "Closed",
         Socket!PostCalling(IF Head(background) = "fail" THEN <<"error">> ELSE <<>>),
         UNCHANGED <<sequencer, step, m_writer, stored, socket, sent, beforeClose>>
  PROVE  SocketInv'
  <1>1. Occurs("resume", background') <=> Occurs("resume", background) BY Taken
  <1>2. ~Occurs("connect", background) BY Taken DEF SocketInv, TaskInv, First, Occurs
  <1>3. /\ calling' \in Seq(Handler) /\ Once("open", calling')
        /\ Occurs("open", calling') <=> Occurs("open", calling)
    <2>1. PICK w \in {<<"error">>, <<>>} : calling' = calling \o w BY DEF Socket!PostCalling
    <2>2. w \in Seq(Handler)
      <3>1. <<"error">> \in Seq(Handler) /\ <<>> \in Seq(Handler) BY DEF Handler
      <3> QED BY <3>1
    <2>3. calling \in Seq(Handler) /\ Once("open", calling) BY DEF SocketInv, SocketTypes, TaskInv
    <2>4. ~Occurs("open", w) BY Literals
    <2> QED BY <2>1, <2>2, <2>3, <2>4, PlacesAfterJoin, Joined
  <1>4. SocketTypes' BY <1>3, Taken DEF SocketInv, SocketTypes
  <1>5. TaskInv' BY <1>1, <1>3, Taken DEF SocketInv, TaskInv
  <1>6. WriterInv'
    <2> SUFFICES ASSUME MayStore' PROVE step # "resume" /\ m_writer = <<>> BY DEF WriterInv
    <2>1. Occurs("connect", sequencer) BY Taken DEF MayStore
    <2>2. sequencer[1] = "connect" BY <2>1 DEF Occurs, SocketInv, TaskInv, First
    <2>3. "connect" \notin Socket!Message BY MessagesAssumption DEF Tasks
    <2>4. step # "resume" BY <2>2, <2>3 DEF SocketInv, TaskInv
    <2> QED BY <2>1, <2>4 DEF SocketInv, WriterInv, MayStore
  <1>7. Out' = Out /\ Unstored' = Unstored BY DEF Out, Unstored
  <1>8. OrderInv' BY <1>7, DropKeepsOrder DEF SocketInv, OrderInv
  <1>9. CloseInv' BY DropKeepsOrder DEF SocketInv, CloseInv
  <1> QED BY <1>4, <1>5, <1>6, <1>8, <1>9 DEF SocketInv

LEMMA BackgroundQueues ==
  ASSUME SocketInv, background # <<>>, background' = Tail(background),
         Head(background) \in Socket!Message \cup {"connect", "close"}, Socket!QueueTaskAsync(Head(background)),
         UNCHANGED <<m_readyState, step, calling, m_writer, stored, socket, sent, beforeClose>>
  PROVE  SocketInv'
  <1>0. "resume" \notin Socket!Message /\ "fail" \notin Socket!Message /\ "connect" \notin Socket!Message
    BY MessagesAssumption DEF Tasks
  <1>1. Head(background) = background[1] BY Taken
  <1>2. Occurs("resume", background') <=> Occurs("resume", background) BY <1>0, <1>1, Taken
  <1>3. FailFirst(background) => FailFirst(background') BY <1>0, <1>1, Taken
  <1> DEFINE w == <<Head(background)>>
  <1>4. /\ w \in Seq(Socket!Message \cup {"connect", "close"}) /\ sequencer' = sequencer \o w
        /\ \A x : Occurs(x, w) <=> x = background[1]
        /\ \A x : First(x, w)
    BY <1>1, AppendIsJoin, Literals DEF Socket!QueueTaskAsync, SocketInv, SocketTypes
  <1>5. sequencer \in Seq(Socket!Message \cup {"connect", "close"}) BY DEF SocketInv, SocketTypes
  <1>6. sequencer' \in Seq(Socket!Message \cup {"connect", "close"}) BY <1>4, <1>5, Joined
  <1>7. /\ \A x : Occurs(x, sequencer') <=> Occurs(x, sequencer) \/ x = background[1]
        /\ First("connect", sequencer')
        /\ sequencer # <<>> => sequencer' # <<>> /\ sequencer'[1] = sequencer[1]
    <2> HIDE DEF w
    <2>1. \A x : Occurs(x, sequencer') <=> Occurs(x, sequencer) \/ x = background[1]
      BY <1>4, <1>5, PlacesAfterJoin
    <2>2. background[1] = "connect" => sequencer = <<>> BY Taken DEF SocketInv, TaskInv
    <2>3. First("connect", sequencer) BY DEF SocketInv, TaskInv
    <2>4. First("connect", sequencer') BY <1>4, <1>5, <2>2, <2>3, PlacesAfterJoin
    <2>5. ASSUME sequencer # <<>> PROVE sequencer' # <<>> /\ sequencer'[1] = sequencer[1]
      <3>1. 1 \in DOMAIN sequencer BY <1>5, <2>5, Tailed
      <3>2. 1 \in DOMAIN (sequencer \o w) /\ (sequencer \o w)[1] = sequencer[1] BY <1>4, <1>5, <3>1, Joined
      <3> QED BY <1>4, <3>2
    <2> QED BY <2>1, <2>4, <2>5
  <1>8. SocketTypes' BY <1>6, Taken DEF SocketInv, SocketTypes
  <1>9. TaskInv' BY <1>2, <1>7, Taken DEF SocketInv, TaskInv
  <1>10. WriterInv'
    <2>1. MayStore' => MayStore BY <1>7, Taken DEF MayStore
    <2>2. step = "resume" => sequencer'[1] = sequencer[1] BY <1>7 DEF SocketInv, TaskInv
    <2> QED BY <1>3, <2>1, <2>2 DEF SocketInv, WriterInv
  <1>11. OrderInv'
    <2>1. background \in Seq(Work) /\ w \in Seq(Work) /\ InLine(Len(sent), Out, Unstored, background)
      BY <1>4, OutType, TaskSeqs DEF SocketInv, OrderInv
    <2>2. InLine(Len(sent), Out, Unstored \o w, background') BY <2>1, OutType, LineMove
    <2>3. Unstored' = Unstored \o w
      <3>1. CASE step = "storing"
        <4>1. sequencer # <<>> BY <3>1 DEF SocketInv, TaskInv
        <4>2. Tail(sequencer \o w) = Tail(sequencer) \o w
          <5> HIDE DEF w
          <5> QED BY <1>4, <1>5, <4>1
        <4> QED BY <1>4, <3>1, <4>2 DEF Unstored
      <3>2. CASE step # "storing" BY <1>4, <3>2 DEF Unstored
      <3> QED BY <3>1, <3>2
    <2>4. Out' = Out BY DEF Out
    <2> QED BY <2>2, <2>3, <2>4 DEF SocketInv, OrderInv
  <1>12. CloseInv'
    <2>1. background \in Seq(Work) /\ sequencer \in Seq(Work) /\ "close" \notin Covered
          /\ CloseBehind(Covered, sequencer, background)
      BY OutType, CoveredMessages DEF SocketInv, CloseInv
    <2>2. CloseBehind(Covered, sequencer', background') BY <1>4, <2>1, CloseMove
    <2>3. Covered' = Covered BY DEF Covered
    <2> QED BY <2>2, <2>3 DEF SocketInv, CloseInv
  <1> QED BY <1>8, <1>9, <1>10, <1>11, <1>12 DEF SocketInv

LEMMA BackgroundResumes ==
  ASSUME SocketInv, background # <<>>, background' = Tail(background), Head(background) = "resume",
           Socket!ResumeWrite,
         UNCHANGED <<m_readyState, calling, socket, sent, beforeClose>>
  PROVE  SocketInv'
  <1>1. background[1] = "resume" BY Taken
  <1>2. step = "resume" BY <1>1, Taken DEF SocketInv, TaskInv
  <1>3. sequencer # <<>> /\ sequencer[1] \in Socket!Message /\ ~Occurs("open", calling) /\ sequencer \in Seq(Work)
    BY <1>2, OutType DEF SocketInv, TaskInv
  <1>4. "connect" \notin Socket!Message /\ "close" # "resume" BY MessagesAssumption DEF Tasks
  <1>5. ~Occurs("connect", sequencer) BY <1>3, <1>4 DEF SocketInv, TaskInv, First, Occurs
  <1>6. ~Occurs("resume", background') /\ ~FailFirst(background) BY <1>1, Taken
  <1>7. Unstored = sequencer /\ InLine(Len(sent), Out, sequencer, background')
        /\ CloseBehind(Covered, sequencer, background') /\ Covered' = Covered
    BY <1>2, OutType, DropKeepsOrder
  <1>8. CASE m_readyState # "Open"
    <2>1. sequencer' = Tail(sequencer) /\ step' = "start" /\ UNCHANGED <<m_writer, stored>>
      BY <1>8 DEF Socket!ResumeWrite, Socket!Complete
    <2>2. sequencer' \in Seq(Socket!Message \cup {"connect", "close"}) BY <1>3, <2>1, Tailed DEF SocketInv,
                                                                          SocketTypes
    <2>3. ~Occurs("connect", sequencer') BY <1>3, <1>5, <2>1, PlacesAfterTail
    <2>4. SocketTypes' BY <2>1, <2>2, Taken DEF SocketInv, SocketTypes, Steps
    <2>5. TaskInv'
      <3>1. First("connect", sequencer') BY <2>3 DEF First, Occurs
      <3> QED BY <1>2, <1>3, <1>6, <2>1, <3>1, Taken DEF SocketInv, TaskInv
    <2>6. WriterInv' BY <1>8, <2>3, Taken DEF WriterInv, MayStore
    <2>7. Out' = Out /\ Unstored' = Tail(sequencer) BY <2>1 DEF Out, Unstored
    <2>8. InLine(Len(sent), Out, Tail(sequencer), background') BY <1>3, <1>7, LineSkip, OutType, Taken
    <2>9. OrderInv' BY <2>1, <2>7, <2>8 DEF SocketInv, OrderInv
    <2>10. CloseBehind(Covered, Tail(sequencer), background') BY <1>3, <1>7, CloseSkip, Taken
    <2>11. CloseInv' BY <1>7, <2>1, <2>10 DEF SocketInv, CloseInv
    <2> QED BY <2>4, <2>5, <2>6, <2>9, <2>11 DEF SocketInv
  <1>9. CASE m_readyState = "Open"
    <2> DEFINE m == sequencer[1]
    <2>1. m_writer = <<m>> BY <1>2, <1>6, <1>9 DEF SocketInv, WriterInv, MayStore
    <2>2. stored' = Append(stored, <<m>>) /\ m_writer' = <<>> /\ step' = "storing" /\ UNCHANGED sequencer
      BY <1>9, <2>1 DEF Socket!ResumeWrite
    <2>3. stored \in Seq(Seq(Socket!Message)) /\ <<m>> \in Seq(Socket!Message) BY <1>3 DEF SocketInv,
                                                                                  SocketTypes
    <2>4. stored' \in Seq(Seq(Socket!Message)) BY <2>2, <2>3
    <2>5. SocketTypes' BY <2>2, <2>4, Taken DEF SocketInv, SocketTypes, Steps
    <2>6. TaskInv' BY <1>2, <1>3, <1>6, <2>2, Taken DEF SocketInv, TaskInv
    <2>7. WriterInv' BY <2>2 DEF WriterInv
    <2>8. Unstored' = Tail(sequencer) BY <2>2 DEF Unstored
    <2>9. Out' = Out \o <<m>>
      <3>1. /\ Out \in Seq(Work) /\ Len(Out) = Len(stored) /\ DOMAIN Out = DOMAIN stored
            /\ DOMAIN stored = 1..Len(stored) /\ Len(stored) \in Nat
        BY <2>3, OutType
      <3>2. /\ DOMAIN stored' = 1..(Len(stored) + 1) /\ stored'[Len(stored) + 1] = <<m>>
            /\ \A i \in 1..Len(stored) : stored'[i] = stored[i]
        BY <2>2, <2>3
      <3> HIDE DEF m
      <3>3. DOMAIN Out' = 1..(Len(stored) + 1) /\ Out'[Len(stored) + 1] = m
            /\ \A i \in 1..Len(stored) : Out'[i] = stored[i][1]
        BY <3>1, <3>2 DEF Out
      <3>4. \A i \in 1..Len(stored) : Out[i] = stored[i][1] BY <3>1 DEF Out
      <3>5. m \in Work BY <1>3, <1>4 DEF m, Work
      <3>6. /\ Out \o <<m>> = [i \in 1..(Len(stored) + 1) |-> IF i <= Len(stored) THEN Out[i] ELSE m]
        BY <3>1, <3>5
      <3>7. Out' = [i \in DOMAIN stored' |-> stored'[i][1]] BY DEF Out
      <3> QED BY <3>1, <3>2, <3>3, <3>4, <3>6, <3>7
    <2>10. Head(sequencer) = m BY <1>3, Tailed
    <2>11. InLine(Len(sent), Out', Unstored', background') BY <1>3, <1>7, <2>8, <2>9, <2>10, LineStore,
                                                              OutType, Taken
    <2>12. \A i \in DOMAIN stored' : Len(stored'[i]) = 1
      <3>1. \A i \in DOMAIN stored : Len(stored[i]) = 1 BY DEF SocketInv, OrderInv
      <3>2. Len(<<m>>) = 1 OBVIOUS
      <3> HIDE DEF m
      <3> QED BY <2>2, <2>3, <3>1, <3>2
    <2>13. OrderInv' BY <2>11, <2>12 DEF SocketInv, OrderInv
    <2>14. CloseInv' BY <1>7, <2>2 DEF SocketInv, CloseInv
    <2> QED BY <2>5, <2>6, <2>7, <2>13, <2>14 DEF SocketInv
  <1> QED BY <1>8, <1>9

LEMMA BackgroundInv == SocketInv /\ Socket!Background => SocketInv'
  BY BackgroundCloses, BackgroundQueues, BackgroundResumes DEF Socket!Background, Socket!js

(* The handlers and the events of the socket.                               *)
LEMMA CallingInv == SocketInv /\ Socket!Calling => SocketInv'
  <1> SUFFICES ASSUME SocketInv, Socket!Calling PROVE SocketInv' OBVIOUS
  <1>0. /\ calling # <<>> /\ calling' = Tail(calling)
        /\ UNCHANGED <<m_readyState, background, m_writer, stored, socket, sent, beforeClose>>
    BY DEF Socket!Calling
  <1>1. calling \in Seq(Handler) /\ Once("open", calling) BY DEF SocketInv, SocketTypes, TaskInv
  <1>2. calling' \in Seq(Handler) /\ Head(calling) = calling[1] /\ 1 \in DOMAIN calling BY <1>0, <1>1, Tailed
  <1>3. /\ Once("open", calling') /\ (calling[1] = "open" => ~Occurs("open", calling'))
        /\ Occurs("open", calling') => Occurs("open", calling)
        /\ Occurs("open", calling) => calling[1] = "open" \/ Occurs("open", calling')
    BY <1>0, <1>1, PlacesAfterTail
  <1>4. NoNewTask BY <1>0 DEF NoNewTask
  <1>5. CASE calling[1] = "open"
    <2>1. Socket!Complete BY <1>2, <1>5 DEF Socket!Calling
    <2>2. step = "calling" BY <1>2, <1>5 DEF SocketInv, TaskInv, Occurs
    <2>3. sequencer # <<>> BY <2>2 DEF SocketInv, TaskInv
    <2>4. /\ TaskInv' /\ WriterInv' /\ OrderInv' /\ CloseInv' /\ background' \in Seq(Work)
          /\ sequencer' \in Seq(Socket!Message \cup {"connect", "close"})
      BY <1>0, <1>3, <1>4, <1>5, <2>1, <2>2, <2>3, TaskEnds
    <2>5. SocketTypes' BY <1>0, <1>2, <2>1, <2>4 DEF SocketInv, SocketTypes, Socket!Complete, Steps
    <2> QED BY <2>4, <2>5 DEF SocketInv
  <1>6. CASE calling[1] # "open"
    <2>1. UNCHANGED <<sequencer, step>> BY <1>2, <1>6 DEF Socket!Calling
    <2>2. TaskInv' /\ WriterInv' /\ OrderInv' /\ CloseInv' /\ background' \in Seq(Work)
      BY <1>0, <1>3, <1>4, <1>6, <2>1, TaskGoesOn
    <2>3. SocketTypes' BY <1>0, <1>2, <2>1 DEF SocketInv, SocketTypes
    <2> QED BY <2>2, <2>3 DEF SocketInv
  <1> QED BY <1>5, <1>6

(* A handler other than "open" is posted.                                   *)
LEMMA HandlerPosted ==
  ASSUME SocketInv, NEW h \in Handler \ {"open"}, Socket!PostCalling(<<h>>)
  PROVE  /\ calling' \in Seq(Handler) /\ Once("open", calling')
         /\ Occurs("open", calling') <=> Occurs("open", calling)
  <1>1. calling \in Seq(Handler) /\ Once("open", calling) BY DEF SocketInv, SocketTypes, TaskInv
  <1>2. <<h>> \in Seq(Handler) /\ ~Occurs("open", <<h>>) BY Literals
  <1>3. calling' = calling \o <<h>> BY DEF Socket!PostCalling
  <1> QED BY <1>1, <1>2, <1>3, PlacesAfterJoin, Joined

(* Something happens to the socket: a handler or tasks are posted.          *)
LEMMA EventInv ==
  ASSUME SocketInv, NoNewTask, socket \in {"open", "closed"},
         calling' = calling \/ \E h \in Handler \ {"open"} : Socket!PostCalling(<<h>>),
         UNCHANGED <<m_readyState, sequencer, step, m_writer, stored, socket, sent, beforeClose>>
  PROVE  SocketInv'
  <1>1. /\ calling' \in Seq(Handler) /\ Once("open", calling')
        /\ Occurs("open", calling') <=> Occurs("open", calling)
    BY HandlerPosted DEF SocketInv, SocketTypes, TaskInv
  <1>2. TaskInv' /\ WriterInv' /\ OrderInv' /\ CloseInv' /\ background' \in Seq(Work)
    BY <1>1, TaskGoesOn
  <1>3. SocketTypes' BY <1>1, <1>2 DEF SocketInv, SocketTypes
  <1> QED BY <1>2, <1>3 DEF SocketInv

LEMMA OnMessageReceivedInv == SocketInv /\ Socket!OnMessageReceived => SocketInv'
  <1> SUFFICES ASSUME SocketInv, Socket!OnMessageReceived PROVE SocketInv' OBVIOUS
  <1>1. /\ UNCHANGED <<m_readyState, sequencer, step, m_writer, stored, socket, sent, beforeClose>>
        /\ socket \in {"open", "closed"}
    BY DEF Socket!OnMessageReceived, Socket!js
  <1>2. "message" \in Handler \ {"open"} BY DEF Handler
  <1>3. calling' = calling \/ \E h \in Handler \ {"open"} : Socket!PostCalling(<<h>>)
    BY <1>2 DEF Socket!OnMessageReceived
  <1>4. ASSUME Socket!PostBackground(<<"close", "fail">>) PROVE NoNewTask
    <2>1. Posts(<<"close", "fail">>) BY <1>4, TaskSeqs DEF Socket!PostBackground, Posts
    <2>2. ~Occurs("connect", <<"close", "fail">>) /\ ~Occurs("resume", <<"close", "fail">>) BY Literals
    <2> QED BY <2>1, <2>2 DEF NoNewTask
  <1>5. NoNewTask BY <1>4, FailIsNoTask DEF Socket!OnMessageReceived
  <1> QED BY <1>1, <1>3, <1>5, EventInv

LEMMA OnClosedInv == SocketInv /\ Socket!OnClosed => SocketInv'
  <1> SUFFICES ASSUME SocketInv, Socket!OnClosed PROVE SocketInv' OBVIOUS
  <1>1. /\ UNCHANGED <<m_readyState, sequencer, step, m_writer, stored, socket, sent, beforeClose>>
        /\ socket \in {"open", "closed"}
    BY DEF Socket!OnClosed, Socket!js
  <1>2. "close" \in Handler \ {"open"} BY DEF Handler
  <1>3. \E h \in Handler \ {"open"} : Socket!PostCalling(<<h>>) BY <1>2 DEF Socket!OnClosed
  <1>4. NoNewTask
    <2>1. Posts(<<"closed">>) BY TaskSeqs DEF Socket!OnClosed, Socket!PostBackground, Posts
    <2>2. ~Occurs("connect", <<"closed">>) /\ ~Occurs("resume", <<"closed">>) BY Literals
    <2> QED BY <2>1, <2>2 DEF NoNewTask
  <1> QED BY <1>1, <1>3, <1>4, EventInv

LEMMA SocketInit == Socket!Init => SocketInv
  <1> SUFFICES ASSUME Socket!Init PROVE SocketInv OBVIOUS
  <1>1. SocketTypes BY DEF Socket!Init, SocketTypes, Steps
  <1>2. TaskInv BY Literals DEF Socket!Init, TaskInv
  <1>3. WriterInv BY DEF Socket!Init, WriterInv
  <1>4. OrderInv
    <2>1. Out = <<>> /\ Unstored = <<>> BY DEF Socket!Init, Out, Unstored
    <2>2. \A n : InLine(n, <<>>, <<>>, <<>>) BY DEF InLine, InOrder, Ahead, AmongFirst
    <2>3. Len(sent) <= Len(Messages) /\ background = <<>> BY MessagesAssumption DEF Socket!Init
    <2>4. InLine(Len(sent), Out, Unstored, background) BY <2>1, <2>2, <2>3
    <2> QED BY <2>3, <2>4 DEF OrderInv, Socket!Init
  <1>5. CloseInv
    <2>1. Covered = {} BY DEF Socket!Init, Covered
    <2> QED BY <2>1 DEF CloseInv, CloseBehind
  <1> QED BY <1>1, <1>2, <1>3, <1>4, <1>5 DEF SocketInv

LEMMA SocketUnchanged == SocketInv /\ UNCHANGED Socket!vars => SocketInv'
  <1> SUFFICES ASSUME SocketInv, UNCHANGED Socket!vars PROVE SocketInv' OBVIOUS
  <1>1. UNCHANGED <<m_readyState, background, sequencer, step, calling, m_writer, stored, socket, sent,
          beforeClose>>
    BY DEF Socket!vars, Socket!queues, Socket!js
  <1>2. UNCHANGED <<Out, Unstored, Covered>> BY <1>1 DEF Out, Unstored, Covered
  <1> QED BY <1>1, <1>2 DEF SocketInv, SocketTypes, TaskInv, WriterInv, MayStore, OrderInv, CloseInv

LEMMA SocketStep == SocketInv /\ [Socket!Next]_Socket!vars => SocketInv'
  BY SocketUnchanged, ConnectInv, SendInv, CloseCallInv, StartConnectInv, ConnectAsyncInv, ConnectedInv,
     PerformCloseInv, PerformWriteInv, StoreAsyncInv, BackgroundInv, CallingInv, OnMessageReceivedInv,
     OnClosedInv DEF Socket!Next, Socket!Sequencer

-----------------------------------------------------------------------------
(* WebSocket: theorems                                                      *)

(* SocketInv holds in every reachable state of a WebSocket.                 *)
THEOREM SocketInvariant == Socket!Spec => []SocketInv
  BY SocketInit, SocketStep, PTL DEF Socket!Spec

(* A task that waits for a queue is the running one and is waited for once. *)
THEOREM SocketTypeCorrect == Socket!Spec => []Socket!TypeOK
  <1>1. SocketInv => Socket!TypeOK
    BY DEF SocketInv, SocketTypes, TaskInv, Once, Occurs, Socket!TypeOK
  <1> QED BY <1>1, SocketInvariant, PTL

LEMMA StoresInOrder == SocketInv => Socket!StoresAreMessagesInOrder
  <1> SUFFICES ASSUME SocketInv PROVE Socket!StoresAreMessagesInOrder OBVIOUS
  <1>1. \A i \in DOMAIN stored : Len(stored[i]) = 1 BY DEF SocketInv, OrderInv
  <1>2. ASSUME NEW i \in DOMAIN stored, NEW j \in DOMAIN stored, i < j
        PROVE  \E k, l \in DOMAIN sent : k < l /\ stored[i] = <<sent[k]>> /\ stored[j] = <<sent[l]>>
    <2>1. /\ stored[i] \in Seq(Socket!Message) /\ stored[j] \in Seq(Socket!Message)
          /\ Len(stored[i]) = 1 /\ Len(stored[j]) = 1
      BY <1>1 DEF SocketInv, SocketTypes
    <2>2. /\ stored[i] = <<stored[i][1]>> /\ stored[j] = <<stored[j][1]>>
          /\ stored[i][1] \in Socket!Message /\ stored[j][1] \in Socket!Message
      <3>1. ASSUME NEW s \in Seq(Socket!Message), Len(s) = 1 PROVE s[1] \in Socket!Message /\ s = <<s[1]>>
        <4>1. DOMAIN s = {1} /\ s[1] \in Socket!Message BY <3>1
        <4>2. s = [k \in {1} |-> s[1]] BY <4>1, <3>1
        <4>3. \A x : <<x>> = [k \in {1} |-> x] OBVIOUS
        <4> QED BY <4>1, <4>2, <4>3
      <3> QED BY <2>1, <3>1
    <2>3. Out[i] = stored[i][1] /\ Out[j] = stored[j][1] /\ DOMAIN Out = DOMAIN stored BY OutType DEF Out
    <2>4. InOrder(Out) /\ AmongFirst(Len(sent), Out) BY DEF SocketInv, OrderInv, InLine
    <2>5. PICK k \in DOMAIN Messages, l \in DOMAIN Messages : k < l /\ Messages[k] = stored[i][1]
            /\ Messages[l] = stored[j][1]
      BY <1>2, <2>2, <2>3, <2>4 DEF InOrder, Before
    <2>6. PICK p \in 1..Len(sent) : p \in DOMAIN Messages /\ Out[i] = Messages[p] BY <2>2, <2>3,
                                                                                     <2>4 DEF AmongFirst
    <2>7. PICK q \in 1..Len(sent) : q \in DOMAIN Messages /\ Out[j] = Messages[q] BY <2>2, <2>3,
                                                                                     <2>4 DEF AmongFirst
    <2>8. p = k /\ q = l BY <2>3, <2>5, <2>6, <2>7, MessagesAssumption
    <2>9. DOMAIN sent = 1..Len(sent) BY DEF SocketInv, SocketTypes
    <2>10. sent[k] = stored[i][1] /\ sent[l] = stored[j][1]
      BY <2>5, <2>6, <2>7, <2>8, <2>9 DEF SocketInv, OrderInv
    <2>11. k \in DOMAIN sent /\ l \in DOMAIN sent /\ k < l BY <2>5, <2>6, <2>7, <2>8, <2>9
    <2>12. stored[i] = <<sent[k]>> /\ stored[j] = <<sent[l]>> BY <2>2, <2>10
    <2> QED BY <2>11, <2>12
  <1> QED BY <1>1, <1>2 DEF Socket!StoresAreMessagesInOrder

(* StoresAreMessagesInOrder, for any number of messages: a StoreAsync sends *)
(* one message, and they are sent in the order of Send.                     *)
THEOREM MessagesAreStoredInOrder == Socket!Spec => []StoresAreMessagesInOrder
  BY StoresInOrder, SocketInvariant, PTL DEF StoresAreMessagesInOrder

LEMMA CloseWaits == SocketInv => Socket!CloseWaitsForSends
  <1> SUFFICES ASSUME SocketInv, beforeClose # <<>>, ~Socket!Waiting("close"), NEW i \in DOMAIN beforeClose[1],
                      Socket!Waiting(beforeClose[1][i])
               PROVE  FALSE
    BY DEF Socket!CloseWaitsForSends
  <1>1. PICK m : m = beforeClose[1][i] OBVIOUS
  <1>2. m \in Covered BY <1>1 DEF Covered
  <1>3. ~Occurs("close", background) /\ ~Occurs("close", sequencer) BY DEF Socket!Waiting, Occurs
  <1>4. Occurs(m, background) \/ Occurs(m, sequencer) BY <1>1 DEF Socket!Waiting, Occurs
  <1>5. CloseBehind(Covered, sequencer, background) BY DEF SocketInv, CloseInv
  <1> QED BY <1>2, <1>3, <1>4, <1>5 DEF CloseBehind, Occurs

(* CloseWaitsForSends: Close is behind everything sent before it.           *)
THEOREM CloseIsBehindSends == Socket!Spec => []CloseWaitsForSends
  BY CloseWaits, SocketInvariant, PTL DEF CloseWaitsForSends

-----------------------------------------------------------------------------
(* The two resources                                                        *)

(* A behaviour of the two resources together, one of which runs, is a       *)
(* behaviour of each.                                                       *)
THEOREM ResourcesAreBehaviours == NetSpec => Spec /\ Socket!Spec
  <1>1. NetInit => Init /\ Socket!Init BY DEF NetInit
  <1>2. [NetNext]_netVars => [Next]_vars BY DEF NetNext, netVars, OnlySocket, OnlyHttp
  <1>3. [NetNext]_netVars => [Socket!Next]_Socket!vars
    BY DEF NetNext, netVars, OnlySocket, OnlyHttp, socketVars, Socket!vars, Socket!queues, Socket!js
  <1> QED BY <1>1, <1>2, <1>3, PTL DEF NetSpec, Spec, Socket!Spec

=============================================================================
