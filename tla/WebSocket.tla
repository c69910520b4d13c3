------------------------------ MODULE WebSocket ------------------------------
(***************************************************************************)
(* One WebSocket: WebSocketTurboModule and WinRTWebSocketResource.  A call  *)
(* from JavaScript goes through the serial background queue into a          *)
(* TaskSequencer, which runs one asynchronous task at a time; handlers run  *)
(* in the serial calling queue.  The platform's socket completes its        *)
(* operations and raises its events in threads of its own.                  *)
(***************************************************************************)
EXTENDS Naturals, Sequences

CONSTANTS
  Messages,    \* what JavaScript sends, in this order: names without repetition
  MaxReceived  \* a bound on the messages and errors the socket reports

Message == {Messages[i] : i \in DOMAIN Messages}

VARIABLES
  m_readyState,
  background,  \* m_backgroundQueue
  sequencer,   \* m_sequencer: its first task is the running one
  step,        \* where the running task is
  calling,     \* m_callingQueue: handlers to call
  m_writer,    \* messages written and not yet stored
  stored,      \* what each StoreAsync sent, history
  socket,      \* "new", "none" (not created), "connecting", "open" or "closed" by this side
  received,    \* messages and errors the socket has reported
  sent,        \* messages in the order of Send, history
  beforeClose, \* what was sent before Close, history
  heard        \* events JavaScript has got, history

queues == <<background, sequencer, step, calling>>
js == <<sent, beforeClose, heard>>
vars == <<m_readyState, queues, m_writer, stored, socket, received, js>>

Init ==
  /\ m_readyState = "Connecting"
  /\ background = <<>> /\ sequencer = <<>> /\ step = "start" /\ calling = <<>>
  /\ m_writer = <<>> /\ stored = <<>> /\ socket = "new" /\ received = 0
  /\ sent = <<>> /\ beforeClose = <<>> /\ heard = <<>>

Heard(event) == \E i \in DOMAIN heard : heard[i] = event
PostBackground(work) == background' = background \o work
PostCalling(handlers) == calling' = calling \o handlers

(* Fail: the state changes and the error handler is posted in the           *)
(* background queue.                                                        *)
Fail == PostBackground(<<"fail">>)

-----------------------------------------------------------------------------
(* Calls from JavaScript *)

(* Connect: the resource may not be created, and the URL may not parse.     *)
Connect ==
  /\ socket = "new"
  /\ \/ /\ socket' = "none" /\ heard' = <<"webSocketFailed">> /\ UNCHANGED background
     \/ /\ socket' = "connecting" /\ (PostBackground(<<"connect">>) \/ Fail)
        /\ UNCHANGED heard
  /\ UNCHANGED <<m_readyState, sequencer, step, calling, m_writer, stored, received,
                 sent, beforeClose>>

(* Send and SendBinary, whatever state the socket is in; without a resource *)
(* they return.                                                             *)
Send ==
  /\ socket \notin {"new", "none"} /\ Len(sent) < Len(Messages)
  /\ LET m == Messages[Len(sent) + 1] IN sent' = Append(sent, m) /\ PostBackground(<<m>>)
  /\ UNCHANGED <<m_readyState, sequencer, step, calling, m_writer, stored, socket, received,
                 beforeClose, heard>>

Close ==
  /\ socket \notin {"new", "none"} /\ beforeClose = <<>>
  /\ beforeClose' = <<sent>> /\ PostBackground(<<"close">>)
  /\ UNCHANGED <<m_readyState, sequencer, step, calling, m_writer, stored, socket, received,
                 sent, heard>>

-----------------------------------------------------------------------------
(* The sequencer.  Completer::~Completer starts the next task.              *)

Running(task) == sequencer # <<>> /\ Head(sequencer) = task

Complete == sequencer' = Tail(sequencer) /\ step' = "start"

(* Mutant: Close runs before the tasks that wait.                           *)
QueueTaskAsyncCloseFirst(task) ==
  sequencer' = IF task = "close" /\ sequencer # <<>>
               THEN <<Head(sequencer), task>> \o Tail(sequencer) ELSE Append(sequencer, task)

QueueTaskAsync(task) == sequencer' = Append(sequencer, task)

(* PerformConnect: ConnectAsync may throw; its continuation runs some time  *)
(* after the socket has connected.                                          *)
StartConnect ==
  /\ Running("connect") /\ step = "start"
  /\ \/ step' = "connecting" /\ UNCHANGED <<background, sequencer>>
     \/ Fail /\ Complete
  /\ UNCHANGED <<m_readyState, calling, m_writer, stored, socket, received, js>>

ConnectAsync ==
  /\ Running("connect") /\ step = "connecting"
  /\ \/ step' = "connected" /\ socket' = "open" /\ UNCHANGED <<background, sequencer>>
     \/ Fail /\ Complete /\ UNCHANGED socket
  /\ UNCHANGED <<m_readyState, calling, m_writer, stored, received, js>>

Connected ==
  /\ Running("connect") /\ step = "connected"
  /\ m_readyState' = "Open" /\ step' = "calling" /\ PostCalling(<<"open">>)
  /\ UNCHANGED <<background, sequencer, m_writer, stored, socket, received, js>>

(* Mutant: the failure is posted behind the rest of the write.              *)
PerformWriteFailsLate(m) ==
  /\ Running(m) /\ step = "start" /\ step' = "resume"
  /\ \/ m_writer' = Append(m_writer, m) /\ PostBackground(<<"resume">>)
     \/ PostBackground(<<"resume", "fail">>) /\ UNCHANGED m_writer
  /\ UNCHANGED <<m_readyState, sequencer, calling, stored, socket, received, js>>

(* Mutant: a write that throws never ends.                                  *)
PerformWriteBreaks(m) ==
  /\ Running(m) /\ step = "start" /\ step' = "resume"
  /\ \/ m_writer' = Append(m_writer, m) /\ PostBackground(<<"resume">>)
     \/ Fail /\ UNCHANGED m_writer
  /\ UNCHANGED <<m_readyState, sequencer, calling, stored, socket, received, js>>

(* PerformWrite up to its return to the background queue: writing may       *)
(* throw.                                                                   *)
PerformWrite(m) ==
  /\ Running(m) /\ step = "start" /\ step' = "resume"
  /\ \/ m_writer' = Append(m_writer, m) /\ PostBackground(<<"resume">>)
     \/ PostBackground(<<"fail", "resume">>) /\ UNCHANGED m_writer
  /\ UNCHANGED <<m_readyState, sequencer, calling, stored, socket, received, js>>

(* The second half of PerformWrite, in the background queue.                *)
ResumeWrite ==
  IF m_readyState # "Open"
  THEN Complete /\ UNCHANGED <<m_writer, stored>>
  ELSE /\ stored' = Append(stored, m_writer) /\ m_writer' = <<>>
       /\ step' = "storing" /\ UNCHANGED sequencer

StoreAsync(m) ==
  /\ Running(m) /\ step = "storing"
  /\ Complete /\ (Fail \/ UNCHANGED background)
  /\ UNCHANGED <<m_readyState, calling, m_writer, stored, socket, received, js>>

PerformClose ==
  /\ Running("close") /\ step = "start" /\ Complete
  /\ \/ m_readyState' = "Closing" /\ socket' = "closed" /\ UNCHANGED background
     \/ Fail /\ UNCHANGED <<m_readyState, socket>>
  /\ UNCHANGED <<calling, m_writer, stored, received, js>>

-----------------------------------------------------------------------------
(* The two queues *)

Background ==
  /\ background # <<>>
  /\ LET work == Head(background) IN
     /\ background' = Tail(background)
     /\ \/ /\ work \in {"fail", "closed"} /\ m_readyState' = "Closed"
           /\ PostCalling(IF work = "fail" THEN <<"error">> ELSE <<>>)
           /\ UNCHANGED <<sequencer, step, m_writer, stored>>
        \/ /\ work \in Message \cup {"connect", "close"}
           /\ QueueTaskAsync(work)
           /\ UNCHANGED <<m_readyState, step, calling, m_writer, stored>>
        \/ work = "resume" /\ ResumeWrite /\ UNCHANGED <<m_readyState, calling>>
  /\ UNCHANGED <<socket, received, js>>

(* A handler runs and sends its event to JavaScript.  The connect handler   *)
(* is the end of PerformConnect.                                            *)
Calling ==
  /\ calling # <<>>
  /\ calling' = Tail(calling) /\ heard' = Append(heard, Head(calling))
  /\ IF Head(calling) = "open" THEN Complete ELSE UNCHANGED <<sequencer, step>>
  /\ UNCHANGED <<m_readyState, background, m_writer, stored, socket, received, sent, beforeClose>>

-----------------------------------------------------------------------------
(* Events of the socket *)

(* OnMessageReceived: a message, an aborted connection, or another error.   *)
OnMessageReceived ==
  /\ socket \in {"open", "closed"} /\ received < MaxReceived /\ received' = received + 1
  /\ \/ PostCalling(<<"message">>) /\ UNCHANGED background
     \/ PostBackground(<<"close", "fail">>) /\ UNCHANGED calling
     \/ Fail /\ UNCHANGED calling
  /\ UNCHANGED <<m_readyState, sequencer, step, m_writer, stored, socket, js>>

(* OnClosed: raised once, whichever side closes.                            *)
OnClosed ==
  /\ socket \in {"open", "closed"} /\ ~Heard("close") /\ \A i \in DOMAIN calling : calling[i] # "close"
  /\ PostBackground(<<"closed">>) /\ PostCalling(<<"close">>)
  /\ UNCHANGED <<m_readyState, sequencer, step, m_writer, stored, socket, received, js>>

Sequencer ==
  \/ StartConnect \/ ConnectAsync \/ Connected \/ PerformClose
  \/ \E m \in Message : PerformWrite(m) \/ StoreAsync(m)

Next ==
  \/ Connect \/ Send \/ Close
  \/ Sequencer \/ Background \/ Calling \/ OnMessageReceived \/ OnClosed

Spec == Init /\ [][Next]_vars

(* The queues run, and the operations of the socket complete some day.      *)
Fairness == WF_vars(Background) /\ WF_vars(Calling) /\ WF_vars(Sequencer)
FairSpec == Spec /\ Fairness

-----------------------------------------------------------------------------
(* Properties *)

Waiting(work) ==
  \/ \E i \in DOMAIN background : background[i] = work
  \/ \E i \in DOMAIN sequencer : sequencer[i] = work

(* The types; a task that waits for a queue is the running one and is       *)
(* waited for once.                                                         *)
TypeOK ==
  /\ m_readyState \in {"Connecting", "Open", "Closing", "Closed"}
  /\ socket \in {"new", "none", "connecting", "open", "closed"}
  /\ sequencer \in Seq(Message \cup {"connect", "close"})
  /\ \A i, j \in DOMAIN background : background[i] = "resume" /\ background[j] = "resume" => i = j
  /\ step = "resume" <=> \E i \in DOMAIN background : background[i] = "resume"
  /\ step = "calling" <=> \E i \in DOMAIN calling : calling[i] = "open"

(* A StoreAsync sends one message, and messages are sent in the order of    *)
(* Send: writes of different calls are never mixed in m_writer, although    *)
(* each gives up the thread between writing and storing.                    *)
StoresAreMessagesInOrder ==
  /\ \A i \in DOMAIN stored : Len(stored[i]) = 1
  /\ \A i, j \in DOMAIN stored : i < j =>
       \E k, l \in DOMAIN sent : k < l /\ stored[i] = <<sent[k]>> /\ stored[j] = <<sent[l]>>

(* Close does not cut off what was sent before it: when the socket is       *)
(* closed on this side after a Close, none of those messages waits.         *)
CloseWaitsForSends ==
  socket = "closed" /\ beforeClose # <<>> /\ ~Waiting("close") =>
    \A i \in DOMAIN beforeClose[1] : ~Waiting(beforeClose[1][i])

(* The sequencer is never blocked, whatever goes wrong: JavaScript hears of *)
(* a socket that connects, because PerformConnect ends in its handler or in *)
(* Fail, and a message that was sent is stored, given up or reported.       *)
SendsSettle ==
  /\ (socket = "connecting") ~> (Heard("open") \/ Heard("error"))
  /\ \A m \in Message : Waiting(m) ~> ~Waiting(m)

=============================================================================
