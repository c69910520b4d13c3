---------------------------- MODULE MCNetworking ----------------------------
(***************************************************************************)
(* One run over the two resources of Shared/Networking, which share no      *)
(* state.  The initial state chooses the one that runs; the other stays in  *)
(* its initial state, so every behaviour is one of that module's FairSpec.  *)
(***************************************************************************)
EXTENDS HttpResource

CONSTANTS Messages, MaxReceived

MCMessages == <<"m1", "m2">>

VARIABLES
  part,
  m_readyState, background, sequencer, step, calling, m_writer, stored, socket,
  received, sent, beforeClose, socketHeard

socketVars == <<m_readyState, background, sequencer, step, calling, m_writer, stored, socket,
                received, sent, beforeClose, socketHeard>>
netVars == <<part, socketVars, vars>>

Socket == INSTANCE WebSocket WITH heard <- socketHeard

(* The messages are told apart, from each other and from the other work of  *)
(* the background queue.                                                    *)
Tasks == {"connect", "close", "fail", "resume", "closed"}
ASSUME MessagesAssumption ==
  /\ Messages \in Seq(Socket!Message)
  /\ \A i, j \in DOMAIN Messages : Messages[i] = Messages[j] => i = j
  /\ Socket!Message \cap Tasks = {}

NetInit == part \in {"socket", "http"} /\ Socket!Init /\ Init

OnlySocket == part = "socket" /\ UNCHANGED <<part, vars>>
OnlyHttp == part = "http" /\ UNCHANGED <<part, socketVars>>

NetNext ==
  \/ OnlySocket /\ Socket!Next
  \/ OnlyHttp /\ Next

(* The fairness of the two modules, each where it is the part that runs.    *)
NetFairness ==
  /\ WF_netVars(OnlySocket /\ Socket!Background)
  /\ WF_netVars(OnlySocket /\ Socket!Calling)
  /\ WF_netVars(OnlySocket /\ Socket!Sequencer)
  /\ \A r \in Request :
       /\ WF_netVars(OnlyHttp /\ Perform(r))
       /\ WF_netVars(OnlyHttp /\ TimerFires(r))
       /\ WF_netVars(OnlyHttp /\ AbortCancels(r))

NetSpec == NetInit /\ [][NetNext]_netVars /\ NetFairness

-----------------------------------------------------------------------------
(* The properties of WebSocket; those of HttpResource are its own.          *)

(* WebSocket: writes are not mixed and not reordered.                       *)
StoresAreMessagesInOrder == Socket!StoresAreMessagesInOrder
(* WebSocket: Close does not cut off what was sent before.                  *)
CloseWaitsForSends == Socket!CloseWaitsForSends
(* WebSocket: connecting is reported and no message waits for ever.         *)
SendsSettle == Socket!SendsSettle

=============================================================================
