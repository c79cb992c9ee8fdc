---------------------------- MODULE PeerSession ----------------------------
(***************************************************************************)
(* The WebRTC connections of the host to one peer, one after the other:    *)
(* webrtc_connect, webrtc_disconnect and webrtc_signal_relay of the MCP    *)
(* handler, WebRTCConnectionManager (src/webrtc/manager.ts) and            *)
(* WebRTCTransport (src/transports/webrtc.ts).  Connections to different   *)
(* peers share only the map they are kept in and the tool that is running. *)
(*                                                                         *)
(* The host offers, the peer answers, and both send ICE candidates as they *)
(* find them.  Transports are numbered; n also names the offer made with   *)
(* it.  Handlers await the native library, and while they do the signals   *)
(* of the peer come in; the tools, which the stdio loop runs one by one,   *)
(* wait.                                                                   *)
(***************************************************************************)
EXTENDS Integers, Sequences, Functions

CONSTANTS
  MaxSessions,     (* bound: transports created                              *)
  MaxCandidates,   (* bound: candidates the peer finds for an offer          *)
  MaxBreaks        (* bound: times the peer loses its connection to the hub  *)

ASSUME SessionAssumption ==
  /\ MaxSessions \in Nat \ {0}
  /\ MaxCandidates \in Nat
  /\ MaxBreaks \in Nat

Session == 1 .. MaxSessions
Candidate == [of : Session, i : 1 .. MaxCandidates]
Signal == [kind : {"answer"}, of : Session] \cup [kind : {"candidate"}, c : Candidate]

VARIABLES
  listed,       (* the handler's peers has the peer                          *)
  connection,   (* the transport in the manager's connections, 0 if none     *)
  created,      (* transports created so far                                 *)
  pc,           (* pc[n]: the native connection: "none", "open", "closed"    *)
  offered,      (* offered[n]: it has the offer as local description         *)
  remote,       (* remote[n]: the offer its remote description answers, or 0 *)
  pending,      (* pending[n]: pendingCandidates                             *)
  applied,      (* applied[n]: the candidates the native connection took     *)
  answering,    (* answering[n]: the acceptAnswer calls at their await, in   *)
                (* the order they were made                                  *)
  tool,         (* the await of the running tool: "idle", "creating" the     *)
                (* offer, "describing" (setLocalDescription), "relaying"     *)
  online,       (* the peer is connected to the hub                          *)
  breaks,       (* connections to the hub lost, for the bound                *)
  toPeer,       (* offers relayed that the peer has not read                 *)
  toHost,       (* signals of the peer the hub has not handled               *)
  agent,        (* the peer: the offer it works on, whether it has answered, *)
                (* and how many candidates it has sent                       *)
  received      (* received[n]: the candidates for offer n that came while n *)
                (* was the connection.  Observed only.                       *)

toolVars  == <<listed, connection, created, tool>>
mediaVars == <<pc, offered, remote, pending, applied, answering>>
peerVars  == <<online, breaks, toPeer, toHost, agent>>
vars == <<toolVars, mediaVars, peerVars, received>>

NoOffer == [of |-> 0, answered |-> FALSE, sent |-> 0]

Init ==
  /\ listed = FALSE
  /\ connection = 0
  /\ created = 0
  /\ pc = [n \in Session |-> "none"]
  /\ offered = [n \in Session |-> FALSE]
  /\ remote = [n \in Session |-> 0]
  /\ pending = [n \in Session |-> <<>>]
  /\ applied = [n \in Session |-> {}]
  /\ answering = [n \in Session |-> <<>>]
  /\ tool = "idle"
  /\ online = TRUE
  /\ breaks = 0
  /\ toPeer = <<>>
  /\ toHost = <<>>
  /\ agent = NoOffer
  /\ received = [n \in Session |-> {}]

-----------------------------------------------------------------------------
(* webrtc_connect                                                          *)

(* The peer is listed first.  Then connect throws, for a connection in the *)
(* map or because the native connection cannot be made, and takes a new    *)
(* transport out of the map again.                                         *)
ConnectThrows ==
  /\ tool = "idle"
  /\ listed' = TRUE
  /\ UNCHANGED <<connection, created, tool, mediaVars, peerVars, received>>

(* connect, up to the await of createOffer. *)
ConnectStarts ==
  /\ tool = "idle"
  /\ connection = 0
  /\ created < MaxSessions
  /\ listed' = TRUE
  /\ created' = created + 1
  /\ connection' = created + 1
  /\ pc' = [pc EXCEPT ![created + 1] = "open"]
  /\ tool' = "creating"
  /\ UNCHANGED <<offered, remote, pending, applied, answering, peerVars, received>>

OfferCreated ==
  /\ tool = "creating"
  /\ tool' = "describing"
  /\ UNCHANGED <<listed, connection, created, mediaVars, peerVars, received>>

(* createOffer or setLocalDescription rejects: the transport leaves the    *)
(* map and is not closed.                                                  *)
OfferFails ==
  /\ tool \in {"creating", "describing"}
  /\ connection' = 0
  /\ tool' = "idle"
  /\ UNCHANGED <<listed, created, mediaVars, peerVars, received>>

(* The native connection refuses candidates before it has a remote         *)
(* description.                                                            *)
Taken(n) == IF remote[n] # 0 THEN Range(pending[n]) ELSE {}

Drained(n) ==
  /\ pending' = [pending EXCEPT ![n] = <<>>]
  /\ applied' = [applied EXCEPT ![n] = @ \cup (IF pc[n] = "open" THEN Taken(n) ELSE {})]

(* setLocalDescription is done: what is waiting is drained, and the offer  *)
(* goes to the peer if it is connected to the hub.                         *)
LocalDescribed ==
  /\ tool = "describing"
  /\ offered' = [offered EXCEPT ![connection] = TRUE]
  /\ Drained(connection)
  /\ toPeer' = IF online THEN Append(toPeer, connection) ELSE toPeer
  /\ tool' = "idle"
  /\ UNCHANGED <<listed, connection, created, pc, remote, answering,
                 online, breaks, toHost, agent, received>>

-----------------------------------------------------------------------------
(* webrtc_disconnect *)

(* The native connections once the one in the map, if any, is closed. *)
Closed == IF connection # 0 THEN [pc EXCEPT ![connection] = "closed"] ELSE pc

\* Mutant: the transport leaves the map without being closed.
DisconnectOnlyForgets ==
  /\ tool = "idle"
  /\ listed' = FALSE
  /\ connection' = 0
  /\ UNCHANGED <<created, tool, mediaVars, peerVars, received>>

\* Mutant: the stdio loop does not wait for webrtc_signal_relay.
DisconnectDuringRelay ==
  /\ tool \in {"idle", "relaying"}
  /\ listed' = FALSE
  /\ connection' = 0
  /\ pc' = Closed
  /\ UNCHANGED <<created, tool, offered, remote, pending, applied, answering,
                 peerVars, received>>

\* Mutant: the stdio loop waits for no tool.
DisconnectUnqueued ==
  /\ connection # 0
  /\ listed' = FALSE
  /\ connection' = 0
  /\ pc' = Closed
  /\ UNCHANGED <<created, tool, offered, remote, pending, applied, answering,
                 peerVars, received>>

Disconnect ==
  /\ tool = "idle"
  /\ listed' = FALSE
  /\ connection' = 0
  /\ pc' = Closed
  /\ UNCHANGED <<created, tool, offered, remote, pending, applied, answering,
                 peerVars, received>>

-----------------------------------------------------------------------------
(* manager.signal, for an answer or a candidate of the peer.  It may come  *)
(* through the hub or, by hand, through webrtc_signal_relay: the tool then *)
(* awaits the outcome.                                                     *)

\* Mutant: the type "signal" is missing from the types of signals, so that an
\* answer that comes through the hub ends in the inbox.
AnswerInInbox(n, k, by) ==
  /\ by = "tool"
  /\ answering' = [answering EXCEPT ![n] = Append(@, [of |-> k, by |-> by, state |-> "sent"])]
  /\ tool' = "relaying"
  /\ UNCHANGED <<pending, applied, received>>

(* acceptAnswer, up to the await of setRemoteDescription. *)
AcceptAnswer(n, k, by) ==
  /\ answering' = [answering EXCEPT ![n] = Append(@, [of |-> k, by |-> by, state |-> "sent"])]
  /\ tool' = IF by = "tool" THEN "relaying" ELSE tool
  /\ UNCHANGED <<pending, applied, received>>

(* addIceCandidate: kept for later while there is no remote description.   *)
AddIceCandidate(n, c) ==
  /\ IF remote[n] = 0
     THEN pending' = [pending EXCEPT ![n] = Append(@, c)] /\ UNCHANGED applied
     ELSE applied' = [applied EXCEPT ![n] = @ \cup {c}] /\ UNCHANGED pending
  /\ received' = [received EXCEPT ![n] = IF c.of = n THEN @ \cup {c} ELSE @]
  /\ UNCHANGED <<answering, tool>>

(* signal, up to its await.  Without a connection the signal is dropped.   *)
(* The manager does not see which offer a signal belongs to.               *)
ManagerSignal(s, by) ==
  \/ /\ connection = 0
     /\ UNCHANGED <<pending, applied, answering, tool, received>>
  \/ /\ connection # 0 /\ s.kind = "answer"
     /\ AcceptAnswer(connection, s.of, by)
  \/ /\ connection # 0 /\ s.kind = "candidate"
     /\ AddIceCandidate(connection, s.c)

NextSignal(by) ==
  /\ toHost # <<>>
  /\ toHost' = Tail(toHost)
  /\ ManagerSignal(Head(toHost), by)
  /\ UNCHANGED <<listed, connection, created, pc, offered, remote,
                 online, breaks, toPeer, agent>>

(* _handleSignal: a signal for the host is not for a WebSocket peer. *)
HandleSignal == NextSignal("hub")

(* webrtc_signal_relay *)
SignalRelay == tool = "idle" /\ NextSignal("tool")

(* The native connection works on the first description it has not settled *)
(* yet.  It takes one answer, to an offer it has made; it cannot tell to   *)
(* which.  A closed connection may settle what is left or leave it.        *)
SetRemoteDescription(n) ==
  \E i \in DOMAIN answering[n] :
    LET takes == pc[n] = "open" /\ offered[n] /\ remote[n] = 0
    IN /\ answering[n][i].state = "sent"
       /\ \A j \in 1 .. i - 1 : answering[n][j].state # "sent"
       /\ remote' = IF takes THEN [remote EXCEPT ![n] = answering[n][i].of] ELSE remote
       /\ \E state \in IF pc[n] = "open" THEN {IF takes THEN "done" ELSE "refused"}
                                         ELSE {"done", "refused"} :
            answering' = [answering EXCEPT ![n][i].state = state]
       /\ UNCHANGED <<toolVars, pc, offered, pending, applied, peerVars, received>>

\* Mutant: what waits for the answer is not looked at when it is there.
AnswerAcceptedOnly(n) ==
  /\ answering[n] # <<>>
  /\ Head(answering[n]).state # "sent"
  /\ answering' = [answering EXCEPT ![n] = Tail(@)]
  /\ tool' = IF Head(answering[n]).by = "tool" THEN "idle" ELSE tool
  /\ UNCHANGED <<listed, connection, created, pc, offered, remote, pending, applied,
                 peerVars, received>>

(* The await ends.  If the answer was accepted, what is waiting is         *)
(* drained; if the transport was closed meanwhile, draining throws, after  *)
(* it has emptied the list, and signal() returns false.                    *)
AnswerSettled(n) ==
  /\ answering[n] # <<>>
  /\ Head(answering[n]).state # "sent"
  /\ IF Head(answering[n]).state = "done" THEN Drained(n) ELSE UNCHANGED <<pending, applied>>
  /\ answering' = [answering EXCEPT ![n] = Tail(@)]
  /\ tool' = IF Head(answering[n]).by = "tool" THEN "idle" ELSE tool
  /\ UNCHANGED <<listed, connection, created, pc, offered, remote, peerVars, received>>

-----------------------------------------------------------------------------
(* The peer: it answers the last offer it has read, and sends candidates   *)
(* for it, before or after the answer.                                     *)

ReadOffer ==
  /\ toPeer # <<>>
  /\ toPeer' = Tail(toPeer)
  /\ agent' = [NoOffer EXCEPT !.of = Head(toPeer)]
  /\ UNCHANGED <<toolVars, mediaVars, online, breaks, toHost, received>>

SendAnswer ==
  /\ agent.of # 0 /\ ~agent.answered
  /\ agent' = [agent EXCEPT !.answered = TRUE]
  /\ toHost' = Append(toHost, [kind |-> "answer", of |-> agent.of])
  /\ UNCHANGED <<toolVars, mediaVars, online, breaks, toPeer, received>>

SendCandidate ==
  /\ agent.of # 0 /\ agent.sent < MaxCandidates
  /\ agent' = [agent EXCEPT !.sent = @ + 1]
  /\ toHost' = Append(toHost,
       [kind |-> "candidate", c |-> [of |-> agent.of, i |-> agent.sent + 1]])
  /\ UNCHANGED <<toolVars, mediaVars, online, breaks, toPeer, received>>

(* The connection to the hub breaks, with everything on its way; the peer  *)
(* starts over when it is back.                                            *)
LinkBreaks ==
  /\ online
  /\ breaks < MaxBreaks
  /\ breaks' = breaks + 1
  /\ online' = FALSE
  /\ toPeer' = <<>> /\ toHost' = <<>>
  /\ agent' = NoOffer
  /\ UNCHANGED <<toolVars, mediaVars, received>>

Rejoins ==
  /\ ~online
  /\ online' = TRUE
  /\ UNCHANGED <<toolVars, mediaVars, breaks, toPeer, toHost, agent, received>>

-----------------------------------------------------------------------------
Next ==
  \/ ConnectThrows
  \/ ConnectStarts
  \/ OfferCreated
  \/ OfferFails
  \/ LocalDescribed
  \/ Disconnect
  \/ HandleSignal
  \/ SignalRelay
  \/ \E n \in Session : SetRemoteDescription(n) \/ AnswerSettled(n)
  \/ ReadOffer
  \/ SendAnswer
  \/ SendCandidate
  \/ LinkBreaks
  \/ Rejoins

Spec == Init /\ [][Next]_vars

(* Frames are handled, the native library settles what was asked of a      *)
(* connection that is open, and the peer answers what it reads.  Nothing   *)
(* is assumed of a closed connection, nor of the tools.                    *)
Fairness ==
  /\ WF_vars(OfferCreated \/ OfferFails)
  /\ WF_vars(LocalDescribed)
  /\ WF_vars(HandleSignal)
  /\ WF_vars(ReadOffer)
  /\ WF_vars(SendAnswer)
  /\ \A n \in Session :
       /\ WF_vars(pc[n] = "open" /\ SetRemoteDescription(n))
       /\ WF_vars(AnswerSettled(n))

FairSpec == Spec /\ Fairness

-----------------------------------------------------------------------------
(* Properties                                                              *)

(* The state has its types. *)
TypeOK ==
  /\ listed \in BOOLEAN
  /\ connection \in 0 .. created
  /\ created \in 0 .. MaxSessions
  /\ pc \in [Session -> {"none", "open", "closed"}]
  /\ offered \in [Session -> BOOLEAN]
  /\ remote \in [Session -> 0 .. MaxSessions]
  /\ pending \in [Session -> Seq(Candidate)]
  /\ applied \in [Session -> SUBSET Candidate]
  /\ answering \in [Session ->
       Seq([of : Session, by : {"hub", "tool"}, state : {"sent", "done", "refused"}])]
  /\ tool \in {"idle", "creating", "describing", "relaying"}
  /\ tool \in {"creating", "describing"} => connection # 0
  /\ online \in BOOLEAN
  /\ breaks \in 0 .. MaxBreaks
  /\ toPeer \in Seq(Session)
  /\ toHost \in Seq(Signal)
  /\ agent \in [of : 0 .. MaxSessions, answered : BOOLEAN, sent : 0 .. MaxCandidates]
  /\ received \in [Session -> SUBSET Candidate]

(* No candidate for an open connection is lost, whatever it overtakes: it  *)
(* waits or was taken, not both, and nothing is left waiting once an       *)
(* answer was accepted and no handler is in the middle of it.              *)
CandidatesKept ==
  \A n \in Session : pc[n] = "open" =>
    /\ received[n] \subseteq Range(pending[n]) \cup applied[n]
    /\ Range(pending[n]) \cap applied[n] = {}
    /\ remote[n] # 0 /\ answering[n] = <<>> => pending[n] = <<>>

(* A native connection whose offer went out is the one in the map, where   *)
(* webrtc_disconnect finds it, or closed; and the peer of a connection in  *)
(* the map is listed.                                                      *)
OpenIsMapped ==
  /\ \A n \in Session : offered[n] /\ pc[n] = "open" => connection = n
  /\ connection # 0 => listed /\ pc[connection] = "open"

(* The offer of n, or the answer to it, is on its way. *)
Negotiating(n) ==
  \/ n \in Range(toPeer)
  \/ agent.of = n /\ ~agent.answered /\ toPeer = <<>>
  \/ [kind |-> "answer", of |-> n] \in Range(toHost)

(* An offer that reaches a peer whose link no longer breaks is answered,   *)
(* and an answer accepted, unless the host disconnects: no order in which  *)
(* signals and tools come in leaves a connection waiting for good.         *)
NegotiationEnds ==
  \A n \in Session :
    (breaks = MaxBreaks /\ online /\ connection = n /\ Negotiating(n))
      ~> (remote[n] # 0 \/ connection # n)

(* Every tool call ends, so that the stdio loop goes on: none waits for a  *)
(* native connection that was closed under it.                             *)
ToolsEnd == tool # "idle" ~> tool = "idle"
=============================================================================
