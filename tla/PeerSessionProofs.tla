------------------------- MODULE PeerSessionProofs -------------------------
(***************************************************************************)
(* Theorems about PeerSession, for every number of connections, candidates *)
(* and broken links: the types, that no connection whose offer went out is *)
(* ever open outside the manager's map, and that no candidate for an open  *)
(* connection is lost.                                                     *)
(*                                                                         *)
(* OpenIsMapped is not inductive by itself.  A connection leaves the map   *)
(* without being closed when its offer fails: that is harmless because the *)
(* offer is not out while webrtc_connect is awaiting it (UnderWay), and    *)
(* because transports not made yet have nothing open (Unmade).             *)
(***************************************************************************)
EXTENDS PeerSession, SequenceTheorems, TLAPS

(* The offer that webrtc_connect is making is not out. *)
UnderWay == tool \in {"creating", "describing"} => ~offered[connection]

(* Transports that do not exist yet. *)
Unmade == \A n \in Session : n > created => pc[n] = "none" /\ ~offered[n]

IInv == TypeOK /\ UnderWay /\ Unmade /\ OpenIsMapped

Answering == [of : Session, by : {"hub", "tool"}, state : {"sent", "done", "refused"}]

-----------------------------------------------------------------------------
(* Everything known of the state holds at the start. *)
LEMMA InitEstablishes == Init => IInv
<1> SUFFICES ASSUME Init PROVE IInv
  OBVIOUS
<1>1. TypeOK
  <2>1. /\ connection \in 0 .. created
        /\ created \in 0 .. MaxSessions
        /\ breaks \in 0 .. MaxBreaks
        /\ remote \in [Session -> 0 .. MaxSessions]
        /\ agent \in [of : 0 .. MaxSessions, answered : BOOLEAN, sent : 0 .. MaxCandidates]
    BY SessionAssumption DEF Init, NoOffer
  <2>2. /\ pending \in [Session -> Seq(Candidate)]
        /\ answering \in [Session -> Seq(Answering)]
        /\ toPeer \in Seq(Session)
        /\ toHost \in Seq(Signal)
    BY DEF Init
  <2>3. /\ pc \in [Session -> {"none", "open", "closed"}]
        /\ offered \in [Session -> BOOLEAN]
        /\ applied \in [Session -> SUBSET Candidate]
        /\ received \in [Session -> SUBSET Candidate]
    BY DEF Init
  <2> QED
    BY <2>1, <2>2, <2>3 DEF Init, TypeOK, Answering
<1>2. UnderWay /\ Unmade /\ OpenIsMapped
  BY <1>1 DEF Init, UnderWay, Unmade, OpenIsMapped
<1> QED
  BY <1>1, <1>2 DEF IInv

(* webrtc_connect, in its four pieces. *)
LEMMA ConnectStep ==
  ASSUME IInv, ConnectThrows \/ ConnectStarts \/ OfferCreated \/ OfferFails
  PROVE  IInv'
<1> USE SessionAssumption DEF IInv, toolVars, mediaVars, peerVars
<1>1. CASE ConnectThrows
  <2>1. TypeOK'
    BY <1>1 DEF ConnectThrows, TypeOK
  <2> QED
    BY <1>1, <2>1 DEF ConnectThrows, UnderWay, Unmade, OpenIsMapped
<1>2. CASE ConnectStarts
  <2>1. created + 1 \in Session /\ pc[created + 1] = "none" /\ ~offered[created + 1]
    BY <1>2 DEF ConnectStarts, TypeOK, Session, Unmade
  <2>2. TypeOK'
    <3>1. /\ connection' \in 0 .. created'
          /\ created' \in 0 .. MaxSessions
          /\ connection' # 0
      BY <1>2 DEF ConnectStarts, TypeOK
    <3>2. pc' \in [Session -> {"none", "open", "closed"}]
      BY <1>2, <2>1 DEF ConnectStarts, TypeOK
    <3> QED
      BY <1>2, <3>1, <3>2 DEF ConnectStarts, TypeOK
  <2>3. UnderWay' /\ Unmade' /\ OpenIsMapped'
    BY <1>2, <2>1 DEF ConnectStarts, TypeOK, Session, UnderWay, Unmade, OpenIsMapped
  <2> QED
    BY <2>2, <2>3
<1>3. CASE OfferCreated
  <2>1. TypeOK'
    BY <1>3 DEF OfferCreated, TypeOK
  <2> QED
    BY <1>3, <2>1 DEF OfferCreated, UnderWay, Unmade, OpenIsMapped
<1>4. CASE OfferFails
  <2>1. TypeOK'
    <3>1. connection' \in 0 .. created'
      BY <1>4 DEF OfferFails, TypeOK
    <3> QED
      BY <1>4, <3>1 DEF OfferFails, TypeOK
  <2>2. UnderWay' /\ Unmade' /\ OpenIsMapped'
    BY <1>4 DEF OfferFails, UnderWay, Unmade, OpenIsMapped
  <2> QED
    BY <2>1, <2>2
<1> QED
  BY <1>1, <1>2, <1>3, <1>4

(* What draining leaves behind has the types of the state. *)
LEMMA DrainedTypes ==
  ASSUME TypeOK, NEW n \in Session, Drained(n)
  PROVE  /\ pending' \in [Session -> Seq(Candidate)]
         /\ applied' \in [Session -> SUBSET Candidate]
<1>1. Range(pending[n]) \subseteq Candidate
  BY DEF TypeOK, Range
<1>2. Taken(n) \subseteq Candidate
  BY <1>1 DEF Taken
<1>3. <<>> \in Seq(Candidate)
  OBVIOUS
<1> QED
  BY <1>2, <1>3 DEF TypeOK, Drained

(* The offer goes out: from now on its connection must stay in the map.    *)
LEMMA DescribedStep ==
  ASSUME IInv, LocalDescribed
  PROVE  IInv'
<1>1. connection \in Session
  BY SessionAssumption DEF IInv, TypeOK, LocalDescribed, Session
<1>2. /\ pending' \in [Session -> Seq(Candidate)]
      /\ applied' \in [Session -> SUBSET Candidate]
  BY <1>1, DrainedTypes DEF IInv, LocalDescribed
<1>3. toPeer' \in Seq(Session)
  BY <1>1, AppendProperties DEF IInv, TypeOK, LocalDescribed
<1>4. TypeOK'
  BY <1>1, <1>2, <1>3 DEF IInv, TypeOK, LocalDescribed
<1>5. UnderWay' /\ Unmade' /\ OpenIsMapped'
  BY <1>1, SessionAssumption
  DEF IInv, TypeOK, LocalDescribed, UnderWay, Unmade, OpenIsMapped, Session
<1> QED
  BY <1>4, <1>5 DEF IInv

(* webrtc_disconnect closes what it takes out of the map. *)
LEMMA DisconnectStep ==
  ASSUME IInv, Disconnect
  PROVE  IInv'
<1>1. connection # 0 => connection \in Session
  BY SessionAssumption DEF IInv, TypeOK, Session
<1>2. TypeOK'
  <2>1. connection' \in 0 .. created'
    BY DEF IInv, TypeOK, Disconnect
  <2>2. pc' \in [Session -> {"none", "open", "closed"}]
    BY <1>1 DEF IInv, TypeOK, Disconnect, Closed
  <2> QED
    BY <2>1, <2>2 DEF IInv, TypeOK, Disconnect, mediaVars, peerVars
<1>3. UnderWay' /\ Unmade' /\ OpenIsMapped'
  BY <1>1, SessionAssumption
  DEF IInv, TypeOK, Disconnect, Closed, UnderWay, Unmade, OpenIsMapped, Session
<1> QED
  BY <1>2, <1>3 DEF IInv

-----------------------------------------------------------------------------
(* A signal of the peer reaches the manager, by either way. *)
LEMMA SignalStep ==
  ASSUME IInv, NEW by \in {"hub", "tool"}, by = "tool" => tool = "idle", NextSignal(by)
  PROVE  IInv'
<1> DEFINE s == Head(toHost)
<1>1. s \in Signal /\ toHost' \in Seq(Signal)
  BY HeadTailProperties DEF IInv, TypeOK, NextSignal
<1>2. connection # 0 => connection \in Session
  BY SessionAssumption DEF IInv, TypeOK, Session
<1> HIDE DEF s
<1>3. ManagerSignal(s, by)
  BY DEF NextSignal, s
<1>4. /\ pending' \in [Session -> Seq(Candidate)]
      /\ applied' \in [Session -> SUBSET Candidate]
      /\ answering' \in [Session -> Seq(Answering)]
      /\ tool' = tool \/ (tool = "idle" /\ tool' = "relaying")
      /\ received' \in [Session -> SUBSET Candidate]
  <2>1. CASE connection = 0
    BY <1>3, <2>1 DEF ManagerSignal, IInv, TypeOK, Answering
  <2>2. CASE connection # 0 /\ s.kind = "answer"
    <3>1. s.of \in Session
      BY <1>1, <2>2 DEF Signal
    <3>2. AcceptAnswer(connection, s.of, by)
      BY <1>3, <2>2 DEF ManagerSignal
    <3>3. [of |-> s.of, by |-> by, state |-> "sent"] \in Answering
      BY <3>1 DEF Answering
    <3>4. answering[connection] \in Seq(Answering)
      BY <1>2, <2>2 DEF IInv, TypeOK, Answering
    <3>5. Append(answering[connection], [of |-> s.of, by |-> by, state |-> "sent"])
            \in Seq(Answering)
      BY <3>3, <3>4, AppendProperties
    <3>6. answering' \in [Session -> Seq(Answering)]
      BY <1>2, <2>2, <3>2, <3>5 DEF AcceptAnswer, IInv, TypeOK, Answering
    <3> QED
      BY <3>2, <3>6 DEF AcceptAnswer, IInv, TypeOK
  <2>3. CASE connection # 0 /\ s.kind = "candidate"
    <3>1. s.c \in Candidate
      BY <1>1, <2>3 DEF Signal
    <3>2. AddIceCandidate(connection, s.c)
      BY <1>3, <2>3 DEF ManagerSignal
    <3>3. Append(pending[connection], s.c) \in Seq(Candidate)
      BY <1>2, <2>3, <3>1, AppendProperties DEF IInv, TypeOK
    <3>4. pending' \in [Session -> Seq(Candidate)]
      BY <1>2, <2>3, <3>2, <3>3 DEF AddIceCandidate, IInv, TypeOK
    <3>5. applied' \in [Session -> SUBSET Candidate]
      <4>1. applied[connection] \cup {s.c} \in SUBSET Candidate
        BY <1>2, <2>3, <3>1 DEF IInv, TypeOK
      <4>2. \/ applied' = [applied EXCEPT ![connection] = @ \cup {s.c}]
            \/ applied' = applied
        BY <3>2 DEF AddIceCandidate
      <4> QED
        BY <1>2, <2>3, <4>1, <4>2 DEF IInv, TypeOK
    <3>6. received' \in [Session -> SUBSET Candidate]
      <4>1. received[connection] \cup {s.c} \in SUBSET Candidate
        BY <1>2, <2>3, <3>1 DEF IInv, TypeOK
      <4>2. \/ received' = [received EXCEPT ![connection] = @ \cup {s.c}]
            \/ received' = [received EXCEPT ![connection] = @]
        BY <3>2 DEF AddIceCandidate
      <4> QED
        BY <1>2, <2>3, <4>1, <4>2 DEF IInv, TypeOK
    <3> QED
      BY <3>2, <3>4, <3>5, <3>6 DEF AddIceCandidate, IInv, TypeOK, Answering
  <2> QED
    BY <1>1, <2>1, <2>2, <2>3, <1>3 DEF ManagerSignal
<1>5. TypeOK'
  BY <1>1, <1>4 DEF IInv, TypeOK, NextSignal, Answering
<1>6. UnderWay' /\ Unmade' /\ OpenIsMapped'
  BY <1>4 DEF IInv, NextSignal, UnderWay, Unmade, OpenIsMapped
<1> QED
  BY <1>5, <1>6 DEF IInv

(* The native connection settles an answer. *)
LEMMA SettlingStep ==
  ASSUME IInv, NEW n \in Session, SetRemoteDescription(n)
  PROVE  IInv'
<1>1. PICK i \in DOMAIN answering[n], state \in {"done", "refused"} :
        /\ answering' = [answering EXCEPT ![n][i].state = state]
        /\ remote' = remote \/ remote' = [remote EXCEPT ![n] = answering[n][i].of]
        /\ UNCHANGED <<toolVars, pc, offered, pending, applied, peerVars, received>>
  <2>1. PICK i \in DOMAIN answering[n] :
          LET takes == pc[n] = "open" /\ offered[n] /\ remote[n] = 0
          IN /\ remote' = IF takes THEN [remote EXCEPT ![n] = answering[n][i].of] ELSE remote
             /\ \E state \in IF pc[n] = "open" THEN {IF takes THEN "done" ELSE "refused"}
                                               ELSE {"done", "refused"} :
                  answering' = [answering EXCEPT ![n][i].state = state]
             /\ UNCHANGED <<toolVars, pc, offered, pending, applied, peerVars, received>>
    BY DEF SetRemoteDescription
  <2> QED
    BY <2>1
<1>2. answering[n] \in Seq(Answering)
  BY DEF IInv, TypeOK, Answering
<1>3. answering[n][i] \in Answering
  BY <1>2
<1>4. [answering[n][i] EXCEPT !.state = state] \in Answering
  BY <1>3 DEF Answering
<1>5. [answering[n] EXCEPT ![i] = [answering[n][i] EXCEPT !.state = state]] \in Seq(Answering)
  BY <1>2, <1>4
<1>6. answering' \in [Session -> Seq(Answering)]
  <2>1. answering' = [answering EXCEPT ![n] =
                        [answering[n] EXCEPT ![i] = [answering[n][i] EXCEPT !.state = state]]]
    BY <1>1
  <2> QED
    BY <1>5, <2>1 DEF IInv, TypeOK, Answering
<1>7. remote' \in [Session -> 0 .. MaxSessions]
  <2>1. answering[n][i].of \in 0 .. MaxSessions
    BY <1>3 DEF Answering, Session
  <2> QED
    BY <1>1, <2>1 DEF IInv, TypeOK
<1>8. TypeOK'
  BY <1>1, <1>6, <1>7 DEF IInv, TypeOK, toolVars, peerVars, Answering
<1>9. UnderWay' /\ Unmade' /\ OpenIsMapped'
  BY <1>1 DEF IInv, UnderWay, Unmade, OpenIsMapped, toolVars
<1> QED
  BY <1>8, <1>9 DEF IInv

(* The await of an answer ends. *)
LEMMA SettledStep ==
  ASSUME IInv, NEW n \in Session, AnswerSettled(n)
  PROVE  IInv'
<1>1. Tail(answering[n]) \in Seq(Answering)
  BY HeadTailProperties DEF IInv, TypeOK, AnswerSettled, Answering
<1>2. answering' \in [Session -> Seq(Answering)]
  BY <1>1 DEF IInv, TypeOK, AnswerSettled, Answering
<1>3. /\ pending' \in [Session -> Seq(Candidate)]
      /\ applied' \in [Session -> SUBSET Candidate]
  <2>1. CASE Drained(n)
    BY <2>1, DrainedTypes DEF IInv
  <2>2. CASE UNCHANGED <<pending, applied>>
    BY <2>2 DEF IInv, TypeOK
  <2> QED
    BY <2>1, <2>2 DEF AnswerSettled
<1>4. tool' \in {"idle", tool}
  BY DEF AnswerSettled
<1>5. TypeOK'
  BY <1>2, <1>3, <1>4 DEF IInv, TypeOK, AnswerSettled, peerVars, Answering
<1>6. UnderWay' /\ Unmade' /\ OpenIsMapped'
  BY <1>4 DEF IInv, AnswerSettled, UnderWay, Unmade, OpenIsMapped
<1> QED
  BY <1>5, <1>6 DEF IInv

(* The peer and its link touch nothing of the host. *)
LEMMA PeerStep ==
  ASSUME IInv, ReadOffer \/ SendAnswer \/ SendCandidate \/ LinkBreaks \/ Rejoins
  PROVE  IInv'
<1> USE DEF toolVars, mediaVars
<1>1. UNCHANGED <<toolVars, mediaVars, received>>
  BY DEF ReadOffer, SendAnswer, SendCandidate, LinkBreaks, Rejoins
<1>2. /\ online' \in BOOLEAN
      /\ breaks' \in 0 .. MaxBreaks
      /\ toPeer' \in Seq(Session)
      /\ toHost' \in Seq(Signal)
      /\ agent' \in [of : 0 .. MaxSessions, answered : BOOLEAN, sent : 0 .. MaxCandidates]
  <2>1. CASE ReadOffer
    <3>1. Head(toPeer) \in Session /\ toPeer' \in Seq(Session)
      BY <2>1, HeadTailProperties DEF ReadOffer, IInv, TypeOK
    <3>2. Head(toPeer) \in 0 .. MaxSessions /\ 0 \in 0 .. MaxCandidates
      BY <3>1, SessionAssumption DEF Session
    <3>3. agent' = [of |-> Head(toPeer), answered |-> FALSE, sent |-> 0]
      BY <2>1 DEF ReadOffer, NoOffer
    <3>4. agent' \in [of : 0 .. MaxSessions, answered : BOOLEAN, sent : 0 .. MaxCandidates]
      BY <3>2, <3>3
    <3> QED
      BY <2>1, <3>1, <3>4 DEF ReadOffer, IInv, TypeOK
  <2>2. CASE SendAnswer
    <3>1. agent.of \in Session
      BY <2>2, SessionAssumption DEF SendAnswer, IInv, TypeOK, Session
    <3>2. [kind |-> "answer", of |-> agent.of] \in Signal
      BY <3>1 DEF Signal
    <3>3. toHost' \in Seq(Signal)
      BY <2>2, <3>2, AppendProperties DEF SendAnswer, IInv, TypeOK
    <3> QED
      BY <2>2, <3>3 DEF SendAnswer, IInv, TypeOK
  <2>3. CASE SendCandidate
    <3>1. agent.of \in Session /\ agent.sent + 1 \in 1 .. MaxCandidates
      BY <2>3, SessionAssumption DEF SendCandidate, IInv, TypeOK, Session
    <3>2. [kind |-> "candidate", c |-> [of |-> agent.of, i |-> agent.sent + 1]] \in Signal
      BY <3>1 DEF Signal, Candidate
    <3>3. toHost' \in Seq(Signal)
      BY <2>3, <3>2, AppendProperties DEF SendCandidate, IInv, TypeOK
    <3>4. agent.sent + 1 \in 0 .. MaxCandidates
      BY <3>1
    <3>5. agent' \in [of : 0 .. MaxSessions, answered : BOOLEAN, sent : 0 .. MaxCandidates]
      BY <2>3, <3>4 DEF SendCandidate, IInv, TypeOK
    <3> QED
      BY <2>3, <3>3, <3>5 DEF SendCandidate, IInv, TypeOK
  <2>4. CASE LinkBreaks
    <3>1. breaks' \in 0 .. MaxBreaks
      BY <2>4, SessionAssumption DEF LinkBreaks, IInv, TypeOK
    <3>2. NoOffer \in [of : 0 .. MaxSessions, answered : BOOLEAN, sent : 0 .. MaxCandidates]
      BY SessionAssumption DEF NoOffer
    <3>3. toPeer' \in Seq(Session) /\ toHost' \in Seq(Signal)
      BY <2>4 DEF LinkBreaks
    <3> QED
      BY <2>4, <3>1, <3>2, <3>3 DEF LinkBreaks
  <2>5. CASE Rejoins
    BY <2>5 DEF Rejoins, IInv, TypeOK
  <2> QED
    BY <2>1, <2>2, <2>3, <2>4, <2>5
<1>3. TypeOK'
  BY <1>1, <1>2 DEF IInv, TypeOK
<1> QED
  BY <1>1, <1>3 DEF IInv, UnderWay, Unmade, OpenIsMapped

-----------------------------------------------------------------------------
LEMMA StepPreserves == IInv /\ [Next]_vars => IInv'
<1> SUFFICES ASSUME IInv, [Next]_vars PROVE IInv'
  OBVIOUS
<1>1. CASE ConnectThrows \/ ConnectStarts \/ OfferCreated \/ OfferFails
  BY <1>1, ConnectStep
<1>2. CASE LocalDescribed
  BY <1>2, DescribedStep
<1>3. CASE Disconnect
  BY <1>3, DisconnectStep
<1>4. CASE HandleSignal
  BY <1>4, SignalStep DEF HandleSignal
<1>5. CASE SignalRelay
  BY <1>5, SignalStep DEF SignalRelay
<1>6. ASSUME NEW n \in Session, SetRemoteDescription(n) PROVE IInv'
  BY <1>6, SettlingStep
<1>7. ASSUME NEW n \in Session, AnswerSettled(n) PROVE IInv'
  BY <1>7, SettledStep
<1>8. CASE ReadOffer \/ SendAnswer \/ SendCandidate \/ LinkBreaks \/ Rejoins
  BY <1>8, PeerStep
<1>9. CASE UNCHANGED vars
  BY <1>9 DEF vars, toolVars, mediaVars, peerVars, IInv, TypeOK, UnderWay, Unmade, OpenIsMapped
<1> QED
  BY <1>1, <1>2, <1>3, <1>4, <1>5, <1>6, <1>7, <1>8, <1>9 DEF Next

LEMMA InvariantHolds == Spec => []IInv
  BY InitEstablishes, StepPreserves, PTL DEF Spec

(* The types of the session's state, whatever the bounds. *)
THEOREM SessionTypes == Spec => []TypeOK
<1>1. IInv => TypeOK
  BY DEF IInv
<1> QED
  BY <1>1, InvariantHolds, PTL

(* A native connection whose offer went out is open only while it is the   *)
(* one that webrtc_disconnect finds, so that it can always be closed.      *)
THEOREM NoConnectionOrphaned == Spec => []OpenIsMapped
<1>1. IInv => OpenIsMapped
  BY DEF IInv
<1> QED
  BY <1>1, InvariantHolds, PTL

-----------------------------------------------------------------------------
(* Candidates.  Of a candidate there is at most one copy among the signals *)
(* on their way and the lists it may wait in, because the peer numbers its *)
(* candidates (Numbered), works on an offer once (OfferedOnce), and knows  *)
(* of no offer before it is made (NoneBefore).                             *)

OnItsWay(c) == \E i \in DOMAIN toHost : toHost[i].kind = "candidate" /\ toHost[i].c = c

Waits(c) == \E n \in Session : c \in Range(pending[n])

SentOnce ==
  \A i, j \in DOMAIN toHost :
    /\ toHost[i].kind = "candidate" /\ toHost[j].kind = "candidate"
    /\ toHost[i].c = toHost[j].c
    => i = j

InOnePlace == \A c \in Candidate : ~(OnItsWay(c) /\ Waits(c))

Numbered ==
  \A c \in Candidate : (OnItsWay(c) \/ Waits(c)) /\ c.of = agent.of => c.i <= agent.sent

(* The peer has not seen the offer of m yet. *)
Unread(m) == ~offered[m] \/ m \in Range(toPeer)

NoneBefore ==
  \A m \in Session : Unread(m) =>
    /\ agent.of # m
    /\ \A c \in Candidate : c.of = m => ~OnItsWay(c) /\ ~Waits(c)

OfferedOnce ==
  /\ \A i \in DOMAIN toPeer : offered[toPeer[i]]
  /\ \A i, j \in DOMAIN toPeer : toPeer[i] = toPeer[j] => i = j

Delivery == SentOnce /\ InOnePlace /\ Numbered /\ NoneBefore /\ OfferedOnce

(* Nothing has been received for an offer that is not out, and nothing at  *)
(* all by a transport that does not exist yet.                             *)
Untouched ==
  \A n \in Session :
    /\ ~offered[n] => received[n] = {}
    /\ n > created => pending[n] = <<>> /\ applied[n] = {} /\ answering[n] = <<>> /\ remote[n] = 0

(* An accepted answer whose handler has not gone on yet. *)
HasDone(n) == \E i \in DOMAIN answering[n] : answering[n][i].state = "done"

(* CandidatesKept for one connection, and why nothing is left waiting: the *)
(* handler of the accepted answer is still to come.                        *)
KeptFor(n) ==
  pc[n] = "open" =>
    /\ received[n] \subseteq Range(pending[n]) \cup applied[n]
    /\ Range(pending[n]) \cap applied[n] = {}
    /\ remote[n] = 0 => applied[n] = {} /\ ~HasDone(n)
    /\ remote[n] # 0 => pending[n] = <<>> \/ HasDone(n)

CInv == Delivery /\ Untouched /\ \A n \in Session : KeptFor(n)

(* Positions in a sequence without its first element. *)
LEMMA TailFacts ==
  ASSUME NEW S, NEW s \in Seq(S), s # <<>>
  PROVE  /\ Head(s) = s[1] /\ 1 \in DOMAIN s
         /\ \A i \in DOMAIN Tail(s) : i \in Nat /\ i + 1 \in DOMAIN s /\ i + 1 # 1 /\ Tail(s)[i] = s[i + 1]
         /\ \A i \in DOMAIN s : i # 1 => i - 1 \in DOMAIN Tail(s) /\ Tail(s)[i - 1] = s[i]
<1>1. Tail(s) \in Seq(S) /\ Len(Tail(s)) = Len(s) - 1 /\ Len(s) \in Nat /\ Len(s) >= 1
  BY HeadTailProperties, LenProperties
<1>2. DOMAIN s = 1 .. Len(s) /\ DOMAIN Tail(s) = 1 .. Len(s) - 1
  BY <1>1, LenProperties
<1>3. \A i \in 1 .. Len(s) - 1 : Tail(s)[i] = s[i + 1]
  BY <1>1
<1>4. \A i \in DOMAIN Tail(s) : i \in Nat /\ i + 1 \in DOMAIN s /\ i + 1 # 1 /\ Tail(s)[i] = s[i + 1]
  BY <1>1, <1>2, <1>3
<1>5. ASSUME NEW i \in DOMAIN s, i # 1
      PROVE  i - 1 \in DOMAIN Tail(s) /\ Tail(s)[i - 1] = s[i]
  <2>1. i \in Nat /\ i - 1 \in 1 .. Len(s) - 1 /\ (i - 1) + 1 = i
    BY <1>1, <1>2, <1>5
  <2> QED
    BY <1>2, <1>3, <2>1
<1> QED
  BY <1>1, <1>2, <1>4, <1>5, HeadTailProperties

(* Positions in a sequence with one more element. *)
LEMMA AppendFacts ==
  ASSUME NEW S, NEW s \in Seq(S), NEW e \in S
  PROVE  /\ DOMAIN Append(s, e) = DOMAIN s \cup {Len(s) + 1}
         /\ Len(s) + 1 \notin DOMAIN s
         /\ \A i \in DOMAIN s : Append(s, e)[i] = s[i]
         /\ Append(s, e)[Len(s) + 1] = e
<1>1. Len(s) \in Nat /\ DOMAIN s = 1 .. Len(s) /\ DOMAIN Append(s, e) = 1 .. Len(s) + 1
  BY AppendProperties, LenProperties
<1> QED
  BY <1>1, AppendProperties

LEMMA RangeFacts ==
  ASSUME NEW S, NEW s \in Seq(S), NEW e \in S
  PROVE  Range(Append(s, e)) = Range(s) \cup {e}
BY AppendFacts DEF Range

LEMMA RangeEmpty == Range(<<>>) = {} /\ DOMAIN <<>> = {}
BY DEF Range

(* The host takes candidates out of the lists only, and the rest of what   *)
(* Delivery is about stays the same.                                       *)
LEMMA HostKeepsDelivery ==
  ASSUME Delivery, UNCHANGED <<offered, toPeer, toHost, agent>>,
         \A c \in Candidate : Waits(c)' => Waits(c)
  PROVE  Delivery'
<1>1. \A c \in Candidate : OnItsWay(c)' <=> OnItsWay(c)
  BY DEF OnItsWay
<1>2. \A m \in Session : Unread(m)' <=> Unread(m)
  BY DEF Unread, Range
<1>3. SentOnce' /\ OfferedOnce'
  BY DEF Delivery, SentOnce, OfferedOnce
<1>4. InOnePlace'
  BY <1>1 DEF Delivery, InOnePlace
<1>5. Numbered'
  BY <1>1 DEF Delivery, Numbered
<1>6. NoneBefore'
  BY <1>1, <1>2 DEF Delivery, NoneBefore
<1> QED
  BY <1>3, <1>4, <1>5, <1>6 DEF Delivery

LEMMA KeptUnchanged ==
  ASSUME NEW n \in Session, KeptFor(n),
         pc'[n] = "open" => pc[n] = "open",
         pending'[n] = pending[n], applied'[n] = applied[n], remote'[n] = remote[n],
         answering'[n] = answering[n], received'[n] = received[n]
  PROVE  KeptFor(n)'
BY DEF KeptFor, HasDone

LEMMA KeptEmpty ==
  ASSUME NEW n \in Session, pending'[n] = <<>>, applied'[n] = {}, remote'[n] = 0,
         answering'[n] = <<>>, received'[n] = {}
  PROVE  KeptFor(n)'
BY RangeEmpty DEF KeptFor, HasDone

(* Draining keeps what was received: it is taken, or there was nothing. *)
LEMMA DrainedKeeps ==
  ASSUME TypeOK, NEW n \in Session, KeptFor(n), Drained(n),
         pc' = pc, remote' = remote, received' = received,
         pc[n] = "open" => remote[n] # 0 \/ (received[n] = {} /\ answering'[n] = answering[n])
  PROVE  KeptFor(n)'
<1> SUFFICES ASSUME pc[n] = "open"
             PROVE  KeptFor(n)'
  BY DEF KeptFor
<1>1. pending'[n] = <<>> /\ applied'[n] = applied[n] \cup Taken(n)
  BY DEF Drained, TypeOK
<1>2. CASE remote[n] # 0
  BY <1>1, <1>2, RangeEmpty DEF KeptFor, Taken
<1>3. CASE remote[n] = 0
  BY <1>1, <1>3, RangeEmpty DEF KeptFor, Taken, HasDone
<1> QED
  BY <1>2, <1>3

LEMMA DrainedTakesOut ==
  ASSUME TypeOK, NEW n \in Session, Drained(n)
  PROVE  /\ \A c \in Candidate : Waits(c)' => Waits(c)
         /\ \A m \in Session : m # n => pending'[m] = pending[m] /\ applied'[m] = applied[m]
<1>1. \A m \in Session : pending'[m] = IF m = n THEN <<>> ELSE pending[m]
  BY DEF Drained, TypeOK
<1>2. \A m \in Session : m # n => applied'[m] = applied[m]
  BY DEF Drained, TypeOK
<1>3. \A c \in Candidate : Waits(c)' => Waits(c)
  BY <1>1, RangeEmpty DEF Waits
<1> QED
  BY <1>1, <1>2, <1>3

-----------------------------------------------------------------------------
LEMMA InitEstablishesC == Init => CInv
<1> SUFFICES ASSUME Init PROVE CInv
  OBVIOUS
<1>1. \A c \in Candidate : ~OnItsWay(c) /\ ~Waits(c)
  BY RangeEmpty DEF Init, OnItsWay, Waits
<1>2. 0 \notin Session
  BY DEF Session
<1>3. Delivery
  BY <1>1, <1>2, RangeEmpty
  DEF Init, NoOffer, Delivery, SentOnce, InOnePlace, Numbered, NoneBefore, OfferedOnce
<1>4. Untouched /\ \A n \in Session : KeptFor(n)
  BY DEF Init, Untouched, KeptFor
<1> QED
  BY <1>3, <1>4 DEF CInv

(* The tools create and close connections; none but a new one, which has   *)
(* nothing yet, becomes open.                                              *)
LEMMA ToolsKeepCandidates ==
  ASSUME IInv, CInv,
         ConnectThrows \/ ConnectStarts \/ OfferCreated \/ OfferFails \/ Disconnect
  PROVE  CInv'
<1>1. /\ UNCHANGED <<offered, remote, pending, applied, answering, received, toPeer, toHost, agent>>
      /\ created' \in {created, created + 1}
  BY DEF ConnectThrows, ConnectStarts, OfferCreated, OfferFails, Disconnect, mediaVars, peerVars
<1>2. created \in Int /\ \A n \in Session : n \in Int
  BY SessionAssumption DEF IInv, TypeOK, Session
<1>3. Delivery'
  <2>1. \A c \in Candidate : Waits(c)' => Waits(c)
    BY <1>1 DEF Waits
  <2> QED
    BY <1>1, <2>1, HostKeepsDelivery DEF CInv
<1>4. Untouched'
  BY <1>1, <1>2 DEF CInv, Untouched
<1>5. \A n \in Session : pc'[n] = "open" => pc[n] = "open" \/ n > created
  <2>1. CASE ConnectStarts
    BY <1>2, <2>1 DEF ConnectStarts, IInv, TypeOK
  <2>2. CASE Disconnect
    BY <2>2 DEF Disconnect, Closed, IInv, TypeOK
  <2>3. CASE ConnectThrows \/ OfferCreated \/ OfferFails
    BY <2>3 DEF ConnectThrows, OfferCreated, OfferFails, mediaVars
  <2> QED
    BY <2>1, <2>2, <2>3
<1>6. ASSUME NEW n \in Session
      PROVE  KeptFor(n)'
  <2>1. CASE n > created
    <3>1. /\ ~offered[n] /\ received[n] = {} /\ pending[n] = <<>> /\ applied[n] = {}
          /\ answering[n] = <<>> /\ remote[n] = 0
      BY <2>1 DEF IInv, Unmade, CInv, Untouched
    <3> QED
      BY <1>1, <3>1, KeptEmpty
  <2>2. CASE pc'[n] = "open" => pc[n] = "open"
    BY <1>1, <2>2, KeptUnchanged DEF CInv
  <2> QED
    BY <1>5, <2>1, <2>2
<1> QED
  BY <1>3, <1>4, <1>6 DEF CInv

(* The offer goes out: nobody has heard of it before. *)
LEMMA DescribedKeepsCandidates ==
  ASSUME IInv, CInv, LocalDescribed
  PROVE  CInv'
<1>1. connection \in Session /\ ~offered[connection] /\ connection <= created
  BY SessionAssumption DEF IInv, TypeOK, UnderWay, LocalDescribed, Session
<1>2. TypeOK /\ Drained(connection)
  BY DEF IInv, LocalDescribed
<1>3. /\ UNCHANGED <<created, pc, remote, answering, toHost, agent, received>>
      /\ \A n \in Session : offered'[n] = IF n = connection THEN TRUE ELSE offered[n]
  BY <1>1 DEF LocalDescribed, IInv, TypeOK
<1>4. /\ \A c \in Candidate : Waits(c)' => Waits(c)
      /\ \A m \in Session : m # connection => pending'[m] = pending[m] /\ applied'[m] = applied[m]
  BY <1>1, <1>2, DrainedTakesOut
<1>5. \A c \in Candidate : OnItsWay(c)' <=> OnItsWay(c)
  BY <1>3 DEF OnItsWay
<1>6. toPeer' = toPeer \/ toPeer' = Append(toPeer, connection)
  BY DEF LocalDescribed
<1>7. OfferedOnce' /\ Range(toPeer') \subseteq Range(toPeer) \cup {connection}
  <2>1. toPeer \in Seq(Session) /\ \A i \in DOMAIN toPeer : toPeer[i] \in Session
    BY DEF IInv, TypeOK
  <2>2. \A i \in DOMAIN toPeer : toPeer[i] # connection
    BY <1>1 DEF CInv, Delivery, OfferedOnce
  <2>3. CASE toPeer' = toPeer
    BY <1>3, <2>1, <2>3 DEF CInv, Delivery, OfferedOnce, Range
  <2>4. CASE toPeer' = Append(toPeer, connection)
    <3>1. /\ DOMAIN toPeer' = DOMAIN toPeer \cup {Len(toPeer) + 1}
          /\ Len(toPeer) + 1 \notin DOMAIN toPeer
          /\ \A i \in DOMAIN toPeer : toPeer'[i] = toPeer[i]
          /\ toPeer'[Len(toPeer) + 1] = connection
      BY <1>1, <2>1, <2>4, AppendFacts
    <3>2. OfferedOnce'
      BY <1>1, <1>3, <2>1, <2>2, <3>1 DEF CInv, Delivery, OfferedOnce
    <3>3. Range(toPeer') = Range(toPeer) \cup {connection}
      BY <1>1, <2>1, <2>4, RangeFacts
    <3> QED
      BY <3>2, <3>3
  <2> QED
    BY <1>6, <2>3, <2>4
<1>8. Delivery'
  <2>1. SentOnce' /\ InOnePlace' /\ Numbered'
    BY <1>3, <1>4, <1>5 DEF CInv, Delivery, SentOnce, InOnePlace, Numbered
  <2>2. \A m \in Session : Unread(m)' => Unread(m)
    BY <1>1, <1>3, <1>7 DEF Unread
  <2>3. NoneBefore'
    BY <1>3, <1>4, <1>5, <2>2 DEF CInv, Delivery, NoneBefore
  <2> QED
    BY <1>7, <2>1, <2>3 DEF Delivery
<1>9. Untouched'
  <2>1. created \in Int /\ connection \in Int
    BY SessionAssumption DEF IInv, TypeOK
  <2>2. ASSUME NEW n \in Session, n > created
        PROVE  n # connection
    BY <1>1, <2>1, <2>2 DEF Session
  <2> QED
    BY <1>1, <1>3, <1>4, <2>2 DEF CInv, Untouched
<1>10. ASSUME NEW n \in Session
       PROVE  KeptFor(n)'
  <2>1. CASE n = connection
    <3>1. received[n] = {}
      BY <1>1, <2>1 DEF CInv, Untouched
    <3> QED
      BY <1>1, <1>2, <1>3, <2>1, <3>1, DrainedKeeps DEF CInv
  <2>2. CASE n # connection
    BY <1>3, <1>4, <2>2, KeptUnchanged DEF CInv
  <2> QED
    BY <2>1, <2>2
<1> QED
  BY <1>8, <1>9, <1>10 DEF CInv

(* A signal is handled: a candidate moves from the queue to the connection.*)
LEMMA SignalKeepsCandidates ==
  ASSUME IInv, CInv, NEW by \in {"hub", "tool"}, NextSignal(by)
  PROVE  CInv'
<1>1. PICK s \in Signal : s = Head(toHost)
  BY HeadTailProperties DEF IInv, TypeOK, NextSignal
<1>2. /\ ManagerSignal(s, by) /\ toHost' = Tail(toHost)
      /\ UNCHANGED <<created, connection, pc, offered, remote, toPeer, agent>>
  BY <1>1 DEF NextSignal
<1>3. connection # 0 => connection \in Session /\ connection <= created
  BY SessionAssumption DEF IInv, TypeOK, Session
<1>4. /\ toHost[1] = s /\ 1 \in DOMAIN toHost
      /\ \A i \in DOMAIN toHost' : i \in Nat /\ i + 1 \in DOMAIN toHost /\ i + 1 # 1
                                   /\ toHost'[i] = toHost[i + 1]
  BY <1>1, <1>2, TailFacts DEF IInv, TypeOK, NextSignal
<1>5. \A c \in Candidate :
        OnItsWay(c)' => OnItsWay(c) /\ ~(s.kind = "candidate" /\ s.c = c)
  BY <1>4 DEF OnItsWay, CInv, Delivery, SentOnce
<1>6. s.kind = "candidate" => s.c \in Candidate /\ OnItsWay(s.c)
  BY <1>4 DEF OnItsWay, Signal
<1>7. \/ UNCHANGED <<pending, applied, answering, received>>
      \/ /\ connection # 0 /\ s.kind = "answer"
         /\ AcceptAnswer(connection, s.of, by)
      \/ /\ connection # 0 /\ s.kind = "candidate"
         /\ AddIceCandidate(connection, s.c)
  BY <1>2 DEF ManagerSignal
<1>8. \A n \in Session :
        n # connection => /\ pending'[n] = pending[n] /\ applied'[n] = applied[n]
                          /\ answering'[n] = answering[n] /\ received'[n] = received[n]
  BY <1>7 DEF AcceptAnswer, AddIceCandidate, IInv, TypeOK
<1>9. ASSUME connection # 0
      PROVE  /\ KeptFor(connection)'
             /\ Range(pending'[connection])
                  \subseteq Range(pending[connection])
                              \cup (IF s.kind = "candidate" THEN {s.c} ELSE {})
             /\ received'[connection] = received[connection] \/ offered[connection]
  <2> DEFINE n == connection
  <2>1. n \in Session /\ n' = n /\ pc'[n] = pc[n] /\ remote'[n] = remote[n] /\ KeptFor(n)
    BY <1>2, <1>3, <1>9 DEF CInv
  <2> HIDE DEF n
  <2>2. CASE UNCHANGED <<pending, applied, answering, received>>
    BY <2>1, <2>2, KeptUnchanged DEF n
  <2>3. CASE s.kind = "answer" /\ AcceptAnswer(n, s.of, by)
    <3>1. PICK e \in Answering : e.state = "sent" /\ answering'[n] = Append(answering[n], e)
      <4>1. [of |-> s.of, by |-> by, state |-> "sent"] \in Answering
        BY <2>3 DEF Answering, Signal
      <4>2. answering'[n] = Append(answering[n], [of |-> s.of, by |-> by, state |-> "sent"])
        BY <2>1, <2>3 DEF AcceptAnswer, IInv, TypeOK
      <4> QED
        BY <4>1, <4>2
    <3>2. answering[n] \in Seq(Answering)
      BY <2>1 DEF IInv, TypeOK, Answering
    <3>3. /\ DOMAIN answering'[n] = DOMAIN answering[n] \cup {Len(answering[n]) + 1}
          /\ \A i \in DOMAIN answering[n] : answering'[n][i] = answering[n][i]
          /\ answering'[n][Len(answering[n]) + 1] = e
      BY <3>1, <3>2, AppendFacts
    <3>4. (\E i \in DOMAIN answering'[n] : answering'[n][i].state = "done") <=> HasDone(n)
      BY <3>1, <3>3 DEF HasDone
    <3>5. pending'[n] = pending[n] /\ applied'[n] = applied[n] /\ received'[n] = received[n]
      BY <2>3 DEF AcceptAnswer
    <3> QED
      BY <2>1, <3>4, <3>5 DEF KeptFor, HasDone, n
  <2>4. CASE s.kind = "candidate" /\ AddIceCandidate(n, s.c)
    <3>1. /\ s.c \in Candidate /\ OnItsWay(s.c)
          /\ s.c \notin Range(pending[n])
      BY <1>6, <2>1, <2>4 DEF CInv, Delivery, InOnePlace, Waits
    <3>2. /\ received'[n] = received[n] \/ (s.c.of = n /\ received'[n] = received[n] \cup {s.c})
          /\ answering' = answering
      BY <2>1, <2>4 DEF AddIceCandidate, IInv, TypeOK
    <3>3. s.c.of = n => offered[n]
      BY <2>1, <3>1 DEF CInv, Delivery, NoneBefore, Unread
    <3>4. CASE remote[n] = 0
      <4>1. pending'[n] = Append(pending[n], s.c) /\ applied'[n] = applied[n]
        BY <2>1, <2>4, <3>4 DEF AddIceCandidate, IInv, TypeOK
      <4>2. Range(pending'[n]) = Range(pending[n]) \cup {s.c}
        BY <2>1, <3>1, <4>1, RangeFacts DEF IInv, TypeOK
      <4> QED
        BY <2>1, <2>4, <3>2, <3>3, <3>4, <4>1, <4>2 DEF KeptFor, HasDone, n
    <3>5. CASE remote[n] # 0
      <4>1. pending'[n] = pending[n] /\ applied'[n] = applied[n] \cup {s.c}
        BY <2>1, <2>4, <3>5 DEF AddIceCandidate, IInv, TypeOK
      <4> QED
        BY <2>1, <2>4, <3>1, <3>2, <3>3, <3>5, <4>1 DEF KeptFor, HasDone, n
    <3> QED
      BY <3>4, <3>5
  <2> QED
    BY <1>7, <1>9, <2>2, <2>3, <2>4 DEF n
<1>10. \A c \in Candidate : Waits(c)' => Waits(c) \/ (s.kind = "candidate" /\ c = s.c)
  <2> SUFFICES ASSUME NEW c \in Candidate, NEW n \in Session, c \in Range(pending'[n])
               PROVE  Waits(c) \/ (s.kind = "candidate" /\ c = s.c)
    BY DEF Waits
  <2>1. CASE n # connection
    BY <1>8, <2>1 DEF Waits
  <2>2. CASE n = connection
    <3>1. connection # 0
      BY <2>2 DEF Session
    <3> QED
      BY <1>9, <2>2, <3>1 DEF Waits
  <2> QED
    BY <2>1, <2>2
<1>11. Delivery'
  <2>1. SentOnce'
    BY <1>4 DEF CInv, Delivery, SentOnce
  <2>2. InOnePlace'
    BY <1>5, <1>10 DEF CInv, Delivery, InOnePlace
  <2>3. Numbered'
    BY <1>2, <1>5, <1>6, <1>10 DEF CInv, Delivery, Numbered
  <2>4. \A m \in Session : Unread(m)' <=> Unread(m)
    BY <1>2 DEF Unread
  <2>5. NoneBefore'
    BY <1>2, <1>5, <1>6, <1>10, <2>4 DEF CInv, Delivery, NoneBefore
  <2>6. OfferedOnce'
    BY <1>2 DEF CInv, Delivery, OfferedOnce
  <2> QED
    BY <2>1, <2>2, <2>3, <2>5, <2>6 DEF Delivery
<1>12. Untouched'
  <2> SUFFICES ASSUME NEW n \in Session
               PROVE  /\ ~offered'[n] => received'[n] = {}
                      /\ n > created' => /\ pending'[n] = <<>> /\ applied'[n] = {}
                                         /\ answering'[n] = <<>> /\ remote'[n] = 0
    BY DEF Untouched
  <2>1. CASE n # connection
    BY <1>2, <1>8, <2>1 DEF CInv, Untouched
  <2>2. CASE n = connection
    <3>1. connection # 0 /\ ~(n > created)
      BY <1>3, <2>2, SessionAssumption DEF Session, IInv, TypeOK
    <3> QED
      BY <1>2, <1>9, <2>2, <3>1 DEF CInv, Untouched
  <2> QED
    BY <2>1, <2>2
<1>13. ASSUME NEW n \in Session
       PROVE  KeptFor(n)'
  <2>1. CASE n # connection
    BY <1>2, <1>8, <2>1, KeptUnchanged DEF CInv
  <2>2. CASE n = connection
    <3>1. connection # 0 /\ connection' = connection
      BY <1>2, <2>2 DEF Session
    <3> QED
      BY <1>9, <2>2, <3>1 DEF KeptFor, HasDone
  <2> QED
    BY <2>1, <2>2
<1> QED
  BY <1>11, <1>12, <1>13 DEF CInv

(* The native connection accepts an answer, or refuses it. *)
LEMMA SettlingKeepsCandidates ==
  ASSUME IInv, CInv, NEW n \in Session, SetRemoteDescription(n)
  PROVE  CInv'
<1> DEFINE takes == pc[n] = "open" /\ offered[n] /\ remote[n] = 0
<1>1. PICK i \in DOMAIN answering[n], state \in {"done", "refused"} :
        /\ answering[n][i].state = "sent"
        /\ remote' = IF takes THEN [remote EXCEPT ![n] = answering[n][i].of] ELSE remote
        /\ pc[n] = "open" => state = IF takes THEN "done" ELSE "refused"
        /\ answering' = [answering EXCEPT ![n][i].state = state]
        /\ UNCHANGED <<created, pc, offered, pending, applied, toPeer, toHost, agent, received>>
  <2>1. PICK i \in DOMAIN answering[n] :
          /\ answering[n][i].state = "sent"
          /\ remote' = IF takes THEN [remote EXCEPT ![n] = answering[n][i].of] ELSE remote
          /\ \E state \in IF pc[n] = "open" THEN {IF takes THEN "done" ELSE "refused"}
                                            ELSE {"done", "refused"} :
               answering' = [answering EXCEPT ![n][i].state = state]
          /\ UNCHANGED <<created, pc, offered, pending, applied, toPeer, toHost, agent, received>>
    BY DEF SetRemoteDescription, toolVars, peerVars
  <2> QED
    BY <2>1
<1> HIDE DEF takes
<1>2. answering[n] \in Seq(Answering) /\ answering[n][i] \in Answering
  <2>1. answering[n] \in Seq(Answering)
    BY DEF IInv, TypeOK, Answering
  <2> QED
    BY <2>1
<1>3. /\ \A m \in Session : m # n => answering'[m] = answering[m] /\ remote'[m] = remote[m]
      /\ DOMAIN answering'[n] = DOMAIN answering[n]
      /\ \A j \in DOMAIN answering[n] : j # i => answering'[n][j] = answering[n][j]
      /\ answering'[n][i].state = state
  <2>1. answering' = [answering EXCEPT ![n] =
                        [answering[n] EXCEPT ![i] = [answering[n][i] EXCEPT !.state = state]]]
    BY <1>1
  <2>2. answering'[n] = [answering[n] EXCEPT ![i] = [answering[n][i] EXCEPT !.state = state]]
    BY <2>1 DEF IInv, TypeOK
  <2>3. \A m \in Session : m # n => answering'[m] = answering[m]
    BY <2>1 DEF IInv, TypeOK
  <2>4. \A m \in Session : m # n => remote'[m] = remote[m]
    BY <1>1 DEF IInv, TypeOK
  <2>5. [answering[n][i] EXCEPT !.state = state].state = state
    BY <1>2 DEF Answering
  <2> QED
    BY <1>2, <2>2, <2>3, <2>4, <2>5
<1>4. Delivery'
  <2>1. \A c \in Candidate : Waits(c)' => Waits(c)
    BY <1>1 DEF Waits
  <2> QED
    BY <1>1, <2>1, HostKeepsDelivery DEF CInv
<1>5. ~(n > created)
  BY RangeEmpty DEF CInv, Untouched
<1>6. Untouched'
  BY <1>1, <1>3, <1>5 DEF CInv, Untouched
<1>7. KeptFor(n)'
  <2> SUFFICES ASSUME pc[n] = "open"
               PROVE  KeptFor(n)'
    BY <1>1 DEF KeptFor
  <2>1. CASE takes
    <3>1. remote'[n] = answering[n][i].of /\ remote'[n] # 0
      BY <1>1, <1>2, <2>1 DEF IInv, TypeOK, Answering, Session
    <3>2. HasDone(n)'
      BY <1>1, <1>3, <2>1 DEF HasDone
    <3> QED
      BY <1>1, <3>1, <3>2 DEF CInv, KeptFor
  <2>2. CASE ~takes
    <3>1. remote' = remote /\ (HasDone(n)' <=> HasDone(n))
      BY <1>1, <1>3, <2>2 DEF HasDone
    <3> QED
      BY <1>1, <3>1 DEF CInv, KeptFor
  <2> QED
    BY <2>1, <2>2
<1>8. ASSUME NEW m \in Session, m # n
      PROVE  KeptFor(m)'
  BY <1>1, <1>3, <1>8, KeptUnchanged DEF CInv
<1> QED
  BY <1>4, <1>6, <1>7, <1>8 DEF CInv

(* The handler of an answer goes on. *)
LEMMA SettledKeepsCandidates ==
  ASSUME IInv, CInv, NEW n \in Session, AnswerSettled(n)
  PROVE  CInv'
<1>1. /\ answering[n] # <<>> /\ answering[n] \in Seq(Answering)
      /\ answering'[n] = Tail(answering[n])
      /\ \A m \in Session : m # n => answering'[m] = answering[m]
      /\ UNCHANGED <<created, pc, offered, remote, toPeer, toHost, agent, received>>
  BY DEF AnswerSettled, IInv, TypeOK, Answering, peerVars
<1>2. /\ Head(answering[n]) = answering[n][1] /\ 1 \in DOMAIN answering[n]
      /\ \A i \in DOMAIN answering'[n] : i \in Nat /\ i + 1 \in DOMAIN answering[n]
                                         /\ answering'[n][i] = answering[n][i + 1]
      /\ \A i \in DOMAIN answering[n] :
           i # 1 => i - 1 \in DOMAIN answering'[n] /\ answering'[n][i - 1] = answering[n][i]
  BY <1>1, TailFacts
<1>3. \/ Head(answering[n]).state = "done" /\ Drained(n)
      \/ Head(answering[n]).state # "done" /\ UNCHANGED <<pending, applied>>
  BY DEF AnswerSettled
<1>4. /\ \A c \in Candidate : Waits(c)' => Waits(c)
      /\ \A m \in Session : m # n => pending'[m] = pending[m] /\ applied'[m] = applied[m]
  <2>1. CASE Drained(n)
    BY <2>1, DrainedTakesOut DEF IInv
  <2>2. CASE UNCHANGED <<pending, applied>>
    BY <2>2 DEF Waits
  <2> QED
    BY <1>3, <2>1, <2>2
<1>5. Delivery'
  BY <1>1, <1>4, HostKeepsDelivery DEF CInv
<1>6. ~(n > created)
  BY <1>1 DEF CInv, Untouched
<1>7. Untouched'
  BY <1>1, <1>4, <1>6 DEF CInv, Untouched
<1>8. KeptFor(n)'
  <2>1. CASE Head(answering[n]).state = "done" /\ Drained(n)
    <3>1. HasDone(n)
      BY <1>2, <2>1 DEF HasDone
    <3>2. pc[n] = "open" => remote[n] # 0
      BY <3>1 DEF CInv, KeptFor
    <3> QED
      BY <1>1, <2>1, <3>2, DrainedKeeps DEF CInv, IInv
  <2>2. CASE Head(answering[n]).state # "done" /\ UNCHANGED <<pending, applied>>
    <3>1. HasDone(n)' <=> HasDone(n)
      BY <1>2, <2>2 DEF HasDone
    <3> QED
      BY <1>1, <2>2, <3>1 DEF CInv, KeptFor
  <2> QED
    BY <1>3, <2>1, <2>2
<1>9. ASSUME NEW m \in Session, m # n
      PROVE  KeptFor(m)'
  BY <1>1, <1>4, <1>9, KeptUnchanged DEF CInv
<1> QED
  BY <1>5, <1>7, <1>8, <1>9 DEF CInv

(* The peer and its link. *)
LEMMA PeerKeepsCandidates ==
  ASSUME IInv, CInv, ReadOffer \/ SendAnswer \/ SendCandidate \/ LinkBreaks \/ Rejoins
  PROVE  CInv'
<1>1. UNCHANGED <<created, pc, offered, remote, pending, applied, answering, received>>
  BY DEF ReadOffer, SendAnswer, SendCandidate, LinkBreaks, Rejoins, toolVars, mediaVars
<1>2. \A c \in Candidate : Waits(c)' <=> Waits(c)
  BY <1>1 DEF Waits
<1>3. Untouched' /\ \A n \in Session : KeptFor(n)'
  BY <1>1 DEF CInv, Untouched, KeptFor, HasDone
<1>4. CASE ReadOffer
  <2>1. PICK k \in Session : k = Head(toPeer)
    BY <1>4, HeadTailProperties DEF ReadOffer, IInv, TypeOK
  <2>2. /\ toHost' = toHost /\ toPeer' = Tail(toPeer)
        /\ agent'.of = k /\ toPeer # <<>> /\ toPeer \in Seq(Session)
    BY <1>4, <2>1 DEF ReadOffer, NoOffer, IInv, TypeOK
  <2>3. /\ toPeer[1] = k /\ 1 \in DOMAIN toPeer
        /\ \A i \in DOMAIN toPeer' : i \in Nat /\ i + 1 \in DOMAIN toPeer /\ i + 1 # 1
                                     /\ toPeer'[i] = toPeer[i + 1]
    BY <2>1, <2>2, TailFacts
  <2>4. \A c \in Candidate : OnItsWay(c)' <=> OnItsWay(c)
    BY <2>2 DEF OnItsWay
  <2>5. Unread(k) /\ offered[k]
    BY <2>3 DEF Unread, Range, CInv, Delivery, OfferedOnce
  <2>6. \A m \in Session : Unread(m)' => Unread(m) /\ m # k
    BY <1>1, <2>3, <2>5 DEF Unread, Range, CInv, Delivery, OfferedOnce
  <2>7. SentOnce' /\ InOnePlace'
    BY <1>2, <2>2, <2>4 DEF CInv, Delivery, SentOnce, InOnePlace
  <2>8. Numbered'
    BY <1>2, <2>2, <2>4, <2>5 DEF CInv, Delivery, Numbered, NoneBefore
  <2>9. NoneBefore'
    BY <1>2, <2>2, <2>4, <2>6 DEF CInv, Delivery, NoneBefore
  <2>10. OfferedOnce'
    BY <1>1, <2>3 DEF CInv, Delivery, OfferedOnce
  <2> QED
    BY <1>3, <2>7, <2>8, <2>9, <2>10 DEF CInv, Delivery
<1>5. CASE SendAnswer \/ SendCandidate
  <2>1. PICK e \in Signal :
          /\ toHost' = Append(toHost, e)
          /\ \/ e.kind = "answer" /\ agent'.sent = agent.sent
             \/ /\ e.kind = "candidate" /\ e.c \in Candidate
                /\ e.c = [of |-> agent.of, i |-> agent.sent + 1]
                /\ agent'.sent = agent.sent + 1
    <3>1. agent.of \in Session /\ agent \in [of : 0 .. MaxSessions, answered : BOOLEAN, sent : 0 .. MaxCandidates]
      BY <1>5, SessionAssumption DEF SendAnswer, SendCandidate, IInv, TypeOK, Session
    <3>2. CASE SendAnswer
      <4>1. [kind |-> "answer", of |-> agent.of] \in Signal
        BY <3>1 DEF Signal
      <4>2. agent'.sent = agent.sent
        BY <3>1, <3>2 DEF SendAnswer
      <4> QED
        BY <3>2, <4>1, <4>2 DEF SendAnswer
    <3>3. CASE SendCandidate
      <4>1. agent.sent + 1 \in 1 .. MaxCandidates
        BY <3>1, <3>3, SessionAssumption DEF SendCandidate
      <4>2. [of |-> agent.of, i |-> agent.sent + 1] \in Candidate
        BY <3>1, <4>1 DEF Candidate
      <4>3. [kind |-> "candidate", c |-> [of |-> agent.of, i |-> agent.sent + 1]] \in Signal
        BY <4>2 DEF Signal
      <4>4. agent'.sent = agent.sent + 1
        BY <3>1, <3>3 DEF SendCandidate
      <4> QED
        BY <3>3, <4>2, <4>3, <4>4 DEF SendCandidate
    <3> QED
      BY <1>5, <3>2, <3>3
  <2>2. /\ toPeer' = toPeer /\ agent'.of = agent.of /\ agent.sent \in Int
        /\ toHost \in Seq(Signal)
    BY <1>5 DEF SendAnswer, SendCandidate, IInv, TypeOK
  <2>3. /\ DOMAIN toHost' = DOMAIN toHost \cup {Len(toHost) + 1}
        /\ Len(toHost) + 1 \notin DOMAIN toHost
        /\ \A i \in DOMAIN toHost : toHost'[i] = toHost[i]
        /\ toHost'[Len(toHost) + 1] = e
    BY <2>1, <2>2, AppendFacts
  <2>4. \A c \in Candidate : OnItsWay(c)' => OnItsWay(c) \/ (e.kind = "candidate" /\ c = e.c)
    BY <2>3 DEF OnItsWay
  <2>5. e.kind = "candidate" => ~OnItsWay(e.c) /\ ~Waits(e.c)
    <3>1. e.kind = "candidate" => e.c.of = agent.of /\ ~(e.c.i <= agent.sent)
      BY <2>1, <2>2
    <3> QED
      BY <2>1, <3>1 DEF CInv, Delivery, Numbered
  <2>6. SentOnce'
    <3>1. ASSUME NEW i \in DOMAIN toHost, toHost[i].kind = "candidate", e.kind = "candidate"
          PROVE  toHost[i].c # e.c
      BY <2>5, <3>1 DEF OnItsWay
    <3> QED
      BY <2>3, <3>1 DEF CInv, Delivery, SentOnce
  <2>7. InOnePlace'
    BY <1>2, <2>4, <2>5 DEF CInv, Delivery, InOnePlace
  <2>8. Numbered'
    <3> SUFFICES ASSUME NEW c \in Candidate, OnItsWay(c)' \/ Waits(c)', c.of = agent'.of
                 PROVE  c.i <= agent'.sent
      BY DEF Numbered
    <3>1. c.i \in Int /\ agent'.sent \in {agent.sent, agent.sent + 1}
      BY <2>1 DEF Candidate
    <3>2. CASE OnItsWay(c) \/ Waits(c)
      <4>1. c.i <= agent.sent
        BY <2>2, <3>2 DEF CInv, Delivery, Numbered
      <4> QED
        BY <2>2, <3>1, <4>1
    <3>3. CASE e.kind = "candidate" /\ c = e.c
      BY <2>1, <2>2, <3>3
    <3> QED
      BY <1>2, <2>4, <3>2, <3>3
  <2>9. NoneBefore'
    <3>1. \A m \in Session : Unread(m)' <=> Unread(m)
      BY <1>1, <2>2 DEF Unread
    <3>2. e.kind = "candidate" => e.c.of = agent.of
      BY <2>1
    <3> QED
      BY <1>2, <2>2, <2>4, <3>1, <3>2 DEF CInv, Delivery, NoneBefore
  <2>10. OfferedOnce'
    BY <1>1, <2>2 DEF CInv, Delivery, OfferedOnce
  <2> QED
    BY <1>3, <2>6, <2>7, <2>8, <2>9, <2>10 DEF CInv, Delivery
<1>6. CASE LinkBreaks
  <2>1. toPeer' = <<>> /\ toHost' = <<>> /\ agent'.of = 0
    BY <1>6 DEF LinkBreaks, NoOffer
  <2>2. \A c \in Candidate : ~OnItsWay(c)'
    BY <2>1, RangeEmpty DEF OnItsWay
  <2>3. SentOnce' /\ InOnePlace' /\ OfferedOnce'
    BY <2>1, <2>2, RangeEmpty DEF SentOnce, InOnePlace, OfferedOnce
  <2>4. Numbered'
    BY <2>1 DEF Numbered, Candidate, Session
  <2>5. NoneBefore'
    <3>1. \A m \in Session : Unread(m)' => Unread(m) /\ m # 0
      BY <1>1, <2>1, RangeEmpty DEF Unread, Session
    <3> QED
      BY <1>2, <2>1, <2>2, <3>1 DEF CInv, Delivery, NoneBefore
  <2> QED
    BY <1>3, <2>3, <2>4, <2>5 DEF CInv, Delivery
<1>7. CASE Rejoins
  <2>1. UNCHANGED <<offered, toPeer, toHost, agent>>
    BY <1>1, <1>7 DEF Rejoins
  <2>2. Delivery'
    BY <1>2, <2>1, HostKeepsDelivery DEF CInv
  <2> QED
    BY <1>3, <2>2 DEF CInv
<1> QED
  BY <1>4, <1>5, <1>6, <1>7

LEMMA StepPreservesC == IInv /\ CInv /\ [Next]_vars => CInv'
<1> SUFFICES ASSUME IInv, CInv, [Next]_vars PROVE CInv'
  OBVIOUS
<1>1. CASE ConnectThrows \/ ConnectStarts \/ OfferCreated \/ OfferFails \/ Disconnect
  BY <1>1, ToolsKeepCandidates
<1>2. CASE LocalDescribed
  BY <1>2, DescribedKeepsCandidates
<1>3. CASE HandleSignal
  BY <1>3, SignalKeepsCandidates DEF HandleSignal
<1>4. CASE SignalRelay
  BY <1>4, SignalKeepsCandidates DEF SignalRelay
<1>5. ASSUME NEW n \in Session, SetRemoteDescription(n) PROVE CInv'
  BY <1>5, SettlingKeepsCandidates
<1>6. ASSUME NEW n \in Session, AnswerSettled(n) PROVE CInv'
  BY <1>6, SettledKeepsCandidates
<1>7. CASE ReadOffer \/ SendAnswer \/ SendCandidate \/ LinkBreaks \/ Rejoins
  BY <1>7, PeerKeepsCandidates
<1>8. CASE UNCHANGED vars
  <2>1. UNCHANGED <<created, pc, offered, remote, pending, applied, answering, received,
                    toPeer, toHost, agent>>
    BY <1>8 DEF vars, toolVars, mediaVars, peerVars
  <2>2. Delivery'
    <3>1. \A c \in Candidate : Waits(c)' => Waits(c)
      BY <2>1 DEF Waits
    <3> QED
      BY <2>1, <3>1, HostKeepsDelivery DEF CInv
  <2> QED
    BY <2>1, <2>2 DEF CInv, Untouched, KeptFor, HasDone
<1> QED
  BY <1>1, <1>2, <1>3, <1>4, <1>5, <1>6, <1>7, <1>8 DEF Next

(* No candidate of the peer is lost or taken twice, whatever it overtakes, *)
(* and none is left waiting once an answer was accepted and its handler    *)
(* has gone on.                                                            *)
THEOREM NoCandidateLost == Spec => []CandidatesKept
<1>1. CInv => CandidatesKept
  BY RangeEmpty DEF CInv, KeptFor, HasDone, CandidatesKept
<1> QED
  BY <1>1, InitEstablishesC, StepPreservesC, InvariantHolds, PTL DEF Spec
=============================================================================
