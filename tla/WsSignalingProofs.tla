------------------------- MODULE WsSignalingProofs -------------------------
(***************************************************************************)
(* Theorems about WsSignaling, for any number of peers, rooms and          *)
(* connections.                                                            *)
(*                                                                         *)
(* The rooms come first: a step of the hub is a step of module Rooms or    *)
(* leaves the rooms alone, so that what RoomsProofs shows of the           *)
(* RoomManager (instantiated as RP) holds inside the hub too.  The         *)
(* registry follows: what a connection knows itself by and what the        *)
(* registry says of it must agree in both directions (BoundRegistered is   *)
(* the direction RegistryLive lacks), and an id nobody holds must list no  *)
(* rooms (FreeIdHasNoRooms).  With these, the notices add up.              *)
(***************************************************************************)
EXTENDS WsSignaling, SequenceTheorems, FiniteSetTheorems, TLAPS

RP == INSTANCE RoomsProofs

(* The rooms of the hub are in a state RoomsProofs describes. *)
HubTypes == TypeOK /\ RP!IInv

-----------------------------------------------------------------------------
(* The rooms of the hub *)

LEMMA MembersAreListed ==
  ASSUME NEW r
  PROVE  RM!Members(r) = Range(peers[r])
BY DEF RM!Members, RM!Range, Range

(* RM and RP are the same module seen from two sides. *)
LEMMA SameCardinality == \A S : RM!Cardinality(S) = RP!Cardinality(S)
BY DEF RM!Cardinality, RP!Cardinality

LEMMA SameFiniteness == \A S : RM!IsFiniteSet(S) <=> RP!IsFiniteSet(S)
BY DEF RM!IsFiniteSet, RP!IsFiniteSet

LEMMA SameJoin ==
  ASSUME NEW r \in Room, NEW p \in Peer
  PROVE  /\ RM!JoinAccepted(r, p) <=> RP!JoinAccepted(r, p)
         /\ RM!JoinThrows(r, p) <=> RP!JoinThrows(r, p)
         /\ RM!Join(r, p) <=> RP!Join(r, p)
<1>1. RM!JoinAccepted(r, p) <=> RP!JoinAccepted(r, p)
  BY SameCardinality
     DEF RM!JoinAccepted, RP!JoinAccepted, RM!RoomsExhausted, RP!RoomsExhausted,
         RM!RoomFull, RP!RoomFull, RM!Members, RP!Members, RM!Range, RP!Range,
         RM!WithMember, RP!WithMember, RM!PrincipalOnJoin, RP!PrincipalOnJoin
<1>2. RM!JoinThrows(r, p) <=> RP!JoinThrows(r, p)
  BY SameCardinality
     DEF RM!JoinThrows, RP!JoinThrows, RM!RoomsExhausted, RP!RoomsExhausted,
         RM!RoomFull, RP!RoomFull, RM!Members, RP!Members, RM!Range, RP!Range,
         RM!vars, RP!vars
<1> QED
  BY <1>1, <1>2 DEF RM!Join, RP!Join

LEMMA SameLeave ==
  ASSUME NEW S \in SUBSET Room, NEW p \in Peer
  PROVE  RM!Leave(S, p) <=> RP!Leave(S, p)
BY DEF RM!Leave, RP!Leave, RM!Remaining, RP!Remaining, RM!WithoutMember, RP!WithoutMember,
       RM!PositionOf, RP!PositionOf, RM!Range, RP!Range,
       RM!PrincipalOnLeave, RP!PrincipalOnLeave, RM!IndexOnLeave, RP!IndexOnLeave

LEMMA SameTypes == RM!TypeOK <=> RP!TypeOK
BY SameFiniteness DEF RM!TypeOK, RP!TypeOK, RM!IsInjective, RP!IsInjective

(* Who is in which room after a join, and after a leave. *)
LEMMA MembersAfterJoin ==
  ASSUME RP!IInv, NEW r \in Room, NEW p \in Peer, RM!JoinAccepted(r, p)
  PROVE  \A x \in Room :
           Range(peers'[x]) = IF x = r THEN Range(peers[r]) \cup {p} ELSE Range(peers[x])
<1>1. /\ peers \in [Room -> Seq(Peer)] /\ RP!IsInjective(peers[r])
      /\ peers' = [peers EXCEPT ![r] = RP!WithMember(peers[r], p)]
  BY SameJoin DEF RP!IInv, RP!TypeOK, RP!JoinAccepted
<1>2. RP!Range(RP!WithMember(peers[r], p)) = RP!Range(peers[r]) \cup {p}
  BY <1>1, WsAssumption, RP!WithMemberList
<1> QED
  BY <1>1, <1>2 DEF RP!Range, Range

LEMMA MembersAfterLeave ==
  ASSUME RP!IInv, NEW S \in SUBSET Room, NEW p \in Peer, RM!Leave(S, p)
  PROVE  \A x \in Room :
           Range(peers'[x]) = IF x \in S THEN Range(peers[x]) \ {p} ELSE Range(peers[x])
<1> SUFFICES ASSUME NEW x \in Room
             PROVE  Range(peers'[x]) =
                      IF x \in S THEN Range(peers[x]) \ {p} ELSE Range(peers[x])
  OBVIOUS
<1>1. /\ peers[x] \in Seq(Peer) /\ RP!IsInjective(peers[x])
      /\ peers'[x] = IF x \in S THEN RP!WithoutMember(peers[x], p) ELSE peers[x]
  <2>1. peers \in [Room -> Seq(Peer)] /\ RP!IsInjective(peers[x])
    BY DEF RP!IInv, RP!TypeOK
  <2>2. peers' = RP!Remaining(S, p)
    BY SameLeave DEF RP!Leave
  <2> QED
    BY <2>1, <2>2 DEF RP!Remaining
<1>2. RP!Range(RP!WithoutMember(peers[x], p)) = RP!Range(peers[x]) \ {p}
  BY <1>1, WsAssumption, RP!WithoutMemberList
<1> QED
  BY <1>1, <1>2 DEF RP!Range, Range

LEMMA MembersAfterRefusal ==
  ASSUME NEW r, NEW p, RM!JoinThrows(r, p)
  PROVE  peers' = peers
BY DEF RM!JoinThrows, RM!vars

(* When the host joins or leaves, the other members stay as they are. *)
LEMMA HostAlone ==
  ASSUME RP!IInv, NEW r \in Room, RM!Join(r, Host) \/ RM!Leave({r}, Host)
  PROVE  \A x \in Room, p \in WsId : p \in Range(peers'[x]) <=> p \in Range(peers[x])
<1>1. Host \in Peer /\ Host \notin WsId
  BY WsAssumption DEF WsId
<1>2. CASE RM!JoinAccepted(r, Host)
  BY <1>1, <1>2, MembersAfterJoin
<1>3. CASE RM!JoinThrows(r, Host)
  BY <1>3, MembersAfterRefusal
<1>4. CASE RM!Leave({r}, Host)
  <2>1. {r} \in SUBSET Room
    OBVIOUS
  <2>2. \A x \in Room :
          Range(peers'[x]) = IF x \in {r} THEN Range(peers[x]) \ {Host} ELSE Range(peers[x])
    BY <1>1, <1>4, <2>1, MembersAfterLeave
  <2> QED
    BY <1>1, <2>2
<1> QED
  BY <1>2, <1>3, <1>4 DEF RM!Join

(* A step of the hub is a step of its rooms, or none. *)
LEMMA HubStepIsRoomStep ==
  ASSUME TypeOK, Next
  PROVE  [RM!Next]_(RM!vars)
<1>1. ASSUME NEW r \in Room, NEW p \in Peer, RM!Join(r, p)
      PROVE  RM!Next
  BY <1>1 DEF RM!Next
<1>2. ASSUME NEW S \in SUBSET Room, NEW p \in Peer, RM!Leave(S, p)
      PROVE  RM!Next
  BY <1>2 DEF RM!Next
<1>3. ASSUME UNCHANGED roomVars
      PROVE  UNCHANGED RM!vars
  BY <1>3 DEF roomVars, RM!vars
<1>4. ASSUME NEW c \in Conn, NEW p \in WsId, NEW r \in Room, HandleJoin(c, p, r)
      PROVE  RM!Next \/ UNCHANGED RM!vars
  <2>1. RM!Join(r, p) \/ UNCHANGED roomVars
    BY <1>4 DEF HandleJoin, JoinRefused, JoinAccepted, RM!Join
  <2> QED
    BY <2>1, <1>1, <1>3 DEF WsId
<1>5. ASSUME NEW c \in Conn, NEW r \in Room, HandleLeave(c, r)
      PROVE  RM!Next
  <2>1. bound[c] \in Peer /\ RM!Leave({r}, bound[c])
    BY <1>5 DEF HandleLeave, TypeOK, WsId
  <2> QED
    BY <2>1, <1>2
<1>6. ASSUME NEW c \in Conn, SocketClosed(c)
      PROVE  RM!Next \/ UNCHANGED RM!vars
  <2>1. CASE bound[c] = NoPeer
    BY <1>6, <2>1, <1>3 DEF SocketClosed
  <2>2. CASE bound[c] # NoPeer
    <3>1. bound[c] \in WsId /\ RM!Leave(wsPeers[bound[c]].rooms, bound[c])
      BY <1>6, <2>2 DEF SocketClosed, HandleDisconnect, TypeOK
    <3>2. wsPeers[bound[c]].rooms \in SUBSET Room /\ bound[c] \in Peer
      BY <3>1 DEF TypeOK, WsId
    <3> QED
      BY <3>1, <3>2, <1>2
  <2> QED
    BY <2>1, <2>2
<1>7. ASSUME NEW c \in Conn, Connect(c) \/ PeerCloses(c) \/ JoinTimeout(c)
      PROVE  UNCHANGED RM!vars
  BY <1>7, <1>3 DEF Connect, PeerCloses, JoinTimeout
<1>8. ASSUME NEW r \in Room, McpCreateRoom(r)
      PROVE  RM!Next
  BY <1>8, <1>1, WsAssumption DEF McpCreateRoom
<1>9. ASSUME NEW r \in Room, NEW p \in ToolPeer, McpJoinRoom(r, p) \/ McpLeaveRoom(r, p)
      PROVE  RM!Next
  BY <1>9, <1>1, <1>2, WsAssumption DEF McpJoinRoom, McpLeaveRoom, RM!Join
<1> QED
  BY <1>4, <1>5, <1>6, <1>7, <1>8, <1>9 DEF Next

LEMMA RoomsPreserved ==
  ASSUME HubTypes, [Next]_vars
  PROVE  RP!IInv'
<1>1. [RM!Next]_(RM!vars)
  BY HubStepIsRoomStep DEF HubTypes, vars, RM!vars
<1>2. [RP!Next]_(RP!vars)
  BY <1>1, SameJoin, SameLeave DEF RM!Next, RP!Next, RM!vars, RP!vars
<1> QED
  BY <1>2, WsAssumption, RP!StepPreserves DEF HubTypes

-----------------------------------------------------------------------------
(* Types *)

LEMMA RoomTypes ==
  ASSUME RP!IInv
  PROVE  /\ RM!TypeOK
         /\ peers \in [Room -> Seq(Peer)]
         /\ \A r \in Room : Range(peers[r]) \subseteq Peer
<1>1. RP!TypeOK
  BY DEF RP!IInv
<1>2. peers \in [Room -> Seq(Peer)]
  BY <1>1 DEF RP!TypeOK
<1>3. ASSUME NEW s \in Seq(Peer)
      PROVE  Range(s) \subseteq Peer
  BY <1>3 DEF Range
<1> QED
  BY <1>1, <1>2, <1>3, SameTypes

LEMMA NoticeTypes ==
  ASSUME told \in [Conn -> SUBSET (Room \X Peer)], NEW reached, NEW r \in Room, NEW p \in Peer
  PROVE  /\ TellJoin(reached, r, p) \in [Conn -> SUBSET (Room \X Peer)]
         /\ TellLeave(reached, r, p) \in [Conn -> SUBSET (Room \X Peer)]
BY DEF TellJoin, TellLeave

(* What a peer's own move does to the two histories. *)
LEMMA OwnMove ==
  ASSUME NEW R, NEW p, MovesItself(R, p)
  PROVE  /\ moved' \subseteq moved
         /\ refused' \subseteq refused
         /\ \A x, b : <<x, b>> \in moved' <=> <<x, b>> \in moved /\ ~(x \in R /\ b = p)
         /\ \A x, b : <<x, b>> \in refused' <=> <<x, b>> \in refused /\ ~(x \in R /\ b = p)
BY DEF MovesItself

LEMMA InitTypes == Init => HubTypes
<1> SUFFICES ASSUME Init
             PROVE  HubTypes
  OBVIOUS
<1>1. RP!Init
  BY DEF Init, RM!Init, RP!Init
<1>2. RP!IInv
  BY <1>1, WsAssumption, RP!InitEstablishes
<1>3. RM!TypeOK
  BY <1>2, SameTypes DEF RP!IInv
<1>4. wsPeers \in [WsId -> [ws : Conn \cup {NoConn}, rooms : SUBSET Room]]
  BY DEF Init, Unregistered
<1>5. joins \in [Conn -> 0 .. MaxJoins]
  BY WsAssumption DEF Init
<1> QED
  BY <1>2, <1>3, <1>4, <1>5 DEF Init, HubTypes, TypeOK, SocketState

LEMMA TypesPreserved == HubTypes /\ [Next]_vars => HubTypes'
<1> SUFFICES ASSUME HubTypes, [Next]_vars
             PROVE  HubTypes'
  OBVIOUS
<1> USE DEF HubTypes
<1>1. RP!IInv'
  BY RoomsPreserved
<1>2. RM!TypeOK'
  <2>1. RP!TypeOK'
    BY <1>1 DEF RP!IInv
  <2> QED
    BY <2>1, SameFiniteness DEF RM!TypeOK, RP!TypeOK, RM!IsInjective, RP!IsInjective
<1>3. \A r \in Room : Range(peers'[r]) \subseteq Peer
  <2>1. peers' \in [Room -> Seq(Peer)]
    BY <1>2 DEF RM!TypeOK
  <2>2. ASSUME NEW s \in Seq(Peer)
        PROVE  Range(s) \subseteq Peer
    BY <2>2 DEF Range
  <2> QED
    BY <2>1, <2>2
<1>4. ASSUME NEW c \in Conn, Connect(c) \/ PeerCloses(c) \/ JoinTimeout(c)
      PROVE  TypeOK'
  BY <1>2, <1>4 DEF Connect, PeerCloses, JoinTimeout, noticeVars, TypeOK, SocketState
<1>5. ASSUME NEW c \in Conn, NEW p \in WsId, NEW r \in Room, HandleJoin(c, p, r)
      PROVE  TypeOK'
  <2>1. p \in Peer /\ Conn # {}
    BY DEF WsId
  <2>2. joins' \in [Conn -> 0 .. MaxJoins]
    <3>1. joins[c] \in 0 .. MaxJoins /\ joins[c] < MaxJoins
      BY <1>5 DEF HandleJoin, TypeOK
    <3>2. joins[c] + 1 \in 0 .. MaxJoins
      BY <3>1, WsAssumption
    <3> QED
      BY <1>5, <3>2 DEF HandleJoin, TypeOK
  <2>3. CASE JoinRefused(c, p, r)
    BY <1>2, <1>5, <2>2, <2>3 DEF HandleJoin, JoinRefused, noticeVars, TypeOK
  <2>4. CASE JoinAccepted(c, p, r)
    <3> DEFINE heard == TellJoin(Reached(peers'[r], wsPeers', p), r, p)
               listed == {<<r, q>> : q \in Range(peers'[r]) \ {p}}
    <3>1. heard \in [Conn -> SUBSET (Room \X Peer)]
      BY <2>1, NoticeTypes DEF TypeOK
    <3>2. listed \in SUBSET (Room \X Peer)
      BY <1>3
    <3>3. told' = IF sock[c] = "open"
                  THEN [heard EXCEPT ![c] = {n \in @ : n[1] # r} \cup listed]
                  ELSE heard
      BY <2>4 DEF JoinAccepted
    <3> HIDE DEF heard, listed
    <3>4. {n \in heard[c] : n[1] # r} \cup listed \in SUBSET (Room \X Peer)
      BY <3>1, <3>2
    <3>5. told' \in [Conn -> SUBSET (Room \X Peer)]
      BY <3>1, <3>3, <3>4
    <3>6. wsPeers' \in [WsId -> [ws : Conn \cup {NoConn}, rooms : SUBSET Room]]
      BY <2>4 DEF JoinAccepted, TypeOK
    <3>7. bound' \in [Conn -> WsId \cup {NoPeer}]
      BY <2>4 DEF JoinAccepted, TypeOK
    <3>8. moved' \subseteq Room \X WsId /\ refused' \subseteq Room \X Peer
      <4>1. MovesItself({r}, p)
        BY <2>4 DEF JoinAccepted
      <4>2. moved' \subseteq moved /\ refused' \subseteq refused
        BY <4>1, OwnMove
      <4> QED
        BY <4>2 DEF TypeOK
    <3> QED
      BY <1>2, <1>5, <2>2, <3>5, <3>6, <3>7, <3>8 DEF HandleJoin, TypeOK
  <2> QED
    BY <1>5, <2>3, <2>4 DEF HandleJoin
<1>6. ASSUME NEW c \in Conn, NEW r \in Room, HandleLeave(c, r)
      PROVE  TypeOK'
  <2>1. bound[c] \in WsId /\ bound[c] \in Peer
    BY <1>6 DEF HandleLeave, TypeOK, WsId
  <2>2. told' \in [Conn -> SUBSET (Room \X Peer)]
    <3> DEFINE heard == TellLeave(Reached(peers'[r], wsPeers', NoPeer), r, bound[c])
    <3>1. heard \in [Conn -> SUBSET (Room \X Peer)]
      BY <2>1, NoticeTypes DEF TypeOK
    <3>2. told' = [heard EXCEPT ![c] = {n \in heard[c] : n[1] # r}]
      BY <1>6 DEF HandleLeave
    <3> HIDE DEF heard
    <3> QED
      BY <3>1, <3>2
  <2>3. wsPeers' \in [WsId -> [ws : Conn \cup {NoConn}, rooms : SUBSET Room]]
    BY <1>6, <2>1 DEF HandleLeave, TypeOK
  <2>4. moved' \subseteq Room \X WsId /\ refused' \subseteq Room \X Peer
    <3>1. MovesItself({r}, bound[c])
      BY <1>6 DEF HandleLeave
    <3>2. moved' \subseteq moved /\ refused' \subseteq refused
      BY <3>1, OwnMove
    <3> QED
      BY <3>2 DEF TypeOK
  <2> QED
    BY <1>2, <1>6, <2>2, <2>3, <2>4 DEF HandleLeave, TypeOK
<1>7. ASSUME NEW c \in Conn, SocketClosed(c)
      PROVE  TypeOK'
  <2>1. sock' \in [Conn -> SocketState] /\ joinTimer' \in [Conn -> BOOLEAN]
        /\ bound' = bound /\ joins' = joins
    BY <1>7 DEF SocketClosed, TypeOK, SocketState
  <2>2. CASE bound[c] = NoPeer
    BY <1>2, <1>7, <2>1, <2>2 DEF SocketClosed, noticeVars, TypeOK
  <2>3. CASE bound[c] # NoPeer
    <3>1. bound[c] \in WsId /\ HandleDisconnect(bound[c])
      BY <1>7, <2>3 DEF SocketClosed, TypeOK
    <3>2. told' \in [Conn -> SUBSET (Room \X Peer)]
      BY <3>1 DEF HandleDisconnect, TypeOK
    <3>3. wsPeers' \in [WsId -> [ws : Conn \cup {NoConn}, rooms : SUBSET Room]]
      BY <3>1 DEF HandleDisconnect, Unregistered, TypeOK
    <3>4. moved' \subseteq Room \X WsId /\ refused' \subseteq Room \X Peer
      <4>1. MovesItself(wsPeers[bound[c]].rooms, bound[c])
        BY <3>1 DEF HandleDisconnect
      <4>2. moved' \subseteq moved /\ refused' \subseteq refused
        BY <4>1, OwnMove
      <4> QED
        BY <4>2 DEF TypeOK
    <3> QED
      BY <1>2, <2>1, <3>2, <3>3, <3>4 DEF TypeOK
  <2> QED
    BY <2>2, <2>3
<1>8. ASSUME NEW r \in Room, McpCreateRoom(r)
      PROVE  TypeOK'
  BY <1>2, <1>8 DEF McpCreateRoom, wsVars, noticeVars, TypeOK
<1>9. ASSUME NEW r \in Room, NEW p \in ToolPeer, McpJoinRoom(r, p) \/ McpLeaveRoom(r, p)
      PROVE  TypeOK'
  <2>1. p \in Peer /\ told \in [Conn -> SUBSET (Room \X Peer)]
    BY WsAssumption DEF TypeOK
  <2>2. \/ told' = TellJoin(Reached(peers[r], wsPeers, p), r, p)
        \/ told' = TellLeave(Reached(peers'[r], wsPeers, p), r, p)
    BY <1>9 DEF McpJoinRoom, McpLeaveRoom
  <2>3. told' \in [Conn -> SUBSET (Room \X Peer)]
    <3>1. \A reached : /\ TellJoin(reached, r, p) \in [Conn -> SUBSET (Room \X Peer)]
                       /\ TellLeave(reached, r, p) \in [Conn -> SUBSET (Room \X Peer)]
      BY <2>1, NoticeTypes
    <3> QED
      BY <2>2, <3>1
  <2>4. UNCHANGED wsVars
    BY <1>9 DEF McpJoinRoom, McpLeaveRoom
  <2>5. moved' \subseteq Room \X WsId /\ refused' \subseteq Room \X Peer
    <3>1. moved' = moved \/ (p # Host /\ moved' = moved \cup {<<r, p>>})
      BY <1>9 DEF McpJoinRoom, McpLeaveRoom, MovedByTool
    <3>2. refused' = refused \ {<<r, p>>} \/ refused' = refused \cup {<<r, p>>}
      BY <1>9 DEF McpJoinRoom, McpLeaveRoom
    <3> QED
      BY <2>1, <3>1, <3>2 DEF TypeOK, WsId
  <2> QED
    BY <1>2, <2>3, <2>4, <2>5 DEF wsVars, TypeOK
<1>10. CASE UNCHANGED vars
  BY <1>1, <1>2, <1>10 DEF vars, TypeOK
<1> QED
  BY <1>1, <1>4, <1>5, <1>6, <1>7, <1>8, <1>9, <1>10 DEF Next

-----------------------------------------------------------------------------
(* The registry.  A client that joins again under another id leaves the    *)
(* first one behind (run hub_rejoin), hence the hypothesis on the clients.  *)

(* A connection that knows itself by an id is the one registered under it. *)
BoundRegistered ==
  \A c \in Conn : sock[c] # "closed" /\ bound[c] # NoPeer => wsPeers[bound[c]].ws = c

Registry == RegistryLive /\ BoundRegistered

LEMMA InitRegistry == Init => Registry
BY WsAssumption DEF Init, Registry, RegistryLive, BoundRegistered, IdTaken, Unregistered

LEMMA RegistryKept ==
  ASSUME ~ClientsRejoin, HubTypes, Registry, [Next]_vars
  PROVE  Registry'
<1> USE DEF Registry, RegistryLive, BoundRegistered, IdTaken
<1>1. /\ sock \in [Conn -> SocketState] /\ bound \in [Conn -> WsId \cup {NoPeer}]
      /\ wsPeers \in [WsId -> [ws : Conn \cup {NoConn}, rooms : SUBSET Room]]
      /\ NoPeer \notin WsId /\ NoConn \notin Conn
  BY WsAssumption DEF HubTypes, TypeOK, WsId
<1>2. ASSUME NEW c \in Conn, Connect(c) \/ PeerCloses(c) \/ JoinTimeout(c)
      PROVE  Registry'
  <2>1. /\ bound' = bound /\ wsPeers' = wsPeers
        /\ \A d \in Conn : sock[d] \in {"unborn", "closed"} => d = c \/ sock'[d] = sock[d]
        /\ \A d \in Conn \ {c} : sock'[d] = sock[d]
        /\ sock'[c] \notin {"unborn", "closed"} \/ sock'[c] = sock[c]
        /\ sock[c] # "closed" \/ sock'[c] = "closed"
    BY <1>1, <1>2 DEF Connect, PeerCloses, JoinTimeout
  <2> QED
    BY <1>1, <2>1
<1>3. ASSUME NEW c \in Conn, NEW p \in WsId, NEW r \in Room, HandleJoin(c, p, r)
      PROVE  Registry'
  <2>1. sock' = sock /\ sock[c] \in {"open", "timedOut"} /\ bound[c] = NoPeer
    BY <1>3 DEF HandleJoin, FramesArrive
  <2>2. CASE JoinRefused(c, p, r)
    BY <1>1, <2>1, <2>2 DEF JoinRefused
  <2>3. CASE JoinAccepted(c, p, r)
    <3>1. /\ wsPeers[p].ws = NoConn
          /\ bound' = [bound EXCEPT ![c] = p]
          /\ wsPeers' = [wsPeers EXCEPT ![p] = [ws |-> c, rooms |-> {r}]]
      BY <2>3 DEF JoinAccepted
    <3>2. RegistryLive'
      BY <1>1, <2>1, <3>1
    <3>3. BoundRegistered'
      BY <1>1, <2>1, <3>1
    <3> QED
      BY <3>2, <3>3
  <2> QED
    BY <1>3, <2>2, <2>3 DEF HandleJoin
<1>4. ASSUME NEW c \in Conn, NEW r \in Room, HandleLeave(c, r)
      PROVE  Registry'
  <2>1. /\ sock' = sock /\ bound' = bound
        /\ \A p \in WsId : wsPeers'[p].ws = wsPeers[p].ws
    BY <1>1, <1>4 DEF HandleLeave
  <2> QED
    BY <1>1, <2>1
<1>5. ASSUME NEW c \in Conn, SocketClosed(c)
      PROVE  Registry'
  <2>1. sock' = [sock EXCEPT ![c] = "closed"] /\ bound' = bound /\ sock[c] # "closed"
    BY <1>5 DEF SocketClosed
  <2>2. CASE bound[c] = NoPeer
    <3>1. wsPeers' = wsPeers
      BY <1>5, <2>2 DEF SocketClosed
    <3> QED
      BY <1>1, <2>1, <2>2, <3>1
  <2>3. CASE bound[c] # NoPeer
    <3>1. bound[c] \in WsId /\ wsPeers[bound[c]].ws = c
          /\ wsPeers' = [wsPeers EXCEPT ![bound[c]] = Unregistered]
      BY <1>1, <1>5, <2>1, <2>3 DEF SocketClosed, HandleDisconnect
    <3>2. \A p \in WsId : wsPeers'[p] = IF p = bound[c] THEN Unregistered ELSE wsPeers[p]
      BY <1>1, <3>1
    <3>3. RegistryLive'
      BY <1>1, <2>1, <3>1, <3>2 DEF Unregistered
    <3>4. BoundRegistered'
      BY <1>1, <2>1, <3>1, <3>2
    <3> QED
      BY <3>3, <3>4
  <2> QED
    BY <2>2, <2>3
<1>6. CASE UNCHANGED <<sock, bound, wsPeers>>
  BY <1>6
<1>7. ASSUME NEW r \in Room, McpCreateRoom(r)
      PROVE  Registry'
  BY <1>6, <1>7 DEF McpCreateRoom, wsVars
<1>8. ASSUME NEW r \in Room, NEW p \in ToolPeer, McpJoinRoom(r, p) \/ McpLeaveRoom(r, p)
      PROVE  Registry'
  BY <1>6, <1>8 DEF McpJoinRoom, McpLeaveRoom, wsVars
<1> QED
  BY <1>2, <1>3, <1>4, <1>5, <1>6, <1>7, <1>8 DEF Next, vars

-----------------------------------------------------------------------------
(* Who is a member.  The MCP tools can be given the id of a WebSocket peer *)
(* and then move it behind the registry's back, which `moved' remembers.   *)

(* An id that nobody holds lists no rooms. *)
FreeIdHasNoRooms == \A p \in WsId : ~IdTaken(p) => wsPeers[p].rooms = {}

Membership == MembersConnected /\ FreeIdHasNoRooms

(* The two of them, about one peer. *)
Agrees(p) ==
  /\ \A r \in Room : <<r, p>> \notin moved => (p \in Range(peers[r]) <=> r \in wsPeers[p].rooms)
  /\ wsPeers[p].ws = NoConn => wsPeers[p].rooms = {}

LEMMA InitMembership == Init => Membership
<1> SUFFICES ASSUME Init
             PROVE  Membership
  OBVIOUS
<1>1. \A p \in WsId : wsPeers[p].rooms = {}
  BY DEF Init, Unregistered
<1>2. \A r \in Room : Range(peers[r]) = {}
  BY DEF Init, RM!Init, Range
<1> QED
  BY <1>1, <1>2, MembersAreListed DEF Membership, MembersConnected, FreeIdHasNoRooms

LEMMA MembershipIs == Membership <=> \A p \in WsId : Agrees(p)
BY DEF Agrees, Membership, MembersConnected, FreeIdHasNoRooms, IdTaken, RM!Members, RM!Range, Range

LEMMA MembershipKept ==
  ASSUME HubTypes, Membership, [Next]_vars
  PROVE  Membership'
<1>1. /\ wsPeers \in [WsId -> [ws : Conn \cup {NoConn}, rooms : SUBSET Room]]
      /\ bound \in [Conn -> WsId \cup {NoPeer}]
      /\ moved \subseteq Room \X WsId /\ refused \subseteq Room \X Peer
      /\ WsId = Peer \ {Host} /\ Host \in Peer /\ ToolPeer \subseteq Peer
      /\ NoConn \notin Conn /\ RP!IInv
  BY WsAssumption DEF HubTypes, TypeOK, WsId
<1>2. \A p \in WsId :
        /\ \A r \in Room : <<r, p>> \notin moved =>
             (p \in Range(peers[r]) <=> r \in wsPeers[p].rooms)
        /\ wsPeers[p].ws = NoConn => wsPeers[p].rooms = {}
  BY MembershipIs DEF Agrees
<1>3. SUFFICES ASSUME NEW p \in WsId
               PROVE  Agrees(p)'
  BY DEF Agrees, Membership, MembersConnected, FreeIdHasNoRooms, IdTaken, RM!Members, RM!Range,
         Range
<1> USE DEF Agrees
<1>4. CASE peers' = peers /\ wsPeers' = wsPeers /\ moved' = moved
  BY <1>2, <1>4
<1>5. ASSUME NEW c \in Conn, Connect(c) \/ PeerCloses(c) \/ JoinTimeout(c)
      PROVE  Agrees(p)'
  <2>1. peers' = peers /\ wsPeers' = wsPeers /\ moved' = moved
    BY <1>5 DEF Connect, PeerCloses, JoinTimeout, roomVars, noticeVars
  <2> QED
    BY <2>1, <1>4
<1>6. ASSUME NEW c \in Conn, NEW q \in WsId, NEW r \in Room, HandleJoin(c, q, r)
      PROVE  Agrees(p)'
  <2>1. CASE JoinRefused(c, q, r)
    <3>1. peers' = peers /\ wsPeers' = wsPeers /\ moved' = moved
      BY <2>1, MembersAfterRefusal DEF JoinRefused, roomVars, noticeVars
    <3> QED
      BY <3>1, <1>4
  <2>2. CASE JoinAccepted(c, q, r)
    <3>1. /\ wsPeers[q].ws = NoConn
          /\ wsPeers' = [wsPeers EXCEPT ![q] = [ws |-> c, rooms |-> {r}]]
      BY <2>2 DEF JoinAccepted, IdTaken
    <3>2. \A x \in Room :
            Range(peers'[x]) = IF x = r THEN Range(peers[r]) \cup {q} ELSE Range(peers[x])
      BY <1>1, <2>2, MembersAfterJoin DEF JoinAccepted
    <3>3. \A x, b : <<x, b>> \in moved' <=> <<x, b>> \in moved /\ ~(x = r /\ b = q)
      <4>1. MovesItself({r}, q)
        BY <2>2 DEF JoinAccepted
      <4>2. \A x, b : <<x, b>> \in moved' <=> <<x, b>> \in moved /\ ~(x \in {r} /\ b = q)
        BY <4>1, OwnMove
      <4> QED
        BY <4>2
    <3>4. CASE p = q
      <4>1. wsPeers'[p] = [ws |-> c, rooms |-> {r}]
        BY <1>1, <3>1, <3>4
      <4>2. \A x \in Room : <<x, p>> \notin moved => p \notin Range(peers[x])
        BY <1>2, <3>1, <3>4
      <4>3. wsPeers'[p].ws # NoConn
        BY <1>1, <4>1
      <4>4. ASSUME NEW x \in Room, <<x, p>> \notin moved'
            PROVE  p \in Range(peers'[x]) <=> x \in wsPeers'[p].rooms
        <5>1. CASE x = r
          BY <3>2, <3>4, <4>1, <5>1
        <5>2. CASE x # r
          <6>1. <<x, p>> \notin moved
            BY <3>3, <4>4, <5>2
          <6> QED
            BY <3>2, <4>1, <4>2, <5>2, <6>1
        <5> QED
          BY <5>1, <5>2
      <4> QED
        BY <4>3, <4>4
    <3>5. CASE p # q
      <4>1. wsPeers'[p] = wsPeers[p]
        BY <1>1, <3>1, <3>5
      <4>2. \A x \in Room : p \in Range(peers'[x]) <=> p \in Range(peers[x])
        BY <3>2, <3>5
      <4>3. \A x \in Room : <<x, p>> \in moved' <=> <<x, p>> \in moved
        BY <3>3, <3>5
      <4> QED
        BY <1>2, <4>1, <4>2, <4>3
    <3> QED
      BY <3>4, <3>5
  <2> QED
    BY <1>6, <2>1, <2>2 DEF HandleJoin
<1>7. ASSUME NEW c \in Conn, NEW r \in Room, HandleLeave(c, r)
      PROVE  Agrees(p)'
  <2> DEFINE q == bound[c]
  <2>1. /\ q \in WsId /\ RM!Leave({r}, q) /\ MovesItself({r}, q)
        /\ wsPeers' = [wsPeers EXCEPT ![q].rooms = wsPeers[q].rooms \ {r}]
    BY <1>1, <1>7 DEF HandleLeave
  <2> HIDE DEF q
  <2>2. {r} \in SUBSET Room /\ q \in Peer
    BY <1>1, <2>1
  <2>3. \A x \in Room :
          Range(peers'[x]) = IF x \in {r} THEN Range(peers[x]) \ {q} ELSE Range(peers[x])
    BY <1>1, <2>1, <2>2, MembersAfterLeave
  <2>4. \A x, b : <<x, b>> \in moved' <=> <<x, b>> \in moved /\ ~(x \in {r} /\ b = q)
    BY <2>1, OwnMove
  <2>5. /\ wsPeers'[p].ws = wsPeers[p].ws
        /\ wsPeers'[p].rooms = IF p = q THEN wsPeers[p].rooms \ {r} ELSE wsPeers[p].rooms
    BY <1>1, <2>1
  <2>6. /\ \A x \in Room : <<x, p>> \notin moved =>
             (p \in Range(peers[x]) <=> x \in wsPeers[p].rooms)
        /\ wsPeers[p].ws = NoConn => wsPeers[p].rooms = {}
    BY <1>2
  <2>7. ASSUME NEW x \in Room, <<x, p>> \notin moved'
        PROVE  p \in Range(peers'[x]) <=> x \in wsPeers'[p].rooms
    BY <2>3, <2>4, <2>5, <2>6, <2>7
  <2> QED
    BY <2>5, <2>6, <2>7
<1>8. ASSUME NEW c \in Conn, SocketClosed(c)
      PROVE  Agrees(p)'
  <2>1. CASE bound[c] = NoPeer
    BY <1>4, <1>8, <2>1 DEF SocketClosed, roomVars, noticeVars
  <2>2. CASE bound[c] # NoPeer
    <3> DEFINE q == bound[c]
               left == wsPeers[q].rooms
    <3>1. /\ q \in WsId /\ RM!Leave(left, q) /\ MovesItself(left, q)
          /\ wsPeers' = [wsPeers EXCEPT ![q] = Unregistered]
      BY <1>1, <1>8, <2>2 DEF SocketClosed, HandleDisconnect
    <3>2. left \in SUBSET Room /\ q \in Peer
      BY <1>1, <3>1
    <3>3. p = q => left = wsPeers[p].rooms
      OBVIOUS
    <3> HIDE DEF q, left
    <3>4. \A x \in Room :
            Range(peers'[x]) = IF x \in left THEN Range(peers[x]) \ {q} ELSE Range(peers[x])
      BY <1>1, <3>1, <3>2, MembersAfterLeave
    <3>5. \A x, b : <<x, b>> \in moved' <=> <<x, b>> \in moved /\ ~(x \in left /\ b = q)
      BY <3>1, OwnMove
    <3>6. wsPeers'[p] = IF p = q THEN Unregistered ELSE wsPeers[p]
      BY <1>1, <3>1
    <3>7. CASE p = q
      <4>1. wsPeers'[p].rooms = {}
        BY <3>6, <3>7 DEF Unregistered
      <4>2. ASSUME NEW x \in Room, <<x, p>> \notin moved'
            PROVE  p \notin Range(peers'[x])
        BY <1>2, <3>3, <3>4, <3>5, <3>7, <4>2
      <4> QED
        BY <4>1, <4>2
    <3>8. CASE p # q
      <4>1. wsPeers'[p] = wsPeers[p]
        BY <3>6, <3>8
      <4>2. \A x \in Room : p \in Range(peers'[x]) <=> p \in Range(peers[x])
        BY <3>4, <3>8
      <4>3. \A x \in Room : <<x, p>> \in moved' <=> <<x, p>> \in moved
        BY <3>5, <3>8
      <4> QED
        BY <1>2, <4>1, <4>2, <4>3
    <3> QED
      BY <3>7, <3>8
  <2> QED
    BY <2>1, <2>2
<1>9. ASSUME NEW r \in Room, McpCreateRoom(r)
      PROVE  Agrees(p)'
  <2>1. \A x \in Room : p \in Range(peers'[x]) <=> p \in Range(peers[x])
    BY <1>1, <1>9, HostAlone DEF McpCreateRoom
  <2>2. wsPeers' = wsPeers /\ moved' = moved
    BY <1>9 DEF McpCreateRoom, wsVars, noticeVars
  <2> QED
    BY <1>2, <2>1, <2>2
<1>10. ASSUME NEW r \in Room, NEW q \in ToolPeer, McpJoinRoom(r, q) \/ McpLeaveRoom(r, q)
       PROVE  Agrees(p)'
  <2>1. q \in Peer /\ wsPeers' = wsPeers /\ MovedByTool(r, q)
    BY <1>1, <1>10 DEF McpJoinRoom, McpLeaveRoom, wsVars
  <2>2. \A x \in Room : <<x, p>> \notin moved' => <<x, p>> \notin moved
    BY <2>1 DEF MovedByTool
  <2>3. ASSUME NEW x \in Room, <<x, p>> \notin moved'
        PROVE  p \in Range(peers'[x]) <=> p \in Range(peers[x])
    <3>1. CASE peers' = peers
      BY <3>1
    <3>2. CASE q = Host
      BY <1>1, <1>10, <3>2, HostAlone DEF McpJoinRoom, McpLeaveRoom, RM!Join
    <3>3. CASE peers' # peers /\ q # Host
      <4>1. ~(x = r /\ p = q)
        BY <2>1, <2>3, <3>3 DEF MovedByTool
      <4>2. CASE RM!JoinAccepted(r, q)
        <5>1. Range(peers'[x]) = IF x = r THEN Range(peers[r]) \cup {q} ELSE Range(peers[x])
          BY <1>1, <2>1, <4>2, MembersAfterJoin
        <5> QED
          BY <4>1, <5>1
      <4>3. CASE RM!Leave({r}, q)
        <5>1. {r} \in SUBSET Room
          OBVIOUS
        <5>2. Range(peers'[x]) = IF x \in {r} THEN Range(peers[x]) \ {q} ELSE Range(peers[x])
          BY <1>1, <2>1, <4>3, <5>1, MembersAfterLeave
        <5> QED
          BY <4>1, <5>2
      <4>4. CASE RM!JoinThrows(r, q)
        BY <3>3, <4>4, MembersAfterRefusal
      <4> QED
        BY <1>10, <4>2, <4>3, <4>4 DEF McpJoinRoom, McpLeaveRoom
    <3> QED
      BY <3>1, <3>2, <3>3
  <2> QED
    BY <1>2, <2>1, <2>2, <2>3
<1>11. CASE UNCHANGED vars
  BY <1>4, <1>11 DEF vars
<1> QED
  BY <1>5, <1>6, <1>7, <1>8, <1>9, <1>10, <1>11 DEF Next

-----------------------------------------------------------------------------
(* The notices *)

(* What connection d has been told about q in room r is right. *)
Informed(d, r, q) ==
  (/\ sock[d] = "open" /\ bound[d] # NoPeer /\ bound[d] \in Range(peers[r])
   /\ <<r, bound[d]>> \notin moved /\ q # bound[d]) =>
     /\ q \in Range(peers[r]) => <<r, q>> \in told[d]
     /\ <<r, q>> \in told[d] => q \in Range(peers[r]) \/ <<r, q>> \in refused

LEMMA NoticesAreInformed ==
  NoticesAccurate <=> \A d \in Conn, r \in Room, q \in WsId : Informed(d, r, q)
BY DEF NoticesAccurate, Informed, RM!Members, RM!Range, Range

(* A notice to a room reaches the open connections of its members. *)
LEMMA MemberIsReached ==
  ASSUME NEW d \in Conn, sock[d] = "open", NEW members, NEW registry, NEW exclude,
         NEW b \in WsId, b \in Range(members), registry[b].ws = d, b # exclude
  PROVE  d \in Reached(members, registry, exclude)
BY DEF Reached

(* What a connection that a notice reached then thinks. *)
LEMMA HeardOfJoin ==
  ASSUME NEW d \in Conn, NEW reached, NEW r, NEW p, d \in reached, JoinedItself(d, r)
  PROVE  <<r, p>> \in TellJoin(reached, r, p)[d]
BY DEF TellJoin

LEMMA HeardOfLeave ==
  ASSUME NEW d \in Conn, NEW reached, NEW r, NEW p, d \in reached
  PROVE  <<r, p>> \notin TellLeave(reached, r, p)[d]
BY DEF TellLeave

LEMMA NoticesKept ==
  ASSUME ~ClientsRejoin, HubTypes, Registry, Membership, NoticesAccurate, Next,
         NEW d \in Conn, NEW x \in Room, NEW q \in WsId
  PROVE  Informed(d, x, q)'
<1> DEFINE Right == /\ q \in Range(peers'[x]) => <<x, q>> \in told'[d]
                    /\ <<x, q>> \in told'[d] => q \in Range(peers'[x]) \/ <<x, q>> \in refused'
<1> SUFFICES ASSUME sock'[d] = "open", bound'[d] # NoPeer, bound'[d] \in Range(peers'[x]),
                    <<x, bound'[d]>> \notin moved', q # bound'[d]
             PROVE  Right
  BY DEF Informed
<1>1. /\ bound \in [Conn -> WsId \cup {NoPeer}] /\ told \in [Conn -> SUBSET (Room \X Peer)]
      /\ wsPeers \in [WsId -> [ws : Conn \cup {NoConn}, rooms : SUBSET Room]]
      /\ sock \in [Conn -> SocketState]
      /\ WsId = Peer \ {Host} /\ Host \in Peer /\ NoConn \notin Conn /\ NoPeer \notin Peer
      /\ ToolPeer \subseteq Peer /\ RP!IInv
  BY WsAssumption DEF HubTypes, TypeOK, WsId
<1>2. ASSUME sock[d] = "open", bound[d] # NoPeer, bound[d] \in Range(peers[x]),
             <<x, bound[d]>> \notin moved, q # bound[d]
      PROVE  /\ q \in Range(peers[x]) => <<x, q>> \in told[d]
             /\ <<x, q>> \in told[d] => q \in Range(peers[x]) \/ <<x, q>> \in refused
  BY <1>2, NoticesAreInformed DEF Informed
<1>3. ASSUME sock[d] = "open", bound[d] # NoPeer
      PROVE  bound[d] \in WsId /\ wsPeers[bound[d]].ws = d
  BY <1>1, <1>3 DEF Registry, BoundRegistered
<1>4. \A p \in WsId :
        /\ \A r \in Room : <<r, p>> \notin moved =>
             (p \in Range(peers[r]) <=> r \in wsPeers[p].rooms)
        /\ wsPeers[p].ws = NoConn => wsPeers[p].rooms = {}
  BY MembershipIs DEF Agrees
<1>5. ASSUME sock[d] = "open", bound[d] # NoPeer, bound[d] \in Range(peers[x]),
             <<x, bound[d]>> \notin moved
      PROVE  JoinedItself(d, x)
  <2>1. bound[d] \in WsId /\ wsPeers[bound[d]].ws = d
    BY <1>3, <1>5
  <2>2. x \in wsPeers[bound[d]].rooms
    BY <1>4, <1>5, <2>1
  <2> QED
    BY <2>1, <2>2 DEF JoinedItself
<1>6. CASE /\ sock[d] = "open" /\ bound'[d] = bound[d] /\ peers' = peers
           /\ told'[d] = told[d] /\ moved' = moved /\ refused' = refused
  BY <1>2, <1>6
<1>7. ASSUME NEW c \in Conn, Connect(c) \/ PeerCloses(c) \/ JoinTimeout(c)
      PROVE  Right
  <2>1. /\ bound' = bound /\ peers' = peers /\ moved' = moved /\ refused' = refused
        /\ \/ told' = told
           \/ told' = [told EXCEPT ![c] = {}] /\ sock'[c] # "open"
    BY <1>1, <1>7 DEF Connect, PeerCloses, JoinTimeout, roomVars, noticeVars
  <2>2. sock[d] = "open" \/ sock[d] = "unborn"
    BY <1>1, <1>7 DEF Connect, PeerCloses, JoinTimeout
  <2>3. sock[d] # "unborn"
    <3>1. bound[d] \in WsId
      BY <1>1, <2>1
    <3>2. sock[d] = "unborn" => wsPeers[bound[d]].ws = d
      BY <1>1, <3>1 DEF Registry, BoundRegistered
    <3> QED
      BY <1>1, <3>1, <3>2 DEF Registry, RegistryLive, IdTaken
  <2>4. told'[d] = told[d]
    BY <1>1, <2>1
  <2> QED
    BY <1>6, <2>1, <2>2, <2>3, <2>4
<1>8. ASSUME NEW c \in Conn, NEW p \in WsId, NEW r \in Room, HandleJoin(c, p, r)
      PROVE  Right
  <2>1. sock' = sock /\ sock[d] = "open"
    BY <1>8 DEF HandleJoin
  <2>2. CASE JoinRefused(c, p, r)
    <3>1. /\ peers' = peers /\ told' = told /\ moved' = moved /\ refused' = refused
          /\ bound' = [bound EXCEPT ![c] = NoPeer]
      BY <2>2, MembersAfterRefusal DEF JoinRefused, roomVars, noticeVars
    <3>2. bound'[d] = bound[d]
      BY <1>1, <3>1
    <3> QED
      BY <1>6, <2>1, <3>1, <3>2
  <2>3. CASE JoinAccepted(c, p, r)
    <3> DEFINE heard == TellJoin(Reached(peers'[r], wsPeers', p), r, p)
               listed == {<<r, y>> : y \in Range(peers'[r]) \ {p}}
    <3>1. /\ wsPeers[p].ws = NoConn
          /\ wsPeers' = [wsPeers EXCEPT ![p] = [ws |-> c, rooms |-> {r}]]
          /\ bound' = [bound EXCEPT ![c] = p]
          /\ told' = IF sock[c] = "open"
                      THEN [heard EXCEPT ![c] = {n \in heard[c] : n[1] # r} \cup listed]
                      ELSE heard
      BY <2>3 DEF JoinAccepted, IdTaken
    <3>2. \A y \in Room :
            Range(peers'[y]) = IF y = r THEN Range(peers[r]) \cup {p} ELSE Range(peers[y])
      BY <1>1, <2>3, MembersAfterJoin DEF JoinAccepted
    <3>3. /\ \A y, b : <<y, b>> \in moved' <=> <<y, b>> \in moved /\ ~(y \in {r} /\ b = p)
          /\ \A y, b : <<y, b>> \in refused' <=> <<y, b>> \in refused /\ ~(y \in {r} /\ b = p)
      <4>1. MovesItself({r}, p)
        BY <2>3 DEF JoinAccepted
      <4> QED
        BY <4>1, OwnMove
    <3>4. CASE d = c
      <4>1. bound'[d] = p
        BY <1>1, <3>1, <3>4
      <4>2. x = r
        BY <1>4, <3>1, <3>2, <3>3, <4>1
      <4>3. told'[d] = {n \in heard[d] : n[1] # r} \cup listed
        BY <2>1, <3>1, <3>4 DEF TellJoin
      <4>4. <<x, q>> \in told'[d] <=> q \in Range(peers'[x])
        BY <4>1, <4>2, <4>3
      <4> QED
        BY <4>4
    <3>5. CASE d # c
      <4>1. bound'[d] = bound[d] /\ bound[d] \in WsId /\ wsPeers[bound[d]].ws = d
        BY <1>1, <1>3, <2>1, <3>1, <3>5
      <4>2. told'[d] = heard[d]
        BY <3>1, <3>5 DEF TellJoin
      <4>3. bound[d] # p
        BY <1>1, <3>1, <4>1
      <4>4. bound[d] \in Range(peers[x]) /\ <<x, bound[d]>> \notin moved
        BY <3>2, <3>3, <4>1, <4>3
      <4>5. /\ q \in Range(peers[x]) => <<x, q>> \in told[d]
            /\ <<x, q>> \in told[d] => q \in Range(peers[x]) \/ <<x, q>> \in refused
        BY <1>2, <2>1, <4>1, <4>4
      <4>6. /\ <<x, q>> \in told[d] => <<x, q>> \in told'[d]
            /\ <<x, q>> \in told'[d] => <<x, q>> \in told[d] \/ (x = r /\ q = p)
        BY <4>2 DEF TellJoin
      <4>7. CASE x = r /\ q = p
        <5>1. wsPeers'[bound[d]].ws = d
          BY <1>1, <3>1, <4>1, <4>3
        <5>2. d \in Reached(peers'[r], wsPeers', p)
          BY <2>1, <4>1, <4>3, <4>7, <5>1, MemberIsReached
        <5>3. JoinedItself(d, r)
          BY <1>5, <2>1, <4>1, <4>4, <4>7
        <5>4. <<r, p>> \in told'[d]
          BY <4>2, <5>2, <5>3, HeardOfJoin
        <5>5. p \in Range(peers'[r])
          BY <3>2
        <5> QED
          BY <4>7, <5>4, <5>5
      <4>8. CASE ~(x = r /\ q = p)
        <5>1. q \in Range(peers'[x]) <=> q \in Range(peers[x])
          BY <3>2, <4>8
        <5>2. <<x, q>> \in refused' <=> <<x, q>> \in refused
          BY <3>3, <4>8
        <5> QED
          BY <4>5, <4>6, <4>8, <5>1, <5>2
      <4> QED
        BY <4>7, <4>8
    <3> QED
      BY <3>4, <3>5
  <2> QED
    BY <1>8, <2>2, <2>3 DEF HandleJoin
<1>9. ASSUME NEW c \in Conn, NEW r \in Room, HandleLeave(c, r)
      PROVE  Right
  <2> DEFINE p == bound[c]
             heard == TellLeave(Reached(peers'[r], wsPeers', NoPeer), r, p)
  <2>1. /\ sock' = sock /\ bound' = bound /\ p \in WsId /\ RM!Leave({r}, p)
        /\ wsPeers' = [wsPeers EXCEPT ![p].rooms = wsPeers[p].rooms \ {r}]
        /\ told' = [heard EXCEPT ![c] = {n \in heard[c] : n[1] # r}]
        /\ MovesItself({r}, p)
    BY <1>1, <1>9 DEF HandleLeave
  <2>2. d = c => bound[d] = p
    OBVIOUS
  <2> HIDE DEF p
  <2>3. \A y \in Room :
          Range(peers'[y]) = IF y \in {r} THEN Range(peers[y]) \ {p} ELSE Range(peers[y])
    <3>1. p \in Peer /\ {r} \in SUBSET Room
      BY <1>1, <2>1
    <3> QED
      BY <1>1, <2>1, <3>1, MembersAfterLeave
  <2>4. /\ \A y, b : <<y, b>> \in moved' <=> <<y, b>> \in moved /\ ~(y \in {r} /\ b = p)
        /\ \A y, b : <<y, b>> \in refused' <=> <<y, b>> \in refused /\ ~(y \in {r} /\ b = p)
    BY <2>1, OwnMove
  <2>5. bound[d] \in WsId /\ wsPeers[bound[d]].ws = d /\ sock[d] = "open"
    BY <1>3, <2>1
  <2>6. bound[d] \in Range(peers[x]) /\ <<x, bound[d]>> \notin moved /\ ~(x = r /\ bound[d] = p)
    BY <2>1, <2>3, <2>4
  <2>7. /\ q \in Range(peers[x]) => <<x, q>> \in told[d]
        /\ <<x, q>> \in told[d] => q \in Range(peers[x]) \/ <<x, q>> \in refused
    BY <1>2, <2>1, <2>5, <2>6
  <2>8. <<x, q>> \in told'[d] <=> <<x, q>> \in heard[d]
    <3>1. heard = [e \in Conn |-> heard[e]]
      BY DEF TellLeave
    <3> HIDE DEF heard
    <3>2. CASE d = c
      <4>1. x # r /\ told'[d] = {n \in heard[d] : n[1] # r}
        BY <2>1, <2>2, <2>6, <3>1, <3>2
      <4> QED
        BY <4>1
    <3>3. CASE d # c
      BY <2>1, <3>1, <3>3
    <3> QED
      BY <3>2, <3>3
  <2>9. CASE x = r /\ q = p
    <3>1. wsPeers'[bound[d]].ws = d
      BY <1>1, <2>1, <2>5
    <3>2. d \in Reached(peers'[r], wsPeers', NoPeer)
      BY <1>1, <2>1, <2>5, <2>9, <3>1, MemberIsReached
    <3>3. <<r, p>> \notin heard[d]
      BY <3>2, HeardOfLeave
    <3>4. p \notin Range(peers'[r])
      BY <2>3
    <3> QED
      BY <2>8, <2>9, <3>3, <3>4
  <2>10. CASE ~(x = r /\ q = p)
    <3>1. <<x, q>> \in heard[d] <=> <<x, q>> \in told[d]
      BY <2>10 DEF TellLeave
    <3>2. q \in Range(peers'[x]) <=> q \in Range(peers[x])
      BY <2>3, <2>10
    <3>3. <<x, q>> \in refused' <=> <<x, q>> \in refused
      BY <2>4, <2>10
    <3> QED
      BY <2>7, <2>8, <3>1, <3>2, <3>3
  <2> QED
    BY <2>9, <2>10
<1>10. ASSUME NEW c \in Conn, SocketClosed(c)
       PROVE  Right
  <2>1. d # c /\ sock[d] = "open" /\ bound' = bound
    BY <1>1, <1>10 DEF SocketClosed
  <2>2. CASE bound[c] = NoPeer
    BY <1>6, <1>10, <2>1, <2>2 DEF SocketClosed, roomVars, noticeVars
  <2>3. CASE bound[c] # NoPeer
    <3> DEFINE p == bound[c]
               left == wsPeers[p].rooms
               unlisted == {<<r, p>> : r \in {y \in left : d \in Reached(peers'[y], wsPeers, NoPeer)}}
    <3>1. /\ p \in WsId /\ RM!Leave(left, p) /\ MovesItself(left, p)
          /\ told'[d] = told[d] \ unlisted
      BY <1>1, <1>10, <2>3 DEF SocketClosed, HandleDisconnect
    <3>2. left \in SUBSET Room /\ p \in Peer
      BY <1>1, <3>1
    <3> HIDE DEF p, left
    <3>3. \A y \in Room :
            Range(peers'[y]) = IF y \in left THEN Range(peers[y]) \ {p} ELSE Range(peers[y])
      BY <1>1, <3>1, <3>2, MembersAfterLeave
    <3>4. /\ \A y, b : <<y, b>> \in moved' <=> <<y, b>> \in moved /\ ~(y \in left /\ b = p)
          /\ \A y, b : <<y, b>> \in refused' <=> <<y, b>> \in refused /\ ~(y \in left /\ b = p)
      BY <3>1, OwnMove
    <3>5. bound[d] \in WsId /\ wsPeers[bound[d]].ws = d
      BY <1>3, <2>1
    <3>6. bound[d] # p
      <4>1. sock[c] # "closed"
        BY <1>10 DEF SocketClosed
      <4>2. wsPeers[bound[c]].ws = c
        BY <2>3, <4>1 DEF Registry, BoundRegistered
      <4> QED
        BY <2>1, <3>5, <4>2 DEF p
    <3>7. bound[d] \in Range(peers[x]) /\ <<x, bound[d]>> \notin moved
      BY <2>1, <3>3, <3>4, <3>6
    <3>8. /\ q \in Range(peers[x]) => <<x, q>> \in told[d]
          /\ <<x, q>> \in told[d] => q \in Range(peers[x]) \/ <<x, q>> \in refused
      BY <1>2, <2>1, <3>7
    <3>9. CASE x \in left /\ q = p
      <4>1. d \in Reached(peers'[x], wsPeers, NoPeer)
        BY <1>1, <2>1, <3>5, MemberIsReached
      <4>2. <<x, q>> \notin told'[d]
        BY <3>1, <3>9, <4>1
      <4>3. q \notin Range(peers'[x])
        BY <3>3, <3>9
      <4> QED
        BY <4>2, <4>3
    <3>10. CASE ~(x \in left /\ q = p)
      <4>1. <<x, q>> \in told'[d] <=> <<x, q>> \in told[d]
        BY <3>1, <3>10
      <4>2. q \in Range(peers'[x]) <=> q \in Range(peers[x])
        BY <3>3, <3>10
      <4>3. <<x, q>> \in refused' <=> <<x, q>> \in refused
        BY <3>4, <3>10
      <4> QED
        BY <3>8, <4>1, <4>2, <4>3
    <3> QED
      BY <3>9, <3>10
  <2> QED
    BY <2>2, <2>3
<1>11. ASSUME NEW r \in Room, McpCreateRoom(r)
       PROVE  Right
  <2>1. \A y \in WsId : y \in Range(peers'[x]) <=> y \in Range(peers[x])
    BY <1>1, <1>11, HostAlone DEF McpCreateRoom
  <2>2. /\ sock' = sock /\ bound' = bound /\ told' = told /\ moved' = moved
        /\ refused' = refused /\ bound'[d] \in WsId
    BY <1>1, <1>11 DEF McpCreateRoom, wsVars, noticeVars
  <2>3. bound[d] \in Range(peers[x])
    BY <2>1, <2>2
  <2> QED
    BY <1>2, <2>1, <2>2, <2>3
<1>12. ASSUME NEW r \in Room, NEW p \in ToolPeer, McpJoinRoom(r, p) \/ McpLeaveRoom(r, p)
       PROVE  Right
  <2>1. p \in Peer /\ sock' = sock /\ bound' = bound /\ wsPeers' = wsPeers /\ MovedByTool(r, p)
    BY <1>1, <1>12 DEF McpJoinRoom, McpLeaveRoom, wsVars
  <2>2. bound[d] \in WsId /\ wsPeers[bound[d]].ws = d /\ sock[d] = "open"
    BY <1>3, <2>1
  <2>3. <<x, bound[d]>> \notin moved
    BY <2>1 DEF MovedByTool
  <2>4. ~(x = r /\ bound[d] = p) \/ peers' = peers
    BY <1>1, <2>1, <2>2 DEF MovedByTool
  <2>5. CASE McpJoinRoom(r, p)
    <3> DEFINE reached == Reached(peers[r], wsPeers, p)
    <3>1. told' = TellJoin(reached, r, p)
      BY <2>5 DEF McpJoinRoom
    <3>2. \A y \in Room, b \in WsId : ~(y = r /\ b = p) =>
            (b \in Range(peers'[y]) <=> b \in Range(peers[y]))
      <4>1. CASE RM!JoinAccepted(r, p)
        BY <1>1, <2>1, <4>1, MembersAfterJoin
      <4>2. CASE RM!JoinThrows(r, p)
        BY <4>2, MembersAfterRefusal
      <4> QED
        BY <2>5, <4>1, <4>2 DEF McpJoinRoom
    <3>3. bound[d] \in Range(peers[x])
      BY <2>1, <2>2, <2>4, <3>2
    <3>4. /\ q \in Range(peers[x]) => <<x, q>> \in told[d]
          /\ <<x, q>> \in told[d] => q \in Range(peers[x]) \/ <<x, q>> \in refused
      BY <1>2, <2>1, <2>2, <2>3, <3>3
    <3>5. /\ <<x, q>> \in told[d] => <<x, q>> \in told'[d]
          /\ <<x, q>> \in told'[d] => <<x, q>> \in told[d] \/ (x = r /\ q = p)
      BY <3>1 DEF TellJoin
    <3>6. \/ RM!JoinAccepted(r, p) /\ refused' = refused \ {<<r, p>>}
          \/ RM!JoinThrows(r, p) /\ refused' = refused \cup {<<r, p>>}
      BY <2>5 DEF McpJoinRoom
    <3>7. CASE x = r /\ q = p
      <4>1. d \in reached
        BY <2>1, <2>2, <3>3, <3>7, MemberIsReached
      <4>2. JoinedItself(d, r)
        BY <1>5, <2>1, <2>2, <2>3, <3>3, <3>7
      <4>3. <<r, p>> \in told'[d]
        BY <3>1, <4>1, <4>2, HeardOfJoin
      <4>4. p \in Range(peers'[r]) \/ <<r, p>> \in refused'
        <5>1. CASE RM!JoinAccepted(r, p)
          <6>1. \A y \in Room :
                  Range(peers'[y]) = IF y = r THEN Range(peers[r]) \cup {p} ELSE Range(peers[y])
            BY <1>1, <2>1, <5>1, MembersAfterJoin
          <6> QED
            BY <6>1
        <5> QED
          BY <3>6, <5>1
      <4> QED
        BY <3>7, <4>3, <4>4
    <3>8. CASE ~(x = r /\ q = p)
      <4>1. q \in Range(peers'[x]) <=> q \in Range(peers[x])
        BY <3>2, <3>8
      <4>2. <<x, q>> \in refused' <=> <<x, q>> \in refused
        BY <3>6, <3>8
      <4> QED
        BY <3>4, <3>5, <3>8, <4>1, <4>2
    <3> QED
      BY <3>7, <3>8
  <2>6. CASE McpLeaveRoom(r, p)
    <3> DEFINE reached == Reached(peers'[r], wsPeers, p)
    <3>1. RM!Leave({r}, p) /\ told' = TellLeave(reached, r, p) /\ refused' = refused \ {<<r, p>>}
      BY <2>6 DEF McpLeaveRoom
    <3>2. \A y \in Room :
            Range(peers'[y]) = IF y \in {r} THEN Range(peers[y]) \ {p} ELSE Range(peers[y])
      <4>1. {r} \in SUBSET Room
        OBVIOUS
      <4> QED
        BY <1>1, <2>1, <3>1, <4>1, MembersAfterLeave
    <3>3. bound[d] \in Range(peers[x]) /\ ~(x = r /\ bound[d] = p)
      BY <2>1, <3>2
    <3>4. /\ q \in Range(peers[x]) => <<x, q>> \in told[d]
          /\ <<x, q>> \in told[d] => q \in Range(peers[x]) \/ <<x, q>> \in refused
      BY <1>2, <2>1, <2>2, <2>3, <3>3
    <3>5. CASE x = r /\ q = p
      <4>1. d \in reached
        BY <2>1, <2>2, <3>3, <3>5, MemberIsReached
      <4>2. <<r, p>> \notin told'[d]
        BY <3>1, <4>1, HeardOfLeave
      <4>3. p \notin Range(peers'[r])
        BY <3>2
      <4> QED
        BY <3>5, <4>2, <4>3
    <3>6. CASE ~(x = r /\ q = p)
      <4>1. <<x, q>> \in told'[d] <=> <<x, q>> \in told[d]
        BY <3>1, <3>6 DEF TellLeave
      <4>2. q \in Range(peers'[x]) <=> q \in Range(peers[x])
        BY <3>2, <3>6
      <4>3. <<x, q>> \in refused' <=> <<x, q>> \in refused
        BY <3>1, <3>6
      <4> QED
        BY <3>4, <4>1, <4>2, <4>3
    <3> QED
      BY <3>5, <3>6
  <2> QED
    BY <1>12, <2>5, <2>6
<1> QED
  BY <1>7, <1>8, <1>9, <1>10, <1>11, <1>12 DEF Next

-----------------------------------------------------------------------------
(* The theorems *)

THEOREM HubInvariant == Spec => []HubTypes
<1> QED
  BY InitTypes, TypesPreserved, PTL DEF Spec

(* The state of the hub keeps its types, whatever clients and tools do.    *)
THEOREM TypeCorrect == Spec => []TypeOK
<1>1. HubTypes => TypeOK
  BY DEF HubTypes
<1> QED
  BY <1>1, HubInvariant, PTL

(* Whatever the connections, the timers and the tools do, all the hub ever *)
(* does to the rooms is what module Rooms allows.                          *)
THEOREM HubImplementsRooms == Spec => RM!Spec
<1>1. Init => RM!Init
  BY DEF Init
<1>2. HubTypes /\ [Next]_vars => [RM!Next]_(RM!vars)
  BY HubStepIsRoomStep DEF HubTypes, vars, RM!vars
<1> QED
  BY <1>1, <1>2, HubInvariant, PTL DEF Spec, RM!Spec

(* Hence the principal of a room of the hub is its oldest member, and the  *)
(* index of a peer's rooms agrees with the member lists.                   *)
THEOREM HubRoomsCorrect == Spec => [](RM!IndexAgrees /\ RM!PrincipalIsSenior)
<1>1. HubTypes => RM!IndexAgrees /\ RM!PrincipalIsSenior
  BY DEF HubTypes, RP!IInv, RP!IndexAgrees, RM!IndexAgrees, RP!PrincipalIsSenior,
         RM!PrincipalIsSenior, RP!Members, RM!Members, RP!Range, RM!Range
<1> QED
  BY <1>1, HubInvariant, PTL

(* A taken id always belongs to a live connection that knows itself by it, *)
(* as long as no client joins a second time.                               *)
THEOREM RegistryCorrect ==
  ASSUME ~ClientsRejoin
  PROVE  Spec => []RegistryLive
<1>1. HubTypes /\ Registry /\ [Next]_vars => Registry'
  BY RegistryKept
<1>2. Registry => RegistryLive
  BY DEF Registry
<1> QED
  BY <1>1, <1>2, InitRegistry, HubInvariant, PTL DEF Spec

(* The rooms that are left when a connection closes are exactly those its  *)
(* peer is in, but for a room that a tool moved it into or out of: whatever *)
(* ids the tools are given and however often clients join.                 *)
THEOREM MembersCorrect == Spec => []MembersConnected
<1>1. HubTypes /\ Membership /\ [Next]_vars => Membership'
  BY MembershipKept
<1>2. Membership => MembersConnected
  BY DEF Membership
<1> QED
  BY <1>1, <1>2, InitMembership, HubInvariant, PTL DEF Spec

(* The notices sent to a peer that joined a room add up to the truth about *)
(* the others, whether these or a tool moved them, for clients that join   *)
(* once.                                                                   *)
THEOREM NoticesCorrect ==
  ASSUME ~ClientsRejoin
  PROVE  Spec => []NoticesAccurate
<1> DEFINE All == HubTypes /\ Registry /\ Membership /\ NoticesAccurate
<1>1. Init => All
  <2>1. Init => NoticesAccurate
    BY DEF Init, NoticesAccurate
  <2> QED
    BY <2>1, InitTypes, InitRegistry, InitMembership
<1>2. All /\ [Next]_vars => All'
  <2> SUFFICES ASSUME All, [Next]_vars
               PROVE  All'
    OBVIOUS
  <2>1. HubTypes' /\ Registry' /\ Membership'
    BY TypesPreserved, RegistryKept, MembershipKept
  <2>2. CASE Next
    <3>1. \A d \in Conn, x \in Room, q \in WsId : Informed(d, x, q)'
      BY <2>2, NoticesKept
    <3>2. NoticesAccurate'
      BY <3>1 DEF NoticesAccurate, Informed, RM!Members, RM!Range, Range
    <3> QED
      BY <2>1, <3>2
  <2>3. CASE UNCHANGED vars
    BY <2>1, <2>3 DEF NoticesAccurate, RM!Members, RM!Range, vars
  <2> QED
    BY <2>2, <2>3
<1>3. All => NoticesAccurate
  OBVIOUS
<1> QED
  BY <1>1, <1>2, <1>3, PTL DEF Spec
=============================================================================
