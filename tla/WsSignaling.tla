---------------------------- MODULE WsSignaling ----------------------------
(***************************************************************************)
(* The signaling hub: WsSignalingServer (src/signaling/ws-server.ts), the  *)
(* room tools of the MCP handler, and the wiring of src/index.ts that      *)
(* turns SignalingServer's room signals into broadcasts.  Both drive the   *)
(* one RoomManager, instantiated as RM.                                    *)
(*                                                                         *)
(* Every handler runs to completion on the event loop, so a handler is one *)
(* action; what interleaves is the handlers of different connections, the  *)
(* join timers, the close events and the MCP tools.                        *)
(***************************************************************************)
EXTENDS Integers, Sequences, FiniteSets, Functions

CONSTANTS
  Peer, Room, NoPeer, MaxRooms, MaxPeersPerRoom,   (* as in Rooms            *)
  Host,            (* the id "host" the MCP client goes by                   *)
  ToolPeer,        (* the ids webrtc_join_room / webrtc_leave_room are given *)
  Conn,            (* WebSocket connections, each opened at most once        *)
  NoConn,          (* no connection                                          *)
  MaxJoins,        (* bound: join frames a connection sends                  *)
  ClientsRejoin    (* whether a client sends join after one was accepted     *)

(* A WebSocket client picks its own id; none of them picks the host's.     *)
(* The room constants are as module Rooms assumes them.                    *)
ASSUME WsAssumption ==
  /\ NoPeer \notin Peer
  /\ MaxRooms \in Nat
  /\ MaxPeersPerRoom \in Nat \ {0}
  /\ Host \in Peer
  /\ ToolPeer \subseteq Peer
  /\ NoConn \notin Conn
  /\ MaxJoins \in Nat
  /\ ClientsRejoin \in BOOLEAN

WsId == Peer \ {Host}

VARIABLES
  rooms, peers, principal, peerToRooms,   (* the RoomManager                 *)
  sock,        (* sock[c]: the connection, see SocketState                   *)
  bound,       (* bound[c]: the id of the closure variable `peer', or NoPeer *)
  wsPeers,     (* wsPeers[p]: the WsPeer registered under id p               *)
  joinTimer,   (* joinTimer[c]: the join timeout is pending                  *)
  joins,       (* joins[c]: join frames c has sent, for the bound            *)
  told,        (* told[c]: the pairs <<r, p>> such that the notices sent to  *)
               (* c of a room it joined add up to "p is in r".  Observed     *)
               (* only, while c is open and does not leave the room.         *)
  moved,       (* the pairs <<r, p>> such that a room tool, and not p, was   *)
               (* the last to move p into r or out of it.  Observed only.    *)
  refused      (* the pairs <<r, p>> such that the last that was said of p   *)
               (* in r is a join that was refused.  Observed only.           *)

roomVars == <<rooms, peers, principal, peerToRooms>>
noticeVars == <<told, moved, refused>>
vars == <<rooms, peers, principal, peerToRooms,
          sock, bound, wsPeers, joinTimer, joins, told, moved, refused>>

RM == INSTANCE Rooms

(* "timedOut": the server called close and the client's frames still come  *)
(* in; "closing": the client went away and the close event is due.  Only   *)
(* an "open" socket has readyState OPEN.                                   *)
SocketState == {"unborn", "open", "timedOut", "closing", "closed"}

Unregistered == [ws |-> NoConn, rooms |-> {}]

Init ==
  /\ RM!Init
  /\ sock = [c \in Conn |-> "unborn"]
  /\ bound = [c \in Conn |-> NoPeer]
  /\ wsPeers = [p \in WsId |-> Unregistered]
  /\ joinTimer = [c \in Conn |-> FALSE]
  /\ joins = [c \in Conn |-> 0]
  /\ told = [c \in Conn |-> {}]
  /\ moved = {}
  /\ refused = {}

-----------------------------------------------------------------------------
(* Sending to a room.  broadcastToRoom relays to the members that are      *)
(* registered and whose socket is open; `members' is the member list at    *)
(* the time of the call, `registry' the map of WsPeers.                    *)

Reached(members, registry, exclude) ==
  {c \in Conn :
     /\ sock[c] = "open"
     /\ \E q \in Range(members) \cap WsId : q # exclude /\ registry[q].ws = c}

(* What the connections have been told once `reached' got a notice that p  *)
(* joined, respectively left, room r: a joining counts with those that     *)
(* joined r themselves, since only they were sent the list it adds to.     *)
JoinedItself(c, r) == \E q \in WsId : wsPeers[q].ws = c /\ r \in wsPeers[q].rooms

TellJoin(reached, r, p) ==
  [c \in Conn |-> IF c \in reached /\ JoinedItself(c, r)
                  THEN told[c] \cup {<<r, p>>} ELSE told[c]]

TellLeave(reached, r, p) ==
  [c \in Conn |-> IF c \in reached THEN told[c] \ {<<r, p>>} ELSE told[c]]

(* p itself joins or leaves the rooms R, which are told. *)
MovesItself(R, p) ==
  /\ moved' = moved \ (R \X {p})
  /\ refused' = refused \ (R \X {p})

-----------------------------------------------------------------------------
(* The WebSocket server                                                    *)

(* on("connection"): no peer yet, the join timeout is armed. *)
Connect(c) ==
  /\ sock[c] = "unborn"
  /\ sock' = [sock EXCEPT ![c] = "open"]
  /\ joinTimer' = [joinTimer EXCEPT ![c] = TRUE]
  /\ UNCHANGED <<roomVars, bound, wsPeers, joins, noticeVars>>

(* A frame of c is processed: also after the server's own close. *)
FramesArrive(c) == sock[c] \in {"open", "timedOut"}

IdTaken(p) == wsPeers[p].ws # NoConn

\* Mutant: the entry made for a join that throws is not deleted.
JoinRefusedLeaks(c, p, r) ==
  /\ bound' = [bound EXCEPT ![c] = NoPeer]
  /\ \/ IdTaken(p) /\ UNCHANGED <<roomVars, wsPeers>>
     \/ /\ ~IdTaken(p)
        /\ RM!JoinThrows(r, p)
        /\ wsPeers' = [wsPeers EXCEPT ![p].ws = c]
  /\ UNCHANGED noticeVars

(* _handleJoin refuses: the id is connected, or the RoomManager throws and *)
(* the entry just made is deleted.  The closure variable becomes null.     *)
JoinRefused(c, p, r) ==
  /\ \/ IdTaken(p) /\ UNCHANGED roomVars
     \/ ~IdTaken(p) /\ RM!JoinThrows(r, p)
  /\ bound' = [bound EXCEPT ![c] = NoPeer]
  /\ UNCHANGED <<wsPeers, noticeVars>>

(* _handleJoin accepts: the others are told about p, then p about them.    *)
JoinAccepted(c, p, r) ==
  /\ ~IdTaken(p)
  /\ RM!JoinAccepted(r, p)
  /\ wsPeers' = [wsPeers EXCEPT ![p] = [ws |-> c, rooms |-> {r}]]
  /\ bound' = [bound EXCEPT ![c] = p]
  /\ MovesItself({r}, p)
  /\ LET heard == TellJoin(Reached(peers'[r], wsPeers', p), r, p)
         listed == {<<r, q>> : q \in Range(peers'[r]) \ {p}}
     IN told' = IF sock[c] = "open"
                THEN [heard EXCEPT ![c] = {n \in @ : n[1] # r} \cup listed]
                ELSE heard

HandleJoin(c, p, r) ==
  /\ FramesArrive(c)
  /\ joins[c] < MaxJoins
  /\ bound[c] = NoPeer \/ ClientsRejoin
  /\ joins' = [joins EXCEPT ![c] = @ + 1]
  /\ JoinRefused(c, p, r) \/ JoinAccepted(c, p, r)
  /\ UNCHANGED <<sock, joinTimer>>

\* Mutant: the WsPeer goes on listing the room.
HandleLeaveKeepsRoom(c, r) ==
  /\ FramesArrive(c)
  /\ bound[c] # NoPeer
  /\ RM!Leave({r}, bound[c])
  /\ told' = TellLeave(Reached(peers'[r], wsPeers, NoPeer), r, bound[c])
  /\ MovesItself({r}, bound[c])
  /\ UNCHANGED <<sock, bound, wsPeers, joinTimer, joins>>

(* _handleLeave: any room can be named; the rest of it is told.            *)
HandleLeave(c, r) ==
  LET p == bound[c]
  IN /\ FramesArrive(c)
     /\ p # NoPeer
     /\ RM!Leave({r}, p)
     /\ wsPeers' = [wsPeers EXCEPT ![p].rooms = @ \ {r}]
     /\ told' = [TellLeave(Reached(peers'[r], wsPeers', NoPeer), r, p)
                   EXCEPT ![c] = {n \in @ : n[1] # r}]
     /\ MovesItself({r}, p)
     /\ UNCHANGED <<sock, bound, joinTimer, joins>>

(* The client closes its end, or the connection breaks. *)
PeerCloses(c) ==
  /\ sock[c] = "open"
  /\ sock' = [sock EXCEPT ![c] = "closing"]
  /\ told' = [told EXCEPT ![c] = {}]
  /\ UNCHANGED <<roomVars, bound, wsPeers, joinTimer, joins, moved, refused>>

\* Mutant: the rooms the peer was in are not told.
HandleDisconnectSilently(p) ==
  /\ RM!Leave(wsPeers[p].rooms, p)
  /\ wsPeers' = [wsPeers EXCEPT ![p] = Unregistered]
  /\ MovesItself(wsPeers[p].rooms, p)
  /\ UNCHANGED told

\* Mutant: the peer is forgotten without leaving its rooms.
HandleDisconnectLeavesNoRoom(p) ==
  /\ wsPeers' = [wsPeers EXCEPT ![p] = Unregistered]
  /\ UNCHANGED <<roomVars, noticeVars>>

(* The peer leaves every room of its WsPeer and the registry forgets it.   *)
HandleDisconnect(p) ==
  LET left == wsPeers[p].rooms
  IN /\ RM!Leave(left, p)
     /\ told' = [c \in Conn |->
          told[c] \ {<<r, p>> : r \in {x \in left : c \in Reached(peers'[x], wsPeers, NoPeer)}}]
     /\ MovesItself(left, p)
     /\ wsPeers' = [wsPeers EXCEPT ![p] = Unregistered]

(* on("close"): also clears the join timeout. *)
SocketClosed(c) ==
  /\ sock[c] \in {"timedOut", "closing"}
  /\ sock' = [sock EXCEPT ![c] = "closed"]
  /\ joinTimer' = [joinTimer EXCEPT ![c] = FALSE]
  /\ IF bound[c] # NoPeer
     THEN HandleDisconnect(bound[c])
     ELSE UNCHANGED <<roomVars, wsPeers, noticeVars>>
  /\ UNCHANGED <<bound, joins>>

\* Mutant: a connection that tried to join is spared.
JoinTimeoutOfSilent(c) ==
  /\ joinTimer[c]
  /\ joinTimer' = [joinTimer EXCEPT ![c] = FALSE]
  /\ sock' = [sock EXCEPT ![c] = IF joins[c] = 0 /\ @ = "open" THEN "timedOut" ELSE @]
  /\ UNCHANGED <<roomVars, bound, wsPeers, joins, noticeVars>>

(* The join timeout fires, which it also does after a successful join.     *)
JoinTimeout(c) ==
  /\ joinTimer[c]
  /\ joinTimer' = [joinTimer EXCEPT ![c] = FALSE]
  /\ sock' = [sock EXCEPT ![c] = IF bound[c] = NoPeer /\ @ = "open" THEN "timedOut" ELSE @]
  /\ UNCHANGED <<roomVars, bound, wsPeers, joins, noticeVars>>

-----------------------------------------------------------------------------
(* The room tools of the MCP handler                                       *)

wsVars == <<sock, bound, wsPeers, joinTimer, joins>>

(* A tool moved p into r or out of it, unless p stayed where it was.  The  *)
(* host does not hear notices, nor do they tell of it.                     *)
MovedByTool(r, p) ==
  moved' = IF p = Host \/ peers' = peers THEN moved ELSE moved \cup {<<r, p>>}

(* webrtc_create_room joins the host without a notice to anybody. *)
McpCreateRoom(r) ==
  /\ RM!Join(r, Host)
  /\ UNCHANGED <<wsVars, noticeVars>>

(* webrtc_join_room announces the peer first and joins it then: the join   *)
(* may throw after the notice is out.                                      *)
McpJoinRoom(r, p) ==
  /\ told' = TellJoin(Reached(peers[r], wsPeers, p), r, p)
  /\ \/ RM!JoinAccepted(r, p) /\ refused' = refused \ {<<r, p>>}
     \/ RM!JoinThrows(r, p) /\ refused' = refused \cup {<<r, p>>}
  /\ MovedByTool(r, p)
  /\ UNCHANGED wsVars

(* webrtc_leave_room *)
McpLeaveRoom(r, p) ==
  /\ RM!Leave({r}, p)
  /\ told' = TellLeave(Reached(peers'[r], wsPeers, p), r, p)
  /\ refused' = refused \ {<<r, p>>}
  /\ MovedByTool(r, p)
  /\ UNCHANGED wsVars

-----------------------------------------------------------------------------
Next ==
  \/ \E c \in Conn :
       \/ Connect(c)
       \/ \E p \in WsId, r \in Room : HandleJoin(c, p, r)
       \/ \E r \in Room : HandleLeave(c, r)
       \/ PeerCloses(c)
       \/ SocketClosed(c)
       \/ JoinTimeout(c)
  \/ \E r \in Room : McpCreateRoom(r)
  \/ \E r \in Room, p \in ToolPeer : McpJoinRoom(r, p) \/ McpLeaveRoom(r, p)

Spec == Init /\ [][Next]_vars

(* Timers fire, and a socket whose closing has begun ends: the ws library  *)
(* destroys it after its own close timeout at the latest.  Nothing is      *)
(* assumed of the clients and of the MCP tools.                            *)
Fairness ==
  \A c \in Conn : WF_vars(SocketClosed(c)) /\ WF_vars(JoinTimeout(c))

FairSpec == Spec /\ Fairness

-----------------------------------------------------------------------------
(* Properties                                                              *)

(* The state of the hub has its types. *)
TypeOK ==
  /\ RM!TypeOK
  /\ sock \in [Conn -> SocketState]
  /\ bound \in [Conn -> WsId \cup {NoPeer}]
  /\ wsPeers \in [WsId -> [ws : Conn \cup {NoConn}, rooms : SUBSET Room]]
  /\ joinTimer \in [Conn -> BOOLEAN]
  /\ joins \in [Conn -> 0 .. MaxJoins]
  /\ told \in [Conn -> SUBSET (Room \X Peer)]
  /\ moved \subseteq Room \X WsId
  /\ refused \subseteq Room \X Peer

(* An id is refused as "already connected" only while the connection that  *)
(* took it exists and knows itself by that id, so that its close event     *)
(* will free the id again.                                                 *)
RegistryLive ==
  \A p \in WsId : IdTaken(p) =>
    LET c == wsPeers[p].ws
    IN sock[c] \notin {"unborn", "closed"} /\ bound[c] = p

(* The rooms a WsPeer lists, which are the ones left when its connection   *)
(* closes, are exactly the rooms the RoomManager has it in, but for those  *)
(* that a room tool moved it into or out of: no other room keeps a member, *)
(* let alone a principal, that is gone.                                    *)
MembersConnected ==
  \A p \in WsId, r \in Room :
    <<r, p>> \notin moved => (p \in RM!Members(r) <=> r \in wsPeers[p].rooms)

(* The join, leave and room_peers messages sent to a peer that joined a    *)
(* room, taken in order, tell it exactly which other WebSocket peers are   *)
(* in it, whoever moved them.  Only of a peer whose announced join was     *)
(* refused does it think that it is there.                                 *)
NoticesAccurate ==
  \A c \in Conn : \A r \in Room :
    LET p == bound[c]
    IN (sock[c] = "open" /\ p # NoPeer /\ p \in RM!Members(r) /\ <<r, p>> \notin moved) =>
         \A q \in WsId \ {p} :
           /\ q \in RM!Members(r) => <<r, q>> \in told[c]
           /\ <<r, q>> \in told[c] => q \in RM!Members(r) \/ <<r, q>> \in refused

(* A peer whose connection is going down gets out of the registry and out  *)
(* of every room, except one that a room tool moved it into.               *)
DepartedForgotten ==
  \A c \in Conn, p \in WsId :
    (wsPeers[p].ws = c /\ sock[c] \in {"timedOut", "closing"})
      ~> /\ sock[c] = "closed" /\ ~IdTaken(p)
         /\ \A r \in Room : p \in RM!Members(r) => <<r, p>> \in moved

(* A connection that never gets to join does not stay open.                *)
UnjoinedClosed ==
  \A c \in Conn :
    (sock[c] = "open" /\ bound[c] = NoPeer) ~> (bound[c] # NoPeer \/ sock[c] = "closed")
=============================================================================
