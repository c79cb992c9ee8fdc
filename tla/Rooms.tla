------------------------------- MODULE Rooms -------------------------------
(***************************************************************************)
(* RoomManager (src/signaling/room.ts): named rooms of peers, created by   *)
(* the first join and deleted by the last leave, each with a principal --  *)
(* the member that may assign tasks -- and the reverse index from a peer   *)
(* to its rooms.                                                           *)
(*                                                                         *)
(* The Map of RoomInfo records is kept as three total functions: a room    *)
(* that is not in `rooms' has no members and no principal.  Ids are        *)
(* non-empty strings, so "no principal" (undefined) is never a peer's id.  *)
(***************************************************************************)
EXTENDS Integers, Sequences, FiniteSets, Functions

CONSTANTS
  Peer,             (* the ids of peers                            *)
  Room,             (* the ids of rooms                            *)
  NoPeer,           (* an undefined principal                      *)
  MaxRooms,         (* config.limits.maxRooms                      *)
  MaxPeersPerRoom   (* config.limits.maxPeersPerRoom               *)

(* The limits are positive in every configuration the repository ships. *)
ASSUME RoomsAssumption ==
  /\ NoPeer \notin Peer
  /\ MaxRooms \in Nat
  /\ MaxPeersPerRoom \in Nat \ {0}

VARIABLES
  rooms,        (* the keys of the rooms map                          *)
  peers,        (* peers[r]: RoomInfo.peers, in the order of joining  *)
  principal,    (* principal[r]: RoomInfo.principal                   *)
  peerToRooms   (* peerToRooms[p]: the reverse index                  *)

vars == <<rooms, peers, principal, peerToRooms>>

Init ==
  /\ rooms = {}
  /\ peers = [r \in Room |-> <<>>]
  /\ principal = [r \in Room |-> NoPeer]
  /\ peerToRooms = [p \in Peer |-> {}]

Members(r) == Range(peers[r])

-----------------------------------------------------------------------------
(* join: creates the room if need be, then adds the peer.                  *)

(* The room would have to be created and the map is at its limit. *)
RoomsExhausted(r) == r \notin rooms /\ Cardinality(rooms) >= MaxRooms

\* Mutant: one peer too many fits.
RoomFullTooLate(r, p) == p \notin Members(r) /\ Len(peers[r]) > MaxPeersPerRoom

RoomFull(r, p) == p \notin Members(r) /\ Len(peers[r]) >= MaxPeersPerRoom

\* Mutant: a member that joins again is listed again.
WithMemberTwice(s, p) == Append(s, p)

\* Mutant: a member that joins again goes to the end of the list.
WithMemberLast(s, p) == Append(SelectSeq(s, LAMBDA q : q # p), p)

(* The list of members once p has joined: a member is not added again. *)
WithMember(s, p) == IF p \in Range(s) THEN s ELSE Append(s, p)

\* Mutant: the latest peer becomes principal.
LatestTakesOver(old, p) == p

(* The first peer of a room becomes its principal. *)
PrincipalOnJoin(old, p) == IF old = NoPeer THEN p ELSE old

JoinAccepted(r, p) ==
  /\ ~RoomsExhausted(r)
  /\ ~RoomFull(r, p)
  /\ rooms' = rooms \cup {r}
  /\ peers' = [peers EXCEPT ![r] = WithMember(@, p)]
  /\ principal' = [principal EXCEPT ![r] = PrincipalOnJoin(@, p)]
  /\ peerToRooms' = [peerToRooms EXCEPT ![p] = @ \cup {r}]

(* The two throws.  The second one comes after the room was put in the map. *)
JoinThrows(r, p) ==
  \/ /\ RoomsExhausted(r)
     /\ UNCHANGED vars
  \/ /\ ~RoomsExhausted(r)
     /\ RoomFull(r, p)
     /\ rooms' = rooms \cup {r}
     /\ UNCHANGED <<peers, principal, peerToRooms>>

Join(r, p) == JoinAccepted(r, p) \/ JoinThrows(r, p)

-----------------------------------------------------------------------------
(* leave.  A member occurs once in the list, so filtering it out closes    *)
(* the gap at its position (MCRooms compares this with SelectSeq).         *)

PositionOf(s, p) == CHOOSE i \in DOMAIN s : s[i] = p

WithoutMember(s, p) ==
  IF p \in Range(s)
  THEN [i \in 1 .. Len(s) - 1 |-> IF i < PositionOf(s, p) THEN s[i] ELSE s[i + 1]]
  ELSE s

(* The members of every room once p has left the rooms of S. *)
Remaining(S, p) ==
  [r \in Room |-> IF r \in S THEN WithoutMember(peers[r], p) ELSE peers[r]]

\* Mutant: nobody replaces a principal that left.
NeverPromoted(old, p, s) == IF s = <<>> THEN NoPeer ELSE old

(* The principal of a room that p has left with the members s: if p was    *)
(* the principal, the oldest remaining member is promoted.                 *)
PrincipalOnLeave(old, p, s) ==
  IF s = <<>> THEN NoPeer ELSE IF old = p THEN Head(s) ELSE old

\* Mutant: the index is not cleaned up.
IndexKept(S, p) == peerToRooms

(* The index, from which only rooms still in the map are deleted: leaving  *)
(* a room that is not there returns before it is reached.                  *)
IndexOnLeave(S, p) == [peerToRooms EXCEPT ![p] = @ \ (S \cap rooms)]

(* p leaves the rooms of S in one turn of the event loop: one room when it *)
(* asks to, all of its rooms when its connection closes.                   *)
Leave(S, p) ==
  /\ peers' = Remaining(S, p)
  /\ principal' = [r \in Room |->
       IF r \in S THEN PrincipalOnLeave(principal[r], p, Remaining(S, p)[r])
                  ELSE principal[r]]
  /\ rooms' = rooms \ {r \in S : Remaining(S, p)[r] = <<>>}
  /\ peerToRooms' = IndexOnLeave(S, p)

Next ==
  \E p \in Peer :
    \/ \E r \in Room : Join(r, p)
    \/ \E S \in SUBSET Room : Leave(S, p)

Spec == Init /\ [][Next]_vars

-----------------------------------------------------------------------------
(* Properties                                                              *)

(* The map of rooms, the member lists, the principals and the index have   *)
(* their types, only finitely many rooms are open, and no peer is listed   *)
(* twice in a room.                                                        *)
TypeOK ==
  /\ rooms \in SUBSET Room
  /\ IsFiniteSet(rooms)
  /\ peers \in [Room -> Seq(Peer)]
  /\ \A r \in Room : IsInjective(peers[r])
  /\ principal \in [Room -> Peer \cup {NoPeer}]
  /\ peerToRooms \in [Peer -> SUBSET Room]

(* The two structures room.ts keeps by hand never drift apart: the index   *)
(* lists a room for a peer exactly when the room lists the peer.           *)
IndexAgrees ==
  \A p \in Peer, r \in Room : r \in peerToRooms[p] <=> p \in Members(r)

(* Every room in the map has members and its principal is the oldest of    *)
(* them; a deleted room leaves neither members nor a principal behind.     *)
PrincipalIsSenior ==
  \A r \in Room :
    IF r \in rooms
    THEN peers[r] # <<>> /\ principal[r] = Head(peers[r])
    ELSE peers[r] = <<>> /\ principal[r] = NoPeer

(* Neither limit is ever exceeded, whatever order joins and leaves take:   *)
(* a room is only created below maxRooms and only grows below its own.     *)
WithinLimits ==
  /\ Cardinality(rooms) <= MaxRooms
  /\ \A r \in Room : Len(peers[r]) <= MaxPeersPerRoom

(* Nobody takes a room over from a sitting principal: it changes only when *)
(* the principal itself is gone, or when the room is new.                  *)
PrincipalKept ==
  \A r \in rooms : principal[r] \in Range(peers'[r]) => principal'[r] = principal[r]

PrincipalStays == [][PrincipalKept]_vars

(* Who stands before whom in a list. *)
Precedence(s) ==
  {pq \in Range(s) \X Range(s) :
     \E i, j \in DOMAIN s : i < j /\ s[i] = pq[1] /\ s[j] = pq[2]}

(* The incremental bookkeeping of join and leave implements the seniority  *)
(* order of module Seniority: the chief is always recomputable from who    *)
(* joined before whom.                                                     *)
Abs == INSTANCE Seniority WITH
  present <- [r \in Room |-> Members(r)],
  before  <- [r \in Room |-> Precedence(peers[r])],
  chief   <- principal

ImplementsSeniority == Abs!Spec
=============================================================================
