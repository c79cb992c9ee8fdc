------------------------------ MODULE MCRooms ------------------------------
(***************************************************************************)
(* TLC instance of Rooms.  The assumption compares the closed form of      *)
(* `filter((p) => p !== peerId)' with the filter of the standard module,   *)
(* on every list without repetitions.                                      *)
(***************************************************************************)
EXTENDS Rooms

MemberLists == UNION {Injection(1 .. n, Peer) : n \in 0 .. Cardinality(Peer)}

ASSUME WithoutMemberIsFilter ==
  \A s \in MemberLists, p \in Peer :
    WithoutMember(s, p) = SelectSeq(s, LAMBDA q : q # p)
=============================================================================
