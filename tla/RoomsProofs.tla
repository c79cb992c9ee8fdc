---------------------------- MODULE RoomsProofs ----------------------------
(***************************************************************************)
(* Theorems about Rooms, for every number of peers and rooms and every     *)
(* limit: the invariants of the runs, that a principal is only ever        *)
(* replaced when it is gone, and that Rooms implements Seniority.          *)
(*                                                                         *)
(* The inductive invariant is the conjunction of the four invariants: that *)
(* the promoted member is the oldest needs the members to be distinct      *)
(* (TypeOK), that a room is only deleted when it is empty needs live rooms *)
(* to have members (PrincipalIsSenior), and that the index loses the right *)
(* entries needs members to be in live rooms only.                         *)
(***************************************************************************)
EXTENDS Rooms, SequenceTheorems, FiniteSetTheorems, TLAPS

IInv == TypeOK /\ IndexAgrees /\ PrincipalIsSenior /\ WithinLimits

-----------------------------------------------------------------------------
(* The operators on lists of members *)

(* A member list stays a list without repetitions when a peer joins, and   *)
(* its range grows by exactly that peer.                                   *)
LEMMA WithMemberList ==
  ASSUME NEW s \in Seq(Peer), IsInjective(s), NEW p \in Peer
  PROVE  /\ WithMember(s, p) \in Seq(Peer)
         /\ IsInjective(WithMember(s, p))
         /\ Range(WithMember(s, p)) = Range(s) \cup {p}
         /\ WithMember(s, p) # <<>>
         /\ Head(WithMember(s, p)) = IF s = <<>> THEN p ELSE Head(s)
         /\ Len(WithMember(s, p)) = IF p \in Range(s) THEN Len(s) ELSE Len(s) + 1
<1>1. CASE p \in Range(s)
  BY <1>1 DEF WithMember, Range
<1>2. CASE p \notin Range(s)
  <2> DEFINE t == Append(s, p)
  <2>1. WithMember(s, p) = t
    BY <1>2 DEF WithMember
  <2>2. /\ t \in Seq(Peer)
        /\ Len(t) = Len(s) + 1
        /\ \A i \in 1 .. Len(s) : t[i] = s[i]
        /\ t[Len(s) + 1] = p
    BY AppendProperties
  <2>3. DOMAIN t = 1 .. Len(s) + 1 /\ DOMAIN s = 1 .. Len(s) /\ Len(s) \in Nat
    BY <2>2, LenProperties
  <2>4. IsInjective(t)
    BY <1>2, <2>2, <2>3 DEF IsInjective, Range
  <2>5. Range(t) = Range(s) \cup {p}
    BY <2>2, <2>3 DEF Range
  <2>6. t # <<>> /\ Head(t) = IF s = <<>> THEN p ELSE Head(s)
    BY <2>2, <2>3
  <2> QED
    BY <1>2, <2>1, <2>2, <2>4, <2>5, <2>6
<1> QED
  BY <1>1, <1>2

(* Leaving removes exactly the peer, and nobody moves ahead of a remaining *)
(* member: the head stays unless it is the peer that left.                 *)
LEMMA WithoutMemberList ==
  ASSUME NEW s \in Seq(Peer), IsInjective(s), NEW p \in Peer
  PROVE  /\ WithoutMember(s, p) \in Seq(Peer)
         /\ IsInjective(WithoutMember(s, p))
         /\ Range(WithoutMember(s, p)) = Range(s) \ {p}
         /\ Len(WithoutMember(s, p)) <= Len(s)
         /\ s # <<>> /\ Head(s) # p => Head(WithoutMember(s, p)) = Head(s)
<1>1. DOMAIN s = 1 .. Len(s) /\ Len(s) \in Nat
  BY LenProperties
<1>2. CASE p \in Range(s)
  <2> DEFINE k == PositionOf(s, p)
             n == Len(s)
             t == WithoutMember(s, p)
  <2>1. t = [i \in 1 .. n - 1 |-> IF i < k THEN s[i] ELSE s[i + 1]]
    BY <1>2 DEF WithoutMember
  <2>2. k \in 1 .. n /\ s[k] = p
    BY <1>1, <1>2 DEF PositionOf, Range
  <2> HIDE DEF k, t
  <2>3. n - 1 \in Nat
    BY <1>1, <2>2
  <2>4. \A i \in 1 .. n - 1 : t[i] = IF i < k THEN s[i] ELSE s[i + 1]
    BY <2>1
  <2>5. \A i \in 1 .. n - 1 : t[i] \in Peer
    BY <1>1, <2>2, <2>4
  <2>6. t \in Seq(Peer) /\ Len(t) = n - 1 /\ DOMAIN t = 1 .. n - 1
    BY <2>1, <2>3, <2>5
  <2> HIDE DEF n
  <2>7. IsInjective(t)
    <3>1. \A i, j \in 1 .. n : s[i] = s[j] => i = j
      BY <1>1 DEF IsInjective, n
    <3>2. \A i \in 1 .. n - 1 : i \in 1 .. n /\ i + 1 \in 1 .. n
      BY <1>1 DEF n
    <3>3. SUFFICES ASSUME NEW i \in 1 .. n - 1, NEW j \in 1 .. n - 1, t[i] = t[j]
                   PROVE  i = j
      BY <2>6 DEF IsInjective
    <3>4. CASE i < k /\ j < k
      BY <2>4, <3>1, <3>2, <3>3, <3>4
    <3>5. CASE ~(i < k) /\ ~(j < k)
      BY <2>4, <3>1, <3>2, <3>3, <3>5
    <3>6. CASE (i < k) # (j < k)
      <4>1. ASSUME NEW a \in 1 .. n - 1, NEW b \in 1 .. n - 1, a < k, ~(b < k)
            PROVE  t[a] # t[b]
        BY <4>1, <2>2, <2>4, <3>1, <3>2
      <4> QED
        BY <4>1, <3>3, <3>6
    <3> QED
      BY <3>4, <3>5, <3>6
  <2>8. Range(t) = Range(s) \ {p}
    <3>1. ASSUME NEW i \in 1 .. n - 1
          PROVE  t[i] \in Range(s) \ {p}
      BY <1>1, <2>2, <2>4 DEF IsInjective, Range, n
    <3>2. ASSUME NEW j \in 1 .. n, s[j] # p
          PROVE  \E i \in 1 .. n - 1 : t[i] = s[j]
      <4>1. CASE j < k
        <5>1. j \in 1 .. n - 1
          BY <4>1, <2>2, <1>1 DEF n
        <5> QED
          BY <4>1, <5>1, <2>4
      <4>2. CASE j > k
        <5>1. j - 1 \in 1 .. n - 1 /\ ~(j - 1 < k) /\ (j - 1) + 1 = j
          BY <4>2, <2>2, <1>1 DEF n
        <5> QED
          BY <5>1, <2>4
      <4> QED
        BY <3>2, <4>1, <4>2, <2>2, <1>1 DEF n
    <3>3. Range(t) \subseteq Range(s) \ {p}
      BY <3>1, <2>6 DEF Range
    <3>4. ASSUME NEW q \in Range(s) \ {p}
          PROVE  q \in Range(t)
      <4>1. PICK j \in 1 .. n : s[j] = q
        BY <1>1 DEF Range, n
      <4>2. PICK i \in 1 .. n - 1 : t[i] = s[j]
        BY <3>2, <4>1
      <4> QED
        BY <4>1, <4>2, <2>6 DEF Range
    <3> QED
      BY <3>3, <3>4
  <2>9. s # <<>> /\ Head(s) # p => Head(t) = Head(s)
    <3> SUFFICES ASSUME s # <<>>, Head(s) # p
                 PROVE  Head(t) = Head(s)
      OBVIOUS
    <3>1. k > 1 /\ s[1] # p
      BY <1>1, <2>2 DEF n
    <3>2. 1 \in 1 .. n - 1 /\ t[1] = s[1]
      BY <3>1, <2>2, <1>1, <2>4 DEF n
    <3> QED
      BY <3>2, <2>6
  <2> QED
    BY <2>6, <2>7, <2>8, <2>9, <1>1 DEF n, t
<1>3. CASE p \notin Range(s)
  BY <1>1, <1>3 DEF WithoutMember
<1> QED
  BY <1>2, <1>3

-----------------------------------------------------------------------------
(* The steps *)

(* A peer joins a room that has a place for it. *)
LEMMA JoinAcceptedPreserves ==
  ASSUME IInv, NEW r \in Room, NEW p \in Peer, JoinAccepted(r, p)
  PROVE  IInv'
<1> DEFINE s == peers[r]
           t == WithMember(s, p)
<1>1. s \in Seq(Peer) /\ IsInjective(s)
  BY DEF IInv, TypeOK
<1>2. /\ t \in Seq(Peer) /\ IsInjective(t)
      /\ Range(t) = Range(s) \cup {p}
      /\ t # <<>> /\ Head(t) = IF s = <<>> THEN p ELSE Head(s)
      /\ Len(t) = IF p \in Range(s) THEN Len(s) ELSE Len(s) + 1
  BY <1>1, WithMemberList
<1> HIDE DEF t
<1>3. /\ rooms' = rooms \cup {r}
      /\ peers' = [peers EXCEPT ![r] = t]
      /\ principal' = [principal EXCEPT ![r] = PrincipalOnJoin(principal[r], p)]
      /\ peerToRooms' = [peerToRooms EXCEPT ![p] = peerToRooms[p] \cup {r}]
  BY DEF JoinAccepted, t
<1>4. TypeOK'
  <2>1. IsFiniteSet(rooms')
    BY <1>3, FS_AddElement DEF IInv, TypeOK
  <2>2. \A q \in Room : IsInjective(peers'[q])
    BY <1>2, <1>3 DEF IInv, TypeOK
  <2> QED
    BY <1>2, <1>3, <2>1, <2>2 DEF IInv, TypeOK, PrincipalOnJoin
<1>5. IndexAgrees'
  <2> SUFFICES ASSUME NEW q \in Peer, NEW x \in Room
               PROVE  x \in peerToRooms'[q] <=> q \in Range(peers'[x])
    BY DEF IndexAgrees, Members
  <2>1. x \in peerToRooms[q] <=> q \in Range(peers[x])
    BY DEF IInv, IndexAgrees, Members
  <2>2. CASE x = r
    BY <1>2, <1>3, <2>1, <2>2 DEF IInv, TypeOK
  <2>3. CASE x # r
    BY <1>3, <2>1, <2>3 DEF IInv, TypeOK
  <2> QED
    BY <2>2, <2>3
<1>6. PrincipalIsSenior'
  <2> SUFFICES ASSUME NEW x \in Room
               PROVE  IF x \in rooms'
                      THEN peers'[x] # <<>> /\ principal'[x] = Head(peers'[x])
                      ELSE peers'[x] = <<>> /\ principal'[x] = NoPeer
    BY DEF PrincipalIsSenior
  <2>1. IF x \in rooms
        THEN peers[x] # <<>> /\ principal[x] = Head(peers[x])
        ELSE peers[x] = <<>> /\ principal[x] = NoPeer
    BY DEF IInv, PrincipalIsSenior
  <2>2. CASE x # r
    BY <1>3, <2>1, <2>2 DEF IInv, TypeOK
  <2>3. CASE x = r
    <3>1. x \in rooms' /\ peers'[x] = t /\ principal'[x] = PrincipalOnJoin(principal[r], p)
      BY <1>3, <2>3 DEF IInv, TypeOK
    <3>2. s # <<>> => Head(s) \in Peer
      BY <1>1
    <3>3. PrincipalOnJoin(principal[r], p) = IF s = <<>> THEN p ELSE Head(s)
      BY <2>1, <2>3, <3>2, RoomsAssumption DEF PrincipalOnJoin
    <3> QED
      BY <1>2, <3>1, <3>3
  <2> QED
    BY <2>2, <2>3
<1>7. WithinLimits'
  <2>1. Cardinality(rooms') <= MaxRooms
    <3>1. Cardinality(rooms) \in Nat /\ Cardinality(rooms) <= MaxRooms
      BY FS_CardinalityType DEF IInv, TypeOK, WithinLimits
    <3>2. Cardinality(rooms') = IF r \in rooms THEN Cardinality(rooms) ELSE Cardinality(rooms) + 1
      BY <1>3, FS_AddElement DEF IInv, TypeOK
    <3>3. r \in rooms \/ ~(Cardinality(rooms) >= MaxRooms)
      BY DEF JoinAccepted, RoomsExhausted
    <3> QED
      BY <3>1, <3>2, <3>3, RoomsAssumption
  <2>2. ASSUME NEW x \in Room
        PROVE  Len(peers'[x]) <= MaxPeersPerRoom
    <3>1. Len(peers[x]) <= MaxPeersPerRoom
      BY DEF IInv, WithinLimits
    <3>2. CASE x # r
      BY <1>3, <3>1, <3>2 DEF IInv, TypeOK
    <3>3. CASE x = r
      <4>1. p \in Range(s) \/ ~(Len(s) >= MaxPeersPerRoom)
        BY DEF JoinAccepted, RoomFull, Members
      <4>2. peers'[x] = t /\ Len(s) \in Nat
        BY <1>1, <1>3, <3>3 DEF IInv, TypeOK
      <4> QED
        BY <1>2, <3>1, <3>3, <4>1, <4>2, RoomsAssumption
    <3> QED
      BY <3>2, <3>3
  <2> QED
    BY <2>1, <2>2 DEF WithinLimits
<1> QED
  BY <1>4, <1>5, <1>6, <1>7 DEF IInv

(* A refused join changes nothing: a room it finds full is already open,   *)
(* because the room limit is positive.                                     *)
LEMMA JoinThrowsChangesNothing ==
  ASSUME IInv, NEW r \in Room, NEW p \in Peer, JoinThrows(r, p)
  PROVE  UNCHANGED vars
<1>1. CASE RoomsExhausted(r) /\ UNCHANGED vars
  BY <1>1
<1>2. CASE /\ RoomFull(r, p)
           /\ rooms' = rooms \cup {r}
           /\ UNCHANGED <<peers, principal, peerToRooms>>
  <2>1. peers[r] # <<>>
    BY <1>2, RoomsAssumption DEF RoomFull
  <2>2. r \in rooms
    BY <2>1 DEF IInv, PrincipalIsSenior
  <2> QED
    BY <1>2, <2>2 DEF vars
<1> QED
  BY <1>1, <1>2 DEF JoinThrows

(* A peer leaves some rooms, of which it need not be a member. *)
LEMMA LeavePreserves ==
  ASSUME IInv, NEW S \in SUBSET Room, NEW p \in Peer, Leave(S, p)
  PROVE  IInv'
<1> DEFINE left == Remaining(S, p)
<1>1. ASSUME NEW x \in Room
      PROVE  /\ peers[x] \in Seq(Peer) /\ IsInjective(peers[x])
             /\ left[x] \in Seq(Peer) /\ IsInjective(left[x])
             /\ Range(left[x]) = IF x \in S THEN Range(peers[x]) \ {p} ELSE Range(peers[x])
             /\ Len(left[x]) <= Len(peers[x])
             /\ peers[x] # <<>> /\ Head(peers[x]) # p => Head(left[x]) = Head(peers[x])
             /\ x \notin S => left[x] = peers[x]
  <2>1. peers[x] \in Seq(Peer) /\ IsInjective(peers[x]) /\ Len(peers[x]) \in Nat
    BY DEF IInv, TypeOK
  <2>2. CASE x \in S
    <3>1. left[x] = WithoutMember(peers[x], p)
      BY <2>2 DEF Remaining
    <3> QED
      BY <2>1, <2>2, <3>1, WithoutMemberList
  <2>3. CASE x \notin S
    <3>1. left[x] = peers[x]
      BY <2>3 DEF Remaining
    <3> QED
      BY <2>1, <2>3, <3>1
  <2> QED
    BY <2>2, <2>3
<1>2. left \in [Room -> Seq(Peer)]
  BY <1>1 DEF Remaining
<1> HIDE DEF left
<1>3. /\ peers' = left
      /\ principal' = [x \in Room |->
           IF x \in S THEN PrincipalOnLeave(principal[x], p, left[x]) ELSE principal[x]]
      /\ rooms' = rooms \ {x \in S : left[x] = <<>>}
      /\ peerToRooms' = [peerToRooms EXCEPT ![p] = peerToRooms[p] \ (S \cap rooms)]
  BY DEF Leave, IndexOnLeave, left
<1>4. TypeOK'
  <2>1. rooms' \in SUBSET rooms /\ IsFiniteSet(rooms')
    BY <1>3, FS_Subset DEF IInv, TypeOK
  <2>2. ASSUME NEW x \in Room
        PROVE  principal'[x] \in Peer \cup {NoPeer}
    <3> DEFINE l == left[x]
    <3>1. l \in Seq(Peer)
      BY <1>1
    <3> HIDE DEF l
    <3>2. l # <<>> => Head(l) \in Peer
      BY <3>1
    <3> QED
      BY <1>3, <3>2 DEF IInv, TypeOK, PrincipalOnLeave, l
  <2> QED
    BY <1>1, <1>2, <1>3, <2>1, <2>2 DEF IInv, TypeOK
<1>5. IndexAgrees'
  <2> SUFFICES ASSUME NEW q \in Peer, NEW x \in Room
               PROVE  x \in peerToRooms'[q] <=> q \in Range(peers'[x])
    BY DEF IndexAgrees, Members
  <2>1. x \in peerToRooms[q] <=> q \in Range(peers[x])
    BY DEF IInv, IndexAgrees, Members
  <2>2. q \in Range(peers'[x]) <=> q \in Range(peers[x]) /\ ~(q = p /\ x \in S)
    BY <1>1, <1>3
  <2>3. q \in Range(peers[x]) => x \in rooms
    <3>1. x \notin rooms => peers[x] = <<>>
      BY DEF IInv, PrincipalIsSenior
    <3> QED
      BY <3>1 DEF Range
  <2>4. x \in peerToRooms'[q] <=> x \in peerToRooms[q] /\ ~(q = p /\ x \in S /\ x \in rooms)
    BY <1>3 DEF IInv, TypeOK
  <2> QED
    BY <2>1, <2>2, <2>3, <2>4
<1>6. PrincipalIsSenior'
  <2> SUFFICES ASSUME NEW x \in Room
               PROVE  IF x \in rooms'
                      THEN peers'[x] # <<>> /\ principal'[x] = Head(peers'[x])
                      ELSE peers'[x] = <<>> /\ principal'[x] = NoPeer
    BY DEF PrincipalIsSenior
  <2>1. IF x \in rooms
        THEN peers[x] # <<>> /\ principal[x] = Head(peers[x])
        ELSE peers[x] = <<>> /\ principal[x] = NoPeer
    BY DEF IInv, PrincipalIsSenior
  <2>2. CASE x \notin S
    BY <1>1, <1>3, <2>1, <2>2
  <2>3. CASE x \in S /\ left[x] = <<>>
    <3>1. x \notin rooms'
      BY <1>3, <2>3
    <3>2. principal'[x] = NoPeer
      BY <1>3, <2>3 DEF PrincipalOnLeave
    <3> QED
      BY <1>3, <2>3, <3>1, <3>2
  <2>4. CASE x \in S /\ left[x] # <<>>
    <3>1. x \in rooms
      <4>1. peers[x] # <<>>
        <5>1. left[x] \in Seq(Peer) /\ peers[x] \in Seq(Peer)
          BY <1>1
        <5>2. Len(left[x]) \in Nat \ {0} /\ Len(left[x]) <= Len(peers[x])
          BY <1>1, <2>4, <5>1, EmptySeq
        <5> QED
          BY <5>1, <5>2, EmptySeq
      <4> QED
        BY <4>1, <2>1
    <3>2. x \in rooms'
      BY <1>3, <2>4, <3>1
    <3>3. principal'[x] = IF principal[x] = p THEN Head(left[x]) ELSE principal[x]
      BY <1>3, <2>4 DEF PrincipalOnLeave
    <3>4. principal'[x] = Head(left[x])
      BY <1>1, <2>1, <3>1, <3>3
    <3> QED
      BY <1>3, <2>4, <3>2, <3>4
  <2> QED
    BY <2>2, <2>3, <2>4
<1>7. WithinLimits'
  <2>1. Cardinality(rooms') <= MaxRooms
    <3>1. rooms' \in SUBSET rooms
      BY <1>3
    <3>2. Cardinality(rooms') <= Cardinality(rooms) /\ Cardinality(rooms') \in Nat
      BY <3>1, FS_Subset, FS_CardinalityType DEF IInv, TypeOK
    <3> QED
      BY <3>2, FS_CardinalityType, RoomsAssumption DEF IInv, TypeOK, WithinLimits
  <2>2. ASSUME NEW x \in Room
        PROVE  Len(peers'[x]) <= MaxPeersPerRoom
    <3>1. /\ Len(left[x]) <= Len(peers[x]) /\ Len(peers[x]) <= MaxPeersPerRoom
          /\ Len(left[x]) \in Nat /\ Len(peers[x]) \in Nat
      BY <1>1, LenProperties DEF IInv, WithinLimits
    <3> QED
      BY <1>3, <3>1, RoomsAssumption
  <2> QED
    BY <2>1, <2>2 DEF WithinLimits
<1> QED
  BY <1>4, <1>5, <1>6, <1>7 DEF IInv

-----------------------------------------------------------------------------
(* The theorems *)

LEMMA InitEstablishes == Init => IInv
<1> SUFFICES ASSUME Init
             PROVE  IInv
  OBVIOUS
<1>1. rooms = {} /\ IsFiniteSet(rooms) /\ Cardinality(rooms) = 0
  BY FS_EmptySet DEF Init
<1>2. \A r \in Room : peers[r] = <<>> /\ principal[r] = NoPeer
  BY DEF Init
<1>3. IsInjective(<<>>) /\ Range(<<>>) = {}
  BY DEF IsInjective, Range
<1>4. TypeOK
  BY <1>1, <1>2, <1>3 DEF Init, TypeOK
<1>5. IndexAgrees
  BY <1>2, <1>3 DEF Init, IndexAgrees, Members
<1>6. PrincipalIsSenior
  BY <1>1, <1>2 DEF PrincipalIsSenior
<1>7. WithinLimits
  BY <1>1, <1>2, RoomsAssumption DEF WithinLimits
<1> QED
  BY <1>4, <1>5, <1>6, <1>7 DEF IInv

LEMMA StepPreserves == IInv /\ [Next]_vars => IInv'
<1> SUFFICES ASSUME IInv, [Next]_vars
             PROVE  IInv'
  OBVIOUS
<1>1. CASE UNCHANGED vars
  BY <1>1 DEF vars, IInv, TypeOK, IndexAgrees, PrincipalIsSenior, WithinLimits, Members
<1>2. ASSUME NEW p \in Peer, NEW r \in Room, Join(r, p)
      PROVE  IInv'
  <2>1. CASE JoinAccepted(r, p)
    BY <2>1, JoinAcceptedPreserves
  <2>2. CASE JoinThrows(r, p)
    BY <1>1, <2>2, JoinThrowsChangesNothing
  <2> QED
    BY <1>2, <2>1, <2>2 DEF Join
<1>3. ASSUME NEW p \in Peer, NEW S \in SUBSET Room, Leave(S, p)
      PROVE  IInv'
  BY <1>3, LeavePreserves
<1> QED
  BY <1>1, <1>2, <1>3 DEF Next

THEOREM InvariantHolds == Spec => []IInv
<1> QED
  BY InitEstablishes, StepPreserves, PTL DEF Spec

(* The rooms, member lists, principals and index keep their types, and no  *)
(* interleaving of joins and leaves lists a peer twice.                    *)
THEOREM TypeCorrect == Spec => []TypeOK
<1>1. IInv => TypeOK
  BY DEF IInv
<1> QED
  BY <1>1, InvariantHolds, PTL

(* The index of a peer's rooms always agrees with the member lists.        *)
THEOREM IndexCorrect == Spec => []IndexAgrees
<1>1. IInv => IndexAgrees
  BY DEF IInv
<1> QED
  BY <1>1, InvariantHolds, PTL

(* The principal of a room is always its oldest member.                    *)
THEOREM PrincipalCorrect == Spec => []PrincipalIsSenior
<1>1. IInv => PrincipalIsSenior
  BY DEF IInv
<1> QED
  BY <1>1, InvariantHolds, PTL

(* The limits on rooms and on the members of a room are never exceeded.    *)
THEOREM LimitsKept == Spec => []WithinLimits
<1>1. IInv => WithinLimits
  BY DEF IInv
<1> QED
  BY <1>1, InvariantHolds, PTL

(* A sitting principal is never replaced.                                  *)
THEOREM PrincipalNeverUsurped == Spec => PrincipalStays
<1>1. IInv /\ [Next]_vars => [PrincipalKept]_vars
  <2> SUFFICES ASSUME IInv, IInv', Next, NEW x \in rooms,
                      principal[x] \in Range(peers'[x])
               PROVE  principal'[x] = principal[x]
    BY StepPreserves DEF PrincipalKept
  <2>1. x \in Room /\ principal[x] \in Peer /\ peers'[x] \in Seq(Peer)
    <3>1. x \in Room /\ peers[x] # <<>> /\ principal[x] = Head(peers[x])
      BY DEF IInv, TypeOK, PrincipalIsSenior
    <3> QED
      BY <3>1 DEF IInv, TypeOK
  <2>2. ASSUME NEW p \in Peer, NEW r \in Room, JoinAccepted(r, p)
        PROVE  principal'[x] = principal[x]
    BY <2>1, <2>2, RoomsAssumption DEF JoinAccepted, PrincipalOnJoin, IInv, TypeOK
  <2>3. ASSUME NEW p \in Peer, NEW r \in Room, JoinThrows(r, p)
        PROVE  principal'[x] = principal[x]
    BY <2>3, JoinThrowsChangesNothing DEF vars
  <2>4. ASSUME NEW p \in Peer, NEW S \in SUBSET Room, Leave(S, p)
        PROVE  principal'[x] = principal[x]
    <3>1. CASE x \notin S
      BY <2>1, <2>4, <3>1 DEF Leave
    <3>2. CASE x \in S
      <4>1. Range(peers'[x]) = Range(peers[x]) \ {p}
        BY <2>1, <2>4, <3>2, WithoutMemberList DEF Leave, Remaining, IInv, TypeOK
      <4>2. peers'[x] # <<>>
        BY DEF Range
      <4>3. principal'[x] = PrincipalOnLeave(principal[x], p, peers'[x])
        BY <2>1, <2>4, <3>2 DEF Leave
      <4> QED
        BY <4>1, <4>2, <4>3 DEF PrincipalOnLeave
    <3> QED
      BY <3>1, <3>2
  <2> QED
    BY <2>2, <2>3, <2>4 DEF Next, Join
<1> QED
  BY <1>1, InvariantHolds, PTL DEF Spec, PrincipalStays

-----------------------------------------------------------------------------
(* The refinement of Seniority *)

(* The first element of a list without repetitions is the only one that    *)
(* precedes all the others.                                                *)
LEMMA ChiefIsHead ==
  ASSUME NEW s \in Seq(Peer), IsInjective(s)
  PROVE  Abs!ChiefOf(Range(s), Precedence(s)) = IF s = <<>> THEN NoPeer ELSE Head(s)
<1>1. DOMAIN s = 1 .. Len(s) /\ Len(s) \in Nat
  BY LenProperties
<1>2. CASE s = <<>>
  <2>1. Range(s) = {}
    BY <1>2 DEF Range
  <2> QED
    BY <1>2, <2>1 DEF Abs!ChiefOf
<1>3. CASE s # <<>>
  <2> DEFINE Heads(h) == \A q \in Range(s) \ {h} : <<h, q>> \in Precedence(s)
  <2>1. 1 \in DOMAIN s /\ Head(s) = s[1] /\ s[1] \in Range(s)
    BY <1>1, <1>3, EmptySeq DEF Range
  <2>2. Heads(s[1])
    <3> SUFFICES ASSUME NEW q \in Range(s) \ {s[1]}
                 PROVE  <<s[1], q>> \in Precedence(s)
      OBVIOUS
    <3>1. PICK j \in DOMAIN s : s[j] = q
      BY DEF Range
    <3>2. 1 < j
      BY <1>1, <3>1
    <3> QED
      BY <2>1, <3>1, <3>2 DEF Precedence
  <2>3. ASSUME NEW h \in Range(s), Heads(h)
        PROVE  h = s[1]
    <3> SUFFICES ASSUME h # s[1]
                 PROVE  FALSE
      OBVIOUS
    <3>1. <<h, s[1]>> \in Precedence(s)
      BY <2>1, <2>3
    <3>2. PICK i, j \in DOMAIN s : i < j /\ s[i] = h /\ s[j] = s[1]
      BY <3>1 DEF Precedence
    <3>3. j = 1
      BY <2>1, <3>2 DEF IsInjective
    <3> QED
      BY <1>1, <3>2, <3>3
  <2>4. Range(s) # {} /\ Abs!MostSenior(Range(s), Precedence(s)) = s[1]
    BY <2>1, <2>2, <2>3 DEF Abs!MostSenior
  <2> QED
    BY <1>3, <2>1, <2>4 DEF Abs!ChiefOf
<1> QED
  BY <1>2, <1>3

(* Whoever is added at the end comes after everybody in the list. *)
LEMMA PrecedenceOfJoin ==
  ASSUME NEW s \in Seq(Peer), NEW p \in Peer, p \notin Range(s)
  PROVE  Precedence(WithMember(s, p)) = Precedence(s) \cup (Range(s) \X {p})
<1> DEFINE t == Append(s, p)
           n == Len(s)
<1>1. WithMember(s, p) = t
  BY DEF WithMember
<1>2. DOMAIN s = 1 .. n /\ n \in Nat
  BY LenProperties
<1>3. /\ DOMAIN t = 1 .. n + 1
      /\ \A i \in 1 .. n : t[i] = s[i]
      /\ t[n + 1] = p
  BY AppendProperties, LenProperties
<1>4. Range(t) = Range(s) \cup {p}
  BY <1>2, <1>3 DEF Range
<1> HIDE DEF t, n
<1>5. ASSUME NEW x, NEW y, <<x, y>> \in Precedence(t)
      PROVE  <<x, y>> \in Precedence(s) \cup (Range(s) \X {p})
  <2>1. PICK i, j \in DOMAIN t : i < j /\ t[i] = x /\ t[j] = y
    BY <1>5 DEF Precedence
  <2>2. i \in DOMAIN s /\ s[i] = x /\ x \in Range(s)
    BY <1>2, <1>3, <2>1 DEF Range
  <2>3. CASE j = n + 1
    BY <1>3, <2>1, <2>2, <2>3
  <2>4. CASE j # n + 1
    <3>1. j \in DOMAIN s /\ s[j] = y /\ y \in Range(s)
      BY <1>2, <1>3, <2>1, <2>4 DEF Range
    <3> QED
      BY <2>1, <2>2, <3>1 DEF Precedence
  <2> QED
    BY <2>3, <2>4
<1>6. ASSUME NEW x, NEW y, <<x, y>> \in Precedence(s)
      PROVE  <<x, y>> \in Precedence(t)
  <2>1. PICK i, j \in DOMAIN s : i < j /\ s[i] = x /\ s[j] = y
    BY <1>6 DEF Precedence
  <2>2. i \in DOMAIN t /\ j \in DOMAIN t /\ t[i] = x /\ t[j] = y
    BY <1>2, <1>3, <2>1
  <2>3. x \in Range(t) /\ y \in Range(t)
    BY <2>2 DEF Range
  <2> QED
    BY <2>1, <2>2, <2>3 DEF Precedence
<1>7. ASSUME NEW x \in Range(s)
      PROVE  <<x, p>> \in Precedence(t)
  <2>1. PICK i \in DOMAIN s : s[i] = x
    BY DEF Range
  <2>2. i \in DOMAIN t /\ n + 1 \in DOMAIN t /\ i < n + 1 /\ t[i] = x /\ t[n + 1] = p
    BY <1>2, <1>3, <2>1
  <2> QED
    BY <1>4, <2>2 DEF Precedence
<1>8. \A S : \A pair \in Precedence(S) : pair = <<pair[1], pair[2]>>
  BY DEF Precedence
<1>9. Precedence(t) \subseteq Precedence(s) \cup (Range(s) \X {p})
  BY <1>5, <1>8
<1>10. Precedence(s) \cup (Range(s) \X {p}) \subseteq Precedence(t)
  BY <1>6, <1>7, <1>8
<1> QED
  BY <1>1, <1>9, <1>10

(* Leaving takes a member out of the order and leaves the rest of it.      *)
LEMMA PrecedenceOfLeave ==
  ASSUME NEW s \in Seq(Peer), IsInjective(s), NEW p \in Peer
  PROVE  Precedence(WithoutMember(s, p)) =
           {pair \in Precedence(s) : p \notin {pair[1], pair[2]}}
<1>1. DOMAIN s = 1 .. Len(s) /\ Len(s) \in Nat
  BY LenProperties
<1>2. CASE p \notin Range(s)
  BY <1>2 DEF WithoutMember, Precedence
<1>3. CASE p \in Range(s)
  <2> DEFINE k == PositionOf(s, p)
             n == Len(s)
             t == WithoutMember(s, p)
             rest == {pair \in Precedence(s) : p \notin {pair[1], pair[2]}}
  <2>1. t = [i \in 1 .. n - 1 |-> IF i < k THEN s[i] ELSE s[i + 1]]
    BY <1>3 DEF WithoutMember
  <2>2. k \in 1 .. n /\ s[k] = p
    BY <1>1, <1>3 DEF PositionOf, Range
  <2>3. Range(t) = Range(s) \ {p}
    BY WithoutMemberList
  <2> HIDE DEF k, t
  <2>4. DOMAIN t = 1 .. n - 1 /\ \A i \in 1 .. n - 1 : t[i] = IF i < k THEN s[i] ELSE s[i + 1]
    BY <2>1
  <2>5. DOMAIN s = 1 .. n /\ n \in Nat
    BY <1>1
  <2> HIDE DEF n
  <2>6. ASSUME NEW x, NEW y, <<x, y>> \in Precedence(t)
        PROVE  <<x, y>> \in rest
    <3>1. PICK i, j \in DOMAIN t : i < j /\ t[i] = x /\ t[j] = y
      BY <2>6 DEF Precedence
    <3>2. x \in Range(s) \ {p} /\ y \in Range(s) \ {p}
      BY <2>3, <2>6 DEF Precedence
    <3> DEFINE a == IF i < k THEN i ELSE i + 1
               b == IF j < k THEN j ELSE j + 1
    <3>3. a \in DOMAIN s /\ b \in DOMAIN s /\ a < b
      BY <2>2, <2>4, <2>5, <3>1
    <3>4. s[a] = x /\ s[b] = y
      BY <2>4, <3>1
    <3> HIDE DEF a, b
    <3>5. <<x, y>> \in Precedence(s)
      BY <3>2, <3>3, <3>4 DEF Precedence
    <3> QED
      BY <3>2, <3>5
  <2>7. ASSUME NEW x, NEW y, <<x, y>> \in rest
        PROVE  <<x, y>> \in Precedence(t)
    <3>1. x # p /\ y # p /\ <<x, y>> \in Precedence(s)
      BY <2>7
    <3>2. PICK i, j \in DOMAIN s : i < j /\ s[i] = x /\ s[j] = y
      BY <3>1 DEF Precedence
    <3>3. x \in Range(t) /\ y \in Range(t)
      BY <2>3, <3>1 DEF Precedence
    <3> DEFINE a == IF i < k THEN i ELSE i - 1
               b == IF j < k THEN j ELSE j - 1
    <3>4. i # k /\ j # k
      BY <2>2, <3>1, <3>2
    <3>5. a \in 1 .. n - 1 /\ b \in 1 .. n - 1 /\ a < b
      BY <2>2, <2>5, <3>2, <3>4
    <3>6. ASSUME NEW m \in DOMAIN s, m # k,
                 NEW c \in 1 .. n - 1, c = IF m < k THEN m ELSE m - 1
          PROVE  t[c] = s[m]
      <4>1. CASE m < k
        BY <2>4, <3>6, <4>1
      <4>2. CASE ~(m < k)
        <5>1. c = m - 1 /\ ~(c < k) /\ c + 1 = m
          BY <2>2, <2>5, <3>6, <4>2
        <5> QED
          BY <2>4, <5>1
      <4> QED
        BY <4>1, <4>2
    <3>7. t[a] = x /\ t[b] = y
      BY <3>2, <3>4, <3>5, <3>6
    <3> HIDE DEF a, b
    <3> QED
      BY <2>4, <3>3, <3>5, <3>7 DEF Precedence
  <2>8. \A S : \A pair \in Precedence(S) : pair = <<pair[1], pair[2]>>
    BY DEF Precedence
  <2>9. Precedence(t) = rest
    BY <2>6, <2>7, <2>8
  <2> QED
    BY <2>9 DEF t
<1> QED
  BY <1>2, <1>3

(* The principal that PrincipalIsSenior describes is the abstract chief. *)
LEMMA PrincipalIsChief ==
  ASSUME NEW s \in Seq(Peer), IsInjective(s), NEW open, NEW boss,
         IF open THEN s # <<>> /\ boss = Head(s) ELSE s = <<>> /\ boss = NoPeer
  PROVE  boss = Abs!ChiefOf(Range(s), Precedence(s))
BY ChiefIsHead

(* A join is an entry of the abstract room, or changes nothing of it: for  *)
(* a member that joins again, and when the join is refused.                *)
LEMMA JoinMapsToEnter ==
  ASSUME IInv, IInv', NEW r \in Room, NEW p \in Peer, Join(r, p)
  PROVE  Abs!Enter(r, p) \/ UNCHANGED Abs!vars
<1>1. CASE JoinThrows(r, p)
  <2>1. UNCHANGED <<peers, principal>>
    BY <1>1, JoinThrowsChangesNothing DEF vars
  <2> QED
    BY <2>1 DEF Abs!vars, Members
<1>2. CASE JoinAccepted(r, p)
  <2>1. /\ peers \in [Room -> Seq(Peer)] /\ principal \in [Room -> Peer \cup {NoPeer}]
        /\ peers' = [peers EXCEPT ![r] = WithMember(peers[r], p)]
        /\ principal' = [principal EXCEPT ![r] = PrincipalOnJoin(principal[r], p)]
    BY <1>2 DEF JoinAccepted, IInv, TypeOK
  <2>2. CASE p \in Range(peers[r])
    <3>1. peers' = peers
      BY <2>1, <2>2 DEF WithMember
    <3>2. principal[r] \in Peer
      <4>1. peers[r] # <<>> /\ peers[r] \in Seq(Peer)
        BY <2>1, <2>2 DEF Range
      <4>2. principal[r] = Head(peers[r])
        BY <4>1 DEF IInv, PrincipalIsSenior
      <4> QED
        BY <4>1, <4>2
    <3>3. principal' = principal
      BY <2>1, <3>2, RoomsAssumption DEF PrincipalOnJoin
    <3> QED
      BY <3>1, <3>3 DEF Abs!vars, Members
  <2>3. CASE p \notin Range(peers[r])
    <3>1. /\ Range(peers'[r]) = Range(peers[r]) \cup {p}
          /\ Precedence(peers'[r]) = Precedence(peers[r]) \cup (Range(peers[r]) \X {p})
      BY <2>1, <2>3, WithMemberList, PrecedenceOfJoin DEF IInv, TypeOK
    <3>2. principal'[r] = Abs!ChiefOf(Range(peers'[r]), Precedence(peers'[r]))
      BY PrincipalIsChief DEF IInv, TypeOK, PrincipalIsSenior
    <3>3. \A x \in Room : x # r => peers'[x] = peers[x] /\ principal'[x] = principal[x]
      BY <2>1
    <3>4. p \notin [x \in Room |-> Members(x)][r]
      BY <2>3 DEF Members
    <3>5. [x \in Room |-> Range(peers'[x])] =
            [[x \in Room |-> Range(peers[x])] EXCEPT ![r] = @ \cup {p}]
      BY <3>1, <3>3
    <3>6. [x \in Room |-> Precedence(peers'[x])] =
            [[x \in Room |-> Precedence(peers[x])] EXCEPT
               ![r] = @ \cup (Range(peers[r]) \X {p})]
      BY <3>1, <3>3
    <3>7. principal' = [principal EXCEPT
            ![r] = Abs!ChiefOf(Range(peers'[r]), Precedence(peers'[r]))]
      BY <2>1, <3>2
    <3> QED
      BY <3>4, <3>5, <3>6, <3>7 DEF Abs!Enter, Members
  <2> QED
    BY <2>2, <2>3
<1> QED
  BY <1>1, <1>2 DEF Join

(* Leaving is the exit from the same rooms. *)
LEMMA LeaveMapsToExit ==
  ASSUME IInv, IInv', NEW S \in SUBSET Room, NEW p \in Peer, Leave(S, p)
  PROVE  Abs!Exit(S, p)
<1>1. ASSUME NEW x \in Room
      PROVE  /\ Range(peers'[x]) = IF x \in S THEN Range(peers[x]) \ {p} ELSE Range(peers[x])
             /\ Precedence(peers'[x]) =
                  {pair \in Precedence(peers[x]) : x \in S => p \notin {pair[1], pair[2]}}
             /\ principal'[x] = Abs!ChiefOf(Range(peers'[x]), Precedence(peers'[x]))
  <2>1. peers'[x] = IF x \in S THEN WithoutMember(peers[x], p) ELSE peers[x]
    BY DEF Leave, Remaining
  <2>2. peers[x] \in Seq(Peer) /\ IsInjective(peers[x])
    BY DEF IInv, TypeOK
  <2>3. Range(peers'[x]) = IF x \in S THEN Range(peers[x]) \ {p} ELSE Range(peers[x])
    BY <2>1, <2>2, WithoutMemberList
  <2>4. Precedence(peers'[x]) =
          {pair \in Precedence(peers[x]) : x \in S => p \notin {pair[1], pair[2]}}
    <3>1. CASE x \in S
      BY <2>1, <2>2, <3>1, PrecedenceOfLeave
    <3>2. CASE x \notin S
      BY <2>1, <3>2
    <3> QED
      BY <3>1, <3>2
  <2>5. principal'[x] = Abs!ChiefOf(Range(peers'[x]), Precedence(peers'[x]))
    BY PrincipalIsChief DEF IInv, TypeOK, PrincipalIsSenior
  <2> QED
    BY <2>3, <2>4, <2>5
<1>2. principal' = [x \in Room |-> principal'[x]]
  BY DEF IInv, TypeOK
<1> QED
  BY <1>1, <1>2 DEF Abs!Exit, Members

(* The code's incremental bookkeeping implements the seniority order.      *)
THEOREM RoomsImplementSeniority == Spec => ImplementsSeniority
<1>1. Init => Abs!Init
  <2> SUFFICES ASSUME Init
               PROVE  Abs!Init
    OBVIOUS
  <2>1. Range(<<>>) = {} /\ Precedence(<<>>) = {}
    BY DEF Range, Precedence
  <2> QED
    BY <2>1 DEF Init, Abs!Init, Members
<1>2. IInv /\ IInv' /\ [Next]_vars => [Abs!Next]_(Abs!vars)
  <2> SUFFICES ASSUME IInv, IInv', [Next]_vars
               PROVE  [Abs!Next]_(Abs!vars)
    OBVIOUS
  <2>1. CASE UNCHANGED vars
    BY <2>1 DEF vars, Abs!vars, Members
  <2>2. ASSUME NEW p \in Peer, NEW r \in Room, Join(r, p)
        PROVE  [Abs!Next]_(Abs!vars)
    BY <2>2, JoinMapsToEnter DEF Abs!Next
  <2>3. ASSUME NEW p \in Peer, NEW S \in SUBSET Room, Leave(S, p)
        PROVE  [Abs!Next]_(Abs!vars)
    BY <2>3, LeaveMapsToExit DEF Abs!Next
  <2> QED
    BY <2>1, <2>2, <2>3 DEF Next
<1> QED
  BY <1>1, <1>2, InvariantHolds, PTL DEF Spec, Abs!Spec, ImplementsSeniority
=============================================================================
