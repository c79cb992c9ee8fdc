-------------------------- MODULE WorkerPoolProofs --------------------------
(***************************************************************************)
(* Theorems about WorkerPool, for every size of the pool, any finite set   *)
(* of peers and any number of deaths, early or late.                       *)
(*                                                                         *)
(* The counts are only right because a peer is assigned once and released  *)
(* with its slot; the type of a count follows from that (a count is the    *)
(* size of a set of peers), so the two are one inductive invariant.  It    *)
(* also needs that nobody is assigned before start() has ended             *)
(* (StartedFirst) and that slots are filled from the first one on          *)
(* (SlotsInOrder).                                                         *)
(***************************************************************************)
EXTENDS WorkerPool, WellFoundedInduction, FiniteSetTheorems, TLAPS

(* Until start() has ended the pool is not ready and has no peers. *)
StartedFirst ==
  starting # "ended" => ~ready /\ \A p \in Peer : assignments[p] = NoSlot

(* The slots from the number of spawned ones on have never had a thread. *)
SlotsInOrder ==
  /\ starting = "idle" => spawned = 0
  /\ \A i \in Slot : i >= spawned => thread[i] = "none"

IInv ==
  /\ TypeOK
  /\ CountsMatch
  /\ AssignmentsCurrent
  /\ ReadyWorkerIsUp
  /\ StartedFirst
  /\ SlotsInOrder

-----------------------------------------------------------------------------
(* Numbers and sets *)

(* A non-empty set of natural numbers has a least element. *)
LEMMA LeastNatural ==
  ASSUME NEW T \in SUBSET Nat, T # {}
  PROVE  \E x \in T : \A y \in T : x <= y
<1> DEFINE R == {ss \in Nat \X Nat : ss[1] < ss[2]}
<1>1. IsWellFoundedOn(R, Nat)
  BY NatLessThanWellFounded DEF OpToRel
<1> HIDE DEF R
<1>2. PICK x \in T : \A y \in T : ~(<<y, x>> \in R)
  BY <1>1, WFMin
<1>3. ASSUME NEW y \in T
      PROVE  x <= y
  <2>1. x \in Nat /\ y \in Nat /\ <<y, x>> \notin R
    BY <1>2
  <2>2. ~(y < x)
    BY <2>1 DEF R
  <2> QED
    BY <2>1, <2>2
<1> QED
  BY <1>3

LEMMA SlotFacts ==
  /\ Size \in Nat /\ Size >= 1 /\ 0 \in Slot /\ NoSlot \notin Slot
  /\ \A i \in Slot : i \in Nat /\ i < Size
  /\ \A i \in Nat : i < Size => i \in Slot
BY PoolAssumption, NoSlotAssumption DEF Slot

(* indexOf(min) of the counts is defined. *)
LEMMA LeastLoadedIsSlot ==
  ASSUME peerCounts \in [Slot -> Nat]
  PROVE  LeastLoaded \in Slot
<1> DEFINE Counts == {peerCounts[i] : i \in Slot}
           Least(c) == {i \in Slot : peerCounts[i] = c}
<1>1. Counts \in SUBSET Nat /\ Counts # {}
  BY SlotFacts
<1>2. PICK c \in Counts : \A d \in Counts : c <= d
  BY <1>1, LeastNatural
<1>3. Least(c) \in SUBSET Nat /\ Least(c) # {}
  BY <1>2, SlotFacts
<1>4. PICK i \in Least(c) : \A j \in Least(c) : i <= j
  BY <1>3, LeastNatural
<1>5. ASSUME NEW j \in Slot
      PROVE  peerCounts[i] < peerCounts[j] \/ (peerCounts[i] = peerCounts[j] /\ i <= j)
  <2>1. peerCounts[j] \in Nat /\ peerCounts[i] = c /\ c \in Nat /\ c <= peerCounts[j]
    BY <1>1, <1>2, <1>4
  <2>2. CASE peerCounts[j] = c
    BY <1>4, <2>1, <2>2
  <2>3. CASE peerCounts[j] # c
    BY <2>1, <2>3
  <2> QED
    BY <2>2, <2>3
<1> QED
  BY <1>4, <1>5 DEF LeastLoaded

(* The peers of a slot are finitely many, and no more than there are. *)
LEMMA AssignedIsFinite ==
  ASSUME NEW S \in SUBSET Peer
  PROVE  /\ IsFiniteSet(S) /\ Cardinality(S) \in Nat
         /\ Cardinality(Peer) \in Nat /\ Cardinality(S) <= Cardinality(Peer)
<1>1. IsFiniteSet(Peer)
  BY PoolAssumption
<1> QED
  BY <1>1, FS_Subset, FS_CardinalityType

(* Fewer peers in a slot: the count goes down, never below zero. *)
LEMMA LessTypes ==
  ASSUME NEW count \in 0 .. Cardinality(Peer), NEW n \in Nat
  PROVE  Less(count, n) \in 0 .. Cardinality(Peer)
<1>1. Cardinality(Peer) \in Nat
  BY AssignedIsFinite
<1> QED
  BY <1>1 DEF Less

-----------------------------------------------------------------------------
(* The peers *)

PeerState == peerCounts \in [Slot -> 0 .. Cardinality(Peer)]
             /\ assignments \in [Peer -> Slot \cup {NoSlot}]
             /\ home \in [Peer -> Nat]

(* Nothing about the peers has changed, or their slots, and start() has    *)
(* ended if it had.                                                        *)
LEMMA OrphansReleasedRight ==
  ASSUME IInv, NEW i \in Slot, stopping < Size, OrphansReleased(i)
  PROVE  /\ PeerState'
         /\ \A j \in Slot : peerCounts'[j] = Cardinality(AssignedTo(j)')
         /\ \A p \in Peer : assignments'[p] = IF assignments[p] = i THEN NoSlot ELSE assignments[p]
<1>1. /\ peerCounts \in [Slot -> 0 .. Cardinality(Peer)]
      /\ assignments \in [Peer -> Slot \cup {NoSlot}]
      /\ home' = home /\ home \in [Peer -> Nat]
      /\ \A j \in Slot : peerCounts[j] = Cardinality(AssignedTo(j))
  BY DEF IInv, TypeOK, CountsMatch, OrphansReleased
<1>2. /\ AssignedTo(i) \in SUBSET Peer
      /\ Cardinality(AssignedTo(i)) \in Nat
  BY AssignedIsFinite DEF AssignedTo
<1>3. peerCounts' = [peerCounts EXCEPT ![i] = Less(peerCounts[i], Cardinality(AssignedTo(i)))]
  BY DEF OrphansReleased
<1>4. Less(peerCounts[i], Cardinality(AssignedTo(i))) = 0
  BY <1>1, <1>2 DEF Less
<1>5. \A p \in Peer : assignments'[p] = IF assignments[p] = i THEN NoSlot ELSE assignments[p]
  BY DEF OrphansReleased
<1>6. AssignedTo(i)' = {} /\ \A j \in Slot : j # i => AssignedTo(j)' = AssignedTo(j)
  BY <1>5, SlotFacts DEF AssignedTo
<1>7. Cardinality({}) = 0
  BY FS_EmptySet
<1>8. peerCounts' \in [Slot -> 0 .. Cardinality(Peer)]
  <2>1. 0 \in 0 .. Cardinality(Peer)
    BY AssignedIsFinite
  <2> QED
    BY <1>1, <1>3, <1>4, <2>1
<1>9. assignments' \in [Peer -> Slot \cup {NoSlot}]
  BY <1>1 DEF OrphansReleased
<1>10. \A j \in Slot : peerCounts'[j] = Cardinality(AssignedTo(j)')
  BY <1>1, <1>3, <1>4, <1>6, <1>7
<1> QED
  BY <1>1, <1>5, <1>8, <1>9, <1>10 DEF PeerState

(* A peer that had no slot is now counted in the slot it got. *)
LEMMA AssignRight ==
  ASSUME IInv, NEW p \in Peer, Assign(p)
  PROVE  PeerState' /\ CountsMatch' /\ AssignmentsCurrent'
<1>1. /\ peerCounts \in [Slot -> 0 .. Cardinality(Peer)]
      /\ assignments \in [Peer -> Slot \cup {NoSlot}]
      /\ home \in [Peer -> Nat] /\ generation \in [Slot -> Nat]
      /\ Cardinality(Peer) \in Nat
  BY AssignedIsFinite DEF IInv, TypeOK
<1>2. PICK i \in Slot : i = LeastLoaded
  <2>1. peerCounts \in [Slot -> Nat]
    BY <1>1
  <2> QED
    BY <2>1, LeastLoadedIsSlot
<1>3. /\ peerCounts' = [peerCounts EXCEPT ![i] = peerCounts[i] + 1]
      /\ assignments' = [assignments EXCEPT ![p] = i]
      /\ home' = [home EXCEPT ![p] = generation[i]]
      /\ stopping = -1 /\ stopping' = stopping /\ assignments[p] = NoSlot
      /\ generation' = generation
  BY <1>2 DEF Assign, threadVars
<1>4. \A j \in Slot : peerCounts[j] = Cardinality(AssignedTo(j))
  BY <1>3, SlotFacts DEF IInv, CountsMatch
<1>5. \A q \in Peer : assignments'[q] = IF q = p THEN i ELSE assignments[q]
  BY <1>1, <1>3
<1>6. /\ AssignedTo(i)' = AssignedTo(i) \cup {p}
      /\ p \notin AssignedTo(i)
  BY <1>2, <1>3, <1>5, SlotFacts DEF AssignedTo
<1>7. \A j \in Slot : j # i => AssignedTo(j)' = AssignedTo(j)
  BY <1>2, <1>3, <1>5, SlotFacts DEF AssignedTo
<1>8. /\ AssignedTo(i) \in SUBSET Peer /\ IsFiniteSet(AssignedTo(i))
      /\ AssignedTo(i) \cup {p} \in SUBSET Peer
  BY AssignedIsFinite DEF AssignedTo
<1>9. /\ Cardinality(AssignedTo(i) \cup {p}) = peerCounts[i] + 1
      /\ peerCounts[i] + 1 \in 0 .. Cardinality(Peer)
  <2>1. Cardinality(AssignedTo(i) \cup {p}) = Cardinality(AssignedTo(i)) + 1
    BY <1>6, <1>8, FS_AddElement
  <2>2. /\ Cardinality(AssignedTo(i) \cup {p}) \in Nat
        /\ Cardinality(AssignedTo(i) \cup {p}) <= Cardinality(Peer)
    BY <1>8, AssignedIsFinite
  <2> QED
    BY <1>1, <1>2, <1>4, <2>1, <2>2
<1>10. PeerState'
  BY <1>1, <1>2, <1>3, <1>9 DEF PeerState
<1>11. CountsMatch'
  <2>1. ASSUME NEW j \in Slot
        PROVE  peerCounts'[j] = Cardinality(AssignedTo(j)')
    <3>1. CASE j = i
      BY <1>1, <1>3, <1>6, <1>9, <3>1
    <3>2. CASE j # i
      BY <1>1, <1>3, <1>4, <1>7, <3>2
    <3> QED
      BY <3>1, <3>2
  <2> QED
    BY <2>1 DEF CountsMatch
<1>12. AssignmentsCurrent'
  <2>1. ASSUME NEW q \in Peer, assignments'[q] # NoSlot
        PROVE  home'[q] = generation'[assignments'[q]]
    <3>1. CASE q = p
      BY <1>1, <1>3, <1>5, <3>1
    <3>2. CASE q # p
      BY <1>1, <1>3, <1>5, <2>1, <3>2 DEF IInv, AssignmentsCurrent
    <3> QED
      BY <3>1, <3>2
  <2> QED
    BY <2>1 DEF AssignmentsCurrent
<1> QED
  BY <1>10, <1>11, <1>12

(* A peer that is released leaves the count of its slot. *)
LEMMA ReleaseRight ==
  ASSUME IInv, NEW p \in Peer, Release(p)
  PROVE  PeerState' /\ CountsMatch' /\ AssignmentsCurrent'
<1>1. /\ peerCounts \in [Slot -> 0 .. Cardinality(Peer)]
      /\ assignments \in [Peer -> Slot \cup {NoSlot}]
      /\ home \in [Peer -> Nat]
  BY DEF IInv, TypeOK
<1>2. PICK i \in Slot : i = assignments[p]
  BY <1>1 DEF Release
<1>3. /\ peerCounts' = [peerCounts EXCEPT ![i] = Less(peerCounts[i], 1)]
      /\ assignments' = [assignments EXCEPT ![p] = NoSlot]
      /\ home' = home /\ stopping' = stopping /\ generation' = generation
  BY <1>2 DEF Release, threadVars
<1>4. \A q \in Peer : assignments'[q] = IF q = p THEN NoSlot ELSE assignments[q]
  BY <1>1, <1>3
<1>5. AssignedTo(i)' = AssignedTo(i) \ {p} /\ p \in AssignedTo(i)
  BY <1>2, <1>4, SlotFacts DEF AssignedTo
<1>6. \A j \in Slot : j # i => AssignedTo(j)' = AssignedTo(j)
  BY <1>2, <1>4, SlotFacts DEF AssignedTo
<1>7. PeerState'
  <2>1. Less(peerCounts[i], 1) \in 0 .. Cardinality(Peer)
    BY <1>1, LessTypes
  <2> QED
    BY <1>1, <1>3, <2>1 DEF PeerState
<1>8. CountsMatch'
  <2> SUFFICES ASSUME stopping < Size, NEW j \in Slot
               PROVE  peerCounts'[j] = Cardinality(AssignedTo(j)')
    BY <1>3 DEF CountsMatch
  <2>1. peerCounts[j] = Cardinality(AssignedTo(j)) /\ peerCounts[i] = Cardinality(AssignedTo(i))
    BY DEF IInv, CountsMatch
  <2>2. CASE j # i
    BY <1>1, <1>3, <1>6, <2>1, <2>2
  <2>3. CASE j = i
    <3>1. AssignedTo(i) \in SUBSET Peer /\ AssignedTo(i) \ {p} \in SUBSET Peer
      BY DEF AssignedTo
    <3>2. /\ Cardinality(AssignedTo(i) \ {p}) = Cardinality(AssignedTo(i)) - 1
          /\ Cardinality(AssignedTo(i) \ {p}) \in Nat
          /\ Cardinality(AssignedTo(i)) \in Nat
      BY <1>5, <3>1, AssignedIsFinite, FS_RemoveElement
    <3>3. Less(peerCounts[i], 1) = Cardinality(AssignedTo(i)) - 1
      BY <2>1, <3>2 DEF Less
    <3>4. peerCounts'[i] = Less(peerCounts[i], 1)
      BY <1>1, <1>3
    <3> QED
      BY <1>5, <2>3, <3>2, <3>3, <3>4
  <2> QED
    BY <2>2, <2>3
<1>9. AssignmentsCurrent'
  BY <1>1, <1>3, <1>4 DEF IInv, AssignmentsCurrent
<1> QED
  BY <1>7, <1>8, <1>9

(* The exit of a thread takes its peers from it, wherever stop() is. *)
LEMMA ExitRight ==
  ASSUME IInv, NEW i \in Slot, Exit(i)
  PROVE  PeerState' /\ CountsMatch' /\ AssignmentsCurrent'
<1>1. /\ peerCounts \in [Slot -> 0 .. Cardinality(Peer)]
      /\ assignments \in [Peer -> Slot \cup {NoSlot}]
      /\ home \in [Peer -> Nat] /\ generation \in [Slot -> Nat]
  BY DEF IInv, TypeOK
<1>2. generation' = [generation EXCEPT ![i] = @ + 1]
  BY DEF Exit, Respawned
<1>3. \A j \in Slot : j # i => generation'[j] = generation[j]
  BY <1>1, <1>2
<1>4. CASE OrphansReleased(i) /\ stopping < Size
  <2>1. /\ PeerState'
        /\ \A j \in Slot : peerCounts'[j] = Cardinality(AssignedTo(j)')
        /\ \A p \in Peer : assignments'[p] = IF assignments[p] = i THEN NoSlot ELSE assignments[p]
    BY <1>4, OrphansReleasedRight
  <2>2. CountsMatch'
    BY <2>1 DEF CountsMatch
  <2>3. home' = home
    BY <1>4 DEF OrphansReleased
  <2>4. AssignmentsCurrent'
    BY <1>1, <1>3, <2>1, <2>3 DEF IInv, AssignmentsCurrent
  <2> QED
    BY <2>1, <2>2, <2>4
<1>5. CASE OrphansReleased(i) /\ stopping = Size
  <2>1. /\ assignments' = [p \in Peer |-> IF assignments[p] = i THEN NoSlot ELSE assignments[p]]
        /\ peerCounts' = [peerCounts EXCEPT ![i] = Less(peerCounts[i], Cardinality(AssignedTo(i)))]
        /\ home' = home
    BY <1>5 DEF OrphansReleased
  <2>2. Less(peerCounts[i], Cardinality(AssignedTo(i))) \in 0 .. Cardinality(Peer)
    <3>1. AssignedTo(i) \in SUBSET Peer
      BY DEF AssignedTo
    <3>2. Cardinality(AssignedTo(i)) \in Nat
      BY <3>1, AssignedIsFinite
    <3> QED
      BY <1>1, <3>2, LessTypes
  <2>3. PeerState'
    BY <1>1, <2>1, <2>2 DEF PeerState
  <2>4. stopping' = Size
    BY <1>5, SlotFacts DEF Exit
  <2>5. CountsMatch'
    BY <2>4, SlotFacts DEF CountsMatch
  <2>6. AssignmentsCurrent'
    BY <1>1, <1>3, <2>1 DEF IInv, AssignmentsCurrent
  <2> QED
    BY <2>3, <2>5, <2>6
<1>6. CASE stopping = i /\ i + 1 >= spawned
  <2>1. /\ stopping' = Size
        /\ assignments' = [p \in Peer |-> NoSlot]
        /\ peerCounts' = [peerCounts EXCEPT ![i] = Less(peerCounts[i], Cardinality(AssignedTo(i)))]
        /\ home' = home
    <3>1. ~(i + 1 < spawned)
      BY <1>6, SlotFacts DEF IInv, TypeOK
    <3> QED
      BY <1>6, <3>1 DEF Exit, StopResumes
  <2>2. Less(peerCounts[i], Cardinality(AssignedTo(i))) \in 0 .. Cardinality(Peer)
    <3>1. AssignedTo(i) \in SUBSET Peer
      BY DEF AssignedTo
    <3>2. Cardinality(AssignedTo(i)) \in Nat
      BY <3>1, AssignedIsFinite
    <3> QED
      BY <1>1, <3>2, LessTypes
  <2>3. PeerState'
    BY <1>1, <2>1, <2>2 DEF PeerState
  <2>4. CountsMatch'
    BY <2>1, SlotFacts DEF CountsMatch
  <2>5. AssignmentsCurrent'
    BY <2>1 DEF AssignmentsCurrent
  <2> QED
    BY <2>3, <2>4, <2>5
<1>7. \/ OrphansReleased(i) /\ stopping < Size
      \/ OrphansReleased(i) /\ stopping = Size
      \/ stopping = i /\ i + 1 >= spawned
  <2>1. stopping \in -1 .. Size /\ spawned \in 0 .. Size /\ i \in Nat /\ i < Size /\ Size \in Nat
    BY SlotFacts DEF IInv, TypeOK
  <2>2. CASE stopping = i
    BY <2>1, <2>2 DEF Exit, StopResumes
  <2>3. CASE stopping # i
    BY <2>1, <2>3 DEF Exit
  <2> QED
    BY <2>2, <2>3
<1> QED
  BY <1>4, <1>5, <1>6, <1>7

(* Before start() has ended there are no assignments, so that a new thread *)
(* in a slot is nobody's; a step that spawns nothing changes no generation.*)
LEMMA PeersUntouched ==
  ASSUME IInv, UNCHANGED peerVars,
         stopping' < Size => stopping < Size,
         generation' = generation \/ starting # "ended"
  PROVE  PeerState' /\ CountsMatch' /\ AssignmentsCurrent'
<1>1. peerCounts' = peerCounts /\ assignments' = assignments /\ home' = home
  BY DEF peerVars
<1>2. PeerState'
  BY <1>1 DEF PeerState, IInv, TypeOK
<1>3. \A j \in Slot : AssignedTo(j)' = AssignedTo(j)
  BY <1>1 DEF AssignedTo
<1>4. CountsMatch'
  BY <1>1, <1>3 DEF IInv, CountsMatch
<1>5. AssignmentsCurrent'
  <2>1. CASE generation' = generation
    BY <1>1, <2>1 DEF IInv, AssignmentsCurrent
  <2>2. CASE starting # "ended"
    BY <1>1, <2>2 DEF IInv, StartedFirst, AssignmentsCurrent
  <2> QED
    BY <2>1, <2>2
<1> QED
  BY <1>2, <1>4, <1>5

-----------------------------------------------------------------------------
(* The threads *)

ThreadState ==
  /\ thread \in [Slot -> {"none", "starting", "up", "dead"}]
  /\ original \in [Slot -> BOOLEAN]
  /\ asked \in [Slot -> BOOLEAN]
  /\ generation \in [Slot -> Nat]
  /\ workers \subseteq Slot
  /\ workerReady \in [Slot -> BOOLEAN]

StartState ==
  /\ starting \in {"idle", "spawning", "waiting", "ended"}
  /\ spawned \in 0 .. Size
  /\ ready \in BOOLEAN
  /\ stopping \in -1 .. Size
  /\ deaths \in 0 .. MaxDeaths

(* What the steps that leave the peers alone have to establish. *)
Rest == ThreadState /\ StartState /\ ReadyWorkerIsUp /\ StartedFirst /\ SlotsInOrder

LEMMA Parts == IInv <=> PeerState /\ CountsMatch /\ AssignmentsCurrent /\ Rest
BY DEF IInv, TypeOK, PeerState, Rest, ThreadState, StartState

LEMMA PartsNext ==
  ASSUME PeerState', CountsMatch', AssignmentsCurrent', Rest'
  PROVE  IInv'
BY DEF IInv, TypeOK, PeerState, Rest, ThreadState, StartState

LEMMA StartKeeps ==
  ASSUME IInv, Start
  PROVE  IInv'
<1>1. Rest
  BY Parts
<1>2. thread[0] = "none" /\ ~workerReady[0]
  BY <1>1, SlotFacts DEF Rest, ThreadState, SlotsInOrder, ReadyWorkerIsUp, Start
<1>3. PeerState' /\ CountsMatch' /\ AssignmentsCurrent'
  BY PeersUntouched DEF Start
<1>4. ThreadState'
  BY <1>1, SlotFacts DEF Rest, ThreadState, Start, SpawnWorker
<1>5. StartState'
  BY <1>1, SlotFacts DEF Rest, StartState, Start
<1>6. ReadyWorkerIsUp'
  BY <1>1, <1>2, SlotFacts DEF Rest, ThreadState, ReadyWorkerIsUp, Start, SpawnWorker
<1>7. StartedFirst'
  BY <1>1 DEF Rest, StartedFirst, Start, peerVars
<1>8. SlotsInOrder'
  BY <1>1, SlotFacts DEF Rest, ThreadState, SlotsInOrder, Start, SpawnWorker
<1> QED
  BY <1>3, <1>4, <1>5, <1>6, <1>7, <1>8, PartsNext DEF Rest

LEMMA CheckReadyKeeps ==
  ASSUME IInv, CheckReady
  PROVE  IInv'
<1>1. Rest
  BY Parts
<1>2. PeerState' /\ CountsMatch' /\ AssignmentsCurrent'
  BY PeersUntouched DEF CheckReady, threadVars
<1>3. Rest'
  BY <1>1 DEF Rest, ThreadState, StartState, ReadyWorkerIsUp, StartedFirst, SlotsInOrder,
              CheckReady, threadVars
<1> QED
  BY <1>2, <1>3, PartsNext

LEMMA StopKeeps ==
  ASSUME IInv, Stop
  PROVE  IInv'
<1>1. Rest
  BY Parts
<1>2. PeerState' /\ CountsMatch' /\ AssignmentsCurrent'
  <2>1. UNCHANGED peerVars /\ stopping < Size /\ generation' = generation
    BY SlotFacts DEF Stop
  <2> QED
    BY <2>1, PeersUntouched
<1>3. ThreadState'
  BY <1>1 DEF Rest, ThreadState, Stop
<1>4. StartState'
  BY <1>1, SlotFacts DEF Rest, StartState, Stop, startVars
<1>5. ReadyWorkerIsUp' /\ StartedFirst' /\ SlotsInOrder'
  BY <1>1 DEF Rest, ReadyWorkerIsUp, StartedFirst, SlotsInOrder, Stop, startVars, peerVars
<1> QED
  BY <1>2, <1>3, <1>4, <1>5, PartsNext DEF Rest

(* The first message of a thread: the third case is start() going on to    *)
(* the next slot, which has had no thread.                                 *)
LEMMA ReadyMessageKeeps ==
  ASSUME IInv, NEW i \in Slot, ReadyMessage(i)
  PROVE  IInv'
<1>1. Rest
  BY Parts
<1>2. /\ thread[i] = "starting" /\ UNCHANGED peerVars
      /\ ready' = ready /\ stopping' = stopping /\ deaths' = deaths
      /\ workerReady' = [workerReady EXCEPT ![i] = TRUE]
  BY DEF ReadyMessage
<1>3. i < spawned /\ spawned \in 0 .. Size /\ Size \in Nat /\ i \in Nat
  BY <1>1, <1>2, SlotFacts DEF Rest, SlotsInOrder, StartState
<1>4. CASE /\ thread' = [thread EXCEPT ![i] = "up"]
           /\ UNCHANGED <<original, asked, generation, workers, spawned>>
           /\ starting' = starting \/ (starting = "spawning" /\ starting' = "waiting")
  <2>1. PeerState' /\ CountsMatch' /\ AssignmentsCurrent'
    BY <1>2, <1>4, PeersUntouched
  <2>2. ThreadState'
    BY <1>1, <1>2, <1>4 DEF Rest, ThreadState
  <2>3. StartState' /\ StartedFirst'
    BY <1>1, <1>2, <1>4 DEF Rest, StartState, StartedFirst, peerVars
  <2>4. ReadyWorkerIsUp'
    BY <1>1, <1>2, <1>4 DEF Rest, ThreadState, ReadyWorkerIsUp
  <2>5. SlotsInOrder'
    BY <1>1, <1>3, <1>4, SlotFacts DEF Rest, ThreadState, SlotsInOrder
  <2> QED
    BY <2>1, <2>2, <2>3, <2>4, <2>5, PartsNext DEF Rest
<1>5. CASE /\ IsAwaited(i) /\ spawned < Size
           /\ thread' = [thread EXCEPT ![i] = "up", ![spawned] = "starting"]
           /\ original' = [original EXCEPT ![spawned] = TRUE]
           /\ generation' = [generation EXCEPT ![spawned] = @ + 1]
           /\ workers' = workers \cup {spawned}
           /\ spawned' = spawned + 1
           /\ UNCHANGED <<asked, starting>>
  <2>1. spawned \in Slot /\ spawned # i /\ spawned + 1 \in 0 .. Size
    BY <1>3, <1>5, SlotFacts
  <2>2. thread[spawned] = "none" /\ ~workerReady[spawned]
    BY <1>1, <2>1, SlotFacts DEF Rest, ThreadState, SlotsInOrder, ReadyWorkerIsUp
  <2>3. starting = "spawning" /\ starting' = "spawning"
    BY <1>5 DEF IsAwaited
  <2>4. PeerState' /\ CountsMatch' /\ AssignmentsCurrent'
    BY <1>2, <2>3, PeersUntouched
  <2>5. ThreadState'
    <3>1. thread' \in [Slot -> {"none", "starting", "up", "dead"}]
      BY <1>1, <1>5, <2>1 DEF Rest, ThreadState
    <3>2. /\ original' \in [Slot -> BOOLEAN] /\ asked' \in [Slot -> BOOLEAN]
          /\ generation' \in [Slot -> Nat] /\ workers' \subseteq Slot
      BY <1>1, <1>5, <2>1 DEF Rest, ThreadState
    <3>3. workerReady' \in [Slot -> BOOLEAN]
      BY <1>1, <1>2 DEF Rest, ThreadState
    <3> QED
      BY <3>1, <3>2, <3>3 DEF ThreadState
  <2>6. StartState' /\ StartedFirst'
    BY <1>1, <1>2, <1>5, <2>1, <2>3 DEF Rest, StartState, StartedFirst, peerVars
  <2>7. \A j \in Slot : thread'[j] = IF j = i THEN "up"
                                     ELSE IF j = spawned THEN "starting" ELSE thread[j]
    BY <1>1, <1>5, <2>1 DEF Rest, ThreadState
  <2>8. ReadyWorkerIsUp'
    BY <1>1, <1>2, <2>1, <2>2, <2>7 DEF Rest, ThreadState, ReadyWorkerIsUp
  <2>9. SlotsInOrder'
    <3>1. ASSUME NEW j \in Slot, j >= spawned + 1
          PROVE  thread'[j] = "none"
      BY <1>1, <1>3, <2>7, <3>1, SlotFacts DEF Rest, SlotsInOrder
    <3> QED
      BY <1>5, <2>3, <3>1 DEF SlotsInOrder
  <2> QED
    BY <2>4, <2>5, <2>6, <2>8, <2>9, PartsNext DEF Rest
<1> QED
  BY <1>4, <1>5 DEF ReadyMessage, IsAwaited

LEMMA DiesKeeps ==
  ASSUME IInv, NEW i \in Slot, Dies(i)
  PROVE  IInv'
<1>1. Rest
  BY Parts
<1>2. /\ thread[i] \in {"starting", "up"} /\ thread' = [thread EXCEPT ![i] = "dead"]
      /\ UNCHANGED <<original, asked, generation, workers, workerReady, peerVars>>
      /\ UNCHANGED <<starting, spawned, ready, stopping>>
  BY DEF Dies, startVars
<1>3. PeerState' /\ CountsMatch' /\ AssignmentsCurrent'
  BY <1>2, PeersUntouched
<1>4. ThreadState'
  BY <1>1, <1>2 DEF Rest, ThreadState
<1>5. deaths' \in 0 .. MaxDeaths
  BY <1>1, PoolAssumption DEF Rest, StartState, Dies
<1>6. StartState' /\ StartedFirst'
  BY <1>1, <1>2, <1>5 DEF Rest, StartState, StartedFirst, peerVars
<1>7. ReadyWorkerIsUp'
  BY <1>1, <1>2 DEF Rest, ThreadState, ReadyWorkerIsUp
<1>8. SlotsInOrder'
  BY <1>1, <1>2, SlotFacts DEF Rest, ThreadState, SlotsInOrder
<1> QED
  BY <1>3, <1>4, <1>6, <1>7, <1>8, PartsNext DEF Rest

LEMMA ExitKeeps ==
  ASSUME IInv, NEW i \in Slot, Exit(i)
  PROVE  IInv'
<1>1. Rest /\ PeerState /\ CountsMatch
  BY Parts
<1>2. /\ thread[i] = "dead"
      /\ thread' = [thread EXCEPT ![i] = "starting"]
      /\ original' = [original EXCEPT ![i] = FALSE]
      /\ generation' = [generation EXCEPT ![i] = @ + 1]
      /\ workerReady' = [workerReady EXCEPT ![i] = FALSE]
      /\ starting' = starting /\ spawned' = spawned /\ deaths' = deaths
  BY DEF Exit, Respawned, NotReady
<1>3. PeerState' /\ CountsMatch' /\ AssignmentsCurrent'
  BY ExitRight
<1>4. /\ asked' \in [Slot -> BOOLEAN] /\ workers' \subseteq Slot
      /\ stopping' \in -1 .. Size /\ ready' \in BOOLEAN
      /\ ready' = ready \/ ready' = FALSE
  <2>1. /\ stopping \in -1 .. Size /\ spawned \in 0 .. Size /\ ready \in BOOLEAN
        /\ asked \in [Slot -> BOOLEAN] /\ workers \subseteq Slot
        /\ i \in Nat /\ i < Size /\ Size \in Nat
    BY <1>1, SlotFacts DEF Rest, ThreadState, StartState
  <2>2. CASE stopping = i /\ i + 1 < spawned
    <3>1. i + 1 \in Slot
      BY <2>1, <2>2, SlotFacts
    <3>2. /\ stopping' = i + 1 /\ ready' = ready /\ workers' = workers \cup {i}
          /\ asked' = [asked EXCEPT ![i] = FALSE, ![i + 1] = TRUE]
      BY <2>2 DEF Exit, StopResumes
    <3>3. asked' \in [Slot -> BOOLEAN]
      BY <2>1, <3>1, <3>2
    <3>4. i + 1 \in -1 .. Size
      BY <2>1, <2>2
    <3> QED
      BY <2>1, <3>2, <3>3, <3>4
  <2>3. CASE stopping = i /\ ~(i + 1 < spawned)
    <3>1. /\ stopping' = Size /\ ready' = FALSE /\ workers' = {}
          /\ asked' = [asked EXCEPT ![i] = FALSE]
      BY <2>3 DEF Exit, StopResumes
    <3>2. asked' \in [Slot -> BOOLEAN]
      BY <2>1, <3>1
    <3>3. Size \in -1 .. Size
      BY <2>1
    <3> QED
      BY <3>1, <3>2, <3>3
  <2>4. CASE stopping # i
    BY <2>1, <2>4 DEF Exit
  <2> QED
    BY <2>2, <2>3, <2>4
<1>5. ThreadState'
  <2>1. /\ thread \in [Slot -> {"none", "starting", "up", "dead"}]
        /\ original \in [Slot -> BOOLEAN] /\ generation \in [Slot -> Nat]
        /\ workerReady \in [Slot -> BOOLEAN]
    BY <1>1 DEF Rest, ThreadState
  <2>2. /\ thread' \in [Slot -> {"none", "starting", "up", "dead"}]
        /\ original' \in [Slot -> BOOLEAN] /\ workerReady' \in [Slot -> BOOLEAN]
    BY <1>2, <2>1
  <2>3. generation' \in [Slot -> Nat]
    BY <1>2, <2>1
  <2> QED
    BY <1>4, <2>2, <2>3 DEF ThreadState
<1>6. StartState'
  BY <1>1, <1>2, <1>4 DEF Rest, StartState
<1>7. ReadyWorkerIsUp'
  BY <1>1, <1>2 DEF Rest, ThreadState, ReadyWorkerIsUp
<1>8. StartedFirst'
  <2>1. \A p \in Peer : assignments[p] = NoSlot => assignments'[p] = NoSlot
    <3>1. \/ assignments' = [p \in Peer |-> NoSlot]
          \/ assignments' = [p \in Peer |-> IF assignments[p] = i THEN NoSlot ELSE assignments[p]]
      BY DEF Exit, StopResumes, OrphansReleased
    <3> QED
      BY <3>1
  <2> QED
    BY <1>1, <1>2, <1>4, <2>1 DEF Rest, StartedFirst
<1>9. SlotsInOrder'
  BY <1>1, <1>2, SlotFacts DEF Rest, ThreadState, SlotsInOrder
<1> QED
  BY <1>3, <1>5, <1>6, <1>7, <1>8, <1>9, PartsNext DEF Rest

LEMMA PeersKeep ==
  ASSUME IInv, NEW p \in Peer, Assign(p) \/ Release(p)
  PROVE  IInv'
<1>1. Rest /\ PeerState
  BY Parts
<1>2. PeerState' /\ CountsMatch' /\ AssignmentsCurrent'
  BY AssignRight, ReleaseRight
<1>3. /\ UNCHANGED <<thread, original, asked, generation, workers, workerReady>>
      /\ UNCHANGED <<starting, spawned, ready, stopping, deaths>>
  BY DEF Assign, Release, threadVars, startVars
<1>4. ThreadState' /\ StartState'
  BY <1>1, <1>3 DEF Rest, ThreadState, StartState
<1>5. ReadyWorkerIsUp' /\ SlotsInOrder'
  BY <1>1, <1>3 DEF Rest, ReadyWorkerIsUp, SlotsInOrder
<1>6. starting = "ended"
  BY <1>1 DEF Rest, StartedFirst, Assign, Release
<1>7. StartedFirst'
  BY <1>3, <1>6 DEF StartedFirst
<1> QED
  BY <1>2, <1>4, <1>5, <1>7, PartsNext DEF Rest

-----------------------------------------------------------------------------
LEMMA InitEstablishes == Init => IInv
<1> SUFFICES ASSUME Init
             PROVE  IInv
  OBVIOUS
<1>1. \A j \in Slot : AssignedTo(j) = {}
  BY SlotFacts DEF AssignedTo, Init
<1>2. Cardinality({}) = 0 /\ Cardinality(Peer) \in Nat
  BY FS_EmptySet, AssignedIsFinite
<1>3. CountsMatch
  BY <1>1, <1>2 DEF CountsMatch, Init
<1>4. TypeOK
  <2>1. Size \in Nat /\ MaxDeaths \in Nat
    BY PoolAssumption
  <2>2. 0 \in 0 .. Size /\ -1 \in -1 .. Size /\ 0 \in 0 .. MaxDeaths /\ 0 \in 0 .. Cardinality(Peer)
    BY <1>2, <2>1
  <2> QED
    BY <2>2 DEF TypeOK, Init
<1>5. AssignmentsCurrent /\ ReadyWorkerIsUp /\ StartedFirst /\ SlotsInOrder
  BY DEF AssignmentsCurrent, ReadyWorkerIsUp, StartedFirst, SlotsInOrder, Init
<1> QED
  BY <1>3, <1>4, <1>5 DEF IInv

LEMMA NextKeeps == IInv /\ [Next]_vars => IInv'
<1> SUFFICES ASSUME IInv, [Next]_vars
             PROVE  IInv'
  OBVIOUS
<1>1. CASE Start
  BY <1>1, StartKeeps
<1>2. CASE CheckReady
  BY <1>2, CheckReadyKeeps
<1>3. CASE Stop
  BY <1>3, StopKeeps
<1>4. CASE \E i \in Slot : ReadyMessage(i) \/ Dies(i) \/ Exit(i)
  BY <1>4, ReadyMessageKeeps, DiesKeeps, ExitKeeps
<1>5. CASE \E p \in Peer : Assign(p) \/ Release(p)
  BY <1>5, PeersKeep
<1>6. CASE UNCHANGED vars
  <2>1. Rest
    BY Parts
  <2>2. PeerState' /\ CountsMatch' /\ AssignmentsCurrent'
    BY <1>6, PeersUntouched DEF vars, threadVars
  <2>3. Rest'
    BY <1>6, <2>1 DEF Rest, ThreadState, StartState, ReadyWorkerIsUp, StartedFirst, SlotsInOrder,
                      vars, threadVars, peerVars, startVars
  <2> QED
    BY <2>2, <2>3, PartsNext
<1> QED
  BY <1>1, <1>2, <1>3, <1>4, <1>5, <1>6 DEF Next

(* The strengthening, all parts of it at once. *)
THEOREM InvariantHolds == Spec => []IInv
BY InitEstablishes, NextKeeps, PTL DEF Spec

(* The state of the pool has its types; in particular no count exceeds the *)
(* number of peers, nor does stop() look for a worker that is not there.   *)
THEOREM TypeCorrect == Spec => []TypeOK
<1>1. IInv => TypeOK
  BY DEF IInv
<1> QED
  BY <1>1, InvariantHolds, PTL

(* The load of a worker is the number of its peers: the balance that       *)
(* assign() strikes is over true counts, until stop() has returned.        *)
THEOREM CountsCorrect == Spec => []CountsMatch
<1>1. IInv => CountsMatch
  BY DEF IInv
<1> QED
  BY <1>1, InvariantHolds, PTL

(* No peer stays assigned to a thread that has been replaced. *)
THEOREM AssignmentsCorrect == Spec => []AssignmentsCurrent
<1>1. IInv => AssignmentsCurrent
  BY DEF IInv
<1> QED
  BY <1>1, InvariantHolds, PTL

(* A worker that counts as ready said so itself, and not the thread before *)
(* it in its slot.                                                         *)
THEOREM ReadyIsUp == Spec => []ReadyWorkerIsUp
<1>1. IInv => ReadyWorkerIsUp
  BY DEF IInv
<1> QED
  BY <1>1, InvariantHolds, PTL
=============================================================================
