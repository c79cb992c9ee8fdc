--------------------------- MODULE TaskFlowProofs ---------------------------
(***************************************************************************)
(* Theorems about TaskFlow, for any number of peers, rooms, tasks and      *)
(* connections.                                                            *)
(*                                                                         *)
(* A task number is only ever found with a worker the task was addressed   *)
(* to, and a number yet to be given out nowhere (Addressed); a task of the *)
(* host is at most once in the queue of a worker (OnceDown).  From there   *)
(* on a task moves from one place to the next (NoTaskForgotten), and its   *)
(* results in the order they were sent (ResultsSeenOnce).                  *)
(***************************************************************************)
EXTENDS TaskFlow, SequenceTheorems, FunctionTheorems, FiniteSetTheorems, TLAPS

RP == INSTANCE RoomsProofs

DataId == GivenId \cup {NoId}
Task == [id : DataId, by : Peer, to : SUBSET Peer]
Entry == [from : WsPeer, msg : Frame]
Status == {"none", "sent", "failed", "partial", "in_progress", "done"}

(* A frame of p is about a task that was handed out: a task of a lead, or  *)
(* a result of a worker it was addressed to.                               *)
Proper(hs, p, frame) ==
  /\ frame.n \in DOMAIN hs
  /\ frame.kind = "task" => hs[frame.n].by \in Lead
  /\ IsResult(frame) => p \in Worker /\ p \in hs[frame.n].to

Addressed ==
  /\ \A w \in Worker : \A i \in DOMAIN down[w] :
       down[w][i] \in DOMAIN handed /\ w \in handed[down[w][i]].to
  /\ \A w \in Worker : \A n \in running[w] : n \in DOMAIN handed /\ w \in handed[n].to
  /\ \A p \in WsPeer : \A i \in DOMAIN up[p] : Proper(handed, p, up[p][i])
  /\ \A i \in DOMAIN Log : Proper(handed, Log[i].from, Log[i].msg)
  /\ \A n, w : <<n, w>> \in lost => n \in DOMAIN handed

(* The types, the rooms in a state RoomsProofs describes, and Addressed. *)
TInv == TypeOK /\ RP!IInv /\ Len(handed) <= MaxHanded /\ Addressed

-----------------------------------------------------------------------------
(* The rooms: RM and RP are the same module seen from two sides. *)

LEMMA SameCardinality == \A S : RM!Cardinality(S) = RP!Cardinality(S)
BY DEF RM!Cardinality, RP!Cardinality

LEMMA SameFiniteness == \A S : RM!IsFiniteSet(S) <=> RP!IsFiniteSet(S)
BY DEF RM!IsFiniteSet, RP!IsFiniteSet

LEMMA SameJoin ==
  ASSUME NEW r \in Room, NEW p \in Peer
  PROVE  RM!JoinAccepted(r, p) <=> RP!JoinAccepted(r, p)
BY SameCardinality
   DEF RM!JoinAccepted, RP!JoinAccepted, RM!RoomsExhausted, RP!RoomsExhausted,
       RM!RoomFull, RP!RoomFull, RM!Members, RP!Members, RM!Range, RP!Range,
       RM!WithMember, RP!WithMember, RM!PrincipalOnJoin, RP!PrincipalOnJoin

LEMMA SameLeave ==
  ASSUME NEW S \in SUBSET Room, NEW p \in Peer
  PROVE  RM!Leave(S, p) <=> RP!Leave(S, p)
BY DEF RM!Leave, RP!Leave, RM!Remaining, RP!Remaining, RM!WithoutMember, RP!WithoutMember,
       RM!PositionOf, RP!PositionOf, RM!Range, RP!Range,
       RM!PrincipalOnLeave, RP!PrincipalOnLeave, RM!IndexOnLeave, RP!IndexOnLeave

LEMMA SameTypes == RM!TypeOK <=> RP!TypeOK
BY SameFiniteness DEF RM!TypeOK, RP!TypeOK, RM!IsInjective, RP!IsInjective

LEMMA JoinKeepsRooms ==
  ASSUME RP!IInv, NEW r \in Room, NEW p \in Peer, RM!JoinAccepted(r, p)
  PROVE  RP!IInv' /\ RM!TypeOK'
<1>1. RP!IInv'
  BY SameJoin, TaskAssumption, RP!JoinAcceptedPreserves
<1>2. RP!TypeOK'
  BY <1>1 DEF RP!IInv
<1> QED
  BY <1>1, <1>2, SameFiniteness DEF RM!TypeOK, RP!TypeOK, RM!IsInjective, RP!IsInjective

LEMMA LeaveKeepsRooms ==
  ASSUME RP!IInv, NEW p \in Peer, RM!Leave(peerToRooms[p], p)
  PROVE  RP!IInv' /\ RM!TypeOK'
<1>1. peerToRooms[p] \in SUBSET Room
  BY DEF RP!IInv, RP!TypeOK
<1>2. RP!Leave(peerToRooms[p], p)
  BY <1>1, SameLeave
<1>3. RP!IInv'
  BY <1>1, <1>2, TaskAssumption, RP!LeavePreserves
<1>4. RP!TypeOK'
  BY <1>3 DEF RP!IInv
<1> QED
  BY <1>3, <1>4, SameFiniteness DEF RM!TypeOK, RP!TypeOK, RM!IsInjective, RP!IsInjective

LEMMA RoomsUntouched ==
  ASSUME RP!IInv, UNCHANGED roomVars
  PROVE  RP!IInv' /\ RM!TypeOK'
<1>1. RP!IInv'
  BY DEF roomVars, RP!IInv, RP!TypeOK, RP!IndexAgrees, RP!PrincipalIsSenior, RP!WithinLimits,
         RP!Members
<1>2. RP!TypeOK'
  BY <1>1 DEF RP!IInv
<1> QED
  BY <1>1, <1>2, SameFiniteness DEF RM!TypeOK, RP!TypeOK, RM!IsInjective, RP!IsInjective

-----------------------------------------------------------------------------
(* Sequences and the peers *)

LEMMA PeerFacts ==
  /\ Worker \subseteq WsPeer /\ Lead \subseteq WsPeer /\ WsPeer \subseteq Peer
  /\ Worker \cap Lead = {} /\ Host \in Peer /\ Host \notin WsPeer
  /\ MaxHanded \in Nat
BY TaskAssumption DEF WsPeer

LEMMA TailFacts ==
  ASSUME NEW S, NEW s \in Seq(S), s # <<>>
  PROVE  /\ Head(s) = s[1] /\ 1 \in DOMAIN s /\ s[1] \in S /\ Tail(s) \in Seq(S)
         /\ \A i \in DOMAIN Tail(s) :
              i \in Nat /\ i + 1 \in DOMAIN s /\ i + 1 # 1 /\ Tail(s)[i] = s[i + 1]
         /\ \A i \in DOMAIN s : i # 1 => i - 1 \in DOMAIN Tail(s) /\ Tail(s)[i - 1] = s[i]
<1>1. Tail(s) \in Seq(S) /\ Len(Tail(s)) = Len(s) - 1 /\ Len(s) \in Nat /\ Len(s) >= 1
  BY HeadTailProperties, LenProperties
<1>2. DOMAIN s = 1 .. Len(s) /\ DOMAIN Tail(s) = 1 .. Len(s) - 1
  BY <1>1, LenProperties
<1>3. \A i \in 1 .. Len(s) - 1 : Tail(s)[i] = s[i + 1]
  BY <1>1
<1>4. \A i \in DOMAIN Tail(s) :
        i \in Nat /\ i + 1 \in DOMAIN s /\ i + 1 # 1 /\ Tail(s)[i] = s[i + 1]
  BY <1>1, <1>2, <1>3
<1>5. ASSUME NEW i \in DOMAIN s, i # 1
      PROVE  i - 1 \in DOMAIN Tail(s) /\ Tail(s)[i - 1] = s[i]
  <2>1. i \in Nat /\ i - 1 \in 1 .. Len(s) - 1 /\ (i - 1) + 1 = i
    BY <1>1, <1>2, <1>5
  <2> QED
    BY <1>2, <1>3, <2>1
<1> QED
  BY <1>1, <1>2, <1>4, <1>5, HeadTailProperties

LEMMA AppendFacts ==
  ASSUME NEW S, NEW s \in Seq(S), NEW e \in S
  PROVE  /\ Append(s, e) \in Seq(S) /\ Len(Append(s, e)) = Len(s) + 1
         /\ DOMAIN Append(s, e) = DOMAIN s \cup {Len(s) + 1}
         /\ DOMAIN s = 1 .. Len(s) /\ Len(s) \in Nat
         /\ Len(s) + 1 \notin DOMAIN s
         /\ \A i \in DOMAIN s : Append(s, e)[i] = s[i]
         /\ Append(s, e)[Len(s) + 1] = e
<1>1. Len(s) \in Nat /\ DOMAIN s = 1 .. Len(s) /\ DOMAIN Append(s, e) = 1 .. Len(s) + 1
  BY AppendProperties, LenProperties
<1> QED
  BY <1>1, AppendProperties

(* The log grows with the inbox, and polling leaves it alone. *)
LEMMA LogTypes ==
  ASSUME TypeOK
  PROVE  /\ Log \in Seq(Entry) /\ taken \in Seq(Entry) /\ inbox \in Seq(Entry)
         /\ \A i \in DOMAIN Log : Log[i] \in Entry
         /\ DOMAIN Log = 1 .. Len(Log) /\ Len(Log) \in Nat
<1>1. taken \in Seq(Entry) /\ inbox \in Seq(Entry)
  BY DEF TypeOK, Entry
<1>2. Log \in Seq(Entry)
  BY <1>1, ConcatProperties DEF Log
<1>3. DOMAIN Log = 1 .. Len(Log) /\ Len(Log) \in Nat
  BY <1>2, LenProperties
<1> QED
  BY <1>1, <1>2, <1>3

LEMMA LogAppends ==
  ASSUME TypeOK, NEW e \in Entry, inbox' = Append(inbox, e), taken' = taken
  PROVE  Log' = Append(Log, e)
<1>1. taken \in Seq(Entry) /\ inbox \in Seq(Entry) /\ <<e>> \in Seq(Entry)
  BY LogTypes
<1>2. Append(inbox, e) = inbox \o <<e>> /\ Append(Log, e) = Log \o <<e>>
  BY <1>1, LogTypes, AppendIsConcat
<1>3. taken \o (inbox \o <<e>>) = (taken \o inbox) \o <<e>>
  BY <1>1, ConcatAssociative
<1> QED
  BY <1>2, <1>3 DEF Log

LEMMA LogPolled ==
  ASSUME TypeOK, Poll
  PROVE  Log' = Log /\ Log \in Seq(Entry)
<1>1. taken' = Log /\ inbox' = <<>> /\ Log \in Seq(Entry)
  BY LogTypes DEF Poll, Log
<1>2. Log \o <<>> = Log
  BY <1>1, ConcatEmptySeq
<1> QED
  BY <1>1, <1>2 DEF Log

(* What is relayed to whom. *)
LEMMA RelayFacts ==
  ASSUME TypeOK, NEW S, NEW n \in 1 .. MaxHanded, Relay(S, n)
  PROVE  /\ down' \in [Worker -> Seq(1 .. MaxHanded)]
         /\ \A w \in Worker : down'[w] = IF w \in S /\ conn[w] = "on"
                                         THEN Append(down[w], n) ELSE down[w]
         /\ lost' \subseteq (1 .. MaxHanded) \X Worker
         /\ \A m, w : <<m, w>> \in lost' <=>
              <<m, w>> \in lost \/ (m = n /\ w \in S \cap Worker /\ conn[w] = "dying")
<1>1. \A w \in Worker : down'[w] = IF w \in S /\ conn[w] = "on"
                                   THEN Append(down[w], n) ELSE down[w]
  BY DEF Relay
<1>2. \A w \in Worker : Append(down[w], n) \in Seq(1 .. MaxHanded) /\ down[w] \in Seq(1 .. MaxHanded)
  BY AppendFacts DEF TypeOK
<1>3. down' \in [Worker -> Seq(1 .. MaxHanded)]
  BY <1>2 DEF Relay
<1>4. lost' = lost \cup {<<n, w>> : w \in {v \in S \cap Worker : conn[v] = "dying"}}
  BY DEF Relay
<1>5. lost' \subseteq (1 .. MaxHanded) \X Worker
  BY <1>4 DEF TypeOK
<1> QED
  BY <1>1, <1>3, <1>4, <1>5
-----------------------------------------------------------------------------
(* Addressed, step by step *)

Grown == DOMAIN handed \subseteq DOMAIN handed' /\ \A n \in DOMAIN handed : handed'[n] = handed[n]

(* Whatever is found in a place was there before, or belongs there. *)
DownMoves ==
  \A w \in Worker : \A i \in DOMAIN down'[w] :
    \/ \E j \in DOMAIN down[w] : down'[w][i] = down[w][j]
    \/ down'[w][i] \in DOMAIN handed' /\ w \in handed'[down'[w][i]].to

RunningMoves ==
  \A w \in Worker : \A n \in running'[w] :
    n \in running[w] \/ (n \in DOMAIN handed' /\ w \in handed'[n].to)

UpMoves ==
  \A p \in WsPeer : \A i \in DOMAIN up'[p] :
    \/ \E j \in DOMAIN up[p] : up'[p][i] = up[p][j]
    \/ Proper(handed', p, up'[p][i])

LogMoves ==
  \A i \in DOMAIN Log' :
    \/ \E j \in DOMAIN Log : Log'[i] = Log[j]
    \/ Proper(handed', Log'[i].from, Log'[i].msg)

LostMoves == \A n, w : <<n, w>> \in lost' => <<n, w>> \in lost \/ n \in DOMAIN handed'

LEMMA AddressedStep ==
  ASSUME TypeOK, Addressed, Grown, DownMoves, RunningMoves, UpMoves, LogMoves, LostMoves
  PROVE  Addressed'
<1>1. \A p, f : Proper(handed, p, f) => Proper(handed', p, f)
  BY DEF Grown, Proper
<1>2. \A w \in Worker : \A i \in DOMAIN down'[w] :
        down'[w][i] \in DOMAIN handed' /\ w \in handed'[down'[w][i]].to
  BY DEF DownMoves, Addressed, Grown
<1>3. \A w \in Worker : \A n \in running'[w] : n \in DOMAIN handed' /\ w \in handed'[n].to
  BY DEF RunningMoves, Addressed, Grown
<1>4. \A p \in WsPeer : \A i \in DOMAIN up'[p] : Proper(handed', p, up'[p][i])
  BY <1>1 DEF UpMoves, Addressed
<1>5. \A i \in DOMAIN Log' : Proper(handed', Log'[i].from, Log'[i].msg)
  BY <1>1 DEF LogMoves, Addressed
<1>6. \A n, w : <<n, w>> \in lost' => n \in DOMAIN handed'
  BY DEF LostMoves, Addressed, Grown
<1> QED
  BY <1>2, <1>3, <1>4, <1>5, <1>6 DEF Addressed

LEMMA Unmoved ==
  /\ UNCHANGED handed => Grown
  /\ UNCHANGED down => DownMoves
  /\ UNCHANGED running => RunningMoves
  /\ UNCHANGED up => UpMoves
  /\ UNCHANGED Log => LogMoves
  /\ UNCHANGED lost => LostMoves
BY DEF Grown, DownMoves, RunningMoves, UpMoves, LogMoves, LostMoves

LEMMA LogUntouched == UNCHANGED <<inbox, taken>> => UNCHANGED Log
BY DEF Log

(* The key under which a task is kept is the id in its data, if there is   *)
(* one, and otherwise an id that nobody gives.                             *)
LEMMA KeyFacts ==
  ASSUME NEW id \in DataId, NEW prefix \in {"T", "BC"}, NEW key \in OrMadeUp(id, prefix)
  PROVE  /\ key \in TaskId
         /\ id \in GivenId => key = id
         /\ id \notin GivenId => key \notin GivenId
<1>1. NoId \notin GivenId
  BY TaskAssumption DEF TaskId
<1>2. CASE id = NoId
  <2>1. key \in MadeUp(prefix)
    BY <1>2 DEF OrMadeUp
  <2>2. key \in MadeUp("T") \cup MadeUp("BC")
    BY <2>1
  <2>3. key \in TaskId /\ key \notin GivenId
    BY <2>2, TaskAssumption DEF TaskId
  <2> QED
    BY <1>1, <1>2, <2>3
<1>3. CASE id # NoId
  BY <1>3 DEF OrMadeUp, DataId, TaskId
<1> QED
  BY <1>2, <1>3

(* A task is handed out. *)
LEMMA HandOutFacts ==
  ASSUME TypeOK, NEW id \in DataId, NEW by \in Peer, NEW to \in SUBSET Peer, HandOut(id, by, to)
  PROVE  /\ handed' \in Seq(Task) /\ handed \in Seq(Task)
         /\ Len(handed) \in Nat /\ Len(handed') = Len(handed) + 1 /\ Len(handed') <= MaxHanded
         /\ DOMAIN handed = 1 .. Len(handed)
         /\ DOMAIN handed' = DOMAIN handed \cup {Len(handed) + 1}
         /\ Len(handed) + 1 \notin DOMAIN handed
         /\ \A n \in DOMAIN handed : handed'[n] = handed[n]
         /\ handed'[Len(handed) + 1] = [id |-> id, by |-> by, to |-> to]
         /\ Len(handed) + 1 \in 1 .. MaxHanded
         /\ Grown
<1> DEFINE e == [id |-> id, by |-> by, to |-> to]
<1>1. e \in Task /\ handed \in Seq(Task)
  BY DEF Task, DataId, TypeOK
<1>2. handed' = Append(handed, e) /\ Len(handed) < MaxHanded
  BY DEF HandOut
<1> HIDE DEF e
<1>3. /\ Append(handed, e) \in Seq(Task) /\ Len(Append(handed, e)) = Len(handed) + 1
      /\ DOMAIN Append(handed, e) = DOMAIN handed \cup {Len(handed) + 1}
      /\ DOMAIN handed = 1 .. Len(handed) /\ Len(handed) \in Nat
      /\ Len(handed) + 1 \notin DOMAIN handed
      /\ \A i \in DOMAIN handed : Append(handed, e)[i] = handed[i]
      /\ Append(handed, e)[Len(handed) + 1] = e
  BY <1>1, AppendFacts
<1>4. Len(handed) + 1 <= MaxHanded /\ Len(handed) + 1 \in 1 .. MaxHanded
  BY <1>2, <1>3, PeerFacts
<1> QED
  BY <1>2, <1>3, <1>4 DEF e, Grown

(* The hub takes a command: it drops it, unless it is a result for the     *)
(* host, relays it to workers, or hands it to the host.                    *)
Dropped(f) == ~IsForHost(f) /\ UNCHANGED <<inbox, tasks, down, lost>>
Relayed(f) == f.kind = "task" /\ Relay(handed[f.n].to, f.n) /\ UNCHANGED <<inbox, tasks>>
Delivered(p, f) == OnInboundMessage(p, f) /\ UNCHANGED <<down, lost>>

LEMMA FrameFacts ==
  ASSUME TInv, NEW p \in WsPeer, up[p] # <<>>
  PROVE  /\ up[p] \in Seq(Frame) /\ up[p][1] \in Frame /\ Head(up[p]) = up[p][1]
         /\ 1 \in DOMAIN up[p] /\ Proper(handed, p, up[p][1])
<1>1. up[p] \in Seq(Frame)
  BY DEF TInv, TypeOK
<1>2. Head(up[p]) = up[p][1] /\ 1 \in DOMAIN up[p] /\ up[p][1] \in Frame
  BY <1>1, TailFacts
<1> QED
  BY <1>1, <1>2 DEF TInv, Addressed

LEMMA HandleCases ==
  ASSUME TInv, NEW p \in WsPeer, HandleCommand(p)
  PROVE  /\ up[p] # <<>>
         /\ up' = [up EXCEPT ![p] = Tail(up[p])]
         /\ UNCHANGED <<roomVars, conn, arrivals, running, named, handed, taken, reports>>
         /\ Dropped(up[p][1]) \/ Relayed(up[p][1]) \/ Delivered(p, up[p][1])
<1>1. /\ up[p] # <<>>
      /\ up' = [up EXCEPT ![p] = Tail(up[p])]
      /\ UNCHANGED <<roomVars, conn, arrivals, running, named, handed, taken, reports>>
      /\ IF IsResult(Head(up[p])) THEN RelayResult(p, Head(up[p])) ELSE RelayTask(p, Head(up[p]))
  BY DEF HandleCommand
<1> DEFINE f == up[p][1]
<1>2. f \in Frame /\ Head(up[p]) = f
  BY <1>1, FrameFacts
<1> HIDE DEF f
<1>3. CASE IsResult(f)
  <2>1. RelayResult(p, f)
    BY <1>1, <1>2, <1>3
  <2>2. Connected(handed[f.n].by) => handed[f.n].by # Host
    BY PeerFacts DEF Connected
  <2>3. \/ Connected(handed[f.n].by) /\ UNCHANGED <<inbox, tasks, down, lost>>
        \/ OnInboundMessage(p, f) /\ UNCHANGED <<down, lost>>
    BY <2>1 DEF RelayResult
  <2>4. Dropped(f) \/ Delivered(p, f)
    BY <2>2, <2>3 DEF Dropped, IsForHost, Delivered
  <2> QED
    BY <1>1, <2>4 DEF f
<1>4. CASE ~IsResult(f)
  <2>1. RelayTask(p, f) /\ f.kind = "task" /\ ~IsForHost(f)
    BY <1>1, <1>2, <1>4 DEF Frame, IsResult, IsForHost
  <2> DEFINE allowed == \E r \in peerToRooms[p] : principal[r] = p
             reached == \E q \in handed[f.n].to : Connected(q)
  <2>2. /\ IF allowed /\ reached THEN Relay(handed[f.n].to, f.n) ELSE UNCHANGED <<down, lost>>
        /\ IF allowed /\ ~reached THEN OnInboundMessage(p, f) ELSE UNCHANGED <<inbox, tasks>>
    BY <2>1 DEF RelayTask
  <2> HIDE DEF allowed, reached
  <2>3. Dropped(f) \/ Relayed(f) \/ Delivered(p, f)
    BY <2>1, <2>2 DEF Dropped, Relayed, Delivered
  <2> QED
    BY <1>1, <2>3 DEF f
<1> QED
  BY <1>3, <1>4
-----------------------------------------------------------------------------
(* TInv, action by action *)

LEMMA ArrivePreserves ==
  ASSUME TInv, NEW p \in WsPeer, NEW r \in Room, Arrive(p, r)
  PROVE  TInv'
<1>1. RP!IInv' /\ RM!TypeOK'
  BY JoinKeepsRooms, PeerFacts DEF TInv, Arrive
<1>2. /\ arrivals < MaxArrivals /\ arrivals' = arrivals + 1
      /\ conn' = [conn EXCEPT ![p] = "on"]
      /\ UNCHANGED <<down, up, running, named, handed, tasks, inbox, taken, reports, lost>>
  BY DEF Arrive, hostVars
<1>3. arrivals' \in 0 .. MaxArrivals
  BY <1>2, TaskAssumption DEF TInv, TypeOK
<1>4. conn' \in [WsPeer -> {"on", "dying", "off"}]
  BY <1>2 DEF TInv, TypeOK
<1>5. TypeOK'
  BY <1>1, <1>2, <1>3, <1>4 DEF TInv, TypeOK
<1>6. Addressed'
  BY <1>2, Unmoved, LogUntouched, AddressedStep DEF TInv
<1> QED
  BY <1>1, <1>2, <1>5, <1>6 DEF TInv

LEMMA McpCreateRoomPreserves ==
  ASSUME TInv, NEW r \in Room, McpCreateRoom(r)
  PROVE  TInv'
<1>1. RP!IInv' /\ RM!TypeOK'
  BY JoinKeepsRooms, PeerFacts DEF TInv, McpCreateRoom
<1>2. UNCHANGED <<conn, arrivals, down, up, running, named, handed, tasks, inbox, taken, reports, lost>>
  BY DEF McpCreateRoom, hostVars
<1>3. TypeOK'
  BY <1>1, <1>2 DEF TInv, TypeOK
<1>4. Addressed'
  BY <1>2, Unmoved, LogUntouched, AddressedStep DEF TInv
<1> QED
  BY <1>1, <1>2, <1>3, <1>4 DEF TInv

LEMMA PollPreserves ==
  ASSUME TInv, Poll
  PROVE  TInv'
<1>1. UNCHANGED <<roomVars, conn, arrivals, down, up, running, named, handed, tasks, reports, lost>>
  BY DEF Poll
<1>2. RP!IInv' /\ RM!TypeOK'
  BY <1>1, RoomsUntouched DEF TInv
<1>3. Log' = Log /\ taken' = Log /\ inbox' = <<>> /\ Log \in Seq(Entry)
  BY LogPolled DEF TInv, Poll, Log
<1>4. inbox' \in Seq(Entry) /\ taken' \in Seq(Entry)
  BY <1>3
<1>5. TypeOK'
  BY <1>1, <1>2, <1>4 DEF TInv, TypeOK, Entry
<1>6. Addressed'
  BY <1>1, <1>3, Unmoved, AddressedStep DEF TInv
<1> QED
  BY <1>1, <1>2, <1>5, <1>6 DEF TInv

(* What the handler does with a frame it is given. *)
LEMMA DeliveredFacts ==
  ASSUME TInv, NEW p \in WsPeer, NEW f \in Frame, Delivered(p, f), Proper(handed, p, f),
         UNCHANGED <<taken, handed>>
  PROVE  /\ inbox' \in Seq(Entry)
         /\ tasks' \in [TaskId -> [to : SUBSET Peer, status : Status]]
         /\ Log' = Append(Log, [from |-> p, msg |-> f])
         /\ LogMoves
<1> DEFINE e == [from |-> p, msg |-> f]
           id == named[p][f.n]
<1>1. e \in Entry /\ inbox \in Seq(Entry) /\ Log \in Seq(Entry)
  BY LogTypes DEF TInv, Entry
<1>2. /\ inbox' = Append(inbox, e)
      /\ tasks' = IF IsResult(f) /\ tasks[id].status # "none"
                  THEN [tasks EXCEPT ![id].status = StatusOnResult(f)] ELSE tasks
  BY DEF Delivered, OnInboundMessage
<1>3. e.from = p /\ e.msg = f
  OBVIOUS
<1> HIDE DEF e
<1>4. Log' = Append(Log, e) /\ inbox' \in Seq(Entry)
  BY <1>1, <1>2, LogAppends, AppendFacts DEF TInv
<1>5. tasks' \in [TaskId -> [to : SUBSET Peer, status : Status]]
  <2>1. StatusOnResult(f) \in Status
    BY DEF StatusOnResult, Status
  <2>2. tasks \in [TaskId -> [to : SUBSET Peer, status : Status]]
    BY DEF TInv, TypeOK, Status
  <2> HIDE DEF id
  <2> QED
    BY <1>2, <2>1, <2>2
<1>6. LogMoves
  BY <1>1, <1>3, <1>4, AppendFacts DEF LogMoves
<1> QED
  BY <1>4, <1>5, <1>6 DEF e

LEMMA HandleCommandPreserves ==
  ASSUME TInv, NEW p \in WsPeer, HandleCommand(p)
  PROVE  TInv'
<1> DEFINE f == up[p][1]
<1>1. /\ up[p] # <<>>
      /\ up' = [up EXCEPT ![p] = Tail(up[p])]
      /\ UNCHANGED <<roomVars, conn, arrivals, running, named, handed, taken, reports>>
      /\ Dropped(f) \/ Relayed(f) \/ Delivered(p, f)
  BY HandleCases
<1>2. f \in Frame /\ Proper(handed, p, f) /\ up[p] \in Seq(Frame) /\ f.n \in 1 .. MaxHanded
  BY <1>1, FrameFacts DEF Frame
<1> HIDE DEF f
<1>3. RP!IInv' /\ RM!TypeOK'
  BY <1>1, RoomsUntouched DEF TInv
<1>4. up' \in [WsPeer -> Seq(Frame)] /\ UpMoves
  <2>1. /\ Tail(up[p]) \in Seq(Frame)
        /\ \A i \in DOMAIN Tail(up[p]) : i + 1 \in DOMAIN up[p] /\ Tail(up[p])[i] = up[p][i + 1]
    BY <1>1, <1>2, TailFacts
  <2>2. up \in [WsPeer -> Seq(Frame)]
    BY DEF TInv, TypeOK
  <2>3. \A q \in WsPeer : up'[q] = IF q = p THEN Tail(up[p]) ELSE up[q]
    BY <1>1, <2>2
  <2> QED
    BY <1>1, <2>1, <2>2, <2>3 DEF UpMoves
<1>5. /\ inbox' \in Seq(Entry)
      /\ tasks' \in [TaskId -> [to : SUBSET Peer, status : Status]]
      /\ down' \in [Worker -> Seq(1 .. MaxHanded)]
      /\ lost' \subseteq (1 .. MaxHanded) \X Worker
      /\ LogMoves /\ DownMoves /\ LostMoves
  <2>0. /\ inbox \in Seq(Entry)
        /\ tasks \in [TaskId -> [to : SUBSET Peer, status : Status]]
        /\ down \in [Worker -> Seq(1 .. MaxHanded)]
        /\ lost \subseteq (1 .. MaxHanded) \X Worker
    BY DEF TInv, TypeOK, Entry, Status
  <2>1. CASE Dropped(f)
    BY <1>1, <2>0, <2>1, Unmoved, LogUntouched DEF Dropped
  <2>2. CASE Delivered(p, f)
    BY <1>1, <1>2, <2>0, <2>2, DeliveredFacts, Unmoved DEF Delivered
  <2>3. CASE Relayed(f)
    <3>1. /\ down' \in [Worker -> Seq(1 .. MaxHanded)]
          /\ \A w \in Worker : down'[w] = IF w \in handed[f.n].to /\ conn[w] = "on"
                                          THEN Append(down[w], f.n) ELSE down[w]
          /\ lost' \subseteq (1 .. MaxHanded) \X Worker
          /\ \A m, w : <<m, w>> \in lost' <=> <<m, w>> \in lost
                         \/ (m = f.n /\ w \in handed[f.n].to \cap Worker /\ conn[w] = "dying")
      BY <1>2, <2>3, RelayFacts DEF Relayed, TInv
    <3>2. f.n \in DOMAIN handed
      BY <1>2 DEF Proper
    <3>3. LostMoves
      BY <1>1, <3>1, <3>2 DEF LostMoves
    <3>4. DownMoves
      <4>1. ASSUME NEW w \in Worker, NEW i \in DOMAIN down'[w]
            PROVE  \/ \E j \in DOMAIN down[w] : down'[w][i] = down[w][j]
                   \/ down'[w][i] \in DOMAIN handed' /\ w \in handed'[down'[w][i]].to
        <5>1. CASE ~(w \in handed[f.n].to /\ conn[w] = "on")
          BY <3>1, <4>1, <5>1
        <5>2. CASE w \in handed[f.n].to /\ conn[w] = "on"
          <6>1. down'[w] = Append(down[w], f.n) /\ down[w] \in Seq(1 .. MaxHanded)
            BY <2>0, <3>1, <5>2
          <6>2. i \in DOMAIN down[w] \/ i = Len(down[w]) + 1
            BY <1>2, <4>1, <6>1, AppendFacts
          <6> QED
            BY <1>1, <1>2, <3>2, <5>2, <6>1, <6>2, AppendFacts
        <5> QED
          BY <5>1, <5>2
      <4> QED
        BY <4>1 DEF DownMoves
    <3>5. inbox' = inbox /\ tasks' = tasks
      BY <2>3 DEF Relayed
    <3> QED
      BY <1>1, <2>0, <3>1, <3>3, <3>4, <3>5, Unmoved, LogUntouched
  <2> QED
    BY <1>1, <2>1, <2>2, <2>3
<1>6. TypeOK'
  BY <1>1, <1>3, <1>4, <1>5 DEF TInv, TypeOK, Entry, Status
<1>7. Addressed'
  BY <1>1, <1>4, <1>5, Unmoved, AddressedStep DEF TInv
<1> QED
  BY <1>1, <1>3, <1>6, <1>7 DEF TInv
LEMMA ComingFacts ==
  ASSUME TInv, NEW p \in WsPeer
  PROVE  /\ Coming(p) \subseteq 1 .. Len(up[p]) /\ IsFiniteSet(Coming(p))
         /\ Cardinality(Coming(p)) \in Nat /\ Len(up[p]) \in Nat
         /\ DOMAIN up[p] = 1 .. Len(up[p])
<1>1. Len(up[p]) \in Nat /\ DOMAIN up[p] = 1 .. Len(up[p])
  <2>1. up[p] \in Seq(Frame)
    BY DEF TInv, TypeOK
  <2> QED
    BY <2>1, LenProperties
<1>2. Coming(p) \in SUBSET (1 .. Len(up[p]))
  BY <1>1 DEF Coming
<1>3. IsFiniteSet(1 .. Len(up[p]))
  BY <1>1, FS_Interval
<1>4. IsFiniteSet(Coming(p))
  BY <1>2, <1>3, FS_Subset
<1> QED
  BY <1>1, <1>2, <1>4, FS_CardinalityType

LEMMA SocketClosedPreserves ==
  ASSUME TInv, NEW p \in WsPeer, SocketClosed(p)
  PROVE  TInv'
<1>1. RP!IInv' /\ RM!TypeOK'
  BY LeaveKeepsRooms, PeerFacts DEF TInv, SocketClosed
<1>2. /\ conn' = [conn EXCEPT ![p] = "off"]
      /\ up' = [up EXCEPT ![p] = <<>>]
      /\ lost' = lost \cup {<<f.n, p>> : f \in {g \in Range(up[p]) : IsResult(g)}}
      /\ reports' = [w \in Worker |->
           IF w = p THEN SubSeq(reports[w], 1, Len(reports[w]) - Cardinality(Coming(p)))
                    ELSE reports[w]]
      /\ UNCHANGED <<arrivals, down, running, named, handed, tasks, inbox, taken>>
  BY DEF SocketClosed, hostVars
<1>3. /\ up \in [WsPeer -> Seq(Frame)] /\ conn \in [WsPeer -> {"on", "dying", "off"}]
      /\ reports \in [Worker -> Seq(Frame)] /\ lost \subseteq (1 .. MaxHanded) \X Worker
  BY DEF TInv, TypeOK
<1>4. conn' \in [WsPeer -> {"on", "dying", "off"}]
  BY <1>2, <1>3
<1>5. up' \in [WsPeer -> Seq(Frame)] /\ UpMoves
  <2>1. <<>> \in Seq(Frame) /\ DOMAIN <<>> = {}
    OBVIOUS
  <2>2. \A q \in WsPeer : up'[q] = IF q = p THEN <<>> ELSE up[q]
    BY <1>2, <1>3
  <2> QED
    BY <1>2, <1>3, <2>1, <2>2 DEF UpMoves
<1>6. ASSUME NEW f \in Range(up[p]), IsResult(f)
      PROVE  f.n \in DOMAIN handed /\ f.n \in 1 .. MaxHanded /\ p \in Worker
  <2>1. f \in Frame /\ Proper(handed, p, f)
    BY <1>3 DEF TInv, Addressed, Range
  <2> QED
    BY <1>6, <2>1 DEF Proper, Frame
<1>7. lost' \subseteq (1 .. MaxHanded) \X Worker /\ LostMoves
  BY <1>2, <1>3, <1>6 DEF LostMoves
<1>8. reports' \in [Worker -> Seq(Frame)]
  <2>1. ASSUME NEW w \in Worker, w = p
        PROVE  SubSeq(reports[w], 1, Len(reports[w]) - Cardinality(Coming(p))) \in Seq(Frame)
    <3> DEFINE s == reports[w]
               m == Len(s) - Cardinality(Coming(p))
    <3>1. s \in Seq(Frame) /\ Len(s) \in Nat /\ DOMAIN s = 1 .. Len(s)
      BY <1>3, LenProperties
    <3>2. m \in Int /\ m <= Len(s)
      BY <3>1, ComingFacts
    <3>3. \A i \in 1 .. m : s[i] \in Frame
      BY <3>1, <3>2
    <3> HIDE DEF m, s
    <3> QED
      BY <3>2, <3>3, SubSeqProperties DEF m, s
  <2> QED
    BY <1>2, <1>3, <2>1
<1>9. TypeOK'
  BY <1>1, <1>2, <1>4, <1>5, <1>7, <1>8 DEF TInv, TypeOK
<1>10. Addressed'
  BY <1>2, <1>5, <1>7, Unmoved, LogUntouched, AddressedStep DEF TInv
<1> QED
  BY <1>1, <1>2, <1>9, <1>10 DEF TInv

(* The host hands out a task and relays it in the same step. *)
LEMMA HandedToPreserves ==
  ASSUME TInv, NEW id \in DataId, NEW S \in SUBSET Peer, NEW to \in SUBSET Peer,
         to = {q \in S : Connected(q)},
         HandOut(id, Host, to), Relay(S, Len(handed) + 1),
         tasks' \in [TaskId -> [to : SUBSET Peer, status : Status]],
         UNCHANGED <<roomVars, conn, arrivals, up, running, named, inbox, taken, reports>>
  PROVE  TInv'
<1> DEFINE n == Len(handed) + 1
<1>1. RP!IInv' /\ RM!TypeOK'
  BY RoomsUntouched DEF TInv
<1>2. /\ handed' \in Seq(Task)
      /\ Len(handed) \in Nat /\ Len(handed') = Len(handed) + 1 /\ Len(handed') <= MaxHanded
      /\ DOMAIN handed' = DOMAIN handed \cup {n}
      /\ handed'[n].to = to
      /\ n \in 1 .. MaxHanded
      /\ Grown
  <2>1. TypeOK /\ Host \in Peer
    BY PeerFacts DEF TInv
  <2>2. /\ handed' \in Seq(Task)
        /\ Len(handed) \in Nat /\ Len(handed') = Len(handed) + 1 /\ Len(handed') <= MaxHanded
        /\ DOMAIN handed' = DOMAIN handed \cup {n}
        /\ handed'[n] = [id |-> id, by |-> Host, to |-> to]
        /\ n \in 1 .. MaxHanded
        /\ Grown
    BY <2>1, HandOutFacts
  <2>3. handed'[n].to = to
    BY <2>2
  <2> QED
    BY <2>2, <2>3
<1> HIDE DEF n
<1>3. Relay(S, n)
  BY DEF n
<1>4. /\ down' \in [Worker -> Seq(1 .. MaxHanded)]
      /\ \A w \in Worker : down'[w] = IF w \in S /\ conn[w] = "on" THEN Append(down[w], n)
                                                                  ELSE down[w]
      /\ lost' \subseteq (1 .. MaxHanded) \X Worker
      /\ \A m, w : <<m, w>> \in lost' <=>
           <<m, w>> \in lost \/ (m = n /\ w \in S \cap Worker /\ conn[w] = "dying")
  BY <1>2, <1>3, RelayFacts DEF TInv
<1>5. LostMoves
  BY <1>2, <1>4 DEF LostMoves
<1>6. DownMoves
  <2>1. ASSUME NEW w \in Worker, NEW i \in DOMAIN down'[w]
        PROVE  \/ \E j \in DOMAIN down[w] : down'[w][i] = down[w][j]
               \/ down'[w][i] \in DOMAIN handed' /\ w \in handed'[down'[w][i]].to
    <3>1. CASE ~(w \in S /\ conn[w] = "on")
      BY <1>4, <2>1, <3>1
    <3>2. CASE w \in S /\ conn[w] = "on"
      <4>1. w \in to
        BY <3>2, PeerFacts DEF Connected
      <4>2. down'[w] = Append(down[w], n) /\ down[w] \in Seq(1 .. MaxHanded)
        BY <1>4, <3>2 DEF TInv, TypeOK
      <4>3. i \in DOMAIN down[w] \/ i = Len(down[w]) + 1
        BY <1>2, <2>1, <4>2, AppendFacts
      <4> QED
        BY <1>2, <4>1, <4>2, <4>3, AppendFacts
    <3> QED
      BY <3>1, <3>2
  <2> QED
    BY <2>1 DEF DownMoves
<1>7. running' \in [Worker -> SUBSET (1 .. Len(handed'))]
  <2>1. 1 .. Len(handed) \subseteq 1 .. Len(handed')
    BY <1>2
  <2> QED
    BY <2>1 DEF TInv, TypeOK
<1>8. TypeOK'
  BY <1>1, <1>2, <1>4, <1>7 DEF TInv, TypeOK, Task, DataId, Status
<1>9. Addressed'
  BY <1>2, <1>5, <1>6, Unmoved, LogUntouched, AddressedStep DEF TInv
<1> QED
  BY <1>1, <1>2, <1>8, <1>9 DEF TInv

(* webrtc_send is a relay to one peer, webrtc_broadcast to the members. *)
LEMMA SendFacts ==
  ASSUME TInv, NEW p \in WsPeer, NEW id \in HostTask \cup {NoId}, Send(id, p)
  PROVE  /\ id \in DataId /\ {p} \in SUBSET Peer
         /\ HandOut(id, Host, {q \in {p} : Connected(q)}) /\ Relay({p}, Len(handed) + 1)
         /\ {q \in {p} : Connected(q)} \in SUBSET Peer
         /\ tasks' \in [TaskId -> [to : SUBSET Peer, status : Status]]
         /\ \E key \in OrMadeUp(id, "T") :
              /\ tasks'[key].to = {p} /\ tasks'[key].status \in {"sent", "failed"}
              /\ \A x \in TaskId \ {key} : tasks'[x] = tasks[x]
         /\ UNCHANGED <<roomVars, conn, arrivals, up, running, named, inbox, taken, reports>>
<1>1. id \in DataId /\ {p} \in SUBSET Peer /\ {q \in {p} : Connected(q)} \in SUBSET Peer
  BY PeerFacts DEF DataId, GivenId
<1>e. PICK e : e = [to |-> {p}, status |-> IF Connected(p) THEN "sent" ELSE "failed"]
  OBVIOUS
<1>2. e \in [to : SUBSET Peer, status : Status] /\ e.to = {p} /\ e.status \in {"sent", "failed"}
  BY <1>1, <1>e DEF Status
<1>3. PICK key \in OrMadeUp(id, "T") : tasks' = [tasks EXCEPT ![key] = e]
  BY <1>e DEF Send
<1>4. key \in TaskId
  BY <1>1, <1>3, KeyFacts
<1>5. tasks \in [TaskId -> [to : SUBSET Peer, status : Status]]
  BY DEF TInv, TypeOK, Status
<1>6. /\ tasks' \in [TaskId -> [to : SUBSET Peer, status : Status]]
      /\ tasks'[key] = e /\ \A x \in TaskId \ {key} : tasks'[x] = tasks[x]
  BY <1>2, <1>3, <1>4, <1>5
<1>7. /\ HandOut(id, Host, {q \in {p} : Connected(q)}) /\ Relay({p}, Len(handed) + 1)
      /\ UNCHANGED <<roomVars, conn, arrivals, up, running, named, inbox, taken, reports>>
  BY DEF Send
<1>8. \E x \in OrMadeUp(id, "T") :
        /\ tasks'[x].to = {p} /\ tasks'[x].status \in {"sent", "failed"}
        /\ \A y \in TaskId \ {x} : tasks'[y] = tasks[y]
  BY <1>2, <1>3, <1>6
<1> QED
  BY <1>1, <1>6, <1>7, <1>8

Targets(r, exclude) == RM!Members(r) \ exclude

LEMMA BroadcastFacts ==
  ASSUME TInv, NEW r \in Room, NEW id \in HostTask \cup {NoId}, NEW exclude, Broadcast(id, r, exclude)
  PROVE  LET S == Targets(r, exclude)
             to == {q \in S : Connected(q)}
         IN /\ id \in DataId /\ S \in SUBSET Peer /\ to \in SUBSET Peer
            /\ HandOut(id, Host, to) /\ Relay(S, Len(handed) + 1)
            /\ tasks' \in [TaskId -> [to : SUBSET Peer, status : Status]]
            /\ \E key \in OrMadeUp(id, "BC") :
                 /\ tasks'[key].to = S /\ tasks'[key].status \in {"sent", "partial"}
                 /\ \A x \in TaskId \ {key} : tasks'[x] = tasks[x]
            /\ UNCHANGED <<roomVars, conn, arrivals, up, running, named, inbox, taken, reports>>
<1> DEFINE S == Targets(r, exclude)
           to == {q \in S : Connected(q)}
           failed == {p \in S : ~Connected(p)}
           e == [to |-> S, status |-> IF failed = {} THEN "sent" ELSE "partial"]
<1>1. peers[r] \in Seq(Peer)
  BY DEF TInv, TypeOK, RM!TypeOK
<1>2. S \in SUBSET Peer
  BY <1>1 DEF Targets, RM!Members, RM!Range
<1>3. id \in DataId /\ to \in SUBSET Peer /\ S \ failed = to
  BY <1>2 DEF DataId, GivenId
<1>4. /\ HandOut(id, Host, S \ failed) /\ Relay(S, Len(handed) + 1)
      /\ \E key \in OrMadeUp(id, "BC") : tasks' = [tasks EXCEPT ![key] = e]
      /\ UNCHANGED <<roomVars, conn, arrivals, up, running, named, inbox, taken, reports>>
  BY DEF Broadcast, Targets
<1>5. e \in [to : SUBSET Peer, status : Status] /\ e.to = S /\ e.status \in {"sent", "partial"}
  BY <1>2 DEF Status
<1>6. tasks \in [TaskId -> [to : SUBSET Peer, status : Status]]
  BY DEF TInv, TypeOK, Status
<1> HIDE DEF S, to, failed, e
<1>k. PICK key \in OrMadeUp(id, "BC") : tasks' = [tasks EXCEPT ![key] = e]
  BY <1>4
<1>i. key \in TaskId
  BY <1>3, <1>k, KeyFacts
<1>7. /\ tasks' \in [TaskId -> [to : SUBSET Peer, status : Status]]
      /\ tasks'[key] = e /\ \A x \in TaskId \ {key} : tasks'[x] = tasks[x]
  BY <1>i, <1>k, <1>5, <1>6
<1>8. \E x \in OrMadeUp(id, "BC") :
        /\ tasks'[x].to = S /\ tasks'[x].status \in {"sent", "partial"}
        /\ \A y \in TaskId \ {x} : tasks'[y] = tasks[y]
  BY <1>k, <1>5, <1>7
<1> QED
  BY <1>2, <1>3, <1>4, <1>7, <1>8 DEF S, to

LEMMA SendPreserves ==
  ASSUME TInv, NEW p \in WsPeer, NEW id \in HostTask \cup {NoId}, Send(id, p)
  PROVE  TInv'
<1>1. PICK to : to = {q \in {p} : Connected(q)}
  OBVIOUS
<1>2. /\ id \in DataId /\ {p} \in SUBSET Peer /\ to \in SUBSET Peer
      /\ HandOut(id, Host, to) /\ Relay({p}, Len(handed) + 1)
      /\ tasks' \in [TaskId -> [to : SUBSET Peer, status : Status]]
      /\ UNCHANGED <<roomVars, conn, arrivals, up, running, named, inbox, taken, reports>>
  BY <1>1, SendFacts
<1> QED
  BY <1>1, <1>2, HandedToPreserves

LEMMA BroadcastPreserves ==
  ASSUME TInv, NEW r \in Room, NEW id \in HostTask \cup {NoId}, NEW exclude, Broadcast(id, r, exclude)
  PROVE  TInv'
<1>1. PICK S : S = Targets(r, exclude)
  OBVIOUS
<1>2. PICK to : to = {q \in S : Connected(q)}
  OBVIOUS
<1>3. /\ id \in DataId /\ S \in SUBSET Peer /\ to \in SUBSET Peer
      /\ HandOut(id, Host, to) /\ Relay(S, Len(handed) + 1)
      /\ tasks' \in [TaskId -> [to : SUBSET Peer, status : Status]]
      /\ UNCHANGED <<roomVars, conn, arrivals, up, running, named, inbox, taken, reports>>
  BY <1>1, <1>2, BroadcastFacts
<1> QED
  BY <1>2, <1>3, HandedToPreserves

LEMMA LeadAssignsPreserves ==
  ASSUME TInv, NEW l \in Lead, NEW id \in LeadTask \cup {NoId}, NEW w \in Worker, LeadAssigns(l, id, w)
  PROVE  TInv'
<1> DEFINE n == Len(handed) + 1
           f == [kind |-> "task", n |-> n]
<1>1. /\ HandOut(id, l, {w})
      /\ up' = [up EXCEPT ![l] = Append(up[l], f)]
      /\ UNCHANGED <<roomVars, conn, arrivals, down, running, named, tasks, inbox, taken, reports, lost>>
  BY DEF LeadAssigns, hostVars
<1>2. id \in DataId /\ l \in Peer /\ {w} \in SUBSET Peer /\ l \in WsPeer
  BY PeerFacts DEF DataId, GivenId
<1>3. /\ handed' \in Seq(Task)
      /\ Len(handed) \in Nat /\ Len(handed') = Len(handed) + 1 /\ Len(handed') <= MaxHanded
      /\ DOMAIN handed' = DOMAIN handed \cup {n}
      /\ handed'[n] = [id |-> id, by |-> l, to |-> {w}]
      /\ n \in 1 .. MaxHanded
      /\ Grown
  BY <1>1, <1>2, HandOutFacts DEF TInv
<1>4. f \in Frame /\ Proper(handed', l, f)
  BY <1>3 DEF Frame, Proper, IsResult
<1>5. RP!IInv' /\ RM!TypeOK'
  BY <1>1, RoomsUntouched DEF TInv
<1>6. up \in [WsPeer -> Seq(Frame)]
  BY DEF TInv, TypeOK
<1> HIDE DEF f
<1>7. up' \in [WsPeer -> Seq(Frame)] /\ UpMoves
  <2>1. /\ Append(up[l], f) \in Seq(Frame)
        /\ DOMAIN Append(up[l], f) = DOMAIN up[l] \cup {Len(up[l]) + 1}
        /\ \A i \in DOMAIN up[l] : Append(up[l], f)[i] = up[l][i]
        /\ Append(up[l], f)[Len(up[l]) + 1] = f
    BY <1>2, <1>4, <1>6, AppendFacts
  <2>2. \A q \in WsPeer : up'[q] = IF q = l THEN Append(up[l], f) ELSE up[q]
    BY <1>1, <1>2, <1>6
  <2>3. up' \in [WsPeer -> Seq(Frame)]
    BY <1>1, <1>6, <2>1
  <2> QED
    BY <1>4, <2>1, <2>2, <2>3 DEF UpMoves
<1>8. running' \in [Worker -> SUBSET (1 .. Len(handed'))]
  <2>1. 1 .. Len(handed) \subseteq 1 .. Len(handed')
    BY <1>3
  <2> QED
    BY <1>1, <2>1 DEF TInv, TypeOK
<1>9. TypeOK'
  BY <1>1, <1>3, <1>5, <1>7, <1>8 DEF TInv, TypeOK, Task, DataId
<1>10. Addressed'
  BY <1>1, <1>3, <1>7, Unmoved, LogUntouched, AddressedStep DEF TInv
<1> QED
  BY <1>3, <1>5, <1>9, <1>10 DEF TInv
LEMMA RunTaskPreserves ==
  ASSUME TInv, NEW w \in Worker, RunTask(w)
  PROVE  TInv'
<1>1. /\ down[w] # <<>>
      /\ down' = [down EXCEPT ![w] = Tail(down[w])]
      /\ running' = [running EXCEPT ![w] = running[w] \cup {Head(down[w])}]
      /\ \E id \in OrMadeUp(handed[Head(down[w])].id, "T") :
           named' = [named EXCEPT ![w][Head(down[w])] = id]
      /\ UNCHANGED <<roomVars, conn, arrivals, up, handed, tasks, inbox, taken, reports, lost>>
  BY DEF RunTask, hostVars
<1>2. down \in [Worker -> Seq(1 .. MaxHanded)] /\ running \in [Worker -> SUBSET (1 .. Len(handed))]
  BY DEF TInv, TypeOK
<1>3. /\ Head(down[w]) = down[w][1] /\ 1 \in DOMAIN down[w] /\ Tail(down[w]) \in Seq(1 .. MaxHanded)
      /\ \A i \in DOMAIN Tail(down[w]) : i + 1 \in DOMAIN down[w] /\ Tail(down[w])[i] = down[w][i + 1]
  BY <1>1, <1>2, TailFacts
<1>4. Head(down[w]) \in DOMAIN handed /\ w \in handed[Head(down[w])].to
  BY <1>3 DEF TInv, Addressed
<1>5. RP!IInv' /\ RM!TypeOK'
  BY <1>1, RoomsUntouched DEF TInv
<1>6. down' \in [Worker -> Seq(1 .. MaxHanded)] /\ DownMoves
  <2>1. \A v \in Worker : down'[v] = IF v = w THEN Tail(down[w]) ELSE down[v]
    BY <1>1, <1>2
  <2> QED
    BY <1>1, <1>2, <1>3, <2>1 DEF DownMoves
<1>7. running' \in [Worker -> SUBSET (1 .. Len(handed))] /\ RunningMoves
  <2>1. Head(down[w]) \in 1 .. Len(handed)
    <3>1. handed \in Seq(Task)
      BY DEF TInv, TypeOK, Task, DataId
    <3> QED
      BY <1>4, <3>1, LenProperties
  <2>2. \A v \in Worker : running'[v] = IF v = w THEN running[w] \cup {Head(down[w])} ELSE running[v]
    BY <1>1, <1>2
  <2> QED
    BY <1>1, <1>2, <1>4, <2>1, <2>2 DEF RunningMoves
<1>n. named' \in [Worker -> [1 .. MaxHanded -> TaskId \cup {NoId}]]
  <2>h. PICK h : h = Head(down[w])
    OBVIOUS
  <2>1. handed[h].id \in DataId
    <3>1. handed \in Seq(Task) /\ h \in DOMAIN handed
      BY <1>4, <2>h DEF TInv, TypeOK, Task, DataId
    <3>2. handed[h] \in Task
      BY <3>1
    <3> QED
      BY <3>2 DEF Task
  <2>2. PICK id \in OrMadeUp(handed[h].id, "T") : named' = [named EXCEPT ![w][h] = id]
    BY <1>1, <2>h
  <2>3. id \in TaskId
    BY <2>1, <2>2, KeyFacts
  <2>4. named \in [Worker -> [1 .. MaxHanded -> TaskId \cup {NoId}]]
    BY DEF TInv, TypeOK
  <2>5. [named[w] EXCEPT ![h] = id] \in [1 .. MaxHanded -> TaskId \cup {NoId}]
    BY <2>3, <2>4
  <2>6. named' = [named EXCEPT ![w] = [named[w] EXCEPT ![h] = id]]
    BY <2>2
  <2> QED
    BY <2>4, <2>5, <2>6
<1>8. TypeOK'
  BY <1>1, <1>5, <1>6, <1>7, <1>n DEF TInv, TypeOK
<1>9. Addressed'
  BY <1>1, <1>6, <1>7, Unmoved, LogUntouched, AddressedStep DEF TInv
<1> QED
  BY <1>1, <1>5, <1>8, <1>9 DEF TInv

(* The results a worker reports are at the end of its frames, and of its   *)
(* reports if the host assigned the task.                                  *)
Reported(w, n, k, F) ==
  /\ F # <<>> /\ \A i \in DOMAIN F : F[i] = [kind |-> k, n |-> n]
  /\ up' = [up EXCEPT ![w] = up[w] \o F]
  /\ reports' = [reports EXCEPT ![w] = IF handed[n].by = Host THEN reports[w] \o F ELSE reports[w]]

LEMMA JobEndsFacts ==
  ASSUME TInv, NEW w \in Worker, NEW n \in 1 .. Len(handed), JobEnds(w, n)
  PROVE  /\ n \in running[w] /\ n \in DOMAIN handed /\ w \in handed[n].to
         /\ running' = [running EXCEPT ![w] = running[w] \ {n}]
         /\ UNCHANGED <<roomVars, conn, arrivals, down, named, handed, tasks, inbox, taken, lost>>
         /\ \E k \in {"done", "failed"}, F \in Seq(Frame) : Reported(w, n, k, F)
<1>1. /\ n \in running[w]
      /\ running' = [running EXCEPT ![w] = running[w] \ {n}]
      /\ UNCHANGED <<roomVars, conn, arrivals, down, named, handed, tasks, inbox, taken, lost>>
  BY DEF JobEnds, hostVars
<1>2. n \in DOMAIN handed /\ w \in handed[n].to /\ n \in 1 .. MaxHanded
  <2>1. n \in DOMAIN handed /\ w \in handed[n].to
    BY <1>1 DEF TInv, Addressed
  <2>2. handed \in Seq(Task) /\ Len(handed) <= MaxHanded
    BY DEF TInv, TypeOK, Task, DataId
  <2>3. Len(handed) \in Nat /\ MaxHanded \in Nat
    BY <2>2, LenProperties, PeerFacts
  <2> QED
    BY <2>1, <2>2, <2>3
<1>3. PICK kinds \in {<<"done">>, <<"failed">>, <<"failed", "failed">>} : Report(w, n, kinds)
  BY DEF JobEnds
<1> DEFINE F == [i \in DOMAIN kinds |-> [kind |-> kinds[i], n |-> n]]
<1>4. PICK k \in {"done", "failed"} : \A i \in DOMAIN kinds : kinds[i] = k
  OBVIOUS
<1>5. DOMAIN kinds = 1 .. Len(kinds) /\ Len(kinds) \in Nat /\ 1 \in DOMAIN kinds
  OBVIOUS
<1>6. [kind |-> k, n |-> n] \in Frame
  BY <1>2 DEF Frame
<1>7. \A i \in DOMAIN F : F[i] = [kind |-> k, n |-> n]
  BY <1>4
<1>8. F \in Seq(Frame) /\ F # <<>>
  <2>1. F \in [1 .. Len(kinds) -> Frame]
    BY <1>4, <1>5, <1>6
  <2>2. 1 \in DOMAIN F
    BY <1>5
  <2> QED
    BY <1>5, <2>1, <2>2
<1>9. /\ up' = [up EXCEPT ![w] = up[w] \o F]
      /\ reports' = [reports EXCEPT ![w] = IF handed[n].by = Host THEN reports[w] \o F
                                                                ELSE reports[w]]
  BY <1>3 DEF Report
<1> HIDE DEF F
<1>10. Reported(w, n, k, F)
  BY <1>7, <1>8, <1>9 DEF Reported
<1> QED
  BY <1>1, <1>2, <1>8, <1>10

LEMMA ConcatFacts ==
  ASSUME NEW S, NEW s \in Seq(S), NEW t \in Seq(S)
  PROVE  /\ s \o t \in Seq(S) /\ Len(s) \in Nat /\ Len(t) \in Nat
         /\ Len(s \o t) = Len(s) + Len(t)
         /\ DOMAIN s = 1 .. Len(s) /\ DOMAIN t = 1 .. Len(t)
         /\ DOMAIN (s \o t) = 1 .. Len(s) + Len(t)
         /\ \A i \in DOMAIN s : i \in DOMAIN (s \o t) /\ (s \o t)[i] = s[i]
         /\ \A j \in DOMAIN t : Len(s) + j \in DOMAIN (s \o t) /\ (s \o t)[Len(s) + j] = t[j]
         /\ \A i \in DOMAIN (s \o t) : i \in DOMAIN s \/ i - Len(s) \in DOMAIN t
<1>1. /\ s \o t \in Seq(S) /\ Len(s) \in Nat /\ Len(t) \in Nat
      /\ Len(s \o t) = Len(s) + Len(t)
      /\ DOMAIN s = 1 .. Len(s) /\ DOMAIN t = 1 .. Len(t)
  BY ConcatProperties, LenProperties
<1>2. \A i \in 1 .. Len(s) + Len(t) :
        (s \o t)[i] = IF i <= Len(s) THEN s[i] ELSE t[i - Len(s)]
  BY <1>1, ConcatProperties
<1>3. DOMAIN (s \o t) = 1 .. Len(s) + Len(t)
  BY <1>1, LenProperties
<1>4. \A i \in DOMAIN s : i \in DOMAIN (s \o t) /\ (s \o t)[i] = s[i]
  BY <1>1, <1>2, <1>3
<1>5. ASSUME NEW j \in DOMAIN t
      PROVE  Len(s) + j \in DOMAIN (s \o t) /\ (s \o t)[Len(s) + j] = t[j]
  <2>1. Len(s) + j \in 1 .. Len(s) + Len(t) /\ ~(Len(s) + j <= Len(s)) /\ (Len(s) + j) - Len(s) = j
    BY <1>1
  <2> QED
    BY <1>2, <1>3, <2>1
<1>6. \A i \in DOMAIN (s \o t) : i \in DOMAIN s \/ i - Len(s) \in DOMAIN t
  BY <1>1, <1>3
<1> QED
  BY <1>1, <1>3, <1>4, <1>5, <1>6

LEMMA JobEndsPreserves ==
  ASSUME TInv, NEW w \in Worker, NEW n \in 1 .. Len(handed), JobEnds(w, n)
  PROVE  TInv'
<1>1. /\ n \in running[w] /\ n \in DOMAIN handed /\ w \in handed[n].to
      /\ running' = [running EXCEPT ![w] = running[w] \ {n}]
      /\ UNCHANGED <<roomVars, conn, arrivals, down, named, handed, tasks, inbox, taken, lost>>
  BY JobEndsFacts
<1>2. PICK k \in {"done", "failed"}, F \in Seq(Frame) : Reported(w, n, k, F)
  BY JobEndsFacts
<1> USE DEF Reported
<1>3. /\ up \in [WsPeer -> Seq(Frame)] /\ reports \in [Worker -> Seq(Frame)]
      /\ running \in [Worker -> SUBSET (1 .. Len(handed))] /\ w \in WsPeer
  BY PeerFacts DEF TInv, TypeOK
<1>4. RP!IInv' /\ RM!TypeOK'
  BY <1>1, RoomsUntouched DEF TInv
<1>5. up' \in [WsPeer -> Seq(Frame)] /\ UpMoves
  <2>1. /\ up[w] \o F \in Seq(Frame)
        /\ \A i \in DOMAIN (up[w] \o F) :
             \/ i \in DOMAIN up[w] /\ (up[w] \o F)[i] = up[w][i]
             \/ (up[w] \o F)[i] = [kind |-> k, n |-> n]
    <3>1. up[w] \in Seq(Frame)
      BY <1>3
    <3>2. \A i \in DOMAIN (up[w] \o F) : i - Len(up[w]) \in DOMAIN F =>
            (up[w] \o F)[i] = [kind |-> k, n |-> n]
      <4>1. ASSUME NEW i \in DOMAIN (up[w] \o F), i - Len(up[w]) \in DOMAIN F
            PROVE  (up[w] \o F)[i] = [kind |-> k, n |-> n]
        <5>1. i = Len(up[w]) + (i - Len(up[w]))
          BY <3>1, ConcatFacts
        <5> QED
          BY <1>2, <3>1, <4>1, <5>1, ConcatFacts
      <4> QED
        BY <4>1
    <3> QED
      BY <3>1, <3>2, ConcatFacts
  <2>2. Proper(handed', w, [kind |-> k, n |-> n])
    BY <1>1 DEF Proper, IsResult
  <2>3. \A p \in WsPeer : up'[p] = IF p = w THEN up[w] \o F ELSE up[p]
    BY <1>2, <1>3
  <2>4. up' \in [WsPeer -> Seq(Frame)]
    BY <1>2, <1>3, <2>1
  <2> QED
    BY <2>1, <2>2, <2>3, <2>4 DEF UpMoves
<1>6. reports' \in [Worker -> Seq(Frame)]
  <2>1. reports[w] \o F \in Seq(Frame)
    BY <1>3, ConcatFacts
  <2> QED
    BY <1>2, <1>3, <2>1
<1>7. running' \in [Worker -> SUBSET (1 .. Len(handed))] /\ RunningMoves
  <2>1. \A v \in Worker : running'[v] \subseteq running[v]
    BY <1>1, <1>3
  <2> QED
    BY <1>1, <1>3, <2>1 DEF RunningMoves
<1>8. TypeOK'
  BY <1>1, <1>4, <1>5, <1>6, <1>7 DEF TInv, TypeOK
<1>9. Addressed'
  BY <1>1, <1>5, <1>7, Unmoved, LogUntouched, AddressedStep DEF TInv
<1> QED
  BY <1>1, <1>4, <1>8, <1>9 DEF TInv

LEMMA GonePreserves ==
  ASSUME TInv, NEW p \in WsPeer, Gone(p)
  PROVE  TInv'
<1>1. /\ conn' = [conn EXCEPT ![p] = "dying"]
      /\ down' = [w \in Worker |-> IF w = p THEN <<>> ELSE down[w]]
      /\ running' = [w \in Worker |-> IF w = p THEN {} ELSE running[w]]
      /\ lost' = lost \cup
           IF p \in Worker THEN {<<n, p>> : n \in running[p] \cup Range(down[p])} ELSE {}
      /\ UNCHANGED <<roomVars, arrivals, up, named, handed, tasks, inbox, taken, reports>>
  BY DEF Gone, hostVars
<1>2. /\ conn \in [WsPeer -> {"on", "dying", "off"}]
      /\ down \in [Worker -> Seq(1 .. MaxHanded)]
      /\ running \in [Worker -> SUBSET (1 .. Len(handed))]
      /\ lost \subseteq (1 .. MaxHanded) \X Worker
      /\ DOMAIN handed = 1 .. Len(handed) /\ Len(handed) \in Nat /\ Len(handed) <= MaxHanded
  <2>1. handed \in Seq(Task)
    BY DEF TInv, TypeOK, Task, DataId
  <2> QED
    BY <2>1, LenProperties DEF TInv, TypeOK
<1>3. RP!IInv' /\ RM!TypeOK'
  BY <1>1, RoomsUntouched DEF TInv
<1>4. conn' \in [WsPeer -> {"on", "dying", "off"}]
  BY <1>1, <1>2
<1>5. down' \in [Worker -> Seq(1 .. MaxHanded)] /\ DownMoves
  <2>1. <<>> \in Seq(1 .. MaxHanded) /\ DOMAIN <<>> = {}
    OBVIOUS
  <2> QED
    BY <1>1, <1>2, <2>1 DEF DownMoves
<1>6. running' \in [Worker -> SUBSET (1 .. Len(handed))] /\ RunningMoves
  BY <1>1, <1>2 DEF RunningMoves
<1>7. lost' \subseteq (1 .. MaxHanded) \X Worker /\ LostMoves
  <2>1. ASSUME p \in Worker, NEW n \in running[p] \cup Range(down[p])
        PROVE  n \in DOMAIN handed /\ n \in 1 .. MaxHanded
    <3>1. n \in DOMAIN handed
      BY <2>1 DEF TInv, Addressed, Range
    <3> QED
      BY <1>2, <3>1, PeerFacts
  <2> QED
    BY <1>1, <1>2, <2>1 DEF LostMoves
<1>8. TypeOK'
  BY <1>1, <1>3, <1>4, <1>5, <1>6, <1>7 DEF TInv, TypeOK
<1>9. Addressed'
  BY <1>1, <1>5, <1>6, <1>7, Unmoved, LogUntouched, AddressedStep DEF TInv
<1> QED
  BY <1>1, <1>3, <1>8, <1>9 DEF TInv

LEMMA InitEstablishes == Init => TInv
<1> SUFFICES ASSUME Init
             PROVE  TInv
  OBVIOUS
<1>1. RP!IInv
  BY SameCardinality, TaskAssumption, RP!InitEstablishes DEF Init, RM!Init, RP!Init
<1>2. RM!TypeOK
  BY <1>1, SameTypes DEF RP!IInv
<1>3. DOMAIN <<>> = {} /\ Len(<<>>) = 0 /\ <<>> \o <<>> = <<>>
  OBVIOUS
<1>4. \A S : <<>> \in Seq(S)
  OBVIOUS
<1>5. TypeOK
  BY <1>2, <1>4, TaskAssumption DEF Init, TypeOK
<1>6. Addressed
  BY <1>3 DEF Init, Addressed, Log
<1> QED
  BY <1>1, <1>3, <1>5, <1>6, PeerFacts DEF Init, TInv

LEMMA StutterPreserves ==
  ASSUME TInv, UNCHANGED vars
  PROVE  TInv'
<1>1. UNCHANGED <<roomVars, conn, arrivals, down, up, running, named, handed, tasks, inbox, taken,
                  reports, lost>>
  BY DEF vars, hostVars
<1>2. RP!IInv' /\ RM!TypeOK'
  BY <1>1, RoomsUntouched DEF TInv
<1>3. TypeOK'
  BY <1>1, <1>2 DEF TInv, TypeOK
<1>4. Addressed'
  BY <1>1, Unmoved, LogUntouched, AddressedStep DEF TInv
<1> QED
  BY <1>1, <1>2, <1>3, <1>4 DEF TInv

LEMMA StepPreserves == TInv /\ [Next]_vars => TInv'
<1> SUFFICES ASSUME TInv, [Next]_vars
             PROVE  TInv'
  OBVIOUS
<1>1. CASE UNCHANGED vars
  BY <1>1, StutterPreserves
<1>2. ASSUME NEW p \in WsPeer, NEW r \in Room, Arrive(p, r)
      PROVE  TInv'
  BY <1>2, ArrivePreserves
<1>3. ASSUME NEW p \in WsPeer, HandleCommand(p)
      PROVE  TInv'
  BY <1>3, HandleCommandPreserves
<1>4. ASSUME NEW p \in WsPeer, SocketClosed(p)
      PROVE  TInv'
  BY <1>4, SocketClosedPreserves
<1>5. ASSUME NEW p \in WsPeer, Gone(p)
      PROVE  TInv'
  BY <1>5, GonePreserves
<1>6. ASSUME NEW p \in WsPeer, NEW id \in HostTask \cup {NoId}, Send(id, p)
      PROVE  TInv'
  BY <1>6, SendPreserves
<1>7. ASSUME NEW r \in Room, McpCreateRoom(r)
      PROVE  TInv'
  BY <1>7, McpCreateRoomPreserves
<1>8. ASSUME NEW r \in Room, NEW id \in HostTask \cup {NoId}, NEW exclude \in {{}, {Host}},
             Broadcast(id, r, exclude)
      PROVE  TInv'
  BY <1>8, BroadcastPreserves
<1>9. CASE Poll
  BY <1>9, PollPreserves
<1>10. ASSUME NEW w \in Worker, RunTask(w)
       PROVE  TInv'
  BY <1>10, RunTaskPreserves
<1>11. ASSUME NEW w \in Worker, NEW n \in 1 .. Len(handed), JobEnds(w, n)
       PROVE  TInv'
  BY <1>11, JobEndsPreserves
<1>12. ASSUME NEW w \in Worker, NEW l \in Lead, NEW id \in LeadTask \cup {NoId}, LeadAssigns(l, id, w)
       PROVE  TInv'
  BY <1>12, LeadAssignsPreserves
<1> QED
  BY <1>1, <1>2, <1>3, <1>4, <1>5, <1>6, <1>7, <1>8, <1>9, <1>10, <1>11, <1>12 DEF Next

(* Types, rooms and addresses hold together: the inductive invariant. *)
THEOREM InvariantHolds == Spec => []TInv
<1> QED
  BY InitEstablishes, StepPreserves, PTL DEF Spec

(* Rooms, queues, entries and logs keep their types. *)
THEOREM TypeCorrect == Spec => []TypeOK
<1>1. TInv => TypeOK
  BY DEF TInv
<1> QED
  BY <1>1, InvariantHolds, PTL
-----------------------------------------------------------------------------
(* Every task of the host is in one place *)

Waiting(n, w) == n \in Range(down[w])
Running(n, w) == n \in running[w]
Answer(n, w) == OnItsWayBack(n, w) \/ Answered(n, w)
Lost(n, w) == <<n, w>> \in lost

InPlace(n, w) ==
  /\ Waiting(n, w) \/ Running(n, w) \/ Answer(n, w) \/ Lost(n, w)
  /\ ~(Waiting(n, w) /\ Running(n, w))
  /\ Answer(n, w) \/ Lost(n, w) => ~Waiting(n, w) /\ ~Running(n, w)

AllInPlace ==
  \A n \in DOMAIN handed : \A w \in handed[n].to \cap Worker :
    handed[n].by = Host => InPlace(n, w)

(* A task of the host is at most once in the queue of a worker. *)
OnceDown ==
  \A w \in Worker : \A i, j \in DOMAIN down[w] :
    down[w][i] = down[w][j] /\ handed[down[w][i]].by = Host => i = j

PInv == OnceDown /\ AllInPlace

LEMMA OneOfFour ==
  ASSUME NEW a \in BOOLEAN, NEW b \in BOOLEAN, NEW c \in BOOLEAN, NEW d \in BOOLEAN
  PROVE  (\E i \in 1 .. 4 : \A j \in 1 .. 4 : <<a, b, c, d /\ ~c>>[j] <=> j = i) <=>
         /\ a \/ b \/ c \/ d
         /\ ~(a /\ b)
         /\ c \/ d => ~a /\ ~b
OBVIOUS

LEMMA Forgotten == NoTaskForgotten <=> AllInPlace
<1>1. \A n, w : /\ Waiting(n, w) \in BOOLEAN /\ Running(n, w) \in BOOLEAN
                /\ Answer(n, w) \in BOOLEAN /\ Lost(n, w) \in BOOLEAN
  BY DEF Waiting, Running, Answer, Lost, OnItsWayBack, Answered
<1>2. \A n, w : InPlace(n, w) <=>
        \E i \in 1 .. 4 : \A j \in 1 .. 4 :
          <<Waiting(n, w), Running(n, w), Answer(n, w), Lost(n, w) /\ ~Answer(n, w)>>[j] <=> j = i
  BY <1>1, OneOfFour DEF InPlace
<1> QED
  BY <1>2 DEF NoTaskForgotten, AllInPlace, Waiting, Running, Answer, Lost

SamePlace(n, w) ==
  /\ Waiting(n, w)' <=> Waiting(n, w)
  /\ Running(n, w)' <=> Running(n, w)
  /\ Answer(n, w)' <=> Answer(n, w)
  /\ Lost(n, w)' <=> Lost(n, w)

LEMMA PlacesUntouched ==
  ASSUME NEW n, NEW w
  PROVE  /\ UNCHANGED down => (Waiting(n, w)' <=> Waiting(n, w))
         /\ UNCHANGED running => (Running(n, w)' <=> Running(n, w))
         /\ UNCHANGED lost => (Lost(n, w)' <=> Lost(n, w))
         /\ UNCHANGED <<up, Log>> => (Answer(n, w)' <=> Answer(n, w))
         /\ UNCHANGED Log => (Answered(n, w)' <=> Answered(n, w))
BY DEF Waiting, Running, Lost, Answer, OnItsWayBack, Answered

LEMMA PlacesKept ==
  ASSUME PInv, UNCHANGED <<handed, down>>,
         \A n \in DOMAIN handed : \A w \in handed[n].to \cap Worker :
           handed[n].by = Host => (InPlace(n, w) => InPlace(n, w)')
  PROVE  PInv'
<1>1. AllInPlace'
  BY DEF PInv, AllInPlace
<1>2. OnceDown'
  BY DEF PInv, OnceDown
<1> QED
  BY <1>1, <1>2 DEF PInv

LEMMA NothingMoves ==
  ASSUME PInv, UNCHANGED <<handed, down, running, up, Log, lost>>
  PROVE  PInv'
<1>1. \A n, w : SamePlace(n, w)
  BY PlacesUntouched DEF SamePlace
<1> QED
  BY <1>1, PlacesKept DEF SamePlace, InPlace

(* A number is in no place before the task is handed out. *)
LEMMA NewInNoPlace ==
  ASSUME TInv, NEW n, n \notin DOMAIN handed, NEW w \in Worker
  PROVE  ~Waiting(n, w) /\ ~Running(n, w) /\ ~Answer(n, w) /\ ~Lost(n, w)
<1>1. ~Waiting(n, w) /\ ~Running(n, w) /\ ~Lost(n, w)
  BY DEF TInv, Addressed, Waiting, Running, Lost, Range
<1>2. ~OnItsWayBack(n, w)
  BY PeerFacts DEF TInv, Addressed, OnItsWayBack, Proper, Range
<1>3. ~Answered(n, w)
  BY DEF TInv, Addressed, Answered, Proper, Range
<1> QED
  BY <1>1, <1>2, <1>3 DEF Answer

(* A frame moves from the connection into the log, or is not a result for  *)
(* the host.                                                               *)
LEMMA FrameMoves ==
  ASSUME TInv, NEW p \in WsPeer, HandleCommand(p),
         NEW n \in DOMAIN handed, handed[n].by = Host, NEW w \in Worker
  PROVE  Answer(n, w)' <=> Answer(n, w)
<1> DEFINE f == up[p][1]
           e == [from |-> p, msg |-> f]
<1>1. /\ up[p] # <<>>
      /\ up' = [up EXCEPT ![p] = Tail(up[p])]
      /\ UNCHANGED <<handed, taken>>
      /\ Dropped(f) \/ Relayed(f) \/ Delivered(p, f)
  BY HandleCases
<1>2. /\ up[p] \in Seq(Frame) /\ f \in Frame /\ Proper(handed, p, f)
      /\ up \in [WsPeer -> Seq(Frame)] /\ w \in WsPeer
  BY <1>1, FrameFacts, PeerFacts DEF TInv, TypeOK
<1>3. f \in Range(up[p]) /\ Range(up[p]) = {f} \cup Range(Tail(up[p]))
  <2>1. 1 \in DOMAIN up[p]
    BY <1>1, <1>2, TailFacts
  <2>2. \A i \in DOMAIN up[p] : i = 1 \/ (i - 1 \in DOMAIN Tail(up[p]) /\ Tail(up[p])[i - 1] = up[p][i])
    BY <1>1, <1>2, TailFacts
  <2>3. \A i \in DOMAIN Tail(up[p]) : i + 1 \in DOMAIN up[p] /\ Tail(up[p])[i] = up[p][i + 1]
    BY <1>1, <1>2, TailFacts
  <2>4. Range(up[p]) \subseteq {f} \cup Range(Tail(up[p]))
    BY <2>2 DEF Range
  <2>5. {f} \cup Range(Tail(up[p])) \subseteq Range(up[p])
    BY <2>1, <2>3 DEF Range
  <2> QED
    BY <2>4, <2>5
<1>4. Range(up'[w]) = IF w = p THEN Range(Tail(up[p])) ELSE Range(up[w])
  BY <1>1, <1>2
<1>5. ASSUME Delivered(p, f)
      PROVE  Range(Log') = Range(Log) \cup {e}
  <2>1. Log' = Append(Log, e)
    BY <1>1, <1>2, <1>5, DeliveredFacts
  <2>2. e \in Entry /\ Log \in Seq(Entry)
    BY <1>2, LogTypes DEF TInv, Entry
  <2> HIDE DEF e
  <2>3. /\ DOMAIN Append(Log, e) = DOMAIN Log \cup {Len(Log) + 1}
        /\ \A i \in DOMAIN Log : Append(Log, e)[i] = Log[i]
        /\ Append(Log, e)[Len(Log) + 1] = e
    BY <2>2, AppendFacts
  <2> QED
    BY <2>1, <2>3 DEF Range
<1> HIDE DEF f
<1>6. e.from = p /\ e.msg = f
  OBVIOUS
<1> HIDE DEF e
<1>7. CASE Delivered(p, f)
  <2>1. OnItsWayBack(n, w) <=> OnItsWayBack(n, w)' \/ (w = p /\ IsResult(f) /\ f.n = n)
    BY <1>3, <1>4 DEF OnItsWayBack
  <2>2. Answered(n, w)' <=> Answered(n, w) \/ (w = p /\ IsResult(f) /\ f.n = n)
    BY <1>5, <1>6, <1>7 DEF Answered
  <2> QED
    BY <2>1, <2>2 DEF Answer
<1>8. CASE Dropped(f) \/ Relayed(f)
  <2>1. ~(IsResult(f) /\ f.n = n)
    BY <1>8 DEF Dropped, Relayed, IsForHost, IsResult
  <2>2. OnItsWayBack(n, w)' <=> OnItsWayBack(n, w)
    BY <1>3, <1>4, <2>1 DEF OnItsWayBack
  <2>3. UNCHANGED Log
    BY <1>1, <1>8, LogUntouched DEF Dropped, Relayed
  <2> QED
    BY <2>2, <2>3, PlacesUntouched DEF Answer
<1> QED
  BY <1>1, <1>7, <1>8 DEF f

LEMMA HandleCommandPlaces ==
  ASSUME TInv, PInv, NEW p \in WsPeer, HandleCommand(p)
  PROVE  PInv'
<1> DEFINE f == up[p][1]
<1>1. /\ up[p] # <<>>
      /\ UNCHANGED <<handed, running>>
      /\ Dropped(f) \/ Relayed(f) \/ Delivered(p, f)
  BY HandleCases
<1>2. Proper(handed, p, f) /\ f.n \in 1 .. MaxHanded
  BY <1>1, FrameFacts DEF Frame
<1> HIDE DEF f
<1>3. CASE Dropped(f) \/ Delivered(p, f)
  <2>1. UNCHANGED <<handed, running, down, lost>>
    BY <1>1, <1>3 DEF Dropped, Delivered
  <2>2. ASSUME NEW n \in DOMAIN handed, handed[n].by = Host, NEW w \in Worker
        PROVE  SamePlace(n, w)
    BY <2>1, <2>2, FrameMoves, PlacesUntouched DEF SamePlace
  <2> QED
    BY <2>1, <2>2, PlacesKept DEF SamePlace, InPlace
<1>4. CASE Relayed(f)
  <2>1. handed[f.n].by \in Lead /\ handed[f.n].by # Host /\ f.n \in DOMAIN handed
    BY <1>2, <1>4, PeerFacts DEF Proper, Relayed
  <2>2. /\ \A w \in Worker : down'[w] = IF w \in handed[f.n].to /\ conn[w] = "on"
                                        THEN Append(down[w], f.n) ELSE down[w]
        /\ \A m, w : <<m, w>> \in lost' <=> <<m, w>> \in lost
                       \/ (m = f.n /\ w \in handed[f.n].to \cap Worker /\ conn[w] = "dying")
    BY <1>2, <1>4, RelayFacts DEF Relayed, TInv
  <2>3. \A w \in Worker : down[w] \in Seq(1 .. MaxHanded)
    BY DEF TInv, TypeOK
  <2>4. ASSUME NEW n \in DOMAIN handed, handed[n].by = Host, NEW w \in Worker
        PROVE  SamePlace(n, w)
    <3>1. n # f.n
      BY <2>1, <2>4
    <3>2. Lost(n, w)' <=> Lost(n, w)
      BY <2>2, <3>1 DEF Lost
    <3>3. Range(down'[w]) \subseteq Range(down[w]) \cup {f.n} /\ Range(down[w]) \subseteq Range(down'[w])
      <4>1. Range(Append(down[w], f.n)) = Range(down[w]) \cup {f.n}
        BY <1>2, <2>3, AppendFacts DEF Range
      <4> QED
        BY <2>2, <4>1
    <3>4. Waiting(n, w)' <=> Waiting(n, w)
      BY <3>1, <3>3 DEF Waiting
    <3> QED
      BY <1>1, <2>4, <3>2, <3>4, FrameMoves, PlacesUntouched DEF SamePlace
  <2>5. AllInPlace'
    BY <1>1, <2>4 DEF PInv, AllInPlace, SamePlace, InPlace
  <2>6. OnceDown'
    <3> SUFFICES ASSUME NEW w \in Worker, NEW i \in DOMAIN down'[w], NEW j \in DOMAIN down'[w],
                        down'[w][i] = down'[w][j], handed[down'[w][i]].by = Host
                 PROVE  i = j
      BY <1>1 DEF OnceDown
    <3>1. CASE down'[w] = down[w]
      BY <3>1 DEF PInv, OnceDown
    <3>2. CASE down'[w] = Append(down[w], f.n)
      <4>1. i \in DOMAIN down[w] \cup {Len(down[w]) + 1} /\ j \in DOMAIN down[w] \cup {Len(down[w]) + 1}
        BY <1>2, <2>3, <3>2, AppendFacts
      <4>2. down'[w][Len(down[w]) + 1] = f.n
        BY <1>2, <2>3, <3>2, AppendFacts
      <4>3. i \in DOMAIN down[w] /\ j \in DOMAIN down[w]
        BY <2>1, <4>1, <4>2
      <4>4. down'[w][i] = down[w][i] /\ down'[w][j] = down[w][j]
        BY <1>2, <2>3, <3>2, <4>3, AppendFacts
      <4> QED
        BY <4>3, <4>4 DEF PInv, OnceDown
    <3> QED
      BY <2>2, <3>1, <3>2
  <2> QED
    BY <2>5, <2>6 DEF PInv
<1> QED
  BY <1>1, <1>3, <1>4

(* A closed connection takes with it the answers that were on their way. *)
LEMMA SocketClosedPlaces ==
  ASSUME TInv, PInv, NEW p \in WsPeer, SocketClosed(p)
  PROVE  PInv'
<1>1. /\ up' = [up EXCEPT ![p] = <<>>]
      /\ lost' = lost \cup {<<f.n, p>> : f \in {g \in Range(up[p]) : IsResult(g)}}
      /\ UNCHANGED <<down, running, handed, inbox, taken>>
  BY DEF SocketClosed, hostVars
<1>2. up \in [WsPeer -> Seq(Frame)]
  BY DEF TInv, TypeOK
<1>3. UNCHANGED Log
  BY <1>1, LogUntouched
<1>4. ASSUME NEW n, NEW w \in Worker, InPlace(n, w)
      PROVE  InPlace(n, w)'
  <2>1. (Waiting(n, w)' <=> Waiting(n, w)) /\ (Running(n, w)' <=> Running(n, w))
    BY <1>1, PlacesUntouched
  <2>2. Answered(n, w)' <=> Answered(n, w)
    BY <1>3, PlacesUntouched
  <2>3. OnItsWayBack(n, w)' <=> w # p /\ OnItsWayBack(n, w)
    BY <1>1, <1>2, PeerFacts DEF OnItsWayBack, Range
  <2>4. Lost(n, w)' <=> Lost(n, w) \/ (w = p /\ OnItsWayBack(n, w))
    BY <1>1 DEF Lost, OnItsWayBack
  <2> QED
    BY <1>4, <2>1, <2>2, <2>3, <2>4 DEF InPlace, Answer
<1> QED
  BY <1>1, <1>4, PlacesKept

(* A task the host hands out waits at a worker that is up, and is lost at  *)
(* one that is dying.                                                      *)
LEMMA HandedToPlaces ==
  ASSUME TInv, PInv, NEW id \in DataId, NEW S \in SUBSET Peer, NEW to \in SUBSET Peer,
         to = {q \in S : Connected(q)},
         HandOut(id, Host, to), Relay(S, Len(handed) + 1),
         UNCHANGED <<running, up, inbox, taken>>
  PROVE  PInv'
<1>n. PICK n : n = Len(handed) + 1
  OBVIOUS
<1>0. TypeOK /\ Host \in Peer
  BY PeerFacts DEF TInv
<1>1. /\ DOMAIN handed' = DOMAIN handed \cup {n}
      /\ n \notin DOMAIN handed
      /\ \A m \in DOMAIN handed : handed'[m] = handed[m]
      /\ handed'[n] = [id |-> id, by |-> Host, to |-> to]
      /\ n \in 1 .. MaxHanded
  BY <1>n, <1>0, HandOutFacts
<1>2. handed'[n].to = to
  BY <1>1
<1>3. Relay(S, n)
  BY <1>n
<1>4. /\ \A w \in Worker : down'[w] = IF w \in S /\ conn[w] = "on" THEN Append(down[w], n)
                                                                  ELSE down[w]
      /\ \A m, w : <<m, w>> \in lost' <=>
           <<m, w>> \in lost \/ (m = n /\ w \in S \cap Worker /\ conn[w] = "dying")
  BY <1>0, <1>1, <1>3, RelayFacts
<1>5. \A w \in Worker : down[w] \in Seq(1 .. MaxHanded)
  BY <1>0 DEF TypeOK
<1>6. ASSUME NEW w \in Worker
      PROVE  Range(down'[w]) = IF w \in S /\ conn[w] = "on" THEN Range(down[w]) \cup {n}
                                                            ELSE Range(down[w])
  <2>1. Range(Append(down[w], n)) = Range(down[w]) \cup {n}
    BY <1>1, <1>5, AppendFacts DEF Range
  <2> QED
    BY <1>4, <2>1
<1>7. UNCHANGED Log
  BY LogUntouched
<1>8. ASSUME NEW m \in DOMAIN handed, NEW w \in Worker
      PROVE  SamePlace(m, w)
  <2>1. m # n
    BY <1>1
  <2>2. Waiting(m, w)' <=> Waiting(m, w)
    BY <1>6, <2>1 DEF Waiting
  <2>3. Lost(m, w)' <=> Lost(m, w)
    BY <1>4, <2>1 DEF Lost
  <2> QED
    BY <1>7, <2>2, <2>3, PlacesUntouched DEF SamePlace
<1>9. ASSUME NEW w \in to \cap Worker
      PROVE  InPlace(n, w)'
  <2>1. ~Waiting(n, w) /\ ~Running(n, w) /\ ~Answer(n, w) /\ ~Lost(n, w)
    BY <1>1, NewInNoPlace
  <2>2. ~Running(n, w)' /\ ~Answer(n, w)'
    BY <1>7, <2>1, PlacesUntouched
  <2>3. w \in S /\ conn[w] \in {"on", "dying"}
    BY <1>0, PeerFacts DEF Connected, TypeOK
  <2>4. Waiting(n, w)' <=> conn[w] = "on"
    BY <1>6, <2>1, <2>3 DEF Waiting
  <2>5. Lost(n, w)' <=> conn[w] = "dying"
    BY <1>4, <2>1, <2>3 DEF Lost
  <2> QED
    BY <2>2, <2>3, <2>4, <2>5 DEF InPlace
<1>10. AllInPlace'
  <2> SUFFICES ASSUME NEW m \in DOMAIN handed', NEW w \in handed'[m].to \cap Worker,
                      handed'[m].by = Host
               PROVE  InPlace(m, w)'
    BY DEF AllInPlace
  <2>1. CASE m = n
    BY <1>1, <1>2, <1>9, <2>1
  <2>2. CASE m # n
    <3>1. m \in DOMAIN handed /\ w \in handed[m].to \cap Worker /\ handed[m].by = Host
      BY <1>1, <2>2
    <3> QED
      BY <1>8, <3>1 DEF PInv, AllInPlace, SamePlace, InPlace
  <2> QED
    BY <2>1, <2>2
<1>11. OnceDown'
  <2> SUFFICES ASSUME NEW w \in Worker, NEW i \in DOMAIN down'[w], NEW j \in DOMAIN down'[w],
                      down'[w][i] = down'[w][j], handed'[down'[w][i]].by = Host
               PROVE  i = j
    BY DEF OnceDown
  <2>1. \A k \in DOMAIN down[w] : down[w][k] \in DOMAIN handed
    BY DEF TInv, Addressed
  <2>2. CASE down'[w] = down[w]
    BY <1>1, <2>1, <2>2 DEF PInv, OnceDown
  <2>3. CASE down'[w] = Append(down[w], n)
    <3>1. i \in DOMAIN down[w] \cup {Len(down[w]) + 1} /\ j \in DOMAIN down[w] \cup {Len(down[w]) + 1}
      BY <1>1, <1>5, <2>3, AppendFacts
    <3>2. down'[w][Len(down[w]) + 1] = n /\ \A k \in DOMAIN down[w] : down'[w][k] = down[w][k]
      BY <1>1, <1>5, <2>3, AppendFacts
    <3>3. (i \in DOMAIN down[w] /\ j \in DOMAIN down[w]) \/ i = j
      BY <1>1, <2>1, <3>1, <3>2
    <3> QED
      BY <1>1, <2>1, <3>2, <3>3 DEF PInv, OnceDown
  <2> QED
    BY <1>4, <2>2, <2>3
<1> QED
  BY <1>10, <1>11 DEF PInv
LEMMA LeadAssignsPlaces ==
  ASSUME TInv, PInv, NEW l \in Lead, NEW id \in LeadTask \cup {NoId}, NEW w \in Worker, LeadAssigns(l, id, w)
  PROVE  PInv'
<1>n. PICK n : n = Len(handed) + 1
  OBVIOUS
<1>1. /\ HandOut(id, l, {w})
      /\ up' = [up EXCEPT ![l] = Append(up[l], [kind |-> "task", n |-> Len(handed) + 1])]
      /\ UNCHANGED <<down, running, inbox, taken, lost>>
  BY DEF LeadAssigns, hostVars
<1>2. id \in DataId /\ l \in Peer /\ l \in WsPeer /\ {w} \in SUBSET Peer /\ TypeOK
  BY PeerFacts DEF DataId, GivenId, TInv
<1>3. /\ DOMAIN handed' = DOMAIN handed \cup {n}
      /\ \A m \in DOMAIN handed : handed'[m] = handed[m]
      /\ handed'[n] = [id |-> id, by |-> l, to |-> {w}]
      /\ n \in 1 .. MaxHanded
  BY <1>n, <1>1, <1>2, HandOutFacts
<1>4. handed'[n].by # Host
  BY <1>3, PeerFacts
<1>f. PICK f \in Frame : f = [kind |-> "task", n |-> n]
  BY <1>3 DEF Frame
<1>5. ASSUME NEW m, NEW v \in Worker
      PROVE  SamePlace(m, v)
  <2>1. UNCHANGED Log
    BY <1>1, LogUntouched
  <2>2. up \in [WsPeer -> Seq(Frame)] /\ v \in WsPeer
    BY <1>2, PeerFacts DEF TypeOK
  <2>3. OnItsWayBack(m, v)' <=> OnItsWayBack(m, v)
    <3>1. up'[v] = IF v = l THEN Append(up[l], f) ELSE up[v]
      BY <1>n, <1>f, <1>1, <1>2, <2>2
    <3>2. Range(Append(up[l], f)) = Range(up[l]) \cup {f}
      BY <1>2, <2>2, AppendFacts DEF Range
    <3>3. ~IsResult(f)
      BY <1>f DEF IsResult
    <3> QED
      BY <3>1, <3>2, <3>3 DEF OnItsWayBack
  <2> QED
    BY <1>1, <2>1, <2>3, PlacesUntouched DEF SamePlace, Answer
<1>6. AllInPlace'
  BY <1>3, <1>4, <1>5 DEF PInv, AllInPlace, SamePlace, InPlace
<1>7. OnceDown'
  <2>1. \A v \in Worker : \A k \in DOMAIN down[v] : down[v][k] \in DOMAIN handed
    BY DEF TInv, Addressed
  <2> QED
    BY <1>1, <1>3, <2>1 DEF PInv, OnceDown
<1> QED
  BY <1>6, <1>7 DEF PInv

(* A task that starts leaves the queue: it was there only once. *)
LEMMA RunTaskPlaces ==
  ASSUME TInv, PInv, NEW w \in Worker, RunTask(w)
  PROVE  PInv'
<1>1. /\ down[w] # <<>>
      /\ down' = [down EXCEPT ![w] = Tail(down[w])]
      /\ running' = [running EXCEPT ![w] = running[w] \cup {Head(down[w])}]
      /\ UNCHANGED <<up, handed, inbox, taken, lost>>
  BY DEF RunTask, hostVars
<1>2. down \in [Worker -> Seq(1 .. MaxHanded)] /\ running \in [Worker -> SUBSET (1 .. Len(handed))]
  BY DEF TInv, TypeOK
<1>h. PICK h : h = Head(down[w])
  OBVIOUS
<1>3. /\ h = down[w][1] /\ 1 \in DOMAIN down[w]
      /\ \A i \in DOMAIN Tail(down[w]) :
           i \in Nat /\ i + 1 \in DOMAIN down[w] /\ i + 1 # 1 /\ Tail(down[w])[i] = down[w][i + 1]
      /\ \A i \in DOMAIN down[w] : i # 1 =>
           i - 1 \in DOMAIN Tail(down[w]) /\ Tail(down[w])[i - 1] = down[w][i]
  BY <1>h, <1>1, <1>2, TailFacts
<1>4. /\ \A v \in Worker : down'[v] = IF v = w THEN Tail(down[w]) ELSE down[v]
      /\ \A v \in Worker : running'[v] = IF v = w THEN running[w] \cup {h} ELSE running[v]
  BY <1>h, <1>1, <1>2
<1>5. UNCHANGED Log
  BY <1>1, LogUntouched
<1>6. ASSUME NEW n, handed[n].by = Host
      PROVE  n \in Range(Tail(down[w])) <=> n \in Range(down[w]) /\ n # h
  <2>1. ASSUME n \in Range(Tail(down[w]))
        PROVE  n \in Range(down[w]) /\ n # h
    <3>1. PICK i \in DOMAIN Tail(down[w]) : Tail(down[w])[i] = n
      BY <2>1 DEF Range
    <3>2. i + 1 \in DOMAIN down[w] /\ down[w][i + 1] = n /\ i + 1 # 1
      BY <1>3, <3>1
    <3> QED
      BY <1>3, <1>6, <3>2 DEF PInv, OnceDown, Range
  <2>2. ASSUME n \in Range(down[w]), n # h
        PROVE  n \in Range(Tail(down[w]))
    <3>1. PICK i \in DOMAIN down[w] : down[w][i] = n
      BY <2>2 DEF Range
    <3>2. i # 1
      BY <1>3, <2>2, <3>1
    <3> QED
      BY <1>3, <3>1, <3>2 DEF Range
  <2> QED
    BY <2>1, <2>2
<1>7. ASSUME NEW n, handed[n].by = Host, NEW v \in Worker, InPlace(n, v)
      PROVE  InPlace(n, v)'
  <2>1. (Answer(n, v)' <=> Answer(n, v)) /\ (Lost(n, v)' <=> Lost(n, v))
    BY <1>1, <1>5, PlacesUntouched
  <2>2. Waiting(n, v)' <=> Waiting(n, v) /\ ~(v = w /\ n = h)
    BY <1>4, <1>6, <1>7 DEF Waiting
  <2>3. Running(n, v)' <=> Running(n, v) \/ (v = w /\ n = h)
    BY <1>4 DEF Running
  <2>4. Waiting(h, w)
    BY <1>3 DEF Waiting, Range
  <2> QED
    BY <1>7, <2>1, <2>2, <2>3, <2>4 DEF InPlace
<1>8. AllInPlace'
  BY <1>1, <1>7 DEF PInv, AllInPlace
<1>9. OnceDown'
  <2> SUFFICES ASSUME NEW v \in Worker, NEW i \in DOMAIN down'[v], NEW j \in DOMAIN down'[v],
                      down'[v][i] = down'[v][j], handed[down'[v][i]].by = Host
               PROVE  i = j
    BY <1>1 DEF OnceDown
  <2>1. CASE v # w
    BY <1>4, <2>1 DEF PInv, OnceDown
  <2>2. CASE v = w
    <3>1. /\ i \in Nat /\ i + 1 \in DOMAIN down[w] /\ down'[v][i] = down[w][i + 1]
          /\ j \in Nat /\ j + 1 \in DOMAIN down[w] /\ down'[v][j] = down[w][j + 1]
      BY <1>3, <1>4, <2>2
    <3>2. i + 1 = j + 1
      BY <3>1 DEF PInv, OnceDown
    <3> QED
      BY <3>1, <3>2
  <2> QED
    BY <2>1, <2>2
<1> QED
  BY <1>8, <1>9 DEF PInv

(* A task that ends is answered. *)
LEMMA JobEndsPlaces ==
  ASSUME TInv, PInv, NEW w \in Worker, NEW n \in 1 .. Len(handed), JobEnds(w, n)
  PROVE  PInv'
<1>1. /\ n \in running[w]
      /\ running' = [running EXCEPT ![w] = running[w] \ {n}]
      /\ UNCHANGED <<down, handed, inbox, taken, lost>>
  BY JobEndsFacts
<1>2. PICK k \in {"done", "failed"}, F \in Seq(Frame) : Reported(w, n, k, F)
  BY JobEndsFacts
<1>3. /\ F # <<>> /\ \A i \in DOMAIN F : F[i] = [kind |-> k, n |-> n]
      /\ up' = [up EXCEPT ![w] = up[w] \o F]
  BY <1>2 DEF Reported
<1>4. /\ up \in [WsPeer -> Seq(Frame)] /\ running \in [Worker -> SUBSET (1 .. Len(handed))]
      /\ w \in WsPeer
  BY PeerFacts DEF TInv, TypeOK
<1>5. UNCHANGED Log
  BY <1>1, LogUntouched
<1>6. \A f : f \in Range(F) <=> f = [kind |-> k, n |-> n]
  <2>1. 1 \in DOMAIN F
    BY <1>3, EmptySeq, LenProperties
  <2> QED
    BY <1>3, <2>1 DEF Range
<1>7. Range(up[w] \o F) = Range(up[w]) \cup Range(F)
  <2>1. up[w] \in Seq(Frame)
    BY <1>4
  <2>2. Range(up[w]) \cup Range(F) \subseteq Range(up[w] \o F)
    <3>1. \A i \in DOMAIN up[w] : up[w][i] \in Range(up[w] \o F)
      BY <2>1, ConcatFacts DEF Range
    <3>2. ASSUME NEW j \in DOMAIN F
          PROVE  F[j] \in Range(up[w] \o F)
      <4>1. /\ Len(up[w]) + j \in DOMAIN (up[w] \o F)
            /\ (up[w] \o F)[Len(up[w]) + j] = F[j]
        BY <2>1, ConcatFacts
      <4> QED
        BY <4>1 DEF Range
    <3> QED
      BY <3>1, <3>2 DEF Range
  <2>3. ASSUME NEW i \in DOMAIN (up[w] \o F)
        PROVE  (up[w] \o F)[i] \in Range(up[w]) \cup Range(F)
    <3>1. CASE i \in DOMAIN up[w]
      BY <2>1, <3>1, ConcatFacts DEF Range
    <3>2. CASE i - Len(up[w]) \in DOMAIN F
      <4>1. i = Len(up[w]) + (i - Len(up[w]))
        BY <2>1, <2>3, ConcatFacts
      <4>2. (up[w] \o F)[i] = F[i - Len(up[w])]
        BY <2>1, <3>2, <4>1, ConcatFacts
      <4> QED
        BY <3>2, <4>2 DEF Range
    <3> QED
      BY <2>1, <2>3, <3>1, <3>2, ConcatFacts
  <2> QED
    BY <2>2, <2>3 DEF Range
<1>8. ASSUME NEW m, NEW v \in Worker
      PROVE  Answer(m, v)' <=> Answer(m, v) \/ (v = w /\ m = n)
  <2>1. v \in WsPeer /\ up'[v] = IF v = w THEN up[w] \o F ELSE up[v]
    BY <1>3, <1>4, PeerFacts
  <2>2. IsResult([kind |-> k, n |-> n])
    BY DEF IsResult
  <2>3. OnItsWayBack(m, v)' <=> OnItsWayBack(m, v) \/ (v = w /\ m = n)
    BY <1>6, <1>7, <2>1, <2>2 DEF OnItsWayBack
  <2> QED
    BY <1>5, <2>3, PlacesUntouched DEF Answer
<1>9. ASSUME NEW m, NEW v \in Worker, InPlace(m, v)
      PROVE  InPlace(m, v)'
  <2>1. (Waiting(m, v)' <=> Waiting(m, v)) /\ (Lost(m, v)' <=> Lost(m, v))
    BY <1>1, PlacesUntouched
  <2>2. Running(m, v)' <=> Running(m, v) /\ ~(v = w /\ m = n)
    BY <1>1, <1>4 DEF Running
  <2>3. Running(n, w)
    BY <1>1 DEF Running
  <2> QED
    BY <1>8, <1>9, <2>1, <2>2, <2>3 DEF InPlace
<1> QED
  BY <1>1, <1>9, PlacesKept

(* What a worker that goes had not answered is lost. *)
LEMMA GonePlaces ==
  ASSUME TInv, PInv, NEW p \in WsPeer, Gone(p)
  PROVE  PInv'
<1>1. /\ down' = [w \in Worker |-> IF w = p THEN <<>> ELSE down[w]]
      /\ running' = [w \in Worker |-> IF w = p THEN {} ELSE running[w]]
      /\ lost' = lost \cup
           IF p \in Worker THEN {<<n, p>> : n \in running[p] \cup Range(down[p])} ELSE {}
      /\ UNCHANGED <<up, handed, inbox, taken>>
  BY DEF Gone, hostVars
<1>2. UNCHANGED Log
  BY <1>1, LogUntouched
<1>3. ASSUME NEW n, NEW w \in Worker, InPlace(n, w)
      PROVE  InPlace(n, w)'
  <2>1. Answer(n, w)' <=> Answer(n, w)
    BY <1>1, <1>2, PlacesUntouched
  <2>2. Waiting(n, w)' <=> Waiting(n, w) /\ w # p
    BY <1>1 DEF Waiting, Range
  <2>3. Running(n, w)' <=> Running(n, w) /\ w # p
    BY <1>1 DEF Running
  <2>4. Lost(n, w)' <=> Lost(n, w) \/ (w = p /\ (Running(n, w) \/ Waiting(n, w)))
    BY <1>1 DEF Lost, Running, Waiting
  <2> QED
    BY <1>3, <2>1, <2>2, <2>3, <2>4 DEF InPlace
<1>4. AllInPlace'
  BY <1>1, <1>3 DEF PInv, AllInPlace
<1>5. OnceDown'
  BY <1>1 DEF PInv, OnceDown
<1> QED
  BY <1>4, <1>5 DEF PInv

LEMMA PlacesStep == TInv /\ PInv /\ [Next]_vars => PInv'
<1> SUFFICES ASSUME TInv, PInv, [Next]_vars
             PROVE  PInv'
  OBVIOUS
<1>1. CASE UNCHANGED vars
  BY <1>1, NothingMoves, LogUntouched DEF vars, hostVars
<1>2. ASSUME NEW p \in WsPeer, NEW r \in Room, Arrive(p, r)
      PROVE  PInv'
  BY <1>2, NothingMoves, LogUntouched DEF Arrive, hostVars
<1>3. ASSUME NEW p \in WsPeer, HandleCommand(p)
      PROVE  PInv'
  BY <1>3, HandleCommandPlaces
<1>4. ASSUME NEW p \in WsPeer, SocketClosed(p)
      PROVE  PInv'
  BY <1>4, SocketClosedPlaces
<1>5. ASSUME NEW p \in WsPeer, Gone(p)
      PROVE  PInv'
  BY <1>5, GonePlaces
<1>6. ASSUME NEW p \in WsPeer, NEW id \in HostTask \cup {NoId}, Send(id, p)
      PROVE  PInv'
  <2>1. PICK to : to = {q \in {p} : Connected(q)}
    OBVIOUS
  <2>2. /\ id \in DataId /\ {p} \in SUBSET Peer /\ to \in SUBSET Peer
        /\ HandOut(id, Host, to) /\ Relay({p}, Len(handed) + 1)
        /\ UNCHANGED <<running, up, inbox, taken>>
    BY <1>6, <2>1, SendFacts
  <2> QED
    BY <2>1, <2>2, HandedToPlaces
<1>7. ASSUME NEW r \in Room, McpCreateRoom(r)
      PROVE  PInv'
  BY <1>7, NothingMoves, LogUntouched DEF McpCreateRoom, hostVars
<1>8. ASSUME NEW r \in Room, NEW id \in HostTask \cup {NoId}, NEW exclude \in {{}, {Host}},
             Broadcast(id, r, exclude)
      PROVE  PInv'
  <2>1. PICK S : S = Targets(r, exclude)
    OBVIOUS
  <2>2. PICK to : to = {q \in S : Connected(q)}
    OBVIOUS
  <2>3. /\ id \in DataId /\ S \in SUBSET Peer /\ to \in SUBSET Peer
        /\ HandOut(id, Host, to) /\ Relay(S, Len(handed) + 1)
        /\ UNCHANGED <<running, up, inbox, taken>>
    BY <1>8, <2>1, <2>2, BroadcastFacts
  <2> QED
    BY <2>2, <2>3, HandedToPlaces
<1>9. CASE Poll
  <2>1. UNCHANGED <<handed, down, running, up, lost>>
    BY <1>9 DEF Poll
  <2> QED
    BY <1>9, <2>1, LogPolled, NothingMoves DEF TInv
<1>10. ASSUME NEW w \in Worker, RunTask(w)
       PROVE  PInv'
  BY <1>10, RunTaskPlaces
<1>11. ASSUME NEW w \in Worker, NEW n \in 1 .. Len(handed), JobEnds(w, n)
       PROVE  PInv'
  BY <1>11, JobEndsPlaces
<1>12. ASSUME NEW w \in Worker, NEW l \in Lead, NEW id \in LeadTask \cup {NoId}, LeadAssigns(l, id, w)
       PROVE  PInv'
  BY <1>12, LeadAssignsPlaces
<1> QED
  BY <1>1, <1>2, <1>3, <1>4, <1>5, <1>6, <1>7, <1>8, <1>9, <1>10, <1>11, <1>12 DEF Next

(* A task of the host waits or runs at a worker, is answered, or was lost  *)
(* with the connection of the worker: never none of these, never two.      *)
THEOREM NoneForgotten == Spec => []NoTaskForgotten
<1>1. Init => PInv
  BY DEF Init, PInv, AllInPlace, OnceDown
<1>2. PInv => NoTaskForgotten
  BY Forgotten DEF PInv
<1> QED
  BY <1>1, <1>2, PlacesStep, InvariantHolds, PTL DEF Spec
-----------------------------------------------------------------------------
(* Places in a set of positions *)

LEMMA PlaceFacts ==
  ASSUME NEW m \in Nat, NEW S \in SUBSET (1 .. m)
  PROVE  /\ IsFiniteSet(S) /\ Cardinality(S) \in Nat
         /\ \A i : Place(S, i) \in Nat
         /\ \A i \in S : Place(S, i) \in 1 .. Cardinality(S)
<1>1. IsFiniteSet(1 .. m)
  BY FS_Interval
<1>2. IsFiniteSet(S) /\ Cardinality(S) \in Nat
  BY <1>1, FS_Subset, FS_CardinalityType
<1>3. ASSUME NEW i
      PROVE  /\ Place(S, i) \in Nat /\ Place(S, i) <= Cardinality(S)
             /\ i \in S => Place(S, i) >= 1
  <2> DEFINE U == {j \in S : j <= i}
  <2>1. U \in SUBSET S
    OBVIOUS
  <2>2. IsFiniteSet(U) /\ Cardinality(U) <= Cardinality(S) /\ Cardinality(U) \in Nat
    BY <1>2, <2>1, FS_Subset, FS_CardinalityType
  <2>3. i \in S => i \in U
    OBVIOUS
  <2>4. i \in S => Cardinality(U) # 0
    BY <2>2, <2>3, FS_EmptySet
  <2>5. Place(S, i) = Cardinality(U)
    BY DEF Place
  <2> HIDE DEF U
  <2> QED
    BY <2>2, <2>4, <2>5
<1> QED
  BY <1>2, <1>3

(* T is S and the k positions that come after m. *)
WithNext(T, S, m, k) == T = S \cup (m + 1 .. m + k)

(* Elements after all the others get the next places. *)
LEMMA PlaceAtEnd ==
  ASSUME NEW m \in Nat, NEW S \in SUBSET (1 .. m), NEW k \in Nat,
         NEW T, WithNext(T, S, m, k)
  PROVE  /\ Cardinality(T) = Cardinality(S) + k
         /\ \A i \in S : Place(T, i) = Place(S, i)
         /\ \A j \in 1 .. k : Place(T, m + j) = Cardinality(S) + j
<1> DEFINE More(j) == S \cup (m + 1 .. m + j)
<1>1. ASSUME NEW j \in Nat
      PROVE  Cardinality(More(j)) = Cardinality(S) + j
  <2>1. /\ IsFiniteSet(m + 1 .. m + j) /\ Cardinality(m + 1 .. m + j) = j
    <3>1. m + 1 \in Int /\ m + j \in Int
      OBVIOUS
    <3>2. IsFiniteSet(m + 1 .. m + j)
          /\ Cardinality(m + 1 .. m + j) = IF m + 1 > m + j THEN 0 ELSE (m + j) - (m + 1) + 1
      BY <3>1, FS_Interval
    <3> QED
      BY <3>2
  <2>2. S \cap (m + 1 .. m + j) = {}
    OBVIOUS
  <2>3. Cardinality(S \cap (m + 1 .. m + j)) = 0
    BY <2>2, FS_EmptySet
  <2>4. IsFiniteSet(S) /\ Cardinality(S) \in Nat
    BY PlaceFacts
  <2>5. Cardinality(S \cup (m + 1 .. m + j)) =
          Cardinality(S) + Cardinality(m + 1 .. m + j) - Cardinality(S \cap (m + 1 .. m + j))
    BY <2>1, <2>4, FS_Union
  <2> QED
    BY <2>1, <2>3, <2>4, <2>5
<1>2. \A i \in S : {j \in More(k) : j <= i} = {j \in S : j <= i}
  OBVIOUS
<1>3. ASSUME NEW i \in 1 .. k
      PROVE  {j \in More(k) : j <= m + i} = More(i)
  <2>1. \A j : j \in m + 1 .. m + k /\ j <= m + i <=> j \in m + 1 .. m + i
    OBVIOUS
  <2>2. \A j \in S : j <= m + i
    OBVIOUS
  <2> QED
    BY <2>1, <2>2
<1>4. \A i \in S : Place(More(k), i) = Place(S, i)
  BY <1>2 DEF Place
<1>5. \A j \in 1 .. k : Place(More(k), m + j) = Cardinality(S) + j
  BY <1>1, <1>3 DEF Place
<1>6. T = More(k)
  BY DEF WithNext
<1> HIDE DEF More
<1> QED
  BY <1>1, <1>4, <1>5, <1>6

LEMMA ShiftedSize ==
  ASSUME NEW m \in Nat, NEW S \in SUBSET (2 .. m)
  PROVE  LET T == {i \in 1 .. m : i + 1 \in S}
         IN Cardinality(T) = Cardinality(S)
<1> DEFINE T == {i \in 1 .. m : i + 1 \in S}
           f == [i \in T |-> i + 1]
<1>1. T \in SUBSET (1 .. m)
  OBVIOUS
<1>2. IsFiniteSet(T)
  BY <1>1, PlaceFacts
<1>3. f \in [T -> S]
  OBVIOUS
<1>4. \A i, j \in T : f[i] = f[j] => i = j
  OBVIOUS
<1>5. \A s \in S : \E i \in T : f[i] = s
  <2> SUFFICES ASSUME NEW s \in S
               PROVE  s - 1 \in T /\ f[s - 1] = s
    OBVIOUS
  <2> QED
    OBVIOUS
<1>6. f \in Bijection(T, S)
  <2> HIDE DEF T, f
  <2> QED
    BY <1>3, <1>4, <1>5, Fun_IsBij
<1>7. ExistsBijection(T, S)
  BY <1>6 DEF ExistsBijection
<1> QED
  BY <1>2, <1>7, FS_Bijection

(* T is S without 1, every other position moved up by one. *)
MovedUp(T, S, m) == \A i : i \in T <=> i \in 1 .. m /\ i + 1 \in S

LEMMA PlaceShifted ==
  ASSUME NEW m \in Nat, NEW S \in SUBSET (1 .. m), NEW T, MovedUp(T, S, m)
  PROVE  /\ T \in SUBSET (1 .. m) /\ \A i \in T : i + 1 \in S
         /\ Cardinality(S) = IF 1 \in S THEN Cardinality(T) + 1 ELSE Cardinality(T)
         /\ \A i \in T : Place(S, i + 1) = IF 1 \in S THEN Place(T, i) + 1 ELSE Place(T, i)
         /\ 1 \in S => Place(S, 1) = 1
<1>1. ASSUME NEW U \in SUBSET S, 1 \in S => 1 \in U, NEW V, V = {i \in 1 .. m : i + 1 \in U}
      PROVE  Cardinality(U) = IF 1 \in S THEN Cardinality(V) + 1 ELSE Cardinality(V)
  <2>w. PICK W : W = U \ {1}
    OBVIOUS
  <2>1. W \in SUBSET (2 .. m) /\ U \in SUBSET (1 .. m)
    BY <2>w
  <2>2. V = {i \in 1 .. m : i + 1 \in W}
    BY <1>1, <2>w
  <2>3. Cardinality(V) = Cardinality(W)
    BY <2>1, <2>2, ShiftedSize
  <2>4. IsFiniteSet(U) /\ Cardinality(U) \in Nat
    BY <2>1, PlaceFacts
  <2>5. Cardinality(W) = IF 1 \in U THEN Cardinality(U) - 1 ELSE Cardinality(U)
    BY <2>4, <2>w, FS_RemoveElement
  <2>6. 1 \in U <=> 1 \in S
    BY <1>1
  <2> QED
    BY <2>3, <2>4, <2>5, <2>6
<1>2. T = {i \in 1 .. m : i + 1 \in S}
  BY DEF MovedUp
<1>3. T \in SUBSET (1 .. m) /\ \A i \in T : i + 1 \in S
  BY <1>2
<1>4. Cardinality(S) = IF 1 \in S THEN Cardinality(T) + 1 ELSE Cardinality(T)
  BY <1>1, <1>2
<1>5. ASSUME NEW i \in T
      PROVE  Place(S, i + 1) = IF 1 \in S THEN Place(T, i) + 1 ELSE Place(T, i)
  <2>u. PICK U, V : U = {j \in S : j <= i + 1} /\ V = {j \in T : j <= i}
    OBVIOUS
  <2>1. i \in 1 .. m
    BY <1>3
  <2>2. U \in SUBSET S /\ (1 \in S => 1 \in U)
    BY <2>1, <2>u
  <2>3. V = {j \in 1 .. m : j + 1 \in U}
    BY <1>2, <2>1, <2>u
  <2>4. Cardinality(U) = IF 1 \in S THEN Cardinality(V) + 1 ELSE Cardinality(V)
    BY <1>1, <2>2, <2>3
  <2> QED
    BY <2>4, <2>u DEF Place
<1>6. 1 \in S => {j \in S : j <= 1} = {1}
  <2>1. \A j \in S : j <= 1 <=> j = 1
    OBVIOUS
  <2> QED
    BY <2>1
<1>7. 1 \in S => Place(S, 1) = 1
  BY <1>6, FS_Singleton DEF Place
<1> QED
  BY <1>3, <1>4, <1>5, <1>7

-----------------------------------------------------------------------------
(* Results are seen in the order they were sent, and once *)

(* r is what a worker sent: first what is at the positions S of the log,   *)
(* then what is at the positions C of its frames q.                        *)
Match(r, log, S, q, C) ==
  /\ Len(r) = Cardinality(S) + Cardinality(C)
  /\ \A i \in S : r[Place(S, i)] = log[i].msg
  /\ \A i \in C : r[Cardinality(S) + Place(C, i)] = q[i]

Agree(a, b, S) == \A i \in S : a[i] = b[i]
AgreeUp(a, b, S) == \A i \in S : a[i] = b[i + 1]
AgreeNext(a, l, b, n, k) == \A j \in 1 .. k : a[l + j] = b[n + j]

LEMMA MatchMoves ==
  ASSUME NEW m \in Nat, NEW S \in SUBSET (1 .. m), NEW n \in Nat, NEW C \in SUBSET (1 .. n),
         NEW r, NEW log, NEW q, Match(r, log, S, q, C), 1 \in C,
         NEW log2, Agree(log2, log, S), log2[m + 1].msg = q[1],
         NEW q2, NEW D, MovedUp(D, C, n), AgreeUp(q2, q, D)
  PROVE  Match(r, log2, S \cup {m + 1}, q2, D)
<1> DEFINE T == S \cup {m + 1}
<1>1. T = S \cup (m + 1 .. m + 1)
  OBVIOUS
<1>2. /\ Cardinality(T) = Cardinality(S) + 1
      /\ \A i \in S : Place(T, i) = Place(S, i)
      /\ Place(T, m + 1) = Cardinality(S) + 1
  <2>1. PICK k \in Nat : k = 1
    OBVIOUS
  <2>2. WithNext(T, S, m, k)
    BY <1>1, <2>1 DEF WithNext
  <2> HIDE DEF T
  <2>3. /\ Cardinality(T) = Cardinality(S) + k
        /\ \A i \in S : Place(T, i) = Place(S, i)
        /\ \A j \in 1 .. k : Place(T, m + j) = Cardinality(S) + j
    BY <2>2, PlaceAtEnd
  <2> QED
    BY <2>1, <2>3
<1>3. /\ Cardinality(C) = Cardinality(D) + 1
      /\ \A i \in D : Place(C, i + 1) = Place(D, i) + 1
      /\ Place(C, 1) = 1
  BY PlaceShifted
<1>4. Cardinality(S) \in Nat /\ Cardinality(C) \in Nat /\ Cardinality(D) \in Nat
  <2>1. D \in SUBSET (1 .. n)
    BY PlaceShifted
  <2> QED
    BY <2>1, PlaceFacts
<1>5. \A i \in D : Place(D, i) \in Nat
  <2>1. D \in SUBSET (1 .. n)
    BY PlaceShifted
  <2> QED
    BY <2>1, PlaceFacts
<1>6. m + 1 \notin S
  OBVIOUS
<1> HIDE DEF T
<1>7. Len(r) = Cardinality(T) + Cardinality(D)
  BY <1>2, <1>3, <1>4 DEF Match, Agree, AgreeUp
<1>8. \A i \in T : r[Place(T, i)] = log2[i].msg
  <2>1. \A i \in S : r[Place(T, i)] = log2[i].msg
    BY <1>2 DEF Match, Agree, AgreeUp
  <2>2. r[Place(T, m + 1)] = log2[m + 1].msg
    BY <1>2, <1>3 DEF Match, Agree, AgreeUp
  <2> QED
    BY <2>1, <2>2 DEF T
<1>9. \A i \in D : r[Cardinality(T) + Place(D, i)] = q2[i]
  <2> SUFFICES ASSUME NEW i \in D
               PROVE  r[Cardinality(T) + Place(D, i)] = q2[i]
    OBVIOUS
  <2>1. i + 1 \in C
    BY PlaceShifted
  <2>2. Cardinality(T) + Place(D, i) = Cardinality(S) + Place(C, i + 1)
    BY <1>2, <1>3, <1>4, <1>5
  <2> QED
    BY <2>1, <2>2 DEF Match, Agree, AgreeUp
<1> QED
  BY <1>7, <1>8, <1>9 DEF Match, Agree, AgreeUp, T

LEMMA MatchDrops ==
  ASSUME NEW n \in Nat, NEW C \in SUBSET (1 .. n), NEW S,
         NEW r, NEW log, NEW q, Match(r, log, S, q, C), 1 \notin C,
         NEW log2, Agree(log2, log, S),
         NEW q2, NEW D, MovedUp(D, C, n), AgreeUp(q2, q, D)
  PROVE  Match(r, log2, S, q2, D)
<1>1. /\ Cardinality(C) = Cardinality(D)
      /\ \A i \in D : i + 1 \in C /\ Place(C, i + 1) = Place(D, i)
  BY PlaceShifted
<1> QED
  BY <1>1 DEF Match, Agree, AgreeUp

LEMMA MatchReports ==
  ASSUME NEW m \in Nat, NEW S \in SUBSET (1 .. m), NEW n \in Nat, NEW C \in SUBSET (1 .. n),
         NEW r, NEW log, NEW q, Match(r, log, S, q, C),
         NEW k \in Nat, NEW r2, Len(r2) = Len(r) + k,
         Agree(r2, r, 1 .. Len(r)),
         NEW q2, Agree(q2, q, C), AgreeNext(r2, Len(r), q2, n, k)
  PROVE  Match(r2, log, S, q2, C \cup (n + 1 .. n + k))
<1>d. PICK D : D = C \cup (n + 1 .. n + k)
  OBVIOUS
<1>w. WithNext(D, C, n, k)
  BY <1>d DEF WithNext
<1>1. /\ Cardinality(D) = Cardinality(C) + k
      /\ \A i \in C : Place(D, i) = Place(C, i)
      /\ \A j \in 1 .. k : Place(D, n + j) = Cardinality(C) + j
  BY <1>w, PlaceAtEnd
<1>2. /\ Cardinality(S) \in Nat /\ \A i \in S : Place(S, i) \in 1 .. Cardinality(S)
      /\ Cardinality(C) \in Nat /\ \A i \in C : Place(C, i) \in 1 .. Cardinality(C)
  BY PlaceFacts
<1>3. \A i \in D : i \in C \/ \E j \in 1 .. k : i = n + j
  <2> SUFFICES ASSUME NEW i \in n + 1 .. n + k
               PROVE  i - n \in 1 .. k /\ i = n + (i - n)
    BY <1>d
  <2> QED
    OBVIOUS
<1>4. Len(r2) = Cardinality(S) + Cardinality(D)
  BY <1>1, <1>2 DEF Match, Agree, AgreeUp
<1>5. \A i \in S : r2[Place(S, i)] = log[i].msg
  <2>1. \A i \in S : Place(S, i) \in 1 .. Len(r)
    BY <1>2 DEF Match, Agree, AgreeUp
  <2> QED
    BY <2>1 DEF Match, Agree, AgreeUp
<1>6. ASSUME NEW i \in C
      PROVE  r2[Cardinality(S) + Place(D, i)] = q2[i]
  <2>1. Cardinality(S) + Place(D, i) = Cardinality(S) + Place(C, i)
    BY <1>1
  <2>2. Cardinality(S) + Place(C, i) \in 1 .. Len(r)
    BY <1>2 DEF Match, Agree, AgreeUp
  <2> QED
    BY <2>1, <2>2 DEF Match, Agree, AgreeUp
<1>7. ASSUME NEW j \in 1 .. k
      PROVE  r2[Cardinality(S) + Place(D, n + j)] = q2[n + j]
  <2>1. Cardinality(S) + Place(D, n + j) = Len(r) + j
    BY <1>1, <1>2 DEF Match, Agree, AgreeUp
  <2> QED
    BY <2>1 DEF AgreeNext
<1>8. \A i \in D : r2[Cardinality(S) + Place(D, i)] = q2[i]
  BY <1>3, <1>6, <1>7
<1> QED
  BY <1>d, <1>4, <1>5, <1>8 DEF Match, Agree, AgreeUp

LEMMA MatchCut ==
  ASSUME NEW m \in Nat, NEW S \in SUBSET (1 .. m), NEW C, NEW r, NEW log, NEW q,
         Match(r, log, S, q, C), NEW r2, Len(r2) = Cardinality(S),
         Agree(r2, r, 1 .. Cardinality(S)), NEW q2
  PROVE  Match(r2, log, S, q2, {})
<1>1. Cardinality({}) = 0 /\ Cardinality(S) \in Nat
  BY FS_EmptySet, PlaceFacts
<1>2. \A i \in S : Place(S, i) \in 1 .. Cardinality(S)
  BY PlaceFacts
<1>3. Len(r2) = Cardinality(S) + Cardinality({})
  BY <1>1
<1>4. \A i \in S : r2[Place(S, i)] = log[i].msg
  BY <1>2 DEF Match, Agree, AgreeUp
<1> QED
  BY <1>3, <1>4 DEF Match, Agree, AgreeUp

LEMMA MatchExtends ==
  ASSUME NEW S, NEW C, NEW r, NEW log, NEW q, Match(r, log, S, q, C),
         NEW log2, Agree(log2, log, S), NEW q2, Agree(q2, q, C)
  PROVE  Match(r, log2, S, q2, C)
BY DEF Match, Agree, AgreeUp
Matched(w) == Match(reports[w], Log, Seen(w), up[w], Coming(w))

LEMMA SeenOnceByMatch == ResultsSeenOnce <=> \A w \in Worker : Matched(w)
BY DEF ResultsSeenOnce, Matched, Match

LEMMA SeenFacts ==
  ASSUME TInv, NEW w
  PROVE  Seen(w) \in SUBSET (1 .. Len(Log)) /\ Len(Log) \in Nat
BY LogTypes DEF TInv, Seen

(* Whether a frame is for the host does not change. *)
LEMMA SeenUntouched ==
  ASSUME TInv, Grown, UNCHANGED Log, NEW w
  PROVE  Seen(w)' = Seen(w)
<1>1. \A i \in DOMAIN Log : Log[i].msg.n \in DOMAIN handed
  BY DEF TInv, Addressed, Proper
<1>2. \A i \in DOMAIN Log : handed'[Log[i].msg.n].by = handed[Log[i].msg.n].by
  BY <1>1 DEF Grown
<1> QED
  BY <1>2 DEF Seen, IsForHost

LEMMA ComingUntouched ==
  ASSUME TInv, Grown, NEW p \in WsPeer, up'[p] = up[p]
  PROVE  Coming(p)' = Coming(p)
<1>1. \A i \in DOMAIN up[p] : up[p][i].n \in DOMAIN handed
  BY DEF TInv, Addressed, Proper
<1>2. \A i \in DOMAIN up[p] : handed'[up[p][i].n].by = handed[up[p][i].n].by
  BY <1>1 DEF Grown
<1> QED
  BY <1>2 DEF Coming, IsForHost

LEMMA SeenAppends ==
  ASSUME TInv, UNCHANGED handed, NEW e \in Entry, Log' = Append(Log, e), NEW w
  PROVE  /\ Seen(w)' = IF e.from = w /\ IsForHost(e.msg) THEN Seen(w) \cup {Len(Log) + 1}
                                                        ELSE Seen(w)
         /\ \A i \in Seen(w) : Log'[i] = Log[i]
         /\ Log'[Len(Log) + 1] = e
<1>1. Log \in Seq(Entry)
  BY LogTypes DEF TInv
<1>2. /\ DOMAIN Log' = DOMAIN Log \cup {Len(Log) + 1}
      /\ \A i \in DOMAIN Log : Log'[i] = Log[i]
      /\ Log'[Len(Log) + 1] = e
  BY <1>1, AppendFacts
<1>3. Seen(w)' = {i \in DOMAIN Log' : Log'[i].from = w /\ IsForHost(Log'[i].msg)}
  BY DEF Seen, IsForHost
<1> QED
  BY <1>2, <1>3 DEF Seen

LEMMA AllMatched ==
  ASSUME \A w \in Worker : Matched(w)'
  PROVE  ResultsSeenOnce'
BY DEF ResultsSeenOnce, Matched, Match

(* The frames, the log and the reports of a worker stay as they are. *)
LEMMA MatchedUntouched ==
  ASSUME TInv, Grown, UNCHANGED Log, NEW w \in Worker, Matched(w),
         up'[w] = up[w], reports'[w] = reports[w]
  PROVE  Matched(w)'
<1>1. Seen(w)' = Seen(w) /\ Coming(w)' = Coming(w)
  BY SeenUntouched, ComingUntouched, PeerFacts
<1> QED
  BY <1>1 DEF Matched

LEMMA NothingSent ==
  ASSUME TInv, ResultsSeenOnce, Grown, UNCHANGED <<Log, up, reports>>
  PROVE  ResultsSeenOnce'
BY SeenOnceByMatch, MatchedUntouched, AllMatched

LEMMA HandleCommandSeen ==
  ASSUME TInv, ResultsSeenOnce, NEW p \in WsPeer, HandleCommand(p)
  PROVE  ResultsSeenOnce'
<1>f. PICK f : f = up[p][1]
  OBVIOUS
<1>1. /\ up[p] # <<>>
      /\ up' = [up EXCEPT ![p] = Tail(up[p])]
      /\ UNCHANGED <<handed, taken, reports>>
      /\ Dropped(f) \/ Relayed(f) \/ Delivered(p, f)
  BY <1>f, HandleCases
<1>2. f \in Frame /\ Proper(handed, p, f) /\ up[p] \in Seq(Frame) /\ up \in [WsPeer -> Seq(Frame)]
  BY <1>f, <1>1, FrameFacts DEF TInv, TypeOK
<1>e. PICK e \in Entry : e = [from |-> p, msg |-> f]
  BY <1>2 DEF Entry
<1>3. e.from = p /\ e.msg = f
  BY <1>e
<1>4. Delivered(p, f) => Log' = Append(Log, e)
  BY <1>1, <1>2, <1>e, DeliveredFacts
<1>5. ~Delivered(p, f) => UNCHANGED Log /\ ~IsForHost(f)
  BY <1>1, LogUntouched DEF Dropped, Relayed, IsForHost, IsResult
<1>6. Grown
  BY <1>1 DEF Grown
<1> SUFFICES ASSUME NEW w \in Worker
             PROVE  Matched(w)'
  BY AllMatched
<1>7. Matched(w) /\ w \in WsPeer
  BY SeenOnceByMatch, PeerFacts
<1>8. CASE w # p
  <2>1. up'[w] = up[w] /\ Coming(w)' = Coming(w)
    BY <1>1, <1>2, <1>6, <1>7, <1>8, ComingUntouched
  <2>2. Seen(w)' = Seen(w) /\ \A i \in Seen(w) : Log'[i] = Log[i]
    BY <1>1, <1>3, <1>4, <1>5, <1>6, <1>8, SeenAppends, SeenUntouched
  <2> QED
    BY <1>1, <1>7, <2>1, <2>2, MatchExtends DEF Matched, Agree
<1>9. CASE w = p
  <2> DEFINE n == Len(up[p])
  <2>1. /\ n \in Nat /\ DOMAIN up[p] = 1 .. n /\ Coming(p) \in SUBSET (1 .. n)
        /\ DOMAIN Tail(up[p]) = 1 .. n - 1 /\ 1 \in 1 .. n
        /\ \A i \in 1 .. n - 1 : Tail(up[p])[i] = up[p][i + 1]
    <3>1. Tail(up[p]) \in Seq(Frame) /\ Len(Tail(up[p])) = n - 1
      BY <1>1, <1>2, HeadTailProperties
    <3>2. DOMAIN Tail(up[p]) = 1 .. n - 1
      BY <3>1, LenProperties
    <3>3. 1 \in DOMAIN up[p] /\ \A i \in DOMAIN Tail(up[p]) : Tail(up[p])[i] = up[p][i + 1]
      BY <1>1, <1>2, TailFacts
    <3> QED
      BY <3>2, <3>3, ComingFacts
  <2>2. up'[p] = Tail(up[p])
    BY <1>1, <1>2
  <2>3. \A g : IsForHost(g)' <=> IsForHost(g)
    BY <1>1 DEF IsForHost
  <2>4. Coming(p)' = {i \in DOMAIN up'[p] : IsForHost(up'[p][i])}
    BY <1>1 DEF Coming, IsForHost
  <2> HIDE DEF n
  <2>5. \A i \in 1 .. n - 1 : i + 1 \in 1 .. n /\ (IsForHost(up'[p][i]) <=> i + 1 \in Coming(p))
    BY <2>1, <2>2 DEF Coming
  <2>6. Coming(p)' = {i \in 1 .. n : i + 1 \in Coming(p)}
    <3>1. \A i \in 1 .. n : i + 1 \in Coming(p) => i \in 1 .. n - 1
      BY <2>1
    <3>2. \A i \in 1 .. n - 1 : i \in 1 .. n
      BY <2>1
    <3> QED
      BY <2>1, <2>2, <2>4, <2>5, <3>1, <3>2
  <2>7. \A i \in Coming(p)' : up'[p][i] = up[p][i + 1]
    BY <2>1, <2>2, <2>4
  <2>8. 1 \in Coming(p) <=> IsForHost(f)
    BY <1>f, <2>1 DEF Coming
  <2>9. Seen(p) \in SUBSET (1 .. Len(Log)) /\ Len(Log) \in Nat
    BY SeenFacts
  <2>c. PICK m, l, r, log, log2, q, q2, C, D, S :
          /\ m = Len(Log) /\ l = n /\ r = reports[p] /\ log = Log /\ log2 = Log' /\ q = up[p]
          /\ q2 = up'[p] /\ C = Coming(p) /\ D = Coming(p)' /\ S = Seen(p)
    OBVIOUS
  <2>m. /\ Match(r, log, S, q, C) /\ m \in Nat /\ S \in SUBSET (1 .. m)
        /\ l \in Nat /\ C \in SUBSET (1 .. l)
        /\ MovedUp(D, C, l) /\ AgreeUp(q2, q, D)
    BY <1>7, <1>9, <2>1, <2>6, <2>7, <2>9, <2>c DEF Matched, MovedUp, AgreeUp
  <2>10. CASE IsForHost(f)
    <3>1. Log' = Append(Log, e)
      BY <1>4, <1>5, <2>10
    <3>2. /\ Seen(p)' = Seen(p) \cup {Len(Log) + 1}
          /\ \A i \in Seen(p) : Log'[i] = Log[i]
          /\ Log'[Len(Log) + 1].msg = up[p][1]
      BY <1>1, <1>3, <1>f, <2>10, <3>1, SeenAppends
    <3>3. Match(reports[p], Log', Seen(p) \cup {Len(Log) + 1}, up'[p], Coming(p)')
      <4>1. 1 \in C /\ Agree(log2, log, S) /\ log2[m + 1].msg = q[1]
        BY <2>8, <2>10, <2>c, <3>2 DEF Agree
      <4>2. Match(r, log2, S \cup {m + 1}, q2, D)
        BY <2>m, <4>1, MatchMoves
      <4> QED
        BY <2>c, <4>2
    <3> QED
      BY <1>1, <1>9, <3>2, <3>3 DEF Matched
  <2>11. CASE ~IsForHost(f)
    <3>1. Seen(p)' = Seen(p) /\ \A i \in Seen(p) : Log'[i] = Log[i]
      BY <1>1, <1>3, <1>4, <1>5, <1>6, <2>11, SeenAppends, SeenUntouched
    <3>2. Match(reports[p], Log', Seen(p), up'[p], Coming(p)')
      <4>1. 1 \notin C /\ Agree(log2, log, S)
        BY <2>8, <2>11, <2>c, <3>1 DEF Agree
      <4>2. Match(r, log2, S, q2, D)
        BY <2>m, <4>1, MatchDrops
      <4> QED
        BY <2>c, <4>2
    <3> QED
      BY <1>1, <1>9, <3>1, <3>2 DEF Matched
  <2> QED
    BY <2>10, <2>11
<1> QED
  BY <1>8, <1>9

LEMMA SocketClosedSeen ==
  ASSUME TInv, ResultsSeenOnce, NEW p \in WsPeer, SocketClosed(p)
  PROVE  ResultsSeenOnce'
<1>1. /\ up' = [up EXCEPT ![p] = <<>>]
      /\ reports' = [w \in Worker |->
           IF w = p THEN SubSeq(reports[w], 1, Len(reports[w]) - Cardinality(Coming(p)))
                    ELSE reports[w]]
      /\ UNCHANGED <<handed, inbox, taken>>
  BY DEF SocketClosed, hostVars
<1>2. up \in [WsPeer -> Seq(Frame)] /\ reports \in [Worker -> Seq(Frame)]
  BY DEF TInv, TypeOK
<1>3. Grown /\ UNCHANGED Log
  BY <1>1, LogUntouched DEF Grown
<1> SUFFICES ASSUME NEW w \in Worker
             PROVE  Matched(w)'
  BY AllMatched
<1>4. Matched(w) /\ w \in WsPeer /\ Seen(w)' = Seen(w)
  BY <1>3, SeenOnceByMatch, PeerFacts, SeenUntouched
<1>5. CASE w # p
  BY <1>1, <1>2, <1>3, <1>4, <1>5, MatchedUntouched
<1>6. CASE w = p
  <2>1. up'[w] = <<>> /\ DOMAIN up'[w] = {}
    BY <1>1, <1>2, <1>4, <1>6
  <2>2. Coming(w)' = {}
    BY <2>1 DEF Coming
  <2>3. /\ Seen(w) \in SUBSET (1 .. Len(Log)) /\ Len(Log) \in Nat
        /\ Cardinality(Seen(w)) \in Nat /\ Cardinality(Coming(w)) \in Nat
    BY <1>4, SeenFacts, PlaceFacts, ComingFacts
  <2>4. Len(reports[w]) - Cardinality(Coming(p)) = Cardinality(Seen(w))
    BY <1>4, <1>6, <2>3 DEF Matched, Match
  <2>5. reports'[w] = SubSeq(reports[w], 1, Cardinality(Seen(w)))
    BY <1>1, <1>6, <2>4
  <2>c. PICK c \in Nat : c = Cardinality(Seen(w))
    BY <2>3
  <2>6. \A i \in 1 .. c : reports[w][i] \in Frame
    <3>1. DOMAIN reports[w] = 1 .. Len(reports[w]) /\ Len(reports[w]) \in Nat
      BY <1>2, LenProperties
    <3>2. c <= Len(reports[w])
      BY <1>4, <2>3, <2>c DEF Matched, Match
    <3>3. \A i \in 1 .. c : i \in DOMAIN reports[w]
      BY <3>1, <3>2
    <3> QED
      BY <1>2, <3>3
  <2>7. Len(reports'[w]) = c /\ \A i \in 1 .. c : reports'[w][i] = reports[w][i]
    <3>s. PICK s : s = reports[w]
      OBVIOUS
    <3>1. /\ Len(SubSeq(s, 1, c)) = IF 1 <= c THEN c - 1 + 1 ELSE 0
          /\ \A i \in 1 .. c - 1 + 1 : SubSeq(s, 1, c)[i] = s[1 + i - 1]
      BY <2>6, <3>s, SubSeqProperties
    <3>2. Len(SubSeq(s, 1, c)) = c /\ \A i \in 1 .. c : SubSeq(s, 1, c)[i] = s[i]
      BY <3>1
    <3> QED
      BY <2>5, <2>c, <3>2, <3>s
  <2>8. Match(reports'[w], Log, Seen(w), up'[w], {})
    BY <1>4, <2>3, <2>7, <2>c, MatchCut DEF Matched, Agree
  <2> QED
    BY <1>3, <1>4, <2>2, <2>8 DEF Matched
<1> QED
  BY <1>5, <1>6

LEMMA JobEndsSeen ==
  ASSUME TInv, ResultsSeenOnce, NEW v \in Worker, NEW n \in 1 .. Len(handed), JobEnds(v, n)
  PROVE  ResultsSeenOnce'
<1>1. UNCHANGED <<handed, inbox, taken>>
  BY JobEndsFacts
<1>2. PICK k \in {"done", "failed"}, F \in Seq(Frame) : Reported(v, n, k, F)
  BY JobEndsFacts
<1>3. /\ \A i \in DOMAIN F : F[i] = [kind |-> k, n |-> n]
      /\ up' = [up EXCEPT ![v] = up[v] \o F]
      /\ reports' = [reports EXCEPT ![v] = IF handed[n].by = Host THEN reports[v] \o F
                                                                ELSE reports[v]]
  BY <1>2 DEF Reported
<1>4. up \in [WsPeer -> Seq(Frame)] /\ reports \in [Worker -> Seq(Frame)] /\ v \in WsPeer
  BY PeerFacts DEF TInv, TypeOK
<1>5. Grown /\ UNCHANGED Log
  BY <1>1, LogUntouched DEF Grown
<1> SUFFICES ASSUME NEW w \in Worker
             PROVE  Matched(w)'
  BY AllMatched
<1>6. Matched(w) /\ w \in WsPeer /\ Seen(w)' = Seen(w)
  BY <1>5, SeenOnceByMatch, PeerFacts, SeenUntouched
<1>7. CASE w # v
  BY <1>3, <1>4, <1>5, <1>6, <1>7, MatchedUntouched
<1>8. CASE w = v
  <2>m. PICK m \in Nat : m = Len(up[w])
    BY <1>6, ComingFacts
  <2>k. PICK c \in Nat : c = Len(F)
    BY LenProperties
  <2>1. /\ up'[w] = up[w] \o F /\ DOMAIN up'[w] = 1 .. m + c /\ DOMAIN up[w] = 1 .. m
        /\ \A i \in 1 .. m : up'[w][i] = up[w][i]
        /\ \A j \in 1 .. c : up'[w][m + j] = [kind |-> k, n |-> n]
    <3>1. up'[w] = up[w] \o F /\ up[w] \in Seq(Frame)
      BY <1>3, <1>4, <1>8
    <3>2. /\ DOMAIN up[w] = 1 .. m /\ DOMAIN F = 1 .. c
          /\ DOMAIN (up[w] \o F) = 1 .. m + c
          /\ \A i \in DOMAIN up[w] : (up[w] \o F)[i] = up[w][i]
          /\ \A j \in DOMAIN F : (up[w] \o F)[m + j] = F[j]
      BY <2>k, <2>m, <3>1, ConcatFacts
    <3> QED
      BY <1>3, <3>1, <3>2
  <2>2. Coming(w) \in SUBSET (1 .. m) /\ Seen(w) \in SUBSET (1 .. Len(Log)) /\ Len(Log) \in Nat
    BY <1>6, <2>m, ComingFacts, SeenFacts
  <2>3. IsForHost([kind |-> k, n |-> n]) <=> handed[n].by = Host
    BY DEF IsForHost, IsResult
  <2>4. Coming(w)' = {i \in DOMAIN up'[w] : IsForHost(up'[w][i])}
    BY <1>1 DEF Coming, IsForHost
  <2>5. \A i \in 1 .. m + c : i \in 1 .. m \/ (i \in m + 1 .. m + c /\ i - m \in 1 .. c /\ i = m + (i - m))
    OBVIOUS
  <2>6. \A i \in m + 1 .. m + c : i \in 1 .. m + c /\ i \notin 1 .. m /\ up'[w][i] = [kind |-> k, n |-> n]
    <3>1. \A i \in m + 1 .. m + c : i \in 1 .. m + c /\ i \notin 1 .. m /\ i - m \in 1 .. c /\ i = m + (i - m)
      OBVIOUS
    <3> QED
      BY <2>1, <3>1
  <2>7. \A i \in 1 .. m : i \in 1 .. m + c /\ (IsForHost(up'[w][i]) <=> i \in Coming(w))
    BY <2>1 DEF Coming
  <2>8. \A i \in Coming(w) : up'[w][i] = up[w][i]
    BY <2>1, <2>2
  <2>9. CASE handed[n].by = Host
    <3>1. Coming(w)' = Coming(w) \cup (m + 1 .. m + c)
      BY <2>1, <2>2, <2>3, <2>4, <2>5, <2>6, <2>7, <2>9
    <3>2. reports'[w] = reports[w] \o F /\ reports[w] \in Seq(Frame)
      BY <1>3, <1>4, <1>8, <2>9
    <3>3. /\ Len(reports'[w]) = Len(reports[w]) + c
          /\ \A i \in 1 .. Len(reports[w]) : reports'[w][i] = reports[w][i]
          /\ \A j \in 1 .. c : reports'[w][Len(reports[w]) + j] = F[j]
      BY <2>k, <3>2, ConcatFacts
    <3>4. \A j \in 1 .. c : F[j] = up'[w][m + j]
      BY <1>3, <2>1, <2>k, LenProperties
    <3>5. Match(reports'[w], Log, Seen(w), up'[w], Coming(w) \cup (m + 1 .. m + c))
      <4>r. PICK r, r2, q, q2, C, S :
              /\ r = reports[w] /\ r2 = reports'[w] /\ q = up[w] /\ q2 = up'[w]
              /\ C = Coming(w) /\ S = Seen(w)
        OBVIOUS
      <4>1. Match(r, Log, S, q, C) /\ C \in SUBSET (1 .. m) /\ S \in SUBSET (1 .. Len(Log))
        BY <1>6, <2>2, <4>r DEF Matched
      <4>2. /\ Len(r2) = Len(r) + c
            /\ Agree(r2, r, 1 .. Len(r))
            /\ AgreeNext(r2, Len(r), q2, m, c)
            /\ Agree(q2, q, C)
        BY <2>8, <3>3, <3>4, <4>r DEF Agree, AgreeNext
      <4>3. Match(r2, Log, S, q2, C \cup (m + 1 .. m + c))
        BY <2>2, <4>1, <4>2, MatchReports
      <4> QED
        BY <4>3, <4>r
    <3> QED
      BY <1>5, <1>6, <3>1, <3>5 DEF Matched
  <2>10. CASE handed[n].by # Host
    <3>1. Coming(w)' = Coming(w)
      BY <2>1, <2>2, <2>3, <2>4, <2>5, <2>6, <2>7, <2>10
    <3>2. reports'[w] = reports[w]
      BY <1>3, <1>4, <1>8, <2>10
    <3> QED
      BY <1>5, <1>6, <2>8, <3>1, <3>2, MatchExtends DEF Matched, Agree
  <2> QED
    BY <2>9, <2>10
<1> QED
  BY <1>7, <1>8

LEMMA SeenOnceStep == TInv /\ ResultsSeenOnce /\ [Next]_vars => ResultsSeenOnce'
<1> SUFFICES ASSUME TInv, ResultsSeenOnce, [Next]_vars
             PROVE  ResultsSeenOnce'
  OBVIOUS
<1>0. TypeOK /\ Host \in Peer
  BY PeerFacts DEF TInv
<1>1. CASE UNCHANGED vars
  BY <1>1, NothingSent, Unmoved, LogUntouched DEF vars, hostVars
<1>2. ASSUME NEW p \in WsPeer, NEW r \in Room, Arrive(p, r)
      PROVE  ResultsSeenOnce'
  BY <1>2, NothingSent, Unmoved, LogUntouched DEF Arrive, hostVars
<1>3. ASSUME NEW p \in WsPeer, HandleCommand(p)
      PROVE  ResultsSeenOnce'
  BY <1>3, HandleCommandSeen
<1>4. ASSUME NEW p \in WsPeer, SocketClosed(p)
      PROVE  ResultsSeenOnce'
  BY <1>4, SocketClosedSeen
<1>5. ASSUME NEW p \in WsPeer, Gone(p)
      PROVE  ResultsSeenOnce'
  BY <1>5, NothingSent, Unmoved, LogUntouched DEF Gone, hostVars
<1>6. ASSUME NEW p \in WsPeer, NEW id \in HostTask \cup {NoId}, Send(id, p)
      PROVE  ResultsSeenOnce'
  <2>1. PICK to : to = {q \in {p} : Connected(q)}
    OBVIOUS
  <2>2. /\ id \in DataId /\ to \in SUBSET Peer /\ HandOut(id, Host, to)
        /\ UNCHANGED <<up, inbox, taken, reports>>
    BY <1>6, <2>1, SendFacts
  <2> QED
    BY <1>0, <2>2, HandOutFacts, NothingSent, LogUntouched
<1>7. ASSUME NEW r \in Room, McpCreateRoom(r)
      PROVE  ResultsSeenOnce'
  BY <1>7, NothingSent, Unmoved, LogUntouched DEF McpCreateRoom, hostVars
<1>8. ASSUME NEW r \in Room, NEW id \in HostTask \cup {NoId}, NEW exclude \in {{}, {Host}},
             Broadcast(id, r, exclude)
      PROVE  ResultsSeenOnce'
  <2>1. PICK to : to = {q \in Targets(r, exclude) : Connected(q)}
    OBVIOUS
  <2>2. /\ id \in DataId /\ to \in SUBSET Peer /\ HandOut(id, Host, to)
        /\ UNCHANGED <<up, inbox, taken, reports>>
    BY <1>8, <2>1, BroadcastFacts
  <2> QED
    BY <1>0, <2>2, HandOutFacts, NothingSent, LogUntouched
<1>9. CASE Poll
  <2>1. UNCHANGED <<handed, up, reports>>
    BY <1>9 DEF Poll
  <2> QED
    BY <1>9, <2>1, Unmoved, LogPolled, NothingSent DEF TInv
<1>10. ASSUME NEW w \in Worker, RunTask(w)
       PROVE  ResultsSeenOnce'
  BY <1>10, NothingSent, Unmoved, LogUntouched DEF RunTask, hostVars
<1>11. ASSUME NEW w \in Worker, NEW n \in 1 .. Len(handed), JobEnds(w, n)
       PROVE  ResultsSeenOnce'
  BY <1>11, JobEndsSeen
<1>12. ASSUME NEW w \in Worker, NEW l \in Lead, NEW id \in LeadTask \cup {NoId}, LeadAssigns(l, id, w)
       PROVE  ResultsSeenOnce'
  <2>1. /\ HandOut(id, l, {w})
        /\ up' = [up EXCEPT ![l] = Append(up[l], [kind |-> "task", n |-> Len(handed) + 1])]
        /\ UNCHANGED <<inbox, taken, reports>>
    BY <1>12 DEF LeadAssigns, hostVars
  <2>2. id \in DataId /\ l \in Peer /\ {w} \in SUBSET Peer
    BY PeerFacts DEF DataId, GivenId
  <2>3. Grown /\ UNCHANGED Log
    BY <1>0, <2>1, <2>2, HandOutFacts, LogUntouched
  <2>4. \A v \in Worker : up'[v] = up[v]
    BY <1>0, <2>1, PeerFacts DEF TypeOK
  <2>5. \A v \in Worker : Matched(v)'
    BY <2>1, <2>3, <2>4, SeenOnceByMatch, MatchedUntouched
  <2> QED
    BY <2>5, AllMatched
<1> QED
  BY <1>1, <1>2, <1>3, <1>4, <1>5, <1>6, <1>7, <1>8, <1>9, <1>10, <1>11, <1>12 DEF Next

(* Every result a worker sends to the host is seen by the client once and  *)
(* in order, whatever is lost, queued or polled in between.                *)
THEOREM SeenOnceInOrder == Spec => []ResultsSeenOnce
<1>1. Init => ResultsSeenOnce
  <2> SUFFICES ASSUME Init
               PROVE  ResultsSeenOnce
    OBVIOUS
  <2>1. Log = <<>> /\ \A w \in Worker : up[w] = <<>> /\ reports[w] = <<>>
    BY PeerFacts DEF Init, Log
  <2>2. DOMAIN <<>> = {} /\ Len(<<>>) = 0 /\ Cardinality({}) = 0
    BY FS_EmptySet
  <2>3. \A w \in Worker : Seen(w) = {} /\ Coming(w) = {}
    BY <2>1, <2>2 DEF Seen, Coming
  <2>4. ASSUME NEW w \in Worker
        PROVE  Matched(w)
    <3>1. Match(<<>>, Log, {}, <<>>, {})
      BY <2>2 DEF Match
    <3> QED
      BY <2>1, <2>3, <3>1 DEF Matched
  <2> QED
    BY <2>4, SeenOnceByMatch
<1> QED
  BY <1>1, SeenOnceStep, InvariantHolds, PTL DEF Spec
=============================================================================
