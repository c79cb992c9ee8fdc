------------------------------ MODULE TaskFlow ------------------------------
(***************************************************************************)
(* Tasks on their way from the host to the agent workers and their results *)
(* on the way back: webrtc_send, webrtc_broadcast, webrtc_poll and the     *)
(* inbox of the MCP handler (src/mcp-handler.ts), the command relay of the *)
(* hub (src/signaling/ws-server.ts) and scripts/agent-worker.mjs.          *)
(*                                                                         *)
(* The registry of the hub is reduced to conn, and a member to one room:   *)
(* WsSignaling has the details.  Each direction of a connection is a FIFO  *)
(* queue that is lost with it.  Agent workers have no DataChannel and the  *)
(* worker pool no assigned peer, so that deliver() comes down to the relay.*)
(*                                                                         *)
(* Every call that hands out a task gets a number, its index in handed.    *)
(* The code does not have it: it tells tasks apart by their id.  A task    *)
(* handed out without an id gets one from the handler, for its entry, and  *)
(* another from each worker that runs it, for its results: each reads its  *)
(* own clock.                                                              *)
(***************************************************************************)
EXTENDS Integers, Sequences, FiniteSets, Functions

CONSTANTS
  Peer, Room, NoPeer, MaxRooms, MaxPeersPerRoom,   (* as in Rooms            *)
  Host,            (* the id "host" the MCP client goes by                   *)
  Worker,          (* the ids of agent workers                               *)
  Lead,            (* the ids of WebSocket clients that assign tasks         *)
  HostTask,        (* the task ids the host gives                            *)
  LeadTask,        (* the task ids the leads give                            *)
  NoId,            (* the id of a task that is given none                    *)
  Reading,         (* the readings of the clocks, in milliseconds            *)
  ReuseIds,        (* whether a given id may be given again                  *)
  MaxHanded,       (* bound: tasks handed out                                *)
  MaxFanOuts,      (* bound: those of them relayed to several peers          *)
  MaxNameless,     (* bound: those of them given no id                       *)
  MaxArrivals      (* bound: connections made                                *)

WsPeer == Worker \cup Lead

(* `T-${Date.now()}' and `BC-${Date.now()}' *)
MadeUp(prefix) == {prefix} \X Reading

GivenId == HostTask \cup LeadTask
TaskId == GivenId \cup MadeUp("T") \cup MadeUp("BC")

(* The limits are those of module Rooms.  Nobody gives an id that looks    *)
(* like one that is made up.                                               *)
ASSUME TaskAssumption ==
  /\ NoPeer \notin Peer
  /\ MaxRooms \in Nat
  /\ MaxPeersPerRoom \in Nat \ {0}
  /\ Host \in Peer
  /\ Worker \cup Lead = Peer \ {Host}
  /\ Worker \cap Lead = {}
  /\ GivenId \cap (MadeUp("T") \cup MadeUp("BC")) = {}
  /\ NoId \notin TaskId
  /\ ReuseIds \in BOOLEAN
  /\ MaxHanded \in Nat
  /\ MaxFanOuts \in Nat
  /\ MaxNameless \in Nat
  /\ MaxArrivals \in Nat

VARIABLES
  rooms, peers, principal, peerToRooms,   (* the RoomManager                 *)
  conn,        (* conn[p]: "on"; "dying" when p is gone and the hub does     *)
               (* not know yet; "off"                                        *)
  arrivals,    (* connections made so far, for the bound                     *)
  down,        (* down[w]: the tasks relayed to w that it has not read       *)
  up,          (* up[p]: the command frames of p the hub has not handled     *)
  running,     (* running[w]: the tasks w has a child process for            *)
  named,       (* named[w][n]: the id under which w runs task n              *)
  handed,      (* handed[n]: id and assigner of the n-th task, and the peers *)
               (* it was addressed to; of the host's, those it was relayed to*)
  tasks,       (* tasks[id]: the handler's entry; status "none" if there is  *)
               (* no entry                                                   *)
  inbox,       (* the handler's inbox                                        *)
  taken,       (* what webrtc_poll took out of the inbox.  Observed only.    *)
  reports,     (* reports[w]: the results for the host that w sent, except   *)
               (* those lost with a connection.  Observed only.              *)
  lost         (* the <<n, w>> lost with a connection of w.  Observed only.  *)

roomVars == <<rooms, peers, principal, peerToRooms>>
hostVars == <<tasks, inbox, taken>>
vars == <<roomVars, conn, arrivals, down, up, running, named, handed, hostVars, reports, lost>>

RM == INSTANCE Rooms

Init ==
  /\ RM!Init
  /\ conn = [p \in WsPeer |-> "off"]
  /\ arrivals = 0
  /\ down = [w \in Worker |-> <<>>]
  /\ up = [p \in WsPeer |-> <<>>]
  /\ running = [w \in Worker |-> {}]
  /\ named = [w \in Worker |-> [n \in 1 .. MaxHanded |-> NoId]]
  /\ handed = <<>>
  /\ tasks = [id \in TaskId |-> [to |-> {}, status |-> "none"]]
  /\ inbox = <<>>
  /\ taken = <<>>
  /\ reports = [w \in Worker |-> <<>>]
  /\ lost = {}

-----------------------------------------------------------------------------
(* The hub                                                                 *)

(* relayToPeer finds a registered peer whose socket it believes open. *)
Connected(p) == p \in WsPeer /\ conn[p] # "off"

(* Task n is relayed to those of S that are connected.  Nobody reads what  *)
(* is sent to a dying peer, and a lead does not run tasks.                 *)
Relay(S, n) ==
  /\ down' = [w \in Worker |-> IF w \in S /\ conn[w] = "on" THEN Append(down[w], n)
                                                            ELSE down[w]]
  /\ lost' = lost \cup {<<n, w>> : w \in {v \in S \cap Worker : conn[v] = "dying"}}

IsResult(frame) == frame.kind \in {"done", "failed"}

\* Mutant: a result settles the task whatever it says.
StatusOnAnyResult(frame) == "done"

StatusOnResult(frame) == IF frame.kind = "done" THEN "done" ELSE "in_progress"

\* Mutant: the message that settles a task is not shown to the client.
InboundConsumesResults(p, frame) ==
  LET id == named[p][frame.n]
      settles == IsResult(frame) /\ tasks[id].status # "none"
  IN /\ inbox' = IF settles THEN inbox ELSE Append(inbox, [from |-> p, msg |-> frame])
     /\ tasks' = IF settles THEN [tasks EXCEPT ![id].status = StatusOnResult(frame)] ELSE tasks

(* onInboundMessage, for a frame that is not WebRTC signaling. *)
OnInboundMessage(p, frame) ==
  LET id == named[p][frame.n]
  IN /\ inbox' = Append(inbox, [from |-> p, msg |-> frame])
     /\ tasks' = IF IsResult(frame) /\ tasks[id].status # "none"
                 THEN [tasks EXCEPT ![id].status = StatusOnResult(frame)]
                 ELSE tasks

(* _handleCommand with a task: only from the principal of the sender's     *)
(* room.  A task that cannot be relayed goes to the host.                  *)
RelayTask(p, frame) ==
  LET to == handed[frame.n].to
      allowed == \E r \in peerToRooms[p] : principal[r] = p
      reached == \E q \in to : Connected(q)
  IN /\ IF allowed /\ reached THEN Relay(to, frame.n) ELSE UNCHANGED <<down, lost>>
     /\ IF allowed /\ ~reached THEN OnInboundMessage(p, frame) ELSE UNCHANGED <<inbox, tasks>>

(* _handleCommand with a result: it goes back to the assigner, and to the  *)
(* host if the assigner is not connected.                                  *)
RelayResult(p, frame) ==
  /\ IF Connected(handed[frame.n].by)
     THEN UNCHANGED <<inbox, tasks>>
     ELSE OnInboundMessage(p, frame)
  /\ UNCHANGED <<down, lost>>

HandleCommand(p) ==
  /\ up[p] # <<>>
  /\ up' = [up EXCEPT ![p] = Tail(@)]
  /\ IF IsResult(Head(up[p])) THEN RelayResult(p, Head(up[p])) ELSE RelayTask(p, Head(up[p]))
  /\ UNCHANGED <<roomVars, conn, arrivals, running, named, handed, taken, reports>>

(* A peer connects and joins a room that has space for it. *)
Arrive(p, r) ==
  /\ conn[p] = "off"
  /\ arrivals < MaxArrivals
  /\ arrivals' = arrivals + 1
  /\ RM!JoinAccepted(r, p)
  /\ conn' = [conn EXCEPT ![p] = "on"]
  /\ UNCHANGED <<down, up, running, named, handed, hostVars, reports, lost>>

IsForHost(frame) == IsResult(frame) /\ handed[frame.n].by = Host

(* The positions of results for the host among the frames of p to come. *)
Coming(p) == {i \in DOMAIN up[p] : IsForHost(up[p][i])}

(* The close event: frames of p that did not make it are lost. *)
SocketClosed(p) ==
  LET dropped == Range(up[p])
  IN /\ conn[p] = "dying"
     /\ conn' = [conn EXCEPT ![p] = "off"]
     /\ RM!Leave(peerToRooms[p], p)
     /\ up' = [up EXCEPT ![p] = <<>>]
     /\ lost' = lost \cup {<<f.n, p>> : f \in {g \in dropped : IsResult(g)}}
     /\ reports' = [w \in Worker |->
          IF w = p THEN SubSeq(reports[w], 1, Len(reports[w]) - Cardinality(Coming(p))) ELSE reports[w]]
     /\ UNCHANGED <<arrivals, down, running, named, handed, hostVars>>

-----------------------------------------------------------------------------
(* The MCP tools                                                           *)

(* webrtc_create_room *)
McpCreateRoom(r) ==
  /\ RM!JoinAccepted(r, Host)
  /\ UNCHANGED <<conn, arrivals, down, up, running, named, handed, hostVars, reports, lost>>

(* canAssignTo: no room of the peer has a principal other than the host. *)
CanAssignTo(p) == \A r \in peerToRooms[p] : principal[r] \in {NoPeer, Host}

HandOut(id, by, to) ==
  /\ Len(handed) < MaxHanded
  /\ handed' = Append(handed, [id |-> id, by |-> by, to |-> to])

Nameless == {n \in DOMAIN handed : handed[n].id = NoId}

Fresh(id) ==
  IF id = NoId THEN Cardinality(Nameless) < MaxNameless
               ELSE ReuseIds \/ \A n \in DOMAIN handed : handed[n].id # id

(* The id in the data of a task or, for want of one, one that is made up.  *)
OrMadeUp(id, prefix) == IF id = NoId THEN MadeUp(prefix) ELSE {id}

(* webrtc_send, when it is allowed.  The entry is made after the delivery, *)
(* in the same turn of the event loop, under an id that the message does   *)
(* not carry when it was made up.                                          *)
Send(id, p) ==
  /\ Fresh(id)
  /\ CanAssignTo(p)
  /\ HandOut(id, Host, {q \in {p} : Connected(q)})
  /\ Relay({p}, Len(handed) + 1)
  /\ \E key \in OrMadeUp(id, "T") : tasks' = [tasks EXCEPT ![key] =
       [to |-> {p}, status |-> IF Connected(p) THEN "sent" ELSE "failed"]]
  /\ UNCHANGED <<roomVars, conn, arrivals, up, running, named, inbox, taken, reports>>

FanOuts == {n \in DOMAIN handed : Cardinality(handed[n].to) > 1}

(* webrtc_broadcast to a room: to all of its members or to none.  One      *)
(* entry stands for all targets, the host itself among them.               *)
Broadcast(id, r, exclude) ==
  LET targets == RM!Members(r) \ exclude
      failed == {p \in targets : ~Connected(p)}
  IN /\ Fresh(id)
     /\ Cardinality(FanOuts) < MaxFanOuts
     /\ \A p \in targets : CanAssignTo(p)
     /\ HandOut(id, Host, targets \ failed)
     /\ Relay(targets, Len(handed) + 1)
     /\ \E key \in OrMadeUp(id, "BC") : tasks' = [tasks EXCEPT ![key] =
          [to |-> targets, status |-> IF failed = {} THEN "sent" ELSE "partial"]]
     /\ UNCHANGED <<roomVars, conn, arrivals, up, running, named, inbox, taken, reports>>

\* Mutant: polling does not empty the inbox.
PollKeepsInbox ==
  /\ inbox # <<>>
  /\ taken' = taken \o inbox
  /\ UNCHANGED <<roomVars, conn, arrivals, down, up, running, named, handed, inbox, tasks, reports, lost>>

(* webrtc_poll.  Without `clear' it changes nothing. *)
Poll ==
  /\ inbox # <<>>
  /\ taken' = taken \o inbox
  /\ inbox' = <<>>
  /\ UNCHANGED <<roomVars, conn, arrivals, down, up, running, named, handed, tasks, reports, lost>>

-----------------------------------------------------------------------------
(* The WebSocket peers                                                     *)

(* A lead sends a task to a worker, whoever is principal. *)
LeadAssigns(l, id, w) ==
  /\ conn[l] = "on"
  /\ Fresh(id)
  /\ HandOut(id, l, {w})
  /\ up' = [up EXCEPT ![l] = Append(@, [kind |-> "task", n |-> Len(handed) + 1])]
  /\ UNCHANGED <<roomVars, conn, arrivals, down, running, named, hostVars, reports, lost>>

(* The worker reads a task and spawns a child process for it at once,      *)
(* under the id in the data or one of its own.                             *)
RunTask(w) ==
  /\ conn[w] = "on"
  /\ down[w] # <<>>
  /\ down' = [down EXCEPT ![w] = Tail(@)]
  /\ running' = [running EXCEPT ![w] = @ \cup {Head(down[w])}]
  /\ \E id \in OrMadeUp(handed[Head(down[w])].id, "T") :
       named' = [named EXCEPT ![w][Head(down[w])] = id]
  /\ UNCHANGED <<roomVars, conn, arrivals, up, handed, hostVars, reports, lost>>

(* report: a result frame to the assigner, for every kind in the sequence. *)
Report(w, n, kinds) ==
  LET frames == [i \in DOMAIN kinds |-> [kind |-> kinds[i], n |-> n]]
  IN /\ up' = [up EXCEPT ![w] = @ \o frames]
     /\ reports' = [reports EXCEPT ![w] = IF handed[n].by = Host THEN @ \o frames ELSE @]

\* Mutant: a task that fails is not reported.
JobEndsQuietly(w, n) ==
  /\ n \in running[w]
  /\ running' = [running EXCEPT ![w] = @ \ {n}]
  /\ Report(w, n, <<"done">>) \/ UNCHANGED <<up, reports>>
  /\ UNCHANGED <<roomVars, conn, arrivals, down, named, handed, hostVars, lost>>

\* Mutant: a success is reported at the exit, and again, as a failure for
\* want of an exit code, when the pipes close.
JobEndsTwice(w, n) ==
  /\ n \in running[w]
  /\ running' = [running EXCEPT ![w] = @ \ {n}]
  /\ Report(w, n, <<"done", "failed">>)
  /\ UNCHANGED <<roomVars, conn, arrivals, down, named, handed, hostVars, lost>>

(* The child process ends.  One that could not be spawned emits "error"    *)
(* and then "close", and is reported as failed by both handlers.           *)
JobEnds(w, n) ==
  /\ n \in running[w]
  /\ running' = [running EXCEPT ![w] = @ \ {n}]
  /\ \E kinds \in {<<"done">>, <<"failed">>, <<"failed", "failed">>} : Report(w, n, kinds)
  /\ UNCHANGED <<roomVars, conn, arrivals, down, named, handed, hostVars, lost>>

(* The process of a peer ends, or its connection does, upon which an agent *)
(* worker exits: what it had not run or not finished is lost.              *)
Gone(p) ==
  /\ conn[p] = "on"
  /\ conn' = [conn EXCEPT ![p] = "dying"]
  /\ down' = [w \in Worker |-> IF w = p THEN <<>> ELSE down[w]]
  /\ running' = [w \in Worker |-> IF w = p THEN {} ELSE running[w]]
  /\ lost' = lost \cup
       IF p \in Worker THEN {<<n, p>> : n \in running[p] \cup Range(down[p])} ELSE {}
  /\ UNCHANGED <<roomVars, arrivals, up, named, handed, hostVars, reports>>

-----------------------------------------------------------------------------
Next ==
  \/ \E p \in WsPeer :
       \/ \E r \in Room : Arrive(p, r)
       \/ HandleCommand(p)
       \/ SocketClosed(p)
       \/ Gone(p)
       \/ \E id \in HostTask \cup {NoId} : Send(id, p)
  \/ \E r \in Room :
       \/ McpCreateRoom(r)
       \/ \E id \in HostTask \cup {NoId}, exclude \in {{}, {Host}} : Broadcast(id, r, exclude)
  \/ Poll
  \/ \E w \in Worker :
       \/ RunTask(w)
       \/ \E n \in 1 .. Len(handed) : JobEnds(w, n)
       \/ \E l \in Lead, id \in LeadTask \cup {NoId} : LeadAssigns(l, id, w)

Spec == Init /\ [][Next]_vars

(* Frames arrive and are handled, and the commands that workers run come   *)
(* to an end: the code has no timeout for them.                            *)
Fairness ==
  /\ \A p \in WsPeer : WF_vars(HandleCommand(p)) /\ WF_vars(SocketClosed(p))
  /\ \A w \in Worker :
       /\ WF_vars(RunTask(w))
       /\ \A n \in 1 .. MaxHanded : WF_vars(JobEnds(w, n))

FairSpec == Spec /\ Fairness

-----------------------------------------------------------------------------
(* Properties                                                              *)

Frame == [kind : {"task", "done", "failed"}, n : 1 .. MaxHanded]

(* The state has its types. *)
TypeOK ==
  /\ RM!TypeOK
  /\ conn \in [WsPeer -> {"on", "dying", "off"}]
  /\ arrivals \in 0 .. MaxArrivals
  /\ down \in [Worker -> Seq(1 .. MaxHanded)]
  /\ up \in [WsPeer -> Seq(Frame)]
  /\ running \in [Worker -> SUBSET (1 .. Len(handed))]
  /\ named \in [Worker -> [1 .. MaxHanded -> TaskId \cup {NoId}]]
  /\ handed \in Seq([id : GivenId \cup {NoId}, by : Peer, to : SUBSET Peer])
  /\ tasks \in [TaskId -> [to : SUBSET Peer,
                  status : {"none", "sent", "failed", "partial", "in_progress", "done"}]]
  /\ inbox \in Seq([from : WsPeer, msg : Frame])
  /\ taken \in Seq([from : WsPeer, msg : Frame])
  /\ reports \in [Worker -> Seq(Frame)]
  /\ lost \subseteq (1 .. MaxHanded) \X Worker

(* What the handler was given: what it has polled, and what it has not. *)
Log == taken \o inbox

(* The positions of the results of w for the host in the log. *)
Seen(w) == {i \in DOMAIN Log : Log[i].from = w /\ IsForHost(Log[i].msg)}

(* i is the k-th element of S, counted from the least one. *)
Place(S, i) == Cardinality({j \in S : j <= i})

(* The client sees every result a worker sent to the host exactly once and *)
(* in the order sent, whatever the polls are interleaved with: the results *)
(* in the log are the first ones sent, those to come the rest.             *)
ResultsSeenOnce ==
  \A w \in Worker :
    /\ Len(reports[w]) = Cardinality(Seen(w)) + Cardinality(Coming(w))
    /\ \A i \in Seen(w) : reports[w][Place(Seen(w), i)] = Log[i].msg
    /\ \A i \in Coming(w) :
         reports[w][Cardinality(Seen(w)) + Place(Coming(w), i)] = up[w][i]

(* Answered(n, w): a result of w for task n has been handled by the host. *)
Answered(n, w) ==
  \E e \in Range(Log) : e.from = w /\ IsResult(e.msg) /\ e.msg.n = n

OnItsWayBack(n, w) == \E f \in Range(up[w]) : IsResult(f) /\ f.n = n

(* A task of the host that was relayed to a worker waits or runs there, is *)
(* answered or on its way back, or was lost with the connection of the     *)
(* worker.  It is never forgotten, and never in two of these places.       *)
NoTaskForgotten ==
  \A n \in DOMAIN handed : \A w \in handed[n].to \cap Worker :
    handed[n].by = Host =>
      LET answer == OnItsWayBack(n, w) \/ Answered(n, w)
          places == <<n \in Range(down[w]), n \in running[w],
                      answer, <<n, w>> \in lost /\ ~answer>>
      IN \E i \in 1 .. 4 : \A j \in 1 .. 4 : places[j] <=> j = i

(* A task that was given an id is shown as done only if a worker it was    *)
(* sent to has done it.                                                    *)
DoneWasDone ==
  \A id \in GivenId : tasks[id].status = "done" =>
    \E w \in tasks[id].to \cap Worker : \E i \in DOMAIN reports[w] :
      reports[w][i].kind = "done" /\ handed[reports[w][i].n].id = id

(* A task that was given an id and sent to a single worker stays done. *)
DoneStaysDone ==
  [][\A id \in GivenId :
       tasks[id].status = "done" /\ Cardinality(tasks[id].to \cap Worker) = 1
         => tasks'[id].status = "done"]_vars

(* A task that was given an id and sent to workers is answered by one of   *)
(* them, unless one of them loses its connection.                          *)
SentIsAnswered ==
  \A id \in HostTask :
    (tasks[id].status = "sent" /\ tasks[id].to \cap Worker # {})
      ~> \/ tasks[id].status \in {"in_progress", "done"}
         \/ \E w \in tasks[id].to \cap Worker : \E n \in DOMAIN handed :
              handed[n].id = id /\ <<n, w>> \in lost
=============================================================================
