------------------------- MODULE TaskOutcomeProofs -------------------------
(***************************************************************************)
(* What the status of a task entry says, for tasks that are given an id    *)
(* and clients that give an id once.                                       *)
(*                                                                         *)
(* A given id then leads to one task and back (Ids), a worker keeps it and *)
(* makes up none that looks like one (Named), so that the result that made *)
(* an entry done is in the log (Logged); and all results of a worker for   *)
(* one task say the same (OneOutcome), so that none can take the status    *)
(* back if the task went to one worker only.                               *)
(***************************************************************************)
EXTENDS TaskFlowProofs

(* An id was given to one task; the entry of a task of the host names the  *)
(* peers it was relayed to, which are finitely many; of the given ids only *)
(* the host's have an entry.                                               *)
Ids ==
  /\ \A m, n \in DOMAIN handed :
       handed[m].id \in GivenId /\ handed[m].id = handed[n].id => m = n
  /\ \A n \in DOMAIN handed :
       handed[n].by = Host /\ handed[n].id \in GivenId => handed[n].to \subseteq tasks[handed[n].id].to
  /\ \A id \in GivenId : tasks[id].status # "none" =>
       \E n \in DOMAIN handed : handed[n].id = id /\ handed[n].by = Host
  /\ \A id \in GivenId : IsFiniteSet(tasks[id].to)

(* A worker runs a task under a given id only if that is the id in its data. *)
Named ==
  \A w \in Worker, n \in 1 .. MaxHanded :
    named[w][n] \in GivenId => n \in DOMAIN handed /\ handed[n].id = named[w][n]

(* Entry i of the log says that task id is done. *)
Settles(i, id) ==
  /\ Log[i].from \in tasks[id].to \cap Worker
  /\ IsForHost(Log[i].msg) /\ Log[i].msg.kind = "done"
  /\ handed[Log[i].msg.n].id = id

Logged ==
  \A id \in GivenId : tasks[id].status = "done" => \E i \in DOMAIN Log : Settles(i, id)

(* w has sent f: it is on its way or in the log. *)
Sent(w, f) == f \in Range(up[w]) \/ \E i \in DOMAIN Log : Log[i].from = w /\ Log[i].msg = f

(* What a worker reports of a task of the host, it reports throughout. *)
OneOutcome ==
  \A w \in Worker : \A f, g :
    Sent(w, f) /\ Sent(w, g) /\ IsForHost(f) /\ IsForHost(g) /\ f.n = g.n => f.kind = g.kind

-----------------------------------------------------------------------------
(* Ids and Logged: what can happen to the entries *)

LEMMA HandedIds ==
  ASSUME TInv
  PROVE  \A n \in DOMAIN handed : handed[n].id \in DataId
<1>1. handed \in Seq(Task)
  BY DEF TInv, TypeOK, Task, DataId
<1>2. \A n \in DOMAIN handed : handed[n] \in Task
  BY <1>1
<1> QED
  BY <1>2 DEF Task

LEMMA GivenFacts == GivenId \subseteq TaskId /\ NoId \notin GivenId
BY TaskAssumption DEF TaskId

(* A result that is sent under a given id for which there is an entry is a *)
(* result for the host, of the task that was given this id.                *)
LEMMA EntryIsForHost ==
  ASSUME TInv, Ids, Named, NEW p \in WsPeer, NEW f \in Frame, Proper(handed, p, f), IsResult(f),
         named[p][f.n] \in GivenId, tasks[named[p][f.n]].status # "none"
  PROVE  /\ IsForHost(f) /\ handed[f.n].id = named[p][f.n]
         /\ p \in tasks[named[p][f.n]].to \cap Worker
<1>t. PICK t : t = named[p][f.n]
  OBVIOUS
<1>1. f.n \in DOMAIN handed /\ p \in Worker /\ p \in handed[f.n].to
  BY DEF Proper
<1>2. f.n \in 1 .. MaxHanded
  BY DEF Frame
<1>3. t \in GivenId /\ handed[f.n].id = t
  BY <1>t, <1>1, <1>2 DEF Named
<1>4. PICK n \in DOMAIN handed : handed[n].id = t /\ handed[n].by = Host
  BY <1>t, <1>3 DEF Ids
<1>5. n = f.n
  BY <1>1, <1>3, <1>4 DEF Ids
<1>6. handed[f.n].to \subseteq tasks[t].to
  BY <1>1, <1>3, <1>4, <1>5 DEF Ids
<1> QED
  BY <1>t, <1>1, <1>3, <1>4, <1>5, <1>6 DEF IsForHost

(* A frame that is delivered changes the status of one entry at most. *)
LEMMA DeliveredEntry ==
  ASSUME TInv, NEW p \in WsPeer, NEW f \in Frame, Delivered(p, f), Proper(handed, p, f)
  PROVE  LET id == named[p][f.n]
             settles == IsResult(f) /\ tasks[id].status # "none"
         IN /\ \A x \in TaskId : tasks'[x].to = tasks[x].to
            /\ \A x \in TaskId : ~(settles /\ x = id) => tasks'[x].status = tasks[x].status
            /\ settles /\ id \in TaskId => tasks'[id].status = StatusOnResult(f)
<1> DEFINE id == named[p][f.n]
           settles == IsResult(f) /\ tasks[id].status # "none"
<1>2. tasks' = IF settles THEN [tasks EXCEPT ![id].status = StatusOnResult(f)] ELSE tasks
  BY DEF Delivered, OnInboundMessage
<1>3. tasks \in [TaskId -> [to : SUBSET Peer, status : Status]]
  BY DEF TInv, TypeOK, Status
<1> HIDE DEF id, settles
<1>4. CASE ~settles
  BY <1>2, <1>4 DEF id, settles
<1>5. CASE settles
  <2>1. tasks' = [tasks EXCEPT ![id] = [@ EXCEPT !.status = StatusOnResult(f)]]
    BY <1>2, <1>5
  <2>2. /\ \A x \in TaskId \ {id} : tasks'[x] = tasks[x]
        /\ id \in TaskId => tasks'[id] = [tasks[id] EXCEPT !.status = StatusOnResult(f)]
    BY <1>3, <2>1
  <2>3. id \in TaskId => tasks[id] \in [to : SUBSET Peer, status : Status]
    BY <1>3
  <2>4. id \in TaskId => tasks'[id].to = tasks[id].to /\ tasks'[id].status = StatusOnResult(f)
    BY <2>2, <2>3
  <2> QED
    BY <1>5, <2>2, <2>4 DEF id, settles
<1> QED
  BY <1>4, <1>5

LEMMA EntriesUntouched ==
  ASSUME Ids, Logged, UNCHANGED <<handed, tasks, Log>>
  PROVE  Ids' /\ Logged'
BY DEF Ids, Logged, Settles, IsForHost

LEMMA EntrySettled ==
  ASSUME TInv, Ids, Named, Logged, NEW p \in WsPeer, NEW f \in Frame, Delivered(p, f),
         Proper(handed, p, f), UNCHANGED <<handed, taken>>
  PROVE  Ids' /\ Logged'
<1>t. PICK t : t = named[p][f.n]
  OBVIOUS
<1>1. /\ \A x \in TaskId : tasks'[x].to = tasks[x].to
      /\ \A x \in TaskId : ~(IsResult(f) /\ tasks[t].status # "none" /\ x = t)
                             => tasks'[x].status = tasks[x].status
      /\ IsResult(f) /\ tasks[t].status # "none" /\ t \in TaskId =>
           tasks'[t].status = StatusOnResult(f)
  BY <1>t, DeliveredEntry
<1>e. PICK e : e = [from |-> p, msg |-> f]
  OBVIOUS
<1>2. Log' = Append(Log, e) /\ e \in Entry /\ Log \in Seq(Entry) /\ e.from = p /\ e.msg = f
  BY <1>e, DeliveredFacts, LogTypes DEF TInv, Entry
<1>k. PICK k : k = Len(Log) + 1
  OBVIOUS
<1>3. /\ DOMAIN Log' = DOMAIN Log \cup {k}
      /\ \A i \in DOMAIN Log : Log'[i] = Log[i]
      /\ Log'[k] = e
  BY <1>2, <1>k, AppendFacts
<1>4. Ids'
  <2>1. \A id \in GivenId : tasks'[id].to = tasks[id].to
    BY <1>1, GivenFacts
  <2>2. \A id \in GivenId : tasks'[id].status # "none" => tasks[id].status # "none"
    BY <1>1, GivenFacts
  <2> QED
    BY <2>1, <2>2 DEF Ids
<1>5. Logged'
  <2> SUFFICES ASSUME NEW id \in GivenId, tasks'[id].status = "done"
               PROVE  \E i \in DOMAIN Log' : Settles(i, id)'
    BY DEF Logged
  <2>1. \A m : IsForHost(m)' <=> IsForHost(m)
    BY DEF IsForHost
  <2>2. CASE IsResult(f) /\ tasks[t].status # "none" /\ id = t
    <3>1. f.kind = "done"
      BY <1>1, <2>2, GivenFacts DEF StatusOnResult
    <3>2. IsForHost(f) /\ p \in tasks[t].to \cap Worker /\ handed[f.n].id = t
      BY <1>t, <2>2, EntryIsForHost
    <3>3. Log'[k].from = p /\ Log'[k].msg = f /\ tasks'[id].to = tasks[t].to
      BY <1>1, <1>2, <1>3, <2>2, GivenFacts
    <3>4. handed'[f.n].id = id /\ IsForHost(f)'
      BY <2>1, <2>2, <3>2
    <3>5. Settles(k, id)'
      BY <3>1, <3>2, <3>3, <3>4 DEF Settles
    <3> QED
      BY <1>3, <3>5
  <2>3. CASE ~(IsResult(f) /\ tasks[t].status # "none" /\ id = t)
    <3>1. PICK i \in DOMAIN Log : Settles(i, id)
      BY <1>1, <2>3, GivenFacts DEF Logged
    <3>2. i \in DOMAIN Log' /\ Log'[i] = Log[i] /\ tasks'[id].to = tasks[id].to
      BY <1>1, <1>3, GivenFacts
    <3> QED
      BY <2>1, <3>1, <3>2 DEF Settles
  <2> QED
    BY <2>2, <2>3
<1> QED
  BY <1>4, <1>5

(* A task is handed out, with an entry if it is the host's.  If it was     *)
(* given an id the entry is under this id and names all its recipients; if *)
(* not, it is under none that is given.                                    *)
EntryMade(id, by, to) ==
  /\ \A x \in GivenId : x # id => tasks'[x] = tasks[x]
  /\ id \in GivenId =>
       IF by = Host
       THEN /\ tasks'[id].status \notin {"none", "done"}
            /\ to \subseteq tasks'[id].to /\ IsFiniteSet(tasks'[id].to)
       ELSE tasks'[id] = tasks[id]

LEMMA EntriesExtended ==
  ASSUME TInv, Ids, Logged, NEW id \in DataId, NEW by \in Peer, NEW to \in SUBSET Peer,
         HandOut(id, by, to), Fresh(id), ~ReuseIds, EntryMade(id, by, to), UNCHANGED Log
  PROVE  Ids' /\ Logged'
<1>n. PICK n : n = Len(handed) + 1
  OBVIOUS
<1>1. /\ DOMAIN handed' = DOMAIN handed \cup {n} /\ n \notin DOMAIN handed
      /\ \A m \in DOMAIN handed : handed'[m] = handed[m]
      /\ handed'[n].id = id /\ handed'[n].by = by /\ handed'[n].to = to
  <2>1. TypeOK
    BY DEF TInv
  <2>2. /\ DOMAIN handed' = DOMAIN handed \cup {n} /\ n \notin DOMAIN handed
        /\ \A m \in DOMAIN handed : handed'[m] = handed[m]
        /\ handed'[n] = [id |-> id, by |-> by, to |-> to]
    BY <1>n, <2>1, HandOutFacts
  <2> QED
    BY <2>2
<1>2. id \in GivenId => \A m \in DOMAIN handed : handed[m].id # id
  BY GivenFacts DEF Fresh
<1>3. id \in GivenId => tasks[id].status = "none"
  BY <1>2 DEF Ids
<1>4. Ids'
  <2>1. \A k, m \in DOMAIN handed' :
          handed'[k].id \in GivenId /\ handed'[k].id = handed'[m].id => k = m
    BY <1>1, <1>2 DEF Ids
  <2>2. \A m \in DOMAIN handed' : handed'[m].by = Host /\ handed'[m].id \in GivenId =>
          handed'[m].to \subseteq tasks'[handed'[m].id].to
    <3>1. ASSUME NEW m \in DOMAIN handed, handed[m].by = Host, handed[m].id \in GivenId
          PROVE  handed[m].to \subseteq tasks'[handed[m].id].to
      <4>1. handed[m].id # id
        BY <1>2, <3>1
      <4>2. tasks'[handed[m].id] = tasks[handed[m].id]
        BY <3>1, <4>1 DEF EntryMade
      <4> QED
        BY <3>1, <4>2 DEF Ids
    <3>2. by = Host /\ id \in GivenId => to \subseteq tasks'[id].to
      BY DEF EntryMade
    <3> QED
      BY <1>1, <3>1, <3>2
  <2>3. ASSUME NEW x \in GivenId, tasks'[x].status # "none"
        PROVE  \E m \in DOMAIN handed' : handed'[m].id = x /\ handed'[m].by = Host
    <3>1. CASE x = id /\ by = Host
      BY <1>1, <3>1
    <3>2. CASE ~(x = id /\ by = Host)
      <4>1. tasks'[x] = tasks[x]
        BY <2>3, <3>2 DEF EntryMade
      <4>2. PICK m \in DOMAIN handed : handed[m].id = x /\ handed[m].by = Host
        BY <2>3, <4>1 DEF Ids
      <4> QED
        BY <1>1, <4>2
    <3> QED
      BY <3>1, <3>2
  <2>4. \A x \in GivenId : IsFiniteSet(tasks'[x].to)
    BY DEF Ids, EntryMade
  <2> QED
    BY <2>1, <2>2, <2>3, <2>4 DEF Ids
<1>5. Logged'
  <2> SUFFICES ASSUME NEW x \in GivenId, tasks'[x].status = "done"
               PROVE  \E i \in DOMAIN Log' : Settles(i, x)'
    BY DEF Logged
  <2>1. tasks'[x] = tasks[x]
    BY <1>3 DEF EntryMade
  <2>2. PICK i \in DOMAIN Log : Settles(i, x)
    BY <2>1 DEF Logged
  <2>3. Log[i].msg.n \in DOMAIN handed
    BY DEF TInv, Addressed, Proper
  <2>4. Settles(i, x)'
    BY <1>1, <2>1, <2>2, <2>3 DEF Settles, IsForHost
  <2> QED
    BY <2>4
<1> QED
  BY <1>4, <1>5

LEMMA FiniteRange ==
  ASSUME NEW S, NEW s \in Seq(S)
  PROVE  IsFiniteSet({s[i] : i \in DOMAIN s})
<1> DEFINE T == {s[i] : i \in DOMAIN s}
<1>1. DOMAIN s = 1 .. Len(s) /\ Len(s) \in Nat
  BY LenProperties
<1>2. IsFiniteSet(DOMAIN s)
  BY <1>1, FS_Interval
<1>3. s \in [DOMAIN s -> T]
  <2>1. s = [i \in DOMAIN s |-> s[i]]
    BY <1>1
  <2> QED
    BY <2>1
<1>4. \A t \in T : \E i \in DOMAIN s : s[i] = t
  OBVIOUS
<1> HIDE DEF T
<1>5. s \in Surjection(DOMAIN s, T)
  BY <1>3, <1>4 DEF Surjection
<1>6. IsFiniteSet(T)
  BY <1>2, <1>5, FS_Surjection
<1> QED
  BY <1>6 DEF T

(* A broadcast goes to the members of one room. *)
LEMMA TargetsFinite ==
  ASSUME TInv, NEW r \in Room, NEW exclude
  PROVE  IsFiniteSet(Targets(r, exclude))
<1>1. peers[r] \in Seq(Peer)
  BY DEF TInv, TypeOK, RM!TypeOK
<1>2. RM!Members(r) = {peers[r][i] : i \in DOMAIN peers[r]}
  BY DEF RM!Members, RM!Range
<1>3. IsFiniteSet(RM!Members(r))
  BY <1>1, <1>2, FiniteRange
<1> QED
  BY <1>3, FS_Subset DEF Targets

LEMMA NamesKept ==
  ASSUME Named, Grown, UNCHANGED named
  PROVE  Named'
BY DEF Named, Grown

LEMMA RunTaskNames ==
  ASSUME TInv, Named, NEW w \in Worker, RunTask(w)
  PROVE  Named'
<1>h. PICK h : h = Head(down[w])
  OBVIOUS
<1>1. /\ down[w] # <<>> /\ UNCHANGED handed
      /\ \E id \in OrMadeUp(handed[h].id, "T") : named' = [named EXCEPT ![w][h] = id]
  BY <1>h DEF RunTask
<1>2. h \in DOMAIN handed
  <2>1. down[w] \in Seq(1 .. MaxHanded)
    BY DEF TInv, TypeOK
  <2>2. h = down[w][1] /\ 1 \in DOMAIN down[w]
    BY <1>h, <1>1, <2>1, TailFacts
  <2> QED
    BY <2>2 DEF TInv, Addressed
<1>3. PICK id \in OrMadeUp(handed[h].id, "T") : named' = [named EXCEPT ![w][h] = id]
  BY <1>1
<1>4. id \in GivenId => id = handed[h].id
  <2>1. handed[h].id \in DataId
    BY <1>2, HandedIds
  <2> QED
    BY <1>3, <2>1, KeyFacts
<1>5. named \in [Worker -> [1 .. MaxHanded -> TaskId \cup {NoId}]]
  BY DEF TInv, TypeOK
<1>6. \A v \in Worker, n \in 1 .. MaxHanded :
        named'[v][n] = IF v = w /\ n = h THEN id ELSE named[v][n]
  BY <1>3, <1>5
<1> QED
  BY <1>1, <1>2, <1>4, <1>6 DEF Named

LEMMA NamesStep == TInv /\ Named /\ [Next]_vars => Named'
<1> SUFFICES ASSUME TInv, Named, [Next]_vars
             PROVE  Named'
  OBVIOUS
<1>0. TypeOK /\ Host \in Peer
  BY PeerFacts DEF TInv
<1>1. CASE UNCHANGED vars
  BY <1>1, NamesKept, Unmoved DEF vars
<1>2. ASSUME NEW p \in WsPeer, NEW r \in Room, Arrive(p, r)
      PROVE  Named'
  BY <1>2, NamesKept, Unmoved DEF Arrive
<1>3. ASSUME NEW p \in WsPeer, HandleCommand(p) \/ SocketClosed(p) \/ Gone(p)
      PROVE  Named'
  BY <1>3, NamesKept, Unmoved DEF HandleCommand, SocketClosed, Gone
<1>4. ASSUME NEW p \in WsPeer, NEW id \in HostTask \cup {NoId}, Send(id, p)
      PROVE  Named'
  <2>1. PICK to : to = {q \in {p} : Connected(q)}
    OBVIOUS
  <2>2. /\ id \in DataId /\ to \in SUBSET Peer /\ HandOut(id, Host, to)
        /\ UNCHANGED named
    BY <1>4, <2>1, SendFacts
  <2> QED
    BY <1>0, <2>2, HandOutFacts, NamesKept
<1>5. ASSUME NEW r \in Room, McpCreateRoom(r)
      PROVE  Named'
  BY <1>5, NamesKept, Unmoved DEF McpCreateRoom
<1>6. ASSUME NEW r \in Room, NEW id \in HostTask \cup {NoId}, NEW exclude \in {{}, {Host}},
             Broadcast(id, r, exclude)
      PROVE  Named'
  <2>1. PICK to : to = {q \in Targets(r, exclude) : Connected(q)}
    OBVIOUS
  <2>2. /\ id \in DataId /\ to \in SUBSET Peer /\ HandOut(id, Host, to)
        /\ UNCHANGED named
    BY <1>6, <2>1, BroadcastFacts
  <2> QED
    BY <1>0, <2>2, HandOutFacts, NamesKept
<1>7. CASE Poll
  BY <1>7, NamesKept, Unmoved DEF Poll
<1>8. ASSUME NEW w \in Worker, RunTask(w)
      PROVE  Named'
  BY <1>8, RunTaskNames
<1>9. ASSUME NEW w \in Worker, NEW n \in 1 .. Len(handed), JobEnds(w, n)
      PROVE  Named'
  BY <1>9, NamesKept, Unmoved DEF JobEnds
<1>10. ASSUME NEW w \in Worker, NEW l \in Lead, NEW id \in LeadTask \cup {NoId},
              LeadAssigns(l, id, w)
       PROVE  Named'
  <2>1. HandOut(id, l, {w}) /\ UNCHANGED named
    BY <1>10 DEF LeadAssigns
  <2>2. id \in DataId /\ l \in Peer /\ {w} \in SUBSET Peer
    BY PeerFacts DEF DataId, GivenId
  <2> QED
    BY <1>0, <2>1, <2>2, HandOutFacts, NamesKept
<1> QED
  BY <1>1, <1>2, <1>3, <1>4, <1>5, <1>6, <1>7, <1>8, <1>9, <1>10 DEF Next

LEMMA EntriesStep ==
  ASSUME TInv, Ids, Named, Logged, ~ReuseIds, [Next]_vars
  PROVE  Ids' /\ Logged'
<1>1. CASE UNCHANGED vars
  BY <1>1, EntriesUntouched, LogUntouched DEF vars, hostVars
<1>2. ASSUME NEW p \in WsPeer, NEW r \in Room, Arrive(p, r)
      PROVE  Ids' /\ Logged'
  BY <1>2, EntriesUntouched, LogUntouched DEF Arrive, hostVars
<1>3. ASSUME NEW p \in WsPeer, HandleCommand(p)
      PROVE  Ids' /\ Logged'
  <2>f. PICK f : f = up[p][1]
    OBVIOUS
  <2>1. /\ up[p] # <<>> /\ UNCHANGED <<handed, taken>>
        /\ Dropped(f) \/ Relayed(f) \/ Delivered(p, f)
    BY <1>3, <2>f, HandleCases
  <2>2. f \in Frame /\ Proper(handed, p, f)
    BY <2>f, <2>1, FrameFacts
  <2>3. CASE Dropped(f) \/ Relayed(f)
    BY <2>1, <2>3, EntriesUntouched, LogUntouched DEF Dropped, Relayed
  <2>4. CASE Delivered(p, f)
    BY <2>1, <2>2, <2>4, EntrySettled
  <2> QED
    BY <2>1, <2>3, <2>4
<1>4. ASSUME NEW p \in WsPeer, SocketClosed(p) \/ Gone(p)
      PROVE  Ids' /\ Logged'
  BY <1>4, EntriesUntouched, LogUntouched DEF SocketClosed, Gone, hostVars
<1>5. ASSUME NEW p \in WsPeer, NEW id \in HostTask \cup {NoId}, Send(id, p)
      PROVE  Ids' /\ Logged'
  <2>1. PICK to : to = {q \in {p} : Connected(q)}
    OBVIOUS
  <2>2. /\ id \in DataId /\ to \in SUBSET Peer /\ HandOut(id, Host, to) /\ UNCHANGED Log
    BY <1>5, <2>1, SendFacts, LogUntouched
  <2>3. EntryMade(id, Host, to) /\ Fresh(id)
    <3>1. PICK key \in OrMadeUp(id, "T") :
            /\ tasks'[key].to = {p} /\ tasks'[key].status \in {"sent", "failed"}
            /\ \A x \in TaskId \ {key} : tasks'[x] = tasks[x]
      BY <1>5, SendFacts
    <3>2. id \in GivenId => key = id
      BY <2>2, <3>1, KeyFacts
    <3>3. id \notin GivenId => key \notin GivenId
      BY <2>2, <3>1, KeyFacts
    <3>4. IsFiniteSet({p}) /\ to \subseteq {p} /\ Fresh(id)
      BY <1>5, <2>1, FS_Singleton DEF Send
    <3> QED
      BY <3>1, <3>2, <3>3, <3>4, GivenFacts DEF EntryMade
  <2> QED
    BY <2>2, <2>3, PeerFacts, EntriesExtended
<1>6. ASSUME NEW r \in Room, McpCreateRoom(r)
      PROVE  Ids' /\ Logged'
  BY <1>6, EntriesUntouched, LogUntouched DEF McpCreateRoom, hostVars
<1>7. ASSUME NEW r \in Room, NEW id \in HostTask \cup {NoId}, NEW exclude \in {{}, {Host}},
             Broadcast(id, r, exclude)
      PROVE  Ids' /\ Logged'
  <2>1. PICK S : S = Targets(r, exclude)
    OBVIOUS
  <2>2. PICK to : to = {q \in S : Connected(q)}
    OBVIOUS
  <2>3. /\ id \in DataId /\ to \in SUBSET Peer /\ HandOut(id, Host, to)
        /\ \E key \in OrMadeUp(id, "BC") :
             /\ tasks'[key].to = S /\ tasks'[key].status \in {"sent", "partial"}
             /\ \A x \in TaskId \ {key} : tasks'[x] = tasks[x]
        /\ UNCHANGED <<inbox, taken>>
    BY <1>7, <2>1, <2>2, BroadcastFacts
  <2>4. IsFiniteSet(S)
    BY <1>7, <2>1, TargetsFinite
  <2>5. EntryMade(id, Host, to) /\ Fresh(id) /\ UNCHANGED Log
    <3>1. PICK key \in OrMadeUp(id, "BC") :
            /\ tasks'[key].to = S /\ tasks'[key].status \in {"sent", "partial"}
            /\ \A x \in TaskId \ {key} : tasks'[x] = tasks[x]
      BY <2>3
    <3>2. id \in GivenId => key = id
      BY <2>3, <3>1, KeyFacts
    <3>3. id \notin GivenId => key \notin GivenId
      BY <2>3, <3>1, KeyFacts
    <3>4. to \subseteq S /\ Fresh(id) /\ UNCHANGED Log
      BY <1>7, <2>2, <2>3, LogUntouched DEF Broadcast
    <3> QED
      BY <2>4, <3>1, <3>2, <3>3, <3>4, GivenFacts DEF EntryMade
  <2> QED
    BY <2>3, <2>5, PeerFacts, EntriesExtended
<1>8. CASE Poll
  BY <1>8, LogPolled, EntriesUntouched DEF Poll, TInv
<1>9. ASSUME NEW w \in Worker, RunTask(w)
      PROVE  Ids' /\ Logged'
  BY <1>9, EntriesUntouched, LogUntouched DEF RunTask, hostVars
<1>10. ASSUME NEW w \in Worker, NEW n \in 1 .. Len(handed), JobEnds(w, n)
       PROVE  Ids' /\ Logged'
  BY <1>10, EntriesUntouched, LogUntouched DEF JobEnds, hostVars
<1>11. ASSUME NEW w \in Worker, NEW l \in Lead, NEW id \in LeadTask \cup {NoId}, LeadAssigns(l, id, w)
       PROVE  Ids' /\ Logged'
  <2>1. id \in DataId /\ l \in Peer /\ l # Host /\ {w} \in SUBSET Peer
    BY PeerFacts DEF DataId, GivenId
  <2>2. HandOut(id, l, {w}) /\ Fresh(id) /\ UNCHANGED <<tasks, Log>>
    BY <1>11, LogUntouched DEF LeadAssigns, hostVars
  <2>3. EntryMade(id, l, {w})
    BY <2>1, <2>2 DEF EntryMade
  <2> QED
    BY <2>1, <2>2, <2>3, EntriesExtended
<1> QED
  BY <1>1, <1>2, <1>3, <1>4, <1>5, <1>6, <1>7, <1>8, <1>9, <1>10, <1>11 DEF Next

LEMMA EntriesInvariant ==
  ASSUME ~ReuseIds
  PROVE  Spec => [](Ids /\ Named /\ Logged)
<1>1. Init => Ids /\ Named /\ Logged
  <2> SUFFICES ASSUME Init
               PROVE  Ids /\ Named /\ Logged
    OBVIOUS
  <2>1. /\ handed = <<>> /\ DOMAIN handed = {}
        /\ \A id \in GivenId : tasks[id].status = "none" /\ tasks[id].to = {}
        /\ \A w \in Worker, n \in 1 .. MaxHanded : named[w][n] = NoId
    BY GivenFacts DEF Init
  <2>2. IsFiniteSet({})
    BY FS_EmptySet
  <2> QED
    BY <2>1, <2>2, GivenFacts DEF Ids, Named, Logged
<1>2. TInv /\ (Ids /\ Named /\ Logged) /\ [Next]_vars => (Ids /\ Named /\ Logged)'
  BY EntriesStep, NamesStep
<1> QED
  BY <1>1, <1>2, InvariantHolds, PTL DEF Spec

(* A task that was given an id is shown as done only if a worker it was    *)
(* sent to has reported that it is done, whatever other results arrive     *)
(* under other ids, given or made up.                                      *)
THEOREM DoneIsTrue ==
  ASSUME ~ReuseIds
  PROVE  Spec => []DoneWasDone
<1>1. ASSUME TInv, Logged, ResultsSeenOnce
      PROVE  DoneWasDone
  <2> SUFFICES ASSUME NEW id \in GivenId, tasks[id].status = "done"
               PROVE  \E w \in tasks[id].to \cap Worker : \E i \in DOMAIN reports[w] :
                        reports[w][i].kind = "done" /\ handed[reports[w][i].n].id = id
    BY DEF DoneWasDone
  <2>1. PICK i \in DOMAIN Log : Settles(i, id)
    BY <1>1 DEF Logged
  <2>w. PICK w : w = Log[i].from
    OBVIOUS
  <2>2. w \in tasks[id].to \cap Worker /\ i \in Seen(w)
    BY <2>1, <2>w DEF Settles, Seen
  <2>3. Seen(w) \in SUBSET (1 .. Len(Log)) /\ Len(Log) \in Nat
    BY <1>1, SeenFacts
  <2>k. PICK k : k = Place(Seen(w), i)
    OBVIOUS
  <2>4. k \in 1 .. Cardinality(Seen(w)) /\ Cardinality(Seen(w)) \in Nat
    BY <2>2, <2>3, <2>k, PlaceFacts
  <2>5. reports[w][k] = Log[i].msg /\ Len(reports[w]) = Cardinality(Seen(w)) + Cardinality(Coming(w))
    BY <1>1, <2>2, <2>k DEF ResultsSeenOnce
  <2>6. Cardinality(Coming(w)) \in Nat
    BY <1>1, <2>2, ComingFacts, PlaceFacts, PeerFacts
  <2>7. reports[w] \in Seq(Frame)
    BY <1>1, <2>2 DEF TInv, TypeOK
  <2>8. k \in DOMAIN reports[w]
    BY <2>4, <2>5, <2>6, <2>7, LenProperties
  <2> QED
    BY <2>1, <2>2, <2>5, <2>8 DEF Settles
<1> QED
  BY <1>1, InvariantHolds, EntriesInvariant, SeenOnceInOrder, PTL

-----------------------------------------------------------------------------
(* One outcome per worker and task *)

(* Nobody but a worker that ends a job sends a result. *)
NothingNew ==
  \A w \in Worker : \A f : Sent(w, f)' /\ IsResult(f) => Sent(w, f)

LEMMA SentFacts ==
  ASSUME TInv, NEW w \in Worker, NEW f, Sent(w, f)
  PROVE  f.n \in DOMAIN handed /\ (IsResult(f) => Answer(f.n, w))
<1>1. \A i \in DOMAIN Log : Log[i].msg.n \in DOMAIN handed
  BY DEF TInv, Addressed, Proper
<1>2. \A i \in DOMAIN up[w] : up[w][i].n \in DOMAIN handed
  BY PeerFacts DEF TInv, Addressed, Proper
<1> QED
  BY <1>1, <1>2 DEF Sent, Answer, OnItsWayBack, Answered, Range

LEMMA OutcomesKept ==
  ASSUME TInv, Grown, OneOutcome, NothingNew
  PROVE  OneOutcome'
<1> SUFFICES ASSUME NEW w \in Worker, NEW f, NEW g, Sent(w, f)', Sent(w, g)',
                    IsForHost(f)', IsForHost(g)', f.n = g.n
             PROVE  f.kind = g.kind
  BY DEF OneOutcome
<1>1. IsResult(f) /\ IsResult(g)
  BY DEF IsForHost
<1>2. Sent(w, f) /\ Sent(w, g)
  BY <1>1 DEF NothingNew
<1>3. f.n \in DOMAIN handed
  BY <1>2, SentFacts
<1>4. IsForHost(f) /\ IsForHost(g)
  BY <1>3 DEF Grown, IsForHost
<1> QED
  BY <1>2, <1>4 DEF OneOutcome

LEMMA NoFrames ==
  ASSUME UNCHANGED Log, \A w \in Worker : up'[w] = up[w]
  PROVE  NothingNew
BY DEF NothingNew, Sent

(* A frame that is handled has been sent. *)
LEMMA HandleCommandNothingNew ==
  ASSUME TInv, NEW p \in WsPeer, HandleCommand(p)
  PROVE  NothingNew
<1>f. PICK f : f = up[p][1]
  OBVIOUS
<1>1. /\ up[p] # <<>> /\ up' = [up EXCEPT ![p] = Tail(up[p])]
      /\ UNCHANGED <<handed, taken>>
      /\ Dropped(f) \/ Relayed(f) \/ Delivered(p, f)
  BY <1>f, HandleCases
<1>2. /\ f \in Frame /\ Proper(handed, p, f) /\ up[p] \in Seq(Frame) /\ f \in Range(up[p])
      /\ up \in [WsPeer -> Seq(Frame)]
  BY <1>f, <1>1, FrameFacts DEF TInv, TypeOK, Range
<1>3. \A q \in WsPeer : Range(up'[q]) \subseteq Range(up[q])
  <2>1. \A i \in DOMAIN Tail(up[p]) : i + 1 \in DOMAIN up[p] /\ Tail(up[p])[i] = up[p][i + 1]
    BY <1>1, <1>2, TailFacts
  <2>2. Range(Tail(up[p])) \subseteq Range(up[p])
    BY <2>1 DEF Range
  <2>3. \A q \in WsPeer : up'[q] = IF q = p THEN Tail(up[p]) ELSE up[q]
    BY <1>1, <1>2
  <2> QED
    BY <2>2, <2>3
<1>4. ASSUME NEW i \in DOMAIN Log'
      PROVE  \/ \E j \in DOMAIN Log : Log'[i] = Log[j]
             \/ Log'[i].from = p /\ Log'[i].msg = f
  <2>1. CASE Dropped(f) \/ Relayed(f)
    BY <1>1, <2>1, LogUntouched DEF Dropped, Relayed
  <2>2. CASE Delivered(p, f)
    <3>e. PICK e : e = [from |-> p, msg |-> f]
      OBVIOUS
    <3>1. Log' = Append(Log, e) /\ e \in Entry /\ Log \in Seq(Entry) /\ e.from = p /\ e.msg = f
      BY <1>1, <1>2, <2>2, <3>e, DeliveredFacts, LogTypes DEF TInv, Entry
    <3> QED
      BY <3>1, AppendFacts
  <2> QED
    BY <1>1, <2>1, <2>2
<1> QED
  BY <1>2, <1>3, <1>4, PeerFacts DEF NothingNew, Sent

(* The answers of a worker to a task it was still running are all new, and *)
(* say the same.                                                           *)
LEMMA JobEndsOutcome ==
  ASSUME TInv, PInv, OneOutcome, NEW w \in Worker, NEW n \in 1 .. Len(handed), JobEnds(w, n)
  PROVE  OneOutcome'
<1>1. /\ n \in running[w] /\ n \in DOMAIN handed /\ w \in handed[n].to
      /\ UNCHANGED <<handed, inbox, taken>>
  BY JobEndsFacts
<1>2. PICK k \in {"done", "failed"}, F \in Seq(Frame) : Reported(w, n, k, F)
  BY JobEndsFacts
<1>3. /\ \A i \in DOMAIN F : F[i] = [kind |-> k, n |-> n]
      /\ up' = [up EXCEPT ![w] = up[w] \o F]
      /\ up \in [WsPeer -> Seq(Frame)] /\ w \in WsPeer /\ UNCHANGED Log
  BY <1>1, <1>2, LogUntouched, PeerFacts DEF Reported, TInv, TypeOK
<1>4. ASSUME NEW f \in Range(up[w] \o F)
      PROVE  f \in Range(up[w]) \/ (f.kind = k /\ f.n = n)
  <2>1. PICK i \in DOMAIN (up[w] \o F) : f = (up[w] \o F)[i]
    BY <1>4 DEF Range
  <2>2. CASE i \in DOMAIN up[w]
    BY <1>3, <2>1, <2>2, ConcatFacts DEF Range
  <2>3. CASE i - Len(up[w]) \in DOMAIN F
    <3>1. i = Len(up[w]) + (i - Len(up[w]))
      BY <1>3, <2>1, ConcatFacts
    <3>2. f = F[i - Len(up[w])]
      BY <1>3, <2>1, <2>3, <3>1, ConcatFacts
    <3> QED
      BY <1>3, <2>3, <3>2
  <2> QED
    BY <1>3, <2>1, <2>2, <2>3, ConcatFacts
<1>5. ASSUME NEW v \in Worker, NEW f, Sent(v, f)'
      PROVE  Sent(v, f) \/ (v = w /\ f.kind = k /\ f.n = n)
  <2>1. up'[v] = IF v = w THEN up[w] \o F ELSE up[v]
    BY <1>3, PeerFacts
  <2> QED
    BY <1>3, <1>4, <1>5, <2>1 DEF Sent
<1>6. ASSUME NEW f, Sent(w, f), IsForHost(f)
      PROVE  f.n # n
  <2>1. Answer(f.n, w)
    BY <1>6, SentFacts DEF IsForHost
  <2>2. handed[n].by = Host => ~Answer(n, w)
    BY <1>1 DEF PInv, AllInPlace, InPlace, Running
  <2> QED
    BY <1>6, <2>1, <2>2 DEF IsForHost
<1> SUFFICES ASSUME NEW v \in Worker, NEW f, NEW g, Sent(v, f)', Sent(v, g)',
                    IsForHost(f)', IsForHost(g)', f.n = g.n
             PROVE  f.kind = g.kind
  BY DEF OneOutcome
<1>7. IsForHost(f) /\ IsForHost(g)
  BY <1>1 DEF IsForHost
<1>8. /\ Sent(v, f) \/ (v = w /\ f.kind = k /\ f.n = n)
      /\ Sent(v, g) \/ (v = w /\ g.kind = k /\ g.n = n)
  BY <1>5
<1> QED
  BY <1>6, <1>7, <1>8 DEF OneOutcome

LEMMA OutcomesStep == TInv /\ PInv /\ OneOutcome /\ [Next]_vars => OneOutcome'
<1> SUFFICES ASSUME TInv, PInv, OneOutcome, [Next]_vars
             PROVE  OneOutcome'
  OBVIOUS
<1>0. TypeOK /\ Host \in Peer
  BY PeerFacts DEF TInv
<1>1. CASE UNCHANGED vars
  BY <1>1, OutcomesKept, Unmoved, LogUntouched, NoFrames DEF vars, hostVars
<1>2. ASSUME NEW p \in WsPeer, NEW r \in Room, Arrive(p, r)
      PROVE  OneOutcome'
  BY <1>2, OutcomesKept, Unmoved, LogUntouched, NoFrames DEF Arrive, hostVars
<1>3. ASSUME NEW p \in WsPeer, HandleCommand(p)
      PROVE  OneOutcome'
  BY <1>3, HandleCases, OutcomesKept, Unmoved, HandleCommandNothingNew
<1>4. ASSUME NEW p \in WsPeer, SocketClosed(p)
      PROVE  OneOutcome'
  <2>1. up' = [up EXCEPT ![p] = <<>>] /\ UNCHANGED <<handed, inbox, taken>>
    BY <1>4 DEF SocketClosed, hostVars
  <2>2. \A w \in Worker : Range(up'[w]) \subseteq Range(up[w])
    BY <1>0, <2>1, PeerFacts DEF TypeOK, Range
  <2>3. NothingNew
    BY <2>1, <2>2, LogUntouched DEF NothingNew, Sent
  <2> QED
    BY <2>1, <2>3, OutcomesKept, Unmoved
<1>5. ASSUME NEW p \in WsPeer, Gone(p)
      PROVE  OneOutcome'
  BY <1>5, OutcomesKept, Unmoved, LogUntouched, NoFrames DEF Gone, hostVars
<1>6. ASSUME NEW p \in WsPeer, NEW id \in HostTask \cup {NoId}, Send(id, p)
      PROVE  OneOutcome'
  <2>1. PICK to : to = {q \in {p} : Connected(q)}
    OBVIOUS
  <2>2. /\ id \in DataId /\ to \in SUBSET Peer /\ HandOut(id, Host, to)
        /\ UNCHANGED <<up, inbox, taken>>
    BY <1>6, <2>1, SendFacts
  <2> QED
    BY <1>0, <2>2, HandOutFacts, OutcomesKept, LogUntouched, NoFrames
<1>7. ASSUME NEW r \in Room, McpCreateRoom(r)
      PROVE  OneOutcome'
  BY <1>7, OutcomesKept, Unmoved, LogUntouched, NoFrames DEF McpCreateRoom, hostVars
<1>8. ASSUME NEW r \in Room, NEW id \in HostTask \cup {NoId}, NEW exclude \in {{}, {Host}},
             Broadcast(id, r, exclude)
      PROVE  OneOutcome'
  <2>1. PICK to : to = {q \in Targets(r, exclude) : Connected(q)}
    OBVIOUS
  <2>2. /\ id \in DataId /\ to \in SUBSET Peer /\ HandOut(id, Host, to)
        /\ UNCHANGED <<up, inbox, taken>>
    BY <1>8, <2>1, BroadcastFacts
  <2> QED
    BY <1>0, <2>2, HandOutFacts, OutcomesKept, LogUntouched, NoFrames
<1>9. CASE Poll
  BY <1>9, LogPolled, OutcomesKept, Unmoved, NoFrames DEF Poll, TInv
<1>10. ASSUME NEW w \in Worker, RunTask(w)
       PROVE  OneOutcome'
  BY <1>10, OutcomesKept, Unmoved, LogUntouched, NoFrames DEF RunTask, hostVars
<1>11. ASSUME NEW w \in Worker, NEW n \in 1 .. Len(handed), JobEnds(w, n)
       PROVE  OneOutcome'
  BY <1>11, JobEndsOutcome
<1>12. ASSUME NEW w \in Worker, NEW l \in Lead, NEW id \in LeadTask \cup {NoId}, LeadAssigns(l, id, w)
       PROVE  OneOutcome'
  <2>1. /\ HandOut(id, l, {w}) /\ UNCHANGED Log
        /\ up' = [up EXCEPT ![l] = Append(up[l], [kind |-> "task", n |-> Len(handed) + 1])]
    BY <1>12, LogUntouched DEF LeadAssigns, hostVars
  <2>2. id \in DataId /\ l \in Peer /\ {w} \in SUBSET Peer
    BY PeerFacts DEF DataId, GivenId
  <2>3. \A v \in Worker : up'[v] = up[v]
    BY <1>0, <2>1, PeerFacts DEF TypeOK
  <2> QED
    BY <1>0, <2>1, <2>2, <2>3, HandOutFacts, OutcomesKept, NoFrames
<1> QED
  BY <1>1, <1>2, <1>3, <1>4, <1>5, <1>6, <1>7, <1>8, <1>9, <1>10, <1>11, <1>12 DEF Next

LEMMA OutcomesInvariant == Spec => [](PInv /\ OneOutcome)
<1>1. Init => PInv /\ OneOutcome
  <2> SUFFICES ASSUME Init
               PROVE  PInv /\ OneOutcome
    OBVIOUS
  <2>1. PInv
    BY DEF Init, PInv, AllInPlace, OnceDown
  <2>2. OneOutcome
    BY PeerFacts DEF Init, OneOutcome, Sent, Log, Range
  <2> QED
    BY <2>1, <2>2
<1>2. TInv /\ (PInv /\ OneOutcome) /\ [Next]_vars => (PInv /\ OneOutcome)'
  BY PlacesStep, OutcomesStep
<1> QED
  BY <1>1, <1>2, InvariantHolds, PTL DEF Spec

(* The entry of a task that was sent to one worker: a result that arrives  *)
(* for it comes from the same worker as the one that made it done, and     *)
(* says the same.                                                          *)
LEMMA DeliveredKeepsDone ==
  ASSUME TInv, Ids, Named, Logged, OneOutcome,
         NEW id \in GivenId, tasks[id].status = "done", Cardinality(tasks[id].to \cap Worker) = 1,
         NEW p \in WsPeer, NEW f \in Frame, Delivered(p, f), Proper(handed, p, f), Sent(p, f)
  PROVE  tasks'[id].status = "done"
<1>t. PICK t : t = named[p][f.n]
  OBVIOUS
<1>1. /\ \A x \in TaskId : ~(IsResult(f) /\ tasks[t].status # "none" /\ x = t)
                             => tasks'[x].status = tasks[x].status
      /\ IsResult(f) /\ tasks[t].status # "none" /\ t \in TaskId =>
           tasks'[t].status = StatusOnResult(f)
  BY <1>t, DeliveredEntry
<1>2. CASE ~(IsResult(f) /\ id = t)
  BY <1>1, <1>2, GivenFacts
<1>3. CASE IsResult(f) /\ id = t
  <2>1. IsForHost(f) /\ p \in tasks[id].to \cap Worker /\ handed[f.n].id = id
    BY <1>t, <1>3, EntryIsForHost
  <2>2. PICK i \in DOMAIN Log : Settles(i, id)
    BY DEF Logged
  <2>g. PICK g : g = Log[i].msg
    OBVIOUS
  <2>3. /\ Log[i].from \in tasks[id].to \cap Worker
        /\ IsForHost(g) /\ g.kind = "done" /\ handed[g.n].id = id
    BY <2>2, <2>g DEF Settles
  <2>4. Log[i].from = p
    <3>1. PICK v : tasks[id].to \cap Worker = {v}
      <4>1. tasks[id].to \cap Worker \subseteq Worker /\ IsFiniteSet(tasks[id].to \cap Worker)
        BY FS_Subset DEF Ids
      <4> QED
        BY <4>1, FS_Singleton
    <3> QED
      BY <2>1, <2>3, <3>1
  <2>5. g.n = f.n
    BY <2>1, <2>2, <2>3, <2>g DEF TInv, Addressed, Proper, Ids
  <2>6. Sent(p, g)
    BY <2>4, <2>g DEF Sent
  <2>7. f.kind = "done"
    BY <2>1, <2>3, <2>5, <2>6 DEF OneOutcome
  <2> QED
    BY <1>1, <1>3, <2>7, GivenFacts DEF StatusOnResult
<1> QED
  BY <1>2, <1>3

(* Tasks that were given an id, handed out to a single worker and are done *)
(* stay done: a new task does not take their entry, and no late result     *)
(* takes it back.                                                          *)
THEOREM DoneForGood ==
  ASSUME ~ReuseIds
  PROVE  Spec => DoneStaysDone
<1>1. TInv /\ (Ids /\ Named /\ Logged) /\ (PInv /\ OneOutcome) /\ [Next]_vars =>
        [\A id \in GivenId :
           tasks[id].status = "done" /\ Cardinality(tasks[id].to \cap Worker) = 1
             => tasks'[id].status = "done"]_vars
  <2> SUFFICES ASSUME TInv, Ids, Named, Logged, OneOutcome, Next,
                      NEW id \in GivenId, tasks[id].status = "done",
                      Cardinality(tasks[id].to \cap Worker) = 1
               PROVE  tasks'[id].status = "done"
    OBVIOUS
  <2>1. CASE UNCHANGED tasks
    BY <2>1
  <2>2. ASSUME NEW x \in HostTask \cup {NoId}, NEW prefix \in {"T", "BC"},
               NEW key \in OrMadeUp(x, prefix), Fresh(x),
               \A y \in TaskId \ {key} : tasks'[y] = tasks[y]
        PROVE  tasks'[id].status = "done"
    <3>1. x \in DataId
      BY DEF DataId, GivenId
    <3>2. x \in GivenId => key = x
      BY <3>1, KeyFacts
    <3>3. x \notin GivenId => key \notin GivenId
      BY <3>1, KeyFacts
    <3>4. x \in GivenId => \A n \in DOMAIN handed : handed[n].id # x
      BY <2>2, GivenFacts DEF Fresh
    <3>5. x \in GivenId => id # x
      BY <3>4 DEF Ids
    <3> QED
      BY <2>2, <3>2, <3>3, <3>5, GivenFacts
  <2>3. ASSUME NEW p \in WsPeer, NEW x \in HostTask \cup {NoId}, Send(x, p)
        PROVE  tasks'[id].status = "done"
    <3>1. PICK key \in OrMadeUp(x, "T") :
            /\ tasks'[key].to = {p} /\ tasks'[key].status \in {"sent", "failed"}
            /\ \A y \in TaskId \ {key} : tasks'[y] = tasks[y]
      BY <2>3, SendFacts
    <3>2. Fresh(x)
      BY <2>3 DEF Send
    <3> QED
      BY <2>2, <3>1, <3>2
  <2>4. ASSUME NEW r \in Room, NEW x \in HostTask \cup {NoId}, NEW exclude \in {{}, {Host}},
               Broadcast(x, r, exclude)
        PROVE  tasks'[id].status = "done"
    <3>1. PICK key \in OrMadeUp(x, "BC") : \A y \in TaskId \ {key} : tasks'[y] = tasks[y]
      BY <2>4, BroadcastFacts
    <3>2. Fresh(x)
      BY <2>4 DEF Broadcast
    <3> QED
      BY <2>2, <3>1, <3>2
  <2>5. ASSUME NEW p \in WsPeer, HandleCommand(p)
        PROVE  tasks'[id].status = "done"
    <3>f. PICK f : f = up[p][1]
      OBVIOUS
    <3>1. /\ up[p] # <<>> /\ UNCHANGED <<handed, taken>>
          /\ Dropped(f) \/ Relayed(f) \/ Delivered(p, f)
      BY <2>5, <3>f, HandleCases
    <3>2. f \in Frame /\ Proper(handed, p, f) /\ Sent(p, f)
      BY <3>f, <3>1, FrameFacts DEF Sent, Range
    <3>3. CASE Dropped(f) \/ Relayed(f)
      BY <3>3 DEF Dropped, Relayed
    <3>4. CASE Delivered(p, f)
      BY <3>2, <3>4, DeliveredKeepsDone
    <3> QED
      BY <3>1, <3>3, <3>4
  <2>6. Poll \/ (\E r \in Room : McpCreateRoom(r)) => UNCHANGED tasks
    BY DEF hostVars, Poll, McpCreateRoom
  <2>7. \A p \in WsPeer :
          (\E r \in Room : Arrive(p, r)) \/ SocketClosed(p) \/ Gone(p) => UNCHANGED tasks
    BY DEF hostVars, Arrive, SocketClosed, Gone
  <2>8. \A w \in Worker :
          \/ RunTask(w)
          \/ \E n \in 1 .. Len(handed) : JobEnds(w, n)
          \/ \E l \in Lead, x \in LeadTask \cup {NoId} : LeadAssigns(l, x, w)
          => UNCHANGED tasks
    BY DEF hostVars, RunTask, JobEnds, LeadAssigns
  <2> QED
    BY <2>1, <2>3, <2>4, <2>5, <2>6, <2>7, <2>8 DEF Next
<1> QED
  BY <1>1, InvariantHolds, EntriesInvariant, OutcomesInvariant, PTL DEF Spec, DoneStaysDone
=============================================================================
