----------------------------- MODULE WorkerPool -----------------------------
(***************************************************************************)
(* WorkerPool (src/workers/pool.ts): a fixed number of worker threads, the *)
(* peers assigned to them, and the replacement of threads that exit.       *)
(*                                                                         *)
(* start() and stop() are asynchronous: between two of their awaits, the   *)
(* messages and exits of the threads are handled.  A slot has at most one  *)
(* thread at a time, since only the exit of a thread brings the next one.  *)
(*                                                                         *)
(* No other part of the program calls assign() today: the model checks     *)
(* what it promises to a caller that assigns a peer once, to a pool that   *)
(* has started.                                                            *)
(***************************************************************************)
EXTENDS Integers, FiniteSets

CONSTANTS
  Size,            (* the number of workers: min(maxWorkers, cpus)           *)
  Peer,            (* the ids of peers                                       *)
  NoSlot,          (* the peer is not assigned                               *)
  EarlyDeath,      (* whether a thread may die before it says it is ready    *)
  MaxDeaths        (* bound: threads that die without being asked to         *)

(* Only finitely many peers ever ask for a worker. *)
ASSUME PoolAssumption ==
  /\ Size \in Nat \ {0}
  /\ IsFiniteSet(Peer)
  /\ EarlyDeath \in BOOLEAN
  /\ MaxDeaths \in Nat

Slot == 0 .. Size - 1

ASSUME NoSlotAssumption == NoSlot \notin Slot

VARIABLES
  thread,       (* thread[i]: "none", "starting", "up" once its ready message *)
                (* was handled, "dead" until its exit event is handled        *)
  original,     (* original[i]: the thread is the one start() spawned         *)
  asked,        (* asked[i]: the thread got a shutdown or was terminated      *)
  generation,   (* generation[i]: threads spawned in the slot.  Observed only.*)
  workers,      (* the slots with an entry in the workers array               *)
  workerReady,  (* workerReady[i]                                             *)
  peerCounts,   (* peerCounts[i]                                              *)
  assignments,  (* assignments[p]: the slot of p, or NoSlot                   *)
  home,         (* home[p]: the generation p was assigned to.  Observed only. *)
  starting,     (* where start() is: "idle", "spawning", "waiting", "ended"   *)
  spawned,      (* the number of slots start() has spawned                    *)
  ready,        (* _ready                                                     *)
  stopping,     (* stop(): -1 not called, i awaiting the end of the thread    *)
                (* in slot i, Size returned                                   *)
  deaths        (* threads that died without being asked to, for the bound    *)

threadVars == <<thread, original, asked, generation, workers>>
peerVars == <<peerCounts, assignments, home>>
startVars == <<starting, spawned, ready>>
vars == <<threadVars, workerReady, peerVars, startVars, stopping, deaths>>

Init ==
  /\ thread = [i \in Slot |-> "none"]
  /\ original = [i \in Slot |-> FALSE]
  /\ asked = [i \in Slot |-> FALSE]
  /\ generation = [i \in Slot |-> 0]
  /\ workers = {}
  /\ workerReady = [i \in Slot |-> FALSE]
  /\ peerCounts = [i \in Slot |-> 0]
  /\ assignments = [p \in Peer |-> NoSlot]
  /\ home = [p \in Peer |-> 0]
  /\ starting = "idle"
  /\ spawned = 0
  /\ ready = FALSE
  /\ stopping = -1
  /\ deaths = 0

-----------------------------------------------------------------------------
(* _spawnWorker                                                            *)

SpawnWorker(i, byStart) ==
  /\ thread' = [thread EXCEPT ![i] = "starting"]
  /\ original' = [original EXCEPT ![i] = byStart]
  /\ asked' = [asked EXCEPT ![i] = FALSE]
  /\ generation' = [generation EXCEPT ![i] = @ + 1]

(* start(), up to its first await. *)
Start ==
  /\ starting = "idle"
  /\ stopping = -1
  /\ starting' = "spawning"
  /\ spawned' = 1
  /\ SpawnWorker(0, TRUE)
  /\ workers' = {0}
  /\ UNCHANGED <<workerReady, peerVars, ready, stopping, deaths>>

\* Mutant: start() looks for the slot after the one it has spawned.
AwaitedOffByOne(i) == starting = "spawning" /\ original[i] /\ i = spawned

(* The ready message of the thread in slot i.  The promise start() awaits  *)
(* is the one of the thread it spawned: only that thread's message resumes *)
(* it.                                                                     *)
IsAwaited(i) == starting = "spawning" /\ original[i] /\ i = spawned - 1

ReadyMessage(i) ==
  /\ thread[i] = "starting"
  /\ workerReady' = [workerReady EXCEPT ![i] = TRUE]
  /\ \/ /\ ~IsAwaited(i)
        /\ thread' = [thread EXCEPT ![i] = "up"]
        /\ UNCHANGED <<original, asked, generation, workers, starting, spawned>>
     \/ /\ IsAwaited(i) /\ spawned = Size
        /\ thread' = [thread EXCEPT ![i] = "up"]
        /\ starting' = "waiting"
        /\ UNCHANGED <<original, asked, generation, workers, spawned>>
     \/ /\ IsAwaited(i) /\ spawned < Size
        /\ thread' = [thread EXCEPT ![i] = "up", ![spawned] = "starting"]
        /\ original' = [original EXCEPT ![spawned] = TRUE]
        /\ generation' = [generation EXCEPT ![spawned] = @ + 1]
        /\ workers' = workers \cup {spawned}
        /\ spawned' = spawned + 1
        /\ UNCHANGED <<asked, starting>>
  /\ UNCHANGED <<peerVars, ready, stopping, deaths>>

(* The interval of start(): all workers are ready at the same time. *)
CheckReady ==
  /\ starting = "waiting"
  /\ \A i \in Slot : workerReady[i]
  /\ starting' = "ended"
  /\ ready' = TRUE
  /\ UNCHANGED <<threadVars, workerReady, peerVars, spawned, stopping, deaths>>

(* A thread dies: of itself, or because it was asked to. *)
Dies(i) ==
  /\ thread[i] \in {"starting", "up"}
  /\ \/ asked[i] /\ UNCHANGED deaths
     \/ /\ ~asked[i]
        /\ thread[i] = "starting" => EarlyDeath \/ ~original[i]
        /\ deaths < MaxDeaths
        /\ deaths' = deaths + 1
  /\ thread' = [thread EXCEPT ![i] = "dead"]
  /\ UNCHANGED <<original, asked, generation, workers, workerReady, peerVars, startVars, stopping>>

AssignedTo(i) == {p \in Peer : assignments[p] = i}

(* The count of a slot less the n peers that leave it. *)
Less(count, n) == IF n > count THEN 0 ELSE count - n

\* Mutant: the peers of a thread that exited stay assigned to its slot.
OrphansKept(i) == UNCHANGED peerVars

\* Mutant: the count of a slot survives its thread.
CountsKept(i) ==
  /\ assignments' = [p \in Peer |-> IF assignments[p] = i THEN NoSlot ELSE assignments[p]]
  /\ UNCHANGED <<peerCounts, home>>

(* The peers of a thread that exited are no longer assigned. *)
OrphansReleased(i) ==
  /\ assignments' = [p \in Peer |-> IF assignments[p] = i THEN NoSlot ELSE assignments[p]]
  /\ peerCounts' = [peerCounts EXCEPT ![i] = Less(@, Cardinality(AssignedTo(i)))]
  /\ UNCHANGED home

(* stop() goes on to the next entry of the workers array, or returns.      *)
StopResumes(i) ==
  IF i + 1 < spawned
  THEN /\ stopping' = i + 1
       /\ asked' = [asked EXCEPT ![i] = FALSE, ![i + 1] = TRUE]
       /\ workers' = workers \cup {i}
       /\ OrphansReleased(i)
       /\ UNCHANGED ready
  ELSE /\ stopping' = Size
       /\ asked' = [asked EXCEPT ![i] = FALSE]
       /\ workers' = {}
       /\ assignments' = [p \in Peer |-> NoSlot]
       /\ peerCounts' = [peerCounts EXCEPT ![i] = Less(@, Cardinality(AssignedTo(i)))]
       /\ ready' = FALSE
       /\ UNCHANGED home

\* Mutant: a thread that was replaced counts as ready.
ExitKeepsReady(i) == UNCHANGED workerReady

(* The slot has no ready thread. *)
NotReady(i) == workerReady' = [workerReady EXCEPT ![i] = FALSE]

\* Mutant: a thread is only replaced before the pool has started.
RespawnedWhileStarting(i) ==
  IF starting = "ended"
  THEN /\ thread' = [thread EXCEPT ![i] = "none"]
       /\ UNCHANGED <<original, generation>>
  ELSE /\ thread' = [thread EXCEPT ![i] = "starting"]
       /\ original' = [original EXCEPT ![i] = FALSE]
       /\ generation' = [generation EXCEPT ![i] = @ + 1]

(* A new thread takes the slot, whatever the old one died of. *)
Respawned(i) ==
  /\ thread' = [thread EXCEPT ![i] = "starting"]
  /\ original' = [original EXCEPT ![i] = FALSE]
  /\ generation' = [generation EXCEPT ![i] = @ + 1]

(* on("exit"), and then what awaits the end of the thread. *)
Exit(i) ==
  /\ thread[i] = "dead"
  /\ NotReady(i)
  /\ Respawned(i)
  /\ IF stopping = i
     THEN StopResumes(i)
     ELSE /\ OrphansReleased(i)
          /\ asked' = [asked EXCEPT ![i] = FALSE]
          /\ workers' = workers \cup {i}
          /\ UNCHANGED <<stopping, ready>>
  /\ UNCHANGED <<starting, spawned, deaths>>

(* stop(), up to its first await: every worker is sent a shutdown, and the *)
(* first one is terminated.  Standard input has ended.                     *)
Stop ==
  /\ stopping = -1
  /\ workers # {}
  /\ stopping' = 0
  /\ asked' = [i \in Slot |-> i \in workers]
  /\ UNCHANGED <<thread, original, generation, workers, workerReady, peerVars, startVars, deaths>>

-----------------------------------------------------------------------------
(* Peers                                                                   *)

(* indexOf the smallest count. *)
LeastLoaded ==
  CHOOSE i \in Slot : \A j \in Slot :
    peerCounts[i] < peerCounts[j] \/ (peerCounts[i] = peerCounts[j] /\ i <= j)

Assign(p) ==
  /\ ready /\ stopping = -1
  /\ assignments[p] = NoSlot
  /\ peerCounts' = [peerCounts EXCEPT ![LeastLoaded] = @ + 1]
  /\ assignments' = [assignments EXCEPT ![p] = LeastLoaded]
  /\ home' = [home EXCEPT ![p] = generation[LeastLoaded]]
  /\ UNCHANGED <<threadVars, workerReady, startVars, stopping, deaths>>

(* release, which webrtc_disconnect calls for any peer. *)
Release(p) ==
  /\ assignments[p] # NoSlot
  /\ peerCounts' = [peerCounts EXCEPT ![assignments[p]] = Less(@, 1)]
  /\ assignments' = [assignments EXCEPT ![p] = NoSlot]
  /\ UNCHANGED <<threadVars, workerReady, home, startVars, stopping, deaths>>

-----------------------------------------------------------------------------
Next ==
  \/ Start
  \/ CheckReady
  \/ Stop
  \/ \E i \in Slot : ReadyMessage(i) \/ Dies(i) \/ Exit(i)
  \/ \E p \in Peer : Assign(p) \/ Release(p)

Spec == Init /\ [][Next]_vars

(* Threads start up, events are handled, the interval goes on firing, and  *)
(* a thread that is asked to end does.                                     *)
Fairness ==
  /\ WF_vars(CheckReady)
  /\ \A i \in Slot :
       /\ WF_vars(ReadyMessage(i))
       /\ WF_vars(Exit(i))
       /\ WF_vars(asked[i] /\ Dies(i))

FairSpec == Spec /\ Fairness

-----------------------------------------------------------------------------
(* Properties                                                              *)

(* The state of the pool has its types. *)
TypeOK ==
  /\ thread \in [Slot -> {"none", "starting", "up", "dead"}]
  /\ original \in [Slot -> BOOLEAN]
  /\ asked \in [Slot -> BOOLEAN]
  /\ generation \in [Slot -> Nat]
  /\ workers \subseteq Slot
  /\ workerReady \in [Slot -> BOOLEAN]
  /\ peerCounts \in [Slot -> 0 .. Cardinality(Peer)]
  /\ assignments \in [Peer -> Slot \cup {NoSlot}]
  /\ home \in [Peer -> Nat]
  /\ starting \in {"idle", "spawning", "waiting", "ended"}
  /\ spawned \in 0 .. Size
  /\ ready \in BOOLEAN
  /\ stopping \in -1 .. Size
  /\ deaths \in 0 .. MaxDeaths

(* The load of a worker is the number of its peers, through every order of *)
(* assignments, releases and exits.                                        *)
CountsMatch ==
  stopping < Size => \A i \in Slot : peerCounts[i] = Cardinality(AssignedTo(i))

(* No peer is left assigned to a thread that has been replaced: a message  *)
(* to a peer goes to the thread that got its assignment, or to none.       *)
AssignmentsCurrent ==
  \A p \in Peer : assignments[p] # NoSlot => home[p] = generation[assignments[p]]

(* A worker that counts as ready is the one that said so. *)
ReadyWorkerIsUp == \A i \in Slot : workerReady[i] => thread[i] \in {"up", "dead"}

(* start() ends, unless the pool is stopped, when no worker dies before it *)
(* is ready.                                                               *)
StartEnds == starting = "spawning" ~> ready \/ stopping >= 0

(* A worker that died without being asked to is replaced by one that       *)
(* becomes ready, before as after start() has ended, unless the pool is    *)
(* stopped meanwhile: nothing is demanded of the workers that stop() ends. *)
DeadAreReplaced == \A i \in Slot : thread[i] = "dead" ~> thread[i] = "up" \/ stopping >= 0

(* A pool that was stopped runs no worker any more. *)
StoppedIsStopped ==
  stopping = Size => \A i \in Slot : thread[i] \in {"none", "dead"}
=============================================================================
