---------------------------- MODULE StreamBridge ----------------------------
(***************************************************************************)
(* One video stream: its entry in StreamManager, the FfmpegBridge that     *)
(* supervises an ffmpeg process for it, and its FrameCache                 *)
(* (src/video/stream-manager.ts, ffmpeg-bridge.ts, frame-cache.ts).        *)
(* Streams share nothing but the maps they are kept in.                    *)
(*                                                                         *)
(* The bridge replaces its process on every reconnect, while the events    *)
(* and timers of earlier processes are still to come: an exit, the rest of *)
(* a pipe, a kill timer, a reconnect timer.  Processes are numbered in the *)
(* order they are spawned.  A chunk of output is either the head of a JPEG *)
(* (start marker) or its tail (end marker).                                *)
(***************************************************************************)
EXTENDS Integers, Sequences

CONSTANTS
  MaxReconnectAttempts,   (* the option of that name                          *)
  CacheSize,              (* maxSize of the FrameCache                        *)
  MaxManual,              (* bound: calls of StreamManager.reconnect          *)
  MaxProcs,               (* bound: processes spawned                         *)
  MaxFrames               (* bound: frames captured                           *)

ASSUME StreamAssumption ==
  /\ MaxReconnectAttempts \in Nat
  /\ CacheSize \in Nat \ {0}
  /\ MaxManual \in Nat
  /\ MaxProcs \in Nat \ {0}
  /\ MaxFrames \in Nat

VARIABLES
  stream,       (* the manager: "new", "listed" in bridges, "released"        *)
  status,       (* _status                                                    *)
  error,        (* _error: "none", "spawn" (could not start), "exit"          *)
  proc,         (* the process `proc' refers to; 0 is null                    *)
  spawned,      (* how many processes were spawned so far                     *)
  ran,          (* the processes that could be started                        *)
  alive,        (* the processes whose exit event has not been delivered      *)
  signals,      (* signals[k]: the signals successfully sent to process k     *)
  attempts,     (* _reconnectAttempts                                         *)
  retryTimers,  (* pending reconnect timers; reconnectTimer is the last armed *)
  killTimers,   (* pending 3 s kill timers                                    *)
  manual,       (* calls of reconnect from outside, for the bound             *)
  half,         (* processes in the middle of writing a frame                 *)
  buffer,       (* the buffer holds the start marker of a frame               *)
  captured,     (* frameSequence                                              *)
  cache         (* the sequence numbers of the cached frames                  *)

procVars  == <<proc, spawned, ran, alive, signals>>
timerVars == <<retryTimers, killTimers>>
dataVars  == <<half, buffer, captured, cache>>
vars == <<stream, status, error, procVars, attempts, timerVars, manual, dataVars>>

Procs == 1 .. MaxProcs

(* The statuses a step can end with: "reconnecting" lasts only until the   *)
(* new process is spawned, within the step.                                *)
Statuses == {"disconnected", "connecting", "streaming", "error"}

Init ==
  /\ stream = "new"
  /\ status = "disconnected"
  /\ error = "none"
  /\ proc = 0
  /\ spawned = 0
  /\ ran = {}
  /\ alive = {}
  /\ signals = [k \in Procs |-> {}]
  /\ attempts = 0
  /\ retryTimers = 0
  /\ killTimers = 0
  /\ manual = 0
  /\ half = {}
  /\ buffer = FALSE
  /\ captured = 0
  /\ cache = <<>>

-----------------------------------------------------------------------------
(* _spawnFfmpeg.  A process that cannot be started emits its error event   *)
(* in the next tick, before any other handler runs, and never exits.       *)

NewProc(starts) ==
  /\ spawned < MaxProcs
  /\ spawned' = spawned + 1
  /\ proc' = spawned + 1
  /\ ran' = IF starts THEN ran \cup {spawned + 1} ELSE ran
  /\ alive' = IF starts THEN alive \cup {spawned + 1} ELSE alive

SpawnFfmpeg(starts) ==
  /\ NewProc(starts)
  /\ status' = IF starts THEN "connecting" ELSE "error"
  /\ error' = IF starts THEN error ELSE "spawn"

(* The signals sent so far once _kill has run.  kill() of a process that   *)
(* is gone returns false and leaves no trace.                              *)
TerminatedProc ==
  IF proc \in alive THEN [signals EXCEPT ![proc] = @ \cup {"TERM"}] ELSE signals

KillTimersArmed == IF proc # 0 THEN killTimers + 1 ELSE killTimers

\* Mutant: the status is set to "reconnecting" after the process is spawned.
ReconnectStatusLast ==
  /\ attempts' = attempts + 1
  /\ signals' = TerminatedProc
  /\ killTimers' = KillTimersArmed
  /\ \E starts \in BOOLEAN :
       /\ NewProc(starts)
       /\ status' = IF starts THEN "reconnecting" ELSE "error"
       /\ error' = IF starts THEN error ELSE "spawn"
  /\ UNCHANGED dataVars

(* reconnect: replaces the process, whatever became of the old one. *)
Reconnect ==
  /\ attempts' = attempts + 1
  /\ signals' = TerminatedProc
  /\ killTimers' = KillTimersArmed
  /\ \E starts \in BOOLEAN : SpawnFfmpeg(starts)
  /\ UNCHANGED dataVars

-----------------------------------------------------------------------------
(* StreamManager                                                           *)

Connect ==
  /\ stream = "new"
  /\ stream' = "listed"
  /\ \E starts \in BOOLEAN : SpawnFfmpeg(starts)
  /\ UNCHANGED <<signals, attempts, timerVars, manual, dataVars>>

(* StreamManager offers it to its callers; no MCP tool is one. *)
ManualReconnect ==
  /\ stream = "listed"
  /\ manual < MaxManual
  /\ manual' = manual + 1
  /\ Reconnect
  /\ UNCHANGED <<stream, retryTimers>>

\* Mutant: stop() forgets the pending reconnect timer.
DisconnectKeepsTimer ==
  /\ stream = "listed"
  /\ stream' = "released"
  /\ signals' = TerminatedProc
  /\ killTimers' = KillTimersArmed
  /\ proc' = 0
  /\ status' = "disconnected"
  /\ cache' = <<>>
  /\ UNCHANGED <<error, spawned, ran, alive, attempts, retryTimers, manual,
                 half, buffer, captured>>

(* disconnect (and stopAll, for each stream): bridge.stop(), then the      *)
(* stream leaves the map and the cache.                                    *)
Disconnect ==
  /\ stream = "listed"
  /\ stream' = "released"
  /\ retryTimers' = IF retryTimers > 0 THEN retryTimers - 1 ELSE 0
  /\ signals' = TerminatedProc
  /\ killTimers' = KillTimersArmed
  /\ proc' = 0
  /\ status' = "disconnected"
  /\ cache' = <<>>
  /\ UNCHANGED <<error, spawned, ran, alive, attempts, manual,
                 half, buffer, captured>>

-----------------------------------------------------------------------------
(* Timers                                                                  *)

\* Mutant: an interval instead of a timeout.
RetryRepeats ==
  /\ retryTimers > 0
  /\ Reconnect
  /\ UNCHANGED <<stream, manual, retryTimers>>

(* A reconnect timer fires, which may be one that was overwritten. *)
RetryFires ==
  /\ retryTimers > 0
  /\ retryTimers' = retryTimers - 1
  /\ Reconnect
  /\ UNCHANGED <<stream, manual>>

(* A kill timer looks at the process `proc' refers to by then, and spares  *)
(* it only if a signal was already sent to it.                             *)
KillTimerFires ==
  /\ killTimers > 0
  /\ killTimers' = killTimers - 1
  /\ signals' = IF proc \in alive /\ signals[proc] = {}
                THEN [signals EXCEPT ![proc] = {"KILL"}]
                ELSE signals
  /\ UNCHANGED <<stream, status, error, proc, spawned, ran, alive, attempts,
                 retryTimers, manual, dataVars>>

-----------------------------------------------------------------------------
(* Events of the processes                                                 *)

RetryArmed == retryTimers' = retryTimers + 1

NoRetry == UNCHANGED retryTimers

\* Mutant: one attempt too many.
ScheduleOneMore == IF attempts > MaxReconnectAttempts THEN NoRetry ELSE RetryArmed

\* Mutant: one attempt too few.
ScheduleOneLess == IF attempts + 1 >= MaxReconnectAttempts THEN NoRetry ELSE RetryArmed

(* _scheduleReconnect: a timer still pending is lost, not cancelled. *)
ScheduleReconnect == IF attempts >= MaxReconnectAttempts THEN NoRetry ELSE RetryArmed

\* Mutant: the natural end of a source goes unnoticed.
ExitMissesNaturalEnd(code) ==
  IF status = "disconnected" \/ code = "zero"
  THEN UNCHANGED <<status, error>> /\ NoRetry
  ELSE status' = "error" /\ error' = "exit" /\ ScheduleReconnect

(* What the exit handler makes of an exit code. *)
ExitHandler(code) ==
  \/ /\ status = "disconnected"
     /\ UNCHANGED <<status, error>> /\ NoRetry
  \/ /\ status # "disconnected" /\ code = "zero"
     /\ status' = "disconnected"
     /\ UNCHANGED error /\ NoRetry
  \/ /\ status # "disconnected" /\ code # "zero"
     /\ status' = "error" /\ error' = "exit"
     /\ ScheduleReconnect

(* on("exit") of process k.  A process that got SIGKILL has no exit code.  *)
(* The handler is the bridge's: it does not ask whether k is still the     *)
(* bridge's process.                                                       *)
ExitCode(k) == IF "KILL" \in signals[k] THEN {"failed"} ELSE {"zero", "failed"}

Exited(k, code) ==
  /\ k \in alive
  /\ code \in ExitCode(k)
  /\ alive' = alive \ {k}
  /\ ExitHandler(code)
  /\ UNCHANGED <<stream, proc, spawned, ran, signals, attempts, killTimers, manual, dataVars>>

\* Mutant: nothing is dropped.
PushUnbounded(buf, frame) == Append(buf, frame)

(* FrameCache.push: the oldest frame beyond the size is dropped. *)
Push(buf, frame) ==
  LET pushed == Append(buf, frame)
  IN IF Len(pushed) > CacheSize THEN Tail(pushed) ELSE pushed

(* _onData with the head of a frame: it waits in the buffer for an end     *)
(* marker.  The pipe of a process can still deliver after its exit event.  *)
HeadArrives(k) ==
  /\ k \in ran \ half
  /\ captured < MaxFrames
  /\ half' = half \cup {k}
  /\ buffer' = TRUE
  /\ UNCHANGED <<stream, status, error, procVars, attempts, timerVars, manual,
                 captured, cache>>

(* _onData with the tail of a frame: everything from the first start       *)
(* marker in the buffer is a frame; without a start marker it is dropped.  *)
(* The frame event puts the frame into the cache.                          *)
TailArrives(k) ==
  /\ k \in half
  /\ half' = half \ {k}
  /\ buffer' = FALSE
  /\ IF buffer
     THEN /\ captured' = captured + 1
          /\ status' = IF status = "connecting" THEN "streaming" ELSE status
          /\ cache' = Push(cache, captured + 1)
     ELSE UNCHANGED <<status, captured, cache>>
  /\ UNCHANGED <<stream, error, procVars, attempts, timerVars, manual>>

-----------------------------------------------------------------------------
Next ==
  \/ Connect
  \/ ManualReconnect
  \/ Disconnect
  \/ RetryFires
  \/ KillTimerFires
  \/ \E k \in Procs :
       \/ \E code \in {"zero", "failed"} : Exited(k, code)
       \/ HeadArrives(k)
       \/ TailArrives(k)

Spec == Init /\ [][Next]_vars

(* Timers fire, and SIGKILL ends a process.  Nothing else is certain: a    *)
(* process may ignore SIGTERM, and may run for ever.                       *)
Fairness ==
  /\ WF_vars(RetryFires)
  /\ WF_vars(KillTimerFires)
  /\ \A k \in Procs : WF_vars("KILL" \in signals[k] /\ Exited(k, "failed"))

FairSpec == Spec /\ Fairness

-----------------------------------------------------------------------------
(* Properties                                                              *)

(* The state of the bridge, the manager and the cache has its types. *)
TypeOK ==
  /\ stream \in {"new", "listed", "released"}
  /\ status \in Statuses
  /\ error \in {"none", "spawn", "exit"}
  /\ proc \in 0 .. spawned
  /\ spawned \in 0 .. MaxProcs
  /\ ran \subseteq 1 .. spawned
  /\ alive \subseteq ran
  /\ signals \in [Procs -> SUBSET {"TERM", "KILL"}]
  /\ attempts \in Nat
  /\ retryTimers \in Nat
  /\ killTimers \in Nat
  /\ manual \in 0 .. MaxManual
  /\ half \subseteq ran
  /\ buffer \in BOOLEAN
  /\ captured \in Nat
  /\ cache \in Seq(Nat)

(* As long as only the bridge reconnects, it never runs two processes for  *)
(* one stream, and never waits to start one while another is running.      *)
OneProcess ==
  manual = 0 =>
    /\ \A j, k \in alive : j = k
    /\ retryTimers <= 1
    /\ retryTimers = 1 => alive = {} /\ status = "error"

(* A process that fails with attempts left is going to be replaced: the    *)
(* stream is not left in "error" with nobody to bring it back.             *)
FailureIsRetried ==
  status = "error" /\ error = "exit" /\ attempts < MaxReconnectAttempts => retryTimers > 0

(* A stream shown as connecting or streaming has a process that runs. *)
ActiveHasProcess ==
  status \in {"connecting", "streaming"} => proc \in alive

(* The bridge gives up after its attempts, to which reconnects from        *)
(* outside add one each: no two retries race past the limit.               *)
AttemptsBounded == attempts <= MaxReconnectAttempts + manual

(* Once disconnected, a stream that only the bridge reconnected is never   *)
(* started again and stays disconnected, whatever is still to come of its  *)
(* processes and timers.                                                   *)
ReleasedStaysDown ==
  [][stream = "released" /\ manual = 0 => status' = "disconnected" /\ spawned' = spawned]_vars

(* The cache of a listed stream holds the latest frames, in order and      *)
(* without a gap, as many as fit.                                          *)
CacheIsLatest ==
  stream = "listed" =>
    /\ Len(cache) = IF captured < CacheSize THEN captured ELSE CacheSize
    /\ \A i \in 1 .. Len(cache) : cache[i] = captured - Len(cache) + i

(* A failed process with attempts left leads to a new one, unless the      *)
(* stream is released first.                                               *)
FailuresRecover ==
  (stream = "listed" /\ error = "exit" /\ status = "error" /\ attempts < MaxReconnectAttempts)
    ~> (status # "error" \/ error = "spawn")

(* SIGKILL is only for a process that was asked to terminate before. *)
KillAfterTerm ==
  \A k \in Procs : "KILL" \in signals[k] => "TERM" \in signals[k]
=============================================================================
