------------------------- MODULE StreamBridgeProofs -------------------------
(***************************************************************************)
(* Theorems about StreamBridge, for every limit of attempts and every size *)
(* of the cache, and for any number of processes, frames and reconnects    *)
(* from outside.                                                           *)
(*                                                                         *)
(* The supervision of the processes rests on an account: whatever was      *)
(* exited, retried or reconnected, there are never more running processes  *)
(* and pending retries together than the first start and the reconnects    *)
(* from outside make up for (Accounted).  One process at a time, the bound *)
(* on attempts and the silence of a released stream all follow from it.    *)
(***************************************************************************)
EXTENDS StreamBridge, FiniteSetTheorems, SequenceTheorems, TLAPS

(* Nothing has happened to a stream that was not connected yet. *)
Fresh ==
  stream = "new" =>
    /\ status = "disconnected" /\ spawned = 0 /\ manual = 0
    /\ attempts = 0 /\ retryTimers = 0
    /\ captured = 0 /\ cache = <<>>

(* Every running process and every pending retry stems from the first      *)
(* start or from a reconnect from outside.                                 *)
Accounted == stream # "new" => retryTimers + Cardinality(alive) <= 1 + manual

(* The attempts made and those still to be made are within the limit. *)
Budget == attempts + retryTimers <= MaxReconnectAttempts + manual

(* While a retry is pending, the stream is shown as failed. *)
Waiting == manual = 0 /\ retryTimers > 0 => status = "error"

(* A released stream is down, and no retry is pending. *)
Released == stream = "released" /\ manual = 0 => status = "disconnected" /\ retryTimers = 0

Supervised == Fresh /\ Accounted /\ Budget /\ Waiting /\ Released

IInv == TypeOK /\ Supervised /\ FailureIsRetried /\ ActiveHasProcess /\ CacheIsLatest

-----------------------------------------------------------------------------
(* The cache *)

Filled(buf, n) ==
  /\ Len(buf) = IF n < CacheSize THEN n ELSE CacheSize
  /\ \A i \in 1 .. Len(buf) : buf[i] = n - Len(buf) + i

(* A cache that holds the latest of n frames holds the latest of n + 1     *)
(* frames after the next one is pushed.                                    *)
LEMMA PushKeepsLatest ==
  ASSUME NEW buf \in Seq(Nat), NEW n \in Nat, Filled(buf, n)
  PROVE  Push(buf, n + 1) \in Seq(Nat) /\ Filled(Push(buf, n + 1), n + 1)
<1> DEFINE pushed == Append(buf, n + 1)
           k == Len(buf)
<1>1. CacheSize \in Nat \ {0} /\ k \in Nat
  BY StreamAssumption
<1>2. /\ pushed \in Seq(Nat) /\ pushed # <<>> /\ Len(pushed) = k + 1
      /\ \A i \in 1 .. k : pushed[i] = buf[i]
      /\ pushed[k + 1] = n + 1
  BY AppendProperties
<1>3. k = IF n < CacheSize THEN n ELSE CacheSize
  BY DEF Filled
<1>4. \A i \in 1 .. k + 1 : pushed[i] = n - k + i
  <2> SUFFICES ASSUME NEW i \in 1 .. k + 1
               PROVE  pushed[i] = n - k + i
    OBVIOUS
  <2>1. CASE i = k + 1
    BY <1>1, <1>2, <2>1
  <2>2. CASE i # k + 1
    <3>1. i \in 1 .. k
      BY <1>1, <2>2
    <3> QED
      BY <1>2, <3>1 DEF Filled
  <2> QED
    BY <2>1, <2>2
<1> HIDE DEF pushed, k
<1>5. CASE n < CacheSize
  <2>1. Push(buf, n + 1) = pushed
    BY <1>1, <1>2, <1>3, <1>5 DEF Push, pushed
  <2>2. Filled(pushed, n + 1)
    BY <1>1, <1>2, <1>3, <1>4, <1>5 DEF Filled
  <2> QED
    BY <1>2, <2>1, <2>2
<1>6. CASE ~(n < CacheSize)
  <2> DEFINE t == Tail(pushed)
  <2>1. Push(buf, n + 1) = t
    BY <1>1, <1>2, <1>3, <1>6 DEF Push, pushed
  <2>2. t \in Seq(Nat) /\ Len(t) = k /\ \A i \in 1 .. k : t[i] = pushed[i + 1]
    BY <1>1, <1>2, HeadTailProperties
  <2> HIDE DEF t
  <2>3. ASSUME NEW i \in 1 .. k
        PROVE  t[i] = (n + 1) - k + i
    <3>1. i + 1 \in 1 .. k + 1
      BY <1>1
    <3>2. t[i] = n - k + (i + 1)
      BY <1>4, <2>2, <3>1
    <3> QED
      BY <1>1, <3>2
  <2>4. k = IF n + 1 < CacheSize THEN n + 1 ELSE CacheSize
    BY <1>1, <1>3, <1>6
  <2>5. Filled(t, n + 1)
    BY <2>2, <2>3, <2>4 DEF Filled
  <2> QED
    BY <2>1, <2>2, <2>5
<1> QED
  BY <1>5, <1>6

(* Pushing anything keeps the type of a cache. *)
LEMMA PushTypes ==
  ASSUME NEW buf \in Seq(Nat), NEW n \in Nat
  PROVE  Push(buf, n) \in Seq(Nat)
<1>1. Append(buf, n) \in Seq(Nat) /\ Append(buf, n) # <<>>
  BY AppendProperties
<1> QED
  BY <1>1, HeadTailProperties DEF Push

-----------------------------------------------------------------------------
(* Types *)

(* Starting a process, with or without success. *)
LEMMA SpawnTypes ==
  ASSUME TypeOK, NEW starts \in BOOLEAN, SpawnFfmpeg(starts)
  PROVE  /\ proc' \in 0 .. spawned' /\ spawned' \in 0 .. MaxProcs
         /\ ran' \subseteq 1 .. spawned' /\ alive' \subseteq ran' /\ half \subseteq ran'
         /\ status' \in Statuses /\ error' \in {"none", "spawn", "exit"}
<1>1. spawned \in Nat /\ spawned < MaxProcs /\ MaxProcs \in Nat /\ spawned' = spawned + 1
  BY StreamAssumption DEF TypeOK, SpawnFfmpeg, NewProc
<1>2. proc' \in 0 .. spawned' /\ spawned' \in 0 .. MaxProcs
  BY <1>1 DEF SpawnFfmpeg, NewProc
<1>3. 1 .. spawned \subseteq 1 .. spawned' /\ spawned + 1 \in 1 .. spawned'
  BY <1>1
<1>4. ran' \subseteq 1 .. spawned' /\ alive' \subseteq ran' /\ half \subseteq ran'
  BY <1>3 DEF SpawnFfmpeg, NewProc, TypeOK
<1> QED
  BY <1>2, <1>4 DEF SpawnFfmpeg, NewProc, Statuses, TypeOK

(* Stopping the current process. *)
LEMMA KillTypes ==
  ASSUME TypeOK
  PROVE  /\ TerminatedProc \in [Procs -> SUBSET {"TERM", "KILL"}]
         /\ KillTimersArmed \in Nat
         /\ alive \subseteq Procs
<1>1. alive \subseteq Procs
  BY StreamAssumption DEF TypeOK, Procs
<1>2. KillTimersArmed \in Nat
  BY DEF TypeOK, KillTimersArmed
<1>3. proc \in alive => signals[proc] \cup {"TERM"} \in SUBSET {"TERM", "KILL"}
  BY <1>1 DEF TypeOK
<1> QED
  BY <1>1, <1>2, <1>3 DEF TypeOK, TerminatedProc

LEMMA InitTypes == Init => TypeOK
<1> SUFFICES ASSUME Init
             PROVE  TypeOK
  OBVIOUS
<1>1. /\ spawned \in 0 .. MaxProcs /\ manual \in 0 .. MaxManual /\ proc \in 0 .. spawned
      /\ attempts \in Nat /\ retryTimers \in Nat /\ killTimers \in Nat /\ captured \in Nat
  BY StreamAssumption DEF Init
<1>2. cache \in Seq(Nat) /\ signals \in [Procs -> SUBSET {"TERM", "KILL"}]
  BY DEF Init
<1>3. /\ stream = "new" /\ status = "disconnected" /\ error = "none" /\ buffer = FALSE
      /\ ran = {} /\ alive = {} /\ half = {}
  BY DEF Init
<1> QED
  BY <1>1, <1>2, <1>3 DEF TypeOK, Statuses

LEMMA TypesPreserved == TypeOK /\ [Next]_vars => TypeOK'
<1> SUFFICES ASSUME TypeOK, [Next]_vars
             PROVE  TypeOK'
  OBVIOUS
<1>1. ASSUME Connect
      PROVE  TypeOK'
  <2>1. PICK starts \in BOOLEAN : SpawnFfmpeg(starts)
    BY <1>1 DEF Connect
  <2>2. /\ proc' \in 0 .. spawned' /\ spawned' \in 0 .. MaxProcs
        /\ ran' \subseteq 1 .. spawned' /\ alive' \subseteq ran' /\ half \subseteq ran'
        /\ status' \in Statuses /\ error' \in {"none", "spawn", "exit"}
    BY <2>1, SpawnTypes
  <2> QED
    BY <1>1, <2>2 DEF Connect, TypeOK, timerVars, dataVars
<1>2. ASSUME Reconnect, stream' = stream, retryTimers' \in Nat, manual' \in 0 .. MaxManual
      PROVE  TypeOK'
  <2>1. PICK starts \in BOOLEAN : SpawnFfmpeg(starts)
    BY <1>2 DEF Reconnect
  <2>2. signals' \in [Procs -> SUBSET {"TERM", "KILL"}] /\ killTimers' \in Nat /\ attempts' \in Nat
    BY <1>2, KillTypes DEF Reconnect, TypeOK
  <2> QED
    BY <1>2, <2>1, <2>2, SpawnTypes DEF Reconnect, TypeOK, dataVars
<1>3. ASSUME ManualReconnect
      PROVE  TypeOK'
  <2>1. manual' \in 0 .. MaxManual
    BY <1>3, StreamAssumption DEF ManualReconnect, TypeOK
  <2> QED
    BY <1>2, <1>3, <2>1 DEF ManualReconnect, TypeOK
<1>4. ASSUME RetryFires
      PROVE  TypeOK'
  <2>1. retryTimers' \in Nat
    BY <1>4 DEF RetryFires, TypeOK
  <2> QED
    BY <1>2, <1>4, <2>1 DEF RetryFires, TypeOK
<1>5. ASSUME Disconnect
      PROVE  TypeOK'
  <2>1. retryTimers' \in Nat /\ proc' \in 0 .. spawned /\ cache' \in Seq(Nat)
    BY <1>5 DEF Disconnect, TypeOK
  <2>2. signals' \in [Procs -> SUBSET {"TERM", "KILL"}] /\ killTimers' \in Nat
    BY <1>5, KillTypes DEF Disconnect
  <2> QED
    BY <1>5, <2>1, <2>2 DEF Disconnect, TypeOK, Statuses
<1>6. ASSUME KillTimerFires
      PROVE  TypeOK'
  <2>1. killTimers' \in Nat
    BY <1>6 DEF KillTimerFires, TypeOK
  <2>2. signals' \in [Procs -> SUBSET {"TERM", "KILL"}]
    BY <1>6 DEF KillTimerFires, TypeOK
  <2> QED
    BY <1>6, <2>1, <2>2 DEF KillTimerFires, TypeOK, dataVars
<1>7. ASSUME NEW k \in Procs, NEW code \in {"zero", "failed"}, Exited(k, code)
      PROVE  TypeOK'
  <2>1. retryTimers' \in Nat /\ status' \in Statuses /\ error' \in {"none", "spawn", "exit"}
    BY <1>7 DEF Exited, ExitHandler, ScheduleReconnect, RetryArmed, NoRetry, TypeOK, Statuses
  <2> QED
    BY <1>7, <2>1 DEF Exited, TypeOK, dataVars
<1>8. ASSUME NEW k \in Procs, HeadArrives(k)
      PROVE  TypeOK'
  BY <1>8 DEF HeadArrives, TypeOK, procVars, timerVars
<1>9. ASSUME NEW k \in Procs, TailArrives(k)
      PROVE  TypeOK'
  <2>1. captured + 1 \in Nat /\ Push(cache, captured + 1) \in Seq(Nat)
    BY PushTypes DEF TypeOK
  <2>2. captured' \in Nat /\ cache' \in Seq(Nat) /\ status' \in Statuses
    BY <1>9, <2>1 DEF TailArrives, TypeOK, Statuses
  <2> QED
    BY <1>9, <2>2 DEF TailArrives, TypeOK, procVars, timerVars
<1>10. CASE UNCHANGED vars
  BY <1>10 DEF vars, procVars, timerVars, dataVars, TypeOK
<1> QED
  BY <1>1, <1>3, <1>4, <1>5, <1>6, <1>7, <1>8, <1>9, <1>10 DEF Next

-----------------------------------------------------------------------------
(* The account of processes and retries *)

(* There are finitely many running processes, one less when one exits and  *)
(* one more when one is started.                                           *)
LEMMA AliveCount ==
  ASSUME TypeOK
  PROVE  /\ IsFiniteSet(alive) /\ Cardinality(alive) \in Nat
         /\ \A k \in alive : /\ Cardinality(alive \ {k}) = Cardinality(alive) - 1
                             /\ Cardinality(alive) >= 1
         /\ Cardinality(alive \cup {spawned + 1}) \in Nat
         /\ Cardinality(alive \cup {spawned + 1}) <= Cardinality(alive) + 1
<1>1. spawned \in Int /\ alive \subseteq 1 .. spawned
  BY DEF TypeOK
<1>2. IsFiniteSet(alive)
  <2>1. IsFiniteSet(1 .. spawned)
    BY <1>1, FS_Interval
  <2> QED
    BY <1>1, <2>1, FS_Subset
<1>3. Cardinality(alive) \in Nat
  BY <1>2, FS_CardinalityType
<1>4. /\ IsFiniteSet(alive \cup {spawned + 1})
      /\ Cardinality(alive \cup {spawned + 1}) =
           IF spawned + 1 \in alive THEN Cardinality(alive) ELSE Cardinality(alive) + 1
  BY <1>2, FS_AddElement
<1>5. ASSUME NEW k \in alive
      PROVE  /\ Cardinality(alive \ {k}) = Cardinality(alive) - 1
             /\ Cardinality(alive) >= 1
  <2>1. Cardinality(alive \ {k}) = Cardinality(alive) - 1 /\ Cardinality(alive \ {k}) \in Nat
    BY <1>2, FS_RemoveElement, FS_CardinalityType
  <2> QED
    BY <1>3, <2>1
<1> QED
  BY <1>2, <1>3, <1>4, <1>5

LEMMA AliveAfterSpawn ==
  ASSUME TypeOK, NEW starts \in BOOLEAN, SpawnFfmpeg(starts)
  PROVE  Cardinality(alive') \in Nat /\ Cardinality(alive') <= Cardinality(alive) + 1
<1>1. Cardinality(alive) \in Nat /\ Cardinality(alive) <= Cardinality(alive) + 1
  BY AliveCount
<1>2. CASE alive' = alive
  BY <1>1, <1>2
<1>3. CASE alive' = alive \cup {spawned + 1}
  BY <1>3, AliveCount
<1> QED
  BY <1>2, <1>3 DEF SpawnFfmpeg, NewProc

LEMMA InitSupervised == Init => Supervised
BY StreamAssumption DEF Init, Supervised, Fresh, Accounted, Budget, Waiting, Released

LEMMA SupervisedPreserved ==
  ASSUME TypeOK, TypeOK', Supervised, [Next]_vars
  PROVE  Supervised'
<1> DEFINE n == Cardinality(alive)
<1>1. /\ retryTimers \in Nat /\ attempts \in Nat /\ manual \in Nat /\ n \in Nat
      /\ MaxReconnectAttempts \in Nat
  BY AliveCount, StreamAssumption DEF TypeOK
<1>2. /\ stream # "new" => retryTimers + n <= 1 + manual
      /\ attempts + retryTimers <= MaxReconnectAttempts + manual
      /\ manual = 0 /\ retryTimers > 0 => status = "error"
      /\ stream = "released" /\ manual = 0 => status = "disconnected" /\ retryTimers = 0
  BY DEF Supervised, Accounted, Budget, Waiting, Released
<1>3. ASSUME Connect
      PROVE  Supervised'
  <2>1. PICK starts \in BOOLEAN : SpawnFfmpeg(starts)
    BY <1>3 DEF Connect
  <2>2. alive = {}
    BY <1>3 DEF Connect, TypeOK, Supervised, Fresh
  <2>3. n = 0
    BY <2>2, FS_EmptySet
  <2>4. Cardinality(alive') \in Nat /\ Cardinality(alive') <= n + 1
    BY <2>1, AliveAfterSpawn
  <2>5. stream' = "listed" /\ retryTimers' = 0 /\ manual' = manual /\ attempts' = attempts
    BY <1>3 DEF Connect, Supervised, Fresh, timerVars
  <2> HIDE DEF n
  <2> QED
    BY <1>1, <1>2, <2>3, <2>4, <2>5 DEF Supervised, Fresh, Accounted, Budget, Waiting, Released
<1>4. ASSUME ManualReconnect
      PROVE  Supervised'
  <2>1. PICK starts \in BOOLEAN : SpawnFfmpeg(starts)
    BY <1>4 DEF ManualReconnect, Reconnect
  <2>2. Cardinality(alive') \in Nat /\ Cardinality(alive') <= n + 1
    BY <2>1, AliveAfterSpawn
  <2>3. /\ stream = "listed" /\ stream' = "listed" /\ retryTimers' = retryTimers
        /\ manual' = manual + 1 /\ attempts' = attempts + 1
    BY <1>4 DEF ManualReconnect, Reconnect
  <2> HIDE DEF n
  <2> QED
    BY <1>1, <1>2, <2>2, <2>3 DEF Supervised, Fresh, Accounted, Budget, Waiting, Released
<1>5. ASSUME RetryFires
      PROVE  Supervised'
  <2>1. PICK starts \in BOOLEAN : SpawnFfmpeg(starts)
    BY <1>5 DEF RetryFires, Reconnect
  <2>2. Cardinality(alive') \in Nat /\ Cardinality(alive') <= n + 1
    BY <2>1, AliveAfterSpawn
  <2>3. /\ retryTimers > 0 /\ retryTimers' = retryTimers - 1 /\ stream' = stream
        /\ manual' = manual /\ attempts' = attempts + 1
    BY <1>5 DEF RetryFires, Reconnect
  <2>4. stream # "new"
    BY <2>3 DEF Supervised, Fresh
  <2> HIDE DEF n
  <2> QED
    BY <1>1, <1>2, <2>2, <2>3, <2>4 DEF Supervised, Fresh, Accounted, Budget, Waiting, Released
<1>6. ASSUME Disconnect
      PROVE  Supervised'
  <2>1. /\ retryTimers' = IF retryTimers > 0 THEN retryTimers - 1 ELSE 0
        /\ stream = "listed" /\ stream' = "released" /\ status' = "disconnected"
        /\ manual' = manual /\ attempts' = attempts /\ alive' = alive
    BY <1>6 DEF Disconnect
  <2> QED
    BY <1>1, <1>2, <2>1 DEF Supervised, Fresh, Accounted, Budget, Waiting, Released
<1>7. ASSUME NEW k \in Procs, NEW code \in {"zero", "failed"}, Exited(k, code)
      PROVE  Supervised'
  <2>1. Cardinality(alive') = n - 1 /\ n >= 1
    BY <1>7, AliveCount DEF Exited
  <2>2. stream # "new" /\ stream' = stream /\ manual' = manual /\ attempts' = attempts
    BY <1>7 DEF Exited, TypeOK, Supervised, Fresh
  <2>3. \/ status' = status /\ retryTimers' = retryTimers
        \/ status # "disconnected" /\ status' = "disconnected" /\ retryTimers' = retryTimers
        \/ /\ status # "disconnected" /\ status' = "error"
           /\ \/ retryTimers' = retryTimers
              \/ attempts < MaxReconnectAttempts /\ retryTimers' = retryTimers + 1
    <3>1. attempts >= MaxReconnectAttempts \/ attempts < MaxReconnectAttempts
      BY <1>1
    <3> QED
      BY <1>7, <3>1 DEF Exited, ExitHandler, ScheduleReconnect, RetryArmed, NoRetry
  <2> HIDE DEF n
  <2> QED
    BY <1>1, <1>2, <2>1, <2>2, <2>3 DEF Supervised, Fresh, Accounted, Budget, Waiting, Released
<1>8. ASSUME stream' = stream, retryTimers' = retryTimers, manual' = manual,
             attempts' = attempts, alive' = alive, spawned' = spawned,
             status' = status \/ (status = "connecting" /\ status' = "streaming"),
             stream = "new" => captured' = captured /\ cache' = cache
      PROVE  Supervised'
  BY <1>1, <1>2, <1>8 DEF Supervised, Fresh, Accounted, Budget, Waiting, Released
<1>9. ASSUME KillTimerFires
      PROVE  Supervised'
  BY <1>8, <1>9 DEF KillTimerFires, dataVars
<1>10. ASSUME NEW k \in Procs, HeadArrives(k)
       PROVE  Supervised'
  BY <1>8, <1>10 DEF HeadArrives, procVars, timerVars
<1>11. ASSUME NEW k \in Procs, TailArrives(k)
       PROVE  Supervised'
  <2>1. stream # "new"
    BY <1>11 DEF TailArrives, TypeOK, Supervised, Fresh
  <2>2. status' = status \/ (status = "connecting" /\ status' = "streaming")
    BY <1>11 DEF TailArrives
  <2> QED
    BY <1>8, <1>11, <2>1, <2>2 DEF TailArrives, procVars, timerVars
<1>12. CASE UNCHANGED vars
  BY <1>8, <1>12 DEF vars, procVars, timerVars, dataVars
<1> QED
  BY <1>3, <1>4, <1>5, <1>6, <1>7, <1>9, <1>10, <1>11, <1>12 DEF Next

-----------------------------------------------------------------------------
(* What the status promises *)

LEMMA StatusPreserved ==
  ASSUME TypeOK, FailureIsRetried, ActiveHasProcess, [Next]_vars
  PROVE  FailureIsRetried' /\ ActiveHasProcess'
<1> USE DEF FailureIsRetried, ActiveHasProcess
<1>1. retryTimers \in Nat /\ attempts \in Nat /\ MaxReconnectAttempts \in Nat
  BY StreamAssumption DEF TypeOK
<1>2. ASSUME NEW starts \in BOOLEAN, SpawnFfmpeg(starts)
      PROVE  FailureIsRetried' /\ ActiveHasProcess'
  BY <1>2 DEF SpawnFfmpeg, NewProc
<1>3. CASE Connect \/ ManualReconnect \/ RetryFires
  BY <1>2, <1>3 DEF Connect, ManualReconnect, RetryFires, Reconnect
<1>4. CASE Disconnect
  BY <1>4 DEF Disconnect
<1>5. CASE KillTimerFires
  BY <1>5 DEF KillTimerFires
<1>6. ASSUME NEW k \in Procs, NEW code \in {"zero", "failed"}, Exited(k, code)
      PROVE  FailureIsRetried' /\ ActiveHasProcess'
  <2>1. /\ proc' = proc /\ attempts' = attempts /\ alive' = alive \ {k}
        /\ ExitHandler(code)
    BY <1>6 DEF Exited
  <2>2. CASE status = "disconnected" /\ status' = status /\ error' = error
    BY <2>2
  <2>3. CASE status' = "disconnected"
    BY <2>3
  <2>4. CASE status' = "error" /\ error' = "exit" /\ ScheduleReconnect
    BY <1>1, <2>1, <2>4 DEF ScheduleReconnect, RetryArmed, NoRetry
  <2> QED
    BY <2>1, <2>2, <2>3, <2>4 DEF ExitHandler
<1>7. ASSUME NEW k \in Procs, HeadArrives(k)
      PROVE  FailureIsRetried' /\ ActiveHasProcess'
  BY <1>7 DEF HeadArrives, procVars, timerVars
<1>8. ASSUME NEW k \in Procs, TailArrives(k)
      PROVE  FailureIsRetried' /\ ActiveHasProcess'
  BY <1>8 DEF TailArrives, procVars, timerVars
<1>9. CASE UNCHANGED vars
  BY <1>9 DEF vars, procVars, timerVars
<1> QED
  BY <1>3, <1>4, <1>5, <1>6, <1>7, <1>8, <1>9 DEF Next

LEMMA CachePreserved ==
  ASSUME TypeOK, Fresh, CacheIsLatest, [Next]_vars
  PROVE  CacheIsLatest'
<1> USE DEF CacheIsLatest
<1>1. CASE Connect
  <2>1. captured' = 0 /\ cache' = <<>>
    BY <1>1 DEF Connect, Fresh, dataVars
  <2> QED
    BY <2>1, StreamAssumption
<1>2. CASE ManualReconnect
  BY <1>2 DEF ManualReconnect, Reconnect, dataVars
<1>3. CASE RetryFires
  BY <1>3 DEF RetryFires, Reconnect, dataVars
<1>4. CASE Disconnect
  BY <1>4 DEF Disconnect
<1>5. CASE KillTimerFires
  BY <1>5 DEF KillTimerFires, dataVars
<1>6. ASSUME NEW k \in Procs, NEW code \in {"zero", "failed"}, Exited(k, code)
      PROVE  CacheIsLatest'
  BY <1>6 DEF Exited, dataVars
<1>7. ASSUME NEW k \in Procs, HeadArrives(k)
      PROVE  CacheIsLatest'
  BY <1>7 DEF HeadArrives
<1>8. ASSUME NEW k \in Procs, TailArrives(k)
      PROVE  CacheIsLatest'
  <2>1. stream' = stream
    BY <1>8 DEF TailArrives
  <2>2. CASE ~buffer
    BY <1>8, <2>2 DEF TailArrives
  <2>3. CASE buffer /\ stream = "listed"
    <3>1. cache' = Push(cache, captured + 1) /\ captured' = captured + 1
      BY <1>8, <2>3 DEF TailArrives
    <3>2. Filled(cache, captured) /\ cache \in Seq(Nat) /\ captured \in Nat
      BY <2>3 DEF Filled, TypeOK
    <3>3. Filled(cache', captured')
      BY <3>1, <3>2, PushKeepsLatest
    <3> QED
      BY <3>3 DEF Filled
  <2> QED
    BY <2>1, <2>2, <2>3 DEF TypeOK
<1>9. CASE UNCHANGED vars
  BY <1>9 DEF vars, dataVars
<1> QED
  BY <1>1, <1>2, <1>3, <1>4, <1>5, <1>6, <1>7, <1>8, <1>9 DEF Next

-----------------------------------------------------------------------------
(* The theorems *)

THEOREM InvariantHolds == Spec => []IInv
<1>1. Init => IInv
  <2>1. Init => FailureIsRetried /\ ActiveHasProcess /\ CacheIsLatest
    BY DEF Init, FailureIsRetried, ActiveHasProcess, CacheIsLatest
  <2> QED
    BY <2>1, InitTypes, InitSupervised DEF IInv
<1>2. IInv /\ [Next]_vars => IInv'
  <2> SUFFICES ASSUME IInv, [Next]_vars
               PROVE  IInv'
    OBVIOUS
  <2>1. TypeOK'
    BY TypesPreserved DEF IInv
  <2>2. Supervised'
    BY <2>1, SupervisedPreserved DEF IInv
  <2>3. FailureIsRetried' /\ ActiveHasProcess'
    BY StatusPreserved DEF IInv
  <2>4. CacheIsLatest'
    BY CachePreserved DEF IInv, Supervised
  <2> QED
    BY <2>1, <2>2, <2>3, <2>4 DEF IInv
<1> QED
  BY <1>1, <1>2, PTL DEF Spec

(* The state of the bridge, the manager and the cache keeps its types.     *)
THEOREM TypeCorrect == Spec => []TypeOK
<1>1. IInv => TypeOK
  BY DEF IInv
<1> QED
  BY <1>1, InvariantHolds, PTL

(* Without reconnects from outside there is never more than one process,   *)
(* and never one while a retry is pending.                                 *)
THEOREM OneProcessOnly == Spec => []OneProcess
<1>1. IInv => OneProcess
  <2> SUFFICES ASSUME IInv, manual = 0
               PROVE  /\ \A j, k \in alive : j = k
                      /\ retryTimers <= 1
                      /\ retryTimers = 1 => alive = {} /\ status = "error"
    BY DEF OneProcess
  <2> DEFINE n == Cardinality(alive)
  <2>1. TypeOK /\ retryTimers \in Nat /\ IsFiniteSet(alive) /\ n \in Nat
    BY AliveCount DEF IInv, TypeOK
  <2>2. retryTimers + n <= 1
    <3>1. CASE stream = "new"
      <4>1. alive = {} /\ retryTimers = 0
        BY <3>1 DEF IInv, TypeOK, Supervised, Fresh
      <4> QED
        BY <4>1, FS_EmptySet
    <3>2. CASE stream # "new"
      BY <2>1, <3>2 DEF IInv, Supervised, Accounted
    <3> QED
      BY <3>1, <3>2
  <2> HIDE DEF n
  <2>3. retryTimers <= 1 /\ (retryTimers = 1 => n = 0) /\ (n = 0 \/ n = 1)
    BY <2>1, <2>2
  <2>4. n = 0 => alive = {}
    BY <2>1, FS_EmptySet DEF n
  <2>5. n = 1 => \E k : alive = {k}
    BY <2>1, FS_Singleton DEF n
  <2>6. retryTimers = 1 => status = "error"
    BY DEF IInv, Supervised, Waiting
  <2> QED
    BY <2>3, <2>4, <2>5, <2>6
<1> QED
  BY <1>1, InvariantHolds, PTL

(* A stream that failed with attempts left has a retry pending.            *)
THEOREM FailuresRetried == Spec => []FailureIsRetried
<1>1. IInv => FailureIsRetried
  BY DEF IInv
<1> QED
  BY <1>1, InvariantHolds, PTL

(* A stream shown as active has a running process.                         *)
THEOREM ActiveRuns == Spec => []ActiveHasProcess
<1>1. IInv => ActiveHasProcess
  BY DEF IInv
<1> QED
  BY <1>1, InvariantHolds, PTL

(* No two retries race past the limit of attempts.                         *)
THEOREM AttemptsLimited == Spec => []AttemptsBounded
<1>1. IInv => AttemptsBounded
  BY StreamAssumption DEF IInv, TypeOK, Supervised, Budget, AttemptsBounded
<1> QED
  BY <1>1, InvariantHolds, PTL

(* The cache of a listed stream holds its latest frames.                   *)
THEOREM CacheCorrect == Spec => []CacheIsLatest
<1>1. IInv => CacheIsLatest
  BY DEF IInv
<1> QED
  BY <1>1, InvariantHolds, PTL

(* Without reconnects from outside, a released stream is never started     *)
(* again and stays disconnected.                                           *)
THEOREM ReleasedForGood == Spec => ReleasedStaysDown
<1>1. IInv /\ [Next]_vars =>
        [stream = "released" /\ manual = 0 => status' = "disconnected" /\ spawned' = spawned]_vars
  <2> SUFFICES ASSUME IInv, Next, stream = "released", manual = 0
               PROVE  status' = "disconnected" /\ spawned' = spawned
    OBVIOUS
  <2>1. status = "disconnected" /\ retryTimers = 0
    BY DEF IInv, Supervised, Released
  <2>2. ~Connect /\ ~ManualReconnect /\ ~RetryFires /\ ~Disconnect
    BY <2>1 DEF Connect, ManualReconnect, RetryFires, Disconnect
  <2>3. CASE KillTimerFires
    BY <2>1, <2>3 DEF KillTimerFires
  <2>4. ASSUME NEW k \in Procs, NEW code \in {"zero", "failed"}, Exited(k, code)
        PROVE  status' = "disconnected" /\ spawned' = spawned
    BY <2>1, <2>4 DEF Exited, ExitHandler
  <2>5. ASSUME NEW k \in Procs, HeadArrives(k)
        PROVE  status' = "disconnected" /\ spawned' = spawned
    BY <2>1, <2>5 DEF HeadArrives, procVars
  <2>6. ASSUME NEW k \in Procs, TailArrives(k)
        PROVE  status' = "disconnected" /\ spawned' = spawned
    BY <2>1, <2>6 DEF TailArrives, procVars
  <2> QED
    BY <2>2, <2>3, <2>4, <2>5, <2>6 DEF Next
<1> QED
  BY <1>1, InvariantHolds, PTL DEF Spec, ReleasedStaysDown
=============================================================================
