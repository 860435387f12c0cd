------------------------ MODULE DeviceCapturesProofs ------------------------
(***************************************************************************)
(* Theorems about a session's captures, for any number of tests, any plan  *)
(* and a disk that fails whenever it likes.                                *)
(***************************************************************************)
EXTENDS DeviceCaptures, FiniteSetTheorems, TLAPS

LogStops == LogDrains \cup LogFlushes

(* Which call stands where *)
PlaceInv ==
  /\ call.at \in RecordingStarts \cup LogStarts => call.op = "start"
  /\ call.at \in RecordingStarts \cup LogStarts \cup RecordingStops \cup LogStops => call.test \in Tests
  /\ call.at = "logCleanUp" => call.op = "close"

(* A recorder that runs is listed in the manager's maps, from its spawn    *)
(* on in all but one, and its test is not taken for stopped.               *)
RecorderListed ==
  \A t \in Tests : recorder[t] = "alive" =>
    /\ t \in recordingInfo \cap recordingKeys
    /\ t \notin stoppedTests
    /\ t \in recordingProcess \/ (At("recorderSettle") /\ t = T)

(* What the awaits of a start and of a stop know of the recorder           *)
RecorderAtHand ==
  /\ call.at \in {"recordingDir", "recorderLaunch"} => recorder[T] # "alive"
  /\ call.at \in RecordingStarts => T \notin stoppedTests
  /\ call.at \in {"recorderLaunch", "recorderSettle"} => T \in recordingInfo \cap recordingKeys
  /\ call.at \in RecordingStops => recorder[T] # "alive"

(* A close has still to stop every recorder that runs, and none of them    *)
(* runs when it goes on to the logs.                                       *)
RecordersClosed ==
  call.op = "close" /\ ~Idle =>
    \A t \in Tests : recorder[t] = "alive" =>
      call.at \in RecordingStops \cup {"recordingSweep"} /\ t \in call.queue

(* The same for the loggers, which are registered as they are spawned      *)
LoggerListed ==
  /\ \A t \in Tests : logger[t] = "alive" => t \in logProcess
  /\ logProcess \subseteq logInfo \cap logKeys
  /\ logProcess \cap logStopped = {}

LoggerAtHand ==
  /\ call.at \in LogStarts => LT \notin logProcess /\ LT \notin logStopped
  /\ call.at \in LogStarts \ {"logAvailability"} => LT \in logInfo \cap logKeys
  /\ call.at \in LogStops => logger[LT] # "alive"

LoggersClosed ==
  call.op = "close" /\ call.at \in LogStops \cup {"logSweep"} =>
    \A t \in logProcess : t \in call.queue \/ (call.at # "logSweep" /\ t = LT)

(* A stream is tracked while it is open, and, as long as no log line was   *)
(* lost, its capture is registered unless a start or stop is about it.     *)
StreamInv ==
  /\ \A t \in Tests : stream[t] = "open" => t \in tracked
  /\ call.at \in LogFlushes \cup {"logFlushStart"} => LT \notin tracked
  /\ At("logStopped") => stream[LT] = "closed" \/ LT \in swallowed
  /\ ~diskFailed =>
       /\ disk = "ok"
       /\ \A t \in tracked : t \in logProcess \/ (At("logSpawn") /\ t = LT)

(* A capture that is registered has a stream to finalize, or one whose     *)
(* finalize has rejected unsaid, but while that is flushed.                *)
FinalizedInv ==
  /\ \A t \in logProcess : t \in tracked \/ t \in swallowed \/ (call.at \in LogFlushes /\ t = LT)
  /\ call.at \in LogStops => LT \in logProcess
  /\ At("logSpawn") => LT \in tracked

IndInv ==
  /\ TypeOK /\ PlaceInv
  /\ RecorderListed /\ RecorderAtHand /\ RecordersClosed
  /\ LoggerListed /\ LoggerAtHand /\ LoggersClosed
  /\ StreamInv /\ FinalizedInv

-----------------------------------------------------------------------------
(* What becomes of the call, field by field                                *)
Moves(at, op, test, queue) ==
  call'.at = at /\ call'.op = op /\ call'.test = test /\ call'.queue = queue

(* Each way to go on says where the call stands next. *)
LEMMA CallMoves ==
  ASSUME TypeOK
  PROVE  /\ \A at : GoTo(at) => Moves(at, call.op, call.test, call.queue) /\ UNCHANGED answer
         /\ \A how : Return(how) => Moves("idle", call.op, call.test, {}) /\ answer' = how
         /\ \A op, at, t, all, keep : Enter(op, at, t, all, keep) => Moves(at, op, t, all)
         /\ \A at, how : StopAnswers(at, how) => Moves(at, call.op, call.test, call.queue) /\ answer' = how
<1>. USE DEF TypeOK, CallTypeOK, Moves
<1>1. \A at : GoTo(at) => Moves(at, call.op, call.test, call.queue) /\ UNCHANGED answer
  BY DEF GoTo
<1>2. \A how : Return(how) => Moves("idle", call.op, call.test, {}) /\ answer' = how
  BY DEF Return
<1>3. \A op, at, t, all, keep : Enter(op, at, t, all, keep) => Moves(at, op, t, all)
  BY DEF Enter
<1>4. \A at, how : StopAnswers(at, how) => Moves(at, call.op, call.test, call.queue) /\ answer' = how
  BY DEF StopAnswers
<1>. QED  BY <1>1, <1>2, <1>3, <1>4

(* A session asks for captures of tests. *)
LEMMA PlannedTests ==
  ASSUME TypeOK
  PROVE  plan.recorded \subseteq Tests /\ plan.logged \subseteq Tests
BY CaptureAssumption DEF CaptureAssumption, TypeOK, CallTypeOK

(* What a call of the session begins: nothing, a start of what is not      *)
(* registered, a stop or an abort, or a close of all that the device lists. *)
LEMMA CallBegins ==
  ASSUME TypeOK, Calls
  PROVE  /\ Idle
         /\ UNCHANGED <<hostVars, recordingProcess, recordingInfo, recordingKeys, recorder, video>>
         /\ UNCHANGED <<logProcess, logInfo, logKeys, logger, streamVars>>
         /\ \/ /\ Moves("idle", call.op, call.test, {})
               /\ stoppedTests' \subseteq stoppedTests /\ logStopped' \subseteq logStopped
            \/ /\ \E t \in Tests \ recordingProcess :
                    Moves("recordingDir", "start", t, {}) /\ stoppedTests' = stoppedTests \ {t}
               /\ UNCHANGED logStopped
            \/ /\ \E t \in Tests \ logProcess :
                    Moves("logAvailability", "start", t, {}) /\ logStopped' = logStopped \ {t}
               /\ UNCHANGED stoppedTests
            \/ /\ \E at \in {"recordingSweep", "logSweep"}, op \in {"stop", "abort"} :
                    \E t, queue : Moves(at, op, t, queue)
               /\ UNCHANGED <<stoppedTests, logStopped>>
            \/ /\ Moves("recordingSweep", "close", NoTest, recordingKeys)
               /\ UNCHANGED <<stoppedTests, logStopped>>
<1>0. \/ \E t \in plan.recorded : StartRecording(t) /\ UNCHANGED logVars
      \/ \E t \in plan.logged : StartLogCapture(t) /\ UNCHANGED recordingVars
      \/ \E t : \/ StopRecording(t, TRUE) /\ UNCHANGED logVars
                \/ StopLogCapture(t, TRUE) /\ UNCHANGED recordingVars
      \/ \E keep \in BOOLEAN : \/ AbortRecording(keep) /\ UNCHANGED logVars
                               \/ AbortLogCapture(keep) /\ UNCHANGED recordingVars
      \/ CleanUpRecordings /\ UNCHANGED logVars
  BY DEF Calls
<1>. USE DEF recordingVars, recordingMaps, logVars, streamVars, logMaps
<1>1. ASSUME NEW t \in plan.recorded, StartRecording(t), UNCHANGED logVars
      PROVE  \/ Moves("idle", call.op, call.test, {}) /\ stoppedTests' \subseteq stoppedTests
             \/ /\ t \in Tests \ recordingProcess
                /\ Moves("recordingDir", "start", t, {}) /\ stoppedTests' = stoppedTests \ {t}
  BY <1>1, CallMoves, PlannedTests DEF StartRecording
<1>2. ASSUME NEW t \in plan.logged, StartLogCapture(t), UNCHANGED recordingVars
      PROVE  \/ Moves("idle", call.op, call.test, {}) /\ logStopped' \subseteq logStopped
             \/ /\ t \in Tests \ logProcess
                /\ Moves("logAvailability", "start", t, {}) /\ logStopped' = logStopped \ {t}
  BY <1>2, CallMoves, PlannedTests DEF StartLogCapture
<1>3. ASSUME NEW t, StopRecording(t, TRUE) \/ StopLogCapture(t, TRUE)
      PROVE  \E at \in {"recordingSweep", "logSweep"} : Moves(at, "stop", t, {t})
  BY <1>3, CallMoves DEF StopRecording, StopLogCapture
<1>4. ASSUME NEW keep, AbortRecording(keep) \/ AbortLogCapture(keep)
      PROVE  \E at \in {"recordingSweep", "logSweep"} : \E queue : Moves(at, "abort", NoTest, queue)
  BY <1>4, CallMoves DEF AbortRecording, AbortLogCapture
<1>5. CleanUpRecordings => Moves("recordingSweep", "close", NoTest, recordingKeys)
  BY CallMoves DEF CleanUpRecordings
<1>6. ASSUME NEW t, NEW keep,
             \/ /\ StartRecording(t) \/ StopRecording(t, TRUE) \/ AbortRecording(keep) \/ CleanUpRecordings
                /\ UNCHANGED logVars
             \/ /\ StartLogCapture(t) \/ StopLogCapture(t, TRUE) \/ AbortLogCapture(keep)
                /\ UNCHANGED recordingVars
      PROVE  /\ Idle
             /\ UNCHANGED <<hostVars, recordingProcess, recordingInfo, recordingKeys, recorder, video>>
             /\ UNCHANGED <<logProcess, logInfo, logKeys, logger, streamVars>>
             /\ StartRecording(t) \/ UNCHANGED stoppedTests
             /\ StartLogCapture(t) \/ UNCHANGED logStopped
  BY <1>6 DEF StartRecording, StopRecording, AbortRecording, CleanUpRecordings,
     StartLogCapture, StopLogCapture, AbortLogCapture
<1>7. CASE \E t \in plan.recorded : StartRecording(t) /\ UNCHANGED logVars
  BY <1>7, <1>1, <1>6
<1>8. CASE \E t \in plan.logged : StartLogCapture(t) /\ UNCHANGED recordingVars
  BY <1>8, <1>2, <1>6
<1>9. CASE \E t : \/ StopRecording(t, TRUE) /\ UNCHANGED logVars
                  \/ StopLogCapture(t, TRUE) /\ UNCHANGED recordingVars
  BY <1>9, <1>3, <1>6 DEF StopRecording, StopLogCapture
<1>10. CASE \E keep \in BOOLEAN : \/ AbortRecording(keep) /\ UNCHANGED logVars
                                  \/ AbortLogCapture(keep) /\ UNCHANGED recordingVars
  BY <1>10, <1>4, <1>6 DEF AbortRecording, AbortLogCapture
<1>11. CASE CleanUpRecordings /\ UNCHANGED logVars
  BY <1>11, <1>5, <1>6 DEF CleanUpRecordings
<1>. QED  BY <1>0, <1>7, <1>8, <1>9, <1>10, <1>11

(* A loop of stops takes a test off its queue. *)
LEMMA SweepMoves ==
  ASSUME TypeOK, NEW t \in call.queue, NEW at,
         \/ call' = [call EXCEPT !.test = t, !.queue = @ \ {t}] /\ at = call.at
         \/ call' = [[call EXCEPT !.test = t, !.queue = @ \ {t}] EXCEPT !.at = at]
  PROVE  Moves(at, call.op, t, call.queue \ {t})
BY DEF TypeOK, CallTypeOK, Moves

(* A recorder is taken off the queue signalled, unless it was dead before  *)
(* or was never there.                                                     *)
LEMMA RecorderStopped ==
  ASSUME TypeOK, RecorderStops
  PROVE  /\ UNCHANGED <<hostVars, recordingMaps, video>>
         /\ \E t \in call.queue :
           /\ At("recordingSweep") /\ t \in Tests
           /\ \/ /\ t \in stoppedTests \/ t \notin recordingProcess
                 /\ UNCHANGED recorder /\ Moves(call.at, call.op, t, call.queue \ {t})
              \/ /\ t \notin stoppedTests /\ t \in recordingProcess
                 /\ recorder' = [recorder EXCEPT ![t] = IF @ = "alive" THEN "signalled" ELSE @]
                 /\ \/ Return("threw")
                    \/ \E at \in {"recorderGone", "recorderExit"} : Moves(at, call.op, t, call.queue \ {t})
<1>1. PICK t \in call.queue :
        LET next == [call EXCEPT !.test = t, !.queue = @ \ {t}] IN
        IF t \in stoppedTests \/ t \notin recordingProcess
        THEN call' = next /\ recorder' = recorder
        ELSE /\ recorder' = [recorder EXCEPT ![t] = IF @ = "alive" THEN "signalled" ELSE @]
             /\ \/ Return("threw")
                \/ call' = [next EXCEPT !.at = IF Dead(recorder[t]) THEN "recorderGone" ELSE "recorderExit"]
  BY DEF RecorderStops, SignalIf
<1>2. t \in Tests /\ At("recordingSweep")
  BY DEF TypeOK, CallTypeOK, RecorderStops, SignalIf
<1>0. UNCHANGED <<hostVars, recordingMaps, video>>
  BY DEF RecorderStops, SignalIf
<1>3. CASE t \in stoppedTests \/ t \notin recordingProcess
  BY <1>0, <1>1, <1>2, <1>3, SweepMoves
<1>4. CASE ~(t \in stoppedTests \/ t \notin recordingProcess)
  BY <1>0, <1>1, <1>2, <1>4, SweepMoves
<1>. QED  BY <1>3, <1>4

(* So is a logger, and one whose signal could not be delivered is dead. *)
LEMMA LoggerStopped ==
  ASSUME TypeOK, LoggerStops
  PROVE  /\ UNCHANGED <<hostVars, logMaps, streamVars>>
         /\ \E t \in call.queue :
           /\ LogAt("logSweep") /\ t \in Tests
           /\ \/ /\ t \in logStopped \/ t \notin logProcess
                 /\ UNCHANGED logger /\ Moves(call.at, call.op, t, call.queue \ {t})
              \/ /\ t \notin logStopped /\ t \in logProcess
                 /\ logger' = [logger EXCEPT ![t] = IF @ = "alive" THEN "signalled" ELSE @]
                 /\ \/ Return("threw")
                    \/ \E at \in LogDrains : Moves(at, call.op, t, call.queue \ {t})
<1>1. PICK t \in call.queue :
        LET next == [call EXCEPT !.test = t, !.queue = @ \ {t}] IN
        IF t \in logStopped \/ t \notin logProcess
        THEN call' = next /\ logger' = logger
        ELSE /\ logger' = [logger EXCEPT ![t] = IF @ = "alive" THEN "signalled" ELSE @]
             /\ \/ Return("threw")
                \/ call' = [next EXCEPT !.at = CASE logger[t] = "exited" -> "logDrain"
                                                 [] logger[t] = "killed" -> "logDrainQuietly"
                                                 [] OTHER -> "loggerExit"]
  BY DEF LoggerStops, LoggerStopsTo
<1>2. t \in Tests /\ LogAt("logSweep")
  BY DEF TypeOK, CallTypeOK, LoggerStops, LoggerStopsTo
<1>0. UNCHANGED <<hostVars, logMaps, streamVars>>
  BY DEF LoggerStops, LoggerStopsTo
<1>3. CASE t \in logStopped \/ t \notin logProcess
  BY <1>0, <1>1, <1>2, <1>3, SweepMoves
<1>4. CASE ~(t \in logStopped \/ t \notin logProcess)
  BY <1>0, <1>1, <1>2, <1>4, SweepMoves DEF LogDrains
<1>. QED  BY <1>3, <1>4

-----------------------------------------------------------------------------
(* The invariant, part by part                                             *)
(* A call's awaits follow from its start, its stop or the close. *)
LEMMA PlaceStep ==
  ASSUME TypeOK, PlaceInv, [Next]_vars
  PROVE  PlaceInv'
<1>. USE DEF TypeOK, CallTypeOK, RecordingTypeOK, LogTypeOK, PlaceInv,
     RecordingStarts, RecordingStops, LogStarts, LogStops, LogDrains,
     LogFlushes, Sweeps, Moves, Idle, At, LogAt, T, LT, Answer, LogAnswer,
     Logged, LogThrows, Dead, hostVars, recordingMaps, recordingVars,
     logMaps, logVars, streamVars, vars
<1>1. CASE Calls
  BY <1>1, CallBegins
<1>2. CASE RecordingStep /\ UNCHANGED logVars
  <2>1. CASE RecordingDirMade
    BY CallMoves, <1>2, <2>1 DEF RecordingDirMade
  <2>2. CASE RecordingDirFails
    BY CallMoves, <1>2, <2>2 DEF RecordingDirFails
  <2>3. CASE RecorderMissing
    BY CallMoves, <1>2, <2>3 DEF RecorderMissing, RollBack
  <2>4. CASE RecorderSpawned
    BY CallMoves, <1>2, <2>4 DEF RecorderSpawned, Registered
  <2>5. CASE RecorderSettled
    BY CallMoves, <1>2, <2>5 DEF RecorderSettled, Registered
  <2>6. CASE RecorderDiedEarly
    BY CallMoves, <1>2, <2>6 DEF RecorderDiedEarly, RollBack
  <2>7. CASE RecorderStops
    BY CallMoves, <1>2, RecorderStopped, <2>7
  <2>8. CASE RecorderAwaited
    BY CallMoves, <1>2, <2>8 DEF RecorderAwaited
  <2>9. CASE VideoChecked
    BY CallMoves, <1>2, <2>9 DEF VideoChecked, StopSucceeds, Finalize
  <2>10. CASE Compressed
    BY CallMoves, <1>2, <2>10 DEF Compressed, StopSucceeds, Finalize
  <2>11. CASE StopFailed
    BY CallMoves, <1>2, <2>11 DEF StopFailed, Finalize
  <2>12. CASE Discarded
    BY CallMoves, <1>2, <2>12 DEF Discarded
  <2>13. CASE RecordingSwept
    BY CallMoves, <1>2, <2>13 DEF RecordingSwept
  <2>. QED  BY <1>2, <2>1, <2>2, <2>3, <2>4, <2>5, <2>6, <2>7, <2>8, <2>9,
       <2>10, <2>11, <2>12, <2>13 DEF RecordingStep
<1>3. CASE LogStep /\ UNCHANGED recordingVars
  <2>1. CASE LogUnavailable
    BY CallMoves, <1>3, <2>1 DEF LogUnavailable
  <2>2. CASE LogRegistered
    BY CallMoves, <1>3, <2>2 DEF LogRegistered, OpenStream
  <2>3. CASE LogBufferCleared
    BY CallMoves, <1>3, <2>3 DEF LogBufferCleared, OpenStream
  <2>4. CASE LogBufferFails
    BY CallMoves, <1>3, <2>4 DEF LogBufferFails, LogRollBack
  <2>5. CASE LoggerSpawned
    BY CallMoves, <1>3, <2>5 DEF LoggerSpawned
  <2>6. CASE LoggerFails
    BY CallMoves, <1>3, <2>6 DEF LoggerFails, LogRollBack, EndStream
  <2>7. CASE LogStartAbandoned
    BY CallMoves, <1>3, <2>7 DEF LogStartAbandoned, LogRollBack
  <2>8. CASE CleanUpLogs
    BY CallMoves, <1>3, <2>8 DEF CleanUpLogs
  <2>9. CASE LoggerStops
    BY CallMoves, <1>3, LoggerStopped, <2>9
  <2>10. CASE LoggerAwaited
    BY CallMoves, <1>3, <2>10 DEF LoggerAwaited
  <2>11. CASE LogDrained
    BY CallMoves, <1>3, <2>11 DEF LogDrained, EndStream
  <2>15. CASE LogAlreadyFinalized
    BY CallMoves, <1>3, <2>15 DEF LogAlreadyFinalized
  <2>12. CASE LogFlushed
    BY CallMoves, <1>3, <2>12 DEF LogFlushed, FlushDecides, RejectionLogged
  <2>13. CASE LogStopEnds
    BY CallMoves, <1>3, <2>13 DEF LogStopEnds
  <2>14. CASE LogSwept
    BY CallMoves, <1>3, <2>14 DEF LogSwept
  <2>. QED  BY <1>3, <2>1, <2>2, <2>3, <2>4, <2>5, <2>6, <2>7, <2>8, <2>9,
       <2>10, <2>11, <2>12, <2>13, <2>14, <2>15 DEF LogStep
<1>4. CASE RecorderEnds
  BY CallMoves, <1>4 DEF RecorderEnds, RecorderExits
<1>5. CASE LoggerEnds
  BY CallMoves, <1>5 DEF LoggerEnds, LoggerExits
<1>6. CASE StreamEnds
  BY CallMoves, <1>6 DEF StreamEnds, StreamSettles
<1>7. CASE DiskChanges /\ UNCHANGED <<recordingVars, logVars>>
  BY CallMoves, <1>7 DEF DiskChanges
<1>8. CASE UNCHANGED vars
  BY CallMoves, <1>8
<1>. QED  BY <1>1, <1>2, <1>3, <1>4, <1>5, <1>6, <1>7, <1>8 DEF Next,
     Progress

(* A recorder is spawned for a test that is listed, and unlisted when dead. *)
LEMMA RecorderStep ==
  ASSUME TypeOK, PlaceInv, RecorderListed, RecorderAtHand, RecordersClosed, [Next]_vars
  PROVE  (RecorderListed /\ RecorderAtHand)'
<1>. USE DEF TypeOK, CallTypeOK, RecordingTypeOK, LogTypeOK, ProcessStates,
     PlaceInv, RecorderListed, RecorderAtHand, RecordersClosed,
     RecordingStarts, RecordingStops, LogStarts, LogStops, LogDrains,
     LogFlushes, Sweeps, Moves, Idle, At, LogAt, T, LT, Answer, LogAnswer,
     Logged, LogThrows, Dead, hostVars, recordingMaps, recordingVars,
     logMaps, logVars, streamVars, vars
<1>1. CASE Calls
  BY <1>1, CallBegins
<1>2. CASE RecordingStep /\ UNCHANGED logVars
  <2>1. CASE RecordingDirMade
    BY CallMoves, <1>2, <2>1 DEF RecordingDirMade
  <2>2. CASE RecordingDirFails
    BY CallMoves, <1>2, <2>2 DEF RecordingDirFails
  <2>3. CASE RecorderMissing
    BY CallMoves, <1>2, <2>3 DEF RecorderMissing, RollBack
  <2>4. CASE RecorderSpawned
    BY CallMoves, <1>2, <2>4 DEF RecorderSpawned, Registered
  <2>5. CASE RecorderSettled
    BY CallMoves, <1>2, <2>5 DEF RecorderSettled, Registered
  <2>6. CASE RecorderDiedEarly
    BY CallMoves, <1>2, <2>6 DEF RecorderDiedEarly, RollBack
  <2>7. CASE RecorderStops
    BY CallMoves, <1>2, RecorderStopped, <2>7
  <2>8. CASE RecorderAwaited
    BY CallMoves, <1>2, <2>8 DEF RecorderAwaited
  <2>9. CASE VideoChecked
    BY CallMoves, <1>2, <2>9 DEF VideoChecked, StopSucceeds, Finalize
  <2>10. CASE Compressed
    BY CallMoves, <1>2, <2>10 DEF Compressed, StopSucceeds, Finalize
  <2>11. CASE StopFailed
    BY CallMoves, <1>2, <2>11 DEF StopFailed, Finalize
  <2>12. CASE Discarded
    BY CallMoves, <1>2, <2>12 DEF Discarded
  <2>13. CASE RecordingSwept
    BY CallMoves, <1>2, <2>13 DEF RecordingSwept
  <2>. QED  BY <1>2, <2>1, <2>2, <2>3, <2>4, <2>5, <2>6, <2>7, <2>8, <2>9,
       <2>10, <2>11, <2>12, <2>13 DEF RecordingStep
<1>3. CASE LogStep /\ UNCHANGED recordingVars
  <2>1. CASE LogUnavailable
    BY CallMoves, <1>3, <2>1 DEF LogUnavailable
  <2>2. CASE LogRegistered
    BY CallMoves, <1>3, <2>2 DEF LogRegistered, OpenStream
  <2>3. CASE LogBufferCleared
    BY CallMoves, <1>3, <2>3 DEF LogBufferCleared, OpenStream
  <2>4. CASE LogBufferFails
    BY CallMoves, <1>3, <2>4 DEF LogBufferFails, LogRollBack
  <2>5. CASE LoggerSpawned
    BY CallMoves, <1>3, <2>5 DEF LoggerSpawned
  <2>6. CASE LoggerFails
    BY CallMoves, <1>3, <2>6 DEF LoggerFails, LogRollBack, EndStream
  <2>7. CASE LogStartAbandoned
    BY CallMoves, <1>3, <2>7 DEF LogStartAbandoned, LogRollBack
  <2>8. CASE CleanUpLogs
    BY CallMoves, <1>3, <2>8 DEF CleanUpLogs
  <2>9. CASE LoggerStops
    BY CallMoves, <1>3, LoggerStopped, <2>9
  <2>10. CASE LoggerAwaited
    BY CallMoves, <1>3, <2>10 DEF LoggerAwaited
  <2>11. CASE LogDrained
    BY CallMoves, <1>3, <2>11 DEF LogDrained, EndStream
  <2>15. CASE LogAlreadyFinalized
    BY CallMoves, <1>3, <2>15 DEF LogAlreadyFinalized
  <2>12. CASE LogFlushed
    BY CallMoves, <1>3, <2>12 DEF LogFlushed, FlushDecides, RejectionLogged
  <2>13. CASE LogStopEnds
    BY CallMoves, <1>3, <2>13 DEF LogStopEnds
  <2>14. CASE LogSwept
    BY CallMoves, <1>3, <2>14 DEF LogSwept
  <2>. QED  BY <1>3, <2>1, <2>2, <2>3, <2>4, <2>5, <2>6, <2>7, <2>8, <2>9,
       <2>10, <2>11, <2>12, <2>13, <2>14, <2>15 DEF LogStep
<1>4. CASE RecorderEnds
  BY CallMoves, <1>4 DEF RecorderEnds, RecorderExits
<1>5. CASE LoggerEnds
  BY CallMoves, <1>5 DEF LoggerEnds, LoggerExits
<1>6. CASE StreamEnds
  BY CallMoves, <1>6 DEF StreamEnds, StreamSettles
<1>7. CASE DiskChanges /\ UNCHANGED <<recordingVars, logVars>>
  BY CallMoves, <1>7 DEF DiskChanges
<1>8. CASE UNCHANGED vars
  BY CallMoves, <1>8
<1>. QED  BY <1>1, <1>2, <1>3, <1>4, <1>5, <1>6, <1>7, <1>8 DEF Next,
     Progress

(* A close signals each recorder that it takes off its queue. *)
LEMMA RecordersClosedStep ==
  ASSUME TypeOK, PlaceInv, RecorderListed, RecorderAtHand, RecordersClosed, [Next]_vars
  PROVE  RecordersClosed'
<1>. USE DEF TypeOK, CallTypeOK, RecordingTypeOK, LogTypeOK, ProcessStates,
     PlaceInv, RecorderListed, RecorderAtHand, RecordersClosed,
     RecordingStarts, RecordingStops, LogStarts, LogStops, LogDrains,
     LogFlushes, Sweeps, Moves, Idle, At, LogAt, T, LT, Answer, LogAnswer,
     Logged, LogThrows, Dead, hostVars, recordingMaps, recordingVars,
     logMaps, logVars, streamVars, vars
<1>1. CASE Calls
  BY <1>1, CallBegins
<1>2. CASE RecordingStep /\ UNCHANGED logVars
  <2>1. CASE RecordingDirMade
    BY CallMoves, <1>2, <2>1 DEF RecordingDirMade
  <2>2. CASE RecordingDirFails
    BY CallMoves, <1>2, <2>2 DEF RecordingDirFails
  <2>3. CASE RecorderMissing
    BY CallMoves, <1>2, <2>3 DEF RecorderMissing, RollBack
  <2>4. CASE RecorderSpawned
    BY CallMoves, <1>2, <2>4 DEF RecorderSpawned, Registered
  <2>5. CASE RecorderSettled
    BY CallMoves, <1>2, <2>5 DEF RecorderSettled, Registered
  <2>6. CASE RecorderDiedEarly
    BY CallMoves, <1>2, <2>6 DEF RecorderDiedEarly, RollBack
  <2>7. CASE RecorderStops
    BY CallMoves, <1>2, RecorderStopped, <2>7
  <2>8. CASE RecorderAwaited
    BY CallMoves, <1>2, <2>8 DEF RecorderAwaited
  <2>9. CASE VideoChecked
    BY CallMoves, <1>2, <2>9 DEF VideoChecked, StopSucceeds, Finalize
  <2>10. CASE Compressed
    BY CallMoves, <1>2, <2>10 DEF Compressed, StopSucceeds, Finalize
  <2>11. CASE StopFailed
    BY CallMoves, <1>2, <2>11 DEF StopFailed, Finalize
  <2>12. CASE Discarded
    BY CallMoves, <1>2, <2>12 DEF Discarded
  <2>13. CASE RecordingSwept
    BY CallMoves, <1>2, <2>13 DEF RecordingSwept
  <2>. QED  BY <1>2, <2>1, <2>2, <2>3, <2>4, <2>5, <2>6, <2>7, <2>8, <2>9,
       <2>10, <2>11, <2>12, <2>13 DEF RecordingStep
<1>3. CASE LogStep /\ UNCHANGED recordingVars
  <2>1. CASE LogUnavailable
    BY CallMoves, <1>3, <2>1 DEF LogUnavailable
  <2>2. CASE LogRegistered
    BY CallMoves, <1>3, <2>2 DEF LogRegistered, OpenStream
  <2>3. CASE LogBufferCleared
    BY CallMoves, <1>3, <2>3 DEF LogBufferCleared, OpenStream
  <2>4. CASE LogBufferFails
    BY CallMoves, <1>3, <2>4 DEF LogBufferFails, LogRollBack
  <2>5. CASE LoggerSpawned
    BY CallMoves, <1>3, <2>5 DEF LoggerSpawned
  <2>6. CASE LoggerFails
    BY CallMoves, <1>3, <2>6 DEF LoggerFails, LogRollBack, EndStream
  <2>7. CASE LogStartAbandoned
    BY CallMoves, <1>3, <2>7 DEF LogStartAbandoned, LogRollBack
  <2>8. CASE CleanUpLogs
    BY CallMoves, <1>3, <2>8 DEF CleanUpLogs
  <2>9. CASE LoggerStops
    BY CallMoves, <1>3, LoggerStopped, <2>9
  <2>10. CASE LoggerAwaited
    BY CallMoves, <1>3, <2>10 DEF LoggerAwaited
  <2>11. CASE LogDrained
    BY CallMoves, <1>3, <2>11 DEF LogDrained, EndStream
  <2>15. CASE LogAlreadyFinalized
    BY CallMoves, <1>3, <2>15 DEF LogAlreadyFinalized
  <2>12. CASE LogFlushed
    BY CallMoves, <1>3, <2>12 DEF LogFlushed, FlushDecides, RejectionLogged
  <2>13. CASE LogStopEnds
    BY CallMoves, <1>3, <2>13 DEF LogStopEnds
  <2>14. CASE LogSwept
    BY CallMoves, <1>3, <2>14 DEF LogSwept
  <2>. QED  BY <1>3, <2>1, <2>2, <2>3, <2>4, <2>5, <2>6, <2>7, <2>8, <2>9,
       <2>10, <2>11, <2>12, <2>13, <2>14, <2>15 DEF LogStep
<1>4. CASE RecorderEnds
  BY CallMoves, <1>4 DEF RecorderEnds, RecorderExits
<1>5. CASE LoggerEnds
  BY CallMoves, <1>5 DEF LoggerEnds, LoggerExits
<1>6. CASE StreamEnds
  BY CallMoves, <1>6 DEF StreamEnds, StreamSettles
<1>7. CASE DiskChanges /\ UNCHANGED <<recordingVars, logVars>>
  BY CallMoves, <1>7 DEF DiskChanges
<1>8. CASE UNCHANGED vars
  BY CallMoves, <1>8
<1>. QED  BY <1>1, <1>2, <1>3, <1>4, <1>5, <1>6, <1>7, <1>8 DEF Next,
     Progress

(* A logger is registered as it is spawned, and unregistered when dead. *)
LEMMA LoggerStep ==
  ASSUME TypeOK, PlaceInv, LoggerListed, LoggerAtHand, LoggersClosed, [Next]_vars
  PROVE  (LoggerListed /\ LoggerAtHand)'
<1>. USE DEF TypeOK, CallTypeOK, RecordingTypeOK, LogTypeOK, ProcessStates,
     PlaceInv, LoggerListed, LoggerAtHand, LoggersClosed, RecordingStarts,
     RecordingStops, LogStarts, LogStops, LogDrains, LogFlushes, Sweeps,
     Moves, Idle, At, LogAt, T, LT, Answer, LogAnswer, Logged, LogThrows,
     Dead, hostVars, recordingMaps, recordingVars, logMaps, logVars, streamVars, vars
<1>1. CASE Calls
  BY <1>1, CallBegins
<1>2. CASE RecordingStep /\ UNCHANGED logVars
  <2>1. CASE RecordingDirMade
    BY CallMoves, <1>2, <2>1 DEF RecordingDirMade
  <2>2. CASE RecordingDirFails
    BY CallMoves, <1>2, <2>2 DEF RecordingDirFails
  <2>3. CASE RecorderMissing
    BY CallMoves, <1>2, <2>3 DEF RecorderMissing, RollBack
  <2>4. CASE RecorderSpawned
    BY CallMoves, <1>2, <2>4 DEF RecorderSpawned, Registered
  <2>5. CASE RecorderSettled
    BY CallMoves, <1>2, <2>5 DEF RecorderSettled, Registered
  <2>6. CASE RecorderDiedEarly
    BY CallMoves, <1>2, <2>6 DEF RecorderDiedEarly, RollBack
  <2>7. CASE RecorderStops
    BY CallMoves, <1>2, RecorderStopped, <2>7
  <2>8. CASE RecorderAwaited
    BY CallMoves, <1>2, <2>8 DEF RecorderAwaited
  <2>9. CASE VideoChecked
    BY CallMoves, <1>2, <2>9 DEF VideoChecked, StopSucceeds, Finalize
  <2>10. CASE Compressed
    BY CallMoves, <1>2, <2>10 DEF Compressed, StopSucceeds, Finalize
  <2>11. CASE StopFailed
    BY CallMoves, <1>2, <2>11 DEF StopFailed, Finalize
  <2>12. CASE Discarded
    BY CallMoves, <1>2, <2>12 DEF Discarded
  <2>13. CASE RecordingSwept
    BY CallMoves, <1>2, <2>13 DEF RecordingSwept
  <2>. QED  BY <1>2, <2>1, <2>2, <2>3, <2>4, <2>5, <2>6, <2>7, <2>8, <2>9,
       <2>10, <2>11, <2>12, <2>13 DEF RecordingStep
<1>3. CASE LogStep /\ UNCHANGED recordingVars
  <2>1. CASE LogUnavailable
    BY CallMoves, <1>3, <2>1 DEF LogUnavailable
  <2>2. CASE LogRegistered
    BY CallMoves, <1>3, <2>2 DEF LogRegistered, OpenStream
  <2>3. CASE LogBufferCleared
    BY CallMoves, <1>3, <2>3 DEF LogBufferCleared, OpenStream
  <2>4. CASE LogBufferFails
    BY CallMoves, <1>3, <2>4 DEF LogBufferFails, LogRollBack
  <2>5. CASE LoggerSpawned
    BY CallMoves, <1>3, <2>5 DEF LoggerSpawned
  <2>6. CASE LoggerFails
    BY CallMoves, <1>3, <2>6 DEF LoggerFails, LogRollBack, EndStream
  <2>7. CASE LogStartAbandoned
    BY CallMoves, <1>3, <2>7 DEF LogStartAbandoned, LogRollBack
  <2>8. CASE CleanUpLogs
    BY CallMoves, <1>3, <2>8 DEF CleanUpLogs
  <2>9. CASE LoggerStops
    BY CallMoves, <1>3, LoggerStopped, <2>9
  <2>10. CASE LoggerAwaited
    BY CallMoves, <1>3, <2>10 DEF LoggerAwaited
  <2>11. CASE LogDrained
    BY CallMoves, <1>3, <2>11 DEF LogDrained, EndStream
  <2>15. CASE LogAlreadyFinalized
    BY CallMoves, <1>3, <2>15 DEF LogAlreadyFinalized
  <2>12. CASE LogFlushed
    BY CallMoves, <1>3, <2>12 DEF LogFlushed, FlushDecides, RejectionLogged
  <2>13. CASE LogStopEnds
    BY CallMoves, <1>3, <2>13 DEF LogStopEnds
  <2>14. CASE LogSwept
    BY CallMoves, <1>3, <2>14 DEF LogSwept
  <2>. QED  BY <1>3, <2>1, <2>2, <2>3, <2>4, <2>5, <2>6, <2>7, <2>8, <2>9,
       <2>10, <2>11, <2>12, <2>13, <2>14, <2>15 DEF LogStep
<1>4. CASE RecorderEnds
  BY CallMoves, <1>4 DEF RecorderEnds, RecorderExits
<1>5. CASE LoggerEnds
  BY CallMoves, <1>5 DEF LoggerEnds, LoggerExits
<1>6. CASE StreamEnds
  BY CallMoves, <1>6 DEF StreamEnds, StreamSettles
<1>7. CASE DiskChanges /\ UNCHANGED <<recordingVars, logVars>>
  BY CallMoves, <1>7 DEF DiskChanges
<1>8. CASE UNCHANGED vars
  BY CallMoves, <1>8
<1>. QED  BY <1>1, <1>2, <1>3, <1>4, <1>5, <1>6, <1>7, <1>8 DEF Next,
     Progress

(* A close unregisters each logger that it takes off its queue. *)
LEMMA LoggersClosedStep ==
  ASSUME TypeOK, PlaceInv, LoggerListed, LoggerAtHand, LoggersClosed, [Next]_vars
  PROVE  LoggersClosed'
<1>. USE DEF TypeOK, CallTypeOK, RecordingTypeOK, LogTypeOK, ProcessStates,
     PlaceInv, LoggerListed, LoggerAtHand, LoggersClosed, RecordingStarts,
     RecordingStops, LogStarts, LogStops, LogDrains, LogFlushes, Sweeps,
     Moves, Idle, At, LogAt, T, LT, Answer, LogAnswer, Logged, LogThrows,
     Dead, hostVars, recordingMaps, recordingVars, logMaps, logVars, streamVars, vars
<1>1. CASE Calls
  BY <1>1, CallBegins
<1>2. CASE RecordingStep /\ UNCHANGED logVars
  <2>1. CASE RecordingDirMade
    BY CallMoves, <1>2, <2>1 DEF RecordingDirMade
  <2>2. CASE RecordingDirFails
    BY CallMoves, <1>2, <2>2 DEF RecordingDirFails
  <2>3. CASE RecorderMissing
    BY CallMoves, <1>2, <2>3 DEF RecorderMissing, RollBack
  <2>4. CASE RecorderSpawned
    BY CallMoves, <1>2, <2>4 DEF RecorderSpawned, Registered
  <2>5. CASE RecorderSettled
    BY CallMoves, <1>2, <2>5 DEF RecorderSettled, Registered
  <2>6. CASE RecorderDiedEarly
    BY CallMoves, <1>2, <2>6 DEF RecorderDiedEarly, RollBack
  <2>7. CASE RecorderStops
    BY CallMoves, <1>2, RecorderStopped, <2>7
  <2>8. CASE RecorderAwaited
    BY CallMoves, <1>2, <2>8 DEF RecorderAwaited
  <2>9. CASE VideoChecked
    BY CallMoves, <1>2, <2>9 DEF VideoChecked, StopSucceeds, Finalize
  <2>10. CASE Compressed
    BY CallMoves, <1>2, <2>10 DEF Compressed, StopSucceeds, Finalize
  <2>11. CASE StopFailed
    BY CallMoves, <1>2, <2>11 DEF StopFailed, Finalize
  <2>12. CASE Discarded
    BY CallMoves, <1>2, <2>12 DEF Discarded
  <2>13. CASE RecordingSwept
    BY CallMoves, <1>2, <2>13 DEF RecordingSwept
  <2>. QED  BY <1>2, <2>1, <2>2, <2>3, <2>4, <2>5, <2>6, <2>7, <2>8, <2>9,
       <2>10, <2>11, <2>12, <2>13 DEF RecordingStep
<1>3. CASE LogStep /\ UNCHANGED recordingVars
  <2>1. CASE LogUnavailable
    BY CallMoves, <1>3, <2>1 DEF LogUnavailable
  <2>2. CASE LogRegistered
    BY CallMoves, <1>3, <2>2 DEF LogRegistered, OpenStream
  <2>3. CASE LogBufferCleared
    BY CallMoves, <1>3, <2>3 DEF LogBufferCleared, OpenStream
  <2>4. CASE LogBufferFails
    BY CallMoves, <1>3, <2>4 DEF LogBufferFails, LogRollBack
  <2>5. CASE LoggerSpawned
    BY CallMoves, <1>3, <2>5 DEF LoggerSpawned
  <2>6. CASE LoggerFails
    BY CallMoves, <1>3, <2>6 DEF LoggerFails, LogRollBack, EndStream
  <2>7. CASE LogStartAbandoned
    BY CallMoves, <1>3, <2>7 DEF LogStartAbandoned, LogRollBack
  <2>8. CASE CleanUpLogs
    BY CallMoves, <1>3, <2>8 DEF CleanUpLogs
  <2>9. CASE LoggerStops
    BY CallMoves, <1>3, LoggerStopped, <2>9
  <2>10. CASE LoggerAwaited
    BY CallMoves, <1>3, <2>10 DEF LoggerAwaited
  <2>11. CASE LogDrained
    BY CallMoves, <1>3, <2>11 DEF LogDrained, EndStream
  <2>15. CASE LogAlreadyFinalized
    BY CallMoves, <1>3, <2>15 DEF LogAlreadyFinalized
  <2>12. CASE LogFlushed
    BY CallMoves, <1>3, <2>12 DEF LogFlushed, FlushDecides, RejectionLogged
  <2>13. CASE LogStopEnds
    BY CallMoves, <1>3, <2>13 DEF LogStopEnds
  <2>14. CASE LogSwept
    BY CallMoves, <1>3, <2>14 DEF LogSwept
  <2>. QED  BY <1>3, <2>1, <2>2, <2>3, <2>4, <2>5, <2>6, <2>7, <2>8, <2>9,
       <2>10, <2>11, <2>12, <2>13, <2>14, <2>15 DEF LogStep
<1>4. CASE RecorderEnds
  BY CallMoves, <1>4 DEF RecorderEnds, RecorderExits
<1>5. CASE LoggerEnds
  BY CallMoves, <1>5 DEF LoggerEnds, LoggerExits
<1>6. CASE StreamEnds
  BY CallMoves, <1>6 DEF StreamEnds, StreamSettles
<1>7. CASE DiskChanges /\ UNCHANGED <<recordingVars, logVars>>
  BY CallMoves, <1>7 DEF DiskChanges
<1>8. CASE UNCHANGED vars
  BY CallMoves, <1>8
<1>. QED  BY <1>1, <1>2, <1>3, <1>4, <1>5, <1>6, <1>7, <1>8 DEF Next,
     Progress

(* A capture is registered with a tracked stream, and a stop that leaves   *)
(* it registered has not untracked it, or its log line threw.              *)
LEMMA FinalizedStep ==
  ASSUME TypeOK, PlaceInv, LoggerListed, LoggerAtHand, FinalizedInv, [Next]_vars
  PROVE  FinalizedInv'
<1>. USE DEF TypeOK, CallTypeOK, RecordingTypeOK, LogTypeOK, ProcessStates,
     PlaceInv, LoggerListed, LoggerAtHand, FinalizedInv, RecordingStarts,
     RecordingStops, LogStarts, LogStops, LogDrains, LogFlushes, Sweeps,
     Moves, Idle, At, LogAt, T, LT, Answer, LogAnswer, Logged, LogThrows,
     Dead, hostVars, recordingMaps, recordingVars, logMaps, logVars, streamVars, vars
<1>1. CASE Calls
  BY <1>1, CallBegins
<1>2. CASE RecordingStep /\ UNCHANGED logVars
  <2>1. CASE RecordingDirMade
    BY CallMoves, <1>2, <2>1 DEF RecordingDirMade
  <2>2. CASE RecordingDirFails
    BY CallMoves, <1>2, <2>2 DEF RecordingDirFails
  <2>3. CASE RecorderMissing
    BY CallMoves, <1>2, <2>3 DEF RecorderMissing, RollBack
  <2>4. CASE RecorderSpawned
    BY CallMoves, <1>2, <2>4 DEF RecorderSpawned, Registered
  <2>5. CASE RecorderSettled
    BY CallMoves, <1>2, <2>5 DEF RecorderSettled, Registered
  <2>6. CASE RecorderDiedEarly
    BY CallMoves, <1>2, <2>6 DEF RecorderDiedEarly, RollBack
  <2>7. CASE RecorderStops
    BY CallMoves, <1>2, RecorderStopped, <2>7
  <2>8. CASE RecorderAwaited
    BY CallMoves, <1>2, <2>8 DEF RecorderAwaited
  <2>9. CASE VideoChecked
    BY CallMoves, <1>2, <2>9 DEF VideoChecked, StopSucceeds, Finalize
  <2>10. CASE Compressed
    BY CallMoves, <1>2, <2>10 DEF Compressed, StopSucceeds, Finalize
  <2>11. CASE StopFailed
    BY CallMoves, <1>2, <2>11 DEF StopFailed, Finalize
  <2>12. CASE Discarded
    BY CallMoves, <1>2, <2>12 DEF Discarded
  <2>13. CASE RecordingSwept
    BY CallMoves, <1>2, <2>13 DEF RecordingSwept
  <2>. QED  BY <1>2, <2>1, <2>2, <2>3, <2>4, <2>5, <2>6, <2>7, <2>8, <2>9,
       <2>10, <2>11, <2>12, <2>13 DEF RecordingStep
<1>3. CASE LogStep /\ UNCHANGED recordingVars
  <2>1. CASE LogUnavailable
    BY CallMoves, <1>3, <2>1 DEF LogUnavailable
  <2>2. CASE LogRegistered
    BY CallMoves, <1>3, <2>2 DEF LogRegistered, OpenStream
  <2>3. CASE LogBufferCleared
    BY CallMoves, <1>3, <2>3 DEF LogBufferCleared, OpenStream
  <2>4. CASE LogBufferFails
    BY CallMoves, <1>3, <2>4 DEF LogBufferFails, LogRollBack
  <2>5. CASE LoggerSpawned
    BY CallMoves, <1>3, <2>5 DEF LoggerSpawned
  <2>6. CASE LoggerFails
    BY CallMoves, <1>3, <2>6 DEF LoggerFails, LogRollBack, EndStream
  <2>7. CASE LogStartAbandoned
    BY CallMoves, <1>3, <2>7 DEF LogStartAbandoned, LogRollBack
  <2>8. CASE CleanUpLogs
    BY CallMoves, <1>3, <2>8 DEF CleanUpLogs
  <2>9. CASE LoggerStops
    BY CallMoves, <1>3, LoggerStopped, <2>9
  <2>10. CASE LoggerAwaited
    BY CallMoves, <1>3, <2>10 DEF LoggerAwaited
  <2>11. CASE LogDrained
    BY CallMoves, <1>3, <2>11 DEF LogDrained, EndStream
  <2>15. CASE LogAlreadyFinalized
    BY CallMoves, <1>3, <2>15 DEF LogAlreadyFinalized
  <2>12. CASE LogFlushed
    BY CallMoves, <1>3, <2>12 DEF LogFlushed, FlushDecides, RejectionLogged
  <2>13. CASE LogStopEnds
    BY CallMoves, <1>3, <2>13 DEF LogStopEnds
  <2>14. CASE LogSwept
    BY CallMoves, <1>3, <2>14 DEF LogSwept
  <2>. QED  BY <1>3, <2>1, <2>2, <2>3, <2>4, <2>5, <2>6, <2>7, <2>8, <2>9,
       <2>10, <2>11, <2>12, <2>13, <2>14, <2>15 DEF LogStep
<1>4. CASE RecorderEnds
  BY CallMoves, <1>4 DEF RecorderEnds, RecorderExits
<1>5. CASE LoggerEnds
  BY CallMoves, <1>5 DEF LoggerEnds, LoggerExits
<1>6. CASE StreamEnds
  BY CallMoves, <1>6 DEF StreamEnds, StreamSettles
<1>7. CASE DiskChanges /\ UNCHANGED <<recordingVars, logVars>>
  BY CallMoves, <1>7 DEF DiskChanges
<1>8. CASE UNCHANGED vars
  BY CallMoves, <1>8
<1>. QED  BY <1>1, <1>2, <1>3, <1>4, <1>5, <1>6, <1>7, <1>8 DEF Next,
     Progress

(* A stream is opened and tracked, ended and untracked, in one step. *)
LEMMA StreamStep ==
  ASSUME TypeOK, PlaceInv, LoggerListed, LoggerAtHand, FinalizedInv, StreamInv,
         [Next]_vars
  PROVE  StreamInv'
<1>. USE DEF TypeOK, CallTypeOK, RecordingTypeOK, LogTypeOK, ProcessStates,
     PlaceInv, LoggerListed, LoggerAtHand, FinalizedInv, StreamInv, RecordingStarts,
     RecordingStops, LogStarts, LogStops, LogDrains, LogFlushes, Sweeps,
     Moves, Idle, At, LogAt, T, LT, Answer, LogAnswer, Logged, LogThrows,
     Dead, hostVars, recordingMaps, recordingVars, logMaps, logVars, streamVars, vars
<1>1. CASE Calls
  BY <1>1, CallBegins
<1>2. CASE RecordingStep /\ UNCHANGED logVars
  <2>1. CASE RecordingDirMade
    BY CallMoves, <1>2, <2>1 DEF RecordingDirMade
  <2>2. CASE RecordingDirFails
    BY CallMoves, <1>2, <2>2 DEF RecordingDirFails
  <2>3. CASE RecorderMissing
    BY CallMoves, <1>2, <2>3 DEF RecorderMissing, RollBack
  <2>4. CASE RecorderSpawned
    BY CallMoves, <1>2, <2>4 DEF RecorderSpawned, Registered
  <2>5. CASE RecorderSettled
    BY CallMoves, <1>2, <2>5 DEF RecorderSettled, Registered
  <2>6. CASE RecorderDiedEarly
    BY CallMoves, <1>2, <2>6 DEF RecorderDiedEarly, RollBack
  <2>7. CASE RecorderStops
    BY CallMoves, <1>2, RecorderStopped, <2>7
  <2>8. CASE RecorderAwaited
    BY CallMoves, <1>2, <2>8 DEF RecorderAwaited
  <2>9. CASE VideoChecked
    BY CallMoves, <1>2, <2>9 DEF VideoChecked, StopSucceeds, Finalize
  <2>10. CASE Compressed
    BY CallMoves, <1>2, <2>10 DEF Compressed, StopSucceeds, Finalize
  <2>11. CASE StopFailed
    BY CallMoves, <1>2, <2>11 DEF StopFailed, Finalize
  <2>12. CASE Discarded
    BY CallMoves, <1>2, <2>12 DEF Discarded
  <2>13. CASE RecordingSwept
    BY CallMoves, <1>2, <2>13 DEF RecordingSwept
  <2>. QED  BY <1>2, <2>1, <2>2, <2>3, <2>4, <2>5, <2>6, <2>7, <2>8, <2>9,
       <2>10, <2>11, <2>12, <2>13 DEF RecordingStep
<1>3. CASE LogStep /\ UNCHANGED recordingVars
  <2>1. CASE LogUnavailable
    BY CallMoves, <1>3, <2>1 DEF LogUnavailable
  <2>2. CASE LogRegistered
    BY CallMoves, <1>3, <2>2 DEF LogRegistered, OpenStream
  <2>3. CASE LogBufferCleared
    BY CallMoves, <1>3, <2>3 DEF LogBufferCleared, OpenStream
  <2>4. CASE LogBufferFails
    BY CallMoves, <1>3, <2>4 DEF LogBufferFails, LogRollBack
  <2>5. CASE LoggerSpawned
    BY CallMoves, <1>3, <2>5 DEF LoggerSpawned
  <2>6. CASE LoggerFails
    BY CallMoves, <1>3, <2>6 DEF LoggerFails, LogRollBack, EndStream
  <2>7. CASE LogStartAbandoned
    BY CallMoves, <1>3, <2>7 DEF LogStartAbandoned, LogRollBack
  <2>8. CASE CleanUpLogs
    BY CallMoves, <1>3, <2>8 DEF CleanUpLogs
  <2>9. CASE LoggerStops
    BY CallMoves, <1>3, LoggerStopped, <2>9
  <2>10. CASE LoggerAwaited
    BY CallMoves, <1>3, <2>10 DEF LoggerAwaited
  <2>11. CASE LogDrained
    BY CallMoves, <1>3, <2>11 DEF LogDrained, EndStream
  <2>15. CASE LogAlreadyFinalized
    BY CallMoves, <1>3, <2>15 DEF LogAlreadyFinalized
  <2>12. CASE LogFlushed
    BY CallMoves, <1>3, <2>12 DEF LogFlushed, FlushDecides, RejectionLogged
  <2>13. CASE LogStopEnds
    BY CallMoves, <1>3, <2>13 DEF LogStopEnds
  <2>14. CASE LogSwept
    BY CallMoves, <1>3, <2>14 DEF LogSwept
  <2>. QED  BY <1>3, <2>1, <2>2, <2>3, <2>4, <2>5, <2>6, <2>7, <2>8, <2>9,
       <2>10, <2>11, <2>12, <2>13, <2>14, <2>15 DEF LogStep
<1>4. CASE RecorderEnds
  BY CallMoves, <1>4 DEF RecorderEnds, RecorderExits
<1>5. CASE LoggerEnds
  BY CallMoves, <1>5 DEF LoggerEnds, LoggerExits
<1>6. CASE StreamEnds
  BY CallMoves, <1>6 DEF StreamEnds, StreamSettles
<1>7. CASE DiskChanges /\ UNCHANGED <<recordingVars, logVars>>
  BY CallMoves, <1>7 DEF DiskChanges
<1>8. CASE UNCHANGED vars
  BY CallMoves, <1>8
<1>. QED  BY <1>1, <1>2, <1>3, <1>4, <1>5, <1>6, <1>7, <1>8 DEF Next,
     Progress

(* The recordings stay typed, *)
LEMMA RecordingTypeStep ==
  ASSUME RecordingTypeOK, TypeOK, PlaceInv, [Next]_vars
  PROVE  RecordingTypeOK'
<1>. USE DEF RecordingTypeOK, ProcessStates, PlaceInv, RecordingStarts,
     RecordingStops, LogStarts, LogStops, LogDrains, LogFlushes, Sweeps,
     Moves, Idle, At, LogAt, T, LT, Answer, LogAnswer, Logged, LogThrows,
     Dead, hostVars, recordingMaps, recordingVars, logMaps, logVars, streamVars, vars
<1>1. CASE Calls
  BY <1>1, CallBegins
<1>2. CASE RecordingStep /\ UNCHANGED logVars
  <2>1. CASE RecordingDirMade
    BY CallMoves, <1>2, <2>1 DEF RecordingDirMade
  <2>2. CASE RecordingDirFails
    BY CallMoves, <1>2, <2>2 DEF RecordingDirFails
  <2>3. CASE RecorderMissing
    BY CallMoves, <1>2, <2>3 DEF RecorderMissing, RollBack
  <2>4. CASE RecorderSpawned
    BY CallMoves, <1>2, <2>4 DEF RecorderSpawned, Registered
  <2>5. CASE RecorderSettled
    BY CallMoves, <1>2, <2>5 DEF RecorderSettled, Registered
  <2>6. CASE RecorderDiedEarly
    BY CallMoves, <1>2, <2>6 DEF RecorderDiedEarly, RollBack
  <2>7. CASE RecorderStops
    BY CallMoves, <1>2, RecorderStopped, <2>7
  <2>8. CASE RecorderAwaited
    BY CallMoves, <1>2, <2>8 DEF RecorderAwaited
  <2>9. CASE VideoChecked
    BY CallMoves, <1>2, <2>9 DEF VideoChecked, StopSucceeds, Finalize
  <2>10. CASE Compressed
    BY CallMoves, <1>2, <2>10 DEF Compressed, StopSucceeds, Finalize
  <2>11. CASE StopFailed
    BY CallMoves, <1>2, <2>11 DEF StopFailed, Finalize
  <2>12. CASE Discarded
    BY CallMoves, <1>2, <2>12 DEF Discarded
  <2>13. CASE RecordingSwept
    BY CallMoves, <1>2, <2>13 DEF RecordingSwept
  <2>. QED  BY <1>2, <2>1, <2>2, <2>3, <2>4, <2>5, <2>6, <2>7, <2>8, <2>9,
       <2>10, <2>11, <2>12, <2>13 DEF RecordingStep
<1>3. CASE LogStep /\ UNCHANGED recordingVars
  BY CallMoves, <1>3 DEF LogStep, LogUnavailable, LogRegistered, OpenStream,
       LogBufferCleared, LogBufferFails, LogRollBack, LoggerSpawned,
       LoggerFails, EndStream, LogStartAbandoned, CleanUpLogs, LoggerStops,
       LoggerStopsTo, LoggerAwaited, LogDrained, LogAlreadyFinalized, LogFlushed,
       FlushDecides, RejectionLogged, LogStopEnds, LogSwept
<1>4. CASE RecorderEnds
  BY CallMoves, <1>4 DEF RecorderEnds, RecorderExits
<1>5. CASE LoggerEnds
  BY CallMoves, <1>5 DEF LoggerEnds, LoggerExits
<1>6. CASE StreamEnds
  BY CallMoves, <1>6 DEF StreamEnds, StreamSettles
<1>7. CASE DiskChanges /\ UNCHANGED <<recordingVars, logVars>>
  BY CallMoves, <1>7 DEF DiskChanges
<1>8. CASE UNCHANGED vars
  BY CallMoves, <1>8
<1>. QED  BY <1>1, <1>2, <1>3, <1>4, <1>5, <1>6, <1>7, <1>8 DEF Next,
     Progress

(* so do the logs, *)
LEMMA LogTypeStep ==
  ASSUME LogTypeOK, TypeOK, PlaceInv, [Next]_vars
  PROVE  LogTypeOK'
<1>. USE DEF LogTypeOK, ProcessStates, PlaceInv, RecordingStarts,
     RecordingStops, LogStarts, LogStops, LogDrains, LogFlushes, Sweeps,
     Moves, Idle, At, LogAt, T, LT, Answer, LogAnswer, Logged, LogThrows,
     Dead, hostVars, recordingMaps, recordingVars, logMaps, logVars, streamVars, vars
<1>1. CASE Calls
  BY <1>1, CallBegins
<1>2. CASE RecordingStep /\ UNCHANGED logVars
  BY CallMoves, <1>2 DEF RecordingStep, RecordingDirMade, RecordingDirFails,
       RecorderMissing, RollBack, RecorderSpawned, Registered,
       RecorderSettled, RecorderDiedEarly, RecorderStops, SignalIf,
       RecorderAwaited, VideoChecked, StopSucceeds, Finalize, Compressed,
       StopFailed, Discarded, RecordingSwept
<1>3. CASE LogStep /\ UNCHANGED recordingVars
  <2>1. CASE LogUnavailable
    BY CallMoves, <1>3, <2>1 DEF LogUnavailable
  <2>2. CASE LogRegistered
    BY CallMoves, <1>3, <2>2 DEF LogRegistered, OpenStream
  <2>3. CASE LogBufferCleared
    BY CallMoves, <1>3, <2>3 DEF LogBufferCleared, OpenStream
  <2>4. CASE LogBufferFails
    BY CallMoves, <1>3, <2>4 DEF LogBufferFails, LogRollBack
  <2>5. CASE LoggerSpawned
    BY CallMoves, <1>3, <2>5 DEF LoggerSpawned
  <2>6. CASE LoggerFails
    BY CallMoves, <1>3, <2>6 DEF LoggerFails, LogRollBack, EndStream
  <2>7. CASE LogStartAbandoned
    BY CallMoves, <1>3, <2>7 DEF LogStartAbandoned, LogRollBack
  <2>8. CASE CleanUpLogs
    BY CallMoves, <1>3, <2>8 DEF CleanUpLogs
  <2>9. CASE LoggerStops
    BY CallMoves, <1>3, LoggerStopped, <2>9
  <2>10. CASE LoggerAwaited
    BY CallMoves, <1>3, <2>10 DEF LoggerAwaited
  <2>11. CASE LogDrained
    BY CallMoves, <1>3, <2>11 DEF LogDrained, EndStream
  <2>15. CASE LogAlreadyFinalized
    BY CallMoves, <1>3, <2>15 DEF LogAlreadyFinalized
  <2>12. CASE LogFlushed
    BY CallMoves, <1>3, <2>12 DEF LogFlushed, FlushDecides, RejectionLogged
  <2>13. CASE LogStopEnds
    BY CallMoves, <1>3, <2>13 DEF LogStopEnds
  <2>14. CASE LogSwept
    BY CallMoves, <1>3, <2>14 DEF LogSwept
  <2>. QED  BY <1>3, <2>1, <2>2, <2>3, <2>4, <2>5, <2>6, <2>7, <2>8, <2>9,
       <2>10, <2>11, <2>12, <2>13, <2>14, <2>15 DEF LogStep
<1>4. CASE RecorderEnds
  BY CallMoves, <1>4 DEF RecorderEnds, RecorderExits
<1>5. CASE LoggerEnds
  BY CallMoves, <1>5 DEF LoggerEnds, LoggerExits
<1>6. CASE StreamEnds
  BY CallMoves, <1>6 DEF StreamEnds, StreamSettles
<1>7. CASE DiskChanges /\ UNCHANGED <<recordingVars, logVars>>
  BY CallMoves, <1>7 DEF DiskChanges
<1>8. CASE UNCHANGED vars
  BY CallMoves, <1>8
<1>. QED  BY <1>1, <1>2, <1>3, <1>4, <1>5, <1>6, <1>7, <1>8 DEF Next,
     Progress

(* and so do the host and the call. *)
Answers == {"none", "ok", "failed", "threw"}
HostTyped ==
  platform \in Platforms /\ plan \in Plans /\ disk \in {"ok", "broken"} /\ diskFailed \in BOOLEAN
CallTyped ==
  /\ call \in [at : Places, op : {"none", "start", "stop", "abort", "close"},
               test : Tests \cup {NoTest}, keep : BOOLEAN,
               all : SUBSET Tests, queue : SUBSET Tests]
  /\ call.queue \subseteq call.all
  /\ answer \in Answers

(* Each way to go on leaves it typed, *)
LEMMA TypedMoves ==
  ASSUME CallTyped
  PROVE  /\ \A at \in Places : GoTo(at) => CallTyped'
         /\ \A how \in Answers : Return(how) => CallTyped'
         /\ \A at \in Places, how \in Answers : StopAnswers(at, how) => CallTyped'
         /\ UNCHANGED <<call, answer>> => CallTyped'
         /\ answer \in Answers
<1>. USE DEF CallTyped
<1>1. \A at \in Places : GoTo(at) => CallTyped'
  BY DEF GoTo
<1>2. \A how \in Answers : Return(how) => CallTyped'
  BY DEF Return, Places
<1>3. \A at \in Places, how \in Answers : StopAnswers(at, how) => CallTyped'
  BY DEF StopAnswers
<1>. QED  BY <1>1, <1>2, <1>3

(* as does what a call of the session begins *)
LEMMA EnterTyped ==
  ASSUME CallTyped, NEW op \in {"start", "stop", "abort", "close"}, NEW at \in Places,
         NEW t \in Tests \cup {NoTest}, NEW all \in SUBSET Tests, NEW keep \in BOOLEAN,
         Enter(op, at, t, all, keep)
  PROVE  CallTyped'
BY DEF CallTyped, Enter, Answers

(* and each turn of a loop of stops. *)
LEMMA SweepTyped ==
  ASSUME CallTyped, NEW t \in call.queue, answer' \in Answers
  PROVE  /\ call' = [call EXCEPT !.test = t, !.queue = @ \ {t}] => CallTyped'
         /\ \A at \in Places :
              call' = [[call EXCEPT !.test = t, !.queue = @ \ {t}] EXCEPT !.at = at] => CallTyped'
<1>. USE DEF CallTyped
<1>1. call' = [call EXCEPT !.test = t, !.queue = @ \ {t}] => CallTyped'
  OBVIOUS
<1>2. \A at \in Places :
        call' = [[call EXCEPT !.test = t, !.queue = @ \ {t}] EXCEPT !.at = at] => CallTyped'
  OBVIOUS
<1>. QED  BY <1>1, <1>2

(* What a session asks for is of its tests. *)
LEMMA CallsTyped ==
  ASSUME HostTyped, CallTyped, RecordingTypeOK, LogTypeOK, Calls
  PROVE  HostTyped' /\ CallTyped'
<1>0. plan.recorded \subseteq Tests /\ plan.logged \subseteq Tests
  BY CaptureAssumption DEF CaptureAssumption, HostTyped
<1>1. ASSUME NEW t \in plan.recorded, StartRecording(t) \/ StopRecording(t, TRUE)
      PROVE  CallTyped'
  BY <1>0, <1>1, EnterTyped, TypedMoves DEF StartRecording, StopRecording, Places, RecordingStarts, Sweeps, Answers
<1>2. ASSUME NEW t \in plan.logged, StartLogCapture(t) \/ StopLogCapture(t, TRUE)
      PROVE  CallTyped'
  BY <1>0, <1>2, EnterTyped, TypedMoves DEF StartLogCapture, StopLogCapture, Places, LogStarts, Sweeps, Answers
<1>3. ASSUME NEW keep \in BOOLEAN, AbortRecording(keep) \/ AbortLogCapture(keep)
      PROVE  CallTyped'
  BY <1>3, EnterTyped DEF AbortRecording, AbortLogCapture, Places, Sweeps, RecordingTypeOK, LogTypeOK
<1>4. CleanUpRecordings => CallTyped'
  BY EnterTyped DEF CleanUpRecordings, Places, Sweeps, RecordingTypeOK
<1>5. UNCHANGED hostVars
  BY DEF Calls, StartRecording, StopRecording, AbortRecording, CleanUpRecordings,
     StartLogCapture, StopLogCapture, AbortLogCapture
<1>. QED  BY <1>1, <1>2, <1>3, <1>4, <1>5 DEF Calls, HostTyped, hostVars

(* Every step goes on in one of these ways. *)
LEMMA CallTypeStep ==
  ASSUME HostTyped, CallTyped, RecordingTypeOK, LogTypeOK, PlaceInv, [Next]_vars
  PROVE  (HostTyped /\ CallTyped)'
<1>. USE DEF HostTyped, RecordingTypeOK, LogTypeOK, PlaceInv, Places,
     Answers, RecordingStarts, RecordingStops, LogStarts, LogStops,
     LogDrains, LogFlushes, Sweeps, Idle, At, LogAt, T, LT, Answer,
     LogAnswer, Logged, LogThrows, Dead, hostVars, recordingMaps,
     recordingVars, logMaps, logVars, streamVars, vars
<1>1. CASE Calls
  BY <1>1, CallsTyped
<1>2. CASE RecordingStep /\ UNCHANGED logVars
  <2>1. CASE RecordingDirMade
    BY TypedMoves, <1>2, <2>1 DEF RecordingDirMade
  <2>2. CASE RecordingDirFails
    BY TypedMoves, <1>2, <2>2 DEF RecordingDirFails
  <2>3. CASE RecorderMissing
    BY TypedMoves, <1>2, <2>3 DEF RecorderMissing, RollBack
  <2>4. CASE RecorderSpawned
    BY TypedMoves, <1>2, <2>4 DEF RecorderSpawned, Registered
  <2>5. CASE RecorderSettled
    BY TypedMoves, <1>2, <2>5 DEF RecorderSettled, Registered
  <2>6. CASE RecorderDiedEarly
    BY TypedMoves, <1>2, <2>6 DEF RecorderDiedEarly, RollBack
  <2>7. CASE RecorderStops
    <3>1. PICK t \in call.queue :
            \/ Return("threw")
            \/ /\ call' = [call EXCEPT !.test = t, !.queue = @ \ {t}]
               /\ answer' \in {"ok", "failed"}
            \/ /\ \E at \in {"recorderGone", "recorderExit"} :
                    call' = [[call EXCEPT !.test = t, !.queue = @ \ {t}] EXCEPT !.at = at]
               /\ UNCHANGED answer
      BY <2>7 DEF RecorderStops, SignalIf
    <3>2. HostTyped'
      BY <2>7 DEF RecorderStops, SignalIf
    <3>3. CASE Return("threw")
      BY <3>2, <3>3, TypedMoves
    <3>4. CASE ~Return("threw")
      <4>1. answer' \in Answers
        BY <3>1, <3>4, TypedMoves
      <4>. QED  BY <3>1, <3>2, <3>4, <4>1, SweepTyped
    <3>. QED  BY <3>3, <3>4
  <2>8. CASE RecorderAwaited
    BY TypedMoves, <1>2, <2>8 DEF RecorderAwaited
  <2>9. CASE VideoChecked
    BY TypedMoves, <1>2, <2>9 DEF VideoChecked, StopSucceeds, Finalize
  <2>10. CASE Compressed
    BY TypedMoves, <1>2, <2>10 DEF Compressed, StopSucceeds, Finalize
  <2>11. CASE StopFailed
    BY TypedMoves, <1>2, <2>11 DEF StopFailed, Finalize
  <2>12. CASE Discarded
    BY TypedMoves, <1>2, <2>12 DEF Discarded
  <2>13. CASE RecordingSwept
    BY TypedMoves, <1>2, <2>13 DEF RecordingSwept
  <2>. QED  BY <1>2, <2>1, <2>2, <2>3, <2>4, <2>5, <2>6, <2>7, <2>8, <2>9,
       <2>10, <2>11, <2>12, <2>13 DEF RecordingStep
<1>3. CASE LogStep /\ UNCHANGED recordingVars
  <2>1. CASE LogUnavailable
    BY TypedMoves, <1>3, <2>1 DEF LogUnavailable
  <2>2. CASE LogRegistered
    BY TypedMoves, <1>3, <2>2 DEF LogRegistered, OpenStream
  <2>3. CASE LogBufferCleared
    BY TypedMoves, <1>3, <2>3 DEF LogBufferCleared, OpenStream
  <2>4. CASE LogBufferFails
    BY TypedMoves, <1>3, <2>4 DEF LogBufferFails, LogRollBack
  <2>5. CASE LoggerSpawned
    BY TypedMoves, <1>3, <2>5 DEF LoggerSpawned
  <2>6. CASE LoggerFails
    BY TypedMoves, <1>3, <2>6 DEF LoggerFails, LogRollBack, EndStream
  <2>7. CASE LogStartAbandoned
    BY TypedMoves, <1>3, <2>7 DEF LogStartAbandoned, LogRollBack
  <2>8. CASE CleanUpLogs
    BY <1>3, <2>8 DEF CleanUpLogs, CallTyped
  <2>9. CASE LoggerStops
    <3>1. PICK t \in call.queue :
            \/ Return("threw")
            \/ /\ call' = [call EXCEPT !.test = t, !.queue = @ \ {t}]
               /\ answer' \in {"ok", "failed"}
            \/ /\ \E at \in LogDrains :
                    call' = [[call EXCEPT !.test = t, !.queue = @ \ {t}] EXCEPT !.at = at]
               /\ UNCHANGED answer
      BY <2>9 DEF LoggerStops, LoggerStopsTo
    <3>2. HostTyped'
      BY <2>9 DEF LoggerStops, LoggerStopsTo
    <3>3. CASE Return("threw")
      BY <3>2, <3>3, TypedMoves
    <3>4. CASE ~Return("threw")
      <4>1. answer' \in Answers
        BY <3>1, <3>4, TypedMoves
      <4>. QED  BY <3>1, <3>2, <3>4, <4>1, SweepTyped
    <3>. QED  BY <3>3, <3>4
  <2>10. CASE LoggerAwaited
    BY TypedMoves, <1>3, <2>10 DEF LoggerAwaited
  <2>11. CASE LogDrained
    BY TypedMoves, <1>3, <2>11 DEF LogDrained, EndStream
  <2>15. CASE LogAlreadyFinalized
    BY TypedMoves, <1>3, <2>15 DEF LogAlreadyFinalized
  <2>12. CASE LogFlushed
    BY TypedMoves, <1>3, <2>12 DEF LogFlushed, FlushDecides, RejectionLogged
  <2>13. CASE LogStopEnds
    BY TypedMoves, <1>3, <2>13 DEF LogStopEnds
  <2>14. CASE LogSwept
    BY TypedMoves, <1>3, <2>14 DEF LogSwept
  <2>. QED  BY <1>3, <2>1, <2>2, <2>3, <2>4, <2>5, <2>6, <2>7, <2>8, <2>9,
       <2>10, <2>11, <2>12, <2>13, <2>14, <2>15 DEF LogStep
<1>4. CASE RecorderEnds
  BY TypedMoves, <1>4 DEF RecorderEnds, RecorderExits
<1>5. CASE LoggerEnds
  BY TypedMoves, <1>5 DEF LoggerEnds, LoggerExits
<1>6. CASE StreamEnds
  BY TypedMoves, <1>6 DEF StreamEnds, StreamSettles
<1>7. CASE DiskChanges /\ UNCHANGED <<recordingVars, logVars>>
  BY TypedMoves, <1>7 DEF DiskChanges
<1>8. CASE UNCHANGED vars
  BY TypedMoves, <1>8
<1>. QED  BY <1>1, <1>2, <1>3, <1>4, <1>5, <1>6, <1>7, <1>8 DEF Next,
     Progress

-----------------------------------------------------------------------------
(* The invariant holds before the first call, *)
LEMMA Initially == Init => IndInv
<1>. SUFFICES ASSUME Init PROVE IndInv
  OBVIOUS
<1>. USE DEF Init, CallInit, RecordingInit, LogInit
<1>1. TypeOK
  BY DEF TypeOK, CallTypeOK, RecordingTypeOK, LogTypeOK, ProcessStates, Places
<1>2. call.at = "idle" /\ call.op = "none"
  OBVIOUS
<1>3. PlaceInv /\ RecorderAtHand /\ RecordersClosed /\ LoggerAtHand /\ LoggersClosed
  BY <1>2 DEF PlaceInv, RecorderAtHand, RecordersClosed, LoggerAtHand, LoggersClosed,
     RecordingStarts, RecordingStops, LogStarts, LogStops, LogDrains, LogFlushes
<1>4. RecorderListed /\ LoggerListed /\ StreamInv /\ FinalizedInv
  BY <1>2 DEF RecorderListed, LoggerListed, StreamInv, FinalizedInv, LogStops, LogDrains, LogFlushes, At, LogAt
<1>. QED  BY <1>1, <1>3, <1>4 DEF IndInv

(* is kept by every step, *)
LEMMA Inductive == IndInv /\ [Next]_vars => IndInv'
<1>. SUFFICES ASSUME IndInv, [Next]_vars PROVE IndInv'
  OBVIOUS
<1>1. HostTyped /\ CallTyped /\ RecordingTypeOK /\ LogTypeOK
  BY DEF IndInv, TypeOK, CallTypeOK, HostTyped, CallTyped, Answers
<1>2. HostTyped' /\ CallTyped' /\ RecordingTypeOK' /\ LogTypeOK'
  BY <1>1, CallTypeStep, RecordingTypeStep, LogTypeStep DEF IndInv
<1>3. TypeOK'
  BY <1>2 DEF TypeOK, CallTypeOK, HostTyped, CallTyped, Answers
<1>. QED
  BY <1>3, PlaceStep, RecorderStep, RecordersClosedStep, LoggerStep, LoggersClosedStep,
     StreamStep, FinalizedStep DEF IndInv

(* and so holds of every session. *)
LEMMA Invariant == Spec => []IndInv
  BY Initially, Inductive, PTL DEF Spec

-----------------------------------------------------------------------------
(* The type invariant of the two managers, their children and streams. *)
THEOREM TypeCorrect == Spec => []TypeOK
  BY Invariant, PTL DEF IndInv

(* Between calls, no recorder and no logger runs that its manager does not *)
(* list, whatever failed before.                                           *)
THEOREM ChildrenReachable == Spec => []NoChildRunsUnreachable
<1>1. IndInv => NoChildRunsUnreachable
  BY DEF IndInv, RecorderListed, LoggerListed, NoChildRunsUnreachable, Idle, At
<1>. QED  BY <1>1, Invariant, PTL

(* Every start and stop ends the stream it opened, as long as no log line  *)
(* ever threw, and a stop that answers success has seen it closed, or an   *)
(* earlier stop of that very capture has lost its finalize's rejection in  *)
(* a log line that threw.                                                  *)
THEOREM StreamsFinalised == Spec => LogStreamsAreFinalised
<1>1. IndInv => NoStreamLeftOpen
  BY DEF IndInv, StreamInv, NoStreamLeftOpen, Idle, At, LogAt
<1>2. IndInv /\ [Next]_vars =>
        (\A t \in Tests : t \in logStopped' \ logStopped /\ call'.at = "logSweep" /\ answer' = "ok"
           => stream[t] = "closed" \/ t \in swallowed)
  <2>. SUFFICES ASSUME IndInv, [Next]_vars, NEW t \in Tests, t \in logStopped' \ logStopped,
                       call'.at = "logSweep", answer' = "ok"
                PROVE  stream[t] = "closed" \/ t \in swallowed
    OBVIOUS
  <2>. USE DEF vars, logVars, streamVars, logMaps, recordingVars, recordingMaps
  <2>1. LogStopEnds
    <3>1. ~Calls
      BY CallBegins DEF IndInv
    <3>. QED
      BY <3>1 DEF Next, Progress, LogStep, LogUnavailable, LogRegistered, LogRollBack,
         LogBufferCleared, LogBufferFails, LoggerSpawned, LoggerFails, LogStartAbandoned,
         CleanUpLogs, LoggerStops, LoggerStopsTo, LoggerAwaited, LogDrained, LogAlreadyFinalized, LogFlushed, FlushDecides,
         LogSwept, RecorderEnds, LoggerEnds, LoggerExits, StreamEnds, StreamSettles
  <2>2. t = LT
    BY <2>1 DEF LogStopEnds
  <2>3. At("logStopped")
    BY <2>1, CallMoves DEF LogStopEnds, LogAt, At, LogAnswer, Moves, IndInv
  <2>. QED  BY <2>2, <2>3 DEF IndInv, StreamInv
<1>. QED  BY <1>1, <1>2, Invariant, PTL DEF Spec, LogStreamsAreFinalised, StoppedLogIsComplete

(* A close that answers success leaves nothing behind. *)
THEOREM CloseIsClean == Spec => CloseLeavesNothing
<1>1. IndInv /\ [Next]_vars =>
        (call.op = "close" /\ call.at # "idle" /\ Idle' /\ answer' = "ok" =>
           /\ \A t \in Tests : recorder[t] # "alive" /\ logger[t] # "alive"
           /\ ~diskFailed => tracked = {})
  <2>. SUFFICES ASSUME IndInv, [Next]_vars, call.op = "close", call.at # "idle", Idle', answer' = "ok"
                PROVE  /\ \A t \in Tests : recorder[t] # "alive" /\ logger[t] # "alive"
                       /\ ~diskFailed => tracked = {}
    OBVIOUS
  <2>. USE DEF Idle, At, LogAt, vars
  <2>0. PlaceInv /\ TypeOK
    BY DEF IndInv
  <2>1. LogAt("logSweep") /\ call.queue = {}
    <3>1. ~Calls /\ call' # call
      BY CallBegins, <2>0
    <3>2. ~RecordingStep
      <4>. SUFFICES ASSUME RecordingStep PROVE FALSE
        OBVIOUS
      <4>. USE DEF Moves, PlaceInv, RecordingStarts
      <4>1. CASE RecordingDirMade
        BY <4>1, CallMoves, <2>0 DEF RecordingDirMade
      <4>2. CASE RecordingDirFails
        BY <4>2, CallMoves, <2>0 DEF RecordingDirFails
      <4>3. CASE RecorderMissing
        BY <4>3, CallMoves, <2>0 DEF RecorderMissing, RollBack, Logged
      <4>4. CASE RecorderSpawned
        BY <4>4, CallMoves, <2>0 DEF RecorderSpawned, Registered
      <4>5. CASE RecorderSettled
        BY <4>5, CallMoves, <2>0 DEF RecorderSettled, Registered
      <4>6. CASE RecorderDiedEarly
        BY <4>6, CallMoves, <2>0 DEF RecorderDiedEarly, RollBack, Logged
      <4>7. CASE RecorderStops
        BY <4>7, CallMoves, RecorderStopped, <2>0
      <4>8. CASE RecorderAwaited
        BY <4>8, CallMoves, <2>0 DEF RecorderAwaited
      <4>9. CASE VideoChecked
        BY <4>9, CallMoves, <2>0 DEF VideoChecked, StopSucceeds, Finalize,
             Answer
      <4>10. CASE Compressed
        BY <4>10, CallMoves, <2>0 DEF Compressed, StopSucceeds, Finalize,
             Answer
      <4>11. CASE StopFailed
        BY <4>11, CallMoves, <2>0 DEF StopFailed, Finalize, Answer
      <4>12. CASE Discarded
        BY <4>12, CallMoves, <2>0 DEF Discarded, Answer
      <4>13. CASE RecordingSwept
        BY <4>13, CallMoves, <2>0 DEF RecordingSwept
      <4>. QED  BY <4>1, <4>2, <4>3, <4>4, <4>5, <4>6, <4>7, <4>8, <4>9,
           <4>10, <4>11, <4>12, <4>13 DEF RecordingStep
    <3>3. LogStep
      BY <3>1, <3>2 DEF Next, Progress, RecorderEnds, RecorderExits, LoggerEnds, LoggerExits,
         StreamEnds, StreamSettles, DiskChanges
    <3>4. LogSwept
      <4>. USE DEF Moves, PlaceInv, LogStarts
      <4>1. CASE LogUnavailable
        BY <4>1, CallMoves, <2>0 DEF LogUnavailable, Logged
      <4>2. CASE LogRegistered
        BY <4>2, CallMoves, <2>0 DEF LogRegistered, OpenStream
      <4>3. CASE LogBufferCleared
        BY <4>3, CallMoves, <2>0 DEF LogBufferCleared, OpenStream
      <4>4. CASE LogBufferFails
        BY <4>4, CallMoves, <2>0 DEF LogBufferFails, LogRollBack, Logged
      <4>5. CASE LoggerSpawned
        BY <4>5, CallMoves, <2>0 DEF LoggerSpawned
      <4>6. CASE LoggerFails
        BY <4>6, CallMoves, <2>0 DEF LoggerFails, LogRollBack, EndStream,
             Logged
      <4>7. CASE LogStartAbandoned
        BY <4>7, CallMoves, <2>0 DEF LogStartAbandoned, LogRollBack, Logged
      <4>8. CASE CleanUpLogs
        BY <4>8, CallMoves, <2>0 DEF CleanUpLogs
      <4>9. CASE LoggerStops
        BY <4>9, CallMoves, LoggerStopped, <2>0 DEF LogDrains
      <4>10. CASE LoggerAwaited
        BY <4>10, CallMoves, <2>0 DEF LoggerAwaited
      <4>11. CASE LogDrained
        BY <4>11, CallMoves, <2>0 DEF LogDrained, EndStream
      <4>14. CASE LogAlreadyFinalized
        BY <4>14, CallMoves, <2>0 DEF LogAlreadyFinalized
      <4>12. CASE LogFlushed
        BY <4>12, CallMoves, <2>0 DEF LogFlushed, FlushDecides, RejectionLogged
      <4>13. CASE LogStopEnds
        BY <4>13, CallMoves, <2>0 DEF LogStopEnds, LogAnswer
      <4>. QED  BY <3>3, <4>1, <4>2, <4>3, <4>4, <4>5, <4>6, <4>7, <4>8,
           <4>9, <4>10, <4>11, <4>12, <4>13, <4>14 DEF LogStep
    <3>. QED  BY <3>4 DEF LogSwept
  <2>2. logProcess = {}
    BY <2>1 DEF IndInv, LoggersClosed, TypeOK, LogTypeOK, LogAt
  <2>3. \A t \in Tests : recorder[t] # "alive"
    BY <2>1 DEF IndInv, RecordersClosed, LogAt, Idle, RecordingStops
  <2>4. ~diskFailed => tracked = {}
    BY <2>1, <2>2 DEF IndInv, StreamInv, At, LogAt
  <2>. QED  BY <2>2, <2>3, <2>4 DEF IndInv, LoggerListed
<1>. QED  BY <1>1, Invariant, PTL DEF Spec, CloseLeavesNothing

-----------------------------------------------------------------------------
(* What every call's return rests on: each await of a call is for          *)
(* something that was set going, and there is an end to its awaits.        *)

(* Nothing is waited for that was not begun: a child that is listed, or is *)
(* being stopped, was spawned, and a stream that a capture is listed with, *)
(* or that is being flushed, was opened.                                   *)
SpawnInv ==
  /\ \A t \in recordingProcess : recorder[t] # "none"
  /\ call.at \in {"recorderSettle"} \cup RecordingStops => recorder[T] # "none"
  /\ \A t \in logProcess : logger[t] # "none" /\ stream[t] # "none"
  /\ call.at \in LogStops => logger[LT] # "none"
  /\ call.at \in LogStops \cup {"logSpawn", "logFlushStart"} => stream[LT] # "none"

(* A stop waits for the end of a process that was signalled, if it is not  *)
(* at its end yet, and for the close of a stream that was ended.           *)
WaitsAreAnswered ==
  /\ At("recorderExit") => recorder[T] \in {"signalled", "exited", "killed"}
  /\ At("loggerExit") => logger[LT] \in {"signalled", "exited", "killed"}
  /\ call.at \in {"logFlush", "logFlushRejected", "logFlushQuietly", "logFlushStart"} =>
       stream[LT] \in {"ended", "closed", "errored"}

(* A manager lists a child when it spawns it, and stops what it lists. *)
LEMMA SpawnStep ==
  ASSUME TypeOK, PlaceInv, SpawnInv, [Next]_vars
  PROVE  SpawnInv'
<1>. USE DEF TypeOK, CallTypeOK, RecordingTypeOK, LogTypeOK, ProcessStates,
     PlaceInv, SpawnInv, RecordingStarts,
     RecordingStops, LogStarts, LogStops, LogDrains, LogFlushes, Sweeps,
     Moves, Idle, At, LogAt, T, LT, Answer, LogAnswer, Logged, LogThrows,
     Dead, hostVars, recordingMaps, recordingVars, logMaps, logVars, streamVars, vars
<1>1. CASE Calls
  BY <1>1, CallBegins
<1>2. CASE RecordingStep /\ UNCHANGED logVars
  <2>1. CASE RecordingDirMade
    BY CallMoves, <1>2, <2>1 DEF RecordingDirMade
  <2>2. CASE RecordingDirFails
    BY CallMoves, <1>2, <2>2 DEF RecordingDirFails
  <2>3. CASE RecorderMissing
    BY CallMoves, <1>2, <2>3 DEF RecorderMissing, RollBack
  <2>4. CASE RecorderSpawned
    BY CallMoves, <1>2, <2>4 DEF RecorderSpawned, Registered
  <2>5. CASE RecorderSettled
    BY CallMoves, <1>2, <2>5 DEF RecorderSettled, Registered
  <2>6. CASE RecorderDiedEarly
    BY CallMoves, <1>2, <2>6 DEF RecorderDiedEarly, RollBack
  <2>7. CASE RecorderStops
    BY CallMoves, <1>2, RecorderStopped, <2>7
  <2>8. CASE RecorderAwaited
    BY CallMoves, <1>2, <2>8 DEF RecorderAwaited
  <2>9. CASE VideoChecked
    BY CallMoves, <1>2, <2>9 DEF VideoChecked, StopSucceeds, Finalize
  <2>10. CASE Compressed
    BY CallMoves, <1>2, <2>10 DEF Compressed, StopSucceeds, Finalize
  <2>11. CASE StopFailed
    BY CallMoves, <1>2, <2>11 DEF StopFailed, Finalize
  <2>12. CASE Discarded
    BY CallMoves, <1>2, <2>12 DEF Discarded
  <2>13. CASE RecordingSwept
    BY CallMoves, <1>2, <2>13 DEF RecordingSwept
  <2>. QED  BY <1>2, <2>1, <2>2, <2>3, <2>4, <2>5, <2>6, <2>7, <2>8, <2>9,
       <2>10, <2>11, <2>12, <2>13 DEF RecordingStep
<1>3. CASE LogStep /\ UNCHANGED recordingVars
  <2>1. CASE LogUnavailable
    BY CallMoves, <1>3, <2>1 DEF LogUnavailable
  <2>2. CASE LogRegistered
    BY CallMoves, <1>3, <2>2 DEF LogRegistered, OpenStream
  <2>3. CASE LogBufferCleared
    BY CallMoves, <1>3, <2>3 DEF LogBufferCleared, OpenStream
  <2>4. CASE LogBufferFails
    BY CallMoves, <1>3, <2>4 DEF LogBufferFails, LogRollBack
  <2>5. CASE LoggerSpawned
    BY CallMoves, <1>3, <2>5 DEF LoggerSpawned
  <2>6. CASE LoggerFails
    BY CallMoves, <1>3, <2>6 DEF LoggerFails, LogRollBack, EndStream
  <2>7. CASE LogStartAbandoned
    BY CallMoves, <1>3, <2>7 DEF LogStartAbandoned, LogRollBack
  <2>8. CASE CleanUpLogs
    BY CallMoves, <1>3, <2>8 DEF CleanUpLogs
  <2>9. CASE LoggerStops
    BY CallMoves, <1>3, LoggerStopped, <2>9
  <2>10. CASE LoggerAwaited
    BY CallMoves, <1>3, <2>10 DEF LoggerAwaited
  <2>11. CASE LogDrained
    BY CallMoves, <1>3, <2>11 DEF LogDrained, EndStream
  <2>15. CASE LogAlreadyFinalized
    BY CallMoves, <1>3, <2>15 DEF LogAlreadyFinalized
  <2>12. CASE LogFlushed
    BY CallMoves, <1>3, <2>12 DEF LogFlushed, FlushDecides, RejectionLogged
  <2>13. CASE LogStopEnds
    BY CallMoves, <1>3, <2>13 DEF LogStopEnds
  <2>14. CASE LogSwept
    BY CallMoves, <1>3, <2>14 DEF LogSwept
  <2>. QED  BY <1>3, <2>1, <2>2, <2>3, <2>4, <2>5, <2>6, <2>7, <2>8, <2>9,
       <2>10, <2>11, <2>12, <2>13, <2>14, <2>15 DEF LogStep
<1>4. CASE RecorderEnds
  BY CallMoves, <1>4 DEF RecorderEnds, RecorderExits
<1>5. CASE LoggerEnds
  BY CallMoves, <1>5 DEF LoggerEnds, LoggerExits
<1>6. CASE StreamEnds
  BY CallMoves, <1>6 DEF StreamEnds, StreamSettles
<1>7. CASE DiskChanges /\ UNCHANGED <<recordingVars, logVars>>
  BY CallMoves, <1>7 DEF DiskChanges
<1>8. CASE UNCHANGED vars
  BY CallMoves, <1>8
<1>. QED  BY <1>1, <1>2, <1>3, <1>4, <1>5, <1>6, <1>7, <1>8 DEF Next,
     Progress

(* The spawns and openings hold of every session. *)
LEMMA SpawnInvariant == Spec => []SpawnInv
<1>1. Init => SpawnInv
  BY DEF Init, CallInit, RecordingInit, LogInit, SpawnInv, RecordingStops, LogStops, LogDrains,
     LogFlushes
<1>2. IndInv /\ SpawnInv /\ [Next]_vars => SpawnInv'
  BY SpawnStep DEF IndInv
<1>. QED  BY <1>1, <1>2, Invariant, PTL DEF Spec

(* No stop waits for a process that nobody signalled or a stream that      *)
(* nobody ended, wherever a capture's start failed, whatever log lines     *)
(* threw and whichever children died first.  _waitForExit has no timeout:  *)
(* a recorder that was not signalled would be waited for until the host's  *)
(* screen recording ends of itself, which it need not.                     *)
THEOREM StopsWaitForTheSignalled == Spec => []WaitsAreAnswered
<1>1. IndInv /\ SpawnInv => WaitsAreAnswered
  <2>. SUFFICES ASSUME IndInv, SpawnInv PROVE WaitsAreAnswered
    OBVIOUS
  <2>. USE DEF IndInv, TypeOK, RecordingTypeOK, LogTypeOK, ProcessStates, PlaceInv, SpawnInv,
       RecordingStops, LogStarts, LogStops, LogDrains, LogFlushes, At, LogAt, T, LT
  <2>1. At("recorderExit") => recorder[T] \in {"signalled", "exited", "killed"}
    BY DEF RecorderAtHand
  <2>2. At("loggerExit") => logger[LT] \in {"signalled", "exited", "killed"}
    BY DEF LoggerAtHand
  <2>3. call.at \in {"logFlush", "logFlushRejected", "logFlushQuietly", "logFlushStart"} =>
          stream[LT] \in {"ended", "closed", "errored"}
    BY DEF StreamInv
  <2>. QED  BY <2>1, <2>2, <2>3 DEF WaitsAreAnswered
<1>. QED  BY <1>1, Invariant, SpawnInvariant, PTL

(* The longest way from an await to the end of its call: four awaits for   *)
(* each recording that a loop of stops has still to take, five for each    *)
(* log, and until a close has come to the logs, those that the device      *)
(* lists.                                                                  *)
LogsToClose == IF call.op = "close" THEN 2 + 5 * Cardinality(logKeys) ELSE 0
StepsFrom(at, queued, toClose) ==
  CASE at = "idle" -> 0
    [] at \in {"recorderSettle", "logFlushStart"} -> 1
    [] at \in {"recorderLaunch", "logSpawn"} -> 2
    [] at \in {"recordingDir", "logBufferClear"} -> 3
    [] at = "logAvailability" -> 4
    [] at = "recordingSweep" -> 1 + toClose + 4 * queued
    [] at \in {"recorderGone", "discard"} -> 2 + toClose + 4 * queued
    [] at \in {"videoCheck", "compress"} -> 3 + toClose + 4 * queued
    [] at = "recorderExit" -> 4 + toClose + 4 * queued
    [] at = "logCleanUp" -> toClose
    [] at = "logSweep" -> 1 + 5 * queued
    [] at \in {"logStopped", "logStopFailed"} -> 2 + 5 * queued
    [] at \in {"logFlush", "logFlushRejected", "logFlushQuietly"} -> 3 + 5 * queued
    [] at \in {"logDrain", "logDrainQuietly"} -> 4 + 5 * queued
    [] at = "loggerExit" -> 5 + 5 * queued
StepsToGo == StepsFrom(call.at, Cardinality(call.queue), LogsToClose)

(* The table, read await by await *)
StepsRead(at, queued, toClose, steps) ==
  /\ at = "idle" => steps = 0
  /\ at \in {"recorderSettle", "logFlushStart"} => steps = 1
  /\ at \in {"recorderLaunch", "logSpawn"} => steps = 2
  /\ at \in {"recordingDir", "logBufferClear"} => steps = 3
  /\ at = "logAvailability" => steps = 4
  /\ at = "recordingSweep" => steps = 1 + toClose + 4 * queued
  /\ at \in {"recorderGone", "discard"} => steps = 2 + toClose + 4 * queued
  /\ at \in {"videoCheck", "compress"} => steps = 3 + toClose + 4 * queued
  /\ at = "recorderExit" => steps = 4 + toClose + 4 * queued
  /\ at = "logCleanUp" => steps = toClose
  /\ at = "logSweep" => steps = 1 + 5 * queued
  /\ at \in {"logStopped", "logStopFailed"} => steps = 2 + 5 * queued
  /\ at \in {"logFlush", "logFlushRejected", "logFlushQuietly"} => steps = 3 + 5 * queued
  /\ at \in {"logDrain", "logDrainQuietly"} => steps = 4 + 5 * queued
  /\ at = "loggerExit" => steps = 5 + 5 * queued

(* The table gives every await its steps. *)
LEMMA TableRead ==
  ASSUME NEW at, NEW queued \in Nat, NEW toClose \in Nat
  PROVE  StepsRead(at, queued, toClose, StepsFrom(at, queued, toClose))
<1>1. at = "idle" => StepsFrom(at, queued, toClose) = 0
  BY DEF StepsFrom
<1>2. at \in {"recorderSettle", "logFlushStart"} => StepsFrom(at, queued, toClose) = 1
  BY DEF StepsFrom
<1>3. at \in {"recorderLaunch", "logSpawn"} => StepsFrom(at, queued, toClose) = 2
  BY DEF StepsFrom
<1>4. at \in {"recordingDir", "logBufferClear"} => StepsFrom(at, queued, toClose) = 3
  BY DEF StepsFrom
<1>5. at = "logAvailability" => StepsFrom(at, queued, toClose) = 4
  BY DEF StepsFrom
<1>6. at = "recordingSweep" => StepsFrom(at, queued, toClose) = 1 + toClose + 4 * queued
  BY DEF StepsFrom
<1>7. at \in {"recorderGone", "discard"} => StepsFrom(at, queued, toClose) = 2 + toClose + 4 * queued
  BY DEF StepsFrom
<1>8. at \in {"videoCheck", "compress"} => StepsFrom(at, queued, toClose) = 3 + toClose + 4 * queued
  BY DEF StepsFrom
<1>9. at = "recorderExit" => StepsFrom(at, queued, toClose) = 4 + toClose + 4 * queued
  BY DEF StepsFrom
<1>10. at = "logCleanUp" => StepsFrom(at, queued, toClose) = toClose
  BY DEF StepsFrom
<1>11. at = "logSweep" => StepsFrom(at, queued, toClose) = 1 + 5 * queued
  BY DEF StepsFrom
<1>12. at \in {"logStopped", "logStopFailed"} => StepsFrom(at, queued, toClose) = 2 + 5 * queued
  BY DEF StepsFrom
<1>13. at \in {"logFlush", "logFlushRejected", "logFlushQuietly"} => StepsFrom(at, queued, toClose) = 3 + 5 * queued
  BY DEF StepsFrom
<1>14. at \in {"logDrain", "logDrainQuietly"} => StepsFrom(at, queued, toClose) = 4 + 5 * queued
  BY DEF StepsFrom
<1>15. at = "loggerExit" => StepsFrom(at, queued, toClose) = 5 + 5 * queued
  BY DEF StepsFrom
<1>. QED
  BY <1>1, <1>2, <1>3, <1>4, <1>5, <1>6, <1>7, <1>8,
     <1>9, <1>10, <1>11, <1>12, <1>13, <1>14, <1>15 DEF StepsRead

(* A session's tests are finitely many, and so are those of a loop. *)
LEMMA SubsetsCounted ==
  /\ Cardinality(Tests) \in Nat
  /\ \A s \in SUBSET Tests : Cardinality(s) \in 0..Cardinality(Tests)
  /\ \A s \in SUBSET Tests : \A t \in s : Cardinality(s \ {t}) = Cardinality(s) - 1
<1>0. IsFiniteSet(Tests)
  BY CaptureAssumption DEF CaptureAssumption
<1>1. Cardinality(Tests) \in Nat
  BY <1>0, FS_CardinalityType
<1>2. ASSUME NEW s \in SUBSET Tests
      PROVE  /\ Cardinality(s) \in 0..Cardinality(Tests)
             /\ \A t \in s : Cardinality(s \ {t}) = Cardinality(s) - 1
  <2>1. IsFiniteSet(s) /\ Cardinality(s) <= Cardinality(Tests)
    BY <1>0, FS_Subset
  <2>2. Cardinality(s) \in Nat
    BY <2>1, FS_CardinalityType
  <2>3. \A t \in s : Cardinality(s \ {t}) = Cardinality(s) - 1
    BY <2>1, FS_RemoveElement
  <2>. QED  BY <1>1, <2>1, <2>2, <2>3
<1>. QED  BY <1>1, <1>2

(* What the count is made of *)
Counted ==
  /\ Cardinality(call.queue) \in 0..Cardinality(Tests)
  /\ Cardinality(logKeys) \in 0..Cardinality(Tests)
  /\ \A t \in call.queue : Cardinality(call.queue \ {t}) = Cardinality(call.queue) - 1
  /\ LogsToClose \in Nat
  /\ StepsRead(call.at, Cardinality(call.queue), LogsToClose, StepsToGo)

(* In every state the count is what the table says, *)
LEMMA CallCounted ==
  ASSUME TypeOK
  PROVE  Counted
<1>1. /\ Cardinality(call.queue) \in 0..Cardinality(Tests)
      /\ Cardinality(logKeys) \in 0..Cardinality(Tests)
      /\ \A t \in call.queue : Cardinality(call.queue \ {t}) = Cardinality(call.queue) - 1
  <2>1. call.queue \in SUBSET Tests /\ logKeys \in SUBSET Tests
    BY DEF TypeOK, CallTypeOK, LogTypeOK
  <2>. QED  BY <2>1, SubsetsCounted
<1>2. Cardinality(Tests) \in Nat
  BY SubsetsCounted
<1>3. LogsToClose \in Nat
  BY <1>1, <1>2 DEF LogsToClose
<1>4. Cardinality(call.queue) \in Nat
  BY <1>1, <1>2
<1>5. StepsRead(call.at, Cardinality(call.queue), LogsToClose, StepsToGo)
  BY <1>3, <1>4, TableRead DEF StepsToGo
<1>. QED  BY <1>1, <1>3, <1>5 DEF Counted

(* and so it is after a step. *)
LEMMA CallCountedNext == TypeOK' => Counted'
<1>1. TypeOK => Counted
  BY CallCounted
<1>. QED  BY <1>1, PTL

(* A start, or a stop of a recording, is one await nearer to its end, *)
LEMMA RecordingFalls ==
  ASSUME TypeOK, Counted, Counted', RecordingStep, UNCHANGED logVars
  PROVE  StepsToGo' < StepsToGo
<1>. DEFINE q == Cardinality(call.queue)
<1>a. logKeys' = logKeys
  BY DEF logVars, logMaps
<1>b. q \in Nat
  BY SubsetsCounted DEF Counted
<1>0. /\ Counted /\ Counted'
      /\ q \in Nat
      /\ logKeys' = logKeys
  BY <1>a, <1>b
<1>14. ASSUME call'.op = call.op PROVE LogsToClose' = LogsToClose
  BY <1>0, <1>14 DEF LogsToClose
<1>. USE DEF Counted, StepsRead, Moves, At, Answer
<1>1. CASE RecordingDirMade
  BY <1>0, <1>14, <1>1, CallMoves DEF RecordingDirMade
<1>2. CASE RecordingDirFails
  BY <1>0, <1>14, <1>2, CallMoves DEF RecordingDirFails
<1>3. CASE RecorderMissing
  BY <1>0, <1>14, <1>3, CallMoves DEF RecorderMissing, RollBack
<1>4. CASE RecorderSpawned
  BY <1>0, <1>14, <1>4, CallMoves DEF RecorderSpawned, Registered
<1>5. CASE RecorderSettled
  BY <1>0, <1>14, <1>5, CallMoves DEF RecorderSettled, Registered
<1>6. CASE RecorderDiedEarly
  BY <1>0, <1>14, <1>6, CallMoves DEF RecorderDiedEarly, RollBack
<1>7. CASE RecorderStops
  <2>1. call.at = "recordingSweep"
    BY <1>7, RecorderStopped
  <2>2. StepsToGo = 1 + LogsToClose + 4 * q
    BY <1>0, <2>1
  <2>3. PICK t \in call.queue :
          \/ \E at \in {"recordingSweep", "recorderGone", "recorderExit"} :
               Moves(at, call.op, t, call.queue \ {t})
          \/ Moves("idle", call.op, call.test, {})
    BY <1>7, <2>1, RecorderStopped, CallMoves
  <2>4. CASE Moves("idle", call.op, call.test, {})
    BY <1>0, <2>2, <2>4
  <2>5. ASSUME NEW at \in {"recordingSweep", "recorderGone", "recorderExit"},
               Moves(at, call.op, t, call.queue \ {t})
        PROVE  StepsToGo' < StepsToGo
    <3>0. call'.queue = call.queue \ {t}
      BY <2>5
    <3>1. Cardinality(call'.queue) = q - 1 /\ Cardinality(call'.queue) \in Nat
      BY <1>0, <2>3, <3>0
    <3>2. LogsToClose' = LogsToClose /\ call'.at = at
      BY <1>14, <2>5
    <3>. QED  BY <1>0, <2>2, <3>1, <3>2
  <2>. QED  BY <2>3, <2>4, <2>5
<1>8. CASE RecorderAwaited
  BY <1>0, <1>14, <1>8, CallMoves DEF RecorderAwaited
<1>9. CASE VideoChecked
  BY <1>0, <1>14, <1>9, CallMoves DEF VideoChecked, StopSucceeds, Finalize
<1>10. CASE Compressed
  BY <1>0, <1>14, <1>10, CallMoves DEF Compressed, StopSucceeds, Finalize
<1>11. CASE StopFailed
  BY <1>0, <1>14, <1>11, CallMoves DEF StopFailed, Finalize
<1>12. CASE Discarded
  BY <1>0, <1>14, <1>12, CallMoves DEF Discarded
<1>13. CASE RecordingSwept
  BY <1>0, <1>14, <1>13, CallMoves DEF RecordingSwept
<1>. QED  BY <1>1, <1>2, <1>3, <1>4, <1>5, <1>6, <1>7, <1>8, <1>9, <1>10, <1>11, <1>12, <1>13 DEF RecordingStep

(* and so is a capture's start or stop. *)
LEMMA LogFalls ==
  ASSUME TypeOK, PlaceInv, Counted, Counted', LogStep
  PROVE  StepsToGo' < StepsToGo
<1>. DEFINE q == Cardinality(call.queue)
<1>a. q \in Nat
  BY SubsetsCounted DEF Counted
<1>0. Counted /\ Counted' /\ q \in Nat
  BY <1>a
<1>. USE DEF Counted, StepsRead, Moves, LogAt, LogAnswer
<1>1. CASE LogUnavailable
  BY <1>0, <1>1, CallMoves DEF LogUnavailable
<1>2. CASE LogRegistered
  BY <1>0, <1>2, CallMoves DEF LogRegistered, OpenStream
<1>3. CASE LogBufferCleared
  BY <1>0, <1>3, CallMoves DEF LogBufferCleared, OpenStream
<1>4. CASE LogBufferFails
  BY <1>0, <1>4, CallMoves DEF LogBufferFails, LogRollBack
<1>5. CASE LoggerSpawned
  BY <1>0, <1>5, CallMoves DEF LoggerSpawned
<1>6. CASE LoggerFails
  BY <1>0, <1>6, CallMoves DEF LoggerFails, LogRollBack, EndStream
<1>7. CASE LogStartAbandoned
  BY <1>0, <1>7, CallMoves DEF LogStartAbandoned, LogRollBack
<1>8. CASE CleanUpLogs
  <2>1. call.at = "logCleanUp" /\ call'.at = "logSweep" /\ call'.queue = logKeys
    BY <1>8 DEF CleanUpLogs, TypeOK, CallTypeOK
  <2>2. StepsToGo = 2 + 5 * Cardinality(logKeys)
    BY <1>0, <2>1 DEF PlaceInv, LogsToClose
  <2>. QED  BY <1>0, <2>1, <2>2
<1>9. CASE LoggerStops
  BY <1>0, <1>9, CallMoves, LoggerStopped DEF LogDrains
<1>10. CASE LoggerAwaited
  BY <1>0, <1>10, CallMoves DEF LoggerAwaited
<1>11. CASE LogDrained
  BY <1>0, <1>11, CallMoves DEF LogDrained, EndStream
<1>15. CASE LogAlreadyFinalized
  BY <1>0, <1>15, CallMoves DEF LogAlreadyFinalized
<1>12. CASE LogFlushed
  BY <1>0, <1>12, CallMoves DEF LogFlushed, FlushDecides, RejectionLogged
<1>13. CASE LogStopEnds
  BY <1>0, <1>13, CallMoves DEF LogStopEnds
<1>14. CASE LogSwept
  BY <1>0, <1>14, CallMoves DEF LogSwept
<1>. QED  BY <1>1, <1>2, <1>3, <1>4, <1>5, <1>6, <1>7, <1>8, <1>9, <1>10, <1>11, <1>12, <1>13, <1>14, <1>15 DEF LogStep

(* A call has no more before it than its tests make of it. *)
MostSteps == 9 * Cardinality(Tests) + 4
LEMMA CallsCost ==
  ASSUME TypeOK, Counted', Calls
  PROVE  StepsToGo' \in 0..MostSteps
<1>1. Cardinality(Tests) \in Nat
  BY SubsetsCounted
<1>2. LogsToClose' \in 0..(2 + 5 * Cardinality(Tests))
  BY <1>1 DEF Counted, LogsToClose
<1>3. call'.at \in {"idle", "recordingDir", "logAvailability", "recordingSweep", "logSweep"}
  BY CallBegins DEF Moves
<1>. QED  BY <1>1, <1>2, <1>3 DEF Counted, StepsRead, MostSteps

(* What happens beside a call leaves it where it is. *)
LEMMA BesideStays ==
  ASSUME Next, ~Calls, ~Progress
  PROVE  StepsToGo' = StepsToGo
<1>1. UNCHANGED <<call, logKeys>>
  BY DEF Next, RecorderEnds, RecorderExits, LoggerEnds, LoggerExits, StreamEnds, StreamSettles,
     DiskChanges, logVars, streamVars, logMaps, recordingVars
<1>. QED  BY <1>1 DEF StepsToGo, LogsToClose

(* No call of a session goes on for ever: every await of it is one of a    *)
(* number that its tests bound, whichever start, stop, check, compression  *)
(* or log line fails, and nothing that children, streams or the disk do    *)
(* meanwhile gives it more to do.  With StopsWaitForTheSignalled, what     *)
(* every call's return rests on: there are finitely many awaits, and each  *)
(* is for what is bound to come.                                           *)
THEOREM CallIsFinite ==
  Spec => /\ [](StepsToGo \in 0..MostSteps)
          /\ [][(Progress => StepsToGo' < StepsToGo) /\ (~Calls => StepsToGo' =< StepsToGo)]_vars
<1>1. Cardinality(Tests) \in Nat /\ MostSteps \in Nat
  BY SubsetsCounted DEF MostSteps
<1>2. Init => StepsToGo \in 0..MostSteps
  <2>. SUFFICES ASSUME Init PROVE StepsToGo \in 0..MostSteps
    OBVIOUS
  <2>1. Counted /\ call.at = "idle"
    BY Initially, CallCounted DEF IndInv, Init, CallInit
  <2>. QED  BY <1>1, <2>1 DEF Counted, StepsRead
<1>3. IndInv /\ StepsToGo \in 0..MostSteps /\ [Next]_vars =>
        /\ (StepsToGo \in 0..MostSteps)'
        /\ [(Progress => StepsToGo' < StepsToGo) /\ (~Calls => StepsToGo' =< StepsToGo)]_vars
  <2>. SUFFICES ASSUME IndInv, StepsToGo \in 0..MostSteps, [Next]_vars
                PROVE  /\ (StepsToGo \in 0..MostSteps)'
                       /\ [(Progress => StepsToGo' < StepsToGo) /\ (~Calls => StepsToGo' =< StepsToGo)]_vars
    OBVIOUS
  <2>1. TypeOK /\ TypeOK' /\ PlaceInv
    BY Inductive DEF IndInv
  <2>2. Counted /\ Counted'
    BY <2>1, CallCounted, CallCountedNext
  <2>3. StepsToGo' \in Nat
    <3>1. call'.at \in Places
      BY <2>1 DEF TypeOK, CallTypeOK
    <3>. QED
      BY <2>2, <3>1 DEF Counted, StepsRead, Places, RecordingStarts, RecordingStops, LogStarts,
         LogDrains, LogFlushes, Sweeps
  <2>4. CASE Progress
    <3>1. StepsToGo' < StepsToGo
      BY <2>1, <2>2, <2>4, RecordingFalls, LogFalls DEF Progress
    <3>. QED  BY <1>1, <2>3, <3>1
  <2>5. CASE Calls /\ ~Progress
    BY <1>1, <2>1, <2>2, <2>5, CallsCost
  <2>6. CASE Next /\ ~Calls /\ ~Progress
    BY <1>1, <2>6, BesideStays
  <2>7. CASE UNCHANGED vars
    <3>1. StepsToGo' = StepsToGo
      BY <2>7 DEF vars, logVars, streamVars, logMaps, StepsToGo, LogsToClose
    <3>. QED  BY <1>1, <2>7, <3>1
  <2>. QED  BY <2>4, <2>5, <2>6, <2>7 DEF MostSteps
<1>. QED  BY <1>2, <1>3, Invariant, PTL DEF Spec
=============================================================================
