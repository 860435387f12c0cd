----------------------------- MODULE LogCapture -----------------------------
(***************************************************************************)
(* LogCaptureManager with its providers (adb logcat, simctl log stream)    *)
(* and the registry of the write streams they pipe into.  A stream ends by *)
(* itself when its source does, and may be destroyed by a write, or by the *)
(* close(2) after its end, at any time.                                    *)
(***************************************************************************)
EXTENDS CaptureCall

VARIABLES
  logProcess,    \* keys of _logProcessMap
  logInfo,       \* keys of _logInfoMap
  logKeys,       \* the device's entry in _deviceToLogKeysMap
  logStopped,    \* _stoppedTestCases
  logger,        \* the child last spawned for each test
  stream,        \* the write stream last opened for each test
  tracked,       \* keys of LogWriteStreamRegistry._streams
  swallowed      \* history: their stream's finalize has rejected, and the
                 \* line that was to log it threw: no answer has said so

logMaps == <<logProcess, logInfo, logKeys, logStopped>>
streamVars == <<stream, tracked, swallowed>>
logVars == <<logMaps, logger, streamVars>>

LogTypeOK ==
  /\ logProcess \in SUBSET Tests
  /\ logInfo \in SUBSET Tests
  /\ logKeys \in SUBSET Tests
  /\ logStopped \in SUBSET Tests
  /\ logger \in [Tests -> ProcessStates]
  /\ stream \in [Tests -> {"none", "open", "ended", "closed", "errored"}]
  /\ tracked \in SUBSET Tests
  /\ swallowed \in SUBSET Tests

LogInit ==
  /\ logProcess = {} /\ logInfo = {} /\ logKeys = {} /\ logStopped = {}
  /\ logger = [t \in Tests |-> "none"]
  /\ stream = [t \in Tests |-> "none"]
  /\ tracked = {} /\ swallowed = {}

LogAt(place) == call.at = place
LT == call.test

-----------------------------------------------------------------------------
(* Mutant: a capture in progress does not refuse a second start. *)
StartLogCaptureAgain(t) ==
  /\ Idle
  /\ logStopped' = logStopped \ {t}
  /\ Enter("start", "logAvailability", t, {}, TRUE)
  /\ UNCHANGED <<hostVars, logProcess, logInfo, logKeys, logger, streamVars>>

StartLogCapture(t) ==
  /\ Idle
  /\ logStopped' = logStopped \ {t}
  /\ IF t \in logProcess
     THEN Return("failed")
     ELSE Enter("start", "logAvailability", t, {}, TRUE)
  /\ UNCHANGED <<hostVars, logProcess, logInfo, logKeys, logger, streamVars>>

(* checkAvailability and the directory: neither failure has registered     *)
(* anything yet, and a tool that is missing is worth an error line.        *)
LogUnavailable ==
  /\ LogAt("logAvailability")
  /\ \E how \in {Logged("failed"), "threw"} : Return(how)
  /\ UNCHANGED <<hostVars, logVars>>

OpenStream ==
  /\ stream' = [stream EXCEPT ![LT] = "open"]
  /\ tracked' = tracked \cup {LT}
  /\ swallowed' = swallowed \ {LT}

(* iOS opens its stream without an await, Android after `logcat -c'. *)
LogRegistered ==
  /\ LogAt("logAvailability")
  /\ logInfo' = logInfo \cup {LT}
  /\ logKeys' = logKeys \cup {LT}
  /\ IF platform = "ios" THEN OpenStream /\ GoTo("logSpawn")
     ELSE GoTo("logBufferClear") /\ UNCHANGED streamVars
  /\ UNCHANGED <<hostVars, logProcess, logStopped, logger>>

LogRollBack ==
  /\ logInfo' = logInfo \ {LT}
  /\ logKeys' = logKeys \ {LT}
  /\ Return(Logged("failed"))
  /\ UNCHANGED <<logProcess, logStopped>>

LogBufferCleared ==
  /\ LogAt("logBufferClear")
  /\ ~LogThrows
  /\ OpenStream
  /\ GoTo("logSpawn")
  /\ UNCHANGED <<hostVars, logMaps, logger>>

LogBufferFails ==
  /\ LogAt("logBufferClear")
  /\ LogRollBack
  /\ UNCHANGED <<hostVars, logger, streamVars>>

(* Each provider logs a line after it opened the stream. *)
LoggerSpawned ==
  /\ LogAt("logSpawn")
  /\ ~LogThrows
  /\ logger' = [logger EXCEPT ![LT] = "alive"]
  /\ logProcess' = logProcess \cup {LT}
  /\ Return("ok")
  /\ UNCHANGED <<hostVars, logInfo, logKeys, logStopped, streamVars>>

(* The stream's end, within finalize *)
EndStream ==
  /\ tracked' = tracked \ {LT}
  /\ stream' = [stream EXCEPT ![LT] = IF @ = "open" THEN "ended" ELSE @]
  /\ swallowed' = swallowed

(* spawn throws, or a log line does: the `catch' logs before it finalizes. *)
LoggerFails ==
  /\ LogAt("logSpawn")
  /\ IF LogThrows THEN LogRollBack /\ UNCHANGED streamVars
     ELSE EndStream /\ GoTo("logFlushStart") /\ UNCHANGED logMaps
  /\ UNCHANGED <<hostVars, logger>>

LogStartAbandoned ==
  /\ LogAt("logFlushStart")
  /\ stream[LT] \in {"closed", "errored"}
  /\ LogRollBack
  /\ UNCHANGED <<hostVars, logger, streamVars>>

LoggerExits ==
  \E t \in Tests, how \in {"exited", "killed"} :
    /\ logger[t] \in {"alive", "signalled"}
    /\ logger' = [logger EXCEPT ![t] = how]
    /\ UNCHANGED <<hostVars, call, answer, logMaps, streamVars>>

(* The pipe ends the stream when its source is at its end. *)
StreamSettles ==
  \E t \in Tests, how \in {"closed", "errored"} :
    /\ stream[t] \in {"open", "ended"}
    /\ how = "closed" => stream[t] = "ended" \/ Dead(logger[t])
    /\ stream' = [stream EXCEPT ![t] = how]
    /\ UNCHANGED <<hostVars, call, answer, logMaps, logger, tracked, swallowed>>

-----------------------------------------------------------------------------
StopLogCapture(t, keep) ==
  /\ Idle
  /\ Enter("stop", "logSweep", t, {t}, keep)
  /\ UNCHANGED <<hostVars, logVars>>

AbortLogCapture(keep) ==
  /\ Idle
  /\ Enter("abort", "logSweep", NoTest, logInfo, keep)
  /\ UNCHANGED <<hostVars, logVars>>

(* closeConnection's second half: logCaptureCleanUp *)
CleanUpLogs ==
  /\ LogAt("logCleanUp")
  /\ call' = [call EXCEPT !.at = "logSweep", !.all = logKeys, !.queue = logKeys]
  /\ UNCHANGED <<hostVars, answer, logVars>>

LogAnswer(how) == StopAnswers("logSweep", how)

(* The next stop up to its first await.  kill() is false for a process     *)
(* that is gone; exitCode tells only one that was not killed by a signal.  *)
LoggerStopsTo(undelivered) ==
  /\ LogAt("logSweep")
  /\ \E t \in call.queue :
       LET next == [call EXCEPT !.test = t, !.queue = @ \ {t}] IN
       IF t \in logStopped \/ t \notin logProcess
       THEN /\ call' = next
            /\ answer' = IF t \in logStopped THEN "ok" ELSE "failed"
            /\ logger' = logger
       ELSE /\ logger' = [logger EXCEPT ![t] = IF @ = "alive" THEN "signalled" ELSE @]
            /\ IF LogThrows THEN Return("threw")
               ELSE /\ call' = [next EXCEPT !.at =
                         CASE logger[t] = "exited" -> "logDrain"
                           [] logger[t] = "killed" -> undelivered
                           [] OTHER -> "loggerExit"]
                    /\ answer' = answer
  /\ UNCHANGED <<hostVars, logMaps, streamVars>>

(* Mutant: an undelivered signal answers without finalizing the stream. *)
LoggerStopsUnfinalized == LoggerStopsTo("logStopFailed")
LoggerStops == LoggerStopsTo("logDrainQuietly")

LoggerAwaited ==
  /\ LogAt("loggerExit")
  /\ Dead(logger[LT])
  /\ IF LogThrows THEN Return("threw") ELSE GoTo("logDrain")
  /\ UNCHANGED <<hostVars, logVars>>

(* finalize waits for the end of stdout.  It is there, or never comes and  *)
(* a timer ends the wait with a warning, or stdout fails; the stream is    *)
(* untracked and ended in any case.                                        *)
LogDrained ==
  /\ LT \in tracked
  /\ \/ LogAt("logDrain")
        /\ \/ GoTo("logFlush")
           \/ GoTo("logFlushRejected")
     \/ LogAt("logDrainQuietly") /\ GoTo("logFlushQuietly")
  /\ EndStream
  /\ UNCHANGED <<hostVars, logMaps, logger>>

(* It returns at once for a path that is not tracked: an earlier stop has  *)
(* finalized it, however that ended.                                       *)
LogAlreadyFinalized ==
  /\ LT \notin tracked
  /\ \/ LogAt("logDrain") /\ GoTo("logStopped")
     \/ LogAt("logDrainQuietly") /\ GoTo("logStopFailed")
  /\ UNCHANGED <<hostVars, logVars>>

(* The provider's `catch' logs the rejection; its second finalize finds    *)
(* nothing to do.                                                          *)
RejectionLogged ==
  IF LogThrows THEN Return("threw") /\ swallowed' = swallowed \cup {LT}
  ELSE GoTo("logStopFailed") /\ UNCHANGED swallowed

FlushDecides(clean) ==
  /\ \/ /\ LogAt("logFlush")
        /\ IF clean THEN GoTo("logStopped") /\ UNCHANGED swallowed ELSE RejectionLogged
     \/ LogAt("logFlushRejected") /\ RejectionLogged
     \/ LogAt("logFlushQuietly") /\ GoTo("logStopFailed") /\ UNCHANGED swallowed
  /\ UNCHANGED <<hostVars, logMaps, logger, stream, tracked>>

(* Mutant: the decision does not wait for the stream's `close'. *)
LogFlushedOnEnd == FlushDecides(stream[LT] # "errored")

(* finalize decides from the stream's terminal state. *)
LogFlushed ==
  /\ LT \in Tests /\ stream[LT] \notin {"open", "ended"}
  /\ FlushDecides(stream[LT] = "closed")

(* _finalizeStoppedLogCapture, whatever the provider answered; the file is *)
(* removed when nobody asked to keep it.                                   *)
LogStopEnds ==
  /\ LogAt("logStopped") \/ LogAt("logStopFailed")
  /\ logProcess' = logProcess \ {LT}
  /\ logInfo' = logInfo \ {LT}
  /\ logKeys' = logKeys \ {LT}
  /\ logStopped' = logStopped \cup {LT}
  /\ IF LogAt("logStopFailed") THEN LogAnswer("failed")
     ELSE \/ LogAnswer("ok")
          \/ ~call.keep /\ LogThrows /\ Return("threw")
  /\ UNCHANGED <<hostVars, logger, streamVars>>

LogSwept ==
  /\ LogAt("logSweep")
  /\ call.queue = {}
  /\ IF call.op = "close"
     THEN /\ logKeys' = {}
          /\ logStopped' = logStopped \ call.all
          /\ Return(Logged("ok"))
     ELSE /\ Return(IF call.op = "stop" THEN answer ELSE "ok")
          /\ UNCHANGED <<logKeys, logStopped>>
  /\ UNCHANGED <<hostVars, logProcess, logInfo, logger, streamVars>>

LogStep ==
  \/ LogUnavailable \/ LogRegistered \/ LogBufferCleared \/ LogBufferFails
  \/ LoggerSpawned \/ LoggerFails \/ LogStartAbandoned
  \/ CleanUpLogs \/ LoggerStops \/ LoggerAwaited \/ LogDrained
  \/ LogAlreadyFinalized \/ LogFlushed \/ LogStopEnds \/ LogSwept
=============================================================================
