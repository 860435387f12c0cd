--------------------------- MODULE DeviceCaptures ---------------------------
(***************************************************************************)
(* Device: one device session's recording and log capture, driven by one   *)
(* caller that awaits every call (sessionRunner), and the processes and    *)
(* streams that live beside it.                                            *)
(***************************************************************************)
EXTENDS Recording, LogCapture

vars == <<hostVars, call, answer, recordingVars, logVars>>

Init == CallInit /\ RecordingInit /\ LogInit

(* What the device session asks of its Device *)
Calls ==
  \/ /\ \/ \E t \in plan.recorded : StartRecording(t)
        \/ \E t \in plan.recorded : StopRecording(t, TRUE)
        \/ \E keep \in BOOLEAN : AbortRecording(keep)
        \/ CleanUpRecordings
     /\ UNCHANGED logVars
  \/ /\ \/ \E t \in plan.logged : StartLogCapture(t)
        \/ \E t \in plan.logged : StopLogCapture(t, TRUE)
        \/ \E keep \in BOOLEAN : AbortLogCapture(keep)
     /\ UNCHANGED recordingVars

Progress ==
  \/ RecordingStep /\ UNCHANGED logVars
  \/ LogStep /\ UNCHANGED recordingVars

RecorderEnds == RecorderExits /\ UNCHANGED logVars
LoggerEnds == LoggerExits /\ UNCHANGED recordingVars
StreamEnds == StreamSettles /\ UNCHANGED recordingVars

Next ==
  \/ Calls \/ Progress
  \/ RecorderEnds \/ LoggerEnds \/ StreamEnds
  \/ DiskChanges /\ UNCHANGED <<recordingVars, logVars>>

(* A signalled child ends, and a stream that was ended closes: the system's *)
(* part.  Every await of a call is then over some time.                     *)
SignalledRecorderEnds ==
  RecorderEnds /\ \E t \in Tests : recorder[t] = "signalled" /\ recorder'[t] # recorder[t]
SignalledLoggerEnds ==
  LoggerEnds /\ \E t \in Tests : logger[t] = "signalled" /\ logger'[t] # logger[t]
EndedStreamCloses == StreamEnds /\ \E t \in Tests : stream[t] = "ended" /\ stream'[t] # stream[t]

Fairness ==
  /\ WF_vars(Progress)
  /\ WF_vars(SignalledRecorderEnds)
  /\ WF_vars(SignalledLoggerEnds)
  /\ WF_vars(EndedStreamCloses)

Spec == Init /\ [][Next]_vars
FairSpec == Spec /\ Fairness

-----------------------------------------------------------------------------
TypeOK == CallTypeOK /\ RecordingTypeOK /\ LogTypeOK

(* No child runs on that nothing can stop any more: between calls, a       *)
(* recorder or a logger that was never told to stop is in every map that   *)
(* its manager's stop, abort and clean-up go by, however its start or an   *)
(* earlier, failed stop ended.                                             *)
NoChildRunsUnreachable ==
  Idle => \A t \in Tests :
            /\ recorder[t] = "alive" => t \in recordingProcess \cap recordingInfo \cap recordingKeys
            /\ logger[t] = "alive" => t \in logProcess \cap logInfo \cap logKeys

(* Every exit of a start or a stop ends the write stream and untracks it,  *)
(* as long as no log line ever threw: what is tracked between calls is a   *)
(* running capture that a stop can still reach.                            *)
NoStreamLeftOpen ==
  Idle /\ ~diskFailed =>
    /\ tracked \subseteq logProcess
    /\ \A t \in Tests : stream[t] = "open" => t \in tracked

(* A stop that succeeds has a complete log: the stream was closed, and no  *)
(* error of its last write or of its close came too late to be seen.  The  *)
(* one exception is a stop after another whose finalize rejected and whose *)
(* log line about it threw: it finds the path untracked and asks no more.  *)
StoppedLogIsComplete ==
  [][\A t \in Tests : t \in logStopped' \ logStopped /\ call'.at = "logSweep" /\ answer' = "ok"
       => stream[t] = "closed" \/ t \in swallowed]_vars

(* Of a log stream, both: it is finalised exactly as long as it must be. *)
LogStreamsAreFinalised == []NoStreamLeftOpen /\ StoppedLogIsComplete

(* The session's close, when it does not throw, leaves no recorder and no  *)
(* logger behind, and no stream in the registry.                           *)
CloseLeavesNothing ==
  [][call.op = "close" /\ call.at # "idle" /\ Idle' /\ answer' = "ok" =>
       /\ \A t \in Tests : recorder[t] # "alive" /\ logger[t] # "alive"
       /\ ~diskFailed => tracked = {}]_vars

(* Every call of a session returns, whatever fails in it: no stop waits    *)
(* for a process that nobody signalled or a stream that nobody ended.      *)
EveryCallReturns == []<>Idle
=============================================================================
