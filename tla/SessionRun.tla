----------------------------- MODULE SessionRun -----------------------------
(***************************************************************************)
(* executeTestOnSession (cli/src/sessionRunner.ts): one test on a prepared *)
(* device session.  A recording and a log capture are started, the goal's  *)
(* iterations run, both captures are stopped, and a `finally' aborts what  *)
(* the per-call state still lists.  `phase' is the await the call stands   *)
(* at; other code (the SIGINT listener, the host's disk) runs between.     *)
(*                                                                         *)
(* Logging is part of the control flow: the run's log sink is an unguarded *)
(* appendFileSync, so with the artifacts disk full, or the run directory   *)
(* gone, every Logger call throws where it stands.                         *)
(***************************************************************************)
EXTENDS Naturals

CONSTANTS
  MaxIterations,   \* config.maxIterations
  Faults           \* whether the artifacts disk may fail

ASSUME SessionAssumption ==
  /\ MaxIterations \in Nat \ {0}
  /\ Faults \in BOOLEAN

Captures == {"recording", "log"}
Platforms == {"android", "ios"}
Statuses == {"success", "failure", "terminal", "aborted"}
Unwinding == {"releaseRecording", "releaseLog", "done"}
Phases == Unwinding \cup
  {"idle", "startRecording", "startLog", "loop", "iterating",
   "stopRecording", "abortRecording", "stopLog", "abortLog"}

VARIABLES
  platform,       \* session.platform
  disk,           \* whether a write under the run directory succeeds now
  signalAborted,  \* config.abortSignal.aborted
  phase,          \* the await at which the call stands, "idle" outside calls
  wired,          \* state.abortListener is registered on the signal
  execAborted,    \* TestExecutor._aborted
  iteration,      \* iterations of the goal begun
  goal,           \* status of the result so far; "terminal" is a failure
                  \*   that carries terminalFailure
  recorded,       \* the result has a recording
  ledger,         \* state: activeRecording and activeLogCapture, when set
  capturing,      \* captures running on the device, not yet told to stop
  threw           \* the call ends with an exception

sessionVars ==
  <<phase, wired, execAborted, iteration, goal, recorded, ledger, capturing, threw>>

SessionTypeOK ==
  /\ platform \in Platforms
  /\ disk \in {"ok", "broken"}
  /\ signalAborted \in BOOLEAN
  /\ phase \in Phases
  /\ wired \in BOOLEAN
  /\ execAborted \in BOOLEAN
  /\ iteration \in 0 .. MaxIterations
  /\ goal \in Statuses \cup {"none"}
  /\ recorded \in BOOLEAN
  /\ ledger \in SUBSET Captures
  /\ capturing \in SUBSET Captures
  /\ threw \in BOOLEAN

SessionInit ==
  /\ platform \in Platforms
  /\ disk = "ok"
  /\ signalAborted = FALSE
  /\ phase = "idle"
  /\ wired = FALSE
  /\ execAborted = FALSE
  /\ iteration = 0
  /\ goal = "none"
  /\ recorded = FALSE
  /\ ledger = {}
  /\ capturing = {}
  /\ threw = FALSE

-----------------------------------------------------------------------------
LogThrows == disk = "broken"

(* On to phase p with l on the ledger; the `finally' unwires the signal.   *)
Go(p, l) ==
  /\ phase' = p
  /\ ledger' = l
  /\ wired' = (wired /\ p \notin Unwinding)

(* Out of the `try', by a return or an exception, into the `finally'. *)
Leave(l, exception) ==
  /\ Go(IF "recording" \in l THEN "releaseRecording"
        ELSE IF "log" \in l THEN "releaseLog" ELSE "done", l)
  /\ threw' = exception

(* A log line, then on to p with l; the ledger is `kept' if the line throws *)
LogThenGo(kept, p, l) ==
  IF LogThrows THEN Leave(kept, TRUE) ELSE Go(p, l) /\ threw' = threw

AfterRecording(l) == IF "log" \in l THEN "stopLog" ELSE "done"
AfterGoal(l) == IF "recording" \in l THEN "stopRecording" ELSE AfterRecording(l)

(* markGoalResultFailed: an aborted result stays aborted *)
MarkedFailed(status) == IF status \in {"aborted", "terminal"} THEN status ELSE "failure"

(* What a required recording that is not there does to the result. *)
WithoutRecording ==
  IF platform = "android" /\ ~LogThrows THEN MarkedFailed(goal) ELSE goal

-----------------------------------------------------------------------------
(* Mutant: the signal is wired only after the check would have seen it.    *)
BeginUnwired ==
  /\ phase = "idle"
  /\ phase' = IF signalAborted THEN "done" ELSE "startRecording"
  /\ goal' = IF signalAborted THEN "aborted" ELSE "none"
  /\ wired' = FALSE
  /\ execAborted' = FALSE
  /\ iteration' = 0
  /\ recorded' = FALSE
  /\ ledger' = {}
  /\ threw' = FALSE
  /\ UNCHANGED capturing

(* The call up to its first await: a new executor, and the signal wired to *)
(* its abort unless it has fired already.                                  *)
Begin ==
  /\ phase = "idle"
  /\ phase' = IF signalAborted THEN "done" ELSE "startRecording"
  /\ goal' = IF signalAborted THEN "aborted" ELSE "none"
  /\ wired' = ~signalAborted
  /\ execAborted' = FALSE
  /\ iteration' = 0
  /\ recorded' = FALSE
  /\ ledger' = {}
  /\ threw' = FALSE
  /\ UNCHANGED capturing

(* Mutant: the "started" line is logged before the ledger is written.      *)
RecordingStartsAnnounced ==
  /\ phase = "startRecording"
  /\ capturing' = capturing \cup {"recording"}
  /\ LogThenGo(ledger, "startLog", ledger \cup {"recording"})
  /\ UNCHANGED <<execAborted, iteration, goal, recorded>>

RecordingStarts ==
  /\ phase = "startRecording"
  /\ capturing' = capturing \cup {"recording"}
  /\ LET l == ledger \cup {"recording"} IN LogThenGo(l, "startLog", l)
  /\ UNCHANGED <<execAborted, iteration, goal, recorded>>

(* The recording is required on Android and optional on iOS. *)
RecordingStartFails ==
  /\ phase = "startRecording"
  /\ LogThenGo(ledger, IF platform = "android" THEN "done" ELSE "startLog", ledger)
  /\ goal' = WithoutRecording
  /\ UNCHANGED <<execAborted, iteration, recorded, capturing>>

RecordingStartThrows ==
  /\ phase = "startRecording"
  /\ Leave(ledger, TRUE)
  /\ UNCHANGED <<execAborted, iteration, goal, recorded, capturing>>

(* executeGoal's opening log lines belong to the same turn. *)
LogStarts ==
  /\ phase = "startLog"
  /\ capturing' = capturing \cup {"log"}
  /\ LET l == ledger \cup {"log"} IN LogThenGo(l, "loop", l)
  /\ UNCHANGED <<execAborted, iteration, goal, recorded>>

(* startLogCapture answers with a failure or throws: a warning either way. *)
LogStartFails ==
  /\ phase = "startLog"
  /\ LogThenGo(ledger, "loop", ledger)
  /\ UNCHANGED <<execAborted, iteration, goal, recorded, capturing>>

-----------------------------------------------------------------------------
(* TestExecutor.executeGoal: the abort flag is read at each iteration's    *)
(* start and nowhere else.                                                 *)
Iterate ==
  /\ phase = "loop"
  /\ iteration < MaxIterations
  /\ ~execAborted
  /\ iteration' = iteration + 1
  /\ phase' = "iterating"
  /\ UNCHANGED <<wired, execAborted, goal, recorded, ledger, capturing, threw>>

GoalAborted ==
  /\ phase = "loop"
  /\ iteration < MaxIterations
  /\ execAborted
  /\ goal' = "aborted"
  /\ Go(AfterGoal(ledger), ledger)
  /\ UNCHANGED <<execAborted, iteration, recorded, capturing, threw>>

(* Mutant: the bound is never met. *)
IterationsSpentBeyond ==
  /\ phase = "loop"
  /\ iteration > MaxIterations
  /\ goal' = IF LogThrows THEN goal ELSE "failure"
  /\ LogThenGo(ledger, AfterGoal(ledger), ledger)
  /\ UNCHANGED <<execAborted, iteration, recorded, capturing>>

IterationsSpent ==
  /\ phase = "loop"
  /\ iteration = MaxIterations
  /\ goal' = IF LogThrows THEN goal ELSE "failure"
  /\ LogThenGo(ledger, AfterGoal(ledger), ledger)
  /\ UNCHANGED <<execAborted, iteration, recorded, capturing>>

IterationContinues ==
  /\ phase = "iterating"
  /\ phase' = "loop"
  /\ UNCHANGED <<wired, execAborted, iteration, goal, recorded, ledger, capturing, threw>>

IterationDecides(status) ==
  /\ phase = "iterating"
  /\ goal' = status
  /\ Go(AfterGoal(ledger), ledger)
  /\ UNCHANGED <<execAborted, iteration, recorded, capturing, threw>>

IterationThrows ==
  /\ phase = "iterating"
  /\ Leave(ledger, TRUE)
  /\ UNCHANGED <<execAborted, iteration, goal, recorded, capturing>>

-----------------------------------------------------------------------------
RecordingStops ==
  /\ phase = "stopRecording"
  /\ capturing' = capturing \ {"recording"}
  /\ recorded' = TRUE
  /\ LET l == ledger \ {"recording"} IN Go(AfterRecording(l), l)
  /\ UNCHANGED <<execAborted, iteration, goal, threw>>

(* Mutant: a missing file path is only worth a warning. *)
RecordingStopsWithoutPathWarned ==
  /\ phase = "stopRecording"
  /\ capturing' = capturing \ {"recording"}
  /\ LET l == ledger \ {"recording"} IN LogThenGo(ledger, AfterRecording(l), l)
  /\ UNCHANGED <<execAborted, iteration, goal, recorded>>

RecordingStopsWithoutPath ==
  /\ phase = "stopRecording"
  /\ capturing' = capturing \ {"recording"}
  /\ LET l == ledger \ {"recording"} IN LogThenGo(ledger, AfterRecording(l), l)
  /\ goal' = WithoutRecording
  /\ UNCHANGED <<execAborted, iteration, recorded>>

RecordingStopFails ==
  /\ phase = "stopRecording"
  /\ Go("abortRecording", ledger)
  /\ UNCHANGED <<execAborted, iteration, goal, recorded, capturing, threw>>

RecordingStopThrows ==
  /\ phase = "stopRecording"
  /\ Leave(ledger, TRUE)
  /\ UNCHANGED <<execAborted, iteration, goal, recorded, capturing>>

(* The abort that follows a failed stop is over, resolved or rejected.  It *)
(* signals the recorder first and rejects only when a log line throws.     *)
RecordingAborted ==
  /\ phase = "abortRecording"
  /\ capturing' = capturing \ {"recording"}
  /\ LET l == ledger \ {"recording"} IN LogThenGo(ledger, AfterRecording(l), l)
  /\ goal' = WithoutRecording
  /\ UNCHANGED <<execAborted, iteration, recorded>>

LogStops ==
  /\ phase = "stopLog"
  /\ capturing' = capturing \ {"log"}
  /\ Go("done", ledger \ {"log"})
  /\ UNCHANGED <<execAborted, iteration, goal, recorded, threw>>

LogStopsWithoutPath ==
  /\ phase = "stopLog"
  /\ capturing' = capturing \ {"log"}
  /\ LogThenGo(ledger, "done", ledger \ {"log"})
  /\ UNCHANGED <<execAborted, iteration, goal, recorded>>

LogStopFails ==
  /\ phase = "stopLog"
  /\ LogThenGo(ledger, "abortLog", ledger)
  /\ UNCHANGED <<execAborted, iteration, goal, recorded, capturing>>

(* Mutant: the ledger is cleared although the stop threw. *)
LogStopThrowsCleared ==
  /\ phase = "stopLog"
  /\ Leave({}, LogThrows)
  /\ UNCHANGED <<execAborted, iteration, goal, recorded, capturing>>

(* The capture stays on the ledger, for the `finally' to abort. *)
LogStopThrows ==
  /\ phase = "stopLog"
  /\ Leave(ledger, LogThrows)
  /\ UNCHANGED <<execAborted, iteration, goal, recorded, capturing>>

LogAborted ==
  /\ phase = "abortLog"
  /\ capturing' = capturing \ {"log"}
  /\ LogThenGo(ledger, "done", ledger \ {"log"})
  /\ UNCHANGED <<execAborted, iteration, goal, recorded>>

-----------------------------------------------------------------------------
(* releaseSessionResources.  A rejected abort is warned about; the warning *)
(* is a log line too, and leaves the `finally' when it throws.             *)
RecordingReleased ==
  /\ phase = "releaseRecording"
  /\ capturing' = capturing \ {"recording"}
  /\ Go(IF "log" \in ledger THEN "releaseLog" ELSE "done", ledger)
  /\ UNCHANGED <<execAborted, iteration, goal, recorded, threw>>

RecordingReleaseRejected ==
  /\ phase = "releaseRecording"
  /\ LogThrows
  /\ capturing' = capturing \ {"recording"}
  /\ Go("done", ledger)
  /\ threw' = TRUE
  /\ UNCHANGED <<execAborted, iteration, goal, recorded>>

LogReleased ==
  /\ phase = "releaseLog"
  /\ capturing' = capturing \ {"log"}
  /\ Go("done", ledger)
  /\ UNCHANGED <<execAborted, iteration, goal, recorded, threw>>

LogReleaseRejected ==
  /\ phase = "releaseLog"
  /\ LogThrows
  /\ capturing' = capturing \ {"log"}
  /\ Go("done", ledger)
  /\ threw' = TRUE
  /\ UNCHANGED <<execAborted, iteration, goal, recorded>>

SessionStep ==
  \/ RecordingStarts \/ RecordingStartFails \/ RecordingStartThrows
  \/ LogStarts \/ LogStartFails
  \/ Iterate \/ GoalAborted \/ IterationsSpent
  \/ IterationContinues \/ IterationThrows
  \/ \E status \in {"success", "failure", "terminal"} : IterationDecides(status)
  \/ RecordingStops \/ RecordingStopsWithoutPath
  \/ RecordingStopFails \/ RecordingStopThrows \/ RecordingAborted
  \/ LogStops \/ LogStopsWithoutPath \/ LogStopFails \/ LogStopThrows \/ LogAborted
  \/ RecordingReleased \/ RecordingReleaseRejected
  \/ LogReleased \/ LogReleaseRejected

-----------------------------------------------------------------------------
(* A capture that runs is on the ledger, whatever throws and wherever: the *)
(* `finally' and the abort paths know of everything there is to stop.      *)
LedgerCoversCaptures == capturing \subseteq ledger

(* When the call is over, nothing it started still runs on the device.     *)
CapturesReleased == phase = "done" => capturing = {}
=============================================================================
