---------------------------- MODULE CaptureCall -----------------------------
(***************************************************************************)
(* What a device session's recording and log capture share (Device.ts):    *)
(* the calls the session makes, one at a time, the awaits they stand at,   *)
(* and the host's disk, without which every Logger call throws.            *)
(***************************************************************************)
EXTENDS Naturals, FiniteSets

CONSTANTS
  Tests,    \* the run's tests: the managers' map keys, all of one device
  NoTest,   \* none of them
  Plans,    \* what a session may ask for: the tests to record and to log
  Faults    \* whether the artifacts disk may fail

ASSUME CaptureAssumption ==
  /\ IsFiniteSet(Tests) /\ NoTest \notin Tests /\ Faults \in BOOLEAN
  /\ Plans \subseteq [recorded : SUBSET Tests, logged : SUBSET Tests]

Platforms == {"android", "ios"}

(* A child process of the host: `exited' has an exitCode, `killed' only a  *)
(* signalCode, which the providers' checks of exitCode do not see.         *)
ProcessStates == {"none", "alive", "signalled", "exited", "killed"}

VARIABLES
  platform,    \* of the session's device
  plan,        \* what the session asks for
  disk,        \* whether a log line can be written now
  diskFailed,  \* whether there was ever a time when none could
  call,        \* the call in progress: what it is, where it stands
  answer       \* how the last call ended

hostVars == <<platform, plan, disk, diskFailed>>

Idle == call.at = "idle"
LogThrows == disk = "broken"

CallInit ==
  /\ platform \in Platforms
  /\ plan \in Plans
  /\ disk = "ok"
  /\ diskFailed = FALSE
  /\ call = [at |-> "idle", op |-> "none", test |-> NoTest, keep |-> FALSE, all |-> {}, queue |-> {}]
  /\ answer = "none"

(* The awaits of a call, by what it waits for: a start, a stop within its  *)
(* loop of stops, of the recordings and of the logs                        *)
RecordingStarts == {"recordingDir", "recorderLaunch", "recorderSettle"}
RecordingStops == {"recorderExit", "recorderGone", "videoCheck", "compress", "discard"}
LogStarts == {"logAvailability", "logBufferClear", "logSpawn", "logFlushStart"}
LogDrains == {"loggerExit", "logDrain", "logDrainQuietly"}
LogFlushes == {"logFlush", "logFlushRejected", "logFlushQuietly", "logStopped", "logStopFailed"}
Sweeps == {"recordingSweep", "logCleanUp", "logSweep"}
Places ==
  {"idle"} \cup RecordingStarts \cup RecordingStops \cup LogStarts \cup LogDrains
           \cup LogFlushes \cup Sweeps

CallTypeOK ==
  /\ platform \in Platforms
  /\ plan \in Plans
  /\ disk \in {"ok", "broken"}
  /\ diskFailed \in BOOLEAN
  /\ call \in [at : Places, op : {"none", "start", "stop", "abort", "close"},
               test : Tests \cup {NoTest}, keep : BOOLEAN,
               all : SUBSET Tests, queue : SUBSET Tests]
  /\ call.queue \subseteq call.all
  /\ answer \in {"none", "ok", "failed", "threw"}

(* A call of one operation for a test, or for `all' tests in turn *)
Enter(op, at, test, all, keep) ==
  /\ call' = [at |-> at, op |-> op, test |-> test, keep |-> keep, all |-> all, queue |-> all]
  /\ answer' = "none"
GoTo(at) == call' = [call EXCEPT !.at = at] /\ answer' = answer

(* Mutant: the call's keys are dropped, those it still has to stop are not. *)
ReturnUnfinished(how) ==
  /\ call' = [call EXCEPT !.at = "idle", !.all = {}]
  /\ answer' = how

Return(how) ==
  /\ call' = [call EXCEPT !.at = "idle", !.all = {}, !.queue = {}]
  /\ answer' = how

(* A stop that is over, within the call that asked for it *)
StopAnswers(sweep, how) == call' = [call EXCEPT !.at = sweep] /\ answer' = how

(* The answer of an operation whose last act is a log line *)
Logged(how) == IF LogThrows THEN "threw" ELSE how

Dead(process) == process \in {"exited", "killed"}

DiskChanges ==
  /\ Faults
  /\ disk' = IF disk = "ok" THEN "broken" ELSE "ok"
  /\ diskFailed' = TRUE
  /\ UNCHANGED <<platform, plan, call, answer>>
=============================================================================
