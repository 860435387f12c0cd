------------------------------ MODULE TestRun -------------------------------
(***************************************************************************)
(* runTests (cli/src/testRunner.ts) over executeTestOnSession: validation, *)
(* preflight, one device session for the run, the selected tests in order, *)
(* the run's record, and the release of everything on every way out.       *)
(* SIGINT may arrive at any await.  The first aborts the run, the second   *)
(* exits the process.                                                      *)
(***************************************************************************)
EXTENDS SessionRun, Sequences

CONSTANTS
  Tests,           \* how many tests are selected
  MaxInterrupts    \* bound on SIGINTs

ASSUME RunAssumption == Tests \in Nat \ {0} /\ MaxInterrupts \in Nat

VARIABLES
  step,                \* the await at which runTests stands
  begun,               \* tests begun; the loop's position
  results,             \* ctx.testResults: status and whether it has a recording
  encounteredFailure,  \* ctx.encounteredFailure
  runAborted,          \* ctx.runAborted
  interrupts,          \* SIGINTs received
  listening,           \* the SIGINT listener is registered
  sink,                \* the Logger's sink: the buffering one, the run's, none
  writer,              \* ctx.reportWriter is set: the run has artifacts
  session,             \* the device session
  error,               \* what runTests is to reject with
  answer,              \* the status finalizeRun computed
  runJson              \* the status run.json on disk carries

runVars ==
  <<step, begun, results, encounteredFailure, runAborted, interrupts, listening,
    sink, writer, session, error, answer, runJson>>
vars == <<platform, disk, signalAborted, sessionVars, runVars>>

RunSteps ==
  {"validate", "preflight", "prepare", "loop", "createWriter", "writeInputs",
   "startTest", "execute", "writeRecord", "writeFailureRecord", "finalize",
   "writeRunJson", "rebuildIndex", "release", "closeConnection",
   "settled", "exited"}
RunStatuses == {"none", "success", "failure", "aborted"}

(* Types, and no more tests begun or recorded than were selected. *)
TypeOK ==
  /\ SessionTypeOK
  /\ step \in RunSteps
  /\ begun \in 0 .. Tests
  /\ results \in Seq([status : Statuses \cup {"error"}, recording : BOOLEAN])
  /\ Len(results) =< begun
  /\ encounteredFailure \in BOOLEAN
  /\ runAborted \in BOOLEAN
  /\ interrupts \in 0 .. MaxInterrupts
  /\ listening \in BOOLEAN
  /\ sink \in {"buffering", "run", "none"}
  /\ writer \in BOOLEAN
  /\ session \in {"none", "open", "closed", "leaked"}
  /\ error \in {"none", "preExecution", "error"}
  /\ answer \in RunStatuses
  /\ runJson \in RunStatuses

Init ==
  /\ SessionInit
  /\ step = "validate"
  /\ begun = 0
  /\ results = <<>>
  /\ encounteredFailure = FALSE
  /\ runAborted = FALSE
  /\ interrupts = 0
  /\ listening = TRUE
  /\ sink = "buffering"
  /\ writer = FALSE
  /\ session = "none"
  /\ error = "none"
  /\ answer = "none"
  /\ runJson = "none"

-----------------------------------------------------------------------------
sharedVars == <<platform, disk, signalAborted>>
recordVars == <<begun, results, encounteredFailure, answer, runJson>>
ctxVars == <<runAborted, interrupts>>

(* The outermost `finally': listener and sinks go. *)
Settle(err) ==
  /\ step' = "settled"
  /\ error' = err
  /\ listening' = FALSE
  /\ sink' = "none"

(* A throw, or a return, inside the `try' that the session's release ends. *)
ToRelease(err) ==
  /\ step' = "release"
  /\ error' = err
  /\ UNCHANGED <<listening, sink>>

To(s) == step' = s /\ UNCHANGED <<error, listening, sink>>

(* appendLogLine, then on to s; a failed write rejects the run *)
AppendLineThenTo(s) == IF LogThrows THEN ToRelease("error") ELSE To(s)

-----------------------------------------------------------------------------
(* runValidationPhase and the check after it *)
Validated ==
  /\ step = "validate"
  /\ \/ ~runAborted /\ To("preflight")
     \/ runAborted /\ Settle("preExecution")
     \/ Settle("preExecution")       \* runCheck or the compilation threw
  /\ UNCHANGED <<writer, session, recordVars, ctxVars, sharedVars, sessionVars>>

(* prepareRunSession up to the preparation of the session *)
Preflighted ==
  /\ step = "preflight"
  /\ \/ ~runAborted /\ To("prepare")
     \/ Settle("preExecution")       \* blocked, or aborted meanwhile
  /\ UNCHANGED <<writer, session, recordVars, ctxVars, sharedVars, sessionVars>>

(* Mutant: the check stands before the `try' that releases the session.    *)
PreparedOutsideTry ==
  /\ step = "prepare"
  /\ session' = "open"
  /\ IF runAborted THEN Settle("preExecution") ELSE To("loop")
  /\ UNCHANGED <<writer, recordVars, ctxVars, sharedVars, sessionVars>>

Prepared ==
  /\ step = "prepare"
  /\ session' = "open"
  /\ IF runAborted THEN ToRelease("preExecution") ELSE To("loop")
  /\ UNCHANGED <<writer, recordVars, ctxVars, sharedVars, sessionVars>>

(* prepareTestSession cleans up after itself and rethrows. *)
PrepareFails ==
  /\ step = "prepare"
  /\ Settle("preExecution")
  /\ UNCHANGED <<writer, session, recordVars, ctxVars, sharedVars, sessionVars>>

-----------------------------------------------------------------------------
(* Mutant: an abort between tests is taken for one before execution.       *)
NextTestAbortThrows ==
  /\ step = "loop"
  /\ begun < Tests
  /\ IF runAborted THEN ToRelease("preExecution") ELSE To(IF writer THEN "startTest" ELSE "createWriter")
  /\ UNCHANGED <<writer, session, recordVars, ctxVars, sharedVars, sessionVars>>

(* Mutant: one turn of the loop too many. *)
NextTestOffByOne ==
  /\ step = "loop"
  /\ begun =< Tests
  /\ IF runAborted
     THEN IF writer THEN To("finalize") ELSE ToRelease("preExecution")
     ELSE To(IF writer THEN "startTest" ELSE "createWriter")
  /\ UNCHANGED <<writer, session, recordVars, ctxVars, sharedVars, sessionVars>>

(* The head of runTestLoop: the checks before each test *)
NextTest ==
  /\ step = "loop"
  /\ begun < Tests
  /\ IF runAborted
     THEN IF writer THEN To("finalize") ELSE ToRelease("preExecution")
     ELSE To(IF writer THEN "startTest" ELSE "createWriter")
  /\ UNCHANGED <<writer, session, recordVars, ctxVars, sharedVars, sessionVars>>

AllTestsRun ==
  /\ step = "loop"
  /\ begun = Tests
  /\ To("finalize")
  /\ UNCHANGED <<writer, session, recordVars, ctxVars, sharedVars, sessionVars>>

(* createReportWriter is over; the buffered entries go to the run's sink   *)
(* before it replaces the buffering one.                                   *)
WriterCreated ==
  /\ step = "createWriter"
  /\ writer' = TRUE
  /\ IF LogThrows
     THEN ToRelease("error")
     ELSE step' = "writeInputs" /\ sink' = "run" /\ UNCHANGED <<error, listening>>
  /\ UNCHANGED <<session, recordVars, ctxVars, sharedVars, sessionVars>>

InputsWritten ==
  /\ step = "writeInputs"
  /\ AppendLineThenTo("startTest")
  /\ UNCHANGED <<writer, session, recordVars, ctxVars, sharedVars, sessionVars>>

(* A write below the run directory fails outside any `catch' but the run's *)
ArtifactWriteFails ==
  /\ Faults
  /\ step \in {"createWriter", "writeInputs", "writeFailureRecord", "writeRunJson", "rebuildIndex"}
  /\ ToRelease("error")
  /\ answer' = "none"
  /\ UNCHANGED <<writer, session, begun, results, encounteredFailure, runJson,
                 ctxVars, sharedVars, sessionVars>>

StartTest ==
  /\ step = "startTest"
  /\ AppendLineThenTo("execute")
  /\ IF LogThrows
     THEN UNCHANGED <<begun, sessionVars>>
     ELSE begun' = begun + 1 /\ Begin
  /\ UNCHANGED <<writer, session, results, encounteredFailure, answer, runJson,
                 ctxVars, sharedVars>>

InSession ==
  /\ step = "execute"
  /\ SessionStep
  /\ UNCHANGED <<sharedVars, runVars>>

(* executeTestOnSession has returned. *)
TestExecuted ==
  /\ step = "execute"
  /\ phase = "done"
  /\ ~threw
  /\ phase' = "idle"
  /\ To("writeRecord")
  /\ UNCHANGED <<wired, execAborted, iteration, goal, recorded, ledger, capturing, threw,
                 writer, session, recordVars, ctxVars, sharedVars>>

(* The `catch' of executeTestAndRecord, up to its own write *)
CatchTestFailure ==
  /\ encounteredFailure' = TRUE
  /\ AppendLineThenTo("writeFailureRecord")

TestThrew ==
  /\ step = "execute"
  /\ phase = "done"
  /\ threw
  /\ phase' = "idle"
  /\ CatchTestFailure
  /\ UNCHANGED <<wired, execAborted, iteration, goal, recorded, ledger, capturing, threw,
                 writer, session, begun, results, answer, runJson, ctxVars, sharedVars>>

RecordWriteFails ==
  /\ Faults
  /\ step = "writeRecord"
  /\ CatchTestFailure
  /\ UNCHANGED <<writer, session, begun, results, answer, runJson, ctxVars, sharedVars, sessionVars>>

(* The record is written; the loop's checks of the result follow. *)
RecordWritten ==
  /\ step = "writeRecord"
  /\ results' = Append(results, [status |-> goal, recording |-> recorded])
  /\ encounteredFailure' = (encounteredFailure \/ goal # "success")
  /\ runAborted' = (runAborted \/ goal = "aborted")
  /\ IF runAborted' \/ goal = "terminal" THEN AppendLineThenTo("finalize") ELSE To("loop")
  /\ UNCHANGED <<interrupts, writer, session, begun, answer, runJson, sharedVars, sessionVars>>

(* Mutant: the failure record is written and not kept. *)
FailureRecordDropped ==
  /\ step = "writeFailureRecord"
  /\ To("finalize")
  /\ UNCHANGED <<writer, session, recordVars, ctxVars, sharedVars, sessionVars>>

FailureRecordWritten ==
  /\ step = "writeFailureRecord"
  /\ results' = Append(results, [status |-> "error", recording |-> FALSE])
  /\ To("finalize")
  /\ UNCHANGED <<writer, session, begun, encounteredFailure, answer, runJson,
                 ctxVars, sharedVars, sessionVars>>

-----------------------------------------------------------------------------
Passed == \A i \in DOMAIN results : results[i].status = "success"

(* finalizeRun up to its first await; without a writer it throws *)
Finalize ==
  /\ step = "finalize"
  /\ IF writer
     THEN /\ answer' = IF runAborted THEN "aborted"
                       ELSE IF ~encounteredFailure /\ Passed THEN "success" ELSE "failure"
          /\ To("writeRunJson")
     ELSE answer' = answer /\ ToRelease("error")
  /\ UNCHANGED <<writer, session, begun, results, encounteredFailure, runJson,
                 ctxVars, sharedVars, sessionVars>>

RunJsonWritten ==
  /\ step = "writeRunJson"
  /\ runJson' = answer
  /\ To("rebuildIndex")
  /\ UNCHANGED <<writer, session, begun, results, encounteredFailure, answer,
                 ctxVars, sharedVars, sessionVars>>

IndexRebuilt ==
  /\ step = "rebuildIndex"
  /\ ToRelease("none")
  /\ UNCHANGED <<writer, session, recordVars, ctxVars, sharedVars, sessionVars>>

SinkThrows == LogThrows /\ sink = "run"

(* Mutant: the recordings' clean-up is the last thing the session closes.  *)
RecordingsCleanedLast ==
  /\ step = "release"
  /\ capturing' = capturing \ {"recording"}
  /\ Settle(error)
  /\ UNCHANGED <<phase, wired, execAborted, iteration, goal, recorded, ledger, threw,
                 session, writer, recordVars, ctxVars, sharedVars>>

(* releaseSession, down to Device.closeConnection: the recordings' clean-  *)
(* up ends in a log line.  When it throws so does the warning about it,    *)
(* DeviceNode.cleanup swallows that, and the rest is skipped.              *)
RecordingsCleaned ==
  /\ step = "release"
  /\ capturing' = capturing \ {"recording"}
  /\ IF SinkThrows
     THEN session' = "leaked" /\ Settle(error)
     ELSE session' = session /\ To("closeConnection")
  /\ UNCHANGED <<phase, wired, execAborted, iteration, goal, recorded, ledger, threw,
                 writer, recordVars, ctxVars, sharedVars>>

(* The log captures' clean-up ends in a log line too; the runtime closes.  *)
ConnectionClosed ==
  /\ step = "closeConnection"
  /\ capturing' = capturing \ {"log"}
  /\ session' = IF SinkThrows THEN "leaked" ELSE "closed"
  /\ Settle(error)
  /\ UNCHANGED <<phase, wired, execAborted, iteration, goal, recorded, ledger, threw,
                 writer, recordVars, ctxVars, sharedVars>>

-----------------------------------------------------------------------------
(* requestRunAbort, first SIGINT.  Its warning comes before abort(); if it *)
(* throws, the listener's exception is uncaught and the process ends.      *)
FirstInterrupt ==
  /\ listening
  /\ step # "exited"
  /\ ~runAborted
  /\ interrupts < MaxInterrupts
  /\ interrupts' = interrupts + 1
  /\ runAborted' = TRUE
  /\ IF SinkThrows
     THEN step' = "exited" /\ UNCHANGED <<signalAborted, execAborted>>
     ELSE /\ signalAborted' = TRUE
          /\ execAborted' = (execAborted \/ wired)
          /\ step' = step
  /\ UNCHANGED <<phase, wired, iteration, goal, recorded, ledger, capturing, threw,
                 error, listening, sink, writer, session, recordVars, platform, disk>>

SecondInterrupt ==
  /\ listening
  /\ step # "exited"
  /\ runAborted
  /\ interrupts < MaxInterrupts
  /\ interrupts' = interrupts + 1
  /\ step' = "exited"
  /\ UNCHANGED <<runAborted, error, listening, sink, writer, session, recordVars,
                 sharedVars, sessionVars>>

(* The artifacts disk fills up, or has room again. *)
DiskChanges ==
  /\ Faults
  /\ disk' = IF disk = "ok" THEN "broken" ELSE "ok"
  /\ UNCHANGED <<platform, signalAborted, sessionVars, runVars>>

Program ==
  \/ Validated \/ Preflighted \/ Prepared \/ PrepareFails
  \/ NextTest \/ AllTestsRun \/ WriterCreated \/ InputsWritten \/ ArtifactWriteFails
  \/ StartTest \/ InSession \/ TestExecuted \/ TestThrew
  \/ RecordWritten \/ RecordWriteFails \/ FailureRecordWritten
  \/ Finalize \/ RunJsonWritten \/ IndexRebuilt
  \/ RecordingsCleaned \/ ConnectionClosed

Next == Program \/ FirstInterrupt \/ SecondInterrupt \/ DiskChanges

Spec == Init /\ [][Next]_vars

(* Every awaited call settles and the event loop runs what follows it. *)
FairSpec == Spec /\ WF_vars(Program)

-----------------------------------------------------------------------------
(* A run that answers success ran every selected test to a success, and on *)
(* Android has the recording of each: no early break, abort, thrown test,  *)
(* missing recording or failed write is ever summed up as a pass.          *)
SuccessIsComplete ==
  answer = "success" =>
    /\ Len(results) = Tests
    /\ Passed
    /\ platform = "android" => \A i \in DOMAIN results : results[i].recording

(* Once SIGINT has aborted the run no iteration of any goal begins, though *)
(* the signal may fire before the executor exists, while a recording is    *)
(* being started, or between two tests.                                    *)
NoIterationAfterAbort == [][iteration' > iteration => ~runAborted]_vars

(* Every test begun has exactly one record when the run's outcome is       *)
(* computed, also if it threw or its record could not be written.          *)
OneRecordPerTest == step = "finalize" => Len(results) = begun

(* A run that is refused before execution leaves no artifacts behind.      *)
PreExecutionLeavesNothing ==
  error = "preExecution" => ~writer /\ begun = 0 /\ runJson = "none"

(* When runTests settles, by a result or an exception, its session has     *)
(* been released and its process-wide registrations are gone.              *)
SettledIsReleased ==
  step = "settled" => session # "open" /\ ~listening /\ sink = "none"

(* The run ends, or the process does: nothing waits for a second test, a   *)
(* stopped capture or an aborted goal for ever.                            *)
EveryRunSettles == <>(step \in {"settled", "exited"})

(* A run that created its artifacts answers and leaves a run.json with the *)
(* status it answers: `finalrun' and its report server show the same.      *)
RunIsReported ==
  step = "settled" /\ writer => answer # "none" /\ runJson = answer /\ error = "none"

(* When runTests settles the device connection it opened is closed.        *)
SessionClosed == step = "settled" => session \in {"none", "closed"}
=============================================================================
