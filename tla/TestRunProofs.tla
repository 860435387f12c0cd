--------------------------- MODULE TestRunProofs ----------------------------
(***************************************************************************)
(* The run's theorems, for any number of tests, iterations and SIGINTs,    *)
(* with a disk that may fail at any moment (and, where the theorem says    *)
(* so, with one that does not); and that what a run has left to do         *)
(* (StepsToGo) is a number that every step of its own makes smaller.       *)
(***************************************************************************)
EXTENDS TestRun, TLAPS

Starting == {"startRecording", "startLog", "loop", "iterating"}
Stopping == {"stopRecording", "abortRecording", "stopLog", "abortLog"}

(* What a call relies on at its awaits: its ledger has all that runs, and  *)
(* on Android a success without a recording is one that is being unwound.  *)
SessionInv ==
  /\ capturing \subseteq ledger
  /\ phase = "startRecording" => ledger = {}
  /\ phase \in {"stopLog", "abortLog", "releaseLog"} => "recording" \notin capturing
  /\ phase = "done" /\ (~threw \/ ~Faults) => capturing = {}
  /\ phase \in Starting => goal = "none"
  /\ phase \in Starting \cup Stopping => ~threw
  /\ platform = "android" /\ phase \in Starting \ {"startRecording"} => "recording" \in ledger
  /\ platform = "android" /\ goal = "success" /\ ~threw =>
       (phase \in {"stopLog", "abortLog"} \cup Unwinding => recorded)
  /\ phase \in Stopping \cup Unwinding /\ ~threw => goal # "none"
  /\ ~Faults => disk = "ok"

(* A step of a call keeps the types of the call's variables.               *)
LEMMA SessionStepTyped ==
  SessionTypeOK /\ SessionStep /\ UNCHANGED sharedVars => SessionTypeOK'
  <1> SUFFICES ASSUME SessionTypeOK, SessionStep, UNCHANGED sharedVars PROVE SessionTypeOK'
    OBVIOUS
  <1> USE SessionAssumption DEF SessionTypeOK, Phases, Unwinding, Statuses, Captures,
     Platforms, sharedVars
  <1>1. CASE RecordingStarts
    BY <1>1 DEF RecordingStarts, LogThenGo, Go, Leave, LogThrows
  <1>2. CASE RecordingStartFails
    BY <1>2 DEF RecordingStartFails, LogThenGo, WithoutRecording, MarkedFailed, LogThrows,
       Go, Leave
  <1>3. CASE RecordingStartThrows
    BY <1>3 DEF RecordingStartThrows, Leave, Go
  <1>4. CASE LogStarts
    BY <1>4 DEF LogStarts, LogThenGo, Go, Leave, LogThrows
  <1>5. CASE LogStartFails
    BY <1>5 DEF LogStartFails, LogThenGo, Go, Leave, LogThrows
  <1>6. CASE Iterate
    BY <1>6 DEF Iterate
  <1>7. CASE GoalAborted
    BY <1>7 DEF GoalAborted, Go, AfterGoal, AfterRecording
  <1>8. CASE IterationsSpent
    BY <1>8 DEF IterationsSpent, LogThenGo, AfterGoal, LogThrows, AfterRecording, Go, Leave
  <1>9. CASE IterationContinues
    BY <1>9 DEF IterationContinues
  <1>10. CASE IterationThrows
    BY <1>10 DEF IterationThrows, Leave, Go
  <1>11. ASSUME NEW status \in {"success", "failure", "terminal"}, IterationDecides(status)
        PROVE  SessionTypeOK'
    BY <1>11 DEF IterationDecides, Go, AfterGoal, AfterRecording
  <1>12. CASE RecordingStops
    BY <1>12 DEF RecordingStops, Go, AfterRecording, AfterGoal
  <1>13. CASE RecordingStopsWithoutPath
    BY <1>13 DEF RecordingStopsWithoutPath, LogThenGo, AfterRecording, WithoutRecording,
       MarkedFailed, LogThrows, AfterGoal, Go, Leave
  <1>14. CASE RecordingStopFails
    BY <1>14 DEF RecordingStopFails, Go
  <1>15. CASE RecordingStopThrows
    BY <1>15 DEF RecordingStopThrows, Leave, Go
  <1>16. CASE RecordingAborted
    BY <1>16 DEF RecordingAborted, LogThenGo, AfterRecording, WithoutRecording,
       MarkedFailed, LogThrows, AfterGoal, Go, Leave
  <1>17. CASE LogStops
    BY <1>17 DEF LogStops, Go
  <1>18. CASE LogStopsWithoutPath
    BY <1>18 DEF LogStopsWithoutPath, LogThenGo, Go, Leave, LogThrows
  <1>19. CASE LogStopFails
    BY <1>19 DEF LogStopFails, LogThenGo, Go, Leave, LogThrows
  <1>20. CASE LogStopThrows
    BY <1>20 DEF LogStopThrows, Leave, LogThrows, Go
  <1>21. CASE LogAborted
    BY <1>21 DEF LogAborted, LogThenGo, Go, Leave, LogThrows
  <1>22. CASE RecordingReleased
    BY <1>22 DEF RecordingReleased, Go
  <1>23. CASE RecordingReleaseRejected
    BY <1>23 DEF RecordingReleaseRejected, Go, LogThrows
  <1>24. CASE LogReleased
    BY <1>24 DEF LogReleased, Go
  <1>25. CASE LogReleaseRejected
    BY <1>25 DEF LogReleaseRejected, Go, LogThrows
  <1> QED
    BY <1>1, <1>2, <1>3, <1>4, <1>5, <1>6, <1>7, <1>8, <1>9, <1>10, <1>11, <1>12, <1>13,
       <1>14, <1>15, <1>16, <1>17, <1>18, <1>19, <1>20, <1>21, <1>22, <1>23, <1>24,
       <1>25 DEF SessionStep

(* A step of a call keeps what the call relies on, and never leaves the    *)
(* call: only runTests takes a finished one back to idle.                  *)
LEMMA SessionStepInv ==
  SessionTypeOK /\ SessionInv /\ SessionStep /\ UNCHANGED sharedVars
    => SessionInv' /\ phase' # "idle"
  <1> SUFFICES ASSUME SessionTypeOK, SessionInv, SessionStep, UNCHANGED sharedVars
               PROVE  SessionInv' /\ phase' # "idle"
    OBVIOUS
  <1> USE DEF SessionTypeOK, SessionInv, Starting, Stopping, Unwinding, Captures, Platforms,
          sharedVars
  <1>1. CASE RecordingStarts
    BY <1>1 DEF RecordingStarts, LogThenGo, Go, Leave, LogThrows
  <1>2. CASE RecordingStartFails
    BY <1>2 DEF RecordingStartFails, LogThenGo, WithoutRecording, MarkedFailed, LogThrows,
       Go, Leave
  <1>3. CASE RecordingStartThrows
    BY <1>3 DEF RecordingStartThrows, Leave, Go
  <1>4. CASE LogStarts
    BY <1>4 DEF LogStarts, LogThenGo, Go, Leave, LogThrows
  <1>5. CASE LogStartFails
    BY <1>5 DEF LogStartFails, LogThenGo, Go, Leave, LogThrows
  <1>6. CASE Iterate
    BY <1>6 DEF Iterate
  <1>7. CASE GoalAborted
    BY <1>7 DEF GoalAborted, Go, AfterGoal, AfterRecording
  <1>8. CASE IterationsSpent
    BY <1>8 DEF IterationsSpent, LogThenGo, AfterGoal, LogThrows, AfterRecording, Go, Leave
  <1>9. CASE IterationContinues
    BY <1>9 DEF IterationContinues
  <1>10. CASE IterationThrows
    BY <1>10 DEF IterationThrows, Leave, Go
  <1>11. ASSUME NEW status \in {"success", "failure", "terminal"}, IterationDecides(status)
        PROVE  SessionInv' /\ phase' # "idle"
    BY <1>11 DEF IterationDecides, Go, AfterGoal, AfterRecording
  <1>12. CASE RecordingStops
    BY <1>12 DEF RecordingStops, Go, AfterRecording, AfterGoal
  <1>13. CASE RecordingStopsWithoutPath
    BY <1>13 DEF RecordingStopsWithoutPath, LogThenGo, AfterRecording, WithoutRecording,
       MarkedFailed, LogThrows, AfterGoal, Go, Leave
  <1>14. CASE RecordingStopFails
    BY <1>14 DEF RecordingStopFails, Go
  <1>15. CASE RecordingStopThrows
    BY <1>15 DEF RecordingStopThrows, Leave, Go
  <1>16. CASE RecordingAborted
    BY <1>16 DEF RecordingAborted, LogThenGo, AfterRecording, WithoutRecording,
       MarkedFailed, LogThrows, AfterGoal, Go, Leave
  <1>17. CASE LogStops
    BY <1>17 DEF LogStops, Go
  <1>18. CASE LogStopsWithoutPath
    BY <1>18 DEF LogStopsWithoutPath, LogThenGo, Go, Leave, LogThrows
  <1>19. CASE LogStopFails
    BY <1>19 DEF LogStopFails, LogThenGo, Go, Leave, LogThrows
  <1>20. CASE LogStopThrows
    <2>1. CASE LogThrows
      BY <1>20, <2>1 DEF LogStopThrows, Leave, Go
    <2>2. CASE ~LogThrows
      BY <1>20, <2>2 DEF LogStopThrows, Leave, Go
    <2> QED
      BY <2>1, <2>2
  <1>21. CASE LogAborted
    BY <1>21 DEF LogAborted, LogThenGo, Go, Leave, LogThrows
  <1>22. CASE RecordingReleased
    BY <1>22 DEF RecordingReleased, Go
  <1>23. CASE RecordingReleaseRejected
    BY <1>23 DEF RecordingReleaseRejected, Go, LogThrows
  <1>24. CASE LogReleased
    BY <1>24 DEF LogReleased, Go
  <1>25. CASE LogReleaseRejected
    BY <1>25 DEF LogReleaseRejected, Go, LogThrows
  <1> QED
    BY <1>1, <1>2, <1>3, <1>4, <1>5, <1>6, <1>7, <1>8, <1>9, <1>10, <1>11, <1>12, <1>13,
       <1>14, <1>15, <1>16, <1>17, <1>18, <1>19, <1>20, <1>21, <1>22, <1>23, <1>24,
       <1>25 DEF SessionStep

-----------------------------------------------------------------------------
BeforeTests == {"validate", "preflight", "prepare"}
BetweenTests == {"loop", "createWriter", "writeInputs", "startTest"}
InTest == {"execute", "writeRecord", "writeFailureRecord"}
Finalizing == {"writeRunJson", "rebuildIndex"}
Ending == {"release", "closeConnection", "settled", "exited"}

(* Where the run stands and where its call stands; a call that returned    *)
(* left nothing behind that the next one would not know of.                *)
PlaceInv ==
  /\ step \notin {"execute", "exited"} => phase = "idle"
  /\ step = "execute" => phase # "idle"
  /\ step \in BeforeTests \cup BetweenTests \cup {"writeRecord"} => capturing = {}
  /\ step = "writeRecord" =>
       goal # "none" /\ (platform = "android" /\ goal = "success" => recorded)

(* How many tests are begun and recorded at each await *)
CountInv ==
  /\ step \in BeforeTests => begun = 0
  /\ step \in {"createWriter", "writeInputs", "startTest"} => begun < Tests
  /\ step \in BeforeTests \cup BetweenTests \cup {"finalize"} => Len(results) = begun
  /\ step \in InTest => begun = Len(results) + 1

(* What the run has to show at each await: its writer, answer and error.   *)
AnswerInv ==
  /\ step \in BeforeTests => session = "none"
  /\ step \in BeforeTests \cup {"createWriter"} => ~writer
  /\ ~writer => begun = 0 /\ runJson = "none"
  /\ step \in {"writeInputs", "startTest"} \cup InTest \cup {"finalize"} \cup Finalizing => writer
  /\ step \notin Ending => error = "none"
  /\ error = "preExecution" => ~writer
  /\ step \in Finalizing => answer # "none"
  /\ step = "rebuildIndex" => runJson = answer
  /\ ~Faults /\ writer /\ step \in {"release", "closeConnection", "settled"}
       => answer # "none" /\ runJson = answer /\ error = "none"
  /\ step = "settled" => session # "open" /\ ~listening /\ sink = "none"
  /\ ~Faults => session # "leaked"

(* What an answer of success rests on *)
SuccessInv ==
  /\ step = "writeFailureRecord" => encounteredFailure
  /\ step = "finalize" => begun = Tests \/ runAborted \/ encounteredFailure
  /\ step \notin Finalizing \cup Ending => answer = "none"
  /\ platform = "android" =>
       \A i \in 1 .. Len(results) : results[i].status = "success" => results[i].recording
  /\ answer = "success" =>
       Len(results) = Tests /\ \A i \in 1 .. Len(results) : results[i].status = "success"

(* Who knows of an abort *)
AbortInv ==
  /\ step \notin {"finalize"} \cup Finalizing \cup Ending => (runAborted => signalAborted)
  /\ step = "execute" /\ phase \in Starting => wired /\ (runAborted => execAborted)

IndInv == TypeOK /\ SessionInv /\ PlaceInv /\ CountInv /\ AnswerInv /\ SuccessInv /\ AbortInv

Record == [status : Statuses \cup {"error"}, recording : BOOLEAN]

(* The invariant holds as runTests begins.                                 *)
LEMMA InitIndInv == Init => IndInv
  <1> SUFFICES ASSUME Init PROVE IndInv
    OBVIOUS
  <1> USE SessionAssumption, RunAssumption DEF Init, SessionInit
  <1>0. /\ iteration \in 0 .. MaxIterations /\ begun \in 0 .. Tests
        /\ interrupts \in 0 .. MaxInterrupts
    OBVIOUS
  <1>1. SessionTypeOK
    BY <1>0 DEF SessionTypeOK, Phases
  <1>2. results \in Seq(Record) /\ Len(results) = 0
    OBVIOUS
  <1>3. TypeOK
    <2>1. step \in RunSteps /\ answer \in RunStatuses /\ runJson \in RunStatuses
      BY DEF RunSteps, RunStatuses
    <2>2. Len(results) =< begun
      BY <1>2
    <2> QED
      BY <1>0, <1>1, <1>2, <2>1, <2>2 DEF TypeOK, Record
  <1>4. SessionInv /\ PlaceInv
    BY DEF SessionInv, PlaceInv, Starting, Stopping, Unwinding, BeforeTests, BetweenTests
  <1>5. CountInv /\ AnswerInv
    BY <1>2 DEF CountInv, AnswerInv, BeforeTests, BetweenTests, InTest, Finalizing, Ending
  <1>6. SuccessInv /\ AbortInv
    BY <1>2 DEF SuccessInv, AbortInv, Finalizing, Ending
  <1> QED
    BY <1>3, <1>4, <1>5, <1>6 DEF IndInv

-----------------------------------------------------------------------------
(* One more record *)
RecordAdded(status, recording) ==
  /\ results' \in Seq(Record)
  /\ Len(results') = Len(results) + 1
  /\ \A i \in 1 .. Len(results) : results'[i] = results[i]
  /\ results'[Len(results')].status = status
  /\ results'[Len(results')].recording = recording

(* What appending a record does to the results.                            *)
LEMMA Recorded ==
  ASSUME TypeOK, NEW status \in Statuses \cup {"error"}, NEW recording \in BOOLEAN,
         results' = Append(results, [status |-> status, recording |-> recording])
  PROVE  RecordAdded(status, recording)
  <1> DEFINE new == [status |-> status, recording |-> recording]
  <1>1. new \in Record /\ new.status = status /\ new.recording = recording
    BY DEF Record
  <1>2. results \in Seq(Record) /\ results' = Append(results, new)
    BY DEF TypeOK, Record
  <1> HIDE DEF new
  <1> QED
    BY <1>1, <1>2 DEF RecordAdded

(* No step of the run spoils the types of the call's variables.            *)
LEMMA SessionTyped == IndInv /\ [Next]_vars => SessionTypeOK'
  <1> SUFFICES ASSUME IndInv, [Next]_vars PROVE SessionTypeOK'
    OBVIOUS
  <1> USE SessionAssumption DEF IndInv, TypeOK, SessionTypeOK, Phases, Unwinding, Statuses,
     Captures,
          sharedVars, sessionVars
  <1>1. CASE Validated
    BY <1>1 DEF Validated, Settle, To
  <1>2. CASE Preflighted
    BY <1>2 DEF Preflighted, Settle, To
  <1>3. CASE Prepared
    BY <1>3 DEF Prepared, ToRelease, To
  <1>4. CASE PrepareFails
    BY <1>4 DEF PrepareFails, Settle
  <1>5. CASE NextTest
    BY <1>5 DEF NextTest, ToRelease, To
  <1>6. CASE AllTestsRun
    BY <1>6 DEF AllTestsRun, To
  <1>7. CASE WriterCreated
    BY <1>7 DEF WriterCreated, LogThrows, ToRelease
  <1>8. CASE InputsWritten
    BY <1>8 DEF InputsWritten, AppendLineThenTo, LogThrows, ToRelease, To
  <1>9. CASE ArtifactWriteFails
    BY <1>9 DEF ArtifactWriteFails, ToRelease
  <1>10. CASE StartTest
    <2>1. CASE LogThrows
      <3>1. UNCHANGED <<sessionVars, sharedVars>>
        BY <1>10, <2>1 DEF StartTest
      <3> QED
        BY <3>1
    <2>2. CASE ~LogThrows
      <3>1. Begin /\ UNCHANGED sharedVars
        BY <1>10, <2>2 DEF StartTest
      <3>2. phase' \in Phases /\ goal' \in Statuses \cup {"none"}
        BY <3>1 DEF Begin
      <3>3. /\ wired' \in BOOLEAN /\ execAborted' \in BOOLEAN
            /\ recorded' \in BOOLEAN /\ threw' \in BOOLEAN
        BY <3>1 DEF Begin
      <3>4. iteration' \in 0 .. MaxIterations /\ ledger' \in SUBSET Captures
        BY <3>1 DEF Begin
      <3>5. UNCHANGED <<platform, disk, signalAborted, capturing>>
        BY <3>1 DEF Begin
      <3> HIDE DEF Phases, Unwinding, Statuses, Captures
      <3> QED
        BY <3>2, <3>3, <3>4, <3>5
    <2> QED
      BY <2>1, <2>2
  <1>11. CASE InSession
    BY <1>11, SessionStepTyped DEF InSession
  <1>12. CASE TestExecuted
    BY <1>12 DEF TestExecuted, To
  <1>13. CASE TestThrew
    BY <1>13 DEF TestThrew, CatchTestFailure, AppendLineThenTo, LogThrows, ToRelease, To
  <1>14. CASE RecordWritten
    BY <1>14 DEF RecordWritten, To, AppendLineThenTo, LogThrows, ToRelease
  <1>15. CASE RecordWriteFails
    BY <1>15 DEF RecordWriteFails, CatchTestFailure, AppendLineThenTo, LogThrows,
       ToRelease, To
  <1>16. CASE FailureRecordWritten
    BY <1>16 DEF FailureRecordWritten, To
  <1>17. CASE Finalize
    BY <1>17 DEF Finalize, ToRelease, To, Passed
  <1>18. CASE RunJsonWritten
    BY <1>18 DEF RunJsonWritten, To
  <1>19. CASE IndexRebuilt
    BY <1>19 DEF IndexRebuilt, ToRelease
  <1>20. CASE RecordingsCleaned
    BY <1>20 DEF RecordingsCleaned, Settle, To, SinkThrows, LogThrows
  <1>21. CASE ConnectionClosed
    BY <1>21 DEF ConnectionClosed, Settle, SinkThrows, LogThrows
  <1>22. CASE FirstInterrupt
    <2>1. execAborted' \in BOOLEAN /\ signalAborted' \in BOOLEAN
      BY <1>22 DEF FirstInterrupt
    <2> QED
      BY <1>22, <2>1 DEF FirstInterrupt
  <1>23. CASE SecondInterrupt
    BY <1>23 DEF SecondInterrupt
  <1>24. CASE DiskChanges
    BY <1>24 DEF DiskChanges
  <1>25. CASE UNCHANGED vars
    BY <1>25 DEF vars
  <1> QED
    BY <1>1, <1>2, <1>3, <1>4, <1>5, <1>6, <1>7, <1>8, <1>9, <1>10, <1>11, <1>12, <1>13,
       <1>14, <1>15, <1>16, <1>17, <1>18, <1>19, <1>20, <1>21, <1>22, <1>23, <1>24,
       <1>25 DEF Next, Program

(* Every step keeps the types, and begins or records no test too many.     *)
LEMMA TypeStep == IndInv /\ [Next]_vars => TypeOK'
  <1> SUFFICES ASSUME IndInv, [Next]_vars PROVE TypeOK'
    OBVIOUS
  <1>0. SessionTypeOK'
    BY SessionTyped
  <1> USE RunAssumption, <1>0 DEF IndInv, TypeOK, CountInv, BeforeTests, BetweenTests, InTest,
          RunSteps, RunStatuses, Record, recordVars, ctxVars, runVars
  <1>1. CASE Validated
    <2>1. CASE To("preflight")
      BY <1>1, <2>1 DEF Validated, To
    <2>2. CASE Settle("preExecution")
      BY <1>1, <2>2 DEF Validated, Settle
    <2> QED
      BY <1>1, <2>1, <2>2 DEF Validated
  <1>2. CASE Preflighted
    <2>1. CASE To("prepare")
      BY <1>2, <2>1 DEF Preflighted, To
    <2>2. CASE Settle("preExecution")
      BY <1>2, <2>2 DEF Preflighted, Settle
    <2> QED
      BY <1>2, <2>1, <2>2 DEF Preflighted
  <1>3. CASE Prepared
    BY <1>3 DEF Prepared, ToRelease, To
  <1>4. CASE PrepareFails
    BY <1>4 DEF PrepareFails, Settle
  <1>5. CASE NextTest
    BY <1>5 DEF NextTest, ToRelease, To
  <1>6. CASE AllTestsRun
    BY <1>6 DEF AllTestsRun, To
  <1>7. CASE WriterCreated
    BY <1>7 DEF WriterCreated, LogThrows, ToRelease
  <1>8. CASE InputsWritten
    BY <1>8 DEF InputsWritten, AppendLineThenTo, LogThrows, ToRelease, To
  <1>9. CASE ArtifactWriteFails
    BY <1>9 DEF ArtifactWriteFails, ToRelease
  <1>10. CASE StartTest
    BY <1>10 DEF StartTest, LogThrows, AppendLineThenTo, Begin, ToRelease, To
  <1>11. CASE InSession
    BY <1>11 DEF InSession
  <1>12. CASE TestExecuted
    BY <1>12 DEF TestExecuted, To
  <1>13. CASE TestThrew
    BY <1>13 DEF TestThrew, CatchTestFailure, AppendLineThenTo, LogThrows, ToRelease, To
  <1>14. CASE RecordWritten
    <2>1. RecordAdded(goal, recorded)
      BY <1>14, Recorded DEF RecordWritten, PlaceInv, TypeOK, SessionTypeOK
    <2> QED
      BY <1>14, <2>1 DEF RecordWritten, To, AppendLineThenTo, ToRelease, RecordAdded
  <1>15. CASE RecordWriteFails
    BY <1>15 DEF RecordWriteFails, CatchTestFailure, AppendLineThenTo, LogThrows,
       ToRelease, To
  <1>16. CASE FailureRecordWritten
    <2>1. RecordAdded("error", FALSE)
      BY <1>16, Recorded DEF FailureRecordWritten
    <2> QED
      BY <1>16, <2>1 DEF FailureRecordWritten, To, RecordAdded
  <1>17. CASE Finalize
    BY <1>17 DEF Finalize, ToRelease, To, Passed
  <1>18. CASE RunJsonWritten
    BY <1>18 DEF RunJsonWritten, To
  <1>19. CASE IndexRebuilt
    BY <1>19 DEF IndexRebuilt, ToRelease
  <1>20. CASE RecordingsCleaned
    <2>1. CASE SinkThrows
      BY <1>20, <2>1 DEF RecordingsCleaned, Settle
    <2>2. CASE ~SinkThrows
      BY <1>20, <2>2 DEF RecordingsCleaned, To
    <2> QED
      BY <2>1, <2>2
  <1>21. CASE ConnectionClosed
    BY <1>21 DEF ConnectionClosed, Settle, SinkThrows, LogThrows
  <1>22. CASE FirstInterrupt
    BY <1>22 DEF FirstInterrupt, SinkThrows, LogThrows
  <1>23. CASE SecondInterrupt
    BY <1>23 DEF SecondInterrupt
  <1>24. CASE DiskChanges
    BY <1>24 DEF DiskChanges
  <1>25. CASE UNCHANGED vars
    BY <1>25 DEF vars
  <1> QED
    BY <1>1, <1>2, <1>3, <1>4, <1>5, <1>6, <1>7, <1>8, <1>9, <1>10, <1>11, <1>12, <1>13,
       <1>14, <1>15, <1>16, <1>17, <1>18, <1>19, <1>20, <1>21, <1>22, <1>23, <1>24,
       <1>25 DEF Next, Program

(* A call leaves the session as the run's next step expects it.            *)
LEMMA PlaceStep == IndInv /\ [Next]_vars => SessionInv' /\ PlaceInv'
  <1> SUFFICES ASSUME IndInv, [Next]_vars PROVE SessionInv' /\ PlaceInv'
    OBVIOUS
  <1> USE DEF IndInv, PlaceInv, SessionInv, Starting, Stopping, Unwinding, BeforeTests, BetweenTests,
          sessionVars, sharedVars, runVars
  <1>1. CASE Validated
    BY <1>1 DEF Validated, Settle, To
  <1>2. CASE Preflighted
    BY <1>2 DEF Preflighted, Settle, To
  <1>3. CASE Prepared
    BY <1>3 DEF Prepared, ToRelease, To
  <1>4. CASE PrepareFails
    BY <1>4 DEF PrepareFails, Settle
  <1>5. CASE NextTest
    BY <1>5 DEF NextTest, ToRelease, To
  <1>6. CASE AllTestsRun
    BY <1>6 DEF AllTestsRun, To
  <1>7. CASE WriterCreated
    BY <1>7 DEF WriterCreated, LogThrows, ToRelease
  <1>8. CASE InputsWritten
    BY <1>8 DEF InputsWritten, AppendLineThenTo, LogThrows, ToRelease, To
  <1>9. CASE ArtifactWriteFails
    BY <1>9 DEF ArtifactWriteFails, ToRelease
  <1>10. CASE StartTest
    BY <1>10 DEF StartTest, LogThrows, AppendLineThenTo, Begin, ToRelease, To
  <1>11. CASE InSession
    <2>1. SessionInv' /\ phase' # "idle"
      BY <1>11, SessionStepInv DEF InSession, TypeOK
    <2>2. step' = "execute"
      BY <1>11 DEF InSession
    <2> HIDE DEF SessionInv
    <2> QED
      BY <2>1, <2>2
  <1>12. CASE TestExecuted
    BY <1>12 DEF TestExecuted, To
  <1>13. CASE TestThrew
    BY <1>13 DEF TestThrew, CatchTestFailure, AppendLineThenTo, LogThrows, ToRelease, To
  <1>14. CASE RecordWritten
    BY <1>14 DEF RecordWritten, To, AppendLineThenTo, LogThrows, ToRelease
  <1>15. CASE RecordWriteFails
    BY <1>15 DEF RecordWriteFails, CatchTestFailure, AppendLineThenTo, LogThrows,
       ToRelease, To
  <1>16. CASE FailureRecordWritten
    BY <1>16 DEF FailureRecordWritten, To
  <1>17. CASE Finalize
    BY <1>17 DEF Finalize, ToRelease, To, Passed
  <1>18. CASE RunJsonWritten
    BY <1>18 DEF RunJsonWritten, To
  <1>19. CASE IndexRebuilt
    BY <1>19 DEF IndexRebuilt, ToRelease
  <1>20. CASE RecordingsCleaned
    BY <1>20 DEF RecordingsCleaned, Settle, To, SinkThrows, LogThrows
  <1>21. CASE ConnectionClosed
    BY <1>21 DEF ConnectionClosed, Settle, SinkThrows, LogThrows
  <1>22. CASE FirstInterrupt
    BY <1>22 DEF FirstInterrupt, SinkThrows, LogThrows
  <1>23. CASE SecondInterrupt
    BY <1>23 DEF SecondInterrupt
  <1>24. CASE DiskChanges
    BY <1>24 DEF DiskChanges
  <1>25. CASE UNCHANGED vars
    BY <1>25 DEF vars
  <1> QED
    BY <1>1, <1>2, <1>3, <1>4, <1>5, <1>6, <1>7, <1>8, <1>9, <1>10, <1>11, <1>12, <1>13,
       <1>14, <1>15, <1>16, <1>17, <1>18, <1>19, <1>20, <1>21, <1>22, <1>23, <1>24,
       <1>25 DEF Next, Program

(* A test is begun once and recorded once before the next begins.          *)
LEMMA CountStep == IndInv /\ [Next]_vars => CountInv'
  <1> SUFFICES ASSUME IndInv, [Next]_vars PROVE CountInv'
    OBVIOUS
  <1> USE DEF IndInv, TypeOK, CountInv, BeforeTests, BetweenTests, InTest, recordVars, runVars
  <1>1. CASE Validated
    BY <1>1 DEF Validated, Settle, To
  <1>2. CASE Preflighted
    BY <1>2 DEF Preflighted, Settle, To
  <1>3. CASE Prepared
    BY <1>3 DEF Prepared, ToRelease, To
  <1>4. CASE PrepareFails
    BY <1>4 DEF PrepareFails, Settle
  <1>5. CASE NextTest
    BY <1>5 DEF NextTest, ToRelease, To
  <1>6. CASE AllTestsRun
    BY <1>6 DEF AllTestsRun, To
  <1>7. CASE WriterCreated
    BY <1>7 DEF WriterCreated, LogThrows, ToRelease
  <1>8. CASE InputsWritten
    BY <1>8 DEF InputsWritten, AppendLineThenTo, LogThrows, ToRelease, To
  <1>9. CASE ArtifactWriteFails
    BY <1>9 DEF ArtifactWriteFails, ToRelease
  <1>10. CASE StartTest
    BY <1>10 DEF StartTest, LogThrows, AppendLineThenTo, Begin, ToRelease, To
  <1>11. CASE InSession
    BY <1>11 DEF InSession
  <1>12. CASE TestExecuted
    BY <1>12 DEF TestExecuted, To
  <1>13. CASE TestThrew
    BY <1>13 DEF TestThrew, CatchTestFailure, AppendLineThenTo, LogThrows, ToRelease, To
  <1>14. CASE RecordWritten
    <2>1. RecordAdded(goal, recorded)
      BY <1>14, Recorded DEF RecordWritten, PlaceInv, TypeOK, SessionTypeOK
    <2> QED
      BY <1>14, <2>1 DEF RecordWritten, To, AppendLineThenTo, ToRelease, RecordAdded
  <1>15. CASE RecordWriteFails
    BY <1>15 DEF RecordWriteFails, CatchTestFailure, AppendLineThenTo, LogThrows,
       ToRelease, To
  <1>16. CASE FailureRecordWritten
    <2>1. RecordAdded("error", FALSE)
      BY <1>16, Recorded DEF FailureRecordWritten
    <2> QED
      BY <1>16, <2>1 DEF FailureRecordWritten, To, RecordAdded
  <1>17. CASE Finalize
    BY <1>17 DEF Finalize, ToRelease, To, Passed
  <1>18. CASE RunJsonWritten
    BY <1>18 DEF RunJsonWritten, To
  <1>19. CASE IndexRebuilt
    BY <1>19 DEF IndexRebuilt, ToRelease
  <1>20. CASE RecordingsCleaned
    BY <1>20 DEF RecordingsCleaned, Settle, To, SinkThrows, LogThrows
  <1>21. CASE ConnectionClosed
    BY <1>21 DEF ConnectionClosed, Settle, SinkThrows, LogThrows
  <1>22. CASE FirstInterrupt
    BY <1>22 DEF FirstInterrupt, SinkThrows, LogThrows
  <1>23. CASE SecondInterrupt
    BY <1>23 DEF SecondInterrupt
  <1>24. CASE DiskChanges
    BY <1>24 DEF DiskChanges
  <1>25. CASE UNCHANGED vars
    BY <1>25 DEF vars
  <1> QED
    BY <1>1, <1>2, <1>3, <1>4, <1>5, <1>6, <1>7, <1>8, <1>9, <1>10, <1>11, <1>12, <1>13,
       <1>14, <1>15, <1>16, <1>17, <1>18, <1>19, <1>20, <1>21, <1>22, <1>23, <1>24,
       <1>25 DEF Next, Program

(* Only a run with a writer answers, and only a released one settles.      *)
LEMMA AnswerStep == IndInv /\ [Next]_vars => AnswerInv'
  <1> SUFFICES ASSUME IndInv, [Next]_vars PROVE AnswerInv'
    OBVIOUS
  <1> USE RunAssumption DEF IndInv, TypeOK, CountInv, AnswerInv, BeforeTests, BetweenTests,
     InTest,
          Finalizing, Ending, recordVars, runVars, sharedVars
  <1>0. ~Faults => ~LogThrows
    BY DEF SessionInv, LogThrows
  <1>1. CASE Validated
    BY <1>1, <1>0 DEF Validated, Settle, To
  <1>2. CASE Preflighted
    BY <1>2, <1>0 DEF Preflighted, Settle, To
  <1>3. CASE Prepared
    BY <1>3, <1>0 DEF Prepared, ToRelease, To
  <1>4. CASE PrepareFails
    BY <1>4, <1>0 DEF PrepareFails, Settle
  <1>5. CASE NextTest
    BY <1>5, <1>0 DEF NextTest, ToRelease, To
  <1>6. CASE AllTestsRun
    BY <1>6, <1>0 DEF AllTestsRun, To
  <1>7. CASE WriterCreated
    BY <1>7, <1>0 DEF WriterCreated, ToRelease
  <1>8. CASE InputsWritten
    BY <1>8, <1>0 DEF InputsWritten, AppendLineThenTo, ToRelease, To
  <1>9. CASE ArtifactWriteFails
    BY <1>9, <1>0 DEF ArtifactWriteFails, ToRelease
  <1>10. CASE StartTest
    BY <1>10, <1>0 DEF StartTest, AppendLineThenTo, Begin, ToRelease, To
  <1>11. CASE InSession
    BY <1>11, <1>0 DEF InSession
  <1>12. CASE TestExecuted
    BY <1>12, <1>0 DEF TestExecuted, To
  <1>13. CASE TestThrew
    BY <1>13, <1>0 DEF TestThrew, CatchTestFailure, AppendLineThenTo, ToRelease, To
  <1>14. CASE RecordWritten
    BY <1>14, <1>0 DEF RecordWritten, To, AppendLineThenTo, ToRelease
  <1>15. CASE RecordWriteFails
    BY <1>15, <1>0 DEF RecordWriteFails, CatchTestFailure, AppendLineThenTo, ToRelease, To
  <1>16. CASE FailureRecordWritten
    BY <1>16, <1>0 DEF FailureRecordWritten, To
  <1>17. CASE Finalize
    BY <1>17, <1>0 DEF Finalize, ToRelease, To, Passed
  <1>18. CASE RunJsonWritten
    BY <1>18, <1>0 DEF RunJsonWritten, To
  <1>19. CASE IndexRebuilt
    BY <1>19, <1>0 DEF IndexRebuilt, ToRelease
  <1>20. CASE RecordingsCleaned
    BY <1>20, <1>0 DEF RecordingsCleaned, Settle, To, SinkThrows
  <1>21. CASE ConnectionClosed
    BY <1>21, <1>0 DEF ConnectionClosed, Settle, SinkThrows
  <1>22. CASE FirstInterrupt
    BY <1>22, <1>0 DEF FirstInterrupt, SinkThrows
  <1>23. CASE SecondInterrupt
    BY <1>23, <1>0 DEF SecondInterrupt
  <1>24. CASE DiskChanges
    BY <1>24, <1>0 DEF DiskChanges
  <1>25. CASE UNCHANGED vars
    BY <1>25 DEF vars
  <1> QED
    BY <1>1, <1>2, <1>3, <1>4, <1>5, <1>6, <1>7, <1>8, <1>9, <1>10, <1>11, <1>12, <1>13,
       <1>14, <1>15, <1>16, <1>17, <1>18, <1>19, <1>20, <1>21, <1>22, <1>23, <1>24,
       <1>25 DEF Next, Program

(* A success is the success of every test that was selected.               *)
LEMMA SuccessStep == IndInv /\ [Next]_vars => SuccessInv'
  <1> SUFFICES ASSUME IndInv, [Next]_vars PROVE SuccessInv'
    OBVIOUS
  <1> USE DEF IndInv, TypeOK, CountInv, SuccessInv, BeforeTests, BetweenTests, InTest,
          Finalizing, Ending, recordVars, ctxVars, runVars, sharedVars
  <1>1. CASE Validated
    BY <1>1 DEF Validated, Settle, To
  <1>2. CASE Preflighted
    BY <1>2 DEF Preflighted, Settle, To
  <1>3. CASE Prepared
    BY <1>3 DEF Prepared, ToRelease, To
  <1>4. CASE PrepareFails
    BY <1>4 DEF PrepareFails, Settle
  <1>5. CASE NextTest
    BY <1>5 DEF NextTest, ToRelease, To
  <1>6. CASE AllTestsRun
    BY <1>6 DEF AllTestsRun, To
  <1>7. CASE WriterCreated
    BY <1>7 DEF WriterCreated, LogThrows, ToRelease
  <1>8. CASE InputsWritten
    BY <1>8 DEF InputsWritten, AppendLineThenTo, LogThrows, ToRelease, To
  <1>9. CASE ArtifactWriteFails
    BY <1>9 DEF ArtifactWriteFails, ToRelease
  <1>10. CASE StartTest
    BY <1>10 DEF StartTest, LogThrows, AppendLineThenTo, Begin, ToRelease, To
  <1>11. CASE InSession
    BY <1>11 DEF InSession
  <1>12. CASE TestExecuted
    BY <1>12 DEF TestExecuted, To
  <1>13. CASE TestThrew
    BY <1>13 DEF TestThrew, CatchTestFailure, AppendLineThenTo, LogThrows, ToRelease, To
  <1>14. CASE RecordWritten
    <2>1. RecordAdded(goal, recorded)
      BY <1>14, Recorded DEF RecordWritten, PlaceInv, TypeOK, SessionTypeOK
    <2>2. step' \in {"finalize", "loop", "release"} /\ UNCHANGED <<begun, answer, platform>>
      BY <1>14 DEF RecordWritten, To, AppendLineThenTo, ToRelease
    <2>3. step' = "finalize" => begun' = Tests \/ runAborted' \/ encounteredFailure'
      <3>1. CASE runAborted'
        BY <3>1
      <3>2. CASE goal = "terminal"
        BY <1>14, <3>2 DEF RecordWritten
      <3>3. CASE ~runAborted' /\ goal # "terminal"
        BY <1>14, <3>3 DEF RecordWritten, To
      <3> QED
        BY <3>1, <3>2, <3>3
    <2>4. platform' = "android" =>
            \A i \in 1 .. Len(results') : results'[i].status = "success" => results'[i].recording
      <3> SUFFICES ASSUME platform' = "android", NEW i \in 1 .. Len(results'),
                          results'[i].status = "success"
                   PROVE  results'[i].recording
        OBVIOUS
      <3>1. CASE i = Len(results')
        <4>1. goal = "success" => recorded
          BY <1>14, <2>2 DEF RecordWritten, PlaceInv
        <4> QED
          BY <2>1, <3>1, <4>1 DEF RecordAdded
      <3>2. CASE i # Len(results')
        <4>1. i \in 1 .. Len(results) /\ results'[i] = results[i]
          BY <2>1, <3>2 DEF RecordAdded
        <4> QED
          BY <2>2, <4>1
      <3> QED
        BY <3>1, <3>2
    <2>5. answer' = "none"
      BY <1>14, <2>2 DEF RecordWritten
    <2> QED
      BY <2>2, <2>3, <2>4, <2>5
  <1>15. CASE RecordWriteFails
    BY <1>15 DEF RecordWriteFails, CatchTestFailure, AppendLineThenTo, LogThrows,
       ToRelease, To
  <1>16. CASE FailureRecordWritten
    <2>1. RecordAdded("error", FALSE)
      BY <1>16, Recorded DEF FailureRecordWritten
    <2> QED
      BY <1>16, <2>1 DEF FailureRecordWritten, To, RecordAdded
  <1>17. CASE Finalize
    BY <1>17 DEF Finalize, ToRelease, To, Passed
  <1>18. CASE RunJsonWritten
    BY <1>18 DEF RunJsonWritten, To
  <1>19. CASE IndexRebuilt
    BY <1>19 DEF IndexRebuilt, ToRelease
  <1>20. CASE RecordingsCleaned
    BY <1>20 DEF RecordingsCleaned, Settle, To, SinkThrows, LogThrows
  <1>21. CASE ConnectionClosed
    BY <1>21 DEF ConnectionClosed, Settle, SinkThrows, LogThrows
  <1>22. CASE FirstInterrupt
    BY <1>22 DEF FirstInterrupt, SinkThrows, LogThrows
  <1>23. CASE SecondInterrupt
    BY <1>23 DEF SecondInterrupt
  <1>24. CASE DiskChanges
    BY <1>24 DEF DiskChanges
  <1>25. CASE UNCHANGED vars
    BY <1>25 DEF vars
  <1> QED
    BY <1>1, <1>2, <1>3, <1>4, <1>5, <1>6, <1>7, <1>8, <1>9, <1>10, <1>11, <1>12, <1>13,
       <1>14, <1>15, <1>16, <1>17, <1>18, <1>19, <1>20, <1>21, <1>22, <1>23, <1>24,
       <1>25 DEF Next, Program

(* A call that has not left its loop is still wired, and aborted as before. *)
LEMMA StartingKept ==
  SessionStep /\ phase' \in Starting =>
    phase \in Starting /\ (wired => wired') /\ execAborted' = execAborted
  <1> SUFFICES ASSUME SessionStep, phase' \in Starting
               PROVE  phase \in Starting /\ (wired => wired') /\ execAborted' = execAborted
    OBVIOUS
  <1> USE DEF Starting, Unwinding
  <1>1. CASE RecordingStarts
    BY <1>1 DEF RecordingStarts, LogThenGo, Go, Leave
  <1>2. CASE RecordingStartFails
    BY <1>2 DEF RecordingStartFails, LogThenGo, WithoutRecording, MarkedFailed, Go, Leave
  <1>3. CASE RecordingStartThrows
    BY <1>3 DEF RecordingStartThrows, Leave, Go
  <1>4. CASE LogStarts
    BY <1>4 DEF LogStarts, LogThenGo, Go, Leave
  <1>5. CASE LogStartFails
    BY <1>5 DEF LogStartFails, LogThenGo, Go, Leave
  <1>6. CASE Iterate
    BY <1>6 DEF Iterate
  <1>7. CASE GoalAborted
    BY <1>7 DEF GoalAborted, Go, AfterGoal, AfterRecording
  <1>8. CASE IterationsSpent
    BY <1>8 DEF IterationsSpent, LogThenGo, AfterGoal, AfterRecording, Go, Leave
  <1>9. CASE IterationContinues
    BY <1>9 DEF IterationContinues
  <1>10. CASE IterationThrows
    BY <1>10 DEF IterationThrows, Leave, Go
  <1>11. ASSUME NEW status \in {"success", "failure", "terminal"}, IterationDecides(status)
        PROVE  phase \in Starting /\ (wired => wired') /\ execAborted' = execAborted
    BY <1>11 DEF IterationDecides, Go, AfterGoal, AfterRecording
  <1>12. CASE RecordingStops
    BY <1>12 DEF RecordingStops, Go, AfterRecording, AfterGoal
  <1>13. CASE RecordingStopsWithoutPath
    BY <1>13 DEF RecordingStopsWithoutPath, LogThenGo, AfterRecording, WithoutRecording,
       MarkedFailed, AfterGoal, Go, Leave
  <1>14. CASE RecordingStopFails
    BY <1>14 DEF RecordingStopFails, Go
  <1>15. CASE RecordingStopThrows
    BY <1>15 DEF RecordingStopThrows, Leave, Go
  <1>16. CASE RecordingAborted
    BY <1>16 DEF RecordingAborted, LogThenGo, AfterRecording, WithoutRecording,
       MarkedFailed, AfterGoal, Go, Leave
  <1>17. CASE LogStops
    BY <1>17 DEF LogStops, Go
  <1>18. CASE LogStopsWithoutPath
    BY <1>18 DEF LogStopsWithoutPath, LogThenGo, Go, Leave
  <1>19. CASE LogStopFails
    BY <1>19 DEF LogStopFails, LogThenGo, Go, Leave
  <1>20. CASE LogStopThrows
    BY <1>20 DEF LogStopThrows, Leave, Go
  <1>21. CASE LogAborted
    BY <1>21 DEF LogAborted, LogThenGo, Go, Leave
  <1>22. CASE RecordingReleased
    BY <1>22 DEF RecordingReleased, Go
  <1>23. CASE RecordingReleaseRejected
    BY <1>23 DEF RecordingReleaseRejected, Go
  <1>24. CASE LogReleased
    BY <1>24 DEF LogReleased, Go
  <1>25. CASE LogReleaseRejected
    BY <1>25 DEF LogReleaseRejected, Go
  <1> QED
    BY <1>1, <1>2, <1>3, <1>4, <1>5, <1>6, <1>7, <1>8, <1>9, <1>10, <1>11, <1>12, <1>13,
       <1>14, <1>15, <1>16, <1>17, <1>18, <1>19, <1>20, <1>21, <1>22, <1>23, <1>24,
       <1>25 DEF SessionStep

(* An abort reaches the executor of the call under way, and a call that    *)
(* begins after it ends without one.                                       *)
LEMMA AbortStep == IndInv /\ [Next]_vars => AbortInv'
  <1> SUFFICES ASSUME IndInv, [Next]_vars PROVE AbortInv'
    OBVIOUS
  <1> USE DEF IndInv, TypeOK, PlaceInv, AbortInv, Starting, Finalizing, Ending,
          sharedVars, ctxVars, runVars, sessionVars
  <1>1. CASE Validated
    BY <1>1 DEF Validated, Settle, To
  <1>2. CASE Preflighted
    BY <1>2 DEF Preflighted, Settle, To
  <1>3. CASE Prepared
    BY <1>3 DEF Prepared, ToRelease, To
  <1>4. CASE PrepareFails
    BY <1>4 DEF PrepareFails, Settle
  <1>5. CASE NextTest
    BY <1>5 DEF NextTest, ToRelease, To
  <1>6. CASE AllTestsRun
    BY <1>6 DEF AllTestsRun, To
  <1>7. CASE WriterCreated
    BY <1>7 DEF WriterCreated, LogThrows, ToRelease
  <1>8. CASE InputsWritten
    BY <1>8 DEF InputsWritten, AppendLineThenTo, LogThrows, ToRelease, To
  <1>9. CASE ArtifactWriteFails
    BY <1>9 DEF ArtifactWriteFails, ToRelease
  <1>10. CASE StartTest
    BY <1>10 DEF StartTest, LogThrows, AppendLineThenTo, Begin, ToRelease, To
  <1>11. CASE InSession
    BY <1>11, StartingKept DEF InSession
  <1>12. CASE TestExecuted
    BY <1>12 DEF TestExecuted, To
  <1>13. CASE TestThrew
    BY <1>13 DEF TestThrew, CatchTestFailure, AppendLineThenTo, LogThrows, ToRelease, To
  <1>14. CASE RecordWritten
    BY <1>14 DEF RecordWritten, To, AppendLineThenTo, LogThrows, ToRelease
  <1>15. CASE RecordWriteFails
    BY <1>15 DEF RecordWriteFails, CatchTestFailure, AppendLineThenTo, LogThrows,
       ToRelease, To
  <1>16. CASE FailureRecordWritten
    BY <1>16 DEF FailureRecordWritten, To
  <1>17. CASE Finalize
    BY <1>17 DEF Finalize, ToRelease, To, Passed
  <1>18. CASE RunJsonWritten
    BY <1>18 DEF RunJsonWritten, To
  <1>19. CASE IndexRebuilt
    BY <1>19 DEF IndexRebuilt, ToRelease
  <1>20. CASE RecordingsCleaned
    BY <1>20 DEF RecordingsCleaned, Settle, To, SinkThrows, LogThrows
  <1>21. CASE ConnectionClosed
    BY <1>21 DEF ConnectionClosed, Settle, SinkThrows, LogThrows
  <1>22. CASE FirstInterrupt
    BY <1>22 DEF FirstInterrupt, SinkThrows, LogThrows
  <1>23. CASE SecondInterrupt
    BY <1>23 DEF SecondInterrupt
  <1>24. CASE DiskChanges
    BY <1>24 DEF DiskChanges
  <1>25. CASE UNCHANGED vars
    BY <1>25 DEF vars
  <1> QED
    BY <1>1, <1>2, <1>3, <1>4, <1>5, <1>6, <1>7, <1>8, <1>9, <1>10, <1>11, <1>12, <1>13,
       <1>14, <1>15, <1>16, <1>17, <1>18, <1>19, <1>20, <1>21, <1>22, <1>23, <1>24,
       <1>25 DEF Next, Program

(* The invariant holds in every state of every behaviour.                  *)
LEMMA Inductive == Spec => []IndInv
  <1>1. IndInv /\ [Next]_vars => IndInv'
    BY TypeStep, PlaceStep, CountStep, AnswerStep, SuccessStep, AbortStep DEF IndInv
  <1> QED
    BY InitIndInv, <1>1, PTL DEF Spec

(* Every variable keeps its type, and no more tests are begun or recorded  *)
(* than were selected, for every number of tests, iterations and SIGINTs   *)
(* (runTestLoop, executeTestOnSession).                                    *)
THEOREM TypeCorrect == Spec => []TypeOK
  <1>1. IndInv => TypeOK
    BY DEF IndInv
  <1> QED
    BY Inductive, <1>1, PTL

(* What captures on the device is on the call's ledger at every await,     *)
(* wherever a start, a stop or a log line throws (sessionRunner.ts).       *)
THEOREM LedgerIsComplete == Spec => []LedgerCoversCaptures
  <1>1. IndInv => LedgerCoversCaptures
    BY DEF IndInv, SessionInv, LedgerCoversCaptures
  <1> QED
    BY Inductive, <1>1, PTL

(* When finalizeRun computes the outcome, every test begun has exactly one *)
(* record, those that threw or could not be written included.              *)
THEOREM OneRecordEach == Spec => []OneRecordPerTest
  <1>1. IndInv => OneRecordPerTest
    BY DEF IndInv, CountInv, OneRecordPerTest
  <1> QED
    BY Inductive, <1>1, PTL

(* A run refused before execution has no writer, test or run.json, also if *)
(* the SIGINT that refused it came while its session was being prepared.   *)
THEOREM RefusedRunsLeaveNothing == Spec => []PreExecutionLeavesNothing
  <1>1. IndInv => PreExecutionLeavesNothing
    BY DEF IndInv, AnswerInv, PreExecutionLeavesNothing
  <1> QED
    BY Inductive, <1>1, PTL

(* runTests settles with its session given up, its SIGINT listener removed *)
(* and the process-wide log sinks gone, on every way out.                  *)
THEOREM SettledReleased == Spec => []SettledIsReleased
  <1>1. IndInv => SettledIsReleased
    BY DEF IndInv, AnswerInv, SettledIsReleased
  <1> QED
    BY Inductive, <1>1, PTL

(* finalizeRun answers "success" only when every selected test has a       *)
(* record of success, on Android each with its recording.                  *)
THEOREM SuccessComplete == Spec => []SuccessIsComplete
  <1>1. IndInv => SuccessIsComplete
    <2> SUFFICES ASSUME IndInv PROVE SuccessIsComplete
      OBVIOUS
    <2>1. DOMAIN results = 1 .. Len(results)
      BY DEF IndInv, TypeOK
    <2> QED
      BY <2>1 DEF IndInv, SuccessInv, SuccessIsComplete, Passed
  <1> QED
    BY Inductive, <1>1, PTL

-----------------------------------------------------------------------------
(* Only Iterate begins an iteration; its guard reads the executor's flag.  *)
LEMMA IterationsUnlessAborted ==
  IndInv /\ [Next]_vars => (iteration' > iteration => ~runAborted)
  <1> SUFFICES ASSUME IndInv, [Next]_vars, iteration' > iteration PROVE ~runAborted
    OBVIOUS
  <1> DEFINE Kept == iteration' = iteration
  <1>0. iteration \in Nat
    BY SessionAssumption DEF IndInv, TypeOK, SessionTypeOK
  <1>1. ASSUME SessionStep, step = "execute" PROVE ~runAborted
    <2>1. CASE Iterate
      BY <1>1, <2>1 DEF Iterate, IndInv, AbortInv, Starting
    <2>2. CASE ~Iterate
      <3>1. Kept
        BY <1>1, <2>2 DEF SessionStep, RecordingStarts, RecordingStartFails,
           RecordingStartThrows, LogStarts, LogStartFails, GoalAborted, IterationsSpent,
           IterationContinues, IterationThrows, IterationDecides, RecordingStops,
           RecordingStopsWithoutPath, RecordingStopFails, RecordingStopThrows,
           RecordingAborted, LogStops, LogStopsWithoutPath, LogStopFails, LogStopThrows,
           LogAborted, RecordingReleased, RecordingReleaseRejected, LogReleased,
           LogReleaseRejected
      <3> QED
        BY <1>0, <3>1
    <2> QED
      BY <2>1, <2>2
  <1>2. CASE InSession
    BY <1>1, <1>2 DEF InSession
  <1>3. CASE StartTest
    <2>1. iteration' = iteration \/ iteration' = 0
      BY <1>3 DEF StartTest, Begin, sessionVars
    <2> QED
      BY <1>0, <2>1
  <1>4. CASE ~InSession /\ ~StartTest
    <2>1. Kept
      BY <1>4 DEF Next, Program, vars, sessionVars, Validated, Settle, To, Preflighted,
         Prepared, ToRelease, PrepareFails, NextTest, AllTestsRun, WriterCreated, LogThrows,
         InputsWritten, AppendLineThenTo, ArtifactWriteFails, TestExecuted, TestThrew,
         CatchTestFailure, RecordWritten, RecordWriteFails, FailureRecordWritten, Finalize,
         Passed, RunJsonWritten, IndexRebuilt, RecordingsCleaned, SinkThrows,
         ConnectionClosed, FirstInterrupt, SecondInterrupt, DiskChanges
    <2> QED
      BY <1>0, <2>1
  <1> QED
    BY <1>2, <1>3, <1>4

(* Once SIGINT has aborted the run no iteration of any goal begins: the    *)
(* listener is wired before the first await, or its abort is seen there.   *)
THEOREM AbortIsFinal == Spec => NoIterationAfterAbort
  <1> QED
    BY Inductive, IterationsUnlessAborted, PTL DEF Spec, NoIterationAfterAbort

-----------------------------------------------------------------------------
(* With a disk that does not fail: a call ends with nothing it started     *)
(* still running on the device.                                            *)
THEOREM NothingKeepsCapturing == ~Faults => (Spec => []CapturesReleased)
  <1> SUFFICES ASSUME ~Faults PROVE Spec => []CapturesReleased
    OBVIOUS
  <1>1. IndInv => CapturesReleased
    BY DEF IndInv, SessionInv, CapturesReleased
  <1> QED
    BY Inductive, <1>1, PTL

(* With a disk that does not fail: a run that created its artifacts        *)
(* answers, and its run.json carries the status it answers (finalizeRun).  *)
THEOREM RunsAreReported == ~Faults => (Spec => []RunIsReported)
  <1> SUFFICES ASSUME ~Faults PROVE Spec => []RunIsReported
    OBVIOUS
  <1>1. IndInv => RunIsReported
    BY DEF IndInv, AnswerInv, RunIsReported
  <1> QED
    BY Inductive, <1>1, PTL

(* With a disk that does not fail: the connection runTests opened is       *)
(* closed when it settles.                                                 *)
THEOREM SessionsAreClosed == ~Faults => (Spec => []SessionClosed)
  <1> SUFFICES ASSUME ~Faults PROVE Spec => []SessionClosed
    OBVIOUS
  <1>1. IndInv => SessionClosed
    BY DEF IndInv, TypeOK, AnswerInv, SessionClosed
  <1> QED
    BY Inductive, <1>1, PTL

-----------------------------------------------------------------------------
(* The longest way from each await of a call to the call's end; what is    *)
(* left of the goal is two awaits an iteration.                            *)
IterationsLeft == MaxIterations - iteration
CallLeft ==
  CASE phase \in {"idle", "done"} -> 0
    [] phase = "releaseLog" -> 1
    [] phase = "releaseRecording" -> 2
    [] phase = "abortLog" -> 3
    [] phase = "stopLog" -> 4
    [] phase = "abortRecording" -> 5
    [] phase = "stopRecording" -> 6
    [] phase = "loop" -> 7 + 2 * IterationsLeft
    [] phase = "iterating" -> 8 + 2 * IterationsLeft
    [] phase = "startLog" -> 8 + 2 * MaxIterations
    [] phase = "startRecording" -> 9 + 2 * MaxIterations


(* The count at each await, without the CASE *)
CallAtAwaits ==
  /\ IterationsLeft \in 0 .. MaxIterations
  /\ phase \in {"idle", "done"} => CallLeft = 0
  /\ phase = "releaseLog" => CallLeft = 1
  /\ phase = "releaseRecording" => CallLeft = 2
  /\ phase = "abortLog" => CallLeft = 3
  /\ phase = "stopLog" => CallLeft = 4
  /\ phase = "abortRecording" => CallLeft = 5
  /\ phase = "stopRecording" => CallLeft = 6
  /\ phase = "loop" => CallLeft = 7 + 2 * IterationsLeft
  /\ phase = "iterating" => CallLeft = 8 + 2 * IterationsLeft
  /\ phase = "startLog" => CallLeft = 8 + 2 * MaxIterations
  /\ phase = "startRecording" => CallLeft = 9 + 2 * MaxIterations

(* What the counts of a call of at most m iterations add up to             *)
LEMMA CallSums ==
  ASSUME NEW m \in Nat
  PROVE  /\ \A i \in 0 .. m : m - i \in 0 .. m
         /\ \A c, d \in Nat : d < c => 11 + d < 11 + c
         /\ \A d \in 0 .. 9 + 2 * m : 11 + d < (2 * m + 15) + 6
  OBVIOUS

(* The count of a call, await by await *)
LEMMA CallCounted ==
  /\ SessionTypeOK => CallAtAwaits /\ CallLeft \in 0 .. 9 + 2 * MaxIterations
  /\ SessionTypeOK' => CallAtAwaits' /\ CallLeft' \in 0 .. 9 + 2 * MaxIterations
  <1>0. MaxIterations \in Nat
    BY SessionAssumption
  <1>1. ASSUME SessionTypeOK PROVE CallAtAwaits /\ CallLeft \in 0 .. 9 + 2 * MaxIterations
    <2>1. IterationsLeft \in 0 .. MaxIterations
      BY <1>0, <1>1 DEF SessionTypeOK, IterationsLeft
    <2>2. CallAtAwaits
      BY <2>1 DEF CallAtAwaits, CallLeft
    <2> QED
      BY <1>0, <1>1, <2>1, <2>2 DEF CallAtAwaits, SessionTypeOK, Phases, Unwinding
  <1>2. ASSUME SessionTypeOK' PROVE CallAtAwaits' /\ CallLeft' \in 0 .. 9 + 2 * MaxIterations
    <2>0. iteration' \in 0 .. MaxIterations
      BY <1>2 DEF SessionTypeOK
    <2>a. IterationsLeft' = MaxIterations - iteration'
      BY DEF IterationsLeft
    <2>b. MaxIterations - iteration' \in 0 .. MaxIterations
      BY <1>0, <2>0, CallSums
    <2>1. IterationsLeft' \in 0 .. MaxIterations
      BY <2>a, <2>b
    <2>2. CallAtAwaits'
      BY <2>1 DEF CallAtAwaits, CallLeft
    <2> QED
      BY <1>0, <1>2, <2>1, <2>2 DEF CallAtAwaits, SessionTypeOK, Phases, Unwinding
  <1> QED
    BY <1>1, <1>2

(* Every step of a call is one fewer to its end. *)
LEMMA CallShrinks == SessionTypeOK /\ SessionStep /\ UNCHANGED sharedVars => CallLeft' < CallLeft
  <1> SUFFICES ASSUME SessionTypeOK, SessionStep, UNCHANGED sharedVars PROVE CallLeft' < CallLeft
    OBVIOUS
  <1>a. CallAtAwaits /\ CallAtAwaits'
    BY SessionStepTyped, CallCounted
  <1>b. MaxIterations \in Nat /\ iteration \in 0 .. MaxIterations
    BY SessionAssumption DEF SessionTypeOK
  <1> USE <1>a, <1>b DEF CallAtAwaits, Unwinding, IterationsLeft
  <1>1. CASE RecordingStarts
    BY <1>1 DEF RecordingStarts, LogThenGo, Go, Leave, LogThrows
  <1>2. CASE RecordingStartFails
    BY <1>2 DEF RecordingStartFails, LogThenGo, WithoutRecording, MarkedFailed, LogThrows,
       Go, Leave
  <1>3. CASE RecordingStartThrows
    BY <1>3 DEF RecordingStartThrows, Leave, Go
  <1>4. CASE LogStarts
    BY <1>4 DEF LogStarts, LogThenGo, Go, Leave, LogThrows
  <1>5. CASE LogStartFails
    BY <1>5 DEF LogStartFails, LogThenGo, Go, Leave, LogThrows
  <1>6. CASE Iterate
    BY <1>6 DEF Iterate
  <1>7. CASE GoalAborted
    BY <1>7 DEF GoalAborted, Go, AfterGoal, AfterRecording
  <1>8. CASE IterationsSpent
    BY <1>8 DEF IterationsSpent, LogThenGo, AfterGoal, LogThrows, AfterRecording, Go, Leave
  <1>9. CASE IterationContinues
    BY <1>9 DEF IterationContinues
  <1>10. CASE IterationThrows
    BY <1>10 DEF IterationThrows, Leave, Go
  <1>11. ASSUME NEW status \in {"success", "failure", "terminal"}, IterationDecides(status)
        PROVE  CallLeft' < CallLeft
    BY <1>11 DEF IterationDecides, Go, AfterGoal, AfterRecording
  <1>12. CASE RecordingStops
    BY <1>12 DEF RecordingStops, Go, AfterRecording, AfterGoal
  <1>13. CASE RecordingStopsWithoutPath
    BY <1>13 DEF RecordingStopsWithoutPath, LogThenGo, AfterRecording, WithoutRecording,
       MarkedFailed, LogThrows, AfterGoal, Go, Leave
  <1>14. CASE RecordingStopFails
    BY <1>14 DEF RecordingStopFails, Go
  <1>15. CASE RecordingStopThrows
    BY <1>15 DEF RecordingStopThrows, Leave, Go
  <1>16. CASE RecordingAborted
    BY <1>16 DEF RecordingAborted, LogThenGo, AfterRecording, WithoutRecording,
       MarkedFailed, LogThrows, AfterGoal, Go, Leave
  <1>17. CASE LogStops
    BY <1>17 DEF LogStops, Go
  <1>18. CASE LogStopsWithoutPath
    BY <1>18 DEF LogStopsWithoutPath, LogThenGo, Go, Leave, LogThrows
  <1>19. CASE LogStopFails
    BY <1>19 DEF LogStopFails, LogThenGo, Go, Leave, LogThrows
  <1>20. CASE LogStopThrows
    <2>1. CASE LogThrows
      BY <1>20, <2>1 DEF LogStopThrows, Leave, Go
    <2>2. CASE ~LogThrows
      BY <1>20, <2>2 DEF LogStopThrows, Leave, Go
    <2> QED
      BY <2>1, <2>2
  <1>21. CASE LogAborted
    BY <1>21 DEF LogAborted, LogThenGo, Go, Leave, LogThrows
  <1>22. CASE RecordingReleased
    BY <1>22 DEF RecordingReleased, Go
  <1>23. CASE RecordingReleaseRejected
    BY <1>23 DEF RecordingReleaseRejected, Go, LogThrows
  <1>24. CASE LogReleased
    BY <1>24 DEF LogReleased, Go
  <1>25. CASE LogReleaseRejected
    BY <1>25 DEF LogReleaseRejected, Go, LogThrows
  <1> QED
    BY <1>1, <1>2, <1>3, <1>4, <1>5, <1>6, <1>7, <1>8, <1>9, <1>10, <1>11, <1>12, <1>13,
       <1>14, <1>15, <1>16, <1>17, <1>18, <1>19, <1>20, <1>21, <1>22, <1>23, <1>24,
       <1>25 DEF SessionStep

(* What is left of the run, but for the tests that have not begun          *)
StageRank(s, call) ==
  CASE s \in {"settled", "exited"} -> 0
    [] s = "closeConnection" -> 1
    [] s = "release" -> 2
    [] s = "rebuildIndex" -> 3
    [] s = "writeRunJson" -> 4
    [] s = "finalize" -> 5
    [] s \in {"startTest", "writeFailureRecord"} -> 6
    [] s = "writeInputs" -> 7
    [] s = "createWriter" -> 8
    [] s = "loop" -> 9
    [] s \in {"prepare", "writeRecord"} -> 10
    [] s = "preflight" -> 11
    [] s = "validate" -> 12
    [] s = "execute" -> 11 + call

StageLeft == StageRank(step, CallLeft)

PerTest == 2 * MaxIterations + 15
StepsToGo == (Tests - begun) * PerTest + StageLeft

StageAt(s, call, n) ==
  /\ s \in {"settled", "exited"} => n = 0
  /\ s = "closeConnection" => n = 1
  /\ s = "release" => n = 2
  /\ s = "rebuildIndex" => n = 3
  /\ s = "writeRunJson" => n = 4
  /\ s = "finalize" => n = 5
  /\ s \in {"startTest", "writeFailureRecord"} => n = 6
  /\ s = "writeInputs" => n = 7
  /\ s = "createWriter" => n = 8
  /\ s = "loop" => n = 9
  /\ s \in {"prepare", "writeRecord"} => n = 10
  /\ s = "preflight" => n = 11
  /\ s = "validate" => n = 12
  /\ s = "execute" => n = 11 + call

(* The table read at one await *)
LEMMA StageRead ==
  ASSUME NEW s \in RunSteps, NEW call \in Nat
  PROVE  StageAt(s, call, StageRank(s, call)) /\ StageRank(s, call) \in Nat
  <1> DEFINE n == StageRank(s, call)
  <1>1. s \in {"settled", "exited"} => n = 0
    BY DEF StageRank
  <1>2. s = "closeConnection" => n = 1
    BY DEF StageRank
  <1>3. s = "release" => n = 2
    BY DEF StageRank
  <1>4. s = "rebuildIndex" => n = 3
    BY DEF StageRank
  <1>5. s = "writeRunJson" => n = 4
    BY DEF StageRank
  <1>6. s = "finalize" => n = 5
    BY DEF StageRank
  <1>7. s \in {"startTest", "writeFailureRecord"} => n = 6
    BY DEF StageRank
  <1>8. s = "writeInputs" => n = 7
    BY DEF StageRank
  <1>9. s = "createWriter" => n = 8
    BY DEF StageRank
  <1>10. s = "loop" => n = 9
    BY DEF StageRank
  <1>11. s \in {"prepare", "writeRecord"} => n = 10
    BY DEF StageRank
  <1>12. s = "preflight" => n = 11
    BY DEF StageRank
  <1>13. s = "validate" => n = 12
    BY DEF StageRank
  <1>14. s = "execute" => n = 11 + call
    BY DEF StageRank
  <1> HIDE DEF n
  <1>15. StageAt(s, call, n)
    BY <1>1, <1>2, <1>3, <1>4, <1>5, <1>6, <1>7, <1>8, <1>9, <1>10, <1>11, <1>12,
       <1>13, <1>14 DEF StageAt
  <1>16. n \in Nat
    BY <1>15 DEF StageAt, RunSteps
  <1> QED
    BY <1>15, <1>16 DEF n

(* The count of a run's steps, before a step and after it *)
LEMMA StageCounted ==
  IndInv /\ IndInv' =>
    /\ StageAt(step, CallLeft, StageLeft) /\ StageLeft \in Nat
    /\ StageAt(step', CallLeft', StageLeft') /\ StageLeft' \in Nat
  <1> SUFFICES ASSUME IndInv, IndInv'
               PROVE  /\ StageAt(step, CallLeft, StageLeft) /\ StageLeft \in Nat
                      /\ StageAt(step', CallLeft', StageLeft') /\ StageLeft' \in Nat
    OBVIOUS
  <1>1. /\ CallLeft \in Nat /\ CallLeft' \in Nat
        /\ step \in RunSteps /\ step' \in RunSteps
    BY CallCounted, SessionAssumption DEF IndInv, TypeOK, RunSteps
  <1>2. StageLeft = StageRank(step, CallLeft) /\ StageLeft' = StageRank(step', CallLeft')
    BY DEF StageLeft, StageRank
  <1> QED
    BY <1>1, <1>2, StageRead

(* A step of the program leaves less of the test, or begins the next one.  *)
Fewer == begun' = begun /\ StageLeft' < StageLeft
TestBegins == begun' = begun + 1 /\ StageLeft' < PerTest + StageLeft

LEMMA ProgramShrinks == IndInv /\ IndInv' /\ Program => Fewer \/ TestBegins
  <1> SUFFICES ASSUME IndInv, IndInv', Program PROVE Fewer \/ TestBegins
    OBVIOUS
  <1>0. SessionTypeOK /\ SessionTypeOK'
    BY DEF IndInv, TypeOK
  <1>a. /\ StageAt(step, CallLeft, StageLeft) /\ StageAt(step', CallLeft', StageLeft')
        /\ StageLeft \in Nat /\ StageLeft' \in Nat
    BY StageCounted
  <1>b. CallLeft \in Nat
    BY <1>0, CallCounted, SessionAssumption
  <1> USE <1>a, <1>b DEF StageAt, Fewer, TestBegins, recordVars
  <1>1. CASE Validated
    BY <1>1 DEF Validated, Settle, To
  <1>2. CASE Preflighted
    BY <1>2 DEF Preflighted, Settle, To
  <1>3. CASE Prepared
    BY <1>3 DEF Prepared, ToRelease, To
  <1>4. CASE PrepareFails
    BY <1>4 DEF PrepareFails, Settle
  <1>5. CASE NextTest
    BY <1>5 DEF NextTest, ToRelease, To
  <1>6. CASE AllTestsRun
    BY <1>6 DEF AllTestsRun, To
  <1>7. CASE WriterCreated
    BY <1>7 DEF WriterCreated, LogThrows, ToRelease
  <1>8. CASE InputsWritten
    BY <1>8 DEF InputsWritten, AppendLineThenTo, LogThrows, ToRelease, To
  <1>9. CASE ArtifactWriteFails
    BY <1>9 DEF ArtifactWriteFails, ToRelease
  <1>10. CASE StartTest
    <2>1. CASE LogThrows
      BY <1>10, <2>1 DEF StartTest, AppendLineThenTo, ToRelease
    <2>2. CASE ~LogThrows
      <3>1. step = "startTest" /\ step' = "execute" /\ begun' = begun + 1
        BY <1>10, <2>2 DEF StartTest, AppendLineThenTo, To
      <3>2. CallLeft' \in 0 .. 9 + 2 * MaxIterations
        BY CallCounted DEF IndInv, TypeOK
      <3>3. StageLeft = 6 /\ StageLeft' = 11 + CallLeft'
        BY <3>1
      <3>4. MaxIterations \in Nat /\ PerTest = 2 * MaxIterations + 15
        BY SessionAssumption DEF PerTest
      <3>5. StageLeft' < PerTest + StageLeft
        <4>1. 11 + CallLeft' < (2 * MaxIterations + 15) + 6
          BY <3>2, <3>4, CallSums
        <4> QED
          BY <3>3, <3>4, <4>1
      <3> QED
        BY <3>1, <3>5
    <2> QED
      BY <2>1, <2>2
  <1>11. CASE InSession
    <2>1. CallLeft' < CallLeft /\ CallLeft \in Nat /\ CallLeft' \in Nat
      BY <1>0, <1>11, CallShrinks, CallCounted, SessionAssumption
         DEF IndInv, TypeOK, InSession
    <2>2. step = "execute" /\ step' = "execute" /\ begun' = begun
      BY <1>11 DEF InSession, runVars
    <2>3. StageLeft = 11 + CallLeft /\ StageLeft' = 11 + CallLeft'
      BY <2>2
    <2>4. StageLeft' < StageLeft
      <3>1. 11 + CallLeft' < 11 + CallLeft
        BY <2>1, CallSums, SessionAssumption
      <3> QED
        BY <2>3, <3>1
    <2> QED
      BY <2>2, <2>4
  <1>12. CASE TestExecuted
    BY <1>12 DEF TestExecuted, To
  <1>13. CASE TestThrew
    BY <1>13 DEF TestThrew, CatchTestFailure, AppendLineThenTo, LogThrows, ToRelease, To
  <1>14. CASE RecordWritten
    BY <1>14 DEF RecordWritten, To, AppendLineThenTo, LogThrows, ToRelease
  <1>15. CASE RecordWriteFails
    BY <1>15 DEF RecordWriteFails, CatchTestFailure, AppendLineThenTo, LogThrows,
       ToRelease, To
  <1>16. CASE FailureRecordWritten
    BY <1>16 DEF FailureRecordWritten, To
  <1>17. CASE Finalize
    BY <1>17 DEF Finalize, ToRelease, To, Passed
  <1>18. CASE RunJsonWritten
    BY <1>18 DEF RunJsonWritten, To
  <1>19. CASE IndexRebuilt
    BY <1>19 DEF IndexRebuilt, ToRelease
  <1>20. CASE RecordingsCleaned
    BY <1>20 DEF RecordingsCleaned, Settle, To, SinkThrows, LogThrows
  <1>21. CASE ConnectionClosed
    BY <1>21 DEF ConnectionClosed, Settle, SinkThrows, LogThrows
  <1> QED
    BY <1>1, <1>2, <1>3, <1>4, <1>5, <1>6, <1>7, <1>8, <1>9, <1>10, <1>11, <1>12, <1>13,
       <1>14, <1>15, <1>16, <1>17, <1>18, <1>19, <1>20, <1>21 DEF Program

(* What the SIGINTs and the disk do adds nothing to do.                    *)
LEMMA OthersAddNothing ==
  IndInv /\ IndInv' /\ (FirstInterrupt \/ SecondInterrupt \/ DiskChanges \/ UNCHANGED vars)
    => begun' = begun /\ StageLeft' =< StageLeft
  <1> SUFFICES ASSUME IndInv, IndInv', FirstInterrupt \/ SecondInterrupt \/ DiskChanges \/ UNCHANGED vars
               PROVE  begun' = begun /\ StageLeft' =< StageLeft
    OBVIOUS
  <1>1. StageLeft \in Nat /\ (step' = "exited" => StageLeft' = 0)
    BY StageCounted DEF StageAt
  <1>2. begun' = begun /\ (step' = "exited" \/ (UNCHANGED <<step, phase, iteration>>))
    BY DEF FirstInterrupt, SecondInterrupt, DiskChanges, vars, sessionVars, runVars, recordVars
  <1>3. UNCHANGED <<step, phase, iteration>> => StageLeft' = StageLeft
    BY DEF StageLeft, StageRank, CallLeft, IterationsLeft
  <1> QED
    BY <1>1, <1>2, <1>3

(* Tests that have not begun, each at the cost of a whole one              *)
LEMMA TestCosts ==
  ASSUME NEW m \in Nat, NEW i \in 0 .. m, NEW k \in Nat
  PROVE  /\ (m - i) * k \in Nat
         /\ i < m => (m - (i + 1)) * k = (m - i) * k - k
  OBVIOUS

(* Less of the test in progress, or a test fewer, is less of the run.      *)
LEMMA LessInSum ==
  ASSUME NEW before \in Nat, NEW after \in Nat, NEW k \in Nat, NEW s \in Nat, NEW t \in Nat
  PROVE  /\ after = before /\ t < s => after + t < before + s
         /\ after = before /\ t =< s => after + t =< before + s
         /\ after = before - k /\ t < k + s => after + t < before + s
         /\ after + t < before + s => after + t =< before + s
  OBVIOUS

(* Every step of the program is one fewer, and nothing ever adds to them.  *)
LEMMA RunShrinks ==
  IndInv /\ IndInv' /\ [Next]_vars =>
    /\ StepsToGo \in Nat
    /\ Program => StepsToGo' < StepsToGo
    /\ StepsToGo' =< StepsToGo
  <1> SUFFICES ASSUME IndInv, IndInv', [Next]_vars
               PROVE  /\ StepsToGo \in Nat
                      /\ Program => StepsToGo' < StepsToGo
                      /\ StepsToGo' =< StepsToGo
    OBVIOUS
  <1> DEFINE before == (Tests - begun) * PerTest
             after == (Tests - begun') * PerTest
  <1>1. PerTest \in Nat /\ Tests \in Nat /\ begun \in 0 .. Tests /\ begun' \in 0 .. Tests
    BY SessionAssumption, RunAssumption DEF PerTest, IndInv, TypeOK
  <1>2. before \in Nat /\ after \in Nat
    BY <1>1, TestCosts
  <1>3. StageLeft \in Nat /\ StageLeft' \in Nat
    BY StageCounted
  <1>4. StepsToGo = before + StageLeft /\ StepsToGo' = after + StageLeft'
    BY DEF StepsToGo, PerTest
  <1>5. begun' = begun => after = before
    OBVIOUS
  <1>6. begun' = begun + 1 => after = before - PerTest
    BY <1>1, TestCosts
  <1> HIDE DEF before, after
  <1>7. ASSUME Program PROVE StepsToGo' < StepsToGo
    <2>1. CASE Fewer
      <3>1. after = before /\ StageLeft' < StageLeft
        BY <1>5, <2>1 DEF Fewer
      <3>2. after + StageLeft' < before + StageLeft
        BY <1>1, <1>2, <1>3, <3>1, LessInSum
      <3> QED
        BY <1>4, <3>2
    <2>2. CASE TestBegins
      <3>1. after = before - PerTest /\ StageLeft' < PerTest + StageLeft
        BY <1>6, <2>2 DEF TestBegins
      <3>2. after + StageLeft' < before + StageLeft
        BY <1>1, <1>2, <1>3, <3>1, LessInSum
      <3> QED
        BY <1>4, <3>2
    <2> QED
      BY <1>7, <2>1, <2>2, ProgramShrinks
  <1>8. StepsToGo' =< StepsToGo
    <2>1. CASE Program
      <3>1. after + StageLeft' < before + StageLeft
        BY <1>4, <1>7, <2>1
      <3>2. after + StageLeft' =< before + StageLeft
        BY <1>1, <1>2, <1>3, <3>1, LessInSum
      <3> QED
        BY <1>4, <3>2
    <2>2. CASE ~Program
      <3>1. begun' = begun /\ StageLeft' =< StageLeft
        BY <2>2, OthersAddNothing DEF Next
      <3>2. after + StageLeft' =< before + StageLeft
        BY <1>1, <1>2, <1>3, <1>5, <3>1, LessInSum
      <3> QED
        BY <1>4, <3>2
    <2> QED
      BY <2>1, <2>2
  <1>9. StepsToGo \in Nat
    BY <1>2, <1>3, <1>4
  <1> QED
    BY <1>7, <1>8, <1>9

(* No run goes on for ever: whatever tests answer or throw, whatever the   *)
(* disk does and whenever SIGINT comes, runTests and executeTestOnSession  *)
(* come back to no await without a test or an iteration fewer to go, and   *)
(* nothing from outside adds to them.  The half of the run's termination   *)
(* that needs no fairness, and a bound on its awaits:                      *)
(* Tests * (2 * MaxIterations + 15) + 12.                                  *)
THEOREM RunIsFinite ==
  Spec => /\ [](StepsToGo \in Nat)
          /\ [][/\ Program => StepsToGo' < StepsToGo
                /\ StepsToGo' =< StepsToGo]_vars
  <1>1. IndInv => StepsToGo \in Nat
    <2> SUFFICES ASSUME IndInv PROVE StepsToGo \in Nat
      OBVIOUS
    <2>1. PerTest \in Nat /\ Tests \in Nat /\ begun \in 0 .. Tests /\ StageLeft \in Nat
      BY SessionAssumption, RunAssumption, CallCounted, StageRead
         DEF PerTest, IndInv, TypeOK, StageLeft
    <2>2. (Tests - begun) * PerTest \in Nat
      BY <2>1, TestCosts
    <2> QED
      BY <2>1, <2>2 DEF StepsToGo
  <1>2. IndInv /\ IndInv' /\ [Next]_vars =>
          [(Program => StepsToGo' < StepsToGo) /\ StepsToGo' =< StepsToGo]_vars
    BY RunShrinks
  <1> QED
    BY Inductive, <1>1, <1>2, PTL DEF Spec
=============================================================================
