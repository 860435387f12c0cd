----------------------------- MODULE Recording ------------------------------
(***************************************************************************)
(* RecordingManager with its providers: scrcpy for Android, simctl's       *)
(* recordVideo for iOS.  A recorder may die at any time, also before it is *)
(* registered and after it was told to stop.                               *)
(***************************************************************************)
EXTENDS CaptureCall

VARIABLES
  recordingProcess,  \* keys of _recordingProcessMap
  recordingInfo,     \* keys of _recordingInfoMap
  recordingKeys,     \* the device's entry in _deviceToRecordingKeysMap
  stoppedTests,      \* _stoppedTestCases
  recorder,          \* the recorder last spawned for each test
  video              \* the test's recording file

recordingMaps == <<recordingProcess, recordingInfo, recordingKeys, stoppedTests>>
recordingVars == <<recordingMaps, recorder, video>>

RecordingTypeOK ==
  /\ recordingProcess \in SUBSET Tests
  /\ recordingInfo \in SUBSET Tests
  /\ recordingKeys \in SUBSET Tests
  /\ stoppedTests \in SUBSET Tests
  /\ recorder \in [Tests -> ProcessStates]
  /\ video \in [Tests -> {"none", "empty", "written"}]

RecordingInit ==
  /\ recordingProcess = {}
  /\ recordingInfo = {}
  /\ recordingKeys = {}
  /\ stoppedTests = {}
  /\ recorder = [t \in Tests |-> "none"]
  /\ video = [t \in Tests |-> "none"]

At(place) == call.at = place
T == call.test

-----------------------------------------------------------------------------
(* Mutant: a recording in progress does not refuse a second start. *)
StartRecordingAgain(t) ==
  /\ Idle
  /\ stoppedTests' = stoppedTests \ {t}
  /\ Enter("start", "recordingDir", t, {}, TRUE)
  /\ UNCHANGED <<hostVars, recordingProcess, recordingInfo, recordingKeys, recorder, video>>

StartRecording(t) ==
  /\ Idle
  /\ stoppedTests' = stoppedTests \ {t}
  /\ IF t \in recordingProcess
     THEN Return("failed")
     ELSE Enter("start", "recordingDir", t, {}, TRUE)
  /\ UNCHANGED <<hostVars, recordingProcess, recordingInfo, recordingKeys, recorder, video>>

(* Mutant: the recording is not listed for its device. *)
RecordingDirMadeUnlisted ==
  /\ At("recordingDir")
  /\ recordingInfo' = recordingInfo \cup {T}
  /\ GoTo("recorderLaunch")
  /\ UNCHANGED <<hostVars, recordingProcess, recordingKeys, stoppedTests, recorder, video>>

RecordingDirMade ==
  /\ At("recordingDir")
  /\ recordingInfo' = recordingInfo \cup {T}
  /\ recordingKeys' = recordingKeys \cup {T}
  /\ GoTo("recorderLaunch")
  /\ UNCHANGED <<hostVars, recordingProcess, stoppedTests, recorder, video>>

RecordingDirFails ==
  /\ At("recordingDir")
  /\ Return("threw")
  /\ UNCHANGED <<hostVars, recordingVars>>

(* The registration is rolled back where the failure is observed. *)
RollBack ==
  /\ recordingInfo' = recordingInfo \ {T}
  /\ recordingKeys' = recordingKeys \ {T}
  /\ Return(Logged("failed"))
  /\ UNCHANGED <<recordingProcess, stoppedTests>>

RecorderMissing ==
  /\ At("recorderLaunch")
  /\ RollBack
  /\ UNCHANGED <<hostVars, recorder, video>>

Registered ==
  /\ recordingProcess' = recordingProcess \cup {T}
  /\ Return("ok")
  /\ UNCHANGED <<recordingInfo, recordingKeys, stoppedTests>>

(* simctl is registered as soon as it has a pid, scrcpy only when it has   *)
(* outlived its settle time.  A line is logged before either is spawned.   *)
RecorderSpawned ==
  /\ At("recorderLaunch")
  /\ ~LogThrows
  /\ recorder' = [recorder EXCEPT ![T] = "alive"]
  /\ video' = [video EXCEPT ![T] = "empty"]
  /\ IF platform = "ios" THEN Registered
     ELSE GoTo("recorderSettle") /\ UNCHANGED recordingMaps
  /\ UNCHANGED hostVars

RecorderSettled ==
  /\ At("recorderSettle")
  /\ ~Dead(recorder[T])
  /\ Registered
  /\ UNCHANGED <<hostVars, recorder, video>>

RecorderDiedEarly ==
  /\ At("recorderSettle")
  /\ Dead(recorder[T])
  /\ RollBack
  /\ UNCHANGED <<hostVars, recorder, video>>

(* The recorder ends, of itself, by its stop or by a signal from outside   *)
(* (a terminal's SIGINT goes to the whole process group).                  *)
RecorderExits ==
  \E t \in Tests, how \in {"exited", "killed"}, file \in {"none", "empty", "written"} :
    /\ recorder[t] \in {"alive", "signalled"}
    /\ recorder' = [recorder EXCEPT ![t] = how]
    /\ video' = [video EXCEPT ![t] = file]
    /\ UNCHANGED <<hostVars, call, answer, recordingMaps>>

-----------------------------------------------------------------------------
(* stopRecording, and the two loops over it: abortRecording takes what     *)
(* _recordingInfoMap has of the run, cleanupDevice what the device lists.  *)
StopRecording(t, keep) ==
  /\ Idle
  /\ Enter("stop", "recordingSweep", t, {t}, keep)
  /\ UNCHANGED <<hostVars, recordingVars>>

AbortRecording(keep) ==
  /\ Idle
  /\ Enter("abort", "recordingSweep", NoTest, recordingInfo, keep)
  /\ UNCHANGED <<hostVars, recordingVars>>

CleanUpRecordings ==
  /\ Idle
  /\ Enter("close", "recordingSweep", NoTest, recordingKeys, FALSE)
  /\ UNCHANGED <<hostVars, recordingVars>>

Answer(how) == StopAnswers("recordingSweep", how)

(* The next stop up to its first await.  The provider logs as soon as it   *)
(* has signalled the recorder; when that throws so does its `catch'.       *)
SignalIf(signals) ==
  /\ At("recordingSweep")
  /\ \E t \in call.queue :
       LET next == [call EXCEPT !.test = t, !.queue = @ \ {t}] IN
       IF t \in stoppedTests \/ t \notin recordingProcess
       THEN /\ call' = next
            /\ answer' = IF t \in stoppedTests THEN "ok" ELSE "failed"
            /\ recorder' = recorder
       ELSE /\ recorder' = [recorder EXCEPT ![t] = IF @ = "alive" /\ signals THEN "signalled" ELSE @]
            /\ IF LogThrows THEN Return("threw")
               ELSE /\ call' = [next EXCEPT !.at = IF Dead(recorder[t]) THEN "recorderGone" ELSE "recorderExit"]
                    /\ answer' = answer
  /\ UNCHANGED <<hostVars, recordingMaps, video>>

(* Mutant: a recorder whose output nobody keeps is not signalled. *)
RecorderStopsKept == SignalIf(call.keep)
RecorderStops == SignalIf(TRUE)

(* _waitForExit is over. *)
RecorderAwaited ==
  /\ At("recorderExit")
  /\ Dead(recorder[T])
  /\ IF LogThrows THEN Return("threw")
     ELSE GoTo(IF platform = "android" THEN "videoCheck" ELSE "compress")
  /\ UNCHANGED <<hostVars, recordingVars>>

Finalize ==
  /\ recordingProcess' = recordingProcess \ {T}
  /\ recordingInfo' = recordingInfo \ {T}
  /\ recordingKeys' = recordingKeys \ {T}
  /\ stoppedTests' = stoppedTests \cup {T}

StopSucceeds ==
  /\ Finalize
  /\ IF call.keep THEN Answer("ok") ELSE GoTo("discard")

(* Android: a recording that is not there, or empty, is a failed stop.     *)
VideoChecked ==
  /\ At("videoCheck")
  /\ \/ video[T] = "written" /\ StopSucceeds
     \/ video[T] = "empty" /\ GoTo("recorderGone") /\ UNCHANGED recordingMaps
     \/ video[T] = "none" /\ UNCHANGED recordingMaps
        /\ IF LogThrows THEN Return("threw") ELSE GoTo("recorderGone")
  /\ UNCHANGED <<hostVars, recorder, video>>

(* iOS: the compressed copy replaces the recording at once or not at all,  *)
(* and a compression that fails is worth a warning.                        *)
Compressed ==
  /\ At("compress")
  /\ IF LogThrows THEN Return("threw") /\ UNCHANGED recordingMaps ELSE StopSucceeds
  /\ UNCHANGED <<hostVars, recorder, video>>

(* A failed stop is final only when its output is to be kept and is there. *)
StopFailed ==
  /\ At("recorderGone")
  /\ Answer("failed")
  /\ IF call.keep /\ recorder[T] = "exited" /\ video[T] # "none"
     THEN Finalize
     ELSE UNCHANGED recordingMaps
  /\ UNCHANGED <<hostVars, recorder, video>>

Discarded ==
  /\ At("discard")
  /\ \/ video' = [video EXCEPT ![T] = "none"] /\ Answer("ok")
     \/ video' = video /\ IF LogThrows THEN Return("threw") ELSE Answer("ok")
  /\ UNCHANGED <<hostVars, recordingMaps, recorder>>

(* The loop is over.  cleanupDevice forgets what it swept, and its last    *)
(* act is a log line; closeConnection goes on to the logs.                 *)
RecordingSwept ==
  /\ At("recordingSweep")
  /\ call.queue = {}
  /\ IF call.op = "close"
     THEN /\ recordingKeys' = {}
          /\ stoppedTests' = stoppedTests \ call.all
          /\ IF LogThrows THEN Return("threw") ELSE GoTo("logCleanUp")
     ELSE /\ Return(IF call.op = "stop" THEN answer ELSE "ok")
          /\ UNCHANGED <<recordingKeys, stoppedTests>>
  /\ UNCHANGED <<hostVars, recordingProcess, recordingInfo, recorder, video>>

RecordingStep ==
  \/ RecordingDirMade \/ RecordingDirFails \/ RecorderMissing
  \/ RecorderSpawned \/ RecorderSettled \/ RecorderDiedEarly
  \/ RecorderStops \/ RecorderAwaited \/ VideoChecked \/ Compressed
  \/ StopFailed \/ Discarded \/ RecordingSwept
=============================================================================
