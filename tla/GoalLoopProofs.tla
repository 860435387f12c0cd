--------------------------- MODULE GoalLoopProofs ---------------------------
(***************************************************************************)
(* The goal loop's theorems, for any number of iterations and of repeats.  *)
(*                                                                         *)
(* None of the invariants is inductive alone.  The types need to know that *)
(* an iteration is in progress wherever a step is recorded, and that a     *)
(* second capture failure in a row never gets back to the loop's head      *)
(* (PhaseInv).  That every iteration leaves one step needs to know at each *)
(* await whether the step in progress has been recorded (StepsInv), and    *)
(* what the report says of capture failures needs the code's counter tied  *)
(* to the recorded steps (RowInv).  That the history tells what happened   *)
(* needs to know of the one step that it may lack (HistoryInv).            *)
(* That no goal goes on for ever is a count that every step lowers         *)
(* (StepsToGo).                                                            *)
(***************************************************************************)
EXTENDS GoalLoop, TLAPS

(* The awaits of an iteration before and after its step is recorded *)
Unrecorded == {"capture", "plan", "act", "ground", "visual", "device", "postCapture"}
Recorded == {"captureFailed", "plannerFailed", "finish", "terminal", "stepDone"}

StepRecords ==
  [iteration : 1 .. MaxIterations,
   kind : {"capture", "planner", "action", "verdict"}, success : BOOLEAN]
HistoryLines == [iteration : 1 .. MaxIterations, success : BOOLEAN]

PhaseInv ==
  /\ pc \in Unrecorded \cup Recorded => iteration >= 1
  /\ pc \in Unrecorded \cup {"head"} => transients < MAX_CONSECUTIVE_TRANSIENT_CAPTURE_FAILURES
  /\ pc \in Recorded \ {"captureFailed"} => transients < MAX_CONSECUTIVE_TRANSIENT_CAPTURE_FAILURES
  /\ pc = "device" => todo >= 1

TypeInv == TypeOK /\ PhaseInv

(* One more step, of the iteration in progress *)
StepAdded(kind) ==
  /\ steps' \in Seq(StepRecords)
  /\ Len(steps') = Len(steps) + 1
  /\ \A i \in 1 .. Len(steps) : steps'[i] = steps[i]
  /\ steps'[Len(steps')].iteration = iteration
  /\ steps'[Len(steps')].kind = kind

(* What _steps.push does to the steps, wherever a phase records its own    *)
LEMMA Pushed ==
  ASSUME TypeOK, iteration >= 1,
         NEW kind \in {"capture", "planner", "action", "verdict"}, NEW success \in BOOLEAN,
         Push(kind, success)
  PROVE  StepAdded(kind)
  <1> DEFINE new == [iteration |-> iteration, kind |-> kind, success |-> success]
  <1>1. new \in StepRecords
    BY DEF TypeOK, StepRecords
  <1>2. steps \in Seq(StepRecords) /\ steps' = Append(steps, new)
    BY DEF TypeOK, StepRecords, Push
  <1>3. new.iteration = iteration /\ new.kind = kind
    OBVIOUS
  <1> HIDE DEF new
  <1> QED
    BY <1>1, <1>2, <1>3 DEF StepAdded

-----------------------------------------------------------------------------
(* A goal begins in the type invariant, before its first iteration. *)
LEMMA InitTypeInv == Init => TypeInv
  <1> SUFFICES ASSUME Init PROVE TypeInv
    OBVIOUS
  <1> USE GoalAssumption DEF Init, MAX_CONSECUTIVE_TRANSIENT_CAPTURE_FAILURES, MAX_LLM_ATTEMPTS
  <1>1. PhaseInv
    BY DEF PhaseInv, Unrecorded, Recorded
  <1>2. iteration \in 0 .. MaxIterations /\ repeat \in 1 .. MaxRepeat /\ seen \in 0 .. performed
    OBVIOUS
  <1>3. steps \in Seq(StepRecords) /\ history \in Seq(HistoryLines)
    OBVIOUS
  <1>4. result.status = "none"
    BY DEF NoResult
  <1>5. /\ attempt \in 0 .. MAX_LLM_ATTEMPTS - 1
        /\ transients \in 0 .. MAX_CONSECUTIVE_TRANSIENT_CAPTURE_FAILURES
    OBVIOUS
  <1>6. pc \in Stages /\ outcome \in Outcomes /\ todo \in Nat /\ delivered \in Nat /\ performed \in Nat
    BY DEF Stages, Outcomes
  <1> QED
    BY <1>1, <1>2, <1>3, <1>4, <1>5, <1>6 DEF TypeInv, TypeOK, StepRecords, HistoryLines

(* Types and phases are kept by every step. *)
LEMMA TypeStep == TypeInv /\ [Next]_vars => TypeInv'
  <1> SUFFICES ASSUME TypeInv, [Next]_vars PROVE TypeInv'
    OBVIOUS
  <1> USE GoalAssumption DEF TypeInv, TypeOK, PhaseInv, Unrecorded, Recorded, Stages, Outcomes,
          Actions, Verdicts, Grounding, Pointing, StepRecords,
          MAX_CONSECUTIVE_TRANSIENT_CAPTURE_FAILURES, MAX_LLM_ATTEMPTS, actionVars, recordVars
  <1>1. CASE BeginIteration
    BY <1>1 DEF BeginIteration
  <1>2. CASE EndAborted
    BY <1>2 DEF EndAborted, End
  <1>3. CASE EndExhausted
    BY <1>3 DEF EndExhausted, End
  <1>4. CASE Captured
    BY <1>4 DEF Captured
  <1>5. ASSUME NEW kind \in {"transient", "fatal"}, CaptureFails(kind) PROVE TypeInv'
    <2>1. Push("capture", FALSE)
      BY <1>5 DEF CaptureFails
    <2>2. StepAdded("capture")
      BY <1>5, <2>1, Pushed DEF CaptureFails
    <2> QED
      BY <1>5, <2>2 DEF CaptureFails, StepAdded
  <1>6. CASE CaptureFailureReported
    BY <1>6 DEF CaptureFailureReported, End, ContinueLoop
  <1>7. CASE PlanAnswers
    BY <1>7 DEF PlanAnswers
  <1>8. CASE PlanConcludes
    <2>1. Push("verdict", verb' = "completed")
      BY <1>8 DEF PlanConcludes
    <2>2. StepAdded("verdict")
      BY <1>8, <2>1, Pushed DEF PlanConcludes
    <2> QED
      BY <1>8, <2>2 DEF PlanConcludes, StepAdded
  <1>9. CASE PlanRejected
    <2>1. Push("planner", FALSE)
      BY <1>9 DEF PlanRejected
    <2>2. StepAdded("planner")
      BY <1>9, <2>1, Pushed DEF PlanRejected
    <2> QED
      BY <1>9, <2>2 DEF PlanRejected, StepAdded
  <1>10. CASE PlanRefused
    <2>1. Push("planner", FALSE)
      BY <1>10 DEF PlanRefused
    <2>2. StepAdded("planner")
      BY <1>10, <2>1, Pushed DEF PlanRefused
    <2> QED
      BY <1>10, <2>2 DEF PlanRefused, StepAdded
  <1>11. CASE PlannerFailureReported
    BY <1>11 DEF PlannerFailureReported, End, ContinueLoop
  <1>12. CASE VerdictReported
    BY <1>12 DEF VerdictReported, End
  <1>13. CASE ActWithoutDevice
    BY <1>13 DEF ActWithoutDevice, ActionOver
  <1>14. CASE ActDirectly
    BY <1>14 DEF ActDirectly
  <1>15. CASE AskGrounder
    BY <1>15 DEF AskGrounder
  <1>16. CASE Grounded
    BY <1>16 DEF Grounded
  <1>17. CASE GroundUnusable
    BY <1>17 DEF GroundUnusable, ActionOver
  <1>18. CASE GroundRejected
    BY <1>18 DEF GroundRejected, ActionOver
  <1>19. CASE GroundRefused
    <2>1. Push("action", FALSE)
      BY <1>19 DEF GroundRefused, ActionOver
    <2>2. StepAdded("action")
      BY <1>19, <2>1, Pushed DEF GroundRefused
    <2> QED
      BY <1>19, <2>2 DEF GroundRefused, ActionOver, StepAdded
  <1>20. CASE AskVisualGrounder
    BY <1>20 DEF AskVisualGrounder
  <1>21. CASE VisuallyGrounded
    BY <1>21 DEF VisuallyGrounded
  <1>22. CASE VisualGroundingFails
    BY <1>22 DEF VisualGroundingFails, ActionOver
  <1>23. CASE DeviceActs
    BY <1>23 DEF DeviceActs, ActionOver
  <1>24. CASE DeviceFails
    BY <1>24 DEF DeviceFails, ActionOver
  <1>25. CASE TerminalFailureReported
    BY <1>25 DEF TerminalFailureReported, End
  <1>26. CASE StepRecorded
    <2>1. Push("action", outcome = "success")
      BY <1>26 DEF StepRecorded
    <2>2. StepAdded("action")
      BY <1>26, <2>1, Pushed DEF StepRecorded
    <2> QED
      BY <1>26, <2>2 DEF StepRecorded, StepAdded
  <1>27. CASE StepReported
    BY <1>27 DEF StepReported, ContinueLoop
  <1>28. CASE Throws
    BY <1>28 DEF Throws
  <1>29. CASE AttemptFails
    BY <1>29 DEF AttemptFails
  <1>30. CASE Abort
    BY <1>30 DEF Abort
  <1>31. CASE UNCHANGED vars
    BY <1>31 DEF vars, actionVars, recordVars
  <1> QED
    BY <1>1, <1>2, <1>3, <1>4, <1>5, <1>6, <1>7, <1>8, <1>9, <1>10, <1>11, <1>12, <1>13, <1>14,
       <1>15, <1>16, <1>17, <1>18, <1>19, <1>20, <1>21, <1>22, <1>23, <1>24, <1>25, <1>26,
       <1>27, <1>28, <1>29, <1>30, <1>31
       DEF Next, Step

(* The types, for any limits: iterations, LLM attempts and tolerated cap-  *)
(* ture failures stay within the code's own bounds.                        *)
THEOREM TypeCorrect == Spec => []TypeOK
  <1>1. TypeInv => TypeOK
    BY DEF TypeInv
  <1> QED
    BY InitTypeInv, TypeStep, <1>1, PTL DEF Spec

-----------------------------------------------------------------------------
(* At each await, how many steps the goal has recorded. *)
StepsInv ==
  /\ \A i \in 1 .. Len(steps) : steps[i].iteration = i
  /\ pc \in Recorded \cup {"head"} => Len(steps) = iteration
  /\ pc \in Unrecorded => Len(steps) = iteration - 1
  /\ pc = "ended" => Len(steps) = result.total

StepCounted ==
  /\ Len(steps') = iteration
  /\ \A i \in 1 .. Len(steps') : steps'[i].iteration = i

(* A step that is recorded where none was so far is the iteration's own.   *)
LEMMA PushedCount ==
  ASSUME TypeOK, StepsInv, iteration >= 1, Len(steps) = iteration - 1,
         NEW kind \in {"capture", "planner", "action", "verdict"}, NEW success \in BOOLEAN,
         Push(kind, success)
  PROVE  StepCounted
  <1>1. StepAdded(kind)
    BY Pushed
  <1>2. Len(steps') = iteration /\ Len(steps) \in Nat /\ iteration \in Nat
    BY <1>1 DEF StepAdded, TypeOK
  <1>3. ASSUME NEW i \in 1 .. Len(steps') PROVE steps'[i].iteration = i
    <2>1. CASE i = Len(steps')
      BY <1>1, <1>2, <2>1 DEF StepAdded
    <2>2. CASE i # Len(steps')
      BY <1>1, <1>2, <2>2 DEF StepAdded, StepsInv
    <2> QED
      BY <2>1, <2>2
  <1> QED
    BY <1>2, <1>3 DEF StepCounted

(* Steps are counted as they are recorded. *)
LEMMA StepsStep == TypeInv /\ StepsInv /\ [Next]_vars => StepsInv'
  <1> SUFFICES ASSUME TypeInv /\ StepsInv, [Next]_vars PROVE StepsInv'
    OBVIOUS
  <1> USE DEF TypeInv, TypeOK, PhaseInv, StepsInv, Unrecorded, Recorded, actionVars, recordVars
  <1>1. CASE BeginIteration
    BY <1>1 DEF BeginIteration
  <1>2. CASE EndAborted
    BY <1>2 DEF EndAborted, End
  <1>3. CASE EndExhausted
    BY <1>3 DEF EndExhausted, End
  <1>4. CASE Captured
    BY <1>4 DEF Captured
  <1>5. ASSUME NEW kind \in {"transient", "fatal"}, CaptureFails(kind) PROVE StepsInv'
    <2>1. Push("capture", FALSE)
      BY <1>5 DEF CaptureFails
    <2>2. StepCounted
      BY <1>5, <2>1, PushedCount DEF CaptureFails
    <2> QED
      BY <1>5, <2>2 DEF CaptureFails, StepCounted
  <1>6. CASE CaptureFailureReported
    BY <1>6 DEF CaptureFailureReported, End, ContinueLoop
  <1>7. CASE PlanAnswers
    BY <1>7 DEF PlanAnswers
  <1>8. CASE PlanConcludes
    <2>1. Push("verdict", verb' = "completed")
      BY <1>8 DEF PlanConcludes
    <2>2. StepCounted
      BY <1>8, <2>1, PushedCount DEF PlanConcludes
    <2> QED
      BY <1>8, <2>2 DEF PlanConcludes, StepCounted
  <1>9. CASE PlanRejected
    <2>1. Push("planner", FALSE)
      BY <1>9 DEF PlanRejected
    <2>2. StepCounted
      BY <1>9, <2>1, PushedCount DEF PlanRejected
    <2> QED
      BY <1>9, <2>2 DEF PlanRejected, StepCounted
  <1>10. CASE PlanRefused
    <2>1. Push("planner", FALSE)
      BY <1>10 DEF PlanRefused
    <2>2. StepCounted
      BY <1>10, <2>1, PushedCount DEF PlanRefused
    <2> QED
      BY <1>10, <2>2 DEF PlanRefused, StepCounted
  <1>11. CASE PlannerFailureReported
    BY <1>11 DEF PlannerFailureReported, End, ContinueLoop
  <1>12. CASE VerdictReported
    BY <1>12 DEF VerdictReported, End
  <1>13. CASE ActWithoutDevice
    BY <1>13 DEF ActWithoutDevice, ActionOver
  <1>14. CASE ActDirectly
    BY <1>14 DEF ActDirectly
  <1>15. CASE AskGrounder
    BY <1>15 DEF AskGrounder
  <1>16. CASE Grounded
    BY <1>16 DEF Grounded
  <1>17. CASE GroundUnusable
    BY <1>17 DEF GroundUnusable, ActionOver
  <1>18. CASE GroundRejected
    BY <1>18 DEF GroundRejected, ActionOver
  <1>19. CASE GroundRefused
    <2>1. Push("action", FALSE)
      BY <1>19 DEF GroundRefused, ActionOver
    <2>2. StepCounted
      BY <1>19, <2>1, PushedCount DEF GroundRefused
    <2> QED
      BY <1>19, <2>2 DEF GroundRefused, ActionOver, StepCounted
  <1>20. CASE AskVisualGrounder
    BY <1>20 DEF AskVisualGrounder
  <1>21. CASE VisuallyGrounded
    BY <1>21 DEF VisuallyGrounded
  <1>22. CASE VisualGroundingFails
    BY <1>22 DEF VisualGroundingFails, ActionOver
  <1>23. CASE DeviceActs
    BY <1>23 DEF DeviceActs, ActionOver
  <1>24. CASE DeviceFails
    BY <1>24 DEF DeviceFails, ActionOver
  <1>25. CASE TerminalFailureReported
    BY <1>25 DEF TerminalFailureReported, End
  <1>26. CASE StepRecorded
    <2>1. Push("action", outcome = "success")
      BY <1>26 DEF StepRecorded
    <2>2. StepCounted
      BY <1>26, <2>1, PushedCount DEF StepRecorded
    <2> QED
      BY <1>26, <2>2 DEF StepRecorded, StepCounted
  <1>27. CASE StepReported
    BY <1>27 DEF StepReported, ContinueLoop
  <1>28. CASE Throws
    BY <1>28 DEF Throws
  <1>29. CASE AttemptFails
    BY <1>29 DEF AttemptFails
  <1>30. CASE Abort
    BY <1>30 DEF Abort
  <1>31. CASE UNCHANGED vars
    BY <1>31 DEF vars, actionVars, recordVars
  <1> QED
    BY <1>1, <1>2, <1>3, <1>4, <1>5, <1>6, <1>7, <1>8, <1>9, <1>10, <1>11, <1>12, <1>13, <1>14,
       <1>15, <1>16, <1>17, <1>18, <1>19, <1>20, <1>21, <1>22, <1>23, <1>24, <1>25, <1>26,
       <1>27, <1>28, <1>29, <1>30, <1>31
       DEF Next, Step

(* Every iteration leaves exactly one step, in order, and the result       *)
(* counts them, whatever the limits and the order of failures.             *)
THEOREM StepsComplete == Spec => []OneStepPerIteration
  <1>1. Init => StepsInv
    BY DEF Init, StepsInv, Unrecorded, Recorded
  <1>2. TypeInv /\ StepsInv => OneStepPerIteration
    BY DEF TypeInv, TypeOK, StepsInv, OneStepPerIteration, Recorded
  <1> QED
    BY InitTypeInv, TypeStep, StepsStep, <1>1, <1>2, PTL DEF Spec

-----------------------------------------------------------------------------
(* The last step recorded is a failed capture. *)
LastIsCapture == steps # <<>> /\ steps[Len(steps)].kind = "capture"

(* The code's counter is what the recorded steps say of the captures. *)
RowInv ==
  /\ pc \in {"head", "capture"} => CaptureFailuresInRow = {} /\ (transients = 1 <=> LastIsCapture)
  /\ pc = "captureFailed" =>
       /\ LastIsCapture
       /\ \/ transients = 1 /\ CaptureFailuresInRow = {}
          \/ transients = 2 /\ CaptureFailuresInRow = {iteration - 1}
  /\ pc \in Unrecorded \ {"capture"} => CaptureFailuresInRow = {} /\ transients = 0
  /\ pc \in Recorded \ {"captureFailed"} =>
       CaptureFailuresInRow = {} /\ transients = 0 /\ ~LastIsCapture
  /\ pc # "ended" => result.why = "none"
  /\ result.why = "repeatedCapture" => CaptureFailuresInRow = {iteration - 1}

(* Recording a step makes a pair of failed captures only of its own and    *)
(* the one before it.                                                      *)
RowAdded(kind) ==
  /\ LastIsCapture' <=> kind = "capture"
  /\ CaptureFailuresInRow' = IF LastIsCapture /\ kind = "capture" THEN {Len(steps)} ELSE {}

(* After a step that was not a capture failure, pushing one begins a row of one. *)
LEMMA PushedInRow ==
  ASSUME TypeOK, iteration >= 1, CaptureFailuresInRow = {},
         NEW kind \in {"capture", "planner", "action", "verdict"}, NEW success \in BOOLEAN,
         Push(kind, success)
  PROVE  RowAdded(kind)
  <1> USE DEF CaptureFailuresInRow, LastIsCapture, RowAdded
  <1>0. StepAdded(kind)
    BY Pushed
  <1>1. /\ steps \in Seq(StepRecords) /\ steps' \in Seq(StepRecords)
        /\ Len(steps) \in Nat /\ Len(steps') = Len(steps) + 1
        /\ \A i \in 1 .. Len(steps) : steps'[i] = steps[i]
        /\ steps'[Len(steps')].kind = kind
    BY <1>0 DEF StepAdded, TypeOK, StepRecords
  <1>2. DOMAIN steps = 1 .. Len(steps) /\ DOMAIN steps' = 1 .. Len(steps')
    BY <1>1
  <1>3. LastIsCapture' <=> kind = "capture"
    BY <1>1
  <1>4. ASSUME NEW i PROVE i \in CaptureFailuresInRow' <=> i = Len(steps) /\ LastIsCapture /\ kind = "capture"
    BY <1>1, <1>2
  <1> QED
    BY <1>3, <1>4

(* What pushes no step leaves the row as it was. *)
LEMMA RowKept ==
  steps' = steps => LastIsCapture' = LastIsCapture /\ CaptureFailuresInRow' = CaptureFailuresInRow
  BY DEF LastIsCapture, CaptureFailuresInRow

(* The counter stays tied to the steps. *)
LEMMA RowStep == TypeInv /\ StepsInv /\ RowInv /\ [Next]_vars => RowInv'
  <1> SUFFICES ASSUME TypeInv /\ StepsInv /\ RowInv, [Next]_vars PROVE RowInv'
    OBVIOUS
  <1> USE DEF TypeInv, TypeOK, PhaseInv, StepsInv, RowInv, Unrecorded, Recorded,
          MAX_CONSECUTIVE_TRANSIENT_CAPTURE_FAILURES, actionVars, recordVars
  <1>1. CASE BeginIteration
    BY <1>1, RowKept DEF BeginIteration
  <1>2. CASE EndAborted
    BY <1>2, RowKept DEF EndAborted, End
  <1>3. CASE EndExhausted
    BY <1>3, RowKept DEF EndExhausted, End
  <1>4. CASE Captured
    BY <1>4, RowKept DEF Captured
  <1>5. ASSUME NEW kind \in {"transient", "fatal"}, CaptureFails(kind) PROVE RowInv'
    <2>1. Push("capture", FALSE)
      BY <1>5 DEF CaptureFails
    <2>2. RowAdded("capture")
      BY <1>5, <2>1, PushedInRow DEF CaptureFails
    <2>3. /\ transients \in {0, 1} /\ transients' = transients + 1
          /\ pc' = "captureFailed" /\ result' = result /\ iteration' = iteration /\ result.why = "none"
          /\ transients = 1 <=> LastIsCapture
          /\ Len(steps) = iteration - 1
      BY <1>5 DEF CaptureFails
    <2>4. CASE transients = 0
      BY <2>2, <2>3, <2>4 DEF RowAdded
    <2>5. CASE transients = 1
      BY <2>2, <2>3, <2>5 DEF RowAdded
    <2> QED
      BY <2>3, <2>4, <2>5
  <1>6. CASE CaptureFailureReported
    BY <1>6, RowKept DEF CaptureFailureReported, End, ContinueLoop
  <1>7. CASE PlanAnswers
    BY <1>7, RowKept DEF PlanAnswers
  <1>8. CASE PlanConcludes
    <2>1. Push("verdict", verb' = "completed")
      BY <1>8 DEF PlanConcludes
    <2>2. RowAdded("verdict")
      BY <1>8, <2>1, PushedInRow DEF PlanConcludes
    <2> QED
      BY <1>8, <2>2 DEF PlanConcludes, RowAdded
  <1>9. CASE PlanRejected
    <2>1. Push("planner", FALSE)
      BY <1>9 DEF PlanRejected
    <2>2. RowAdded("planner")
      BY <1>9, <2>1, PushedInRow DEF PlanRejected
    <2> QED
      BY <1>9, <2>2 DEF PlanRejected, RowAdded
  <1>10. CASE PlanRefused
    <2>1. Push("planner", FALSE)
      BY <1>10 DEF PlanRefused
    <2>2. RowAdded("planner")
      BY <1>10, <2>1, PushedInRow DEF PlanRefused
    <2> QED
      BY <1>10, <2>2 DEF PlanRefused, RowAdded
  <1>11. CASE PlannerFailureReported
    BY <1>11, RowKept DEF PlannerFailureReported, End, ContinueLoop
  <1>12. CASE VerdictReported
    BY <1>12, RowKept DEF VerdictReported, End
  <1>13. CASE ActWithoutDevice
    BY <1>13, RowKept DEF ActWithoutDevice, ActionOver
  <1>14. CASE ActDirectly
    BY <1>14, RowKept DEF ActDirectly
  <1>15. CASE AskGrounder
    BY <1>15, RowKept DEF AskGrounder
  <1>16. CASE Grounded
    BY <1>16, RowKept DEF Grounded
  <1>17. CASE GroundUnusable
    BY <1>17, RowKept DEF GroundUnusable, ActionOver
  <1>18. CASE GroundRejected
    BY <1>18, RowKept DEF GroundRejected, ActionOver
  <1>19. CASE GroundRefused
    <2>1. Push("action", FALSE)
      BY <1>19 DEF GroundRefused, ActionOver
    <2>2. RowAdded("action")
      BY <1>19, <2>1, PushedInRow DEF GroundRefused
    <2> QED
      BY <1>19, <2>2 DEF GroundRefused, ActionOver, RowAdded
  <1>20. CASE AskVisualGrounder
    BY <1>20, RowKept DEF AskVisualGrounder
  <1>21. CASE VisuallyGrounded
    BY <1>21, RowKept DEF VisuallyGrounded
  <1>22. CASE VisualGroundingFails
    BY <1>22, RowKept DEF VisualGroundingFails, ActionOver
  <1>23. CASE DeviceActs
    BY <1>23, RowKept DEF DeviceActs, ActionOver
  <1>24. CASE DeviceFails
    BY <1>24, RowKept DEF DeviceFails, ActionOver
  <1>25. CASE TerminalFailureReported
    BY <1>25, RowKept DEF TerminalFailureReported, End
  <1>26. CASE StepRecorded
    <2>1. Push("action", outcome = "success")
      BY <1>26 DEF StepRecorded
    <2>2. RowAdded("action")
      BY <1>26, <2>1, PushedInRow DEF StepRecorded
    <2> QED
      BY <1>26, <2>2 DEF StepRecorded, RowAdded
  <1>27. CASE StepReported
    BY <1>27, RowKept DEF StepReported, ContinueLoop
  <1>28. CASE Throws
    BY <1>28, RowKept DEF Throws
  <1>29. CASE AttemptFails
    BY <1>29, RowKept DEF AttemptFails
  <1>30. CASE Abort
    BY <1>30, RowKept DEF Abort
  <1>31. CASE UNCHANGED vars
    BY <1>31, RowKept DEF vars, actionVars, recordVars
  <1> QED
    BY <1>1, <1>2, <1>3, <1>4, <1>5, <1>6, <1>7, <1>8, <1>9, <1>10, <1>11, <1>12, <1>13, <1>14,
       <1>15, <1>16, <1>17, <1>18, <1>19, <1>20, <1>21, <1>22, <1>23, <1>24, <1>25, <1>26,
       <1>27, <1>28, <1>29, <1>30, <1>31
       DEF Next, Step

(* Two failed captures in a row end the goal, and nothing else ends it for *)
(* that reason.                                                            *)
THEOREM CaptureFailuresEnd == Spec => []RepeatedCaptureFailureEnds
  <1>1. Init => StepsInv /\ RowInv
    BY DEF Init, StepsInv, RowInv, Unrecorded, Recorded, LastIsCapture, CaptureFailuresInRow,
       NoResult
  <1>2. RowInv => RepeatedCaptureFailureEnds
    BY DEF RowInv, RepeatedCaptureFailureEnds
  <1> QED
    BY InitTypeInv, TypeStep, StepsStep, RowStep, <1>1, <1>2, PTL DEF Spec

-----------------------------------------------------------------------------

(* Every step keeps the screen fresh where it is looked at. *)
LEMMA ScreenStep == TypeInv /\ PlannedOnFreshScreen /\ [Next]_vars => PlannedOnFreshScreen'
  <1> SUFFICES ASSUME TypeInv /\ PlannedOnFreshScreen, [Next]_vars PROVE PlannedOnFreshScreen'
    OBVIOUS
  <1> USE DEF TypeInv, TypeOK, PlannedOnFreshScreen, actionVars, recordVars, Push
  <1>1. CASE BeginIteration
    BY <1>1 DEF BeginIteration
  <1>2. CASE EndAborted
    BY <1>2 DEF EndAborted, End
  <1>3. CASE EndExhausted
    BY <1>3 DEF EndExhausted, End
  <1>4. CASE Captured
    BY <1>4 DEF Captured
  <1>5. ASSUME NEW kind \in {"transient", "fatal"},
  CaptureFails(kind) PROVE PlannedOnFreshScreen'
    BY <1>5 DEF CaptureFails
  <1>6. CASE CaptureFailureReported
    BY <1>6 DEF CaptureFailureReported, End, ContinueLoop
  <1>7. CASE PlanAnswers
    BY <1>7 DEF PlanAnswers
  <1>8. CASE PlanConcludes
    BY <1>8 DEF PlanConcludes
  <1>9. CASE PlanRejected
    BY <1>9 DEF PlanRejected
  <1>10. CASE PlanRefused
    BY <1>10 DEF PlanRefused
  <1>11. CASE PlannerFailureReported
    BY <1>11 DEF PlannerFailureReported, End, ContinueLoop
  <1>12. CASE VerdictReported
    BY <1>12 DEF VerdictReported, End
  <1>13. CASE ActWithoutDevice
    BY <1>13 DEF ActWithoutDevice, ActionOver
  <1>14. CASE ActDirectly
    BY <1>14 DEF ActDirectly
  <1>15. CASE AskGrounder
    BY <1>15 DEF AskGrounder
  <1>16. CASE Grounded
    BY <1>16 DEF Grounded
  <1>17. CASE GroundUnusable
    BY <1>17 DEF GroundUnusable, ActionOver
  <1>18. CASE GroundRejected
    BY <1>18 DEF GroundRejected, ActionOver
  <1>19. CASE GroundRefused
    BY <1>19 DEF GroundRefused, ActionOver
  <1>20. CASE AskVisualGrounder
    BY <1>20 DEF AskVisualGrounder
  <1>21. CASE VisuallyGrounded
    BY <1>21 DEF VisuallyGrounded
  <1>22. CASE VisualGroundingFails
    BY <1>22 DEF VisualGroundingFails, ActionOver
  <1>23. CASE DeviceActs
    BY <1>23 DEF DeviceActs, ActionOver
  <1>24. CASE DeviceFails
    BY <1>24 DEF DeviceFails, ActionOver
  <1>25. CASE TerminalFailureReported
    BY <1>25 DEF TerminalFailureReported, End
  <1>26. CASE StepRecorded
    BY <1>26 DEF StepRecorded
  <1>27. CASE StepReported
    BY <1>27 DEF StepReported, ContinueLoop
  <1>28. CASE Throws
    BY <1>28 DEF Throws
  <1>29. CASE AttemptFails
    BY <1>29 DEF AttemptFails
  <1>30. CASE Abort
    BY <1>30 DEF Abort
  <1>31. CASE UNCHANGED vars
    BY <1>31 DEF vars, actionVars, recordVars
  <1> QED
    BY <1>1, <1>2, <1>3, <1>4, <1>5, <1>6, <1>7, <1>8, <1>9, <1>10, <1>11, <1>12, <1>13, <1>14,
       <1>15, <1>16, <1>17, <1>18, <1>19, <1>20, <1>21, <1>22, <1>23, <1>24, <1>25, <1>26,
       <1>27, <1>28, <1>29, <1>30, <1>31
       DEF Next, Step

(* The planner and the grounders work on a screen captured after the last  *)
(* action that reached the device.                                         *)
THEOREM ScreenIsFresh == Spec => []PlannedOnFreshScreen
  <1>1. Init => PlannedOnFreshScreen
    BY DEF Init, PlannedOnFreshScreen
  <1> QED
    BY InitTypeInv, TypeStep, ScreenStep, <1>1, PTL DEF Spec

-----------------------------------------------------------------------------
(* The phases in which the last step, an action's, is not in the history:  *)
(* not yet, or never when the goal ends with it.                           *)
Telling == {"stepDone", "terminal", "ended", "threw"}

(* The line of the history about a step *)
Line(i) == [iteration |-> i, success |-> steps[i].success]

(* The lines are in order, each is an action's, and at most the last       *)
(* step's is missing.                                                      *)
HistoryInv ==
  /\ \A j, k \in 1 .. Len(history) : j < k => history[j].iteration < history[k].iteration
  /\ \A j \in 1 .. Len(history) :
       \E i \in 1 .. Len(steps) : steps[i].kind = "action" /\ history[j] = Line(i)
  /\ \A i \in 1 .. Len(steps) :
       steps[i].kind = "action" =>
         \/ \E j \in 1 .. Len(history) : history[j] = Line(i)
         \/ i = Len(steps) /\ pc \in Telling
  /\ pc = "stepDone" =>
       /\ steps[iteration].kind = "action"
       /\ steps[iteration].success = (outcome = "success")
       /\ \A j \in 1 .. Len(history) : history[j].iteration < iteration

(* Nothing is told or forgotten by a step that records none and leaves the *)
(* history alone.                                                          *)
LEMMA HistoryKept ==
  ASSUME HistoryInv, UNCHANGED <<steps, history>>, pc \in Telling => pc' \in Telling,
         pc' = "stepDone" => pc = "stepDone" /\ UNCHANGED <<iteration, outcome>>
  PROVE  HistoryInv'
  BY DEF HistoryInv, Line, Telling

(* A step that is recorded is one that the history lacks only if it is an  *)
(* action's, and then what follows is that it is told or the goal ends.    *)
LEMMA PushedUntold ==
  ASSUME TypeInv, StepsInv, HistoryInv, pc \in Unrecorded, UNCHANGED <<iteration, history>>,
         NEW kind \in {"capture", "planner", "action", "verdict"}, NEW success \in BOOLEAN,
         Push(kind, success),
         kind = "action" => pc' \in Telling,
         pc' = "stepDone" => kind = "action" /\ success = (outcome' = "success")
  PROVE  HistoryInv'
  <1> DEFINE n == Len(steps)
  <1>1. StepAdded(kind) /\ steps'[Len(steps')].success = success
    <2> DEFINE new == [iteration |-> iteration, kind |-> kind, success |-> success]
    <2>1. StepAdded(kind)
      BY Pushed DEF TypeInv, PhaseInv
    <2>2. steps \in Seq(StepRecords) /\ new \in StepRecords /\ steps' = Append(steps, new)
      BY DEF TypeInv, PhaseInv, TypeOK, StepRecords, Push
    <2>3. new.success = success
      OBVIOUS
    <2> HIDE DEF new
    <2> QED
      BY <2>1, <2>2, <2>3
  <1>2. /\ n \in Nat /\ Len(steps') = n + 1 /\ n + 1 = iteration /\ iteration' = iteration
        /\ \A i \in 1 .. n : steps'[i] = steps[i]
        /\ steps'[n + 1].kind = kind /\ steps'[n + 1].success = success
        /\ history' = history /\ Len(history) \in Nat
    BY <1>1 DEF StepAdded, TypeInv, TypeOK, StepsInv
  <1> HIDE DEF n
  <1>3. \A i \in 1 .. n : Line(i)' = Line(i)
    BY <1>2 DEF Line
  <1>4. \A j \in 1 .. Len(history) :
          \E i \in 1 .. n : steps[i].kind = "action" /\ history[j] = Line(i)
    BY DEF HistoryInv, n
  <1>5. \A i \in 1 .. n : steps[i].kind = "action" =>
          \E j \in 1 .. Len(history) : history[j] = Line(i)
    BY DEF HistoryInv, n, Telling, Unrecorded
  <1>6. ASSUME NEW j \in 1 .. Len(history)
        PROVE  /\ \E i \in 1 .. n + 1 : steps'[i].kind = "action" /\ history[j] = Line(i)'
               /\ history[j].iteration < iteration
    <2>1. PICK i \in 1 .. n : steps[i].kind = "action" /\ history[j] = Line(i)
      BY <1>4
    <2>2. history[j].iteration = i
      BY <2>1 DEF Line
    <2> QED
      BY <1>2, <1>3, <2>1, <2>2
  <1>7. ASSUME NEW i \in 1 .. n + 1, steps'[i].kind = "action"
        PROVE  \/ \E j \in 1 .. Len(history) : history[j] = Line(i)'
               \/ i = n + 1 /\ pc' \in Telling
    BY <1>2, <1>3, <1>5, <1>7
  <1>8. \A j, k \in 1 .. Len(history) : j < k => history[j].iteration < history[k].iteration
    BY DEF HistoryInv
  <1> QED
    BY <1>2, <1>6, <1>7, <1>8 DEF HistoryInv

(* A step that is told is the last one, and the history then lacks none.   *)
LEMMA Told == ASSUME TypeInv, StepsInv, HistoryInv, StepReported PROVE HistoryInv'
  <1> DEFINE new == [iteration |-> iteration, success |-> outcome = "success"]
             m == Len(history)
  <1>1. new \in HistoryLines /\ new.iteration = iteration /\ new = Line(iteration)
    BY DEF TypeInv, TypeOK, PhaseInv, Recorded, HistoryLines, StepReported, HistoryInv, Line
  <1>2. /\ history \in Seq(HistoryLines) /\ history' = Append(history, new)
        /\ steps' = steps /\ pc = "stepDone" /\ pc' = "head" /\ Len(steps) = iteration
        /\ iteration \in 1 .. Len(steps)
    BY DEF TypeInv, TypeOK, PhaseInv, Recorded, HistoryLines, StepReported, ContinueLoop, StepsInv
  <1> HIDE DEF new
  <1>3. /\ m \in Nat /\ Len(history') = m + 1 /\ history'[m + 1] = new
        /\ \A j \in 1 .. m : history'[j] = history[j]
    BY <1>1, <1>2
  <1>4. \A i : Line(i)' = Line(i)
    BY <1>2 DEF Line
  <1> HIDE DEF m
  <1>5. /\ \A j \in 1 .. m : \E i \in 1 .. Len(steps) : steps[i].kind = "action" /\ history[j] = Line(i)
        /\ \A i \in 1 .. Len(steps) : steps[i].kind = "action" =>
             (\E j \in 1 .. m : history[j] = Line(i)) \/ i = iteration
        /\ steps[iteration].kind = "action"
        /\ \A j \in 1 .. m : history[j].iteration < iteration
        /\ \A j, k \in 1 .. m : j < k => history[j].iteration < history[k].iteration
    BY <1>2 DEF HistoryInv, m
  <1>6. \A j, k \in 1 .. m + 1 : j < k => history'[j].iteration < history'[k].iteration
    <2> TAKE j, k \in 1 .. m + 1
    <2> HAVE j < k
    <2>1. CASE k = m + 1
      BY <1>1, <1>3, <1>5, <2>1
    <2>2. CASE k # m + 1
      BY <1>3, <1>5, <2>2
    <2> QED
      BY <2>1, <2>2
  <1>7. ASSUME NEW j \in 1 .. m + 1
        PROVE  \E i \in 1 .. Len(steps) : steps[i].kind = "action" /\ history'[j] = Line(i)
    BY <1>1, <1>2, <1>3, <1>5
  <1>8. ASSUME NEW i \in 1 .. Len(steps), steps[i].kind = "action"
        PROVE  \E j \in 1 .. m + 1 : history'[j] = Line(i)
    BY <1>1, <1>3, <1>5, <1>8
  <1> QED
    BY <1>2, <1>3, <1>4, <1>6, <1>7, <1>8 DEF HistoryInv

(* The history follows the recorded actions. *)
LEMMA HistoryStep == TypeInv /\ StepsInv /\ HistoryInv /\ [Next]_vars => HistoryInv'
  <1> SUFFICES ASSUME TypeInv, StepsInv, HistoryInv, [Next]_vars PROVE HistoryInv'
    OBVIOUS
  <1> USE DEF Telling, Unrecorded, actionVars, recordVars
  <1>1. CASE BeginIteration
    BY <1>1, HistoryKept DEF BeginIteration
  <1>2. CASE EndAborted
    BY <1>2, HistoryKept DEF EndAborted, End
  <1>3. CASE EndExhausted
    BY <1>3, HistoryKept DEF EndExhausted, End
  <1>4. CASE Captured
    BY <1>4, HistoryKept DEF Captured
  <1>5. ASSUME NEW kind \in {"transient", "fatal"}, CaptureFails(kind) PROVE HistoryInv'
    BY <1>5, PushedUntold DEF CaptureFails
  <1>6. CASE CaptureFailureReported
    BY <1>6, HistoryKept DEF CaptureFailureReported, End, ContinueLoop
  <1>7. CASE PlanAnswers
    BY <1>7, HistoryKept DEF PlanAnswers
  <1>8. CASE PlanConcludes
    BY <1>8, PushedUntold DEF PlanConcludes
  <1>9. CASE PlanRejected
    BY <1>9, PushedUntold DEF PlanRejected
  <1>10. CASE PlanRefused
    BY <1>10, PushedUntold DEF PlanRefused
  <1>11. CASE PlannerFailureReported
    BY <1>11, HistoryKept DEF PlannerFailureReported, End, ContinueLoop
  <1>12. CASE VerdictReported
    BY <1>12, HistoryKept DEF VerdictReported, End
  <1>13. CASE ActWithoutDevice
    BY <1>13, HistoryKept DEF ActWithoutDevice, ActionOver
  <1>14. CASE ActDirectly
    BY <1>14, HistoryKept DEF ActDirectly
  <1>15. CASE AskGrounder
    BY <1>15, HistoryKept DEF AskGrounder
  <1>16. CASE Grounded
    BY <1>16, HistoryKept DEF Grounded
  <1>17. CASE GroundUnusable
    BY <1>17, HistoryKept DEF GroundUnusable, ActionOver
  <1>18. CASE GroundRejected
    BY <1>18, HistoryKept DEF GroundRejected, ActionOver
  <1>19. CASE GroundRefused
    BY <1>19, PushedUntold DEF GroundRefused, ActionOver
  <1>20. CASE AskVisualGrounder
    BY <1>20, HistoryKept DEF AskVisualGrounder
  <1>21. CASE VisuallyGrounded
    BY <1>21, HistoryKept DEF VisuallyGrounded
  <1>22. CASE VisualGroundingFails
    BY <1>22, HistoryKept DEF VisualGroundingFails, ActionOver
  <1>23. CASE DeviceActs
    BY <1>23, HistoryKept DEF DeviceActs, ActionOver
  <1>24. CASE DeviceFails
    BY <1>24, HistoryKept DEF DeviceFails, ActionOver
  <1>25. CASE TerminalFailureReported
    BY <1>25, HistoryKept DEF TerminalFailureReported, End
  <1>26. CASE StepRecorded
    BY <1>26, PushedUntold DEF StepRecorded
  <1>27. CASE StepReported
    BY <1>27, Told
  <1>28. CASE Throws
    BY <1>28, HistoryKept DEF Throws
  <1>29. CASE AttemptFails
    BY <1>29, HistoryKept DEF AttemptFails
  <1>30. CASE Abort
    BY <1>30, HistoryKept DEF Abort
  <1>31. CASE UNCHANGED vars
    BY <1>31, HistoryKept DEF vars
  <1> QED
    BY <1>1, <1>2, <1>3, <1>4, <1>5, <1>6, <1>7, <1>8, <1>9, <1>10, <1>11, <1>12, <1>13, <1>14,
       <1>15, <1>16, <1>17, <1>18, <1>19, <1>20, <1>21, <1>22, <1>23, <1>24, <1>25, <1>26,
       <1>27, <1>28, <1>29, <1>30, <1>31
       DEF Next, Step

(* The planner is told of every action that was recorded, of nothing else, *)
(* in order and with its outcome, however long the goal runs.              *)
THEOREM HistoryTold == Spec => []HistoryIsWhatHappened
  <1>1. Init => StepsInv /\ HistoryInv
    BY DEF Init, StepsInv, HistoryInv, Unrecorded, Recorded
  <1>2. TypeInv /\ StepsInv /\ HistoryInv => HistoryIsWhatHappened
    <2> SUFFICES ASSUME TypeInv, StepsInv, HistoryInv, pc = "plan" PROVE HistoryIsWhatHappened
      BY DEF HistoryIsWhatHappened
    <2>1. DOMAIN steps = 1 .. Len(steps) /\ DOMAIN history = 1 .. Len(history)
      BY DEF TypeInv, TypeOK
    <2>2. \A i \in 1 .. Len(steps) :
            Line(i) = [iteration |-> steps[i].iteration, success |-> steps[i].success]
      BY DEF StepsInv, Line
    <2>3. \A j \in 1 .. Len(history) :
            \E i \in 1 .. Len(steps) : steps[i].kind = "action" /\ history[j] = Line(i)
      BY DEF HistoryInv
    <2>4. \A i \in 1 .. Len(steps) : steps[i].kind = "action" =>
            \E j \in 1 .. Len(history) : history[j] = Line(i)
      BY DEF HistoryInv, Telling
    <2>5. {history[j] : j \in 1 .. Len(history)} =
            {Line(i) : i \in {n \in 1 .. Len(steps) : steps[n].kind = "action"}}
      BY <2>3, <2>4
    <2>6. {Line(i) : i \in {n \in 1 .. Len(steps) : steps[n].kind = "action"}} =
            {[iteration |-> steps[i].iteration, success |-> steps[i].success] :
               i \in {n \in 1 .. Len(steps) : steps[n].kind = "action"}}
      BY <2>2
    <2>7. \A j, k \in 1 .. Len(history) : j < k => history[j].iteration < history[k].iteration
      BY DEF HistoryInv
    <2> QED
      BY <2>1, <2>5, <2>6, <2>7 DEF HistoryIsWhatHappened
  <1> QED
    BY InitTypeInv, TypeStep, StepsStep, HistoryStep, <1>1, <1>2, PTL DEF Spec

-----------------------------------------------------------------------------
(* After a refusal only the report of it is left to do. *)
RefusalInv ==
  refused => \/ pc = "plannerFailed" /\ outcome = "terminal"
             \/ pc \in {"terminal", "threw"}
             \/ pc = "ended" /\ result.status = "terminal"

(* Nothing leaves the report of a refusal but the end. *)
LEMMA RefusalStep == RefusalInv /\ [Next]_vars => RefusalInv'
  <1> SUFFICES ASSUME RefusalInv, [Next]_vars PROVE RefusalInv'
    OBVIOUS
  <1> USE DEF RefusalInv, Push, actionVars, recordVars
  <1>1. CASE BeginIteration
    BY <1>1 DEF BeginIteration
  <1>2. CASE EndAborted
    BY <1>2 DEF EndAborted, End
  <1>3. CASE EndExhausted
    BY <1>3 DEF EndExhausted, End
  <1>4. CASE Captured
    BY <1>4 DEF Captured
  <1>5. ASSUME NEW kind \in {"transient", "fatal"}, CaptureFails(kind) PROVE RefusalInv'
    BY <1>5 DEF CaptureFails
  <1>6. CASE CaptureFailureReported
    BY <1>6 DEF CaptureFailureReported, End, ContinueLoop
  <1>7. CASE PlanAnswers
    BY <1>7 DEF PlanAnswers
  <1>8. CASE PlanConcludes
    BY <1>8 DEF PlanConcludes
  <1>9. CASE PlanRejected
    BY <1>9 DEF PlanRejected
  <1>10. CASE PlanRefused
    BY <1>10 DEF PlanRefused
  <1>11. CASE PlannerFailureReported
    BY <1>11 DEF PlannerFailureReported, End, ContinueLoop
  <1>12. CASE VerdictReported
    BY <1>12 DEF VerdictReported, End
  <1>13. CASE ActWithoutDevice
    BY <1>13 DEF ActWithoutDevice, ActionOver
  <1>14. CASE ActDirectly
    BY <1>14 DEF ActDirectly
  <1>15. CASE AskGrounder
    BY <1>15 DEF AskGrounder
  <1>16. CASE Grounded
    BY <1>16 DEF Grounded
  <1>17. CASE GroundUnusable
    BY <1>17 DEF GroundUnusable, ActionOver
  <1>18. CASE GroundRejected
    BY <1>18 DEF GroundRejected, ActionOver
  <1>19. CASE GroundRefused
    BY <1>19 DEF GroundRefused, ActionOver
  <1>20. CASE AskVisualGrounder
    BY <1>20 DEF AskVisualGrounder
  <1>21. CASE VisuallyGrounded
    BY <1>21 DEF VisuallyGrounded
  <1>22. CASE VisualGroundingFails
    BY <1>22 DEF VisualGroundingFails, ActionOver
  <1>23. CASE DeviceActs
    BY <1>23 DEF DeviceActs, ActionOver
  <1>24. CASE DeviceFails
    BY <1>24 DEF DeviceFails, ActionOver
  <1>25. CASE TerminalFailureReported
    BY <1>25 DEF TerminalFailureReported, End
  <1>26. CASE StepRecorded
    BY <1>26 DEF StepRecorded
  <1>27. CASE StepReported
    BY <1>27 DEF StepReported, ContinueLoop
  <1>28. CASE Throws
    BY <1>28 DEF Throws
  <1>29. CASE AttemptFails
    BY <1>29 DEF AttemptFails
  <1>30. CASE Abort
    BY <1>30 DEF Abort
  <1>31. CASE UNCHANGED vars
    BY <1>31 DEF vars, actionVars, recordVars
  <1> QED
    BY <1>1, <1>2, <1>3, <1>4, <1>5, <1>6, <1>7, <1>8, <1>9, <1>10, <1>11, <1>12, <1>13, <1>14,
       <1>15, <1>16, <1>17, <1>18, <1>19, <1>20, <1>21, <1>22, <1>23, <1>24, <1>25, <1>26,
       <1>27, <1>28, <1>29, <1>30, <1>31
       DEF Next, Step

(* After the provider's refusal nothing more is asked of it or done on the *)
(* device, and the result says why, whichever request was refused.         *)
THEOREM RefusalIsFinal == Spec => NothingAfterRefusal
  <1> DEFINE Final == /\ refused => UNCHANGED <<iteration, attempt, performed>>
                      /\ refused /\ pc' = "ended" => result'.status = "terminal"
  <1>1. Init => RefusalInv
    BY DEF Init, RefusalInv
  <1>2. RefusalInv /\ [Next]_vars => [Final]_vars
    <2> SUFFICES ASSUME RefusalInv, Next, refused PROVE Final
      OBVIOUS
    <2>1. PlannerFailureReported \/ TerminalFailureReported \/ Throws \/ Abort
      BY DEF RefusalInv, Next, Step, BeginIteration, EndAborted, EndExhausted, Captured,
         CaptureFails, CaptureFailureReported, PlanAnswers, PlanConcludes,
             PlanRejected, PlanRefused, VerdictReported, ActWithoutDevice, ActDirectly,
             AskGrounder, Grounded, GroundUnusable, GroundRejected, GroundRefused,
             AskVisualGrounder,
             VisuallyGrounded, VisualGroundingFails, DeviceActs, DeviceFails, StepRecorded,
             StepReported, AttemptFails
    <2>2. CASE PlannerFailureReported
      BY <2>2 DEF RefusalInv, PlannerFailureReported, End, recordVars, actionVars
    <2>3. CASE TerminalFailureReported
      BY <2>3 DEF TerminalFailureReported, End, actionVars
    <2>4. CASE Throws
      BY <2>4 DEF Throws, recordVars
    <2>5. CASE Abort
      BY <2>5 DEF RefusalInv, Abort, recordVars
    <2> QED
      BY <2>1, <2>2, <2>3, <2>4, <2>5
  <1> QED
    BY <1>1, <1>2, RefusalStep, PTL DEF Spec, NothingAfterRefusal

-----------------------------------------------------------------------------
(* The stage GoalOutcome sees *)
Stage == CASE pc = "head" -> "loop" [] pc \in {"ended", "threw"} -> pc [] OTHER -> "iterating"

(* Every step is one that the session knows of, or none. *)
LEMMA OutcomeStep ==
  TypeInv /\ [Next]_vars => [Outcome!Progress \/ Outcome!Abort]_<<Stage, iteration, aborted,
  result.status>>
  <1> DEFINE Mapped == [Outcome!Progress \/ Outcome!Abort]_<<Stage, iteration, aborted,
  result.status>>
  <1> SUFFICES ASSUME TypeInv, [Next]_vars PROVE Mapped
    OBVIOUS
  <1> USE DEF TypeInv, TypeOK, Stages, Stage, Outcome!Progress, Outcome!Abort, Outcome!Iterate,
  Outcome!Aborts,
          Outcome!Exhausts, Outcome!Decides, Outcome!Continues, Outcome!Throws, Outcome!End,
          Push, actionVars, recordVars
  <1>1. CASE BeginIteration
    BY <1>1 DEF BeginIteration
  <1>2. CASE EndAborted
    BY <1>2 DEF EndAborted, End
  <1>3. CASE EndExhausted
    BY <1>3 DEF EndExhausted, End
  <1>4. CASE Captured
    BY <1>4 DEF Captured
  <1>5. ASSUME NEW kind \in {"transient", "fatal"}, CaptureFails(kind) PROVE Mapped
    BY <1>5 DEF CaptureFails
  <1>6. CASE CaptureFailureReported
    BY <1>6 DEF CaptureFailureReported, End, ContinueLoop
  <1>7. CASE PlanAnswers
    BY <1>7 DEF PlanAnswers
  <1>8. CASE PlanConcludes
    BY <1>8 DEF PlanConcludes
  <1>9. CASE PlanRejected
    BY <1>9 DEF PlanRejected
  <1>10. CASE PlanRefused
    BY <1>10 DEF PlanRefused
  <1>11. CASE PlannerFailureReported
    BY <1>11 DEF PlannerFailureReported, End, ContinueLoop
  <1>12. CASE VerdictReported
    BY <1>12 DEF VerdictReported, End
  <1>13. CASE ActWithoutDevice
    BY <1>13 DEF ActWithoutDevice, ActionOver
  <1>14. CASE ActDirectly
    BY <1>14 DEF ActDirectly
  <1>15. CASE AskGrounder
    BY <1>15 DEF AskGrounder
  <1>16. CASE Grounded
    BY <1>16 DEF Grounded
  <1>17. CASE GroundUnusable
    BY <1>17 DEF GroundUnusable, ActionOver
  <1>18. CASE GroundRejected
    BY <1>18 DEF GroundRejected, ActionOver
  <1>19. CASE GroundRefused
    BY <1>19 DEF GroundRefused, ActionOver
  <1>20. CASE AskVisualGrounder
    BY <1>20 DEF AskVisualGrounder
  <1>21. CASE VisuallyGrounded
    BY <1>21 DEF VisuallyGrounded
  <1>22. CASE VisualGroundingFails
    BY <1>22 DEF VisualGroundingFails, ActionOver
  <1>23. CASE DeviceActs
    BY <1>23 DEF DeviceActs, ActionOver
  <1>24. CASE DeviceFails
    BY <1>24 DEF DeviceFails, ActionOver
  <1>25. CASE TerminalFailureReported
    BY <1>25 DEF TerminalFailureReported, End
  <1>26. CASE StepRecorded
    BY <1>26 DEF StepRecorded
  <1>27. CASE StepReported
    BY <1>27 DEF StepReported, ContinueLoop
  <1>28. CASE Throws
    BY <1>28 DEF Throws
  <1>29. CASE AttemptFails
    BY <1>29 DEF AttemptFails
  <1>30. CASE Abort
    BY <1>30 DEF Abort
  <1>31. CASE UNCHANGED vars
    BY <1>31 DEF vars, actionVars, recordVars
  <1> QED
    BY <1>1, <1>2, <1>3, <1>4, <1>5, <1>6, <1>7, <1>8, <1>9, <1>10, <1>11, <1>12, <1>13, <1>14,
       <1>15, <1>16, <1>17, <1>18, <1>19, <1>20, <1>21, <1>22, <1>23, <1>24, <1>25, <1>26,
       <1>27, <1>28, <1>29, <1>30, <1>31
       DEF Next, Step

(* The loop implements what the session relies on, but for its fairness:   *)
(* bounded iterations, none after an abort, one verdict or an exception.   *)
THEOREM OutcomeRefined == Spec => Outcome!Safety
  <1>1. Init => Outcome!Init
    BY DEF Init, Outcome!Init, NoResult
  <1> QED
    BY InitTypeInv, TypeStep, OutcomeStep, <1>1, PTL DEF Spec, Outcome!Safety,
       Outcome!outcomeVars, Stage
-----------------------------------------------------------------------------
(* The longest way from an await to the end of the iteration, counting the *)
(* retries that are left and the taps that are still to be done.           *)
AttemptsLeft == MAX_LLM_ATTEMPTS - 1 - attempt
Longest == MaxRepeat + 12
StepsInIteration ==
  CASE pc \in {"ended", "threw"} -> 0
    [] pc = "head" -> 1
    [] pc \in Recorded -> 2
    [] pc = "postCapture" -> 3
    [] pc = "device" -> 3 + todo
    [] pc = "visual" -> MaxRepeat + 5 + AttemptsLeft
    [] pc = "ground" -> MaxRepeat + 7 + AttemptsLeft
    [] pc = "act" -> MaxRepeat + 9
    [] pc = "plan" -> MaxRepeat + 10 + AttemptsLeft
    [] pc = "capture" -> Longest

(* What the goal can still do, an abort() of the caller's included         *)
AbortsLeft == IF aborted THEN 0 ELSE 1
StepsToGo == (MaxIterations - iteration) * Longest + StepsInIteration + AbortsLeft

(* One more iteration costs a whole iteration's steps.                     *)
LEMMA IterationCosts ==
  ASSUME NEW m \in Nat, NEW i \in 0 .. m, NEW k \in Nat
  PROVE  /\ (m - i) * k \in Nat
         /\ i < m => (m - (i + 1)) * k = (m - i) * k - k
  OBVIOUS

(* Fewer steps in the iteration, and as many iterations left, are fewer.   *)
LEMMA FewerInSum ==
  ASSUME NEW before \in Nat, NEW after \in Nat, NEW s \in Nat, NEW t \in Nat,
         NEW a \in {0, 1}, NEW b \in {0, 1}, after = before, t + b < s + a
  PROVE  after + t + b < before + s + a
  OBVIOUS

(* The count at each await, without the CASE. *)
StepsPerAwait ==
  /\ pc \in {"ended", "threw"} => StepsInIteration = 0
  /\ pc = "head" => StepsInIteration = 1
  /\ pc \in Recorded => StepsInIteration = 2
  /\ pc = "postCapture" => StepsInIteration = 3
  /\ pc = "device" => StepsInIteration = 3 + todo
  /\ pc = "visual" => StepsInIteration = MaxRepeat + 6 - attempt
  /\ pc = "ground" => StepsInIteration = MaxRepeat + 8 - attempt
  /\ pc = "act" => StepsInIteration = MaxRepeat + 9
  /\ pc = "plan" => StepsInIteration = MaxRepeat + 11 - attempt
  /\ pc = "capture" => StepsInIteration = MaxRepeat + 12

LEMMA StepsAtAwaits ==
  /\ attempt \in 0 .. 1 => StepsPerAwait
  /\ attempt' \in 0 .. 1 => StepsPerAwait'
  <1>1. ASSUME attempt \in 0 .. 1 PROVE StepsPerAwait
    BY <1>1, GoalAssumption DEF StepsPerAwait, StepsInIteration, Recorded, AttemptsLeft, Longest,
       MAX_LLM_ATTEMPTS
  <1>2. ASSUME attempt' \in 0 .. 1 PROVE StepsPerAwait'
    BY <1>2, GoalAssumption DEF StepsPerAwait, StepsInIteration, Recorded, AttemptsLeft, Longest,
       MAX_LLM_ATTEMPTS
  <1> QED
    BY <1>1, <1>2

(* The count is a number at every await, and so is an iteration's limit.   *)
Counted ==
  /\ StepsPerAwait /\ StepsInIteration \in Nat /\ AbortsLeft \in {0, 1}
  /\ StepsToGo = (MaxIterations - iteration) * Longest + StepsInIteration + AbortsLeft
  /\ Longest \in Nat
  /\ iteration \in 0 .. MaxIterations /\ (MaxIterations - iteration) * Longest \in Nat

LEMMA CountedAtAwaits == /\ TypeInv => Counted
                         /\ TypeInv' => Counted'
  <1>0. MaxRepeat \in Nat \ {0} /\ MaxIterations \in Nat /\ Longest \in Nat
    BY GoalAssumption DEF Longest
  <1>1. ASSUME TypeInv PROVE Counted
    <2>1. /\ attempt \in 0 .. 1 /\ todo \in Nat /\ pc \in Stages
          /\ iteration \in 0 .. MaxIterations
      BY <1>1 DEF TypeInv, TypeOK, MAX_LLM_ATTEMPTS
    <2>2. StepsPerAwait
      BY <2>1, StepsAtAwaits
    <2>3. StepsInIteration \in Nat
      BY <1>0, <2>1, <2>2 DEF StepsPerAwait, Stages, Recorded
    <2>4. (MaxIterations - iteration) * Longest \in Nat
      BY <1>0, <2>1, IterationCosts
    <2> QED
      BY <1>0, <2>1, <2>2, <2>3, <2>4 DEF Counted, AbortsLeft, StepsToGo
  <1>2. ASSUME TypeInv' PROVE Counted'
    <2>1. /\ attempt' \in 0 .. 1 /\ todo' \in Nat /\ pc' \in Stages
          /\ iteration' \in 0 .. MaxIterations
      BY <1>2 DEF TypeInv, TypeOK, MAX_LLM_ATTEMPTS, Stages
    <2>2. StepsPerAwait'
      BY <2>1, StepsAtAwaits
    <2>3. StepsInIteration' \in Nat
      BY <1>0, <2>1, <2>2 DEF StepsPerAwait, Stages, Recorded
    <2>4. Longest' = Longest
      BY DEF Longest
    <2>5. (MaxIterations - iteration') * Longest \in Nat
      BY <1>0, <2>1, IterationCosts
    <2> QED
      BY <1>0, <2>1, <2>2, <2>3, <2>4, <2>5 DEF Counted, AbortsLeft, StepsToGo
  <1> QED
    BY <1>1, <1>2

(* Within an iteration every step is one fewer to go. *)
Fewer == iteration' = iteration /\ StepsInIteration' + AbortsLeft' < StepsInIteration + AbortsLeft
LEMMA StepsFewer == TypeInv /\ Next => BeginIteration \/ Fewer
  <1> SUFFICES ASSUME TypeInv, Next PROVE BeginIteration \/ Fewer
    OBVIOUS
  <1>0. TypeInv'
    BY TypeStep
  <1>a. /\ attempt \in 0 .. 1 /\ repeat \in 1 .. MaxRepeat /\ todo \in Nat
        /\ pc = "device" => todo >= 1
        /\ pc \in Stages
        /\ MaxRepeat \in Nat \ {0}
    BY GoalAssumption DEF TypeInv, TypeOK, PhaseInv, MAX_LLM_ATTEMPTS
  <1>b. StepsPerAwait /\ StepsPerAwait'
    BY <1>0, CountedAtAwaits DEF Counted
  <1> USE <1>a, <1>b DEF StepsPerAwait, Recorded, Stages, Fewer, AbortsLeft, AttemptsSpent, Push,
          MAX_LLM_ATTEMPTS, actionVars, recordVars
  <1>1. CASE BeginIteration
    BY <1>1
  <1>2. CASE EndAborted
    BY <1>2 DEF EndAborted, End
  <1>3. CASE EndExhausted
    BY <1>3 DEF EndExhausted, End
  <1>4. CASE Captured
    BY <1>4 DEF Captured
  <1>5. ASSUME NEW kind \in {"transient", "fatal"}, CaptureFails(kind) PROVE Fewer
    BY <1>5 DEF CaptureFails
  <1>6. CASE CaptureFailureReported
    BY <1>6 DEF CaptureFailureReported, End, ContinueLoop
  <1>7. CASE PlanAnswers
    BY <1>7 DEF PlanAnswers
  <1>8. CASE PlanConcludes
    BY <1>8 DEF PlanConcludes
  <1>9. CASE PlanRejected
    BY <1>9 DEF PlanRejected
  <1>10. CASE PlanRefused
    BY <1>10 DEF PlanRefused
  <1>11. CASE PlannerFailureReported
    BY <1>11 DEF PlannerFailureReported, End, ContinueLoop
  <1>12. CASE VerdictReported
    BY <1>12 DEF VerdictReported, End
  <1>13. CASE ActWithoutDevice
    BY <1>13 DEF ActWithoutDevice, ActionOver
  <1>14. CASE ActDirectly
    BY <1>14 DEF ActDirectly
  <1>15. CASE AskGrounder
    BY <1>15 DEF AskGrounder
  <1>16. CASE Grounded
    BY <1>16 DEF Grounded
  <1>17. CASE GroundUnusable
    BY <1>17 DEF GroundUnusable, ActionOver
  <1>18. CASE GroundRejected
    BY <1>18 DEF GroundRejected, ActionOver
  <1>19. CASE GroundRefused
    BY <1>19 DEF GroundRefused, ActionOver
  <1>20. CASE AskVisualGrounder
    BY <1>20 DEF AskVisualGrounder
  <1>21. CASE VisuallyGrounded
    BY <1>21 DEF VisuallyGrounded
  <1>22. CASE VisualGroundingFails
    BY <1>22 DEF VisualGroundingFails, ActionOver
  <1>23. CASE DeviceActs
    BY <1>23 DEF DeviceActs, ActionOver
  <1>24. CASE DeviceFails
    BY <1>24 DEF DeviceFails, ActionOver
  <1>25. CASE TerminalFailureReported
    BY <1>25 DEF TerminalFailureReported, End
  <1>26. CASE StepRecorded
    BY <1>26 DEF StepRecorded
  <1>27. CASE StepReported
    BY <1>27 DEF StepReported, ContinueLoop
  <1>28. CASE Throws
    BY <1>28 DEF Throws
  <1>29. CASE AttemptFails
    BY <1>29 DEF AttemptFails
  <1>30. CASE Abort
    BY <1>30 DEF Abort
  <1> QED
    BY <1>1, <1>2, <1>3, <1>4, <1>5, <1>6, <1>7, <1>8, <1>9, <1>10, <1>11, <1>12, <1>13, <1>14,
       <1>15, <1>16, <1>17, <1>18, <1>19, <1>20, <1>21, <1>22, <1>23, <1>24, <1>25, <1>26,
       <1>27, <1>28, <1>29, <1>30
       DEF Next, Step


(* Every step of the goal, the caller's abort() included, is one fewer.    *)
LEMMA GoalShrinks == TypeInv /\ Next => StepsToGo' < StepsToGo
  <1> SUFFICES ASSUME TypeInv, Next PROVE StepsToGo' < StepsToGo
    OBVIOUS
  <1> DEFINE before == (MaxIterations - iteration) * Longest
             after == (MaxIterations - iteration') * Longest
  <1>1. Counted /\ Counted'
    BY TypeStep, CountedAtAwaits
  <1>2. Longest' = Longest /\ MaxIterations \in Nat
    BY GoalAssumption DEF Longest
  <1>3. /\ StepsToGo = before + StepsInIteration + AbortsLeft
        /\ StepsToGo' = after + StepsInIteration' + AbortsLeft'
        /\ before \in Nat /\ after \in Nat /\ Longest \in Nat
        /\ StepsInIteration \in Nat /\ StepsInIteration' \in Nat
        /\ AbortsLeft \in {0, 1} /\ AbortsLeft' \in {0, 1}
    BY <1>1, <1>2 DEF Counted
  <1>4. CASE BeginIteration
    <2>1. after = before - Longest
      BY <1>1, <1>2, <1>4, IterationCosts DEF BeginIteration, Counted
    <2>2. StepsInIteration = 1 /\ StepsInIteration' = Longest /\ AbortsLeft' = AbortsLeft
      BY <1>1, <1>4 DEF BeginIteration, Counted, StepsPerAwait, AbortsLeft, Longest
    <2> HIDE DEF before, after
    <2> QED
      BY <1>3, <2>1, <2>2
  <1>5. CASE Fewer
    <2>1. after = before
      BY <1>5 DEF Fewer
    <2>2. StepsInIteration' + AbortsLeft' < StepsInIteration + AbortsLeft
      BY <1>5 DEF Fewer
    <2> HIDE DEF before, after
    <2>3. after + StepsInIteration' + AbortsLeft' < before + StepsInIteration + AbortsLeft
      BY <1>3, <2>1, <2>2, FewerInSum
    <2> QED
      BY <1>3, <2>3
  <1> QED
    BY <1>4, <1>5, StepsFewer

(* What is left to do is a number, however the goal has gone so far. *)
LEMMA GoalCounted == TypeInv => StepsToGo \in Nat
  <1> SUFFICES ASSUME TypeInv PROVE StepsToGo \in Nat
    OBVIOUS
  <1> QED
    BY CountedAtAwaits DEF Counted

(* No goal goes on for ever: whatever the model, the device and the caller *)
(* do, and whatever fails, executeGoal comes back to no await without      *)
(* having used up an iteration, an attempt, or a tap that was asked for.   *)
(* The half of the goal's termination that needs no fairness, and a bound  *)
(* on its awaits: MaxIterations * (MaxRepeat + 12), and one for abort().   *)
THEOREM GoalIsFinite == Spec => [](StepsToGo \in Nat) /\ [][StepsToGo' < StepsToGo]_vars
  <1>1. TypeInv /\ [Next]_vars => [StepsToGo' < StepsToGo]_vars
    BY GoalShrinks
  <1> QED
    BY InitTypeInv, TypeStep, GoalCounted, <1>1, PTL DEF Spec
=============================================================================
