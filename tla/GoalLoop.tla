------------------------------ MODULE GoalLoop ------------------------------
(***************************************************************************)
(* TestExecutor.executeGoal with the ActionExecutor and the AIAgent's      *)
(* retries under it: capture the screen, ask the planner, ground and carry *)
(* out its action, capture again, record the step; until the planner says  *)
(* the goal is completed or failed, the provider refuses, the screen can-  *)
(* not be captured, the iterations are spent or the run is aborted.  `pc'  *)
(* is the await the call stands at; abort() may come at each of them.      *)
(***************************************************************************)
EXTENDS Naturals, Sequences

CONSTANTS
  MaxIterations,   \* config.maxIterations
  MaxRepeat        \* bound on the `repeat' a planner asks of a tap

ASSUME GoalAssumption ==
  /\ MaxIterations \in Nat \ {0}
  /\ MaxRepeat \in Nat \ {0}

MAX_CONSECUTIVE_TRANSIENT_CAPTURE_FAILURES == 2
MAX_LLM_ATTEMPTS == 2

(* The planner's actions, by what carrying one out takes: "grounded" is a  *)
(* scroll, an app launch or a location, "direct" a key, a rotation or a    *)
(* deep link.                                                              *)
Pointing == {"tap", "longPress"}
Grounding == Pointing \cup {"type", "grounded"}
Actions == Grounding \cup {"direct", "wait", "unknown"}
Verdicts == {"completed", "failed"}

VARIABLES
  pc,          \* the await executeGoal stands at
  iteration,   \* iterations begun
  aborted,     \* _aborted
  transients,  \* run.consecutiveTransientCaptureFailures
  steps,       \* _steps: iteration, kind and success of each
  history,     \* run.history: iteration and success of each line
  attempt,     \* LLM calls made for the request in progress, but the last
  verb,        \* plannerResponse.act
  repeat,      \* plannerResponse.repeat, 1 where it has no meaning
  todo,        \* device actions left in the action's device phase
  delivered,   \* device actions of this step that the driver reported done
  outcome,     \* how the phase before the await came out
  result,      \* the TestExecutionResult: status, why, totalIterations
  performed,   \* history: actions that have reached the device
  seen,        \* history: `performed' when deviceState was captured
  refused      \* history: the AI provider has answered 400 or 401

actionVars == <<verb, repeat, todo, delivered>>
recordVars == <<iteration, steps, history, result>>
vars == <<pc, aborted, transients, attempt, outcome, performed, seen, refused,
          actionVars, recordVars>>

NoResult == [status |-> "none", why |-> "none", total |-> 0]

Init ==
  /\ pc = "head"
  /\ iteration = 0
  /\ aborted = FALSE
  /\ transients = 0
  /\ steps = <<>>
  /\ history = <<>>
  /\ attempt = 0
  /\ verb = "none"
  /\ repeat = 1
  /\ todo = 0
  /\ delivered = 0
  /\ outcome = "none"
  /\ result = NoResult
  /\ performed = 0
  /\ seen = 0
  /\ refused = FALSE

-----------------------------------------------------------------------------
(* _steps.push *)
Push(kind, success) ==
  steps' = Append(steps, [iteration |-> iteration, kind |-> kind, success |-> success])

(* return this._terminalResult(...) *)
End(status, why, total) ==
  /\ pc' = "ended"
  /\ result' = [status |-> status, why |-> why, total |-> total]

ContinueLoop == pc' = "head" /\ result' = result

-----------------------------------------------------------------------------
(* The head of executeGoal's loop *)

(* Mutant: the loop's condition is iteration <= maxIterations + 1. *)
BeginIterationTooMany ==
  /\ pc = "head"
  /\ iteration =< MaxIterations
  /\ ~aborted
  /\ iteration' = iteration + 1
  /\ pc' = "capture"
  /\ UNCHANGED <<aborted, transients, attempt, outcome, performed, seen, refused,
                 actionVars, steps, history, result>>

(* Mutant: the abort flag is not looked at. *)
BeginIterationRegardless ==
  /\ pc = "head"
  /\ iteration < MaxIterations
  /\ iteration' = iteration + 1
  /\ pc' = "capture"
  /\ UNCHANGED <<aborted, transients, attempt, outcome, performed, seen, refused,
                 actionVars, steps, history, result>>

BeginIteration ==
  /\ pc = "head"
  /\ iteration < MaxIterations
  /\ ~aborted
  /\ iteration' = iteration + 1
  /\ pc' = "capture"
  /\ UNCHANGED <<aborted, transients, attempt, outcome, performed, seen, refused,
                 actionVars, steps, history, result>>

EndAborted ==
  /\ pc = "head"
  /\ iteration < MaxIterations
  /\ aborted
  /\ End("aborted", "aborted", iteration)
  /\ UNCHANGED <<aborted, transients, attempt, outcome, performed, seen, refused,
                 actionVars, iteration, steps, history>>

EndExhausted ==
  /\ pc = "head"
  /\ iteration = MaxIterations
  /\ End("failure", "iterations", MaxIterations)
  /\ UNCHANGED <<aborted, transients, attempt, outcome, performed, seen, refused,
                 actionVars, iteration, steps, history>>

-----------------------------------------------------------------------------
(* Phase 1, the capture *)

(* Mutant: the count of consecutive failures is never reset. *)
CapturedWithoutReset ==
  /\ pc = "capture"
  /\ pc' = "plan"
  /\ seen' = performed
  /\ attempt' = 0
  /\ UNCHANGED <<aborted, transients, outcome, performed, refused, actionVars, recordVars>>

Captured ==
  /\ pc = "capture"
  /\ pc' = "plan"
  /\ seen' = performed
  /\ transients' = 0
  /\ attempt' = 0
  /\ UNCHANGED <<aborted, outcome, performed, refused, actionVars, recordVars>>

(* Either kind of failure counts and is a step of its own. *)
CaptureFails(kind) ==
  /\ pc = "capture"
  /\ pc' = "captureFailed"
  /\ outcome' = kind
  /\ transients' = transients + 1
  /\ Push("capture", FALSE)
  /\ UNCHANGED <<aborted, attempt, performed, seen, refused, actionVars,
                 iteration, history, result>>

(* Mutant: a first failure goes on to the planner with the last screen.    *)
CaptureFailureIgnored ==
  /\ pc = "captureFailed"
  /\ IF outcome = "fatal" THEN End("failure", "fatalCapture", iteration)
     ELSE IF transients >= MAX_CONSECUTIVE_TRANSIENT_CAPTURE_FAILURES
     THEN End("failure", "repeatedCapture", iteration)
     ELSE pc' = "plan" /\ result' = result
  /\ UNCHANGED <<aborted, transients, attempt, outcome, performed, seen, refused,
                 actionVars, iteration, steps, history>>

CaptureFailureReported ==
  /\ pc = "captureFailed"
  /\ IF outcome = "fatal" THEN End("failure", "fatalCapture", iteration)
     ELSE IF transients >= MAX_CONSECUTIVE_TRANSIENT_CAPTURE_FAILURES
     THEN End("failure", "repeatedCapture", iteration)
     ELSE ContinueLoop
  /\ UNCHANGED <<aborted, transients, attempt, outcome, performed, seen, refused,
                 actionVars, iteration, steps, history>>

-----------------------------------------------------------------------------
(* _retryLLMAttempts: a call that fails, or an answer that does not parse, *)
(* is asked for once more; a FatalProviderError is not.                    *)
AttemptFails ==
  /\ pc \in {"plan", "ground", "visual"}
  /\ attempt + 1 < MAX_LLM_ATTEMPTS
  /\ attempt' = attempt + 1
  /\ UNCHANGED <<pc, aborted, transients, outcome, performed, seen, refused,
                 actionVars, recordVars>>

(* The last attempt has failed; a request that cannot be built at all, for *)
(* want of a prompt or a model, is rejected in the same way.               *)
AttemptsSpent == attempt + 1 = MAX_LLM_ATTEMPTS

(* Phase 2, the planner *)
PlanAnswers ==
  /\ pc = "plan"
  /\ pc' = "act"
  /\ \E a \in Actions, n \in 1 .. MaxRepeat :
       /\ n > 1 => a = "tap"
       /\ verb' = a
       /\ repeat' = n
  /\ todo' = 0
  /\ delivered' = 0
  /\ UNCHANGED <<aborted, transients, attempt, outcome, performed, seen, refused, recordVars>>

(* The planner declares the goal completed or failed: the final step *)
PlanConcludes ==
  /\ pc = "plan"
  /\ pc' = "finish"
  /\ verb' \in Verdicts
  /\ Push("verdict", verb' = "completed")
  /\ UNCHANGED <<aborted, transients, attempt, outcome, performed, seen, refused,
                 repeat, todo, delivered, iteration, history, result>>

(* Mutant: a planner error leaves no step behind. *)
PlanRejectedUnrecorded ==
  /\ pc = "plan"
  /\ AttemptsSpent
  /\ pc' = "plannerFailed"
  /\ outcome' = "failure"
  /\ UNCHANGED <<aborted, transients, attempt, performed, seen, refused, actionVars, recordVars>>

PlanRejected ==
  /\ pc = "plan"
  /\ AttemptsSpent
  /\ pc' = "plannerFailed"
  /\ outcome' = "failure"
  /\ Push("planner", FALSE)
  /\ UNCHANGED <<aborted, transients, attempt, performed, seen, refused, actionVars,
                 iteration, history, result>>

PlanRefused ==
  /\ pc = "plan"
  /\ pc' = "plannerFailed"
  /\ outcome' = "terminal"
  /\ refused' = TRUE
  /\ Push("planner", FALSE)
  /\ UNCHANGED <<aborted, transients, attempt, performed, seen, actionVars,
                 iteration, history, result>>

PlannerFailureReported ==
  /\ pc = "plannerFailed"
  /\ IF outcome = "terminal" THEN End("terminal", "provider", iteration) ELSE ContinueLoop
  /\ UNCHANGED <<aborted, transients, attempt, outcome, performed, seen, refused,
                 actionVars, iteration, steps, history>>

VerdictReported ==
  /\ pc = "finish"
  /\ End(IF verb = "completed" THEN "success" ELSE "failure", "verdict", iteration)
  /\ UNCHANGED <<aborted, transients, attempt, outcome, performed, seen, refused,
                 actionVars, iteration, steps, history>>

-----------------------------------------------------------------------------
(* Phase 4, ActionExecutor.executeAction *)

(* The handler has its ActionOutput; a terminal failure ends the run.      *)
ActionOver(how) ==
  /\ outcome' = how
  /\ IF how = "terminal"
     THEN pc' = "terminal" /\ Push("action", FALSE)
     ELSE pc' = "postCapture" /\ steps' = steps

(* A wait is over, an unknown action is refused, or the `action.prep' span *)
(* of a type, deep link or app launch throws.                              *)
ActWithoutDevice ==
  /\ pc = "act"
  /\ \/ verb = "wait" /\ ActionOver("success")
     \/ verb \in {"unknown", "type", "grounded", "direct"} /\ ActionOver("failure")
  /\ UNCHANGED <<aborted, transients, attempt, performed, seen, refused, actionVars,
                 iteration, history, result>>

ActDirectly ==
  /\ pc = "act"
  /\ verb = "direct"
  /\ pc' = "device"
  /\ todo' = 1
  /\ UNCHANGED <<aborted, transients, attempt, outcome, performed, seen, refused,
                 verb, repeat, delivered, recordVars>>

AskGrounder ==
  /\ pc = "act"
  /\ verb \in Grounding
  /\ pc' = "ground"
  /\ attempt' = 0
  /\ UNCHANGED <<aborted, transients, outcome, performed, seen, refused, actionVars, recordVars>>

(* A point, a scroll, a package or a location; typing taps the field first *)
(* unless it has the focus.                                                *)
Grounded ==
  /\ pc = "ground"
  /\ pc' = "device"
  /\ todo' \in CASE verb = "tap" -> {repeat}
                 [] verb = "type" -> {1, 2}
                 [] OTHER -> {1}
  /\ UNCHANGED <<aborted, transients, attempt, outcome, performed, seen, refused,
                 verb, repeat, delivered, recordVars>>

(* The grounder reports an error or answers off the screen; of a tap, that *)
(* there is nothing to tap.                                                *)
GroundUnusable ==
  /\ pc = "ground"
  /\ ActionOver("failure")
  /\ UNCHANGED <<aborted, transients, attempt, performed, seen, refused, actionVars,
                 iteration, history, result>>

(* needsVisualGrounding, with the screenshot that every capture has *)
AskVisualGrounder ==
  /\ pc = "ground"
  /\ verb \in Pointing
  /\ pc' = "visual"
  /\ attempt' = 0
  /\ UNCHANGED <<aborted, transients, outcome, performed, seen, refused, actionVars, recordVars>>

(* The fallback carries the action out itself: one tap, one press *)
VisuallyGrounded ==
  /\ pc = "visual"
  /\ pc' = "device"
  /\ todo' = 1
  /\ UNCHANGED <<aborted, transients, attempt, outcome, performed, seen, refused,
                 verb, repeat, delivered, recordVars>>

VisualGroundingFails ==
  /\ pc = "visual"
  /\ ActionOver("failure")
  /\ UNCHANGED <<aborted, transients, attempt, performed, seen, refused, actionVars,
                 iteration, history, result>>

GroundRejected ==
  /\ pc = "ground"
  /\ AttemptsSpent
  /\ ActionOver("failure")
  /\ UNCHANGED <<aborted, transients, attempt, performed, seen, refused, actionVars,
                 iteration, history, result>>

(* Mutant: VisualGrounder's catch has no case for FatalProviderError.      *)
GroundRefusedSwallowed ==
  /\ pc \in {"ground", "visual"}
  /\ refused' = TRUE
  /\ ActionOver(IF pc = "visual" THEN "failure" ELSE "terminal")
  /\ UNCHANGED <<aborted, transients, attempt, performed, seen, actionVars,
                 iteration, history, result>>

(* The provider's refusal comes through every catch as a cause. *)
GroundRefused ==
  /\ pc \in {"ground", "visual"}
  /\ refused' = TRUE
  /\ ActionOver("terminal")
  /\ UNCHANGED <<aborted, transients, attempt, performed, seen, actionVars,
                 iteration, history, result>>

DeviceActs ==
  /\ pc = "device"
  /\ performed' = performed + 1
  /\ delivered' = delivered + 1
  /\ todo' = todo - 1
  /\ IF todo = 1 THEN ActionOver("success") ELSE UNCHANGED <<pc, outcome, steps>>
  /\ UNCHANGED <<aborted, transients, attempt, seen, refused, verb, repeat,
                 iteration, history, result>>

(* The driver answers with a failure or not at all; the device may have    *)
(* acted all the same.  What is left of a repeated tap is not tried.       *)
DeviceFails ==
  /\ pc = "device"
  /\ performed' \in {performed, performed + 1}
  /\ ActionOver("failure")
  /\ UNCHANGED <<aborted, transients, attempt, seen, refused, actionVars,
                 iteration, history, result>>

TerminalFailureReported ==
  /\ pc = "terminal"
  /\ End("terminal", "provider", iteration)
  /\ UNCHANGED <<aborted, transients, attempt, outcome, performed, seen, refused,
                 actionVars, iteration, steps, history>>

-----------------------------------------------------------------------------
(* Phases 5 and 6: the screenshot after the action, whose failure is only  *)
(* logged, and the step's record                                           *)
StepRecorded ==
  /\ pc = "postCapture"
  /\ pc' = "stepDone"
  /\ Push("action", outcome = "success")
  /\ UNCHANGED <<aborted, transients, attempt, outcome, performed, seen, refused,
                 actionVars, iteration, history, result>>

(* Mutant: only what succeeded is told to the planner. *)
StepReportedOnSuccess ==
  /\ pc = "stepDone"
  /\ ContinueLoop
  /\ history' = IF outcome = "success"
                THEN Append(history, [iteration |-> iteration, success |-> TRUE])
                ELSE history
  /\ UNCHANGED <<aborted, transients, attempt, outcome, performed, seen, refused,
                 actionVars, iteration, steps>>

StepReported ==
  /\ pc = "stepDone"
  /\ ContinueLoop
  /\ history' = Append(history, [iteration |-> iteration, success |-> outcome = "success"])
  /\ UNCHANGED <<aborted, transients, attempt, outcome, performed, seen, refused,
                 actionVars, iteration, steps>>

(* An awaited progress callback rejects, or a log line throws; at the      *)
(* loop's head only the opening lines and the warning after it are logged. *)
Throws ==
  /\ pc \notin {"ended", "threw"}
  /\ pc = "head" => iteration \in {0, MaxIterations}
  /\ pc' = "threw"
  /\ UNCHANGED <<aborted, transients, attempt, outcome, performed, seen, refused,
                 actionVars, recordVars>>

Abort ==
  /\ ~aborted
  /\ aborted' = TRUE
  /\ UNCHANGED <<pc, transients, attempt, outcome, performed, seen, refused,
                 actionVars, recordVars>>

Step ==
  \/ BeginIteration \/ EndAborted \/ EndExhausted
  \/ Captured \/ CaptureFails("transient") \/ CaptureFails("fatal") \/ CaptureFailureReported
  \/ PlanAnswers \/ PlanConcludes \/ PlanRejected \/ PlanRefused
  \/ PlannerFailureReported \/ VerdictReported
  \/ ActWithoutDevice \/ ActDirectly \/ AskGrounder
  \/ Grounded \/ GroundUnusable \/ GroundRejected \/ GroundRefused
  \/ AskVisualGrounder \/ VisuallyGrounded \/ VisualGroundingFails
  \/ DeviceActs \/ DeviceFails \/ TerminalFailureReported
  \/ StepRecorded \/ StepReported \/ Throws \/ AttemptFails

Next == Step \/ Abort

Spec == Init /\ [][Next]_vars

(* Providers and the driver answer, or their calls time out. *)
FairSpec == Spec /\ WF_vars(Step)

-----------------------------------------------------------------------------
Stages ==
  {"head", "capture", "captureFailed", "plan", "plannerFailed", "finish", "act", "ground",
   "visual", "device", "terminal", "postCapture", "stepDone", "ended", "threw"}
Outcomes == {"none", "success", "failure", "terminal", "transient", "fatal"}

(* Types, and no more iterations, LLM attempts or tolerated capture fail-  *)
(* ures than the code's limits allow.                                      *)
TypeOK ==
  /\ pc \in Stages
  /\ iteration \in 0 .. MaxIterations
  /\ aborted \in BOOLEAN
  /\ transients \in 0 .. MAX_CONSECUTIVE_TRANSIENT_CAPTURE_FAILURES
  /\ steps \in Seq([iteration : 1 .. MaxIterations,
                    kind : {"capture", "planner", "action", "verdict"}, success : BOOLEAN])
  /\ history \in Seq([iteration : 1 .. MaxIterations, success : BOOLEAN])
  /\ attempt \in 0 .. MAX_LLM_ATTEMPTS - 1
  /\ verb \in Actions \cup Verdicts \cup {"none"}
  /\ repeat \in 1 .. MaxRepeat
  /\ todo \in Nat
  /\ delivered \in Nat
  /\ outcome \in Outcomes
  /\ result.status \in {"none", "success", "failure", "terminal", "aborted"}
  /\ performed \in Nat
  /\ seen \in 0 .. performed
  /\ refused \in BOOLEAN

(* Every iteration leaves exactly one step, in order, whichever phase ends *)
(* it, and the result counts the steps it carries: the report's steps and  *)
(* totalIterations, kept apart in the code, never drift.                   *)
OneStepPerIteration ==
  /\ \A i \in DOMAIN steps : steps[i].iteration = i
  /\ pc = "head" => Len(steps) = iteration
  /\ pc = "ended" => Len(steps) = result.total

(* The planner judges, and the grounders locate elements on, a screen that *)
(* was captured after every action that has reached the device, also after *)
(* failed captures and actions that failed half-way.                       *)
PlannedOnFreshScreen ==
  /\ pc \in {"plan", "act", "ground", "visual", "finish"} => seen = performed
  /\ pc = "ended" /\ result.status = "success" => seen = performed

(* One transient capture failure is tolerated, two in a row end the run,   *)
(* and nothing but two in a row ends it for that reason.                   *)
CaptureFailuresInRow ==
  {i \in DOMAIN steps : i + 1 \in DOMAIN steps /\ steps[i].kind = "capture"
                                               /\ steps[i + 1].kind = "capture"}
RepeatedCaptureFailureEnds ==
  /\ pc = "head" => CaptureFailuresInRow = {}
  /\ result.why = "repeatedCapture" => CaptureFailuresInRow = {iteration - 1}

(* What the planner is told was done is what was recorded as done, in      *)
(* order and with the same outcome: whenever the planner is about to be    *)
(* asked, the history has a line for every action step and no other line.  *)
HistoryIsWhatHappened ==
  pc = "plan" =>
    /\ {history[j] : j \in DOMAIN history} =
         {[iteration |-> steps[i].iteration, success |-> steps[i].success] :
            i \in {n \in DOMAIN steps : steps[n].kind = "action"}}
    /\ \A j, k \in DOMAIN history : j < k => history[j].iteration < history[k].iteration

(* Once the provider has answered 400 or 401, from whichever of the three  *)
(* kinds of request, nothing more is asked of it or done on the device,    *)
(* and the result says why.                                                *)
NothingAfterRefusal ==
  [][/\ refused => UNCHANGED <<iteration, attempt, performed>>
     /\ refused /\ pc' = "ended" => result'.status = "terminal"]_vars

(* The loop implements the promise the session relies on. *)
Outcome == INSTANCE GoalOutcome WITH
  stage <- CASE pc = "head" -> "loop"
             [] pc \in {"ended", "threw"} -> pc
             [] OTHER -> "iterating",
  status <- result.status
ImplementsOutcome == Outcome!Spec

(* A tap that is recorded as a success was repeated as often as the plan-  *)
(* ner asked.                                                              *)
TapsDelivered ==
  pc = "postCapture" /\ verb = "tap" /\ outcome = "success" => delivered = repeat
=============================================================================
