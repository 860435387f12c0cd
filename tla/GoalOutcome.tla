---------------------------- MODULE GoalOutcome -----------------------------
(***************************************************************************)
(* What TestExecutor.executeGoal promises to the session that awaits it:   *)
(* at most MaxIterations iterations, none begun after abort() was called,  *)
(* and an end, with one verdict or an exception.  SessionRun's loop has    *)
(* these steps; GoalLoop, the detailed module, implements them.            *)
(***************************************************************************)
EXTENDS Naturals

CONSTANT MaxIterations

VARIABLES
  stage,       \* "loop" between iterations, "iterating", "ended" or "threw"
  iteration,   \* iterations begun
  aborted,     \* abort() has been called
  status       \* the result's status, "terminal" when the provider refused

outcomeVars == <<stage, iteration, aborted, status>>

Init ==
  /\ stage = "loop"
  /\ iteration = 0
  /\ aborted = FALSE
  /\ status = "none"

Abort == aborted' = TRUE /\ UNCHANGED <<stage, iteration, status>>

Iterate ==
  /\ stage = "loop"
  /\ iteration < MaxIterations
  /\ ~aborted
  /\ stage' = "iterating"
  /\ iteration' = iteration + 1
  /\ UNCHANGED <<aborted, status>>

End(verdict) ==
  /\ stage' = "ended"
  /\ status' = verdict
  /\ UNCHANGED <<iteration, aborted>>

Aborts == stage = "loop" /\ iteration < MaxIterations /\ aborted /\ End("aborted")

Exhausts == stage = "loop" /\ iteration = MaxIterations /\ End("failure")

Decides == stage = "iterating" /\ \E v \in {"success", "failure", "terminal"} : End(v)

Continues ==
  /\ stage = "iterating"
  /\ stage' = "loop"
  /\ UNCHANGED <<iteration, aborted, status>>

Throws ==
  /\ stage \in {"loop", "iterating"}
  /\ stage' = "threw"
  /\ UNCHANGED <<iteration, aborted, status>>

Progress == Iterate \/ Aborts \/ Exhausts \/ Decides \/ Continues \/ Throws

Safety == Init /\ [][Progress \/ Abort]_outcomeVars

Spec == Safety /\ WF_outcomeVars(Progress)
=============================================================================
