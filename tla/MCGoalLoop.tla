----------------------------- MODULE MCGoalLoop -----------------------------
(***************************************************************************)
(* Three iterations and taps repeated at most twice: the shortest run in   *)
(* which capture failures can be adjacent or apart, an action can lie      *)
(* between two planner calls, and a repeated tap can fail half-way.        *)
(***************************************************************************)
EXTENDS GoalLoop
=============================================================================
