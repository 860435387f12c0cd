----------------------------- MODULE MCTestRun ------------------------------
(***************************************************************************)
(* Two tests of two iterations, on either platform, and up to two SIGINTs: *)
(* an abort can fall before, inside and between the tests, and every early *)
(* end of the first test is one before a test that was never begun.        *)
(***************************************************************************)
EXTENDS TestRun
=============================================================================
