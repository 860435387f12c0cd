----------------------------- MODULE MCPortPool -----------------------------
(***************************************************************************)
(* Three overlapping callers, two devices and a range of two ports: a      *)
(* caller can wait behind a scan and another wait, a scan can meet a       *)
(* reserved port and a squatted one, and the range can run out.            *)
(***************************************************************************)
EXTENDS PortPool
=============================================================================
