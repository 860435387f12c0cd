-------------------------- MODULE MCDeviceSession ---------------------------
(* Two operations of one session, on a host with one AVD, one phone and one *)
(* simulator: two Android devices may run at once, or a device of each kind *)
EXTENDS DeviceSession
MCMaxOps == 2
=============================================================================
