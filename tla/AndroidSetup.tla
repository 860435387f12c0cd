---------------------------- MODULE AndroidSetup ----------------------------
(***************************************************************************)
(* AndroidDeviceSetup.prepare: clean up, install, forward, start the       *)
(* instrumentation, wait for its server and its screenshots; one retry     *)
(* when the screenshots never come; roll back when anything fails.         *)
(***************************************************************************)
EXTENDS DriverHost

AdbPathFound ==
  /\ At("adbPath")
  /\ \/ GoTo("stale") /\ UNCHANGED client
     \/ GoTo("failed") /\ ClientCloses
  /\ UNCHANGED <<platform, wipe, machine, link, trace, op>>

(* Force-stops, pm clear and the wait for the process: all best-effort.    *)
StaleCleaned ==
  /\ At("stale")
  /\ driver' \in {driver, "down"}
  /\ GoTo("installDriver")
  /\ UNCHANGED <<platform, wipe, host, startup, link, client, trace, op>>

(* The driver's package and the test runner's, each tried again after an   *)
(* uninstall when it was there already; a missing test runner is a warning.*)
PackageInstalled ==
  /\ \/ At("installDriver") /\ at' \in {"installTest", "rollback"}
     \/ At("installTest") /\ at' \in {"allocate", "rollback"}
  /\ UNCHANGED <<platform, wipe, machine, link, client, trace, op>>

PortTaken ==
  /\ At("allocate")
  /\ \/ GoTo("forward") /\ link' = [link EXCEPT !.pooled = TRUE]
     \/ GoTo("rollback") /\ UNCHANGED link
  /\ UNCHANGED <<platform, wipe, machine, client, trace, op>>

(* A forward that fails gives its port back. *)
PortForwarded ==
  /\ At("forward")
  /\ \/ GoTo("spawn") /\ link' = [link EXCEPT !.forwarded = TRUE]
     \/ GoTo("rollback") /\ link' = [link EXCEPT !.pooled = FALSE]
  /\ UNCHANGED <<platform, wipe, machine, client, trace, op>>

InstrumentationStarted ==
  /\ Android /\ At("spawn")
  /\ Spawns
  /\ trace' = [trace EXCEPT !.started = @ + 1]
  /\ GoTo("connect")
  /\ UNCHANGED <<platform, wipe, link, op>>

(* The polling gives up, on the child's failure or after its 240 attempts. *)
AndroidUnreachable ==
  /\ Android /\ At("connect")
  /\ host' = HostKilled
  /\ GoTo("rollback")
  /\ UNCHANGED <<platform, wipe, startup, driver, link, client, trace, op>>

(* Screenshots come, and the check of failureMessage and setupComplete     *)
(* follow at once.                                                         *)
AndroidReady ==
  /\ Android /\ At("ready") /\ Reachable
  /\ IF startup.failure
     THEN GoTo("rollback") /\ UNCHANGED <<startup, trace>>
     ELSE /\ GoTo("override")
          /\ startup' = [startup EXCEPT !.complete = TRUE]
          /\ trace' = [trace EXCEPT !.prepared = TRUE]
  /\ UNCHANGED <<platform, wipe, host, driver, link, client, op>>

(* Only a transient failure of a child that is well, the first time, is    *)
(* worth a retry.                                                          *)
AndroidNotReady ==
  /\ Android /\ At("ready")
  /\ \/ ~startup.failure /\ trace.started = 1 /\ GoTo("tearDown")
     \/ GoTo("rollback")
  /\ UNCHANGED <<platform, wipe, machine, link, client, trace, op>>

(* Mutant: the wait for the prior process is as best-effort as elsewhere. *)
AttemptTornDownAnyway ==
  /\ At("tearDown")
  /\ host' = HostKilled
  /\ driver' \in {driver, "down"}
  /\ GoTo("spawn")
  /\ UNCHANGED <<platform, wipe, startup, link, client, trace, op>>

(* _waitForProcessGone takes a pidof that fails for a process that is gone.*)
AttemptTornDown ==
  /\ At("tearDown")
  /\ host' = HostKilled
  /\ \E answered \in BOOLEAN :
       /\ driver' \in {driver, "down"}
       /\ GoTo(IF driver' = "down" \/ ~answered THEN "spawn" ELSE "rollback")
       /\ Refuse(~answered)
  /\ UNCHANGED <<platform, wipe, startup, link, client, op>>

(* removePortForward: nothing without a port in the pool; else adb's       *)
(* failure is ignored and the port released all the same.                  *)
ForwardRemoved(no) ==
  link' = IF link.pooled THEN [pooled |-> FALSE, forwarded |-> link.forwarded /\ no] ELSE link

(* Mutant: the instrumentation is left to the next set-up. *)
AndroidRolledBackKept ==
  /\ Android /\ At("rollback")
  /\ host' = HostKilled
  /\ \E no \in BOOLEAN : ForwardRemoved(no) /\ Refuse(no)
  /\ driver' = driver
  /\ ClientCloses
  /\ GoTo("failed")
  /\ UNCHANGED <<platform, wipe, startup, op>>

(* _rollbackFailedSetup, and GrpcDriverSetup.setUp's close of the channel *)
AndroidRolledBack ==
  /\ Android /\ At("rollback")
  /\ host' = HostKilled
  /\ \E noForward, noStop \in BOOLEAN :
       /\ ForwardRemoved(noForward)
       /\ driver' = DriverAfter(noStop)
       /\ Refuse(noForward \/ noStop)
  /\ ClientCloses
  /\ GoTo("failed")
  /\ UNCHANGED <<platform, wipe, startup, op>>

AndroidStep ==
  \/ AdbPathFound \/ StaleCleaned \/ PackageInstalled \/ PortTaken \/ PortForwarded
  \/ InstrumentationStarted \/ AndroidUnreachable \/ AndroidReady \/ AndroidNotReady
  \/ AttemptTornDown \/ AndroidRolledBack
=============================================================================
