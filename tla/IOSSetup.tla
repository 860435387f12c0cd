------------------------------ MODULE IOSSetup ------------------------------
(***************************************************************************)
(* IOSSimulatorSetup.prepare and the restartDriver it hands out.           *)
(***************************************************************************)
EXTENDS DriverHost

IOSDriverInstalled ==
  /\ At("iosInstall")
  /\ at' \in {"iosAllocate", "rollback"}
  /\ UNCHANGED <<platform, wipe, machine, link, client, trace, op>>

IOSPortTaken ==
  /\ At("iosAllocate")
  /\ \/ GoTo("iosTerminate") /\ link' = [link EXCEPT !.pooled = TRUE]
     \/ GoTo("rollback") /\ UNCHANGED link
  /\ UNCHANGED <<platform, wipe, machine, client, trace, op>>

(* Stale processes on the port are killed and a running driver terminated, *)
(* best-effort; launch --terminate-running-process does it once more.      *)
IOSDriverStarted ==
  /\ At("iosTerminate")
  /\ host' = "alive"
  /\ startup' = [complete |-> FALSE, failure |-> FALSE]
  /\ driver' = "starting"
  /\ ChannelCreated
  /\ trace' = [trace EXCEPT !.started = 1]
  /\ GoTo("connect")
  /\ UNCHANGED <<platform, wipe, link, op>>

(* Here the polling that gives up leaves the child to the rollback. *)
IOSUnreachable ==
  /\ ~Android /\ At("connect")
  /\ GoTo("rollback")
  /\ UNCHANGED <<platform, wipe, machine, link, client, trace, op>>

IOSReady ==
  /\ ~Android /\ At("ready")
  /\ \/ Reachable /\ ~startup.failure /\ GoTo("appIds")
     \/ GoTo("rollback")
  /\ UNCHANGED <<platform, wipe, machine, link, client, trace, op>>

(* The list of apps goes to the driver.  A child that ends meanwhile is    *)
(* not noticed any more: failureMessage has been read for the last time.   *)
IOSAppIdsSent ==
  /\ At("appIds")
  /\ \/ /\ Reachable /\ GoTo("override")
        /\ startup' = [startup EXCEPT !.complete = TRUE]
        /\ trace' = [trace EXCEPT !.prepared = TRUE]
     \/ GoTo("rollback") /\ UNCHANGED <<startup, trace>>
  /\ UNCHANGED <<platform, wipe, host, driver, link, client, op>>

IOSRolledBack ==
  /\ ~Android /\ At("rollback")
  /\ \E no \in BOOLEAN :
       /\ driver' = IF trace.started = 1 THEN DriverAfter(no) ELSE driver
       /\ Refuse(no)
  /\ link' = [link EXCEPT !.pooled = FALSE]
  /\ ClientCloses
  /\ GoTo("failed")
  /\ UNCHANGED <<platform, wipe, host, startup, op>>

IOSStep ==
  \/ IOSDriverInstalled \/ IOSPortTaken \/ IOSDriverStarted \/ IOSUnreachable
  \/ IOSReady \/ IOSAppIdsSent \/ IOSRolledBack

-----------------------------------------------------------------------------
(* restartDriver: the driver is terminated, the channel closed and opened  *)
(* again to a new child; any failure is thrown to the operation.           *)
RestartBegins ==
  /\ At("restart")
  /\ host' = "alive"
  /\ startup' = [complete |-> FALSE, failure |-> FALSE]
  /\ driver' = "starting"
  /\ client' = [client EXCEPT !.open = TRUE, !.connected = FALSE]
  /\ GoTo("reconnect")
  /\ UNCHANGED <<platform, wipe, link, trace>>

Reconnected ==
  /\ At("reconnect")
  /\ Connects
  /\ GoTo("reready")
  /\ UNCHANGED <<platform, wipe, machine, link, trace>>

ReadyAgain ==
  /\ At("reready") /\ Reachable
  /\ GoTo("reAppIds")
  /\ UNCHANGED <<platform, wipe, machine, link, client, trace>>
=============================================================================
