--------------------------- MODULE DeviceSession ----------------------------
(***************************************************************************)
(* A device session from prepareTestSession to its close: DeviceNode's     *)
(* init with its concurrent clean-up, the discovery of a device, the       *)
(* driver's set-up, the operations, and the close.                         *)
(***************************************************************************)
EXTENDS DriverCalls, Discovery

vars == <<hostVars, op, found>>

Init == HostInit /\ CallsInit /\ DiscoveryInit

(* Mutant: setUpDevice does not wait for the clean-up. *)
SetUpBeginsAtOnce ==
  /\ At("setUp")
  /\ GoTo(IF Android THEN "adbPath" ELSE "iosInstall")
  /\ UNCHANGED <<platform, wipe, machine, link, client, trace, op>>

SetUpBegins ==
  /\ At("setUp")
  /\ wipe = "done"
  /\ GoTo(IF Android THEN "adbPath" ELSE "iosInstall")
  /\ UNCHANGED <<platform, wipe, machine, link, client, trace, op>>

Connected ==
  /\ At("connect")
  /\ Connects
  /\ GoTo("ready")
  /\ UNCHANGED <<platform, wipe, machine, link, trace, op>>

(* The app override and the app's launch, either of which may throw. *)
AppPrepared ==
  /\ \/ At("override") /\ at' \in {"appReady", "cleanUp"}
     \/ At("appReady") /\ at' \in {"idle", "cleanUp"}
  /\ UNCHANGED <<platform, wipe, machine, link, client, trace, op>>

(* DeviceNode.cleanup: the runtime's close.  Android gives up its forward, *)
(* iOS terminates its driver; the channel is closed whatever happens.      *)
SessionEnds ==
  /\ at \in {"idle", "cleanUp"}
  /\ \E no \in BOOLEAN :
       /\ IF Android
          THEN ForwardRemoved(no) /\ UNCHANGED driver
          ELSE driver' = DriverAfter(no) /\ UNCHANGED link
       /\ Refuse(no)
  /\ ClientCloses
  /\ GoTo(IF At("idle") THEN "closed" ELSE "failed")
  /\ UNCHANGED <<platform, wipe, host, startup, op>>

Progress ==
  \/ DiscoveryStep
  \/ /\ \/ ForwardsWiped \/ PoolCleared
        \/ SetUpBegins \/ Connected \/ AppPrepared
        \/ AndroidStep \/ IOSStep
        \/ CallStep
     /\ UNCHANGED found

Settled == at \in {"failed", "closed"}

Next ==
  \/ Progress
  \/ (OperationBegins \/ SessionEnds \/ DriverComesUp \/ HostEnds) /\ UNCHANGED found
  \/ Settled /\ wipe = "done" /\ UNCHANGED vars

(* Every await is of a command or a poll that ends, and so is a clean-up.  *)
Fairness == WF_vars(Progress) /\ WF_vars(SessionEnds /\ At("cleanUp") /\ UNCHANGED found)

Spec == Init /\ [][Next]_vars
FairSpec == Spec /\ Fairness

-----------------------------------------------------------------------------
Places ==
  {"detect", "start", "await", "redetect", "setUp",
   "adbPath", "stale", "installDriver", "installTest", "allocate", "forward", "spawn", "tearDown",
   "iosInstall", "iosAllocate", "iosTerminate", "appIds", "connect", "ready", "rollback",
   "override", "appReady", "idle", "call", "thrown",
   "restart", "reconnect", "reready", "reAppIds", "cleanUp", "failed", "closed"}

TypeOK == at \in Places /\ HostTypeOK /\ CallsTypeOK /\ DiscoveryTypeOK

(* The driver is set up on the device that was asked for, however often    *)
(* the inventory was taken and whatever else was running meanwhile: it was *)
(* seen runnable last, under the identifier it was chosen by, on the       *)
(* platform requested.                                                     *)
SetUpOnTheChosen ==
  platform # "none" /\ at \notin {"start", "await", "redetect", "failed"} =>
    /\ found.chosen.state = "runnable"
    /\ found.chosen.id = found.asked
    /\ found.chosen.platform = platform
    /\ found.requested \in {"any", platform}

(* The forward of a driver that is being started, polled or used is there  *)
(* until the session gives it up: the clean-up that init left running can  *)
(* wipe neither it nor its port.                                           *)
ForwardStands ==
  Android /\ at \in {"spawn", "connect", "ready", "tearDown", "override", "appReady",
                     "idle", "call", "thrown"}
    => link.pooled /\ link.forwarded

(* A set-up that failed, wherever it did, has closed the channel its       *)
(* client knows, and holds no port and, unless a command of its clean-up   *)
(* was refused, no forward and no driver that it had started; on Android   *)
(* no child either.  What it may leave open is the channel of an earlier   *)
(* attempt, and only where Android's instrumentation was started twice:    *)
(* the second attempt's createChannel overwrites the first's.              *)
FailedSetupReleases ==
  At("failed") =>
    /\ ~client.open
    /\ client.leaked => Android /\ trace.started = 2
    /\ Android \/ ~trace.prepared => ~link.pooled
    /\ Android /\ trace.started > 0 /\ ~trace.refused => ~link.forwarded
    /\ ~trace.prepared => /\ Android => host # "alive"
                          /\ trace.started > 0 /\ ~trace.refused => driver = "down"

(* A second instrumentation is not started while the first is known to     *)
(* hold on to the device's accessibility service.                          *)
RetryAfterPriorGone ==
  [][trace.started = 1 /\ trace'.started = 2 => driver = "down" \/ trace.refused]_vars

(* However calls fail, are retried, and drivers restarted under them, an   *)
(* operation touches the device at most once; a launch at most three times.*)
AtMostOnce ==
  /\ op.kind = "act" => op.hits <= 1
  /\ op.kind = "launch" => op.hits <= 3

(* Every preparation ends, established or failed, and so does every        *)
(* operation, its restart and its replay included.                         *)
EverythingSettles == []<>(Settled \/ At("idle"))

(* An operation whose calls fail because the driver's process has exited   *)
(* has restarted the driver, or tried to.                                  *)
DeadDriverIsRestarted ==
  [][~Android /\ at \in {"call", "thrown"} /\ at' = "idle" /\ host = "exited" /\ ~Reachable
       => op.restarts = 1]_vars
=============================================================================
