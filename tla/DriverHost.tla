----------------------------- MODULE DriverHost -----------------------------
(***************************************************************************)
(* What the set-up of a driver and the operations through it share: the    *)
(* host's child process (adb shell am instrument, or simctl launch         *)
(* --console), the driver on the device, the port, the adb forward and the *)
(* gRPC channel to it.  One device, one session.                           *)
(***************************************************************************)
EXTENDS Naturals

CONSTANT MaxOps   \* bound: how many operations the session performs
ASSUME DriverAssumption == MaxOps \in Nat

VARIABLES
  platform, \* of the device chosen
  wipe,     \* DeviceNode's clean-up of stale forwards: "running", "clearing" or "done"
  at,       \* where the session stands
  host,     \* the child process last spawned
  startup,  \* its startup state: setupComplete, failureMessage
  driver,   \* the driver on the device
  link,     \* the device's port in the pool, and its forward in adb
  client,   \* GrpcDriverClient: _client, _connected; a channel it lost sight of
  trace,    \* history: drivers started, commands refused in a clean-up, prepare's success
  op        \* the operation in progress, see DriverCalls

machine == <<host, startup, driver>>
hostVars == <<platform, wipe, at, machine, link, client, trace>>

(* `exited' has an exit code and `killed', by a signal from outside, has   *)
(* none; `stopped' was killed by this process, which sets child.killed.    *)
HostStates == {"none", "alive", "exited", "killed", "stopped"}

Android == platform = "android"
At(place) == at = place
GoTo(place) == at' = place

(* A request can get to the driver *)
Reachable == driver = "up" /\ client.open /\ (Android => link.forwarded)

HostTypeOK ==
  /\ platform \in {"android", "ios", "none"}
  /\ wipe \in {"running", "clearing", "done"}
  /\ host \in HostStates
  /\ startup \in [complete : BOOLEAN, failure : BOOLEAN]
  /\ driver \in {"down", "starting", "up"}
  /\ link \in [pooled : BOOLEAN, forwarded : BOOLEAN]
  /\ client \in [open : BOOLEAN, connected : BOOLEAN, leaked : BOOLEAN]
  /\ trace \in [started : 0..2, refused : BOOLEAN, prepared : BOOLEAN]

(* An earlier run may have left its driver and its forward behind. *)
HostInit ==
  /\ platform = "none"
  /\ wipe = "running"
  /\ at = "detect"
  /\ host = "none"
  /\ startup = [complete |-> FALSE, failure |-> FALSE]
  /\ driver \in {"down", "up"}
  /\ link \in [pooled : {FALSE}, forwarded : BOOLEAN]
  /\ client = [open |-> FALSE, connected |-> FALSE, leaked |-> FALSE]
  /\ trace = [started |-> 0, refused |-> FALSE, prepared |-> FALSE]

Refuse(no) == trace' = [trace EXCEPT !.refused = @ \/ no]
ClientCloses == client' = [client EXCEPT !.open = FALSE, !.connected = FALSE]

(* createChannel puts a new channel in _client without closing the one     *)
(* that was there, which nothing can close any more.                       *)
ChannelCreated == client' = [client EXCEPT !.open = TRUE, !.leaked = @ \/ client.open]

(* kill('SIGKILL') reaches a child that still runs. *)
HostKilled == IF host = "alive" THEN "stopped" ELSE host

(* What a command that stops the driver leaves of it, if it is not refused *)
DriverAfter(no) == IF no THEN driver ELSE "down"

-----------------------------------------------------------------------------
(* _cleanupStaleAdbForwards, begun by init and not awaited there: adb      *)
(* removes every forward or refuses; either way the pool is cleared.       *)
ForwardsWiped ==
  /\ wipe = "running"
  /\ wipe' = "clearing"
  /\ link' \in {link, [link EXCEPT !.forwarded = FALSE]}
  /\ UNCHANGED <<platform, at, machine, client, trace, op>>

PoolCleared ==
  /\ wipe = "clearing"
  /\ wipe' = "done"
  /\ link' = [link EXCEPT !.pooled = FALSE]
  /\ UNCHANGED <<platform, at, machine, client, trace, op>>

(* startAndroidDriverFn and startDriver with the tracking of the child,    *)
(* then _connectWithPolling's createChannel                                *)
Spawns ==
  /\ host' = "alive"
  /\ startup' = [complete |-> FALSE, failure |-> FALSE]
  /\ driver' = IF driver = "up" THEN "up" ELSE "starting"
  /\ ChannelCreated

DriverComesUp ==
  /\ driver = "starting" /\ host = "alive"
  /\ driver' = "up"
  /\ UNCHANGED <<platform, wipe, at, host, startup, link, client, trace, op>>

(* The child's exit: before the set-up is complete it is its failure.      *)
HostEnds ==
  /\ host = "alive"
  /\ host' \in {"exited", "killed"}
  /\ startup' = [startup EXCEPT !.failure = @ \/ ~startup.complete]
  /\ driver' \in {driver, "down"}
  /\ UNCHANGED <<platform, wipe, at, link, client, trace, op>>

(* A ping that was answered ends the polling, whatever became of the child *)
(* while it was on its way.                                                *)
Connects == Reachable /\ client' = [client EXCEPT !.connected = TRUE]
=============================================================================
