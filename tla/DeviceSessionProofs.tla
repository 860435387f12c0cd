------------------------ MODULE DeviceSessionProofs -------------------------
(***************************************************************************)
(* Theorems about a device session, for any number of targets of the host  *)
(* and of operations: what its invariants say, and that what it has left   *)
(* to do (StepsToGo) is a number that every step of its own makes smaller. *)
(***************************************************************************)
EXTENDS DeviceSession, TLAPS

(* Where a session stands before the driver's port is taken, before the    *)
(* driver is started, and once it is set up                                *)
Choosing == {"detect", "start", "await", "redetect", "setUp"}
Unlinked == Choosing \cup {"adbPath", "stale", "installDriver", "installTest", "allocate",
                           "iosInstall", "iosAllocate"}
Unstarted == Unlinked \cup {"forward", "iosTerminate"}
Operating == {"idle", "call", "thrown"}
Restarting == {"restart", "reconnect", "reready", "reAppIds"}
SetUp == Operating \cup Restarting \cup {"override", "appReady", "cleanUp", "closed"}

(* What the steps of one platform rely on *)
PlatformInv ==
  /\ at \in {"adbPath", "stale", "installDriver", "installTest", "allocate", "forward", "spawn", "tearDown"}
       => Android
  /\ at \in Restarting \cup {"iosInstall", "iosAllocate", "iosTerminate", "appIds"} => ~Android

(* How far the set-up has got *)
StartInv ==
  /\ at \in Unstarted => trace.started = 0 /\ host = "none" /\ ~client.open
  /\ at \in Unlinked => ~link.pooled
  /\ at = "spawn" => trace.started <= 1
  /\ at = "tearDown" => trace.started = 1
  /\ ~Android => trace.started <= 1
  /\ trace.prepared => at \in SetUp \cup {"failed"}
  /\ at \in SetUp => trace.prepared

(* The clean-up is over when the forward is made, and the forward is there *)
(* whenever the driver may be.                                             *)
LinkInv ==
  /\ at \notin Choosing \cup {"failed"} => wipe = "done"
  /\ at = "forward" => link.pooled
  /\ Android /\ at \in Operating \cup {"spawn", "connect", "ready", "tearDown", "override", "appReady", "cleanUp"}
       => link.pooled /\ link.forwarded
  /\ Android /\ at = "rollback" /\ trace.started > 0 => link.pooled

(* A second start waits for the end of the first *)
PriorInv == at = "spawn" /\ trace.started = 1 => driver = "down" \/ trace.refused

(* A channel is lost sight of only by the second start of the              *)
(* instrumentation: before the first there is none to lose.                *)
LeakInv ==
  /\ client.leaked => Android /\ trace.started = 2
  /\ at = "spawn" /\ client.open => trace.started = 1

(* What the choice of a device is, from when it is made *)
ChoiceInv ==
  /\ at = "detect" => platform = "none"
  /\ at \notin {"detect", "failed"} =>
       /\ found.chosen \in Entries
       /\ found.chosen.id = found.asked
       /\ found.chosen.platform = platform
       /\ found.requested \in {"any", platform}
  /\ at \notin {"detect", "start", "await", "redetect", "failed"} => found.chosen.state = "runnable"

(* The hits of an operation are bounded by its tries, and a call that is   *)
(* begun again after a restart is one that does not touch the device.      *)
OpInv ==
  /\ op.kind # "capture" => op.tries <= MaxRetries(op.kind)
  /\ ~TouchesDevice(op.kind) => op.hits = 0
  /\ at = "call" => op.hits <= op.tries
  /\ op.hits <= MaxRetries(op.kind) + 1

-----------------------------------------------------------------------------
(* What adb shows, in whatever state the emulators and phones are, are     *)
(* entries.                                                                *)
LEMMA AdbSeenInEntries ==
  ASSUME NEW emulators \in [Avds -> {"off", "dead", "named", "unnamed"}],
         NEW phones \in [Phones -> {"absent", "dead", "runnable"}]
  PROVE  AdbSeen(emulators, phones) \subseteq Entries
<1>1. ASSUME NEW t \in Avds, emulators[t] # "off"
      PROVE  Entry(IF emulators[t] = "named" THEN "avd" ELSE "serial", t,
                   IF emulators[t] = "dead" THEN "dead" ELSE "runnable") \in Entries
  BY DEF Entries
<1>2. ASSUME NEW t \in Phones, phones[t] # "absent"
      PROVE  Entry("serial", t, phones[t]) \in Entries
  BY <1>2 DEF Entries
<1>. QED  BY <1>1, <1>2 DEF AdbSeen

(* An identifier tells its entry's platform. *)
LEMMA EntryIdentity ==
  \A d, e \in Entries : d.id = e.id => d.platform = e.platform
<1>1. \A e \in Entries : e.platform = IF e.id[1] = "sim" THEN "ios" ELSE "android"
  BY DEF Entries, Entry
<1>. QED  BY <1>1

(* The steps of Next that none of its named groups holds *)
OtherStep ==
  \/ ForwardsWiped \/ PoolCleared \/ SetUpBegins \/ Connected \/ AppPrepared
  \/ OperationBegins \/ SessionEnds \/ DriverComesUp \/ HostEnds

(* The conjuncts of the host's type, which are inductive one by one *)
MachineOK ==
  /\ wipe \in {"running", "clearing", "done"}
  /\ host \in HostStates
  /\ startup \in [complete : BOOLEAN, failure : BOOLEAN]
  /\ driver \in {"down", "starting", "up"}
LinkOK == link \in [pooled : BOOLEAN, forwarded : BOOLEAN]
ClientOK == client \in [open : BOOLEAN, connected : BOOLEAN, leaked : BOOLEAN]
TraceOK == trace \in [started : 0..2, refused : BOOLEAN, prepared : BOOLEAN]

(* A session takes the steps of its own platform. *)
LEMMA PlatformStep == PlatformInv /\ [Next]_vars => PlatformInv'
<1>. SUFFICES ASSUME PlatformInv, [Next]_vars PROVE PlatformInv'
  OBVIOUS
<1>. USE DEF PlatformInv, Restarting, At, GoTo, Android, hostVars, machine,
     unmoved, vars
<1>1. CASE DiscoveryStep
  BY <1>1 DEF DiscoveryStep, AdbProbed, Probed, Detecting, others,
       SimctlProbed, TargetsProbed, EntryChosen, TargetStarted, StartAwaited,
       TargetFound
<1>2. CASE AndroidStep /\ UNCHANGED found
  BY <1>2 DEF AndroidStep, AdbPathFound, ClientCloses, StaleCleaned,
       PackageInstalled, PortTaken, PortForwarded, InstrumentationStarted,
       Spawns, AndroidUnreachable, HostKilled, AndroidReady, Reachable,
       AndroidNotReady, AttemptTornDown, Refuse, AndroidRolledBack,
       ForwardRemoved, DriverAfter
<1>3. CASE IOSStep /\ UNCHANGED found
  BY <1>3 DEF IOSStep, IOSDriverInstalled, IOSPortTaken, IOSDriverStarted,
       IOSUnreachable, IOSReady, Reachable, IOSAppIdsSent, IOSRolledBack,
       DriverAfter, Refuse, ClientCloses
<1>4. CASE CallStep /\ UNCHANGED found
  BY <1>4 DEF CallStep, CallAnswered, Delivered, Reachable, CallFails,
       CaptureFails, RecoveryBegins, LooksAlive, OperationFails,
       RecoveryEnds, RecoveryFails, RestartBegins, Reconnected, Connects,
       ReadyAgain
<1>5. CASE OtherStep /\ UNCHANGED found
  BY <1>5 DEF OtherStep, ForwardsWiped, PoolCleared, SetUpBegins, Connected,
       Connects, Reachable, AppPrepared, OperationBegins, SessionEnds,
       ForwardRemoved, DriverAfter, Refuse, ClientCloses, DriverComesUp,
       HostEnds
<1>6. CASE UNCHANGED vars
  BY <1>6 DEF vars
<1>. QED  BY <1>1, <1>2, <1>3, <1>4, <1>5, <1>6 DEF Next, Progress, OtherStep

(* No step starts a driver, opens a channel or takes a port out of turn. *)
LEMMA StartStep == TypeOK /\ PlatformInv /\ StartInv /\ [Next]_vars => StartInv'
<1>. SUFFICES ASSUME TypeOK, PlatformInv, StartInv, [Next]_vars PROVE StartInv'
  OBVIOUS
<1>. USE DEF TypeOK, HostTypeOK, StartInv, PlatformInv, Choosing, Unlinked,
     Unstarted, SetUp, Operating, Restarting, At, GoTo, Android, hostVars,
     machine, unmoved, vars
<1>1. CASE DiscoveryStep
  <2>1. CASE AdbProbed
    BY <1>1, <2>1 DEF AdbProbed, Probed, Detecting, others
  <2>2. CASE SimctlProbed
    BY <1>1, <2>2 DEF SimctlProbed, Probed, Detecting, others
  <2>3. CASE TargetsProbed
    BY <1>1, <2>3 DEF TargetsProbed, Probed, Detecting, others
  <2>4. CASE EntryChosen
    <3>1. at = "detect" /\ at' \in {"start", "setUp", "failed"} /\ UNCHANGED <<link, client, trace, host>>
      BY <1>1, <2>4 DEF EntryChosen, others
    <3>. QED  BY <3>1
  <2>5. CASE TargetStarted
    BY <1>1, <2>5 DEF TargetStarted, others
  <2>6. CASE StartAwaited
    BY <1>1, <2>6 DEF StartAwaited, others
  <2>7. CASE TargetFound
    BY <1>1, <2>7 DEF TargetFound, others
  <2>. QED  BY <1>1, <2>1, <2>2, <2>3, <2>4, <2>5, <2>6, <2>7 DEF DiscoveryStep
<1>2. CASE AndroidStep /\ UNCHANGED found
  <2>1. CASE AdbPathFound
    BY <1>2, <2>1 DEF AdbPathFound, ClientCloses
  <2>2. CASE StaleCleaned
    BY <1>2, <2>2 DEF StaleCleaned
  <2>3. CASE PackageInstalled
    BY <1>2, <2>3 DEF PackageInstalled
  <2>4. CASE PortTaken
    BY <1>2, <2>4 DEF PortTaken
  <2>5. CASE PortForwarded
    BY <1>2, <2>5 DEF PortForwarded
  <2>6. CASE InstrumentationStarted
    BY <1>2, <2>6 DEF InstrumentationStarted, Spawns
  <2>7. CASE AndroidUnreachable
    BY <1>2, <2>7 DEF AndroidUnreachable, HostKilled
  <2>8. CASE AndroidReady
    BY <1>2, <2>8 DEF AndroidReady, Reachable
  <2>9. CASE AndroidNotReady
    BY <1>2, <2>9 DEF AndroidNotReady
  <2>10. CASE AttemptTornDown
    BY <1>2, <2>10 DEF AttemptTornDown, HostKilled, Refuse
  <2>11. CASE AndroidRolledBack
    BY <1>2, <2>11 DEF AndroidRolledBack, HostKilled, ForwardRemoved,
         DriverAfter, Refuse, ClientCloses
  <2>. QED  BY <1>2, <2>1, <2>2, <2>3, <2>4, <2>5, <2>6, <2>7, <2>8, <2>9, <2>10, <2>11 DEF AndroidStep
<1>3. CASE IOSStep /\ UNCHANGED found
  <2>1. CASE IOSDriverInstalled
    BY <1>3, <2>1 DEF IOSDriverInstalled
  <2>2. CASE IOSPortTaken
    BY <1>3, <2>2 DEF IOSPortTaken
  <2>3. CASE IOSDriverStarted
    BY <1>3, <2>3 DEF IOSDriverStarted
  <2>4. CASE IOSUnreachable
    BY <1>3, <2>4 DEF IOSUnreachable
  <2>5. CASE IOSReady
    BY <1>3, <2>5 DEF IOSReady, Reachable
  <2>6. CASE IOSAppIdsSent
    BY <1>3, <2>6 DEF IOSAppIdsSent, Reachable
  <2>7. CASE IOSRolledBack
    BY <1>3, <2>7 DEF IOSRolledBack, DriverAfter, Refuse, ClientCloses
  <2>. QED  BY <1>3, <2>1, <2>2, <2>3, <2>4, <2>5, <2>6, <2>7 DEF IOSStep
<1>4. CASE CallStep /\ UNCHANGED found
  BY <1>4 DEF CallStep, CallAnswered, Delivered, Reachable, CallFails,
       CaptureFails, RecoveryBegins, LooksAlive, OperationFails,
       RecoveryEnds, RecoveryFails, RestartBegins, Reconnected, Connects,
       ReadyAgain
<1>5. CASE OtherStep /\ UNCHANGED found
  BY <1>5 DEF OtherStep, ForwardsWiped, PoolCleared, SetUpBegins, Connected,
       Connects, Reachable, AppPrepared, OperationBegins, SessionEnds,
       ForwardRemoved, DriverAfter, Refuse, ClientCloses, DriverComesUp,
       HostEnds
<1>6. CASE UNCHANGED vars
  BY <1>6 DEF vars
<1>. QED  BY <1>1, <1>2, <1>3, <1>4, <1>5, <1>6 DEF Next, Progress, OtherStep

(* The clean-up ends before the first forward, and only a clean-up or the  *)
(* close takes a forward away.                                             *)
LEMMA LinkStep == TypeOK /\ PlatformInv /\ StartInv /\ LinkInv /\ [Next]_vars => LinkInv'
<1>. SUFFICES ASSUME TypeOK, PlatformInv, StartInv, LinkInv, [Next]_vars PROVE LinkInv'
  OBVIOUS
<1>. USE DEF TypeOK, HostTypeOK, LinkInv, StartInv, PlatformInv, Choosing,
     Unlinked, Unstarted, Operating, Restarting, At, GoTo, Android, hostVars,
     machine, unmoved, vars
<1>1. CASE DiscoveryStep
  BY <1>1 DEF DiscoveryStep, AdbProbed, Probed, Detecting, others,
       SimctlProbed, TargetsProbed, EntryChosen, TargetStarted, StartAwaited,
       TargetFound
<1>2. CASE AndroidStep /\ UNCHANGED found
  <2>1. CASE AdbPathFound
    BY <1>2, <2>1 DEF AdbPathFound, ClientCloses
  <2>2. CASE StaleCleaned
    BY <1>2, <2>2 DEF StaleCleaned
  <2>3. CASE PackageInstalled
    BY <1>2, <2>3 DEF PackageInstalled
  <2>4. CASE PortTaken
    BY <1>2, <2>4 DEF PortTaken
  <2>5. CASE PortForwarded
    BY <1>2, <2>5 DEF PortForwarded
  <2>6. CASE InstrumentationStarted
    BY <1>2, <2>6 DEF InstrumentationStarted, Spawns
  <2>7. CASE AndroidUnreachable
    BY <1>2, <2>7 DEF AndroidUnreachable, HostKilled
  <2>8. CASE AndroidReady
    BY <1>2, <2>8 DEF AndroidReady, Reachable
  <2>9. CASE AndroidNotReady
    BY <1>2, <2>9 DEF AndroidNotReady
  <2>10. CASE AttemptTornDown
    BY <1>2, <2>10 DEF AttemptTornDown, HostKilled, Refuse
  <2>11. CASE AndroidRolledBack
    BY <1>2, <2>11 DEF AndroidRolledBack, HostKilled, ForwardRemoved,
         DriverAfter, Refuse, ClientCloses
  <2>. QED  BY <1>2, <2>1, <2>2, <2>3, <2>4, <2>5, <2>6, <2>7, <2>8, <2>9, <2>10, <2>11 DEF AndroidStep
<1>3. CASE IOSStep /\ UNCHANGED found
  BY <1>3 DEF IOSStep, IOSDriverInstalled, IOSPortTaken, IOSDriverStarted,
       IOSUnreachable, IOSReady, Reachable, IOSAppIdsSent, IOSRolledBack,
       DriverAfter, Refuse, ClientCloses
<1>4. CASE CallStep /\ UNCHANGED found
  BY <1>4 DEF CallStep, CallAnswered, Delivered, Reachable, CallFails,
       CaptureFails, RecoveryBegins, LooksAlive, OperationFails,
       RecoveryEnds, RecoveryFails, RestartBegins, Reconnected, Connects,
       ReadyAgain
<1>5. CASE OtherStep /\ UNCHANGED found
  BY <1>5 DEF OtherStep, ForwardsWiped, PoolCleared, SetUpBegins, Connected,
       Connects, Reachable, AppPrepared, OperationBegins, SessionEnds,
       ForwardRemoved, DriverAfter, Refuse, ClientCloses, DriverComesUp,
       HostEnds
<1>6. CASE UNCHANGED vars
  BY <1>6 DEF vars
<1>. QED  BY <1>1, <1>2, <1>3, <1>4, <1>5, <1>6 DEF Next, Progress, OtherStep

(* Tearing an attempt down finds its driver gone or is refused. *)
LEMMA PriorStep == TypeOK /\ StartInv /\ PriorInv /\ [Next]_vars => PriorInv'
<1>. SUFFICES ASSUME TypeOK, StartInv, PriorInv, [Next]_vars PROVE PriorInv'
  OBVIOUS
<1>. USE DEF TypeOK, HostTypeOK, PriorInv, StartInv, Choosing, Unlinked,
     Unstarted, At, GoTo, Android, hostVars, machine, unmoved, vars
<1>1. CASE DiscoveryStep
  BY <1>1 DEF DiscoveryStep, AdbProbed, Probed, Detecting, others,
       SimctlProbed, TargetsProbed, EntryChosen, TargetStarted, StartAwaited,
       TargetFound
<1>2. CASE AndroidStep /\ UNCHANGED found
  <2>1. CASE AdbPathFound
    BY <1>2, <2>1 DEF AdbPathFound, ClientCloses
  <2>2. CASE StaleCleaned
    BY <1>2, <2>2 DEF StaleCleaned
  <2>3. CASE PackageInstalled
    BY <1>2, <2>3 DEF PackageInstalled
  <2>4. CASE PortTaken
    BY <1>2, <2>4 DEF PortTaken
  <2>5. CASE PortForwarded
    BY <1>2, <2>5 DEF PortForwarded
  <2>6. CASE InstrumentationStarted
    BY <1>2, <2>6 DEF InstrumentationStarted, Spawns
  <2>7. CASE AndroidUnreachable
    BY <1>2, <2>7 DEF AndroidUnreachable, HostKilled
  <2>8. CASE AndroidReady
    BY <1>2, <2>8 DEF AndroidReady, Reachable
  <2>9. CASE AndroidNotReady
    BY <1>2, <2>9 DEF AndroidNotReady
  <2>10. CASE AttemptTornDown
    BY <1>2, <2>10 DEF AttemptTornDown, HostKilled, Refuse
  <2>11. CASE AndroidRolledBack
    BY <1>2, <2>11 DEF AndroidRolledBack, HostKilled, ForwardRemoved,
         DriverAfter, Refuse, ClientCloses
  <2>. QED  BY <1>2, <2>1, <2>2, <2>3, <2>4, <2>5, <2>6, <2>7, <2>8, <2>9, <2>10, <2>11 DEF AndroidStep
<1>3. CASE IOSStep /\ UNCHANGED found
  BY <1>3 DEF IOSStep, IOSDriverInstalled, IOSPortTaken, IOSDriverStarted,
       IOSUnreachable, IOSReady, Reachable, IOSAppIdsSent, IOSRolledBack,
       DriverAfter, Refuse, ClientCloses
<1>4. CASE CallStep /\ UNCHANGED found
  BY <1>4 DEF CallStep, CallAnswered, Delivered, Reachable, CallFails,
       CaptureFails, RecoveryBegins, LooksAlive, OperationFails,
       RecoveryEnds, RecoveryFails, RestartBegins, Reconnected, Connects,
       ReadyAgain
<1>5. CASE OtherStep /\ UNCHANGED found
  BY <1>5 DEF OtherStep, ForwardsWiped, PoolCleared, SetUpBegins, Connected,
       Connects, Reachable, AppPrepared, OperationBegins, SessionEnds,
       ForwardRemoved, DriverAfter, Refuse, ClientCloses, DriverComesUp,
       HostEnds
<1>6. CASE UNCHANGED vars
  BY <1>6 DEF vars
<1>. QED  BY <1>1, <1>2, <1>3, <1>4, <1>5, <1>6 DEF Next, Progress, OtherStep

(* A retry is counted before it is made, and none is made of an action. *)
LEMMA OpStep == TypeOK /\ OpInv /\ [Next]_vars => OpInv'
<1>. SUFFICES ASSUME TypeOK, OpInv, [Next]_vars PROVE OpInv'
  OBVIOUS
<1>. USE DEF OpInv, MaxRetries, TouchesDevice, Replayable, CallsTypeOK,
     TypeOK, Kinds, At, GoTo, Android, hostVars, machine, unmoved, vars
<1>1. CASE DiscoveryStep
  BY <1>1 DEF DiscoveryStep, AdbProbed, Probed, Detecting, others,
       SimctlProbed, TargetsProbed, EntryChosen, TargetStarted, StartAwaited,
       TargetFound
<1>2. CASE AndroidStep /\ UNCHANGED found
  BY <1>2 DEF AndroidStep, AdbPathFound, ClientCloses, StaleCleaned,
       PackageInstalled, PortTaken, PortForwarded, InstrumentationStarted,
       Spawns, AndroidUnreachable, HostKilled, AndroidReady, Reachable,
       AndroidNotReady, AttemptTornDown, Refuse, AndroidRolledBack,
       ForwardRemoved, DriverAfter
<1>3. CASE IOSStep /\ UNCHANGED found
  BY <1>3 DEF IOSStep, IOSDriverInstalled, IOSPortTaken, IOSDriverStarted,
       IOSUnreachable, IOSReady, Reachable, IOSAppIdsSent, IOSRolledBack,
       DriverAfter, Refuse, ClientCloses
<1>4. CASE CallStep /\ UNCHANGED found
  <2>1. CASE CallAnswered
    BY <1>4, <2>1 DEF CallAnswered, Delivered, Reachable
  <2>2. CASE CallFails
    BY <1>4, <2>2 DEF CallFails, Reachable
  <2>3. CASE CaptureFails
    BY <1>4, <2>3 DEF CaptureFails
  <2>4. CASE RecoveryBegins
    BY <1>4, <2>4 DEF RecoveryBegins, LooksAlive
  <2>5. CASE OperationFails
    BY <1>4, <2>5 DEF OperationFails, LooksAlive
  <2>6. CASE RecoveryEnds
    BY <1>4, <2>6 DEF RecoveryEnds, Reachable
  <2>7. CASE RecoveryFails
    BY <1>4, <2>7 DEF RecoveryFails
  <2>8. CASE RestartBegins /\ UNCHANGED op
    BY <1>4, <2>8 DEF RestartBegins
  <2>9. CASE Reconnected /\ UNCHANGED op
    BY <1>4, <2>9 DEF Reconnected, Connects, Reachable
  <2>10. CASE ReadyAgain /\ UNCHANGED op
    BY <1>4, <2>10 DEF ReadyAgain, Reachable
  <2>. QED  BY <1>4, <2>1, <2>2, <2>3, <2>4, <2>5, <2>6, <2>7, <2>8, <2>9, <2>10 DEF CallStep
<1>5. CASE OtherStep /\ UNCHANGED found
  <2>1. CASE ForwardsWiped
    BY <1>5, <2>1 DEF ForwardsWiped
  <2>2. CASE PoolCleared
    BY <1>5, <2>2 DEF PoolCleared
  <2>3. CASE SetUpBegins
    BY <1>5, <2>3 DEF SetUpBegins
  <2>4. CASE Connected
    BY <1>5, <2>4 DEF Connected, Connects, Reachable
  <2>5. CASE AppPrepared
    BY <1>5, <2>5 DEF AppPrepared
  <2>6. CASE OperationBegins
    BY <1>5, <2>6 DEF OperationBegins
  <2>7. CASE SessionEnds
    BY <1>5, <2>7 DEF SessionEnds, ForwardRemoved, DriverAfter, Refuse,
         ClientCloses
  <2>8. CASE DriverComesUp
    BY <1>5, <2>8 DEF DriverComesUp
  <2>9. CASE HostEnds
    BY <1>5, <2>9 DEF HostEnds
  <2>. QED  BY <1>5, <2>1, <2>2, <2>3, <2>4, <2>5, <2>6, <2>7, <2>8, <2>9 DEF OtherStep
<1>6. CASE UNCHANGED vars
  BY <1>6 DEF vars
<1>. QED  BY <1>1, <1>2, <1>3, <1>4, <1>5, <1>6 DEF Next, Progress, OtherStep

(* The second inventory is searched for the identifier of the first choice. *)
LEMMA ChoiceStep == TypeOK /\ ChoiceInv /\ [Next]_vars => ChoiceInv'
<1>. SUFFICES ASSUME TypeOK, ChoiceInv, [Next]_vars PROVE ChoiceInv'
  OBVIOUS
<1>. USE DEF TypeOK, DiscoveryTypeOK, ChoiceInv, Places, At, GoTo, Android,
     hostVars, machine, unmoved, vars
<1>1. CASE DiscoveryStep
  <2>1. CASE AdbProbed
    BY <1>1, <2>1 DEF AdbProbed, Probed, Detecting, others
  <2>2. CASE SimctlProbed
    BY <1>1, <2>2 DEF SimctlProbed, Probed, Detecting, others
  <2>3. CASE TargetsProbed
    BY <1>1, <2>3 DEF TargetsProbed, Probed, Detecting, others
  <2>4. CASE EntryChosen
    <3>1. CASE at' = "failed"
      BY <3>1
    <3>2. CASE at' # "failed"
      <4>1. PICK e \in UNION Choices :
               /\ found' = [found EXCEPT !.entries = {}, !.chosen = e, !.asked = e.id]
               /\ platform' = e.platform
               /\ at' = IF e.state = "startable" THEN "start" ELSE "setUp"
        BY <2>4, <3>2 DEF EntryChosen
      <4>2. e \in Selectable
        BY <4>1 DEF Choices, Prompted
      <4>3. e \in Entries /\ e.state \in {"runnable", "startable"} /\ found.requested \in {"any", e.platform}
        BY <4>2 DEF Selectable, Scoped, In
      <4>. QED  BY <4>1, <4>3
    <3>. QED  BY <3>1, <3>2
  <2>5. CASE TargetStarted
    BY <1>1, <2>5 DEF TargetStarted, others
  <2>6. CASE StartAwaited
    BY <1>1, <2>6 DEF StartAwaited, others
  <2>7. CASE TargetFound
    <3>1. CASE at' = "failed"
      BY <3>1
    <3>2. CASE at' # "failed"
      <4>1. PICK e \in In(Scoped, "runnable") :
               /\ e.id = found.chosen.id
               /\ found' = [found EXCEPT !.entries = {}, !.chosen = e]
               /\ at = "redetect" /\ at' = "setUp" /\ platform' = platform
        BY <2>7, <3>2 DEF TargetFound
      <4>2. e \in Entries /\ e.state = "runnable"
        BY <4>1 DEF Scoped, In
      <4>3. e.platform = found.chosen.platform
        BY <4>1, <4>2, EntryIdentity
      <4>. QED  BY <4>1, <4>2, <4>3
    <3>. QED  BY <3>1, <3>2
  <2>. QED  BY <1>1, <2>1, <2>2, <2>3, <2>4, <2>5, <2>6, <2>7 DEF DiscoveryStep
<1>2. CASE AndroidStep /\ UNCHANGED found
  BY <1>2 DEF AndroidStep, AdbPathFound, ClientCloses, StaleCleaned,
       PackageInstalled, PortTaken, PortForwarded, InstrumentationStarted,
       Spawns, AndroidUnreachable, HostKilled, AndroidReady, Reachable,
       AndroidNotReady, AttemptTornDown, Refuse, AndroidRolledBack,
       ForwardRemoved, DriverAfter
<1>3. CASE IOSStep /\ UNCHANGED found
  BY <1>3 DEF IOSStep, IOSDriverInstalled, IOSPortTaken, IOSDriverStarted,
       IOSUnreachable, IOSReady, Reachable, IOSAppIdsSent, IOSRolledBack,
       DriverAfter, Refuse, ClientCloses
<1>4. CASE CallStep /\ UNCHANGED found
  BY <1>4 DEF CallStep, CallAnswered, Delivered, Reachable, CallFails,
       CaptureFails, RecoveryBegins, LooksAlive, OperationFails,
       RecoveryEnds, RecoveryFails, RestartBegins, Reconnected, Connects,
       ReadyAgain
<1>5. CASE OtherStep /\ UNCHANGED found
  BY <1>5 DEF OtherStep, ForwardsWiped, PoolCleared, SetUpBegins, Connected,
       Connects, Reachable, AppPrepared, OperationBegins, SessionEnds,
       ForwardRemoved, DriverAfter, Refuse, ClientCloses, DriverComesUp,
       HostEnds
<1>6. CASE UNCHANGED vars
  BY <1>6 DEF vars
<1>. QED  BY <1>1, <1>2, <1>3, <1>4, <1>5, <1>6 DEF Next, Progress, OtherStep

(* The second start of the instrumentation alone leaves a channel behind.  *)
LEMMA LeakStep == TypeOK /\ PlatformInv /\ StartInv /\ LeakInv /\ [Next]_vars => LeakInv'
<1>. SUFFICES ASSUME TypeOK, PlatformInv, StartInv, LeakInv, [Next]_vars PROVE LeakInv'
  OBVIOUS
<1>. USE DEF TypeOK, HostTypeOK, LeakInv, PlatformInv, StartInv, Choosing, Unlinked,
     Unstarted, Restarting, At, GoTo, Android, hostVars, machine, unmoved, vars
<1>1. CASE DiscoveryStep
  <2>1. CASE AdbProbed
    BY <1>1, <2>1 DEF AdbProbed, Probed, Detecting, others
  <2>2. CASE SimctlProbed
    BY <1>1, <2>2 DEF SimctlProbed, Probed, Detecting, others
  <2>3. CASE TargetsProbed
    BY <1>1, <2>3 DEF TargetsProbed, Probed, Detecting, others
  <2>4. CASE EntryChosen
    <3>1. trace.started = 0 /\ UNCHANGED <<client, trace>> /\ at' # "spawn"
      BY <2>4 DEF EntryChosen, others
    <3>. QED  BY <3>1
  <2>5. CASE TargetStarted
    BY <1>1, <2>5 DEF TargetStarted, others
  <2>6. CASE StartAwaited
    BY <1>1, <2>6 DEF StartAwaited, others
  <2>7. CASE TargetFound
    BY <1>1, <2>7 DEF TargetFound, others
  <2>. QED  BY <1>1, <2>1, <2>2, <2>3, <2>4, <2>5, <2>6, <2>7 DEF DiscoveryStep
<1>2. CASE AndroidStep /\ UNCHANGED found
  <2>1. CASE AdbPathFound
    BY <1>2, <2>1 DEF AdbPathFound, ClientCloses
  <2>2. CASE StaleCleaned
    BY <1>2, <2>2 DEF StaleCleaned
  <2>3. CASE PackageInstalled
    BY <1>2, <2>3 DEF PackageInstalled
  <2>4. CASE PortTaken
    BY <1>2, <2>4 DEF PortTaken
  <2>5. CASE PortForwarded
    BY <1>2, <2>5 DEF PortForwarded
  <2>6. CASE InstrumentationStarted
    BY <1>2, <2>6 DEF InstrumentationStarted, Spawns, ChannelCreated
  <2>7. CASE AndroidUnreachable
    BY <1>2, <2>7 DEF AndroidUnreachable, HostKilled
  <2>8. CASE AndroidReady
    BY <1>2, <2>8 DEF AndroidReady, Reachable
  <2>9. CASE AndroidNotReady
    BY <1>2, <2>9 DEF AndroidNotReady
  <2>10. CASE AttemptTornDown
    BY <1>2, <2>10 DEF AttemptTornDown, HostKilled, Refuse
  <2>11. CASE AndroidRolledBack
    BY <1>2, <2>11 DEF AndroidRolledBack, HostKilled, ForwardRemoved,
         DriverAfter, Refuse, ClientCloses
  <2>. QED  BY <1>2, <2>1, <2>2, <2>3, <2>4, <2>5, <2>6, <2>7, <2>8, <2>9, <2>10, <2>11 DEF AndroidStep
<1>3. CASE IOSStep /\ UNCHANGED found
  <2>1. CASE IOSDriverInstalled
    BY <1>3, <2>1 DEF IOSDriverInstalled
  <2>2. CASE IOSPortTaken
    BY <1>3, <2>2 DEF IOSPortTaken
  <2>3. CASE IOSDriverStarted
    BY <1>3, <2>3 DEF IOSDriverStarted, ChannelCreated
  <2>4. CASE IOSUnreachable
    BY <1>3, <2>4 DEF IOSUnreachable
  <2>5. CASE IOSReady
    BY <1>3, <2>5 DEF IOSReady, Reachable
  <2>6. CASE IOSAppIdsSent
    BY <1>3, <2>6 DEF IOSAppIdsSent, Reachable
  <2>7. CASE IOSRolledBack
    BY <1>3, <2>7 DEF IOSRolledBack, DriverAfter, Refuse, ClientCloses
  <2>. QED  BY <1>3, <2>1, <2>2, <2>3, <2>4, <2>5, <2>6, <2>7 DEF IOSStep
<1>4. CASE CallStep /\ UNCHANGED found
  <2>1. CASE CallAnswered
    BY <1>4, <2>1 DEF CallAnswered, Delivered, Reachable
  <2>2. CASE CallFails
    BY <1>4, <2>2 DEF CallFails, Reachable
  <2>3. CASE CaptureFails
    BY <1>4, <2>3 DEF CaptureFails
  <2>4. CASE RecoveryBegins
    BY <1>4, <2>4 DEF RecoveryBegins, LooksAlive
  <2>5. CASE OperationFails
    BY <1>4, <2>5 DEF OperationFails, LooksAlive
  <2>6. CASE RecoveryEnds
    BY <1>4, <2>6 DEF RecoveryEnds, Reachable
  <2>7. CASE RecoveryFails
    BY <1>4, <2>7 DEF RecoveryFails
  <2>8. CASE RestartBegins /\ UNCHANGED op
    BY <1>4, <2>8 DEF RestartBegins
  <2>9. CASE Reconnected /\ UNCHANGED op
    BY <1>4, <2>9 DEF Reconnected, Connects, Reachable
  <2>10. CASE ReadyAgain /\ UNCHANGED op
    BY <1>4, <2>10 DEF ReadyAgain, Reachable
  <2>. QED  BY <1>4, <2>1, <2>2, <2>3, <2>4, <2>5, <2>6, <2>7, <2>8, <2>9, <2>10 DEF CallStep
<1>5. CASE OtherStep /\ UNCHANGED found
  <2>1. CASE ForwardsWiped
    BY <1>5, <2>1 DEF ForwardsWiped
  <2>2. CASE PoolCleared
    BY <1>5, <2>2 DEF PoolCleared
  <2>3. CASE SetUpBegins
    BY <1>5, <2>3 DEF SetUpBegins
  <2>4. CASE Connected
    BY <1>5, <2>4 DEF Connected, Connects, Reachable
  <2>5. CASE AppPrepared
    BY <1>5, <2>5 DEF AppPrepared
  <2>6. CASE OperationBegins
    BY <1>5, <2>6 DEF OperationBegins
  <2>7. CASE SessionEnds
    BY <1>5, <2>7 DEF SessionEnds, ForwardRemoved, DriverAfter, Refuse,
         ClientCloses
  <2>8. CASE DriverComesUp
    BY <1>5, <2>8 DEF DriverComesUp
  <2>9. CASE HostEnds
    BY <1>5, <2>9 DEF HostEnds
  <2>. QED  BY <1>5, <2>1, <2>2, <2>3, <2>4, <2>5, <2>6, <2>7, <2>8, <2>9 DEF OtherStep
<1>6. CASE UNCHANGED vars
  BY <1>6 DEF vars
<1>. QED  BY <1>1, <1>2, <1>3, <1>4, <1>5, <1>6 DEF Next, Progress, OtherStep

(* Every way to fail goes through the roll-back or has nothing to give up. *)
LEMMA FailStep ==
  TypeOK /\ PlatformInv /\ StartInv /\ LinkInv /\ FailedSetupReleases /\ LeakInv' /\ [Next]_vars
    => FailedSetupReleases'
<1>. SUFFICES ASSUME TypeOK, PlatformInv, StartInv, LinkInv, FailedSetupReleases, LeakInv', [Next]_vars
              PROVE  FailedSetupReleases'
  OBVIOUS
<1>. USE DEF TypeOK, HostTypeOK, FailedSetupReleases, LinkInv, StartInv,
     LeakInv, PlatformInv, SetUp, Operating, Choosing, Unlinked, Unstarted,
     Restarting, At, GoTo, Android, hostVars, machine, unmoved, vars
<1>1. CASE DiscoveryStep
  <2>1. CASE AdbProbed
    BY <1>1, <2>1 DEF AdbProbed, Probed, Detecting, others
  <2>2. CASE SimctlProbed
    BY <1>1, <2>2 DEF SimctlProbed, Probed, Detecting, others
  <2>3. CASE TargetsProbed
    BY <1>1, <2>3 DEF TargetsProbed, Probed, Detecting, others
  <2>4. CASE EntryChosen
    BY <1>1, <2>4 DEF EntryChosen, others
  <2>5. CASE TargetStarted
    BY <1>1, <2>5 DEF TargetStarted, others
  <2>6. CASE StartAwaited
    BY <1>1, <2>6 DEF StartAwaited, others
  <2>7. CASE TargetFound
    BY <1>1, <2>7 DEF TargetFound, others
  <2>. QED  BY <1>1, <2>1, <2>2, <2>3, <2>4, <2>5, <2>6, <2>7 DEF DiscoveryStep
<1>2. CASE AndroidStep /\ UNCHANGED found
  <2>1. CASE AdbPathFound
    <3>1. trace.started = 0 /\ ~link.pooled /\ host = "none" /\ UNCHANGED <<trace, link, host>>
      BY <2>1 DEF AdbPathFound
    <3>2. at' = "failed" => ~client'.open
      BY <2>1 DEF AdbPathFound, ClientCloses
    <3>3. platform' = platform /\ Android /\ at' # at
      BY <2>1 DEF AdbPathFound
    <3>. QED  BY <3>1, <3>2, <3>3
  <2>2. CASE StaleCleaned
    BY <1>2, <2>2 DEF StaleCleaned
  <2>3. CASE PackageInstalled
    BY <1>2, <2>3 DEF PackageInstalled
  <2>4. CASE PortTaken
    BY <1>2, <2>4 DEF PortTaken
  <2>5. CASE PortForwarded
    BY <1>2, <2>5 DEF PortForwarded
  <2>6. CASE InstrumentationStarted
    BY <1>2, <2>6 DEF InstrumentationStarted
  <2>7. CASE AndroidUnreachable
    BY <1>2, <2>7 DEF AndroidUnreachable, HostKilled
  <2>8. CASE AndroidReady
    BY <1>2, <2>8 DEF AndroidReady, Reachable
  <2>9. CASE AndroidNotReady
    BY <1>2, <2>9 DEF AndroidNotReady
  <2>10. CASE AttemptTornDown
    BY <1>2, <2>10 DEF AttemptTornDown, HostKilled, Refuse
  <2>11. CASE AndroidRolledBack
    BY <1>2, <2>11 DEF AndroidRolledBack, HostKilled, ForwardRemoved,
         DriverAfter, Refuse, ClientCloses
  <2>. QED  BY <1>2, <2>1, <2>2, <2>3, <2>4, <2>5, <2>6, <2>7, <2>8, <2>9, <2>10, <2>11 DEF AndroidStep
<1>3. CASE IOSStep /\ UNCHANGED found
  <2>1. CASE IOSDriverInstalled
    BY <1>3, <2>1 DEF IOSDriverInstalled
  <2>2. CASE IOSPortTaken
    BY <1>3, <2>2 DEF IOSPortTaken
  <2>3. CASE IOSDriverStarted
    BY <1>3, <2>3 DEF IOSDriverStarted
  <2>4. CASE IOSUnreachable
    BY <1>3, <2>4 DEF IOSUnreachable
  <2>5. CASE IOSReady
    BY <1>3, <2>5 DEF IOSReady, Reachable
  <2>6. CASE IOSAppIdsSent
    BY <1>3, <2>6 DEF IOSAppIdsSent, Reachable
  <2>7. CASE IOSRolledBack
    BY <1>3, <2>7 DEF IOSRolledBack, DriverAfter, Refuse, ClientCloses
  <2>. QED  BY <1>3, <2>1, <2>2, <2>3, <2>4, <2>5, <2>6, <2>7 DEF IOSStep
<1>4. CASE CallStep /\ UNCHANGED found
  <2>1. CASE CallAnswered
    BY <1>4, <2>1 DEF CallAnswered, Delivered, Reachable
  <2>2. CASE CallFails
    BY <1>4, <2>2 DEF CallFails, Reachable
  <2>3. CASE CaptureFails
    BY <1>4, <2>3 DEF CaptureFails
  <2>4. CASE RecoveryBegins
    BY <1>4, <2>4 DEF RecoveryBegins, LooksAlive
  <2>5. CASE OperationFails
    BY <1>4, <2>5 DEF OperationFails, LooksAlive
  <2>6. CASE RecoveryEnds
    BY <1>4, <2>6 DEF RecoveryEnds, Reachable
  <2>7. CASE RecoveryFails
    BY <1>4, <2>7 DEF RecoveryFails
  <2>8. CASE RestartBegins /\ UNCHANGED op
    BY <1>4, <2>8 DEF RestartBegins
  <2>9. CASE Reconnected /\ UNCHANGED op
    BY <1>4, <2>9 DEF Reconnected, Connects, Reachable
  <2>10. CASE ReadyAgain /\ UNCHANGED op
    BY <1>4, <2>10 DEF ReadyAgain, Reachable
  <2>. QED  BY <1>4, <2>1, <2>2, <2>3, <2>4, <2>5, <2>6, <2>7, <2>8, <2>9, <2>10 DEF CallStep
<1>5. CASE OtherStep /\ UNCHANGED found
  <2>1. CASE ForwardsWiped
    BY <1>5, <2>1 DEF ForwardsWiped
  <2>2. CASE PoolCleared
    BY <1>5, <2>2 DEF PoolCleared
  <2>3. CASE SetUpBegins
    BY <1>5, <2>3 DEF SetUpBegins
  <2>4. CASE Connected
    BY <1>5, <2>4 DEF Connected, Connects, Reachable
  <2>5. CASE AppPrepared
    BY <1>5, <2>5 DEF AppPrepared
  <2>6. CASE OperationBegins
    BY <1>5, <2>6 DEF OperationBegins
  <2>7. CASE SessionEnds
    BY <1>5, <2>7 DEF SessionEnds, ForwardRemoved, DriverAfter, Refuse,
         ClientCloses
  <2>8. CASE DriverComesUp
    BY <1>5, <2>8 DEF DriverComesUp
  <2>9. CASE HostEnds
    BY <1>5, <2>9 DEF HostEnds
  <2>. QED  BY <1>5, <2>1, <2>2, <2>3, <2>4, <2>5, <2>6, <2>7, <2>8, <2>9 DEF OtherStep
<1>6. CASE UNCHANGED vars
  BY <1>6 DEF vars
<1>. QED  BY <1>1, <1>2, <1>3, <1>4, <1>5, <1>6 DEF Next, Progress, OtherStep

(* The types are kept, variable by variable: the place, *)
LEMMA PlaceStep == TypeOK /\ [Next]_vars => (at \in Places)'
<1>. SUFFICES ASSUME TypeOK, [Next]_vars PROVE (at \in Places)'
  OBVIOUS
<1>. USE DEF TypeOK, Places, At, GoTo, Android, hostVars, machine, unmoved,
     vars
<1>1. CASE DiscoveryStep
  BY <1>1 DEF DiscoveryStep, AdbProbed, Probed, Detecting, others,
       SimctlProbed, TargetsProbed, EntryChosen, TargetStarted, StartAwaited,
       TargetFound
<1>2. CASE AndroidStep /\ UNCHANGED found
  BY <1>2 DEF AndroidStep, AdbPathFound, ClientCloses, StaleCleaned,
       PackageInstalled, PortTaken, PortForwarded, InstrumentationStarted,
       Spawns, AndroidUnreachable, HostKilled, AndroidReady, Reachable,
       AndroidNotReady, AttemptTornDown, Refuse, AndroidRolledBack,
       ForwardRemoved, DriverAfter
<1>3. CASE IOSStep /\ UNCHANGED found
  BY <1>3 DEF IOSStep, IOSDriverInstalled, IOSPortTaken, IOSDriverStarted,
       IOSUnreachable, IOSReady, Reachable, IOSAppIdsSent, IOSRolledBack,
       DriverAfter, Refuse, ClientCloses
<1>4. CASE CallStep /\ UNCHANGED found
  BY <1>4 DEF CallStep, CallAnswered, Delivered, Reachable, CallFails,
       CaptureFails, RecoveryBegins, LooksAlive, OperationFails,
       RecoveryEnds, RecoveryFails, RestartBegins, Reconnected, Connects,
       ReadyAgain
<1>5. CASE OtherStep /\ UNCHANGED found
  BY <1>5 DEF OtherStep, ForwardsWiped, PoolCleared, SetUpBegins, Connected,
       Connects, Reachable, AppPrepared, OperationBegins, SessionEnds,
       ForwardRemoved, DriverAfter, Refuse, ClientCloses, DriverComesUp,
       HostEnds
<1>6. CASE UNCHANGED vars
  BY <1>6 DEF vars
<1>. QED  BY <1>1, <1>2, <1>3, <1>4, <1>5, <1>6 DEF Next, Progress, OtherStep

(* the clean-up, the host's child and the driver, *)
LEMMA MachineTypeStep == MachineOK /\ [Next]_vars => MachineOK'
<1>. SUFFICES ASSUME MachineOK, [Next]_vars PROVE MachineOK'
  OBVIOUS
<1>. USE DEF MachineOK, HostStates, At, GoTo, Android, hostVars, machine,
     unmoved, vars
<1>1. CASE DiscoveryStep
  BY <1>1 DEF DiscoveryStep, AdbProbed, Probed, Detecting, others,
       SimctlProbed, TargetsProbed, EntryChosen, TargetStarted, StartAwaited,
       TargetFound
<1>2. CASE AndroidStep /\ UNCHANGED found
  <2>1. CASE AdbPathFound
    BY <1>2, <2>1 DEF AdbPathFound, ClientCloses
  <2>2. CASE StaleCleaned
    BY <1>2, <2>2 DEF StaleCleaned
  <2>3. CASE PackageInstalled
    BY <1>2, <2>3 DEF PackageInstalled
  <2>4. CASE PortTaken
    BY <1>2, <2>4 DEF PortTaken
  <2>5. CASE PortForwarded
    BY <1>2, <2>5 DEF PortForwarded
  <2>6. CASE InstrumentationStarted
    BY <1>2, <2>6 DEF InstrumentationStarted, Spawns
  <2>7. CASE AndroidUnreachable
    BY <1>2, <2>7 DEF AndroidUnreachable, HostKilled
  <2>8. CASE AndroidReady
    BY <1>2, <2>8 DEF AndroidReady, Reachable
  <2>9. CASE AndroidNotReady
    BY <1>2, <2>9 DEF AndroidNotReady
  <2>10. CASE AttemptTornDown
    BY <1>2, <2>10 DEF AttemptTornDown, HostKilled, Refuse
  <2>11. CASE AndroidRolledBack
    BY <1>2, <2>11 DEF AndroidRolledBack, HostKilled, ForwardRemoved,
         DriverAfter, Refuse, ClientCloses
  <2>. QED  BY <1>2, <2>1, <2>2, <2>3, <2>4, <2>5, <2>6, <2>7, <2>8, <2>9, <2>10, <2>11 DEF AndroidStep
<1>3. CASE IOSStep /\ UNCHANGED found
  <2>1. CASE IOSDriverInstalled
    BY <1>3, <2>1 DEF IOSDriverInstalled
  <2>2. CASE IOSPortTaken
    BY <1>3, <2>2 DEF IOSPortTaken
  <2>3. CASE IOSDriverStarted
    BY <1>3, <2>3 DEF IOSDriverStarted
  <2>4. CASE IOSUnreachable
    BY <1>3, <2>4 DEF IOSUnreachable
  <2>5. CASE IOSReady
    BY <1>3, <2>5 DEF IOSReady, Reachable
  <2>6. CASE IOSAppIdsSent
    BY <1>3, <2>6 DEF IOSAppIdsSent, Reachable
  <2>7. CASE IOSRolledBack
    BY <1>3, <2>7 DEF IOSRolledBack, DriverAfter, Refuse, ClientCloses
  <2>. QED  BY <1>3, <2>1, <2>2, <2>3, <2>4, <2>5, <2>6, <2>7 DEF IOSStep
<1>4. CASE CallStep /\ UNCHANGED found
  <2>1. CASE CallAnswered
    BY <1>4, <2>1 DEF CallAnswered, Delivered, Reachable
  <2>2. CASE CallFails
    BY <1>4, <2>2 DEF CallFails, Reachable
  <2>3. CASE CaptureFails
    BY <1>4, <2>3 DEF CaptureFails
  <2>4. CASE RecoveryBegins
    BY <1>4, <2>4 DEF RecoveryBegins, LooksAlive
  <2>5. CASE OperationFails
    BY <1>4, <2>5 DEF OperationFails, LooksAlive
  <2>6. CASE RecoveryEnds
    BY <1>4, <2>6 DEF RecoveryEnds, Reachable
  <2>7. CASE RecoveryFails
    BY <1>4, <2>7 DEF RecoveryFails
  <2>8. CASE RestartBegins /\ UNCHANGED op
    BY <1>4, <2>8 DEF RestartBegins
  <2>9. CASE Reconnected /\ UNCHANGED op
    BY <1>4, <2>9 DEF Reconnected, Connects, Reachable
  <2>10. CASE ReadyAgain /\ UNCHANGED op
    BY <1>4, <2>10 DEF ReadyAgain, Reachable
  <2>. QED  BY <1>4, <2>1, <2>2, <2>3, <2>4, <2>5, <2>6, <2>7, <2>8, <2>9, <2>10 DEF CallStep
<1>5. CASE OtherStep /\ UNCHANGED found
  BY <1>5 DEF OtherStep, ForwardsWiped, PoolCleared, SetUpBegins, Connected,
       Connects, Reachable, AppPrepared, OperationBegins, SessionEnds,
       ForwardRemoved, DriverAfter, Refuse, ClientCloses, DriverComesUp,
       HostEnds
<1>6. CASE UNCHANGED vars
  BY <1>6 DEF vars
<1>. QED  BY <1>1, <1>2, <1>3, <1>4, <1>5, <1>6 DEF Next, Progress, OtherStep

(* the port and its forward, *)
LEMMA LinkTypeStep == LinkOK /\ [Next]_vars => LinkOK'
<1>. SUFFICES ASSUME LinkOK, [Next]_vars PROVE LinkOK'
  OBVIOUS
<1>. USE DEF LinkOK, At, GoTo, Android, hostVars, machine, unmoved, vars
<1>1. CASE DiscoveryStep
  BY <1>1 DEF DiscoveryStep, AdbProbed, Probed, Detecting, others,
       SimctlProbed, TargetsProbed, EntryChosen, TargetStarted, StartAwaited,
       TargetFound
<1>2. CASE AndroidStep /\ UNCHANGED found
  <2>1. CASE AdbPathFound
    BY <1>2, <2>1 DEF AdbPathFound, ClientCloses
  <2>2. CASE StaleCleaned
    BY <1>2, <2>2 DEF StaleCleaned
  <2>3. CASE PackageInstalled
    BY <1>2, <2>3 DEF PackageInstalled
  <2>4. CASE PortTaken
    BY <1>2, <2>4 DEF PortTaken
  <2>5. CASE PortForwarded
    BY <1>2, <2>5 DEF PortForwarded
  <2>6. CASE InstrumentationStarted
    BY <1>2, <2>6 DEF InstrumentationStarted, Spawns
  <2>7. CASE AndroidUnreachable
    BY <1>2, <2>7 DEF AndroidUnreachable, HostKilled
  <2>8. CASE AndroidReady
    BY <1>2, <2>8 DEF AndroidReady, Reachable
  <2>9. CASE AndroidNotReady
    BY <1>2, <2>9 DEF AndroidNotReady
  <2>10. CASE AttemptTornDown
    BY <1>2, <2>10 DEF AttemptTornDown, HostKilled, Refuse
  <2>11. CASE AndroidRolledBack
    BY <1>2, <2>11 DEF AndroidRolledBack, HostKilled, ForwardRemoved,
         DriverAfter, Refuse, ClientCloses
  <2>. QED  BY <1>2, <2>1, <2>2, <2>3, <2>4, <2>5, <2>6, <2>7, <2>8, <2>9, <2>10, <2>11 DEF AndroidStep
<1>3. CASE IOSStep /\ UNCHANGED found
  <2>1. CASE IOSDriverInstalled
    BY <1>3, <2>1 DEF IOSDriverInstalled
  <2>2. CASE IOSPortTaken
    BY <1>3, <2>2 DEF IOSPortTaken
  <2>3. CASE IOSDriverStarted
    BY <1>3, <2>3 DEF IOSDriverStarted
  <2>4. CASE IOSUnreachable
    BY <1>3, <2>4 DEF IOSUnreachable
  <2>5. CASE IOSReady
    BY <1>3, <2>5 DEF IOSReady, Reachable
  <2>6. CASE IOSAppIdsSent
    BY <1>3, <2>6 DEF IOSAppIdsSent, Reachable
  <2>7. CASE IOSRolledBack
    BY <1>3, <2>7 DEF IOSRolledBack, DriverAfter, Refuse, ClientCloses
  <2>. QED  BY <1>3, <2>1, <2>2, <2>3, <2>4, <2>5, <2>6, <2>7 DEF IOSStep
<1>4. CASE CallStep /\ UNCHANGED found
  <2>1. CASE CallAnswered
    BY <1>4, <2>1 DEF CallAnswered, Delivered, Reachable
  <2>2. CASE CallFails
    BY <1>4, <2>2 DEF CallFails, Reachable
  <2>3. CASE CaptureFails
    BY <1>4, <2>3 DEF CaptureFails
  <2>4. CASE RecoveryBegins
    BY <1>4, <2>4 DEF RecoveryBegins, LooksAlive
  <2>5. CASE OperationFails
    BY <1>4, <2>5 DEF OperationFails, LooksAlive
  <2>6. CASE RecoveryEnds
    BY <1>4, <2>6 DEF RecoveryEnds, Reachable
  <2>7. CASE RecoveryFails
    BY <1>4, <2>7 DEF RecoveryFails
  <2>8. CASE RestartBegins /\ UNCHANGED op
    BY <1>4, <2>8 DEF RestartBegins
  <2>9. CASE Reconnected /\ UNCHANGED op
    BY <1>4, <2>9 DEF Reconnected, Connects, Reachable
  <2>10. CASE ReadyAgain /\ UNCHANGED op
    BY <1>4, <2>10 DEF ReadyAgain, Reachable
  <2>. QED  BY <1>4, <2>1, <2>2, <2>3, <2>4, <2>5, <2>6, <2>7, <2>8, <2>9, <2>10 DEF CallStep
<1>5. CASE OtherStep /\ UNCHANGED found
  <2>1. CASE ForwardsWiped
    BY <1>5, <2>1 DEF ForwardsWiped
  <2>2. CASE PoolCleared
    BY <1>5, <2>2 DEF PoolCleared
  <2>3. CASE SetUpBegins
    BY <1>5, <2>3 DEF SetUpBegins
  <2>4. CASE Connected
    BY <1>5, <2>4 DEF Connected, Connects, Reachable
  <2>5. CASE AppPrepared
    BY <1>5, <2>5 DEF AppPrepared
  <2>6. CASE OperationBegins
    BY <1>5, <2>6 DEF OperationBegins
  <2>7. CASE SessionEnds
    <3>1. CASE UNCHANGED link
      BY <3>1
    <3>2. CASE link' = [pooled |-> FALSE, forwarded |-> FALSE]
      BY <3>2
    <3>3. CASE link' = [pooled |-> FALSE, forwarded |-> link.forwarded]
      BY <3>3
    <3>. QED  BY <2>7, <3>1, <3>2, <3>3 DEF SessionEnds, ForwardRemoved
  <2>8. CASE DriverComesUp
    BY <1>5, <2>8 DEF DriverComesUp
  <2>9. CASE HostEnds
    BY <1>5, <2>9 DEF HostEnds
  <2>. QED  BY <1>5, <2>1, <2>2, <2>3, <2>4, <2>5, <2>6, <2>7, <2>8, <2>9 DEF OtherStep
<1>6. CASE UNCHANGED vars
  BY <1>6 DEF vars
<1>. QED  BY <1>1, <1>2, <1>3, <1>4, <1>5, <1>6 DEF Next, Progress, OtherStep

(* the channel, *)
LEMMA ClientTypeStep == ClientOK /\ [Next]_vars => ClientOK'
<1>. SUFFICES ASSUME ClientOK, [Next]_vars PROVE ClientOK'
  OBVIOUS
<1>. USE DEF ClientOK, At, GoTo, Android, hostVars, machine, unmoved, vars
<1>1. CASE DiscoveryStep
  BY <1>1 DEF DiscoveryStep, AdbProbed, Probed, Detecting, others,
       SimctlProbed, TargetsProbed, EntryChosen, TargetStarted, StartAwaited,
       TargetFound
<1>2. CASE AndroidStep /\ UNCHANGED found
  <2>1. CASE AdbPathFound
    <3>1. CASE UNCHANGED client
      BY <3>1
    <3>2. CASE ClientCloses
      BY <3>2 DEF ClientCloses
    <3>. QED  BY <2>1, <3>1, <3>2 DEF AdbPathFound
  <2>2. CASE StaleCleaned
    BY <1>2, <2>2 DEF StaleCleaned
  <2>3. CASE PackageInstalled
    BY <1>2, <2>3 DEF PackageInstalled
  <2>4. CASE PortTaken
    BY <1>2, <2>4 DEF PortTaken
  <2>5. CASE PortForwarded
    BY <1>2, <2>5 DEF PortForwarded
  <2>6. CASE InstrumentationStarted
    BY <1>2, <2>6 DEF InstrumentationStarted, Spawns, ChannelCreated
  <2>7. CASE AndroidUnreachable
    BY <1>2, <2>7 DEF AndroidUnreachable, HostKilled
  <2>8. CASE AndroidReady
    BY <1>2, <2>8 DEF AndroidReady, Reachable
  <2>9. CASE AndroidNotReady
    BY <1>2, <2>9 DEF AndroidNotReady
  <2>10. CASE AttemptTornDown
    BY <1>2, <2>10 DEF AttemptTornDown, HostKilled, Refuse
  <2>11. CASE AndroidRolledBack
    BY <1>2, <2>11 DEF AndroidRolledBack, HostKilled, ForwardRemoved,
         DriverAfter, Refuse, ClientCloses
  <2>. QED  BY <1>2, <2>1, <2>2, <2>3, <2>4, <2>5, <2>6, <2>7, <2>8, <2>9, <2>10, <2>11 DEF AndroidStep
<1>3. CASE IOSStep /\ UNCHANGED found
  <2>1. CASE IOSDriverInstalled
    BY <1>3, <2>1 DEF IOSDriverInstalled
  <2>2. CASE IOSPortTaken
    BY <1>3, <2>2 DEF IOSPortTaken
  <2>3. CASE IOSDriverStarted
    BY <1>3, <2>3 DEF IOSDriverStarted, ChannelCreated
  <2>4. CASE IOSUnreachable
    BY <1>3, <2>4 DEF IOSUnreachable
  <2>5. CASE IOSReady
    BY <1>3, <2>5 DEF IOSReady, Reachable
  <2>6. CASE IOSAppIdsSent
    BY <1>3, <2>6 DEF IOSAppIdsSent, Reachable
  <2>7. CASE IOSRolledBack
    BY <1>3, <2>7 DEF IOSRolledBack, DriverAfter, Refuse, ClientCloses
  <2>. QED  BY <1>3, <2>1, <2>2, <2>3, <2>4, <2>5, <2>6, <2>7 DEF IOSStep
<1>4. CASE CallStep /\ UNCHANGED found
  <2>1. CASE CallAnswered
    BY <1>4, <2>1 DEF CallAnswered, Delivered, Reachable
  <2>2. CASE CallFails
    BY <1>4, <2>2 DEF CallFails, Reachable
  <2>3. CASE CaptureFails
    BY <1>4, <2>3 DEF CaptureFails
  <2>4. CASE RecoveryBegins
    BY <1>4, <2>4 DEF RecoveryBegins, LooksAlive
  <2>5. CASE OperationFails
    BY <1>4, <2>5 DEF OperationFails, LooksAlive
  <2>6. CASE RecoveryEnds
    BY <1>4, <2>6 DEF RecoveryEnds, Reachable
  <2>7. CASE RecoveryFails
    BY <1>4, <2>7 DEF RecoveryFails
  <2>8. CASE RestartBegins /\ UNCHANGED op
    BY <1>4, <2>8 DEF RestartBegins
  <2>9. CASE Reconnected /\ UNCHANGED op
    BY <1>4, <2>9 DEF Reconnected, Connects, Reachable
  <2>10. CASE ReadyAgain /\ UNCHANGED op
    BY <1>4, <2>10 DEF ReadyAgain, Reachable
  <2>. QED  BY <1>4, <2>1, <2>2, <2>3, <2>4, <2>5, <2>6, <2>7, <2>8, <2>9, <2>10 DEF CallStep
<1>5. CASE OtherStep /\ UNCHANGED found
  <2>1. CASE ForwardsWiped
    BY <1>5, <2>1 DEF ForwardsWiped
  <2>2. CASE PoolCleared
    BY <1>5, <2>2 DEF PoolCleared
  <2>3. CASE SetUpBegins
    BY <1>5, <2>3 DEF SetUpBegins
  <2>4. CASE Connected
    BY <1>5, <2>4 DEF Connected, Connects, Reachable
  <2>5. CASE AppPrepared
    BY <1>5, <2>5 DEF AppPrepared
  <2>6. CASE OperationBegins
    BY <1>5, <2>6 DEF OperationBegins
  <2>7. CASE SessionEnds
    BY <1>5, <2>7 DEF SessionEnds, ForwardRemoved, DriverAfter, Refuse,
         ClientCloses
  <2>8. CASE DriverComesUp
    BY <1>5, <2>8 DEF DriverComesUp
  <2>9. CASE HostEnds
    BY <1>5, <2>9 DEF HostEnds
  <2>. QED  BY <1>5, <2>1, <2>2, <2>3, <2>4, <2>5, <2>6, <2>7, <2>8, <2>9 DEF OtherStep
<1>6. CASE UNCHANGED vars
  BY <1>6 DEF vars
<1>. QED  BY <1>1, <1>2, <1>3, <1>4, <1>5, <1>6 DEF Next, Progress, OtherStep

(* what was started, never more than twice, *)
LEMMA TraceTypeStep == TraceOK /\ StartInv /\ [Next]_vars => TraceOK'
<1>. SUFFICES ASSUME TraceOK, StartInv, [Next]_vars PROVE TraceOK'
  OBVIOUS
<1>. USE DEF TraceOK, At, GoTo, Android, hostVars, machine, unmoved, vars
<1>1. CASE DiscoveryStep
  BY <1>1 DEF DiscoveryStep, AdbProbed, Probed, Detecting, others,
       SimctlProbed, TargetsProbed, EntryChosen, TargetStarted, StartAwaited,
       TargetFound
<1>2. CASE AndroidStep /\ UNCHANGED found
  <2>1. CASE AdbPathFound
    BY <1>2, <2>1 DEF AdbPathFound, ClientCloses
  <2>2. CASE StaleCleaned
    BY <1>2, <2>2 DEF StaleCleaned
  <2>3. CASE PackageInstalled
    BY <1>2, <2>3 DEF PackageInstalled
  <2>4. CASE PortTaken
    BY <1>2, <2>4 DEF PortTaken
  <2>5. CASE PortForwarded
    BY <1>2, <2>5 DEF PortForwarded
  <2>6. CASE InstrumentationStarted
    BY <1>2, <2>6 DEF InstrumentationStarted, Spawns, StartInv
  <2>7. CASE AndroidUnreachable
    BY <1>2, <2>7 DEF AndroidUnreachable, HostKilled
  <2>8. CASE AndroidReady
    BY <1>2, <2>8 DEF AndroidReady, Reachable
  <2>9. CASE AndroidNotReady
    BY <1>2, <2>9 DEF AndroidNotReady
  <2>10. CASE AttemptTornDown
    BY <1>2, <2>10 DEF AttemptTornDown, HostKilled, Refuse
  <2>11. CASE AndroidRolledBack
    BY <1>2, <2>11 DEF AndroidRolledBack, HostKilled, ForwardRemoved,
         DriverAfter, Refuse, ClientCloses
  <2>. QED  BY <1>2, <2>1, <2>2, <2>3, <2>4, <2>5, <2>6, <2>7, <2>8, <2>9, <2>10, <2>11 DEF AndroidStep
<1>3. CASE IOSStep /\ UNCHANGED found
  <2>1. CASE IOSDriverInstalled
    BY <1>3, <2>1 DEF IOSDriverInstalled
  <2>2. CASE IOSPortTaken
    BY <1>3, <2>2 DEF IOSPortTaken
  <2>3. CASE IOSDriverStarted
    BY <1>3, <2>3 DEF IOSDriverStarted
  <2>4. CASE IOSUnreachable
    BY <1>3, <2>4 DEF IOSUnreachable
  <2>5. CASE IOSReady
    BY <1>3, <2>5 DEF IOSReady, Reachable
  <2>6. CASE IOSAppIdsSent
    BY <1>3, <2>6 DEF IOSAppIdsSent, Reachable
  <2>7. CASE IOSRolledBack
    BY <1>3, <2>7 DEF IOSRolledBack, DriverAfter, Refuse, ClientCloses
  <2>. QED  BY <1>3, <2>1, <2>2, <2>3, <2>4, <2>5, <2>6, <2>7 DEF IOSStep
<1>4. CASE CallStep /\ UNCHANGED found
  BY <1>4 DEF CallStep, CallAnswered, Delivered, Reachable, CallFails,
       CaptureFails, RecoveryBegins, LooksAlive, OperationFails,
       RecoveryEnds, RecoveryFails, RestartBegins, Reconnected, Connects,
       ReadyAgain
<1>5. CASE OtherStep /\ UNCHANGED found
  <2>1. CASE ForwardsWiped
    BY <1>5, <2>1 DEF ForwardsWiped
  <2>2. CASE PoolCleared
    BY <1>5, <2>2 DEF PoolCleared
  <2>3. CASE SetUpBegins
    BY <1>5, <2>3 DEF SetUpBegins
  <2>4. CASE Connected
    BY <1>5, <2>4 DEF Connected, Connects, Reachable
  <2>5. CASE AppPrepared
    BY <1>5, <2>5 DEF AppPrepared
  <2>6. CASE OperationBegins
    BY <1>5, <2>6 DEF OperationBegins
  <2>7. CASE SessionEnds
    BY <1>5, <2>7 DEF SessionEnds, ForwardRemoved, DriverAfter, Refuse,
         ClientCloses
  <2>8. CASE DriverComesUp
    BY <1>5, <2>8 DEF DriverComesUp
  <2>9. CASE HostEnds
    BY <1>5, <2>9 DEF HostEnds
  <2>. QED  BY <1>5, <2>1, <2>2, <2>3, <2>4, <2>5, <2>6, <2>7, <2>8, <2>9 DEF OtherStep
<1>6. CASE UNCHANGED vars
  BY <1>6 DEF vars
<1>. QED  BY <1>1, <1>2, <1>3, <1>4, <1>5, <1>6 DEF Next, Progress, OtherStep

(* and the operation. *)
LEMMA CallsTypeStep == CallsTypeOK /\ OpInv /\ [Next]_vars => CallsTypeOK'
<1>. SUFFICES ASSUME CallsTypeOK, OpInv, [Next]_vars PROVE CallsTypeOK'
  OBVIOUS
<1>. USE DEF CallsTypeOK, At, GoTo, Android, hostVars, machine, unmoved, vars
<1>1. CASE DiscoveryStep
  BY <1>1 DEF DiscoveryStep, AdbProbed, Probed, Detecting, others,
       SimctlProbed, TargetsProbed, EntryChosen, TargetStarted, StartAwaited,
       TargetFound
<1>2. CASE AndroidStep /\ UNCHANGED found
  BY <1>2 DEF AndroidStep, AdbPathFound, ClientCloses, StaleCleaned,
       PackageInstalled, PortTaken, PortForwarded, InstrumentationStarted,
       Spawns, AndroidUnreachable, HostKilled, AndroidReady, Reachable,
       AndroidNotReady, AttemptTornDown, Refuse, AndroidRolledBack,
       ForwardRemoved, DriverAfter
<1>3. CASE IOSStep /\ UNCHANGED found
  BY <1>3 DEF IOSStep, IOSDriverInstalled, IOSPortTaken, IOSDriverStarted,
       IOSUnreachable, IOSReady, Reachable, IOSAppIdsSent, IOSRolledBack,
       DriverAfter, Refuse, ClientCloses
<1>4. CASE CallStep /\ UNCHANGED found
  <2>1. CASE CallAnswered
    BY <1>4, <2>1 DEF CallAnswered, Delivered, Reachable, OpInv, MaxRetries,
         TouchesDevice, Kinds
  <2>2. CASE CallFails
    BY <1>4, <2>2 DEF CallFails, Reachable, OpInv, MaxRetries, TouchesDevice,
         Kinds
  <2>3. CASE CaptureFails
    BY <1>4, <2>3 DEF CaptureFails
  <2>4. CASE RecoveryBegins
    BY <1>4, <2>4 DEF RecoveryBegins, LooksAlive
  <2>5. CASE OperationFails
    BY <1>4, <2>5 DEF OperationFails, LooksAlive
  <2>6. CASE RecoveryEnds
    <3>1. op' = [op EXCEPT !.lost = FALSE, !.tries = 0]
      BY <2>6 DEF RecoveryEnds
    <3>2. 0 \in 0..2 /\ FALSE \in BOOLEAN
      OBVIOUS
    <3>. QED  BY <3>1, <3>2
  <2>7. CASE RecoveryFails
    BY <1>4, <2>7 DEF RecoveryFails
  <2>8. CASE RestartBegins /\ UNCHANGED op
    BY <1>4, <2>8 DEF RestartBegins
  <2>9. CASE Reconnected /\ UNCHANGED op
    BY <1>4, <2>9 DEF Reconnected, Connects, Reachable
  <2>10. CASE ReadyAgain /\ UNCHANGED op
    BY <1>4, <2>10 DEF ReadyAgain, Reachable
  <2>. QED  BY <1>4, <2>1, <2>2, <2>3, <2>4, <2>5, <2>6, <2>7, <2>8, <2>9, <2>10 DEF CallStep
<1>5. CASE OtherStep /\ UNCHANGED found
  <2>1. CASE ForwardsWiped
    BY <1>5, <2>1 DEF ForwardsWiped
  <2>2. CASE PoolCleared
    BY <1>5, <2>2 DEF PoolCleared
  <2>3. CASE SetUpBegins
    BY <1>5, <2>3 DEF SetUpBegins
  <2>4. CASE Connected
    BY <1>5, <2>4 DEF Connected, Connects, Reachable
  <2>5. CASE AppPrepared
    BY <1>5, <2>5 DEF AppPrepared
  <2>6. CASE OperationBegins
    <3>1. PICK kind \in Kinds :
               op' = [op EXCEPT !.kind = kind, !.tries = 0, !.hits = 0, !.restarts = 0, !.done = @ + 1]
      BY <2>6 DEF OperationBegins
    <3>2. op.done + 1 \in 0..MaxOps
      BY <2>6, DriverAssumption DEF OperationBegins, DriverAssumption
    <3>3. op' = [kind |-> kind, tries |-> 0, hits |-> 0, restarts |-> 0, done |-> op.done + 1,
                 lost |-> op.lost, notified |-> op.notified]
      BY <3>1
    <3>4. op.lost \in BOOLEAN /\ op.notified \in BOOLEAN
      OBVIOUS
    <3>. QED  BY <3>2, <3>3, <3>4
  <2>7. CASE SessionEnds
    BY <1>5, <2>7 DEF SessionEnds, ForwardRemoved, DriverAfter, Refuse,
         ClientCloses
  <2>8. CASE DriverComesUp
    BY <1>5, <2>8 DEF DriverComesUp
  <2>9. CASE HostEnds
    BY <1>5, <2>9 DEF HostEnds
  <2>. QED  BY <1>5, <2>1, <2>2, <2>3, <2>4, <2>5, <2>6, <2>7, <2>8, <2>9 DEF OtherStep
<1>6. CASE UNCHANGED vars
  BY <1>6 DEF vars
<1>. QED  BY <1>1, <1>2, <1>3, <1>4, <1>5, <1>6 DEF Next, Progress, OtherStep

(* A step that starts the instrumentation a second time *)
StartsAgain == trace.started = 1 /\ trace'.started = 2

(* Only the start of the instrumentation is such a step. *)
LEMMA SecondStart == TraceOK /\ StartsAgain /\ [Next]_vars => at = "spawn"
<1>. SUFFICES ASSUME TraceOK, StartsAgain, [Next]_vars PROVE at = "spawn"
  OBVIOUS
<1>. USE DEF TraceOK, StartsAgain, At, GoTo, Android, hostVars, machine,
     unmoved, vars
<1>1. CASE DiscoveryStep
  <2>1. UNCHANGED trace
    <3>1. AdbProbed => UNCHANGED others
      BY DEF AdbProbed, Probed
    <3>2. SimctlProbed => UNCHANGED others
      BY DEF SimctlProbed, Probed
    <3>3. TargetsProbed => UNCHANGED others
      BY DEF TargetsProbed, Probed
    <3>4. EntryChosen \/ TargetStarted \/ StartAwaited \/ TargetFound => UNCHANGED others
      BY DEF EntryChosen, TargetStarted, StartAwaited, TargetFound
    <3>5. UNCHANGED others
      BY <1>1, <3>1, <3>2, <3>3, <3>4 DEF DiscoveryStep
    <3>. QED  BY <3>5 DEF others
  <2>. QED  BY <2>1
<1>2. CASE AndroidStep /\ UNCHANGED found
  <2>1. CASE AdbPathFound
    BY <1>2, <2>1 DEF AdbPathFound, ClientCloses
  <2>2. CASE StaleCleaned
    BY <1>2, <2>2 DEF StaleCleaned
  <2>3. CASE PackageInstalled
    BY <1>2, <2>3 DEF PackageInstalled
  <2>4. CASE PortTaken
    BY <1>2, <2>4 DEF PortTaken
  <2>5. CASE PortForwarded
    BY <1>2, <2>5 DEF PortForwarded
  <2>6. CASE InstrumentationStarted
    BY <1>2, <2>6 DEF InstrumentationStarted, Spawns
  <2>7. CASE AndroidUnreachable
    BY <1>2, <2>7 DEF AndroidUnreachable, HostKilled
  <2>8. CASE AndroidReady
    BY <1>2, <2>8 DEF AndroidReady, Reachable
  <2>9. CASE AndroidNotReady
    BY <1>2, <2>9 DEF AndroidNotReady
  <2>10. CASE AttemptTornDown
    BY <1>2, <2>10 DEF AttemptTornDown, HostKilled, Refuse
  <2>11. CASE AndroidRolledBack
    BY <1>2, <2>11 DEF AndroidRolledBack, HostKilled, ForwardRemoved,
         DriverAfter, Refuse, ClientCloses
  <2>. QED  BY <1>2, <2>1, <2>2, <2>3, <2>4, <2>5, <2>6, <2>7, <2>8, <2>9, <2>10, <2>11 DEF AndroidStep
<1>3. CASE IOSStep /\ UNCHANGED found
  BY <1>3 DEF IOSStep, IOSDriverInstalled, IOSPortTaken, IOSDriverStarted,
       IOSUnreachable, IOSReady, Reachable, IOSAppIdsSent, IOSRolledBack,
       DriverAfter, Refuse, ClientCloses
<1>4. CASE CallStep /\ UNCHANGED found
  BY <1>4 DEF CallStep, CallAnswered, Delivered, Reachable, CallFails,
       CaptureFails, RecoveryBegins, LooksAlive, OperationFails,
       RecoveryEnds, RecoveryFails, RestartBegins, Reconnected, Connects,
       ReadyAgain
<1>5. CASE OtherStep /\ UNCHANGED found
  <2>1. CASE ForwardsWiped
    BY <1>5, <2>1 DEF ForwardsWiped
  <2>2. CASE PoolCleared
    BY <1>5, <2>2 DEF PoolCleared
  <2>3. CASE SetUpBegins
    BY <1>5, <2>3 DEF SetUpBegins
  <2>4. CASE Connected
    BY <1>5, <2>4 DEF Connected, Connects, Reachable
  <2>5. CASE AppPrepared
    BY <1>5, <2>5 DEF AppPrepared
  <2>6. CASE OperationBegins
    BY <1>5, <2>6 DEF OperationBegins
  <2>7. CASE SessionEnds
    BY <1>5, <2>7 DEF SessionEnds, ForwardRemoved, DriverAfter, Refuse,
         ClientCloses
  <2>8. CASE DriverComesUp
    BY <1>5, <2>8 DEF DriverComesUp
  <2>9. CASE HostEnds
    BY <1>5, <2>9 DEF HostEnds
  <2>. QED  BY <1>5, <2>1, <2>2, <2>3, <2>4, <2>5, <2>6, <2>7, <2>8, <2>9 DEF OtherStep
<1>6. CASE UNCHANGED vars
  BY <1>6 DEF vars
<1>. QED  BY <1>1, <1>2, <1>3, <1>4, <1>5, <1>6 DEF Next, Progress, OtherStep

(* The driver's platform is a platform, and what discovery knows is of the *)
(* entries there can be.                                                   *)
FoundOK == platform \in {"android", "ios", "none"} /\ DiscoveryTypeOK

(* A probe that answers with entries leaves the inventory with entries. *)
LEMMA ProbeTyped ==
  ASSUME FoundOK, NEW probe, NEW entries \in SUBSET Entries, Probed(probe, entries)
  PROVE  FoundOK'
BY DEF FoundOK, DiscoveryTypeOK, Probed

(* Discovery chooses, and finds again, from what was probed. *)
LEMMA FoundTypeStep == FoundOK /\ [Next]_vars => FoundOK'
<1>. SUFFICES ASSUME FoundOK, [Next]_vars PROVE FoundOK'
  OBVIOUS
<1>. USE DEF FoundOK
<1>1. CASE AdbProbed
  <2>1. PICK entries \in SUBSET Entries : Probed("adb", entries)
    BY <1>1, AdbSeenInEntries DEF AdbProbed
  <2>. QED  BY <2>1, ProbeTyped
<1>2. CASE SimctlProbed
  <2>1. \A sims \in [Sims -> {"absent", "runnable", "startable", "dead"}] :
          {Entry("sim", t, sims[t]) : t \in {u \in Sims : sims[u] # "absent"}} \in SUBSET Entries
    BY DEF Entries
  <2>2. PICK entries \in SUBSET Entries : Probed("simctl", entries)
    BY <1>2, <2>1 DEF SimctlProbed
  <2>. QED  BY <2>2, ProbeTyped
<1>3. CASE TargetsProbed
  <2>1. \A listed \in {Avds, {}} :
          {Entry("avd", t, "startable") : t \in
            {u \in listed : Entry("avd", u, "runnable") \notin found.entries}} \in SUBSET Entries
    BY DEF Entries
  <2>2. PICK entries \in SUBSET Entries : Probed("targets", entries)
    BY <1>3, <2>1 DEF TargetsProbed
  <2>. QED  BY <2>2, ProbeTyped
<1>4. CASE EntryChosen
  <2>1. CASE UNCHANGED platform /\ found' = [found EXCEPT !.entries = {}]
    BY <2>1 DEF DiscoveryTypeOK
  <2>2. CASE ~(UNCHANGED platform /\ found' = [found EXCEPT !.entries = {}])
    <3>1. PICK e \in UNION Choices :
             /\ found' = [found EXCEPT !.entries = {}, !.chosen = e, !.asked = e.id]
             /\ platform' = e.platform
      BY <1>4, <2>2 DEF EntryChosen
    <3>2. e \in Entries
      BY <3>1 DEF Choices, Prompted, Selectable, Scoped, In, DiscoveryTypeOK
    <3>3. e.platform \in {"android", "ios"}
      BY <3>2 DEF Entries, Entry
    <3>. QED  BY <3>1, <3>2, <3>3 DEF DiscoveryTypeOK
  <2>. QED  BY <2>1, <2>2
<1>5. CASE TargetStarted \/ StartAwaited
  BY <1>5 DEF TargetStarted, StartAwaited, DiscoveryTypeOK, Probes
<1>6. CASE TargetFound
  <2>1. PICK entry \in Entries \cup {found.chosen} :
           found' = [found EXCEPT !.entries = {}, !.chosen = entry] /\ UNCHANGED platform
    BY <1>6 DEF TargetFound, In, Scoped, DiscoveryTypeOK
  <2>. QED  BY <2>1 DEF DiscoveryTypeOK
<1>7. CASE UNCHANGED <<platform, found>>
  BY <1>7 DEF DiscoveryTypeOK, Entries
<1>8. Next => DiscoveryStep \/ UNCHANGED <<platform, found>>
  BY DEF Next, Progress, AndroidStep, AdbPathFound, StaleCleaned, PackageInstalled,
     PortTaken, PortForwarded, InstrumentationStarted, AndroidUnreachable, AndroidReady,
     AndroidNotReady, AttemptTornDown, AndroidRolledBack, IOSStep, IOSDriverInstalled,
     IOSPortTaken, IOSDriverStarted, IOSUnreachable, IOSReady, IOSAppIdsSent, IOSRolledBack,
     CallStep, CallAnswered, CallFails, CaptureFails, RecoveryBegins, OperationFails,
     RecoveryEnds, RecoveryFails, RestartBegins, Reconnected, ReadyAgain, ForwardsWiped,
     PoolCleared, SetUpBegins, Connected, AppPrepared, OperationBegins, SessionEnds,
     DriverComesUp, HostEnds, unmoved, vars, hostVars
<1>. QED  BY <1>1, <1>2, <1>3, <1>4, <1>5, <1>6, <1>7, <1>8 DEF DiscoveryStep, vars, hostVars

-----------------------------------------------------------------------------
(* The invariant: what each part of a session relies on in the others      *)
IndInv ==
  /\ TypeOK
  /\ PlatformInv /\ StartInv /\ LinkInv /\ PriorInv /\ LeakInv /\ ChoiceInv /\ OpInv
  /\ FailedSetupReleases

(* The invariant holds before the first probe, *)
LEMMA Initially == Init => IndInv
<1>. SUFFICES ASSUME Init PROVE IndInv
  OBVIOUS
<1>. USE DEF Init, HostInit, CallsInit
<1>1. HostTypeOK /\ at \in Places
  <2>1. link \in [pooled : BOOLEAN, forwarded : BOOLEAN]
    OBVIOUS
  <2>2. trace \in [started : 0..2, refused : BOOLEAN, prepared : BOOLEAN]
    OBVIOUS
  <2>. QED  BY <2>1, <2>2 DEF HostTypeOK, HostStates, Places
<1>2. CallsTypeOK
  BY DriverAssumption DEF CallsTypeOK, DriverAssumption
<1>3. DiscoveryTypeOK
  BY DEF DiscoveryInit, DiscoveryTypeOK, NoEntry
<1>4. PlatformInv /\ StartInv /\ LinkInv /\ PriorInv /\ LeakInv /\ ChoiceInv
  <2>1. LinkInv /\ ChoiceInv
    BY DEF LinkInv, ChoiceInv, Choosing, Operating
  <2>2. PlatformInv /\ PriorInv
    BY DEF PlatformInv, PriorInv, Restarting
  <2>3. at = "detect" /\ trace.started = 0 /\ ~trace.prepared /\ ~client.open /\ ~link.pooled
    OBVIOUS
  <2>4. StartInv
    BY <2>3 DEF StartInv, SetUp, Operating, Restarting
  <2>5. LeakInv
    BY DEF LeakInv
  <2>. QED  BY <2>1, <2>2, <2>4, <2>5
<1>5. OpInv /\ FailedSetupReleases
  BY DEF OpInv, MaxRetries, TouchesDevice, FailedSetupReleases, At
<1>. QED  BY <1>1, <1>2, <1>3, <1>4, <1>5 DEF IndInv, TypeOK

(* is kept by every step, *)
LEMMA Inductive == IndInv /\ [Next]_vars => IndInv'
<1>. SUFFICES ASSUME IndInv, [Next]_vars PROVE IndInv'
  OBVIOUS
<1>. USE DEF IndInv
<1>1. HostTypeOK'
  BY MachineTypeStep, LinkTypeStep, ClientTypeStep, TraceTypeStep, FoundTypeStep
  DEF TypeOK, HostTypeOK, MachineOK, LinkOK, ClientOK, TraceOK, FoundOK
<1>2. TypeOK'
  BY <1>1, PlaceStep, CallsTypeStep, FoundTypeStep, <1>1 DEF TypeOK, HostTypeOK, FoundOK
<1>. QED
  BY <1>2, PlatformStep, StartStep, LinkStep, PriorStep, LeakStep, ChoiceStep, OpStep, FailStep

(* and so holds of every session. *)
LEMMA Invariant == Spec => []IndInv
  BY Initially, Inductive, PTL DEF Spec

-----------------------------------------------------------------------------
(* The session's type invariant. *)
THEOREM TypeCorrect == Spec => []TypeOK
  BY Invariant, PTL DEF IndInv

(* The driver is set up on the device that was chosen, in its second       *)
(* inventory as in its first, on the platform that was asked for.          *)
THEOREM ChosenIsSetUp == Spec => []SetUpOnTheChosen
<1>1. IndInv => SetUpOnTheChosen
  BY DEF IndInv, ChoiceInv, SetUpOnTheChosen
<1>. QED  BY <1>1, Invariant, PTL

(* The clean-up of stale forwards, wherever it stands, wipes none that the *)
(* session has made.                                                       *)
THEOREM ForwardIsKept == Spec => []ForwardStands
<1>1. IndInv => ForwardStands
  BY DEF IndInv, LinkInv, ForwardStands, Operating
<1>. QED  BY <1>1, Invariant, PTL

(* A failed set-up has closed the channel its client knows and holds no    *)
(* port, forward, child or driver, up to the commands that were refused;   *)
(* a channel that nothing can close any more is left open only by a second *)
(* start of Android's instrumentation.                                     *)
THEOREM FailureReleases == Spec => []FailedSetupReleases
  BY Invariant, PTL DEF IndInv

(* An action reaches the device at most once, a launch three times.        *)
THEOREM ActionsReachTheDeviceOnce == Spec => []AtMostOnce
<1>1. IndInv => AtMostOnce
  BY DEF IndInv, TypeOK, CallsTypeOK, OpInv, MaxRetries, AtMostOnce
<1>. QED  BY <1>1, Invariant, PTL

(* The instrumentation is started again only when the first is gone or a   *)
(* command that asked after it was refused.                                *)
THEOREM RetryWaits == Spec => RetryAfterPriorGone
<1>1. IndInv /\ [Next]_vars =>
        (trace.started = 1 /\ trace'.started = 2 => driver = "down" \/ trace.refused)
  <2>. SUFFICES ASSUME IndInv, [Next]_vars, trace.started = 1, trace'.started = 2
                PROVE  driver = "down" \/ trace.refused
    OBVIOUS
  <2>1. at = "spawn"
    BY SecondStart DEF IndInv, TypeOK, HostTypeOK, TraceOK, StartsAgain
  <2>. QED  BY <2>1 DEF IndInv, PriorInv
<1>. QED  BY <1>1, Invariant, PTL DEF Spec, RetryAfterPriorGone

-----------------------------------------------------------------------------
(* The half of a session's termination that needs no fairness: what is     *)
(* left to do is counted.                                                  *)

(* A restart of the driver is under way for the one that an operation may  *)
(* have.                                                                   *)
RestartInv == at \in Restarting => op.restarts = 1

(* What is still to be seen of the inventory, and of DeviceNode's clean-up *)
ToProbe(probe) == IF probe \in found.todo THEN 1 ELSE 0
ProbesLeft == ToProbe("adb") + ToProbe("simctl") + ToProbe("targets")
WipeLeft == CASE wipe = "running" -> 2 [] wipe = "clearing" -> 1 [] OTHER -> 0

(* The longest way from an await to the end of the session's preparation,  *)
(* of an operation, or of the session; it depends on what is left of the   *)
(* inventory, of the starts, of the tries and of the restart.              *)
PlaceRank(place, probes, starts, tries, restarts) ==
  CASE place \in {"failed", "closed"} -> 0
    [] place \in {"rollback", "cleanUp"} -> 1
    [] place = "idle" -> 2
    [] place = "appReady" -> 3
    [] place = "override" -> 4
    [] place = "appIds" -> 5
    [] place = "spawn" -> 3 + 5 * starts
    [] place = "tearDown" -> 5 + 5 * starts
    [] place = "ready" -> 6 + 5 * starts
    [] place = "connect" -> 7 + 5 * starts
    [] place \in {"forward", "iosTerminate"} -> 18
    [] place \in {"allocate", "iosAllocate"} -> 19
    [] place \in {"installTest", "iosInstall"} -> 20
    [] place = "installDriver" -> 21
    [] place = "stale" -> 22
    [] place = "adbPath" -> 23
    [] place = "setUp" -> 24
    [] place = "redetect" -> 25 + probes
    [] place = "await" -> 29
    [] place = "start" -> 30
    [] place = "detect" -> 31 + probes
    [] place = "thrown" -> 3 + 10 * restarts
    [] place = "call" -> 4 + 10 * restarts + tries
    [] place = "reAppIds" -> 7
    [] place = "reready" -> 8
    [] place = "reconnect" -> 9
    [] place = "restart" -> 10

PlaceLeft == PlaceRank(at, ProbesLeft, 2 - trace.started, 2 - op.tries, 1 - op.restarts)

(* No operation takes more steps than these, its begin, its retries, its   *)
(* restart of the driver and its replay included.                          *)
PerOperation == 15
StepsToGo == (MaxOps - op.done) * PerOperation + PlaceLeft + WipeLeft

(* The steps of the session itself; the others are the driver's, and the   *)
(* end of its process on the host.                                         *)
SessionActs == Progress \/ ((OperationBegins \/ SessionEnds) /\ UNCHANGED found)

(* What discovery sees, and how it goes on from it *)
ProbeSeen(probe) == found'.todo = found.todo \ {probe}
DiscoveryGoesOn ==
  \/ at' = at /\ at \in {"detect", "redetect"} /\ \E probe \in found.todo : ProbeSeen(probe)
  \/ at = "detect" /\ at' \in {"start", "setUp", "failed"}
  \/ at = "start" /\ at' \in {"await", "failed"}
  \/ at = "await" /\ at' \in {"redetect", "failed"}
  \/ at = "redetect" /\ at' \in {"setUp", "failed"}

(* Discovery moves from await to await in order. *)
LEMMA DiscoveryMoves ==
  ASSUME DiscoveryTypeOK, DiscoveryStep
  PROVE  UNCHANGED <<wipe, trace, op>> /\ DiscoveryGoesOn
<1>0. /\ found.todo \subseteq Probes /\ "todo" \in DOMAIN found
      /\ found = [x \in DOMAIN found |-> found[x]]
  BY DEF DiscoveryTypeOK
<1>1. ASSUME NEW probe, NEW entries, Probed(probe, entries)
      PROVE  UNCHANGED <<wipe, trace, op>> /\ DiscoveryGoesOn
  BY <1>0, <1>1 DEF Probed, Detecting, others, ProbeSeen, DiscoveryGoesOn
<1>2. AdbProbed => \E entries : Probed("adb", entries)
  BY DEF AdbProbed
<1>3. SimctlProbed => \E entries : Probed("simctl", entries)
  BY DEF SimctlProbed
<1>4. TargetsProbed => \E entries : Probed("targets", entries)
  BY DEF TargetsProbed
<1>5. CASE EntryChosen
  <2>1. at = "detect" /\ UNCHANGED others
    BY <1>5 DEF EntryChosen, At, GoTo, others
  <2>2. at' \in {"start", "setUp", "failed"}
    BY <1>5 DEF EntryChosen, At, GoTo, others
  <2>. QED  BY <2>1, <2>2 DEF others, DiscoveryGoesOn
<1>6. CASE TargetStarted
  BY <1>6 DEF TargetStarted, At, GoTo, others, DiscoveryGoesOn
<1>7. CASE StartAwaited
  BY <1>7 DEF StartAwaited, At, GoTo, others, DiscoveryGoesOn
<1>8. CASE TargetFound
  <2>1. at = "redetect" /\ UNCHANGED others
    BY <1>8 DEF TargetFound, At, GoTo, others
  <2>2. at' \in {"setUp", "failed"}
    BY <1>8 DEF TargetFound, At, GoTo, others
  <2>. QED  BY <2>1, <2>2 DEF others, DiscoveryGoesOn
<1>. QED  BY <1>1, <1>2, <1>3, <1>4, <1>5, <1>6, <1>7, <1>8 DEF DiscoveryStep

(* A restart is begun only by the operation that counts it, *)
LEMMA RestartStep ==
  CallsTypeOK /\ DiscoveryTypeOK /\ PlatformInv /\ RestartInv /\ [Next]_vars => RestartInv'
<1>. SUFFICES ASSUME CallsTypeOK, DiscoveryTypeOK, PlatformInv, RestartInv, [Next]_vars PROVE RestartInv'
  OBVIOUS
<1>. USE DEF CallsTypeOK, RestartInv, Restarting, At, GoTo, Android, hostVars, machine, unmoved, vars
<1>1. CASE DiscoveryStep
  BY <1>1, DiscoveryMoves DEF DiscoveryGoesOn
<1>2. CASE AndroidStep /\ UNCHANGED found
  BY <1>2 DEF AndroidStep, AdbPathFound, ClientCloses, StaleCleaned,
       PackageInstalled, PortTaken, PortForwarded, InstrumentationStarted,
       Spawns, AndroidUnreachable, HostKilled, AndroidReady, Reachable,
       AndroidNotReady, AttemptTornDown, Refuse, AndroidRolledBack,
       ForwardRemoved, DriverAfter
<1>3. CASE IOSStep /\ UNCHANGED found
  BY <1>3 DEF IOSStep, IOSDriverInstalled, IOSPortTaken, IOSDriverStarted,
       IOSUnreachable, IOSReady, Reachable, IOSAppIdsSent, IOSRolledBack,
       DriverAfter, Refuse, ClientCloses
<1>4. CASE CallStep /\ UNCHANGED found
  BY <1>4 DEF CallStep, CallAnswered, Delivered, Reachable, CallFails,
       CaptureFails, RecoveryBegins, LooksAlive, OperationFails,
       RecoveryEnds, RecoveryFails, RestartBegins, Reconnected, Connects,
       ReadyAgain
<1>5. CASE OtherStep /\ UNCHANGED found
  <2>1. CASE OperationBegins
    BY <2>1 DEF OperationBegins
  <2>2. CASE ForwardsWiped \/ PoolCleared \/ DriverComesUp \/ HostEnds
    BY <2>2 DEF ForwardsWiped, PoolCleared, DriverComesUp, HostEnds
  <2>3. CASE SetUpBegins \/ Connected \/ AppPrepared \/ SessionEnds
    BY <2>3 DEF SetUpBegins, Connected, AppPrepared, SessionEnds
  <2>. QED  BY <1>5, <2>1, <2>2, <2>3 DEF OtherStep
<1>6. CASE UNCHANGED vars
  BY <1>6 DEF vars
<1>. QED  BY <1>1, <1>2, <1>3, <1>4, <1>5, <1>6 DEF Next, Progress, OtherStep

(* so that the count rests on this invariant. *)
CountInv == IndInv /\ RestartInv
LEMMA CountInvStep == CountInv /\ [Next]_vars => CountInv'
  BY Inductive, RestartStep DEF CountInv, IndInv, TypeOK

(* The table, read place by place *)
RankRead(place, probes, starts, tries, restarts, rank) ==
  /\ place \in Places => rank \in Nat
  /\ place \in {"failed", "closed"} => rank = 0
  /\ place \in {"rollback", "cleanUp"} => rank = 1
  /\ place = "idle" => rank = 2
  /\ place = "appReady" => rank = 3
  /\ place = "override" => rank = 4
  /\ place = "appIds" => rank = 5
  /\ place = "spawn" => rank = 3 + 5 * starts
  /\ place = "tearDown" => rank = 5 + 5 * starts
  /\ place = "ready" => rank = 6 + 5 * starts
  /\ place = "connect" => rank = 7 + 5 * starts
  /\ place \in {"forward", "iosTerminate"} => rank = 18
  /\ place \in {"allocate", "iosAllocate"} => rank = 19
  /\ place \in {"installTest", "iosInstall"} => rank = 20
  /\ place = "installDriver" => rank = 21
  /\ place = "stale" => rank = 22
  /\ place = "adbPath" => rank = 23
  /\ place = "setUp" => rank = 24
  /\ place = "redetect" => rank = 25 + probes
  /\ place = "await" => rank = 29
  /\ place = "start" => rank = 30
  /\ place = "detect" => rank = 31 + probes
  /\ place = "thrown" => rank = 3 + 10 * restarts
  /\ place = "call" => rank = 4 + 10 * restarts + tries
  /\ place = "reAppIds" => rank = 7
  /\ place = "reready" => rank = 8
  /\ place = "reconnect" => rank = 9
  /\ place = "restart" => rank = 10

(* The table gives every place its rank. *)
LEMMA PlaceRead ==
  ASSUME NEW probes \in Nat, NEW starts \in Nat, NEW tries \in Nat, NEW restarts \in Nat, NEW place
  PROVE  RankRead(place, probes, starts, tries, restarts,
                  PlaceRank(place, probes, starts, tries, restarts))
<1>1. place \in {"failed", "closed"} => PlaceRank(place, probes, starts, tries, restarts) = 0
  BY DEF PlaceRank
<1>2. place \in {"rollback", "cleanUp"} => PlaceRank(place, probes, starts, tries, restarts) = 1
  BY DEF PlaceRank
<1>3. place = "idle" => PlaceRank(place, probes, starts, tries, restarts) = 2
  BY DEF PlaceRank
<1>4. place = "appReady" => PlaceRank(place, probes, starts, tries, restarts) = 3
  BY DEF PlaceRank
<1>5. place = "override" => PlaceRank(place, probes, starts, tries, restarts) = 4
  BY DEF PlaceRank
<1>6. place = "appIds" => PlaceRank(place, probes, starts, tries, restarts) = 5
  BY DEF PlaceRank
<1>7. place = "spawn" => PlaceRank(place, probes, starts, tries, restarts) = 3 + 5 * starts
  BY DEF PlaceRank
<1>8. place = "tearDown" => PlaceRank(place, probes, starts, tries, restarts) = 5 + 5 * starts
  BY DEF PlaceRank
<1>9. place = "ready" => PlaceRank(place, probes, starts, tries, restarts) = 6 + 5 * starts
  BY DEF PlaceRank
<1>10. place = "connect" => PlaceRank(place, probes, starts, tries, restarts) = 7 + 5 * starts
  BY DEF PlaceRank
<1>11. place \in {"forward", "iosTerminate"} => PlaceRank(place, probes, starts, tries, restarts) = 18
  BY DEF PlaceRank
<1>12. place \in {"allocate", "iosAllocate"} => PlaceRank(place, probes, starts, tries, restarts) = 19
  BY DEF PlaceRank
<1>13. place \in {"installTest", "iosInstall"} => PlaceRank(place, probes, starts, tries, restarts) = 20
  BY DEF PlaceRank
<1>14. place = "installDriver" => PlaceRank(place, probes, starts, tries, restarts) = 21
  BY DEF PlaceRank
<1>15. place = "stale" => PlaceRank(place, probes, starts, tries, restarts) = 22
  BY DEF PlaceRank
<1>16. place = "adbPath" => PlaceRank(place, probes, starts, tries, restarts) = 23
  BY DEF PlaceRank
<1>17. place = "setUp" => PlaceRank(place, probes, starts, tries, restarts) = 24
  BY DEF PlaceRank
<1>18. place = "redetect" => PlaceRank(place, probes, starts, tries, restarts) = 25 + probes
  BY DEF PlaceRank
<1>19. place = "await" => PlaceRank(place, probes, starts, tries, restarts) = 29
  BY DEF PlaceRank
<1>20. place = "start" => PlaceRank(place, probes, starts, tries, restarts) = 30
  BY DEF PlaceRank
<1>21. place = "detect" => PlaceRank(place, probes, starts, tries, restarts) = 31 + probes
  BY DEF PlaceRank
<1>22. place = "thrown" => PlaceRank(place, probes, starts, tries, restarts) = 3 + 10 * restarts
  BY DEF PlaceRank
<1>23. place = "call" => PlaceRank(place, probes, starts, tries, restarts) = 4 + 10 * restarts + tries
  BY DEF PlaceRank
<1>24. place = "reAppIds" => PlaceRank(place, probes, starts, tries, restarts) = 7
  BY DEF PlaceRank
<1>25. place = "reready" => PlaceRank(place, probes, starts, tries, restarts) = 8
  BY DEF PlaceRank
<1>26. place = "reconnect" => PlaceRank(place, probes, starts, tries, restarts) = 9
  BY DEF PlaceRank
<1>27. place = "restart" => PlaceRank(place, probes, starts, tries, restarts) = 10
  BY DEF PlaceRank
<1>. HIDE DEF PlaceRank
<1>28. place \in Places => PlaceRank(place, probes, starts, tries, restarts) \in Nat
  BY <1>1, <1>2, <1>3, <1>4, <1>5, <1>6, <1>7, <1>8, <1>9, <1>10, <1>11, <1>12, <1>13, <1>14,
     <1>15, <1>16, <1>17, <1>18, <1>19, <1>20, <1>21, <1>22, <1>23, <1>24, <1>25, <1>26, <1>27 DEF Places
<1>. QED  BY <1>1, <1>2, <1>3, <1>4, <1>5, <1>6, <1>7, <1>8, <1>9, <1>10, <1>11, <1>12, <1>13, <1>14,
     <1>15, <1>16, <1>17, <1>18, <1>19, <1>20, <1>21, <1>22, <1>23, <1>24, <1>25, <1>26, <1>27, <1>28 DEF RankRead

(* The count, place by place *)
StepsPerPlace ==
  /\ ProbesLeft \in 0..3 /\ WipeLeft \in Nat
  /\ RankRead(at, ProbesLeft, 2 - trace.started, 2 - op.tries, 1 - op.restarts, PlaceLeft)

(* What is left to probe is a number. *)
LEMMA ProbesCounted == ProbesLeft \in 0..3
<1>1. \A probe \in Probes : ToProbe(probe) \in {0, 1}
  BY DEF ToProbe
<1>2. ToProbe("adb") \in {0, 1} /\ ToProbe("simctl") \in {0, 1} /\ ToProbe("targets") \in {0, 1}
  BY <1>1 DEF Probes
<1>. QED  BY <1>2 DEF ProbesLeft

(* In every state the count is what its place says, *)
LEMMA PlaceCounted == TypeOK => StepsPerPlace
<1>. SUFFICES ASSUME TypeOK PROVE StepsPerPlace
  OBVIOUS
<1>1. 2 - trace.started \in Nat /\ 2 - op.tries \in Nat /\ 1 - op.restarts \in Nat
  BY DEF TypeOK, HostTypeOK, CallsTypeOK
<1>2. ProbesLeft \in 0..3 /\ WipeLeft \in Nat
  BY ProbesCounted DEF WipeLeft
<1>. QED  BY <1>1, <1>2, PlaceRead DEF StepsPerPlace, PlaceLeft

(* and so it is after a step. *)
LEMMA PlaceCountedNext == TypeOK' => StepsPerPlace'
  BY PlaceCounted, PTL


(* A probe that has been seen is one fewer. *)
LEMMA ProbesFall ==
  ASSUME DiscoveryTypeOK, NEW probe \in found.todo, ProbeSeen(probe)
  PROVE  ProbesLeft' < ProbesLeft
<1>1. probe \in Probes
  BY DEF DiscoveryTypeOK
<1>2. \A other \in Probes : ToProbe(other)' = IF other = probe THEN 0 ELSE ToProbe(other)
  BY DEF ToProbe, ProbeSeen
<1>3. ToProbe(probe) = 1
  BY DEF ToProbe
<1>4. \A other \in Probes : ToProbe(other) \in {0, 1}
  BY DEF ToProbe
<1>5. CASE probe = "adb"
  BY <1>2, <1>3, <1>4, <1>5 DEF ProbesLeft, Probes
<1>6. CASE probe = "simctl"
  BY <1>2, <1>3, <1>4, <1>6 DEF ProbesLeft, Probes
<1>7. CASE probe = "targets"
  BY <1>2, <1>3, <1>4, <1>7 DEF ProbesLeft, Probes
<1>. QED  BY <1>1, <1>5, <1>6, <1>7 DEF Probes

(* A step from await to await *)
PlaceFalls == PlaceLeft' < PlaceLeft /\ wipe' = wipe /\ op'.done = op.done

(* Every step of the discovery is one fewer: a probe, or an await, *)
LEMMA DiscoveryFalls == CountInv /\ CountInv' /\ DiscoveryStep => PlaceFalls
<1>. SUFFICES ASSUME CountInv, CountInv', DiscoveryStep PROVE PlaceFalls
  OBVIOUS
<1>1. StepsPerPlace /\ StepsPerPlace'
  BY PlaceCounted, PlaceCountedNext DEF CountInv, IndInv
<1>2. UNCHANGED <<wipe, trace, op>> /\ DiscoveryGoesOn
  BY DiscoveryMoves DEF CountInv, IndInv, TypeOK
<1>3. CASE at' = at /\ at \in {"detect", "redetect"} /\ \E probe \in found.todo : ProbeSeen(probe)
  <2>1. ProbesLeft' < ProbesLeft
    BY <1>3, ProbesFall DEF CountInv, IndInv, TypeOK
  <2>. QED  BY <1>1, <1>2, <1>3, <2>1 DEF StepsPerPlace, RankRead, PlaceFalls
<1>4. CASE at = "detect" /\ at' \in {"start", "setUp", "failed"}
  BY <1>1, <1>2, <1>4 DEF StepsPerPlace, RankRead, PlaceFalls
<1>5. CASE at = "start" /\ at' \in {"await", "failed"}
  BY <1>1, <1>2, <1>5 DEF StepsPerPlace, RankRead, PlaceFalls
<1>6. CASE at = "await" /\ at' \in {"redetect", "failed"}
  BY <1>1, <1>2, <1>6 DEF StepsPerPlace, RankRead, PlaceFalls
<1>7. CASE at = "redetect" /\ at' \in {"setUp", "failed"}
  BY <1>1, <1>2, <1>7 DEF StepsPerPlace, RankRead, PlaceFalls
<1>. QED  BY <1>2, <1>3, <1>4, <1>5, <1>6, <1>7 DEF DiscoveryGoesOn

(* of the set-up on Android, a second start included, *)
LEMMA AndroidFalls == CountInv /\ CountInv' /\ AndroidStep => PlaceFalls
<1>. SUFFICES ASSUME CountInv, CountInv', AndroidStep PROVE PlaceFalls
  OBVIOUS
<1>1. StepsPerPlace /\ StepsPerPlace'
  BY PlaceCounted, PlaceCountedNext DEF CountInv, IndInv
<1>2. /\ trace \in [started : 0..2, refused : BOOLEAN, prepared : BOOLEAN]
      /\ at = "spawn" => trace.started <= 1
      /\ at = "tearDown" => trace.started = 1
  BY DEF CountInv, IndInv, TypeOK, HostTypeOK, StartInv
<1>. USE DEF StepsPerPlace, RankRead, PlaceFalls, At, GoTo
<1>3. CASE AdbPathFound \/ PortTaken \/ PortForwarded
  <2>1. \/ at = "adbPath" /\ at' \in {"stale", "failed"}
        \/ at = "allocate" /\ at' \in {"forward", "rollback"}
        \/ at = "forward" /\ at' \in {"spawn", "rollback"}
    BY <1>3 DEF AdbPathFound, PortTaken, PortForwarded
  <2>2. UNCHANGED <<wipe, trace, op>>
    BY <1>3 DEF AdbPathFound, PortTaken, PortForwarded
  <2>. QED  BY <1>1, <1>2, <2>1, <2>2
<1>10. CASE StaleCleaned
  BY <1>1, <1>10 DEF StaleCleaned
<1>11. CASE PackageInstalled
  BY <1>1, <1>11 DEF PackageInstalled
<1>4. CASE InstrumentationStarted
  BY <1>1, <1>2, <1>4 DEF InstrumentationStarted
<1>5. CASE AndroidUnreachable
  BY <1>1, <1>2, <1>5 DEF AndroidUnreachable
<1>6. CASE AndroidReady
  BY <1>1, <1>2, <1>6 DEF AndroidReady
<1>7. CASE AndroidNotReady
  BY <1>1, <1>2, <1>7 DEF AndroidNotReady
<1>8. CASE AttemptTornDown
  <2>1. trace'.started = trace.started
    BY <1>2, <1>8 DEF AttemptTornDown, Refuse
  <2>2. at = "tearDown" /\ at' \in {"spawn", "rollback"} /\ UNCHANGED <<wipe, op>>
    BY <1>8 DEF AttemptTornDown
  <2>. QED  BY <1>1, <1>2, <2>1, <2>2
<1>9. CASE AndroidRolledBack
  BY <1>1, <1>9 DEF AndroidRolledBack
<1>. QED  BY <1>3, <1>4, <1>5, <1>6, <1>7, <1>8, <1>9, <1>10, <1>11 DEF AndroidStep

(* on iOS, *)
LEMMA IOSFalls == CountInv /\ CountInv' /\ IOSStep => PlaceFalls
<1>. SUFFICES ASSUME CountInv, CountInv', IOSStep PROVE PlaceFalls
  OBVIOUS
<1>1. StepsPerPlace /\ StepsPerPlace'
  BY PlaceCounted, PlaceCountedNext DEF CountInv, IndInv
<1>2. /\ trace \in [started : 0..2, refused : BOOLEAN, prepared : BOOLEAN]
      /\ at = "iosTerminate" => trace.started = 0
  BY DEF CountInv, IndInv, TypeOK, HostTypeOK, StartInv, Unstarted
<1>. USE DEF StepsPerPlace, RankRead, PlaceFalls, At, GoTo
<1>3. CASE IOSDriverInstalled \/ IOSPortTaken
  BY <1>1, <1>3 DEF IOSDriverInstalled, IOSPortTaken
<1>4. CASE IOSDriverStarted
  BY <1>1, <1>2, <1>4 DEF IOSDriverStarted
<1>5. CASE IOSUnreachable \/ IOSReady
  BY <1>1, <1>2, <1>5 DEF IOSUnreachable, IOSReady
<1>6. CASE IOSAppIdsSent
  BY <1>1, <1>6 DEF IOSAppIdsSent
<1>7. CASE IOSRolledBack
  BY <1>1, <1>7 DEF IOSRolledBack
<1>. QED  BY <1>3, <1>4, <1>5, <1>6, <1>7 DEF IOSStep

(* and of an operation, its retries, its restart and its replay included. *)
LEMMA CallFalls == CountInv /\ CountInv' /\ CallStep => PlaceFalls
<1>. SUFFICES ASSUME CountInv, CountInv', CallStep PROVE PlaceFalls
  OBVIOUS
<1>1. StepsPerPlace /\ StepsPerPlace'
  BY PlaceCounted, PlaceCountedNext DEF CountInv, IndInv
<1>2. /\ CallsTypeOK
      /\ at \in Restarting => op.restarts = 1
      /\ op.kind # "capture" => op.tries <= MaxRetries(op.kind)
  BY DEF CountInv, IndInv, TypeOK, RestartInv, OpInv
<1>. USE DEF StepsPerPlace, RankRead, PlaceFalls, At, GoTo, unmoved, CallsTypeOK, Restarting
<1>3. CASE CallAnswered
  BY <1>1, <1>2, <1>3 DEF CallAnswered, Delivered
<1>4. CASE CallFails
  <2>1. PICK next \in {op} \cup {[op EXCEPT !.hits = @ + 1]} :
          IF op.tries < MaxRetries(op.kind)
          THEN op' = [next EXCEPT !.tries = @ + 1] /\ UNCHANGED at
          ELSE op' = next /\ GoTo("thrown")
    BY <1>4 DEF CallFails
  <2>2. at = "call" /\ UNCHANGED wipe
    BY <1>4 DEF CallFails
  <2>3. next.tries = op.tries /\ next.restarts = op.restarts /\ next.done = op.done
    BY <1>2, <2>1
  <2>4. CASE op' = [next EXCEPT !.tries = @ + 1] /\ UNCHANGED at
    <3>1. op'.tries = op.tries + 1 /\ op'.restarts = op.restarts /\ op'.done = op.done
      BY <1>2, <2>1, <2>3, <2>4
    <3>. QED  BY <1>1, <1>2, <2>2, <2>4, <3>1
  <2>5. CASE op' = next /\ GoTo("thrown")
    BY <1>1, <1>2, <2>2, <2>3, <2>5
  <2>. QED  BY <2>1, <2>4, <2>5
<1>5. CASE CaptureFails
  BY <1>1, <1>2, <1>5 DEF CaptureFails
<1>6. CASE RecoveryBegins
  BY <1>1, <1>2, <1>6 DEF RecoveryBegins
<1>7. CASE OperationFails
  BY <1>1, <1>2, <1>7 DEF OperationFails
<1>8. CASE RecoveryEnds
  BY <1>1, <1>2, <1>8 DEF RecoveryEnds
<1>9. CASE RecoveryFails
  BY <1>1, <1>2, <1>9 DEF RecoveryFails
<1>10. CASE (RestartBegins \/ Reconnected \/ ReadyAgain) /\ UNCHANGED op
  BY <1>1, <1>2, <1>10 DEF RestartBegins, Reconnected, ReadyAgain
<1>. QED  BY <1>3, <1>4, <1>5, <1>6, <1>7, <1>8, <1>9, <1>10 DEF CallStep

(* The steps of the session that no set-up and no call takes: the clean-up *)
(* of the forwards, *)
WipeFalls == PlaceLeft' = PlaceLeft /\ WipeLeft' < WipeLeft /\ op'.done = op.done
(* an operation's begin, *)
OperationCounted == op'.done = op.done + 1 /\ op.done < MaxOps /\ wipe' = wipe
                    /\ PlaceLeft = 2 /\ PlaceLeft' =< 16
(* and what is not the session's. *)
Stays == PlaceLeft' = PlaceLeft /\ wipe' = wipe /\ op'.done = op.done

OtherActs == \/ ForwardsWiped \/ PoolCleared \/ SetUpBegins \/ Connected \/ AppPrepared
             \/ OperationBegins \/ SessionEnds

(* Each of them is counted, *)
LEMMA OthersFall ==
  CountInv /\ CountInv' /\ OtherActs /\ UNCHANGED found => PlaceFalls \/ WipeFalls \/ OperationCounted
<1>. SUFFICES ASSUME CountInv, CountInv', OtherActs, UNCHANGED found
              PROVE  PlaceFalls \/ WipeFalls \/ OperationCounted
  OBVIOUS
<1>1. StepsPerPlace /\ StepsPerPlace'
  BY PlaceCounted, PlaceCountedNext DEF CountInv, IndInv
<1>. USE DEF At, GoTo
<1>2. CASE ForwardsWiped \/ PoolCleared
  <2>1. PlaceLeft' = PlaceLeft
    BY <1>2 DEF ForwardsWiped, PoolCleared, PlaceLeft, ProbesLeft, ToProbe
  <2>2. WipeLeft' < WipeLeft /\ op' = op
    BY <1>2 DEF ForwardsWiped, PoolCleared, WipeLeft
  <2>3. WipeFalls
    BY <2>1, <2>2 DEF WipeFalls
  <2>. QED  BY <2>3
<1>3. CASE SetUpBegins
  <2>1. PlaceFalls
    BY <1>1, <1>3 DEF SetUpBegins, StepsPerPlace, RankRead, PlaceFalls
  <2>. QED  BY <2>1
<1>4. CASE Connected
  <2>1. 2 - trace.started \in Nat
    BY DEF CountInv, IndInv, TypeOK, HostTypeOK
  <2>2. at = "connect" /\ at' = "ready" /\ UNCHANGED <<wipe, trace, op>>
    BY <1>4 DEF Connected
  <2>3. PlaceFalls
    BY <1>1, <2>1, <2>2 DEF StepsPerPlace, RankRead, PlaceFalls
  <2>. QED  BY <2>3
<1>5. CASE AppPrepared
  <2>1. PlaceFalls
    BY <1>1, <1>5 DEF AppPrepared, StepsPerPlace, RankRead, PlaceFalls
  <2>. QED  BY <2>1
<1>6. CASE OperationBegins
  <2>1. PICK kind \in Kinds :
          op' = [op EXCEPT !.kind = kind, !.tries = 0, !.hits = 0, !.restarts = 0, !.done = @ + 1]
    BY <1>6 DEF OperationBegins
  <2>2. op.done < MaxOps /\ at = "idle" /\ at' = "call" /\ UNCHANGED wipe
    BY <1>6 DEF OperationBegins, unmoved
  <2>3. op'.tries = 0 /\ op'.restarts = 0 /\ op'.done = op.done + 1
    BY <2>1 DEF CountInv, IndInv, TypeOK, CallsTypeOK
  <2>4. PlaceLeft = 2 /\ PlaceLeft' = 16
    BY <1>1, <2>2, <2>3 DEF StepsPerPlace, RankRead
  <2>5. OperationCounted
    BY <2>2, <2>3, <2>4 DEF OperationCounted
  <2>. QED  BY <2>5
<1>7. CASE SessionEnds
  <2>1. \/ at = "idle" /\ at' = "closed"
        \/ at = "cleanUp" /\ at' = "failed"
    BY <1>7 DEF SessionEnds
  <2>2. UNCHANGED <<wipe, op>>
    BY <1>7 DEF SessionEnds
  <2>3. PlaceFalls
    BY <1>1, <2>1, <2>2 DEF StepsPerPlace, RankRead, PlaceFalls
  <2>. QED  BY <2>3
<1>. QED  BY <1>2, <1>3, <1>4, <1>5, <1>6, <1>7 DEF OtherActs

(* and what is not the session's is not. *)
LEMMA OthersStay == (DriverComesUp \/ HostEnds) /\ UNCHANGED found => Stays
<1>. SUFFICES ASSUME DriverComesUp \/ HostEnds, UNCHANGED found PROVE Stays
  OBVIOUS
<1>1. PlaceLeft' = PlaceLeft
  BY DEF DriverComesUp, HostEnds, PlaceLeft, ProbesLeft, ToProbe
<1>2. UNCHANGED <<wipe, op>>
  BY DEF DriverComesUp, HostEnds
<1>. QED  BY <1>1, <1>2 DEF Stays

(* An operation that is begun costs no more than it was counted for. *)
LEMMA OperationCosts ==
  ASSUME NEW n \in Nat, NEW m \in 0..n
  PROVE  /\ (n - m) * PerOperation \in Nat
         /\ m < n => (n - (m + 1)) * PerOperation = (n - m) * PerOperation - PerOperation
BY DEF PerOperation

(* What is left to do is a number, *)
Counted == /\ (MaxOps - op.done) * PerOperation \in Nat
           /\ PlaceLeft \in Nat /\ WipeLeft \in Nat
LEMMA SessionCounted == TypeOK => Counted
<1>. SUFFICES ASSUME TypeOK PROVE Counted
  OBVIOUS
<1>1. at \in Places /\ op.done \in 0..MaxOps
  BY DEF TypeOK, CallsTypeOK
<1>2. PlaceLeft \in Nat /\ WipeLeft \in Nat
  BY <1>1, PlaceCounted DEF StepsPerPlace, RankRead
<1>3. (MaxOps - op.done) * PerOperation \in Nat
  BY <1>1, DriverAssumption, OperationCosts DEF DriverAssumption
<1>. QED  BY <1>2, <1>3 DEF Counted

(* after every step as before it. *)
LEMMA SessionCountedNext == TypeOK' => Counted'
  BY SessionCounted, PTL

(* Of sums of numbers *)
LEMMA SumsFall ==
  ASSUME NEW a \in Nat, NEW b \in Nat, NEW c \in Nat, NEW p \in Nat, NEW q \in Nat, NEW r \in Nat,
         \/ p = a /\ q < b /\ r = c
         \/ p = a /\ q = b /\ r < c
         \/ p = a - PerOperation /\ b = 2 /\ q =< 16 /\ r = c
  PROVE  p + q + r < a + b + c
BY DEF PerOperation

(* Every step of the session is one fewer, and no other is one more. *)
LEMMA SessionShrinks ==
  CountInv /\ [Next]_vars =>
    (SessionActs => StepsToGo' < StepsToGo) /\ StepsToGo' =< StepsToGo
<1>. SUFFICES ASSUME CountInv, [Next]_vars
              PROVE  (SessionActs => StepsToGo' < StepsToGo) /\ StepsToGo' =< StepsToGo
  OBVIOUS
<1>. DEFINE before == (MaxOps - op.done) * PerOperation
            after == (MaxOps - op'.done) * PerOperation
<1>1. CountInv'
  BY CountInvStep
<1>2. /\ before \in Nat /\ after \in Nat
      /\ PlaceLeft \in Nat /\ PlaceLeft' \in Nat /\ WipeLeft \in Nat /\ WipeLeft' \in Nat
      /\ StepsToGo = before + PlaceLeft + WipeLeft
      /\ StepsToGo' = after + PlaceLeft' + WipeLeft'
  BY <1>1, SessionCounted, SessionCountedNext DEF CountInv, IndInv, Counted, StepsToGo
<1>3. ASSUME PlaceFalls \/ WipeFalls \/ OperationCounted
      PROVE  StepsToGo' < StepsToGo
  <2>1. op.done \in 0..MaxOps
    BY DEF CountInv, IndInv, TypeOK, CallsTypeOK
  <2>2. op'.done = op.done + 1 /\ op.done < MaxOps => after = before - PerOperation
    BY <2>1, DriverAssumption, OperationCosts DEF DriverAssumption
  <2>3. op'.done = op.done => after = before
    OBVIOUS
  <2>4. wipe' = wipe => WipeLeft' = WipeLeft
    BY DEF WipeLeft
  <2>. HIDE DEF before, after
  <2>5. \/ after = before /\ PlaceLeft' < PlaceLeft /\ WipeLeft' = WipeLeft
        \/ after = before /\ PlaceLeft' = PlaceLeft /\ WipeLeft' < WipeLeft
        \/ after = before - PerOperation /\ PlaceLeft = 2 /\ PlaceLeft' =< 16 /\ WipeLeft' = WipeLeft
    BY <1>3, <2>2, <2>3, <2>4 DEF PlaceFalls, WipeFalls, OperationCounted
  <2>6. after + PlaceLeft' + WipeLeft' < before + PlaceLeft + WipeLeft
    BY <1>2, <2>5, SumsFall
  <2>. QED  BY <1>2, <2>6
<1>4. StepsToGo \in Nat /\ StepsToGo' \in Nat
  BY <1>2
<1>5. CASE SessionActs
  <2>1. \/ DiscoveryStep
        \/ (AndroidStep \/ IOSStep \/ CallStep) /\ UNCHANGED found
        \/ OtherActs /\ UNCHANGED found
    BY <1>5 DEF SessionActs, Progress, OtherActs
  <2>2. PlaceFalls \/ WipeFalls \/ OperationCounted
    BY <1>1, <2>1, DiscoveryFalls, AndroidFalls, IOSFalls, CallFalls, OthersFall
  <2>. QED  BY <1>3, <1>4, <2>2
<1>6. CASE ~SessionActs
  <2>1. \/ (DriverComesUp \/ HostEnds) /\ UNCHANGED found
        \/ UNCHANGED vars
    BY <1>6 DEF SessionActs, Next
  <2>2. Stays => StepsToGo' = StepsToGo
    BY DEF Stays, StepsToGo, WipeLeft
  <2>3. UNCHANGED vars => StepsToGo' = StepsToGo
    BY DEF vars, hostVars, machine, StepsToGo, PlaceLeft, WipeLeft, ProbesLeft, ToProbe
  <2>. QED  BY <1>4, <1>6, <2>1, <2>2, <2>3, OthersStay
<1>. QED  BY <1>5, <1>6

(* The invariant of the count holds of every session. *)
LEMMA CountInvariant == Spec => []CountInv
<1>1. Init => CountInv
  BY Initially DEF Init, HostInit, CountInv, RestartInv, Restarting
<1>. QED  BY <1>1, CountInvStep, PTL DEF Spec

(* No session goes on for ever: however its probes, installs, starts,      *)
(* polls and calls turn out, and whatever becomes of the driver meanwhile, *)
(* the session comes back to no await without having used up a probe, a    *)
(* start, a try, the restart or an operation; what the driver and its      *)
(* process do in between gives it nothing more to do.  The half of its     *)
(* termination that needs no fairness, and a bound on its awaits: 36 and   *)
(* 15 for each operation.                                                  *)
THEOREM SessionIsFinite ==
  Spec => /\ [](StepsToGo \in Nat)
          /\ [][(SessionActs => StepsToGo' < StepsToGo) /\ StepsToGo' =< StepsToGo]_vars
<1>1. CountInv => StepsToGo \in Nat
  <2>. SUFFICES ASSUME CountInv PROVE StepsToGo \in Nat
    OBVIOUS
  <2>. DEFINE operations == (MaxOps - op.done) * PerOperation
  <2>1. operations \in Nat /\ PlaceLeft \in Nat /\ WipeLeft \in Nat
    BY SessionCounted DEF CountInv, IndInv, Counted
  <2>. HIDE DEF operations
  <2>2. operations + PlaceLeft + WipeLeft \in Nat
    BY <2>1
  <2>. QED  BY <2>2 DEF operations, StepsToGo
<1>2. CountInv /\ [Next]_vars =>
        [(SessionActs => StepsToGo' < StepsToGo) /\ StepsToGo' =< StepsToGo]_vars
  BY SessionShrinks
<1>. QED  BY <1>1, <1>2, CountInvariant, PTL DEF Spec

=============================================================================
