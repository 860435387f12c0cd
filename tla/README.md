# FinalRun, in TLA+

FinalRun runs mobile UI tests written in plain language: a CLI prepares an
Android device or an iOS simulator, an AI planner looks at its screen and picks
one action after another, a gRPC driver on the device carries them out, and the
run's screenshots, recordings and logs end up in a report. This directory holds
TLA+ models of that program, the TLC configurations that check them, and
theorems about them with TLAPS proofs. Paths below are relative to the
repository; `PROJECT.json` maps every definition to the lines it translates.

Run a model with `tlc -config MCPortPool.cfg MCPortPool`, a proof with
`tlapm PortPoolProofs.tla`.

## 1. The system

| Component | State it keeps | Operations | What makes it correct |
|---|---|---|---|
| Run orchestration, `packages/cli/src/testRunner.ts` | run context: results, abort flag, encountered failure, writer, session; the SIGINT listener; the Logger's sinks | validate, preflight, prepare, loop over the tests, finalize, release; SIGINT | every begun test has one record; success means every test; everything is released on every way out |
| Test session, `packages/cli/src/sessionRunner.ts` | active recording, active log capture, abort listener | start and stop of both captures around the goal, clean-up in a `finally` | nothing that was started is forgotten; an abort is never lost |
| Goal loop, `packages/goal-executor/src/TestExecutor.ts`, `ActionExecutor.ts` | steps, history, iteration, consecutive capture failures, abort flag | capture, plan, ground, act, record | bounded; acts on a fresh screen; steps and history agree; a refusal by the provider is final |
| AI agent, `goal-executor/src/ai/` | none between calls | plan, ground, two attempts each; fatal provider errors | no retry of a fatal error, and its cause survives every catch |
| Driver port pool, `packages/device-node/src/grpc/GrpcPortAllocator.ts` (and the same pool inside `infra/android/AdbClient.ts`) | port map, reserved set, promise chain | allocate, release, clear | mutual exclusion across probes; one port per device |
| Device facade, `device-node/src/device/Device.ts`, `DeviceNode.ts` | device session, runtime, the unawaited clean-up of init | init, setUpDevice, executeAction, captures, closeConnection | closes everything it opened; the set-up waits for the clean-up |
| Device discovery, `discovery/DeviceDiscoveryService.ts` | none: an inventory is read anew each time | probe, start a target, wait for it | the device set up is the one chosen |
| Driver setup, `grpc/GrpcDriverSetup.ts`, `grpc/setup/*`, `infra/*` | forwards, ports, driver processes, startup state | prepare, poll, retry once, roll back, restart | a failed set-up gives up what it holds |
| gRPC driver client, `grpc/GrpcDriverClient.ts` | channel, connected flag | createChannel, unary calls with retries, close | no call that touches the device is repeated |
| Android device, iOS simulator, `device/android/AndroidDevice.ts`, `device/ios/IOSSimulator.ts` | restart in progress | every operation, as commands to adb, simctl, applesimutils or the driver; driver restart | success means that the device is as asked; an action reaches it once |
| Screenshot capture, `device/ScreenshotCapture.ts` | none between calls | stable capture with retries | stable means seen twice; gives up last |
| Recording manager, `device/RecordingManager.ts`, `*RecordingProvider.ts` | active recordings, infos, per-device keys, stopped tests; a child per recording | start, stop, abort, clean-up | every child that runs can be stopped |
| Log capture manager, `device/LogCaptureManager.ts`, `logWriteStream.ts` | active captures, infos, keys, stopped tests, registry of streams; a child and a stream per capture | start, stop, abort, clean-up | every stream finalised once; a log called complete is |
| Report server manager, `cli/src/reportServerManager.ts` | `.server.json` of each workspace, detached servers | start, status, stop, stop all | answers and records are of the workspace's own server; only servers that were found or listed are signalled |
| Report HTTP server, `cli/src/reportServer.ts`, `reportArtifactStream.ts` | the listening socket | listen, serve byte ranges, shut down | exactly the bytes named that exist |
| Report writer, run index, `cli/src/reportWriter.ts`, `runIndex.ts` | files | write record, finalize, rebuild | index equals the runs on disk |
| Run detail page, report pages | the DOM | select, seek, render | not modelled |
| Cloud submission | none | bundle, upload, submit | not modelled |
| Workspace, configuration, preflight, CLI | none of interest | load, validate, probe | not modelled but for their outcome |
| On-device drivers (Kotlin, Swift) | streaming threads | UI automation | not modelled |

How they interact. `runTests` awaits `prepareTestSession` once and
`executeTestOnSession` once per test; the first discovers a device and has
`DeviceNode` set its driver up, the second awaits the device's capture
operations and `TestExecutor.executeGoal`, which awaits the AI agent and the
device. `Device` passes an operation to `AndroidDevice` or `IOSSimulator`, which
send commands to the host's tools and calls to the driver through the gRPC
client. SIGINT calls back into `runTests`' context, which fires an
`AbortSignal`; the session's listener on it calls `TestExecutor.abort()`. The
Logger is shared state of a kind that is easily missed: the run's log sink is
an unguarded `appendFileSync` (`reportWriter.ts:140-147`), so every log line of
every component throws where it stands when the artifacts cannot be written.
The report servers outlive the CLI that starts them; CLI processes meet through
the state file, the ports and the process table alone.

What is hard about it: one event loop, many awaits. Between any two of them a
SIGINT, an abort, another caller or another process of the host may act, and
any awaited call may fail. `PROJECT.json` lists the hazards by line.

## 2. The modules

    PortAssignment  <-- refines --  PortPool  <-- extends --  PortPoolProofs
    GoalOutcome     <-- refines --  GoalLoop  <-- extends --  GoalLoopProofs
    SessionRun  <-- TestRun  <-- TestRunProofs
                    (SessionRun's loop has GoalOutcome's steps)
    CaptureCall  <-- Recording, LogCapture  <-- DeviceCaptures  <-- DeviceCapturesProofs
    DriverHost  <-- AndroidSetup, IOSSetup  <-- DriverCalls  \
    DriverHost  <-- Discovery                                --  <-- DeviceSession  <-- DeviceSessionProofs
    DeviceCommands  <-- ScreenCapture  <-- DeviceOperations  <-- DeviceOperationsProofs
    ReportServer  <-- ReportServerProofs
    ByteRange     <-- ByteRangeProofs

An arrow without a label is EXTENDS. The MC modules give the constants their
values and add nothing to what is modelled.

**PortPool** models `GrpcPortAllocator`. `_portMap` and `_allocatedPorts` keep
their names; the promise chain of `_withLock` is the sequence `lock` of the
callers that joined it. A call is *queued* until its predecessor resolves.
`release` and `clear` have no await in their body and are one action; allocate
awaits a probe at every free port, so each turn of its loop is an action and
anything may happen between two. `bound` is the set of ports that other
processes hold, changed by `HostBinds` at any moment; `steady` is a history
variable with the ports that have been free ever since a scan began.
**PortAssignment** is what callers rely on: a key takes a port that nobody
holds, keeps it, gives it back.

**SessionRun** models `executeTestOnSession`. `phase` is the await it stands
at. `ledger` is the local `state` (which capture to stop), `capturing` is what
really runs on the device; the distance between the two is what can go wrong.
Every log line is modelled where the code has it, because it may throw there:
`LogThenGo(kept, p, l)` is "log, then go on to p", with `kept` the ledger that
the exception finds. The goal loop is in it in the form of GoalOutcome's steps.
The recording is required on Android and optional on iOS.

**TestRun** EXTENDS it with `runTests`: validation, preflight, preparation, the
loop over the tests, the report writer, the record of each test, `finalizeRun`,
the release of the session and the outermost `finally`. `FirstInterrupt` and
`SecondInterrupt` are the SIGINT listener, `DiskChanges` the host's disk.

**GoalLoop** models `TestExecutor.executeGoal` with the handlers of
`ActionExecutor` and the retries of `AIAgent`. `pc` is the await; the planner's
actions are grouped by what carrying them out awaits. `performed` counts the
actions that reached the device and `seen` its value when the current screen
was captured; `delivered` counts the device actions of the current step that the
driver reported done. **GoalOutcome** is what the session relies on: bounded
iterations, none begun after an abort, one verdict or an exception.

**CaptureCall** holds what the captures of one device session share: the call
in progress (the session's caller awaits each one), the await it stands at and
the disk. **Recording** is RecordingManager with both providers: its maps
(`recordingProcess`, `recordingInfo`, `recordingKeys`, `stoppedTests`) and the
recorder's child, which may exit or be killed at any await. **LogCapture** is
LogCaptureManager with its providers and `logWriteStream.ts`: the same maps, the
logger's child, and the stream, whose `finish`, `close` and `error` events come
in any order; `tracked` is the registry of open streams. `finalize` returns at
once for a path that is not tracked (`LogAlreadyFinalized`), and the history
`swallowed` has the tests whose stream's finalize rejected without an answer that
says so, because the log line about it threw. **DeviceCaptures**
composes the two as `Device` does: the close cleans the recordings up, then the
logs. A start is not an action but as many as it has awaits; the synchronous
code between two of them, with every log line that may throw in it, is one.

**DriverHost** holds what a driver's set-up and its use share: the host's child
process, the driver on the device, the port and the forward (`link`), the gRPC
channel that the client knows and whether it has lost sight of another
(`client.open`, `client.leaked`: `createChannel` writes over `_client`), and the
history `trace`. **AndroidSetup** and **IOSSetup**
are the two `prepare`s with their roll-backs, **DriverCalls** the unary calls
with their retries, the failure listener and iOS's recovery of a dead driver,
**Discovery** the inventory, the choice, the start of a target and the second
inventory. **DeviceSession** composes them from `prepareTestSession` to the
close, with the clean-up of stale forwards that `DeviceNode.init` leaves running
beside it (`wipe`). The driver and the child end whenever they like.

**DeviceCommands** has every operation of AndroidDevice and IOSSimulator as the
list of commands it sends, one step each; a command is served, refused, fails,
or takes effect and fails. `dev` is the device: what the commands change.
**ScreenCapture** is `captureState`: the polls of the screen, which may change
between any two of them, and the attempts at the payload. **DeviceOperations**
performs them one after the other.

**ReportServer** has several CLI processes with their commands, and the detached
servers with their life: starting, up, closing, gone. `file` is each
workspace's `.server.json`. Between the reading of a record and the use of it
every other process may act. A server is told from the pid it runs under, which
the host gives to a new process as soon as the old one is gone: `seen` (who
answered the health check), `child` (who was spawned) and `listed` (whom `ps`
found) are servers, for the properties' sake, while the commands record and
signal their pids, and `Kill` reaches whoever has the pid now.

**ByteRange** is `parseByteRange` and the answer to a range request as functions
of a header and a file's size, with the bytes that the header names as the
reference (`RangeIsExact`). `Readings` is what `parseInt` makes of digits: the
integer they are up to `MaxSafe`, some rounding of it up to `Largest`, and
Infinity beyond.

Each module of proofs EXTENDS the module that it is about, or the composition
where the invariant is one of the whole.

The mutants (`*Without*`, `*Regardless*`, ... each marked `Mutant:` in its
comment) are plausible bugs of the definition that follows them. They are in no
next-state relation; substituting one shows that the property named in
`PROJECT.json` would have caught it.

## 3. The runs

| Run | Instance | What it shows |
|---|---|---|
| `port_pool` (MCPortPool) | 3 callers, 2 devices, 2 ports | consistency of set and map at every await, no early exhaustion, every call returns, refinement of PortAssignment |
| `test_run` (MCTestRun) | 2 tests of 2 iterations, both platforms, 2 SIGINTs, disk fails and recovers at will | the ledger covers the captures, success is complete, one record per test, refused runs leave nothing, release, no iteration after an abort, the run ends |
| `test_run_sound` | the same, disk works | captures are released, the connection is closed, the run is reported |
| `test_run_captures`, `test_run_closed` | as `test_run` | two releases that a throwing log line skips (below) |
| `goal_loop` (MCGoalLoop) | 3 iterations, repeat up to 2 | steps, history, counter and screen agree; refusal is final; refinement of GoalOutcome |
| `goal_loop_taps` | 1 iteration, repeat up to 2 | a repeated tap is done once (below) |
| `captures` (MCDeviceCaptures) | 2 tests, 3 plans (two tests recorded; two logged; one recorded and logged), both platforms, disk fails at will | between calls no child runs that nothing can stop, streams are finalised, a close leaves nothing, every call returns |
| `device_session` (MCDeviceSession) | 1 AVD, 1 phone, 1 simulator, 2 operations | the device set up is the one chosen, forwards stand, failed set-ups release, an action reaches the device once, a retry waits, everything settles |
| `device_session_dead` | the same | a capture keeps a dead driver from being restarted (below) |
| `device_operations` (MCDeviceOperations) | 2 operations, 3 polls, 2 pictures, 5 sets of permissions | success is answered of a device that is as promised; what a capture says of the screen and of its failure is so |
| `report_server` (MCReportServer) | 2 CLI processes, 4 commands, 2 workspaces, 3 servers, 2 pids, 2 ports, a search window of 1 | what commands answer and record is their own workspace's, and whom they signal is whom they found or listed, but for a pid used again; its ASSUME evaluates every range header of files of up to 5 bytes, with numbers up to 9 where 5 is `MaxSafe` and 7 `Largest` |

Why these bounds. Two ports and two keys are the least in which a port can be
given twice and a range exhausted with a key left over; the third caller makes
a queue behind the queue. Two tests make "before, inside and between", and every
early break is one with a test left over; two iterations make an abort that
arrives during one and is read at the next. Three iterations of the goal loop
are the least that contain a capture failure, a success that resets the
counter, and a failure again; two repeats are the least repetition. Two SIGINTs
are all the listener distinguishes. `Faults` is a constant so that the same
specification is checked with and without a failing disk. Two tests of one
device are the least in which one's capture is stopped while the other's entry
stands in the same lists; the managers do not look across recordings and logs,
so that a plan with both of one test, and plans with two of a kind, cover what a
plan with everything would. One target of each kind makes a choice between
platforms, an emulator that answers under two identifiers, and a host where
other devices run. Two operations are one that finds the driver as the set-up
left it and one that finds it as the other's failure left it. Three polls are
the least in which a poll fails between two that agree. Two workspaces and
two ports are the least in which a start finds its port taken, and its
window's end; a third server on two pids is one that has the pid of another that
ended, while the second still runs.

Deadlock is checked everywhere but in `report_server`, whose commands run out
(`MaxCommands`); the other specifications state where they may rest.
`report_server` uses symmetry of processes, workspaces, servers and pids, and checks no
liveness. Its port numbers are ordered and hence not symmetric.

Fairness. `port_pool`: weak fairness of each caller's continuations: the event
loop runs what is ready, and a probe of a local port answers. `test_run`: weak
fairness of the program's steps: every awaited call settles by an answer, an
error or its own timeout. `goal_loop`: the same for the goal's steps.
`captures`: weak fairness of the calls' steps, and of the system's part, that a
child that was signalled ends and a stream that was ended closes. A child that
nobody signalled never has to end, which is what makes `EveryCallReturns` a
property of the code: `AndroidRecordingProvider._waitForExit` has no timeout.
`device_session`: weak fairness of the steps of the session, whose awaits are
commands with a timeout and polls with a bound, and of the close after a failed
preparation. No fairness is assumed of callers, SIGINT, abort, the disk, the
driver, or an operation's beginning.

### What the violation runs show

* `test_run_captures`. `docs/memory/cli/session-runner.md` says that neither
  abort in the `finally` can skip what follows it. The warning in the first
  one's `catch` is a log line, and when the sink cannot write it leaves the
  `finally` before the log capture's abort.
* `test_run_closed`. `Device.closeConnection` has the same shape: its warning
  throws inside the `catch` and the runtime is never closed.
* `goal_loop_taps`. A tap with `repeat` that falls back to visual grounding is
  carried out once and reported as a success.
* `device_session_dead`. `IOSSimulator._withDriverRecovery` restarts a driver
  whose process has died when the operation in it throws. A capture answers its
  failures instead of throwing them, so that the recovery around it is never
  entered, and the goal loop begins every iteration with a capture.

### What else the models say

Behaviour that is in the models and worth knowing, and that no document
promises otherwise unless said:

* `createChannel` writes over `_client` without closing the channel there
  (`GrpcDriverClient.ts:59-84`). When Android's instrumentation is started a
  second time the first attempt's channel is lost that way, and neither a failed
  set-up nor the close closes it (`client.leaked`). `FailedSetupReleases` says so,
  and that it happens nowhere else. `_connected` stays true on a dead channel.
* A stop of a log capture answers success over a stream that errored when an
  earlier stop's finalize rejected and the provider's log line about it threw:
  the path is untracked by then, so finalize has nothing to do
  (`logWriteStream.ts:146-149`), and the test is not among `_stoppedTestCases`,
  because the first stop threw before it was added.
  `docs/memory/device-node/log-capture.md:415-446` leaves to those the second
  stops that come one after the other. `StoppedLogIsComplete` names the exception.
* Another process of the host that begins a session removes this one's forward
  too (`adb forward --remove-all`, `AdbClient.ts:228`). `ForwardStands` is about
  one process.
* An iOS driver that was killed by a signal has no exit code and is taken for
  alive (`IOSSimulator.ts:361`). Nothing calls iOS's `releasePort`
  (`IOSSimulatorSetup.ts:228`): a port once taken stays the simulator's.
* Closing an Android session leaves the driver running, though
  `docs/codebase-walkthrough.md:605` says that it is killed; the next set-up's
  clean-up stops it.
* `hideKeyboard` answers that the keyboard is hidden when `dumpsys` failed,
  `toggleInternet` takes an airplane mode that it could not read for off, and
  `rotate` reads a `user_rotation` that is stale while auto-rotate is on.
  `AnswersAreTrue` says of the first two, and of permissions left to an
  `applesimutils` that could not be found, that the answer was given blind, and
  of a rotation that it ended in a fixed orientation, perhaps the old one.
* A timeout of an emulator's start leaves the detached emulator behind.
* A failed listing of Android's packages is answered as an empty list.
* A health probe that times out clears the record of a server that lives; a
  start that times out leaves its child; a late clearing may remove a record
  just written. The pid that a start answers with and records is its child's,
  which may have lost the port to another server of the workspace, the one that
  answered the health check (`reportServerManager.ts:150-159`). The sweep of
  `stop --all` finds the servers without a record. Between the health check or
  the listing and the signal a server may end and its pid be given to another
  process, which is then told to end (`reportServerManager.ts:252-265`).
  The documents name port 4178, the code begins at 4173.
* A range header whose first or last number is so long that it is read as
  Infinity is refused with 416 (`reportArtifactStream.ts:174-186`), though
  `bytes=0-` and such a number names bytes that exist.

## 4. The proofs

TLC checks the instances above; TLAPS proves the following for every value of
the constants. The assumptions are `RangeAssumption` (a range of positive
ports, perhaps empty), `GoalAssumption` (at least one iteration and one
repeat), `SessionAssumption` (at least one iteration, `Faults` a Boolean),
`RunAssumption` (at least one test, any number of SIGINTs), the capture modules'
two `CaptureAssumption`s (the run's tests are finitely many, and plans are of
them; no picture is the one that stands for none), `DriverAssumption` and `CommandAssumption` (bounds are
natural numbers, asks are sets of permissions), `ServerAssumption` (as many
ports, commands and positions of a window as you like, nobody is no server and no
pid) and `NumberAssumption` (integers are rounded before they are infinite).
TLC evaluates each of them in the runs of its module.

### PortPoolProofs

`TypeCorrect`, `MutualExclusion`, `PortsDistinct`, `ExhaustionIsReal`,
`Refinement` and `NobodyOvertakes`, for every set of callers and keys and every
range.

`PoolConsistent` is not inductive: `TakePort` writes the scanned port over the
key's entry, so an older entry would be lost while its port stays reserved. What
is needed is that the entry, absent when the scan began, is still absent after
any number of probes. `ScanInv` says that, and holds because nobody else writes
during a scan, because the promise chain is a mutex. `ChainInv` says that: the
chain holds exactly the callers with a pending call, each once, and only its
head is past its await. The invariant is the conjunction, one lemma per conjunct
and one step per action. The refinement then maps every step to a step of
PortAssignment or a stutter.

`NobodyOvertakes` is what `CallsReturn` rests on. A pending call returns within
`TurnsToReturn` turns of the event loop: a whole call, `MostTurns`, for each call
before it on the chain, and what the head's scan has left. Every turn of any call
brings the number down. A call that joins the chain later, a port that another
process binds and a scan that ends without a port do not bring it up.

### GoalLoopProofs

`TypeCorrect`, `StepsComplete`, `CaptureFailuresEnd`, `ScreenIsFresh`,
`HistoryTold`, `RefusalIsFinal`, `OutcomeRefined` and `GoalIsFinite`.

`TypeInv` adds to the types what each await knows of the retry counter and the
current kind of action. `StepsInv` makes `OneStepPerIteration` inductive: the
number of steps is one less than the iteration from its start until its record,
equal to it after. `RowInv` does the same for the capture failures: the failures
in a row at the end of the steps are none or one at the loop's head, according
to the counter, so a second one is the last step and ends the goal.
`PlannedOnFreshScreen` is inductive with the types. `HistoryIsWhatHappened`
speaks of the moment before the planner is asked; `HistoryInv` speaks of all of
them: the lines are in the order of the iterations, each is the line of a
recorded action, and the only action without one is the last, while the loop is
between the record and the history (`Telling`). `RefusalInv` says that a
refusal moves the goal at once to the recording of the failed step, from where
only the end is reached. `OutcomeRefined` maps the awaits of an iteration to
GoalOutcome's one state `iterating` and every step to one of its steps or a
stutter. `GoalIsFinite` counts: `StepsToGo` is what the iterations left, the
place in this one, its second attempt and its repeats, and an abort may still
take, at first `MaxIterations * (MaxRepeat + 12)` and one. It stays a natural
number, and every step of the goal makes it smaller.

### TestRunProofs

`TypeCorrect`, `LedgerIsComplete`, `OneRecordEach`, `RefusedRunsLeaveNothing`,
`SettledReleased`, `SuccessComplete`, `AbortIsFinal` and `RunIsFinite`, with a
disk that fails whenever it likes; and under `~Faults` the three promises that a failing disk
breaks, `NothingKeepsCapturing`, `RunsAreReported` and `SessionsAreClosed`.

The properties speak of few states, the invariant `IndInv` of all:

* `SessionInv`, what a call relies on at its awaits: the ledger covers the
  captures and starts empty, a recording is on it on Android once the goal runs
  (so that a success is one with a recording, or is being unwound), nobody has
  thrown before the `finally`.
* `PlaceInv`, how the call and the run meet: the call is idle exactly outside
  `execute`, and what it returned left nothing running that the next one, whose
  ledger starts empty, would not know of. This is what `LedgerCoversCaptures`
  needs from one test to the next.
* `CountInv`, how many tests are begun and recorded at each await.
* `AnswerInv`, when there is a writer, an answer and an error.
* `SuccessInv`, what leads to an answer of success: a way out of the loop before
  the last test has set a flag, and each record of success on Android has a
  recording.
* `AbortInv`, how an abort reaches the executor: until the outcome is computed
  an aborted run has fired the signal, and a call that has not left its loop is
  wired to it, with its executor aborted if the run is. It is why no SIGINT is
  lost before the executor exists, during the start of a capture or between two
  tests.

`RunIsFinite` counts the tests left, the iterations of the one that runs, and
the awaits of the call and of the run: at most `2 * MaxIterations + 15` for a
test and 12 besides. Every step of `Program` makes the count smaller; the steps
of the surroundings, a SIGINT among them, never make it larger.

### DeviceCapturesProofs

`TypeCorrect`, `ChildrenReachable`, `StreamsFinalised`, `CloseIsClean`,
`StopsWaitForTheSignalled` and `CallIsFinite`, for any tests and plans, with a disk that fails whenever it likes.

The properties speak of the time between calls; the invariant follows a call
through its awaits. `PlaceInv` says which call stands where.
`RecorderListed` says that a recorder that runs is in the manager's maps, but
for one: a start puts it in `recordingProcess` only after the wait for the child
to settle. `RecorderAtHand` is what the awaits of a start and of a stop know of
the recorder in hand: a start that fails rolls its registration back because no
child of its own runs, a stop has signalled its child before it waits.
`RecordersClosed` says that a close has still to stop every recorder that runs,
and is what carries `CloseLeavesNothing` from its queue to its end.
`LoggerListed`, `LoggerAtHand` and `LoggersClosed` say the same of the loggers,
which are registered as they are spawned. `StreamInv` ties an open stream to the
registry and, as long as no log line was lost, the registry to the captures.
`FinalizedInv` goes the other way, and holds with log lines lost: a capture that is
registered has a tracked stream, or one whose finalize rejected unsaid, except
while it is flushed. It is why a stop that finds its path untracked is either the
named exception of `StoppedLogIsComplete` or no stop at all.

The last two theorems are what `EveryCallReturns` rests on. A stop could wait
for ever for a process that nobody told to end or a stream that nobody ended;
`WaitsAreAnswered` says that it never does, also when a start failed half-way or
a log line threw. Besides the invariant it needs `SpawnInv`: what the maps list,
and what a stop has in hand, was spawned and opened. `CallIsFinite` ranks the
awaits by the longest way from each to the call's return, four for each recording
a loop has still to stop and five for each log, so that a call has at most
`9 * Cardinality(Tests) + 4` of them before it; its own steps bring the number
down, and the children, the streams and the disk leave it alone.

### DeviceSessionProofs

`TypeCorrect`, `ChosenIsSetUp`, `ForwardIsKept`, `FailureReleases`,
`ActionsReachTheDeviceOnce`, `RetryWaits` and `SessionIsFinite`, for any AVDs,
phones, simulators and any number of operations.

`PlatformInv` says that a session takes the steps of its own platform, which the
guards of the steps do not say: the places of the two set-ups are apart.
`StartInv` says how far the set-up has got: no port before it is allocated, no
driver before it is started, prepared only where the operations begin.
`LinkInv` says that the clean-up of init is over before the first forward, and
that the forward is there whenever the driver may be; `FailedSetupReleases` is
inductive together with these. `PriorInv` is what the second start of the
instrumentation relies on, that the first was seen gone or a command refused.
`LeakInv` is what the channel is known by: before the first start of the
instrumentation there is none, so that only the second start can lose one.
`ChoiceInv` follows the identifier chosen through the second inventory.
`OpInv` bounds the hits of an operation by its tries, and says that what is
replayed after a restart is a call that does not touch the device.

`SessionIsFinite` ranks the awaits (`PlaceRank`) by the longest way from each to
the end of the preparation, of an operation or of the session. The rank depends
on what the way may still use up: the probes of the inventory, the second start
of the instrumentation, the tries of a call, and the one restart of the driver
with the replay after it, which is why `RestartInv` is needed: a restart under
way is the one that the operation counts. The count begins with 36 and 15 for
each operation; the clean-up of init is in it too. The driver coming up and its
process ending, however often, leave it alone.

### DeviceOperationsProofs

`CapturesAreHonest`, `TypeCorrect` and `AnswersHold`, for any number of
operations, polls and pictures and any permissions that launches ask for.

For the captures, `PollInv` says that while the polls go on the picture to
compare with is that of the last poll, or none when that failed; `AttemptInv`
that attempts are left as long as the payload is being captured.

For the operations, the invariant would have to say of each rest of each plan
what it leaves to do, and would be as long as the plans. It is shorter because
all plans go one way: every command has a `Rank`, and a plan has its commands in
the order of the ranks (`Ordered`), so that it can be read as the set `Left` of
what is still to come. `ProgressInv` then says of each thing that an operation
promises that it is so, or that the command that makes it so is in `Left`; and
of the few commands that can undo another (clearing takes the permissions back,
a stop ends the app) that what they undo is in `Left` as long as they are. A
failure that the operation goes on after is covered by the check that is still
to come (`call.errors => Do("checkErrors") \in Left`), a state that could not be
read by `call.blind`. When nothing is left, `ProgressInv` is the promise itself
(`DoneIsKept`). `PlanInv` bounds the presses of a key: the command that presses
it is left, or it has been pressed. The lemmas go from sequences of commands
(`Joined`, `Rest`), over what each command does to the device (`LaunchDoes`,
`PermitDoes`, ...) and what each plan holds (`PlanOf`), to one lemma for each
action (`ServedKeeps`, `FailsKeeps`, ...).

### ReportServerProofs

`TypeCorrect` and `CommandsKeepToTheirOwn`, for any processes, workspaces,
servers, pids and ports.

What a command has found out about a server stays true because a server keeps
its workspace, its port, its pid, that it once answered and that it was told to
end, and does not come back once it is gone (`ServersKept`), whatever any other
process does between two awaits. `CommandInv` says what a command has done at each
await, `KnowsSpawned` what is so of the servers it has in hand, `Answered` what it
has done when it has ended, and `RecordedWereSpawned` that a record is of a child
that was spawned. That a signal ends whom it is meant for, or that one is gone
already, and reaches nobody else who lives beside it, rests on `PidsAreUnique`
(`KillEnds`, `TellsTheMeant`): two processes that live have two pids. That is all
that is assumed of pids, so that the theorem has the case of a pid used again, and
says whom the signal reaches then.

### ByteRangeProofs

`ParsingIsExact`, for every size of a file up to `MaxSafe` and every header: the
answer is the bytes named that exist, and 416 when there are none or when a number
is beyond every finite number. It is a theorem about a function and needs no
invariant; `ParseIntReads` says what a reading has in common with the number
written, for the comparison with a size, and `SuffixIsExact` and `FromIsExact` are
the two cases of `parseByteRange`.

### Only model-checked

Liveness (`CallsReturn`, `EveryRunSettles`, `EveryCallReturns`,
`EverythingSettles`, the fairness part of `ImplementsOutcome`) needs ENABLED and
fairness, which are out of the prover's reach. Its other half is proved for the
port pools, the goal loop, the run, the device session and the capture calls
(`NobodyOvertakes`, `GoalIsFinite`, `RunIsFinite`, `SessionIsFinite`,
`CallIsFinite`): none of them goes round for ever. That it does not stop half-way
either, some step being possible wherever it has not settled, is what TLC adds;
of the capture calls `StopsWaitForTheSignalled` has the safety part of that too.
Every invariant that a run checks, and every action property, is a theorem.

## 5. What is not modelled

* **Run detail controller, report pages.** Event handlers over the DOM and
  rendering. The one race, a deferred seek applied after another step was
  selected, is a hazard without a property: its state is the page's.
* **Cloud submission.** One request after another without retries or state; the
  service on the other side is not in the repository.
* **Workspace, configuration, checks, preflight, CLI.** Sequential code over
  files and tools' output; TestRun has the validation and the preflight as
  awaited steps that may fail.
* **The rebuild of the run index.** A pure function of the runs on disk, repaired
  by the next rebuild; TestRun has it as a write that may fail.
* **Prompts, model selection, the parsing of the model's and the tools' output.**
  Data without state: the models have their outcomes.
* **On-device drivers.** What they do is what UIAutomator and XCTest do. Their
  streamer is not used by the code modelled here.
* **Time.** A timeout is a step that may be taken at any time while its await
  lasts. What a deadline's length makes impossible is not assumed.
