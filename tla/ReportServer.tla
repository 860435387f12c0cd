---------------------------- MODULE ReportServer ----------------------------
(***************************************************************************)
(* reportServerManager: the commands of several CLI processes that start,  *)
(* look up and stop the detached report servers of workspaces, agreeing on *)
(* nothing but a state file per workspace and what /health answers.        *)
(* A server is told from the pid it runs under, which the host gives to    *)
(* another once its process is gone: seen, child and listed are servers,   *)
(* of which a command knows no more than their pids.                       *)
(***************************************************************************)
EXTENDS Naturals

CONSTANTS
  Commands,     \* CLI processes, each running one command after another
  Workspaces,
  Servers,      \* bound: the servers that are spawned, one after another
  Pids,         \* what the host has for their processes
  MaxPort,      \* ports are 1..MaxPort
  Window,       \* the first ports, searched in order; the others are ephemeral
  MaxCommands,  \* bound: how many commands are run
  Nobody, NoState

ASSUME ServerAssumption ==
  /\ MaxPort \in Nat /\ Window \in 0..MaxPort /\ MaxCommands \in Nat
  /\ Nobody \notin Servers \cup Pids

VARIABLES
  file,    \* .server.json of each workspace
  server,  \* the servers
  cmd,     \* each CLI process's command
  count    \* how many commands have been run

vars == <<file, server, cmd, count>>

Ports == 1..MaxPort
Ops == {"start", "status", "stop", "stopAll"}
Answers == {"none", "started", "reused", "running", "notRunning", "stale", "stopped", "allStopped", "failed"}
Records == [child : Servers, port : Ports]  \* the pid in it is the child's

Server(w, pid, state, port) ==
  [ws |-> w, pid |-> pid, state |-> state, port |-> port, told |-> FALSE, served |-> FALSE]
Command(w, op, at) ==
  [ws |-> w, op |-> op, at |-> at, port |-> 0, seen |-> Nobody, child |-> Nobody,
   listed |-> {}, unsent |-> {}, left |-> Workspaces, answer |-> "none"]

Places ==
  {"idle", "read", "probe", "clear", "scan", "spawn", "await", "write",
   "signal", "shutdown", "forget", "ps", "kill", "sweep"}
ServerStates ==
  [ws : Workspaces \cup {Nobody}, pid : Pids \cup {Nobody}, state : {"none", "starting", "up", "closing", "gone"},
   port : 0..MaxPort, told : BOOLEAN, served : BOOLEAN]
CommandStates ==
  [ws : Workspaces \cup {Nobody}, op : Ops \cup {"none"}, at : Places, port : 0..(MaxPort + 1),
   seen : Servers \cup {Nobody}, child : Servers \cup {Nobody}, listed : SUBSET Servers,
   unsent : SUBSET Servers, left : SUBSET Workspaces, answer : Answers]

(* A port that is awaited or recorded is a port, a command of a workspace  *)
(* has one, and so has a server, with a pid.                               *)
TypeOK ==
  /\ file \in [Workspaces -> Records \cup {NoState}]
  /\ server \in [Servers -> ServerStates]
  /\ cmd \in [Commands -> CommandStates]
  /\ count \in 0..MaxCommands
  /\ \A s \in Servers :
       server[s].state # "none" => server[s].ws \in Workspaces /\ server[s].pid \in Pids
  /\ \A c \in Commands :
       /\ cmd[c].at # "idle" => cmd[c].ws \in Workspaces
       /\ cmd[c].at \in {"spawn", "await", "write"} => cmd[c].port \in Ports

Init ==
  /\ file = [w \in Workspaces |-> NoState]
  /\ server = [s \in Servers |-> Server(Nobody, Nobody, "none", 0)]
  /\ cmd = [c \in Commands |-> Command(Nobody, "none", "idle")]
  /\ count = 0

-----------------------------------------------------------------------------
(* The servers *)
Alive(s) == server[s].state \in {"starting", "up", "closing"}
Has(s, pid) == Alive(s) /\ server[s].pid = pid
Bound(port) == \E s \in Servers : server[s].state = "up" /\ server[s].port = port

(* listen succeeds, or the child ends on EADDRINUSE or on a signal that    *)
(* comes before its handlers are installed.                                *)
Binds(s) ==
  /\ server[s].state = "starting"
  /\ \/ ~Bound(server[s].port) /\ server' = [server EXCEPT ![s].state = "up", ![s].served = TRUE]
     \/ (Bound(server[s].port) \/ server[s].told) /\ server' = [server EXCEPT ![s].state = "gone"]
  /\ UNCHANGED <<file, cmd, count>>

(* shutdown: the port is given up first, the process ends when the last    *)
(* connection does.                                                        *)
Closes(s) ==
  /\ server[s].state = "up" /\ server[s].told
  /\ server' = [server EXCEPT ![s].state = "closing"]
  /\ UNCHANGED <<file, cmd, count>>

Dies(s) ==
  /\ server[s].state \in {"up", "closing"}
  /\ server' = [server EXCEPT ![s].state = "gone"]
  /\ UNCHANGED <<file, cmd, count>>

(* A signal is sent to a pid: it reaches the process that has it now.      *)
Kill(pid) ==
  server' = [s \in Servers |-> IF Has(s, pid) THEN [server[s] EXCEPT !.told = TRUE] ELSE server[s]]

(* /health answers for the workspace that was asked for.                   *)
Healthy(s, port, w) == server[s].state = "up" /\ server[s].port = port /\ server[s].ws = w

-----------------------------------------------------------------------------
At(c, place) == cmd[c].at = place
Go(c, place) == cmd' = [cmd EXCEPT ![c].at = place]
Answer(c, answer) == cmd' = [cmd EXCEPT ![c].at = "idle", ![c].answer = answer]

Invoked(c) ==
  /\ At(c, "idle") /\ count < MaxCommands
  /\ count' = count + 1
  /\ \E op \in Ops, w \in Workspaces :
       cmd' = [cmd EXCEPT ![c] = Command(w, op, IF op = "stopAll" THEN "ps" ELSE "read")]
  /\ UNCHANGED <<file, server>>

(* A file that is being written reads as if there were none. *)
StateAbsent(c) ==
  /\ At(c, "read")
  /\ file[cmd[c].ws] = NoState \/ \E d \in Commands : At(d, "write") /\ cmd[d].ws = cmd[c].ws
  /\ IF cmd[c].op = "start"
     THEN cmd' = [cmd EXCEPT ![c].at = "scan", ![c].port = 1]
     ELSE Answer(c, "notRunning")
  /\ UNCHANGED <<file, server, count>>

StateRead(c) ==
  /\ At(c, "read") /\ file[cmd[c].ws] # NoState
  /\ cmd' = [cmd EXCEPT ![c].at = "probe", ![c].port = file[cmd[c].ws].port]
  /\ UNCHANGED <<file, server, count>>

(* A stop goes on with the pid that the server itself answered with.       *)
ProbedHealthy(c) ==
  /\ At(c, "probe")
  /\ \E s \in Servers :
       /\ Healthy(s, cmd[c].port, cmd[c].ws)
       /\ cmd' = [cmd EXCEPT ![c].seen = s,
                             ![c].at = IF cmd[c].op = "stop" THEN "signal" ELSE "idle",
                             ![c].answer = CASE cmd[c].op = "start" -> "reused"
                                             [] cmd[c].op = "status" -> "running"
                                             [] OTHER -> @]
  /\ UNCHANGED <<file, server, count>>

(* Unhealthy, or too slow: two seconds decide.                             *)
ProbedStale(c) == At(c, "probe") /\ Go(c, "clear") /\ UNCHANGED <<file, server, count>>

(* Whatever the file holds by now is removed. *)
StateCleared(c) ==
  /\ At(c, "clear")
  /\ file' = [file EXCEPT ![cmd[c].ws] = NoState]
  /\ IF cmd[c].op = "start"
     THEN cmd' = [cmd EXCEPT ![c].at = "scan", ![c].port = 1]
     ELSE Answer(c, "stale")
  /\ UNCHANGED <<server, count>>

PortSkipped(c) ==
  /\ At(c, "scan") /\ cmd[c].port <= Window /\ Bound(cmd[c].port)
  /\ cmd' = [cmd EXCEPT ![c].port = @ + 1]
  /\ UNCHANGED <<file, server, count>>

(* One of the window that can be bound now, or any other the host assigns. *)
PortFound(c) ==
  /\ At(c, "scan")
  /\ \E port \in IF cmd[c].port <= Window THEN {cmd[c].port} ELSE (Window + 1)..MaxPort :
       /\ ~Bound(port)
       /\ cmd' = [cmd EXCEPT ![c].at = "spawn", ![c].port = port]
  /\ UNCHANGED <<file, server, count>>

(* A child, under a pid that no process has now. *)
Starting(c, s, pid) ==
  /\ server[s].state = "none"
  /\ \A q \in Servers : ~Has(q, pid)
  /\ server' = [server EXCEPT ![s] = Server(cmd[c].ws, pid, "starting", cmd[c].port)]

(* Mutant: the pid of the child is not kept. *)
SpawnedUnnoted(c) ==
  /\ At(c, "spawn")
  /\ \E s \in Servers, pid \in Pids : Starting(c, s, pid) /\ Go(c, "await")
  /\ UNCHANGED <<file, count>>

Spawned(c) ==
  /\ At(c, "spawn")
  /\ \E s \in Servers, pid \in Pids :
       Starting(c, s, pid) /\ cmd' = [cmd EXCEPT ![c].at = "await", ![c].child = s]
  /\ UNCHANGED <<file, count>>

(* Any server of the workspace on the port will do, the child or another.  *)
AwaitedHealthy(c) ==
  /\ At(c, "await")
  /\ \E s \in Servers :
       /\ Healthy(s, cmd[c].port, cmd[c].ws)
       /\ cmd' = [cmd EXCEPT ![c].at = "write", ![c].seen = s]
  /\ UNCHANGED <<file, server, count>>

(* The child is left to itself. *)
AwaitTimesOut(c) == At(c, "await") /\ Answer(c, "failed") /\ UNCHANGED <<file, server, count>>

(* The child's pid, whichever server it was that answered.                 *)
Recorded(c) ==
  /\ At(c, "write")
  /\ file' = [file EXCEPT ![cmd[c].ws] = [child |-> cmd[c].child, port |-> cmd[c].port]]
  /\ Answer(c, "started")
  /\ UNCHANGED <<server, count>>

(* Mutant: the pid of the state file, not the one that answered. *)
SignalledRecorded(c) ==
  /\ At(c, "signal")
  /\ Kill(server[IF file[cmd[c].ws] = NoState THEN cmd[c].seen ELSE file[cmd[c].ws].child].pid)
  /\ Go(c, "shutdown")
  /\ UNCHANGED <<file, count>>

(* That the process is gone is no failure; that its pid is by now that of  *)
(* a process of another user is one.                                       *)
Signalled(c) ==
  /\ At(c, "signal")
  /\ LET pid == server[cmd[c].seen].pid
     IN  \/ Kill(pid) /\ Go(c, "shutdown")
         \/ (\A s \in Servers : ~Has(s, pid)) /\ Answer(c, "failed") /\ UNCHANGED server
  /\ UNCHANGED <<file, count>>

(* The server is gone, or a probe of it failed, for whatever reason.       *)
ShutDown(c) ==
  /\ At(c, "shutdown")
  /\ Go(c, "forget") \/ Answer(c, "failed")
  /\ UNCHANGED <<file, server, count>>

StateForgotten(c) ==
  /\ At(c, "forget")
  /\ file' = [file EXCEPT ![cmd[c].ws] = NoState]
  /\ Answer(c, "stopped")
  /\ UNCHANGED <<server, count>>

(* stopAllReportServers: the servers of all workspaces that ps lists, none *)
(* when it fails,                                                          *)
AllListed(c) ==
  /\ At(c, "ps")
  /\ \E found \in {{}, {s \in Servers : Alive(s)}} :
       cmd' = [cmd EXCEPT ![c].at = "kill", ![c].listed = found, ![c].unsent = found]
  /\ UNCHANGED <<file, server, count>>

(* are signalled one by one, each under the pid that was listed.           *)
ListedSignalled(c) ==
  /\ At(c, "kill")
  /\ \E s \in cmd[c].unsent :
       /\ Kill(server[s].pid)
       /\ cmd' = [cmd EXCEPT ![c].unsent = @ \ {s}]
  /\ UNCHANGED <<file, count>>

SweepBegins(c) ==
  /\ At(c, "kill") /\ cmd[c].unsent = {}
  /\ Go(c, "sweep")
  /\ UNCHANGED <<file, server, count>>

Swept(c) ==
  /\ At(c, "sweep")
  /\ \E w \in cmd[c].left :
       /\ file' = [file EXCEPT ![w] = NoState]
       /\ cmd' = [cmd EXCEPT ![c].left = @ \ {w}]
  /\ UNCHANGED <<server, count>>

SweepEnds(c) ==
  /\ At(c, "sweep") /\ cmd[c].left = {}
  /\ Answer(c, "allStopped")
  /\ UNCHANGED <<file, server, count>>

CommandStep(c) ==
  \/ Invoked(c) \/ StateAbsent(c) \/ StateRead(c) \/ ProbedHealthy(c) \/ ProbedStale(c)
  \/ StateCleared(c) \/ PortSkipped(c) \/ PortFound(c) \/ Spawned(c) \/ AwaitedHealthy(c)
  \/ AwaitTimesOut(c) \/ Recorded(c) \/ Signalled(c) \/ ShutDown(c) \/ StateForgotten(c)
  \/ AllListed(c) \/ ListedSignalled(c) \/ SweepBegins(c) \/ Swept(c) \/ SweepEnds(c)

Next ==
  \/ \E c \in Commands : CommandStep(c)
  \/ \E s \in Servers : Binds(s) \/ Closes(s) \/ Dies(s)

Spec == Init /\ [][Next]_vars

-----------------------------------------------------------------------------
(* The server that a start, a status or a stop answers with has answered   *)
(* /health for that command's workspace on that port. The child that a     *)
(* start has spawned, whose pid it answers with, was spawned for both, but *)
(* another server may hold the port: it may never have served.             *)
AnswersAreOwn ==
  \A c \in Commands :
    LET seen == cmd[c].seen  child == cmd[c].child
    IN  /\ cmd[c].answer \in {"started", "reused", "running", "stopped"} => seen # Nobody
        /\ seen # Nobody =>
             server[seen].served /\ server[seen].ws = cmd[c].ws /\ server[seen].port = cmd[c].port
        /\ cmd[c].answer = "started" =>
             /\ child # Nobody
             /\ server[child].ws = cmd[c].ws /\ server[child].port = cmd[c].port

(* A stop that succeeds has told the server it found to end, or that has   *)
(* ended of itself; a stop-all, every server that it listed.               *)
StoppedWereTold ==
  \A c \in Commands :
    LET meant == CASE cmd[c].answer = "stopped" -> {cmd[c].seen}
                   [] cmd[c].answer = "allStopped" -> cmd[c].listed
                   [] OTHER -> {}
    IN  \A s \in meant : server[s].told \/ server[s].state = "gone"

(* A workspace's state file, whoever has written it and however late, says *)
(* a port on which a server of that very workspace has been healthy, and   *)
(* the pid of a child spawned for that workspace on that port, which need  *)
(* not be the one that was.                                                *)
RecordsWereHealthy ==
  \A w \in Workspaces :
    file[w] # NoState =>
      /\ \E s \in Servers : server[s].served /\ server[s].ws = w /\ server[s].port = file[w].port
      /\ server[file[w].child].ws = w /\ server[file[w].child].port = file[w].port

(* A server that is told to end is the one that a stop has found for its   *)
(* workspace, or one of any workspace that a stop-all has listed, or it    *)
(* has the pid of one of those that has ended since.                       *)
Meant(c) ==
  CASE At(c, "signal") -> {cmd[c].seen} [] At(c, "kill") -> cmd[c].unsent [] OTHER -> {}
Reachable(s, t) == t = s \/ (server[s].state = "gone" /\ server[t].pid = server[s].pid)
OnlyMeantAreTold ==
  \A t \in Servers :
    server'[t].told /\ ~server[t].told => \E c \in Commands : \E s \in Meant(c) : Reachable(s, t)

(* However the commands of several processes and workspaces interleave and *)
(* pids are given to new processes: what a command answers and records is  *)
(* its own workspace's, and whom it tells to end is whom it means to, but  *)
(* for a pid whose process has ended between the probe and the signal.     *)
OnlyOwnServers ==
  /\ [](AnswersAreOwn /\ StoppedWereTold /\ RecordsWereHealthy)
  /\ [][OnlyMeantAreTold]_vars
=============================================================================
