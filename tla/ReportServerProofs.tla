------------------------- MODULE ReportServerProofs -------------------------
(***************************************************************************)
(* Theorems about the report servers, for any number of CLI processes,     *)
(* workspaces, servers, ports and commands.                                *)
(***************************************************************************)
EXTENDS ReportServer, TLAPS

(* A server keeps its workspace, its port and its pid, and one that has    *)
(* ended does not come back.                                               *)
Kept(s) ==
  server[s].state # "none" =>
    /\ server'[s].state # "none"
    /\ server'[s].ws = server[s].ws
    /\ server'[s].port = server[s].port
    /\ server'[s].pid = server[s].pid
    /\ server[s].served => server'[s].served
    /\ server[s].told => server'[s].told
    /\ server[s].state = "gone" => server'[s].state = "gone"

ServedWereSpawned == \A s \in Servers : server[s].served => server[s].state # "none"

(* No two processes have the same pid. *)
PidsAreUnique ==
  \A s, t \in Servers : Alive(s) /\ Alive(t) /\ server[s].pid = server[t].pid => s = t

(* What a command knows at each of its awaits *)
Searching == {"read", "probe", "clear", "scan", "spawn", "await", "ps", "kill", "sweep"}
Finding == {"write", "signal", "shutdown", "forget"}
Ended(s) == server[s].told \/ server[s].state = "gone"

CommandInv(c) ==
  /\ cmd[c].at \in Searching => cmd[c].seen = Nobody
  /\ cmd[c].at \in Finding => cmd[c].seen # Nobody
  /\ cmd[c].at \in Searching \ {"await"} => cmd[c].child = Nobody
  /\ cmd[c].at # "idle" => cmd[c].answer = "none"
  /\ cmd[c].at = "scan" => cmd[c].port >= 1
  /\ cmd[c].at \in {"await", "write"} => cmd[c].child # Nobody
  /\ cmd[c].at \in {"shutdown", "forget"} => Ended(cmd[c].seen)
  /\ cmd[c].at = "kill" => cmd[c].unsent \subseteq cmd[c].listed
  /\ cmd[c].at = "kill" => \A s \in cmd[c].listed \ cmd[c].unsent : Ended(s)
  /\ cmd[c].at = "sweep" => \A s \in cmd[c].listed : Ended(s)

(* What is so of the servers it knows, whether or not it has ended         *)
KnowsSpawned(c) ==
  /\ cmd[c].seen # Nobody =>
       /\ server[cmd[c].seen].served
       /\ server[cmd[c].seen].ws = cmd[c].ws
       /\ server[cmd[c].seen].port = cmd[c].port
  /\ cmd[c].child # Nobody =>
       /\ server[cmd[c].child].state # "none"
       /\ server[cmd[c].child].ws = cmd[c].ws
       /\ server[cmd[c].child].port = cmd[c].port
  /\ \A s \in cmd[c].listed : server[s].state # "none"

(* What it says when it has ended *)
Answered(c) ==
  /\ cmd[c].answer \in {"started", "reused", "running", "stopped"} => cmd[c].seen # Nobody
  /\ cmd[c].answer = "started" => cmd[c].child # Nobody
  /\ cmd[c].answer = "stopped" => Ended(cmd[c].seen)
  /\ cmd[c].answer = "allStopped" => \A s \in cmd[c].listed : Ended(s)

Knows(c) == CommandInv(c) /\ KnowsSpawned(c) /\ Answered(c)

(* A record is of a child that has been spawned. *)
RecordedWereSpawned ==
  \A w \in Workspaces : file[w] # NoState => server[file[w].child].state # "none"

IndInv ==
  /\ TypeOK
  /\ ServedWereSpawned
  /\ PidsAreUnique
  /\ \A c \in Commands : Knows(c)
  /\ RecordedWereSpawned
  /\ RecordsWereHealthy

-----------------------------------------------------------------------------
(* A step of a command leaves the commands typed. *)
LEMMA CommandTyped ==
  ASSUME TypeOK, NEW c \in Commands, CommandInv(c), CommandStep(c)
  PROVE  /\ cmd' \in [Commands -> CommandStates]
         /\ \A d \in Commands \ {c} : cmd'[d] = cmd[d]
         /\ cmd'[c].at # "idle" => cmd'[c].ws \in Workspaces
         /\ cmd'[c].at \in {"spawn", "await", "write"} => cmd'[c].port \in Ports
<1>. USE DEF TypeOK, CommandStates, At, Go, Answer, Places, Answers, Ports
<1>a. cmd[c] \in CommandStates /\ MaxPort \in Nat /\ Window \in 0..MaxPort
  BY ServerAssumption DEF ServerAssumption
<1>1. CASE Invoked(c)
  <2>1. PICK op \in Ops, w \in Workspaces :
          cmd' = [cmd EXCEPT ![c] = Command(w, op, IF op = "stopAll" THEN "ps" ELSE "read")]
    BY <1>1 DEF Invoked
  <2>. QED  BY <1>a, <2>1 DEF Command
<1>2. CASE StateAbsent(c)
  BY <1>a, <1>2 DEF StateAbsent
<1>3. CASE StateRead(c)
  <2>1. cmd[c].at = "read" /\ cmd[c].ws \in Workspaces /\ file[cmd[c].ws] \in Records
    BY <1>3 DEF StateRead
  <2>2. PICK port \in 1..MaxPort : cmd' = [cmd EXCEPT ![c].at = "probe", ![c].port = port]
    BY <1>3, <2>1 DEF StateRead, Records
  <2>3. port \in 0..(MaxPort + 1)
    BY <1>a, <2>2
  <2>4. [cmd[c] EXCEPT !.at = "probe", !.port = port] \in CommandStates
    BY <1>a, <2>3
  <2>. QED  BY <2>1, <2>2, <2>4
<1>4. CASE ProbedHealthy(c)
  BY <1>a, <1>4 DEF ProbedHealthy
<1>5. CASE ProbedStale(c)
  BY <1>a, <1>5 DEF ProbedStale
<1>6. CASE StateCleared(c)
  BY <1>a, <1>6 DEF StateCleared
<1>7. CASE PortSkipped(c)
  BY <1>a, <1>7 DEF PortSkipped
<1>8. CASE PortFound(c)
  <2>1. PICK port \in IF cmd[c].port <= Window THEN {cmd[c].port} ELSE (Window + 1)..MaxPort :
          cmd' = [cmd EXCEPT ![c].at = "spawn", ![c].port = port]
    BY <1>8 DEF PortFound
  <2>2. cmd[c].port \in 0..(MaxPort + 1) /\ cmd[c].port >= 1
    BY <1>a, <1>8 DEF PortFound, CommandInv
  <2>3. port \in 1..MaxPort /\ port \in 0..(MaxPort + 1)
    BY <1>a, <2>1, <2>2
  <2>. QED  BY <1>a, <1>8, <2>1, <2>3 DEF PortFound
<1>9. CASE Spawned(c)
  <2>1. PICK s \in Servers : cmd' = [cmd EXCEPT ![c].at = "await", ![c].child = s]
    BY <1>9 DEF Spawned
  <2>. QED  BY <1>a, <1>9, <2>1 DEF Spawned
<1>10. CASE AwaitedHealthy(c)
  <2>1. PICK s \in Servers : cmd' = [cmd EXCEPT ![c].at = "write", ![c].seen = s]
    BY <1>10 DEF AwaitedHealthy
  <2>. QED  BY <1>a, <1>10, <2>1 DEF AwaitedHealthy
<1>11. CASE AwaitTimesOut(c)
  BY <1>a, <1>11 DEF AwaitTimesOut
<1>12. CASE Recorded(c)
  BY <1>a, <1>12 DEF Recorded
<1>13. CASE Signalled(c)
  BY <1>a, <1>13 DEF Signalled
<1>14. CASE ShutDown(c)
  BY <1>a, <1>14 DEF ShutDown
<1>15. CASE StateForgotten(c)
  BY <1>a, <1>15 DEF StateForgotten
<1>16. CASE AllListed(c)
  <2>1. PICK found \in SUBSET Servers :
          cmd' = [cmd EXCEPT ![c].at = "kill", ![c].listed = found, ![c].unsent = found]
    BY <1>16 DEF AllListed
  <2>. QED  BY <1>a, <1>16, <2>1 DEF AllListed
<1>17. CASE ListedSignalled(c)
  <2>1. PICK s \in Servers : cmd' = [cmd EXCEPT ![c].unsent = @ \ {s}]
    BY <1>a, <1>17 DEF ListedSignalled
  <2>. QED  BY <1>a, <1>17, <2>1 DEF ListedSignalled
<1>18. CASE SweepBegins(c)
  BY <1>a, <1>18 DEF SweepBegins
<1>19. CASE Swept(c)
  BY <1>a, <1>19 DEF Swept
<1>20. CASE SweepEnds(c)
  BY <1>a, <1>20 DEF SweepEnds
<1>. QED
  BY <1>1, <1>2, <1>3, <1>4, <1>5, <1>6, <1>7, <1>8, <1>9, <1>10, <1>11, <1>12, <1>13, <1>14, <1>15, <1>16, <1>17, <1>18,
     <1>19, <1>20
  DEF CommandStep

(* A step that does anything to the servers spawns one, signals a pid or   *)
(* is a server's own.                                                      *)
Spawns(c) == \E s \in Servers, pid \in Pids : Starting(c, s, pid)
Kills(c) ==
  \/ At(c, "signal") /\ Kill(server[cmd[c].seen].pid)
  \/ At(c, "kill") /\ \E s \in cmd[c].unsent : Kill(server[s].pid)
ServerStep(s) == Binds(s) \/ Closes(s) \/ Dies(s)

(* Every step of the program is of one of these kinds.                     *)
LEMMA StepsOfServers ==
  ASSUME [Next]_vars
  PROVE  \/ \E c \in Commands : At(c, "spawn") /\ Spawns(c)
         \/ \E c \in Commands : Kills(c)
         \/ \E s \in Servers : ServerStep(s)
         \/ UNCHANGED server
<1>1. ASSUME NEW c \in Commands, CommandStep(c)
      PROVE  (At(c, "spawn") /\ Spawns(c)) \/ Kills(c) \/ UNCHANGED server
  <2>1. CASE Spawned(c)
    BY <2>1 DEF Spawned, Spawns
  <2>2. CASE Signalled(c) \/ ListedSignalled(c)
    BY <2>2 DEF Signalled, ListedSignalled, Kills
  <2>. QED
    BY <1>1, <2>1, <2>2 DEF CommandStep, Invoked, StateAbsent, StateRead, ProbedHealthy,
       ProbedStale, StateCleared, PortSkipped, PortFound, AwaitedHealthy, AwaitTimesOut,
       Recorded, ShutDown, StateForgotten, AllListed, SweepBegins, Swept, SweepEnds
<1>. QED  BY <1>1 DEF Next, ServerStep, vars

(* What a signal does to each server.                                      *)
LEMMA KillDoes ==
  ASSUME TypeOK, NEW c \in Commands, Kills(c), NEW s \in Servers
  PROVE  /\ server' \in [Servers -> ServerStates]
         /\ server'[s] = server[s] \/ (Alive(s) /\ server'[s] = [server[s] EXCEPT !.told = TRUE])
<1>1. PICK pid : Kill(pid)
  BY DEF Kills
<1>2. \A t \in Servers : [server[t] EXCEPT !.told = TRUE] \in ServerStates
  BY DEF TypeOK, ServerStates
<1>. QED  BY <1>1, <1>2 DEF Kill, Has, TypeOK

(* Every step leaves the servers typed.                                    *)
LEMMA ServersTyped ==
  ASSUME TypeOK, [Next]_vars
  PROVE  /\ server' \in [Servers -> ServerStates]
         /\ \A s \in Servers : server'[s].state # "none" =>
              server'[s].ws \in Workspaces /\ server'[s].pid \in Pids
<1>. USE DEF TypeOK, ServerStates
<1>1. ASSUME NEW c \in Commands, At(c, "spawn"), Spawns(c)
      PROVE  /\ server' \in [Servers -> ServerStates]
             /\ \A s \in Servers : server'[s].state # "none" =>
                  server'[s].ws \in Workspaces /\ server'[s].pid \in Pids
  <2>1. cmd[c].ws \in Workspaces /\ cmd[c].port \in 0..MaxPort
    BY <1>1, ServerAssumption DEF At, Ports
  <2>2. PICK s \in Servers, pid \in Pids :
          server' = [server EXCEPT ![s] = Server(cmd[c].ws, pid, "starting", cmd[c].port)]
    BY <1>1 DEF Spawns, Starting
  <2>. QED  BY <2>1, <2>2 DEF Server
<1>2. ASSUME NEW c \in Commands, Kills(c)
      PROVE  /\ server' \in [Servers -> ServerStates]
             /\ \A s \in Servers : server'[s].state # "none" =>
                  server'[s].ws \in Workspaces /\ server'[s].pid \in Pids
  <2>1. ASSUME NEW s \in Servers, server'[s].state # "none"
        PROVE  /\ server' \in [Servers -> ServerStates]
               /\ server'[s].ws \in Workspaces /\ server'[s].pid \in Pids
    BY <1>2, <2>1, KillDoes
  <2>2. CASE Servers = {}
    BY <1>2, <2>2 DEF Kills, Kill
  <2>3. CASE Servers # {}
    BY <1>2, <2>1, <2>3, KillDoes
  <2>. QED  BY <2>2, <2>3
<1>3. ASSUME NEW s \in Servers, ServerStep(s)
      PROVE  /\ server' \in [Servers -> ServerStates]
             /\ \A t \in Servers : server'[t].state # "none" =>
                  server'[t].ws \in Workspaces /\ server'[t].pid \in Pids
  BY <1>3 DEF ServerStep, Binds, Closes, Dies
<1>. QED  BY <1>1, <1>2, <1>3, StepsOfServers

(* No step takes a server's workspace, port or pid from it. *)
LEMMA ServersKept ==
  ASSUME TypeOK, [Next]_vars, NEW s \in Servers
  PROVE  Kept(s)
<1>. USE DEF TypeOK, ServerStates, Kept
<1>1. ASSUME NEW c \in Commands, Spawns(c)
      PROVE  Kept(s)
  <2>1. PICK t \in Servers, pid \in Pids :
          /\ server[t].state = "none"
          /\ server' = [server EXCEPT ![t] = Server(cmd[c].ws, pid, "starting", cmd[c].port)]
    BY <1>1 DEF Spawns, Starting
  <2>. QED  BY <2>1
<1>2. ASSUME NEW c \in Commands, Kills(c)
      PROVE  Kept(s)
  <2>1. CASE server'[s] = server[s]
    BY <2>1
  <2>2. CASE server'[s] = [server[s] EXCEPT !.told = TRUE]
    BY <2>2
  <2>. QED  BY <1>2, <2>1, <2>2, KillDoes
<1>3. ASSUME NEW t \in Servers, ServerStep(t)
      PROVE  Kept(s)
  BY <1>3 DEF ServerStep, Binds, Closes, Dies
<1>. QED  BY <1>1, <1>2, <1>3, StepsOfServers

(* A server is up before it is served, and never anew under its name. *)
LEMMA ServedStep ==
  ASSUME TypeOK, ServedWereSpawned, [Next]_vars
  PROVE  ServedWereSpawned'
<1>. USE DEF TypeOK, ServerStates
<1>1. SUFFICES ASSUME NEW s \in Servers, server'[s].served
               PROVE  server'[s].state # "none"
  BY DEF ServedWereSpawned
<1>2. CASE server[s].served
  BY <1>1, <1>2, ServersKept DEF Kept, ServedWereSpawned
<1>3. ASSUME NEW c \in Commands, Spawns(c), ~server[s].served
      PROVE  FALSE
  BY <1>1, <1>3 DEF Spawns, Starting, Server
<1>4. ASSUME NEW c \in Commands, Kills(c), ~server[s].served
      PROVE  FALSE
  BY <1>1, <1>4, KillDoes
<1>5. ASSUME NEW t \in Servers, ServerStep(t)
      PROVE  server'[s].state # "none"
  BY <1>1, <1>2, <1>5 DEF ServerStep, Binds, Closes, Dies
<1>. QED  BY <1>1, <1>2, <1>3, <1>4, <1>5, StepsOfServers

(* A server starts under a pid that no process has. *)
LEMMA PidsStep ==
  ASSUME TypeOK, PidsAreUnique, [Next]_vars
  PROVE  PidsAreUnique'
<1>. USE DEF TypeOK, ServerStates
<1>1. ASSUME NEW c \in Commands, Spawns(c)
      PROVE  PidsAreUnique'
  <2>1. PICK s \in Servers, pid \in Pids :
          /\ \A q \in Servers : ~Has(q, pid)
          /\ server' = [server EXCEPT ![s] = Server(cmd[c].ws, pid, "starting", cmd[c].port)]
    BY <1>1 DEF Spawns, Starting
  <2>2. server'[s].pid = pid /\ \A q \in Servers \ {s} : server'[q] = server[q]
    BY <2>1 DEF Server
  <2>. QED  BY <2>1, <2>2 DEF PidsAreUnique, Alive, Has
<1>2. CASE \A s \in Servers :
             server'[s].pid = server[s].pid
               /\ (server'[s].state \in {"starting", "up", "closing"} => Alive(s))
  BY <1>2 DEF PidsAreUnique, Alive
<1>3. ASSUME NEW c \in Commands, Kills(c), NEW s \in Servers
      PROVE  server'[s].pid = server[s].pid
               /\ (server'[s].state \in {"starting", "up", "closing"} => Alive(s))
  BY <1>3, KillDoes DEF Alive
<1>4. ASSUME NEW t \in Servers, ServerStep(t), NEW s \in Servers
      PROVE  server'[s].pid = server[s].pid
               /\ (server'[s].state \in {"starting", "up", "closing"} => Alive(s))
  <2>1. CASE s = t
    BY <1>4, <2>1 DEF ServerStep, Binds, Closes, Dies, Alive
  <2>2. CASE s # t
    BY <1>4, <2>2 DEF ServerStep, Binds, Closes, Dies, Alive
  <2>. QED  BY <2>1, <2>2
<1>5. CASE UNCHANGED server
  BY <1>5 DEF PidsAreUnique, Alive
<1>. QED  BY <1>1, <1>2, <1>3, <1>4, <1>5, StepsOfServers

(* A server whose pid is signalled is told, or gone. *)
LEMMA KillEnds ==
  ASSUME TypeOK, NEW s \in Servers, server[s].state # "none", Kill(server[s].pid)
  PROVE  Ended(s)'
<1>1. CASE Alive(s)
  BY <1>1 DEF Kill, Has, Ended, TypeOK, ServerStates
<1>2. CASE server[s].state = "gone"
  BY <1>2 DEF Kill, Has, Alive, Ended
<1>. QED  BY <1>1, <1>2 DEF Alive, TypeOK, ServerStates

(* Being told, or gone, is for good. *)
LEMMA EndedForGood ==
  ASSUME TypeOK, ServedWereSpawned, [Next]_vars, NEW s \in Servers
  PROVE  /\ server[s].state # "none" /\ Ended(s) => Ended(s)'
         /\ server[s].served /\ Ended(s) => Ended(s)'
  BY ServersKept DEF Kept, Ended, ServedWereSpawned

(* What a command knows stays true whatever the others do, *)
LEMMA OthersKeepCommand ==
  ASSUME TypeOK, ServedWereSpawned, [Next]_vars, NEW d \in Commands, Knows(d), cmd'[d] = cmd[d]
  PROVE  Knows(d)'
<1>1. \A s \in Servers : Kept(s)
  BY ServersKept
<1>2. /\ cmd[d].seen \in Servers \cup {Nobody} /\ cmd[d].child \in Servers \cup {Nobody}
      /\ cmd[d].listed \subseteq Servers
  BY DEF TypeOK, CommandStates
<1>3. KnowsSpawned(d)'
  BY <1>1, <1>2 DEF Knows, KnowsSpawned, Kept, ServedWereSpawned
<1>4. \A s \in cmd[d].listed : Ended(s) => Ended(s)'
  BY <1>2, EndedForGood DEF Knows, KnowsSpawned
<1>5. cmd[d].seen # Nobody /\ Ended(cmd[d].seen) => Ended(cmd[d].seen)'
  BY <1>2, EndedForGood DEF Knows, KnowsSpawned
<1>6. CommandInv(d)'
  BY <1>2, <1>4, <1>5 DEF Knows, CommandInv, Finding
<1>7. Answered(d)'
  BY <1>2, <1>4, <1>5 DEF Knows, Answered
<1>. QED  BY <1>3, <1>6, <1>7 DEF Knows

(* and its own steps establish it. *)
LEMMA CommandKeepsItself ==
  ASSUME TypeOK, ServedWereSpawned, NEW d \in Commands, Knows(d), CommandStep(d)
  PROVE  Knows(d)'
<1>. USE DEF Knows, CommandInv, KnowsSpawned, Answered, Searching, Finding, At, Go, Answer
<1>a. /\ cmd \in [Commands -> CommandStates]
      /\ cmd[d].seen \in Servers \cup {Nobody} /\ cmd[d].child \in Servers \cup {Nobody}
      /\ cmd[d].listed \subseteq Servers /\ cmd[d].unsent \subseteq Servers
      /\ cmd[d].port \in 0..(MaxPort + 1) /\ Nobody \notin Servers
  BY ServerAssumption DEF TypeOK, CommandStates
<1>b. \A s \in Servers :
        /\ server[s].state # "none" =>
             /\ server'[s].state # "none" /\ server'[s].ws = server[s].ws
             /\ server'[s].port = server[s].port
        /\ server[s].served =>
             /\ server'[s].served /\ server'[s].ws = server[s].ws
             /\ server'[s].port = server[s].port
        /\ server[s].state # "none" \/ server[s].served => (Ended(s) => Ended(s)')
  BY ServersKept, EndedForGood DEF Kept, Next, ServedWereSpawned
<1>c. /\ \A s \in cmd[d].listed : Ended(s) => Ended(s)'
      /\ \A s \in {cmd[d].seen} \ {Nobody} : Ended(s) => Ended(s)'
  BY <1>a, <1>b
<1>1. CASE Invoked(d)
  BY <1>a, <1>1 DEF Invoked, Command, Ops, CommandStates
<1>2. CASE StateAbsent(d)
  BY <1>a, <1>2 DEF StateAbsent, CommandStates
<1>3. CASE StateRead(d)
  BY <1>a, <1>3 DEF StateRead, CommandStates
<1>4. CASE ProbedHealthy(d)
  BY <1>a, <1>4 DEF ProbedHealthy, Healthy, ServedWereSpawned, CommandStates
<1>5. CASE ProbedStale(d)
  BY <1>a, <1>5 DEF ProbedStale, CommandStates
<1>6. CASE StateCleared(d)
  BY <1>a, <1>6 DEF StateCleared, CommandStates
<1>7. CASE PortSkipped(d)
  <2>1. cmd' = [cmd EXCEPT ![d].port = cmd[d].port + 1] /\ cmd[d].port + 1 >= 1
    BY <1>a, <1>7, ServerAssumption DEF PortSkipped, CommandStates
  <2>. QED  BY <1>a, <1>7, <2>1 DEF PortSkipped, CommandStates
<1>8. CASE PortFound(d)
  BY <1>a, <1>8 DEF PortFound, CommandStates
<1>9. CASE Spawned(d)
  <2>1. PICK s \in Servers, pid \in Pids :
          Starting(d, s, pid) /\ cmd' = [cmd EXCEPT ![d].at = "await", ![d].child = s]
    BY <1>9 DEF Spawned
  <2>2. server'[s] = Server(cmd[d].ws, pid, "starting", cmd[d].port) /\ s # Nobody
    BY <1>a, <2>1 DEF Starting, TypeOK
  <2>. QED  BY <1>a, <1>b, <1>9, <2>1, <2>2 DEF Spawned, Server, CommandStates
<1>10. CASE AwaitedHealthy(d)
  BY <1>a, <1>10 DEF AwaitedHealthy, Healthy, CommandStates
<1>11. CASE AwaitTimesOut(d)
  BY <1>a, <1>11 DEF AwaitTimesOut, CommandStates
<1>12. CASE Recorded(d)
  BY <1>a, <1>12 DEF Recorded, CommandStates
<1>13. CASE Signalled(d)
  <2>1. cmd[d].seen \in Servers /\ server[cmd[d].seen].state # "none"
    BY <1>a, <1>13 DEF Signalled, ServedWereSpawned
  <2>2. CASE Kill(server[cmd[d].seen].pid) /\ Go(d, "shutdown")
    <3>1. Ended(cmd[d].seen)'
      BY <2>1, <2>2, KillEnds
    <3>2. server'[cmd[d].seen].served
      BY <1>b, <2>1, <1>a
    <3>. QED  BY <1>a, <1>b, <1>13, <2>1, <2>2, <3>1 DEF Signalled, CommandStates
  <2>3. CASE Answer(d, "failed") /\ UNCHANGED server
    BY <1>a, <1>13, <2>3 DEF Signalled, CommandStates
  <2>. QED  BY <1>13, <2>2, <2>3 DEF Signalled
<1>14. CASE ShutDown(d)
  BY <1>a, <1>c, <1>14 DEF ShutDown, CommandStates
<1>15. CASE StateForgotten(d)
  BY <1>a, <1>15 DEF StateForgotten, CommandStates
<1>16. CASE AllListed(d)
  <2>1. PICK found \in SUBSET Servers :
          /\ \A s \in found : Alive(s)
          /\ cmd' = [cmd EXCEPT ![d].at = "kill", ![d].listed = found, ![d].unsent = found]
    BY <1>16 DEF AllListed
  <2>. QED  BY <1>a, <1>16, <2>1 DEF AllListed, Alive, CommandStates
<1>17. CASE ListedSignalled(d)
  <2>1. PICK s \in cmd[d].unsent :
          Kill(server[s].pid) /\ cmd' = [cmd EXCEPT ![d].unsent = @ \ {s}]
    BY <1>17 DEF ListedSignalled
  <2>2. s \in Servers /\ cmd[d].listed \subseteq Servers /\ server[s].state # "none"
    BY <1>a, <1>17, <2>1 DEF ListedSignalled, CommandStates
  <2>3. Ended(s)'
    BY <2>1, <2>2, KillEnds
  <2>4. \A t \in cmd[d].listed : Ended(t) => Ended(t)'
    BY <1>b, <2>2
  <2>5. /\ cmd'[d].at = "kill" /\ cmd'[d].unsent = cmd[d].unsent \ {s}
        /\ cmd'[d].listed = cmd[d].listed /\ cmd'[d].answer = cmd[d].answer
        /\ cmd'[d].seen = cmd[d].seen /\ cmd'[d].child = cmd[d].child
    BY <1>a, <1>17, <2>1 DEF ListedSignalled, CommandStates
  <2>6. \A t \in cmd'[d].listed \ cmd'[d].unsent : Ended(t)'
    BY <1>17, <2>3, <2>4, <2>5 DEF ListedSignalled
  <2>7. KnowsSpawned(d)'
    BY <1>a, <1>b, <1>17, <2>1, <2>2 DEF ListedSignalled, CommandStates
  <2>8. CommandInv(d)'
    BY <1>a, <1>17, <2>5, <2>6 DEF ListedSignalled
  <2>9. Answered(d)'
    BY <1>a, <1>17, <2>5 DEF ListedSignalled
  <2>. QED  BY <2>7, <2>8, <2>9
<1>18. CASE SweepBegins(d)
  BY <1>a, <1>c, <1>18 DEF SweepBegins, CommandStates
<1>19. CASE Swept(d)
  <2>1. PICK left \in SUBSET Workspaces : cmd' = [cmd EXCEPT ![d].left = left]
    BY <1>a, <1>19 DEF Swept, CommandStates
  <2>. QED  BY <1>a, <1>c, <1>19, <2>1 DEF Swept, CommandStates
<1>20. CASE SweepEnds(d)
  BY <1>a, <1>20 DEF SweepEnds, CommandStates
<1>. QED
  BY <1>1, <1>2, <1>3, <1>4, <1>5, <1>6, <1>7, <1>8, <1>9, <1>10, <1>11, <1>12, <1>13, <1>14, <1>15, <1>16, <1>17, <1>18,
     <1>19, <1>20
  DEF CommandStep

(* A record keeps what made it true, and is made of an answer of /health.  *)
LEMMA RecordStep ==
  ASSUME IndInv, [Next]_vars
  PROVE  RecordedWereSpawned' /\ RecordsWereHealthy'
<1>. DEFINE Good(w) ==
       /\ server'[file'[w].child].state # "none"
       /\ \E p \in Servers : server'[p].served /\ server'[p].ws = w /\ server'[p].port = file'[w].port
       /\ server'[file'[w].child].ws = w /\ server'[file'[w].child].port = file'[w].port
<1>. SUFFICES ASSUME NEW w \in Workspaces, file'[w] # NoState PROVE Good(w)
  BY DEF RecordedWereSpawned, RecordsWereHealthy
<1>0. \A p \in Servers : Kept(p)
  BY ServersKept DEF IndInv
<1>1. CASE file'[w] = file[w]
  <2>1. file[w].child \in Servers
    BY <1>1 DEF IndInv, TypeOK, Records
  <2>2. /\ server'[file[w].child].state # "none"
        /\ server'[file[w].child].ws = w /\ server'[file[w].child].port = file[w].port
    BY <1>0, <1>1, <2>1 DEF IndInv, RecordedWereSpawned, RecordsWereHealthy, Kept
  <2>3. PICK p \in Servers : server[p].served /\ server[p].ws = w /\ server[p].port = file[w].port
    BY <1>1 DEF IndInv, RecordsWereHealthy
  <2>4. server'[p].served /\ server'[p].ws = w /\ server'[p].port = file[w].port
    BY <1>0, <2>3 DEF IndInv, ServedWereSpawned, Kept
  <2>. QED  BY <1>1, <2>2, <2>4
<1>2. ASSUME NEW c \in Commands, Recorded(c), file'[w] # file[w]
      PROVE  Good(w)
  <2>1. /\ file'[w] = [child |-> cmd[c].child, port |-> cmd[c].port] /\ w = cmd[c].ws
        /\ UNCHANGED server
    BY <1>2 DEF Recorded, At, IndInv, TypeOK
  <2>2. CommandInv(c) /\ KnowsSpawned(c) /\ cmd[c].at = "write"
    BY <1>2 DEF IndInv, Knows, Recorded, At
  <2>3. cmd[c].seen \in Servers
    BY <2>2 DEF CommandInv, Finding, IndInv, TypeOK, CommandStates
  <2>. QED  BY <2>1, <2>2, <2>3 DEF CommandInv, KnowsSpawned, Finding
<1>3. ASSUME NEW c \in Commands, StateCleared(c) \/ StateForgotten(c) \/ Swept(c)
      PROVE  file'[w] = file[w]
  BY <1>3 DEF StateCleared, StateForgotten, Swept, IndInv, TypeOK
<1>4. Next => \/ \E c \in Commands : Recorded(c) \/ StateCleared(c) \/ StateForgotten(c) \/ Swept(c)
              \/ UNCHANGED file
  BY DEF Next, CommandStep, Invoked, StateAbsent, StateRead, ProbedHealthy, ProbedStale,
     PortSkipped, PortFound, Spawned, AwaitedHealthy, AwaitTimesOut, Signalled, ShutDown,
     AllListed, ListedSignalled, SweepBegins, SweepEnds, Binds, Closes, Dies
<1>. QED  BY <1>1, <1>2, <1>3, <1>4 DEF vars

(* The files stay typed. *)
LEMMA FilesTyped ==
  ASSUME IndInv, [Next]_vars
  PROVE  file' \in [Workspaces -> Records \cup {NoState}] /\ count' \in 0..MaxCommands
<1>. USE DEF IndInv, TypeOK
<1>1. ASSUME NEW c \in Commands, Recorded(c)
      PROVE  file' \in [Workspaces -> Records \cup {NoState}] /\ UNCHANGED count
  <2>1. cmd[c].child \in Servers /\ cmd[c].port \in Ports
    BY <1>1 DEF Recorded, At, Knows, CommandInv, CommandStates
  <2>. QED  BY <1>1, <2>1 DEF Recorded, Records
<1>2. ASSUME NEW c \in Commands, StateCleared(c) \/ StateForgotten(c) \/ Swept(c)
      PROVE  file' \in [Workspaces -> Records \cup {NoState}] /\ UNCHANGED count
  BY <1>2 DEF StateCleared, StateForgotten, Swept
<1>3. ASSUME NEW c \in Commands, Invoked(c)
      PROVE  UNCHANGED file /\ count' \in 0..MaxCommands
  BY <1>3, ServerAssumption DEF Invoked, ServerAssumption
<1>4. Next => \/ \E c \in Commands : \/ Recorded(c) \/ StateCleared(c) \/ StateForgotten(c)
                                     \/ Swept(c) \/ Invoked(c)
              \/ UNCHANGED <<file, count>>
  BY DEF Next, CommandStep, StateAbsent, StateRead, ProbedHealthy, ProbedStale,
     PortSkipped, PortFound, Spawned, AwaitedHealthy, AwaitTimesOut, Signalled, ShutDown,
     AllListed, ListedSignalled, SweepBegins, SweepEnds, Binds, Closes, Dies
<1>. QED  BY <1>1, <1>2, <1>3, <1>4 DEF vars

-----------------------------------------------------------------------------
(* The invariant holds before the first command, *)
LEMMA Initially == Init => IndInv
BY ServerAssumption
DEF Init, IndInv, TypeOK, ServedWereSpawned, PidsAreUnique, Alive, Knows, CommandInv,
    KnowsSpawned, Answered, RecordedWereSpawned, RecordsWereHealthy, Server, Command, ServerStates, CommandStates, Places, Answers, Searching,
    Finding, ServerAssumption

(* and is kept by every step. *)
LEMMA Inductive == IndInv /\ [Next]_vars => IndInv'
<1>. SUFFICES ASSUME IndInv, [Next]_vars PROVE IndInv'
  OBVIOUS
<1>0. TypeOK /\ ServedWereSpawned /\ PidsAreUnique /\ \A c \in Commands : Knows(c) /\ CommandInv(c)
  BY DEF IndInv, Knows
<1>1. \/ \E c \in Commands : CommandStep(c)
      \/ UNCHANGED cmd
  BY DEF Next, Binds, Closes, Dies, vars
<1>. DEFINE Typed ==
       /\ cmd' \in [Commands -> CommandStates]
       /\ \A c \in Commands :
            /\ cmd'[c].at # "idle" => cmd'[c].ws \in Workspaces
            /\ cmd'[c].at \in {"spawn", "await", "write"} => cmd'[c].port \in Ports
<1>2. Typed
  <2>1. CASE UNCHANGED cmd
    BY <1>0, <2>1 DEF TypeOK
  <2>2. ASSUME NEW c \in Commands, CommandStep(c)
        PROVE  Typed
    BY <1>0, <2>2, CommandTyped DEF TypeOK
  <2>. QED  BY <1>1, <2>1, <2>2
<1>3. TypeOK'
  BY <1>0, <1>2, ServersTyped, FilesTyped DEF TypeOK
<1>4. ASSUME NEW d \in Commands
      PROVE  Knows(d)'
  <2>1. CASE cmd'[d] = cmd[d]
    BY <1>0, <2>1, OthersKeepCommand
  <2>2. CASE CommandStep(d)
    BY <1>0, <2>2, CommandKeepsItself
  <2>3. ASSUME NEW c \in Commands \ {d}, CommandStep(c)
        PROVE  cmd'[d] = cmd[d]
    BY <1>0, <2>3, CommandTyped
  <2>. QED  BY <1>1, <2>1, <2>2, <2>3
<1>. QED  BY <1>0, <1>3, <1>4, ServedStep, PidsStep, RecordStep DEF IndInv

(* The invariant holds in every behaviour. *)
LEMMA Invariant == Spec => []IndInv
  BY Initially, Inductive, PTL DEF Spec

-----------------------------------------------------------------------------
(* The type invariant of files, servers and commands. *)
THEOREM TypeCorrect == Spec => []TypeOK
  BY Invariant, PTL DEF IndInv

(* Whom a command's signal reaches, from the invariant.                    *)
LEMMA TellsTheMeant ==
  ASSUME IndInv, [Next]_vars
  PROVE  OnlyMeantAreTold
<1>. USE DEF IndInv, TypeOK, ServerStates
<1>. SUFFICES ASSUME NEW t \in Servers, server'[t].told, ~server[t].told
              PROVE  \E c \in Commands : \E s \in Meant(c) : Reachable(s, t)
  BY DEF OnlyMeantAreTold
<1>1. ASSUME NEW c \in Commands, NEW s \in Meant(c), s \in Servers, server[s].state # "none",
             Kill(server[s].pid)
      PROVE  Reachable(s, t)
  <2>1. Alive(t) /\ server[t].pid = server[s].pid
    BY <1>1 DEF Kill, Has
  <2>2. CASE Alive(s)
    <3>1. t = s
      BY <1>1, <2>1, <2>2 DEF PidsAreUnique
    <3>. QED  BY <3>1 DEF Reachable
  <2>3. CASE server[s].state = "gone"
    BY <2>1, <2>3 DEF Reachable
  <2>. QED  BY <1>1, <2>2, <2>3 DEF Alive
<1>2. ASSUME NEW c \in Commands, Kills(c)
      PROVE  \E s \in Meant(c) : Reachable(s, t)
  <2>1. CASE At(c, "signal") /\ Kill(server[cmd[c].seen].pid)
    <3>1. cmd[c].seen \in Servers /\ server[cmd[c].seen].state # "none"
      BY <2>1 DEF At, Knows, CommandInv, KnowsSpawned, Finding, ServedWereSpawned, CommandStates
    <3>2. cmd[c].seen \in Meant(c)
      BY <2>1 DEF Meant, At
    <3>. QED  BY <1>1, <2>1, <3>1, <3>2
  <2>2. CASE At(c, "kill") /\ \E s \in cmd[c].unsent : Kill(server[s].pid)
    <3>1. PICK s \in cmd[c].unsent : Kill(server[s].pid)
      BY <2>2
    <3>2. s \in Servers /\ server[s].state # "none"
      BY <2>2, <3>1 DEF At, Knows, CommandInv, KnowsSpawned, CommandStates
    <3>3. s \in Meant(c)
      BY <2>2, <3>1 DEF Meant, At
    <3>. QED  BY <1>1, <3>1, <3>2, <3>3
  <2>. QED  BY <1>2, <2>1, <2>2 DEF Kills
<1>3. ASSUME NEW c \in Commands, Spawns(c)
      PROVE  FALSE
  BY <1>3 DEF Spawns, Starting, Server
<1>4. ASSUME NEW s \in Servers, ServerStep(s)
      PROVE  FALSE
  BY <1>4 DEF ServerStep, Binds, Closes, Dies
<1>. QED  BY <1>2, <1>3, <1>4, StepsOfServers

(* However the commands of any number of processes and workspaces          *)
(* interleave and the host gives pids to new processes: what a command     *)
(* answers and records is its own workspace's, as AnswersAreOwn and        *)
(* RecordsWereHealthy say it, and the process that a stop or a stop-all    *)
(* tells to end is one it has found or listed, of whatever workspace for   *)
(* a stop-all, unless that has ended and another has its pid.              *)
THEOREM CommandsKeepToTheirOwn == Spec => OnlyOwnServers
<1>1. IndInv => AnswersAreOwn /\ StoppedWereTold /\ RecordsWereHealthy
  <2>. SUFFICES ASSUME IndInv PROVE AnswersAreOwn /\ StoppedWereTold /\ RecordsWereHealthy
    OBVIOUS
  <2>1. AnswersAreOwn
    BY DEF IndInv, Knows, KnowsSpawned, Answered, AnswersAreOwn
  <2>2. StoppedWereTold
    BY DEF IndInv, Knows, Answered, Ended, StoppedWereTold
  <2>. QED  BY <2>1, <2>2 DEF IndInv
<1>2. IndInv /\ [Next]_vars => [OnlyMeantAreTold]_vars
  BY TellsTheMeant
<1>. QED  BY <1>1, <1>2, Invariant, PTL DEF Spec, OnlyOwnServers
=============================================================================
