--------------------------- MODULE DeviceCommands ---------------------------
(***************************************************************************)
(* The operations of AndroidDevice and IOSSimulator as the commands they   *)
(* send: to adb, simctl, applesimutils and the driver on the device.  Each *)
(* operation is a plan, each command is served or fails, and a failed one  *)
(* may have taken effect all the same, its answer lost.                    *)
(***************************************************************************)
EXTENDS Naturals, Sequences

CONSTANTS
  MaxCalls,  \* bound: how many operations are performed
  Asks       \* the permissions that launches ask for

VARIABLES
  platform,
  dev,       \* the device; `pressed' counts the presses of this operation
  call       \* the operation in progress

(* Three kinds of permission: `plain' is declared by the app, and known to *)
(* simctl; `rare' is not, and left to applesimutils; `overlay' goes        *)
(* through appops on Android, and to applesimutils on iOS.                 *)
PermNames == {"plain", "rare", "overlay"}
Wishes == {"none", "allow", "deny", "unset", "other"}
NoAsk == [p \in PermNames |-> "none"]
ASSUME CommandAssumption == MaxCalls \in Nat /\ Asks \subseteq [PermNames -> Wishes]

(* `oddKey' is one that adb, or simctl, has no code for; `adbOnly' stands  *)
(* for swipes and deep links, `driverOnly' for taps and text.              *)
Launches ==
  [op : {"launch"}, stop : BOOLEAN, clear : BOOLEAN, all : {FALSE}, ask : Asks]
  \cup [op : {"launch"}, stop : BOOLEAN, clear : BOOLEAN, all : {TRUE}, ask : {NoAsk}]
Requests ==
  Launches
  \cup [op : {"kill", "rotate", "hideKeyboard", "key", "oddKey", "location", "front",
              "adbOnly", "driverOnly", "capture"}]
  \cup [op : {"internet", "airplane"}, on : BOOLEAN, old : BOOLEAN]
NoRequest == [op |-> "none"]

Android == platform = "android"

CommandsInit ==
  /\ platform \in {"android", "ios"}
  /\ \E app \in {"absent", "stopped", "running"}, keyboard, airplane, utils \in BOOLEAN, turned \in {0, 3} :
       dev = [app |-> app, cold |-> FALSE, data |-> "old", perms |-> [p \in PermNames |-> "unset"],
              turned |-> turned, auto |-> TRUE, keyboard |-> keyboard, pressed |-> 0,
              airplane |-> airplane, wifi |-> FALSE, mobile |-> FALSE,
              mock |-> FALSE, location |-> "old", utils |-> utils]
  /\ call = [req |-> NoRequest, todo |-> <<>>, errors |-> FALSE, blind |-> FALSE,
             answer |-> "none", count |-> 0]

-----------------------------------------------------------------------------
(* What a command does to the device *)
Do(name) == <<name, "", "">>
Permit(perm, wish) == <<"permit", perm, wish>>
Switch(name, on) == <<name, IF on THEN "on" ELSE "off", "">>
If(wanted, commands) == IF wanted THEN commands ELSE <<>>

(* An app that was not running counts as stopped. *)
Stopped(d) == [d EXCEPT !.app = IF @ = "absent" THEN @ ELSE "stopped"]

(* pm clear also stops the app and takes its permissions back. *)
Cleared(d) == [Stopped(d) EXCEPT !.data = "clean", !.perms = [p \in PermNames |-> "unset"]]

(* Mutant: the wish is taken for the permission's new state. *)
AndroidGrantAsked(perm, wish) == wish

(* pm grants or revokes; appops can also put the overlay back.  Everything *)
(* that is not one of its words is a denial.                               *)
AndroidGrant(perm, wish) ==
  CASE wish = "allow" -> "allow"
    [] perm = "overlay" /\ wish = "unset" -> "unset"
    [] OTHER -> "deny"

Permitted(d, perm, wish) ==
  [d EXCEPT !.perms[perm] = IF Android THEN AndroidGrant(perm, wish) ELSE wish]

Wish(r, perm) == IF r.all THEN "allow" ELSE r.ask[perm]

(* applesimutils sets all that it was asked for in one command. *)
UtilPerms(r) == {p \in {"rare", "overlay"} : Wish(r, p) # "none"}
Utils(d) == [d EXCEPT !.perms = [p \in PermNames |->
  IF p \in UtilPerms(call.req) THEN Wish(call.req, p) ELSE @[p]]]

Launched(d) ==
  [d EXCEPT !.app = IF @ = "absent" THEN @ ELSE "front", !.cold = d.app = "stopped"]

NextRotation(d) == IF d.turned \in {1, 3} THEN 0 ELSE 1

Applied(c, d) ==
  CASE c[1] = "stop" -> Stopped(d)
    [] c[1] = "clear" -> Cleared(d)
    [] c[1] = "permit" -> Permitted(d, c[2], c[3])
    [] c[1] = "privacyAll" -> [d EXCEPT !.perms["plain"] = "allow"]
    [] c[1] = "utils" -> Utils(d)
    [] c[1] \in {"launch", "front"} -> Launched(d)
    [] c[1] = "autoOff" -> [d EXCEPT !.auto = FALSE]
    [] c[1] = "turn" -> [d EXCEPT !.turned = NextRotation(d)]
    [] c[1] = "hide" -> [d EXCEPT !.keyboard = FALSE]
    [] c[1] \in {"key", "adbKey"} -> [d EXCEPT !.pressed = @ + 1]
    [] c[1] = "mock" -> [d EXCEPT !.mock = TRUE]
    [] c[1] = "locate" -> [d EXCEPT !.location = "asked"]
    [] c[1] = "airplane" -> [d EXCEPT !.airplane = c[2] = "on"]
    [] c[1] = "wifi" -> [d EXCEPT !.wifi = c[2] = "on"]
    [] c[1] = "mobile" -> [d EXCEPT !.mobile = c[2] = "on"]
    [] OTHER -> d

-----------------------------------------------------------------------------
(* The plans *)

(* A permission for each that was asked for, in turn *)
PermitEach(r, of) ==
  LET permit(p) == If(p \in of /\ Wish(r, p) # "none", <<Permit(p, Wish(r, p))>>)
  IN  permit("plain") \o permit("rare") \o permit("overlay")

(* togglePermissions goes on after a failure and answers for all at last.  *)
AndroidPermissions(r) ==
  If(r.all \/ r.ask # NoAsk, PermitEach(r, PermNames) \o <<Do("checkErrors")>>)

(* Mutant: the data is cleared last, just before the launch. *)
AndroidLaunchClearedLast(r) ==
  <<Do("present")>> \o If(r.stop, <<Do("stop")>>)
    \o AndroidPermissions(r) \o If(r.clear, <<Do("clear")>>) \o <<Do("launch")>>

AndroidLaunch(r) ==
  <<Do("present")>> \o If(r.stop, <<Do("stop")>>) \o If(r.clear, <<Do("clear")>>)
    \o AndroidPermissions(r) \o <<Do("launch")>>

(* Here the services of simctl stop at the first that fails. *)
IOSPermissions(r) ==
  IF r.all THEN <<Do("privacyAll"), Do("utils")>>
  ELSE PermitEach(r, {"plain"}) \o If(UtilPerms(r) # {}, <<Do("utils")>>)

IOSLaunch(r) ==
  <<Do("present"), Do("refreshIds")>> \o If(r.stop, <<Do("stop")>>)
    \o If(r.clear, <<Do("unsupported")>>) \o IOSPermissions(r) \o <<Do("launch")>>

(* toggleAirplaneMode: below API 29 the setting is written and broadcast.  *)
Airplane(on, old) == <<Switch("airplane", on)>> \o If(old, <<Do("broadcast")>>)

Internet(r) == If(r.on, <<Do("readAirplane")>>) \o <<Switch("wifi", r.on), Switch("mobile", r.on)>>

Rotate == <<Do("readRotation"), Do("autoOff"), Do("turn")>>

(* A key that adb knows of never gets to the driver. *)
AndroidKey(r) == IF r.op = "key" THEN <<Do("adbKey")>> ELSE <<Do("key")>>

Locate == <<Do("mock"), Do("locate")>>

AndroidPlan(r) ==
  CASE r.op = "launch" -> AndroidLaunch(r)
    [] r.op = "kill" -> <<Do("stop")>>
    [] r.op = "rotate" -> Rotate
    [] r.op = "hideKeyboard" -> <<Do("readKeyboard")>>
    [] r.op \in {"key", "oddKey"} -> AndroidKey(r)
    [] r.op = "location" -> Locate
    [] r.op = "front" -> <<Do("front")>>
    [] r.op = "airplane" -> Airplane(r.on, r.old)
    [] r.op = "internet" -> Internet(r)
    [] r.op = "capture" -> <<Do("capture")>>
    [] OTHER -> <<Do("other")>>

IOSPlan(r) ==
  CASE r.op = "launch" -> IOSLaunch(r)
    [] r.op = "kill" -> <<Do("stop")>>
    [] r.op \in {"key", "oddKey"} -> <<Do("key")>>
    [] r.op = "location" -> <<Do("locate")>>
    [] r.op = "front" -> <<Do("front")>>
    [] r.op = "hideKeyboard" -> <<Do("hide")>>
    [] r.op = "capture" -> <<Do("capture")>>
    [] OTHER -> <<Do("other")>>

-----------------------------------------------------------------------------
cmd == Head(call.todo)
Is(name) == call.todo # <<>> /\ cmd[1] = name
Goes(rest) == call' = [call EXCEPT !.todo = rest]
Reply(answer) == call' = [call EXCEPT !.answer = answer, !.todo = <<>>]
Waiting == call.todo = <<>> /\ (call.answer # "none" \/ call.count = 0)

(* executeAction and its dispatch.  The network operations belong to       *)
(* AdbClient alone: nothing calls them yet.                                *)
Called ==
  /\ Waiting
  /\ call.count < MaxCalls
  /\ \E r \in Requests :
       /\ r.op \in {"internet", "airplane"} => Android
       /\ call' = [req |-> r, todo |-> IF Android THEN AndroidPlan(r) ELSE IOSPlan(r),
                   errors |-> FALSE, blind |-> FALSE, answer |-> "none",
                   count |-> call.count + 1]
  /\ dev' = [dev EXCEPT !.pressed = 0]
  /\ UNCHANGED platform

(* The commands with an action of their own *)
Special == {"present", "readRotation", "readKeyboard", "readAirplane", "refreshIds",
            "checkErrors", "unsupported", "capture"}

(* A wish that is none of the words is found before anything is run for it.*)
BadWish ==
  \/ ~Android /\ Is("permit") /\ cmd[3] = "other"
  \/ Is("utils") /\ \E p \in UtilPerms(call.req) : Wish(call.req, p) = "other"

(* pm refuses what the app does not declare; what is not installed can be  *)
(* neither brought to the front nor run.                                   *)
Refused ==
  \/ Android /\ Is("permit") /\ cmd[2] = "rare"
  \/ Is("front") /\ dev.app = "absent"
  \/ Is("utils") /\ ~dev.utils

Served ==
  /\ call.todo # <<>> /\ cmd[1] \notin Special
  /\ ~BadWish /\ ~Refused
  /\ dev' = Applied(cmd, dev)
  /\ Goes(Tail(call.todo))
  /\ UNCHANGED platform

(* A command that fails ends the operation, unless it was for a permission *)
(* on Android: that is remembered.                                         *)
Fails ==
  /\ call.todo # <<>> /\ cmd[1] \notin Special
  /\ Is("utils") => BadWish \/ dev.utils
  /\ \/ UNCHANGED dev
     \/ ~BadWish /\ ~Refused /\ dev' = Applied(cmd, dev)
  /\ IF Android /\ Is("permit")
     THEN call' = [call EXCEPT !.todo = Tail(@), !.errors = TRUE]
     ELSE Reply("failure")
  /\ UNCHANGED platform

(* `has not requested permission' is skipped. *)
PermissionSkipped ==
  /\ Android /\ Is("permit") /\ cmd[2] = "rare"
  /\ Goes(Tail(call.todo))
  /\ UNCHANGED <<platform, dev>>

(* An applesimutils that is not installed, or that `which' could not find, *)
(* is a warning in an answer of success.                                   *)
UtilsSkipped ==
  /\ Is("utils") /\ ~BadWish
  /\ call' = [call EXCEPT !.todo = Tail(@), !.blind = TRUE]
  /\ UNCHANGED <<platform, dev>>

(* A list that cannot be read is empty on Android, an error on iOS: either *)
(* ends the launch.                                                        *)
PresenceChecked ==
  /\ Is("present")
  /\ \/ dev.app # "absent" /\ Goes(Tail(call.todo))
     \/ Reply("failure")
  /\ UNCHANGED <<platform, dev>>

ErrorsChecked ==
  /\ Is("checkErrors")
  /\ IF call.errors THEN Reply("failure") ELSE Goes(Tail(call.todo))
  /\ UNCHANGED <<platform, dev>>

Unsupported == Is("unsupported") /\ Reply("failure") /\ UNCHANGED <<platform, dev>>

(* The driver's list of apps; a failure is a warning. *)
IdsRefreshed == Is("refreshIds") /\ Goes(Tail(call.todo)) /\ UNCHANGED <<platform, dev>>

RotationRead ==
  /\ Is("readRotation")
  /\ Goes(Tail(call.todo)) \/ Reply("failure")
  /\ UNCHANGED <<platform, dev>>

(* hideKeyboard takes a state that it cannot read for a hidden keyboard.   *)
KeyboardRead ==
  /\ Is("readKeyboard")
  /\ \/ Goes(If(dev.keyboard, <<Do("hide")>>))
     \/ call' = [call EXCEPT !.todo = <<>>, !.blind = TRUE]
  /\ UNCHANGED <<platform, dev>>

(* isAirplaneModeOn takes one that it cannot read for off. *)
AirplaneRead ==
  /\ Is("readAirplane")
  /\ \/ Goes(If(dev.airplane, Airplane(FALSE, call.req.old)) \o Tail(call.todo))
     \/ call' = [call EXCEPT !.todo = Tail(@), !.blind = TRUE]
  /\ UNCHANGED <<platform, dev>>

Answered ==
  /\ call.todo = <<>> /\ call.answer = "none" /\ call.count > 0
  /\ Reply("success")
  /\ UNCHANGED <<platform, dev>>

CommandStep ==
  \/ Called \/ Served \/ Fails \/ PermissionSkipped \/ UtilsSkipped \/ PresenceChecked
  \/ ErrorsChecked \/ Unsupported \/ IdsRefreshed \/ RotationRead \/ KeyboardRead
  \/ AirplaneRead \/ Answered

-----------------------------------------------------------------------------
Commands ==
  {Do(name) : name \in
     {"present", "refreshIds", "stop", "clear", "unsupported", "privacyAll", "utils",
      "checkErrors", "launch", "readRotation", "autoOff", "turn", "readKeyboard", "hide",
      "adbKey", "key", "mock", "locate", "front", "readAirplane", "broadcast", "capture",
      "other"}}
  \cup {Permit(perm, wish) : perm \in PermNames, wish \in Wishes \ {"none"}}
  \cup {Switch(name, on) : name \in {"airplane", "wifi", "mobile"}, on \in BOOLEAN}

Devices ==
  [app : {"absent", "stopped", "running", "front"}, cold : BOOLEAN, data : {"old", "clean"},
   perms : [PermNames -> {"allow", "deny", "unset"}], turned : {0, 1, 3}, auto : BOOLEAN,
   keyboard : BOOLEAN, pressed : Nat, airplane : BOOLEAN, wifi : BOOLEAN, mobile : BOOLEAN,
   mock : BOOLEAN, location : {"old", "asked"}, utils : BOOLEAN]

Calls ==
  [req : Requests \cup {NoRequest}, todo : Seq(Commands), errors : BOOLEAN, blind : BOOLEAN,
   answer : {"none", "success", "failure"}, count : 0..MaxCalls]

(* Wishes are translated into states before they get to the device, and    *)
(* the commands are those that the other side knows.                       *)
CommandsTypeOK == platform \in {"android", "ios"} /\ dev \in Devices /\ call \in Calls

(* What an operation that is answered as a success promises of the device  *)
PermissionsAsAsked(r) ==
  \A p \in PermNames :
    LET wish == Wish(r, p)
    IN  \/ wish = "none"
        \/ Android /\ (p = "rare" \/ dev.perms[p] = AndroidGrant(p, wish))
        \/ ~Android /\ (dev.perms[p] = wish \/ (p # "plain" /\ call.blind))

Kept(r) ==
  CASE r.op = "launch" ->
         /\ dev.app = "front" /\ PermissionsAsAsked(r)
         /\ r.stop \/ r.clear => dev.cold
         /\ r.clear => dev.data = "clean"
    [] r.op = "kill" -> dev.app \in {"stopped", "absent"}
    [] r.op = "rotate" /\ Android -> ~dev.auto /\ dev.turned \in {0, 1}
    [] r.op = "hideKeyboard" -> dev.keyboard => call.blind
    [] r.op = "location" -> dev.location = "asked" /\ (Android => dev.mock)
    [] r.op = "front" -> dev.app = "front"
    [] r.op = "airplane" -> dev.airplane = r.on
    [] r.op = "internet" ->
         /\ dev.wifi = r.on /\ dev.mobile = r.on
         /\ r.on /\ dev.airplane => call.blind
    [] OTHER -> TRUE
=============================================================================
