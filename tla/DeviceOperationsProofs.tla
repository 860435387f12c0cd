----------------------- MODULE DeviceOperationsProofs -----------------------
(***************************************************************************)
(* Theorems about the operations of a device and its captures, for any     *)
(* number of operations, polls and pictures a screen can show, and for any *)
(* permissions that launches ask for.                                      *)
(*                                                                         *)
(* The first part is about captures.  The second is about the commands of  *)
(* the operations: what an operation promises is done already, or is among *)
(* the commands that are left.  The commands have ranks, and every plan is *)
(* in the order of the ranks; so what is left is all of a higher rank than *)
(* what is done, and a command cannot undo what one after it has achieved. *)
(***************************************************************************)
EXTENDS DeviceOperations, TLAPS

(* CaptureTypeOK, with the whole record *)
CaptureTyped ==
  /\ screen \in Screens
  /\ cap \in [phase : {"off", "stability", "payload", "end"}, steady : BOOLEAN,
              previous : Screens \cup {Nothing}, polls : Seq(Screens \cup {Nothing}),
              stable : BOOLEAN, attempts : 0..MaxAttempts, outcome : Outcomes,
              data : Screens \cup {Nothing}]
  /\ Len(cap.polls) <= MaxPolls

(* While the polls go on, none has been called stable, and the picture     *)
(* that the next one is compared with is that of the last.                 *)
PollInv ==
  /\ cap.phase = "off" => ~cap.stable /\ cap.polls = <<>>
  /\ cap.phase = "stability" =>
       /\ ~cap.stable /\ cap.steady
       /\ cap.previous = IF cap.polls = <<>> THEN Nothing ELSE cap.polls[Len(cap.polls)]

(* Attempts are left as long as the payload is being captured. *)
AttemptInv ==
  /\ cap.phase \in {"off", "stability"} => cap.attempts = 0
  /\ cap.phase = "payload" => cap.attempts < MaxAttempts

IndInv == CaptureTyped /\ PollInv /\ AttemptInv /\ CaptureIsHonest

(* A further poll becomes the last, and leaves the one before it.          *)
LEMMA LastPolls ==
  ASSUME NEW S, NEW polls \in Seq(S), NEW seen \in S
  PROVE  /\ Append(polls, seen) \in Seq(S)
         /\ Append(polls, seen) # <<>>
         /\ Len(Append(polls, seen)) = Len(polls) + 1
         /\ Append(polls, seen)[Len(polls) + 1] = seen
         /\ polls # <<>> => /\ Len(polls) >= 1
                            /\ Append(polls, seen)[Len(polls)] = polls[Len(polls)]
OBVIOUS

-----------------------------------------------------------------------------
(* The invariant holds while nothing is captured, *)
LEMMA Initially == Init => IndInv
BY CaptureAssumption
DEF Init, CaptureInit, NoCapture, IndInv, CaptureTyped, PollInv, AttemptInv, CaptureIsHonest,
    StableIsSeenTwice, GivesUpLast, MaxAttempts, Outcomes, CaptureAssumption

(* A capture's record, field by field *)
LEMMA CaptureFields ==
  ASSUME NEW c,
         c \in [phase : {"off", "stability", "payload", "end"}, steady : BOOLEAN,
                previous : Screens \cup {Nothing}, polls : Seq(Screens \cup {Nothing}),
                stable : BOOLEAN, attempts : 0..MaxAttempts, outcome : Outcomes,
                data : Screens \cup {Nothing}]
  PROVE  /\ c.phase \in {"off", "stability", "payload", "end"} /\ c.steady \in BOOLEAN
         /\ c.previous \in Screens \cup {Nothing} /\ c.polls \in Seq(Screens \cup {Nothing})
         /\ c.stable \in BOOLEAN /\ c.attempts \in 0..MaxAttempts /\ c.outcome \in Outcomes
         /\ c.data \in Screens \cup {Nothing}
         /\ c = [phase |-> c.phase, steady |-> c.steady, previous |-> c.previous,
                 polls |-> c.polls, stable |-> c.stable, attempts |-> c.attempts,
                 outcome |-> c.outcome, data |-> c.data]
OBVIOUS

(* A poll that changes nothing but what was seen keeps the invariant, *)
LEMMA PollChangedKeeps == IndInv /\ PollChanged => IndInv'
<1>. SUFFICES ASSUME IndInv, PollChanged
              PROVE  IndInv'
  OBVIOUS
<1>. USE CaptureAssumption DEF CaptureAssumption
<1>1. PICK seen \in {screen, Nothing} :
        /\ Polled(seen)
        /\ cap' = [cap EXCEPT !.polls = Append(@, seen), !.previous = seen]
  BY DEF PollChanged
<1>2. /\ cap.phase = "stability" /\ Len(cap.polls) < MaxPolls
      /\ screen' = screen /\ screen \in Screens /\ seen \in Screens \cup {Nothing}
  BY <1>1 DEF PollChanged, Polled, IndInv, CaptureTyped
<1>3. /\ cap.steady \in BOOLEAN /\ cap.previous \in Screens \cup {Nothing}
      /\ cap.polls \in Seq(Screens \cup {Nothing})
      /\ cap.stable \in BOOLEAN /\ cap.attempts \in 0..MaxAttempts
      /\ cap.outcome \in Outcomes /\ cap.data \in Screens \cup {Nothing}
  BY CaptureFields DEF IndInv, CaptureTyped
<1>4. ~cap.stable /\ cap.steady /\ cap.attempts = 0
  BY <1>2 DEF IndInv, PollInv, AttemptInv
<1>5. cap' = [phase |-> "stability", steady |-> cap.steady, previous |-> seen,
              polls |-> Append(cap.polls, seen), stable |-> cap.stable,
              attempts |-> cap.attempts, outcome |-> cap.outcome, data |-> cap.data]
  BY <1>1, <1>2, CaptureFields DEF IndInv, CaptureTyped
<1>6. /\ Append(cap.polls, seen) \in Seq(Screens \cup {Nothing})
      /\ Append(cap.polls, seen) # <<>>
      /\ Len(Append(cap.polls, seen)) = Len(cap.polls) + 1
      /\ Append(cap.polls, seen)[Len(cap.polls) + 1] = seen
  BY <1>2, <1>3, LastPolls
<1>7. Len(cap.polls) \in Nat
  BY <1>3
<1>8. CaptureTyped'
  <2>1. cap' \in [phase : {"off", "stability", "payload", "end"}, steady : BOOLEAN,
                  previous : Screens \cup {Nothing}, polls : Seq(Screens \cup {Nothing}),
                  stable : BOOLEAN, attempts : 0..MaxAttempts, outcome : Outcomes,
                  data : Screens \cup {Nothing}]
    BY <1>2, <1>3, <1>5, <1>6
  <2>2. Len(cap'.polls) <= MaxPolls
    BY <1>2, <1>5, <1>6, <1>7
  <2>. QED  BY <1>2, <2>1, <2>2 DEF CaptureTyped
<1>9. PollInv'
  BY <1>4, <1>5, <1>6 DEF PollInv
<1>10. AttemptInv' /\ CaptureIsHonest'
  BY <1>4, <1>5 DEF AttemptInv, CaptureIsHonest, StableIsSeenTwice, GivesUpLast
<1>. QED  BY <1>8, <1>9, <1>10 DEF IndInv

(* so does one that saw the picture of the last again, *)
LEMMA PollStableKeeps == IndInv /\ PollStable => IndInv'
<1>. SUFFICES ASSUME IndInv, PollStable
              PROVE  IndInv'
  OBVIOUS
<1>. USE CaptureAssumption DEF CaptureAssumption
<1>2. /\ cap.phase = "stability" /\ Len(cap.polls) < MaxPolls /\ screen = cap.previous
      /\ screen' = screen /\ screen \in Screens /\ screen # Nothing
  BY DEF PollStable, Polled, IndInv, CaptureTyped
<1>3. /\ cap.steady \in BOOLEAN /\ cap.previous \in Screens \cup {Nothing}
      /\ cap.polls \in Seq(Screens \cup {Nothing})
      /\ cap.stable \in BOOLEAN /\ cap.attempts \in 0..MaxAttempts
      /\ cap.outcome \in Outcomes /\ cap.data \in Screens \cup {Nothing}
  BY CaptureFields DEF IndInv, CaptureTyped
<1>4. /\ cap.steady /\ cap.attempts = 0
      /\ cap.polls # <<>> /\ cap.polls[Len(cap.polls)] = screen
  BY <1>2 DEF IndInv, PollInv, AttemptInv
<1>5. cap' = [phase |-> "payload", steady |-> cap.steady, previous |-> cap.previous,
              polls |-> Append(cap.polls, screen), stable |-> TRUE,
              attempts |-> cap.attempts, outcome |-> cap.outcome, data |-> cap.data]
  BY <1>2, CaptureFields DEF IndInv, CaptureTyped, PollStable
<1>6. /\ Append(cap.polls, screen) \in Seq(Screens \cup {Nothing})
      /\ Append(cap.polls, screen) # <<>>
      /\ Len(Append(cap.polls, screen)) = Len(cap.polls) + 1
      /\ Append(cap.polls, screen)[Len(cap.polls) + 1] = screen
      /\ Len(cap.polls) >= 1
      /\ Append(cap.polls, screen)[Len(cap.polls)] = screen
  BY <1>2, <1>3, <1>4, LastPolls
<1>7. Len(cap.polls) \in Nat
  BY <1>3
<1>8. CaptureTyped'
  <2>1. cap' \in [phase : {"off", "stability", "payload", "end"}, steady : BOOLEAN,
                  previous : Screens \cup {Nothing}, polls : Seq(Screens \cup {Nothing}),
                  stable : BOOLEAN, attempts : 0..MaxAttempts, outcome : Outcomes,
                  data : Screens \cup {Nothing}]
    BY <1>3, <1>5, <1>6
  <2>2. Len(cap'.polls) <= MaxPolls
    BY <1>2, <1>5, <1>6, <1>7
  <2>. QED  BY <1>2, <2>1, <2>2 DEF CaptureTyped
<1>9. PollInv' /\ AttemptInv'
  BY <1>4, <1>5 DEF PollInv, AttemptInv, MaxAttempts
<1>10. StableIsSeenTwice'
  <2>1. Len(cap.polls) + 1 - 1 = Len(cap.polls) /\ Len(cap.polls) + 1 >= 2
    BY <1>6, <1>7
  <2>2. cap'.polls = Append(cap.polls, screen) /\ cap'.steady
    BY <1>4, <1>5
  <2>. QED  BY <1>2, <1>6, <2>1, <2>2 DEF StableIsSeenTwice
<1>11. GivesUpLast'
  BY <1>5 DEF GivesUpLast
<1>. QED  BY <1>8, <1>9, <1>10, <1>11 DEF IndInv, CaptureIsHonest

(* and so does an attempt at the payload, valid or not. *)
LEMMA AttemptKeeps == IndInv /\ Attempt => IndInv'
<1>. SUFFICES ASSUME IndInv, Attempt
              PROVE  IndInv'
  OBVIOUS
<1>. USE CaptureAssumption DEF CaptureAssumption
<1>1. PICK outcome \in Outcomes \ {"none"} :
        cap' = [cap EXCEPT !.attempts = @ + 1, !.outcome = outcome,
                           !.data = IF outcome = "valid" THEN screen ELSE Nothing,
                           !.phase = IF outcome = "transient" /\ cap.attempts + 1 < MaxAttempts
                                     THEN "payload" ELSE "end"]
  BY DEF Attempt
<1>. DEFINE data == IF outcome = "valid" THEN screen ELSE Nothing
            phase == IF outcome = "transient" /\ cap.attempts + 1 < MaxAttempts
                     THEN "payload" ELSE "end"
<1>2. cap.phase = "payload" /\ screen' = screen /\ screen \in Screens /\ screen # Nothing
  BY DEF Attempt, IndInv, CaptureTyped
<1>3. /\ cap.steady \in BOOLEAN /\ cap.previous \in Screens \cup {Nothing}
      /\ cap.polls \in Seq(Screens \cup {Nothing}) /\ Len(cap.polls) <= MaxPolls
      /\ cap.stable \in BOOLEAN /\ cap.attempts \in 0..MaxAttempts
  BY CaptureFields DEF IndInv, CaptureTyped
<1>4. cap.attempts < MaxAttempts /\ StableIsSeenTwice
  BY <1>2 DEF IndInv, AttemptInv, CaptureIsHonest
<1>5. cap' = [phase |-> phase, steady |-> cap.steady, previous |-> cap.previous,
              polls |-> cap.polls, stable |-> cap.stable,
              attempts |-> cap.attempts + 1, outcome |-> outcome, data |-> data]
  BY <1>1, CaptureFields DEF IndInv, CaptureTyped
<1>6. cap.attempts + 1 \in 0..MaxAttempts
  BY <1>3, <1>4 DEF MaxAttempts
<1>7. /\ phase \in {"payload", "end"} /\ data \in Screens \cup {Nothing}
      /\ phase = "payload" => cap.attempts + 1 < MaxAttempts
      /\ phase = "end" /\ outcome = "transient" => cap.attempts + 1 = MaxAttempts
      /\ (data # Nothing) <=> (outcome = "valid")
  BY <1>2, <1>6 DEF MaxAttempts
<1>. HIDE DEF data, phase
<1>8. CaptureTyped'
  BY <1>2, <1>3, <1>5, <1>6, <1>7 DEF CaptureTyped
<1>9. PollInv' /\ AttemptInv'
  BY <1>5, <1>7 DEF PollInv, AttemptInv
<1>10. StableIsSeenTwice'
  BY <1>4, <1>5 DEF StableIsSeenTwice
<1>11. GivesUpLast'
  BY <1>5, <1>7 DEF GivesUpLast
<1>. QED  BY <1>8, <1>9, <1>10, <1>11 DEF IndInv, CaptureIsHonest

(* The invariant is kept by every step of a capture *)
LEMMA CaptureKeeps ==
  ASSUME IndInv, CaptureStep
  PROVE  IndInv'
<1>. USE CaptureAssumption
     DEF IndInv, CaptureTyped, PollInv, AttemptInv, CaptureIsHonest, StableIsSeenTwice,
         GivesUpLast, MaxAttempts, Outcomes, CaptureAssumption
<1>1. CASE ScreenChanges
  BY <1>1 DEF ScreenChanges
<1>2. CASE CaptureBegins
  <2>1. PICK steady \in BOOLEAN :
          cap' = [NoCapture EXCEPT !.steady = steady,
                                   !.phase = IF steady THEN "stability" ELSE "payload"]
    BY <1>2 DEF CaptureBegins
  <2>2. cap' = [phase |-> IF steady THEN "stability" ELSE "payload", steady |-> steady,
                previous |-> Nothing, polls |-> <<>>, stable |-> FALSE, attempts |-> 0,
                outcome |-> "none", data |-> Nothing]
    BY <2>1 DEF NoCapture
  <2>3. screen' = screen
    BY <1>2 DEF CaptureBegins
  <2>4. CASE steady
    BY <2>2, <2>3, <2>4
  <2>5. CASE ~steady
    BY <2>2, <2>3, <2>5
  <2>. QED  BY <2>4, <2>5
<1>3. CASE PollChanged
  BY <1>3, PollChangedKeeps
<1>4. CASE PollStable
  BY <1>4, PollStableKeeps
<1>5. CASE StabilityTimesOut
  BY <1>5 DEF StabilityTimesOut
<1>6. CASE Attempt
  BY <1>6, AttemptKeeps
<1>7. CASE CaptureEnds
  BY <1>7 DEF CaptureEnds, NoCapture
<1>. QED  BY <1>1, <1>2, <1>3, <1>4, <1>5, <1>6, <1>7 DEF CaptureStep

(* and of the other operations. *)
LEMMA Inductive == IndInv /\ [Next]_vars => IndInv'
<1>1. IndInv /\ UNCHANGED <<screen, cap>> => IndInv'
  BY DEF IndInv, CaptureTyped, PollInv, AttemptInv, CaptureIsHonest, StableIsSeenTwice, GivesUpLast
<1>. QED  BY <1>1, CaptureKeeps DEF Next, vars

-----------------------------------------------------------------------------
(* A screen is called stable only when the last two polls of the capture   *)
(* saw it and saw it the same, and a capture gives up only at its last     *)
(* attempt or for what is not transient.                                   *)
THEOREM CapturesAreHonest == Spec => []CaptureIsHonest
<1>1. IndInv => CaptureIsHonest
  BY DEF IndInv
<1>. QED  BY <1>1, Initially, Inductive, PTL DEF Spec

-----------------------------------------------------------------------------
(* The commands of a plan, and those that are left of the one at hand      *)
Elements(s) == {s[i] : i \in 1..Len(s)}
Left == Elements(call.todo)

(* The commands that a request may leave to be done *)
Permits(r, perms) == {Permit(p, Wish(r, p)) : p \in {q \in perms : Wish(r, q) # "none"}}
Legit(r, android) ==
  CASE r.op = "launch" /\ android ->
         {Do("present"), Do("stop"), Do("clear"), Do("checkErrors"), Do("launch")}
         \cup Permits(r, PermNames)
    [] r.op = "launch" /\ ~android ->
         {Do("present"), Do("refreshIds"), Do("stop"), Do("unsupported"), Do("utils"),
          Do("launch")} \cup (IF r.all THEN {Do("privacyAll")} ELSE Permits(r, {"plain"}))
    [] r.op = "kill" -> {Do("stop")}
    [] r.op = "rotate" -> {Do("readRotation"), Do("autoOff"), Do("turn"), Do("other")}
    [] r.op = "hideKeyboard" -> {Do("readKeyboard"), Do("hide")}
    [] r.op \in {"key", "oddKey"} -> {Do("adbKey"), Do("key")}
    [] r.op = "location" -> {Do("mock"), Do("locate")}
    [] r.op = "front" -> {Do("front")}
    [] r.op = "airplane" -> {Switch("airplane", r.on), Do("broadcast")}
    [] r.op = "internet" -> {Do("readAirplane"), Switch("airplane", FALSE), Do("broadcast"),
                             Switch("wifi", r.on), Switch("mobile", r.on)}
    [] r.op = "capture" -> {Do("capture")}
    [] OTHER -> {Do("other")}

(* The order of the commands: every plan goes through the ranks upwards.   *)
Rank(c) ==
  CASE c[1] \in {"present", "readRotation", "readKeyboard", "readAirplane", "mock", "front",
                 "adbKey", "key", "capture", "other"} -> 1
    [] c[1] \in {"refreshIds", "autoOff", "hide", "locate", "airplane"} -> 2
    [] c[1] \in {"stop", "turn", "broadcast"} -> 3
    [] c[1] \in {"clear", "unsupported", "wifi"} -> 4
    [] c[1] \in {"privacyAll", "mobile"} \/ (c[1] = "permit" /\ c[2] = "plain") -> 5
    [] c[1] = "permit" /\ c[2] = "rare" -> 6
    [] c[1] = "permit" /\ c[2] = "overlay" -> 7
    [] c[1] \in {"utils", "checkErrors"} -> 8
    [] OTHER -> 9
Ordered(s) == \A i, j \in 1..Len(s) : i < j => Rank(s[i]) < Rank(s[j])

(* What is left are commands of the operation, in their order, and none    *)
(* once it is answered; the one command that may not be repeated has not   *)
(* been given while it is left.                                            *)
PlanInv ==
  /\ call.todo \in Seq(Legit(call.req, Android)) /\ Ordered(call.todo)
  /\ call.answer # "none" \/ call.count = 0 => call.todo = <<>>
  /\ call.count = 0 => call.req = NoRequest /\ call.answer = "none"
  /\ call.req.op \in {"internet", "airplane"} => Android
  /\ dev.pressed <= 1
  /\ Do("key") \in Left \/ Do("adbKey") \in Left => dev.pressed = 0

(* What a launch has achieved, or has still to do *)
Quiet == IF Do("launch") \in Left THEN dev.app \in {"stopped", "absent"} ELSE dev.cold
LaunchInv(r) ==
  /\ Do("present") \in Left \/ dev.app # "absent"
  /\ Left = {} \/ Do("launch") \in Left
  /\ Do("launch") \in Left \/ dev.app = "front"
  /\ r.stop => Do("stop") \in Left \/ Quiet

(* Clearing takes the permissions back, so that they come after it; one    *)
(* that failed is remembered, and the check for it is still to come.       *)
AndroidLaunchInv(r) ==
  /\ LaunchInv(r)
  /\ r.clear => Do("clear") \in Left \/ (Quiet /\ dev.data = "clean")
  /\ Do("clear") \in Left => Permits(r, PermNames) \subseteq Left
  /\ Left \cap Permits(r, PermNames) # {} => Do("checkErrors") \in Left
  /\ call.errors => Do("checkErrors") \in Left
  /\ \A p \in {"plain", "overlay"} :
       Wish(r, p) # "none" =>
         \/ Permit(p, Wish(r, p)) \in Left
         \/ dev.perms[p] = AndroidGrant(p, Wish(r, p))
         \/ call.errors

(* iOS cannot clear, and stops at the first permission that fails. *)
IOSLaunchInv(r) ==
  /\ LaunchInv(r)
  /\ r.clear => Do("unsupported") \in Left
  /\ \/ Wish(r, "plain") = "none"
     \/ IF r.all THEN Do("privacyAll") \in Left ELSE Permit("plain", Wish(r, "plain")) \in Left
     \/ dev.perms["plain"] = Wish(r, "plain")
  /\ \A p \in UtilPerms(r) :
       Do("utils") \in Left \/ dev.perms[p] = Wish(r, p) \/ call.blind

(* Each part of what an operation promises is done or left. *)
ProgressInv ==
  LET r == call.req IN
  call.answer = "none" =>
  /\ r.op = "launch" => IF Android THEN AndroidLaunchInv(r) ELSE IOSLaunchInv(r)
  /\ r.op = "kill" => Do("stop") \in Left \/ dev.app \in {"stopped", "absent"}
  /\ r.op = "rotate" /\ Android =>
       /\ Do("autoOff") \in Left \/ ~dev.auto
       /\ Do("turn") \in Left \/ dev.turned \in {0, 1}
  /\ r.op = "hideKeyboard" =>
       Do("readKeyboard") \in Left \/ Do("hide") \in Left \/ ~dev.keyboard \/ call.blind
  /\ r.op = "location" =>
       /\ Do("locate") \in Left \/ dev.location = "asked"
       /\ Android => Do("mock") \in Left \/ dev.mock
  /\ r.op = "front" => Do("front") \in Left \/ dev.app = "front"
  /\ r.op = "airplane" => Switch("airplane", r.on) \in Left \/ dev.airplane = r.on
  /\ r.op = "internet" =>
       /\ Switch("wifi", r.on) \in Left \/ dev.wifi = r.on
       /\ Switch("mobile", r.on) \in Left \/ dev.mobile = r.on
       /\ Do("readAirplane") \in Left =>
            Switch("airplane", FALSE) \notin Left /\ Do("broadcast") \notin Left
       /\ r.on => \/ Do("readAirplane") \in Left \/ Switch("airplane", FALSE) \in Left
                  \/ ~dev.airplane \/ call.blind

AnswerInv == call.answer = "success" => Kept(call.req)

(* The inductive invariant of the operations *)
OperationInv == CommandsTypeOK /\ PlanInv /\ ProgressInv /\ AnswerInv
-----------------------------------------------------------------------------
(* Plans: sequences of commands in the order of their ranks                *)
Within(s, S, low, high) ==
  /\ s \in Seq(S) /\ Ordered(s)
  /\ \A i \in 1..Len(s) : low <= Rank(s[i]) /\ Rank(s[i]) <= high

(* Every command has a rank, up to that of the launch. *)
LEMMA RankIsNat == \A c : Rank(c) \in Nat
BY DEF Rank

(* and none is above it. *)
LEMMA RankAtMost == \A c : Rank(c) <= 9
BY DEF Rank

(* No command at all *)
LEMMA NoCommands == \A S, a, b : Within(<<>>, S, a, b) /\ Elements(<<>>) = {}
<1>. TAKE S, a, b
<1>1. <<>> \in Seq(S) /\ Len(<<>>) = 0
  OBVIOUS
<1>. QED  BY <1>1 DEF Within, Ordered, Elements

(* A command of its own *)
LEMMA One ==
  ASSUME NEW S, NEW c \in S
  PROVE  Within(<<c>>, S, Rank(c), Rank(c)) /\ Elements(<<c>>) = {c}
<1>. DEFINE s == <<c>>
<1>1. s \in Seq(S) /\ Len(s) = 1 /\ s[1] = c /\ 1..Len(s) = {1}
  OBVIOUS
<1>2. Rank(c) \in Nat
  BY RankIsNat
<1>. HIDE DEF s
<1>3. Ordered(s)
  BY <1>1 DEF Ordered
<1>4. Elements(s) = {c}
  BY <1>1 DEF Elements
<1>5. Within(s, S, Rank(c), Rank(c))
  BY <1>1, <1>2, <1>3 DEF Within
<1>. QED  BY <1>4, <1>5 DEF s

(* and one that a plan may have or not *)
LEMMA Maybe ==
  ASSUME NEW S, NEW c, NEW wanted \in BOOLEAN, wanted => c \in S
  PROVE  /\ Within(If(wanted, <<c>>), S, Rank(c), Rank(c))
         /\ Elements(If(wanted, <<c>>)) = IF wanted THEN {c} ELSE {}
<1>1. CASE wanted
  <2>1. If(wanted, <<c>>) = <<c>>
    BY <1>1 DEF If
  <2>. QED  BY <1>1, <2>1, One
<1>2. CASE ~wanted
  <2>1. If(wanted, <<c>>) = <<>>
    BY <1>2 DEF If
  <2>. QED  BY <1>2, <2>1, NoCommands
<1>. QED  BY <1>1, <1>2

(* A plan followed by one of higher ranks is a plan again. *)
LEMMA Joined ==
  ASSUME NEW S, NEW s, NEW t, NEW a \in Nat, NEW b \in Nat, NEW c \in Nat, NEW d \in Nat,
         Within(s, S, a, b), Within(t, S, c, d), a <= b, b < c, c <= d
  PROVE  Within(s \o t, S, a, d) /\ Elements(s \o t) = Elements(s) \cup Elements(t)
<1>1. s \in Seq(S) /\ t \in Seq(S) /\ Len(s) \in Nat /\ Len(t) \in Nat
  BY DEF Within
<1>2. /\ s \o t \in Seq(S) /\ Len(s \o t) = Len(s) + Len(t)
      /\ \A i \in 1..Len(s) : (s \o t)[i] = s[i]
      /\ \A i \in 1..Len(t) : (s \o t)[Len(s) + i] = t[i]
  BY <1>1
<1>3. ASSUME NEW i \in 1..Len(s \o t)
      PROVE  \/ i \in 1..Len(s) /\ (s \o t)[i] = s[i]
             \/ i - Len(s) \in 1..Len(t) /\ (s \o t)[i] = t[i - Len(s)]
  <2>1. CASE i <= Len(s)
    BY <1>1, <1>2, <2>1
  <2>2. CASE i > Len(s)
    <3>1. i - Len(s) \in 1..Len(t) /\ Len(s) + (i - Len(s)) = i
      BY <1>1, <1>2, <2>2
    <3>. QED  BY <1>2, <3>1
  <2>. QED  BY <1>1, <1>2, <2>1, <2>2
<1>4. \A i \in 1..Len(s \o t) : a <= Rank((s \o t)[i]) /\ Rank((s \o t)[i]) <= d
  BY <1>3, RankIsNat DEF Within
<1>5. Ordered(s \o t)
  <2>. SUFFICES ASSUME NEW i \in 1..Len(s \o t), NEW j \in 1..Len(s \o t), i < j
                PROVE  Rank((s \o t)[i]) < Rank((s \o t)[j])
    BY DEF Ordered
  <2>1. CASE j \in 1..Len(s) /\ (s \o t)[j] = s[j]
    BY <1>1, <1>2, <2>1 DEF Within, Ordered
  <2>2. CASE i \in 1..Len(s) /\ (s \o t)[i] = s[i] /\ j - Len(s) \in 1..Len(t)
             /\ (s \o t)[j] = t[j - Len(s)]
    BY <2>2, RankIsNat DEF Within
  <2>3. CASE i - Len(s) \in 1..Len(t) /\ (s \o t)[i] = t[i - Len(s)]
             /\ j - Len(s) \in 1..Len(t) /\ (s \o t)[j] = t[j - Len(s)]
    <3>1. i - Len(s) < j - Len(s)
      BY <1>1, <1>2
    <3>. QED  BY <2>3, <3>1 DEF Within, Ordered
  <2>. QED  BY <1>3, <2>1, <2>2, <2>3
<1>6. Elements(s \o t) = Elements(s) \cup Elements(t)
  <2>1. \A e \in Elements(s \o t) : e \in Elements(s) \cup Elements(t)
    BY <1>3 DEF Elements
  <2>2. \A e \in Elements(s) : e \in Elements(s \o t)
    BY <1>1, <1>2 DEF Elements
  <2>3. ASSUME NEW i \in 1..Len(t) PROVE t[i] \in Elements(s \o t)
    <3>1. Len(s) + i \in 1..Len(s \o t)
      BY <1>1, <1>2
    <3>. QED  BY <1>2, <3>1 DEF Elements
  <2>. QED  BY <2>1, <2>2, <2>3 DEF Elements
<1>. QED  BY <1>2, <1>4, <1>5, <1>6 DEF Within

(* What is left when the first command of a plan is done: all the others,  *)
(* each of a higher rank                                                   *)
LEMMA Rest ==
  ASSUME NEW S, NEW s \in Seq(S), Ordered(s), s # <<>>
  PROVE  /\ Head(s) \in S /\ Head(s) \in Elements(s)
         /\ Tail(s) \in Seq(S) /\ Ordered(Tail(s))
         /\ Elements(Tail(s)) = Elements(s) \ {Head(s)}
         /\ \A c \in Elements(Tail(s)) : Rank(Head(s)) < Rank(c)
<1>1. /\ Len(s) \in Nat /\ Len(s) >= 1 /\ Head(s) = s[1] /\ Tail(s) \in Seq(S)
      /\ Len(Tail(s)) = Len(s) - 1 /\ \A i \in 1..Len(Tail(s)) : Tail(s)[i] = s[i + 1]
  OBVIOUS
<1>2. \A i \in 2..Len(s) : Rank(s[1]) < Rank(s[i])
  BY <1>1 DEF Ordered
<1>3. \A i \in 2..Len(s) : i - 1 \in 1..Len(Tail(s)) /\ s[i] = Tail(s)[i - 1]
  BY <1>1
<1>4. \A i \in 1..Len(Tail(s)) : i + 1 \in 2..Len(s)
  BY <1>1
<1>5. Ordered(Tail(s))
  BY <1>1, <1>4 DEF Ordered
<1>6. Elements(Tail(s)) = {s[i] : i \in 2..Len(s)}
  BY <1>1, <1>3, <1>4 DEF Elements
<1>7. Elements(s) = {s[1]} \cup {s[i] : i \in 2..Len(s)}
  <2>1. 1..Len(s) = {1} \cup 2..Len(s)
    BY <1>1
  <2>. QED  BY <2>1 DEF Elements
<1>8. \A i \in 2..Len(s) : s[i] # s[1]
  BY <1>2, RankIsNat
<1>. QED  BY <1>1, <1>2, <1>5, <1>6, <1>7, <1>8

-----------------------------------------------------------------------------
(* A request to launch is well-formed: each permission has a wish. *)
LEMMA WishTyped ==
  ASSUME NEW r \in Launches, NEW p \in PermNames
  PROVE  Wish(r, p) \in Wishes /\ r.op = "launch" /\ r.stop \in BOOLEAN /\ r.clear \in BOOLEAN
<1>1. NoAsk \in [PermNames -> Wishes]
  BY DEF NoAsk, Wishes
<1>2. r.all \in BOOLEAN /\ r.ask \in [PermNames -> Wishes]
  BY <1>1, CommandAssumption DEF Launches, CommandAssumption
<1>3. r.op = "launch" /\ r.stop \in BOOLEAN /\ r.clear \in BOOLEAN
  BY DEF Launches
<1>. QED  BY <1>2, <1>3 DEF Wish, Wishes

(* What each command does to the device's record *)
LEMMA DeviceFields ==
  ASSUME NEW d \in Devices
  PROVE  /\ d.app \in {"absent", "stopped", "running", "front"} /\ d.cold \in BOOLEAN
         /\ d.data \in {"old", "clean"} /\ d.perms \in [PermNames -> {"allow", "deny", "unset"}]
         /\ d.turned \in {0, 1, 3} /\ d.auto \in BOOLEAN /\ d.keyboard \in BOOLEAN
         /\ d.pressed \in Nat /\ d.airplane \in BOOLEAN /\ d.wifi \in BOOLEAN
         /\ d.mobile \in BOOLEAN /\ d.mock \in BOOLEAN /\ d.location \in {"old", "asked"}
         /\ d.utils \in BOOLEAN
BY DEF Devices

(* A stop stops, and leaves data and permissions alone. *)
LEMMA StopDoes ==
  ASSUME NEW d \in Devices
  PROVE  LET e == Applied(Do("stop"), d)
         IN  /\ e \in Devices /\ e.app \in {"absent", "stopped"}
             /\ e.app = "absent" <=> d.app = "absent"
             /\ e.cold = d.cold /\ e.data = d.data
             /\ e.perms = d.perms /\ e.pressed = d.pressed
BY DEF Devices, Applied, Do, Stopped

(* Clearing stops and cleans. *)
LEMMA ClearDoes ==
  ASSUME NEW d \in Devices
  PROVE  LET e == Applied(Do("clear"), d)
         IN  /\ e \in Devices /\ e.app \in {"absent", "stopped"}
             /\ e.app = "absent" <=> d.app = "absent"
             /\ e.cold = d.cold /\ e.data = "clean"
             /\ e.pressed = d.pressed
BY DEF Devices, Applied, Do, Stopped, Cleared

(* A launch is cold when the app was stopped. *)
LEMMA LaunchDoes ==
  ASSUME NEW d \in Devices, NEW name \in {"launch", "front"}
  PROVE  LET e == Applied(Do(name), d)
         IN  /\ e \in Devices /\ (d.app # "absent" => e.app = "front")
             /\ e.cold = (d.app = "stopped")
             /\ e.data = d.data /\ e.perms = d.perms
             /\ e.pressed = d.pressed
BY DEF Devices, Applied, Do, Launched

(* A permission command sets its permission and nothing else. *)
LEMMA PermitDoes ==
  ASSUME NEW d \in Devices, NEW p \in PermNames, NEW wish \in Wishes \ {"none"},
         Android \/ wish # "other"
  PROVE  LET e == Applied(Permit(p, wish), d)
         IN  /\ e \in Devices /\ e.app = d.app /\ e.cold = d.cold /\ e.data = d.data
             /\ e.perms[p] = IF Android THEN AndroidGrant(p, wish) ELSE wish
             /\ \A q \in PermNames \ {p} : e.perms[q] = d.perms[q]
             /\ e.pressed = d.pressed
<1>. DEFINE new == IF Android THEN AndroidGrant(p, wish) ELSE wish
            e == [d EXCEPT !.perms[p] = new]
<1>1. new \in {"allow", "deny", "unset"}
  BY DEF AndroidGrant, Wishes
<1>2. Applied(Permit(p, wish), d) = e
  BY DEF Applied, Permit, Permitted
<1>. HIDE DEF new
<1>3. /\ e \in Devices /\ e.app = d.app /\ e.cold = d.cold /\ e.data = d.data
      /\ e.perms = [d.perms EXCEPT ![p] = new] /\ e.pressed = d.pressed
  BY <1>1 DEF Devices
<1>. HIDE DEF e
<1>4. d.perms \in [PermNames -> {"allow", "deny", "unset"}]
  BY DEF Devices
<1>. QED  BY <1>2, <1>3, <1>4 DEF new

(* So does privacy, for the permission that simctl knows. *)
LEMMA PrivacyDoes ==
  ASSUME NEW d \in Devices
  PROVE  LET e == Applied(Do("privacyAll"), d)
         IN  /\ e \in Devices /\ e.app = d.app /\ e.cold = d.cold /\ e.data = d.data
             /\ e.perms["plain"] = "allow"
             /\ \A q \in PermNames \ {"plain"} : e.perms[q] = d.perms[q]
             /\ e.pressed = d.pressed
<1>. DEFINE e == [d EXCEPT !.perms["plain"] = "allow"]
<1>2. Applied(Do("privacyAll"), d) = e
  BY DEF Applied, Do
<1>3. /\ e \in Devices /\ e.app = d.app /\ e.cold = d.cold /\ e.data = d.data
      /\ e.perms = [d.perms EXCEPT !["plain"] = "allow"] /\ e.pressed = d.pressed
  BY DEF Devices, PermNames
<1>. HIDE DEF e
<1>4. d.perms \in [PermNames -> {"allow", "deny", "unset"}] /\ "plain" \in PermNames
  BY DEF Devices, PermNames
<1>. QED  BY <1>2, <1>3, <1>4

(* applesimutils sets all that it is asked for, and nothing else. *)
LEMMA UtilsDoes ==
  ASSUME NEW d \in Devices,
         \A p \in UtilPerms(call.req) : Wish(call.req, p) \in {"allow", "deny", "unset"}
  PROVE  LET e == Applied(Do("utils"), d)
         IN  /\ e \in Devices /\ e.app = d.app /\ e.cold = d.cold /\ e.data = d.data
             /\ \A p \in UtilPerms(call.req) : e.perms[p] = Wish(call.req, p)
             /\ e.perms["plain"] = d.perms["plain"]
             /\ e.pressed = d.pressed
<1>. DEFINE perms == [p \in PermNames |-> IF p \in UtilPerms(call.req) THEN Wish(call.req, p)
                                          ELSE d.perms[p]]
            e == [d EXCEPT !.perms = perms]
<1>1. d.perms \in [PermNames -> {"allow", "deny", "unset"}]
  BY DEF Devices
<1>2. perms \in [PermNames -> {"allow", "deny", "unset"}]
  BY <1>1
<1>3. Applied(Do("utils"), d) = e
  BY DEF Applied, Do, Utils
<1>4. /\ \A p \in UtilPerms(call.req) : perms[p] = Wish(call.req, p)
      /\ perms["plain"] = d.perms["plain"]
  BY DEF UtilPerms, PermNames
<1>. HIDE DEF perms
<1>5. /\ e \in Devices /\ e.app = d.app /\ e.cold = d.cold /\ e.data = d.data
      /\ e.perms = perms /\ e.pressed = d.pressed
  BY <1>2 DEF Devices
<1>. QED  BY <1>3, <1>4, <1>5

(* The other commands, which no launch sends *)
LEMMA RotationDoes ==
  ASSUME NEW d \in Devices
  PROVE  LET e == Applied(Do("autoOff"), d)
             f == Applied(Do("turn"), d)
         IN  /\ e \in Devices /\ ~e.auto /\ e.turned = d.turned /\ e.pressed = d.pressed
             /\ f \in Devices /\ f.auto = d.auto /\ f.turned \in {0, 1} /\ f.pressed = d.pressed
BY DEF Devices, Applied, Do, NextRotation

(* a press of a key is counted, *)
LEMMA KeyDoes ==
  ASSUME NEW d \in Devices, NEW name \in {"key", "adbKey"}
  PROVE  LET e == Applied(Do(name), d) IN e \in Devices /\ e.pressed = d.pressed + 1
BY DEF Devices, Applied, Do

(* the keyboard is gone, *)
LEMMA HideDoes ==
  ASSUME NEW d \in Devices
  PROVE  LET e == Applied(Do("hide"), d)
         IN  e \in Devices /\ ~e.keyboard /\ e.pressed = d.pressed
BY DEF Devices, Applied, Do

(* the location is the one asked for, *)
LEMMA LocationDoes ==
  ASSUME NEW d \in Devices
  PROVE  LET e == Applied(Do("mock"), d)
             f == Applied(Do("locate"), d)
         IN  /\ e \in Devices /\ e.mock /\ e.location = d.location /\ e.pressed = d.pressed
             /\ f \in Devices /\ f.mock = d.mock /\ f.location = "asked" /\ f.pressed = d.pressed
BY DEF Devices, Applied, Do

(* a switch is as it was put, and the others stay; *)
LEMMA SwitchDoes ==
  ASSUME NEW d \in Devices, NEW on \in BOOLEAN
  PROVE  LET a == Applied(Switch("airplane", on), d)
             w == Applied(Switch("wifi", on), d)
             m == Applied(Switch("mobile", on), d)
         IN  /\ a \in Devices /\ a.airplane = on /\ a.wifi = d.wifi /\ a.mobile = d.mobile
             /\ w \in Devices /\ w.airplane = d.airplane /\ w.wifi = on /\ w.mobile = d.mobile
             /\ m \in Devices /\ m.airplane = d.airplane /\ m.wifi = d.wifi /\ m.mobile = on
             /\ a.pressed = d.pressed /\ w.pressed = d.pressed /\ m.pressed = d.pressed
BY DEF Devices, Applied, Switch

(* the rest changes nothing that is modelled. *)
LEMMA OthersDo ==
  ASSUME NEW d \in Devices, NEW name \in {"broadcast", "other"}
  PROVE  Applied(Do(name), d) = d
BY DEF Applied, Do

-----------------------------------------------------------------------------
(* The ranks of the commands of a launch, and of the keys *)
LEMMA Ranks ==
  /\ Rank(Do("present")) = 1 /\ Rank(Do("refreshIds")) = 2 /\ Rank(Do("stop")) = 3
  /\ Rank(Do("clear")) = 4 /\ Rank(Do("unsupported")) = 4 /\ Rank(Do("privacyAll")) = 5
  /\ \A w : Rank(Permit("plain", w)) = 5
  /\ \A w : Rank(Permit("rare", w)) = 6
  /\ \A w : Rank(Permit("overlay", w)) = 7
  /\ Rank(Do("utils")) = 8 /\ Rank(Do("checkErrors")) = 8 /\ Rank(Do("launch")) = 9
  /\ Rank(Do("readRotation")) = 1 /\ Rank(Do("autoOff")) = 2 /\ Rank(Do("turn")) = 3
  /\ Rank(Do("mock")) = 1 /\ Rank(Do("locate")) = 2
  /\ Rank(Do("readKeyboard")) = 1 /\ Rank(Do("hide")) = 2
  /\ Rank(Do("key")) = 1 /\ Rank(Do("adbKey")) = 1
  /\ Rank(Do("readAirplane")) = 1 /\ \A on : Rank(Switch("airplane", on)) = 2
  /\ Rank(Do("broadcast")) = 3
  /\ \A on : Rank(Switch("wifi", on)) = 4 /\ Rank(Switch("mobile", on)) = 5
BY DEF Rank, Do, Permit, Switch

(* Two commands are the same only if they say the same. *)
LEMMA Distinct ==
  /\ \A a, b : Do(a) = Do(b) => a = b
  /\ \A a : Do(a)[1] = a
  /\ \A p, w : Permit(p, w)[1] = "permit" /\ Permit(p, w)[2] = p /\ Permit(p, w)[3] = w
  /\ \A n, on : Switch(n, on)[1] = n
BY DEF Do, Permit, Switch

(* A step that goes on with the plan's next command *)
Advances ==
  /\ call.todo # <<>> /\ call'.todo = Tail(call.todo)
  /\ call'.req = call.req /\ platform' = platform

(* What is left after such a step *)
LEMMA Onwards ==
  ASSUME PlanInv, Advances
  PROVE  /\ cmd \in Legit(call.req, Android) /\ cmd \in Left /\ call.answer = "none" /\ call.count # 0
         /\ Left' = Left \ {cmd} /\ \A c \in Left' : Rank(cmd) < Rank(c)
         /\ call'.todo \in Seq(Legit(call'.req, Android'))  /\ Ordered(call'.todo)
         /\ Android' = Android /\ Left \subseteq Legit(call.req, Android)
<1>1. call.todo \in Seq(Legit(call.req, Android)) /\ Ordered(call.todo)
  BY DEF PlanInv
<1>2. /\ cmd \in Legit(call.req, Android) /\ cmd \in Left
      /\ Tail(call.todo) \in Seq(Legit(call.req, Android)) /\ Ordered(Tail(call.todo))
      /\ Elements(Tail(call.todo)) = Left \ {cmd}
      /\ \A c \in Elements(Tail(call.todo)) : Rank(cmd) < Rank(c)
  BY <1>1, Rest DEF Advances, Left, cmd
<1>3. Left' = Elements(Tail(call.todo))
  BY DEF Advances, Left
<1>4. Legit(call'.req, Android') = Legit(call.req, Android) /\ Android' = Android
  BY DEF Advances, Android
<1>5. call.answer = "none" /\ call.count # 0
  BY DEF PlanInv, Advances
<1>6. Left \subseteq Legit(call.req, Android)
  BY <1>1 DEF Left, Elements
<1>. QED  BY <1>2, <1>3, <1>4, <1>5, <1>6 DEF Advances

-----------------------------------------------------------------------------
(* A command is served, and the operation goes on. *)
Serves ==
  /\ Advances /\ dev' = Applied(cmd, dev)
  /\ call'.errors = call.errors /\ call'.blind = call.blind

(* A launch on Android goes on with a command served. *)
LEMMA AndroidLaunchServed ==
  ASSUME dev \in Devices, PlanInv, Android, NEW r \in Launches, call.req = r,
         AndroidLaunchInv(r), Serves, cmd[1] \notin Special, ~Refused
  PROVE  AndroidLaunchInv(r)' /\ dev' \in Devices /\ dev'.pressed = dev.pressed
<1>1. /\ cmd \in Legit(r, TRUE) /\ cmd \in Left /\ Left' = Left \ {cmd}
      /\ \A c \in Left' : Rank(cmd) < Rank(c)
      /\ Android'
      /\ r.op = "launch"
      /\ call.todo # <<>>
  BY Onwards, WishTyped DEF Serves, Advances, PermNames
<1>2. \/ cmd \in {Do("stop"), Do("clear"), Do("launch")}
      \/ \E p \in {"plain", "overlay"} : Wish(r, p) # "none" /\ cmd = Permit(p, Wish(r, p))
  BY <1>1, Distinct DEF Legit, Permits, PermNames, Special, Refused, Is
<1>3. /\ dev' = Applied(cmd, dev) /\ call'.errors = call.errors
      /\ LaunchInv(r)
      /\ r.clear => Do("clear") \in Left \/ (Quiet /\ dev.data = "clean")
      /\ Do("clear") \in Left => Permits(r, PermNames) \subseteq Left
      /\ Left \cap Permits(r, PermNames) # {} => Do("checkErrors") \in Left
      /\ call.errors => Do("checkErrors") \in Left
      /\ \A p \in {"plain", "overlay"} :
           Wish(r, p) # "none" =>
             \/ Permit(p, Wish(r, p)) \in Left
             \/ dev.perms[p] = AndroidGrant(p, Wish(r, p))
             \/ call.errors
  BY DEF Serves, AndroidLaunchInv
<1>4. CASE cmd = Do("stop")
  <2>1. /\ dev' \in Devices /\ dev'.app \in {"absent", "stopped"}
        /\ dev'.app = "absent" <=> dev.app = "absent"
        /\ dev'.cold = dev.cold /\ dev'.data = dev.data
        /\ dev'.perms = dev.perms /\ dev'.pressed = dev.pressed
    BY <1>3, <1>4, StopDoes
  <2>. QED  BY <1>1, <1>3, <1>4, <2>1, Ranks, Distinct DEF AndroidLaunchInv, LaunchInv, Quiet, Permits
<1>5. CASE cmd = Do("clear")
  <2>1. /\ dev' \in Devices /\ dev'.app \in {"absent", "stopped"}
        /\ dev'.app = "absent" <=> dev.app = "absent"
        /\ dev'.cold = dev.cold /\ dev'.data = "clean"
        /\ dev'.pressed = dev.pressed
    BY <1>3, <1>5, ClearDoes
  <2>2. LaunchInv(r)'
    BY <1>1, <1>3, <1>5, <2>1, Ranks, Distinct DEF LaunchInv, Quiet
  <2>3. Permits(r, PermNames) \subseteq Left' /\ Do("clear") \notin Left'
    BY <1>1, <1>3, <1>5, Distinct DEF Permits
  <2>4. (r.clear => Quiet /\ dev.data = "clean")'
    BY <1>1, <1>3, <1>5, <2>1, Ranks, Distinct DEF LaunchInv, Quiet
  <2>5. /\ (Left \cap Permits(r, PermNames) # {} => Do("checkErrors") \in Left)'
        /\ (call.errors => Do("checkErrors") \in Left)'
    BY <1>1, <1>3, <1>5, Distinct DEF Permits
  <2>6. \A p \in {"plain", "overlay"} :
          Wish(r, p) # "none" => Permit(p, Wish(r, p)) \in Left'
    BY <2>3 DEF Permits, PermNames
  <2>. QED  BY <2>1, <2>2, <2>3, <2>4, <2>5, <2>6 DEF AndroidLaunchInv
<1>6. CASE cmd = Do("launch")
  <2>1. /\ dev' \in Devices /\ (dev.app # "absent" => dev'.app = "front")
        /\ dev'.cold = (dev.app = "stopped")
        /\ dev'.data = dev.data /\ dev'.perms = dev.perms
        /\ dev'.pressed = dev.pressed
    BY <1>3, <1>6, LaunchDoes
  <2>2. Left = {Do("launch")} /\ Left' = {}
    BY <1>1, <1>6, Ranks, RankAtMost, RankIsNat
  <2>3. dev.app # "absent" /\ dev'.app = "front"
    BY <1>3, <2>1, <2>2, Distinct DEF LaunchInv
  <2>4. r.stop \/ r.clear => dev.app = "stopped"
    BY <1>3, <2>2, <2>3, Distinct DEF LaunchInv, Quiet
  <2>5. LaunchInv(r)'
    BY <2>1, <2>2, <2>3, <2>4 DEF LaunchInv, Quiet
  <2>6. (r.clear => Quiet /\ dev.data = "clean")'
    BY <1>3, <2>1, <2>2, <2>4, Distinct DEF Quiet
  <2>7. ~call'.errors
    BY <1>3, <2>2, Distinct
  <2>. QED  BY <1>3, <2>1, <2>2, <2>5, <2>6, <2>7, Distinct DEF AndroidLaunchInv
<1>7. ASSUME NEW p \in {"plain", "overlay"}, Wish(r, p) # "none", cmd = Permit(p, Wish(r, p))
      PROVE  AndroidLaunchInv(r)' /\ dev' \in Devices /\ dev'.pressed = dev.pressed
  <2>1. Wish(r, p) \in Wishes \ {"none"} /\ p \in PermNames
    BY <1>7, WishTyped DEF PermNames
  <2>2. /\ dev' \in Devices /\ dev'.app = dev.app /\ dev'.cold = dev.cold /\ dev'.data = dev.data
        /\ dev'.perms[p] = AndroidGrant(p, Wish(r, p))
        /\ \A q \in PermNames \ {p} : dev'.perms[q] = dev.perms[q]
        /\ dev'.pressed = dev.pressed
    BY <1>3, <1>7, <2>1, PermitDoes
  <2>. QED  BY <1>1, <1>3, <1>7, <2>1, <2>2, Ranks, Distinct
            DEF AndroidLaunchInv, LaunchInv, Quiet, Permits, PermNames
<1>. QED  BY <1>2, <1>4, <1>5, <1>6, <1>7

(* A launch on iOS goes on with a command served. *)
LEMMA IOSLaunchServed ==
  ASSUME dev \in Devices, PlanInv, ~Android, NEW r \in Launches, call.req = r,
         IOSLaunchInv(r), Serves, cmd[1] \notin Special, ~BadWish
  PROVE  IOSLaunchInv(r)' /\ dev' \in Devices /\ dev'.pressed = dev.pressed
<1>1. /\ cmd \in Legit(r, FALSE) /\ cmd \in Left /\ Left' = Left \ {cmd}
      /\ \A c \in Left' : Rank(cmd) < Rank(c)
      /\ ~Android'
      /\ r.op = "launch"
      /\ call.todo # <<>>
  <2>1. Android = FALSE
    BY DEF Android
  <2>. QED  BY <2>1, Onwards, WishTyped DEF Serves, Advances, PermNames
<1>2. \/ cmd \in {Do("stop"), Do("privacyAll"), Do("utils"), Do("launch")}
      \/ Wish(r, "plain") # "none" /\ cmd = Permit("plain", Wish(r, "plain"))
  BY <1>1, Distinct DEF Legit, Permits, Special
<1>3. /\ dev' = Applied(cmd, dev) /\ call'.blind = call.blind
      /\ LaunchInv(r)
      /\ r.clear => Do("unsupported") \in Left
      /\ \/ Wish(r, "plain") = "none"
         \/ IF r.all THEN Do("privacyAll") \in Left ELSE Permit("plain", Wish(r, "plain")) \in Left
         \/ dev.perms["plain"] = Wish(r, "plain")
      /\ \A p \in UtilPerms(r) :
           Do("utils") \in Left \/ dev.perms[p] = Wish(r, p) \/ call.blind
      /\ UtilPerms(r) \subseteq {"rare", "overlay"} /\ UtilPerms(r) \subseteq PermNames \ {"plain"}
      /\ "plain" \in PermNames
  BY DEF Serves, IOSLaunchInv, UtilPerms, PermNames
<1>4. CASE cmd = Do("stop")
  <2>1. /\ dev' \in Devices /\ dev'.app \in {"absent", "stopped"}
        /\ dev'.app = "absent" <=> dev.app = "absent"
        /\ dev'.cold = dev.cold /\ dev'.data = dev.data
        /\ dev'.perms = dev.perms /\ dev'.pressed = dev.pressed
    BY <1>3, <1>4, StopDoes
  <2>2. LaunchInv(r)'
    BY <1>1, <1>3, <1>4, <2>1, Ranks, Distinct DEF LaunchInv, Quiet
  <2>. QED  BY <1>1, <1>3, <1>4, <2>1, <2>2, Distinct DEF IOSLaunchInv
<1>5. CASE cmd = Do("privacyAll")
  <2>1. /\ dev' \in Devices /\ dev'.app = dev.app /\ dev'.cold = dev.cold /\ dev'.data = dev.data
        /\ dev'.perms["plain"] = "allow"
        /\ \A q \in PermNames \ {"plain"} : dev'.perms[q] = dev.perms[q]
        /\ dev'.pressed = dev.pressed
    BY <1>3, <1>5, PrivacyDoes
  <2>2. LaunchInv(r)'
    BY <1>1, <1>3, <1>5, <2>1, Ranks, Distinct DEF LaunchInv, Quiet
  <2>3. (r.clear => Do("unsupported") \in Left)'
    BY <1>1, <1>3, <1>5, Distinct
  <2>4. \A p \in UtilPerms(r) :
          Do("utils") \in Left' \/ dev'.perms[p] = Wish(r, p) \/ call'.blind
    BY <1>1, <1>3, <1>5, <2>1, Distinct
  <2>5. dev'.perms["plain"] = Wish(r, "plain")
    BY <1>1, <1>5, <2>1, Distinct DEF Legit, Permits, Wish
  <2>. QED  BY <2>1, <2>2, <2>3, <2>4, <2>5 DEF IOSLaunchInv
<1>6. CASE cmd = Do("utils")
  <2>1. \A p \in UtilPerms(r) : Wish(r, p) \in {"allow", "deny", "unset"}
    BY <1>1, <1>3, <1>6, WishTyped, Distinct DEF BadWish, Is, UtilPerms, Wishes
  <2>2. /\ dev' \in Devices /\ dev'.app = dev.app /\ dev'.cold = dev.cold /\ dev'.data = dev.data
        /\ \A p \in UtilPerms(r) : dev'.perms[p] = Wish(r, p)
        /\ dev'.perms["plain"] = dev.perms["plain"]
        /\ dev'.pressed = dev.pressed
    BY <1>3, <1>6, <2>1, UtilsDoes
  <2>3. LaunchInv(r)'
    BY <1>1, <1>3, <1>6, <2>2, Ranks, Distinct DEF LaunchInv, Quiet
  <2>. QED  BY <1>1, <1>3, <1>6, <2>2, <2>3, Distinct DEF IOSLaunchInv
<1>7. CASE cmd = Do("launch")
  <2>1. /\ dev' \in Devices /\ (dev.app # "absent" => dev'.app = "front")
        /\ dev'.cold = (dev.app = "stopped")
        /\ dev'.data = dev.data /\ dev'.perms = dev.perms
        /\ dev'.pressed = dev.pressed
    BY <1>3, <1>7, LaunchDoes
  <2>2. Left = {Do("launch")} /\ Left' = {}
    BY <1>1, <1>7, Ranks, RankAtMost, RankIsNat
  <2>3. dev.app # "absent" /\ dev'.app = "front"
    BY <1>3, <2>1, <2>2, Distinct DEF LaunchInv
  <2>4. r.stop => dev.app = "stopped"
    BY <1>3, <2>2, <2>3, Distinct DEF LaunchInv, Quiet
  <2>5. LaunchInv(r)'
    BY <2>1, <2>2, <2>3, <2>4 DEF LaunchInv, Quiet
  <2>. QED  BY <1>3, <2>1, <2>2, <2>5, Distinct DEF IOSLaunchInv
<1>8. CASE Wish(r, "plain") # "none" /\ cmd = Permit("plain", Wish(r, "plain"))
  <2>1. Wish(r, "plain") \in Wishes \ {"none", "other"}
    BY <1>1, <1>3, <1>8, WishTyped, Distinct DEF BadWish, Is
  <2>2. /\ dev' \in Devices /\ dev'.app = dev.app /\ dev'.cold = dev.cold /\ dev'.data = dev.data
        /\ dev'.perms["plain"] = Wish(r, "plain")
        /\ \A q \in PermNames \ {"plain"} : dev'.perms[q] = dev.perms[q]
        /\ dev'.pressed = dev.pressed
    BY <1>3, <1>8, <2>1, PermitDoes
  <2>3. LaunchInv(r)'
    BY <1>1, <1>3, <1>8, <2>2, Ranks, Distinct DEF LaunchInv, Quiet
  <2>. QED  BY <1>1, <1>3, <1>8, <2>2, <2>3, Distinct DEF IOSLaunchInv
<1>. QED  BY <1>2, <1>4, <1>5, <1>6, <1>7, <1>8

-----------------------------------------------------------------------------
(* The other operations' commands, served one after the other *)
LEMMA KillServed ==
  ASSUME dev \in Devices, PlanInv, ProgressInv, call.answer = "none", call.req.op = "kill", Serves
  PROVE  ProgressInv' /\ dev' \in Devices /\ dev'.pressed = dev.pressed
<1>1. cmd = Do("stop") /\ call'.req = call.req /\ dev' = Applied(cmd, dev)
  BY Onwards DEF Serves, Advances, Legit
<1>2. dev' \in Devices /\ dev'.app \in {"absent", "stopped"} /\ dev'.pressed = dev.pressed
  BY <1>1, StopDoes
<1>. QED  BY <1>1, <1>2 DEF ProgressInv

(* Of a rotation, *)
LEMMA RotateServed ==
  ASSUME dev \in Devices, PlanInv, ProgressInv, call.answer = "none", call.req.op = "rotate",
         Serves, cmd[1] \notin Special
  PROVE  ProgressInv' /\ dev' \in Devices /\ dev'.pressed = dev.pressed
<1>1. /\ cmd \in {Do("autoOff"), Do("turn"), Do("other")} /\ Left' = Left \ {cmd}
      /\ call'.req = call.req /\ Android' = Android /\ dev' = Applied(cmd, dev)
  BY Onwards, Distinct DEF Serves, Advances, Legit, Special
<1>2. Android => /\ Do("autoOff") \in Left \/ ~dev.auto
                 /\ Do("turn") \in Left \/ dev.turned \in {0, 1}
  BY DEF ProgressInv
<1>3. /\ dev' \in Devices /\ dev'.pressed = dev.pressed
      /\ Android => /\ Do("autoOff") \in Left' \/ ~dev'.auto
                    /\ Do("turn") \in Left' \/ dev'.turned \in {0, 1}
  <2>1. CASE cmd = Do("autoOff")
    BY <1>1, <1>2, <2>1, RotationDoes, Distinct
  <2>2. CASE cmd = Do("turn")
    BY <1>1, <1>2, <2>2, RotationDoes, Distinct
  <2>3. CASE cmd = Do("other")
    BY <1>1, <1>2, <2>3, OthersDo, Distinct
  <2>. QED  BY <1>1, <2>1, <2>2, <2>3
<1>. QED  BY <1>1, <1>3 DEF ProgressInv

(* of hiding the keyboard, *)
LEMMA HideServed ==
  ASSUME dev \in Devices, PlanInv, ProgressInv, call.answer = "none",
         call.req.op = "hideKeyboard", Serves, cmd[1] \notin Special
  PROVE  ProgressInv' /\ dev' \in Devices /\ dev'.pressed = dev.pressed
<1>1. cmd = Do("hide") /\ call'.req = call.req /\ dev' = Applied(cmd, dev)
  BY Onwards, Distinct DEF Serves, Advances, Legit, Special
<1>2. dev' \in Devices /\ ~dev'.keyboard /\ dev'.pressed = dev.pressed
  BY <1>1, HideDoes
<1>. QED  BY <1>1, <1>2 DEF ProgressInv

(* of setting the location, *)
LEMMA LocationServed ==
  ASSUME dev \in Devices, PlanInv, ProgressInv, call.answer = "none",
         call.req.op = "location", Serves
  PROVE  ProgressInv' /\ dev' \in Devices /\ dev'.pressed = dev.pressed
<1>1. /\ cmd \in {Do("mock"), Do("locate")} /\ Left' = Left \ {cmd}
      /\ call'.req = call.req /\ Android' = Android /\ dev' = Applied(cmd, dev)
  BY Onwards DEF Serves, Advances, Legit
<1>2. /\ Do("locate") \in Left \/ dev.location = "asked"
      /\ Android => Do("mock") \in Left \/ dev.mock
  BY DEF ProgressInv
<1>3. /\ dev' \in Devices /\ dev'.pressed = dev.pressed
      /\ Do("locate") \in Left' \/ dev'.location = "asked"
      /\ Android => Do("mock") \in Left' \/ dev'.mock
  <2>1. CASE cmd = Do("mock")
    BY <1>1, <1>2, <2>1, LocationDoes, Distinct
  <2>2. CASE cmd = Do("locate")
    BY <1>1, <1>2, <2>2, LocationDoes, Distinct
  <2>. QED  BY <1>1, <2>1, <2>2
<1>. QED  BY <1>1, <1>3 DEF ProgressInv

(* of bringing the app to the front, *)
LEMMA FrontServed ==
  ASSUME dev \in Devices, PlanInv, ProgressInv, call.answer = "none",
         call.req.op = "front", Serves, ~Refused
  PROVE  ProgressInv' /\ dev' \in Devices /\ dev'.pressed = dev.pressed
<1>1. cmd = Do("front") /\ call'.req = call.req /\ dev' = Applied(cmd, dev) /\ call.todo # <<>>
  BY Onwards DEF Serves, Advances, Legit
<1>2. dev.app # "absent"
  BY <1>1, Distinct DEF Refused, Is
<1>3. dev' \in Devices /\ dev'.app = "front" /\ dev'.pressed = dev.pressed
  BY <1>1, <1>2, LaunchDoes
<1>. QED  BY <1>1, <1>3 DEF ProgressInv

(* of switching the airplane mode, *)
LEMMA AirplaneServed ==
  ASSUME dev \in Devices, PlanInv, ProgressInv, call.answer = "none",
         call.req.op = "airplane", call.req.on \in BOOLEAN, Serves
  PROVE  ProgressInv' /\ dev' \in Devices /\ dev'.pressed = dev.pressed
<1>1. /\ cmd \in {Switch("airplane", call.req.on), Do("broadcast")} /\ Left' = Left \ {cmd}
      /\ call'.req = call.req /\ dev' = Applied(cmd, dev)
  BY Onwards DEF Serves, Advances, Legit
<1>2. Switch("airplane", call.req.on) \in Left \/ dev.airplane = call.req.on
  BY DEF ProgressInv
<1>3. /\ dev' \in Devices /\ dev'.pressed = dev.pressed
      /\ Switch("airplane", call.req.on) \in Left' \/ dev'.airplane = call.req.on
  <2>1. CASE cmd = Switch("airplane", call.req.on)
    BY <1>1, <2>1, SwitchDoes
  <2>2. CASE cmd = Do("broadcast")
    BY <1>1, <1>2, <2>2, OthersDo, Distinct
  <2>. QED  BY <1>1, <2>1, <2>2
<1>. QED  BY <1>1, <1>3 DEF ProgressInv

(* The commands of toggleInternet are different ones. *)
LEMMA NetDistinct ==
  ASSUME NEW on \in BOOLEAN
  PROVE  /\ Switch("wifi", on) # Switch("mobile", on)
         /\ Switch("airplane", FALSE) # Switch("wifi", on)
         /\ Switch("airplane", FALSE) # Switch("mobile", on)
         /\ Do("broadcast") # Switch("airplane", FALSE)
         /\ Do("broadcast") # Switch("wifi", on) /\ Do("broadcast") # Switch("mobile", on)
         /\ Do("readAirplane") # Switch("airplane", FALSE)
         /\ Do("readAirplane") # Switch("wifi", on) /\ Do("readAirplane") # Switch("mobile", on)
         /\ Do("readAirplane") # Do("broadcast") /\ Do("readAirplane")[1] = "readAirplane"
BY DEF Do, Switch

(* of switching the network, *)
LEMMA InternetServed ==
  ASSUME dev \in Devices, PlanInv, ProgressInv, call.answer = "none",
         call.req.op = "internet", NEW on \in BOOLEAN, call.req.on = on, Serves, cmd[1] \notin Special
  PROVE  ProgressInv' /\ dev' \in Devices /\ dev'.pressed = dev.pressed
<1>1. /\ cmd \in {Switch("airplane", FALSE), Do("broadcast"), Switch("wifi", on),
                  Switch("mobile", on)}
      /\ Left' = Left \ {cmd}
      /\ call'.req = call.req /\ dev' = Applied(cmd, dev) /\ call'.blind = call.blind
  BY Onwards, NetDistinct DEF Serves, Advances, Legit, Special
<1>2. /\ Switch("wifi", on) \in Left \/ dev.wifi = on
      /\ Switch("mobile", on) \in Left \/ dev.mobile = on
      /\ Do("readAirplane") \in Left =>
           Switch("airplane", FALSE) \notin Left /\ Do("broadcast") \notin Left
      /\ on => \/ Do("readAirplane") \in Left \/ Switch("airplane", FALSE) \in Left
               \/ ~dev.airplane \/ call.blind
  BY DEF ProgressInv
<1>4. /\ dev' \in Devices /\ dev'.pressed = dev.pressed
      /\ Switch("wifi", on) \in Left' \/ dev'.wifi = on
      /\ Switch("mobile", on) \in Left' \/ dev'.mobile = on
      /\ on => \/ Do("readAirplane") \in Left' \/ Switch("airplane", FALSE) \in Left'
               \/ ~dev'.airplane \/ call'.blind
  <2>1. CASE cmd = Switch("airplane", FALSE)
    <3>1. /\ dev' \in Devices /\ dev'.pressed = dev.pressed /\ ~dev'.airplane
          /\ dev'.wifi = dev.wifi /\ dev'.mobile = dev.mobile
      BY <1>1, <2>1, SwitchDoes
    <3>. QED  BY <1>1, <1>2, <2>1, <3>1, NetDistinct
  <2>2. CASE cmd = Do("broadcast")
    BY <1>1, <1>2, <2>2, OthersDo, NetDistinct
  <2>3. CASE cmd = Switch("wifi", on)
    <3>1. /\ dev' \in Devices /\ dev'.pressed = dev.pressed /\ dev'.airplane = dev.airplane
          /\ dev'.wifi = on /\ dev'.mobile = dev.mobile
      BY <1>1, <2>3, SwitchDoes
    <3>. QED  BY <1>1, <1>2, <2>3, <3>1, NetDistinct
  <2>4. CASE cmd = Switch("mobile", on)
    <3>1. /\ dev' \in Devices /\ dev'.pressed = dev.pressed /\ dev'.airplane = dev.airplane
          /\ dev'.wifi = dev.wifi /\ dev'.mobile = on
      BY <1>1, <2>4, SwitchDoes
    <3>. QED  BY <1>1, <1>2, <2>4, <3>1, NetDistinct
  <2>. QED  BY <1>1, <2>1, <2>2, <2>3, <2>4
<1>5. (Do("readAirplane") \in Left =>
         Switch("airplane", FALSE) \notin Left /\ Do("broadcast") \notin Left)'
  BY <1>1, <1>2
<1>. QED  BY <1>1, <1>4, <1>5 DEF ProgressInv

(* of pressing a key, *)
LEMMA KeyServed ==
  ASSUME dev \in Devices, PlanInv, ProgressInv, call.answer = "none",
         call.req.op \in {"key", "oddKey"}, Serves
  PROVE  /\ ProgressInv' /\ dev' \in Devices
         /\ cmd \in {Do("key"), Do("adbKey")} /\ dev'.pressed = dev.pressed + 1
<1>1. cmd \in {Do("key"), Do("adbKey")} /\ call'.req = call.req /\ dev' = Applied(cmd, dev)
  BY Onwards DEF Serves, Advances, Legit
<1>2. dev' \in Devices /\ dev'.pressed = dev.pressed + 1
  BY <1>1, KeyDoes
<1>. QED  BY <1>1, <1>2 DEF ProgressInv

(* and of all that promises nothing of the device *)
LEMMA OtherServed ==
  ASSUME dev \in Devices, PlanInv, ProgressInv, call.answer = "none",
         call.req.op \notin {"launch", "kill", "rotate", "hideKeyboard", "key", "oddKey",
                             "location", "front", "airplane", "internet"},
         Serves, cmd[1] \notin Special
  PROVE  ProgressInv' /\ dev' \in Devices /\ dev'.pressed = dev.pressed
<1>0. cmd \in Legit(call.req, Android)
  BY Onwards DEF Serves
<1>1. cmd = Do("other") /\ call'.req = call.req /\ dev' = Applied(cmd, dev)
  <2>1. Do("capture")[1] \in Special
    BY DEF Do, Special
  <2>2. call.req.op # "capture"
    BY <1>0, <2>1 DEF Legit
  <2>. QED  BY <1>0, <2>2 DEF Serves, Advances, Legit
<1>2. dev' = dev
  BY <1>1, OthersDo
<1>. QED  BY <1>1, <1>2 DEF ProgressInv

(* What a request is made of *)
LEMMA RequestTyped ==
  ASSUME NEW r \in Requests \cup {NoRequest}
  PROVE  /\ r.op = "launch" => r \in Launches
         /\ r.op \in {"airplane", "internet"} => r.on \in BOOLEAN /\ r.old \in BOOLEAN
<1>1. CASE r \in Launches
  BY <1>1 DEF Launches
<1>2. CASE r \in [op : {"internet", "airplane"}, on : BOOLEAN, old : BOOLEAN]
  BY <1>2
<1>3. CASE r \in [op : {"kill", "rotate", "hideKeyboard", "key", "oddKey", "location", "front",
                       "adbOnly", "driverOnly", "capture"}]
  BY <1>3
<1>4. CASE r = NoRequest
  BY <1>4 DEF NoRequest
<1>. QED  BY <1>1, <1>2, <1>3, <1>4 DEF Requests

(* The fields of a call *)
LEMMA CallFields ==
  ASSUME NEW c \in Calls
  PROVE  /\ c.req \in Requests \cup {NoRequest} /\ c.todo \in Seq(Commands)
         /\ c.errors \in BOOLEAN /\ c.blind \in BOOLEAN
         /\ c.answer \in {"none", "success", "failure"} /\ c.count \in 0..MaxCalls
BY DEF Calls

(* All operations together: a command that is served keeps the progress.   *)
LEMMA ServesProgress ==
  ASSUME OperationInv, Serves, cmd[1] \notin Special, ~BadWish, ~Refused
  PROVE  /\ ProgressInv' /\ dev' \in Devices
         /\ \/ dev'.pressed = dev.pressed
            \/ cmd \in {Do("key"), Do("adbKey")} /\ dev'.pressed = dev.pressed + 1
<1>1. /\ dev \in Devices /\ PlanInv /\ ProgressInv /\ call \in Calls
      /\ call.answer = "none" /\ call'.req = call.req /\ Android' = Android
  BY Onwards DEF OperationInv, CommandsTypeOK, Serves, Advances
<1>2. CASE call.req.op = "launch"
  <2>1. PICK r \in Launches : call.req = r
    BY <1>1, <1>2, CallFields, RequestTyped
  <2>2. CASE Android
    <3>1. AndroidLaunchInv(r)
      BY <1>1, <1>2, <2>1, <2>2 DEF ProgressInv
    <3>2. AndroidLaunchInv(r)' /\ dev' \in Devices /\ dev'.pressed = dev.pressed
      BY <1>1, <2>1, <2>2, <3>1, AndroidLaunchServed
    <3>3. ProgressInv'
      BY <1>1, <1>2, <2>1, <2>2, <3>2 DEF ProgressInv, AndroidLaunchInv, LaunchInv
    <3>. QED  BY <3>2, <3>3
  <2>3. CASE ~Android
    <3>1. IOSLaunchInv(r)
      BY <1>1, <1>2, <2>1, <2>3 DEF ProgressInv
    <3>2. IOSLaunchInv(r)' /\ dev' \in Devices /\ dev'.pressed = dev.pressed
      BY <1>1, <2>1, <2>3, <3>1, IOSLaunchServed
    <3>3. ProgressInv'
      BY <1>1, <1>2, <2>1, <2>3, <3>2 DEF ProgressInv, IOSLaunchInv, LaunchInv
    <3>. QED  BY <3>2, <3>3
  <2>. QED  BY <2>2, <2>3
<1>3. CASE call.req.op \in {"airplane", "internet"}
  <2>1. PICK on \in BOOLEAN : call.req.on = on
    BY <1>1, <1>3, CallFields, RequestTyped
  <2>. QED  BY <1>1, <1>3, <2>1, AirplaneServed, InternetServed
<1>4. CASE call.req.op \in {"key", "oddKey"}
  BY <1>1, <1>4, KeyServed
<1>5. CASE call.req.op \notin {"launch", "airplane", "internet", "key", "oddKey"}
  BY <1>1, <1>5, KillServed, RotateServed, HideServed, LocationServed, FrontServed, OtherServed
<1>. QED  BY <1>2, <1>3, <1>4, <1>5

-----------------------------------------------------------------------------
(* The plans: in order, legitimate, and with all that the request needs    *)
Planned(s, S, set) == s \in Seq(S) /\ Ordered(s) /\ Elements(s) = set

(* A plan in its order, with what it holds *)
LEMMA WithinPlanned ==
  ASSUME NEW s, NEW S, NEW a, NEW b, NEW set, Within(s, S, a, b), Elements(s) = set
  PROVE  Planned(s, S, set)
BY DEF Within, Planned

(* The permissions of a launch, each in its place *)
LEMMA PermitsInTurn ==
  ASSUME NEW r, NEW of \in SUBSET PermNames, NEW S, Permits(r, of) \subseteq S
  PROVE  Within(PermitEach(r, of), S, 5, 7) /\ Elements(PermitEach(r, of)) = Permits(r, of)
<1>. DEFINE wanted(p) == p \in of /\ Wish(r, p) # "none"
            c(p) == Permit(p, Wish(r, p))
            part(p) == If(wanted(p), <<c(p)>>)
            set(p) == IF wanted(p) THEN {c(p)} ELSE {}
<1>1. \A p \in PermNames : wanted(p) \in BOOLEAN /\ (wanted(p) => c(p) \in S)
  BY DEF Permits
<1>2. "plain" \in PermNames /\ "rare" \in PermNames /\ "overlay" \in PermNames
  BY DEF PermNames
<1>3. PermitEach(r, of) = (part("plain") \o part("rare")) \o part("overlay")
  BY DEF PermitEach
<1>4. Permits(r, of) = (set("plain") \cup set("rare")) \cup set("overlay")
  BY DEF Permits, PermNames
<1>5. Rank(c("plain")) = 5 /\ Rank(c("rare")) = 6 /\ Rank(c("overlay")) = 7
  BY Ranks
<1>. HIDE DEF wanted, c
<1>6. \A p \in PermNames : Within(part(p), S, Rank(c(p)), Rank(c(p))) /\ Elements(part(p)) = set(p)
  BY <1>1, Maybe
<1>. HIDE DEF part, set
<1>7. /\ Within(part("plain"), S, 5, 5) /\ Within(part("rare"), S, 6, 6)
      /\ Within(part("overlay"), S, 7, 7)
  BY <1>2, <1>5, <1>6
<1>8. /\ Within(part("plain") \o part("rare"), S, 5, 6)
      /\ Elements(part("plain") \o part("rare")) = Elements(part("plain")) \cup Elements(part("rare"))
  BY <1>7, Joined
<1>9. /\ Within((part("plain") \o part("rare")) \o part("overlay"), S, 5, 7)
      /\ Elements((part("plain") \o part("rare")) \o part("overlay"))
           = Elements(part("plain") \o part("rare")) \cup Elements(part("overlay"))
  <2>1. Within(part("plain") \o part("rare"), S, 5, 6) /\ Within(part("overlay"), S, 7, 7)
    BY <1>7, <1>8
  <2>. QED  BY <2>1, Joined
<1>. QED  BY <1>2, <1>3, <1>4, <1>6, <1>8, <1>9

(* On Android the permissions are followed by the look at their errors. *)
LEMMA AndroidPermissionsPlanned ==
  ASSUME NEW r \in Launches, NEW S, Permits(r, PermNames) \cup {Do("checkErrors")} \subseteq S
  PROVE  \E set :
           /\ Within(AndroidPermissions(r), S, 5, 8) /\ Elements(AndroidPermissions(r)) = set
           /\ Permits(r, PermNames) \subseteq set
           /\ Permits(r, PermNames) # {} => Do("checkErrors") \in set
<1>1. /\ Within(PermitEach(r, PermNames), S, 5, 7)
      /\ Elements(PermitEach(r, PermNames)) = Permits(r, PermNames)
  BY PermitsInTurn
<1>2. Within(<<Do("checkErrors")>>, S, 8, 8) /\ Elements(<<Do("checkErrors")>>) = {Do("checkErrors")}
  BY One, Ranks
<1>3. /\ Within(PermitEach(r, PermNames) \o <<Do("checkErrors")>>, S, 5, 8)
      /\ Elements(PermitEach(r, PermNames) \o <<Do("checkErrors")>>)
           = Permits(r, PermNames) \cup {Do("checkErrors")}
  BY <1>1, <1>2, Joined
<1>4. CASE r.all \/ r.ask # NoAsk
  BY <1>3, <1>4 DEF AndroidPermissions, If
<1>5. CASE ~r.all /\ r.ask = NoAsk
  <2>1. Permits(r, PermNames) = {}
    BY <1>5 DEF Permits, Wish, NoAsk
  <2>2. AndroidPermissions(r) = <<>>
    BY <1>5 DEF AndroidPermissions, If
  <2>. QED  BY <2>1, <2>2, NoCommands
<1>. QED  BY <1>4, <1>5

(* A launch on Android has all its commands, in their order; *)
LEMMA AndroidLaunchPlanned ==
  ASSUME NEW r \in Launches
  PROVE  \E set :
           /\ Planned(AndroidLaunch(r), Legit(r, TRUE), set)
           /\ {Do("present"), Do("launch")} \subseteq set
           /\ r.stop => Do("stop") \in set
           /\ r.clear => Do("clear") \in set
           /\ Permits(r, PermNames) \subseteq set
           /\ Permits(r, PermNames) # {} => Do("checkErrors") \in set
<1>. DEFINE S == Legit(r, TRUE)
            s1 == <<Do("present")>>
            s2 == If(r.stop, <<Do("stop")>>)
            s3 == If(r.clear, <<Do("clear")>>)
            s4 == AndroidPermissions(r)
            s5 == <<Do("launch")>>
<1>1. r.op = "launch" /\ r.stop \in BOOLEAN /\ r.clear \in BOOLEAN
  BY WishTyped DEF PermNames
<1>2. S = {Do("present"), Do("stop"), Do("clear"), Do("checkErrors"), Do("launch")}
            \cup Permits(r, PermNames)
  BY <1>1 DEF Legit
<1>3. AndroidLaunch(r) = (((s1 \o s2) \o s3) \o s4) \o s5
  BY DEF AndroidLaunch
<1>. HIDE DEF S
<1>4. Within(s1, S, 1, 1) /\ Elements(s1) = {Do("present")}
  BY <1>2, One, Ranks
<1>5. Within(s2, S, 3, 3) /\ Elements(s2) = IF r.stop THEN {Do("stop")} ELSE {}
  BY <1>1, <1>2, Maybe, Ranks
<1>6. Within(s3, S, 4, 4) /\ Elements(s3) = IF r.clear THEN {Do("clear")} ELSE {}
  BY <1>1, <1>2, Maybe, Ranks
<1>7. PICK set4 :
        /\ Within(s4, S, 5, 8) /\ Elements(s4) = set4
        /\ Permits(r, PermNames) \subseteq set4
        /\ Permits(r, PermNames) # {} => Do("checkErrors") \in set4
  BY <1>2, AndroidPermissionsPlanned
<1>8. Within(s5, S, 9, 9) /\ Elements(s5) = {Do("launch")}
  BY <1>2, One, Ranks
<1>. HIDE DEF s1, s2, s3, s4, s5
<1>9. Within(s1 \o s2, S, 1, 3) /\ Elements(s1 \o s2) = Elements(s1) \cup Elements(s2)
  BY <1>4, <1>5, Joined
<1>10. /\ Within((s1 \o s2) \o s3, S, 1, 4)
       /\ Elements((s1 \o s2) \o s3) = Elements(s1 \o s2) \cup Elements(s3)
  BY <1>6, <1>9, Joined
<1>11. /\ Within(((s1 \o s2) \o s3) \o s4, S, 1, 8)
       /\ Elements(((s1 \o s2) \o s3) \o s4) = Elements((s1 \o s2) \o s3) \cup Elements(s4)
  <2>1. Within((s1 \o s2) \o s3, S, 1, 4) /\ Within(s4, S, 5, 8)
    BY <1>7, <1>10
  <2>. QED  BY <2>1, Joined
<1>12. /\ Within((((s1 \o s2) \o s3) \o s4) \o s5, S, 1, 9)
       /\ Elements((((s1 \o s2) \o s3) \o s4) \o s5)
            = Elements(((s1 \o s2) \o s3) \o s4) \cup Elements(s5)
  BY <1>8, <1>11, Joined
<1>. DEFINE set == Elements(AndroidLaunch(r))
<1>13. set = (((Elements(s1) \cup Elements(s2)) \cup Elements(s3)) \cup set4) \cup Elements(s5)
  BY <1>3, <1>7, <1>9, <1>10, <1>11, <1>12
<1>14. Planned(AndroidLaunch(r), S, set)
  BY <1>3, <1>12 DEF Within, Planned
<1>. HIDE DEF set
<1>15. /\ {Do("present"), Do("launch")} \subseteq set
       /\ r.stop => Do("stop") \in set
       /\ r.clear => Do("clear") \in set
       /\ Permits(r, PermNames) \subseteq set
       /\ Permits(r, PermNames) # {} => Do("checkErrors") \in set
  BY <1>4, <1>5, <1>6, <1>7, <1>8, <1>13
<1>. QED  BY <1>14, <1>15 DEF S

(* On iOS the permissions are one command for all, or one for the one that *)
(* simctl knows and one for the rest.                                      *)
LEMMA IOSPermissionsPlanned ==
  ASSUME NEW r \in Launches, NEW S,
         {Do("utils")} \cup (IF r.all THEN {Do("privacyAll")} ELSE Permits(r, {"plain"})) \subseteq S
  PROVE  \E set :
           /\ Within(IOSPermissions(r), S, 5, 8) /\ Elements(IOSPermissions(r)) = set
           /\ r.all => Do("privacyAll") \in set
           /\ ~r.all => Permits(r, {"plain"}) \subseteq set
           /\ UtilPerms(r) # {} => Do("utils") \in set
<1>1. CASE r.all
  <2>. DEFINE s == <<Do("privacyAll")>>
              t == <<Do("utils")>>
  <2>1. IOSPermissions(r) = s \o t
    BY <1>1 DEF IOSPermissions
  <2>2. /\ Within(s, S, 5, 5) /\ Elements(s) = {Do("privacyAll")}
        /\ Within(t, S, 8, 8) /\ Elements(t) = {Do("utils")}
    BY <1>1, One, Ranks
  <2>. HIDE DEF s, t
  <2>3. Within(s \o t, S, 5, 8) /\ Elements(s \o t) = {Do("privacyAll"), Do("utils")}
    BY <2>2, Joined
  <2>. QED  BY <1>1, <2>1, <2>3
<1>2. CASE ~r.all
  <2>. DEFINE s == PermitEach(r, {"plain"})
              t == If(UtilPerms(r) # {}, <<Do("utils")>>)
  <2>1. IOSPermissions(r) = s \o t
    BY <1>2 DEF IOSPermissions
  <2>2. Within(s, S, 5, 7) /\ Elements(s) = Permits(r, {"plain"})
    BY <1>2, PermitsInTurn DEF PermNames
  <2>3. Within(t, S, 8, 8) /\ Elements(t) = IF UtilPerms(r) # {} THEN {Do("utils")} ELSE {}
    <3>1. CASE UtilPerms(r) # {}
      <4>1. t = <<Do("utils")>>
        BY <3>1 DEF If
      <4>. QED  BY <3>1, <4>1, One, Ranks
    <3>2. CASE UtilPerms(r) = {}
      <4>1. t = <<>>
        BY <3>2 DEF If
      <4>. QED  BY <3>2, <4>1, NoCommands
    <3>. QED  BY <3>1, <3>2
  <2>. HIDE DEF s, t
  <2>4. Within(s \o t, S, 5, 8) /\ Elements(s \o t) = Elements(s) \cup Elements(t)
    BY <2>2, <2>3, Joined
  <2>. QED  BY <1>2, <2>1, <2>2, <2>3, <2>4
<1>. QED  BY <1>1, <1>2

(* so has one on iOS. *)
LEMMA IOSLaunchPlanned ==
  ASSUME NEW r \in Launches
  PROVE  \E set :
           /\ Planned(IOSLaunch(r), Legit(r, FALSE), set)
           /\ {Do("present"), Do("launch")} \subseteq set
           /\ r.stop => Do("stop") \in set
           /\ r.clear => Do("unsupported") \in set
           /\ r.all => Do("privacyAll") \in set
           /\ ~r.all => Permits(r, {"plain"}) \subseteq set
           /\ UtilPerms(r) # {} => Do("utils") \in set
<1>. DEFINE S == Legit(r, FALSE)
            a1 == <<Do("present")>>
            a2 == <<Do("refreshIds")>>
            s2 == If(r.stop, <<Do("stop")>>)
            s3 == If(r.clear, <<Do("unsupported")>>)
            s4 == IOSPermissions(r)
            s5 == <<Do("launch")>>
<1>1. r.op = "launch" /\ r.stop \in BOOLEAN /\ r.clear \in BOOLEAN
  BY WishTyped DEF PermNames
<1>2. S = {Do("present"), Do("refreshIds"), Do("stop"), Do("unsupported"), Do("utils"),
           Do("launch")} \cup (IF r.all THEN {Do("privacyAll")} ELSE Permits(r, {"plain"}))
  BY <1>1 DEF Legit
<1>3. IOSLaunch(r) = ((((a1 \o a2) \o s2) \o s3) \o s4) \o s5
  BY DEF IOSLaunch
<1>. HIDE DEF S
<1>4. /\ Within(a1, S, 1, 1) /\ Elements(a1) = {Do("present")}
      /\ Within(a2, S, 2, 2) /\ Elements(a2) = {Do("refreshIds")}
  BY <1>2, One, Ranks
<1>5. Within(s2, S, 3, 3) /\ Elements(s2) = IF r.stop THEN {Do("stop")} ELSE {}
  BY <1>1, <1>2, Maybe, Ranks
<1>6. Within(s3, S, 4, 4) /\ Elements(s3) = IF r.clear THEN {Do("unsupported")} ELSE {}
  BY <1>1, <1>2, Maybe, Ranks
<1>7. PICK set4 :
        /\ Within(s4, S, 5, 8) /\ Elements(s4) = set4
        /\ r.all => Do("privacyAll") \in set4
        /\ ~r.all => Permits(r, {"plain"}) \subseteq set4
        /\ UtilPerms(r) # {} => Do("utils") \in set4
  BY <1>2, IOSPermissionsPlanned
<1>8. Within(s5, S, 9, 9) /\ Elements(s5) = {Do("launch")}
  BY <1>2, One, Ranks
<1>. HIDE DEF a1, a2, s2, s3, s4, s5
<1>. DEFINE s1 == a1 \o a2
<1>0. Within(s1, S, 1, 2) /\ Elements(s1) = Elements(a1) \cup Elements(a2)
  <2>1. Within(a1, S, 1, 1) /\ Within(a2, S, 2, 2)
    BY <1>4
  <2>. QED  BY <2>1, Joined DEF s1
<1>. HIDE DEF s1
<1>9. Within(s1 \o s2, S, 1, 3) /\ Elements(s1 \o s2) = Elements(s1) \cup Elements(s2)
  BY <1>0, <1>5, Joined
<1>10. /\ Within((s1 \o s2) \o s3, S, 1, 4)
       /\ Elements((s1 \o s2) \o s3) = Elements(s1 \o s2) \cup Elements(s3)
  BY <1>6, <1>9, Joined
<1>11. /\ Within(((s1 \o s2) \o s3) \o s4, S, 1, 8)
       /\ Elements(((s1 \o s2) \o s3) \o s4) = Elements((s1 \o s2) \o s3) \cup Elements(s4)
  <2>1. Within((s1 \o s2) \o s3, S, 1, 4) /\ Within(s4, S, 5, 8)
    BY <1>7, <1>10
  <2>. QED  BY <2>1, Joined
<1>12. /\ Within((((s1 \o s2) \o s3) \o s4) \o s5, S, 1, 9)
       /\ Elements((((s1 \o s2) \o s3) \o s4) \o s5)
            = Elements(((s1 \o s2) \o s3) \o s4) \cup Elements(s5)
  BY <1>8, <1>11, Joined
<1>. DEFINE set == Elements(IOSLaunch(r))
<1>13. set = (((Elements(s1) \cup Elements(s2)) \cup Elements(s3)) \cup set4) \cup Elements(s5)
  BY <1>3, <1>7, <1>9, <1>10, <1>11, <1>12 DEF s1
<1>14. Planned(IOSLaunch(r), S, set)
  BY <1>3, <1>12 DEF Within, Planned, s1
<1>. HIDE DEF set
<1>15. /\ {Do("present"), Do("launch")} \subseteq set
       /\ r.stop => Do("stop") \in set
       /\ r.clear => Do("unsupported") \in set
       /\ r.all => Do("privacyAll") \in set
       /\ ~r.all => Permits(r, {"plain"}) \subseteq set
       /\ UtilPerms(r) # {} => Do("utils") \in set
  BY <1>0, <1>4, <1>5, <1>6, <1>7, <1>8, <1>13
<1>. QED  BY <1>14, <1>15 DEF S

(* Two commands, one after the other *)
LEMMA InTurn ==
  ASSUME NEW S, NEW c \in S, NEW d \in S, Rank(c) < Rank(d)
  PROVE  Within(<<c, d>>, S, Rank(c), Rank(d)) /\ Elements(<<c, d>>) = {c, d}
<1>. DEFINE s == <<c, d>>
<1>1. s \in Seq(S) /\ Len(s) = 2 /\ s[1] = c /\ s[2] = d
  OBVIOUS
<1>2. Rank(c) \in Nat /\ Rank(d) \in Nat /\ 1..2 = {1, 2}
  BY RankIsNat
<1>. HIDE DEF s
<1>3. Ordered(s) /\ Elements(s) = {c, d}
  BY <1>1, <1>2 DEF Ordered, Elements
<1>4. Within(s, S, Rank(c), Rank(d))
  BY <1>1, <1>2, <1>3 DEF Within
<1>. QED  BY <1>3, <1>4 DEF s

(* What a plan holds when its operation begins *)
Starts(r, set) ==
  /\ r.op = "launch" =>
       /\ {Do("present"), Do("launch")} \subseteq set
       /\ r.stop => Do("stop") \in set
       /\ Android =>
            /\ r.clear => Do("clear") \in set
            /\ Permits(r, PermNames) \subseteq set
            /\ Permits(r, PermNames) # {} => Do("checkErrors") \in set
       /\ ~Android =>
            /\ r.clear => Do("unsupported") \in set
            /\ r.all => Do("privacyAll") \in set
            /\ ~r.all => Permits(r, {"plain"}) \subseteq set
            /\ UtilPerms(r) # {} => Do("utils") \in set
  /\ r.op = "kill" => Do("stop") \in set
  /\ r.op = "rotate" /\ Android => Do("autoOff") \in set /\ Do("turn") \in set
  /\ r.op = "hideKeyboard" => Do("readKeyboard") \in set \/ Do("hide") \in set
  /\ r.op = "location" => Do("locate") \in set /\ (Android => Do("mock") \in set)
  /\ r.op = "front" => Do("front") \in set
  /\ r.op = "airplane" => Switch("airplane", r.on) \in set
  /\ r.op = "internet" =>
       /\ Switch("wifi", r.on) \in set /\ Switch("mobile", r.on) \in set
       /\ r.on => Do("readAirplane") \in set
       /\ Switch("airplane", FALSE) \notin set /\ Do("broadcast") \notin set

(* The plans of the other operations: of the airplane mode, *)
LEMMA AirplanePlanned ==
  ASSUME NEW S, NEW on \in BOOLEAN, NEW old \in BOOLEAN,
         {Switch("airplane", on), Do("broadcast")} \subseteq S
  PROVE  /\ Within(Airplane(on, old), S, 2, 3)
         /\ Elements(Airplane(on, old)) =
              {Switch("airplane", on)} \cup (IF old THEN {Do("broadcast")} ELSE {})
<1>. DEFINE s == <<Switch("airplane", on)>>
            t == If(old, <<Do("broadcast")>>)
<1>1. Within(s, S, 2, 2) /\ Elements(s) = {Switch("airplane", on)}
  BY One, Ranks
<1>2. Within(t, S, 3, 3) /\ Elements(t) = IF old THEN {Do("broadcast")} ELSE {}
  BY Maybe, Ranks
<1>3. Airplane(on, old) = s \o t
  BY DEF Airplane
<1>. HIDE DEF s, t
<1>4. Within(s \o t, S, 2, 3) /\ Elements(s \o t) = Elements(s) \cup Elements(t)
  <2>1. Within(s, S, 2, 2) /\ Within(t, S, 3, 3)
    BY <1>1, <1>2
  <2>. QED  BY <2>1, Joined
<1>. QED  BY <1>1, <1>2, <1>3, <1>4

(* of the network, *)
LEMMA InternetPlanned ==
  ASSUME NEW r, r.on \in BOOLEAN, NEW S,
         {Do("readAirplane"), Switch("wifi", r.on), Switch("mobile", r.on)} \subseteq S
  PROVE  Planned(Internet(r), S, (IF r.on THEN {Do("readAirplane")} ELSE {})
                                   \cup {Switch("wifi", r.on), Switch("mobile", r.on)})
<1>. DEFINE w == Switch("wifi", r.on)
            m == Switch("mobile", r.on)
            s == If(r.on, <<Do("readAirplane")>>)
            t == <<w, m>>
<1>1. Within(s, S, 1, 1) /\ Elements(s) = IF r.on THEN {Do("readAirplane")} ELSE {}
  BY Maybe, Ranks
<1>2. Within(t, S, 4, 5) /\ Elements(t) = {w, m}
  <2>1. w \in S /\ m \in S /\ Rank(w) = 4 /\ Rank(m) = 5
    BY Ranks
  <2>. HIDE DEF w, m
  <2>. QED  BY <2>1, InTurn
<1>3. Internet(r) = s \o t
  BY DEF Internet
<1>. HIDE DEF s, t
<1>4. Within(s \o t, S, 1, 5) /\ Elements(s \o t) = Elements(s) \cup Elements(t)
  <2>1. Within(s, S, 1, 1) /\ Within(t, S, 4, 5)
    BY <1>1, <1>2
  <2>. QED  BY <2>1, Joined
<1>5. Elements(s \o t) = (IF r.on THEN {Do("readAirplane")} ELSE {}) \cup {w, m}
  BY <1>1, <1>2, <1>4
<1>. HIDE DEF w, m
<1>6. Planned(s \o t, S, (IF r.on THEN {Do("readAirplane")} ELSE {}) \cup {w, m})
  BY <1>4, <1>5, WithinPlanned
<1>. QED  BY <1>3, <1>6 DEF w, m

(* of a rotation, *)
LEMMA RotatePlanned ==
  ASSUME NEW S, {Do("readRotation"), Do("autoOff"), Do("turn")} \subseteq S
  PROVE  Planned(Rotate, S, {Do("readRotation"), Do("autoOff"), Do("turn")})
<1>. DEFINE s == <<Do("readRotation")>>
            t == <<Do("autoOff"), Do("turn")>>
<1>1. Within(s, S, 1, 1) /\ Elements(s) = {Do("readRotation")}
  BY One, Ranks
<1>2. Within(t, S, 2, 3) /\ Elements(t) = {Do("autoOff"), Do("turn")}
  BY InTurn, Ranks
<1>3. Rotate = s \o t
  BY DEF Rotate
<1>. HIDE DEF s, t
<1>4. Within(s \o t, S, 1, 3) /\ Elements(s \o t) = Elements(s) \cup Elements(t)
  <2>1. Within(s, S, 1, 1) /\ Within(t, S, 2, 3)
    BY <1>1, <1>2
  <2>. QED  BY <2>1, Joined
<1>. QED  BY <1>1, <1>2, <1>3, <1>4, WithinPlanned

(* An operation of one command *)
LEMMA OnePlanned ==
  ASSUME NEW S, NEW c \in S
  PROVE  Planned(<<c>>, S, {c})
BY One, WithinPlanned

(* Every operation begins with a plan for all that it promises.            *)
LEMMA PlanOf ==
  ASSUME NEW r \in Requests, r.op \in {"internet", "airplane"} => Android
  PROVE  \E set : /\ Planned(IF Android THEN AndroidPlan(r) ELSE IOSPlan(r), Legit(r, Android), set)
                  /\ Starts(r, set)
<1>. DEFINE plan == IF Android THEN AndroidPlan(r) ELSE IOSPlan(r)
<1>0. Android \in BOOLEAN
  BY DEF Android
<1>1. CASE r.op = "launch" /\ Android
  <2>1. r \in Launches /\ Android = TRUE /\ plan = AndroidLaunch(r)
    BY <1>0, <1>1, RequestTyped DEF AndroidPlan
  <2>. QED  BY <1>1, <2>1, AndroidLaunchPlanned DEF Starts
<1>2. CASE r.op = "launch" /\ ~Android
  <2>1. r \in Launches /\ Android = FALSE /\ plan = IOSLaunch(r)
    BY <1>0, <1>2, RequestTyped DEF IOSPlan
  <2>. QED  BY <1>2, <2>1, IOSLaunchPlanned DEF Starts
<1>3. CASE r.op = "kill"
  BY <1>3, OnePlanned DEF AndroidPlan, IOSPlan, Legit, Starts
<1>4. CASE r.op = "rotate" /\ Android
  BY <1>4, RotatePlanned DEF AndroidPlan, Legit, Starts
<1>5. CASE r.op = "rotate" /\ ~Android
  BY <1>5, OnePlanned DEF IOSPlan, Legit, Starts
<1>6. CASE r.op = "hideKeyboard"
  BY <1>6, OnePlanned DEF AndroidPlan, IOSPlan, Legit, Starts
<1>7. CASE r.op \in {"key", "oddKey"}
  BY <1>7, OnePlanned DEF AndroidPlan, AndroidKey, IOSPlan, Legit, Starts
<1>8. CASE r.op = "location" /\ Android
  <2>1. Planned(Locate, {Do("mock"), Do("locate")}, {Do("mock"), Do("locate")})
    BY InTurn, WithinPlanned, Ranks DEF Locate
  <2>. QED  BY <1>8, <2>1 DEF AndroidPlan, Legit, Starts
<1>9. CASE r.op = "location" /\ ~Android
  BY <1>9, OnePlanned DEF IOSPlan, Legit, Starts
<1>10. CASE r.op = "front"
  BY <1>10, OnePlanned DEF AndroidPlan, IOSPlan, Legit, Starts
<1>11. CASE r.op = "airplane"
  <2>1. r.on \in BOOLEAN /\ r.old \in BOOLEAN /\ plan = Airplane(r.on, r.old)
    BY <1>11, RequestTyped DEF AndroidPlan
  <2>2. Legit(r, Android) = {Switch("airplane", r.on), Do("broadcast")}
    BY <1>11 DEF Legit
  <2>. HIDE DEF plan
  <2>3. PICK set : Planned(plan, Legit(r, Android), set) /\ Switch("airplane", r.on) \in set
    BY <2>1, <2>2, AirplanePlanned, WithinPlanned
  <2>. QED  BY <1>11, <2>3 DEF Starts, plan
<1>12. CASE r.op = "internet"
  <2>1. r.on \in BOOLEAN /\ plan = Internet(r)
    BY <1>12, RequestTyped DEF AndroidPlan
  <2>2. Legit(r, Android) = {Do("readAirplane"), Switch("airplane", FALSE), Do("broadcast"),
                             Switch("wifi", r.on), Switch("mobile", r.on)}
    BY <1>12 DEF Legit
  <2>. DEFINE set == (IF r.on THEN {Do("readAirplane")} ELSE {})
                        \cup {Switch("wifi", r.on), Switch("mobile", r.on)}
  <2>3. Planned(plan, Legit(r, Android), set)
    <3>1. {Do("readAirplane"), Switch("wifi", r.on), Switch("mobile", r.on)} \subseteq Legit(r, Android)
      BY <2>2
    <3>. QED  BY <2>1, <3>1, InternetPlanned
  <2>4. /\ Switch("airplane", FALSE) \notin set /\ Do("broadcast") \notin set
        /\ Switch("wifi", r.on) \in set /\ Switch("mobile", r.on) \in set
        /\ r.on => Do("readAirplane") \in set
    BY <2>1, NetDistinct
  <2>. HIDE DEF set, plan
  <2>5. Starts(r, set)
    BY <1>12, <2>4 DEF Starts
  <2>. QED  BY <2>3, <2>5 DEF plan
<1>13. CASE r.op = "capture"
  BY <1>13, OnePlanned DEF AndroidPlan, IOSPlan, Legit, Starts
<1>14. CASE r.op \in {"adbOnly", "driverOnly"}
  BY <1>14, OnePlanned DEF AndroidPlan, IOSPlan, Legit, Starts
<1>15. r.op \in {"launch", "kill", "rotate", "hideKeyboard", "key", "oddKey", "location", "front",
                 "adbOnly", "driverOnly", "capture", "internet", "airplane"}
  BY DEF Requests, Launches
<1>. QED  BY <1>1, <1>2, <1>3, <1>4, <1>5, <1>6, <1>7, <1>8, <1>9, <1>10, <1>11, <1>12, <1>13,
             <1>14, <1>15

-----------------------------------------------------------------------------
(* What a step makes of the call's record *)
LEMMA CallChanges ==
  ASSUME call \in Calls
  PROVE  /\ \A rest \in Seq(Commands) : Goes(rest) =>
              /\ call' \in Calls /\ call'.todo = rest /\ call'.req = call.req
              /\ call'.errors = call.errors /\ call'.blind = call.blind
              /\ call'.answer = call.answer /\ call'.count = call.count
         /\ \A rest \in Seq(Commands) : call' = [call EXCEPT !.todo = rest, !.errors = TRUE] =>
              /\ call' \in Calls /\ call'.todo = rest /\ call'.req = call.req
              /\ call'.errors /\ call'.blind = call.blind
              /\ call'.answer = call.answer /\ call'.count = call.count
         /\ \A rest \in Seq(Commands) : call' = [call EXCEPT !.todo = rest, !.blind = TRUE] =>
              /\ call' \in Calls /\ call'.todo = rest /\ call'.req = call.req
              /\ call'.errors = call.errors /\ call'.blind
              /\ call'.answer = call.answer /\ call'.count = call.count
         /\ \A answer \in {"success", "failure"} : Reply(answer) =>
              /\ call' \in Calls /\ call'.todo = <<>> /\ call'.req = call.req
              /\ call'.errors = call.errors /\ call'.blind = call.blind
              /\ call'.answer = answer /\ call'.count = call.count
<1>. USE DEF Goes, Reply, Calls
<1>1. \A rest \in Seq(Commands) : Goes(rest) =>
              /\ call' \in Calls /\ call'.todo = rest /\ call'.req = call.req
              /\ call'.errors = call.errors /\ call'.blind = call.blind
              /\ call'.answer = call.answer /\ call'.count = call.count
  OBVIOUS
<1>2. \A rest \in Seq(Commands) : call' = [call EXCEPT !.todo = rest, !.errors = TRUE] =>
              /\ call' \in Calls /\ call'.todo = rest /\ call'.req = call.req
              /\ call'.errors /\ call'.blind = call.blind
              /\ call'.answer = call.answer /\ call'.count = call.count
  OBVIOUS
<1>3. \A rest \in Seq(Commands) : call' = [call EXCEPT !.todo = rest, !.blind = TRUE] =>
              /\ call' \in Calls /\ call'.todo = rest /\ call'.req = call.req
              /\ call'.errors = call.errors /\ call'.blind
              /\ call'.answer = call.answer /\ call'.count = call.count
  OBVIOUS
<1>4. \A answer \in {"success", "failure"} : Reply(answer) =>
              /\ call' \in Calls /\ call'.todo = <<>> /\ call'.req = call.req
              /\ call'.errors = call.errors /\ call'.blind = call.blind
              /\ call'.answer = answer /\ call'.count = call.count
  <2>1. <<>> \in Seq(Commands)
    OBVIOUS
  <2>. QED  BY <2>1
<1>. QED  BY <1>1, <1>2, <1>3, <1>4

(* The command at hand, and the device it may have changed *)
LEMMA AtHand ==
  ASSUME OperationInv, call.todo # <<>>
  PROVE  /\ cmd \in Legit(call.req, Android) /\ cmd \in Left /\ cmd \in Commands
         /\ Tail(call.todo) \in Seq(Commands)
         /\ call.answer = "none" /\ call.count # 0
<1>1. call.todo \in Seq(Legit(call.req, Android)) /\ Ordered(call.todo) /\ call.todo \in Seq(Commands)
  BY CallFields DEF OperationInv, PlanInv, CommandsTypeOK
<1>2. cmd \in Legit(call.req, Android) /\ cmd \in Left
  BY <1>1, Rest DEF Left, cmd
<1>3. cmd \in Commands /\ Tail(call.todo) \in Seq(Commands)
  BY <1>1 DEF cmd
<1>. QED  BY <1>2, <1>3 DEF OperationInv, PlanInv

(* Some commands are those of a launch, *)
LEMMA LaunchAtHand ==
  ASSUME OperationInv, call.todo # <<>>,
         cmd[1] \in {"present", "refreshIds", "permit", "utils", "checkErrors"}
  PROVE  call.req.op = "launch" /\ call.req \in Launches
<1>1. cmd \in Legit(call.req, Android)
  BY AtHand
<1>2. call.req.op = "launch"
  <2>. SUFFICES ASSUME call.req.op # "launch" PROVE FALSE
    OBVIOUS
  <2>1. \/ cmd \in {Do("stop"), Do("readRotation"), Do("autoOff"), Do("turn"), Do("other"),
                   Do("readKeyboard"), Do("hide"), Do("adbKey"), Do("key"), Do("mock"),
                   Do("locate"), Do("front"), Do("broadcast"), Do("readAirplane"), Do("capture")}
        \/ \E on : cmd \in {Switch("airplane", on), Switch("wifi", on), Switch("mobile", on)}
    BY <1>1 DEF Legit
  <2>. QED  BY <2>1, Distinct
<1>. QED  BY <1>2, CallFields, RequestTyped DEF OperationInv, CommandsTypeOK

(* and a permission is one that it asks for. *)
LEMMA PermitAtHand ==
  ASSUME OperationInv, call.todo # <<>>, cmd[1] = "permit"
  PROVE  \E p \in PermNames :
           /\ cmd = Permit(p, Wish(call.req, p)) /\ Wish(call.req, p) \in Wishes \ {"none"}
           /\ ~Android => p = "plain"
<1>1. call.req.op = "launch" /\ call.req \in Launches /\ cmd \in Legit(call.req, Android)
  BY LaunchAtHand, AtHand
<1>2. PICK p \in PermNames : /\ cmd = Permit(p, Wish(call.req, p)) /\ Wish(call.req, p) # "none"
                             /\ ~Android => p = "plain"
  BY <1>1, Distinct DEF Legit, Permits, PermNames
<1>. QED  BY <1>1, <1>2, WishTyped

(* A command leaves a device behind, and presses a key if it is one. *)
LEMMA AppliedTyped ==
  ASSUME OperationInv, call.todo # <<>>, cmd[1] \notin Special, ~BadWish
  PROVE  /\ Applied(cmd, dev) \in Devices
         /\ \/ Applied(cmd, dev).pressed = dev.pressed
            \/ /\ cmd \in {Do("key"), Do("adbKey")}
               /\ Applied(cmd, dev).pressed = dev.pressed + 1
<1>1. dev \in Devices /\ cmd \in Commands
  BY AtHand DEF OperationInv, CommandsTypeOK
<1>2. CASE cmd[1] = "permit"
  <2>1. PICK p \in PermNames :
          /\ cmd = Permit(p, Wish(call.req, p)) /\ Wish(call.req, p) \in Wishes \ {"none"}
          /\ ~Android => p = "plain"
    BY <1>2, PermitAtHand
  <2>2. Android \/ Wish(call.req, p) # "other"
    BY <1>2, <2>1, Distinct DEF BadWish, Is
  <2>. QED  BY <1>1, <2>1, <2>2, PermitDoes
<1>3. CASE cmd = Do("utils")
  <2>1. call.req \in Launches
    BY <1>3, LaunchAtHand, Distinct
  <2>2. \A p \in UtilPerms(call.req) : Wish(call.req, p) \in {"allow", "deny", "unset"}
    BY <1>3, <2>1, WishTyped, Distinct DEF BadWish, Is, UtilPerms, Wishes, PermNames
  <2>. QED  BY <1>1, <1>3, <2>2, UtilsDoes
<1>4. CASE cmd \in {Switch(name, on) : name \in {"airplane", "wifi", "mobile"}, on \in BOOLEAN}
  BY <1>1, <1>4, SwitchDoes
<1>5. CASE cmd \in {Do("stop"), Do("clear"), Do("privacyAll")}
  BY <1>1, <1>5, StopDoes, ClearDoes, PrivacyDoes
<1>6. CASE cmd \in {Do("launch"), Do("front")}
  BY <1>1, <1>6, LaunchDoes
<1>7. CASE cmd \in {Do("autoOff"), Do("turn"), Do("hide")}
  BY <1>1, <1>7, RotationDoes, HideDoes
<1>8. CASE cmd \in {Do("key"), Do("adbKey")}
  BY <1>1, <1>8, KeyDoes
<1>9. CASE cmd \in {Do("mock"), Do("locate"), Do("broadcast"), Do("other")}
  BY <1>1, <1>9, LocationDoes, OthersDo
<1>10. \/ cmd[1] = "permit"
       \/ cmd \in {Switch(name, on) : name \in {"airplane", "wifi", "mobile"}, on \in BOOLEAN}
       \/ cmd \in {Do("utils"), Do("stop"), Do("clear"), Do("privacyAll"), Do("launch"), Do("front"),
                   Do("autoOff"), Do("turn"), Do("hide"), Do("key"), Do("adbKey"), Do("mock"),
                   Do("locate"), Do("broadcast"), Do("other")}
  BY <1>1, Distinct DEF Commands, Special
<1>. QED  BY <1>2, <1>3, <1>4, <1>5, <1>6, <1>7, <1>8, <1>9, <1>10

(* A key is pressed when it is the next command, and then no other is left.*)
LEMMA PressedOnce ==
  ASSUME OperationInv, call.todo # <<>>, cmd \in {Do("key"), Do("adbKey")}
  PROVE  dev.pressed = 0
BY AtHand DEF OperationInv, PlanInv

(* A step that goes on keeps the invariant if it keeps the progress. *)
LEMMA AdvanceKeeps ==
  ASSUME OperationInv, Advances, ProgressInv', dev' \in Devices, call' \in Calls,
         call'.answer = "none", call'.count = call.count,
         \/ dev'.pressed = dev.pressed
         \/ cmd \in {Do("key"), Do("adbKey")} /\ dev'.pressed = dev.pressed + 1
  PROVE  OperationInv'
<1>1. PlanInv /\ CommandsTypeOK /\ call.todo # <<>>
  BY DEF OperationInv, Advances
<1>2. /\ cmd \in Left /\ Left' = Left \ {cmd} /\ \A c \in Left' : Rank(cmd) < Rank(c)
      /\ call'.todo \in Seq(Legit(call'.req, Android')) /\ Ordered(call'.todo)
      /\ Android' = Android /\ call.count # 0 /\ call'.req = call.req
  BY <1>1, Onwards DEF Advances
<1>3. /\ dev'.pressed <= 1
      /\ Do("key") \in Left' \/ Do("adbKey") \in Left' => dev'.pressed = 0
  <2>1. CASE dev'.pressed = dev.pressed
    BY <1>1, <1>2, <2>1 DEF PlanInv
  <2>2. CASE cmd \in {Do("key"), Do("adbKey")} /\ dev'.pressed = dev.pressed + 1
    <3>1. dev.pressed = 0 /\ dev'.pressed = 1
      BY <1>1, <2>2, PressedOnce
    <3>2. Do("key") \notin Left' /\ Do("adbKey") \notin Left'
      BY <1>2, <2>2, Ranks
    <3>. QED  BY <3>1, <3>2
  <2>. QED  BY <2>1, <2>2
<1>4. call'.req.op \in {"internet", "airplane"} => Android'
  BY <1>1, <1>2 DEF PlanInv
<1>5. PlanInv'
  BY <1>2, <1>3, <1>4 DEF PlanInv
<1>6. CommandsTypeOK' /\ AnswerInv'
  BY <1>1 DEF CommandsTypeOK, AnswerInv, Advances
<1>. QED  BY <1>5, <1>6 DEF OperationInv

(* A failure answered promises nothing. *)
LEMMA FailureKeeps ==
  ASSUME OperationInv, call.todo # <<>>, Reply("failure"), platform' = platform,
         dev' \in Devices, dev'.pressed <= 1
  PROVE  OperationInv'
<1>1. /\ call' \in Calls /\ call'.todo = <<>> /\ call'.req = call.req
      /\ call'.answer = "failure" /\ call'.count = call.count
  BY CallChanges DEF OperationInv, CommandsTypeOK
<1>2. call.count # 0 /\ Android' = Android
  BY AtHand DEF Android
<1>3. call'.todo \in Seq(Legit(call'.req, Android')) /\ Ordered(call'.todo) /\ Left' = {}
  <2>1. <<>> \in Seq(Legit(call'.req, Android')) /\ Ordered(<<>>) /\ Elements(<<>>) = {}
    BY NoCommands DEF Within
  <2>. QED  BY <1>1, <2>1 DEF Left
<1>4. PlanInv'
  BY <1>1, <1>2, <1>3 DEF OperationInv, PlanInv
<1>5. CommandsTypeOK' /\ ProgressInv' /\ AnswerInv'
  BY <1>1 DEF OperationInv, CommandsTypeOK, ProgressInv, AnswerInv
<1>. QED  BY <1>4, <1>5 DEF OperationInv

-----------------------------------------------------------------------------
(* A command that is served keeps the invariant, *)
LEMMA ServedKeeps == OperationInv /\ Served => OperationInv'
<1>. SUFFICES ASSUME OperationInv, Served PROVE OperationInv'
  OBVIOUS
<1>1. /\ call.todo # <<>> /\ cmd[1] \notin Special /\ ~BadWish /\ ~Refused
      /\ dev' = Applied(cmd, dev) /\ Goes(Tail(call.todo)) /\ platform' = platform
  BY DEF Served
<1>2. Tail(call.todo) \in Seq(Commands) /\ call.answer = "none"
  BY <1>1, AtHand
<1>3. /\ call' \in Calls /\ call'.todo = Tail(call.todo) /\ call'.req = call.req
      /\ call'.errors = call.errors /\ call'.blind = call.blind
      /\ call'.answer = call.answer /\ call'.count = call.count
  BY <1>1, <1>2, CallChanges DEF OperationInv, CommandsTypeOK
<1>4. Serves
  BY <1>1, <1>3 DEF Serves, Advances
<1>5. /\ ProgressInv' /\ dev' \in Devices
      /\ \/ dev'.pressed = dev.pressed
         \/ cmd \in {Do("key"), Do("adbKey")} /\ dev'.pressed = dev.pressed + 1
  BY <1>1, <1>4, ServesProgress
<1>. QED  BY <1>2, <1>3, <1>4, <1>5, AdvanceKeeps DEF Serves

(* A launch goes on on Android, with the device as it was but for the per- *)
(* mission that has failed, or is skipped, and is none the launch needs.   *)
LEMMA AndroidLaunchPasses ==
  ASSUME PlanInv, Android, NEW r \in Launches, call.req = r, AndroidLaunchInv(r), Advances,
         call.errors => call'.errors,
         /\ dev'.app = dev.app /\ dev'.cold = dev.cold /\ dev'.data = dev.data
         /\ \A p \in PermNames : dev'.perms[p] = dev.perms[p] \/ cmd = Permit(p, Wish(r, p)),
         \/ cmd = Do("present") /\ dev.app # "absent" /\ call'.errors = call.errors
         \/ cmd = Do("checkErrors") /\ ~call'.errors
         \/ /\ cmd \in Permits(r, PermNames)
            /\ call'.errors \/ (cmd[2] = "rare" /\ call'.errors = call.errors)
  PROVE  AndroidLaunchInv(r)'
<1>1. /\ Left' = Left \ {cmd} /\ cmd \in Left
      /\ \A c \in Left' : Rank(cmd) < Rank(c)
  BY Onwards
<1>2. /\ LaunchInv(r)
      /\ r.clear => Do("clear") \in Left \/ (Quiet /\ dev.data = "clean")
      /\ Do("clear") \in Left => Permits(r, PermNames) \subseteq Left
      /\ Left \cap Permits(r, PermNames) # {} => Do("checkErrors") \in Left
      /\ call.errors => Do("checkErrors") \in Left
      /\ \A p \in {"plain", "overlay"} :
           Wish(r, p) # "none" =>
             \/ Permit(p, Wish(r, p)) \in Left
             \/ dev.perms[p] = AndroidGrant(p, Wish(r, p))
             \/ call.errors
  BY DEF AndroidLaunchInv
<1>3. cmd \in {Do("present"), Do("checkErrors")} \/ cmd[1] = "permit"
  BY Distinct DEF Permits
<1>4. Do("launch") \in Left' <=> Do("launch") \in Left
  BY <1>1, <1>3, Distinct
<1>5. LaunchInv(r)'
  <2>1. dev'.app # "absent" \/ Do("present") \in Left'
    <3>1. CASE cmd = Do("present")
      BY <3>1, Distinct DEF Permits
    <3>2. CASE cmd # Do("present")
      BY <1>1, <1>2, <3>2 DEF LaunchInv
    <3>. QED  BY <3>1, <3>2
  <2>2. r.stop => Do("stop") \in Left' \/ Quiet'
    BY <1>1, <1>2, <1>3, <1>4, Distinct DEF LaunchInv, Quiet
  <2>. QED  BY <1>1, <1>2, <1>4, <2>1, <2>2 DEF LaunchInv
<1>6. (r.clear => Do("clear") \in Left \/ (Quiet /\ dev.data = "clean"))'
  BY <1>1, <1>2, <1>3, <1>4, Distinct DEF Quiet
<1>7. Do("clear") \in Left' => Permits(r, PermNames) \subseteq Left'
  <2>1. CASE cmd \in Permits(r, PermNames)
    <3>1. Rank(cmd) >= 5
      BY <2>1, Ranks DEF Permits, PermNames
    <3>2. Rank(Do("clear")) = 4 /\ Rank(cmd) \in Nat
      BY Ranks, RankIsNat
    <3>3. Do("clear") \notin Left'
      BY <1>1, <3>1, <3>2
    <3>. QED  BY <3>3
  <2>2. CASE cmd \in {Do("present"), Do("checkErrors")}
    BY <1>1, <1>2, <2>2, Distinct DEF Permits
  <2>. QED  BY <2>1, <2>2
<1>8. Left' \cap Permits(r, PermNames) # {} => Do("checkErrors") \in Left'
  <2>1. CASE cmd = Do("checkErrors")
    <3>1. \A c \in Permits(r, PermNames) : Rank(c) <= 7
      BY Ranks DEF Permits, PermNames
    <3>2. \A c \in Left' : Rank(c) \in Nat /\ Rank(c) > 8
      BY <1>1, <2>1, Ranks, RankIsNat
    <3>3. Left' \cap Permits(r, PermNames) = {}
      BY <3>1, <3>2
    <3>. QED  BY <3>3
  <2>2. CASE cmd # Do("checkErrors")
    BY <1>1, <1>2, <2>2
  <2>. QED  BY <2>1, <2>2
<1>9. call'.errors => Do("checkErrors") \in Left'
  <2>1. CASE cmd = Do("present")
    BY <1>1, <1>2, <2>1, Distinct DEF Permits
  <2>2. CASE cmd = Do("checkErrors")
    <3>1. cmd # Do("present") /\ cmd \notin Permits(r, PermNames)
      BY <2>2, Distinct DEF Permits
    <3>. QED  BY <3>1
  <2>3. CASE cmd \in Permits(r, PermNames)
    BY <1>1, <1>2, <2>3, Distinct DEF Permits
  <2>. QED  BY <2>1, <2>2, <2>3
<1>10. \A p \in {"plain", "overlay"} :
         Wish(r, p) # "none" =>
           \/ Permit(p, Wish(r, p)) \in Left'
           \/ dev'.perms[p] = AndroidGrant(p, Wish(r, p))
           \/ call'.errors
  <2>. TAKE p \in {"plain", "overlay"}
  <2>1. CASE cmd = Permit(p, Wish(r, p))
    BY <2>1, Distinct
  <2>2. CASE cmd # Permit(p, Wish(r, p))
    BY <1>1, <1>2, <2>2 DEF PermNames
  <2>. QED  BY <2>1, <2>2
<1>. QED  BY <1>5, <1>6, <1>7, <1>8, <1>9, <1>10 DEF AndroidLaunchInv

(* and on iOS, with the device as it was. *)
LEMMA IOSLaunchPasses ==
  ASSUME PlanInv, ~Android, NEW r \in Launches, call.req = r, IOSLaunchInv(r), Advances,
         dev' = dev, call.blind => call'.blind,
         \/ cmd = Do("present") /\ dev.app # "absent"
         \/ cmd = Do("refreshIds")
         \/ cmd = Do("utils") /\ call'.blind
  PROVE  IOSLaunchInv(r)'
<1>1. Left' = Left \ {cmd} /\ cmd \in Left
  BY Onwards
<1>2. cmd \in {Do("present"), Do("refreshIds"), Do("utils")}
  OBVIOUS
<1>3. Do("launch") \in Left' <=> Do("launch") \in Left
  BY <1>1, <1>2, Distinct
<1>4. LaunchInv(r)'
  BY <1>1, <1>2, <1>3, Distinct DEF LaunchInv, Quiet, IOSLaunchInv
<1>. QED  BY <1>1, <1>2, <1>4, Distinct DEF IOSLaunchInv

-----------------------------------------------------------------------------
(* A launch that goes on keeps the invariant of its operation. *)
LEMMA LaunchKeeps ==
  ASSUME OperationInv, Advances, call.req.op = "launch", call' \in Calls, call'.count = call.count,
         call'.answer = call.answer, dev' \in Devices, dev'.pressed = dev.pressed,
         \A r \in Launches : call.req = r /\ Android /\ AndroidLaunchInv(r) => AndroidLaunchInv(r)',
         \A r \in Launches : call.req = r /\ ~Android /\ IOSLaunchInv(r) => IOSLaunchInv(r)'
  PROVE  OperationInv'
<1>1. PlanInv /\ ProgressInv /\ call \in Calls
  BY DEF OperationInv, CommandsTypeOK
<1>2. Android' = Android /\ call'.req = call.req /\ call.answer = "none"
  BY <1>1, Onwards DEF Advances
<1>3. PICK r \in Launches : call.req = r
  BY <1>1, CallFields, RequestTyped
<1>4. ProgressInv'
  <2>1. CASE Android
    <3>1. AndroidLaunchInv(r)'
      BY <1>1, <1>2, <1>3, <2>1 DEF ProgressInv
    <3>. QED  BY <1>2, <1>3, <2>1, <3>1 DEF ProgressInv, AndroidLaunchInv, LaunchInv
  <2>2. CASE ~Android
    <3>1. IOSLaunchInv(r)'
      BY <1>1, <1>2, <1>3, <2>2 DEF ProgressInv
    <3>. QED  BY <1>2, <1>3, <2>2, <3>1 DEF ProgressInv, IOSLaunchInv, LaunchInv
  <2>. QED  BY <2>1, <2>2
<1>. QED  BY <1>2, <1>4, AdvanceKeeps

(* A failed permission leaves the launch to go on, and to fail in the end; *)
LEMMA FailsKeeps == OperationInv /\ Fails => OperationInv'
<1>. SUFFICES ASSUME OperationInv, Fails PROVE OperationInv'
  OBVIOUS
<1>1. /\ call.todo # <<>> /\ cmd[1] \notin Special /\ platform' = platform
      /\ dev' = dev \/ (~BadWish /\ ~Refused /\ dev' = Applied(cmd, dev))
      /\ IF Android /\ Is("permit") THEN call' = [call EXCEPT !.todo = Tail(@), !.errors = TRUE]
         ELSE Reply("failure")
  BY DEF Fails
<1>2. /\ dev \in Devices /\ dev.pressed \in Nat /\ dev.pressed <= 1 /\ call \in Calls /\ PlanInv
  BY DeviceFields DEF OperationInv, CommandsTypeOK, PlanInv
<1>3. CASE ~(Android /\ Is("permit"))
  <2>1. dev' \in Devices /\ dev'.pressed <= 1
    <3>1. CASE dev' = dev
      BY <1>2, <3>1
    <3>2. CASE ~BadWish /\ ~Refused /\ dev' = Applied(cmd, dev)
      <4>1. CASE dev'.pressed = dev.pressed
        BY <1>1, <1>2, <3>2, <4>1, AppliedTyped
      <4>2. CASE cmd \in {Do("key"), Do("adbKey")} /\ dev'.pressed = dev.pressed + 1
        <5>1. dev.pressed = 0
          BY <1>1, <4>2, PressedOnce
        <5>. QED  BY <1>1, <3>2, <4>2, <5>1, AppliedTyped
      <4>. QED  BY <1>1, <3>2, <4>1, <4>2, AppliedTyped
    <3>. QED  BY <1>1, <3>1, <3>2
  <2>. QED  BY <1>1, <1>3, <2>1, FailureKeeps
<1>4. CASE Android /\ Is("permit")
  <2>1. /\ call.req.op = "launch" /\ call.req \in Launches /\ cmd[1] = "permit"
    BY <1>1, <1>4, LaunchAtHand DEF Is
  <2>2. PICK p \in PermNames :
          cmd = Permit(p, Wish(call.req, p)) /\ Wish(call.req, p) \in Wishes \ {"none"}
    BY <1>1, <2>1, PermitAtHand
  <2>3. /\ Tail(call.todo) \in Seq(Commands)
    BY <1>1, AtHand
  <2>4. /\ call' \in Calls /\ call'.todo = Tail(call.todo) /\ call'.req = call.req
        /\ call'.errors /\ call'.answer = call.answer /\ call'.count = call.count
    BY <1>1, <1>2, <1>4, <2>3, CallChanges
  <2>5. Advances
    BY <1>1, <2>4 DEF Advances
  <2>6. /\ dev' \in Devices /\ dev'.pressed = dev.pressed
        /\ dev'.app = dev.app /\ dev'.cold = dev.cold /\ dev'.data = dev.data
        /\ \A q \in PermNames \ {p} : dev'.perms[q] = dev.perms[q]
    <3>1. CASE dev' = dev
      BY <1>2, <3>1
    <3>2. CASE dev' = Applied(cmd, dev)
      BY <1>2, <1>4, <2>2, <3>2, PermitDoes
    <3>. QED  BY <1>1, <3>1, <3>2
  <2>7. ASSUME NEW r \in Launches, call.req = r, AndroidLaunchInv(r) PROVE AndroidLaunchInv(r)'
    <3>1. \A q \in PermNames : dev'.perms[q] = dev.perms[q] \/ cmd = Permit(q, Wish(r, q))
      BY <2>2, <2>6, <2>7
    <3>2. cmd \in Permits(r, PermNames)
      BY <2>2, <2>7 DEF Permits
    <3>. QED  BY <1>2, <1>4, <2>4, <2>5, <2>6, <2>7, <3>1, <3>2, AndroidLaunchPasses
  <2>. QED  BY <1>4, <2>1, <2>4, <2>5, <2>6, <2>7, LaunchKeeps
<1>. QED  BY <1>3, <1>4

(* one that the app does not declare is skipped, *)
LEMMA SkippedKeeps == OperationInv /\ PermissionSkipped => OperationInv'
<1>. SUFFICES ASSUME OperationInv, PermissionSkipped PROVE OperationInv'
  OBVIOUS
<1>1. /\ Android /\ call.todo # <<>> /\ cmd[1] = "permit" /\ cmd[2] = "rare"
      /\ Goes(Tail(call.todo)) /\ platform' = platform /\ dev' = dev
  BY DEF PermissionSkipped, Is
<1>2. dev \in Devices /\ call \in Calls /\ PlanInv
  BY DEF OperationInv, CommandsTypeOK
<1>3. call.req.op = "launch" /\ call.req \in Launches /\ Tail(call.todo) \in Seq(Commands)
  BY <1>1, LaunchAtHand, AtHand
<1>4. PICK p \in PermNames :
        cmd = Permit(p, Wish(call.req, p)) /\ Wish(call.req, p) \in Wishes \ {"none"}
  BY <1>1, PermitAtHand
<1>5. /\ call' \in Calls /\ call'.todo = Tail(call.todo) /\ call'.req = call.req
      /\ call'.errors = call.errors /\ call'.answer = call.answer /\ call'.count = call.count
  BY <1>1, <1>2, <1>3, CallChanges
<1>6. Advances
  BY <1>1, <1>5 DEF Advances
<1>7. ASSUME NEW r \in Launches, call.req = r, AndroidLaunchInv(r) PROVE AndroidLaunchInv(r)'
  <2>1. cmd \in Permits(r, PermNames)
    BY <1>4, <1>7 DEF Permits
  <2>. QED  BY <1>1, <1>2, <1>5, <1>6, <1>7, <2>1, AndroidLaunchPasses
<1>. QED  BY <1>1, <1>2, <1>3, <1>5, <1>6, <1>7, LaunchKeeps

(* and so is an applesimutils that is not there. *)
LEMMA UtilsKeeps == OperationInv /\ UtilsSkipped => OperationInv'
<1>. SUFFICES ASSUME OperationInv, UtilsSkipped PROVE OperationInv'
  OBVIOUS
<1>1. /\ call.todo # <<>> /\ cmd[1] = "utils" /\ platform' = platform /\ dev' = dev
      /\ call' = [call EXCEPT !.todo = Tail(@), !.blind = TRUE]
  BY DEF UtilsSkipped, Is
<1>2. dev \in Devices /\ call \in Calls /\ PlanInv
  BY DEF OperationInv, CommandsTypeOK
<1>3. /\ call.req.op = "launch" /\ call.req \in Launches /\ Tail(call.todo) \in Seq(Commands)
      /\ cmd \in Legit(call.req, Android)
  BY <1>1, LaunchAtHand, AtHand
<1>4. /\ call' \in Calls /\ call'.todo = Tail(call.todo) /\ call'.req = call.req /\ call'.blind
      /\ call'.errors = call.errors /\ call'.answer = call.answer /\ call'.count = call.count
  BY <1>1, <1>2, <1>3, CallChanges
<1>5. Advances
  BY <1>1, <1>4 DEF Advances
<1>6. cmd = Do("utils") /\ ~Android
  <2>1. CASE Android
    <3>1. cmd \in {Do("present"), Do("stop"), Do("clear"), Do("checkErrors"), Do("launch")}
                  \cup Permits(call.req, PermNames)
      BY <1>3, <2>1 DEF Legit
    <3>. QED  BY <1>1, <3>1, Distinct DEF Permits
  <2>2. CASE ~Android
    <3>1. cmd \in {Do("present"), Do("refreshIds"), Do("stop"), Do("unsupported"), Do("utils"),
                   Do("launch"), Do("privacyAll")} \cup Permits(call.req, {"plain"})
      BY <1>3, <2>2 DEF Legit
    <3>. QED  BY <1>1, <2>2, <3>1, Distinct DEF Permits
  <2>. QED  BY <2>1, <2>2
<1>7. ASSUME NEW r \in Launches, call.req = r, IOSLaunchInv(r) PROVE IOSLaunchInv(r)'
  BY <1>1, <1>2, <1>4, <1>5, <1>6, <1>7, IOSLaunchPasses
<1>. QED  BY <1>1, <1>2, <1>3, <1>4, <1>5, <1>6, <1>7, LaunchKeeps

(* Checks: of the app, *)
LEMMA PresenceKeeps == OperationInv /\ PresenceChecked => OperationInv'
<1>. SUFFICES ASSUME OperationInv, PresenceChecked PROVE OperationInv'
  OBVIOUS
<1>1. /\ call.todo # <<>> /\ cmd[1] = "present" /\ platform' = platform /\ dev' = dev
      /\ (dev.app # "absent" /\ Goes(Tail(call.todo))) \/ Reply("failure")
  BY DEF PresenceChecked, Is
<1>2. dev \in Devices /\ call \in Calls /\ PlanInv /\ dev.pressed <= 1
  BY DEF OperationInv, CommandsTypeOK, PlanInv
<1>3. CASE Reply("failure")
  BY <1>1, <1>2, <1>3, FailureKeeps
<1>4. CASE dev.app # "absent" /\ Goes(Tail(call.todo))
  <2>1. /\ call.req.op = "launch" /\ call.req \in Launches /\ Tail(call.todo) \in Seq(Commands)
        /\ cmd \in Commands
    BY <1>1, LaunchAtHand, AtHand
  <2>2. /\ call' \in Calls /\ call'.todo = Tail(call.todo) /\ call'.req = call.req
        /\ call'.blind = call.blind /\ call'.errors = call.errors
        /\ call'.answer = call.answer /\ call'.count = call.count
    BY <1>2, <1>4, <2>1, CallChanges
  <2>3. Advances
    BY <1>1, <2>2 DEF Advances
  <2>4. cmd = Do("present")
    BY <1>1, <2>1, Distinct DEF Commands
  <2>5. ASSUME NEW r \in Launches, call.req = r, Android, AndroidLaunchInv(r) PROVE AndroidLaunchInv(r)'
    BY <1>1, <1>2, <1>4, <2>2, <2>3, <2>4, <2>5, AndroidLaunchPasses
  <2>6. ASSUME NEW r \in Launches, call.req = r, ~Android, IOSLaunchInv(r) PROVE IOSLaunchInv(r)'
    BY <1>1, <1>2, <1>4, <2>2, <2>3, <2>4, <2>6, IOSLaunchPasses
  <2>. QED  BY <1>1, <1>2, <2>1, <2>2, <2>3, <2>5, <2>6, LaunchKeeps
<1>. QED  BY <1>1, <1>3, <1>4

(* of the permissions' errors, *)
LEMMA ErrorsKeep == OperationInv /\ ErrorsChecked => OperationInv'
<1>. SUFFICES ASSUME OperationInv, ErrorsChecked PROVE OperationInv'
  OBVIOUS
<1>1. /\ call.todo # <<>> /\ cmd[1] = "checkErrors" /\ platform' = platform /\ dev' = dev
      /\ IF call.errors THEN Reply("failure") ELSE Goes(Tail(call.todo))
  BY DEF ErrorsChecked, Is
<1>2. dev \in Devices /\ call \in Calls /\ PlanInv /\ dev.pressed <= 1
  BY DEF OperationInv, CommandsTypeOK, PlanInv
<1>3. CASE call.errors
  BY <1>1, <1>2, <1>3, FailureKeeps
<1>4. CASE ~call.errors
  <2>1. /\ call.req.op = "launch" /\ call.req \in Launches /\ Tail(call.todo) \in Seq(Commands)
        /\ cmd \in Commands /\ cmd \in Legit(call.req, Android)
    BY <1>1, LaunchAtHand, AtHand
  <2>2. /\ call' \in Calls /\ call'.todo = Tail(call.todo) /\ call'.req = call.req
        /\ call'.blind = call.blind /\ call'.errors = call.errors
        /\ call'.answer = call.answer /\ call'.count = call.count
    BY <1>1, <1>2, <1>4, <2>1, CallChanges
  <2>3. Advances
    BY <1>1, <2>2 DEF Advances
  <2>4. cmd = Do("checkErrors")
    BY <1>1, <2>1, Distinct DEF Commands
  <2>5. Android
    <3>. SUFFICES ASSUME ~Android PROVE FALSE
      OBVIOUS
    <3>1. cmd \in {Do("present"), Do("refreshIds"), Do("stop"), Do("unsupported"), Do("utils"),
                   Do("launch"), Do("privacyAll")} \cup Permits(call.req, {"plain"})
      BY <2>1 DEF Legit
    <3>. QED  BY <1>1, <3>1, Distinct DEF Permits
  <2>6. ASSUME NEW r \in Launches, call.req = r, AndroidLaunchInv(r) PROVE AndroidLaunchInv(r)'
    BY <1>1, <1>2, <1>4, <2>2, <2>3, <2>4, <2>5, <2>6, AndroidLaunchPasses
  <2>. QED  BY <1>1, <1>2, <2>1, <2>2, <2>3, <2>5, <2>6, LaunchKeeps
<1>. QED  BY <1>1, <1>3, <1>4

(* A launch that asks for what iOS cannot do fails; *)
LEMMA UnsupportedKeeps == OperationInv /\ Unsupported => OperationInv'
<1>. SUFFICES ASSUME OperationInv, Unsupported PROVE OperationInv'
  OBVIOUS
<1>1. /\ call.todo # <<>> /\ Reply("failure") /\ platform' = platform /\ dev' = dev
  BY DEF Unsupported, Is
<1>2. dev \in Devices /\ dev.pressed <= 1
  BY DEF OperationInv, CommandsTypeOK, PlanInv
<1>. QED  BY <1>1, <1>2, FailureKeeps

(* the driver's list of apps makes no difference to it. *)
LEMMA IdsKeep == OperationInv /\ IdsRefreshed => OperationInv'
<1>. SUFFICES ASSUME OperationInv, IdsRefreshed PROVE OperationInv'
  OBVIOUS
<1>1. /\ call.todo # <<>> /\ cmd[1] = "refreshIds" /\ platform' = platform /\ dev' = dev
      /\ Goes(Tail(call.todo))
  BY DEF IdsRefreshed, Is
<1>2. dev \in Devices /\ call \in Calls /\ PlanInv
  BY DEF OperationInv, CommandsTypeOK
<1>3. /\ call.req.op = "launch" /\ call.req \in Launches /\ Tail(call.todo) \in Seq(Commands)
      /\ cmd \in Commands /\ cmd \in Legit(call.req, Android)
  BY <1>1, LaunchAtHand, AtHand
<1>4. /\ call' \in Calls /\ call'.todo = Tail(call.todo) /\ call'.req = call.req
      /\ call'.blind = call.blind /\ call'.errors = call.errors
      /\ call'.answer = call.answer /\ call'.count = call.count
  BY <1>1, <1>2, <1>3, CallChanges
<1>5. Advances
  BY <1>1, <1>4 DEF Advances
<1>6. cmd = Do("refreshIds")
  BY <1>1, <1>3, Distinct DEF Commands
<1>7. ~Android
  <2>. SUFFICES ASSUME Android PROVE FALSE
    OBVIOUS
  <2>1. cmd \in {Do("present"), Do("stop"), Do("clear"), Do("checkErrors"), Do("launch")}
                \cup Permits(call.req, PermNames)
    BY <1>3 DEF Legit
  <2>. QED  BY <1>1, <2>1, Distinct DEF Permits
<1>8. ASSUME NEW r \in Launches, call.req = r, IOSLaunchInv(r) PROVE IOSLaunchInv(r)'
  BY <1>1, <1>2, <1>4, <1>5, <1>6, <1>7, <1>8, IOSLaunchPasses
<1>. QED  BY <1>1, <1>2, <1>3, <1>4, <1>5, <1>7, <1>8, LaunchKeeps

(* The command at hand tells the operation. *)
LEMMA ReadAtHand ==
  ASSUME OperationInv, call.todo # <<>>
  PROVE  /\ cmd[1] = "readRotation" => call.req.op = "rotate" /\ cmd = Do("readRotation")
         /\ cmd[1] = "readKeyboard" => call.req.op = "hideKeyboard" /\ cmd = Do("readKeyboard")
         /\ cmd[1] = "readAirplane" =>
              /\ call.req.op = "internet" /\ cmd = Do("readAirplane")
              /\ call.req.on \in BOOLEAN /\ call.req.old \in BOOLEAN
         /\ cmd[1] = "capture" => call.req.op = "capture"
<1>1. cmd \in Legit(call.req, Android) /\ cmd \in Commands
  BY AtHand
<1>2. CASE cmd[1] \notin {"readRotation", "readKeyboard", "readAirplane", "capture"}
  BY <1>2
<1>3. CASE cmd \in {Do("readRotation"), Do("readKeyboard"), Do("readAirplane"), Do("capture")}
  <2>1. call.req.op # "launch"
    <3>. SUFFICES ASSUME call.req.op = "launch" PROVE FALSE
      OBVIOUS
    <3>1. cmd \in {Do("present"), Do("refreshIds"), Do("stop"), Do("unsupported"), Do("utils"),
                   Do("launch"), Do("privacyAll"), Do("clear"), Do("checkErrors")}
                  \cup Permits(call.req, {"plain"}) \cup Permits(call.req, PermNames)
      BY <1>1 DEF Legit
    <3>. QED  BY <1>3, <3>1, Distinct DEF Permits
  <2>2. ASSUME cmd = Do("readRotation"), call.req.op # "rotate" PROVE FALSE
    <3>1. cmd \in {Do("stop"), Do("readKeyboard"), Do("hide"), Do("adbKey"), Do("key"), Do("mock"),
                   Do("locate"), Do("front"), Do("broadcast"), Do("readAirplane"), Do("capture"),
                   Do("other")}
          \/ \E on : cmd \in {Switch("airplane", on), Switch("wifi", on), Switch("mobile", on)}
      BY <1>1, <2>1, <2>2 DEF Legit
    <3>. QED  BY <2>2, <3>1, Distinct
  <2>3. ASSUME cmd = Do("readKeyboard"), call.req.op # "hideKeyboard" PROVE FALSE
    <3>1. cmd \in {Do("stop"), Do("readRotation"), Do("autoOff"), Do("turn"), Do("adbKey"), Do("key"),
                   Do("mock"), Do("locate"), Do("front"), Do("broadcast"), Do("readAirplane"),
                   Do("capture"), Do("other")}
          \/ \E on : cmd \in {Switch("airplane", on), Switch("wifi", on), Switch("mobile", on)}
      BY <1>1, <2>1, <2>3 DEF Legit
    <3>. QED  BY <2>3, <3>1, Distinct
  <2>4. ASSUME cmd = Do("readAirplane"), call.req.op # "internet" PROVE FALSE
    <3>1. cmd \in {Do("stop"), Do("readRotation"), Do("autoOff"), Do("turn"), Do("readKeyboard"),
                   Do("hide"), Do("adbKey"), Do("key"), Do("mock"), Do("locate"), Do("front"),
                   Do("broadcast"), Do("capture"), Do("other")}
          \/ \E on : cmd \in {Switch("airplane", on), Switch("wifi", on), Switch("mobile", on)}
      BY <1>1, <2>1, <2>4 DEF Legit
    <3>. QED  BY <2>4, <3>1, Distinct
  <2>5. ASSUME cmd = Do("capture"), call.req.op # "capture" PROVE FALSE
    <3>1. cmd \in {Do("stop"), Do("readRotation"), Do("autoOff"), Do("turn"), Do("readKeyboard"),
                   Do("hide"), Do("adbKey"), Do("key"), Do("mock"), Do("locate"), Do("front"),
                   Do("broadcast"), Do("readAirplane"), Do("other")}
          \/ \E on : cmd \in {Switch("airplane", on), Switch("wifi", on), Switch("mobile", on)}
      BY <1>1, <2>1, <2>5 DEF Legit
    <3>. QED  BY <2>5, <3>1, Distinct
  <2>6. call.req.op = "internet" => call.req.on \in BOOLEAN /\ call.req.old \in BOOLEAN
    BY CallFields, RequestTyped DEF OperationInv, CommandsTypeOK
  <2>. QED  BY <1>3, <2>2, <2>3, <2>4, <2>5, <2>6, Distinct
<1>. QED  BY <1>1, <1>2, <1>3, Distinct DEF Commands

(* Reading the rotation changes nothing; *)
LEMMA RotationKeeps == OperationInv /\ RotationRead => OperationInv'
<1>. SUFFICES ASSUME OperationInv, RotationRead PROVE OperationInv'
  OBVIOUS
<1>1. /\ call.todo # <<>> /\ cmd[1] = "readRotation" /\ platform' = platform /\ dev' = dev
      /\ Goes(Tail(call.todo)) \/ Reply("failure")
  BY DEF RotationRead, Is
<1>2. dev \in Devices /\ call \in Calls /\ PlanInv /\ dev.pressed <= 1 /\ ProgressInv
  BY DEF OperationInv, CommandsTypeOK, PlanInv
<1>3. CASE Reply("failure")
  BY <1>1, <1>2, <1>3, FailureKeeps
<1>4. CASE Goes(Tail(call.todo))
  <2>1. /\ call.req.op = "rotate" /\ cmd = Do("readRotation") /\ Tail(call.todo) \in Seq(Commands)
        /\ call.answer = "none"
    BY <1>1, ReadAtHand, AtHand
  <2>2. /\ call' \in Calls /\ call'.todo = Tail(call.todo) /\ call'.req = call.req
        /\ call'.answer = call.answer /\ call'.count = call.count
    BY <1>2, <1>4, <2>1, CallChanges
  <2>3. Advances
    BY <1>1, <2>2 DEF Advances
  <2>4. Left' = Left \ {cmd} /\ Android' = Android
    BY <1>2, <2>3, Onwards
  <2>5. Do("autoOff") # cmd /\ Do("turn") # cmd
    BY <2>1, Distinct
  <2>6. ProgressInv'
    BY <1>1, <1>2, <2>1, <2>2, <2>4, <2>5 DEF ProgressInv
  <2>. QED  BY <1>1, <1>2, <2>1, <2>2, <2>3, <2>6, AdvanceKeeps
<1>. QED  BY <1>1, <1>3, <1>4

(* A step that plans anew keeps the invariant if the new plan is one. *)
LEMMA ReplanKeeps ==
  ASSUME OperationInv, call.todo # <<>>, call' \in Calls, call'.req = call.req,
         call'.answer = "none", call'.count = call.count,
         platform' = platform, dev' = dev,
         call'.todo \in Seq(Legit(call.req, Android)), Ordered(call'.todo),
         Do("key") \notin Left', Do("adbKey") \notin Left', ProgressInv'
  PROVE  OperationInv'
<1>1. call.count # 0 /\ Android' = Android
  BY AtHand DEF Android
<1>2. PlanInv'
  BY <1>1 DEF OperationInv, PlanInv
<1>3. CommandsTypeOK' /\ AnswerInv'
  BY DEF OperationInv, CommandsTypeOK, AnswerInv
<1>. QED  BY <1>2, <1>3 DEF OperationInv

(* the keyboard is hidden when it is seen, *)
LEMMA KeyboardKeeps == OperationInv /\ KeyboardRead => OperationInv'
<1>. SUFFICES ASSUME OperationInv, KeyboardRead PROVE OperationInv'
  OBVIOUS
<1>1. /\ call.todo # <<>> /\ cmd[1] = "readKeyboard" /\ platform' = platform /\ dev' = dev
      /\ \/ Goes(If(dev.keyboard, <<Do("hide")>>))
         \/ call' = [call EXCEPT !.todo = <<>>, !.blind = TRUE]
  BY DEF KeyboardRead, Is
<1>2. dev \in Devices /\ call \in Calls /\ PlanInv /\ dev.keyboard \in BOOLEAN
  BY DeviceFields DEF OperationInv, CommandsTypeOK
<1>3. call.req.op = "hideKeyboard" /\ call.answer = "none"
  BY <1>1, ReadAtHand, AtHand
<1>4. Legit(call.req, Android) = {Do("readKeyboard"), Do("hide")}
  BY <1>3 DEF Legit
<1>5. Do("hide") \in Commands
  BY DEF Commands
<1>6. CASE Goes(If(dev.keyboard, <<Do("hide")>>))
  <2>. DEFINE plan == If(dev.keyboard, <<Do("hide")>>)
  <2>1. Within(plan, Commands, 2, 2)
    <3>1. CASE dev.keyboard
      BY <1>5, <3>1, One, Ranks DEF If
    <3>2. CASE ~dev.keyboard
      BY <3>2, NoCommands DEF If
    <3>. QED  BY <3>1, <3>2
  <2>2. /\ Within(plan, Legit(call.req, Android), 2, 2)
        /\ Elements(plan) = IF dev.keyboard THEN {Do("hide")} ELSE {}
    BY <1>2, <1>4, Maybe, Ranks
  <2>. HIDE DEF plan
  <2>3. /\ plan \in Seq(Commands) /\ plan \in Seq(Legit(call.req, Android)) /\ Ordered(plan)
    BY <2>1, <2>2 DEF Within
  <2>4. Goes(plan)
    BY <1>6 DEF plan
  <2>5. /\ call' \in Calls /\ call'.todo = plan /\ call'.req = call.req
        /\ call'.answer = call.answer /\ call'.count = call.count
    BY <1>2, <2>3, <2>4, CallChanges
  <2>6. Left' = IF dev.keyboard THEN {Do("hide")} ELSE {}
    BY <2>2, <2>5 DEF Left
  <2>7. Do("key") \notin Left' /\ Do("adbKey") \notin Left'
    BY <2>6, Distinct
  <2>8. ProgressInv'
    BY <1>1, <1>2, <1>3, <2>5, <2>6 DEF ProgressInv
  <2>. QED  BY <1>1, <1>3, <2>3, <2>5, <2>7, <2>8, ReplanKeeps
<1>7. CASE call' = [call EXCEPT !.todo = <<>>, !.blind = TRUE]
  <2>1. /\ <<>> \in Seq(Commands) /\ <<>> \in Seq(Legit(call.req, Android)) /\ Ordered(<<>>)
        /\ Elements(<<>>) = {}
    BY NoCommands DEF Within
  <2>2. /\ call' \in Calls /\ call'.todo = <<>> /\ call'.req = call.req /\ call'.blind
        /\ call'.answer = call.answer /\ call'.count = call.count
    BY <1>2, <1>7, <2>1, CallChanges
  <2>3. Left' = {}
    BY <2>1, <2>2 DEF Left
  <2>4. ProgressInv'
    BY <1>3, <2>2 DEF ProgressInv
  <2>. QED  BY <1>1, <1>3, <2>1, <2>2, <2>3, <2>4, ReplanKeeps
<1>. QED  BY <1>1, <1>6, <1>7

(* The commands of an operation on the network *)
NetCommands(on) ==
  {Do("readAirplane"), Switch("airplane", FALSE), Do("broadcast"), Switch("wifi", on),
   Switch("mobile", on)}

(* The commands that leave the airplane mode, before those that switch *)
Leaving(s, S) == Within(s, S, 2, 3)
Switching(s, S) == Within(s, S, 4, 5)
(* and the plan that both make *)
LEMMA AirplaneOffFirst ==
  ASSUME NEW S, NEW off, NEW rest, Leaving(off, S), Switching(rest, S)
  PROVE  /\ off \o rest \in Seq(S) /\ Ordered(off \o rest)
         /\ Elements(off \o rest) = Elements(off) \cup Elements(rest)
<1>1. Within(off \o rest, S, 2, 5) /\ Elements(off \o rest) = Elements(off) \cup Elements(rest)
  BY Joined DEF Leaving, Switching
<1>. QED  BY <1>1 DEF Within

(* and the airplane mode is left, before anything is switched on, when it is on. *)
LEMMA AirplaneKeeps == OperationInv /\ AirplaneRead => OperationInv'
<1>. SUFFICES ASSUME OperationInv, AirplaneRead PROVE OperationInv'
  OBVIOUS
<1>1. /\ call.todo # <<>> /\ cmd[1] = "readAirplane" /\ platform' = platform /\ dev' = dev
      /\ \/ Goes(If(dev.airplane, Airplane(FALSE, call.req.old)) \o Tail(call.todo))
         \/ call' = [call EXCEPT !.todo = Tail(@), !.blind = TRUE]
  BY DEF AirplaneRead, Is
<1>2. /\ dev \in Devices /\ call \in Calls /\ PlanInv /\ dev.airplane \in BOOLEAN
      /\ ProgressInv
  BY DeviceFields DEF OperationInv, CommandsTypeOK
<1>3. /\ call.req.op = "internet" /\ call.answer = "none" /\ cmd = Do("readAirplane")
      /\ call.req.old \in BOOLEAN /\ Tail(call.todo) \in Seq(Commands) /\ cmd \in Left
  BY <1>1, ReadAtHand, AtHand
<1>4. PICK on \in BOOLEAN : call.req.on = on
  BY <1>1, ReadAtHand
<1>5. PICK old \in BOOLEAN : call.req.old = old
  BY <1>3
<1>. DEFINE S == NetCommands(on)
            rest == Tail(call.todo)
            net == {Switch("wifi", on), Switch("mobile", on)}
<1>6. Legit(call.req, Android) = S
  BY <1>3, <1>4 DEF Legit, NetCommands
<1>7. /\ rest \in Seq(S) /\ Ordered(rest) /\ Elements(rest) = Left \ {cmd}
      /\ Left \subseteq S
  <2>1. call.todo \in Seq(S) /\ Ordered(call.todo)
    BY <1>2, <1>6 DEF PlanInv
  <2>. HIDE DEF S
  <2>2. Left \subseteq S
    BY <2>1 DEF Left, Elements
  <2>. QED  BY <1>1, <2>1, <2>2, Rest DEF Left, cmd
<1>8. /\ Switch("airplane", FALSE) \notin Left /\ Do("broadcast") \notin Left
      /\ Switch("wifi", on) \in Left \/ dev.wifi = on
      /\ Switch("mobile", on) \in Left \/ dev.mobile = on
  BY <1>2, <1>3, <1>4 DEF ProgressInv
<1>9. Elements(rest) \subseteq net
  BY <1>3, <1>7, <1>8 DEF NetCommands
<1>10. /\ Switch("wifi", on) \in Elements(rest) \/ dev.wifi = on
       /\ Switch("mobile", on) \in Elements(rest) \/ dev.mobile = on
  BY <1>3, <1>7, <1>8, NetDistinct
<1>11. S \subseteq Commands
  <2>1. \A name \in {"airplane", "wifi", "mobile"} : \A b \in BOOLEAN : Switch(name, b) \in Commands
    BY DEF Commands
  <2>2. Do("readAirplane") \in Commands /\ Do("broadcast") \in Commands
    BY DEF Commands
  <2>. QED  BY <2>1, <2>2 DEF NetCommands
<1>12. CASE call' = [call EXCEPT !.todo = Tail(@), !.blind = TRUE]
  <2>1. /\ call' \in Calls /\ call'.todo = rest /\ call'.req = call.req /\ call'.blind
        /\ call'.answer = call.answer /\ call'.count = call.count
    BY <1>2, <1>3, <1>12, CallChanges
  <2>2. Left' = Elements(rest)
    BY <2>1 DEF Left
  <2>. HIDE DEF S, rest
  <2>3. Do("key") \notin Left' /\ Do("adbKey") \notin Left' /\ Do("readAirplane") \notin Left'
    BY <1>9, <2>2, Distinct
  <2>4. ProgressInv'
    BY <1>1, <1>3, <1>4, <1>10, <2>1, <2>2, <2>3 DEF ProgressInv
  <2>. QED  BY <1>1, <1>3, <1>6, <1>7, <2>1, <2>3, <2>4, ReplanKeeps
<1>13. CASE Goes(If(dev.airplane, Airplane(FALSE, call.req.old)) \o Tail(call.todo))
  <2>1. PICK air \in BOOLEAN : dev.airplane = air
    BY <1>2
  <2>. DEFINE off == If(air, Airplane(FALSE, old))
              plan == off \o rest
              offs == IF air
                      THEN {Switch("airplane", FALSE)} \cup (IF old THEN {Do("broadcast")} ELSE {})
                      ELSE {}
  <2>2. plan \in Seq(S) /\ Ordered(plan) /\ Elements(plan) = offs \cup Elements(rest)
    <3>1. {Switch("airplane", FALSE), Do("broadcast")} \subseteq S
      BY DEF NetCommands
    <3>2. Within(rest, S, 4, 5)
      <4>1. \A c \in net : 4 <= Rank(c) /\ Rank(c) <= 5
        BY Ranks
      <4>2. \A i \in 1..Len(rest) : rest[i] \in net
        BY <1>9 DEF Elements
      <4>. QED  BY <1>7, <4>1, <4>2 DEF Within
    <3>3. Within(off, S, 2, 3) /\ Elements(off) = offs
      <4>1. CASE air
        BY <3>1, <4>1, AirplanePlanned DEF If
      <4>2. CASE ~air
        BY <4>2, NoCommands DEF If
      <4>. QED  BY <4>1, <4>2
    <3>. HIDE DEF rest, S, off, offs
    <3>4. /\ off \o rest \in Seq(S) /\ Ordered(off \o rest)
          /\ Elements(off \o rest) = Elements(off) \cup Elements(rest)
      <4>1. Leaving(off, S) /\ Switching(rest, S)
        BY <3>2, <3>3 DEF Leaving, Switching
      <4>. QED  BY <4>1, AirplaneOffFirst
    <3>. QED  BY <3>3, <3>4
  <2>3. Goes(plan)
    BY <1>5, <1>13, <2>1
  <2>. HIDE DEF S, rest, plan
  <2>5. plan \in Seq(Commands)
    BY <1>11, <2>2
  <2>6. /\ call' \in Calls /\ call'.todo = plan /\ call'.req = call.req
        /\ call'.blind = call.blind /\ call'.answer = call.answer /\ call'.count = call.count
    BY <1>2, <2>3, <2>5, CallChanges
  <2>7. Left' = offs \cup Elements(rest)
    BY <2>2, <2>6 DEF Left
  <2>8. Do("key") \notin Left' /\ Do("adbKey") \notin Left' /\ Do("readAirplane") \notin Left'
    <3>1. Left' \subseteq {Switch("airplane", FALSE), Do("broadcast"), Switch("wifi", on),
                             Switch("mobile", on)}
      BY <1>9, <2>7
    <3>2. \A name : /\ Do(name) # Switch("airplane", FALSE) /\ Do(name) # Switch("wifi", on)
                    /\ Do(name) # Switch("mobile", on)
      BY DEF Do, Switch
    <3>. QED  BY <3>1, <3>2, Distinct
  <2>9. dev.airplane => Switch("airplane", FALSE) \in Left'
    BY <2>1, <2>7
  <2>10. ProgressInv'
    BY <1>1, <1>2, <1>3, <1>4, <1>10, <2>6, <2>7, <2>8, <2>9 DEF ProgressInv
  <2>. QED  BY <1>1, <1>3, <1>6, <2>2, <2>6, <2>8, <2>10, ReplanKeeps
<1>. QED  BY <1>1, <1>12, <1>13

-----------------------------------------------------------------------------
(* What is done and has nothing left is what the operation promises. *)
LEMMA DoneIsKept ==
  ASSUME OperationInv, call.todo = <<>>, call.answer = "none", call.count # 0
  PROVE  Kept(call.req)
<1>1. Left = {}
  <2>1. Elements(<<>>) = {}
    BY NoCommands
  <2>. QED  BY <2>1 DEF Left
<1>2. /\ dev \in Devices /\ call \in Calls /\ PlanInv /\ ProgressInv
      /\ call.req \in Requests \cup {NoRequest}
  BY CallFields DEF OperationInv, CommandsTypeOK
<1>3. CASE call.req.op = "launch"
  <2>1. PICK r \in Launches : call.req = r
    BY <1>2, <1>3, RequestTyped
  <2>2. r.op = "launch" /\ r.stop \in BOOLEAN /\ r.clear \in BOOLEAN
    BY WishTyped DEF PermNames
  <2>3. CASE Android
    <3>1. /\ dev.app = "front" /\ ~call.errors
          /\ r.stop => dev.cold
          /\ r.clear => dev.cold /\ dev.data = "clean"
          /\ \A p \in {"plain", "overlay"} :
               Wish(r, p) # "none" => dev.perms[p] = AndroidGrant(p, Wish(r, p))
      BY <1>1, <1>2, <1>3, <2>1, <2>3 DEF ProgressInv, AndroidLaunchInv, LaunchInv, Quiet
    <3>2. PermissionsAsAsked(r)
      BY <2>3, <3>1 DEF PermissionsAsAsked, PermNames
    <3>. QED  BY <2>1, <2>2, <3>1, <3>2 DEF Kept
  <2>4. CASE ~Android
    <3>1. /\ dev.app = "front" /\ ~r.clear
          /\ r.stop => dev.cold
          /\ Wish(r, "plain") = "none" \/ dev.perms["plain"] = Wish(r, "plain")
          /\ \A p \in UtilPerms(r) : dev.perms[p] = Wish(r, p) \/ call.blind
      BY <1>1, <1>2, <1>3, <2>1, <2>4 DEF ProgressInv, IOSLaunchInv, LaunchInv, Quiet
    <3>2. PermissionsAsAsked(r)
      BY <2>4, <3>1 DEF PermissionsAsAsked, PermNames, UtilPerms
    <3>. QED  BY <2>1, <2>2, <3>1, <3>2 DEF Kept
  <2>. QED  BY <2>3, <2>4
<1>4. CASE call.req.op \in {"kill", "rotate", "hideKeyboard", "location", "front"}
  <2>1. dev.keyboard \in BOOLEAN /\ call.blind \in BOOLEAN
    BY <1>2, DeviceFields, CallFields
  <2>. QED  BY <1>1, <1>2, <1>4, <2>1 DEF ProgressInv, Kept
<1>5. CASE call.req.op \in {"airplane", "internet"}
  <2>1. PICK on \in BOOLEAN : call.req.on = on
    BY <1>2, <1>5, RequestTyped
  <2>. QED  BY <1>1, <1>2, <1>5, <2>1 DEF ProgressInv, Kept
<1>6. CASE call.req.op \notin {"launch", "kill", "rotate", "hideKeyboard", "location", "front",
                               "airplane", "internet"}
  BY <1>6 DEF Kept
<1>. QED  BY <1>3, <1>4, <1>5, <1>6

(* An answer ends an operation that has nothing left to do. *)
LEMMA ReplyKeeps ==
  ASSUME OperationInv, call.count # 0, NEW answer \in {"success", "failure"}, Reply(answer),
         platform' = platform, dev' = dev, answer = "success" => Kept(call.req)
  PROVE  OperationInv'
<1>1. /\ call' \in Calls /\ call'.todo = <<>> /\ call'.req = call.req /\ call'.blind = call.blind
      /\ call'.answer = answer /\ call'.count = call.count
  BY CallChanges DEF OperationInv, CommandsTypeOK
<1>2. Android' = Android
  BY DEF Android
<1>3. call'.todo \in Seq(Legit(call'.req, Android')) /\ Ordered(call'.todo) /\ Left' = {}
  <2>1. <<>> \in Seq(Legit(call'.req, Android')) /\ Ordered(<<>>) /\ Elements(<<>>) = {}
    BY NoCommands DEF Within
  <2>. QED  BY <1>1, <2>1 DEF Left
<1>4. PlanInv'
  BY <1>1, <1>2, <1>3 DEF OperationInv, PlanInv
<1>5. CommandsTypeOK' /\ ProgressInv'
  BY <1>1 DEF OperationInv, CommandsTypeOK, ProgressInv
<1>6. AnswerInv'
  BY <1>1, <1>2 DEF AnswerInv, Kept, PermissionsAsAsked
<1>. QED  BY <1>4, <1>5, <1>6 DEF OperationInv

(* An operation with nothing left to do is a success. *)
LEMMA AnsweredKeeps == OperationInv /\ Answered => OperationInv'
<1>. SUFFICES ASSUME OperationInv, Answered PROVE OperationInv'
  OBVIOUS
<1>1. /\ call.todo = <<>> /\ call.answer = "none" /\ call.count # 0 /\ Reply("success")
      /\ platform' = platform /\ dev' = dev
  BY DEF Answered
<1>. QED  BY <1>1, DoneIsKept, ReplyKeeps

(* A step of something else leaves operation and device as they are. *)
LEMMA NothingHappens == OperationInv /\ UNCHANGED <<platform, dev, call>> => OperationInv'
<1>. SUFFICES ASSUME OperationInv, platform' = platform, dev' = dev, call' = call
              PROVE  OperationInv'
  OBVIOUS
<1>1. Android' = Android /\ Left' = Left
  BY DEF Android, Left
<1>2. PlanInv' /\ CommandsTypeOK'
  BY <1>1 DEF OperationInv, PlanInv, CommandsTypeOK
<1>3. ASSUME NEW r PROVE /\ AndroidLaunchInv(r)' <=> AndroidLaunchInv(r)
                         /\ IOSLaunchInv(r)' <=> IOSLaunchInv(r)
                         /\ Kept(r)' <=> Kept(r)
  <2>1. LaunchInv(r)' <=> LaunchInv(r)
    BY <1>1 DEF LaunchInv, Quiet
  <2>2. AndroidLaunchInv(r)' <=> AndroidLaunchInv(r)
    BY <1>1, <2>1 DEF AndroidLaunchInv, Quiet
  <2>3. IOSLaunchInv(r)' <=> IOSLaunchInv(r)
    BY <1>1, <2>1 DEF IOSLaunchInv
  <2>4. Kept(r)' <=> Kept(r)
    BY <1>1 DEF Kept, PermissionsAsAsked
  <2>. QED  BY <2>2, <2>3, <2>4
<1>4. ProgressInv'
  <2>1. PICK r : r = call.req
    OBVIOUS
  <2>2. CASE r.op = "launch" /\ call.answer = "none"
    <3>1. IF Android THEN AndroidLaunchInv(r) ELSE IOSLaunchInv(r)
      BY <2>1, <2>2 DEF OperationInv, ProgressInv
    <3>2. IF Android THEN AndroidLaunchInv(r)' ELSE IOSLaunchInv(r)'
      BY <1>3, <3>1
    <3>. QED  BY <1>1, <2>1, <2>2, <3>2 DEF ProgressInv, AndroidLaunchInv, IOSLaunchInv, LaunchInv
  <2>3. CASE r.op # "launch" \/ call.answer # "none"
    BY <1>1, <2>1, <2>3 DEF OperationInv, ProgressInv
  <2>. QED  BY <2>2, <2>3
<1>5. AnswerInv'
  <2>1. PICK r : r = call.req
    OBVIOUS
  <2>2. Kept(r)' <=> Kept(r)
    BY <1>3
  <2>. QED  BY <2>1, <2>2 DEF OperationInv, AnswerInv, Kept, PermissionsAsAsked
<1>. QED  BY <1>2, <1>4, <1>5 DEF OperationInv

(* A capture promises nothing of the device. *)
LEMMA CaptureLeaves == OperationInv /\ CaptureStep => OperationInv'
<1>. SUFFICES ASSUME OperationInv, CaptureStep PROVE OperationInv'
  OBVIOUS
<1>1. CASE CaptureEnds
  <2>1. /\ call.todo # <<>> /\ cmd[1] = "capture" /\ platform' = platform /\ dev' = dev
        /\ \E answer \in {"success", "failure"} : Reply(answer)
    BY <1>1 DEF CaptureEnds, Is
  <2>2. call.req.op = "capture" /\ call.count # 0
    BY <2>1, ReadAtHand, AtHand
  <2>3. Kept(call.req)
    BY <2>2 DEF Kept
  <2>. QED  BY <2>1, <2>2, <2>3, ReplyKeeps
<1>2. CASE UNCHANGED <<platform, dev, call>>
  BY <1>2, NothingHappens
<1>3. CaptureEnds \/ UNCHANGED <<platform, dev, call>>
  BY DEF CaptureStep, ScreenChanges, CaptureBegins, PollChanged, PollStable, StabilityTimesOut,
     Attempt
<1>. QED  BY <1>1, <1>2, <1>3

(* Every plan is made of commands. *)
LEMMA LegitCommands == \A r \in Requests : Legit(r, Android) \subseteq Commands
<1>. TAKE r \in Requests
<1>1. CASE r.op = "launch"
  <2>1. r \in Launches
    BY <1>1, RequestTyped
  <2>2. Permits(r, PermNames) \subseteq Commands /\ Permits(r, {"plain"}) \subseteq Commands
    BY <2>1, WishTyped DEF Permits, Commands, PermNames
  <2>3. \A name \in {"present", "refreshIds", "stop", "clear", "unsupported", "privacyAll", "utils",
                     "checkErrors", "launch"} : Do(name) \in Commands
    BY DEF Commands
  <2>. QED  BY <1>1, <2>2, <2>3 DEF Legit
<1>2. CASE r.op \in {"airplane", "internet"}
  <2>1. r.on \in BOOLEAN
    BY <1>2, RequestTyped
  <2>2. \A name \in {"airplane", "wifi", "mobile"} : \A b \in BOOLEAN : Switch(name, b) \in Commands
    BY DEF Commands
  <2>3. Do("readAirplane") \in Commands /\ Do("broadcast") \in Commands
    BY DEF Commands
  <2>. QED  BY <1>2, <2>1, <2>2, <2>3 DEF Legit
<1>3. CASE r.op \notin {"launch", "airplane", "internet"}
  <2>1. \A name \in {"stop", "readRotation", "autoOff", "turn", "other", "readKeyboard", "hide",
                     "adbKey", "key", "mock", "locate", "front", "capture"} : Do(name) \in Commands
    BY DEF Commands
  <2>. QED  BY <1>3, <2>1 DEF Legit
<1>. QED  BY <1>1, <1>2, <1>3

(* A new operation has everything left to do. *)
LEMMA CalledKeeps == OperationInv /\ Called => OperationInv'
<1>. SUFFICES ASSUME OperationInv, Called PROVE OperationInv'
  OBVIOUS
<1>1. PICK r \in Requests :
        /\ r.op \in {"internet", "airplane"} => Android
        /\ call' = [req |-> r, todo |-> IF Android THEN AndroidPlan(r) ELSE IOSPlan(r),
                    errors |-> FALSE, blind |-> FALSE, answer |-> "none",
                    count |-> call.count + 1]
  BY DEF Called
<1>2. /\ dev' = [dev EXCEPT !.pressed = 0] /\ platform' = platform /\ call.count < MaxCalls
  BY DEF Called
<1>3. PICK set : /\ Planned(IF Android THEN AndroidPlan(r) ELSE IOSPlan(r), Legit(r, Android), set)
                 /\ Starts(r, set)
  BY <1>1, PlanOf
<1>4. /\ call'.req = r /\ call'.todo = IF Android THEN AndroidPlan(r) ELSE IOSPlan(r)
      /\ call'.errors = FALSE /\ call'.blind = FALSE /\ call'.answer = "none"
      /\ call'.count = call.count + 1
  BY <1>1
<1>5. /\ call'.todo \in Seq(Legit(r, Android)) /\ Ordered(call'.todo) /\ Left' = set
  BY <1>3, <1>4 DEF Planned, Left
<1>6. call.count \in 0..MaxCalls /\ MaxCalls \in Nat
  BY CallFields, CommandAssumption DEF OperationInv, CommandsTypeOK, CommandAssumption
<1>7. /\ dev' \in Devices /\ dev'.pressed = 0
  BY <1>2 DEF OperationInv, CommandsTypeOK, Devices
<1>8. Android' = Android
  BY <1>2 DEF Android
<1>9. call'.todo \in Seq(Commands)
  BY <1>5, LegitCommands
<1>10. call' \in Calls
  <2>1. call.count + 1 \in 0..MaxCalls
    BY <1>2, <1>6
  <2>. QED  BY <1>1, <1>4, <1>9, <2>1 DEF Calls
<1>11. PlanInv'
  BY <1>1, <1>4, <1>5, <1>6, <1>7, <1>8 DEF PlanInv
<1>12. CommandsTypeOK' /\ AnswerInv'
  BY <1>2, <1>4, <1>7, <1>10 DEF OperationInv, CommandsTypeOK, AnswerInv
<1>13. CASE r.op = "launch" /\ Android
  <2>1. AndroidLaunchInv(r)'
    BY <1>3, <1>4, <1>5, <1>13 DEF Starts, AndroidLaunchInv, LaunchInv, Permits, PermNames
  <2>. QED  BY <1>4, <1>8, <1>11, <1>12, <1>13, <2>1
       DEF OperationInv, ProgressInv, AndroidLaunchInv, LaunchInv
<1>14. CASE r.op = "launch" /\ ~Android
  <2>0. r \in Launches /\ r.all \in BOOLEAN /\ (r.all => Wish(r, "plain") = "allow")
    <3>1. r \in Launches
      BY <1>14, RequestTyped
    <3>2. r.all \in BOOLEAN
      BY <3>1 DEF Launches
    <3>. QED  BY <3>1, <3>2 DEF Wish
  <2>1. IOSLaunchInv(r)'
    BY <1>3, <1>4, <1>5, <1>14, <2>0 DEF Starts, IOSLaunchInv, LaunchInv, Permits, PermNames
  <2>. QED  BY <1>4, <1>8, <1>11, <1>12, <1>14, <2>1
       DEF OperationInv, ProgressInv, IOSLaunchInv, LaunchInv
<1>15. CASE r.op \in {"airplane", "internet"}
  <2>1. PICK on \in BOOLEAN : r.on = on
    BY <1>15, RequestTyped
  <2>2. ProgressInv'
    BY <1>3, <1>4, <1>5, <1>8, <1>15, <2>1 DEF Starts, ProgressInv
  <2>. QED  BY <1>11, <1>12, <2>2 DEF OperationInv
<1>16. CASE r.op \notin {"launch", "airplane", "internet"}
  <2>1. ProgressInv'
    BY <1>3, <1>4, <1>5, <1>8, <1>16 DEF Starts, ProgressInv
  <2>. QED  BY <1>11, <1>12, <2>1 DEF OperationInv
<1>. QED  BY <1>13, <1>14, <1>15, <1>16

(* No operation has begun at first. *)
LEMMA NothingCalled == CommandsInit => OperationInv
<1>. SUFFICES ASSUME CommandsInit PROVE OperationInv
  OBVIOUS
<1>1. /\ platform \in {"android", "ios"} /\ dev \in Devices /\ dev.pressed = 0
      /\ call = [req |-> NoRequest, todo |-> <<>>, errors |-> FALSE, blind |-> FALSE,
                 answer |-> "none", count |-> 0]
  BY DEF CommandsInit, Devices
<1>2. /\ call.req = NoRequest /\ call.todo = <<>> /\ call.answer = "none" /\ call.count = 0
      /\ call.req.op = "none"
  BY <1>1 DEF NoRequest
<1>3. /\ <<>> \in Seq(Legit(call.req, Android)) /\ Ordered(<<>>) /\ Elements(<<>>) = {}
      /\ <<>> \in Seq(Commands)
  BY NoCommands DEF Within
<1>4. call \in Calls
  BY <1>1, <1>3, CommandAssumption DEF Calls, CommandAssumption
<1>5. Left = {}
  BY <1>2, <1>3 DEF Left
<1>6. PlanInv
  BY <1>1, <1>2, <1>3, <1>5 DEF PlanInv
<1>7. ProgressInv /\ AnswerInv
  BY <1>2 DEF ProgressInv, AnswerInv
<1>. QED  BY <1>1, <1>4, <1>6, <1>7 DEF OperationInv, CommandsTypeOK

(* Every step keeps the operation's invariant. *)
LEMMA OperationsKeep == OperationInv /\ [Next]_vars => OperationInv'
<1>. SUFFICES ASSUME OperationInv, [Next]_vars PROVE OperationInv'
  OBVIOUS
<1>1. CASE CommandStep
  BY <1>1, CalledKeeps, ServedKeeps, FailsKeeps, SkippedKeeps, UtilsKeeps, PresenceKeeps,
     ErrorsKeep, UnsupportedKeeps, IdsKeep, RotationKeeps, KeyboardKeeps, AirplaneKeeps,
     AnsweredKeeps DEF CommandStep
<1>2. CASE CaptureStep
  BY <1>2, CaptureLeaves
<1>3. CASE UNCHANGED vars
  BY <1>3, NothingHappens DEF vars
<1>. QED  BY <1>1, <1>2, <1>3 DEF Next

-----------------------------------------------------------------------------
(* The device, the commands and the captures keep to their types: every    *)
(* wish is translated into a state before it gets to the device, and every *)
(* command of a plan is one that adb, simctl or the driver knows.          *)
THEOREM TypeCorrect == Spec => []TypeOK
<1>1. Init => OperationInv
  BY NothingCalled DEF Init
<1>2. OperationInv => CommandsTypeOK
  BY DEF OperationInv
<1>3. IndInv => CaptureTypeOK
  BY CaptureFields DEF IndInv, CaptureTyped, CaptureTypeOK
<1>. QED  BY <1>1, <1>2, <1>3, OperationsKeep, Initially, Inductive, PTL DEF Spec, TypeOK

(* An operation is answered as a success only when the device is as it     *)
(* promises, whatever failed, was skipped or could not be read on the way; *)
(* and a key is pressed once at most.                                      *)
THEOREM AnswersHold == Spec => []AnswersAreTrue
<1>1. Init => OperationInv
  BY NothingCalled DEF Init
<1>2. OperationInv => AnswersAreTrue
  BY DEF OperationInv, AnswerInv, PlanInv, AnswersAreTrue
<1>. QED  BY <1>1, <1>2, OperationsKeep, PTL DEF Spec
=============================================================================
