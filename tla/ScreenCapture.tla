---------------------------- MODULE ScreenCapture ---------------------------
(***************************************************************************)
(* captureState: ScreenshotCaptureHelper waits until the screen shows the  *)
(* same picture twice, for so long, and then takes the screenshot and the  *)
(* hierarchy, up to three times.                                           *)
(***************************************************************************)
EXTENDS DeviceCommands

CONSTANTS
  Screens,   \* the pictures a screen can show
  Nothing,   \* a poll that got no picture, a capture without a payload
  MaxPolls   \* bound: how many polls fit in the five seconds

ASSUME CaptureAssumption == Nothing \notin Screens /\ MaxPolls \in Nat

VARIABLES
  screen,    \* what the device shows now
  cap        \* the capture in progress

MaxAttempts == 3
Outcomes == {"none", "valid", "transient", "fatal"}

NoCapture ==
  [phase |-> "off", steady |-> FALSE, previous |-> Nothing, polls |-> <<>>, stable |-> FALSE,
   attempts |-> 0, outcome |-> "none", data |-> Nothing]

CaptureInit == screen \in Screens /\ cap = NoCapture

CaptureTypeOK ==
  /\ screen \in Screens
  /\ cap.phase \in {"off", "stability", "payload", "end"}
  /\ cap.previous \in Screens \cup {Nothing} /\ cap.data \in Screens \cup {Nothing}
  /\ cap.polls \in Seq(Screens \cup {Nothing}) /\ Len(cap.polls) <= MaxPolls
  /\ cap.attempts \in 0..MaxAttempts /\ cap.outcome \in Outcomes

-----------------------------------------------------------------------------
ScreenChanges ==
  /\ Is("capture")
  /\ screen' \in Screens \ {screen}
  /\ UNCHANGED <<platform, dev, call, cap>>

(* capture, with or without the wait, as setShouldEnsureStability said.    *)
CaptureBegins ==
  /\ Is("capture") /\ cap.phase = "off"
  /\ \E steady \in BOOLEAN :
       cap' = [NoCapture EXCEPT !.steady = steady, !.phase = IF steady THEN "stability" ELSE "payload"]
  /\ UNCHANGED <<platform, dev, call, screen>>

(* What a poll gets, when the request does not fail *)
Polled(seen) == cap.phase = "stability" /\ Len(cap.polls) < MaxPolls /\ seen \in {screen, Nothing}

(* Mutant: a poll that failed leaves the picture of the one before it.     *)
PollChangedKept ==
  /\ \E seen \in {screen, Nothing} :
       /\ Polled(seen)
       /\ seen = Nothing \/ seen # cap.previous
       /\ cap' = [cap EXCEPT !.polls = Append(@, seen), !.previous = IF seen = Nothing THEN @ ELSE seen]
  /\ UNCHANGED <<platform, dev, call, screen>>

(* Empty, first or different: the next poll is compared with this one.     *)
PollChanged ==
  /\ \E seen \in {screen, Nothing} :
       /\ Polled(seen)
       /\ seen = Nothing \/ seen # cap.previous
       /\ cap' = [cap EXCEPT !.polls = Append(@, seen), !.previous = seen]
  /\ UNCHANGED <<platform, dev, call, screen>>

PollStable ==
  /\ Polled(screen) /\ screen = cap.previous
  /\ cap' = [cap EXCEPT !.polls = Append(@, screen), !.stable = TRUE, !.phase = "payload"]
  /\ UNCHANGED <<platform, dev, call, screen>>

(* The five seconds are over, after one poll at least. *)
StabilityTimesOut ==
  /\ cap.phase = "stability" /\ cap.polls # <<>>
  /\ cap' = [cap EXCEPT !.phase = "payload"]
  /\ UNCHANGED <<platform, dev, call, screen>>

(* captureScreenshotPayload with the validation of the payload: an empty   *)
(* screenshot, a missing or unreadable hierarchy and the messages of the   *)
(* pattern list are transient, any other failure is not.                   *)
Attempt ==
  /\ cap.phase = "payload"
  /\ \E outcome \in Outcomes \ {"none"} :
       cap' = [cap EXCEPT !.attempts = @ + 1, !.outcome = outcome,
                          !.data = IF outcome = "valid" THEN screen ELSE Nothing,
                          !.phase = IF outcome = "transient" /\ cap.attempts + 1 < MaxAttempts
                                    THEN "payload" ELSE "end"]
  /\ UNCHANGED <<platform, dev, call, screen>>

CaptureEnds ==
  /\ Is("capture") /\ cap.phase = "end"
  /\ Reply(IF cap.outcome = "valid" THEN "success" ELSE "failure")
  /\ cap' = NoCapture
  /\ UNCHANGED <<platform, dev, screen>>

CaptureStep ==
  \/ ScreenChanges \/ CaptureBegins \/ PollChanged \/ PollStable \/ StabilityTimesOut
  \/ Attempt \/ CaptureEnds

-----------------------------------------------------------------------------
(* A screen called stable was seen, and seen the same, by the last two     *)
(* polls of this capture, neither of them one that failed; and only an     *)
(* operation that asked for it waited at all.                              *)
StableIsSeenTwice ==
  /\ cap.stable =>
       /\ Len(cap.polls) >= 2
       /\ cap.polls[Len(cap.polls)] # Nothing
       /\ cap.polls[Len(cap.polls)] = cap.polls[Len(cap.polls) - 1]
  /\ cap.polls # <<>> => cap.steady

(* A capture gives up early only for what is not transient, and a payload  *)
(* is answered exactly when the last attempt was valid.                    *)
GivesUpLast ==
  cap.phase = "end" =>
    /\ cap.outcome = "transient" => cap.attempts = MaxAttempts
    /\ (cap.data # Nothing) <=> (cap.outcome = "valid")
=============================================================================
