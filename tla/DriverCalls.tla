---------------------------- MODULE DriverCalls -----------------------------
(***************************************************************************)
(* An operation through the driver: _unaryCall with its retries, iOS's     *)
(* recovery of a driver that has died, and executeAction, which answers    *)
(* every failure.                                                          *)
(***************************************************************************)
EXTENDS AndroidSetup, IOSSetup

(* `act' stands for the operations that touch the device, `read' for       *)
(* getScreenshot and getHierarchy, `query' for checkAppInForeground and    *)
(* updateAppIds, `capture' for captureState.                               *)
Kinds == {"act", "launch", "read", "query", "capture"}
TouchesDevice(kind) == kind \in {"act", "launch"}

(* Mutant: every call is retried. *)
MaxRetriesForAll(kind) == 2
MaxRetries(kind) == IF kind \in {"launch", "query"} THEN 2 ELSE 0

Replayable(kind) == kind \in {"read", "query"}

CallsInit == op = [kind |-> "none", tries |-> 0, hits |-> 0, restarts |-> 0,
                   done |-> 0, lost |-> FALSE, notified |-> FALSE]

CallsTypeOK ==
  op \in [kind : Kinds \cup {"none"}, tries : 0..2, hits : 0..3, restarts : 0..1,
         done : 0..MaxOps, lost : BOOLEAN, notified : BOOLEAN]

unmoved == <<platform, wipe, link, trace>>

OperationBegins ==
  /\ At("idle") /\ op.done < MaxOps
  /\ \E kind \in Kinds :
       op' = [op EXCEPT !.kind = kind, !.tries = 0, !.hits = 0, !.restarts = 0, !.done = @ + 1]
  /\ GoTo("call")
  /\ UNCHANGED <<unmoved, machine, client>>

(* The request gets to the driver: `hits' counts those that touch the      *)
(* device.  Its answer, success or not, is the operation's.                *)
Delivered == Reachable /\ op' = [op EXCEPT !.hits = IF TouchesDevice(op.kind) THEN @ + 1 ELSE @]

CallAnswered ==
  /\ At("call")
  /\ Delivered
  /\ GoTo("idle")
  /\ UNCHANGED <<unmoved, machine, client>>

(* Mutant: the retries are not counted. *)
CallFailsUncounted ==
  /\ At("call") /\ op.kind # "capture"
  /\ IF MaxRetries(op.kind) > 0 THEN UNCHANGED at ELSE GoTo("thrown")
  /\ UNCHANGED <<unmoved, machine, client, op>>

(* The call fails: the answer was lost, or the request was.                *)
CallFails ==
  /\ At("call") /\ op.kind # "capture"
  /\ \E next \in {op} \cup
       (IF Reachable /\ TouchesDevice(op.kind) THEN {[op EXCEPT !.hits = @ + 1]} ELSE {}) :
       IF op.tries < MaxRetries(op.kind)
       THEN op' = [next EXCEPT !.tries = @ + 1] /\ UNCHANGED at
       ELSE op' = next /\ GoTo("thrown")
  /\ UNCHANGED <<unmoved, machine, client>>

(* captureState catches what its calls throw: a failed one is made again,  *)
(* twice, if the message is of a transient failure, and is then answered.  *)
CaptureFails ==
  /\ At("call") /\ op.kind = "capture"
  /\ \/ op.tries < 2 /\ op' = [op EXCEPT !.tries = @ + 1] /\ UNCHANGED at
     \/ GoTo("idle") /\ UNCHANGED op
  /\ UNCHANGED <<unmoved, machine, client>>

(* exitCode === null && !killed, of the child of the last set-up or        *)
(* restart that succeeded: `lost' when that is not the last one spawned.   *)
LooksAlive == host # "exited" /\ ~op.lost

(* Mutant: a replayed call is recovered like the first. *)
RecoveryBeginsAgain ==
  /\ At("thrown")
  /\ ~Android /\ ~LooksAlive
  /\ op' = [op EXCEPT !.restarts = @ + 1]
  /\ GoTo("restart")
  /\ UNCHANGED <<unmoved, machine, client>>

(* _withDriverRecovery: once per operation, on iOS, for a dead child. *)
RecoveryBegins ==
  /\ At("thrown")
  /\ ~Android /\ ~LooksAlive /\ op.restarts = 0
  /\ op' = [op EXCEPT !.restarts = 1]
  /\ GoTo("restart")
  /\ UNCHANGED <<unmoved, machine, client>>

(* Otherwise the error gets to executeAction's catch, which tells the      *)
(* listener once if the client has lost its connection.                    *)
OperationFails ==
  /\ At("thrown")
  /\ Android \/ LooksAlive \/ op.restarts = 1
  /\ op' = [op EXCEPT !.notified = @ \/ ~client.connected]
  /\ GoTo("idle")
  /\ UNCHANGED <<unmoved, machine, client>>

(* The new child is adopted, and a read is made again. *)
RecoveryEnds ==
  /\ At("reAppIds") /\ Reachable
  /\ startup' = [startup EXCEPT !.complete = TRUE]
  /\ op' = [op EXCEPT !.lost = FALSE, !.tries = 0]
  /\ GoTo(IF Replayable(op.kind) THEN "call" ELSE "thrown")
  /\ UNCHANGED <<unmoved, host, driver, client>>

RecoveryFails ==
  /\ at \in {"reconnect", "reready", "reAppIds"}
  /\ op' = [op EXCEPT !.lost = TRUE]
  /\ GoTo("thrown")
  /\ UNCHANGED <<unmoved, machine, client>>

CallStep ==
  \/ CallAnswered \/ CallFails \/ CaptureFails \/ RecoveryBegins \/ OperationFails
  \/ RecoveryEnds \/ RecoveryFails
  \/ (RestartBegins \/ Reconnected \/ ReadyAgain) /\ UNCHANGED op
=============================================================================
