------------------------------ MODULE PortPool ------------------------------
(***************************************************************************)
(* GrpcPortAllocator: the pool of host ports that driver connections are   *)
(* given, one per device.  AdbClient carries the same pool for Android     *)
(* (the allocator says it is "modelled on AdbClient's earlier in-class     *)
(* pool"); GrpcDriverSetup builds one allocator for the iOS simulators.    *)
(*                                                                         *)
(* allocate, release and clear are asynchronous and run one at a time      *)
(* behind a chain of promises: each call replaces the chain's tail with a  *)
(* promise of its own and awaits the one it replaced.  Here the chain is   *)
(* the sequence `lock' of the callers in the order they joined it, and the *)
(* head is the one whose predecessor has resolved.  allocate gives control *)
(* back at every bindability probe, so calls join the chain and the host's *)
(* other processes bind and free ports in the middle of a scan.            *)
(***************************************************************************)
EXTENDS Integers, Sequences

CONSTANTS
  Callers,     \* concurrent asynchronous callers of the allocator
  Keys,        \* device serials and simulator UDIDs
  RangeStart,  \* first port of the range
  RangeEnd     \* one past the last port of the range

ASSUME RangeAssumption ==
  /\ RangeStart \in Nat \ {0}
  /\ RangeEnd \in Nat
  /\ RangeStart =< RangeEnd

Ports == RangeStart .. (RangeEnd - 1)

NoPort == 0      \* `undefined' in _portMap

Operations == {"allocate", "release", "clear"}
Calls == [op : Operations, key : Keys]
NoCall == [op |-> "none"]

VARIABLES
  portMap,         \* _portMap: key -> port, NoPort where the map has no entry
  allocatedPorts,  \* _allocatedPorts
  lock,            \* _lock: the callers on the promise chain, oldest first
  pc,              \* where each caller's call is
  call,            \* what each caller's pending call is to do
  cursor,          \* `port' in allocate's loop
  bound,           \* the host ports that other processes hold now
  steady           \* history: ports free since the caller's scan began

vars == <<portMap, allocatedPorts, lock, pc, call, cursor, bound, steady>>

-----------------------------------------------------------------------------
Init ==
  /\ portMap = [k \in Keys |-> NoPort]
  /\ allocatedPorts = {}
  /\ lock = <<>>
  /\ pc = [c \in Callers |-> "idle"]
  /\ call = [c \in Callers |-> NoCall]
  /\ cursor = [c \in Callers |-> RangeStart]
  /\ bound \in SUBSET Ports
  /\ steady = [c \in Callers |-> {}]

(* The call's part before `await previous': it joins the chain. *)
Invoke(c, op, k) ==
  /\ pc[c] = "idle"
  /\ pc' = [pc EXCEPT ![c] = "queued"]
  /\ call' = [call EXCEPT ![c] = [op |-> op, key |-> k]]
  /\ lock' = Append(lock, c)
  /\ UNCHANGED <<portMap, allocatedPorts, cursor, bound, steady>>

Holds(c) == lock # <<>> /\ Head(lock) = c

(* The call returns or throws; the locals of its closure go with it. *)
Return(c) ==
  /\ pc' = [pc EXCEPT ![c] = "idle"]
  /\ call' = [call EXCEPT ![c] = NoCall]
  /\ cursor' = [cursor EXCEPT ![c] = RangeStart]
  /\ steady' = [steady EXCEPT ![c] = {}]

(* The `finally' of _withLock: the next promise of the chain resolves. *)
LeaveLock(c) ==
  /\ lock' = Tail(lock)
  /\ Return(c)

(* Mutant: the call does not await the promise it replaced. *)
EnteringUnawaited(c, op) == pc[c] = "queued" /\ call[c].op = op

(* `await previous' is over and the body of `op' begins. *)
Entering(c, op) == Holds(c) /\ pc[c] = "queued" /\ call[c].op = op

(* allocate, `existing !== undefined' *)
AllocateExisting(c) ==
  /\ Entering(c, "allocate")
  /\ portMap[call[c].key] # NoPort
  /\ LeaveLock(c)
  /\ UNCHANGED <<portMap, allocatedPorts, bound>>

(* Mutant: allocate forgets to look for the key's own entry. *)
BeginScanAlways(c) ==
  /\ Entering(c, "allocate")
  /\ pc' = [pc EXCEPT ![c] = "scanning"]
  /\ cursor' = [cursor EXCEPT ![c] = RangeStart]
  /\ steady' = [steady EXCEPT ![c] = Ports \ (allocatedPorts \cup bound)]
  /\ UNCHANGED <<portMap, allocatedPorts, lock, call, bound>>

(* Mutant: the loop starts after the range's first port. *)
BeginScanLate(c) ==
  /\ Entering(c, "allocate")
  /\ portMap[call[c].key] = NoPort
  /\ pc' = [pc EXCEPT ![c] = "scanning"]
  /\ cursor' = [cursor EXCEPT ![c] = RangeStart + 1]
  /\ steady' = [steady EXCEPT ![c] = Ports \ (allocatedPorts \cup bound)]
  /\ UNCHANGED <<portMap, allocatedPorts, lock, call, bound>>

(* allocate, no entry for the key: the scan starts at the range's start *)
BeginScan(c) ==
  /\ Entering(c, "allocate")
  /\ portMap[call[c].key] = NoPort
  /\ pc' = [pc EXCEPT ![c] = "scanning"]
  /\ cursor' = [cursor EXCEPT ![c] = RangeStart]
  /\ steady' = [steady EXCEPT ![c] = Ports \ (allocatedPorts \cup bound)]
  /\ UNCHANGED <<portMap, allocatedPorts, lock, call, bound>>

(* One turn of the loop that does not take its port: it is reserved, or    *)
(* the probe's listen() failed.                                            *)
SkipPort(c) ==
  /\ pc[c] = "scanning"
  /\ cursor[c] < RangeEnd
  /\ cursor[c] \in allocatedPorts \cup bound
  /\ cursor' = [cursor EXCEPT ![c] = @ + 1]
  /\ UNCHANGED <<portMap, allocatedPorts, lock, pc, call, bound, steady>>

(* Mutant: the loop's condition is port <= _rangeEnd. *)
TakePortInclusive(c) ==
  /\ pc[c] = "scanning"
  /\ cursor[c] =< RangeEnd
  /\ cursor[c] \notin allocatedPorts \cup bound
  /\ allocatedPorts' = allocatedPorts \cup {cursor[c]}
  /\ portMap' = [portMap EXCEPT ![call[c].key] = cursor[c]]
  /\ LeaveLock(c)
  /\ UNCHANGED bound

(* One turn of the loop that takes its port and returns it. *)
TakePort(c) ==
  /\ pc[c] = "scanning"
  /\ cursor[c] < RangeEnd
  /\ cursor[c] \notin allocatedPorts \cup bound
  /\ allocatedPorts' = allocatedPorts \cup {cursor[c]}
  /\ portMap' = [portMap EXCEPT ![call[c].key] = cursor[c]]
  /\ LeaveLock(c)
  /\ UNCHANGED bound

(* Mutant: the error path leaves without the `finally'. *)
ExhaustedHoldingLock(c) ==
  /\ pc[c] = "scanning"
  /\ cursor[c] = RangeEnd
  /\ Return(c)
  /\ UNCHANGED <<portMap, allocatedPorts, lock, bound>>

(* The loop ends without a port and allocate throws. *)
Exhausted(c) ==
  /\ pc[c] = "scanning"
  /\ cursor[c] = RangeEnd
  /\ LeaveLock(c)
  /\ UNCHANGED <<portMap, allocatedPorts, bound>>

(* release: a key without a port holds NoPort, which is in no set of ports *)
Release(c) ==
  /\ Entering(c, "release")
  /\ LET port == portMap[call[c].key] IN
       /\ allocatedPorts' = allocatedPorts \ {port}
       /\ portMap' = [portMap EXCEPT ![call[c].key] = NoPort]
  /\ LeaveLock(c)
  /\ UNCHANGED bound

(* Mutant: clear empties the map and not the set. *)
ClearMapOnly(c) ==
  /\ Entering(c, "clear")
  /\ portMap' = [k \in Keys |-> NoPort]
  /\ LeaveLock(c)
  /\ UNCHANGED <<allocatedPorts, bound>>

Clear(c) ==
  /\ Entering(c, "clear")
  /\ portMap' = [k \in Keys |-> NoPort]
  /\ allocatedPorts' = {}
  /\ LeaveLock(c)
  /\ UNCHANGED bound

(* Some other process of the host starts or stops listening on a port. *)
HostBinds(p) ==
  /\ bound' = IF p \in bound THEN bound \ {p} ELSE bound \cup {p}
  /\ steady' = [c \in Callers |-> steady[c] \ {p}]
  /\ UNCHANGED <<portMap, allocatedPorts, lock, pc, call, cursor>>

(* The event loop runs a call's continuations; the caller decides to call. *)
Continue(c) ==
  \/ AllocateExisting(c)
  \/ BeginScan(c)
  \/ SkipPort(c)
  \/ TakePort(c)
  \/ Exhausted(c)
  \/ Release(c)
  \/ Clear(c)

Next ==
  \/ \E c \in Callers, op \in Operations, k \in Keys : Invoke(c, op, k)
  \/ \E c \in Callers : Continue(c)
  \/ \E p \in Ports : HostBinds(p)

Spec == Init /\ [][Next]_vars

FairSpec == Spec /\ \A c \in Callers : WF_vars(Continue(c))

-----------------------------------------------------------------------------
(* Types: what the allocator's two collections, its promise chain and the  *)
(* locals of its calls range over.                                         *)
TypeOK ==
  /\ portMap \in [Keys -> Ports \cup {NoPort}]
  /\ allocatedPorts \in SUBSET Ports
  /\ lock \in Seq(Callers)
  /\ pc \in [Callers -> {"idle", "queued", "scanning"}]
  /\ call \in [Callers -> Calls \cup {NoCall}]
  /\ cursor \in [Callers -> RangeStart .. RangeEnd]
  /\ bound \in SUBSET Ports
  /\ steady \in [Callers -> SUBSET Ports]

Held == {portMap[k] : k \in Keys} \ {NoPort}

(* The set and the map tell the same story at every await of every call,   *)
(* and no port serves two keys: getPort, which reads without the lock,     *)
(* never returns a port that another device's driver was given.            *)
PoolConsistent ==
  /\ allocatedPorts = Held
  /\ \A j, k \in Keys : j # k /\ portMap[j] # NoPort => portMap[j] # portMap[k]

(* At most one call is between its first probe and its return, and it is   *)
(* the one at the head of the chain: the promise chain is a mutex.         *)
SingleScanner ==
  \A c \in Callers : pc[c] = "scanning" => Holds(c)

(* allocate throws "No gRPC ports available" only when no port of the      *)
(* range stayed free from the moment the scan began: every port the cursor *)
(* has passed was reserved or squatted on at some moment of the scan.      *)
NoSpuriousExhaustion ==
  \A c \in Callers : pc[c] = "scanning" => \A p \in steady[c] : p >= cursor[c]

(* Every call comes to an end, whatever the others do and however the      *)
(* scans before it end: an exhausted scan hands the lock on too.           *)
CallsReturn ==
  \A c \in Callers : pc[c] = "queued" ~> pc[c] = "idle"

(* The pool implements the abstract assignment of ports to keys.           *)
Assignment == INSTANCE PortAssignment WITH assigned <- portMap
ImplementsAssignment == Assignment!Spec
=============================================================================
