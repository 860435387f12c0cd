--------------------------- MODULE PortPoolProofs ---------------------------
(***************************************************************************)
(* The port pool's theorems, for any callers, keys and range of ports.     *)
(*                                                                         *)
(* PoolConsistent is not inductive: TakePort writes the scanned port over  *)
(* the key's entry, so the proof needs that the entry is still empty when  *)
(* the scan ends, hence that nobody else wrote to the map during the scan, *)
(* hence that the promise chain is a mutex.  ChainInv says the last,       *)
(* ScanInv the rest.                                                       *)
(***************************************************************************)
EXTENDS PortPool, TLAPS

(* The callers on the chain are those with a pending call, once each, and  *)
(* only the chain's head is past its await.                                *)
ChainInv ==
  /\ \A c \in Callers : pc[c] # "idle" <=> \E i \in 1 .. Len(lock) : lock[i] = c
  /\ \A i, j \in 1 .. Len(lock) : lock[i] = lock[j] => i = j
  /\ SingleScanner
  /\ \A c \in Callers : pc[c] # "idle" => call[c] \in Calls

(* What a scan may rely on although it awaits probes: its key is still     *)
(* without a port, and what it has passed was taken at some moment.        *)
ScanInv ==
  \A c \in Callers : pc[c] = "scanning" =>
    /\ portMap[call[c].key] = NoPort
    /\ \A p \in steady[c] : p >= cursor[c] /\ p \notin allocatedPorts \cup bound

IndInv == TypeOK /\ ChainInv /\ ScanInv /\ PoolConsistent

(* The marker of a key without a port is no port. *)
LEMMA PortsPositive == Ports \subseteq Nat \ {0} /\ NoPort \notin Ports
  BY RangeAssumption DEF Ports, NoPort

(* The empty pool satisfies the invariant. *)
LEMMA InitIndInv == Init => IndInv
  <1> SUFFICES ASSUME Init PROVE IndInv
    OBVIOUS
  <1>1. TypeOK
    BY RangeAssumption DEF Init, TypeOK, NoCall
  <1>2. ChainInv /\ ScanInv
    BY DEF Init, ChainInv, ScanInv, SingleScanner
  <1>3. PoolConsistent
    BY DEF Init, PoolConsistent, Held
  <1> QED
    BY <1>1, <1>2, <1>3 DEF IndInv

(* Types are kept by every step. *)
LEMMA TypeStep == IndInv /\ [Next]_vars => TypeOK'
  <1> SUFFICES ASSUME IndInv, [Next]_vars PROVE TypeOK'
    OBVIOUS
  <1> USE RangeAssumption DEF IndInv, TypeOK
  <1>0. NoCall \in Calls \cup {NoCall}
    OBVIOUS
  <1>1. ASSUME NEW c \in Callers, NEW op \in Operations, NEW k \in Keys, Invoke(c, op, k)
        PROVE  TypeOK'
    BY <1>1 DEF Invoke, Calls
  <1>2. ASSUME NEW c \in Callers, AllocateExisting(c) PROVE TypeOK'
    BY <1>2, <1>0 DEF AllocateExisting, LeaveLock, Return, Entering, Holds
  <1>3. ASSUME NEW c \in Callers, BeginScan(c) PROVE TypeOK'
    BY <1>3 DEF BeginScan, Entering, Holds
  <1>4. ASSUME NEW c \in Callers, SkipPort(c) PROVE TypeOK'
    BY <1>4 DEF SkipPort
  <1>5. ASSUME NEW c \in Callers, TakePort(c) PROVE TypeOK'
    <2>1. Holds(c) /\ call[c] \in Calls
      BY <1>5 DEF TakePort, ChainInv, SingleScanner
    <2>2. cursor[c] \in Ports
      BY <1>5 DEF TakePort, Ports
    <2> QED
      BY <1>5, <1>0, <2>1, <2>2 DEF TakePort, LeaveLock, Return, Holds, Calls
  <1>6. ASSUME NEW c \in Callers, Exhausted(c) PROVE TypeOK'
    <2>1. Holds(c)
      BY <1>6 DEF Exhausted, ChainInv, SingleScanner
    <2> QED
      BY <1>6, <1>0, <2>1 DEF Exhausted, LeaveLock, Return, Holds
  <1>7. ASSUME NEW c \in Callers, Release(c) PROVE TypeOK'
    <2>1. lock # <<>> /\ call[c] \in Calls
      BY <1>7 DEF Release, Entering, Holds, ChainInv
    <2> QED
      BY <1>7, <1>0, <2>1 DEF Release, LeaveLock, Return, Calls
  <1>8. ASSUME NEW c \in Callers, Clear(c) PROVE TypeOK'
    BY <1>8, <1>0 DEF Clear, LeaveLock, Return, Entering, Holds
  <1>9. ASSUME NEW p \in Ports, HostBinds(p) PROVE TypeOK'
    BY <1>9 DEF HostBinds
  <1>10. CASE UNCHANGED vars
    BY <1>10 DEF vars
  <1> QED
    BY <1>1, <1>2, <1>3, <1>4, <1>5, <1>6, <1>7, <1>8, <1>9, <1>10 DEF Next, Continue

(* Joining the chain: the caller was idle, so it was not on it. *)
LEMMA JoinChain ==
  ASSUME IndInv, NEW c \in Callers, NEW op \in Operations, NEW k \in Keys, Invoke(c, op, k)
  PROVE  ChainInv'
  <1> USE DEF IndInv, TypeOK, ChainInv
  <1>1. lock \in Seq(Callers) /\ lock' = Append(lock, c) /\ Len(lock) \in Nat
    BY DEF Invoke
  <1>2. /\ Len(lock') = Len(lock) + 1
        /\ \A i \in 1 .. Len(lock) : lock'[i] = lock[i]
        /\ lock'[Len(lock) + 1] = c
    BY <1>1
  <1>3. \A i \in 1 .. Len(lock) : lock[i] # c
    BY DEF Invoke
  <1>4. pc' = [pc EXCEPT ![c] = "queued"] /\ pc[c] = "idle"
    BY DEF Invoke
  <1>5. ASSUME NEW d \in Callers
        PROVE  pc'[d] # "idle" <=> \E i \in 1 .. Len(lock') : lock'[i] = d
    <2>1. CASE d = c
      BY <2>1, <1>2, <1>4, <1>1
    <2>2. CASE d # c
      <3>1. pc'[d] = pc[d]
        BY <2>2, <1>4
      <3>2. (\E i \in 1 .. Len(lock') : lock'[i] = d) <=> \E i \in 1 .. Len(lock) : lock[i] = d
        BY <2>2, <1>1, <1>2
      <3> QED
        BY <3>1, <3>2
    <2> QED
      BY <2>1, <2>2
  <1>6. \A i, j \in 1 .. Len(lock') : lock'[i] = lock'[j] => i = j
    BY <1>1, <1>2, <1>3
  <1>7. SingleScanner'
    BY <1>1, <1>4 DEF SingleScanner, Holds
  <1>8. \A d \in Callers : pc'[d] # "idle" => call'[d] \in Calls
    BY <1>4 DEF Invoke, Calls
  <1> QED
    BY <1>5, <1>6, <1>7, <1>8

(* Leaving the chain: the head goes, and nobody else is past its await. *)
LEMMA LeaveChain ==
  ASSUME IndInv, NEW c \in Callers, Holds(c), LeaveLock(c)
  PROVE  ChainInv'
  <1> USE DEF IndInv, TypeOK, ChainInv
  <1>1. lock \in Seq(Callers) /\ lock' = Tail(lock) /\ lock # <<>> /\ lock[1] = c
    BY DEF LeaveLock, Holds
  <1>2. /\ Len(lock) \in Nat \ {0}
        /\ Len(lock') = Len(lock) - 1
        /\ \A i \in 1 .. Len(lock') : lock'[i] = lock[i + 1]
    BY <1>1
  <1>3. /\ pc' = [pc EXCEPT ![c] = "idle"]
        /\ call' = [call EXCEPT ![c] = NoCall]
    BY DEF LeaveLock, Return
  <1>4. ASSUME NEW d \in Callers
        PROVE  pc'[d] # "idle" <=> \E i \in 1 .. Len(lock') : lock'[i] = d
    <2>1. CASE d = c
      <3>1. \A i \in 1 .. Len(lock') : lock[i + 1] # c
        BY <1>1, <1>2
      <3> QED
        BY <2>1, <3>1, <1>2, <1>3
    <2>2. CASE d # c
      <3>1. pc'[d] = pc[d]
        BY <2>2, <1>3
      <3>2. ASSUME NEW i \in 1 .. Len(lock), lock[i] = d
            PROVE  \E j \in 1 .. Len(lock') : lock'[j] = d
        <4>1. i - 1 \in 1 .. Len(lock')
          BY <3>2, <2>2, <1>1, <1>2
        <4>2. lock'[i - 1] = lock[(i - 1) + 1]
          BY <4>1, <1>2
        <4>3. (i - 1) + 1 = i
          OBVIOUS
        <4> QED
          BY <4>1, <4>2, <4>3, <3>2
      <3>3. ASSUME NEW i \in 1 .. Len(lock'), lock'[i] = d
            PROVE  \E j \in 1 .. Len(lock) : lock[j] = d
        <4>1. i + 1 \in 1 .. Len(lock) /\ lock[i + 1] = d
          BY <3>3, <1>2
        <4> QED
          BY <4>1
      <3> QED
        BY <3>1, <3>2, <3>3
    <2> QED
      BY <2>1, <2>2
  <1>5. \A i, j \in 1 .. Len(lock') : lock'[i] = lock'[j] => i = j
    <2> SUFFICES ASSUME NEW i \in 1 .. Len(lock'), NEW j \in 1 .. Len(lock'), lock'[i] = lock'[j]
                 PROVE  i = j
      OBVIOUS
    <2>1. i + 1 \in 1 .. Len(lock) /\ j + 1 \in 1 .. Len(lock) /\ lock[i + 1] = lock[j + 1]
      BY <1>2
    <2> QED
      BY <2>1
  <1>6. SingleScanner'
    BY <1>3 DEF SingleScanner, Holds
  <1>7. \A d \in Callers : pc'[d] # "idle" => call'[d] \in Calls
    BY <1>3
  <1> QED
    BY <1>4, <1>5, <1>6, <1>7

(* Callers join the chain at its end and leave it at its head only. *)
LEMMA ChainStep == IndInv /\ [Next]_vars => ChainInv'
  <1> SUFFICES ASSUME IndInv, [Next]_vars PROVE ChainInv'
    OBVIOUS
  <1>0. ASSUME NEW c \in Callers, pc[c] = "scanning" PROVE Holds(c)
    BY <1>0 DEF IndInv, ChainInv, SingleScanner
  <1>1. ASSUME NEW c \in Callers, NEW op \in Operations, NEW k \in Keys, Invoke(c, op, k)
        PROVE  ChainInv'
    BY <1>1, JoinChain
  <1>2. ASSUME NEW c \in Callers, AllocateExisting(c) PROVE ChainInv'
    BY <1>2, LeaveChain DEF AllocateExisting, Entering
  <1>3. ASSUME NEW c \in Callers, BeginScan(c) PROVE ChainInv'
    BY <1>3 DEF BeginScan, Entering, IndInv, TypeOK, ChainInv, SingleScanner, Holds
  <1>4. ASSUME NEW c \in Callers, SkipPort(c) PROVE ChainInv'
    BY <1>4 DEF SkipPort, IndInv, ChainInv, SingleScanner, Holds
  <1>5. ASSUME NEW c \in Callers, TakePort(c) PROVE ChainInv'
    BY <1>5, <1>0, LeaveChain DEF TakePort
  <1>6. ASSUME NEW c \in Callers, Exhausted(c) PROVE ChainInv'
    BY <1>6, <1>0, LeaveChain DEF Exhausted
  <1>7. ASSUME NEW c \in Callers, Release(c) PROVE ChainInv'
    BY <1>7, LeaveChain DEF Release, Entering
  <1>8. ASSUME NEW c \in Callers, Clear(c) PROVE ChainInv'
    BY <1>8, LeaveChain DEF Clear, Entering
  <1>9. ASSUME NEW p \in Ports, HostBinds(p) PROVE ChainInv'
    BY <1>9 DEF HostBinds, IndInv, ChainInv, SingleScanner, Holds
  <1>10. CASE UNCHANGED vars
    BY <1>10 DEF vars, IndInv, ChainInv, SingleScanner, Holds
  <1> QED
    BY <1>1, <1>2, <1>3, <1>4, <1>5, <1>6, <1>7, <1>8, <1>9, <1>10 DEF Next, Continue

(* While one caller is on its turn no other is scanning. *)
LEMMA OneTurn ==
  ASSUME IndInv, NEW c \in Callers, NEW d \in Callers, Holds(c), pc[d] = "scanning"
  PROVE  d = c
  BY DEF IndInv, ChainInv, SingleScanner, Holds

(* Nothing that a scan relies on is changed between two of its probes. *)
LEMMA ScanStep == IndInv /\ [Next]_vars => ScanInv'
  <1> SUFFICES ASSUME IndInv, [Next]_vars, NEW d \in Callers, pc'[d] = "scanning"
               PROVE  /\ portMap'[call'[d].key] = NoPort
                      /\ \A p \in steady'[d] : p >= cursor'[d] /\ p \notin allocatedPorts' \cup bound'
    BY DEF ScanInv
  <1> USE DEF IndInv, TypeOK
  <1>0. ASSUME NEW c \in Callers, Holds(c), LeaveLock(c) PROVE FALSE
    <2>1. pc[d] = "scanning" /\ d # c
      BY <1>0 DEF LeaveLock, Return
    <2> QED
      BY <2>1, <1>0, OneTurn
  <1>1. ASSUME NEW c \in Callers, NEW op \in Operations, NEW k \in Keys, Invoke(c, op, k)
        PROVE  pc[d] = "scanning" /\ d # c
    BY <1>1 DEF Invoke
  <1>2. ASSUME NEW c \in Callers, AllocateExisting(c) PROVE FALSE
    BY <1>2, <1>0 DEF AllocateExisting, Entering
  <1>3. ASSUME NEW c \in Callers, BeginScan(c) PROVE d = c
    <2>1. d # c => pc[d] = "scanning"
      BY <1>3 DEF BeginScan
    <2> QED
      BY <1>3, <2>1, OneTurn DEF BeginScan, Entering
  <1>4. ASSUME NEW c \in Callers, SkipPort(c) PROVE d = c /\ pc[d] = "scanning"
    <2>1. Holds(c) /\ pc[d] = "scanning"
      BY <1>4 DEF SkipPort, ChainInv, SingleScanner
    <2> QED
      BY <2>1, OneTurn
  <1>5. ASSUME NEW c \in Callers, TakePort(c) \/ Exhausted(c) PROVE FALSE
    BY <1>5, <1>0 DEF TakePort, Exhausted, ChainInv, SingleScanner
  <1>7. ASSUME NEW c \in Callers, Release(c) \/ Clear(c) PROVE FALSE
    BY <1>7, <1>0 DEF Release, Clear, Entering
  <1>11. ASSUME NEW c \in Callers, NEW op \in Operations, NEW k \in Keys, Invoke(c, op, k)
         PROVE  /\ portMap'[call'[d].key] = NoPort
                /\ \A p \in steady'[d] : p >= cursor'[d] /\ p \notin allocatedPorts' \cup bound'
    BY <1>11, <1>1 DEF Invoke, ScanInv
  <1>13. ASSUME NEW c \in Callers, BeginScan(c)
         PROVE  /\ portMap'[call'[d].key] = NoPort
                /\ \A p \in steady'[d] : p >= cursor'[d] /\ p \notin allocatedPorts' \cup bound'
    <2>1. /\ portMap' = portMap /\ call' = call /\ portMap[call[d].key] = NoPort
          /\ allocatedPorts' = allocatedPorts /\ bound' = bound
          /\ cursor'[d] = RangeStart
          /\ steady'[d] = Ports \ (allocatedPorts \cup bound)
      BY <1>13, <1>3 DEF BeginScan
    <2> QED
      BY <2>1, RangeAssumption DEF Ports
  <1>14. ASSUME NEW c \in Callers, SkipPort(c)
         PROVE  /\ portMap'[call'[d].key] = NoPort
                /\ \A p \in steady'[d] : p >= cursor'[d] /\ p \notin allocatedPorts' \cup bound'
    <2>1. cursor'[d] = cursor[d] + 1 /\ cursor[d] \in allocatedPorts \cup bound
      BY <1>14, <1>4 DEF SkipPort
    <2>2. cursor[d] \in Int /\ steady[d] \subseteq Int
      BY RangeAssumption DEF Ports
    <2>3. \A p \in steady[d] : p >= cursor[d] + 1 /\ p \notin allocatedPorts \cup bound
      BY <1>4, <1>14, <2>1, <2>2 DEF ScanInv
    <2> QED
      BY <1>4, <1>14, <2>1, <2>3 DEF SkipPort, ScanInv
  <1>19. ASSUME NEW p \in Ports, HostBinds(p)
         PROVE  /\ portMap'[call'[d].key] = NoPort
                /\ \A q \in steady'[d] : q >= cursor'[d] /\ q \notin allocatedPorts' \cup bound'
    BY <1>19 DEF HostBinds, ScanInv
  <1>20. CASE UNCHANGED vars
    BY <1>20 DEF vars, ScanInv
  <1> QED
    BY <1>2, <1>5, <1>7, <1>11, <1>13, <1>14, <1>19, <1>20 DEF Next, Continue

(* The bookkeeping: the map stays injective and the set stays its range.   *)
LEMMA ConsistentStep == IndInv /\ [Next]_vars => PoolConsistent'
  <1> SUFFICES ASSUME IndInv, [Next]_vars PROVE PoolConsistent'
    OBVIOUS
  <1> USE DEF IndInv, TypeOK
  <1>1. CASE UNCHANGED <<portMap, allocatedPorts>>
    BY <1>1 DEF PoolConsistent, Held
  <1>2. ASSUME NEW c \in Callers, TakePort(c) PROVE PoolConsistent'
    <2> DEFINE port == cursor[c]
               key == call[c].key
    <2>1. pc[c] = "scanning" /\ call[c] \in Calls /\ key \in Keys
      BY <1>2 DEF TakePort, ChainInv, Calls
    <2>2. port \in Ports /\ port # NoPort /\ port \notin allocatedPorts
      BY <1>2, RangeAssumption, PortsPositive DEF TakePort, Ports
    <2>3. /\ portMap' = [portMap EXCEPT ![key] = port]
          /\ allocatedPorts' = allocatedPorts \cup {port}
      BY <1>2 DEF TakePort
    <2>4. portMap[key] = NoPort
      BY <2>1 DEF ScanInv
    <2>5. port \notin {portMap[k] : k \in Keys}
      BY <2>2 DEF PoolConsistent, Held
    <2>6. allocatedPorts' = Held'
      BY <2>1, <2>2, <2>3, <2>4 DEF PoolConsistent, Held
    <2>7. \A j, k \in Keys : j # k /\ portMap'[j] # NoPort => portMap'[j] # portMap'[k]
      BY <2>1, <2>2, <2>3, <2>5 DEF PoolConsistent
    <2> QED
      BY <2>6, <2>7 DEF PoolConsistent
  <1>3. ASSUME NEW c \in Callers, Release(c) PROVE PoolConsistent'
    <2> DEFINE key == call[c].key
    <2>1. key \in Keys
      BY <1>3 DEF Release, Entering, ChainInv, Calls
    <2>2. /\ portMap' = [portMap EXCEPT ![key] = NoPort]
          /\ allocatedPorts' = allocatedPorts \ {portMap[key]}
      BY <1>3 DEF Release
    <2>3. Held' = Held \ {portMap[key]}
      BY <2>1, <2>2 DEF Held, PoolConsistent
    <2>4. \A j, k \in Keys : j # k /\ portMap'[j] # NoPort => portMap'[j] # portMap'[k]
      BY <2>1, <2>2 DEF PoolConsistent
    <2> QED
      BY <2>2, <2>3, <2>4 DEF PoolConsistent
  <1>4. ASSUME NEW c \in Callers, Clear(c) PROVE PoolConsistent'
    BY <1>4 DEF Clear, PoolConsistent, Held
  <1>5. ASSUME NEW c \in Callers, NEW op \in Operations, NEW k \in Keys, Invoke(c, op, k)
        PROVE  UNCHANGED <<portMap, allocatedPorts>>
    BY <1>5 DEF Invoke
  <1>6. ASSUME NEW c \in Callers,
               AllocateExisting(c) \/ BeginScan(c) \/ SkipPort(c) \/ Exhausted(c)
        PROVE  UNCHANGED <<portMap, allocatedPorts>>
    BY <1>6 DEF AllocateExisting, BeginScan, SkipPort, Exhausted
  <1>7. ASSUME NEW p \in Ports, HostBinds(p) PROVE UNCHANGED <<portMap, allocatedPorts>>
    BY <1>7 DEF HostBinds
  <1>8. CASE UNCHANGED vars
    BY <1>8, <1>1 DEF vars
  <1> QED
    BY <1>1, <1>2, <1>3, <1>4, <1>5, <1>6, <1>7, <1>8 DEF Next, Continue

(* The inductive invariant holds of every reachable state. *)
THEOREM Inductive == Spec => []IndInv
  <1>1. IndInv /\ [Next]_vars => IndInv'
    BY TypeStep, ChainStep, ScanStep, ConsistentStep DEF IndInv
  <1> QED
    BY InitIndInv, <1>1, PTL DEF Spec

(* The allocator's collections and its calls' locals keep their types.     *)
THEOREM TypeCorrect == Spec => []TypeOK
  <1>1. IndInv => TypeOK
    BY DEF IndInv
  <1> QED
    BY Inductive, <1>1, PTL

(* _withLock is a mutex: one scan at a time, by the head of the chain.     *)
THEOREM MutualExclusion == Spec => []SingleScanner
  <1>1. IndInv => SingleScanner
    BY DEF IndInv, ChainInv
  <1> QED
    BY Inductive, <1>1, PTL

(* _portMap and _allocatedPorts agree and no two devices share a port,     *)
(* also at the awaits inside a scan.                                       *)
THEOREM PortsDistinct == Spec => []PoolConsistent
  <1>1. IndInv => PoolConsistent
    BY DEF IndInv
  <1> QED
    BY Inductive, <1>1, PTL

(* allocate's "no ports available" is true of every port of the range.     *)
THEOREM ExhaustionIsReal == Spec => []NoSpuriousExhaustion
  <1>1. IndInv => NoSpuriousExhaustion
    BY DEF IndInv, ScanInv, NoSpuriousExhaustion
  <1> QED
    BY Inductive, <1>1, PTL

(* The pool implements the atomic assignment: allocate's last turn is an   *)
(* Acquire, release and clear are themselves, every other step stutters.   *)
THEOREM Refinement == Spec => ImplementsAssignment
  <1> USE DEF Assignment!Next, Assignment!Acquire, Assignment!Release,
              Assignment!ReleaseAll, Assignment!Taken
  <1>1. Init => Assignment!Init
    BY DEF Init, Assignment!Init
  <1>2. IndInv /\ [Next]_vars => [Assignment!Next]_portMap
    <2> SUFFICES ASSUME IndInv, [Next]_vars PROVE [Assignment!Next]_portMap
      OBVIOUS
    <2> USE DEF IndInv, TypeOK
    <2>1. ASSUME NEW c \in Callers, TakePort(c) PROVE Assignment!Next
      <3> DEFINE key == call[c].key
      <3>1. key \in Keys /\ portMap[key] = NoPort
        BY <2>1 DEF TakePort, ChainInv, ScanInv, Calls
      <3>2. cursor[c] \in Ports \ Assignment!Taken
        BY <2>1, RangeAssumption, PortsPositive DEF TakePort, Ports, PoolConsistent, Held
      <3>3. portMap' = [portMap EXCEPT ![key] = cursor[c]]
        BY <2>1 DEF TakePort
      <3>4. Assignment!Acquire(key)
        BY <3>1, <3>2, <3>3
      <3> QED
        BY <3>1, <3>4
    <2>2. ASSUME NEW c \in Callers, Release(c) PROVE [Assignment!Next]_portMap
      <3> DEFINE key == call[c].key
      <3>1. key \in Keys
        BY <2>2 DEF Release, Entering, ChainInv, Calls
      <3>2. portMap' = [portMap EXCEPT ![key] = NoPort]
        BY <2>2 DEF Release
      <3>3. CASE portMap[key] = NoPort
        BY <3>1, <3>2, <3>3
      <3>4. CASE portMap[key] # NoPort
        BY <3>1, <3>2, <3>4
      <3> QED
        BY <3>3, <3>4
    <2>3. ASSUME NEW c \in Callers, Clear(c) PROVE Assignment!Next
      BY <2>3 DEF Clear
    <2>4. ASSUME NEW c \in Callers,
                 AllocateExisting(c) \/ BeginScan(c) \/ SkipPort(c) \/ Exhausted(c)
          PROVE  UNCHANGED portMap
      BY <2>4 DEF AllocateExisting, BeginScan, SkipPort, Exhausted
    <2>5. ASSUME NEW c \in Callers, NEW op \in Operations, NEW k \in Keys, Invoke(c, op, k)
          PROVE  UNCHANGED portMap
      BY <2>5 DEF Invoke
    <2>6. ASSUME NEW p \in Ports, HostBinds(p) PROVE UNCHANGED portMap
      BY <2>6 DEF HostBinds
    <2>7. CASE UNCHANGED vars
      BY <2>7 DEF vars
    <2> QED
      BY <2>1, <2>2, <2>3, <2>4, <2>5, <2>6, <2>7 DEF Next, Continue
  <1> QED
    BY <1>1, <1>2, Inductive, PTL DEF Spec, ImplementsAssignment, Assignment!Spec

-----------------------------------------------------------------------------
(* What every call's return rests on: how long it may still take is        *)
(* bounded, and a call that comes later cannot make it longer.             *)

(* The most turns of the event loop that one call takes: to begin, to      *)
(* probe every port of the range and to end.                               *)
MostTurns == RangeEnd - RangeStart + 2
TurnsOf(c) == IF pc[c] = "scanning" THEN RangeEnd - cursor[c] + 1 ELSE MostTurns

(* A pending call's turns come after those of the calls before it.         *)
Place(c) == CHOOSE i \in 1 .. Len(lock) : lock[i] = c
TurnsToReturn(c) == (Place(c) - 1) * MostTurns + TurnsOf(Head(lock))

Pending(c) == pc[c] # "idle"

(* What the chain and its scan make of the count *)
Placed ==
  /\ \A c \in Callers : Pending(c) =>
       /\ Place(c) \in 1 .. Len(lock) /\ lock[Place(c)] = c
       /\ Len(lock) \in Nat \ {0} /\ Head(lock) = lock[1] /\ Head(lock) \in Callers
  /\ \A i \in 1 .. Len(lock) : Place(lock[i]) = i
  /\ \A c \in Callers : TurnsOf(c) \in 1 .. MostTurns
  /\ MostTurns \in Nat \ {0}

(* A caller is on the chain once, so its place is where it is, *)
LEMMA PlaceRead == IndInv => Placed
  <1> SUFFICES ASSUME IndInv PROVE Placed
    OBVIOUS
  <1> USE DEF IndInv, TypeOK, ChainInv
  <1>1. ASSUME NEW c \in Callers, Pending(c)
        PROVE  /\ Place(c) \in 1 .. Len(lock) /\ lock[Place(c)] = c
               /\ Len(lock) \in Nat \ {0} /\ Head(lock) = lock[1] /\ Head(lock) \in Callers
    <2>1. \E i \in 1 .. Len(lock) : lock[i] = c
      BY <1>1 DEF Pending
    <2>2. Place(c) \in 1 .. Len(lock) /\ lock[Place(c)] = c
      BY <2>1 DEF Place
    <2>3. Len(lock) \in Nat \ {0}
      BY <2>1
    <2> QED
      BY <2>2, <2>3
  <1>2. ASSUME NEW i \in 1 .. Len(lock) PROVE Place(lock[i]) = i
    <2>1. Place(lock[i]) \in 1 .. Len(lock) /\ lock[Place(lock[i])] = lock[i]
      BY DEF Place
    <2> QED
      BY <2>1
  <1>3. MostTurns \in Nat \ {0}
    BY RangeAssumption DEF MostTurns
  <1>4. \A c \in Callers : TurnsOf(c) \in 1 .. MostTurns
    <2> SUFFICES ASSUME NEW c \in Callers PROVE TurnsOf(c) \in 1 .. MostTurns
      OBVIOUS
    <2>1. cursor[c] \in Nat /\ cursor[c] >= RangeStart /\ cursor[c] =< RangeEnd
      BY RangeAssumption
    <2>2. RangeEnd - cursor[c] + 1 \in 1 .. MostTurns
      BY <2>1, RangeAssumption DEF MostTurns
    <2>3. MostTurns \in 1 .. MostTurns
      BY <1>3
    <2> QED
      BY <2>2, <2>3 DEF TurnsOf
  <1> QED
    BY <1>1, <1>2, <1>3, <1>4 DEF Placed

(* and so it is after a step. *)
LEMMA PlaceReadNext == IndInv' => Placed'
  BY PlaceRead, PTL

(* The turns of the calls ahead, and one call less of them. *)
LEMMA TurnsAhead ==
  ASSUME NEW i \in Nat \ {0}, NEW turns \in Nat \ {0}
  PROVE  /\ (i - 1) * turns \in Nat
         /\ i # 1 => (i - 2) * turns = (i - 1) * turns - turns
         /\ \A n \in Nat : i =< n => (i - 1) * turns =< n * turns - turns
  <1>1. (i - 1) * turns \in Nat
    OBVIOUS
  <1>2. i # 1 => (i - 2) * turns = (i - 1) * turns - turns
    OBVIOUS
  <1>3. ASSUME NEW n \in Nat, i =< n PROVE (i - 1) * turns =< n * turns - turns
    <2>1. (n - i) * turns \in Nat /\ n * turns = (n - i) * turns + i * turns
      BY <1>3
    <2>2. (i - 1) * turns = i * turns - turns /\ i * turns \in Nat
      OBVIOUS
    <2> QED
      BY <2>1, <2>2
  <1> QED
    BY <1>1, <1>2, <1>3

(* How long a call may take yet is what the chain and one scan make it. *)
LEMMA TurnsBounded ==
  IndInv => \A c \in Callers : Pending(c) => TurnsToReturn(c) \in 1 .. Len(lock) * MostTurns
  <1> SUFFICES ASSUME IndInv, NEW c \in Callers, Pending(c)
               PROVE  TurnsToReturn(c) \in 1 .. Len(lock) * MostTurns
    OBVIOUS
  <1> DEFINE i == Place(c)
             ahead == (i - 1) * MostTurns
             all == Len(lock) * MostTurns
             now == TurnsOf(Head(lock))
  <1>1. i \in Nat \ {0} /\ i =< Len(lock) /\ Len(lock) \in Nat
    BY PlaceRead DEF Placed
  <1>2. now \in 1 .. MostTurns /\ MostTurns \in Nat \ {0}
    BY PlaceRead DEF Placed
  <1>3. ahead \in Nat /\ ahead =< all - MostTurns
    BY <1>1, <1>2, TurnsAhead
  <1>4. all \in Nat
    BY <1>1, <1>2
  <1> HIDE DEF ahead, all, now
  <1>5. ahead + now \in 1 .. all
    BY <1>2, <1>3, <1>4
  <1> QED
    BY <1>5 DEF TurnsToReturn, ahead, all, now

(* It is a number, *)
LEMMA TurnsCounted == IndInv => \A c \in Callers : Pending(c) => TurnsToReturn(c) \in Nat
  <1> SUFFICES ASSUME IndInv, NEW c \in Callers, Pending(c) PROVE TurnsToReturn(c) \in Nat
    OBVIOUS
  <1>1. Len(lock) * MostTurns \in Nat
    BY PlaceRead DEF Placed
  <1> HIDE DEF MostTurns
  <1> QED
    BY <1>1, TurnsBounded

(* before a step and after it. *)
LEMMA TurnsCountedNext == IndInv' => (\A c \in Callers : Pending(c) => TurnsToReturn(c) \in Nat)'
  BY TurnsCounted, PTL

(* A turn of the head that is not its last: those behind keep their place. *)
LEMMA HeadTurns ==
  ASSUME IndInv, IndInv', NEW c \in Callers, Pending(c), Pending(c)',
         NEW d \in Callers, BeginScan(d) \/ SkipPort(d)
  PROVE  TurnsToReturn(c)' < TurnsToReturn(c)
  <1>1. d = Head(lock) /\ lock' = lock
    BY DEF BeginScan, SkipPort, Entering, Holds, IndInv, ChainInv, SingleScanner
  <1>2. TurnsOf(d)' < TurnsOf(d)
    BY RangeAssumption DEF BeginScan, SkipPort, Entering, TurnsOf, MostTurns, IndInv, TypeOK
  <1>3. Place(c)' = Place(c)
    BY <1>1 DEF Place
  <1>4. Place(c) \in Nat \ {0} /\ MostTurns \in Nat \ {0} /\ TurnsOf(d) \in Nat
    BY <1>1, PlaceRead DEF Placed
  <1>5. TurnsOf(d)' \in Nat
    BY <1>4, PlaceReadNext DEF Placed, MostTurns
  <1> DEFINE ahead == (Place(c) - 1) * MostTurns
  <1>6. ahead \in Nat
    BY <1>4, TurnsAhead
  <1>7. TurnsToReturn(c) = ahead + TurnsOf(d) /\ TurnsToReturn(c)' = ahead + TurnsOf(d)'
    BY <1>1, <1>3 DEF TurnsToReturn, MostTurns
  <1> HIDE DEF ahead
  <1> QED
    BY <1>2, <1>4, <1>5, <1>6, <1>7

(* The head's last turn: those behind it move up by one. *)
LEMMA HeadLeaves ==
  ASSUME IndInv, IndInv', NEW c \in Callers, Pending(c), Pending(c)',
         NEW d \in Callers, Holds(d), LeaveLock(d)
  PROVE  TurnsToReturn(c)' < TurnsToReturn(c)
  <1>1. /\ lock \in Seq(Callers) /\ lock' = Tail(lock) /\ lock[1] = d
        /\ Place(c) \in 1 .. Len(lock) /\ lock[Place(c)] = c /\ Len(lock) \in Nat \ {0}
    BY PlaceRead DEF LeaveLock, Holds, Placed, IndInv, TypeOK
  <1>2. c # d
    BY DEF LeaveLock, Return, Pending, IndInv, TypeOK
  <1>3. Place(c) - 1 \in 1 .. Len(lock') /\ lock'[Place(c) - 1] = c
    BY <1>1, <1>2
  <1>4. Place(c)' = Place(c) - 1
    <2>1. \A i \in 1 .. Len(lock') : Place(lock[i])' = i
      BY PlaceReadNext DEF Placed
    <2> QED
      BY <1>3, PlaceReadNext DEF Placed
  <1>5. /\ TurnsOf(Head(lock)) \in 1 .. MostTurns /\ MostTurns \in Nat \ {0}
        /\ TurnsOf(Head(lock))' \in 1 .. MostTurns
    BY PlaceRead, PlaceReadNext DEF Placed, MostTurns
  <1> DEFINE ahead == (Place(c) - 1) * MostTurns
             then == (Place(c) - 2) * MostTurns
             now == TurnsOf(Head(lock))
             next == TurnsOf(Head(lock))'
  <1>6. ahead \in Nat /\ then = ahead - MostTurns
    <2>1. Place(c) \in Nat \ {0} /\ Place(c) # 1
      BY <1>1, <1>3
    <2> QED
      BY <2>1, <1>5, TurnsAhead
  <1>7. TurnsToReturn(c) = ahead + now /\ TurnsToReturn(c)' = then + next
    BY <1>1, <1>3, <1>4 DEF TurnsToReturn, MostTurns
  <1> HIDE DEF ahead, then, now, next
  <1>8. now \in 1 .. MostTurns /\ next \in 1 .. MostTurns
    BY <1>5 DEF now, next
  <1> QED
    BY <1>5, <1>6, <1>7, <1>8

(* Another call that joins, the host, and nothing, leave a call its turns. *)
LEMMA OthersWait ==
  ASSUME IndInv, IndInv', NEW c \in Callers, Pending(c),
         \/ \E d \in Callers, op \in Operations, k \in Keys : Invoke(d, op, k)
         \/ \E p \in Ports : HostBinds(p)
         \/ UNCHANGED vars
  PROVE  TurnsToReturn(c)' = TurnsToReturn(c)
  <1>1. CASE \E d \in Callers, op \in Operations, k \in Keys : Invoke(d, op, k)
    <2>1. PICK d \in Callers : /\ lock' = Append(lock, d) /\ cursor' = cursor
                              /\ pc' = [pc EXCEPT ![d] = "queued"] /\ pc[d] = "idle"
      BY <1>1 DEF Invoke
    <2>2. /\ lock \in Seq(Callers) /\ Len(lock) \in Nat \ {0} /\ Head(lock) = lock[1]
          /\ Place(c) \in 1 .. Len(lock) /\ lock[Place(c)] = c /\ lock[1] \in Callers
      BY PlaceRead DEF Placed, IndInv, TypeOK
    <2>3. /\ Len(lock') = Len(lock) + 1 /\ Head(lock') = lock[1]
          /\ \A i \in 1 .. Len(lock) : lock'[i] = lock[i]
      BY <2>1, <2>2
    <2>4. Place(c) \in 1 .. Len(lock') /\ lock'[Place(c)] = c
      BY <2>2, <2>3
    <2>5. Place(c)' = Place(c)
      BY <2>4, PlaceReadNext DEF Placed
    <2>6. lock[1] # d
      BY <2>1, <2>2 DEF IndInv, ChainInv
    <2>7. TurnsOf(lock[1])' = TurnsOf(lock[1])
      BY <2>1, <2>2, <2>6 DEF TurnsOf, MostTurns, IndInv, TypeOK
    <2> QED
      BY <2>2, <2>3, <2>5, <2>7 DEF TurnsToReturn, TurnsOf, MostTurns
  <1>2. CASE \/ \E p \in Ports : HostBinds(p)
             \/ UNCHANGED vars
    <2>1. UNCHANGED <<lock, pc, cursor>>
      BY <1>2 DEF HostBinds, vars
    <2> QED
      BY <2>1 DEF TurnsToReturn, TurnsOf, Place, MostTurns
  <1> QED
    BY <1>1, <1>2

(* The head's continuations are one of the two. *)
LEMMA HeadContinues ==
  ASSUME IndInv, NEW d \in Callers, Continue(d)
  PROVE  \/ BeginScan(d) \/ SkipPort(d)
         \/ Holds(d) /\ LeaveLock(d)
  <1>1. AllocateExisting(d) \/ Release(d) \/ Clear(d) => Holds(d) /\ LeaveLock(d)
    BY DEF AllocateExisting, Release, Clear, Entering
  <1>2. TakePort(d) \/ Exhausted(d) => Holds(d) /\ LeaveLock(d)
    BY DEF TakePort, Exhausted, IndInv, ChainInv, SingleScanner
  <1> QED
    BY <1>1, <1>2 DEF Continue

(* Every call returns within the turns of those before it and its own,     *)
(* however many calls join the chain after it, whatever the host's other   *)
(* processes bind and however the scans end: each turn that any call takes *)
(* brings it nearer, and nothing takes it back.                            *)
THEOREM NobodyOvertakes ==
  Spec => /\ [](\A c \in Callers : Pending(c) => TurnsToReturn(c) \in 1 .. Len(lock) * MostTurns)
          /\ [][\A c \in Callers : Pending(c) /\ Pending(c)' =>
                  /\ TurnsToReturn(c)' =< TurnsToReturn(c)
                  /\ (\E d \in Callers : Continue(d)) => TurnsToReturn(c)' < TurnsToReturn(c)]_vars
  <1> DEFINE Nearer == \A c \in Callers : Pending(c) /\ Pending(c)' =>
                         /\ TurnsToReturn(c)' =< TurnsToReturn(c)
                         /\ (\E d \in Callers : Continue(d)) => TurnsToReturn(c)' < TurnsToReturn(c)
  <1>1. IndInv /\ IndInv' /\ [Next]_vars => Nearer
    <2> SUFFICES ASSUME IndInv, IndInv', [Next]_vars, NEW c \in Callers, Pending(c), Pending(c)'
                 PROVE  /\ TurnsToReturn(c)' =< TurnsToReturn(c)
                        /\ (\E d \in Callers : Continue(d)) => TurnsToReturn(c)' < TurnsToReturn(c)
      OBVIOUS
    <2>1. TurnsToReturn(c) \in Nat /\ TurnsToReturn(c)' \in Nat
      BY TurnsCounted, TurnsCountedNext
    <2>2. (\E d \in Callers : Continue(d)) => TurnsToReturn(c)' < TurnsToReturn(c)
      BY HeadContinues, HeadTurns, HeadLeaves
    <2>3. ~(\E d \in Callers : Continue(d)) => TurnsToReturn(c)' = TurnsToReturn(c)
      BY OthersWait DEF Next
    <2> QED
      BY <2>1, <2>2, <2>3
  <1>2. IndInv /\ IndInv' /\ [Next]_vars => [Nearer]_vars
    BY <1>1
  <1> QED
    BY <1>2, TurnsBounded, Inductive, PTL DEF Spec
=============================================================================
