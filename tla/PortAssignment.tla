--------------------------- MODULE PortAssignment ---------------------------
(***************************************************************************)
(* What a port pool promises to the driver setups that share it: a map     *)
(* from device keys to host ports in which a key holds at most one port,   *)
(* no two keys hold the same one, and a key's port never changes under it: *)
(* it is taken, kept and given back.  There is no lock here, no probing    *)
(* and no bookkeeping; PortPool, the detailed module, implements this.     *)
(***************************************************************************)
CONSTANTS
  Keys,     \* device serials and simulator UDIDs
  Ports,    \* the host ports of the pool's range
  NoPort    \* what a key that holds nothing maps to

VARIABLE assigned

Taken == {assigned[k] : k \in Keys} \ {NoPort}

Init == assigned = [k \in Keys |-> NoPort]

Acquire(k) ==
  /\ assigned[k] = NoPort
  /\ \E p \in Ports \ Taken : assigned' = [assigned EXCEPT ![k] = p]

Release(k) ==
  /\ assigned[k] # NoPort
  /\ assigned' = [assigned EXCEPT ![k] = NoPort]

ReleaseAll == assigned' = [k \in Keys |-> NoPort]

Next ==
  \/ \E k \in Keys : Acquire(k) \/ Release(k)
  \/ ReleaseAll

Spec == Init /\ [][Next]_assigned
=============================================================================
