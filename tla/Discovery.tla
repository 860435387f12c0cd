----------------------------- MODULE Discovery ------------------------------
(***************************************************************************)
(* Finding the device of a session: the inventory of adb, the emulator and *)
(* simctl, the choice of an entry, the start of one that is off, and the   *)
(* second inventory in which it has to be found again.  Nothing holds the  *)
(* devices still, so every probe may see anything.                         *)
(***************************************************************************)
EXTENDS DriverHost, FiniteSets

CONSTANTS Avds, Phones, Sims   \* the targets of this host
VARIABLE found   \* what the session asked for, what it has seen and chosen

Probes == {"adb", "simctl", "targets"}

(* selectionId: an emulator is known by its AVD only while `emu avd name'  *)
(* answers, and by its serial otherwise.                                   *)
Entry(kind, target, state) ==
  [platform |-> IF kind = "sim" THEN "ios" ELSE "android",
   state |-> state,
   id |-> <<kind, target>>]

Entries ==
  {Entry(kind, t, state) : kind \in {"avd", "serial"}, t \in Avds, state \in {"runnable", "startable", "dead"}}
      \cup {Entry("serial", t, state) : t \in Phones, state \in {"runnable", "dead"}}
      \cup {Entry("sim", t, state) : t \in Sims, state \in {"runnable", "startable", "dead"}}
NoEntry == [platform |-> "none", state |-> "dead", id |-> <<"none", "none">>]

In(entries, state) == {e \in entries : e.state = state}

DiscoveryTypeOK ==
  found \in [requested : {"android", "ios", "any"}, hasAdb : BOOLEAN,
            todo : SUBSET Probes, entries : SUBSET Entries,
            chosen : Entries \cup {NoEntry}, asked : {e.id : e \in Entries \cup {NoEntry}}]

DiscoveryInit ==
  \E requested \in {"android", "ios", "any"}, hasAdb \in BOOLEAN :
    found = [requested |-> requested, hasAdb |-> hasAdb, todo |-> Probes,
             entries |-> {}, chosen |-> NoEntry, asked |-> NoEntry.id]

others == <<wipe, machine, link, client, trace, op>>

-----------------------------------------------------------------------------
Detecting == at \in {"detect", "redetect"}

Probed(probe, entries) ==
  /\ Detecting /\ probe \in found.todo
  /\ found' = [found EXCEPT !.todo = @ \ {probe}, !.entries = @ \cup entries]
  /\ UNCHANGED <<platform, at, others>>

(* adb devices, then the properties and the name of each device.  Without  *)
(* adb, or when it fails, a diagnostic stands for the entries.             *)
AdbSeen(emulators, phones) ==
  {Entry(IF emulators[t] = "named" THEN "avd" ELSE "serial", t,
         IF emulators[t] = "dead" THEN "dead" ELSE "runnable") :
     t \in {u \in Avds : emulators[u] # "off"}}
  \cup {Entry("serial", t, phones[t]) : t \in {u \in Phones : phones[u] # "absent"}}

AdbProbed ==
  \/ \E emulators \in [Avds -> {"off", "dead", "named", "unnamed"}],
        phones \in [Phones -> {"absent", "dead", "runnable"}] :
       found.hasAdb /\ Probed("adb", AdbSeen(emulators, phones))
  \/ Probed("adb", {})

SimctlProbed ==
  \/ \E sims \in [Sims -> {"absent", "runnable", "startable", "dead"}] :
       Probed("simctl", {Entry("sim", t, sims[t]) : t \in {u \in Sims : sims[u] # "absent"}})
  \/ Probed("simctl", {})

(* The AVDs the emulator lists, without those just seen running; only when *)
(* the other two have answered.                                            *)
TargetsProbed ==
  /\ found.todo = {"targets"}
  /\ \E listed \in {Avds, {}} :
       /\ ~found.hasAdb => listed = {}
       /\ Probed("targets", {Entry("avd", t, "startable") : t \in
            {u \in listed : Entry("avd", u, "runnable") \notin found.entries}})

Inventoried == Detecting /\ found.todo = {}

Scoped == {e \in found.entries : found.requested \in {"any", e.platform}}
Selectable == IF In(Scoped, "runnable") # {} THEN In(Scoped, "runnable") ELSE In(Scoped, "startable")

(* promptForDeviceSelection asks a terminal until it names an entry; a     *)
(* piped answer, read once, may name none.                                 *)
Prompted(entries) == {{e} : e \in entries} \cup {{}}

(* chooseInventoryEntry: the only selectable entry, or what the prompt says *)
Choices == IF Cardinality(Selectable) > 1 THEN Prompted(Selectable) ELSE {Selectable}

EntryChosen ==
  /\ At("detect") /\ Inventoried
  /\ \E choice \in Choices :
       \/ \E e \in choice :
            /\ found' = [found EXCEPT !.entries = {}, !.chosen = e, !.asked = e.id]
            /\ platform' = e.platform
            /\ GoTo(IF e.state = "startable" THEN "start" ELSE "setUp")
       \/ /\ choice = {}
          /\ GoTo("failed")
          /\ found' = [found EXCEPT !.entries = {}]
          /\ UNCHANGED platform
  /\ UNCHANGED others

(* simctl boot, or a detached emulator that is still there after a second  *)
TargetStarted ==
  /\ At("start")
  /\ \/ /\ Android => found.hasAdb
        /\ GoTo("await")
     \/ GoTo("failed")
  /\ UNCHANGED <<platform, found, others>>

(* _waitForStartableEntry: the polls see it runnable under the identifier  *)
(* it was chosen by, and booted, or their time is up.                      *)
StartAwaited ==
  /\ At("await")
  /\ \/ GoTo("redetect") /\ found' = [found EXCEPT !.todo = Probes]
     \/ GoTo("failed") /\ UNCHANGED found
  /\ UNCHANGED <<platform, others>>

(* Mutant: whatever runs by now will do. *)
TargetFoundAny ==
  /\ At("redetect") /\ Inventoried
  /\ \/ \E e \in In(Scoped, "runnable") :
          found' = [found EXCEPT !.entries = {}, !.chosen = e] /\ GoTo("setUp")
     \/ /\ In(Scoped, "runnable") = {}
        /\ found' = [found EXCEPT !.entries = {}] /\ GoTo("failed")
  /\ UNCHANGED <<platform, others>>

TargetFound ==
  /\ At("redetect") /\ Inventoried
  /\ LET matching == {e \in In(Scoped, "runnable") : e.id = found.chosen.id}
     IN  \/ \E e \in matching :
              found' = [found EXCEPT !.entries = {}, !.chosen = e] /\ GoTo("setUp")
         \/ /\ matching = {}
            /\ found' = [found EXCEPT !.entries = {}] /\ GoTo("failed")
  /\ UNCHANGED <<platform, others>>

DiscoveryStep ==
  \/ AdbProbed \/ SimctlProbed \/ TargetsProbed
  \/ EntryChosen \/ TargetStarted \/ StartAwaited \/ TargetFound
=============================================================================
