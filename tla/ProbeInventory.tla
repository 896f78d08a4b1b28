--------------------------- MODULE ProbeInventory ---------------------------
(***************************************************************************)
(* Discovery runs, the inventory they produce, and the index that remembers *)
(* which probe reported which device (lemnos-discovery, and the refresh of  *)
(* lemnos-runtime that commits a run).                                      *)
(*                                                                         *)
(* An InventorySnapshot is a function from device ids to descriptors: the   *)
(* code keeps a vector, and validate_devices rejects a repeated id.  Of a   *)
(* descriptor the model keeps its interface and whatever else Descriptors   *)
(* gives it.  Observation times, notes and enrichers are left out: the      *)
(* runtime's refresh never calls an enricher.                               *)
(***************************************************************************)
EXTENDS FiniteSets

CONSTANTS
    Probes,
    Interfaces,
    InterfacesOf,   \* DiscoveryProbe::interfaces
    Devices,        \* device ids
    Descriptors,    \* records with a field interface
    Reportable,     \* the descriptors that a probe may report for a device
    Absent          \* not in the inventory

ASSUME ProbeAssumption ==
    /\ InterfacesOf \in [Probes -> SUBSET Interfaces]
    /\ Reportable \in [Probes -> [Devices -> SUBSET Descriptors]]

ASSUME DescriptorAssumption ==
    /\ Absent \notin Descriptors
    /\ \A c \in Descriptors : c.interface \in Interfaces

VARIABLES
    running,            \* Runtime.running
    inventory,          \* Runtime.inventory
    probe_inventory,    \* ProbeInventoryIndex.devices_by_probe
    owner,              \* history: the probes that last reported each device
    lost,               \* history: devices that a refresh had no right to drop
    mirror              \* history: the inventory rebuilt from the events

vars == <<running, inventory, probe_inventory, owner, lost, mirror>>

Snapshots == [Devices -> Descriptors \cup {Absent}]

Empty == [d \in Devices |-> Absent]

EmptyIndex == [p \in Probes |-> [i \in Interfaces |-> {}]]

RefreshModes == {"Full", "Incremental"}

-----------------------------------------------------------------------------
(* A discovery run                                                          *)

\* selected_interfaces: an empty request asks for everything.
SelectedInterfaces(requested, p) ==
    IF requested = {} THEN InterfacesOf[p] ELSE InterfacesOf[p] \cap requested

\* select_probes: the probes of the call that have an interface to refresh.
SelectProbes(requested, called) ==
    {p \in called : SelectedInterfaces(requested, p) # {}}

\* What probe p can find: its devices, on the interfaces it was asked for.
Findings(requested, p) ==
    {s \in Snapshots : \A d \in Devices :
        s[d] # Absent => /\ s[d] \in Reportable[p][d]
                         /\ s[d].interface \in SelectedInterfaces(requested, p)}

\* The runs of a call: some of the selected probes succeed, the others fail.
\* A report is what its probe found, on the interfaces it refreshed.
Runs(requested, called) ==
    LET selected == SelectProbes(requested, called) IN
    UNION {{[selected |-> selected, requested |-> requested, found |-> f] :
               f \in {g \in [ok -> UNION {Findings(requested, p) : p \in ok}] :
                         \A p \in ok : g[p] \in Findings(requested, p)}} :
           ok \in SUBSET selected}

Succeeded(run) == DOMAIN run.found

HasProbeFailures(run) == Succeeded(run) # run.selected

Refreshed(run, p) == SelectedInterfaces(run.requested, p)

Reporters(run, d) == {p \in Succeeded(run) : run.found[p][d] # Absent}

\* validate_devices on the devices of all probes: no id twice.
RunIsValid(run) ==
    \A d \in Devices : \A p, q \in Reporters(run, d) : p = q

\* The snapshot of a valid run.
RunSnapshot(run) ==
    [d \in Devices |->
        IF Reporters(run, d) = {} THEN Absent
        ELSE run.found[CHOOSE p \in Reporters(run, d) : TRUE][d]]

-----------------------------------------------------------------------------
(* The index                                                                *)

\* Faulty variant: what the probe found is added to what it had found before.
RecordAdditions(index, run) ==
    [p \in Probes |-> [i \in Interfaces |->
        index[p][i] \cup
        {d \in Devices : p \in Reporters(run, d) /\ RunSnapshot(run)[d].interface = i}]]

\* record_run: a successful report replaces the probe's entry for every
\* interface it refreshed and then adds the devices it found.
RecordRun(index, run) ==
    LET snapshot == RunSnapshot(run) IN
    [p \in Probes |-> [i \in Interfaces |->
        (IF p \in Succeeded(run) /\ i \in Refreshed(run, p)
         THEN {} ELSE index[p][i])
        \cup {d \in Devices : p \in Reporters(run, d) /\ snapshot[d].interface = i}]]

\* Faulty variant: a probe that failed has no entry at all.
FromReports(run) == [p \in Succeeded(run) |-> RecordRun(EmptyIndex, run)[p]]

\* from_run
FromRun(run) == RecordRun(EmptyIndex, run)

\* Faulty variant: a failed report also replaces its devices.
ReplacedByAnyReport(index, d, i, run) ==
    \E p \in run.selected : i \in Refreshed(run, p) /\ d \in index[p][i]

\* was_replaced_by_run
WasReplacedByRun(index, d, i, run) ==
    \E p \in Succeeded(run) : i \in Refreshed(run, p) /\ d \in index[p][i]

\* The devices that merge_snapshot keeps from the current inventory.
Kept(run) ==
    {d \in Devices :
        /\ inventory[d] # Absent
        /\ ~ WasReplacedByRun(probe_inventory, d, inventory[d].interface, run)}

\* merge_snapshot is rejected with DuplicateDeviceId when a device is both kept
\* and found.
MergeIsValid(run) == \A d \in Kept(run) : Reporters(run, d) = {}

MergeSnapshot(run) ==
    [d \in Devices |-> IF d \in Kept(run) THEN inventory[d] ELSE RunSnapshot(run)[d]]

-----------------------------------------------------------------------------
(* Committing a run                                                         *)

\* Does the refresh merge the run into the inventory, or replace it?
\* materialize_refresh_inventory merges only if a probe failed.
Merges(mode, run) == mode = "Incremental" \/ HasProbeFailures(run)

\* prepare_refresh_commit returns an error and changes nothing otherwise.
Accepted(mode, run) == RunIsValid(run) /\ (Merges(mode, run) => MergeIsValid(run))

NextInventory(mode, run) ==
    IF Merges(mode, run) THEN MergeSnapshot(run) ELSE RunSnapshot(run)

NextIndex(mode, run) ==
    IF mode = "Full" THEN FromRun(run) ELSE RecordRun(probe_inventory, run)

\* InventorySnapshot::diff
Added(old, new) == {d \in Devices : old[d] = Absent /\ new[d] # Absent}

Removed(old, new) == {d \in Devices : old[d] # Absent /\ new[d] = Absent}

\* Faulty variant: a change of descriptor is not seen.
ChangedInterface(old, new) ==
    {d \in Devices : old[d] # Absent /\ new[d] # Absent
                        /\ old[d].interface # new[d].interface}

Changed(old, new) ==
    {d \in Devices : old[d] # Absent /\ new[d] # Absent /\ old[d] # new[d]}

\* A consumer that applies the events of a diff to its copy: Added and Changed
\* carry the current descriptor, Removed the id.
ApplyEvents(copy, old, new) ==
    [d \in Devices |->
        IF d \in Added(old, new) \cup Changed(old, new) THEN new[d]
        ELSE IF d \in Removed(old, new) THEN Absent
        ELSE copy[d]]

\* A device may leave the inventory if the probe that last reported it ran
\* without error on its interface, or in a full refresh none of whose selected
\* probes failed: its run is the whole inventory then, whichever probes and
\* interfaces it was asked for.
Entitled(mode, run, d) ==
    \/ \E p \in owner[d] \cap Succeeded(run) : inventory[d].interface \in Refreshed(run, p)
    \/ mode = "Full" /\ ~ HasProbeFailures(run)

CommitRun(mode, run) ==
    LET new == NextInventory(mode, run) IN
    /\ inventory' = new
    /\ probe_inventory' = NextIndex(mode, run)
    /\ owner' = [d \in Devices |->
                    IF new[d] = Absent THEN {}
                    ELSE IF Reporters(run, d) # {} THEN Reporters(run, d)
                    ELSE owner[d]]
    /\ lost' = lost \cup {d \in Removed(inventory, new) : ~ Entitled(mode, run, d)}
    /\ mirror' = ApplyEvents(mirror, inventory, new)

\* refresh and refresh_incremental.  A run with a repeated id, or one that
\* does not merge, is an error that leaves the runtime alone.
Refresh(mode, requested, called) ==
    \E run \in Runs(requested, called) :
        /\ running
        /\ IF Accepted(mode, run)
           THEN CommitRun(mode, run) /\ UNCHANGED running
           ELSE UNCHANGED vars

Start ==
    /\ running' = TRUE
    /\ UNCHANGED <<inventory, probe_inventory, owner, lost, mirror>>

\* shutdown_detached forgets the index and keeps the inventory.
Shutdown ==
    /\ running' = FALSE
    /\ probe_inventory' = EmptyIndex
    /\ UNCHANGED <<inventory, owner, lost, mirror>>

\* Runtime::default is running.
Init ==
    /\ running = TRUE
    /\ inventory = Empty
    /\ probe_inventory = EmptyIndex
    /\ owner = [d \in Devices |-> {}]
    /\ lost = {}
    /\ mirror = Empty

Next ==
    \/ Start
    \/ Shutdown
    \/ \E mode \in RefreshModes, requested \in SUBSET Interfaces, called \in SUBSET Probes :
          Refresh(mode, requested, called)

Spec == Init /\ [][Next]_vars

-----------------------------------------------------------------------------
(* Properties                                                               *)

\* Inventory, index and histories have their types.
TypeOK ==
    /\ running \in BOOLEAN
    /\ inventory \in Snapshots
    /\ probe_inventory \in [Probes -> [Interfaces -> SUBSET Devices]]
    /\ owner \in [Devices -> SUBSET Probes]
    /\ lost \subseteq Devices
    /\ mirror \in Snapshots

\* Every entry of the index is a device of the inventory, filed under the
\* interface it has there, and no device is filed under two probes: otherwise
\* merge_snapshot would keep a device that its probe no longer reports, or one
\* probe's report would drop the device of another.
IndexSound ==
    \A p \in Probes, i \in Interfaces : \A d \in probe_inventory[p][i] :
        /\ inventory[d] # Absent
        /\ inventory[d].interface = i
        /\ \A q \in Probes \ {p} : d \notin probe_inventory[q][i]

\* An incremental refresh, and a full one with a failed probe, drop a device
\* only on the word of the probe that last reported it: there, a probe that
\* failed or was not asked never costs the runtime a device, whatever earlier
\* refreshes left in the index.  A full refresh without a failure replaces the
\* inventory, the devices of probes that it did not ask included.
NothingLost == lost = {}

\* The Added, Changed and Removed events of all refreshes, applied in order,
\* rebuild the inventory.
EventsRebuildInventory == mirror = inventory

\* A full refresh with a failing probe, whose other probes agree on which
\* devices exist, is not rejected: "refresh should preserve prior inventory on
\* probe failure" (tests/mock_runtime/lifecycle/inventory.rs).
RefreshToleratesFailure ==
    running => \A requested \in SUBSET Interfaces, called \in SUBSET Probes :
                  \A run \in Runs(requested, called) :
                      RunIsValid(run) /\ HasProbeFailures(run) => Accepted("Full", run)
=============================================================================
