------------------------ MODULE ProbeInventoryProofs ------------------------
(***************************************************************************)
(* Proofs that, for every set of probes, interfaces, devices and            *)
(* descriptors, a refresh keeps the index sound, drops no device without    *)
(* the word of its probe, and reports every change of the inventory.        *)
(***************************************************************************)
EXTENDS ProbeInventory, TLAPS

\* The probe under which a device is indexed is one that last reported it.
IndexOwned ==
    \A p \in Probes, i \in Interfaces : \A d \in probe_inventory[p][i] : p \in owner[d]

\* IndexSound is inductive; that nothing is lost needs IndexOwned besides.
InventoryInv ==
    /\ TypeOK
    /\ IndexSound
    /\ IndexOwned
    /\ NothingLost
    /\ EventsRebuildInventory

-----------------------------------------------------------------------------
(* Runs and the operators on them                                           *)

\* The successful probes of a run were called, and each found a snapshot.
LEMMA RunType ==
    ASSUME NEW requested \in SUBSET Interfaces, NEW called \in SUBSET Probes,
           NEW run \in Runs(requested, called)
    PROVE  /\ Succeeded(run) \subseteq Probes
           /\ \A p \in Succeeded(run) : run.found[p] \in Snapshots
<1>1. PICK ok \in SUBSET SelectProbes(requested, called) :
          \E f \in {g \in [ok -> UNION {Findings(requested, p) : p \in ok}] :
                       \A p \in ok : g[p] \in Findings(requested, p)} :
             run = [selected |-> SelectProbes(requested, called),
                    requested |-> requested, found |-> f]
  BY DEF Runs
<1>2. /\ DOMAIN run.found = ok
      /\ \A p \in ok : run.found[p] \in Findings(requested, p)
  BY <1>1
<1>3. ok \subseteq Probes
  BY DEF SelectProbes
<1>. QED  BY <1>2, <1>3 DEF Succeeded, Findings

\* The snapshot of a run is a snapshot; the devices it has are those with a
\* reporter, and there it has what one of the reporters found.
LEMMA SnapshotOfRun ==
    ASSUME NEW requested \in SUBSET Interfaces, NEW called \in SUBSET Probes,
           NEW run \in Runs(requested, called)
    PROVE  /\ RunSnapshot(run) \in Snapshots
           /\ \A d \in Devices :
                 /\ Reporters(run, d) \subseteq Probes
                 /\ Reporters(run, d) = {} <=> RunSnapshot(run)[d] = Absent
<1>1. ASSUME NEW d \in Devices
      PROVE  /\ Reporters(run, d) \subseteq Probes
             /\ RunSnapshot(run)[d] \in Descriptors \cup {Absent}
             /\ Reporters(run, d) = {} <=> RunSnapshot(run)[d] = Absent
  <2>1. Reporters(run, d) \subseteq Probes
    BY RunType DEF Reporters
  <2>2. CASE Reporters(run, d) = {}
    BY <2>2 DEF RunSnapshot
  <2>3. CASE Reporters(run, d) # {}
    <3>. DEFINE p == CHOOSE q \in Reporters(run, d) : TRUE
    <3>1. p \in Reporters(run, d)
      BY <2>3
    <3>2. /\ p \in Succeeded(run)
          /\ run.found[p][d] # Absent
      BY <3>1 DEF Reporters
    <3>3. run.found[p][d] \in Descriptors \cup {Absent}
      <4>1. run.found[p] \in Snapshots
        BY <3>2, RunType
      <4>. HIDE DEF p
      <4>. QED  BY <4>1 DEF Snapshots
    <3>4. RunSnapshot(run)[d] = run.found[p][d]
      BY <2>3 DEF RunSnapshot
    <3>. QED  BY <2>1, <2>3, <3>2, <3>3, <3>4
  <2>. QED  BY <2>1, <2>2, <2>3
<1>2. RunSnapshot(run) \in Snapshots
  BY <1>1 DEF RunSnapshot, Snapshots
<1>. QED  BY <1>1, <1>2

\* An entry of the recorded index is a device that the probe reported, or one
\* that the index had and the run did not replace.
LEMMA RecordedEntry ==
    ASSUME NEW index \in [Probes -> [Interfaces -> SUBSET Devices]], NEW run,
           NEW p \in Probes, NEW i \in Interfaces,
           NEW d \in RecordRun(index, run)[p][i]
    PROVE  /\ d \in Devices
           /\ \/ p \in Reporters(run, d) /\ RunSnapshot(run)[d].interface = i
              \/ d \in index[p][i] /\ ~ (p \in Succeeded(run) /\ i \in Refreshed(run, p))
BY DEF RecordRun

\* record_run and from_run return an index.
LEMMA RecordType ==
    ASSUME NEW index \in [Probes -> [Interfaces -> SUBSET Devices]], NEW run
    PROVE  /\ RecordRun(index, run) \in [Probes -> [Interfaces -> SUBSET Devices]]
           /\ FromRun(run) \in [Probes -> [Interfaces -> SUBSET Devices]]
<1>1. EmptyIndex \in [Probes -> [Interfaces -> SUBSET Devices]]
  BY DEF EmptyIndex
<1>2. ASSUME NEW x \in [Probes -> [Interfaces -> SUBSET Devices]]
      PROVE  RecordRun(x, run) \in [Probes -> [Interfaces -> SUBSET Devices]]
  BY DEF RecordRun
<1>. QED  BY <1>1, <1>2 DEF FromRun

\* An accepted run gives a snapshot, and has what its probes found.
LEMMA NextSnapshot ==
    ASSUME TypeOK,
           NEW mode \in RefreshModes,
           NEW requested \in SUBSET Interfaces, NEW called \in SUBSET Probes,
           NEW run \in Runs(requested, called), Accepted(mode, run)
    PROVE  /\ NextInventory(mode, run) \in Snapshots
           /\ \A d \in Devices : Reporters(run, d) # {} =>
                 /\ NextInventory(mode, run)[d] = RunSnapshot(run)[d]
                 /\ NextInventory(mode, run)[d] # Absent
<1>1. MergeSnapshot(run) \in Snapshots
  BY SnapshotOfRun DEF MergeSnapshot, Snapshots, TypeOK
<1>2. NextInventory(mode, run) \in Snapshots
  BY <1>1, SnapshotOfRun DEF NextInventory
<1>3. ASSUME NEW d \in Devices, Reporters(run, d) # {}
      PROVE  NextInventory(mode, run)[d] = RunSnapshot(run)[d]
  <2>1. Merges(mode, run) => d \notin Kept(run)
    BY <1>3 DEF Accepted, MergeIsValid
  <2>. QED  BY <2>1 DEF NextInventory, MergeSnapshot
<1>. QED  BY <1>2, <1>3, SnapshotOfRun

\* A device of the index that an accepted incremental run does not replace
\* stays as it is, and no probe of the run reported it.
LEMMA UnreplacedStays ==
    ASSUME TypeOK, IndexSound,
           NEW run, Accepted("Incremental", run),
           NEW p \in Probes, NEW i \in Interfaces, NEW d \in probe_inventory[p][i],
           ~ (p \in Succeeded(run) /\ i \in Refreshed(run, p)),
           Succeeded(run) \subseteq Probes
    PROVE  /\ NextInventory("Incremental", run)[d] = inventory[d]
           /\ Reporters(run, d) = {}
<1>1. d \in Devices /\ inventory[d] # Absent /\ inventory[d].interface = i
  BY DEF TypeOK, IndexSound
<1>2. ~ WasReplacedByRun(probe_inventory, d, i, run)
  BY DEF WasReplacedByRun, IndexSound
<1>3. d \in Kept(run)
  BY <1>1, <1>2 DEF Kept
<1>. QED
  BY <1>1, <1>3 DEF Accepted, Merges, MergeIsValid, NextInventory, MergeSnapshot

-----------------------------------------------------------------------------
(* The step of a refresh                                                    *)

\* A committed run preserves the types.
LEMMA CommitType ==
    ASSUME TypeOK, NEW mode \in RefreshModes,
           NEW requested \in SUBSET Interfaces, NEW called \in SUBSET Probes,
           NEW run \in Runs(requested, called), Accepted(mode, run),
           CommitRun(mode, run), UNCHANGED running
    PROVE  TypeOK'
<1>. DEFINE new == NextInventory(mode, run)
<1>1. new \in Snapshots
  BY NextSnapshot
<1>2. running' \in BOOLEAN
  BY DEF TypeOK
<1>3. inventory' \in Snapshots
  BY <1>1 DEF CommitRun
<1>4. probe_inventory' \in [Probes -> [Interfaces -> SUBSET Devices]]
  BY RecordType DEF CommitRun, NextIndex, TypeOK
<1>5. owner' \in [Devices -> SUBSET Probes]
  BY SnapshotOfRun DEF CommitRun, TypeOK
<1>6. lost' \subseteq Devices
  BY DEF CommitRun, TypeOK, Removed
<1>7. mirror' \in Snapshots
  <2>1. ApplyEvents(mirror, inventory, new) \in Snapshots
    BY <1>1 DEF ApplyEvents, Snapshots, TypeOK
  <2>. QED  BY <2>1 DEF CommitRun
<1>. QED  BY <1>2, <1>3, <1>4, <1>5, <1>6, <1>7 DEF TypeOK

\* A committed run keeps the index sound and owned.
LEMMA CommitIndex ==
    ASSUME TypeOK, IndexSound, IndexOwned, NEW mode \in RefreshModes,
           NEW requested \in SUBSET Interfaces, NEW called \in SUBSET Probes,
           NEW run \in Runs(requested, called), Accepted(mode, run),
           CommitRun(mode, run)
    PROVE  IndexSound' /\ IndexOwned'
<1>. DEFINE new == NextInventory(mode, run)
            index == probe_inventory'
            Reported(p, i, d) == p \in Reporters(run, d) /\ RunSnapshot(run)[d].interface = i
            Stays(p, i, d) == /\ mode = "Incremental"
                              /\ d \in probe_inventory[p][i]
                              /\ ~ (p \in Succeeded(run) /\ i \in Refreshed(run, p))
<1>1. ASSUME NEW p \in Probes, NEW i \in Interfaces, NEW d \in index[p][i]
      PROVE  d \in Devices /\ (Reported(p, i, d) \/ Stays(p, i, d))
  <2>1. CASE mode = "Full"
    <3>1. d \in RecordRun(EmptyIndex, run)[p][i]
      BY <2>1 DEF CommitRun, NextIndex, FromRun
    <3>2. /\ EmptyIndex \in [Probes -> [Interfaces -> SUBSET Devices]]
          /\ EmptyIndex[p][i] = {}
      BY DEF EmptyIndex
    <3>. QED  BY <3>1, <3>2, RecordedEntry
  <2>2. CASE mode # "Full"
    <3>1. d \in RecordRun(probe_inventory, run)[p][i]
      BY <2>2 DEF CommitRun, NextIndex
    <3>2. mode = "Incremental"
      BY <2>2 DEF RefreshModes
    <3>. QED  BY <3>1, <3>2, RecordedEntry DEF TypeOK
  <2>. QED  BY <2>1, <2>2
<1>2. \A p \in Probes, i \in Interfaces, d \in Devices : Stays(p, i, d) =>
          new[d] = inventory[d] /\ Reporters(run, d) = {}
  BY UnreplacedStays, RunType
<1>3. \A p \in Probes, i \in Interfaces, d \in Devices : Reported(p, i, d) =>
          new[d] # Absent /\ new[d].interface = i
  BY NextSnapshot
<1>4. ASSUME NEW p \in Probes, NEW i \in Interfaces, NEW d \in index[p][i]
      PROVE  new[d] # Absent /\ new[d].interface = i
  <2>1. CASE Reported(p, i, d)
    BY <2>1, <1>1, <1>3
  <2>2. CASE Stays(p, i, d)
    BY <2>2, <1>1, <1>2 DEF IndexSound
  <2>. QED  BY <2>1, <2>2, <1>1
<1>5. ASSUME NEW p \in Probes, NEW q \in Probes \ {p}, NEW i \in Interfaces,
             NEW d \in index[p][i], d \in index[q][i]
      PROVE  FALSE
  <2>1. /\ d \in Devices
        /\ Reported(p, i, d) \/ Stays(p, i, d)
        /\ Reported(q, i, d) \/ Stays(q, i, d)
    BY <1>1, <1>5
  <2>2. CASE Reported(p, i, d) /\ Reported(q, i, d)
    BY <2>1, <2>2 DEF Accepted, RunIsValid
  <2>3. CASE Stays(p, i, d) /\ Stays(q, i, d)
    BY <2>3 DEF IndexSound
  <2>. QED  BY <1>2, <2>1, <2>2, <2>3
<1>6. inventory' = new
  BY DEF CommitRun
<1>7. IndexSound'
  BY <1>4, <1>5, <1>6 DEF IndexSound
<1>8. ASSUME NEW p \in Probes, NEW i \in Interfaces, NEW d \in index[p][i]
      PROVE  p \in owner'[d]
  <2>1. owner'[d] = IF new[d] = Absent THEN {}
                    ELSE IF Reporters(run, d) # {} THEN Reporters(run, d) ELSE owner[d]
    BY <1>1 DEF CommitRun
  <2>2. CASE Reported(p, i, d)
    BY <2>1, <2>2, <1>4
  <2>3. CASE Stays(p, i, d)
    BY <2>1, <2>3, <1>1, <1>2, <1>4 DEF IndexOwned
  <2>. QED  BY <1>1, <2>2, <2>3
<1>. QED  BY <1>7, <1>8 DEF IndexOwned

\* A committed run drops no device without the word of its probe.
LEMMA CommitEntitled ==
    ASSUME TypeOK, IndexOwned, NothingLost, NEW mode \in RefreshModes,
           NEW requested \in SUBSET Interfaces, NEW called \in SUBSET Probes,
           NEW run \in Runs(requested, called), CommitRun(mode, run)
    PROVE  NothingLost'
<1>. DEFINE new == NextInventory(mode, run)
<1>1. ASSUME NEW d \in Removed(inventory, new)
      PROVE  Entitled(mode, run, d)
  <2>1. d \in Devices /\ inventory[d] # Absent /\ new[d] = Absent
    BY DEF Removed
  <2>2. CASE ~ Merges(mode, run)
    BY <2>2 DEF Merges, Entitled, RefreshModes
  <2>3. CASE Merges(mode, run)
    <3>1. d \notin Kept(run)
      BY <2>1, <2>3 DEF NextInventory, MergeSnapshot
    <3>2. WasReplacedByRun(probe_inventory, d, inventory[d].interface, run)
      BY <2>1, <3>1 DEF Kept
    <3>3. PICK p \in Succeeded(run) : /\ inventory[d].interface \in Refreshed(run, p)
                                      /\ d \in probe_inventory[p][inventory[d].interface]
      BY <3>2 DEF WasReplacedByRun
    <3>4. p \in Probes /\ inventory[d].interface \in Interfaces
      BY <2>1, RunType, DescriptorAssumption DEF TypeOK, Snapshots
    <3>. QED  BY <3>3, <3>4 DEF IndexOwned, Entitled
  <2>. QED  BY <2>2, <2>3
<1>. QED  BY <1>1 DEF CommitRun, NothingLost

\* The events of a diff turn the old snapshot into the new one.
LEMMA EventsCoverDiff ==
    ASSUME NEW old \in Snapshots, NEW new \in Snapshots
    PROVE  ApplyEvents(old, old, new) = new
<1>1. \A d \in Devices : ApplyEvents(old, old, new)[d] = new[d]
  BY DEF ApplyEvents, Added, Removed, Changed
<1>. QED  BY <1>1 DEF ApplyEvents, Snapshots

-----------------------------------------------------------------------------
(* The invariant                                                            *)

LEMMA InventoryInit == Init => InventoryInv
<1>. SUFFICES ASSUME Init PROVE InventoryInv
  OBVIOUS
<1>1. TypeOK
  BY DEF Init, TypeOK, Snapshots, Empty, EmptyIndex
<1>2. IndexSound /\ IndexOwned
  BY DEF Init, IndexSound, IndexOwned, EmptyIndex
<1>3. NothingLost /\ EventsRebuildInventory
  BY DEF Init, NothingLost, EventsRebuildInventory
<1>. QED  BY <1>1, <1>2, <1>3 DEF InventoryInv

\* Every step of the module preserves the invariant.
LEMMA InventoryStep == InventoryInv /\ [Next]_vars => InventoryInv'
<1>. SUFFICES ASSUME InventoryInv, [Next]_vars PROVE InventoryInv'
  OBVIOUS
<1>. USE DEF InventoryInv
<1>1. ASSUME NEW mode \in RefreshModes, NEW requested \in SUBSET Interfaces,
             NEW called \in SUBSET Probes, NEW run \in Runs(requested, called),
             Accepted(mode, run), CommitRun(mode, run), UNCHANGED running
      PROVE  InventoryInv'
  <2>1. TypeOK'
    BY <1>1, CommitType
  <2>2. IndexSound' /\ IndexOwned'
    BY <1>1, CommitIndex
  <2>3. NothingLost'
    BY <1>1, CommitEntitled
  <2>4. EventsRebuildInventory'
    BY <1>1, NextSnapshot, EventsCoverDiff DEF CommitRun, EventsRebuildInventory, TypeOK
  <2>. QED  BY <2>1, <2>2, <2>3, <2>4
<1>2. CASE UNCHANGED vars
  BY <1>2 DEF vars, TypeOK, IndexSound, IndexOwned, NothingLost, EventsRebuildInventory
<1>3. CASE Start
  BY <1>3 DEF Start, TypeOK, IndexSound, IndexOwned, NothingLost, EventsRebuildInventory
<1>4. CASE Shutdown
  <2>1. TypeOK'
    BY <1>4 DEF Shutdown, TypeOK, EmptyIndex
  <2>2. IndexSound' /\ IndexOwned'
    BY <1>4 DEF Shutdown, EmptyIndex, IndexSound, IndexOwned
  <2>3. NothingLost' /\ EventsRebuildInventory'
    BY <1>4 DEF Shutdown, NothingLost, EventsRebuildInventory
  <2>. QED  BY <2>1, <2>2, <2>3
<1>. QED  BY <1>1, <1>2, <1>3, <1>4 DEF Next, Refresh

THEOREM InventoryInductive == Spec => []InventoryInv
<1>. QED  BY InventoryInit, InventoryStep, PTL DEF Spec

\* Inventory, index and histories keep their types.
THEOREM InventoryTypeCorrect == Spec => []TypeOK
<1>1. InventoryInv => TypeOK
  BY DEF InventoryInv
<1>. QED  BY <1>1, InventoryInductive, PTL

\* IndexSound holds for every set of probes: refreshing some interfaces, with
\* some probes failing, leaves each entry of the index at the device that its
\* probe last reported.
THEOREM IndexIsSound == Spec => []IndexSound
<1>1. InventoryInv => IndexSound
  BY DEF InventoryInv
<1>. QED  BY <1>1, InventoryInductive, PTL

\* NothingLost holds for every set of probes: an incremental refresh, or a full
\* one with a failed probe, drops a device only on the word of the probe that
\* last reported it.
THEOREM FailureLosesNothing == Spec => []NothingLost
<1>1. InventoryInv => NothingLost
  BY DEF InventoryInv
<1>. QED  BY <1>1, InventoryInductive, PTL

\* EventsRebuildInventory holds for every set of probes: the diff of a refresh
\* names every device whose entry changed.
THEOREM EventsAreComplete == Spec => []EventsRebuildInventory
<1>1. InventoryInv => EventsRebuildInventory
  BY DEF InventoryInv
<1>. QED  BY <1>1, InventoryInductive, PTL
=============================================================================
