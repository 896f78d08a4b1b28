------------------------- MODULE WatchRefreshProofs -------------------------
(***************************************************************************)
(* Proofs that, for every set of probes, interfaces and watch events, a     *)
(* refresh driven by a watcher is a refresh, and that in StrictScoped mode  *)
(* an incremental one stays on the interfaces that the events named.        *)
(***************************************************************************)
EXTENDS WatchRefresh, ProbeInventoryProofs

\* The inductive invariant.
WatchInv ==
    /\ InventoryInv
    /\ pending \subseteq WatchEvents
    /\ IncrementalStaysInScope

-----------------------------------------------------------------------------

\* A scope asks only interfaces of the call, and only its probes; in
\* StrictScoped mode it names interfaces, and only touched ones.
LEMMA ScopeOfCall ==
    ASSUME NEW requested \in SUBSET Interfaces, NEW called \in SUBSET Probes,
           NEW touched \in SUBSET Interfaces,
           WatchRefreshScope(requested, called, touched) # NoScope
    PROVE  LET scope == WatchRefreshScope(requested, called, touched) IN
           /\ scope.requested \in SUBSET Interfaces
           /\ scope.called \in SUBSET Probes
           /\ watch_mode = "StrictScoped" =>
                 scope.requested # {} /\ scope.requested \subseteq touched
<1>. DEFINE scope == WatchRefreshScope(requested, called, touched)
            wanted == IF requested = {} THEN touched ELSE requested \cap touched
            probes == {p \in called : InterfacesOf[p] \cap wanted # {}}
            whole == [requested |-> requested, called |-> called]
            narrow == [requested |-> wanted, called |-> probes]
<1>1. \/ scope = whole /\ watch_mode # "StrictScoped"
      \/ scope = narrow /\ wanted # {}
  BY DEF WatchRefreshScope
<1>2. wanted \subseteq touched /\ probes \subseteq called
  OBVIOUS
<1>. QED  BY <1>1, <1>2

\* What a probe reports lies on the interfaces that the run asked it for.
LEMMA ReportsAreOfRequest ==
    ASSUME NEW requested \in SUBSET Interfaces, requested # {}, NEW called \in SUBSET Probes,
           NEW run \in Runs(requested, called)
    PROVE  /\ \A p \in Succeeded(run) : Refreshed(run, p) \subseteq requested
           /\ \A d \in Devices : Reporters(run, d) # {} =>
                 RunSnapshot(run)[d].interface \in requested
<1>1. PICK ok \in SUBSET SelectProbes(requested, called) :
          \E f \in {g \in [ok -> UNION {Findings(requested, p) : p \in ok}] :
                       \A p \in ok : g[p] \in Findings(requested, p)} :
             run = [selected |-> SelectProbes(requested, called),
                    requested |-> requested, found |-> f]
  BY DEF Runs
<1>2. /\ run.requested = requested
      /\ DOMAIN run.found = ok
      /\ \A p \in ok : run.found[p] \in Findings(requested, p)
  BY <1>1
<1>3. \A p \in Succeeded(run) : Refreshed(run, p) \subseteq requested
  BY <1>2 DEF Refreshed, SelectedInterfaces
<1>4. ASSUME NEW d \in Devices, Reporters(run, d) # {}
      PROVE  RunSnapshot(run)[d].interface \in requested
  <2>. DEFINE p == CHOOSE q \in Reporters(run, d) : TRUE
  <2>1. p \in Reporters(run, d)
    BY <1>4
  <2>2. RunSnapshot(run)[d] = run.found[p][d]
    BY <1>4 DEF RunSnapshot
  <2>. HIDE DEF p
  <2>3. p \in ok /\ run.found[p][d] # Absent
    BY <1>2, <2>1 DEF Reporters, Succeeded
  <2>4. run.found[p][d].interface \in SelectedInterfaces(requested, p)
    BY <1>2, <2>3 DEF Findings
  <2>. QED  BY <2>2, <2>4 DEF SelectedInterfaces
<1>. QED  BY <1>3, <1>4

\* An incremental run for some interfaces disturbs only devices that were, or
\* now are, on one of them.
LEMMA IncrementalScope ==
    ASSUME TypeOK,
           NEW requested \in SUBSET Interfaces, requested # {}, NEW called \in SUBSET Probes,
           NEW touched, requested \subseteq touched,
           NEW run \in Runs(requested, called), Accepted("Incremental", run)
    PROVE  ~ LeavesScope(NextInventory("Incremental", run), touched)
<1>. DEFINE new == NextInventory("Incremental", run)
<1>1. new = MergeSnapshot(run)
  BY DEF NextInventory, Merges
<1>2. SUFFICES ASSUME NEW d \in Disturbed(inventory, new)
               PROVE  {inventory[d], new[d]} \cap {c \in Descriptors : c.interface \in touched} # {}
  BY DEF LeavesScope
<1>3. d \in Devices /\ inventory[d] # new[d]
  BY DEF Disturbed, Added, Changed, Removed
<1>4. d \notin Kept(run)
  BY <1>1, <1>3 DEF MergeSnapshot
<1>5. CASE inventory[d] # Absent
  <2>1. inventory[d] \in Descriptors
    BY <1>3, <1>5 DEF TypeOK, Snapshots
  <2>2. PICK p \in Succeeded(run) : inventory[d].interface \in Refreshed(run, p)
    BY <1>3, <1>4, <1>5 DEF Kept, WasReplacedByRun
  <2>. QED  BY <2>1, <2>2, ReportsAreOfRequest
<1>6. CASE inventory[d] = Absent
  <2>1. new[d] = RunSnapshot(run)[d] /\ new[d] # Absent
    BY <1>1, <1>3, <1>4, <1>6 DEF MergeSnapshot
  <2>2. Reporters(run, d) # {}
    BY <1>3, <2>1 DEF RunSnapshot
  <2>3. new[d] \in Descriptors
    BY <1>3, <2>1, SnapshotOfRun DEF Snapshots
  <2>. QED  BY <1>3, <2>1, <2>2, <2>3, ReportsAreOfRequest
<1>. QED  BY <1>5, <1>6

-----------------------------------------------------------------------------

\* A watch-driven refresh is a step of ProbeInventory, or leaves it alone.
LEMMA WatchStepOfInventory ==
    pending \subseteq WatchEvents /\ [WatchNext]_<<vars, watchVars>> => [Next]_vars
<1>. SUFFICES ASSUME pending \subseteq WatchEvents, [WatchNext]_<<vars, watchVars>>
              PROVE  [Next]_vars
  OBVIOUS
<1>1. ASSUME NEW mode \in RefreshModes, NEW requested \in SUBSET Interfaces,
             NEW called \in SUBSET Probes, PollWatcherAndRefresh(mode, requested, called)
      PROVE  [Next]_vars
  <2>. DEFINE scope == WatchRefreshScope(requested, called, UNION pending)
  <2>1. UNION pending \in SUBSET Interfaces
    BY WatchAssumption
  <2>2. CASE scope = NoScope
    BY <1>1, <2>2 DEF PollWatcherAndRefresh
  <2>3. CASE scope # NoScope
    <3>1. scope.requested \in SUBSET Interfaces /\ scope.called \in SUBSET Probes
      BY <2>1, <2>3, ScopeOfCall
    <3>2. PICK run \in Runs(scope.requested, scope.called) :
              IF running /\ Accepted(mode, run) THEN CommitRun(mode, run)
              ELSE UNCHANGED vars
      BY <1>1, <2>3 DEF PollWatcherAndRefresh
    <3>3. UNCHANGED running
      BY <1>1 DEF PollWatcherAndRefresh
    <3>4. CASE running /\ Accepted(mode, run)
      <4>1. Refresh(mode, scope.requested, scope.called)
        BY <3>2, <3>3, <3>4 DEF Refresh
      <4>. QED  BY <3>1, <4>1 DEF Next
    <3>. QED  BY <3>2, <3>4
  <2>. QED  BY <2>2, <2>3
<1>2. CASE \/ Next
           \/ \E e \in WatchEvents : WatchEvent(e)
           \/ \E mode \in WatchModes : SetWatchMode(mode)
           \/ UNCHANGED <<vars, watchVars>>
  BY <1>2 DEF WatchEvent, SetWatchMode
<1>. QED  BY <1>1, <1>2 DEF WatchNext

LEMMA WatchStep == WatchInv /\ [WatchNext]_<<vars, watchVars>> => WatchInv'
<1>. SUFFICES ASSUME WatchInv, [WatchNext]_<<vars, watchVars>> PROVE WatchInv'
  OBVIOUS
<1>. USE DEF WatchInv
<1>1. InventoryInv'
  BY WatchStepOfInventory, InventoryStep
<1>2. pending' \subseteq WatchEvents
  BY DEF WatchNext, WatchEvent, SetWatchMode, PollWatcherAndRefresh, watchVars
<1>3. IncrementalStaysInScope'
  <2>1. ASSUME NEW mode \in RefreshModes, NEW requested \in SUBSET Interfaces,
               NEW called \in SUBSET Probes, PollWatcherAndRefresh(mode, requested, called)
        PROVE  "Incremental" \notin strayed'
    <3>. DEFINE touched == UNION pending
                scope == WatchRefreshScope(requested, called, touched)
    <3>1. touched \in SUBSET Interfaces
      BY WatchAssumption
    <3>2. CASE UNCHANGED strayed
      BY <3>2 DEF IncrementalStaysInScope
    <3>3. CASE scope # NoScope /\ ~ UNCHANGED strayed
      <4>1. PICK run \in Runs(scope.requested, scope.called) :
                /\ Accepted(mode, run)
                /\ strayed' = strayed \cup
                      (IF watch_mode = "StrictScoped"
                          /\ LeavesScope(NextInventory(mode, run), touched)
                       THEN {mode} ELSE {})
        BY <2>1, <3>3 DEF PollWatcherAndRefresh
      <4>2. /\ scope.requested \in SUBSET Interfaces
            /\ scope.called \in SUBSET Probes
            /\ watch_mode = "StrictScoped" =>
                  scope.requested # {} /\ scope.requested \subseteq touched
        BY <3>1, <3>3, ScopeOfCall
      <4>3. watch_mode = "StrictScoped" /\ mode = "Incremental" =>
                ~ LeavesScope(NextInventory(mode, run), touched)
        BY <4>1, <4>2, IncrementalScope DEF InventoryInv
      <4>. QED  BY <4>1, <4>3 DEF IncrementalStaysInScope
    <3>. QED  BY <2>1, <3>2, <3>3 DEF PollWatcherAndRefresh
  <2>2. CASE UNCHANGED strayed
    BY <2>2 DEF IncrementalStaysInScope
  <2>. QED
    BY <2>1, <2>2 DEF WatchNext, WatchEvent, SetWatchMode, watchVars, IncrementalStaysInScope
<1>. QED  BY <1>1, <1>2, <1>3

THEOREM WatchInductive == WatchSpec => []WatchInv
<1>1. WatchInit => WatchInv
  BY InventoryInit DEF WatchInit, WatchInv, IncrementalStaysInScope
<1>. QED  BY <1>1, WatchStep, PTL DEF WatchSpec

\* In StrictScoped mode no incremental watch refresh adds, changes or removes a
\* device that was not, and is not, on an interface the watcher named.
THEOREM StrictIncrementalScope == WatchSpec => []IncrementalStaysInScope
<1>1. WatchInv => IncrementalStaysInScope
  BY DEF WatchInv
<1>. QED  BY <1>1, WatchInductive, PTL

\* Whatever the mode and the events, the watcher only ever triggers refreshes.
THEOREM WatchImplementsInventory == WatchSpec => ImplementsProbeInventory
<1>1. WatchInit => Init
  BY DEF WatchInit
<1>2. WatchInv => pending \subseteq WatchEvents
  BY DEF WatchInv
<1>. QED
  BY <1>1, <1>2, WatchStepOfInventory, WatchInductive, PTL
  DEF WatchSpec, Spec, ImplementsProbeInventory

LEMMA WatchTypeStep ==
    WatchTypeOK /\ [WatchNext]_<<vars, watchVars>>
        => watch_mode' \in WatchModes /\ strayed' \subseteq RefreshModes
<1>. SUFFICES ASSUME WatchTypeOK, [WatchNext]_<<vars, watchVars>>
              PROVE  watch_mode' \in WatchModes /\ strayed' \subseteq RefreshModes
  OBVIOUS
<1>1. ASSUME NEW mode \in RefreshModes, NEW requested \in SUBSET Interfaces,
             NEW called \in SUBSET Probes, PollWatcherAndRefresh(mode, requested, called)
      PROVE  watch_mode' = watch_mode /\ strayed' \subseteq strayed \cup {mode}
  BY <1>1 DEF PollWatcherAndRefresh
<1>. QED
  BY <1>1 DEF WatchTypeOK, WatchNext, WatchEvent, SetWatchMode, watchVars

\* Under a watcher the inventory, its index and the configuration keep their
\* types.
THEOREM WatchTypeCorrect == WatchSpec => []WatchTypeOK
<1>1. WatchInit => WatchTypeOK
  BY InventoryInit DEF WatchInit, InventoryInv, WatchTypeOK
<1>2. WatchInv' /\ WatchTypeOK /\ [WatchNext]_<<vars, watchVars>> => WatchTypeOK'
  BY WatchTypeStep DEF WatchInv, InventoryInv, WatchTypeOK
<1>. QED  BY <1>1, <1>2, WatchInductive, PTL DEF WatchSpec
=============================================================================
