------------------------------ MODULE Runtime ------------------------------
(***************************************************************************)
(* The synchronous Runtime of lemnos-runtime: driver registry, bindings,    *)
(* cached states, desired bindings and failure records, on top of the       *)
(* inventory and probe index of ProbeInventory.                             *)
(*                                                                         *)
(* Every public method takes `&mut self`, so each is one action.  What a    *)
(* driver does (bind, state, execute, close) is external: each call may     *)
(* fail, and state may report nothing.  Of a binding the model keeps the    *)
(* driver and the descriptor it was bound with, of a cached state the       *)
(* binding that produced it, of the failure records which devices have one. *)
(***************************************************************************)
EXTENDS ProbeInventory, DriverMatching, Integers

CONSTANTS
    Drivers,
    Manifests,      \* the manifest of a driver
    Facts,          \* what can be asked of a device with a descriptor
    Configs,        \* the RuntimeConfig values that set_config may install
    NoDriver, Unbound, NoState

ASSUME RegistryAssumption ==
    /\ DOMAIN Manifests = Drivers
    /\ \A r \in Drivers : IsManifest(Manifests[r])
    /\ DOMAIN Facts = Descriptors
    /\ NoDriver \notin Drivers

ASSUME ConfigAssumption ==
    /\ Configs # {}
    /\ Configs \subseteq [auto_bind_on_request : BOOLEAN, auto_rebind_on_refresh : BOOLEAN,
                          cache_state_on_bind : BOOLEAN, cache_state_on_request : BOOLEAN]

VARIABLES
    config,
    drivers,            \* DriverRegistry.drivers
    preferred,          \* DriverRegistry.preferred_drivers
    bindings,
    states,
    desired_bindings,
    failures,           \* the devices with a failure record
    open,               \* history: bound devices that exist and are not closed
    released            \* history: devices that nobody asked for since they
                        \* were unbound or the runtime was shut down

registryVars == <<drivers, preferred>>
deviceVars == <<bindings, states, desired_bindings, failures, open, released>>
runtimeVars == <<vars, config, registryVars, deviceVars>>

Handles == [driver : Drivers, descriptor : Descriptors]

ASSUME HandleAssumption == Unbound \notin Handles /\ NoState \notin Handles

IsBound(d) == bindings[d] # Unbound

-----------------------------------------------------------------------------
(* The driver registry                                                      *)

\* Driver::matches, as the drivers of this repository inherit it.
Match(r, c) == MatchDevice(Manifests[r], c.interface, Facts[c])

Candidates(c) == {r \in drivers : IsSupported(Match(r, c))}

\* resolve: the preferred driver if it matches, otherwise the one driver that
\* outranks all others; a preferred driver that does not match, a tie for the
\* best rank, or no candidate is an error.
Resolve(d, c) ==
    LET candidates == Candidates(c)
        eligible == IF preferred[d] # NoDriver THEN candidates \cap {preferred[d]}
                    ELSE UniqueBest(candidates, [r \in candidates |-> Match(r, c)])
    IN  IF eligible = {} THEN NoDriver ELSE CHOOSE r \in eligible : TRUE

\* register_driver; a second driver with the same id is refused, and one whose
\* manifest is not valid.
RegisterDriver(r) ==
    /\ r \notin drivers /\ ValidManifest(Manifests[r])
    /\ drivers' = drivers \cup {r}
    /\ UNCHANGED <<vars, config, preferred, deviceVars>>

\* prefer_driver_for_device
PreferDriver(d, r) ==
    /\ r \in drivers
    /\ preferred' = [preferred EXCEPT ![d] = r]
    /\ UNCHANGED <<vars, config, drivers, deviceVars>>

ClearPreferredDriver(d) ==
    /\ preferred' = [preferred EXCEPT ![d] = NoDriver]
    /\ UNCHANGED <<vars, config, drivers, deviceVars>>

-----------------------------------------------------------------------------
(* Binding                                                                  *)

\* The result of an operation on a device: whether it succeeds, the handle it
\* stores, if any, and the state it reads, if any.
Outcome(ok, stored, state) == [ok |-> ok, stored |-> stored, state |-> state]

Failed == Outcome(FALSE, Unbound, NoState)
Nothing == Outcome(TRUE, Unbound, NoState)

\* Faulty variant: the registry's error is lost.
BindUnresolved(d, c, bound) ==
    LET handle == [driver |-> Resolve(d, c), descriptor |-> c] IN
    IF ~ running \/ c = Absent THEN {Failed}
    ELSE IF bound THEN {Nothing} ELSE {Failed, Outcome(TRUE, handle, NoState)}

\* What bind_device_by_id may do for device d with descriptor c (Absent if
\* the device is not in the inventory), given whether it is bound.  When the
\* initial state cannot be read the new bound device is dropped unclosed.
BindOutcomes(d, c, bound) ==
    LET driver == Resolve(d, c)
        handle == [driver |-> driver, descriptor |-> c]
    IN  IF ~ running THEN {Failed}
        ELSE IF bound THEN {Nothing}
        ELSE IF c = Absent \/ driver = NoDriver THEN {Failed}
        ELSE {Failed, Outcome(TRUE, handle, NoState)} \cup
             (IF config.cache_state_on_bind THEN {Outcome(TRUE, handle, handle)} ELSE {})

\* store_bound_device and complete_operation for device d.
Stored(o, old) == IF o.stored = Unbound THEN old ELSE o.stored
Cached(o, old) == IF o.state = NoState THEN old ELSE o.state
Opened(o) == IF o.stored = Unbound THEN 0 ELSE 1

Apply(d, o) ==
    /\ bindings' = [bindings EXCEPT ![d] = Stored(o, @)]
    /\ states' = [states EXCEPT ![d] = Cached(o, @)]
    /\ failures' = IF o.ok THEN failures \ {d} ELSE failures \cup {d}
    /\ open' = [open EXCEPT ![d] = @ + Opened(o)]

\* bind: a device that is already bound also becomes desired.
Bind(d) ==
    \E o \in BindOutcomes(d, inventory[d], IsBound(d)) :
        /\ Apply(d, o)
        /\ desired_bindings' = desired_bindings \cup (IF o.ok THEN {d} ELSE {})
        /\ released' = released \ {d}
        /\ UNCHANGED <<vars, config, registryVars>>

\* Faulty variant: the runtime still wants the device.
UnbindKeepingInterest(d) ==
    /\ bindings' = [bindings EXCEPT ![d] = Unbound]
    /\ states' = [states EXCEPT ![d] = NoState]
    /\ failures' = failures \ {d}
    /\ open' = [open EXCEPT ![d] = @ - (IF IsBound(d) THEN 1 ELSE 0)]
    /\ released' = released \cup {d}
    /\ UNCHANGED <<vars, config, registryVars, desired_bindings>>

\* Faulty variant: the cached state outlives the binding.
UnbindKeepingState(d) ==
    /\ bindings' = [bindings EXCEPT ![d] = Unbound]
    /\ failures' = failures \ {d}
    /\ desired_bindings' = desired_bindings \ {d}
    /\ open' = [open EXCEPT ![d] = @ - (IF IsBound(d) THEN 1 ELSE 0)]
    /\ released' = released \cup {d}
    /\ UNCHANGED <<vars, config, registryVars, states>>

\* unbind: unbind_detached, then the binding is closed.
Unbind(d) ==
    /\ bindings' = [bindings EXCEPT ![d] = Unbound]
    /\ states' = [states EXCEPT ![d] = NoState]
    /\ failures' = failures \ {d}
    /\ desired_bindings' = desired_bindings \ {d}
    /\ open' = [open EXCEPT ![d] = @ - (IF IsBound(d) THEN 1 ELSE 0)]
    /\ released' = released \cup {d}
    /\ UNCHANGED <<vars, config, registryVars>>

-----------------------------------------------------------------------------
(* Requests and states                                                      *)

\* The outcomes of using a bound device h that this request bound with o:
\* execute fails, state fails, or both succeed.
UseOutcomes(o, h) ==
    {[o EXCEPT !.ok = FALSE], o} \cup
    (IF config.cache_state_on_request THEN {[o EXCEPT !.state = h]} ELSE {})

\* request_inner for an interaction that is or is not valid for the device.
RequestOutcomes(d, valid) ==
    IF ~ running \/ inventory[d] = Absent \/ ~ valid THEN {Failed}
    ELSE IF IsBound(d) THEN UseOutcomes(Nothing, bindings[d])
    ELSE IF ~ config.auto_bind_on_request THEN {Failed}
    ELSE UNION {IF o.ok THEN UseOutcomes(o, o.stored) ELSE {o} :
                o \in BindOutcomes(d, inventory[d], FALSE)}

\* request: only one that bound the device and succeeded makes it desired.
Request(d, valid) ==
    \E o \in RequestOutcomes(d, valid) :
        /\ Apply(d, o)
        /\ desired_bindings' = desired_bindings \cup
              (IF o.ok /\ ~ IsBound(d) THEN {d} ELSE {})
        /\ released' = released \ {d}
        /\ UNCHANGED <<vars, config, registryVars>>

\* refresh_state: a stopped runtime returns an error before anything is
\* recorded; for an unbound device only the failure record goes.
RefreshState(d) ==
    /\ running
    /\ \E o \in IF IsBound(d)
                THEN {Failed, Nothing, Outcome(TRUE, Unbound, bindings[d])}
                ELSE {Nothing} :
          Apply(d, o)
    /\ UNCHANGED <<vars, config, registryVars, desired_bindings, released>>

-----------------------------------------------------------------------------
(* Refresh                                                                  *)

\* Faulty variant: only another driver asks for a rebind.
DriverChanged(d, old, new) == Resolve(d, new) # bindings[d].driver

\* binding_requires_rebind; shape stands for kind, address and control surface.
BindingRequiresRebind(d, old, new) ==
    \/ old.interface # new.interface
    \/ old.shape # new.shape
    \/ Resolve(d, new) # bindings[d].driver

\* collect_invalidated_bindings
Invalidated(new) ==
    {d \in Changed(inventory, new) :
        IsBound(d) /\ BindingRequiresRebind(d, inventory[d], new[d])}

\* collect_rebind_targets
RebindTargets(new) ==
    IF ~ config.auto_rebind_on_refresh THEN {}
    ELSE {d \in desired_bindings :
             \/ d \in Added(inventory, new) \cup Invalidated(new)
             \/ d \in Changed(inventory, new) /\ ~ IsBound(d)}

\* prepare_refresh_commit detaches the bindings of removed and invalidated
\* devices, which are then closed, and rebind_tracked_devices binds the
\* targets again from the new inventory.
RefreshDevices(new) ==
    LET gone == Removed(inventory, new) \cup Invalidated(new)
        targets == RebindTargets(new)
        kept == [d \in Devices |-> IF d \in gone THEN Unbound ELSE bindings[d]]
        choices(d) == IF d \in targets THEN BindOutcomes(d, new[d], kept[d] # Unbound)
                      ELSE {Nothing}
    IN  \E o \in [Devices -> UNION {choices(d) : d \in Devices}] :
          /\ \A d \in Devices : o[d] \in choices(d)
          /\ bindings' = [d \in Devices |-> Stored(o[d], kept[d])]
          /\ states' = [d \in Devices |->
                Cached(o[d], IF d \in gone THEN NoState ELSE states[d])]
          /\ failures' = (failures \ (gone \cup targets)) \cup {d \in Devices : ~ o[d].ok}
          /\ open' = [d \in Devices |->
                open[d] - (IF d \in gone /\ IsBound(d) THEN 1 ELSE 0) + Opened(o[d])]

\* refresh and refresh_incremental
RuntimeRefresh(mode, requested, called) ==
    \E run \in Runs(requested, called) :
        /\ running
        /\ IF Accepted(mode, run)
           THEN /\ CommitRun(mode, run)
                /\ RefreshDevices(NextInventory(mode, run))
                /\ UNCHANGED <<running, config, registryVars, desired_bindings, released>>
           ELSE UNCHANGED runtimeVars

-----------------------------------------------------------------------------
(* Lifecycle                                                                *)

SetConfig(c) ==
    /\ config' = c
    /\ UNCHANGED <<vars, registryVars, deviceVars>>

RuntimeStart == Start /\ UNCHANGED <<config, registryVars, deviceVars>>

\* Faulty variant: the cached states survive.
ShutdownKeepingStates ==
    /\ Shutdown
    /\ bindings' = [d \in Devices |-> Unbound]
    /\ failures' = {}
    /\ desired_bindings' = {}
    /\ open' = [d \in Devices |-> open[d] - (IF IsBound(d) THEN 1 ELSE 0)]
    /\ released' = Devices
    /\ UNCHANGED <<config, registryVars, states>>

\* Faulty variant: bindings are dropped without being closed.
ShutdownWithoutClosing ==
    /\ Shutdown
    /\ bindings' = [d \in Devices |-> Unbound]
    /\ states' = [d \in Devices |-> NoState]
    /\ failures' = {}
    /\ desired_bindings' = {}
    /\ released' = Devices
    /\ UNCHANGED <<config, registryVars, open>>

\* shutdown: close_all_bound_devices and shutdown_detached.
RuntimeShutdown ==
    /\ Shutdown
    /\ bindings' = [d \in Devices |-> Unbound]
    /\ states' = [d \in Devices |-> NoState]
    /\ failures' = {}
    /\ desired_bindings' = {}
    /\ open' = [d \in Devices |-> open[d] - (IF IsBound(d) THEN 1 ELSE 0)]
    /\ released' = Devices
    /\ UNCHANGED <<config, registryVars>>

RuntimeInit ==
    /\ Init
    /\ config \in Configs
    /\ drivers = {}
    /\ preferred = [d \in Devices |-> NoDriver]
    /\ bindings = [d \in Devices |-> Unbound]
    /\ states = [d \in Devices |-> NoState]
    /\ desired_bindings = {}
    /\ failures = {}
    /\ open = [d \in Devices |-> 0]
    /\ released = Devices

RuntimeNext ==
    \/ \E r \in Drivers : RegisterDriver(r)
    \/ \E d \in Devices, r \in Drivers : PreferDriver(d, r)
    \/ \E d \in Devices :
          \/ ClearPreferredDriver(d)
          \/ Bind(d)
          \/ Unbind(d)
          \/ \E valid \in BOOLEAN : Request(d, valid)
          \/ RefreshState(d)
    \/ \E mode \in RefreshModes, requested \in SUBSET Interfaces, called \in SUBSET Probes :
          RuntimeRefresh(mode, requested, called)
    \/ \E c \in Configs : SetConfig(c)
    \/ RuntimeStart
    \/ RuntimeShutdown

RuntimeSpec == RuntimeInit /\ [][RuntimeNext]_runtimeVars

-----------------------------------------------------------------------------
(* Properties                                                               *)

\* The runtime's state has its type.
RuntimeTypeOK ==
    /\ TypeOK
    /\ config \in Configs
    /\ drivers \subseteq Drivers
    /\ preferred \in [Devices -> Drivers \cup {NoDriver}]
    /\ bindings \in [Devices -> Handles \cup {Unbound}]
    /\ states \in [Devices -> Handles \cup {NoState}]
    /\ desired_bindings \subseteq Devices
    /\ failures \subseteq Devices
    /\ open \in [Devices -> Int]
    /\ released \subseteq Devices

\* A bound device is in the inventory, and with the interface and shape it was
\* bound with: no sequence of refreshes, full or partial, leaves a driver
\* talking to a device that has gone or become another.
BindingFresh ==
    \A d \in Devices : IsBound(d) =>
        /\ inventory[d] # Absent
        /\ inventory[d].interface = bindings[d].descriptor.interface
        /\ inventory[d].shape = bindings[d].descriptor.shape

\* A cached state was reported by the device's current binding: no state of an
\* earlier binding survives an unbind, a removal or a rebind.
StateOfBinding ==
    \A d \in Devices : states[d] # NoState => states[d] = bindings[d]

\* A stopped runtime holds no binding, no state, no interest and no index;
\* failures may be recorded while it is stopped.
StoppedIsEmpty ==
    ~ running =>
        /\ \A d \in Devices : ~ IsBound(d) /\ states[d] = NoState
        /\ desired_bindings = {}
        /\ probe_inventory = EmptyIndex

\* The bound devices that are open are those in the bindings map: whatever
\* unbind, refresh or shutdown takes out of it has been closed, exactly once.
HandlesAccounted == \A d \in Devices : open[d] = IF IsBound(d) THEN 1 ELSE 0

\* After an unbind or a shutdown no refresh binds the device again: only a
\* later bind or request can.
UnbindSticks == \A d \in released : ~ IsBound(d) /\ d \notin desired_bindings
=============================================================================
