--------------------------- MODULE RuntimeProofs ---------------------------
(***************************************************************************)
(* Proofs about the synchronous Runtime for every set of devices, drivers,  *)
(* probes and configurations: its bindings, states, histories and inventory *)
(* stay consistent under every sequence of calls, and its refreshes are     *)
(* those of ProbeInventory.                                                *)
(***************************************************************************)
EXTENDS Runtime, ProbeInventoryProofs

\* The types of the runtime's own variables.
OwnTypeOK ==
    /\ config \in Configs
    /\ drivers \subseteq Drivers
    /\ preferred \in [Devices -> Drivers \cup {NoDriver}]
    /\ bindings \in [Devices -> Handles \cup {Unbound}]
    /\ states \in [Devices -> Handles \cup {NoState}]
    /\ desired_bindings \subseteq Devices
    /\ failures \subseteq Devices
    /\ open \in [Devices -> Int]
    /\ released \subseteq Devices

\* What holds of one device: c is its descriptor in the inventory, b its
\* binding, s its cached state and n the number of its open bound devices.
DeviceSound(c, b, s, n) ==
    /\ b # Unbound => /\ c # Absent
                      /\ c.interface = b.descriptor.interface
                      /\ c.shape = b.descriptor.shape
    /\ s # NoState => s = b
    /\ n = IF b = Unbound THEN 0 ELSE 1

DevicesSound ==
    \A d \in Devices : DeviceSound(inventory[d], bindings[d], states[d], open[d])

\* The inductive invariant.
RuntimeInv ==
    /\ InventoryInv
    /\ OwnTypeOK
    /\ DevicesSound
    /\ StoppedIsEmpty
    /\ UnbindSticks

\* An outcome for a device with descriptor c and binding b stores only a handle
\* of that descriptor, on an unbound device, and a state only of the binding
\* that the device then has; a stopped runtime stores nothing.
OutcomeSound(c, b, o) ==
    /\ o.ok \in BOOLEAN
    /\ o.stored \in Handles \cup {Unbound}
    /\ o.state \in Handles \cup {NoState}
    /\ o.stored # Unbound => b = Unbound /\ c # Absent /\ o.stored.descriptor = c
    /\ o.state # NoState => o.state = Stored(o, b)
    /\ ~ running => ~ o.ok /\ o.stored = Unbound /\ o.state = NoState

-----------------------------------------------------------------------------
(* Outcomes                                                                 *)

\* resolve returns a registered driver or none.
LEMMA ResolveType ==
    ASSUME OwnTypeOK, NEW d, NEW c
    PROVE  Resolve(d, c) \in Drivers \cup {NoDriver}
<1>. DEFINE best == UniqueBest(Candidates(c), [r \in Candidates(c) |-> Match(r, c)])
            eligible == IF preferred[d] # NoDriver THEN Candidates(c) \cap {preferred[d]}
                        ELSE best
<1>1. eligible \subseteq Drivers
  BY DEF Candidates, UniqueBest, OwnTypeOK
<1>2. Resolve(d, c) = IF eligible = {} THEN NoDriver ELSE CHOOSE r \in eligible : TRUE
  BY DEF Resolve
<1>. HIDE DEF eligible
<1>3. CASE eligible = {}
  BY <1>2, <1>3
<1>4. CASE eligible # {}
  <2>1. (CHOOSE r \in eligible : TRUE) \in eligible
    BY <1>4
  <2>. QED  BY <1>1, <1>2, <1>4, <2>1
<1>. QED  BY <1>3, <1>4

\* The constant outcomes, and the fields of an outcome.
LEMMA OutcomeFields ==
    /\ Failed.ok = FALSE /\ Failed.stored = Unbound /\ Failed.state = NoState
    /\ Nothing.ok = TRUE /\ Nothing.stored = Unbound /\ Nothing.state = NoState
    /\ \A ok, stored, state :
          /\ Outcome(ok, stored, state).ok = ok
          /\ Outcome(ok, stored, state).stored = stored
          /\ Outcome(ok, stored, state).state = state
BY DEF Failed, Nothing, Outcome

\* bind_device_by_id is sound; one that is bound is left as it is.
LEMMA BindSound ==
    ASSUME OwnTypeOK, NEW d \in Devices, NEW c \in Descriptors \cup {Absent},
           NEW b, NEW o \in BindOutcomes(d, c, b # Unbound)
    PROVE  /\ OutcomeSound(c, b, o)
           /\ b = Unbound /\ o.ok => o.stored # Unbound
<1>. DEFINE handle == [driver |-> Resolve(d, c), descriptor |-> c]
<1>1. CASE ~ running
  BY <1>1, OutcomeFields DEF BindOutcomes, OutcomeSound
<1>2. CASE running /\ b # Unbound
  BY <1>2, OutcomeFields DEF BindOutcomes, OutcomeSound
<1>3. CASE running /\ b = Unbound /\ (c = Absent \/ Resolve(d, c) = NoDriver)
  BY <1>3, OutcomeFields DEF BindOutcomes, OutcomeSound
<1>4. CASE running /\ b = Unbound /\ c # Absent /\ Resolve(d, c) # NoDriver
  <2>1. handle \in Handles
    BY <1>4, ResolveType DEF Handles
  <2>2. handle # Unbound /\ handle # NoState /\ handle.descriptor = c
    BY <2>1, HandleAssumption
  <2>3. o \in {Failed, Outcome(TRUE, handle, NoState), Outcome(TRUE, handle, handle)}
    BY <1>4 DEF BindOutcomes
  <2>. HIDE DEF handle
  <2>4. CASE o = Failed
    BY <1>4, <2>4, OutcomeFields DEF OutcomeSound
  <2>5. CASE o = Outcome(TRUE, handle, NoState)
    <3>1. o.ok = TRUE /\ o.stored = handle /\ o.state = NoState
      BY <2>5 DEF Outcome
    <3>. QED  BY <1>4, <2>1, <2>2, <3>1 DEF OutcomeSound
  <2>6. CASE o = Outcome(TRUE, handle, handle)
    <3>1. o.ok = TRUE /\ o.stored = handle /\ o.state = handle
      BY <2>6 DEF Outcome
    <3>2. Stored(o, b) = handle
      BY <2>2, <3>1 DEF Stored
    <3>. QED  BY <1>4, <2>1, <2>2, <3>1, <3>2 DEF OutcomeSound
  <2>. QED  BY <2>3, <2>4, <2>5, <2>6
<1>. QED  BY <1>1, <1>2, <1>3, <1>4

\* Using the bound device that a sound outcome leaves is sound.
LEMMA UseSound ==
    ASSUME running, NEW c, NEW b \in Handles \cup {Unbound},
           NEW o \in [ok : BOOLEAN, stored : Handles \cup {Unbound},
                      state : Handles \cup {NoState}],
           OutcomeSound(c, b, o), Stored(o, b) \in Handles,
           NEW u \in UseOutcomes(o, Stored(o, b))
    PROVE  OutcomeSound(c, b, u) /\ u.stored = o.stored
<1>1. u \in {[o EXCEPT !.ok = FALSE], o, [o EXCEPT !.state = Stored(o, b)]}
  BY DEF UseOutcomes
<1>2. CASE u = [o EXCEPT !.ok = FALSE]
  <2>1. u.ok = FALSE /\ u.stored = o.stored /\ u.state = o.state
    BY <1>2
  <2>. QED  BY <2>1 DEF OutcomeSound, Stored
<1>3. CASE u = o
  BY <1>3
<1>4. CASE u = [o EXCEPT !.state = Stored(o, b)]
  <2>1. u.ok = o.ok /\ u.stored = o.stored /\ u.state = Stored(o, b)
    BY <1>4
  <2>. QED  BY <2>1 DEF OutcomeSound, Stored
<1>. QED  BY <1>1, <1>2, <1>3, <1>4

\* A request is sound; only one on an unbound device binds.
LEMMA RequestSound ==
    ASSUME OwnTypeOK, TypeOK, NEW d \in Devices, NEW valid \in BOOLEAN,
           NEW o \in RequestOutcomes(d, valid)
    PROVE  OutcomeSound(inventory[d], bindings[d], o)
<1>. DEFINE b == bindings[d]
            c == inventory[d]
<1>1. /\ b \in Handles \cup {Unbound}
      /\ c \in Descriptors \cup {Absent}
  BY DEF OwnTypeOK, TypeOK, Snapshots
<1>2. CASE o = Failed
  BY <1>2, OutcomeFields DEF OutcomeSound
<1>3. CASE running /\ IsBound(d) /\ o \in UseOutcomes(Nothing, b)
  <2>1. OutcomeSound(c, b, Nothing)
    BY <1>3, OutcomeFields DEF OutcomeSound
  <2>2. Stored(Nothing, b) = b /\ b \in Handles
    BY <1>1, <1>3, OutcomeFields DEF Stored, IsBound
  <2>3. Nothing \in [ok : BOOLEAN, stored : Handles \cup {Unbound},
                     state : Handles \cup {NoState}]
    BY DEF Nothing, Outcome
  <2>. QED  BY <1>1, <1>3, <2>1, <2>2, <2>3, UseSound
<1>4. CASE /\ running /\ ~ IsBound(d)
           /\ \E t \in BindOutcomes(d, c, FALSE) :
                 o \in IF t.ok THEN UseOutcomes(t, t.stored) ELSE {t}
  <2>1. b = Unbound
    BY <1>4 DEF IsBound
  <2>2. PICK t \in BindOutcomes(d, c, b # Unbound) :
            o \in IF t.ok THEN UseOutcomes(t, t.stored) ELSE {t}
    BY <1>4, <2>1
  <2>3. OutcomeSound(c, b, t) /\ (t.ok => t.stored # Unbound)
    BY <1>1, <2>1, BindSound
  <2>4. CASE ~ t.ok
    BY <2>2, <2>3, <2>4
  <2>5. CASE t.ok
    <3>1. t \in [ok : BOOLEAN, stored : Handles \cup {Unbound},
                 state : Handles \cup {NoState}]
      <4>1. t = Outcome(t.ok, t.stored, t.state)
        BY <2>2 DEF BindOutcomes, Failed, Nothing, Outcome
      <4>. QED  BY <2>3, <4>1 DEF OutcomeSound, Outcome
    <3>2. Stored(t, b) = t.stored /\ t.stored \in Handles
      BY <2>3, <2>5, <3>1 DEF Stored
    <3>. QED  BY <1>1, <1>4, <2>2, <2>3, <2>5, <3>1, <3>2, UseSound
  <2>. QED  BY <2>4, <2>5
<1>. QED  BY <1>2, <1>3, <1>4 DEF RequestOutcomes

\* A sound outcome keeps a device sound.
LEMMA OutcomeKeepsDevice ==
    ASSUME NEW c, NEW b \in Handles \cup {Unbound}, NEW s \in Handles \cup {NoState},
           NEW n \in Int, NEW o, DeviceSound(c, b, s, n), OutcomeSound(c, b, o)
    PROVE  /\ DeviceSound(c, Stored(o, b), Cached(o, s), n + Opened(o))
           /\ Stored(o, b) \in Handles \cup {Unbound}
           /\ Cached(o, s) \in Handles \cup {NoState}
           /\ n + Opened(o) \in Int
<1>1. CASE o.stored = Unbound
  BY <1>1 DEF DeviceSound, OutcomeSound, Stored, Cached, Opened
<1>2. CASE o.stored # Unbound
  <2>1. b = Unbound /\ n = 0
    BY <1>2 DEF OutcomeSound, DeviceSound
  <2>2. s = NoState
    BY <2>1, HandleAssumption DEF DeviceSound
  <2>. QED
    BY <1>2, <2>1, <2>2 DEF DeviceSound, OutcomeSound, Stored, Cached, Opened
<1>. QED  BY <1>1, <1>2

-----------------------------------------------------------------------------
(* One step                                                                 *)

\* A step that takes a sound outcome for a device touches no other device and
\* keeps the devices sound.
LEMMA ApplyStep ==
    ASSUME TypeOK, OwnTypeOK, DevicesSound, NEW d \in Devices, NEW o,
           OutcomeSound(inventory[d], bindings[d], o), Apply(d, o), UNCHANGED inventory
    PROVE  /\ bindings' \in [Devices -> Handles \cup {Unbound}]
           /\ states' \in [Devices -> Handles \cup {NoState}]
           /\ failures' \subseteq Devices
           /\ open' \in [Devices -> Int]
           /\ DevicesSound'
           /\ bindings'[d] = Stored(o, bindings[d]) /\ states'[d] = Cached(o, states[d])
           /\ \A e \in Devices \ {d} : bindings'[e] = bindings[e] /\ states'[e] = states[e]
<1>1. /\ bindings[d] \in Handles \cup {Unbound}
      /\ states[d] \in Handles \cup {NoState}
      /\ open[d] \in Int
      /\ DeviceSound(inventory[d], bindings[d], states[d], open[d])
  BY DEF OwnTypeOK, DevicesSound
<1>2. /\ DeviceSound(inventory[d], Stored(o, bindings[d]), Cached(o, states[d]),
                     open[d] + Opened(o))
      /\ Stored(o, bindings[d]) \in Handles \cup {Unbound}
      /\ Cached(o, states[d]) \in Handles \cup {NoState}
      /\ open[d] + Opened(o) \in Int
  BY <1>1, OutcomeKeepsDevice
<1>3. /\ bindings' = [bindings EXCEPT ![d] = Stored(o, bindings[d])]
      /\ states' = [states EXCEPT ![d] = Cached(o, states[d])]
      /\ open' = [open EXCEPT ![d] = open[d] + Opened(o)]
      /\ failures' \subseteq failures \cup {d}
  BY DEF Apply
<1>4. /\ bindings' \in [Devices -> Handles \cup {Unbound}]
      /\ states' \in [Devices -> Handles \cup {NoState}]
      /\ open' \in [Devices -> Int]
  BY <1>2, <1>3 DEF OwnTypeOK
<1>5. /\ bindings'[d] = Stored(o, bindings[d])
      /\ states'[d] = Cached(o, states[d])
      /\ open'[d] = open[d] + Opened(o)
      /\ \A e \in Devices \ {d} : /\ bindings'[e] = bindings[e]
                                  /\ states'[e] = states[e]
                                  /\ open'[e] = open[e]
  BY <1>3 DEF OwnTypeOK
<1>6. DevicesSound'
  <2>1. SUFFICES ASSUME NEW e \in Devices
                 PROVE  DeviceSound(inventory[e], bindings'[e], states'[e], open'[e])
    BY DEF DevicesSound, DeviceSound
  <2>2. CASE e = d
    BY <1>2, <1>5, <2>2
  <2>3. CASE e # d
    BY <1>5, <2>3 DEF DevicesSound
  <2>. QED  BY <2>2, <2>3
<1>. QED  BY <1>3, <1>4, <1>5, <1>6 DEF OwnTypeOK

\* A step that closes the bindings of a set of devices and forgets their
\* states keeps the devices sound.
LEMMA CloseStep ==
    ASSUME OwnTypeOK, DevicesSound, NEW D \in SUBSET Devices, UNCHANGED inventory,
           bindings' = [d \in Devices |-> IF d \in D THEN Unbound ELSE bindings[d]],
           states' = [d \in Devices |-> IF d \in D THEN NoState ELSE states[d]],
           open' = [d \in Devices |->
                       open[d] - (IF d \in D /\ IsBound(d) THEN 1 ELSE 0)]
    PROVE  /\ bindings' \in [Devices -> Handles \cup {Unbound}]
           /\ states' \in [Devices -> Handles \cup {NoState}]
           /\ open' \in [Devices -> Int]
           /\ DevicesSound'
<1>1. /\ bindings' \in [Devices -> Handles \cup {Unbound}]
      /\ states' \in [Devices -> Handles \cup {NoState}]
      /\ open' \in [Devices -> Int]
  BY DEF OwnTypeOK
<1>2. ASSUME NEW d \in Devices
      PROVE  DeviceSound(inventory[d], bindings'[d], states'[d], open'[d])
  BY DEF OwnTypeOK, DevicesSound, DeviceSound, IsBound
<1>. QED  BY <1>1, <1>2 DEF DevicesSound, DeviceSound

\* Every step of the runtime is a step of ProbeInventory or leaves it alone.
LEMMA StepOfInventory == [RuntimeNext]_runtimeVars => [Next]_vars
<1>. SUFFICES ASSUME [RuntimeNext]_runtimeVars PROVE [Next]_vars
  OBVIOUS
<1>1. ASSUME NEW mode \in RefreshModes, NEW requested \in SUBSET Interfaces,
             NEW called \in SUBSET Probes, RuntimeRefresh(mode, requested, called)
      PROVE  [Next]_vars
  BY <1>1 DEF RuntimeRefresh, Refresh, Next, runtimeVars
<1>2. CASE RuntimeStart \/ RuntimeShutdown
  BY <1>2 DEF RuntimeStart, RuntimeShutdown, Next
<1>3. CASE UNCHANGED runtimeVars
  BY <1>3 DEF runtimeVars
<1>. QED
  BY <1>1, <1>2, <1>3 DEF RuntimeNext, RegisterDriver, PreferDriver, ClearPreferredDriver,
     Bind, Unbind, Request, RefreshState, SetConfig

LEMMA BindStep ==
    ASSUME RuntimeInv, NEW d \in Devices, Bind(d)
    PROVE  OwnTypeOK' /\ DevicesSound' /\ StoppedIsEmpty' /\ UnbindSticks'
<1>. USE DEF RuntimeInv, InventoryInv
<1>1. PICK o \in BindOutcomes(d, inventory[d], IsBound(d)) :
          /\ Apply(d, o)
          /\ desired_bindings' = desired_bindings \cup (IF o.ok THEN {d} ELSE {})
          /\ released' = released \ {d}
          /\ UNCHANGED <<vars, config, registryVars>>
  BY DEF Bind
<1>2. OutcomeSound(inventory[d], bindings[d], o)
  <2>1. inventory[d] \in Descriptors \cup {Absent}
    BY DEF TypeOK, Snapshots
  <2>. QED  BY <2>1, <1>1, BindSound DEF IsBound
<1>3. UNCHANGED inventory /\ UNCHANGED running /\ UNCHANGED probe_inventory
  BY <1>1 DEF vars
<1>4. /\ bindings' \in [Devices -> Handles \cup {Unbound}]
      /\ states' \in [Devices -> Handles \cup {NoState}]
      /\ failures' \subseteq Devices
      /\ open' \in [Devices -> Int]
      /\ DevicesSound'
      /\ bindings'[d] = Stored(o, bindings[d]) /\ states'[d] = Cached(o, states[d])
      /\ \A e \in Devices \ {d} : bindings'[e] = bindings[e] /\ states'[e] = states[e]
  BY <1>1, <1>2, <1>3, ApplyStep
<1>5. OwnTypeOK'
  BY <1>1, <1>4 DEF OwnTypeOK, registryVars
<1>6. StoppedIsEmpty'
  <2>1. ~ running => bindings'[d] = bindings[d] /\ states'[d] = states[d] /\ ~ o.ok
    BY <1>2, <1>4 DEF OutcomeSound, Stored, Cached
  <2>. QED  BY <1>1, <1>3, <1>4, <2>1 DEF StoppedIsEmpty, IsBound
<1>7. UnbindSticks'
  BY <1>1, <1>4 DEF UnbindSticks, IsBound, OwnTypeOK
<1>. QED  BY <1>4, <1>5, <1>6, <1>7

LEMMA RequestStep ==
    ASSUME RuntimeInv, NEW d \in Devices, NEW valid \in BOOLEAN, Request(d, valid)
    PROVE  OwnTypeOK' /\ DevicesSound' /\ StoppedIsEmpty' /\ UnbindSticks'
<1>. USE DEF RuntimeInv, InventoryInv
<1>1. PICK o \in RequestOutcomes(d, valid) :
          /\ Apply(d, o)
          /\ desired_bindings' = desired_bindings \cup
                (IF o.ok /\ ~ IsBound(d) THEN {d} ELSE {})
          /\ released' = released \ {d}
          /\ UNCHANGED <<vars, config, registryVars>>
  BY DEF Request
<1>2. OutcomeSound(inventory[d], bindings[d], o)
  BY <1>1, RequestSound
<1>3. UNCHANGED inventory /\ UNCHANGED running /\ UNCHANGED probe_inventory
  BY <1>1 DEF vars
<1>4. /\ bindings' \in [Devices -> Handles \cup {Unbound}]
      /\ states' \in [Devices -> Handles \cup {NoState}]
      /\ failures' \subseteq Devices
      /\ open' \in [Devices -> Int]
      /\ DevicesSound'
      /\ bindings'[d] = Stored(o, bindings[d]) /\ states'[d] = Cached(o, states[d])
      /\ \A e \in Devices \ {d} : bindings'[e] = bindings[e] /\ states'[e] = states[e]
  BY <1>1, <1>2, <1>3, ApplyStep
<1>5. OwnTypeOK'
  BY <1>1, <1>4 DEF OwnTypeOK, registryVars
<1>6. StoppedIsEmpty'
  <2>1. ~ running => bindings'[d] = bindings[d] /\ states'[d] = states[d] /\ ~ o.ok
    BY <1>2, <1>4 DEF OutcomeSound, Stored, Cached
  <2>. QED  BY <1>1, <1>3, <1>4, <2>1 DEF StoppedIsEmpty, IsBound
<1>7. UnbindSticks'
  BY <1>1, <1>4 DEF UnbindSticks, IsBound, OwnTypeOK
<1>. QED  BY <1>4, <1>5, <1>6, <1>7

LEMMA RefreshStateStep ==
    ASSUME RuntimeInv, NEW d \in Devices, RefreshState(d)
    PROVE  OwnTypeOK' /\ DevicesSound' /\ StoppedIsEmpty' /\ UnbindSticks'
<1>. USE DEF RuntimeInv, InventoryInv
<1>1. PICK o \in IF IsBound(d)
                 THEN {Failed, Nothing, Outcome(TRUE, Unbound, bindings[d])}
                 ELSE {Nothing} : Apply(d, o)
  BY DEF RefreshState
<1>2. running /\ UNCHANGED <<vars, config, registryVars, desired_bindings, released>>
  BY DEF RefreshState
<1>3. o.stored = Unbound /\ Stored(o, bindings[d]) = bindings[d]
  BY <1>1 DEF Failed, Nothing, Outcome, Stored
<1>4. OutcomeSound(inventory[d], bindings[d], o)
  <2>1. CASE o \in {Failed, Nothing}
    BY <1>2, <2>1, OutcomeFields DEF OutcomeSound
  <2>2. CASE o = Outcome(TRUE, Unbound, bindings[d]) /\ IsBound(d)
    <3>1. o.ok = TRUE /\ o.state = bindings[d]
      BY <2>2 DEF Outcome
    <3>2. bindings[d] \in Handles
      BY <2>2 DEF OwnTypeOK, IsBound
    <3>. QED  BY <1>2, <1>3, <3>1, <3>2 DEF OutcomeSound
  <2>. QED  BY <1>1, <2>1, <2>2
<1>5. UNCHANGED inventory /\ UNCHANGED running
  BY <1>2 DEF vars
<1>6. /\ bindings' \in [Devices -> Handles \cup {Unbound}]
      /\ states' \in [Devices -> Handles \cup {NoState}]
      /\ failures' \subseteq Devices
      /\ open' \in [Devices -> Int]
      /\ DevicesSound'
      /\ bindings'[d] = Stored(o, bindings[d])
      /\ \A e \in Devices \ {d} : bindings'[e] = bindings[e]
  BY <1>1, <1>4, <1>5, ApplyStep
<1>7. OwnTypeOK'
  BY <1>2, <1>6 DEF OwnTypeOK, registryVars
<1>8. StoppedIsEmpty'
  BY <1>2, <1>5 DEF StoppedIsEmpty
<1>9. UnbindSticks'
  BY <1>2, <1>3, <1>6 DEF UnbindSticks, IsBound, OwnTypeOK
<1>. QED  BY <1>6, <1>7, <1>8, <1>9

LEMMA UnbindStep ==
    ASSUME RuntimeInv, NEW d \in Devices, Unbind(d)
    PROVE  OwnTypeOK' /\ DevicesSound' /\ StoppedIsEmpty' /\ UnbindSticks'
<1>. USE DEF RuntimeInv, InventoryInv
<1>1. UNCHANGED inventory /\ UNCHANGED running /\ UNCHANGED probe_inventory
  BY DEF Unbind, vars
<1>2. /\ bindings' = [e \in Devices |-> IF e \in {d} THEN Unbound ELSE bindings[e]]
      /\ states' = [e \in Devices |-> IF e \in {d} THEN NoState ELSE states[e]]
  BY DEF Unbind, OwnTypeOK
<1>3. open' = [e \in Devices |-> open[e] - (IF e \in {d} /\ IsBound(e) THEN 1 ELSE 0)]
  <2>1. open' = [open EXCEPT ![d] = open[d] - (IF IsBound(d) THEN 1 ELSE 0)]
    BY DEF Unbind
  <2>2. \A e \in Devices : open[e] \in Int /\ open[e] - 0 = open[e]
    BY DEF OwnTypeOK
  <2>3. open' = [e \in Devices |-> IF e = d THEN open[d] - (IF IsBound(d) THEN 1 ELSE 0)
                                  ELSE open[e]]
    BY <2>1 DEF OwnTypeOK
  <2>. QED  BY <2>2, <2>3
<1>4. /\ bindings' \in [Devices -> Handles \cup {Unbound}]
      /\ states' \in [Devices -> Handles \cup {NoState}]
      /\ open' \in [Devices -> Int]
      /\ DevicesSound'
  BY <1>1, <1>2, <1>3, CloseStep
<1>5. OwnTypeOK'
  BY <1>4 DEF OwnTypeOK, Unbind, registryVars
<1>6. StoppedIsEmpty'
  BY <1>1, <1>2 DEF StoppedIsEmpty, Unbind, IsBound
<1>7. UnbindSticks'
  BY <1>2 DEF UnbindSticks, Unbind, IsBound, OwnTypeOK
<1>. QED  BY <1>4, <1>5, <1>6, <1>7

LEMMA ShutdownStep ==
    ASSUME RuntimeInv, RuntimeShutdown
    PROVE  OwnTypeOK' /\ DevicesSound' /\ StoppedIsEmpty' /\ UnbindSticks'
<1>. USE DEF RuntimeInv, InventoryInv
<1>1. /\ UNCHANGED inventory
      /\ probe_inventory' = EmptyIndex
      /\ UNCHANGED <<config, registryVars>>
  BY DEF RuntimeShutdown, Shutdown
<1>2. /\ bindings' = [e \in Devices |-> IF e \in Devices THEN Unbound ELSE bindings[e]]
      /\ states' = [e \in Devices |-> IF e \in Devices THEN NoState ELSE states[e]]
      /\ open' = [e \in Devices |->
                     open[e] - (IF e \in Devices /\ IsBound(e) THEN 1 ELSE 0)]
  BY DEF RuntimeShutdown
<1>3. /\ bindings' \in [Devices -> Handles \cup {Unbound}]
      /\ states' \in [Devices -> Handles \cup {NoState}]
      /\ open' \in [Devices -> Int]
      /\ DevicesSound'
  BY <1>1, <1>2, CloseStep
<1>4. OwnTypeOK'
  BY <1>1, <1>3 DEF OwnTypeOK, RuntimeShutdown, registryVars
<1>5. StoppedIsEmpty'
  BY <1>1, <1>2 DEF StoppedIsEmpty, RuntimeShutdown, IsBound, EmptyIndex
<1>6. UnbindSticks'
  BY <1>2 DEF UnbindSticks, RuntimeShutdown, IsBound
<1>. QED  BY <1>3, <1>4, <1>5, <1>6

\* A refresh: the bindings of removed and invalidated devices go, and the
\* targets are bound from the new inventory.
LEMMA RefreshStep ==
    ASSUME RuntimeInv, running, NEW new \in Snapshots, inventory' = new,
           UNCHANGED running, RefreshDevices(new),
           UNCHANGED <<config, registryVars, desired_bindings, released>>
    PROVE  OwnTypeOK' /\ DevicesSound' /\ StoppedIsEmpty' /\ UnbindSticks'
<1>. USE DEF RuntimeInv, InventoryInv
<1>. DEFINE gone == Removed(inventory, new) \cup Invalidated(new)
            targets == RebindTargets(new)
            kept == [d \in Devices |-> IF d \in gone THEN Unbound ELSE bindings[d]]
            keptState(d) == IF d \in gone THEN NoState ELSE states[d]
            keptOpen(d) == open[d] - (IF d \in gone /\ IsBound(d) THEN 1 ELSE 0)
            choices(d) == IF d \in targets THEN BindOutcomes(d, new[d], kept[d] # Unbound)
                          ELSE {Nothing}
<1>1. PICK o \in [Devices -> UNION {choices(d) : d \in Devices}] :
          /\ \A d \in Devices : o[d] \in choices(d)
          /\ bindings' = [d \in Devices |-> Stored(o[d], kept[d])]
          /\ states' = [d \in Devices |-> Cached(o[d], keptState(d))]
          /\ failures' = (failures \ (gone \cup targets)) \cup {d \in Devices : ~ o[d].ok}
          /\ open' = [d \in Devices |-> keptOpen(d) + Opened(o[d])]
  BY DEF RefreshDevices
<1>2. ASSUME NEW d \in Devices
      PROVE  /\ kept[d] \in Handles \cup {Unbound}
             /\ keptState(d) \in Handles \cup {NoState}
             /\ keptOpen(d) \in Int
             /\ DeviceSound(new[d], kept[d], keptState(d), keptOpen(d))
  <2>1. /\ bindings[d] \in Handles \cup {Unbound}
        /\ states[d] \in Handles \cup {NoState}
        /\ open[d] \in Int
        /\ DeviceSound(inventory[d], bindings[d], states[d], open[d])
    BY DEF OwnTypeOK, DevicesSound
  <2>2. CASE d \in gone
    BY <2>1, <2>2 DEF DeviceSound, IsBound
  <2>3. CASE d \notin gone
    <3>1. kept[d] = bindings[d] /\ keptState(d) = states[d] /\ keptOpen(d) = open[d]
      BY <2>1, <2>3
    <3>2. IsBound(d) => /\ new[d] # Absent
                        /\ inventory[d].interface = new[d].interface
                        /\ inventory[d].shape = new[d].shape
      BY <2>1, <2>3
      DEF DeviceSound, IsBound, Removed, Invalidated, Changed, BindingRequiresRebind
    <3>. QED  BY <2>1, <3>1, <3>2 DEF DeviceSound, IsBound
  <2>. QED  BY <2>2, <2>3
<1>3. ASSUME NEW d \in Devices
      PROVE  OutcomeSound(new[d], kept[d], o[d])
  <2>1. CASE d \in targets
    <3>1. new[d] \in Descriptors \cup {Absent}
      BY DEF Snapshots
    <3>2. o[d] \in BindOutcomes(d, new[d], kept[d] # Unbound)
      BY <1>1, <2>1
    <3>. HIDE DEF kept, targets, gone
    <3>. QED  BY <3>1, <3>2, BindSound
  <2>2. CASE d \notin targets
    <3>1. o[d] = Nothing
      BY <1>1, <2>2
    <3>. QED  BY <3>1, OutcomeFields DEF OutcomeSound
  <2>. QED  BY <2>1, <2>2
<1>. HIDE DEF kept, keptState, keptOpen, choices, targets, gone
<1>4. ASSUME NEW d \in Devices
      PROVE  /\ DeviceSound(new[d], bindings'[d], states'[d], open'[d])
             /\ bindings'[d] \in Handles \cup {Unbound}
             /\ states'[d] \in Handles \cup {NoState}
             /\ open'[d] \in Int
  <2>1. /\ bindings'[d] = Stored(o[d], kept[d])
        /\ states'[d] = Cached(o[d], keptState(d))
        /\ open'[d] = keptOpen(d) + Opened(o[d])
    BY <1>1
  <2>2. /\ DeviceSound(new[d], Stored(o[d], kept[d]), Cached(o[d], keptState(d)),
                       keptOpen(d) + Opened(o[d]))
        /\ Stored(o[d], kept[d]) \in Handles \cup {Unbound}
        /\ Cached(o[d], keptState(d)) \in Handles \cup {NoState}
        /\ keptOpen(d) + Opened(o[d]) \in Int
    BY <1>2, <1>3, OutcomeKeepsDevice
  <2>. QED  BY <2>1, <2>2
<1>5. OwnTypeOK'
  <2>1. /\ bindings' \in [Devices -> Handles \cup {Unbound}]
        /\ states' \in [Devices -> Handles \cup {NoState}]
        /\ open' \in [Devices -> Int]
    BY <1>1, <1>4
  <2>2. failures' \subseteq Devices
    BY <1>1 DEF OwnTypeOK
  <2>. QED  BY <2>1, <2>2 DEF OwnTypeOK, registryVars
<1>6. DevicesSound'
  BY <1>4 DEF DevicesSound, DeviceSound
<1>7. StoppedIsEmpty'
  BY DEF StoppedIsEmpty
<1>8. ASSUME NEW d \in Devices, d \in released
      PROVE  bindings'[d] = Unbound
  <2>1. bindings[d] = Unbound /\ d \notin desired_bindings
    BY <1>8 DEF UnbindSticks, IsBound
  <2>2. kept[d] = Unbound
    BY <2>1 DEF kept
  <2>3. d \notin targets
    BY <2>1 DEF targets, RebindTargets
  <2>4. o[d] = Nothing
    BY <1>1, <2>3 DEF choices
  <2>. QED  BY <1>1, <2>2, <2>4, OutcomeFields DEF Stored
<1>9. UnbindSticks'
  <2>1. \A d \in released : d \in Devices /\ d \notin desired_bindings
    BY DEF UnbindSticks, OwnTypeOK
  <2>. QED  BY <1>8, <2>1 DEF UnbindSticks, IsBound
<1>. QED  BY <1>5, <1>6, <1>7, <1>9

-----------------------------------------------------------------------------
(* The invariant                                                            *)

LEMMA RuntimeInitInv == RuntimeInit => RuntimeInv
<1>. SUFFICES ASSUME RuntimeInit PROVE RuntimeInv
  OBVIOUS
<1>1. InventoryInv
  BY InventoryInit DEF RuntimeInit
<1>2. OwnTypeOK
  BY DEF RuntimeInit, OwnTypeOK
<1>3. DevicesSound
  BY DEF RuntimeInit, DevicesSound, DeviceSound
<1>4. StoppedIsEmpty
  BY DEF RuntimeInit, Init, StoppedIsEmpty
<1>5. UnbindSticks
  BY DEF RuntimeInit, UnbindSticks, IsBound
<1>. QED  BY <1>1, <1>2, <1>3, <1>4, <1>5 DEF RuntimeInv

\* Every step of the runtime preserves the invariant.
LEMMA RuntimeStep == RuntimeInv /\ [RuntimeNext]_runtimeVars => RuntimeInv'
<1>. SUFFICES ASSUME RuntimeInv, [RuntimeNext]_runtimeVars PROVE RuntimeInv'
  OBVIOUS
<1>. DEFINE Goal == OwnTypeOK' /\ DevicesSound' /\ StoppedIsEmpty' /\ UnbindSticks'
<1>1. InventoryInv'
  BY StepOfInventory, InventoryStep DEF RuntimeInv
<1>2. ASSUME UNCHANGED <<vars, config, deviceVars>>, drivers' \subseteq Drivers,
             preferred' \in [Devices -> Drivers \cup {NoDriver}]
      PROVE  Goal
  BY <1>2 DEF RuntimeInv, OwnTypeOK, DevicesSound, StoppedIsEmpty, UnbindSticks, IsBound,
     vars, deviceVars
<1>3. ASSUME NEW r \in Drivers, RegisterDriver(r)
      PROVE  Goal
  BY <1>2, <1>3 DEF RegisterDriver, RuntimeInv, OwnTypeOK
<1>4. ASSUME NEW d \in Devices, NEW r \in Drivers, PreferDriver(d, r)
      PROVE  Goal
  BY <1>2, <1>4 DEF PreferDriver, RuntimeInv, OwnTypeOK
<1>5. ASSUME NEW d \in Devices, ClearPreferredDriver(d)
      PROVE  Goal
  BY <1>2, <1>5 DEF ClearPreferredDriver, RuntimeInv, OwnTypeOK
<1>6. ASSUME NEW c \in Configs, SetConfig(c)
      PROVE  Goal
  BY <1>6 DEF SetConfig, RuntimeInv, OwnTypeOK, DevicesSound, StoppedIsEmpty, UnbindSticks,
     IsBound, vars, deviceVars, registryVars
<1>7. ASSUME RuntimeStart
      PROVE  Goal
  BY <1>7 DEF RuntimeStart, Start, RuntimeInv, OwnTypeOK, DevicesSound, StoppedIsEmpty,
     UnbindSticks, IsBound, deviceVars, registryVars
<1>8. ASSUME RuntimeShutdown
      PROVE  Goal
  BY <1>8, ShutdownStep
<1>9. ASSUME NEW d \in Devices,
             Bind(d) \/ Unbind(d) \/ (\E valid \in BOOLEAN : Request(d, valid)) \/ RefreshState(d)
      PROVE  Goal
  BY <1>9, BindStep, UnbindStep, RequestStep, RefreshStateStep
<1>10. ASSUME UNCHANGED runtimeVars
       PROVE  Goal
  BY <1>2, <1>10 DEF runtimeVars, registryVars, RuntimeInv, OwnTypeOK
<1>11. ASSUME NEW mode \in RefreshModes, NEW requested \in SUBSET Interfaces,
              NEW called \in SUBSET Probes, RuntimeRefresh(mode, requested, called)
       PROVE  Goal
  <2>1. PICK run \in Runs(requested, called) :
            /\ running
            /\ IF Accepted(mode, run)
               THEN /\ CommitRun(mode, run)
                    /\ RefreshDevices(NextInventory(mode, run))
                    /\ UNCHANGED <<running, config, registryVars, desired_bindings, released>>
               ELSE UNCHANGED runtimeVars
    BY <1>11 DEF RuntimeRefresh
  <2>2. CASE ~ Accepted(mode, run)
    BY <1>10, <2>1, <2>2
  <2>3. CASE Accepted(mode, run)
    <3>1. NextInventory(mode, run) \in Snapshots
      BY <2>3, NextSnapshot DEF RuntimeInv, InventoryInv
    <3>2. inventory' = NextInventory(mode, run)
      BY <2>1, <2>3 DEF CommitRun
    <3>. QED  BY <2>1, <2>3, <3>1, <3>2, RefreshStep
  <2>. QED  BY <2>2, <2>3
<1>12. Goal
  BY <1>3, <1>4, <1>5, <1>6, <1>7, <1>8, <1>9, <1>10, <1>11 DEF RuntimeNext
<1>. QED  BY <1>1, <1>12 DEF RuntimeInv

THEOREM RuntimeInductive == RuntimeSpec => []RuntimeInv
<1>. QED  BY RuntimeInitInv, RuntimeStep, PTL DEF RuntimeSpec

-----------------------------------------------------------------------------
(* What follows                                                             *)

\* The runtime's state has its type.
THEOREM RuntimeTypeCorrect == RuntimeSpec => []RuntimeTypeOK
<1>1. RuntimeInv => RuntimeTypeOK
  BY DEF RuntimeInv, InventoryInv, OwnTypeOK, RuntimeTypeOK
<1>. QED  BY <1>1, RuntimeInductive, PTL

\* The refreshes of the runtime, with everything they do to bindings, are those
\* of ProbeInventory: whatever holds of the inventory there holds here.
THEOREM RuntimeImplementsInventory == RuntimeSpec => Spec
<1>1. RuntimeInit => Init
  BY DEF RuntimeInit
<1>. QED  BY <1>1, StepOfInventory, PTL DEF RuntimeSpec, Spec

\* No sequence of calls leaves a driver bound to a device that is gone or has
\* become another.
THEOREM BindingsAreFresh == RuntimeSpec => []BindingFresh
<1>1. RuntimeInv => BindingFresh
  BY DEF RuntimeInv, DevicesSound, DeviceSound, BindingFresh, IsBound
<1>. QED  BY <1>1, RuntimeInductive, PTL

\* Every cached state was reported by the device's current binding.
THEOREM StatesAreOfBindings == RuntimeSpec => []StateOfBinding
<1>1. RuntimeInv => StateOfBinding
  BY DEF RuntimeInv, DevicesSound, DeviceSound, StateOfBinding
<1>. QED  BY <1>1, RuntimeInductive, PTL

\* A stopped runtime holds nothing.
THEOREM ShutdownEmpties == RuntimeSpec => []StoppedIsEmpty
<1>1. RuntimeInv => StoppedIsEmpty
  BY DEF RuntimeInv
<1>. QED  BY <1>1, RuntimeInductive, PTL

\* Every bound device that leaves the bindings is closed exactly once.
THEOREM HandlesAreClosedOnce == RuntimeSpec => []HandlesAccounted
<1>1. RuntimeInv => HandlesAccounted
  BY DEF RuntimeInv, DevicesSound, DeviceSound, HandlesAccounted, IsBound
<1>. QED  BY <1>1, RuntimeInductive, PTL

\* No refresh binds a device again that was unbound.
THEOREM UnbindIsFinal == RuntimeSpec => []UnbindSticks
<1>1. RuntimeInv => UnbindSticks
  BY DEF RuntimeInv
<1>. QED  BY <1>1, RuntimeInductive, PTL
-----------------------------------------------------------------------------
(* Ranking drivers                                                          *)

(* What the registry finds by sorting its candidates and looking at the      *)
(* front is what Runtime takes it to find: the one that outranks the rest.   *)

Matches == [level : Nat, score : Nat]

(* compare_rank is a strict order whose incomparable elements tie, so        *)
(* sorting by it is well defined and equal ranks stand next to each other.   *)
LEMMA RankIsOrdered ==
    ASSUME NEW m \in Matches, NEW n \in Matches, NEW o \in Matches
    PROVE  /\ ~ (Outranks(m, n) /\ Outranks(n, m))
           /\ Outranks(m, n) \/ Outranks(n, m) \/ Ties(m, n)
           /\ ~ (Outranks(m, n) /\ Ties(m, n))
           /\ ~ Outranks(n, m) /\ ~ Outranks(o, n) /\ Ties(o, m) => Ties(n, m)
  BY DEF Matches, Outranks, Ties

-----------------------------------------------------------------------------
(* The candidates reported as conflicting are all that tie with the best:    *)
(* the scan of resolve and conflicting_top_matches, which stops at the first *)
(* that does not, misses none (registry.rs, report.rs).                      *)
THEOREM ConflictsAreComplete ==
    ASSUME NEW candidates, NEW match \in [candidates -> Matches],
           NEW ranked, IsRanking(ranked, candidates, match), ranked # <<>>
    PROVE  TopMatches(ranked, match) =
               {r \in candidates : \A q \in candidates : ~ Outranks(match[q], match[r])}
<1>. DEFINE best == {r \in candidates : \A q \in candidates : ~ Outranks(match[q], match[r])}
<1>1. /\ ranked \in Seq(candidates)
      /\ DOMAIN ranked = 1 .. Len(ranked)
      /\ Len(ranked) \in Nat /\ Len(ranked) >= 1
      /\ \A k \in 1 .. Len(ranked) : ranked[k] \in candidates /\ match[ranked[k]] \in Matches
  BY DEF IsRanking
<1>2. \A r \in candidates : \E k \in 1 .. Len(ranked) : ranked[k] = r
  BY <1>1 DEF IsRanking
<1>3. \A j, k \in 1 .. Len(ranked) : j < k => ~ Outranks(match[ranked[k]], match[ranked[j]])
  BY <1>1 DEF IsRanking
<1>4. ASSUME NEW k \in 1 .. Len(ranked),
             \A j \in 1 .. k : Ties(match[ranked[j]], match[ranked[1]])
      PROVE  ranked[k] \in best
  <2>1. SUFFICES ASSUME NEW q \in 1 .. Len(ranked)
                 PROVE  ~ Outranks(match[ranked[q]], match[ranked[k]])
    BY <1>1, <1>2
  <2>2. Ties(match[ranked[k]], match[ranked[1]]) /\ 1 \in 1 .. Len(ranked)
    BY <1>1, <1>4
  <2>3. CASE q = 1
    BY <1>1, <2>2, <2>3 DEF Ties, Outranks, Matches
  <2>4. CASE q # 1
    <3>1. ~ Outranks(match[ranked[q]], match[ranked[1]])
      BY <1>1, <1>3, <2>2, <2>4
    <3>. QED  BY <1>1, <2>2, <3>1 DEF Ties, Outranks, Matches
  <2>. QED  BY <2>3, <2>4
<1>5. ASSUME NEW r \in best
      PROVE  r \in TopMatches(ranked, match)
  <2>1. PICK k \in 1 .. Len(ranked) : ranked[k] = r
    BY <1>2
  <2>2. 1 \in 1 .. Len(ranked) /\ ranked[1] \in candidates
    BY <1>1
  <2>3. ~ Outranks(match[ranked[1]], match[ranked[k]])
    BY <2>1, <2>2
  <2>4. Ties(match[ranked[k]], match[ranked[1]])
    <3>1. CASE k = 1
      BY <1>1, <3>1 DEF Ties
    <3>2. CASE k # 1
      <4>1. ~ Outranks(match[ranked[k]], match[ranked[1]])
        BY <1>3, <2>2, <3>2
      <4>. QED  BY <1>1, <2>2, <2>3, <4>1, RankIsOrdered DEF Ties
    <3>. QED  BY <3>1, <3>2
  <2>5. ASSUME NEW j \in 1 .. k
        PROVE  Ties(match[ranked[j]], match[ranked[1]])
    <3>1. j \in 1 .. Len(ranked) /\ (j < k \/ j = k) /\ (1 < j \/ j = 1)
      BY <1>1
    <3>2. CASE j = k
      BY <2>4, <3>2
    <3>3. CASE j = 1
      BY <1>1, <3>3 DEF Ties
    <3>4. CASE 1 < j /\ j < k
      <4>1. ~ Outranks(match[ranked[j]], match[ranked[1]])
        BY <1>3, <2>2, <3>1, <3>4
      <4>2. ~ Outranks(match[ranked[k]], match[ranked[j]])
        BY <1>3, <3>1, <3>4
      <4>. QED  BY <1>1, <2>2, <2>4, <3>1, <4>1, <4>2 DEF Outranks, Ties, Matches
    <3>. QED  BY <3>1, <3>2, <3>3, <3>4
  <2>. QED  BY <1>1, <2>1, <2>5 DEF TopMatches
<1>6. TopMatches(ranked, match) \subseteq best
  BY <1>1, <1>4 DEF TopMatches
<1>. QED  BY <1>5, <1>6

(* resolve, which sorts the candidates and looks for a tie at the front,     *)
(* finds exactly the candidate that outranks all others, and an error        *)
(* exactly if there is none: Runtime!Resolve says it this way.               *)
THEOREM ResolutionIsUniqueBest ==
    ASSUME NEW candidates, NEW match \in [candidates -> Matches],
           NEW ranked, IsRanking(ranked, candidates, match)
    PROVE  ResolveRanked(ranked, match) = UniqueBest(candidates, match)
<1>. DEFINE best == {r \in candidates : \A q \in candidates : ~ Outranks(match[q], match[r])}
<1>1. CASE ranked = <<>>
  <2>1. candidates = {}
    BY <1>1 DEF IsRanking
  <2>. QED  BY <1>1, <2>1 DEF ResolveRanked, UniqueBest
<1>2. CASE ranked # <<>>
  <2>1. TopMatches(ranked, match) = best
    BY <1>2, ConflictsAreComplete
  <2>2. ranked[1] \in candidates
    BY <1>2 DEF IsRanking
  <2>3. \A r, q \in candidates : match[r] \in Matches /\ match[q] \in Matches
    OBVIOUS
  <2>4. ranked[1] \in TopMatches(ranked, match)
    <3>1. 1 \in DOMAIN ranked /\ 1 .. 1 = {1}
      BY <1>2 DEF IsRanking
    <3>. QED  BY <3>1 DEF TopMatches, Ties
  <2>5. ASSUME best = {ranked[1]}
        PROVE  UniqueBest(candidates, match) = {ranked[1]}
    <3>1. ASSUME NEW q \in candidates \ {ranked[1]}
          PROVE  Outranks(match[ranked[1]], match[q])
      <4>1. PICK p \in candidates : Outranks(match[p], match[q])
        BY <2>5, <3>1
      <4>2. ~ Outranks(match[p], match[ranked[1]])
        BY <2>5, <4>1
      <4>. QED  BY <2>2, <2>3, <3>1, <4>1, <4>2 DEF Outranks, Matches
    <3>2. ASSUME NEW r \in UniqueBest(candidates, match)
          PROVE  r = ranked[1]
      BY <2>2, <2>3, <3>1, <3>2 DEF UniqueBest, Outranks, Matches
    <3>. QED  BY <2>2, <3>1, <3>2 DEF UniqueBest
  <2>6. ASSUME NEW r \in UniqueBest(candidates, match)
        PROVE  best = {r}
    <3>1. r \in candidates /\ \A q \in candidates \ {r} : Outranks(match[r], match[q])
      BY <2>6 DEF UniqueBest
    <3>2. \A q \in candidates : ~ Outranks(match[q], match[r])
      BY <2>3, <3>1 DEF Outranks, Matches
    <3>. QED  BY <3>1, <3>2
  <2>7. CASE best = {ranked[1]}
    BY <1>2, <2>1, <2>5, <2>7 DEF ResolveRanked
  <2>8. CASE best # {ranked[1]}
    <3>1. UniqueBest(candidates, match) = {}
      BY <2>1, <2>4, <2>6, <2>8
    <3>. QED  BY <2>1, <2>8, <3>1 DEF ResolveRanked
  <2>. QED  BY <2>7, <2>8
<1>. QED  BY <1>1, <1>2
=============================================================================
