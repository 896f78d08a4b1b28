SPECIFICATION RuntimeSpec
CONSTANTS
    probe = probe
    gpio = gpio
    d1 = d1
    r1 = r1
    r2 = r2
    r3 = r3
    Absent = Absent
    NoDriver = NoDriver
    Unbound = Unbound
    NoState = NoState
    Probes = {probe}
    Interfaces = {gpio}
    Devices = {d1}
    Drivers = {r1, r2, r3}
    InterfacesOf <- MCInterfacesOf
    Reportable <- AnyDescriptor
    Descriptors <- MCDescriptors
    Manifests <- MCManifests
    Facts <- MCFacts
    Configs <- MCConfigs
INVARIANTS
    RuntimeTypeOK
    BindingFresh
    StateOfBinding
    StoppedIsEmpty
    HandlesAccounted
    UnbindSticks
