SPECIFICATION AsyncSpec
CONSTANTS
    probe = probe
    gpio = gpio
    d1 = d1
    r1 = r1
    t1 = t1
    t2 = t2
    Absent = Absent
    NoDriver = NoDriver
    Unbound = Unbound
    NoState = NoState
    NoTask = NoTask
    NoLock = NoLock
    Probes = {probe}
    Interfaces = {gpio}
    Devices = {d1}
    Drivers = {r1}
    Tasks = {t1, t2}
    InterfacesOf <- MCInterfacesOf
    Reportable <- AnyDescriptor
    Descriptors <- MCDescriptors
    Manifests <- MCManifests
    Facts <- MCFacts
    Configs <- MCConfigs
INVARIANT
    BindAttemptsSerialize
