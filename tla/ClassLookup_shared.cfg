\* Two threads look classes up, one of them overrides, evicts and reanchors; a loader is unloaded and its classes are loaded again.
SPECIFICATION Spec
CONSTANTS
    k1 = k1
    k2 = k2
    k3 = k3
    HostLoader = HostLoader
    NNames = 2
    Klass = {k1, k2, k3}
    Loader = {Boot, System, HostLoader}
    Boot = Boot
    System = System
    Launch = System
    Defines <- MCDefines
    Initial <- MCInitial
    Client = {c1, c2}
    JavaThread = {c1}
    Overrider = {c1}
    NoKlass = NoKlass
    Absent = Absent
    MaxUnloads = 1
INVARIANTS OverrideSticks
PROPERTIES ReanchorComplete HostVisible
CHECK_DEADLOCK FALSE
