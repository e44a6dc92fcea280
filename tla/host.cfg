SPECIFICATION HostSpec
CONSTANTS
    Hosts = {h1, h2}
    Areas = 2
    EarlyOpen = FALSE
    Page = 2
    Default = 4
    Asked = {2, 3, 4}
    MaxAllocs = 3
SYMMETRY Symmetry
INVARIANT HostTypeOK
INVARIANT RegionsPrivate
INVARIANT HintAlwaysFree
INVARIANT DeviceHasModule
INVARIANT EnclaveHasMemory
