SPECIFICATION Spec
CONSTANTS
    disk = disk
    data = data
    h1 = h1
    h2 = h2
    h3 = h3
    s1 = s1
    s2 = s2
    NoPort = NoPort
    Vols = {disk, data}
    Root = disk
    Helpers = {h1, h2}
    Rebooters = {s1}
    NonRoot = {}
    kMaxUpdateFailures = 1
    kMaxUpdateAttempts = 0
    GetOutOfMyWay = FALSE
    BaseSystem = FALSE
    AutoRebuildDisabled = FALSE
    ReadOnlyVols = {}
    HiddenVols = {}
    UnwatchableVols = {}
    NoOwnersVols = {}
    RemovableVols = {data}
    BootVols = {disk, data}
    BootChangeVols = {}
    PlistVols = {}
    InstallVols = {}
    TouchVols = {disk, data}
    TouchKinds = {"boot"}
    ForkOutcomes = {TRUE}
    MountOutcomes = {TRUE}
    ExitOutcomes = {"EX_OK", "failed"}
    SpontaneousVols = {disk, data}
    BrokenHelpers = TRUE
    MaxChanges = 1
    ErrCap = 2
SYMMETRY Symmetry
INVARIANTS
    TypeOK
    RebootExcludesUpdates
    PortsAgree
PROPERTIES
    ImplementsLocks
