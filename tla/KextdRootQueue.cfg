SPECIFICATION Spec
CONSTANTS
    disk = disk
    data = data
    h1 = h1
    h2 = h2
    h3 = h3
    s1 = s1
    s2 = s2
    NoPort = NoPort
    Vols = {disk}
    Root = disk
    Helpers = {h1, h2, h3}
    Rebooters = {s1}
    NonRoot = {}
    kMaxUpdateFailures = 1
    kMaxUpdateAttempts = 1
    GetOutOfMyWay = FALSE
    BaseSystem = FALSE
    AutoRebuildDisabled = FALSE
    ReadOnlyVols = {}
    HiddenVols = {}
    UnwatchableVols = {}
    NoOwnersVols = {disk}
    RemovableVols = {}
    BootVols = {disk}
    BootChangeVols = {}
    PlistVols = {disk}
    InstallVols = {disk}
    TouchVols = {disk}
    TouchKinds = {"boot"}
    ForkOutcomes = {TRUE}
    MountOutcomes = {TRUE}
    ExitOutcomes = {"EX_OK", "failed"}
    SpontaneousVols = {disk}
    BrokenHelpers = TRUE
    MaxChanges = 2
    ErrCap = 2
SYMMETRY Symmetry
INVARIANTS
    NoWaiterOnFreeLock
    RootLockHonest
PROPERTIES
    RootInOrder
    RebootOnlyWhenClean
