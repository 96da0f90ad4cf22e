SPECIFICATION FairSpec
CONSTANTS
    disk = disk
    data = data
    h1 = h1
    h2 = h2
    h3 = h3
    s1 = s1
    s2 = s2
    NoPort = NoPort
    Vols = {disk, data}
    Root = disk
    Helpers = {h1, h2}
    Rebooters = {}
    NonRoot = {}
    kMaxUpdateFailures = 1
    kMaxUpdateAttempts = 2
    GetOutOfMyWay = FALSE
    BaseSystem = FALSE
    AutoRebuildDisabled = FALSE
    ReadOnlyVols = {}
    HiddenVols = {}
    UnwatchableVols = {disk}
    NoOwnersVols = {}
    RemovableVols = {data}
    BootVols = {data}
    BootChangeVols = {data}
    PlistVols = {}
    InstallVols = {}
    TouchVols = {data}
    TouchKinds = {"boot", "kext"}
    ForkOutcomes = {TRUE, FALSE}
    MountOutcomes = {TRUE}
    ExitOutcomes = {"EX_OK", "failed"}
    SpontaneousVols = {}
    BrokenHelpers = FALSE
    MaxChanges = 3
    ErrCap = 2
INVARIANTS
    AttemptsBounded
PROPERTIES
    WaiterAnswered
    ChangeNoticed
