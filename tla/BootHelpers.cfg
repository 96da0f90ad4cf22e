SPECIFICATION FairSpec
CONSTANTS
    NumBoots = 2
    Recovery = {2}
    Tainted = {2}
    FirstDirs <- MCFirstDirs
    RootVolume = TRUE
    Options = {{"expect"}}
    Changes = {{"rps"}, {"rps", "booter", "misc"}}
    MaxClock = 3
    MaxFaults = 1
    MaxCrashes = 1
INVARIANTS
    HelpersInOrder
    AlwaysBootable
    StampsHonest
    BooterSupportsKernel
PROPERTIES
    KernelAdvances
    Converges
CHECK_DEADLOCK FALSE
