\* Two kextutils, a prelink and an exit request of the kernel, one event.
SPECIFICATION FairSpec
CONSTANTS
    u1 = u1
    u2 = u2
    None = None
    Kextutils = {u1, u2}
    LOCK_MAXTRIES = 2
    Requests <- PrelinkExit
    MaxEvents = 1
INVARIANTS
    TypeOK
    HolderIsKnown
    KernelWaits
PROPERTIES
    RequestsServed
    LockFreed
    SignalsHeeded
CHECK_DEADLOCK FALSE
