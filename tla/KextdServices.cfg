\* One kext, which changes once (or kextd is sent a SIGHUP), and one crash or
\* other fault; nobody at the console.
SPECIFICATION FairSpec
CONSTANTS
    k1 = k1
    Nobody = Nobody
    Kexts = {k1}
    Users = {}
    MaxInKexts = 1
    MaxNotes = 0
    MaxSessions = 0
    MaxFaults = 1
    Statuses = {"absent", "good", "inauthentic"}
    MaxChanges = 1
INVARIANTS
    ServiceInv
PROPERTIES
    NobodyWaits
    CatalogueCatchesUp
CHECK_DEADLOCK FALSE
