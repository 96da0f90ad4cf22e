\* Two users, two kexts, two notes (of more kexts than a note may name, too), two
\* logins or logouts, one fault.
SPECIFICATION AlertsSpec
CONSTANTS
    k1 = k1
    k2 = k2
    u1 = u1
    u2 = u2
    Nobody = Nobody
    Kexts = {k1, k2}
    Users = {u1, u2}
    MaxInKexts = 1
    MaxNotes = 2
    MaxSessions = 2
    MaxFaults = 1
INVARIANTS
    ToldProperly
PROPERTIES
    AlertsSurface
CHECK_DEADLOCK FALSE
