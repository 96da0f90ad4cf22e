\* Two tools, three kexts, one change or fault.
SPECIFICATION FairSpec
CONSTANTS
    Kexts <- MCKexts
    Sip = TRUE
    SignedOS = TRUE
    Tools = {1, 2}
    Given <- MCGiven
    Folders <- MCFolders
    Installed <- MCInstalled
    MaxStarts = 2
    MaxEvents = 1
INVARIANTS
    BuildersInOrder
    CachesAreCurrent
    ProtectedIsSafe
PROPERTIES
    ToolsEnd
CHECK_DEADLOCK FALSE
