\* Two tools beside kextd, three versions of the bundle, one change or fault.
SPECIFICATION Spec
CONSTANTS
    Csr = {}
    ExcludeList <- MCExcludeList
    Procs = {1, 2}
    Contents <- MCContents
    Staged <- MCStaged
    Approved <- MCApproved
    Given <- MCGiven
    MaxStarts = 2
    MaxEvents = 1
INVARIANTS
    LoadingInv
    StagedIsValidated
    ApprovedAtLoad
PROPERTIES
    LoadsAreFresh
CHECK_DEADLOCK FALSE
