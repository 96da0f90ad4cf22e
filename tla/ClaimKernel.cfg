\* As Kextcache.cfg.
SPECIFICATION Spec
CONSTANTS
    Kexts <- MCKexts
    Sip = TRUE
    SignedOS = TRUE
    Tools = {1, 2}
    Given <- MCGiven
    Folders <- MCFolders
    Installed <- MCInstalled
    MaxStarts = 2
    MaxEvents = 1
PROPERTIES WrittenKernelKept
CHECK_DEADLOCK FALSE
