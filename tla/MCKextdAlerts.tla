---------------------------- MODULE MCKextdAlerts ----------------------------
(* Small instances of KextdAlerts for TLC. *)
EXTENDS KextdAlerts

CONSTANTS k1, k2, u1, u2
=============================================================================
