-------------------------- MODULE MCKextdExtensions --------------------------
(* Small instances of KextdExtensions for TLC. *)
EXTENDS KextdExtensions

CONSTANTS k1
=============================================================================
