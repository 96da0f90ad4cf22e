--------------------------- MODULE MCBootHelpers ---------------------------
(* Small instances of BootHelpers for TLC. *)
EXTENDS BootHelpers

(* One helper is as an update leaves it; the other was left with all three
   directories.                                                           *)
MCFirstDirs == <<{"R"}, Dirs>>
=============================================================================
