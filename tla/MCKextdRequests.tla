-------------------------- MODULE MCKextdRequests --------------------------
(* Small instances of KextdRequests for TLC. *)
EXTENDS KextdRequests, TLC

CONSTANTS u1, u2

PrelinkExit == <<"prelink", "exit">>
ExitLoad == <<"exit", "load">>
AllThree == <<"prelink", "load", "exit">>
=============================================================================
