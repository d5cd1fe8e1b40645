--------------------------- MODULE MCLampControl ---------------------------
(* The instance of LampControl for TLC.                                     *)
EXTENDS LampControl
=============================================================================
