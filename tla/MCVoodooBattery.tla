--------------------------- MODULE MCVoodooBattery ---------------------------
(* VoodooBattery for TLC.  It has no counter to bound: the threads and the     *)
(* devices are all that is finite.                                            *)
EXTENDS VoodooBattery
=============================================================================
