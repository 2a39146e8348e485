-------------------------------- MODULE MCDail --------------------------------
(* Small instances of DailVersion for TLC.                                      *)
EXTENDS DailVersion
=============================================================================
