--------------------------- MODULE MCConfigSave ----------------------------
(* Small instances of ConfigSave.                                          *)
EXTENDS ConfigSave
=============================================================================
