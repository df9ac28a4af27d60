--------------------------- MODULE MCPigeonStore ---------------------------
(* Small instances of PigeonStore.                                         *)
EXTENDS PigeonStore

MCBodySizes == {1, 2}
=============================================================================
