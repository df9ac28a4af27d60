------------------------- MODULE MCTemporaryAccess -------------------------
(* Small instances of TemporaryAccess.                                     *)
EXTENDS TemporaryAccess

\* Two slices of one window have the same code; one code is for no slice.
MCCodes == {{}, {0}, {1, 3}, {2}} \cup {{s} : s \in 4 .. MaxSlice}
=============================================================================
