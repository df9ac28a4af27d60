------------------------- MODULE MCModelDiscovery --------------------------
(* Small instances of ModelDiscovery.                                      *)
EXTENDS ModelDiscovery
=============================================================================
