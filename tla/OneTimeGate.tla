---------------------------- MODULE OneTimeGate -----------------------------
(***************************************************************************)
(* What the temporary code promises: time is cut in slices, access is      *)
(* granted at most once for a slice, and only when the medium already      *)
(* records that slice as spent.  What is spent stays spent.                *)
(***************************************************************************)
EXTENDS Integers

CONSTANT Last               \* the last slice

VARIABLES
    spent,                  \* every slice up to this one is spent
    grants                  \* how often access was granted for each slice

gateVars == <<spent, grants>>

GateInit == spent = 0 /\ grants = [s \in 0 .. Last |-> 0]

Spend ==
    /\ spent' \in spent + 1 .. Last
    /\ UNCHANGED grants

Grant ==
    /\ \E s \in 1 .. spent :
        /\ grants[s] = 0
        /\ grants' = [grants EXCEPT ![s] = 1]
    /\ UNCHANGED spent

GateNext == Spend \/ Grant

GateSpec == GateInit /\ [][GateNext]_gateVars
=============================================================================
