---------------------------- MODULE MCProfiles -----------------------------
(* Small instances of Profiles.                                            *)
EXTENDS Profiles

ProfilesSymmetry == Permutations(Agents) \cup Permutations(Keys)
=============================================================================
