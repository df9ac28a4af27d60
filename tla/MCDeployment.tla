---------------------------- MODULE MCDeployment ---------------------------
(* Small instances of Deployment.                                          *)
EXTENDS Deployment, TLC

DeploymentSymmetry == Permutations(Deployers) \cup Permutations(Kits)
=============================================================================
