----------------------------- MODULE MCDeployment ------------------------------
(* Small instances of Deployment for the model checker.                      *)
EXTENDS Deployment, TLC

CONSTANTS r1, r2, old, new

\* r2 brings two migrations and reads the new config, which r1 does not.
KnowsOf == r1 :> 1 @@ r2 :> 3
ReadsOf == r1 :> {old} @@ r2 :> {old, new}

Alike == Permutations(Operators)
=============================================================================
