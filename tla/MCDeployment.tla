--------------------------- MODULE MCDeployment ---------------------------
(***************************************************************************)
(* Two workers, as Dockerfile.backend starts, for TLC.                     *)
(***************************************************************************)
EXTENDS Deployment, TLC

\* Workers are only compared.
MCSymmetry == Permutations(Workers)
===========================================================================
