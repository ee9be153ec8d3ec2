----------------------------- MODULE MCCmrMsg ------------------------------
(***************************************************************************)
(* Instances of CmrMsg for TLC.                                            *)
(***************************************************************************)
EXTENDS CmrMsg, TLC
CONSTANTS p1, p2
Symmetry == Permutations({p1, p2})
=============================================================================
