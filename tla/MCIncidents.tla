----------------------------- MODULE MCIncidents ----------------------------
(***************************************************************************)
(* Instance of Incidents for TLC.                                          *)
(***************************************************************************)
EXTENDS Incidents, TLC

CONSTANTS c, d, b, p1, p2

Symmetry == Permutations({c, d}) \union Permutations({p1, p2})
=============================================================================
