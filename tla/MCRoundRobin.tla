---------------------------- MODULE MCRoundRobin ----------------------------
(***************************************************************************)
(* Module RoundRobin for TLC: process names are interchangeable.           *)
(***************************************************************************)
EXTENDS RoundRobin, TLC

Symmetry == Permutations(Process)
=============================================================================
