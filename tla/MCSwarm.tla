------------------------------ MODULE MCSwarm ------------------------------
(***************************************************************************)
(* Finite values for the constants of Swarm.                               *)
(***************************************************************************)
EXTENDS Swarm, MCLuaCSP

SwarmSymmetry == Symmetry \cup Permutations(Swarms)
============================================================================
