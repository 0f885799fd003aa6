---------------------------- MODULE MCSupervisor ----------------------------
(* Model values for checking Supervisor.                                   *)
EXTENDS Supervisor, TLC

CONSTANTS v1, v2, v3, g1, g2, g3

GenerationSymmetry == Permutations(Generations)
=============================================================================
