------------------------------- MODULE MCSessions -------------------------------
(* Constants of the TLC run over Sessions.                                 *)
EXTENDS Sessions, TLC

CONSTANTS r1, r2

MCUsers == {"ann"}
MCCalls == {"g1"}

Symmetry == Permutations(Refreshes)

================================================================================
