------------------------------ MODULE MCServer ------------------------------
(* A server for a few clients, with fewer places than clients. *)
EXTENDS Server, TLC

(* The clients are interchangeable: no property names one, and the safety  *)
(* run uses this symmetry.                                                 *)
ClientSymmetry == Permutations(Client)

=============================================================================
