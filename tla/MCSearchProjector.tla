--------------------------- MODULE MCSearchProjector ---------------------------
(* Instances of SearchProjector for TLC. *)
EXTENDS SearchProjector, TLC

UserSymmetry == Permutations(Users)
===============================================================================
