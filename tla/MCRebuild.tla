------------------------------- MODULE MCRebuild -------------------------------
(* Instances of Rebuild for TLC. *)
EXTENDS Rebuild, TLC
===============================================================================
