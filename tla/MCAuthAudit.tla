------------------------------ MODULE MCAuthAudit ------------------------------
(* Instances of AuthAudit for TLC. *)
EXTENDS AuthAudit, TLC
===============================================================================
