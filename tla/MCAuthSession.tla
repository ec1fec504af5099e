---------------------------- MODULE MCAuthSession ----------------------------
(* Instances of AuthSession for TLC. *)
EXTENDS AuthSession, TLC

\* Events that name no session, as they should: nothing reads them, and the
\* only thing the properties say of them is that.  States that differ in them are one.
Anonymous == [type : OtherEvents, session : {None}]
View == <<idm, client, req, clock, accepted, history, events \ Anonymous>>

HandlerSymmetry == Permutations(Handlers)
===============================================================================
