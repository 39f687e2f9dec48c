---------------------------- MODULE MCWebSessions -----------------------------
(* Model values for WebSessions: an owner t1, whose own access nobody limits, *)
(* and a member t2.                                                           *)
EXTENDS WebSessions

CONSTANTS t1, t2, a
=============================================================================
