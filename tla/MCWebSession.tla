---------------------------- MODULE MCWebSession ----------------------------
(* Small instances of WebSession for TLC. *)
EXTENDS WebSession

AllPages == {"index", "login", "submit", "other"}
NoChange == {}
=============================================================================
