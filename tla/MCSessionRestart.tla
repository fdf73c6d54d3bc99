-------------------------- MODULE MCSessionRestart --------------------------
(* Small instances of SessionRestart for TLC. *)
EXTENDS SessionRestart

Dynamic == {"index", "submit"}
NoChange == {}
=============================================================================
