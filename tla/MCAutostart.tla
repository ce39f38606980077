---------------------------- MODULE MCAutostart ------------------------------
(* The settings with which Autostart is looked at.                           *)
EXTENDS Autostart

Off == [start_with_windows |-> FALSE, rest |-> FALSE]
=============================================================================
