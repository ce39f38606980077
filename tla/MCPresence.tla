----------------------------- MODULE MCPresence -----------------------------
(* A small instance of Presence for TLC.                                      *)
EXTENDS Presence

\* The address of the peer on the network, and that of a virtual adapter of it.
Addresses == {"lan", "wsl"}
=============================================================================
