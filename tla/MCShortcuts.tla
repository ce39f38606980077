---------------------------- MODULE MCShortcuts ------------------------------
(* A small instance of Shortcuts.                                            *)
EXTENDS Shortcuts
=============================================================================
