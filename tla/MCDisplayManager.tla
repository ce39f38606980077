--------------------------- MODULE MCDisplayManager ---------------------------
(* A small instance of DisplayManager for TLC.                               *)
EXTENDS DisplayManager

TwoMonitors == 1 .. 2
=============================================================================
