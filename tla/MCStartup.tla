----------------------------- MODULE MCStartup ------------------------------
(* A small instance of the start of the firmware for TLC. *)
EXTENDS Startup

MCCounts == 0..2
=============================================================================
