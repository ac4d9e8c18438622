----------------------------- MODULE MCDesktop ------------------------------
(* A small instance of the desktop for TLC. *)
EXTENDS Desktop

MCJobs == 1..6
MCSessions == {1}
=============================================================================
