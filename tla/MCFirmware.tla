----------------------------- MODULE MCFirmware -----------------------------
(* Small instances of the firmware loop for TLC. *)
EXTENDS FirmwareProperties, TLC

\* Blocks differ in their name only.
MCSymmetry == Permutations(Blocks)
=============================================================================
