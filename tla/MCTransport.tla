---------------------------- MODULE MCTransport -----------------------------
(* Small instances of the command transport for TLC. *)
EXTENDS TransportProperties

CONSTANTS x, press

MCMotorOrder == <<x, press>>

\* Two motors that start together, as the Y pair does.
MCPair == {<<x, press>>}

\* And a motor that moves alone and is polled before its baseline is known.
MCGroups == {<<x, press>>, <<press>>}
MCPollFirst == {press}
MCPollNone == {}
=============================================================================
