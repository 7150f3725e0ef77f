----------------------------- MODULE MCChannels -----------------------------
(* Instances of Channels for TLC.                                          *)
EXTENDS Channels, TLC

CONSTANTS admin, member
=============================================================================
