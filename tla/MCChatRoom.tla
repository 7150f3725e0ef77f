----------------------------- MODULE MCChatRoom -----------------------------
(* Instances of ChatRoom for TLC.                                          *)
EXTENDS ChatRoom, TLC

CONSTANTS c1, p1
=============================================================================
