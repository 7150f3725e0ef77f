----------------------------- MODULE MCPresence -----------------------------
(* Instances of Presence for TLC: tabs, their users and connections.       *)
EXTENDS Presence, TLC

CONSTANTS c1, c2, u1, u2, k1, k2, k3

TwoUsers == c1 :> u1 @@ c2 :> u2
\* The first tab may reconnect while the server still holds its old socket.
ThreeSockets == k1 :> c1 @@ k2 :> c1 @@ k3 :> c2
=============================================================================
