---------------------------- MODULE MCBoardClient ----------------------------
(* Instances of BoardClient for TLC.                                       *)
EXTENDS BoardClient, TLC

CONSTANTS u1, u2, s1, d1, t1, t2

AdminAndMember == u1 :> "ADMIN" @@ u2 :> "MEMBER"
OneAtATime     == s1 :> {"create", "update", "remove"}

\* What other users send; None is the time a client never sends.
Sent(status, assignee, details, lastKnown) ==
  [status |-> status, assignee |-> assignee, details |-> details, lastKnown |-> lastKnown]

Bodies == {Sent("COMPLETED", u2, d1, 0),
           Body("IN_PROGRESS")}
=============================================================================
