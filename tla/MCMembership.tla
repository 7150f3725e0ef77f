---------------------------- MODULE MCMembership ----------------------------
(* Instances of Membership for TLC: which slot serves which operations.    *)
(* A history variable tells whose news may have been mixed up.             *)
EXTENDS Membership, TLC

CONSTANTS s1, s2

VARIABLE mixed  \* users about whom two requests overlapped, or one died

Symmetry == Permutations(Users)

\* Roles are changed by one slot; the other only adds members.
OneChanger == s1 :> {"updateMemberRole", "removeMember", "remove"} @@ s2 :> {"addMember"}

About(s) == IF pc[s] \in {"idle", "delete"} THEN {} ELSE {job[s].user}

MixedInit == Init /\ mixed = {}

MixedNext ==
  \/ (\E u \in Users : Create(u)) /\ UNCHANGED mixed
  \/ \E s \in Slots :
       /\ Arrive(s) \/ Step(s)
       /\ mixed' = mixed \cup UNION {About(s)' \cap About(q)' : q \in Slots \ {s}}
  \/ \E s \in Slots : Fail(s) /\ mixed' = mixed \cup About(s)

MixedSpec == MixedInit /\ [][MixedNext]_<<vars, mixed>>

(* Between requests, the activity log and the last event sent to a user    *)
(* agree with the row of the user, unless two requests about this user     *)
(* overlapped or one died (addMember and removeMember log and tell after   *)
(* they have written).                                                     *)
NewsCurrent ==
  project = "live" => \A u \in Users \ mixed :
    (\A s \in Slots : u \notin About(s)) => NewsFit(u)
=============================================================================
