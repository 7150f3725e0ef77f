------------------------------ MODULE MCTasks ------------------------------
(* Instances of Tasks for TLC: roles of the users, operations that each    *)
(* slot serves and bodies of the requests, chosen for what a run asks.     *)
EXTENDS Tasks, TLC

CONSTANTS u1, u2, s1, s2, d1, t1, t2, t3

OneAdmin == u1 :> "ADMIN"
\* One who was a member, and is still named by tasks.
AdminAndGone == u1 :> "ADMIN" @@ u2 :> None

\* One slot moves tasks and adds dependencies, the other does all the rest.
OneWriter == s1 :> {"update", "addDependency"}
             @@ s2 :> {"create", "remove", "removeDependency"}
TwoAdders == [s \in {s1, s2} |-> {"addDependency"}]

Body(status, assignee, details, lastKnown) ==
  [status |-> status, assignee |-> assignee, details |-> details, lastKnown |-> lastKnown]

Advances == {Body(st, "keep", "keep", None) : st \in {"IN_PROGRESS", "COMPLETED"}}
Sent == Advances \cup {Body("keep", u2, d1, None)}

\* All tasks are there and no time passes any more; or there is one, and one
\* request still to come.
Day  == INSTANCE Tasks WITH clock <- 0, served <- 0
Dawn == INSTANCE Tasks WITH clock <- 0, served <- 0, Seeded <- {t1}

WriterInit ==
  /\ \/ clock = MaxClock /\ served = 0 /\ Day!Init
     \/ clock = 0 /\ served = MaxRequests - 1 /\ Dawn!Init
  /\ \A t \in Tasks : row[t].creator = u1

WriterSpec == WriterInit /\ [][Next]_vars /\ \A s \in Slots : WF_vars(Step(s))
=============================================================================
