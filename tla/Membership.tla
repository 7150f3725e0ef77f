----------------------------- MODULE Membership -----------------------------
(***************************************************************************)
(* The members of one project                                              *)
(* (backend/src/projects/projects.service.ts).                             *)
(*                                                                         *)
(* A slot is one request in flight; a step runs from one await to the      *)
(* next, as in Tasks.  The role of the caller is read first and never      *)
(* again, so a request goes on with a role that may have been taken from   *)
(* the caller meanwhile.  A row of project_members has an identifier of    *)
(* its own: a member who left and came back has another row, which a       *)
(* request that names the old one does not touch.                          *)
(***************************************************************************)
EXTENDS Naturals, FiniteSets

CONSTANTS
  Users,
  Slots,        \* requests that may be in flight at the same time
  None,         \* null, or no row
  Kinds,        \* Kinds[s]: the operations that slot s may serve
  MaxRequests,  \* bound on the requests served
  Faults        \* TRUE if a request may die at any of its awaits

Roles      == {"ADMIN", "MANAGER", "MEMBER"}
Managing   == {"ADMIN", "MANAGER"}
Operations == {"addMember", "updateMemberRole", "removeMember", "remove"}

ASSUME MembershipAssumption ==
  /\ IsFiniteSet(Users)
  /\ None \notin Roles \cup {"added", "removed"}
  /\ Kinds \in [Slots -> SUBSET Operations]
  /\ MaxRequests \in Nat
  /\ Faults \in BOOLEAN

VARIABLES
  project,   \* "none" before it is created, then "live", then "deleted"
  role,      \* role[u]: the role in the row of u, None without a row
  joined,    \* joined[u]: how often u was given a row, the identifier of the last
  activity,  \* activity[u]: the last activity about the membership of u
  told,      \* told[u]: the last event sent to the room of u
  pc, job,   \* the requests in flight
  served     \* requests accepted so far

rows  == <<project, role, joined>>
news  == <<activity, told>>
slots == <<pc, job, served>>
vars  == <<rows, news, slots>>

Admins == {u \in Users : role[u] = "ADMIN"}
Member(u, id) == role[u] # None /\ joined[u] = id

Begin(s, kind, stage, locals) ==
  /\ pc[s] = "idle" /\ kind \in Kinds[s] /\ served < MaxRequests
  /\ pc' = [pc EXCEPT ![s] = stage]
  /\ job' = [job EXCEPT ![s] = locals]
  /\ served' = served + 1

Continue(s, stage, locals) ==
  /\ pc' = [pc EXCEPT ![s] = stage]
  /\ job' = [job EXCEPT ![s] = IF stage = "idle" THEN None ELSE locals]
  /\ served' = served

Finish(s) == Continue(s, "idle", None)

Tell(u, event)    == told' = [told EXCEPT ![u] = event]
Record(u, event)  == activity' = [activity EXCEPT ![u] = event]

----------------------------------------------------------------------------
(* create: one transaction for the project, the row of its creator, the    *)
(* default channel and the activity.                                       *)
Create(u) ==
  /\ project = "none"
  /\ project' = "live"
  /\ role' = [role EXCEPT ![u] = "ADMIN"]
  /\ joined' = [joined EXCEPT ![u] = @ + 1]
  /\ Record(u, "added")
  /\ UNCHANGED <<told, slots>>

----------------------------------------------------------------------------
(* addMember: the role of the caller; is the user a member; insert; log    *)
(* the activity; tell the user.                                            *)

AddRead(s, by, u, r) ==
  /\ role[by] \in Managing
  /\ r = "ADMIN" => role[by] = "ADMIN"
  /\ Begin(s, "addMember", "addFind", [by |-> role[by], user |-> u, role |-> r])
  /\ UNCHANGED <<rows, news>>

AddFind(s) ==
  /\ pc[s] = "addFind"
  /\ IF role[job[s].user] = None THEN Continue(s, "addInsert", job[s]) ELSE Finish(s)
  /\ UNCHANGED <<rows, news>>

(* The unique index on user and project, and the reference to the project. *)
AddInsert(s) ==
  LET u == job[s].user IN
  /\ pc[s] = "addInsert"
  /\ IF project = "live" /\ role[u] = None
       THEN /\ role' = [role EXCEPT ![u] = job[s].role]
            /\ joined' = [joined EXCEPT ![u] = @ + 1]
            /\ Continue(s, "addLog", job[s])
       ELSE UNCHANGED <<role, joined>> /\ Finish(s)
  /\ UNCHANGED <<project, news>>

AddLog(s) ==
  /\ pc[s] = "addLog"
  /\ IF project = "live"
       THEN Record(job[s].user, "added") /\ Tell(job[s].user, "added")
       ELSE UNCHANGED news
  /\ Finish(s)
  /\ UNCHANGED rows

----------------------------------------------------------------------------
(* updateMemberRole: the role of the caller; the row; update; tell.        *)

ChangeRead(s, by, u, id, r) ==
  /\ role[by] \in Managing
  /\ id \in 1..joined[u]
  /\ Begin(s, "updateMemberRole", "changeFind",
           [by |-> role[by], user |-> u, id |-> id, role |-> r])
  /\ UNCHANGED <<rows, news>>

\* Variant: a manager is only kept from making admins, not from unmaking them.
ChangeAnyone(s) ==
  LET j == job[s] IN
  /\ pc[s] = "changeFind"
  /\ IF Member(j.user, j.id) /\ (j.by = "MANAGER" => j.role # "ADMIN")
       THEN Continue(s, "changeWrite", j)
       ELSE Finish(s)
  /\ UNCHANGED <<rows, news>>

ChangeFind(s) ==
  LET j == job[s] IN
  /\ pc[s] = "changeFind"
  /\ IF Member(j.user, j.id) /\ (j.by = "MANAGER" => "ADMIN" \notin {role[j.user], j.role})
       THEN Continue(s, "changeWrite", j)
       ELSE Finish(s)
  /\ UNCHANGED <<rows, news>>

ChangeWrite(s) ==
  LET j == job[s] IN
  /\ pc[s] = "changeWrite"
  /\ IF Member(j.user, j.id)
       THEN role' = [role EXCEPT ![j.user] = j.role] /\ Tell(j.user, j.role)
       ELSE UNCHANGED <<role, told>>
  /\ Finish(s)
  /\ UNCHANGED <<project, joined, activity>>

----------------------------------------------------------------------------
(* removeMember: the role of the caller; the row; for an admin, how many   *)
(* there are; delete; log the activity; tell the user.                     *)

RemoveRead(s, by, u, id) ==
  /\ role[by] \in Managing
  /\ id \in 1..joined[u]
  /\ Begin(s, "removeMember", "removeFind", [by |-> role[by], user |-> u, id |-> id])
  /\ UNCHANGED <<rows, news>>

RemoveFind(s) ==
  LET j == job[s] IN
  /\ pc[s] = "removeFind"
  /\ IF Member(j.user, j.id) /\ ~(j.by = "MANAGER" /\ role[j.user] = "ADMIN")
       THEN Continue(s, IF role[j.user] = "ADMIN" THEN "removeCount" ELSE "removeDelete", j)
       ELSE Finish(s)
  /\ UNCHANGED <<rows, news>>

\* Variant: off by one.
RemoveLast(s) ==
  /\ pc[s] = "removeCount"
  /\ IF Cardinality(Admins) < 1 THEN Finish(s) ELSE Continue(s, "removeDelete", job[s])
  /\ UNCHANGED <<rows, news>>

RemoveCount(s) ==
  /\ pc[s] = "removeCount"
  /\ IF Cardinality(Admins) <= 1 THEN Finish(s) ELSE Continue(s, "removeDelete", job[s])
  /\ UNCHANGED <<rows, news>>

RemoveDelete(s) ==
  LET j == job[s] IN
  /\ pc[s] = "removeDelete"
  /\ IF Member(j.user, j.id)
       THEN role' = [role EXCEPT ![j.user] = None] /\ Continue(s, "removeLog", j)
       ELSE UNCHANGED role /\ Finish(s)
  /\ UNCHANGED <<project, joined, news>>

\* Variant: the user is not told.
RemoveSilently(s) ==
  /\ pc[s] = "removeLog"
  /\ IF project = "live" THEN Record(job[s].user, "removed") ELSE UNCHANGED activity
  /\ Finish(s)
  /\ UNCHANGED <<rows, told>>

RemoveLog(s) ==
  /\ pc[s] = "removeLog"
  /\ IF project = "live"
       THEN Record(job[s].user, "removed") /\ Tell(job[s].user, "removed")
       ELSE UNCHANGED news
  /\ Finish(s)
  /\ UNCHANGED rows

----------------------------------------------------------------------------
(* remove: the role of the caller and the members; delete the project,     *)
(* which takes the rows and the activities with it.  Nobody is told.       *)

DeleteRead(s, by) ==
  /\ role[by] = "ADMIN"
  /\ Begin(s, "remove", "delete", None)
  /\ UNCHANGED <<rows, news>>

Delete(s) ==
  /\ pc[s] = "delete"
  /\ IF project = "live"
       THEN /\ project' = "deleted"
            /\ role' = [u \in Users |-> None]
            /\ activity' = [u \in Users |-> None]
       ELSE UNCHANGED <<project, role, activity>>
  /\ Finish(s)
  /\ UNCHANGED <<joined, told>>

----------------------------------------------------------------------------
Fail(s) ==
  /\ Faults
  /\ pc[s] # "idle"
  /\ Finish(s)
  /\ UNCHANGED <<rows, news>>

Init ==
  /\ project = "none"
  /\ role = [u \in Users |-> None]
  /\ joined = [u \in Users |-> 0]
  /\ activity = [u \in Users |-> None]
  /\ told = [u \in Users |-> None]
  /\ pc = [s \in Slots |-> "idle"]
  /\ job = [s \in Slots |-> None]
  /\ served = 0

Arrive(s) ==
  \E by \in Users :
    \/ \E u \in Users, r \in Roles : AddRead(s, by, u, r)
    \/ \E u \in Users, r \in Roles : \E id \in 1..joined[u] : ChangeRead(s, by, u, id, r)
    \/ \E u \in Users : \E id \in 1..joined[u] : RemoveRead(s, by, u, id)
    \/ DeleteRead(s, by)

Step(s) ==
  \/ AddFind(s) \/ AddInsert(s) \/ AddLog(s)
  \/ ChangeFind(s) \/ ChangeWrite(s)
  \/ RemoveFind(s) \/ RemoveCount(s) \/ RemoveDelete(s) \/ RemoveLog(s)
  \/ Delete(s)

Next == (\E u \in Users : Create(u)) \/ \E s \in Slots : Arrive(s) \/ Step(s) \/ Fail(s)

Spec == Init /\ [][Next]_vars

----------------------------------------------------------------------------
(* Properties. *)

AddJob    == [by : Managing, user : Users, role : Roles]
ChangeJob == [by : Managing, user : Users, id : Nat, role : Roles]
RemoveJob == [by : Managing, user : Users, id : Nat]

AddStages    == {"addFind", "addInsert", "addLog"}
ChangeStages == {"changeFind", "changeWrite"}
RemoveStages == {"removeFind", "removeCount", "removeDelete", "removeLog"}

Fits(stage, locals) ==
  /\ stage \in AddStages => locals \in AddJob
  /\ stage \in ChangeStages => locals \in ChangeJob
  /\ stage \in RemoveStages => locals \in RemoveJob

SlotsOK ==
  /\ pc \in [Slots -> {"idle", "delete"} \cup AddStages \cup ChangeStages \cup RemoveStages]
  /\ DOMAIN job = Slots
  /\ \A s \in Slots : Fits(pc[s], job[s])
  /\ served \in Nat

(* Rows, news and requests in flight have their shape, and only a project  *)
(* that exists has members.                                                *)
TypeOK ==
  /\ project \in {"none", "live", "deleted"}
  /\ role \in [Users -> Roles \cup {None}]
  /\ joined \in [Users -> Nat]
  /\ activity \in [Users -> {"added", "removed", None}]
  /\ told \in [Users -> {"added", "removed", None} \cup Roles]
  /\ SlotsOK
  /\ project # "live" => \A u \in Users : role[u] = None

(* "Cannot remove the last project admin": no removeMember takes the last  *)
(* one away.                                                               *)
RemovalKeepsAdmin ==
  [][\A s \in Slots :
       pc[s] = "removeDelete" /\ pc'[s] # pc[s] /\ Admins # {} => Admins' # {}]_vars

(* "Managers cannot modify admin roles": the row of an admin is changed or *)
(* deleted only by a request of an admin.                                  *)
ManagersSpareAdmins ==
  [][\A s \in Slots :
       pc[s] \in {"changeWrite", "removeDelete"} /\ pc'[s] # pc[s] /\ job[s].by = "MANAGER"
         => \A u \in Admins : role'[u] = "ADMIN"]_vars

(* Why both hold as long as one slot changes and removes members: up to    *)
(* its write, what the request found out about the row is still true.      *)
FindingStands ==
  \A s \in Slots : pc[s] \in {"changeWrite", "removeCount", "removeDelete"} =>
    LET j == job[s] IN
    /\ j.id <= joined[j.user]
    /\ Member(j.user, j.id) =>
         /\ j.by = "MANAGER" => role[j.user] # "ADMIN"
         /\ pc[s] = "removeDelete" /\ role[j.user] = "ADMIN" => Admins \ {j.user} # {}

\* At most one slot serves these operations.
OneServes(operations) ==
  \A p, q \in Slots :
    Kinds[p] \cap operations # {} /\ Kinds[q] \cap operations # {} => p = q

(* What the activity log and the last event told user u agree with the row *)
(* of u.                                                                   *)
NewsFit(u) ==
  /\ role[u] # None <=> activity[u] = "added"
  /\ told[u] = "removed" => role[u] = None
  /\ told[u] \in Roles => role[u] = told[u]
  /\ told[u] = "added" => role[u] # None
=============================================================================
