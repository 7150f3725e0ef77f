-------------------------- MODULE MembershipProofs --------------------------
(* What Membership guarantees for every number of users and requests.      *)
EXTENDS MCMembership, FiniteSetTheorems, TLAPS

LEMMA IdleFits == \A locals : Fits("idle", locals) /\ Fits("delete", locals)
BY DEF Fits, AddStages, ChangeStages, RemoveStages

\* The stages a request can stand at.
Stages == {"idle", "delete"} \cup AddStages \cup ChangeStages \cup RemoveStages

(* Taking a slot, and moving on in it, with locals that fit the stage      *)
(* keeps every slot well formed.                                           *)
LEMMA BeginType ==
  ASSUME SlotsOK, NEW s \in Slots, NEW kind, NEW stage \in Stages, NEW locals,
         Fits(stage, locals), Begin(s, kind, stage, locals)
  PROVE  SlotsOK'
BY DEF SlotsOK, Begin, Stages

LEMMA ContinueType ==
  ASSUME SlotsOK, NEW s \in Slots, NEW stage \in Stages, NEW locals,
         Fits(stage, locals), Continue(s, stage, locals)
  PROVE  SlotsOK'
<1>1. \A q \in Slots : Fits(pc'[q], job'[q])
  BY IdleFits DEF SlotsOK, Continue
<1> QED
  BY <1>1 DEF SlotsOK, Continue, Stages

LEMMA FinishType ==
  ASSUME SlotsOK, NEW s \in Slots, Finish(s)
  PROVE  SlotsOK'
BY ContinueType, IdleFits DEF Finish, Stages

LEMMA CreateType ==
  ASSUME TypeOK, NEW u \in Users, Create(u)
  PROVE  TypeOK'
BY DEF TypeOK, SlotsOK, Create, Record, slots, Roles

LEMMA ArriveType ==
  ASSUME TypeOK, NEW s \in Slots, Arrive(s)
  PROVE  TypeOK'
<1> USE DEF Stages, AddStages, ChangeStages, RemoveStages
<1> PICK by \in Users :
      \/ \E u \in Users, r \in Roles : AddRead(s, by, u, r)
      \/ \E u \in Users, r \in Roles : \E id \in 1..joined[u] : ChangeRead(s, by, u, id, r)
      \/ \E u \in Users : \E id \in 1..joined[u] : RemoveRead(s, by, u, id)
      \/ DeleteRead(s, by)
  BY DEF Arrive
<1>1. ASSUME NEW u \in Users, NEW r \in Roles, AddRead(s, by, u, r)
      PROVE  TypeOK'
  <2>1. Fits("addFind", [by |-> role[by], user |-> u, role |-> r])
    BY <1>1 DEF AddRead, Fits, AddJob
  <2>2. SlotsOK'
    BY <1>1, <2>1, BeginType DEF AddRead, TypeOK
  <2> QED
    BY <1>1, <2>2 DEF AddRead, TypeOK, rows, news
<1>2. ASSUME NEW u \in Users, NEW r \in Roles, NEW id \in 1..joined[u],
             ChangeRead(s, by, u, id, r)
      PROVE  TypeOK'
  <2>1. id \in Nat
    BY DEF TypeOK
  <2>2. Fits("changeFind", [by |-> role[by], user |-> u, id |-> id, role |-> r])
    BY <1>2, <2>1 DEF ChangeRead, Fits, ChangeJob
  <2>3. SlotsOK'
    BY <1>2, <2>2, BeginType DEF ChangeRead, TypeOK
  <2> QED
    BY <1>2, <2>3 DEF ChangeRead, TypeOK, rows, news
<1>3. ASSUME NEW u \in Users, NEW id \in 1..joined[u], RemoveRead(s, by, u, id)
      PROVE  TypeOK'
  <2>1. id \in Nat
    BY DEF TypeOK
  <2>2. Fits("removeFind", [by |-> role[by], user |-> u, id |-> id])
    BY <1>3, <2>1 DEF RemoveRead, Fits, RemoveJob
  <2>3. SlotsOK'
    BY <1>3, <2>2, BeginType DEF RemoveRead, TypeOK
  <2> QED
    BY <1>3, <2>3 DEF RemoveRead, TypeOK, rows, news
<1>4. ASSUME DeleteRead(s, by)
      PROVE  TypeOK'
  <2>1. SlotsOK'
    BY <1>4, IdleFits, BeginType DEF DeleteRead, TypeOK
  <2> QED
    BY <1>4, <2>1 DEF DeleteRead, TypeOK, rows, news
<1> QED
  BY <1>1, <1>2, <1>3, <1>4

LEMMA StepType ==
  ASSUME TypeOK, NEW s \in Slots, Step(s)
  PROVE  TypeOK'
<1> USE DEF Stages, AddStages, ChangeStages, RemoveStages
<1>0. SlotsOK /\ Fits(pc[s], job[s])
  BY DEF TypeOK, SlotsOK
<1>1. CASE AddFind(s)
  <2>1. Fits("addInsert", job[s])
    BY <1>0, <1>1 DEF Fits, AddFind
  <2>2. SlotsOK'
    BY <1>0, <1>1, <2>1, ContinueType, FinishType DEF AddFind
  <2> QED
    BY <1>1, <2>2 DEF AddFind, TypeOK, rows, news
<1>2. CASE AddInsert(s)
  <2>1. Fits("addLog", job[s]) /\ job[s] \in AddJob
    BY <1>0, <1>2 DEF Fits, AddInsert
  <2>2. SlotsOK'
    BY <1>0, <1>2, <2>1, ContinueType, FinishType DEF AddInsert
  <2> QED
    BY <1>2, <2>1, <2>2 DEF AddInsert, AddJob, TypeOK, news
<1>3. CASE AddLog(s)
  <2>1. SlotsOK'
    BY <1>0, <1>3, FinishType DEF AddLog
  <2> QED
    BY <1>3, <2>1 DEF AddLog, Record, Tell, TypeOK, rows, news
<1>4. CASE ChangeFind(s)
  <2>1. Fits("changeWrite", job[s])
    BY <1>0, <1>4 DEF Fits, ChangeFind
  <2>2. SlotsOK'
    BY <1>0, <1>4, <2>1, ContinueType, FinishType DEF ChangeFind
  <2> QED
    BY <1>4, <2>2 DEF ChangeFind, TypeOK, rows, news
<1>5. CASE ChangeWrite(s)
  <2>1. job[s] \in ChangeJob
    BY <1>0, <1>5 DEF Fits, ChangeWrite
  <2>2. SlotsOK'
    BY <1>0, <1>5, FinishType DEF ChangeWrite
  <2> QED
    BY <1>5, <2>1, <2>2 DEF ChangeWrite, ChangeJob, Member, Tell, TypeOK
<1>6. CASE RemoveFind(s)
  <2>1. Fits("removeCount", job[s]) /\ Fits("removeDelete", job[s])
    BY <1>0, <1>6 DEF Fits, RemoveFind
  <2>2. SlotsOK'
    BY <1>0, <1>6, <2>1, ContinueType, FinishType DEF RemoveFind
  <2> QED
    BY <1>6, <2>2 DEF RemoveFind, TypeOK, rows, news
<1>7. CASE RemoveCount(s)
  <2>1. Fits("removeDelete", job[s])
    BY <1>0, <1>7 DEF Fits, RemoveCount
  <2>2. SlotsOK'
    BY <1>0, <1>7, <2>1, ContinueType, FinishType DEF RemoveCount
  <2> QED
    BY <1>7, <2>2 DEF RemoveCount, TypeOK, rows, news
<1>8. CASE RemoveDelete(s)
  <2>1. Fits("removeLog", job[s]) /\ job[s] \in RemoveJob
    BY <1>0, <1>8 DEF Fits, RemoveDelete
  <2>2. SlotsOK'
    BY <1>0, <1>8, <2>1, ContinueType, FinishType DEF RemoveDelete
  <2> QED
    BY <1>8, <2>1, <2>2 DEF RemoveDelete, RemoveJob, TypeOK, news
<1>9. CASE RemoveLog(s)
  <2>1. SlotsOK'
    BY <1>0, <1>9, FinishType DEF RemoveLog
  <2> QED
    BY <1>9, <2>1 DEF RemoveLog, Record, Tell, TypeOK, rows, news
<1>10. CASE Delete(s)
  <2>1. SlotsOK'
    BY <1>0, <1>10, FinishType DEF Delete
  <2> QED
    BY <1>10, <2>1 DEF Delete, TypeOK
<1> QED
  BY <1>1, <1>2, <1>3, <1>4, <1>5, <1>6, <1>7, <1>8, <1>9, <1>10 DEF Step

LEMMA InitType == Init => TypeOK
<1> SUFFICES ASSUME Init PROVE TypeOK
  OBVIOUS
<1>1. SlotsOK
  BY IdleFits DEF Init, SlotsOK
<1> QED
  BY <1>1 DEF Init, TypeOK

LEMMA NextType == TypeOK /\ [Next]_vars => TypeOK'
<1> SUFFICES ASSUME TypeOK, [Next]_vars PROVE TypeOK'
  OBVIOUS
<1>1. CASE UNCHANGED vars
  BY <1>1 DEF TypeOK, SlotsOK, vars, rows, news, slots
<1>2. ASSUME NEW s \in Slots, Fail(s) PROVE TypeOK'
  <2>1. SlotsOK'
    BY <1>2, FinishType DEF Fail, TypeOK
  <2> QED
    BY <1>2, <2>1 DEF Fail, TypeOK, rows, news
<1> QED
  BY <1>1, <1>2, CreateType, ArriveType, StepType DEF Next

(* Every reachable state has the shape the handlers rely on, and only a    *)
(* project that exists has members.                                        *)
THEOREM TypeCorrect == Spec => []TypeOK
BY InitType, NextType, PTL DEF Spec
----------------------------------------------------------------------------
(* Admins, as long as one slot changes and removes members.                *)

\* The inductive invariant.
Changing == \A s \in Slots :
  /\ pc[s] \in ChangeStages => "updateMemberRole" \in Kinds[s]
  /\ pc[s] \in RemoveStages => "removeMember" \in Kinds[s]
  /\ pc[s] = "delete" => "remove" \in Kinds[s]

MemberInv == TypeOK /\ Changing /\ FindingStands

Alters == {"updateMemberRole", "removeMember", "remove"}

LEMMA OthersStay ==
  ASSUME TypeOK, NEW s \in Slots, Arrive(s) \/ Step(s) \/ Fail(s),
         NEW q \in Slots, q # s
  PROVE  pc'[q] = pc[q] /\ job'[q] = job[q]
BY DEF TypeOK, SlotsOK, Arrive, Step, Fail, Begin, Continue, Finish, AddRead, ChangeRead,
       RemoveRead, DeleteRead, AddFind, AddInsert, AddLog, ChangeFind, ChangeWrite,
       RemoveFind, RemoveCount, RemoveDelete, RemoveLog, Delete

(* Where a request that stands in a handler came from.                     *)
LEMMA InHandler ==
  ASSUME TypeOK, NEW s \in Slots, Arrive(s) \/ Step(s) \/ Fail(s)
  PROVE  /\ pc'[s] \in ChangeStages =>
              \/ pc[s] \in ChangeStages /\ ChangeFind(s)
              \/ pc'[s] = "changeFind" /\ "updateMemberRole" \in Kinds[s]
         /\ pc'[s] \in RemoveStages =>
              \/ pc[s] \in RemoveStages /\ (RemoveFind(s) \/ RemoveCount(s) \/ pc'[s] = "removeLog")
              \/ pc'[s] = "removeFind" /\ "removeMember" \in Kinds[s]
         /\ pc'[s] = "delete" => "remove" \in Kinds[s]
BY DEF TypeOK, SlotsOK, AddStages, ChangeStages, RemoveStages, Arrive, Step, Fail, Begin,
       Continue, Finish, AddRead, ChangeRead, RemoveRead, DeleteRead, AddFind, AddInsert,
       AddLog, ChangeFind, ChangeWrite, RemoveFind, RemoveCount, RemoveDelete, RemoveLog,
       Delete

(* A slot that serves no altering operation leaves the rows that exist as  *)
(* they are: it can only add.                                              *)
LEMMA OnlyAdds ==
  ASSUME TypeOK, Changing, NEW s \in Slots, Kinds[s] \cap Alters = {},
         Arrive(s) \/ Step(s) \/ Fail(s), NEW u \in Users
  PROVE  \/ role'[u] = role[u] /\ joined'[u] = joined[u]
         \/ role[u] = None /\ joined'[u] = joined[u] + 1
<1>1. ~ChangeWrite(s) /\ ~RemoveDelete(s) /\ ~Delete(s)
  BY DEF Changing, Alters, ChangeWrite, RemoveDelete, Delete, ChangeStages, RemoveStages
<1>2. CASE AddInsert(s)
  BY <1>2 DEF AddInsert, TypeOK
<1>3. CASE UNCHANGED <<role, joined>>
  BY <1>3
<1> QED
  BY <1>1, <1>2, <1>3
     DEF Arrive, Step, Fail, AddRead, ChangeRead, RemoveRead, DeleteRead, AddFind, AddLog,
         ChangeFind, RemoveFind, RemoveCount, RemoveLog, rows

(* What a request found out survives the addition of members.              *)
LEMMA SurvivesAdds ==
  ASSUME TypeOK, FindingStands, NEW q \in Slots,
         pc[q] \in {"changeWrite", "removeCount", "removeDelete"},
         \A u \in Users : \/ role'[u] = role[u] /\ joined'[u] = joined[u]
                          \/ role[u] = None /\ joined'[u] = joined[u] + 1
  PROVE  LET j == job[q] IN
         /\ j.id <= joined'[j.user]
         /\ role'[j.user] # None /\ joined'[j.user] = j.id =>
              /\ j.by = "MANAGER" => role'[j.user] # "ADMIN"
              /\ pc[q] = "removeDelete" /\ role'[j.user] = "ADMIN" =>
                   \E v \in Users \ {j.user} : role'[v] = "ADMIN"
<1> DEFINE j == job[q]
<1>1. j.user \in Users /\ j.id \in Nat /\ joined[j.user] \in Nat
  BY DEF TypeOK, SlotsOK, Fits, ChangeJob, RemoveJob, ChangeStages, RemoveStages
<1>2. /\ j.id <= joined[j.user]
      /\ Member(j.user, j.id) =>
           /\ j.by = "MANAGER" => role[j.user] # "ADMIN"
           /\ pc[q] = "removeDelete" /\ role[j.user] = "ADMIN" => Admins \ {j.user} # {}
  BY DEF FindingStands
<1> HIDE DEF j
<1>3. CASE role[j.user] = None /\ joined'[j.user] = joined[j.user] + 1
  <2>1. j.id <= joined'[j.user] /\ joined'[j.user] # j.id
    BY <1>1, <1>2, <1>3
  <2> QED
    BY <2>1 DEF j
<1>4. CASE role'[j.user] = role[j.user] /\ joined'[j.user] = joined[j.user]
  <2>1. \A v \in Users : role[v] = "ADMIN" => role'[v] = "ADMIN"
    BY MembershipAssumption DEF Roles
  <2>2. ASSUME role[j.user] # None, joined[j.user] = j.id
        PROVE  /\ j.by = "MANAGER" => role[j.user] # "ADMIN"
               /\ pc[q] = "removeDelete" /\ role[j.user] = "ADMIN" =>
                    \E v \in Users \ {j.user} : role[v] = "ADMIN"
    BY <1>2, <2>2 DEF Member, Admins
  <2>3. j.id <= joined'[j.user]
    BY <1>2, <1>4
  <2> QED
    BY <1>4, <2>1, <2>2, <2>3 DEF j
<1> QED
  BY <1>1, <1>3, <1>4

LEMMA SecondAdmin ==
  ASSUME ~(Cardinality(Admins) <= 1), NEW x \in Admins
  PROVE  Admins \ {x} # {}
<1> SUFFICES ASSUME Admins \ {x} = {} PROVE FALSE
  OBVIOUS
<1>1. IsFiniteSet(Admins)
  BY MembershipAssumption, FS_Subset DEF Admins
<1>2. Cardinality(Admins) \in Nat /\ Cardinality(Admins \ {x}) = Cardinality(Admins) - 1
  BY <1>1, FS_CardinalityType, FS_RemoveElement
<1>3. Cardinality(Admins \ {x}) = 0
  BY FS_EmptySet
<1> QED
  BY <1>2, <1>3
LEMMA MemberStep ==
  ASSUME MemberInv, OneServes(Alters),
         NEW s \in Slots, Arrive(s) \/ Step(s) \/ Fail(s)
  PROVE  MemberInv'
<1> USE DEF MemberInv
<1>1. TypeOK'
  BY NextType DEF Next
<1>2. Changing'
  <2> SUFFICES ASSUME NEW q \in Slots
               PROVE  /\ pc'[q] \in ChangeStages => "updateMemberRole" \in Kinds[q]
                      /\ pc'[q] \in RemoveStages => "removeMember" \in Kinds[q]
                      /\ pc'[q] = "delete" => "remove" \in Kinds[q]
    BY DEF Changing
  <2>1. CASE q # s
    BY <2>1, OthersStay DEF Changing
  <2>2. CASE q = s
    BY <2>2, InHandler DEF Changing
  <2> QED
    BY <2>1, <2>2
<1>3. FindingStands'
  <2> SUFFICES ASSUME NEW q \in Slots,
                      pc'[q] \in {"changeWrite", "removeCount", "removeDelete"}
               PROVE  LET j == job'[q] IN
                      /\ j.id <= joined'[j.user]
                      /\ role'[j.user] # None /\ joined'[j.user] = j.id =>
                           /\ j.by = "MANAGER" => role'[j.user] # "ADMIN"
                           /\ pc'[q] = "removeDelete" /\ role'[j.user] = "ADMIN" =>
                                \E v \in Users \ {j.user} : role'[v] = "ADMIN"
    BY DEF FindingStands, Member, Admins
  <2>1. CASE q # s
    <3>1. pc'[q] = pc[q] /\ job'[q] = job[q]
      BY <2>1, OthersStay
    <3>2. Kinds[q] \cap Alters # {}
      BY <3>1 DEF Changing, Alters, ChangeStages, RemoveStages
    <3>3. Kinds[s] \cap Alters = {}
      BY <2>1, <3>2 DEF OneServes
    <3> QED
      BY <3>1, <3>3, OnlyAdds, SurvivesAdds
  <2>2. CASE q = s /\ ChangeFind(s)
    <3>1. /\ Member(job[s].user, job[s].id)
          /\ job[s].by = "MANAGER" => role[job[s].user] # "ADMIN"
          /\ pc'[s] = "changeWrite" /\ job'[s] = job[s]
          /\ UNCHANGED <<role, joined>>
          /\ job[s].id \in Nat
      BY <2>2 DEF ChangeFind, Continue, Finish, TypeOK, SlotsOK, Fits, ChangeJob,
                  ChangeStages, rows
    <3> QED
      BY <2>2, <3>1 DEF Member
  <2>3. CASE q = s /\ RemoveFind(s)
    <3>1. /\ Member(job[s].user, job[s].id)
          /\ job[s].by = "MANAGER" => role[job[s].user] # "ADMIN"
          /\ pc'[s] = "removeDelete" => role[job[s].user] # "ADMIN"
          /\ job'[s] = job[s]
          /\ UNCHANGED <<role, joined>>
          /\ job[s].id \in Nat
      BY <2>3 DEF RemoveFind, Continue, Finish, TypeOK, SlotsOK, Fits, RemoveJob,
                  RemoveStages, rows
    <3> QED
      BY <2>3, <3>1 DEF Member
  <2>4. CASE q = s /\ RemoveCount(s)
    <3>1. /\ pc[s] = "removeCount" /\ ~(Cardinality(Admins) <= 1)
          /\ job'[s] = job[s] /\ job[s].user \in Users
          /\ UNCHANGED <<role, joined>>
      BY <2>4 DEF RemoveCount, Continue, Finish, TypeOK, SlotsOK, Fits, RemoveJob,
                  RemoveStages, rows
    <3>2. role[job[s].user] = "ADMIN" => \E v \in Users \ {job[s].user} : role[v] = "ADMIN"
      BY <3>1, SecondAdmin DEF Admins
    <3>3. /\ job[s].id <= joined[job[s].user]
          /\ Member(job[s].user, job[s].id) =>
               (job[s].by = "MANAGER" => role[job[s].user] # "ADMIN")
      BY <3>1 DEF FindingStands
    <3> QED
      BY <2>4, <3>1, <3>2, <3>3 DEF Member
  <2> QED
    BY <2>1, <2>2, <2>3, <2>4, InHandler DEF ChangeStages, RemoveStages
<1> QED
  BY <1>1, <1>2, <1>3

LEMMA MemberInit == Init => MemberInv
BY InitType DEF Init, MemberInv, Changing, FindingStands, ChangeStages, RemoveStages

LEMMA MemberNext ==
  ASSUME OneServes(Alters)
  PROVE  MemberInv /\ [Next]_vars => MemberInv'
<1> SUFFICES ASSUME MemberInv, [Next]_vars PROVE MemberInv'
  OBVIOUS
<1>1. CASE \E s \in Slots : Arrive(s) \/ Step(s) \/ Fail(s)
  BY <1>1, MemberStep
<1>2. ASSUME NEW u \in Users, Create(u)
      PROVE  MemberInv'
  <2>1. TypeOK'
    BY <1>2, NextType DEF Next, MemberInv
  <2>2. pc' = pc /\ job' = job
    BY <1>2 DEF Create, slots
  <2>3. \A v \in Users : \/ role'[v] = role[v] /\ joined'[v] = joined[v]
                         \/ role[v] = None /\ joined'[v] = joined[v] + 1
    BY <1>2 DEF Create, MemberInv, TypeOK
  <2>4. FindingStands'
    <3> SUFFICES ASSUME NEW q \in Slots,
                        pc[q] \in {"changeWrite", "removeCount", "removeDelete"}
                 PROVE  LET j == job[q] IN
                        /\ j.id <= joined'[j.user]
                        /\ role'[j.user] # None /\ joined'[j.user] = j.id =>
                             /\ j.by = "MANAGER" => role'[j.user] # "ADMIN"
                             /\ pc[q] = "removeDelete" /\ role'[j.user] = "ADMIN" =>
                                  \E v \in Users \ {j.user} : role'[v] = "ADMIN"
      BY <2>2 DEF FindingStands, Member, Admins
    <3> QED
      BY <2>3, SurvivesAdds DEF MemberInv
  <2> QED
    BY <2>1, <2>2, <2>4 DEF MemberInv, Changing
<1>3. CASE UNCHANGED vars
  <2>1. TypeOK'
    BY <1>3, NextType DEF MemberInv
  <2> QED
    BY <1>3, <2>1 DEF MemberInv, Changing, FindingStands, Member, Admins, vars, rows, slots
<1> QED
  BY <1>1, <1>2, <1>3 DEF Next

(* A step that moves a slot on is a step of that slot.                     *)
LEMMA OwnStep ==
  ASSUME TypeOK, Next, NEW q \in Slots, pc'[q] # pc[q]
  PROVE  Arrive(q) \/ Step(q) \/ Fail(q)
BY OthersStay DEF Next, Create, slots

(* "Cannot remove the last project admin", for every number of users and   *)
(* requests, if one slot serves all that lets go of an admin: while it     *)
(* counts and deletes, others may add members.                             *)
THEOREM RemovalKeepsAdminAlways ==
  ASSUME OneServes(Alters)
  PROVE  Spec => RemovalKeepsAdmin
<1>1. MemberInv /\ [Next]_vars =>
        [\A s \in Slots :
           pc[s] = "removeDelete" /\ pc'[s] # pc[s] /\ Admins # {} => Admins' # {}]_vars
  <2> SUFFICES ASSUME MemberInv, Next, NEW s \in Slots, pc[s] = "removeDelete",
                      pc'[s] # pc[s], Admins # {}
               PROVE  \E v \in Users : role'[v] = "ADMIN"
    BY DEF Admins
  <2>1. RemoveDelete(s) \/ UNCHANGED role
    BY OwnStep
       DEF MemberInv, Arrive, Step, Fail, Begin, AddRead, ChangeRead, RemoveRead, DeleteRead,
           AddFind, AddInsert, AddLog, ChangeFind, ChangeWrite, RemoveFind, RemoveCount,
           RemoveLog, Delete, rows
  <2>2. CASE UNCHANGED role
    BY <2>2 DEF Admins
  <2>3. CASE RemoveDelete(s) /\ Member(job[s].user, job[s].id)
    <3>1. role' = [role EXCEPT ![job[s].user] = None]
      BY <2>3 DEF RemoveDelete
    <3>2. CASE role[job[s].user] = "ADMIN"
      <4>1. PICK v \in Admins : v # job[s].user
        BY <2>3, <3>2 DEF MemberInv, FindingStands
      <4> QED
        BY <3>1, <4>1 DEF Admins, MemberInv, TypeOK
    <3>3. CASE role[job[s].user] # "ADMIN"
      BY <3>1, <3>3 DEF Admins, MemberInv, TypeOK
    <3> QED
      BY <3>2, <3>3
  <2> QED
    BY <2>1, <2>2, <2>3 DEF RemoveDelete
<1> QED
  BY <1>1, MemberInit, MemberNext, PTL DEF Spec, RemovalKeepsAdmin

(* "Managers cannot modify admin roles", under the same condition: no      *)
(* request of a manager changes or deletes the row of an admin, even one   *)
(* who became admin after the request began.                               *)
THEOREM ManagersSpareAdminsAlways ==
  ASSUME OneServes(Alters)
  PROVE  Spec => ManagersSpareAdmins
<1>1. MemberInv /\ [Next]_vars =>
        [\A s \in Slots :
           pc[s] \in {"changeWrite", "removeDelete"} /\ pc'[s] # pc[s] /\ job[s].by = "MANAGER"
             => \A u \in Admins : role'[u] = "ADMIN"]_vars
  <2> SUFFICES ASSUME MemberInv, Next, NEW s \in Slots,
                      pc[s] \in {"changeWrite", "removeDelete"}, pc'[s] # pc[s],
                      job[s].by = "MANAGER", NEW u \in Admins
               PROVE  role'[u] = "ADMIN"
    OBVIOUS
  <2>1. RemoveDelete(s) \/ ChangeWrite(s) \/ UNCHANGED role
    BY OwnStep
       DEF MemberInv, Arrive, Step, Fail, Begin, AddRead, ChangeRead, RemoveRead, DeleteRead,
           AddFind, AddInsert, AddLog, ChangeFind, RemoveFind, RemoveCount,
           RemoveLog, Delete, rows
  <2>2. CASE role' = role
    BY <2>2 DEF Admins
  <2>3. CASE role' # role
    <3>1. Member(job[s].user, job[s].id)
      BY <2>1, <2>3 DEF RemoveDelete, ChangeWrite
    <3>2. role[job[s].user] # "ADMIN"
      BY <3>1 DEF MemberInv, FindingStands
    <3>3. u # job[s].user
      BY <3>2 DEF Admins
    <3> QED
      BY <2>1, <2>3, <3>3 DEF RemoveDelete, ChangeWrite, Admins, MemberInv, TypeOK
  <2> QED
    BY <2>2, <2>3
<1> QED
  BY <1>1, MemberInit, MemberNext, PTL DEF Spec, ManagersSpareAdmins
----------------------------------------------------------------------------
(* The news about a member, whichever slots serve what.                    *)

\* The stages of a request that has written and has not told of it yet.
Untold == {"addLog", "removeLog"}

\* At most one request is about u; if it has written, the row is what its
\* news will say; if none has, the news of u fit the row.
UserFit(u) ==
  /\ \A p, q \in Slots : u \in About(p) /\ u \in About(q) => p = q
  /\ project = "live" =>
       /\ (\A s \in Slots : u \in About(s) => pc[s] \notin Untold) => NewsFit(u)
       /\ \A s \in Slots : u \in About(s) =>
            /\ pc[s] = "addLog" => role[u] # None
            /\ pc[s] = "removeLog" => role[u] = None

\* Before the project is created nothing is said and nothing is under way.
Fresh ==
  project = "none" =>
    /\ \A u \in Users : activity[u] = None /\ told[u] = None
    /\ \A s \in Slots : pc[s] = "idle"

\* The inductive invariant.
MixedInv == TypeOK /\ Fresh /\ \A u \in Users \ mixed : UserFit(u)

LEMMA OthersAbout ==
  ASSUME TypeOK, NEW s \in Slots, Arrive(s) \/ Step(s) \/ Fail(s),
         NEW q \in Slots, q # s
  PROVE  About(q)' = About(q) /\ pc'[q] = pc[q]
BY OthersStay DEF About

(* What fits a user still does when the row and the news of the user stay  *)
(* and no request about the user begins or ends a write.                   *)
LEMMA SameUser ==
  ASSUME NEW u \in Users, UserFit(u),
         project' = "live" =>
           /\ project = "live"
           /\ role'[u] = role[u] /\ activity'[u] = activity[u] /\ told'[u] = told[u],
         \A q \in Slots : u \in About(q)' =>
           /\ pc'[q] \in Untold => u \in About(q) /\ pc'[q] = pc[q]
           /\ \A p \in Slots : u \in About(p)' => p = q,
         \A q \in Slots : u \in About(q) /\ pc[q] \in Untold =>
           u \in About(q)' /\ pc'[q] = pc[q]
  PROVE  UserFit(u)'
<1>1. \A p, q \in Slots : u \in About(p)' /\ u \in About(q)' => p = q
  OBVIOUS
<1>2. CASE project' # "live"
  BY <1>1, <1>2 DEF UserFit
<1>3. CASE project' = "live"
  <2>1. ASSUME \A q \in Slots : u \in About(q)' => pc'[q] \notin Untold
        PROVE  NewsFit(u)'
    <3>1. NewsFit(u)
      BY <1>3, <2>1 DEF UserFit
    <3> QED
      BY <1>3, <3>1 DEF NewsFit
  <2>2. ASSUME NEW q \in Slots, u \in About(q)'
        PROVE  /\ pc'[q] = "addLog" => role'[u] # None
               /\ pc'[q] = "removeLog" => role'[u] = None
    BY <1>3, <2>2 DEF UserFit, Untold
  <2> QED
    BY <1>1, <2>1, <2>2 DEF UserFit
<1> QED
  BY <1>2, <1>3

LEMMA ArriveNews ==
  ASSUME TypeOK, NEW s \in Slots, Arrive(s), NEW u \in Users, UserFit(u),
         \A q \in Slots \ {s} : u \notin About(s)' \cap About(q)'
  PROVE  UserFit(u)'
<1>1. UNCHANGED <<rows, news>>
  BY DEF Arrive, AddRead, ChangeRead, RemoveRead, DeleteRead
<1>2. pc[s] = "idle" /\ pc'[s] \notin Untold
  BY DEF Arrive, AddRead, ChangeRead, RemoveRead, DeleteRead, Begin, TypeOK, SlotsOK, Untold
<1>3. u \notin About(s)
  BY <1>2 DEF About
<1>4. \A q \in Slots \ {s} : About(q)' = About(q) /\ pc'[q] = pc[q]
  BY OthersAbout
<1> QED
  BY <1>1, <1>2, <1>3, <1>4, SameUser DEF rows, news, UserFit

(* A request goes on about the same user, or ends.                         *)
LEMMA StepAbout ==
  ASSUME TypeOK, NEW s \in Slots, Step(s) \/ Fail(s)
  PROVE  About(s)' \subseteq About(s)
<1>1. pc[s] # "idle" /\ pc'[s] # "delete" /\ (pc'[s] # "idle" => job'[s] = job[s] /\ pc[s] # "delete")
  BY DEF Step, Fail, Continue, Finish, AddFind, AddInsert, AddLog, ChangeFind, ChangeWrite,
         RemoveFind, RemoveCount, RemoveDelete, RemoveLog, Delete, TypeOK, SlotsOK
<1> QED
  BY <1>1 DEF About

(* A step writes and tells about nobody else, unless it deletes all.       *)
LEMMA StepElse ==
  ASSUME TypeOK, NEW s \in Slots, Step(s), NEW u \in Users, u \notin About(s),
         project' = "live"
  PROVE  /\ project = "live"
         /\ role'[u] = role[u] /\ activity'[u] = activity[u] /\ told'[u] = told[u]
<1>1. CASE Delete(s)
  BY <1>1 DEF Delete
<1>2. CASE UNCHANGED <<rows, news>>
  BY <1>2 DEF rows, news
<1>3. CASE AddInsert(s) \/ AddLog(s) \/ ChangeWrite(s) \/ RemoveDelete(s) \/ RemoveLog(s)
  <2>1. u # job[s].user
    BY <1>3 DEF About, AddInsert, AddLog, ChangeWrite, RemoveDelete, RemoveLog
  <2> QED
    BY <1>3, <2>1 DEF AddInsert, AddLog, ChangeWrite, RemoveDelete, RemoveLog, Record, Tell,
                      TypeOK, rows, news
<1> QED
  BY <1>1, <1>2, <1>3 DEF Step, AddFind, ChangeFind, RemoveFind, RemoveCount

LEMMA StepNews ==
  ASSUME TypeOK, NEW s \in Slots, Step(s), NEW u \in Users, UserFit(u)
  PROVE  UserFit(u)'
<1>0. /\ \A q \in Slots \ {s} : About(q)' = About(q) /\ pc'[q] = pc[q]
      /\ About(s)' \subseteq About(s)
  BY OthersAbout, StepAbout
<1>1. CASE u \notin About(s)
  BY <1>0, <1>1, StepElse, SameUser DEF UserFit
<1>2. CASE u \in About(s)
  <2>1. \A q \in Slots \ {s} : u \notin About(q) /\ u \notin About(q)'
    BY <1>0, <1>2 DEF UserFit
  <2>2. u = job[s].user
    BY <1>2 DEF About
  <2>3. /\ role \in [Users -> Roles \cup {None}]
        /\ activity \in [Users -> {"added", "removed", None}]
        /\ told \in [Users -> {"added", "removed", None} \cup Roles]
        /\ None \notin Roles \cup {"added", "removed"}
        /\ pc \in [Slots -> {"idle", "delete"} \cup AddStages \cup ChangeStages \cup RemoveStages]
        /\ DOMAIN job = Slots
        /\ pc[s] \in AddStages => job[s].role \in Roles
        /\ pc[s] \in ChangeStages => job[s].role \in Roles
    BY MembershipAssumption DEF TypeOK, SlotsOK, Fits, AddJob, ChangeJob
  \* What is left to show: the one request about u, before and after.
  <2>4. SUFFICES ASSUME project' = "live"
                 PROVE  /\ (u \in About(s)' => pc'[s] \notin Untold) => NewsFit(u)'
                        /\ u \in About(s)' =>
                             /\ pc'[s] = "addLog" => role'[u] # None
                             /\ pc'[s] = "removeLog" => role'[u] = None
    BY <1>0, <2>1 DEF UserFit
  <2>5. ~Delete(s)
    BY <1>2 DEF Delete, About
  <2>6. project = "live"
    BY <2>4, <2>5 DEF Step, AddFind, AddInsert, AddLog, ChangeFind, ChangeWrite, RemoveFind,
                      RemoveCount, RemoveDelete, RemoveLog, rows
  <2>7. /\ pc[s] \notin Untold => NewsFit(u)
        /\ pc[s] = "addLog" => role[u] # None
        /\ pc[s] = "removeLog" => role[u] = None
    BY <1>2, <2>1, <2>6 DEF UserFit
  <2>8. CASE AddFind(s) \/ ChangeFind(s) \/ RemoveFind(s) \/ RemoveCount(s)
    <3>1. UNCHANGED <<rows, news>> /\ pc[s] \notin Untold /\ pc'[s] \notin Untold
      BY <2>3, <2>8 DEF AddFind, ChangeFind, RemoveFind, RemoveCount, Continue, Finish, Untold
    <3> QED
      BY <2>7, <3>1 DEF rows, news, NewsFit, Untold
  <2>9. CASE AddInsert(s)
    <3>1. pc[s] = "addInsert" /\ NewsFit(u)
      BY <2>7, <2>9 DEF AddInsert, Untold
    <3>2. CASE role[u] = None
      <4>1. role'[u] # None /\ pc'[s] = "addLog" /\ job'[s] = job[s]
        BY <2>2, <2>3, <2>6, <2>9, <3>1, <3>2 DEF AddInsert, Continue, AddStages
      <4>2. u \in About(s)'
        BY <2>2, <4>1 DEF About
      <4> QED
        BY <4>1, <4>2 DEF Untold
    <3>3. CASE role[u] # None
      <4>1. UNCHANGED <<rows, news>> /\ pc'[s] = "idle"
        BY <2>2, <2>3, <2>9, <3>3 DEF AddInsert, Continue, Finish, rows
      <4> QED
        BY <3>1, <4>1 DEF rows, news, NewsFit, About
    <3> QED
      BY <3>2, <3>3
  <2>10. CASE AddLog(s)
    <3>1. role' = role /\ activity'[u] = "added" /\ told'[u] = "added" /\ role[u] # None
      BY <2>2, <2>3, <2>6, <2>7, <2>10 DEF AddLog, Record, Tell, rows
    <3>2. pc'[s] = "idle"
      BY <2>3, <2>10 DEF AddLog, Continue, Finish
    <3> QED
      BY <3>1, <3>2 DEF NewsFit, Roles, About
  <2>11. CASE ChangeWrite(s)
    <3>1. pc[s] = "changeWrite" /\ NewsFit(u) /\ pc'[s] = "idle"
      BY <2>3, <2>7, <2>11 DEF ChangeWrite, Untold, Continue, Finish
    <3>2. CASE Member(u, job[s].id)
      <4>1. job[s].role \in Roles
        BY <2>3, <3>1 DEF ChangeStages
      <4>2. role'[u] = job[s].role /\ told'[u] = job[s].role /\ activity' = activity /\ role[u] # None
        BY <2>2, <2>3, <2>11, <3>2 DEF ChangeWrite, Tell, Member
      <4> QED
        BY <2>3, <3>1, <4>1, <4>2 DEF NewsFit, Roles, About
    <3>3. CASE ~Member(u, job[s].id)
      <4>1. UNCHANGED <<rows, news>>
        BY <2>2, <2>11, <3>3 DEF ChangeWrite, rows, news
      <4> QED
        BY <3>1, <4>1 DEF rows, news, NewsFit, About
    <3> QED
      BY <3>2, <3>3
  <2>12. CASE RemoveDelete(s)
    <3>1. pc[s] = "removeDelete" /\ NewsFit(u)
      BY <2>7, <2>12 DEF RemoveDelete, Untold
    <3>2. CASE Member(u, job[s].id)
      <4>1. role'[u] = None /\ pc'[s] = "removeLog" /\ job'[s] = job[s]
        BY <2>2, <2>3, <2>12, <3>2 DEF RemoveDelete, Continue
      <4>2. u \in About(s)'
        BY <2>2, <4>1 DEF About
      <4> QED
        BY <4>1, <4>2 DEF Untold
    <3>3. CASE ~Member(u, job[s].id)
      <4>1. UNCHANGED <<rows, news>> /\ pc'[s] = "idle"
        BY <2>2, <2>3, <2>12, <3>3 DEF RemoveDelete, Continue, Finish, rows
      <4> QED
        BY <3>1, <4>1 DEF rows, news, NewsFit, About
    <3> QED
      BY <3>2, <3>3
  <2>13. CASE RemoveLog(s)
    <3>1. role' = role /\ activity'[u] = "removed" /\ told'[u] = "removed" /\ role[u] = None
      BY <2>2, <2>3, <2>6, <2>7, <2>13 DEF RemoveLog, Record, Tell, rows
    <3>2. pc'[s] = "idle"
      BY <2>3, <2>13 DEF RemoveLog, Continue, Finish
    <3> QED
      BY <3>1, <3>2 DEF NewsFit, Roles, About
  <2> QED
    BY <2>5, <2>8, <2>9, <2>10, <2>11, <2>12, <2>13 DEF Step
<1> QED
  BY <1>1, <1>2

(* A request that dies says nothing about anybody it is not about.         *)
LEMMA FailNews ==
  ASSUME TypeOK, NEW s \in Slots, Fail(s), NEW u \in Users, UserFit(u), u \notin About(s)
  PROVE  UserFit(u)'
<1>1. /\ \A q \in Slots \ {s} : About(q)' = About(q) /\ pc'[q] = pc[q]
      /\ About(s)' \subseteq About(s)
  BY OthersAbout, StepAbout
<1>2. UNCHANGED <<rows, news>>
  BY DEF Fail
<1> QED
  BY <1>1, <1>2, SameUser DEF rows, news, UserFit

LEMMA CreateNews ==
  ASSUME TypeOK, Fresh, NEW v \in Users, Create(v), NEW u \in Users
  PROVE  UserFit(u)'
<1>1. \A s \in Slots : About(s)' = {}
  BY DEF Fresh, Create, slots, About
<1>2. /\ u = v => role'[u] = "ADMIN" /\ activity'[u] = "added"
      /\ u # v => role'[u] = None /\ activity'[u] = None
      /\ told'[u] = None
  BY DEF Fresh, Create, Record, TypeOK
<1>3. NewsFit(u)'
  BY <1>2, MembershipAssumption DEF NewsFit, Roles
<1> QED
  BY <1>1, <1>3 DEF UserFit

LEMMA MixedIsNext == [MixedNext]_<<vars, mixed>> => [Next]_vars
BY DEF MixedNext, Next

LEMMA FreshNext == TypeOK /\ Fresh /\ [Next]_vars => Fresh'
<1> SUFFICES ASSUME TypeOK, Fresh, [Next]_vars PROVE Fresh'
  OBVIOUS
<1>0. CASE project' # "none"
  BY <1>0 DEF Fresh
<1> SUFFICES ASSUME project' = "none" PROVE Fresh'
  BY <1>0
<1>1. CASE UNCHANGED vars
  BY <1>1 DEF Fresh, vars, rows, news, slots
<1>2. ASSUME NEW u \in Users, Create(u) PROVE FALSE
  BY <1>2 DEF Create
<1>3. ASSUME NEW s \in Slots, Arrive(s) \/ Step(s) \/ Fail(s) PROVE FALSE
  <2>1. project = "none"
    BY <1>3 DEF Arrive, Step, Fail, AddRead, ChangeRead, RemoveRead, DeleteRead, AddFind,
                AddInsert, AddLog, ChangeFind, ChangeWrite, RemoveFind, RemoveCount,
                RemoveDelete, RemoveLog, Delete, rows
  <2>2. pc[s] = "idle" /\ \A u \in Users : role[u] = None
    BY <2>1 DEF Fresh, TypeOK
  <2>3. ~Step(s) /\ ~Fail(s)
    BY <2>2 DEF Step, Fail, AddFind, AddInsert, AddLog, ChangeFind, ChangeWrite, RemoveFind,
                RemoveCount, RemoveDelete, RemoveLog, Delete
  <2>4. ~Arrive(s)
    BY <2>2, MembershipAssumption
       DEF Arrive, AddRead, ChangeRead, RemoveRead, DeleteRead, Managing, Roles
  <2> QED
    BY <1>3, <2>3, <2>4
<1> QED
  BY <1>1, <1>2, <1>3 DEF Next

LEMMA MixedNews == MixedInv /\ [MixedNext]_<<vars, mixed>> => MixedInv'
<1> SUFFICES ASSUME MixedInv, [MixedNext]_<<vars, mixed>> PROVE MixedInv'
  OBVIOUS
<1>1. TypeOK' /\ Fresh'
  BY MixedIsNext, NextType, FreshNext DEF MixedInv
<1>2. ASSUME NEW u \in Users \ mixed' PROVE UserFit(u)'
  <2>1. CASE UNCHANGED <<vars, mixed>>
    BY <2>1 DEF MixedInv, UserFit, NewsFit, About, vars, rows, news, slots
  <2>2. ASSUME NEW v \in Users, Create(v), UNCHANGED mixed PROVE UserFit(u)'
    BY <2>2, CreateNews DEF MixedInv
  <2>3. ASSUME NEW s \in Slots, Arrive(s) \/ Step(s),
               mixed' = mixed \cup UNION {About(s)' \cap About(q)' : q \in Slots \ {s}}
        PROVE  UserFit(u)'
    <3>1. UserFit(u) /\ TypeOK
      BY <2>3 DEF MixedInv
    <3>2. \A q \in Slots \ {s} : u \notin About(s)' \cap About(q)'
      BY <2>3
    <3> QED
      BY <2>3, <3>1, <3>2, ArriveNews, StepNews
  <2>4. ASSUME NEW s \in Slots, Fail(s), mixed' = mixed \cup About(s)
        PROVE  UserFit(u)'
    BY <2>4, FailNews DEF MixedInv
  <2> QED
    BY <2>1, <2>2, <2>3, <2>4 DEF MixedNext
<1> QED
  BY <1>1, <1>2 DEF MixedInv

(* The history variable only watches: what is proved of Spec holds of the  *)
(* specification the runs check.                                           *)
THEOREM MixedCovered == MixedSpec => Spec
<1>1. MixedInit => Init
  BY DEF MixedInit
<1> QED
  BY <1>1, MixedIsNext, PTL DEF MixedSpec, Spec

(* The activity log and the last event sent to a user agree with the row   *)
(* of the user between requests, for every number of users and of requests *)
(* and whatever each slot serves: only two requests about the same user    *)
(* that overlap, or one that dies, can leave them behind.                  *)
THEOREM NewsAlwaysCurrent == MixedSpec => []NewsCurrent
<1>1. MixedInit => MixedInv
  <2> SUFFICES ASSUME MixedInit PROVE MixedInv
    OBVIOUS
  <2>1. TypeOK
    BY InitType DEF MixedInit
  <2>2. \A s \in Slots : About(s) = {}
    BY DEF MixedInit, Init, About
  <2> QED
    BY <2>1, <2>2 DEF MixedInit, Init, MixedInv, Fresh, UserFit
<1>2. MixedInv => NewsCurrent
  BY DEF MixedInv, UserFit, NewsCurrent
<1> QED
  BY <1>1, <1>2, MixedNews, PTL DEF MixedSpec
=============================================================================
