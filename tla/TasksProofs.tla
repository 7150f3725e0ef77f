---------------------------- MODULE TasksProofs ----------------------------
(* What Tasks guarantees for every number of tasks, users and slots, and   *)
(* what the tab of BoardClient shows beside it.                            *)
EXTENDS BoardClient, SequenceTheorems, TLAPS

----------------------------------------------------------------------------
(* The rows the handlers write are rows.                                   *)
LEMMA NewRowType ==
  ASSUME NEW u \in Users, NEW p \in Patches, p.details # "keep", clock \in Nat
  PROVE  NewRow(u, p) \in Row
BY TasksAssumption DEF NewRow, Row, Patch, Statuses

LEMMA PatchedType ==
  ASSUME NEW r \in Row, NEW p \in Patches, clock \in Nat
  PROVE  Patched(r, p, clock) \in Row
BY TasksAssumption DEF Patched, Row, Patch, Statuses

(* Taking a slot, and moving on in it, with locals that fit the stage      *)
(* keeps every slot well formed.                                           *)
LEMMA BeginType ==
  ASSUME SlotsOK, NEW s \in Slots, NEW kind, NEW stage \in Stages, NEW locals,
         Fits(stage, locals), Begin(s, kind, stage, locals)
  PROVE  SlotsOK'
BY DEF SlotsOK, Begin

LEMMA IdleFits == \A locals : Fits("idle", locals)
BY DEF Fits, UpdateStages, SearchStages, DropStages

LEMMA ContinueType ==
  ASSUME SlotsOK, NEW s \in Slots, NEW stage \in Stages, NEW locals,
         Fits(stage, locals), Continue(s, stage, locals)
  PROVE  SlotsOK'
<1>1. \A q \in Slots : Fits(pc'[q], job'[q])
  BY IdleFits DEF SlotsOK, Continue
<1> QED
  BY <1>1 DEF SlotsOK, Continue

LEMMA FinishType ==
  ASSUME SlotsOK, NEW s \in Slots, Finish(s)
  PROVE  SlotsOK'
BY ContinueType, IdleFits DEF Finish, Stages

----------------------------------------------------------------------------
(* Type correctness.                                                       *)

LEMMA ArriveType ==
  ASSUME TypeOK, NEW s \in Slots, Arrive(s)
  PROVE  TypeOK'
<1> USE DEF Stages, UpdateStages, SearchStages, DropStages
<1> PICK u \in Users :
      \/ \E t \in Tasks, p \in Patches : CreateInsert(s, u, t, p)
      \/ \E t \in Tasks, p \in Patches : UpdateRead(s, u, t, p)
      \/ \E t \in Tasks : RemoveRead(s, u, t)
      \/ \E a, b \in Tasks : AddRead(s, u, a, b)
      \/ \E a, b \in Tasks : DropRead(s, u, a, b)
  BY DEF Arrive
<1>1. ASSUME NEW t \in Tasks, NEW p \in Patches, CreateInsert(s, u, t, p)
      PROVE  TypeOK'
  <2>1. NewRow(u, p) \in Row
    BY <1>1, NewRowType DEF CreateInsert, TypeOK
  <2>2. Fits("createEmit", [task |-> t, snap |-> NewRow(u, p)])
    BY <2>1 DEF Fits, SnapJob
  <2>3. SlotsOK'
    BY <1>1, <2>2, BeginType DEF CreateInsert, TypeOK
  <2> QED
    BY <1>1, <2>1, <2>3 DEF TypeOK, CreateInsert, outputs
<1>2. ASSUME NEW t \in Tasks, NEW p \in Patches, UpdateRead(s, u, t, p)
      PROVE  TypeOK'
  <2> DEFINE stage == IF ChecksBlockers(p, row[t]) THEN "updateBlockers" ELSE "updateWrite"
             locals == [user |-> u, task |-> t, patch |-> p, orig |-> row[t], snap |-> row[t]]
  <2>1. stage \in Stages /\ Fits(stage, locals)
    BY DEF Fits, UpdateJob, TypeOK
  <2>2. Begin(s, "update", stage, locals)
    BY <1>2 DEF UpdateRead
  <2> HIDE DEF stage, locals
  <2>3. SlotsOK'
    BY <2>1, <2>2, BeginType DEF TypeOK
  <2> QED
    BY <1>2, <2>3 DEF TypeOK, UpdateRead, database, outputs
<1>3. ASSUME NEW t \in Tasks, RemoveRead(s, u, t)
      PROVE  TypeOK'
  <2>1. Fits("removeDelete", [task |-> t])
    BY DEF Fits, TaskJob
  <2>2. SlotsOK'
    BY <1>3, <2>1, BeginType DEF RemoveRead, TypeOK
  <2> QED
    BY <1>3, <2>2 DEF TypeOK, RemoveRead, database, outputs
<1>4. ASSUME NEW a \in Tasks, NEW b \in Tasks, AddRead(s, u, a, b)
      PROVE  TypeOK'
  <2>1. Fits("addVisit", [task |-> a, blocker |-> b, work |-> {b}, visited |-> {}])
    BY DEF Fits, SearchJob
  <2>2. SlotsOK'
    BY <1>4, <2>1, BeginType DEF AddRead, TypeOK
  <2> QED
    BY <1>4, <2>2 DEF TypeOK, AddRead, database, outputs
<1>5. ASSUME NEW a \in Tasks, NEW b \in Tasks, DropRead(s, u, a, b)
      PROVE  TypeOK'
  <2>1. Fits("dropFind", [task |-> a, blocker |-> b])
    BY DEF Fits, PairJob
  <2>2. SlotsOK'
    BY <1>5, <2>1, BeginType DEF DropRead, TypeOK
  <2> QED
    BY <1>5, <2>2 DEF TypeOK, DropRead, database, outputs
<1> QED
  BY <1>1, <1>2, <1>3, <1>4, <1>5
LEMMA StepType ==
  ASSUME TypeOK, NEW s \in Slots, Step(s)
  PROVE  TypeOK'
<1> USE DEF Stages, UpdateStages, SearchStages, DropStages
<1>0. SlotsOK /\ Fits(pc[s], job[s])
  BY DEF TypeOK, SlotsOK
<1>1. CASE CreateEmit(s)
  <2>1. Fits("createLog", job[s])
    BY <1>0, <1>1 DEF Fits, CreateEmit
  <2>2. SlotsOK'
    BY <1>0, <1>1, <2>1, ContinueType DEF CreateEmit
  <2> QED
    BY <1>1, <2>2 DEF TypeOK, CreateEmit, ShowCreated, database
<1>2. CASE CreateLog(s)
  <2>1. SlotsOK'
    BY <1>0, <1>2, FinishType DEF CreateLog
  <2> QED
    BY <1>2, <2>1 DEF TypeOK, CreateLog, Log, database
<1>3. CASE UpdateBlockers(s)
  <2>1. Fits("updateWrite", job[s])
    BY <1>0, <1>3 DEF Fits, UpdateBlockers
  <2>2. SlotsOK'
    BY <1>0, <1>3, <2>1, ContinueType, FinishType DEF UpdateBlockers
  <2> QED
    BY <1>3, <2>2 DEF TypeOK, UpdateBlockers, database, outputs
<1>4. CASE UpdateWrite(s)
  <2> DEFINE j == job[s]
             r == Patched(row[j.task], j.patch, clock)
  <2>1. j \in UpdateJob
    BY <1>0, <1>4 DEF Fits, UpdateWrite
  <2>2. j.task \in Tasks /\ r \in Row
    BY <2>1, PatchedType DEF UpdateJob, TypeOK
  <2> DEFINE k == [j EXCEPT !.snap = r]
  <2> HIDE DEF r
  <2>3. k \in UpdateJob
    BY <2>1, <2>2 DEF UpdateJob
  <2>4. Fits("updateEmit", k)
    BY <2>3 DEF Fits
  <2>5. Finish(s) \/ (Continue(s, "updateEmit", k) /\ row' = [row EXCEPT ![j.task] = r])
    BY <1>4 DEF UpdateWrite, r
  <2> HIDE DEF k, j
  <2>6. SlotsOK'
    BY <1>0, <2>4, <2>5, ContinueType, FinishType
  <2>7. row' \in [Tasks -> Row]
    BY <1>4, <2>2 DEF UpdateWrite, TypeOK, r, j
  <2> QED
    BY <1>4, <2>6, <2>7 DEF TypeOK, UpdateWrite, outputs
<1>5. CASE UpdateEmit(s)
  <2>1. job[s] \in UpdateJob
    BY <1>0, <1>5 DEF Fits, UpdateEmit
  <2>2. ToLog(job[s]) \in Stages /\ Fits(ToLog(job[s]), job[s])
    BY <2>1, IdleFits DEF ToLog, ToLogStatus, ToNotify, Fits
  <2>3. SlotsOK'
    BY <1>0, <1>5, <2>2, ContinueType DEF UpdateEmit
  <2> QED
    BY <1>5, <2>3 DEF TypeOK, UpdateEmit, ShowUpdated, database
<1>6. CASE UpdateLog(s)
  <2>1. job[s] \in UpdateJob
    BY <1>0, <1>6 DEF Fits, UpdateLog
  <2>2. ToLogStatus(job[s]) \in Stages /\ Fits(ToLogStatus(job[s]), job[s])
    BY <2>1, IdleFits DEF ToLogStatus, ToNotify, Fits
  <2>3. SlotsOK'
    BY <1>0, <1>6, <2>2, ContinueType, FinishType DEF UpdateLog
  <2> QED
    BY <1>6, <2>3 DEF TypeOK, UpdateLog, Log, database
<1>7. CASE UpdateLogStatus(s)
  <2>1. job[s] \in UpdateJob
    BY <1>0, <1>7 DEF Fits, UpdateLogStatus
  <2>2. ToNotify(job[s]) \in Stages /\ Fits(ToNotify(job[s]), job[s])
    BY <2>1, IdleFits DEF ToNotify, Fits
  <2>3. SlotsOK'
    BY <1>0, <1>7, <2>2, ContinueType, FinishType DEF UpdateLogStatus
  <2> QED
    BY <1>7, <2>3 DEF TypeOK, UpdateLogStatus, Log, database
<1>8. CASE UpdateNotify(s)
  <2>1. SlotsOK'
    BY <1>0, <1>8, FinishType DEF UpdateNotify
  <2> QED
    BY <1>8, <2>1 DEF TypeOK, UpdateNotify, database
<1>9. CASE RemoveDelete(s)
  <2>1. Fits("removeEmit", job[s])
    BY <1>0, <1>9 DEF Fits, RemoveDelete
  <2>2. SlotsOK'
    BY <1>0, <1>9, <2>1, ContinueType, FinishType DEF RemoveDelete
  <2> QED
    BY <1>9, <2>2 DEF TypeOK, RemoveDelete
<1>10. CASE RemoveEmit(s)
  <2>1. SlotsOK'
    BY <1>0, <1>10, FinishType DEF RemoveEmit
  <2> QED
    BY <1>10, <2>1 DEF TypeOK, RemoveEmit, ShowDeleted, database
<1>11. CASE AddVisit(s)
  <2>1. job[s] \in SearchJob
    BY <1>0, <1>11 DEF Fits, AddVisit
  <2>2. PICK n \in job[s].work :
          LET visited == job[s].visited \cup {n}
              work    == (job[s].work \cup Blockers(n)) \ visited
          IN IF job[s].task \in Blockers(n) \cup {n}
               THEN Finish(s)
               ELSE Continue(s, IF work = {} THEN "addFind" ELSE "addVisit",
                             [job[s] EXCEPT !.work = work, !.visited = visited])
    BY <1>11 DEF AddVisit
  <2> DEFINE visited == job[s].visited \cup {n}
             work    == (job[s].work \cup Blockers(n)) \ visited
             k       == [job[s] EXCEPT !.work = work, !.visited = visited]
             stage   == IF work = {} THEN "addFind" ELSE "addVisit"
  <2>3. k \in SearchJob
    BY <2>1 DEF SearchJob, Blockers
  <2>4. stage \in Stages /\ Fits(stage, k)
    BY <2>3 DEF Fits
  <2>5. Finish(s) \/ Continue(s, stage, k)
    BY <2>2
  <2> HIDE DEF stage, k
  <2>6. SlotsOK'
    BY <1>0, <2>4, <2>5, ContinueType, FinishType
  <2> QED
    BY <1>11, <2>6 DEF TypeOK, AddVisit, database, outputs
<1>12. CASE AddFind(s)
  <2> DEFINE stage == IF <<job[s].task, job[s].blocker>> \in deps THEN "depReread" ELSE "addInsert"
  <2>1. stage \in Stages /\ Fits(stage, job[s])
    BY <1>0, <1>12 DEF Fits, AddFind
  <2>2. Continue(s, stage, job[s])
    BY <1>12 DEF AddFind
  <2> HIDE DEF stage
  <2>3. SlotsOK'
    BY <1>0, <2>1, <2>2, ContinueType
  <2> QED
    BY <1>12, <2>3 DEF TypeOK, AddFind, database, outputs
<1>13. CASE AddInsert(s)
  <2>1. job[s] \in SearchJob /\ Fits("depReread", job[s])
    BY <1>0, <1>13 DEF Fits, AddInsert
  <2>2. SlotsOK'
    BY <1>0, <1>13, <2>1, ContinueType, FinishType DEF AddInsert
  <2>3. deps' \subseteq Tasks \X Tasks
    BY <1>13, <2>1 DEF AddInsert, TypeOK, SearchJob
  <2> QED
    BY <1>13, <2>2, <2>3 DEF TypeOK, AddInsert, outputs
<1>14. CASE DropFind(s)
  <2> DEFINE stage == IF <<job[s].task, job[s].blocker>> \in deps THEN "dropDelete" ELSE "depReread"
  <2>1. stage \in Stages /\ Fits(stage, job[s])
    BY <1>0, <1>14 DEF Fits, DropFind
  <2>2. Continue(s, stage, job[s])
    BY <1>14 DEF DropFind
  <2> HIDE DEF stage
  <2>3. SlotsOK'
    BY <1>0, <2>1, <2>2, ContinueType
  <2> QED
    BY <1>14, <2>3 DEF TypeOK, DropFind, database, outputs
<1>15. CASE DropDelete(s)
  <2>1. Fits("depReread", job[s])
    BY <1>0, <1>15 DEF Fits, DropDelete
  <2>2. SlotsOK'
    BY <1>0, <1>15, <2>1, ContinueType, FinishType DEF DropDelete
  <2> QED
    BY <1>15, <2>2 DEF TypeOK, DropDelete, outputs
<1>16. CASE DepReread(s)
  <2> DEFINE t == job[s].task
             k == [task |-> t, snap |-> IF t \in live THEN row[t] ELSE None]
  <2>1. t \in Tasks
    BY <1>0, <1>16 DEF Fits, DepReread, SearchJob, PairJob
  <2>2. k \in SnapJob \cup NullJob
    BY <2>1 DEF SnapJob, NullJob, TypeOK
  <2> HIDE DEF k
  <2>3. Fits("depEmit", k)
    BY <2>2 DEF Fits
  <2>4. SlotsOK'
    BY <1>0, <1>16, <2>3, ContinueType DEF DepReread, k
  <2> QED
    BY <1>16, <2>4 DEF TypeOK, DepReread, database, outputs
<1>17. CASE DepEmit(s)
  <2>1. SlotsOK'
    BY <1>0, <1>17, FinishType DEF DepEmit
  <2> QED
    BY <1>17, <2>1 DEF TypeOK, DepEmit, ShowUpdated, database
<1> QED
  BY <1>1, <1>2, <1>3, <1>4, <1>5, <1>6, <1>7, <1>8, <1>9, <1>10, <1>11,
     <1>12, <1>13, <1>14, <1>15, <1>16, <1>17 DEF Step
LEMMA InitType == Init => TypeOK
<1> SUFFICES ASSUME Init PROVE TypeOK
  OBVIOUS
<1>1. FirstRow \subseteq Row
  BY DEF FirstRow, Row, Statuses
<1>2. row \in [Tasks -> Row]
  BY <1>1 DEF Init
<1>3. SlotsOK
  BY IdleFits DEF Init, SlotsOK, Stages
<1> QED
  BY <1>2, <1>3, TasksAssumption DEF Init, TypeOK

LEMMA NextType == TypeOK /\ [Next]_vars => TypeOK'
<1> SUFFICES ASSUME TypeOK, [Next]_vars PROVE TypeOK'
  OBVIOUS
<1>1. CASE Tick
  BY <1>1 DEF Tick, TypeOK, SlotsOK, database, outputs, control
<1>2. CASE UNCHANGED vars
  BY <1>2 DEF TypeOK, SlotsOK, vars, database, outputs, control
<1>3. ASSUME NEW s \in Slots, Fail(s) PROVE TypeOK'
  <2>1. SlotsOK'
    BY <1>3, FinishType DEF Fail, TypeOK
  <2> QED
    BY <1>3, <2>1 DEF Fail, TypeOK, database, outputs
<1> QED
  BY <1>1, <1>2, <1>3, ArriveType, StepType DEF Next

(* Every reachable state has the shape the handlers rely on.               *)
THEOREM TypeCorrect == Spec => []TypeOK
BY InitType, NextType, PTL DEF Spec

----------------------------------------------------------------------------
(* No circular dependencies, as long as one request at a time adds one.    *)

(* The slots a step does not belong to stay where they are.                *)
LEMMA OthersStay ==
  ASSUME TypeOK, NEW s \in Slots, Arrive(s) \/ Step(s) \/ Fail(s),
         NEW q \in Slots, q # s
  PROVE  pc'[q] = pc[q] /\ job'[q] = job[q]
BY ZenonT(60) DEF TypeOK, SlotsOK, Arrive, Step, Fail, Begin, Continue, Finish, CreateInsert, UpdateRead,
       RemoveRead, AddRead, DropRead, CreateEmit, CreateLog, UpdateBlockers, UpdateWrite,
       UpdateEmit, UpdateLog, UpdateLogStatus, UpdateNotify, RemoveDelete, RemoveEmit,
       AddVisit, AddFind, AddInsert, DropFind, DropDelete, DepReread, DepEmit
\* The inductive invariant.
Adding == \A s \in Slots : pc[s] \in SearchStages => "addDependency" \in Kinds[s]

AcyclicInv == TypeOK /\ Adding /\ WalkSound /\ Acyclic

(* Only the insert of addDependency makes the relation grow.               *)
LEMMA DepsGrow ==
  ASSUME NEW s \in Slots, Arrive(s) \/ Step(s) \/ Fail(s), ~AddInsert(s)
  PROVE  deps' \subseteq deps
BY DEF Arrive, Step, Fail, CreateInsert, UpdateRead, RemoveRead, AddRead, DropRead,
       CreateEmit, CreateLog, UpdateBlockers, UpdateWrite, UpdateEmit, UpdateLog,
       UpdateLogStatus, UpdateNotify, RemoveDelete, RemoveEmit, AddVisit, AddFind,
       DropFind, DropDelete, DepReread, DepEmit, database

(* A slot that is in the walk after its step has just read something.      *)
LEMMA InWalk ==
  ASSUME TypeOK, NEW s \in Slots, Arrive(s) \/ Step(s) \/ Fail(s),
         pc'[s] \in SearchStages
  PROVE  \/ \E u \in Users, a, b \in Tasks : AddRead(s, u, a, b)
         \/ AddVisit(s)
         \/ AddFind(s)
BY DEF TypeOK, SlotsOK, SearchStages, Arrive, Step, Fail, Begin, Continue, Finish,
       CreateInsert, UpdateRead, RemoveRead, DropRead, CreateEmit, CreateLog,
       UpdateBlockers, UpdateWrite, UpdateEmit, ToLog, ToLogStatus, ToNotify, UpdateLog,
       UpdateLogStatus, UpdateNotify, RemoveDelete, RemoveEmit, AddInsert, DropFind,
       DropDelete, DepReread, DepEmit

(* An edge from a to b closes no circle if some set closed under blockers  *)
(* holds b and not a: that is what the walk has found.                     *)
LEMMA SafeEdge ==
  ASSUME NEW E, NEW a, NEW b, NEW C, b \in C, a \notin C,
         \A n \in C : \A m \in Tasks : <<n, m>> \in E => m \in C,
         NoCircle(E)
  PROVE  NoCircle(E \cup {<<a, b>>})
<1> SUFFICES ASSUME NEW S \in SUBSET Tasks, S # {}
             PROVE  \E t \in S : \A m \in S : <<t, m>> \notin E \cup {<<a, b>>}
  BY DEF NoCircle
<1>1. CASE S \cap C = {}
  <2>1. PICK t \in S : \A m \in S : <<t, m>> \notin E
    BY DEF NoCircle
  <2> QED
    BY <1>1, <2>1
<1>2. CASE S \cap C # {}
  <2>1. PICK t \in S \cap C : \A m \in S \cap C : <<t, m>> \notin E
    BY <1>2 DEF NoCircle
  <2>2. \A m \in S : <<t, m>> \notin E
    BY <2>1
  <2> QED
    BY <2>1, <2>2
<1> QED
  BY <1>1, <1>2

LEMMA FewerEdges ==
  ASSUME NEW E, NoCircle(E), NEW F \in SUBSET E
  PROVE  NoCircle(F)
BY DEF NoCircle

LEMMA AcyclicStep ==
  ASSUME AcyclicInv, OneServes({"addDependency"}),
         NEW s \in Slots, Arrive(s) \/ Step(s) \/ Fail(s)
  PROVE  AcyclicInv'
<1> USE DEF AcyclicInv
<1>1. TypeOK'
  BY NextType DEF Next
<1>2. Adding'
  <2> SUFFICES ASSUME NEW q \in Slots, pc'[q] \in SearchStages
               PROVE  "addDependency" \in Kinds[q]
    BY DEF Adding
  <2>1. CASE q # s
    BY <2>1, OthersStay DEF Adding
  <2>2. CASE q = s
    BY <2>2, InWalk DEF Adding, AddRead, AddVisit, AddFind, Begin, SearchStages
  <2> QED
    BY <2>1, <2>2
<1>3. WalkSound'
  <2> SUFFICES ASSUME NEW q \in Slots, pc'[q] \in SearchStages
               PROVE  LET j == job'[q]
                          seen == j.visited \cup j.work
                      IN /\ j.blocker \in seen /\ j.task \notin seen
                         /\ \A n \in j.visited : Blockers(n)' \subseteq seen
                         /\ pc'[q] # "addVisit" => j.work = {}
    BY DEF WalkSound
  <2>1. CASE q # s
    <3>1. pc'[q] = pc[q] /\ job'[q] = job[q]
      BY <2>1, OthersStay
    <3>2. ~AddInsert(s)
      BY <2>1, <3>1, TasksAssumption
         DEF Adding, OneServes, AddInsert, SearchStages
    <3>3. \A n \in Tasks : Blockers(n)' \subseteq Blockers(n)
      BY <3>2, DepsGrow DEF Blockers
    <3>4. job[q].visited \subseteq Tasks
      BY <3>1 DEF TypeOK, SlotsOK, Fits, SearchJob
    <3> QED
      BY <3>1, <3>3, <3>4 DEF WalkSound
  <2>2. CASE q = s /\ \E u \in Users, a, b \in Tasks : AddRead(s, u, a, b)
    <3>1. PICK u \in Users, a \in Tasks, b \in Tasks : AddRead(s, u, a, b)
      BY <2>2
    <3>2. /\ pc'[s] = "addVisit" /\ a # b
          /\ job'[s] = [task |-> a, blocker |-> b, work |-> {b}, visited |-> {}]
      BY <3>1 DEF AddRead, Begin, TypeOK, SlotsOK
    <3> QED
      BY <2>2, <3>2
  <2>3. CASE q = s /\ AddFind(s)
    <3>1. deps' = deps /\ job'[s] = job[s] /\ pc[s] \in SearchStages /\ pc[s] # "addVisit"
      BY <2>3 DEF AddFind, Continue, TypeOK, SlotsOK, SearchStages, database
    <3>2. \A n : Blockers(n)' = Blockers(n)
      BY <3>1 DEF Blockers
    <3> QED
      BY <2>3, <3>1, <3>2 DEF WalkSound
  <2>4. CASE q = s /\ AddVisit(s)
    <3>1. deps' = deps /\ pc[s] = "addVisit" /\ job[s] \in SearchJob
      BY <2>4 DEF AddVisit, TypeOK, SlotsOK, Fits, SearchStages, database
    <3>2. \A n : Blockers(n)' = Blockers(n)
      BY <3>1 DEF Blockers
    <3>3. PICK n \in job[s].work :
            LET visited == job[s].visited \cup {n}
                work    == (job[s].work \cup Blockers(n)) \ visited
            IN IF job[s].task \in Blockers(n) \cup {n}
                 THEN Finish(s)
                 ELSE Continue(s, IF work = {} THEN "addFind" ELSE "addVisit",
                               [job[s] EXCEPT !.work = work, !.visited = visited])
      BY <2>4 DEF AddVisit
    <3> DEFINE visited == job[s].visited \cup {n}
               work    == (job[s].work \cup Blockers(n)) \ visited
    <3>4. job[s].task \notin Blockers(n) \cup {n}
      BY <2>4, <3>3 DEF Finish, Continue, TypeOK, SlotsOK, SearchStages
    <3>5. /\ pc'[s] = IF work = {} THEN "addFind" ELSE "addVisit"
          /\ job'[s] = [job[s] EXCEPT !.work = work, !.visited = visited]
      BY <3>3, <3>4 DEF Continue, TypeOK, SlotsOK
    <3>6. /\ job'[s].work = work /\ job'[s].visited = visited
          /\ job'[s].task = job[s].task /\ job'[s].blocker = job[s].blocker
      BY <3>1, <3>5 DEF SearchJob
    <3>7. /\ job[s].blocker \in job[s].visited \cup job[s].work
          /\ job[s].task \notin job[s].visited \cup job[s].work
          /\ \A m \in job[s].visited : Blockers(m) \subseteq job[s].visited \cup job[s].work
      BY <3>1 DEF WalkSound, SearchStages
    <3> QED
      BY <2>4, <3>2, <3>4, <3>5, <3>6, <3>7
  <2> QED
    BY <2>1, <2>2, <2>3, <2>4, InWalk
<1>4. Acyclic'
  <2>1. CASE AddInsert(s)
    <3> DEFINE C == job[s].visited
    <3>1. /\ job[s] \in SearchJob
          /\ job[s].blocker \in C /\ job[s].task \notin C
          /\ \A n \in C : Blockers(n) \subseteq C
      BY <2>1 DEF AddInsert, WalkSound, SearchStages, TypeOK, SlotsOK, Fits
    <3>2. \A n \in C : \A m \in Tasks : <<n, m>> \in deps => m \in C
      BY <3>1 DEF Blockers
    <3> HIDE DEF C
    <3>3. NoCircle(deps \cup {<<job[s].task, job[s].blocker>>})
      BY <3>1, <3>2, SafeEdge DEF Acyclic
    <3>4. deps' = deps \/ deps' = deps \cup {<<job[s].task, job[s].blocker>>}
      BY <2>1 DEF AddInsert
    <3> QED
      BY <3>3, <3>4 DEF Acyclic
  <2>2. CASE ~AddInsert(s)
    BY <2>2, DepsGrow, FewerEdges DEF Acyclic
  <2> QED
    BY <2>1, <2>2
<1> QED
  BY <1>1, <1>2, <1>3, <1>4

(* "Circular dependencies are not allowed" holds for every number of tasks *)
(* and requests, provided that at most one slot serves addDependency; all  *)
(* other requests may overtake the walk and may die.                       *)
THEOREM AcyclicAlways ==
  ASSUME OneServes({"addDependency"})
  PROVE  Spec => []Acyclic
<1>1. Init => AcyclicInv
  <2> SUFFICES ASSUME Init PROVE AcyclicInv
    OBVIOUS
  <2>1. Adding /\ WalkSound
    BY DEF Init, Adding, WalkSound, SearchStages
  <2>2. Acyclic
    BY DEF Init, Acyclic, NoCircle
  <2> QED
    BY <2>1, <2>2, InitType DEF AcyclicInv
<1>2. AcyclicInv /\ [Next]_vars => AcyclicInv'
  <2> SUFFICES ASSUME AcyclicInv, [Next]_vars PROVE AcyclicInv'
    OBVIOUS
  <2>1. CASE Tick \/ UNCHANGED vars
    <3>1. deps' = deps /\ pc' = pc /\ job' = job
      BY <2>1 DEF Tick, vars, database, control
    <3>2. TypeOK'
      BY NextType DEF AcyclicInv
    <3> QED
      BY <3>1, <3>2 DEF AcyclicInv, Adding, WalkSound, Acyclic, Blockers
  <2>2. CASE \E s \in Slots : Arrive(s) \/ Step(s) \/ Fail(s)
    BY <2>2, AcyclicStep
  <2> QED
    BY <2>1, <2>2 DEF Next
<1>3. AcyclicInv => Acyclic
  BY DEF AcyclicInv
<1> QED
  BY <1>1, <1>2, <1>3, PTL DEF Spec
----------------------------------------------------------------------------
(* Dependencies only join tasks that exist.                                *)

LEMMA DepsLiveStep ==
  ASSUME TypeOK, DepsLive, NEW s \in Slots, Arrive(s) \/ Step(s) \/ Fail(s)
  PROVE  DepsLive'
<1>1. CASE \E u \in Users, t \in Tasks, p \in Patches : CreateInsert(s, u, t, p)
  BY <1>1 DEF CreateInsert, DepsLive
<1>2. CASE RemoveDelete(s)
  BY <1>2 DEF RemoveDelete, DepsLive
<1>3. CASE AddInsert(s)
  BY <1>3 DEF AddInsert, DepsLive
<1>4. CASE DropDelete(s)
  BY <1>4 DEF DropDelete, DepsLive
<1>5. CASE UNCHANGED <<live, deps>>
  BY <1>5 DEF DepsLive
<1> QED
  BY <1>1, <1>2, <1>3, <1>4, <1>5
     DEF Arrive, Step, Fail, UpdateRead, RemoveRead, AddRead, DropRead, CreateEmit,
         CreateLog, UpdateBlockers, UpdateWrite, UpdateEmit, UpdateLog, UpdateLogStatus,
         UpdateNotify, RemoveEmit, AddVisit, AddFind, DropFind, DepReread, DepEmit,
         database

LEMMA DepsLiveNext == TypeOK /\ DepsLive /\ [Next]_vars => DepsLive'
BY DepsLiveStep DEF Next, Tick, vars, database, DepsLive

LEMMA DepsLiveInit == Init => DepsLive
BY DEF Init, DepsLive

(* Whatever the interleaving of inserts, deletes and failures, no          *)
(* dependency outlives a task it names.                                    *)
THEOREM DepsLiveAlways == Spec => []DepsLive
BY InitType, NextType, DepsLiveInit, DepsLiveNext, PTL DEF Spec

----------------------------------------------------------------------------
(* Strict blocking, as long as one slot moves tasks and adds dependencies. *)

\* The inductive invariant.
Writing == \A s \in Slots :
  /\ pc[s] \in UpdateStages => "update" \in Kinds[s]
  /\ pc[s] \in SearchStages => "addDependency" \in Kinds[s]

StartInv == TypeOK /\ DepsLive /\ Writing /\ CheckStands

(* Identifiers are drawn once, and only an update rewrites a row.          *)
LEMMA RowsStay ==
  ASSUME NEW s \in Slots, Arrive(s) \/ Step(s) \/ Fail(s), ~UpdateWrite(s), TypeOK
  PROVE  /\ used \subseteq used'
         /\ \A t \in used : row'[t] = row[t] /\ (t \in live' => t \in live)
BY DEF TypeOK, Arrive, Step, Fail, CreateInsert, UpdateRead, RemoveRead, AddRead,
       DropRead, CreateEmit, CreateLog, UpdateBlockers, UpdateEmit, UpdateLog,
       UpdateLogStatus, UpdateNotify, RemoveDelete, RemoveEmit, AddVisit, AddFind,
       AddInsert, DropFind, DropDelete, DepReread, DepEmit, database

(* A slot that stands before its write, or has asked for the blockers, has *)
(* just read the task or the blockers.                                     *)
LEMMA InCheck ==
  ASSUME TypeOK, NEW s \in Slots, Arrive(s) \/ Step(s) \/ Fail(s),
         pc'[s] \in UpdateStages
  PROVE  \/ \E u \in Users, t \in Tasks, p \in Patches : UpdateRead(s, u, t, p)
         \/ pc[s] \in UpdateStages /\ (pc'[s] \in {"updateBlockers", "updateWrite"} => UpdateBlockers(s))
BY ZenonT(60) DEF TypeOK, SlotsOK, UpdateStages, Arrive, Step, Fail, Begin, Continue, Finish,
       CreateInsert, RemoveRead, AddRead, DropRead, CreateEmit, CreateLog, UpdateBlockers,
       UpdateWrite, UpdateEmit, ToLog, ToLogStatus, ToNotify, UpdateLog, UpdateLogStatus,
       UpdateNotify, RemoveDelete, RemoveEmit, AddVisit, AddFind, AddInsert, DropFind,
       DropDelete, DepReread, DepEmit

(* Blockers get fewer and stay as they are unless their slot writes.       *)
LEMMA UnresolvedShrinks ==
  ASSUME TypeOK, DepsLive, NEW t \in Tasks,
         deps' \subseteq deps, \A b \in used : row'[b] = row[b]
  PROVE  Unresolved(t) = {} =>
           \A b \in Tasks : <<t, b>> \in deps' => row'[b].status = "COMPLETED"
BY DEF Unresolved, Blockers, DepsLive, TypeOK

LEMMA WritingStep ==
  ASSUME TypeOK, Writing, NEW s \in Slots, Arrive(s) \/ Step(s) \/ Fail(s)
  PROVE  Writing'
<1> SUFFICES ASSUME NEW q \in Slots
             PROVE  /\ pc'[q] \in UpdateStages => "update" \in Kinds[q]
                    /\ pc'[q] \in SearchStages => "addDependency" \in Kinds[q]
  BY DEF Writing
<1>1. CASE q # s
  BY <1>1, OthersStay DEF Writing
<1>2. CASE q = s
  <2>1. pc'[s] \in UpdateStages => "update" \in Kinds[s]
    BY InCheck DEF Writing, UpdateRead, Begin
  <2>2. pc'[s] \in SearchStages => "addDependency" \in Kinds[s]
    BY InWalk DEF Writing, AddRead, AddVisit, AddFind, Begin, SearchStages
  <2> QED
    BY <1>2, <2>1, <2>2
<1> QED
  BY <1>1, <1>2

LEMMA StartStep ==
  ASSUME StartInv, OneServes({"update", "addDependency"}),
         NEW s \in Slots, Arrive(s) \/ Step(s) \/ Fail(s)
  PROVE  StartInv'
<1> USE DEF StartInv
<1>1. TypeOK' /\ DepsLive'
  BY NextType, DepsLiveNext DEF Next
<1>2. Writing'
  BY WritingStep
<1>3. CheckStands'
  <2> SUFFICES ASSUME NEW q \in Slots, pc'[q] \in {"updateBlockers", "updateWrite"}
               PROVE  LET j == job'[q] IN
                      /\ j.task \in used'
                      /\ j.task \in live' =>
                           /\ j.orig.status = row'[j.task].status
                           /\ pc'[q] = "updateWrite" /\ ChecksBlockers(j.patch, j.orig)
                                => \A b \in Tasks : <<j.task, b>> \in deps'
                                                   => row'[b].status = "COMPLETED"
    BY DEF CheckStands, Unresolved, Blockers
  <2>1. CASE q # s
    <3>1. pc'[q] = pc[q] /\ job'[q] = job[q]
      BY <2>1, OthersStay
    <3>2. "update" \in Kinds[q]
      BY <3>1 DEF Writing, UpdateStages
    <3>3. ~UpdateWrite(s) /\ ~AddInsert(s)
      BY <2>1, <3>2, TasksAssumption
         DEF Writing, OneServes, UpdateWrite, AddInsert, UpdateStages, SearchStages
    <3>4. job[q].task \in used /\ job[q].task \in Tasks
      BY <3>1 DEF CheckStands, TypeOK
    <3>5. deps' \subseteq deps /\ \A b \in used : row'[b] = row[b]
      BY <3>3, DepsGrow, RowsStay
    <3>6. Unresolved(job[q].task) = {} =>
            \A b \in Tasks : <<job[q].task, b>> \in deps' => row'[b].status = "COMPLETED"
      BY <3>4, <3>5, UnresolvedShrinks
    <3> QED
      BY <3>1, <3>3, <3>4, <3>6, RowsStay DEF CheckStands
  <2>2. CASE q = s /\ UpdateBlockers(s)
    <3>1. /\ pc[s] = "updateBlockers" /\ job'[s] = job[s]
          /\ Unresolved(job[s].task) = {}
          /\ UNCHANGED <<used, live, row, deps>>
      BY <2>2 DEF UpdateBlockers, Continue, Finish, TypeOK, SlotsOK, database
    <3>2. \A b \in Tasks : <<job[s].task, b>> \in deps' => row'[b].status = "COMPLETED"
      BY <3>1 DEF Unresolved, Blockers
    <3> QED
      BY <2>2, <3>1, <3>2 DEF CheckStands
  <2>3. CASE q = s /\ \E u \in Users, t \in Tasks, p \in Patches : UpdateRead(s, u, t, p)
    <3>1. PICK u \in Users, t \in Tasks, p \in Patches : UpdateRead(s, u, t, p)
      BY <2>3
    <3>2. /\ pc'[s] = IF ChecksBlockers(p, row[t]) THEN "updateBlockers" ELSE "updateWrite"
          /\ job'[s] = [user |-> u, task |-> t, patch |-> p, orig |-> row[t], snap |-> row[t]]
      BY <3>1 DEF UpdateRead, Begin, TypeOK, SlotsOK
    <3>3. t \in live /\ UNCHANGED <<used, live, row>>
      BY <3>1 DEF UpdateRead, database
    <3> QED
      BY <2>3, <3>2, <3>3 DEF TypeOK
  <2> QED
    BY <2>1, <2>2, <2>3, InCheck DEF UpdateStages
<1> QED
  BY <1>1, <1>2, <1>3

(* "Strict blocked-by enforcement": a task leaves for another status than  *)
(* TODO only while all its blockers are completed, provided one slot       *)
(* serves update and addDependency; tasks and dependencies may be created  *)
(* and deleted around it, and any request may die.                         *)
THEOREM StartsUnblockedAlways ==
  ASSUME OneServes({"update", "addDependency"})
  PROVE  Spec => StartsUnblocked
<1>1. Init => StartInv
  BY InitType, DepsLiveInit
     DEF StartInv, Init, Writing, CheckStands, UpdateStages, SearchStages
<1>2. StartInv /\ [Next]_vars => StartInv'
  <2> SUFFICES ASSUME StartInv, [Next]_vars PROVE StartInv'
    OBVIOUS
  <2>1. CASE Tick \/ UNCHANGED vars
    <3>1. UNCHANGED <<used, live, row, deps, pc, job>>
      BY <2>1 DEF Tick, vars, database, control
    <3>2. TypeOK' /\ DepsLive'
      BY NextType, DepsLiveNext DEF StartInv
    <3> QED
      BY <3>1, <3>2 DEF StartInv, Writing, CheckStands, Unresolved, Blockers
  <2>2. CASE \E s \in Slots : Arrive(s) \/ Step(s) \/ Fail(s)
    BY <2>2, StartStep
  <2> QED
    BY <2>1, <2>2 DEF Next
<1>3. StartInv /\ [Next]_vars =>
        [\A t \in live :
           row'[t].status \notin {row[t].status, "TODO"} => Unresolved(t) = {}]_vars
  <2> SUFFICES ASSUME StartInv, Next, NEW t \in live,
                      row'[t].status \notin {row[t].status, "TODO"}
               PROVE  Unresolved(t) = {}
    OBVIOUS
  <2>1. PICK s \in Slots : UpdateWrite(s)
    BY RowsStay DEF StartInv, TypeOK, Next, Tick, database
  <2>2. /\ pc[s] = "updateWrite" /\ job[s] \in UpdateJob
        /\ job[s].task \in live
        /\ row' = [row EXCEPT ![job[s].task] = Patched(row[job[s].task], job[s].patch, clock)]
    BY <2>1 DEF UpdateWrite, StartInv, TypeOK, SlotsOK, Fits, UpdateStages
  <2>3. t = job[s].task /\ row[t] \in Row
    BY <2>2 DEF StartInv, TypeOK
  <2>4. job[s].patch.status = row'[t].status /\ job[s].patch.status # "keep"
    BY <2>2, <2>3, TasksAssumption DEF StartInv, TypeOK, Patched, Row, Patch, UpdateJob, Statuses
  <2>5. job[s].orig.status = row[t].status
    BY <2>2, <2>3 DEF StartInv, CheckStands
  <2>6. ChecksBlockers(job[s].patch, job[s].orig)
    BY <2>4, <2>5 DEF ChecksBlockers, SendsStatus
  <2> QED
    BY <2>2, <2>3, <2>6 DEF StartInv, CheckStands
<1> QED
  BY <1>1, <1>2, <1>3, PTL DEF Spec, StartsUnblocked
----------------------------------------------------------------------------
(* Tasks implements Workflow, as long as one slot moves tasks and adds     *)
(* dependencies.                                                           *)

(* Only five steps touch tasks, statuses and dependencies.                 *)
LEMMA FlowStutters ==
  ASSUME NEW s \in Slots, Arrive(s) \/ Step(s) \/ Fail(s),
         ~(\E u \in Users, t \in Tasks, p \in Patches : CreateInsert(s, u, t, p)),
         ~UpdateWrite(s), ~RemoveDelete(s), ~AddInsert(s), ~DropDelete(s)
  PROVE  UNCHANGED <<live, row, deps>>
BY DEF Arrive, Step, Fail, UpdateRead, RemoveRead, AddRead, DropRead, CreateEmit, CreateLog,
       UpdateBlockers, UpdateEmit, UpdateLog, UpdateLogStatus, UpdateNotify, RemoveEmit,
       AddVisit, AddFind, DropFind, DepReread, DepEmit, database

LEMMA SameFlow ==
  ASSUME UNCHANGED <<live, row, deps>>
  PROVE  UNCHANGED Flow!workflow
BY DEF Flow!workflow, StatusOf

LEMMA CreateFlows ==
  ASSUME TypeOK, NEW s \in Slots, NEW u \in Users, NEW t \in Tasks, NEW p \in Patches,
         CreateInsert(s, u, t, p)
  PROVE  \E st \in Statuses : Flow!Create(t, st)
<1>1. /\ t \notin live /\ live' = live \cup {t} /\ UNCHANGED deps
      /\ row' = [row EXCEPT ![t] = NewRow(u, p)]
  BY DEF CreateInsert, TypeOK
<1>2. NewRow(u, p).status \in Statuses
  BY TasksAssumption DEF NewRow, Patch, Statuses
<1>3. \A q \in Tasks : StatusOf(q)' = IF q = t THEN NewRow(u, p).status ELSE StatusOf(q)
  BY <1>1 DEF StatusOf, TypeOK
<1>4. Flow!Create(t, NewRow(u, p).status)
  BY <1>1, <1>3 DEF Flow!Create
<1> QED
  BY <1>2, <1>4

LEMMA WriteFlows ==
  ASSUME TypeOK, NEW s \in Slots, UpdateWrite(s),
         \A t \in live : row'[t].status \notin {row[t].status, "TODO"} => Unresolved(t) = {},
         DepsLive
  PROVE  (\E t \in Tasks, st \in Statuses : Flow!Move(t, st)) \/ UNCHANGED Flow!workflow
<1>1. CASE job[s].task \notin live
  <2>1. UNCHANGED <<live, row, deps>>
    BY <1>1 DEF UpdateWrite
  <2> QED
    BY <2>1, SameFlow
<1>2. CASE job[s].task \in live
  <2>1. PICK t : t = job[s].task
    OBVIOUS
  <2>2. /\ UNCHANGED <<live, deps>> /\ t \in live /\ t \in Tasks
        /\ row' = [row EXCEPT ![t] = Patched(row[t], job[s].patch, clock)]
    BY <1>2, <2>1 DEF UpdateWrite, TypeOK
  <2>3. row' \in [Tasks -> Row]
    BY NextType DEF Next, Step, TypeOK
  <2>4. row'[t].status \in Statuses
    BY <2>2, <2>3 DEF Row
  <2>5. \A q \in Tasks : StatusOf(q)' = IF q = t THEN row'[t].status ELSE StatusOf(q)
    BY <2>2 DEF StatusOf, TypeOK
  <2>6. CASE row'[t].status = row[t].status
    <3>1. \A q \in Tasks : StatusOf(q)' = StatusOf(q)
      BY <2>2, <2>5, <2>6 DEF StatusOf
    <3> QED
      BY <2>2, <3>1 DEF Flow!workflow
  <2>7. CASE row'[t].status # row[t].status
    <3>1. row'[t].status = "TODO" \/ Unresolved(t) = {}
      BY <2>2, <2>7
    <3>2. Unresolved(t) = {} =>
            \A b \in Tasks : <<t, b>> \in deps => StatusOf(b) = "COMPLETED"
      BY DEF Unresolved, Blockers, StatusOf, DepsLive
    <3>3. row'[t].status = "TODO" \/ ~Flow!Blocked(t)
      BY <3>1, <3>2 DEF Flow!Blocked
    <3>4. Flow!Move(t, row'[t].status)
      BY <2>2, <2>5, <3>3 DEF Flow!Move
    <3> QED
      BY <2>2, <2>4, <3>4
  <2> QED
    BY <2>6, <2>7
<1> QED
  BY <1>1, <1>2

LEMMA RemoveFlows ==
  ASSUME TypeOK, NEW s \in Slots, RemoveDelete(s)
  PROVE  (\E t \in Tasks : Flow!Remove(t)) \/ UNCHANGED Flow!workflow
<1>1. CASE job[s].task \notin live
  <2>1. UNCHANGED <<live, row, deps>>
    BY <1>1 DEF RemoveDelete
  <2> QED
    BY <2>1, SameFlow
<1>2. CASE job[s].task \in live
  <2>1. PICK t : t = job[s].task
    OBVIOUS
  <2>2. /\ t \in live /\ t \in Tasks /\ live' = live \ {t} /\ UNCHANGED row
        /\ deps' = {d \in deps : t \notin {d[1], d[2]}}
    BY <1>2, <2>1 DEF RemoveDelete, TypeOK
  <2>3. \A q \in Tasks : StatusOf(q)' = IF q = t THEN "none" ELSE StatusOf(q)
    BY <2>2 DEF StatusOf
  <2>4. Flow!Remove(t)
    BY <2>2, <2>3 DEF Flow!Remove
  <2> QED
    BY <2>2, <2>4
<1> QED
  BY <1>1, <1>2

LEMMA DepsFlow ==
  ASSUME TypeOK, Acyclic', NEW s \in Slots, AddInsert(s) \/ DropDelete(s)
  PROVE  \/ \E a, b \in Tasks : Flow!Block(a, b) \/ Flow!Unblock(a, b)
         \/ UNCHANGED Flow!workflow
<1>1. PICK a, b : a = job[s].task /\ b = job[s].blocker
  OBVIOUS
<1>2. UNCHANGED <<live, row>>
  BY DEF AddInsert, DropDelete
<1>3. \A q \in Tasks : StatusOf(q)' = StatusOf(q)
  BY <1>2 DEF StatusOf
<1>4. CASE AddInsert(s) /\ deps' # deps
  <2>1. a \in live /\ b \in live /\ deps' = deps \cup {<<a, b>>}
    BY <1>1, <1>4 DEF AddInsert
  <2>2. ~Flow!Circular(deps')
    BY DEF Acyclic, NoCircle, Flow!Circular
  <2>3. a \in Tasks /\ b \in Tasks
    BY <2>1 DEF TypeOK
  <2>4. Flow!Block(a, b)
    BY <1>2, <1>3, <2>1, <2>2 DEF Flow!Block
  <2> QED
    BY <2>3, <2>4
<1>5. CASE DropDelete(s) /\ deps' # deps
  <2>1. <<a, b>> \in deps /\ deps' = deps \ {<<a, b>>}
    BY <1>1, <1>5 DEF DropDelete
  <2>2. a \in Tasks /\ b \in Tasks
    BY <2>1 DEF TypeOK
  <2>3. Flow!Unblock(a, b)
    BY <1>2, <1>3, <2>1 DEF Flow!Unblock
  <2> QED
    BY <2>2, <2>3
<1>6. CASE deps' = deps
  BY <1>2, <1>6, SameFlow
<1> QED
  BY <1>4, <1>5, <1>6

\* What StartsUnblocked says of one step.
StartGuarded ==
  \A t \in live : row'[t].status \notin {row[t].status, "TODO"} => Unresolved(t) = {}

LEMMA FlowNext ==
  TypeOK /\ DepsLive /\ Acyclic' /\ [StartGuarded]_vars /\ [Next]_vars
    => [Flow!Next]_(Flow!workflow)
<1> SUFFICES ASSUME TypeOK, DepsLive, Acyclic', [StartGuarded]_vars, [Next]_vars
             PROVE  [Flow!Next]_(Flow!workflow)
  OBVIOUS
<1>1. CASE Tick \/ UNCHANGED vars
  <2>1. UNCHANGED <<live, row, deps>>
    BY <1>1 DEF Tick, vars, database
  <2> QED
    BY <2>1, SameFlow
<1>2. ASSUME NEW s \in Slots, Arrive(s) \/ Step(s) \/ Fail(s), ~UNCHANGED vars
      PROVE  [Flow!Next]_(Flow!workflow)
  <2>1. CASE \E u \in Users, t \in Tasks, p \in Patches : CreateInsert(s, u, t, p)
    BY <2>1, CreateFlows DEF Flow!Next
  <2>2. CASE UpdateWrite(s)
    BY <1>2, <2>2, WriteFlows DEF Flow!Next, StartGuarded
  <2>3. CASE RemoveDelete(s)
    BY <2>3, RemoveFlows DEF Flow!Next
  <2>4. CASE AddInsert(s) \/ DropDelete(s)
    BY <2>4, DepsFlow DEF Flow!Next
  <2> QED
    BY <1>2, <2>1, <2>2, <2>3, <2>4, FlowStutters, SameFlow
<1> QED
  BY <1>1, <1>2 DEF Next

LEMMA FlowInit == Init => Flow!Init
<1> SUFFICES ASSUME Init PROVE Flow!Init
  OBVIOUS
<1>1. live \subseteq Tasks /\ deps = {}
  BY TasksAssumption DEF Init
<1>2. \A t \in Tasks : row[t].status = "TODO"
  BY DEF Init, FirstRow
<1> QED
  BY <1>1, <1>2 DEF Flow!Init, StatusOf

(* The task service implements Workflow, provided one slot serves update   *)
(* and addDependency.                                                      *)
THEOREM WorkflowKept ==
  ASSUME OneServes({"update", "addDependency"})
  PROVE  Spec => KeepsWorkflow
<1>1. OneServes({"addDependency"})
  BY DEF OneServes
<1>2. Spec => [][StartGuarded]_vars
  BY StartsUnblockedAlways DEF StartsUnblocked, StartGuarded
<1>3. Spec => []Acyclic
  BY <1>1, AcyclicAlways
<1> QED
  BY <1>2, <1>3, TypeCorrect, DepsLiveAlways, FlowInit, FlowNext, PTL
  DEF Spec, KeepsWorkflow, Flow!Spec

----------------------------------------------------------------------------
(* Updates of one project served one at a time, whatever else is served    *)
(* beside them: what an update read is still true when it writes, and what *)
(* it wrote is still true when it tells the assignee.                      *)

WrittenStages == UpdateStages \ {"updateBlockers", "updateWrite"}

\* Up to its write: the row that was read, and checked, is the one there is.
OrigStands ==
  \A s \in Slots : pc[s] \in {"updateBlockers", "updateWrite"} =>
    /\ job[s].task \in used /\ job[s].orig = row[job[s].task]
    /\ pc[s] = "updateWrite" => ~Conflict(job[s].patch, job[s].orig)

\* After its write: the row that was written is.
SnapStands ==
  \A s \in Slots : pc[s] \in WrittenStages =>
    /\ job[s].task \in used /\ job[s].snap = row[job[s].task]
    /\ job[s].snap.assignee = IF job[s].patch.assignee = "keep" THEN job[s].orig.assignee
                              ELSE job[s].patch.assignee

\* The inductive invariant.
UpdateInv == TypeOK /\ Writing /\ OrigStands /\ SnapStands

(* How a slot comes to stand after its write.                              *)
LEMMA InWritten ==
  ASSUME TypeOK, NEW s \in Slots, Arrive(s) \/ Step(s) \/ Fail(s), pc'[s] \in WrittenStages
  PROVE  \/ UpdateWrite(s)
         \/ pc[s] \in WrittenStages /\ job'[s] = job[s] /\ ~UpdateWrite(s)
<1>1. CASE Arrive(s) \/ Fail(s) \/ UpdateNotify(s)
  BY <1>1 DEF TypeOK, SlotsOK, WrittenStages, UpdateStages, Arrive, Fail, Begin, Continue, Finish,
              CreateInsert, UpdateRead, RemoveRead, AddRead, DropRead, UpdateNotify
<1>2. ASSUME UpdateEmit(s) \/ UpdateLog(s) \/ UpdateLogStatus(s)
      PROVE  pc[s] \in WrittenStages /\ job'[s] = job[s] /\ ~UpdateWrite(s)
  <2>1. pc[s] \in WrittenStages /\ ~UpdateWrite(s)
    BY <1>2 DEF WrittenStages, UpdateStages, UpdateEmit, UpdateLog, UpdateLogStatus, UpdateWrite
  <2>2. (\E stage : Continue(s, stage, job[s])) \/ Finish(s)
    BY <1>2 DEF UpdateEmit, UpdateLog, UpdateLogStatus
  <2>3. ASSUME NEW stage, Continue(s, stage, job[s]) PROVE job'[s] = job[s]
    BY <2>3 DEF Continue, TypeOK, SlotsOK, WrittenStages, UpdateStages
  <2>4. ~Finish(s)
    BY DEF Finish, Continue, TypeOK, SlotsOK, WrittenStages, UpdateStages
  <2> QED
    BY <2>1, <2>2, <2>3, <2>4
<1>3. CASE \/ CreateEmit(s) \/ CreateLog(s) \/ UpdateBlockers(s) \/ RemoveDelete(s) \/ RemoveEmit(s)
           \/ AddVisit(s) \/ AddFind(s) \/ AddInsert(s) \/ DropFind(s) \/ DropDelete(s)
           \/ DepReread(s) \/ DepEmit(s)
  BY <1>3 DEF TypeOK, SlotsOK, WrittenStages, UpdateStages, Continue, Finish, CreateEmit, CreateLog,
              UpdateBlockers, RemoveDelete, RemoveEmit, AddVisit, AddFind, AddInsert, DropFind,
              DropDelete, DepReread, DepEmit
<1> QED
  BY <1>1, <1>2, <1>3 DEF Step

(* Another slot neither writes a row nor moves the update.                 *)
LEMMA UpdateUndisturbed ==
  ASSUME UpdateInv, OneServes({"update"}),
         NEW s \in Slots, Arrive(s) \/ Step(s) \/ Fail(s),
         NEW q \in Slots, q # s, pc'[q] \in UpdateStages
  PROVE  /\ pc'[q] = pc[q] /\ job'[q] = job[q] /\ ~UpdateWrite(s)
         /\ used \subseteq used' /\ \A t \in used : row'[t] = row[t]
<1>1. pc'[q] = pc[q] /\ job'[q] = job[q]
  BY OthersStay DEF UpdateInv
<1>2. "update" \in Kinds[q]
  BY <1>1 DEF UpdateInv, Writing
<1>3. ~UpdateWrite(s)
  BY <1>2 DEF UpdateInv, Writing, OneServes, UpdateWrite, UpdateStages
<1> QED
  BY <1>1, <1>3, RowsStay DEF UpdateInv

(* What the write of an update leaves in its slot.                         *)
LEMMA WriteLeaves ==
  ASSUME UpdateInv, NEW s \in Slots, UpdateWrite(s), pc'[s] \in UpdateStages
  PROVE  /\ job[s] \in UpdateJob /\ job[s].task \in live /\ pc'[s] = "updateEmit"
         /\ job'[s].task = job[s].task /\ job'[s].patch = job[s].patch
         /\ job'[s].orig = job[s].orig /\ job'[s].user = job[s].user
         /\ job'[s].snap = Patched(job[s].orig, job[s].patch, clock)
         /\ row' = [row EXCEPT ![job[s].task] = job'[s].snap] /\ used' = used
<1>1. pc[s] = "updateWrite" /\ job[s] \in UpdateJob
  BY DEF UpdateWrite, UpdateInv, TypeOK, SlotsOK, Fits, UpdateStages
<1>2. job[s].task \in live /\ pc'[s] = "updateEmit"
  BY DEF UpdateWrite, Continue, Finish, UpdateInv, TypeOK, SlotsOK, UpdateStages
<1>3. job[s].orig = row[job[s].task]
  BY <1>1 DEF UpdateInv, OrigStands
<1>4. /\ job'[s] = [job[s] EXCEPT !.snap = Patched(row[job[s].task], job[s].patch, clock)]
      /\ row' = [row EXCEPT ![job[s].task] = Patched(row[job[s].task], job[s].patch, clock)]
      /\ used' = used
  BY <1>2 DEF UpdateWrite, Continue, UpdateInv, TypeOK, SlotsOK
<1> HIDE DEF Patched
<1> QED
  BY <1>1, <1>2, <1>3, <1>4 DEF UpdateJob

LEMMA UpdateStep ==
  ASSUME UpdateInv, OneServes({"update"}), NEW s \in Slots, Arrive(s) \/ Step(s) \/ Fail(s)
  PROVE  UpdateInv'
<1>1. TypeOK' /\ Writing'
  BY NextType, WritingStep DEF Next, UpdateInv
<1>2. OrigStands'
  <2> SUFFICES ASSUME NEW q \in Slots, pc'[q] \in {"updateBlockers", "updateWrite"}
               PROVE  /\ job'[q].task \in used' /\ job'[q].orig = row'[job'[q].task]
                      /\ pc'[q] = "updateWrite" => ~Conflict(job'[q].patch, job'[q].orig)
    BY DEF OrigStands, Conflict
  <2>1. CASE q # s
    BY <2>1, UpdateUndisturbed DEF UpdateInv, OrigStands, UpdateStages
  <2>2. CASE q = s /\ UpdateBlockers(s)
    BY <2>2 DEF UpdateBlockers, Continue, Finish, database, UpdateInv, TypeOK, SlotsOK, OrigStands
  <2>3. CASE q = s /\ \E u \in Users, t \in Tasks, p \in Patches : UpdateRead(s, u, t, p)
    <3>1. PICK u \in Users, t \in Tasks, p \in Patches : UpdateRead(s, u, t, p)
      BY <2>3
    <3>2. /\ pc'[s] = IF ChecksBlockers(p, row[t]) THEN "updateBlockers" ELSE "updateWrite"
          /\ job'[s] = [user |-> u, task |-> t, patch |-> p, orig |-> row[t], snap |-> row[t]]
      BY <3>1 DEF UpdateRead, Begin, UpdateInv, TypeOK, SlotsOK
    <3>3. /\ t \in live /\ UNCHANGED <<used, live, row>>
          /\ ChecksBlockers(p, row[t]) \/ ~Conflict(p, row[t])
      BY <3>1 DEF UpdateRead, database
    <3> QED
      BY <2>3, <3>2, <3>3 DEF UpdateInv, TypeOK
  <2> QED
    BY <2>1, <2>2, <2>3, InCheck DEF UpdateInv, UpdateStages
<1>3. SnapStands'
  <2> SUFFICES ASSUME NEW q \in Slots, pc'[q] \in WrittenStages
               PROVE  /\ job'[q].task \in used' /\ job'[q].snap = row'[job'[q].task]
                      /\ job'[q].snap.assignee = IF job'[q].patch.assignee = "keep" THEN job'[q].orig.assignee
                                                ELSE job'[q].patch.assignee
    BY DEF SnapStands
  <2>1. CASE q # s
    BY <2>1, UpdateUndisturbed DEF UpdateInv, SnapStands, WrittenStages
  <2>2. CASE q = s /\ UpdateWrite(s)
    <3>1. /\ job[s] \in UpdateJob /\ job[s].task \in live
          /\ job'[s].task = job[s].task /\ job'[s].patch = job[s].patch /\ job'[s].orig = job[s].orig
          /\ job'[s].snap = Patched(job[s].orig, job[s].patch, clock)
          /\ row' = [row EXCEPT ![job[s].task] = job'[s].snap] /\ used' = used
      BY <2>2, WriteLeaves DEF WrittenStages
    <3>2. job[s].orig \in Row
      BY <3>1 DEF UpdateJob
    <3>3. job'[s].snap.assignee = IF job[s].patch.assignee = "keep" THEN job[s].orig.assignee
                                ELSE job[s].patch.assignee
      BY <3>1, <3>2 DEF Patched, Row
    <3> QED
      BY <2>2, <3>1, <3>3 DEF UpdateInv, TypeOK
  <2>3. CASE q = s /\ pc[s] \in WrittenStages /\ job'[s] = job[s] /\ ~UpdateWrite(s)
    <3>1. used \subseteq used' /\ \A t \in used : row'[t] = row[t]
      BY <2>3, RowsStay DEF UpdateInv
    <3> QED
      BY <2>3, <3>1 DEF UpdateInv, SnapStands
  <2> QED
    BY <2>1, <2>2, <2>3, InWritten DEF UpdateInv
<1> QED
  BY <1>1, <1>2, <1>3 DEF UpdateInv

LEMMA UpdateNext ==
  ASSUME OneServes({"update"})
  PROVE  UpdateInv /\ [Next]_vars => UpdateInv'
<1> SUFFICES ASSUME UpdateInv, [Next]_vars PROVE UpdateInv'
  OBVIOUS
<1>1. CASE Tick \/ UNCHANGED vars
  <2>1. UNCHANGED <<used, live, row, pc, job>>
    BY <1>1 DEF Tick, vars, database, control
  <2>2. TypeOK'
    BY NextType DEF UpdateInv
  <2> QED
    BY <2>1, <2>2 DEF UpdateInv, Writing, OrigStands, SnapStands, Conflict
<1>2. CASE \E s \in Slots : Arrive(s) \/ Step(s) \/ Fail(s)
  BY <1>2, UpdateStep
<1> QED
  BY <1>1, <1>2 DEF Next

LEMMA UpdateAlways == ASSUME OneServes({"update"}) PROVE Spec => []UpdateInv
<1>1. Init => UpdateInv
  BY InitType DEF Init, UpdateInv, Writing, OrigStands, SnapStands, WrittenStages, UpdateStages, SearchStages
<1> QED
  BY <1>1, UpdateNext, PTL DEF Spec

(* "Concurrency conflict check": as long as one slot serves updates, the   *)
(* row that a checked update overwrites, and not only the one it looked    *)
(* at, is within the tolerance of what its client had loaded; any request  *)
(* may die.                                                                *)
THEOREM NoBlindWrites ==
  ASSUME OneServes({"update"})
  PROVE  Spec => NoBlindOverwrite
<1>1. UpdateInv /\ [Next]_vars =>
        [\A s \in Slots :
           /\ pc[s] = "updateWrite" /\ pc'[s] = "updateEmit"
           /\ job[s].patch.lastKnown # None
           => Apart(row[job[s].task].updatedAt, job[s].patch.lastKnown) <= Tolerance]_vars
  <2> SUFFICES ASSUME UpdateInv, NEW s \in Slots, pc[s] = "updateWrite", job[s].patch.lastKnown # None
               PROVE  Apart(row[job[s].task].updatedAt, job[s].patch.lastKnown) <= Tolerance
    OBVIOUS
  <2>1. job[s].orig = row[job[s].task] /\ ~Conflict(job[s].patch, job[s].orig)
    BY DEF UpdateInv, OrigStands
  <2>2. job[s].orig.updatedAt \in Nat /\ job[s].patch.lastKnown \in Nat
    BY TasksAssumption DEF UpdateInv, TypeOK, SlotsOK, Fits, UpdateStages, UpdateJob, Row, Patch
  <2> QED
    BY <2>1, <2>2, TasksAssumption DEF Conflict, Apart
<1> QED
  BY <1>1, UpdateAlways, PTL DEF Spec, NoBlindOverwrite

(* Nobody is left to be told: the row's assignee is nobody, the one who    *)
(* edits, or who had the task before.                                      *)
LEMMA NoNoticeNoNews ==
  ASSUME UpdateInv, NEW s \in Slots, pc[s] \in WrittenStages,
         Notice(job[s]) = None
  PROVE  row[job[s].task].assignee \in {None, job[s].user, job[s].orig.assignee}
<1>1. /\ job[s].snap = row[job[s].task]
      /\ job[s].snap.assignee = IF job[s].patch.assignee = "keep" THEN job[s].orig.assignee
                                ELSE job[s].patch.assignee
  BY DEF UpdateInv, SnapStands
<1>2. CASE job[s].snap.assignee \in {None, job[s].user}
  BY <1>1, <1>2
<1>3. CASE job[s].snap.assignee \notin {None, job[s].user}
  <2>1. job[s].patch.assignee \in {"keep", job[s].orig.assignee}
    BY <1>3, TasksAssumption DEF Notice
  <2> QED
    BY <1>1, <2>1
<1> QED
  BY <1>2, <1>3

(* How an update that has written comes to its end, its task being there.  *)
LEMMA UpdateEnds ==
  ASSUME UpdateInv, Faults = FALSE, NEW s \in Slots, Arrive(s) \/ Step(s) \/ Fail(s),
         pc[s] \in WrittenStages, pc'[s] = "idle", job[s].task \in live
  PROVE  Notice(job[s]) = None \/ UpdateNotify(s)
<1>1. UpdateEmit(s) \/ UpdateLog(s) \/ UpdateLogStatus(s) \/ UpdateNotify(s)
  <2>1. /\ pc[s] \in {"updateEmit", "updateLog", "updateLogStatus", "updateNotify"}
        /\ pc[s] # "idle"
    BY DEF WrittenStages, UpdateStages
  <2>2. ~Arrive(s) /\ ~Fail(s)
    BY <2>1 DEF Arrive, Begin, Fail, CreateInsert, UpdateRead, RemoveRead, AddRead, DropRead
  <2>3. /\ ~CreateEmit(s) /\ ~CreateLog(s) /\ ~UpdateBlockers(s) /\ ~UpdateWrite(s)
        /\ ~RemoveDelete(s) /\ ~RemoveEmit(s)
    BY <2>1 DEF CreateEmit, CreateLog, UpdateBlockers, UpdateWrite, RemoveDelete, RemoveEmit
  <2>4. /\ ~AddVisit(s) /\ ~AddFind(s) /\ ~AddInsert(s) /\ ~DropFind(s) /\ ~DropDelete(s)
        /\ ~DepReread(s) /\ ~DepEmit(s)
    BY <2>1 DEF AddVisit, AddFind, AddInsert, DropFind, DropDelete, DepReread, DepEmit
  <2> QED
    BY <2>2, <2>3, <2>4 DEF Step
<1>2. pc'[s] = "idle" /\ pc \in [Slots -> Stages]
  BY DEF UpdateInv, TypeOK, SlotsOK
<1>3. CASE UpdateEmit(s)
  <2>1. ToLog(job[s]) = "idle"
    BY <1>2, <1>3 DEF UpdateEmit, Continue
  <2> QED
    BY <2>1 DEF ToLog, ToLogStatus, ToNotify
<1>4. CASE UpdateLog(s)
  <2>1. ToLogStatus(job[s]) = "idle"
    BY <1>2, <1>4 DEF UpdateLog, Continue
  <2> QED
    BY <2>1 DEF ToLogStatus, ToNotify
<1>5. CASE UpdateLogStatus(s)
  <2>1. ToNotify(job[s]) = "idle"
    BY <1>2, <1>5 DEF UpdateLogStatus, Continue
  <2> QED
    BY <2>1 DEF ToNotify
<1> QED
  BY <1>1, <1>3, <1>4, <1>5

(* As long as one slot serves updates and no request dies, an edit that is *)
(* answered while its task is still there has told the assignee the task   *)
(* has then, unless that is the one who edits or who had it before.        *)
THEOREM AssigneeAlwaysTold ==
  ASSUME OneServes({"update"}), Faults = FALSE
  PROVE  Spec => AssigneeTold
<1>1. UpdateInv /\ [Next]_vars =>
        [\A s \in Slots :
           /\ pc[s] \in UpdateStages \ {"updateBlockers", "updateWrite"}
           /\ pc'[s] = "idle" /\ job[s].task \in live
           => LET j == job[s]
                  v == row[j.task].assignee
              IN v \in {None, j.user, j.orig.assignee}
                 \/ \E n \in notified' : n.to = v /\ n.task = j.task]_vars
  <2> SUFFICES ASSUME UpdateInv, Next, NEW s \in Slots,
                      pc[s] \in WrittenStages, pc'[s] = "idle", job[s].task \in live
               PROVE  \/ row[job[s].task].assignee \in {None, job[s].user, job[s].orig.assignee}
                      \/ \E n \in notified' : n.to = row[job[s].task].assignee /\ n.task = job[s].task
    BY DEF WrittenStages
  <2>1. pc'[s] # pc[s]
    BY DEF WrittenStages, UpdateStages
  <2>2. Arrive(s) \/ Step(s) \/ Fail(s)
    BY <2>1, OthersStay DEF Next, Tick, control, UpdateInv
  <2>3. CASE Notice(job[s]) = None
    BY <2>3, NoNoticeNoNews
  <2>4. CASE UpdateNotify(s)
    <3>1. job[s].snap = row[job[s].task]
      BY DEF UpdateInv, SnapStands
    <3>2. [to |-> job[s].snap.assignee, task |-> job[s].task, type |-> Notice(job[s])] \in notified'
      BY <2>4 DEF UpdateNotify
    <3> QED
      BY <3>1, <3>2
  <2> QED
    BY <2>2, <2>3, <2>4, UpdateEnds
<1> QED
  BY <1>1, UpdateAlways, PTL DEF Spec, AssigneeTold

----------------------------------------------------------------------------
(* The history of a task, under the same conditions.                       *)

Values  == Statuses \cup Details \cup {None, "keep"}
Entries == [type : {"TASK_CREATED", "TASK_UPDATED", "STATUS_CHANGED", "TASK_COMPLETED"},
            old : Values, new : Values]

IsMove(e) == e.type \in {"STATUS_CHANGED", "TASK_COMPLETED"}

(* An entry that is no status change leaves the trail as it is.            *)
LEMMA OtherAppended ==
  ASSUME NEW f \in Seq(Entries), NEW e \in Entries, ~IsMove(e)
  PROVE  /\ Append(f, e) \in Seq(Entries)
         /\ Chained(f) => Chained(Append(f, e))
         /\ \A st : EndsAt(f, st) => EndsAt(Append(f, e), st)
<1> DEFINE g == Append(f, e)
<1>1. /\ g \in Seq(Entries) /\ Len(f) \in Nat /\ Len(g) = Len(f) + 1
      /\ g[Len(f) + 1] = e /\ \A i \in 1..Len(f) : g[i] = f[i]
  OBVIOUS
<1> HIDE DEF g
<1>2. Moves(g) = Moves(f)
  BY <1>1 DEF Moves, IsMove
<1>3. \A i \in Moves(f) : g[i] = f[i]
  BY <1>1 DEF Moves
<1>4. /\ Chained(f) => Chained(g)
      /\ \A st : EndsAt(f, st) => EndsAt(g, st)
  BY <1>2, <1>3 DEF Chained, EndsAt
<1> QED
  BY <1>1, <1>4 DEF g

(* A status change that starts where the last one ended continues it.      *)
LEMMA MoveAppended ==
  ASSUME NEW f \in Seq(Entries), NEW e \in Entries, IsMove(e), Chained(f), EndsAt(f, e.old)
  PROVE  /\ Append(f, e) \in Seq(Entries)
         /\ Chained(Append(f, e)) /\ EndsAt(Append(f, e), e.new)
<1> DEFINE g == Append(f, e)
           n == Len(f) + 1
<1>1. /\ g \in Seq(Entries) /\ Len(f) \in Nat /\ Len(g) = n
      /\ g[n] = e /\ \A i \in 1..Len(f) : g[i] = f[i]
  OBVIOUS
<1> HIDE DEF g
<1>2. /\ Moves(g) = Moves(f) \cup {n} /\ Moves(f) \subseteq 1..Len(f)
      /\ \A i \in Moves(f) : i \in Nat /\ i < n
  BY <1>1 DEF Moves, IsMove
<1>3. \A i \in Moves(f) : g[i] = f[i]
  BY <1>1 DEF Moves
<1>4. ASSUME NEW i \in Moves(g), NEW k \in Moves(g), i < k,
             \A m \in Moves(g) : m <= i \/ k <= m
      PROVE  g[k].old = g[i].new
  <2>1. i \in Moves(f)
    BY <1>1, <1>2, <1>4
  <2>2. CASE k \in Moves(f)
    BY <1>2, <1>3, <1>4, <2>1, <2>2 DEF Chained
  <2>3. CASE k = n
    <3>1. \A m \in Moves(f) : m <= i
      BY <1>1, <1>2, <1>4, <2>3
    <3> QED
      BY <1>1, <1>3, <2>1, <2>3, <3>1 DEF EndsAt
  <2> QED
    BY <1>2, <2>2, <2>3
<1>5. ASSUME NEW i \in Moves(g), \A m \in Moves(g) : m <= i PROVE g[i].new = e.new
  BY <1>1, <1>2, <1>5
<1> QED
  BY <1>1, <1>4, <1>5 DEF g, Chained, EndsAt

LEMMA NothingYet == Chained(<<>>) /\ \A st : EndsAt(<<>>, st)
BY DEF Chained, EndsAt, Moves

\* An update that has moved task t and not yet logged that it did.
Unlogged(s, t) ==
  /\ pc[s] \in {"updateEmit", "updateLog", "updateLogStatus"}
  /\ job[s].task = t /\ SendsStatus(job[s].patch, job[s].orig)

FeedSound ==
  /\ feed \in [Tasks -> Seq(Entries)]
  /\ \A t \in Tasks \ used : feed[t] = <<>>
  /\ \A s \in Slots : pc[s] = "updateLogStatus" => SendsStatus(job[s].patch, job[s].orig)

\* The trail ends where the task is, or where an update that has still to log
\* its move took it from.
TrailStands ==
  \A t \in live :
    /\ Chained(feed[t])
    /\ (\A s \in Slots : ~Unlogged(s, t)) => EndsAt(feed[t], row[t].status)
    /\ \A s \in Slots : Unlogged(s, t) =>
         EndsAt(feed[t], job[s].orig.status) /\ row[t].status = job[s].patch.status

TrailInv == UpdateInv /\ FeedSound /\ TrailStands

(* One slot at most has a move to log.                                     *)
LEMMA OneUnlogged ==
  ASSUME Writing, OneServes({"update"}), NEW s \in Slots, pc[s] \in UpdateStages,
         NEW q \in Slots, q # s
  PROVE  pc[q] \notin UpdateStages /\ \A t : ~Unlogged(q, t)
BY DEF Writing, OneServes, Unlogged, UpdateStages

LEMMA TrailSame ==
  ASSUME TrailInv, live' \subseteq live,
         \A t \in live' : feed'[t] = feed[t] /\ row'[t] = row[t],
         \A q \in Slots : \A t \in live' :
           (Unlogged(q, t)' <=> Unlogged(q, t)) /\ (Unlogged(q, t) => job'[q] = job[q])
  PROVE  TrailStands'
<1> SUFFICES ASSUME NEW t \in live'
             PROVE  /\ Chained(feed'[t])
                    /\ (\A s \in Slots : ~Unlogged(s, t)') => EndsAt(feed'[t], row'[t].status)
                    /\ \A s \in Slots : Unlogged(s, t)' =>
                         EndsAt(feed'[t], job'[s].orig.status) /\ row'[t].status = job'[s].patch.status
  BY DEF TrailStands, Chained, EndsAt, Moves
<1> QED
  BY DEF TrailInv, TrailStands

LogStages == {"updateEmit", "updateLog", "updateLogStatus"}

(* Only the steps of an update between its write and its notice have to do *)
(* with moves that are still to be logged.                                 *)
LEMMA OffTheTrail ==
  ASSUME UpdateInv, NEW s \in Slots, Arrive(s) \/ Step(s) \/ Fail(s), Faults = FALSE,
         ~(UpdateWrite(s) \/ UpdateEmit(s) \/ UpdateLog(s) \/ UpdateLogStatus(s))
  PROVE  /\ pc[s] \notin LogStages /\ pc'[s] \notin LogStages
         /\ \A q \in Slots, t \in Tasks :
              (Unlogged(q, t)' <=> Unlogged(q, t)) /\ (Unlogged(q, t) => job'[q] = job[q])
<1>1. pc[s] \notin LogStages
  BY ZenonT(60) DEF LogStages, Arrive, Step, Fail, Begin, CreateInsert, UpdateRead,
         RemoveRead, AddRead, DropRead, CreateEmit, CreateLog, UpdateBlockers, UpdateNotify,
         RemoveDelete, RemoveEmit, AddVisit, AddFind, AddInsert, DropFind, DropDelete,
         DepReread, DepEmit
<1>2. pc'[s] \notin LogStages
  <2>1. LogStages \subseteq WrittenStages /\ WrittenStages \subseteq UpdateStages
    BY DEF LogStages, WrittenStages, UpdateStages
  <2>2. pc'[s] \in WrittenStages => pc[s] = "updateNotify"
    BY <1>1, InWritten DEF UpdateInv, WrittenStages, UpdateStages, LogStages
  <2>3. pc[s] = "updateNotify" => pc'[s] = "idle"
    <3>1. pc[s] = "updateNotify" => UpdateNotify(s)
      BY DEF Arrive, Step, Fail, Begin, CreateInsert, UpdateRead, RemoveRead, AddRead, DropRead,
             CreateEmit, CreateLog, UpdateBlockers, RemoveDelete, RemoveEmit, AddVisit, AddFind,
             AddInsert, DropFind, DropDelete, DepReread, DepEmit
    <3> QED
      BY <3>1 DEF UpdateNotify, Finish, Continue, UpdateInv, TypeOK, SlotsOK
  <2> QED
    BY <2>1, <2>2, <2>3 DEF LogStages
<1>3. ASSUME NEW q \in Slots, q # s PROVE pc'[q] = pc[q] /\ job'[q] = job[q]
  BY <1>3, OthersStay DEF UpdateInv
<1> QED
  BY <1>1, <1>2, <1>3 DEF Unlogged, LogStages

(* The writes of tasks and of activities that are not about a status.      *)
LEMMA CreateTrail ==
  ASSUME TrailInv, NEW s \in Slots, NEW u \in Users, NEW t \in Tasks, NEW p \in Patches,
         CreateInsert(s, u, t, p), Faults = FALSE
  PROVE  TrailStands'
<1>1. /\ t \notin used /\ live' = live \cup {t} /\ feed' = feed
      /\ \A w \in used : row'[w] = row[w]
  BY DEF CreateInsert, outputs, TrailInv, UpdateInv, TypeOK
<1>2. Arrive(s)
  BY DEF Arrive
<1>3. ~(UpdateWrite(s) \/ UpdateEmit(s) \/ UpdateLog(s) \/ UpdateLogStatus(s))
  BY DEF CreateInsert, Begin, UpdateWrite, UpdateEmit, UpdateLog, UpdateLogStatus
<1>4. \A q \in Slots, w \in Tasks :
        (Unlogged(q, w)' <=> Unlogged(q, w)) /\ (Unlogged(q, w) => job'[q] = job[q])
  BY <1>2, <1>3, OffTheTrail DEF TrailInv
<1>5. \A q \in Slots : ~Unlogged(q, t)
  BY <1>1 DEF Unlogged, TrailInv, UpdateInv, SnapStands, WrittenStages, UpdateStages
<1>6. feed'[t] = <<>>
  BY <1>1 DEF TrailInv, FeedSound
<1>7. ASSUME NEW w \in live'
      PROVE  /\ Chained(feed'[w])
             /\ (\A q \in Slots : ~Unlogged(q, w)') => EndsAt(feed'[w], row'[w].status)
             /\ \A q \in Slots : Unlogged(q, w)' =>
                  EndsAt(feed'[w], job'[q].orig.status) /\ row'[w].status = job'[q].patch.status
  <2>1. CASE w = t
    BY <1>4, <1>5, <1>6, <2>1, NothingYet
  <2>2. CASE w # t
    <3>1. w \in live /\ w \in used /\ w \in Tasks
      BY <1>1, <1>7, <2>2 DEF TrailInv, UpdateInv, TypeOK
    <3> QED
      BY <1>1, <1>4, <3>1 DEF TrailInv, TrailStands
  <2> QED
    BY <2>1, <2>2
<1> QED
  BY <1>7 DEF TrailStands, Chained, EndsAt, Moves

(* An entry of another kind is added to the history of a task.             *)
LEMMA OtherTrail ==
  ASSUME TrailInv, NEW t \in Tasks, NEW e \in Entries, ~IsMove(e), Log(t, e),
         UNCHANGED <<live, row>>,
         \A q \in Slots, w \in Tasks :
           (Unlogged(q, w)' <=> Unlogged(q, w)) /\ (Unlogged(q, w) => job'[q] = job[q])
  PROVE  TrailStands'
<1>1. \A w \in live : w \in Tasks /\ feed[w] \in Seq(Entries)
  BY DEF TrailInv, FeedSound, UpdateInv, TypeOK
<1>2. \A w \in live : feed'[w] = IF w = t THEN Append(feed[w], e) ELSE feed[w]
  BY <1>1 DEF Log, TrailInv, FeedSound
<1>3. ASSUME NEW w \in live
      PROVE  /\ Chained(feed[w]) => Chained(feed'[w])
             /\ \A st : EndsAt(feed[w], st) => EndsAt(feed'[w], st)
  BY <1>1, <1>2, OtherAppended
<1>4. ASSUME NEW w \in live'
      PROVE  /\ Chained(feed'[w])
             /\ (\A q \in Slots : ~Unlogged(q, w)') => EndsAt(feed'[w], row'[w].status)
             /\ \A q \in Slots : Unlogged(q, w)' =>
                  EndsAt(feed'[w], job'[q].orig.status) /\ row'[w].status = job'[q].patch.status
  BY <1>1, <1>3, <1>4 DEF TrailInv, TrailStands
<1> QED
  BY <1>4 DEF TrailStands, Chained, EndsAt, Moves

(* A write that changes the status leaves a move to be logged, any other   *)
(* leaves the status alone.                                                *)
LEMMA WriteTrail ==
  ASSUME TrailInv, OneServes({"update"}), NEW s \in Slots, UpdateWrite(s)
  PROVE  TrailStands'
<1> DEFINE t == job[s].task
<1>0. /\ Step(s) /\ feed' = feed /\ live' = live /\ pc[s] = "updateWrite"
      /\ \A w \in Tasks : ~Unlogged(s, w)
  BY DEF Step, UpdateWrite, outputs, Unlogged
<1>1. ASSUME NEW q \in Slots, q # s
      PROVE  /\ pc'[q] = pc[q] /\ job'[q] = job[q] /\ \A w : ~Unlogged(q, w)
  BY <1>0, <1>1, OthersStay, OneUnlogged DEF TrailInv, UpdateInv, UpdateStages
<1>2. \A q \in Slots, w \in Tasks : ~Unlogged(q, w)
  BY <1>0, <1>1
<1>3. CASE pc'[s] \in UpdateStages
  <2>1. /\ job[s] \in UpdateJob /\ t \in live /\ pc'[s] = "updateEmit"
        /\ job'[s].task = t /\ job'[s].patch = job[s].patch /\ job'[s].orig = job[s].orig
        /\ job'[s].snap = Patched(job[s].orig, job[s].patch, clock)
        /\ row' = [row EXCEPT ![t] = job'[s].snap]
    BY <1>3, WriteLeaves DEF TrailInv
  <2>2. /\ job[s].orig \in Row /\ t \in Tasks /\ job[s].orig = row[t]
        /\ row \in [Tasks -> Row] /\ live \subseteq Tasks
    BY <1>0, <2>1 DEF TrailInv, UpdateInv, OrigStands, UpdateJob, TypeOK
  <2>3. row'[t].status = IF job[s].patch.status = "keep" THEN row[t].status ELSE job[s].patch.status
    <3>1. job'[s].snap.status = IF job[s].patch.status = "keep" THEN job[s].orig.status
                                ELSE job[s].patch.status
      BY <2>1, <2>2 DEF Patched, Row
    <3> QED
      BY <2>1, <2>2, <3>1
  <2>4. /\ \A w \in Tasks : Unlogged(s, w)' <=> w = t /\ SendsStatus(job[s].patch, job[s].orig)
        /\ \A q \in Slots \ {s} : \A w \in Tasks : ~Unlogged(q, w)'
    BY <1>1, <2>1 DEF Unlogged, SendsStatus
  <2>5. ASSUME NEW w \in live'
        PROVE  /\ Chained(feed'[w])
               /\ (\A q \in Slots : ~Unlogged(q, w)') => EndsAt(feed'[w], row'[w].status)
               /\ \A q \in Slots : Unlogged(q, w)' =>
                    EndsAt(feed'[w], job'[q].orig.status) /\ row'[w].status = job'[q].patch.status
    <3>1. w \in live /\ w \in Tasks /\ Chained(feed[w]) /\ EndsAt(feed[w], row[w].status)
      BY <1>0, <1>2, <2>2, <2>5 DEF TrailInv, TrailStands
    <3>2. CASE w # t
      BY <1>0, <2>1, <2>2, <2>4, <3>1, <3>2
    <3>3. CASE w = t
      <4>1. ~SendsStatus(job[s].patch, job[s].orig) => row'[w].status = row[w].status
        BY <2>2, <2>3, <3>3 DEF SendsStatus
      <4>2. SendsStatus(job[s].patch, job[s].orig) => row'[w].status = job[s].patch.status
        BY <2>3, <3>3 DEF SendsStatus
      <4> QED
        BY <1>0, <2>1, <2>2, <2>4, <3>1, <3>3, <4>1, <4>2
    <3> QED
      BY <3>2, <3>3
  <2> QED
    BY <2>5 DEF TrailStands, Chained, EndsAt, Moves
<1>4. CASE pc'[s] \notin UpdateStages
  <2>1. row' = row
    BY <1>4 DEF UpdateWrite, Continue, TrailInv, UpdateInv, TypeOK, SlotsOK, UpdateStages
  <2>2. \A q \in Slots, w \in Tasks : ~Unlogged(q, w)'
    BY <1>1, <1>2, <1>4 DEF Unlogged, UpdateStages
  <2>3. live' \subseteq Tasks
    BY <1>0 DEF TrailInv, UpdateInv, TypeOK
  <2> QED
    BY <1>0, <1>2, <2>1, <2>2, <2>3, TrailSame
<1> QED
  BY <1>3, <1>4

(* Where an update goes on after its write, with its locals.               *)
LEMMA EmitTrail ==
  ASSUME TrailInv, NEW s \in Slots, UpdateEmit(s)
  PROVE  TrailStands' /\ (pc'[s] = "updateLogStatus" => SendsStatus(job'[s].patch, job'[s].orig))
<1>1. /\ Step(s) /\ pc[s] = "updateEmit" /\ pc'[s] = ToLog(job[s]) /\ UNCHANGED <<feed, live, row>>
      /\ pc'[s] # "idle" => job'[s] = job[s]
  BY DEF Step, UpdateEmit, Continue, database, TrailInv, UpdateInv, TypeOK, SlotsOK
<1>2. \A q \in Slots \ {s} : pc'[q] = pc[q] /\ job'[q] = job[q]
  BY <1>1, OthersStay DEF TrailInv, UpdateInv
<1>3. /\ SendsStatus(job[s].patch, job[s].orig) => pc'[s] \in {"updateLog", "updateLogStatus"}
      /\ pc'[s] = "updateLogStatus" => SendsStatus(job[s].patch, job[s].orig)
      /\ pc'[s] \in LogStages => pc'[s] # "idle"
  BY <1>1 DEF ToLog, ToLogStatus, ToNotify, LogStages
<1>4. \A w \in Tasks : (Unlogged(s, w)' <=> Unlogged(s, w)) /\ (Unlogged(s, w) => job'[s] = job[s])
  BY <1>1, <1>3 DEF Unlogged, LogStages
<1>5. \A q \in Slots, w \in Tasks :
        (Unlogged(q, w)' <=> Unlogged(q, w)) /\ (Unlogged(q, w) => job'[q] = job[q])
  BY <1>2, <1>4 DEF Unlogged
<1>6. live' \subseteq Tasks
  BY <1>1 DEF TrailInv, UpdateInv, TypeOK
<1> QED
  BY <1>1, <1>3, <1>5, <1>6, TrailSame

LEMMA LogTrail ==
  ASSUME TrailInv, NEW s \in Slots, UpdateLog(s)
  PROVE  /\ TrailStands' /\ feed' \in [Tasks -> Seq(Entries)]
         /\ \A w \in Tasks \ live : feed'[w] = feed[w]
         /\ pc'[s] = "updateLogStatus" => SendsStatus(job'[s].patch, job'[s].orig)
<1> DEFINE t == job[s].task
           e == Entry("TASK_UPDATED", job[s].orig.details, job[s].patch.details)
<1>0. /\ Step(s) /\ pc[s] = "updateLog" /\ UNCHANGED <<live, row>>
      /\ job[s] \in UpdateJob /\ t \in Tasks /\ feed \in [Tasks -> Seq(Entries)] /\ live \subseteq Tasks
  BY DEF Step, UpdateLog, database, TrailInv, FeedSound, UpdateInv, TypeOK, SlotsOK, Fits, UpdateStages, UpdateJob
<1>1. e \in Entries /\ ~IsMove(e)
  BY <1>0, TasksAssumption DEF Entry, Entries, Values, IsMove, UpdateJob, Row, Patch
<1>2. \A q \in Slots \ {s} : pc'[q] = pc[q] /\ job'[q] = job[q]
  BY <1>0, OthersStay DEF TrailInv, UpdateInv
<1>3. CASE t \in live
  <2>1. Log(t, e) /\ pc'[s] = ToLogStatus(job[s]) /\ (pc'[s] # "idle" => job'[s] = job[s])
    BY <1>3 DEF UpdateLog, Continue, TrailInv, UpdateInv, TypeOK, SlotsOK
  <2>2. /\ SendsStatus(job[s].patch, job[s].orig) <=> pc'[s] = "updateLogStatus"
        /\ pc'[s] \notin {"updateEmit", "updateLog"}
    BY <2>1 DEF ToLogStatus, ToNotify
  <2>3. \A q \in Slots, w \in Tasks :
          (Unlogged(q, w)' <=> Unlogged(q, w)) /\ (Unlogged(q, w) => job'[q] = job[q])
    BY <1>0, <1>2, <2>1, <2>2 DEF Unlogged
  <2>4. TrailStands'
    BY <1>0, <1>1, <2>1, <2>3, OtherTrail
  <2>5. feed' \in [Tasks -> Seq(Entries)] /\ \A w \in Tasks \ live : feed'[w] = feed[w]
    BY <1>0, <1>1, <1>3, <2>1 DEF Log
  <2> QED
    BY <2>1, <2>2, <2>4, <2>5
<1>4. CASE t \notin live
  <2>1. feed' = feed /\ pc'[s] = "idle"
    BY <1>4 DEF UpdateLog, Finish, Continue, TrailInv, UpdateInv, TypeOK, SlotsOK
  <2>2. \A q \in Slots, w \in live :
          (Unlogged(q, w)' <=> Unlogged(q, w)) /\ (Unlogged(q, w) => job'[q] = job[q])
    BY <1>2, <1>4, <2>1 DEF Unlogged
  <2> QED
    BY <1>0, <2>1, <2>2, TrailSame
<1> QED
  BY <1>3, <1>4

LEMMA LogStatusTrail ==
  ASSUME TrailInv, OneServes({"update"}), NEW s \in Slots, UpdateLogStatus(s)
  PROVE  /\ TrailStands' /\ feed' \in [Tasks -> Seq(Entries)]
         /\ \A w \in Tasks \ live : feed'[w] = feed[w]
         /\ pc'[s] # "updateLogStatus"
<1> DEFINE t == job[s].task
           kind == IF job[s].patch.status = "COMPLETED" THEN "TASK_COMPLETED" ELSE "STATUS_CHANGED"
           e == Entry(kind, job[s].orig.status, job[s].patch.status)
<1>0. /\ Step(s) /\ pc[s] = "updateLogStatus" /\ UNCHANGED <<live, row>>
      /\ job[s] \in UpdateJob /\ t \in Tasks /\ feed \in [Tasks -> Seq(Entries)] /\ live \subseteq Tasks
  BY DEF Step, UpdateLogStatus, database, TrailInv, FeedSound, UpdateInv, TypeOK, SlotsOK, Fits, UpdateStages, UpdateJob
<1>1. e \in Entries /\ IsMove(e) /\ e.old = job[s].orig.status /\ e.new = job[s].patch.status
  BY <1>0, TasksAssumption DEF Entry, Entries, Values, IsMove, UpdateJob, Row, Patch
<1>2. \A q \in Slots \ {s} : pc'[q] = pc[q] /\ job'[q] = job[q] /\ \A w : ~Unlogged(q, w)
  BY <1>0, OthersStay, OneUnlogged DEF TrailInv, UpdateInv, UpdateStages
<1>3. pc'[s] \in {"idle", "updateNotify"}
  BY DEF UpdateLogStatus, Continue, Finish, ToNotify, TrailInv, UpdateInv, TypeOK, SlotsOK
<1>4. \A q \in Slots, w \in Tasks : ~Unlogged(q, w)'
  BY <1>2, <1>3 DEF Unlogged
<1>5. Unlogged(s, t) /\ \A w \in Tasks \ {t} : ~Unlogged(s, w)
  BY <1>0 DEF Unlogged, TrailInv, FeedSound
<1>6. CASE t \in live
  <2>1. feed' = [feed EXCEPT ![t] = Append(feed[t], e)]
    BY <1>6 DEF UpdateLogStatus, Log
  <2>2. /\ feed[t] \in Seq(Entries) /\ Chained(feed[t]) /\ EndsAt(feed[t], e.old)
        /\ row[t].status = e.new
    BY <1>0, <1>1, <1>5, <1>6 DEF TrailInv, TrailStands
  <2> HIDE DEF e
  <2>3. feed'[t] \in Seq(Entries) /\ Chained(feed'[t]) /\ EndsAt(feed'[t], row'[t].status)
    BY <1>0, <1>1, <2>1, <2>2, MoveAppended
  <2>4. \A w \in Tasks \ {t} : feed'[w] = feed[w]
    BY <1>0, <2>1
  <2>5. ASSUME NEW w \in live', w # t PROVE Chained(feed[w]) /\ EndsAt(feed[w], row[w].status)
    BY <1>0, <1>2, <1>5, <2>5 DEF TrailInv, TrailStands
  <2>6. \A w \in live' : Chained(feed'[w]) /\ EndsAt(feed'[w], row'[w].status)
    BY <1>0, <2>3, <2>4, <2>5
  <2>7. TrailStands'
    BY <1>0, <1>4, <2>6 DEF TrailStands, Chained, EndsAt, Moves
  <2>8. feed' \in [Tasks -> Seq(Entries)]
    BY <1>0, <2>1, <2>3, <2>4
  <2> QED
    BY <1>3, <1>6, <2>4, <2>7, <2>8
<1>7. CASE t \notin live
  <2>1. feed' = feed
    BY <1>7 DEF UpdateLogStatus
  <2>2. \A q \in Slots, w \in live : ~Unlogged(q, w) /\ ~Unlogged(q, w)'
    BY <1>0, <1>2, <1>4, <1>5, <1>7
  <2> QED
    BY <1>0, <1>3, <2>1, <2>2, TrailSame
<1> QED
  BY <1>6, <1>7

(* The other steps that write the feed.                                    *)
LEMMA CreateLogTrail ==
  ASSUME TrailInv, Faults = FALSE, NEW s \in Slots, CreateLog(s)
  PROVE  /\ TrailStands' /\ feed' \in [Tasks -> Seq(Entries)]
         /\ \A w \in Tasks \ live : feed'[w] = feed[w]
<1> DEFINE t == job[s].task
           e == Entry("TASK_CREATED", None, None)
<1>0. /\ Step(s) /\ UNCHANGED <<live, row>> /\ live \subseteq Tasks
      /\ feed \in [Tasks -> Seq(Entries)]
      /\ ~(UpdateWrite(s) \/ UpdateEmit(s) \/ UpdateLog(s) \/ UpdateLogStatus(s))
  BY DEF Step, CreateLog, UpdateWrite, UpdateEmit, UpdateLog, UpdateLogStatus, database,
         TrailInv, FeedSound, UpdateInv, TypeOK
<1>1. e \in Entries /\ ~IsMove(e)
  BY DEF Entry, Entries, Values, IsMove
<1>2. \A q \in Slots, w \in Tasks :
        (Unlogged(q, w)' <=> Unlogged(q, w)) /\ (Unlogged(q, w) => job'[q] = job[q])
  BY <1>0, OffTheTrail DEF TrailInv
<1>3. CASE t \in live
  <2>1. Log(t, e) /\ t \in Tasks
    BY <1>0, <1>3 DEF CreateLog
  <2>2. TrailStands'
    BY <1>0, <1>1, <1>2, <2>1, OtherTrail
  <2>3. feed' \in [Tasks -> Seq(Entries)] /\ \A w \in Tasks \ live : feed'[w] = feed[w]
    BY <1>0, <1>1, <1>3, <2>1 DEF Log
  <2> QED
    BY <2>2, <2>3
<1>4. CASE t \notin live
  <2>1. feed' = feed
    BY <1>4 DEF CreateLog
  <2> QED
    BY <1>0, <1>2, <2>1, TrailSame
<1> QED
  BY <1>3, <1>4

LEMMA RemoveTrail ==
  ASSUME TrailInv, Faults = FALSE, NEW s \in Slots, RemoveDelete(s)
  PROVE  /\ TrailStands' /\ feed' \in [Tasks -> Seq(Entries)]
         /\ \A w \in Tasks \ live : feed'[w] = feed[w]
<1>0. /\ Step(s) /\ row' = row /\ live \subseteq Tasks
      /\ feed \in [Tasks -> Seq(Entries)]
      /\ ~(UpdateWrite(s) \/ UpdateEmit(s) \/ UpdateLog(s) \/ UpdateLogStatus(s))
  BY DEF Step, RemoveDelete, UpdateWrite, UpdateEmit, UpdateLog, UpdateLogStatus,
         TrailInv, FeedSound, UpdateInv, TypeOK
<1>1. /\ live' \subseteq live /\ \A w \in live' : feed'[w] = feed[w]
      /\ feed' \in [Tasks -> Seq(Entries)]
      /\ \A w \in Tasks \ live : feed'[w] = feed[w]
  <2>1. <<>> \in Seq(Entries)
    OBVIOUS
  <2>2. CASE job[s].task \in live
    BY <1>0, <2>1, <2>2 DEF RemoveDelete
  <2>3. CASE job[s].task \notin live
    BY <1>0, <2>3 DEF RemoveDelete
  <2> QED
    BY <2>2, <2>3
<1>2. \A q \in Slots, w \in Tasks :
        (Unlogged(q, w)' <=> Unlogged(q, w)) /\ (Unlogged(q, w) => job'[q] = job[q])
  BY <1>0, OffTheTrail DEF TrailInv
<1> QED
  BY <1>0, <1>1, <1>2, TrailSame

LEMMA TrailStep ==
  ASSUME TrailInv, OneServes({"update"}), Faults = FALSE,
         NEW s \in Slots, Arrive(s) \/ Step(s) \/ Fail(s)
  PROVE  TrailInv'
<1>1. UpdateInv'
  BY UpdateStep DEF TrailInv
<1>2. ASSUME TrailStands', feed' \in [Tasks -> Seq(Entries)],
             \A w \in Tasks \ live : feed'[w] = feed[w],
             pc'[s] = "updateLogStatus" => SendsStatus(job'[s].patch, job'[s].orig)
      PROVE  TrailInv'
  <2>1. used \subseteq used' /\ live \subseteq used
    <3>1. used \subseteq used'
      BY DEF Arrive, Step, Fail, CreateInsert, UpdateRead, RemoveRead, AddRead, DropRead,
             CreateEmit, CreateLog, UpdateBlockers, UpdateWrite, UpdateEmit, UpdateLog,
             UpdateLogStatus, UpdateNotify, RemoveDelete, RemoveEmit, AddVisit, AddFind,
             AddInsert, DropFind, DropDelete, DepReread, DepEmit, database
    <3> QED
      BY <3>1 DEF TrailInv, UpdateInv, TypeOK
  <2>2. \A w \in Tasks \ used' : feed'[w] = <<>>
    BY <1>2, <2>1 DEF TrailInv, FeedSound
  <2>3. ASSUME NEW q \in Slots, pc'[q] = "updateLogStatus"
        PROVE  SendsStatus(job'[q].patch, job'[q].orig)
    <3>1. CASE q = s
      BY <1>2, <2>3, <3>1
    <3>2. CASE q # s
      BY <2>3, <3>2, OthersStay DEF TrailInv, FeedSound, UpdateInv
    <3> QED
      BY <3>1, <3>2
  <2>4. FeedSound'
    BY <1>2, <2>2, <2>3 DEF FeedSound, SendsStatus
  <2> QED
    BY <1>1, <1>2, <2>4 DEF TrailInv
<1>3. CASE UpdateWrite(s)
  <2>1. feed' = feed /\ pc'[s] # "updateLogStatus"
    BY <1>3 DEF UpdateWrite, outputs, Continue, Finish, TrailInv, UpdateInv, TypeOK, SlotsOK
  <2> QED
    BY <1>2, <1>3, <2>1, WriteTrail DEF TrailInv, FeedSound
<1>4. CASE UpdateEmit(s)
  <2>1. feed' = feed
    BY <1>4 DEF UpdateEmit
  <2> QED
    BY <1>2, <1>4, <2>1, EmitTrail DEF TrailInv, FeedSound
<1>5. CASE UpdateLog(s)
  BY <1>2, <1>5, LogTrail
<1>6. CASE UpdateLogStatus(s)
  BY <1>2, <1>6, LogStatusTrail
<1>7. CASE ~(UpdateWrite(s) \/ UpdateEmit(s) \/ UpdateLog(s) \/ UpdateLogStatus(s))
  <2>1. /\ pc'[s] # "updateLogStatus"
        /\ \A q \in Slots, w \in Tasks :
             (Unlogged(q, w)' <=> Unlogged(q, w)) /\ (Unlogged(q, w) => job'[q] = job[q])
    BY <1>7, OffTheTrail DEF TrailInv, LogStages
  <2>2. CASE CreateLog(s)
    BY <1>2, <2>1, <2>2, CreateLogTrail
  <2>3. CASE RemoveDelete(s)
    BY <1>2, <2>1, <2>3, RemoveTrail
  <2>4. ASSUME NEW u \in Users, NEW t \in Tasks, NEW p \in Patches, CreateInsert(s, u, t, p)
        PROVE  TrailInv'
    <3>1. feed' = feed
      BY <2>4 DEF CreateInsert, outputs
    <3> QED
      BY <1>2, <2>1, <2>4, <3>1, CreateTrail DEF TrailInv, FeedSound
  <2>5. CASE /\ ~CreateLog(s) /\ ~RemoveDelete(s)
             /\ ~(\E u \in Users, t \in Tasks, p \in Patches : CreateInsert(s, u, t, p))
    <3>1. UNCHANGED <<feed, live, row>>
      BY <1>7, <2>5
         DEF Arrive, Step, Fail, UpdateRead, RemoveRead, AddRead, DropRead, CreateEmit,
             UpdateBlockers, UpdateNotify, RemoveEmit, AddVisit, AddFind, AddInsert,
             DropFind, DropDelete, DepReread, DepEmit, database, outputs
    <3>2. live \subseteq Tasks
      BY DEF TrailInv, UpdateInv, TypeOK
    <3>3. TrailStands'
      BY <2>1, <3>1, <3>2, TrailSame
    <3> QED
      BY <1>2, <2>1, <3>1, <3>3 DEF TrailInv, FeedSound
  <2> QED
    BY <2>2, <2>3, <2>4, <2>5
<1> QED
  BY <1>3, <1>4, <1>5, <1>6, <1>7

(* As long as one slot serves updates and no request dies, the status      *)
(* changes in the history of a task follow upon each other, and the last   *)
(* one ends where the task is once nothing is in flight; tasks and         *)
(* dependencies may come and go around the updates.                        *)
THEOREM HistoryFollows ==
  ASSUME OneServes({"update"}), Faults = FALSE
  PROVE  Spec => []AuditTrail
<1>1. Init => TrailInv
  <2> SUFFICES ASSUME Init PROVE TrailInv
    OBVIOUS
  <2>1. UpdateInv
    BY InitType DEF Init, UpdateInv, Writing, OrigStands, SnapStands, WrittenStages, UpdateStages, SearchStages
  <2> DEFINE e == Entry("TASK_CREATED", None, None)
  <2>2. e \in Entries /\ ~IsMove(e)
    BY DEF Entry, Entries, Values, IsMove
  <2>3. \A t \in Tasks : feed[t] = IF t \in Seeded THEN Append(<<>>, e) ELSE <<>>
    BY DEF Init
  <2>4. /\ Append(<<>>, e) \in Seq(Entries) /\ Chained(Append(<<>>, e))
        /\ \A st : EndsAt(Append(<<>>, e), st)
    <3>1. <<>> \in Seq(Entries)
      OBVIOUS
    <3> HIDE DEF e
    <3> QED
      BY <2>2, <3>1, OtherAppended, NothingYet
  <2> HIDE DEF e
  <2>5. FeedSound
    <3>1. feed \in [Tasks -> Seq(Entries)]
      BY <2>3, <2>4 DEF Init
    <3> QED
      BY <2>3, <3>1 DEF Init, FeedSound
  <2>6. TrailStands
    BY <2>3, <2>4, TasksAssumption DEF Init, TrailStands, Unlogged
  <2> QED
    BY <2>1, <2>5, <2>6 DEF TrailInv
<1>2. TrailInv /\ [Next]_vars => TrailInv'
  <2> SUFFICES ASSUME TrailInv, [Next]_vars PROVE TrailInv'
    OBVIOUS
  <2>1. CASE Tick \/ UNCHANGED vars
    <3>1. UNCHANGED <<used, live, row, feed, pc, job>>
      BY <2>1 DEF Tick, vars, database, control, outputs
    <3>2. UpdateInv'
      BY UpdateNext DEF TrailInv
    <3>3. FeedSound'
      BY <3>1 DEF TrailInv, FeedSound, SendsStatus
    <3>4. \A q \in Slots : \A t \in live' :
            (Unlogged(q, t)' <=> Unlogged(q, t)) /\ (Unlogged(q, t) => job'[q] = job[q])
      BY <3>1 DEF Unlogged, SendsStatus
    <3>5. TrailStands'
      BY <3>1, <3>4, TrailSame
    <3> QED
      BY <3>2, <3>3, <3>5 DEF TrailInv
  <2>2. CASE \E s \in Slots : Arrive(s) \/ Step(s) \/ Fail(s)
    BY <2>2, TrailStep
  <2> QED
    BY <2>1, <2>2 DEF Next
<1>3. TrailInv => AuditTrail
  BY DEF TrailInv, TrailStands, AuditTrail, Quiet, Unlogged
<1> QED
  BY <1>1, <1>2, <1>3, PTL DEF Spec

----------------------------------------------------------------------------
(* A board that misses nothing shows the database.                         *)

Db(t) == IF t \in live THEN row[t] ELSE None

(* Request s has changed task t and has not told so.                       *)
Pending(s, t) == pc[s] \in {"createEmit", "updateEmit", "removeEmit"} /\ job[s].task = t

Working == \A s \in Slots : pc[s] # "idle" => Kinds[s] # {}

(* The board is the database but for what is pending, and what slot s is   *)
(* about to tell is what the database holds.                               *)
Sound(s) ==
  /\ \A t \in Tasks : ~Pending(s, t) => board[t] = Db(t)
  /\ pc[s] = "createEmit" =>
       /\ job[s].task \in live \ Seeded /\ job[s].snap = row[job[s].task]
       /\ board[job[s].task] = None
  /\ pc[s] = "updateEmit" =>
       /\ job[s].task \in live /\ job[s].snap = row[job[s].task]
       /\ board[job[s].task] # None
  /\ pc[s] = "removeEmit" => job[s].task \in used \ live
  /\ pc[s] = "depEmit" => job[s].snap = Db(job[s].task)

OthersIdle(s) == \A q \in Slots : q # s => pc[q] = "idle"

(* The inductive invariant: one request at a time, and what it leaves.     *)
BusyInv ==
  /\ TypeOK /\ Working /\ Seeded \subseteq used
  /\ \A s \in Slots : OthersIdle(s) => Sound(s)
  /\ Quiet => \A t \in Tasks : board[t] = Db(t)

(* Whoever works is the only one that can, and works alone.                *)
LEMMA OneWorks ==
  ASSUME OneServes(Operations), TypeOK, Working, NEW s \in Slots,
         Arrive(s) \/ Step(s) \/ Fail(s)
  PROVE  /\ OthersIdle(s) /\ OthersIdle(s)' /\ Kinds[s] # {}
         /\ \A q \in Slots : q # s => pc'[q] = pc[q] /\ job'[q] = job[q]
<1>1. \A q \in Slots : q # s => pc'[q] = pc[q] /\ job'[q] = job[q]
  BY OthersStay
<1>2. Kinds[s] # {}
  <2>1. CASE Arrive(s)
    BY <2>1 DEF Arrive, CreateInsert, UpdateRead, RemoveRead, AddRead, DropRead, Begin
  <2>2. CASE Step(s) \/ Fail(s)
    <3>1. pc[s] # "idle"
      BY <2>2, ZenonT(30) DEF Step, Fail, CreateEmit, CreateLog, UpdateBlockers, UpdateWrite, UpdateEmit,
             UpdateLog, UpdateLogStatus, UpdateNotify, RemoveDelete, RemoveEmit, AddVisit,
             AddFind, AddInsert, DropFind, DropDelete, DepReread, DepEmit
    <3> QED
      BY <3>1 DEF Working
  <2> QED
    BY <2>1, <2>2
<1>3. \A q \in Slots : q # s => Kinds[q] = {}
  <2> TAKE q \in Slots
  <2>1. Kinds[q] \subseteq Operations /\ Kinds[s] \subseteq Operations
    BY TasksAssumption
  <2> QED
    BY <1>2, <2>1 DEF OneServes
<1>4. OthersIdle(s)
  BY <1>3 DEF OthersIdle, Working
<1> QED
  BY <1>1, <1>2, <1>4 DEF OthersIdle

TellStages == {"createEmit", "updateEmit", "removeEmit", "depEmit"}

(* A step that touches neither the board nor the tasks, and leads to no    *)
(* broadcast.                                                              *)
LEMMA StillSound ==
  ASSUME NEW s \in Slots, Sound(s), UNCHANGED <<live, row, board>>,
         pc[s] \notin TellStages \/ pc[s] = "depEmit", pc'[s] \notin TellStages
  PROVE  Sound(s)'
BY DEF Sound, Pending, Db, TellStages

(* A request that arrives leaves what is pending right.                    *)
LEMMA ArriveSound ==
  ASSUME TypeOK, Seeded \subseteq used, NEW s \in Slots, Sound(s), Arrive(s)
  PROVE  Sound(s)'
<1> PICK u \in Users :
      \/ \E t \in Tasks, p \in Patches : CreateInsert(s, u, t, p)
      \/ \E t \in Tasks, p \in Patches : UpdateRead(s, u, t, p)
      \/ \E t \in Tasks : RemoveRead(s, u, t)
      \/ \E a, b \in Tasks : AddRead(s, u, a, b)
      \/ \E a, b \in Tasks : DropRead(s, u, a, b)
  BY DEF Arrive
<1>0. pc \in [Slots -> Stages] /\ DOMAIN job = Slots /\ row \in [Tasks -> Row] /\ live \subseteq used
  BY DEF TypeOK, SlotsOK
<1>1. ASSUME NEW t \in Tasks, NEW p \in Patches, CreateInsert(s, u, t, p)
      PROVE  Sound(s)'
  <2> DEFINE r == NewRow(u, p)
  <2>1. /\ pc[s] = "idle" /\ pc'[s] = "createEmit" /\ job'[s] = [task |-> t, snap |-> r]
        /\ t \notin used /\ live' = live \cup {t} /\ row' = [row EXCEPT ![t] = r]
        /\ UNCHANGED board
    BY <1>0, <1>1 DEF CreateInsert, Begin, outputs
  <2> HIDE DEF r
  <2>2. t \notin live /\ t \notin Seeded
    BY <1>0, <2>1
  <2>3. \A x \in Tasks : board[x] = Db(x)
    BY <2>1 DEF Sound, Pending
  <2>4. board[t] = None
    BY <2>2, <2>3 DEF Db
  <2>5. \A x \in Tasks : x # t => Db(x)' = Db(x)
    BY <1>0, <2>1 DEF Db
  <2> QED
    BY <1>0, <2>1, <2>2, <2>3, <2>4, <2>5 DEF Sound, Pending
<1>2. CASE \/ \E t \in Tasks, p \in Patches : UpdateRead(s, u, t, p)
           \/ \E t \in Tasks : RemoveRead(s, u, t)
           \/ \E a, b \in Tasks : AddRead(s, u, a, b)
           \/ \E a, b \in Tasks : DropRead(s, u, a, b)
  <2>1. /\ UNCHANGED <<live, row, board>> /\ pc[s] = "idle"
        /\ pc'[s] \in {"updateBlockers", "updateWrite", "removeDelete", "addVisit", "dropFind"}
    BY <1>0, <1>2 DEF UpdateRead, RemoveRead, AddRead, DropRead, Begin, database, outputs
  <2> QED
    BY <2>1, StillSound DEF TellStages
<1> QED
  BY <1>1, <1>2

(* So does every step of it: it changes a task, then tells so.             *)
LEMMA StepSound ==
  ASSUME TypeOK, None \notin Row, NEW s \in Slots, Sound(s), Step(s)
  PROVE  Sound(s)'
<1>0. /\ pc \in [Slots -> Stages] /\ DOMAIN job = Slots /\ row \in [Tasks -> Row]
      /\ DOMAIN board = Tasks /\ Fits(pc[s], job[s])
  BY DEF TypeOK, SlotsOK
<1>1. CASE CreateEmit(s)
  <2> DEFINE t == job[s].task
  <2>1. /\ pc[s] = "createEmit" /\ pc'[s] = "createLog" /\ UNCHANGED <<live, row>>
        /\ board' = [board EXCEPT ![t] = IF @ = None THEN job[s].snap ELSE @]
    BY <1>0, <1>1 DEF CreateEmit, Continue, ShowCreated, database
  <2>2. t \in Tasks /\ t \in live /\ job[s].snap = row[t] /\ board[t] = None
    BY <1>0, <2>1 DEF Sound, Fits, SnapJob
  <2> HIDE DEF t
  <2>3. board'[t] = row[t] /\ \A x \in Tasks : x # t => board'[x] = board[x]
    BY <1>0, <2>1, <2>2
  <2> QED
    BY <2>1, <2>2, <2>3 DEF Sound, Pending, Db, t
<1>2. CASE UpdateWrite(s)
  <2> DEFINE t == job[s].task
             r == Patched(row[t], job[s].patch, clock)
  <2>1. pc[s] = "updateWrite" /\ job[s] \in UpdateJob /\ t \in Tasks /\ UNCHANGED <<live, board>>
    BY <1>0, <1>2 DEF UpdateWrite, Fits, UpdateStages, UpdateJob, outputs
  <2>2. \A x \in Tasks : board[x] = Db(x)
    BY <2>1 DEF Sound, Pending
  <2>3. CASE t \in live
    <3>1. /\ row' = [row EXCEPT ![t] = r] /\ pc'[s] = "updateEmit" /\ job'[s] = [job[s] EXCEPT !.snap = r]
      BY <1>0, <1>2, <2>3 DEF UpdateWrite, Continue
    <3> HIDE DEF r
    <3>2. job'[s].task = t /\ job'[s].snap = r
      BY <2>1, <3>1 DEF UpdateJob
    <3> HIDE DEF t
    <3>3. board[t] = row[t] /\ row[t] # None
      BY <1>0, <2>1, <2>2, <2>3 DEF Db
    <3>4. row'[t] = r /\ \A x \in Tasks : x # t => Db(x)' = Db(x)
      BY <1>0, <2>1, <3>1 DEF Db
    <3> QED
      BY <2>1, <2>2, <2>3, <3>1, <3>2, <3>3, <3>4 DEF Sound, Pending
  <2>4. CASE t \notin live
    <3>1. UNCHANGED row /\ pc'[s] = "idle"
      BY <1>0, <1>2, <2>4 DEF UpdateWrite, Finish, Continue
    <3> QED
      BY <2>1, <3>1, StillSound DEF TellStages
  <2> QED
    BY <2>3, <2>4
<1>3. CASE UpdateEmit(s)
  <2> DEFINE t == job[s].task
  <2>1. /\ pc[s] = "updateEmit" /\ pc'[s] \in {"updateLog", "updateLogStatus", "updateNotify", "idle"}
        /\ UNCHANGED <<live, row>>
        /\ board' = [board EXCEPT ![t] = IF None \in {@, job[s].snap} THEN @ ELSE job[s].snap]
    BY <1>0, <1>3 DEF UpdateEmit, Continue, ToLog, ToLogStatus, ToNotify, ShowUpdated, database
  <2>2. t \in Tasks /\ t \in live /\ job[s].snap = row[t] /\ board[t] # None /\ row[t] # None
    BY <1>0, <2>1 DEF Sound, Fits, UpdateJob, UpdateStages
  <2> HIDE DEF t
  <2>3. board'[t] = row[t] /\ \A x \in Tasks : x # t => board'[x] = board[x]
    BY <1>0, <2>1, <2>2
  <2> QED
    BY <2>1, <2>2, <2>3 DEF Sound, Pending, Db, t
<1>4. CASE RemoveDelete(s)
  <2> DEFINE t == job[s].task
  <2>1. pc[s] = "removeDelete" /\ t \in Tasks /\ UNCHANGED <<used, row, board>> /\ live \subseteq used
    BY <1>0, <1>4 DEF RemoveDelete, Fits, TaskJob, TypeOK
  <2>2. \A x \in Tasks : board[x] = Db(x)
    BY <2>1 DEF Sound, Pending
  <2>3. CASE t \in live
    <3>1. live' = live \ {t} /\ pc'[s] = "removeEmit" /\ job'[s] = job[s]
      BY <1>0, <1>4, <2>3 DEF RemoveDelete, Continue
    <3>2. \A x \in Tasks : x # t => Db(x)' = Db(x)
      BY <2>1, <3>1 DEF Db
    <3>3. t \in used' /\ t \notin live'
      BY <2>1, <2>3, <3>1
    <3> HIDE DEF t
    <3>4. job'[s].task = t
      BY <3>1 DEF t
    <3> QED
      BY <2>1, <2>2, <3>1, <3>2, <3>3, <3>4 DEF Sound, Pending
  <2>4. CASE t \notin live
    <3>1. UNCHANGED live /\ pc'[s] = "idle"
      BY <1>0, <1>4, <2>4 DEF RemoveDelete, Finish, Continue
    <3> QED
      BY <2>1, <3>1, StillSound DEF TellStages
  <2> QED
    BY <2>3, <2>4
<1>5. CASE RemoveEmit(s)
  <2> DEFINE t == job[s].task
  <2>1. /\ pc[s] = "removeEmit" /\ pc'[s] = "idle" /\ UNCHANGED <<live, row>>
        /\ board' = [board EXCEPT ![t] = None]
    BY <1>0, <1>5 DEF RemoveEmit, Finish, Continue, ShowDeleted, database
  <2>2. t \in Tasks /\ t \notin live
    BY <1>0, <2>1 DEF Sound, Fits, TaskJob
  <2> HIDE DEF t
  <2>3. board'[t] = None /\ \A x \in Tasks : x # t => board'[x] = board[x]
    BY <1>0, <2>1, <2>2
  <2> QED
    BY <2>1, <2>2, <2>3 DEF Sound, Pending, Db, t
<1>6. CASE DepReread(s)
  <2> DEFINE t == job[s].task
  <2>1. /\ pc[s] = "depReread" /\ pc'[s] = "depEmit" /\ UNCHANGED <<live, row, board>>
        /\ job'[s] = [task |-> t, snap |-> Db(t)]
    BY <1>0, <1>6 DEF DepReread, Continue, database, outputs, Db
  <2>2. \A x \in Tasks : board[x] = Db(x)
    BY <2>1 DEF Sound, Pending
  <2> HIDE DEF t
  <2>3. job'[s].task = t /\ job'[s].snap = Db(t)
    BY <2>1
  <2> QED
    BY <2>1, <2>2, <2>3 DEF Sound, Pending, Db
<1>7. CASE DepEmit(s)
  <2> DEFINE t == job[s].task
  <2>1. /\ pc[s] = "depEmit" /\ pc'[s] = "idle" /\ UNCHANGED <<live, row>>
        /\ board' = [board EXCEPT ![t] = IF None \in {@, job[s].snap} THEN @ ELSE job[s].snap]
    BY <1>0, <1>7 DEF DepEmit, Finish, Continue, ShowUpdated, database
  <2>2. board[t] = job[s].snap
    BY <1>0, <2>1 DEF Sound, Pending, Fits, SnapJob, NullJob
  <2>3. \A x \in Tasks : board'[x] = board[x]
    BY <1>0, <2>1, <2>2
  <2> QED
    BY <2>1, <2>3 DEF Sound, Pending, Db
<1>8. CASE \/ CreateLog(s) \/ UpdateBlockers(s) \/ UpdateLog(s) \/ UpdateLogStatus(s) \/ UpdateNotify(s)
           \/ AddVisit(s) \/ AddFind(s) \/ AddInsert(s) \/ DropFind(s) \/ DropDelete(s)
  <2>1. UNCHANGED <<live, row, board>> /\ pc[s] \notin TellStages
    BY <1>8 DEF CreateLog, UpdateBlockers, UpdateLog, UpdateLogStatus, UpdateNotify, AddVisit, AddFind,
                AddInsert, DropFind, DropDelete, database, outputs, TellStages
  <2>2. pc'[s] \notin TellStages
    BY <1>0, <1>8, ZenonT(30) DEF CreateLog, UpdateBlockers, UpdateLog, UpdateLogStatus, UpdateNotify, AddVisit, AddFind,
                AddInsert, DropFind, DropDelete, Continue, Finish, ToLogStatus, ToNotify, TellStages
  <2> QED
    BY <2>1, <2>2, StillSound
<1> QED
  BY <1>1, <1>2, <1>3, <1>4, <1>5, <1>6, <1>7, <1>8 DEF Step

(* Every step keeps the board true to the database.                        *)
LEMMA BusyNext ==
  ASSUME OneServes(Operations), None \notin Row, BusyInv,
         (\E s \in Slots : Arrive(s) \/ Step(s)) \/ Tick \/ UNCHANGED vars
  PROVE  BusyInv'
<1>1. TypeOK'
  BY NextType DEF BusyInv, Next
<1>2. CASE Tick \/ UNCHANGED vars
  <2>1. UNCHANGED <<used, live, row, board, pc, job>>
    BY <1>2 DEF Tick, vars, database, outputs, control
  <2> QED
    BY <1>1, <2>1 DEF BusyInv, Working, OthersIdle, Sound, Pending, Db, Quiet
<1>3. ASSUME NEW s \in Slots, Arrive(s) \/ Step(s) PROVE BusyInv'
  <2>1. /\ OthersIdle(s) /\ OthersIdle(s)' /\ Kinds[s] # {}
        /\ \A q \in Slots : q # s => pc'[q] = pc[q] /\ job'[q] = job[q]
    BY <1>3, OneWorks DEF BusyInv
  <2>2. Sound(s)'
    BY <1>3, <2>1, ArriveSound, StepSound DEF BusyInv
  <2>3. Working'
    BY <2>1 DEF BusyInv, Working
  <2>4. used \subseteq used'
    <3>1. CASE UpdateWrite(s)
      BY <3>1 DEF UpdateWrite
    <3>2. CASE ~UpdateWrite(s)
      BY <1>3, <3>2, RowsStay DEF BusyInv
    <3> QED
      BY <3>1, <3>2
  <2>5. ASSUME NEW q \in Slots, OthersIdle(q)' PROVE Sound(q)'
    <3>1. CASE q = s
      BY <2>2, <3>1
    <3>2. CASE q # s
      BY <2>1, <2>2, <2>5, <3>2, ZenonT(30) DEF OthersIdle, Sound, Pending
    <3> QED
      BY <3>1, <3>2
  <2>6. Quiet' => \A t \in Tasks : board'[t] = Db(t)'
    BY <2>2 DEF Quiet, Sound, Pending
  <2> QED
    BY <1>1, <2>3, <2>4, <2>5, <2>6 DEF BusyInv
<1> QED
  BY <1>2, <1>3

(* At the start the board is the database.                                 *)
LEMMA BusyInit == Init => BusyInv
<1> SUFFICES ASSUME Init PROVE BusyInv
  OBVIOUS
<1>1. TypeOK
  BY InitType
<1>2. \A t \in Tasks : board[t] = Db(t)
  BY DEF Init, Db
<1> QED
  BY <1>1, <1>2 DEF Init, BusyInv, Working, OthersIdle, Sound, Pending, Quiet

----------------------------------------------------------------------------
(* The tab beside it.                                                      *)

Events == [kind : Emits, task : Tasks, row : Row \cup {None}]
Lists  == [Tasks -> Row \cup {None}]

TabOK ==
  /\ open \in Seeded \cup {None}
  /\ list \in Lists
  /\ events \in Seq(Events)
  /\ query.stage = "answered" => query.rows \in Lists
  /\ move \in [stage : {"none", "made", "ok", "error"} \cup Slots, task : Tasks \cup {None},
               body : Patches \cup {None}, before : Lists \cup {None}]
  /\ move.stage # "none" => move.task \in Listed /\ move.body \in Patches /\ move.before \in Lists
  /\ move.stage \in Slots => pc[move.stage] \in UpdateStages /\ job[move.stage].task = move.task

(* Event e changes what is shown of task t.                                *)
Tells(e, t) == e.task = t /\ (e.row # None \/ e.kind = "removeEmit")

(* An event of one of these kinds about t is on its way.                   *)
Told(t, kinds) == \E i \in DOMAIN events : events[i].kind \in kinds /\ Tells(events[i], t)

Updating == {"updateEmit", "depEmit"}

(* The events on their way: they are about tasks that were drawn, what is  *)
(* created was not there before, what is removed is gone, and the last     *)
(* that tells of a task tells what the board has come to show.             *)
QueueSound ==
  /\ \A i \in DOMAIN events, t \in Tasks : Tells(events[i], t) =>
       /\ t \in used
       /\ events[i].kind = "createEmit" => t \notin Seeded
       /\ events[i].kind = "removeEmit" => t \notin live /\ events[i].row = None
       /\ (\A j \in DOMAIN events : j > i => ~Tells(events[j], t)) => board[t] = events[i].row
  /\ \A i, j \in DOMAIN events, t \in Tasks :
       i < j /\ Tells(events[i], t) /\ Tells(events[j], t) =>
         /\ events[j].kind # "createEmit"
         /\ events[i].kind = "removeEmit" => events[j].kind = "removeEmit"
  /\ \A s \in Slots : pc[s] = "createEmit" =>
       \A i \in DOMAIN events : ~Tells(events[i], job[s].task)

(* A list that shows v of task t comes to show what the board or the       *)
(* database has, by the events on their way and those still to be sent:    *)
(* t is removed; or it is updated, and there is a row to update, or none   *)
(* is wanted; or it is created; or it is right already.                    *)
Catches(t, v) ==
  t \in live \/ open = None =>
    \/ Told(t, {"removeEmit"})
    \/ Told(t, Updating) /\ (v # None \/ Told(t, {"createEmit"}) \/ t \notin live)
    \/ ~Told(t, Updating) /\ Told(t, {"createEmit"}) /\ v = None
    \/ ~Told(t, Updating) /\ v \in {board[t], Db(t)}

(* The event that makes up for the guess of the move is still to be sent.  *)
Unsent ==
  \/ move.stage = "made"
  \/ move.stage \in Slots /\ pc[move.stage] \in {"updateBlockers", "updateWrite", "updateEmit"}

(* Until then the task that is moved is listed while it is there.          *)
GuessKept ==
  Unsent /\ move.task \in live =>
    list[move.task] # None /\ (query.stage = "answered" => query.rows[move.task] # None)

(* What is shown, what was fetched and what a roll back would bring catch  *)
(* up, but for what is blurred, overrun or passed.                         *)
ListCatches ==
  ~blurred /\ move.stage # "error" =>
    \A t \in Listed, v \in Row \cup {None} :
      v = list[t] => (t = move.task /\ Unsent) \/ Catches(t, v)
RowsCatch ==
  query.stage = "answered" /\ ~overrun =>
    \A t \in Listed, v \in Row \cup {None} : v = query.rows[t] => Catches(t, v)
BeforeCatches ==
  move.stage # "none" /\ ~passed /\ ~blurred =>
    \A t \in Listed, v \in Row \cup {None} : v = move.before[t] => Catches(t, v)

(* The panel shows one task, and only tasks that were drawn are shown.     *)
OneShown ==
  \A t \in Tasks : t \notin Listed \cap used =>
    /\ list[t] = None
    /\ query.stage = "answered" => query.rows[t] = None
    /\ move.stage # "none" => move.before[t] = None /\ move.task # t

TabInv ==
  /\ BusyInv /\ TabOK /\ QueueSound /\ GuessKept
  /\ ListCatches /\ RowsCatch /\ BeforeCatches /\ OneShown

----------------------------------------------------------------------------
(* Sending and hearing.                                                    *)

(* What is told once an event is sent.                                     *)
LEMMA SentTold ==
  ASSUME events \in Seq(Events), NEW e \in Events, events' = Append(events, e)
  PROVE  /\ events' \in Seq(Events) /\ Len(events) \in Nat
         /\ DOMAIN events = 1..Len(events) /\ DOMAIN events' = 1..(Len(events) + 1)
         /\ \A i \in 1..Len(events) : events'[i] = events[i]
         /\ events'[Len(events) + 1] = e
         /\ \A t, kinds : Told(t, kinds)' <=> Told(t, kinds) \/ (Tells(e, t) /\ e.kind \in kinds)
<1>1. /\ events' \in Seq(Events) /\ Len(events) \in Nat /\ Len(events') = Len(events) + 1
      /\ \A i \in 1..Len(events) : events'[i] = events[i]
      /\ events'[Len(events) + 1] = e
  BY AppendProperties, LenProperties
<1>2. DOMAIN events = 1..Len(events) /\ DOMAIN events' = 1..(Len(events) + 1)
  BY <1>1, LenProperties
<1>3. \A i \in DOMAIN events' : i \in DOMAIN events \/ i = Len(events) + 1
  BY <1>1, <1>2
<1>4. DOMAIN events \subseteq DOMAIN events' /\ Len(events) + 1 \in DOMAIN events'
  BY <1>1, <1>2
<1>5. ASSUME NEW t, NEW kinds
      PROVE  Told(t, kinds)' <=> Told(t, kinds) \/ (Tells(e, t) /\ e.kind \in kinds)
  BY <1>1, <1>2, <1>3, <1>4 DEF Told, Tells
<1> QED
  BY <1>1, <1>2, <1>5

(* What is told once an event is heard.                                    *)
LEMMA HeardTold ==
  ASSUME events \in Seq(Events), events # <<>>, events' = Tail(events)
  PROVE  /\ events' \in Seq(Events) /\ Head(events) \in Events /\ Head(events) = events[1]
         /\ 1 \in DOMAIN events
         /\ \A i \in DOMAIN events' : i \in Nat /\ i + 1 \in DOMAIN events /\ events'[i] = events[i + 1]
         /\ \A i \in DOMAIN events : i # 1 => i \in Nat /\ i - 1 \in DOMAIN events' /\ events'[i - 1] = events[i]
         /\ \A t, kinds : Told(t, kinds) <=>
              Told(t, kinds)' \/ (Tells(Head(events), t) /\ Head(events).kind \in kinds)
<1>1. /\ Len(events) \in Nat \ {0} /\ events' \in Seq(Events) /\ Head(events) \in Events
      /\ Len(events') = Len(events) - 1
      /\ \A i \in 1..Len(events') : events'[i] = events[i + 1]
      /\ Head(events) = events[1]
  BY HeadTailProperties, EmptySeq
<1>2. DOMAIN events = 1..Len(events) /\ DOMAIN events' = 1..(Len(events) - 1)
  BY <1>1, LenProperties
<1>3. /\ 1 \in DOMAIN events
      /\ \A i \in DOMAIN events' : i \in Nat /\ i + 1 \in DOMAIN events /\ events'[i] = events[i + 1]
      /\ \A i \in DOMAIN events : i # 1 => i \in Nat /\ i - 1 \in DOMAIN events'
  BY <1>1, <1>2
<1>4. \A i \in DOMAIN events : i # 1 => events'[i - 1] = events[i]
  BY <1>1, <1>2
<1>5. ASSUME NEW t, NEW kinds
      PROVE  Told(t, kinds) <=> Told(t, kinds)' \/ (Tells(Head(events), t) /\ Head(events).kind \in kinds)
  <2>1. Told(t, kinds)' => Told(t, kinds)
    BY <1>3 DEF Told, Tells
  <2>2. Tells(Head(events), t) /\ Head(events).kind \in kinds => Told(t, kinds)
    BY <1>1, <1>3 DEF Told
  <2>3. ASSUME NEW i \in DOMAIN events, events[i].kind \in kinds, Tells(events[i], t)
        PROVE  Told(t, kinds)' \/ (Tells(Head(events), t) /\ Head(events).kind \in kinds)
    <3>1. CASE i = 1
      BY <1>1, <2>3, <3>1
    <3>2. CASE i # 1
      BY <1>3, <1>4, <2>3, <3>2 DEF Told, Tells
    <3> QED
      BY <3>1, <3>2
  <2> QED
    BY <2>1, <2>2, <2>3 DEF Told
<1> QED
  BY <1>1, <1>3, <1>4, <1>5

(* A broadcast: the board shows what it tells, and that is what the        *)
(* database has.                                                           *)
LEMMA Emission ==
  ASSUME BusyInv, None \notin Row, NEW s \in Slots, OthersIdle(s), Step(s), pc[s] \in Emits
  PROVE  /\ Event(s) \in Events /\ Event(s).kind = pc[s] /\ Event(s).task = job[s].task
         /\ job[s].task \in Tasks /\ UNCHANGED <<used, live, row>> /\ pc'[s] # "createEmit"
         /\ \A t \in Tasks : ~Tells(Event(s), t) => board'[t] = board[t]
         /\ Tells(Event(s), job[s].task) => board'[job[s].task] = Event(s).row /\ job[s].task \in used
         /\ pc[s] = "createEmit" =>
              /\ job[s].task \in live \ Seeded /\ board[job[s].task] = None
              /\ Event(s).row = row[job[s].task]
         /\ pc[s] \in Updating /\ Event(s).row # None =>
              /\ job[s].task \in live /\ board[job[s].task] # None
              /\ Event(s).row = row[job[s].task]
         /\ pc[s] = "removeEmit" => job[s].task \notin live /\ Event(s).row = None
<1> DEFINE t == job[s].task
           e == Event(s)
<1>0. /\ Sound(s) /\ Fits(pc[s], job[s]) /\ row \in [Tasks -> Row] /\ DOMAIN board = Tasks
      /\ pc \in [Slots -> Stages] /\ live \subseteq used
  BY DEF BusyInv, TypeOK, SlotsOK
<1>1. CASE pc[s] = "createEmit"
  <2>1. CreateEmit(s)
    BY <1>1 DEF Step, CreateEmit, CreateLog, UpdateBlockers, UpdateWrite, UpdateEmit,
           UpdateLog, UpdateLogStatus, UpdateNotify, RemoveDelete, RemoveEmit, AddVisit,
           AddFind, AddInsert, DropFind, DropDelete, DepReread, DepEmit
  <2>2. /\ UNCHANGED <<used, live, row>> /\ pc'[s] = "createLog"
        /\ board' = [board EXCEPT ![t] = IF @ = None THEN job[s].snap ELSE @]
    BY <1>0, <2>1 DEF CreateEmit, Continue, ShowCreated, database
  <2>3. /\ t \in Tasks /\ t \in live \ Seeded /\ job[s].snap = row[t] /\ board[t] = None
        /\ e = [kind |-> "createEmit", task |-> t, row |-> row[t]] /\ row[t] \in Row
    BY <1>0, <1>1 DEF Sound, Fits, SnapJob, Event
  <2> HIDE DEF t, e
  <2>4. board'[t] = row[t] /\ \A x \in Tasks : x # t => board'[x] = board[x]
    BY <1>0, <2>2, <2>3
  <2> QED
    BY <1>0, <1>1, <2>2, <2>3, <2>4 DEF Events, Emits, Tells, Updating, t, e
<1>2. CASE pc[s] = "updateEmit"
  <2>1. UpdateEmit(s)
    BY <1>2 DEF Step, CreateEmit, CreateLog, UpdateBlockers, UpdateWrite, UpdateEmit,
           UpdateLog, UpdateLogStatus, UpdateNotify, RemoveDelete, RemoveEmit, AddVisit,
           AddFind, AddInsert, DropFind, DropDelete, DepReread, DepEmit
  <2>2. /\ UNCHANGED <<used, live, row>>
        /\ pc'[s] \in {"updateLog", "updateLogStatus", "updateNotify", "idle"}
        /\ board' = [board EXCEPT ![t] = IF None \in {@, job[s].snap} THEN @ ELSE job[s].snap]
    BY <1>0, <2>1 DEF UpdateEmit, Continue, ShowUpdated, database, ToLog, ToLogStatus, ToNotify
  <2>3. /\ t \in Tasks /\ t \in live /\ job[s].snap = row[t] /\ board[t] # None
        /\ e = [kind |-> "updateEmit", task |-> t, row |-> row[t]] /\ row[t] \in Row
    BY <1>0, <1>2 DEF Sound, Fits, UpdateJob, UpdateStages, Event
  <2> HIDE DEF t, e
  <2>4. board'[t] = row[t] /\ \A x \in Tasks : x # t => board'[x] = board[x]
    BY <1>0, <2>2, <2>3
  <2> QED
    BY <1>0, <1>2, <2>2, <2>3, <2>4 DEF Events, Emits, Tells, Updating, t, e
<1>3. CASE pc[s] = "removeEmit"
  <2>1. RemoveEmit(s)
    BY <1>3 DEF Step, CreateEmit, CreateLog, UpdateBlockers, UpdateWrite, UpdateEmit,
           UpdateLog, UpdateLogStatus, UpdateNotify, RemoveDelete, RemoveEmit, AddVisit,
           AddFind, AddInsert, DropFind, DropDelete, DepReread, DepEmit
  <2>2. /\ UNCHANGED <<used, live, row>> /\ pc'[s] = "idle"
        /\ board' = [board EXCEPT ![t] = None]
    BY <1>0, <2>1 DEF RemoveEmit, Finish, Continue, ShowDeleted, database
  <2>3. /\ t \in Tasks /\ t \in used \ live
        /\ e = [kind |-> "removeEmit", task |-> t, row |-> None]
    BY <1>0, <1>3 DEF Sound, Fits, TaskJob, Event
  <2> HIDE DEF t, e
  <2>4. board'[t] = None /\ \A x \in Tasks : x # t => board'[x] = board[x]
    BY <1>0, <2>2, <2>3
  <2> QED
    BY <1>0, <1>3, <2>2, <2>3, <2>4 DEF Events, Emits, Tells, Updating, t, e
<1>4. CASE pc[s] = "depEmit"
  <2>1. DepEmit(s)
    BY <1>4 DEF Step, CreateEmit, CreateLog, UpdateBlockers, UpdateWrite, UpdateEmit,
           UpdateLog, UpdateLogStatus, UpdateNotify, RemoveDelete, RemoveEmit, AddVisit,
           AddFind, AddInsert, DropFind, DropDelete, DepReread, DepEmit
  <2>2. /\ UNCHANGED <<used, live, row>> /\ pc'[s] = "idle"
        /\ board' = [board EXCEPT ![t] = IF None \in {@, job[s].snap} THEN @ ELSE job[s].snap]
    BY <1>0, <2>1 DEF DepEmit, Finish, Continue, ShowUpdated, database
  <2>3. /\ t \in Tasks /\ job[s].snap = Db(t) /\ board[t] = Db(t)
        /\ e = [kind |-> "depEmit", task |-> t, row |-> Db(t)] /\ Db(t) \in Row \cup {None}
    BY <1>0, <1>4 DEF Sound, Pending, Fits, SnapJob, NullJob, Event, Db
  <2> HIDE DEF t, e
  <2>4. \A x \in Tasks : board'[x] = board[x]
    BY <1>0, <2>2, <2>3
  <2> QED
    BY <1>0, <1>4, <2>2, <2>3, <2>4 DEF Events, Emits, Tells, Updating, Db, t, e
<1> QED
  BY <1>1, <1>2, <1>3, <1>4 DEF Emits

(* Any other step of a request starts with a board that is the database.   *)
LEMMA Silence ==
  ASSUME BusyInv, NEW s \in Slots, OthersIdle(s), Arrive(s) \/ (Step(s) /\ pc[s] \notin Emits)
  PROVE  /\ \A t \in Tasks : board[t] = Db(t)
         /\ UNCHANGED board /\ used \subseteq used'
         /\ \A t \in Tasks : t \in live' => t \in live \/ t \notin used
         /\ pc'[s] = "createEmit" => job'[s].task \in Tasks \ used
<1>0. /\ Sound(s) /\ pc \in [Slots -> Stages] /\ DOMAIN job = Slots
  BY DEF BusyInv, TypeOK, SlotsOK
<1>1. CASE Arrive(s)
  <2>1. PICK u \in Users :
          \/ \E t \in Tasks, p \in Patches : CreateInsert(s, u, t, p)
          \/ \E t \in Tasks, p \in Patches : UpdateRead(s, u, t, p)
          \/ \E t \in Tasks : RemoveRead(s, u, t)
          \/ \E a, b \in Tasks : AddRead(s, u, a, b)
          \/ \E a, b \in Tasks : DropRead(s, u, a, b)
    BY <1>1 DEF Arrive
  <2>2. CASE \E t \in Tasks, p \in Patches : CreateInsert(s, u, t, p)
    <3>1. PICK t \in Tasks, p \in Patches : CreateInsert(s, u, t, p)
      BY <2>2
    <3>2. /\ pc[s] = "idle" /\ job'[s] = [task |-> t, snap |-> NewRow(u, p)] /\ t \notin used
          /\ live' = live \cup {t} /\ used' = used \cup {t} /\ UNCHANGED board
      BY <1>0, <3>1 DEF CreateInsert, Begin, outputs
    <3> QED
      BY <1>0, <3>2 DEF Sound, Pending
  <2>3. CASE \/ \E t \in Tasks, p \in Patches : UpdateRead(s, u, t, p)
             \/ \E t \in Tasks : RemoveRead(s, u, t)
             \/ \E a, b \in Tasks : AddRead(s, u, a, b)
             \/ \E a, b \in Tasks : DropRead(s, u, a, b)
    <3>1. /\ UNCHANGED <<used, live, board>> /\ pc[s] = "idle"
          /\ pc'[s] \in {"updateBlockers", "updateWrite", "removeDelete", "addVisit", "dropFind"}
      BY <1>0, <2>3 DEF UpdateRead, RemoveRead, AddRead, DropRead, Begin, database, outputs
    <3> QED
      BY <1>0, <3>1 DEF Sound, Pending
  <2> QED
    BY <2>1, <2>2, <2>3
<1>2. CASE Step(s) /\ pc[s] \notin Emits
  <2>1. \A t \in Tasks : board[t] = Db(t)
    BY <1>0, <1>2 DEF Sound, Pending, Emits
  <2>2. CASE \/ CreateEmit(s) \/ UpdateEmit(s) \/ RemoveEmit(s) \/ DepEmit(s)
    BY <1>2, <2>2 DEF CreateEmit, UpdateEmit, RemoveEmit, DepEmit, Emits
  <2>3. CASE UpdateWrite(s) \/ RemoveDelete(s) \/ DepReread(s) \/ AddInsert(s) \/ DropDelete(s)
    <3>1. UNCHANGED <<used, board>> /\ live' \subseteq live
      BY <2>3 DEF UpdateWrite, RemoveDelete, DepReread, AddInsert, DropDelete, database, outputs
    <3>2. pc'[s] # "createEmit"
      BY <1>0, <2>3 DEF UpdateWrite, RemoveDelete, DepReread, AddInsert, DropDelete, Finish, Continue
    <3> QED
      BY <2>1, <3>1, <3>2
  <2>4. CASE \/ CreateLog(s) \/ UpdateBlockers(s) \/ UpdateLog(s) \/ UpdateLogStatus(s) \/ UpdateNotify(s)
             \/ AddVisit(s) \/ AddFind(s) \/ DropFind(s)
    <3>1. UNCHANGED <<used, live, board>>
      BY <2>4 DEF CreateLog, UpdateBlockers, UpdateLog, UpdateLogStatus, UpdateNotify, AddVisit, AddFind,
                DropFind, database, outputs
    <3>2. pc'[s] # "createEmit"
      BY <1>0, <2>4, ZenonT(30) DEF CreateLog, UpdateBlockers, UpdateLog, UpdateLogStatus, UpdateNotify, AddVisit,
                AddFind, DropFind, Continue, Finish, ToLogStatus, ToNotify
    <3> QED
      BY <2>1, <3>1, <3>2
  <2> QED
    BY <1>2, <2>2, <2>3, <2>4 DEF Step
<1> QED
  BY <1>1, <1>2

(* A step that tells nothing leaves every list catching up.                *)
LEMMA SilentCatch ==
  ASSUME BusyInv, QueueSound, NEW s \in Slots, OthersIdle(s), open \in Seeded \cup {None},
         Arrive(s) \/ (Step(s) /\ pc[s] \notin Emits), UNCHANGED <<open, events>>,
         NEW t \in Listed, t \in Tasks, NEW v, Catches(t, v)
  PROVE  Catches(t, v)'
<1>1. /\ board[t] = Db(t) /\ board'[t] = board[t]
      /\ t \in live' => t \in live \/ t \notin used
  BY Silence
<1>2. t \in used \/ open = None
  BY DEF Listed, BusyInv
<1>3. \A kinds : Told(t, kinds)' <=> Told(t, kinds)
  BY DEF Told, Tells
<1>4. Told(t, Updating) => t \in used
  BY DEF Told, QueueSound
<1> QED
  BY <1>1, <1>2, <1>3, <1>4 DEF Catches

(* A broadcast about a task: lists go on catching up with it, and one that *)
(* has the task catches up with what is told of it.                        *)
LEMMA SentCatch ==
  ASSUME BusyInv, None \notin Row, TabOK, QueueSound, NEW s \in Slots, OthersIdle(s),
         Step(s), pc[s] \in Emits, events' = Append(events, Event(s)), UNCHANGED open,
         NEW t \in Tasks, NEW v \in Row \cup {None},
         Catches(t, v) \/ (pc[s] = "updateEmit" /\ job[s].task = t /\ v # None)
  PROVE  Catches(t, v)'
<1> DEFINE e == Event(s)
<1>1. /\ e \in Events /\ e.kind = pc[s] /\ e.task = job[s].task
      /\ UNCHANGED <<used, live, row>>
      /\ \A x \in Tasks : ~Tells(e, x) => board'[x] = board[x]
      /\ Tells(e, job[s].task) => board'[job[s].task] = e.row /\ job[s].task \in used
      /\ pc[s] = "createEmit" =>
           /\ job[s].task \in live \ Seeded /\ board[job[s].task] = None
           /\ e.row = row[job[s].task]
      /\ pc[s] \in Updating /\ e.row # None =>
           /\ job[s].task \in live /\ board[job[s].task] # None
           /\ e.row = row[job[s].task]
      /\ pc[s] = "removeEmit" => job[s].task \notin live /\ e.row = None
  BY Emission
<1>2. \A kinds : Told(t, kinds)' <=> Told(t, kinds) \/ (Tells(e, t) /\ e.kind \in kinds)
  BY <1>1, SentTold DEF TabOK
<1>0. row \in [Tasks -> Row]
  BY DEF BusyInv, TypeOK
<1>3. t \in live => ~Told(t, {"removeEmit"})
  BY DEF Told, QueueSound
<1>4. Db(t)' = Db(t)
  BY <1>1 DEF Db
<1>5. (t \in live /\ pc[s] = "updateEmit") /\ job[s].task = t => Tells(e, t)
  BY <1>0, <1>1 DEF Tells, BusyInv, Sound, Event
<1>6. pc[s] = "updateEmit" => job[s].task \in live
  BY DEF BusyInv, Sound
<1> HIDE DEF e
<1>7. CASE ~Tells(e, t)
  BY <1>1, <1>2, <1>4, <1>5, <1>6, <1>7 DEF Catches
<1>8. CASE Tells(e, t)
  <2>0. job[s].task = t
    BY <1>1, <1>8 DEF Tells
  <2>1. CASE pc[s] = "removeEmit"
    BY <1>1, <1>2, <1>8, <2>1 DEF Catches
  <2>2. CASE pc[s] \in Updating
    <3>1. t \in live /\ board[t] # None /\ row[t] # None /\ Db(t) = row[t]
      BY <1>0, <1>1, <1>8, <2>0, <2>2 DEF Tells, Updating, Db
    <3>2. Told(t, Updating)' /\ (Told(t, {"createEmit"}) => Told(t, {"createEmit"})')
      BY <1>1, <1>2, <1>8, <2>2
    <3>3. v # None \/ Told(t, {"createEmit"})
      BY <1>3, <3>1 DEF Catches
    <3> QED
      BY <3>2, <3>3 DEF Catches
  <2>3. CASE pc[s] = "createEmit"
    <3>1. \A kinds : ~Told(t, kinds)
      BY <2>0, <2>3 DEF Told, QueueSound
    <3>2. t \in live /\ board[t] = None /\ e.row = row[t] /\ Db(t) = row[t] /\ board'[t] = row[t]
      BY <1>1, <1>8, <2>0, <2>3 DEF Db
    <3>3. v \in {None, row[t]}
      BY <2>3, <3>1, <3>2 DEF Catches
    <3>4. Told(t, {"createEmit"})' /\ ~Told(t, Updating)'
      BY <1>1, <1>2, <1>8, <2>3, <3>1 DEF Updating
    <3> QED
      BY <1>4, <3>2, <3>3, <3>4 DEF Catches
  <2> QED
    BY <2>1, <2>2, <2>3 DEF Emits, Updating
<1> QED
  BY <1>7, <1>8

(* Hearing an event: what is shown goes on catching up.                    *)
LEMMA HeardCatch ==
  ASSUME BusyInv, None \notin Row, TabOK, QueueSound, Hear,
         NEW t \in Listed, t \in Tasks, Catches(t, list[t])
  PROVE  \A w : w = list'[t] => Catches(t, w)'
<1> DEFINE e == Head(events)
<1>1. /\ e \in Events /\ e = events[1] /\ 1 \in DOMAIN events
      /\ \A i \in DOMAIN events' : i \in Nat /\ i + 1 \in DOMAIN events /\ events'[i] = events[i + 1]
      /\ \A i \in DOMAIN events : i # 1 => i \in Nat /\ i - 1 \in DOMAIN events' /\ events'[i - 1] = events[i]
      /\ \A x, kinds : Told(x, kinds) <=> Told(x, kinds)' \/ (Tells(e, x) /\ e.kind \in kinds)
  BY HeardTold DEF Hear, TabOK
<1>2. /\ UNCHANGED <<live, row, board, open>> /\ list \in Lists
      /\ list' = [list EXCEPT ![e.task] = Shown(e)]
  BY DEF Hear, vars, database, outputs, TabOK
<1>3. Db(t)' = Db(t)
  BY <1>2 DEF Db
<1>4. list'[t] = IF e.task = t THEN Shown(e) ELSE list[t]
  BY <1>1, <1>2 DEF Lists, Events
<1> HIDE DEF e
<1>5. CASE ~Tells(e, t)
  <2>1. list'[t] = list[t]
    <3>1. CASE e.task # t
      BY <1>4, <3>1
    <3>2. CASE e.task = t
      <4>1. e.row = None /\ e.kind # "removeEmit" /\ e.kind \in Emits
        BY <1>1, <1>5, <3>2 DEF Tells, Events
      <4> QED
        BY <1>4, <3>2, <4>1 DEF Shown, Emits
    <3> QED
      BY <3>1, <3>2
  <2>2. \A kinds : Told(t, kinds)' <=> Told(t, kinds)
    BY <1>1, <1>5
  <2> QED
    BY <1>2, <1>3, <2>1, <2>2 DEF Catches
<1>6. CASE Tells(e, t)
  <2>0. e.task = t /\ e.row \in Row \cup {None} /\ e.kind \in Emits
    BY <1>1, <1>6 DEF Tells, Events
  <2> DEFINE Nothing == \A i \in DOMAIN events' : ~Tells(events'[i], t)
  <2>1. ASSUME NEW i \in DOMAIN events'
        PROVE  /\ i + 1 \in DOMAIN events /\ events'[i] = events[i + 1] /\ 1 < i + 1
               /\ events'[i].kind \in Emits
    <3>1. i \in Nat /\ i + 1 \in DOMAIN events /\ events'[i] = events[i + 1]
      BY <1>1
    <3>2. events' \in Seq(Events)
      BY HeadTailProperties DEF TabOK, Hear
    <3>3. DOMAIN events' = 1..Len(events') /\ events'[i] \in Events
      BY <3>2, LenProperties
    <3> QED
      BY <3>1, <3>3 DEF Events
  <2>2. Nothing => board[t] = e.row
    <3>1. ASSUME Nothing, NEW j \in DOMAIN events, j > 1, Tells(events[j], t)
          PROVE  FALSE
      BY <1>1, <3>1
    <3> QED
      BY <1>1, <1>6, <3>1 DEF QueueSound
  <2>3. \A i \in DOMAIN events' : Tells(events'[i], t) => events'[i].kind # "createEmit"
    BY <1>1, <1>6, <2>1 DEF QueueSound
  <2>4. e.kind = "removeEmit" => \A i \in DOMAIN events' : Tells(events'[i], t) => events'[i].kind = "removeEmit"
    BY <1>1, <1>6, <2>1 DEF QueueSound
  <2>5. ~Told(t, {"createEmit"})' /\ (Nothing \/ Told(t, {"removeEmit"})' \/ Told(t, Updating)')
    BY <2>1, <2>3 DEF Told, Tells, Updating, Emits
  <2>6. e.kind = "removeEmit" => Nothing \/ Told(t, {"removeEmit"})'
    BY <2>4 DEF Told, Tells
  <2>7. Nothing => ~Told(t, Updating)'
    BY DEF Told, Tells
  <2>8. e.kind = "removeEmit" => t \notin live /\ e.row = None
    BY <1>1, <1>6 DEF QueueSound
  <2> HIDE DEF Nothing
  <2>9. CASE Told(t, {"removeEmit"})'
    BY <2>9 DEF Catches
  <2>10. CASE e.kind = "removeEmit" /\ Nothing
    <3>1. open = None => list'[t] = board[t]
      BY <1>4, <2>0, <2>2, <2>8, <2>10 DEF Shown
    <3> QED
      BY <1>2, <2>7, <2>8, <2>10, <3>1 DEF Catches
  <2>11. CASE e.kind \in Updating /\ ~Told(t, {"removeEmit"})'
    <3>1. Told(t, Updating) /\ ~Told(t, {"removeEmit"}) /\ ~Told(t, {"createEmit"})
      BY <1>1, <1>6, <2>5, <2>11 DEF Updating
    <3>2. e.row # None
      BY <1>6, <2>11 DEF Tells, Updating
    <3>3. list'[t] = IF list[t] = None THEN None ELSE e.row
      BY <1>4, <2>0, <2>11, <3>2 DEF Shown, Updating
    <3>4. t \in live \/ open = None => list[t] # None \/ t \notin live
      BY <3>1 DEF Catches
    <3>5. t \notin live => Db(t) = None
      BY DEF Db
    <3> QED
      BY <1>2, <1>3, <2>2, <2>5, <2>7, <2>11, <3>2, <3>3, <3>4, <3>5 DEF Catches
  <2>12. CASE e.kind = "createEmit" /\ ~Told(t, {"removeEmit"})'
    <3>1. t \notin Seeded
      BY <1>1, <1>6, <2>12 DEF QueueSound
    <3>2. open = None
      BY <3>1 DEF TabOK, Listed
    <3>3. list'[t] = IF list[t] = None THEN e.row ELSE list[t]
      BY <1>4, <2>0, <2>12, <3>2 DEF Shown
    <3>4. list'[t] # None
      BY <1>6, <2>12, <3>3 DEF Tells
    <3>5. ~Told(t, {"removeEmit"}) /\ (Told(t, Updating) <=> Told(t, Updating)')
      BY <1>1, <2>12 DEF Updating
    <3>6. CASE Told(t, Updating)'
      BY <3>4, <3>6 DEF Catches
    <3>7. CASE ~Told(t, Updating)'
      <4>1. board[t] = e.row
        BY <2>2, <2>5, <2>12, <3>7
      <4>2. list[t] = None \/ list[t] \in {board[t], Db(t)}
        BY <3>2, <3>5, <3>7 DEF Catches
      <4> QED
        BY <1>2, <1>3, <3>3, <3>7, <4>1, <4>2 DEF Catches
    <3> QED
      BY <3>6, <3>7
  <2> QED
    BY <2>0, <2>6, <2>9, <2>10, <2>11, <2>12 DEF Emits, Updating
<1> QED
  BY <1>5, <1>6

----------------------------------------------------------------------------
(* The events on their way stay sound.                                     *)

(* A step that tells nothing leaves them sound.                            *)
LEMMA QueueSilent ==
  ASSUME BusyInv, QueueSound, NEW s \in Slots, OthersIdle(s)', OthersIdle(s),
         Arrive(s) \/ (Step(s) /\ pc[s] \notin Emits), UNCHANGED events
  PROVE  QueueSound'
<1>1. /\ UNCHANGED board /\ used \subseteq used'
      /\ \A t \in Tasks : t \in live' => t \in live \/ t \notin used
      /\ pc'[s] = "createEmit" => job'[s].task \in Tasks \ used
  BY Silence
<1>2. \A q \in Slots : pc'[q] = "createEmit" => q = s
  BY DEF OthersIdle
<1>3. ASSUME pc'[s] = "createEmit", NEW i \in DOMAIN events' PROVE ~Tells(events'[i], job'[s].task)
  BY <1>1, <1>3 DEF QueueSound
<1> QED
  BY <1>1, <1>2, <1>3 DEF QueueSound, Tells

(* So does the event of a broadcast.                                       *)
LEMMA QueueSent ==
  ASSUME BusyInv, None \notin Row, TabOK, QueueSound, NEW s \in Slots, OthersIdle(s), OthersIdle(s)',
         Step(s), pc[s] \in Emits, events' = Append(events, Event(s))
  PROVE  QueueSound'
<1> DEFINE e == Event(s)
           n == Len(events) + 1
<1>1. /\ e \in Events /\ e.kind = pc[s] /\ e.task = job[s].task /\ UNCHANGED <<used, live>>
      /\ pc'[s] # "createEmit"
      /\ \A x \in Tasks : ~Tells(e, x) => board'[x] = board[x]
      /\ Tells(e, job[s].task) => board'[job[s].task] = e.row /\ job[s].task \in used
      /\ pc[s] = "createEmit" => job[s].task \in live \ Seeded
      /\ pc[s] \in Updating /\ e.row # None => job[s].task \in live
      /\ pc[s] = "removeEmit" => job[s].task \notin live /\ e.row = None
  BY Emission
<1>2. /\ Len(events) \in Nat /\ DOMAIN events = 1..Len(events) /\ DOMAIN events' = 1..n
      /\ \A i \in 1..Len(events) : events'[i] = events[i]
      /\ events'[n] = e
  BY <1>1, SentTold DEF TabOK
<1> HIDE DEF e
<1>3. /\ DOMAIN events \subseteq DOMAIN events' /\ n \in DOMAIN events' /\ n \notin DOMAIN events
      /\ \A i \in DOMAIN events : i < n /\ events'[i] = events[i]
      /\ \A i \in DOMAIN events' : i \in DOMAIN events \/ i = n
      /\ \A i \in DOMAIN events' : ~(i > n)
  BY <1>2
<1> HIDE DEF n
<1>4. ASSUME NEW i \in DOMAIN events', NEW t \in Tasks, Tells(events'[i], t)
      PROVE  /\ t \in used'
             /\ events'[i].kind = "createEmit" => t \notin Seeded
             /\ events'[i].kind = "removeEmit" => t \notin live' /\ events'[i].row = None
             /\ (\A j \in DOMAIN events' : j > i => ~Tells(events'[j], t)) => board'[t] = events'[i].row
  <2>1. CASE i = n
    <3>1. t = job[s].task /\ Tells(e, t) /\ events'[i] = e
      BY <1>1, <1>2, <1>4, <2>1 DEF Tells
    <3> QED
      BY <1>1, <3>1
  <2>2. CASE i \in DOMAIN events
    <3>1. events'[i] = events[i] /\ Tells(events[i], t)
      BY <1>3, <1>4, <2>2
    <3>2. /\ t \in used
          /\ events[i].kind = "createEmit" => t \notin Seeded
          /\ events[i].kind = "removeEmit" => t \notin live /\ events[i].row = None
          /\ (\A j \in DOMAIN events : j > i => ~Tells(events[j], t)) => board[t] = events[i].row
      BY <2>2, <3>1 DEF QueueSound
    <3>3. ASSUME \A j \in DOMAIN events' : j > i => ~Tells(events'[j], t)
          PROVE  board'[t] = events'[i].row
      <4>1. ~Tells(e, t)
        BY <1>2, <1>3, <2>2, <3>3
      <4>2. \A j \in DOMAIN events : j > i => ~Tells(events[j], t)
        BY <1>3, <3>3
      <4> QED
        BY <1>1, <3>1, <3>2, <4>1, <4>2
    <3> QED
      BY <1>1, <3>1, <3>2, <3>3
  <2> QED
    BY <1>3, <2>1, <2>2
<1>5. ASSUME NEW i \in DOMAIN events', NEW j \in DOMAIN events', NEW t \in Tasks, i < j,
             Tells(events'[i], t), Tells(events'[j], t)
      PROVE  /\ events'[j].kind # "createEmit"
             /\ events'[i].kind = "removeEmit" => events'[j].kind = "removeEmit"
  <2>0. i \in DOMAIN events /\ events'[i] = events[i]
    BY <1>2, <1>3, <1>5 DEF n
  <2>1. CASE j = n
    <3>1. t = job[s].task /\ Tells(e, t) /\ events'[j] = e
      BY <1>1, <1>2, <1>5, <2>1 DEF Tells
    <3>2. pc[s] # "createEmit"
      BY <1>5, <2>0, <3>1 DEF QueueSound
    <3>3. events[i].kind = "removeEmit" => t \notin live
      BY <1>5, <2>0 DEF QueueSound
    <3>4. e.kind \in Emits
      BY <1>1 DEF Events
    <3> QED
      BY <1>1, <2>0, <3>1, <3>2, <3>3, <3>4 DEF Emits, Updating, Tells
  <2>2. CASE j \in DOMAIN events
    BY <1>3, <1>5, <2>0, <2>2 DEF QueueSound
  <2> QED
    BY <1>3, <2>1, <2>2
<1>6. \A q \in Slots : pc'[q] # "createEmit"
  BY <1>1 DEF OthersIdle
<1> QED
  BY <1>4, <1>5, <1>6 DEF QueueSound

(* And the event that is heard.                                            *)
LEMMA QueueHeard ==
  ASSUME TabOK, QueueSound, Hear
  PROVE  QueueSound'
<1>1. /\ 1 \in DOMAIN events
      /\ \A i \in DOMAIN events' : i \in Nat /\ i + 1 \in DOMAIN events /\ events'[i] = events[i + 1]
      /\ \A i \in DOMAIN events : i # 1 => i \in Nat /\ i - 1 \in DOMAIN events' /\ events'[i - 1] = events[i]
  BY HeardTold DEF Hear, TabOK
<1>2. UNCHANGED <<used, live, board, pc, job>>
  BY DEF Hear, vars, database, outputs, control
<1>3. ASSUME NEW i \in DOMAIN events', NEW t \in Tasks, Tells(events'[i], t)
      PROVE  /\ t \in used'
             /\ events'[i].kind = "createEmit" => t \notin Seeded
             /\ events'[i].kind = "removeEmit" => t \notin live' /\ events'[i].row = None
             /\ (\A j \in DOMAIN events' : j > i => ~Tells(events'[j], t)) => board'[t] = events'[i].row
  <2>1. i \in Nat /\ i + 1 \in DOMAIN events /\ events'[i] = events[i + 1] /\ Tells(events[i + 1], t)
    BY <1>1, <1>3
  <2>2. ASSUME \A j \in DOMAIN events' : j > i => ~Tells(events'[j], t)
        PROVE  \A j \in DOMAIN events : j > i + 1 => ~Tells(events[j], t)
    <3> TAKE j \in DOMAIN events
    <3> HAVE j > i + 1
    <3>0. i \in DOMAIN events' /\ 1 <= i
      <4>1. events' \in Seq(Events)
        BY HeadTailProperties DEF TabOK, Hear
      <4> QED
        BY <4>1, LenProperties
    <3>1. j - 1 \in DOMAIN events' /\ events'[j - 1] = events[j] /\ j - 1 > i
      BY <1>1, <2>1, <3>0
    <3> QED
      BY <2>2, <3>1
  <2> QED
    BY <1>2, <2>1, <2>2 DEF QueueSound
<1>4. ASSUME NEW i \in DOMAIN events', NEW j \in DOMAIN events', NEW t \in Tasks, i < j,
             Tells(events'[i], t), Tells(events'[j], t)
      PROVE  /\ events'[j].kind # "createEmit"
             /\ events'[i].kind = "removeEmit" => events'[j].kind = "removeEmit"
  <2>1. /\ i + 1 \in DOMAIN events /\ j + 1 \in DOMAIN events /\ i + 1 < j + 1
        /\ events'[i] = events[i + 1] /\ events'[j] = events[j + 1]
    BY <1>1, <1>4
  <2> QED
    BY <1>4, <2>1 DEF QueueSound
<1>5. ASSUME NEW s \in Slots, pc'[s] = "createEmit", NEW i \in DOMAIN events'
      PROVE  ~Tells(events'[i], job'[s].task)
  BY <1>1, <1>2, <1>5 DEF QueueSound
<1> QED
  BY <1>3, <1>4, <1>5 DEF QueueSound

----------------------------------------------------------------------------
(* Steps of the service.                                                   *)

(* How an update goes on.                                                  *)
LEMMA UpdateGoesOn ==
  ASSUME TypeOK, NEW s \in Slots, Step(s), pc[s] \in UpdateStages
  PROVE  /\ pc'[s] = "idle" \/ (pc'[s] \in UpdateStages /\ job'[s].task = job[s].task)
         /\ pc[s] \in {"updateBlockers", "updateWrite"} => pc'[s] \in {"idle", "updateWrite", "updateEmit"}
         /\ pc[s] \notin {"updateBlockers", "updateWrite"} =>
              pc'[s] \in {"idle", "updateLog", "updateLogStatus", "updateNotify"}
<1>0. pc \in [Slots -> Stages] /\ DOMAIN job = Slots /\ job[s] \in UpdateJob
  BY DEF TypeOK, SlotsOK, Fits
<1>1. UpdateBlockers(s) \/ UpdateWrite(s) \/ UpdateEmit(s) \/ UpdateLog(s) \/ UpdateLogStatus(s) \/ UpdateNotify(s)
  BY DEF UpdateStages, Step, CreateEmit, CreateLog, RemoveDelete, RemoveEmit, AddVisit,
         AddFind, AddInsert, DropFind, DropDelete, DepReread, DepEmit
<1>2. CASE UpdateBlockers(s)
  BY <1>0, <1>2 DEF UpdateBlockers, Continue, Finish, UpdateStages
<1>3. CASE UpdateWrite(s)
  <2>1. pc[s] = "updateWrite" /\ pc'[s] \in {"updateEmit", "idle"}
    BY <1>0, <1>3 DEF UpdateWrite, Continue, Finish
  <2>2. pc'[s] = "updateEmit" => job'[s].task = job[s].task
    <3>1. \A r : [job[s] EXCEPT !.snap = r].task = job[s].task
      BY <1>0 DEF UpdateJob
    <3> HIDE DEF Patched
    <3> QED
      BY <1>0, <1>3, <3>1 DEF UpdateWrite, Continue, Finish
  <2> QED
    BY <2>1, <2>2 DEF UpdateStages
<1>4. CASE UpdateEmit(s)
  <2>1. ToLog(job[s]) \in {"idle", "updateLog", "updateLogStatus", "updateNotify"}
    BY DEF ToLog, ToLogStatus, ToNotify
  <2> QED
    BY <1>0, <1>4, <2>1 DEF UpdateEmit, Continue, UpdateStages
<1>5. CASE UpdateLog(s)
  <2>1. ToLogStatus(job[s]) \in {"idle", "updateLogStatus", "updateNotify"}
    BY DEF ToLogStatus, ToNotify
  <2> QED
    BY <1>0, <1>5, <2>1 DEF UpdateLog, Continue, Finish, UpdateStages
<1>6. CASE UpdateLogStatus(s)
  <2>1. ToNotify(job[s]) \in {"idle", "updateNotify"}
    BY DEF ToNotify
  <2> QED
    BY <1>0, <1>6, <2>1 DEF UpdateLogStatus, Continue, Finish, UpdateStages
<1>7. CASE UpdateNotify(s)
  BY <1>0, <1>7 DEF UpdateNotify, Continue, Finish, UpdateStages
<1> QED
  BY <1>1, <1>2, <1>3, <1>4, <1>5, <1>6, <1>7

(* What a step of the service does to the events and the lists.            *)
LEMMA ServiceStep ==
  ASSUME OneServes(Operations), None \notin Row, BusyInv, TabOK, QueueSound,
         NEW s \in Slots, Arrive(s) \/ Step(s), Broadcast(s), UNCHANGED open
  PROVE  /\ BusyInv' /\ QueueSound' /\ events' \in Seq(Events)
         /\ \A q \in Slots : q # s => pc'[q] = pc[q] /\ job'[q] = job[q]
         /\ used \subseteq used' /\ \A t \in used : t \in live' => t \in live
         /\ \A t \in Listed, v \in Row \cup {None} : Catches(t, v) => Catches(t, v)'
         /\ \A t \in Tasks, v \in Row :
              Step(s) /\ pc[s] = "updateEmit" /\ job[s].task = t => Catches(t, v)'
<1>1. /\ OthersIdle(s) /\ OthersIdle(s)'
      /\ \A q \in Slots : q # s => pc'[q] = pc[q] /\ job'[q] = job[q]
  BY OneWorks DEF BusyInv
<1>2. BusyInv'
  BY BusyNext
<1>3. Listed \subseteq Tasks
  BY TasksAssumption DEF TabOK, Listed
<1>4. Arrive(s) => pc[s] = "idle"
  BY DEF Arrive, CreateInsert, UpdateRead, RemoveRead, AddRead, DropRead, Begin
<1>5. CASE Step(s) /\ pc[s] \in Emits
  <2>1. events' = Append(events, Event(s))
    BY <1>5 DEF Broadcast
  <2>2. Event(s) \in Events /\ UNCHANGED <<used, live>> /\ job[s].task \in Tasks
    BY <1>1, <1>5, Emission
  <2>3. events' \in Seq(Events)
    BY <2>1, <2>2, SentTold DEF TabOK
  <2>4. QueueSound'
    BY <1>1, <1>5, <2>1, QueueSent
  <2>5. \A t \in Listed, v \in Row \cup {None} : Catches(t, v) => Catches(t, v)'
    BY <1>1, <1>3, <1>5, <2>1, SentCatch
  <2>6. ASSUME NEW t \in Tasks, NEW v \in Row, pc[s] = "updateEmit", job[s].task = t
        PROVE  Catches(t, v)'
    BY <1>1, <1>5, <2>1, <2>6, SentCatch
  <2> QED
    BY <1>1, <1>2, <2>2, <2>3, <2>4, <2>5, <2>6
<1>6. CASE Arrive(s) \/ (Step(s) /\ pc[s] \notin Emits)
  <2>1. events' = events
    BY <1>4, <1>6 DEF Broadcast, Emits
  <2>2. used \subseteq used' /\ \A t \in Tasks : t \in live' => t \in live \/ t \notin used
    BY <1>1, <1>6, Silence
  <2>3. QueueSound'
    BY <1>1, <1>6, <2>1, QueueSilent
  <2>4. \A t \in Listed, v \in Row \cup {None} : Catches(t, v) => Catches(t, v)'
    BY <1>1, <1>3, <1>6, <2>1, SilentCatch DEF TabOK
  <2>5. used \subseteq Tasks
    BY DEF BusyInv, TypeOK
  <2>6. ~(Step(s) /\ pc[s] = "updateEmit")
    BY <1>4, <1>6 DEF Emits
  <2> QED
    BY <1>1, <1>2, <2>1, <2>2, <2>3, <2>4, <2>5, <2>6 DEF TabOK
<1> QED
  BY <1>5, <1>6

(* A step of the service that leaves the move of the tab as it is, or      *)
(* makes it unsent no longer only by sending or failing.                   *)
LEMMA ServeStep ==
  ASSUME OneServes(Operations), None \notin Row, TabInv, NEW s \in Slots, Serve(s),
         Slots \cap {"none", "made", "ok", "error"} = {}
  PROVE  TabInv'
<1>1. /\ Step(s) /\ Broadcast(s) /\ move' = Ended(s)
      /\ UNCHANGED <<open, list, query, overrun, passed, blurred, drops>>
  BY DEF Serve
<1>2. /\ BusyInv' /\ QueueSound' /\ events' \in Seq(Events)
      /\ \A q \in Slots : q # s => pc'[q] = pc[q] /\ job'[q] = job[q]
      /\ used \subseteq used' /\ \A t \in used : t \in live' => t \in live
      /\ \A t \in Listed, v \in Row \cup {None} : Catches(t, v) => Catches(t, v)'
      /\ \A t \in Tasks, v \in Row :
              Step(s) /\ pc[s] = "updateEmit" /\ job[s].task = t => Catches(t, v)'
  BY <1>1, ServiceStep DEF TabInv
<1>3. /\ move'.task = move.task /\ move'.body = move.body /\ move'.before = move.before
      /\ move'.stage = IF move.stage = s /\ pc'[s] = "idle" THEN IF EndsWell(s) THEN "ok" ELSE "error"
                       ELSE move.stage
      /\ Listed' = Listed
  BY <1>1 DEF Ended, Listed
<1>4. /\ move.stage \in {"none", "made", "ok", "error"} \cup Slots /\ Listed \subseteq Tasks
      /\ list \in Lists /\ (query.stage = "answered" => query.rows \in Lists)
      /\ move.stage # "none" => move.task \in Listed /\ move.before \in Lists
      /\ move.stage \in Slots => pc[move.stage] \in UpdateStages /\ job[move.stage].task = move.task
  BY TasksAssumption DEF TabInv, TabOK, Listed
<1>5. /\ pc[s] \in UpdateStages => pc'[s] = "idle" \/ (pc'[s] \in UpdateStages /\ job'[s].task = job[s].task)
      /\ pc[s] \in {"updateBlockers", "updateWrite"} => pc'[s] \in {"idle", "updateWrite", "updateEmit"}
      /\ pc[s] \in UpdateStages /\ pc[s] \notin {"updateBlockers", "updateWrite"} =>
           pc'[s] \in {"idle", "updateLog", "updateLogStatus", "updateNotify"}
  BY <1>1, UpdateGoesOn DEF TabInv, BusyInv, UpdateStages
<1>6. TabOK'
  <2>1. move' \in [stage : {"none", "made", "ok", "error"} \cup Slots, task : Tasks \cup {None},
                   body : Patches \cup {None}, before : Lists \cup {None}]
    BY <1>1 DEF TabInv, TabOK, Ended
  <2>2. move'.stage \in Slots => pc'[move'.stage] \in UpdateStages /\ job'[move'.stage].task = move'.task
    BY <1>2, <1>3, <1>4, <1>5
  <2>3. move'.stage # "none" => move'.task \in Listed' /\ move'.body \in Patches /\ move'.before \in Lists
    BY <1>3 DEF TabInv, TabOK
  <2> QED
    BY <1>1, <1>2, <2>1, <2>2, <2>3 DEF TabInv, TabOK
<1>7. OneShown'
  BY <1>1, <1>2, <1>3, <1>4 DEF TabInv, OneShown
<1>8. Unsent' => Unsent
  <2>1. move'.stage = "made" => move.stage = "made"
    BY <1>3
  <2>2. ASSUME move'.stage \in Slots PROVE move.stage = move'.stage
    BY <1>3, <2>2
  <2> QED
    BY <1>2, <1>4, <1>5, <2>1, <2>2 DEF Unsent, UpdateStages
<1>9. GuessKept'
  BY <1>1, <1>2, <1>3, <1>4, <1>8 DEF TabInv, GuessKept, OneShown, Unsent
<1>10. Unsent => Unsent' \/ move'.stage = "error" \/ (move.stage = s /\ pc[s] = "updateEmit")
  BY <1>2, <1>3, <1>4, <1>5 DEF Unsent, EndsWell
<1>11. ListCatches'
  <2> SUFFICES ASSUME ~blurred, move'.stage # "error", NEW t \in Listed, NEW v \in Row \cup {None}, v = list[t]
               PROVE  (t = move'.task /\ Unsent') \/ Catches(t, v)'
    BY <1>1, <1>3 DEF ListCatches
  <2>1. (t = move.task /\ Unsent) \/ Catches(t, v)
    BY <1>3 DEF TabInv, ListCatches
  <2>2. CASE Catches(t, v)
    BY <1>2, <2>2
  <2>3. CASE t = move.task /\ Unsent /\ Unsent'
    BY <1>3, <2>3
  <2>4. CASE t = move.task /\ Unsent /\ move.stage = s /\ pc[s] = "updateEmit"
    <3>1. OthersIdle(s)
      BY <1>1, OneWorks DEF TabInv, BusyInv
    <3>2. job[s].task = t /\ t \in live
      BY <1>4, <2>4, <3>1 DEF TabInv, BusyInv, Sound
    <3>3. v \in Row
      BY <2>4, <3>2 DEF TabInv, GuessKept
    <3>4. t \in Tasks
      BY <1>4
    <3>5. Catches(t, v)'
      BY <1>1, <1>2, <2>4, <3>2, <3>3, <3>4
    <3> QED
      BY <3>5
  <2> QED
    BY <1>10, <2>1, <2>2, <2>3, <2>4
<1>12. RowsCatch'
  BY <1>1, <1>2, <1>3 DEF TabInv, RowsCatch
<1>13. BeforeCatches'
  BY <1>1, <1>2, <1>3 DEF TabInv, BeforeCatches
<1> QED
  BY <1>2, <1>6, <1>7, <1>9, <1>11, <1>12, <1>13 DEF TabInv

(* A request that arrives tells nothing yet.                               *)
LEMMA Arrived ==
  ASSUME TypeOK, NEW s \in Slots, Arrive(s), UNCHANGED events
  PROVE  Broadcast(s) /\ pc[s] = "idle"
<1>1. pc[s] = "idle"
  BY DEF Arrive, CreateInsert, UpdateRead, RemoveRead, AddRead, DropRead, Begin
<1> QED
  BY <1>1 DEF Broadcast, Emits

(* A request of somebody else arrives, or time passes.                     *)
LEMMA OthersStep ==
  ASSUME OneServes(Operations), TabInv, Others
  PROVE  TabInv'
<1>1. UNCHANGED tab /\ Listed' = Listed /\ Listed \subseteq Tasks
  BY TasksAssumption DEF Others, tab, Listed, TabInv, TabOK
<1>2. ASSUME UNCHANGED <<used, live, row, board, pc, job>>, BusyInv' PROVE TabInv'
  BY <1>1, <1>2 DEF tab, TabInv, TabOK, QueueSound, Tells, Told, Catches, Unsent, Db, Listed,
                    GuessKept, ListCatches, RowsCatch, BeforeCatches, OneShown
<1>3. CASE Tick
  <2>1. UNCHANGED <<used, live, row, board, pc, job>>
    BY <1>3 DEF Tick, database, outputs, control
  <2>2. BusyInv'
    BY <1>3, BusyNext, BoardAssumption DEF TabInv
  <2> QED
    BY <1>2, <2>1, <2>2
<1>4. ASSUME NEW s \in Slots, Arrive(s) PROVE TabInv'
  <2>1. Broadcast(s) /\ pc[s] = "idle"
    BY <1>1, <1>4, Arrived DEF tab, TabInv, BusyInv
  <2>2. /\ BusyInv' /\ QueueSound' /\ events' \in Seq(Events)
        /\ \A q \in Slots : q # s => pc'[q] = pc[q] /\ job'[q] = job[q]
        /\ used \subseteq used' /\ \A t \in used : t \in live' => t \in live
        /\ \A t \in Listed, v \in Row \cup {None} : Catches(t, v) => Catches(t, v)'
    BY <1>1, <1>4, <2>1, ServiceStep, BoardAssumption DEF tab, TabInv
  <2>3. move.stage \in Slots => pc[move.stage] \in UpdateStages /\ job[move.stage].task = move.task
    BY DEF TabInv, TabOK
  <2>4. move.stage # s
    BY <2>1, <2>3 DEF UpdateStages
  <2>5. move.stage \in Slots => pc'[move.stage] = pc[move.stage] /\ job'[move.stage] = job[move.stage]
    BY <2>2, <2>4
  <2>6. Unsent' <=> Unsent
    BY <1>1, <2>5 DEF tab, Unsent
  <2>7. TabOK'
    BY <1>1, <2>2, <2>5 DEF tab, TabInv, TabOK
  <2>8. GuessKept'
    <3>1. ASSUME Unsent, move.task \in live' PROVE move.task \in live
      <4>1. move.stage # "none" /\ move.task \in Tasks
        BY <1>1, <3>1, BoardAssumption DEF TabInv, TabOK, Unsent
      <4>2. move.task \in used
        BY <4>1 DEF TabInv, OneShown
      <4> QED
        BY <2>2, <3>1, <4>2
    <3> QED
      BY <1>1, <2>6, <3>1 DEF tab, TabInv, GuessKept
  <2>9. ListCatches' /\ RowsCatch' /\ BeforeCatches'
    BY <1>1, <2>2, <2>6 DEF tab, TabInv, ListCatches, RowsCatch, BeforeCatches
  <2>10. OneShown'
    BY <1>1, <2>2 DEF tab, TabInv, OneShown
  <2> QED
    BY <2>2, <2>7, <2>8, <2>9, <2>10 DEF TabInv
<1> QED
  BY <1>3, <1>4 DEF Others

(* The move is sent: the request that serves it starts.                    *)
LEMMA SendStep ==
  ASSUME OneServes(Operations), TabInv, NEW s \in Slots, SendMove(s)
  PROVE  TabInv'
<1>1. /\ move.stage = "made" /\ UpdateRead(s, Me, move.task, move.body)
      /\ move' = [move EXCEPT !.stage = s]
      /\ UNCHANGED <<open, list, events, query, overrun, passed, blurred, drops>>
      /\ Listed' = Listed
  BY DEF SendMove, Listed
<1>2. /\ move.task \in Listed /\ move.task \in Tasks /\ move.body \in Patches
      /\ move \in [stage : {"none", "made", "ok", "error"} \cup Slots, task : Tasks \cup {None},
                   body : Patches \cup {None}, before : Lists \cup {None}]
  BY <1>1, TasksAssumption DEF TabInv, TabOK, Listed
<1>3. Arrive(s)
  BY <1>1, <1>2, BoardAssumption DEF Arrive
<1>4. Broadcast(s)
  BY <1>1, <1>3, Arrived DEF TabInv, BusyInv
<1>5. /\ BusyInv' /\ QueueSound' /\ events' \in Seq(Events)
      /\ used \subseteq used' /\ \A t \in used : t \in live' => t \in live
      /\ \A t \in Listed, v \in Row \cup {None} : Catches(t, v) => Catches(t, v)'
  BY <1>1, <1>3, <1>4, ServiceStep, BoardAssumption DEF TabInv
<1>6. /\ pc'[s] \in {"updateBlockers", "updateWrite"} /\ job'[s].task = move.task
      /\ UNCHANGED <<used, live>>
  BY <1>1 DEF UpdateRead, Begin, database, TabInv, BusyInv, TypeOK, SlotsOK
<1>7. /\ move'.stage = s /\ move'.task = move.task /\ move'.body = move.body /\ move'.before = move.before
      /\ move' \in [stage : {"none", "made", "ok", "error"} \cup Slots, task : Tasks \cup {None},
                    body : Patches \cup {None}, before : Lists \cup {None}]
  BY <1>1, <1>2
<1>8. Unsent /\ Unsent'
  BY <1>1, <1>6, <1>7 DEF Unsent
<1>9. TabOK'
  BY <1>1, <1>5, <1>6, <1>7 DEF TabInv, TabOK, UpdateStages
<1>10. GuessKept'
  BY <1>1, <1>6, <1>7, <1>8 DEF TabInv, GuessKept
<1>11. ListCatches' /\ RowsCatch' /\ BeforeCatches'
  BY <1>1, <1>5, <1>7, <1>8, BoardAssumption DEF TabInv, ListCatches, RowsCatch, BeforeCatches
<1>12. OneShown'
  BY <1>1, <1>6, <1>7, BoardAssumption DEF TabInv, OneShown
<1> QED
  BY <1>5, <1>9, <1>10, <1>11, <1>12 DEF TabInv

(* The steps of the tab alone.                                             *)
LEMMA BusyStutters ==
  ASSUME BusyInv, UNCHANGED vars
  PROVE  BusyInv'
BY DEF vars, database, outputs, control, BusyInv, TypeOK, SlotsOK, Working, OthersIdle, Sound,
       Pending, Db, Quiet

(* They leave the service, and what is on its way, alone.                  *)
LEMMA SameCatch ==
  ASSUME UNCHANGED <<vars, open, events>>
  PROVE  /\ \A t, v : Catches(t, v)' <=> Catches(t, v)
         /\ Listed' = Listed /\ UNCHANGED <<used, live, row, board, pc, job>>
         /\ (BusyInv => BusyInv') /\ (QueueSound => QueueSound')
<1>1. UNCHANGED <<used, live, row, board, pc, job>> /\ Listed' = Listed
  BY DEF vars, database, outputs, control, Listed
<1>2. \A t, v : Catches(t, v)' <=> Catches(t, v)
  BY <1>1 DEF Catches, Told, Tells, Db
<1>3. QueueSound => QueueSound'
  BY <1>1 DEF QueueSound, Tells
<1> QED
  BY <1>1, <1>2, <1>3, BusyStutters

(* An event is heard.                                                      *)
LEMMA HearStep ==
  ASSUME TabInv, Hear
  PROVE  TabInv'
<1> DEFINE e == Head(events)
<1>1. /\ list' = [list EXCEPT ![e.task] = Shown(e)]
      /\ overrun' = TRUE /\ passed' = TRUE
      /\ UNCHANGED <<vars, open, query, move, blurred, drops>>
      /\ Listed' = Listed /\ Listed \subseteq Tasks
  BY TasksAssumption DEF Hear, Listed, TabInv, TabOK
<1>2. /\ events' \in Seq(Events) /\ e \in Events /\ e = events[1] /\ 1 \in DOMAIN events
  BY HeardTold DEF Hear, TabInv, TabOK
<1>3. UNCHANGED <<used, live, row, board, pc, job>>
  BY <1>1 DEF vars, database, outputs, control
<1>4. BusyInv'
  BY <1>1, BusyStutters DEF TabInv
<1>5. QueueSound'
  BY QueueHeard DEF TabInv
<1> HIDE DEF e
<1>6. e.task \in Tasks /\ e.row \in Row \cup {None} /\ Shown(e) \in Row \cup {None} /\ list \in Lists
  BY <1>2 DEF Events, Shown, Lists, TabInv, TabOK
<1>7. /\ list' \in Lists
      /\ \A t \in Tasks : list'[t] = IF e.task = t THEN Shown(e) ELSE list[t]
  BY <1>1, <1>6 DEF Lists
<1>8. TabOK'
  BY <1>1, <1>2, <1>3, <1>7 DEF TabInv, TabOK
<1>9. Unsent' <=> Unsent
  BY <1>1, <1>3 DEF Unsent
<1>10. GuessKept'
  <2> SUFFICES ASSUME Unsent, move.task \in live PROVE list'[move.task] # None
    BY <1>1, <1>3, <1>9 DEF TabInv, GuessKept
  <2>1. list[move.task] # None /\ move.task \in Tasks
    BY DEF TabInv, GuessKept, BusyInv, TypeOK
  <2>2. e.task = move.task => e.kind # "removeEmit"
    BY <1>2, <2>1 DEF TabInv, QueueSound, Tells
  <2>3. e.task = move.task => Shown(e) # None
    BY <2>1, <2>2 DEF Shown
  <2> QED
    BY <1>7, <2>1, <2>3
<1>11. ListCatches'
  <2> SUFFICES ASSUME ~blurred, move.stage # "error", NEW t \in Listed, NEW v \in Row \cup {None}, v = list'[t]
               PROVE  (t = move.task /\ Unsent) \/ Catches(t, v)'
    BY <1>1, <1>9 DEF ListCatches
  <2>1. t \in Tasks /\ list[t] \in Row \cup {None}
    BY <1>1, <1>6 DEF Lists
  <2>2. (t = move.task /\ Unsent) \/ Catches(t, list[t])
    BY <2>1 DEF TabInv, ListCatches
  <2> QED
    BY <2>1, <2>2, HeardCatch, BoardAssumption DEF TabInv
<1>12. RowsCatch' /\ BeforeCatches'
  BY <1>1 DEF RowsCatch, BeforeCatches
<1>13. OneShown'
  <2>1. ASSUME NEW t \in Tasks, t \notin Listed \cap used PROVE list'[t] = None
    <3>1. list[t] = None
      BY <2>1 DEF TabInv, OneShown
    <3>2. ASSUME e.task = t PROVE Shown(e) = None
      <4>1. t \in used => open # None
        BY <2>1 DEF Listed
      <4>2. t \notin used => e.row = None
        BY <1>2, <2>1, <3>2 DEF TabInv, QueueSound, Tells
      <4> QED
        BY <3>1, <3>2, <4>1, <4>2 DEF Shown
    <3> QED
      BY <1>7, <3>1, <3>2
  <2> QED
    BY <1>1, <1>3, <2>1 DEF TabInv, OneShown
<1> QED
  BY <1>4, <1>5, <1>8, <1>10, <1>11, <1>12, <1>13 DEF TabInv

(* The connection is lost, and what was on its way with it.                *)
LEMMA DropStep ==
  ASSUME TabInv, DropEvents
  PROVE  TabInv'
<1>1. /\ events' = <<>> /\ overrun' = TRUE /\ blurred' = TRUE
      /\ UNCHANGED <<vars, open, list, query, move, passed>> /\ Listed' = Listed
  BY DEF DropEvents, Listed
<1>2. BusyInv' /\ UNCHANGED <<used, live, row, board, pc, job>>
  BY <1>1, BusyStutters DEF TabInv, vars, database, outputs, control
<1>3. events' \in Seq(Events) /\ DOMAIN events' = {}
  BY <1>1
<1>4. QueueSound'
  BY <1>3 DEF QueueSound
<1>5. TabOK' /\ GuessKept' /\ OneShown'
  BY <1>1, <1>2, <1>3 DEF TabInv, TabOK, GuessKept, Unsent, OneShown
<1>6. ListCatches' /\ RowsCatch' /\ BeforeCatches'
  BY <1>1 DEF ListCatches, RowsCatch, BeforeCatches
<1> QED
  BY <1>2, <1>4, <1>5, <1>6 DEF TabInv

(* The query is asked for or fails.                                        *)
LEMMA AskStep ==
  ASSUME TabInv, Ask \/ QueryFails
  PROVE  TabInv'
<1>1. /\ query'.stage \in {"none", "asked"}
      /\ UNCHANGED <<vars, open, list, events, move, overrun, passed, blurred, drops>>
  BY DEF Ask, QueryFails, Asked, NoQuery
<1>2. /\ \A t, v : Catches(t, v)' <=> Catches(t, v)
      /\ Listed' = Listed /\ UNCHANGED <<used, live, pc, job>> /\ BusyInv' /\ QueueSound'
  BY <1>1, SameCatch DEF TabInv
<1>3. TabOK' /\ GuessKept' /\ OneShown'
  BY <1>1, <1>2 DEF TabInv, TabOK, GuessKept, Unsent, OneShown
<1>4. ListCatches' /\ RowsCatch' /\ BeforeCatches'
  BY <1>1, <1>2 DEF TabInv, ListCatches, RowsCatch, BeforeCatches, Unsent
<1> QED
  BY <1>2, <1>3, <1>4 DEF TabInv

(* The rows of an answer are those of the database: whatever is still on   *)
(* its way about them changes nothing for good.                            *)
LEMMA AnswerStep ==
  ASSUME TabInv, AnswerQuery
  PROVE  TabInv'
<1>1. /\ query'.stage = "answered" /\ query'.rows = Rows
      /\ UNCHANGED <<vars, open, list, events, move, passed, blurred, drops>>
  BY DEF AnswerQuery
<1>2. /\ \A t, v : Catches(t, v)' <=> Catches(t, v)
      /\ Listed' = Listed /\ UNCHANGED <<used, live, pc, job>> /\ BusyInv' /\ QueueSound'
  BY <1>1, SameCatch DEF TabInv
<1>3. row \in [Tasks -> Row] /\ live \subseteq used /\ Listed \subseteq Tasks
  BY TasksAssumption DEF TabInv, TabOK, Listed, BusyInv, TypeOK
<1>4. \A t \in Tasks : query'.rows[t] = IF t \in Listed THEN Db(t) ELSE None
  BY <1>1 DEF Rows, Db
<1>5. query'.rows \in Lists
  BY <1>1, <1>3 DEF Rows, Lists
<1>6. TabOK'
  BY <1>1, <1>2, <1>5 DEF TabInv, TabOK
<1>7. GuessKept'
  <2> SUFFICES ASSUME Unsent, move.task \in live
               PROVE  list[move.task] # None /\ query'.rows[move.task] # None
    BY <1>1, <1>2 DEF GuessKept, Unsent
  <2>1. move.task \in Listed
    BY BoardAssumption DEF TabInv, TabOK, Unsent
  <2> QED
    BY <1>3, <1>4, <2>1, BoardAssumption DEF TabInv, GuessKept, Db
<1>8. OneShown'
  BY <1>1, <1>2, <1>3, <1>4 DEF TabInv, OneShown, Db
<1>9. RowsCatch'
  <2> SUFFICES ASSUME NEW t \in Listed PROVE Catches(t, Db(t))
    BY <1>1, <1>2, <1>3, <1>4 DEF RowsCatch
  <2>1. t \in live => Db(t) # None
    BY <1>3, BoardAssumption DEF Db
  <2> QED
    BY <2>1 DEF Catches
<1>10. ListCatches' /\ BeforeCatches'
  BY <1>1, <1>2 DEF TabInv, ListCatches, BeforeCatches, Unsent
<1> QED
  BY <1>2, <1>6, <1>7, <1>8, <1>9, <1>10 DEF TabInv

(* The answer is shown.                                                    *)
LEMMA ShowStep ==
  ASSUME TabInv, ShowAnswer
  PROVE  TabInv'
<1>1. /\ query.stage = "answered" /\ list' = query.rows /\ query'.stage = "none"
      /\ passed' = TRUE /\ blurred' = overrun
      /\ UNCHANGED <<vars, open, events, move, overrun, drops>>
  BY DEF ShowAnswer, NoQuery
<1>2. /\ \A t, v : Catches(t, v)' <=> Catches(t, v)
      /\ Listed' = Listed /\ UNCHANGED <<used, live, pc, job>> /\ BusyInv' /\ QueueSound'
  BY <1>1, SameCatch DEF TabInv
<1>3. TabOK' /\ GuessKept' /\ OneShown'
  BY <1>1, <1>2 DEF TabInv, TabOK, GuessKept, Unsent, OneShown
<1>4. ListCatches' /\ RowsCatch' /\ BeforeCatches'
  BY <1>1, <1>2 DEF TabInv, ListCatches, RowsCatch, BeforeCatches
<1> QED
  BY <1>2, <1>3, <1>4 DEF TabInv

(* A move or an edit is shown before it is sent.                           *)
LEMMA ChangeStep ==
  ASSUME TabInv, NEW t \in Listed, NEW body \in Patches, Change(t, body)
  PROVE  TabInv'
<1>0. t \in Tasks /\ list \in Lists /\ Listed \subseteq Tasks
  BY TasksAssumption DEF TabInv, TabOK, Listed
<1> DEFINE r == Patched(list[t], body, list[t].updatedAt)
<1>1. /\ move.stage = "none" /\ list[t] # None /\ query'.stage = "none"
      /\ move' = [stage |-> "made", task |-> t, body |-> body, before |-> list]
      /\ list' = [list EXCEPT ![t] = r]
      /\ passed' = FALSE
      /\ UNCHANGED <<vars, open, events, overrun, blurred, drops>>
  BY <1>0 DEF Change, CanEdit, NoQuery, Lists
<1>2. r \in Row
  <2>1. list[t] \in Row
    BY <1>0, <1>1 DEF Lists
  <2> QED
    BY <2>1, TasksAssumption DEF Patched, Row, Patch, Statuses
<1> HIDE DEF r
<1>3. /\ \A x, v : Catches(x, v)' <=> Catches(x, v)
      /\ Listed' = Listed /\ UNCHANGED <<used, live, pc, job>> /\ BusyInv' /\ QueueSound'
  BY <1>1, SameCatch DEF TabInv
<1>4. /\ list' \in Lists /\ \A x \in Tasks : list'[x] = IF x = t THEN r ELSE list[x]
  BY <1>0, <1>1, <1>2 DEF Lists
<1>5. move' \in [stage : {"none", "made", "ok", "error"} \cup Slots, task : Tasks \cup {None},
                 body : Patches \cup {None}, before : Lists \cup {None}]
  BY <1>0, <1>1
<1>6. /\ move'.stage = "made" /\ move'.task = t /\ move'.body = body /\ move'.before = list
      /\ Unsent' /\ ~Unsent
  BY <1>1, BoardAssumption DEF Unsent
<1>7. TabOK'
  BY <1>0, <1>1, <1>3, <1>4, <1>5, <1>6, BoardAssumption DEF TabInv, TabOK
<1>8. GuessKept'
  BY <1>0, <1>1, <1>2, <1>4, <1>6, BoardAssumption DEF GuessKept
<1>9. t \in used
  BY <1>0, <1>1 DEF TabInv, OneShown
<1>10. OneShown'
  BY <1>1, <1>3, <1>4, <1>6, <1>9 DEF TabInv, OneShown
<1>11. ListCatches'
  BY <1>0, <1>1, <1>3, <1>4, <1>6 DEF TabInv, ListCatches
<1>12. BeforeCatches'
  BY <1>1, <1>3, <1>6 DEF TabInv, ListCatches, BeforeCatches
<1>13. RowsCatch'
  BY <1>1 DEF RowsCatch
<1> QED
  BY <1>3, <1>7, <1>8, <1>10, <1>11, <1>12, <1>13 DEF TabInv

(* It fails, succeeds or is rolled back.                                   *)
LEMMA SettleStep ==
  ASSUME TabInv, MoveFails \/ MoveSucceeds \/ RollBack
  PROVE  TabInv'
<1>0. /\ UNCHANGED <<vars, open, events, overrun, passed, drops>>
      /\ move \in [stage : {"none", "made", "ok", "error"} \cup Slots, task : Tasks \cup {None},
                   body : Patches \cup {None}, before : Lists \cup {None}]
  BY DEF MoveFails, MoveSucceeds, RollBack, TabInv, TabOK
<1>1. /\ \A t, v : Catches(t, v)' <=> Catches(t, v)
      /\ Listed' = Listed /\ UNCHANGED <<used, live, pc, job>> /\ BusyInv' /\ QueueSound'
  BY <1>0, SameCatch DEF TabInv
<1>2. CASE MoveFails
  <2>1. /\ move.stage # "none" /\ move'.stage = "error"
        /\ move'.task = move.task /\ move'.body = move.body /\ move'.before = move.before
        /\ move' \in [stage : {"none", "made", "ok", "error"} \cup Slots, task : Tasks \cup {None},
                      body : Patches \cup {None}, before : Lists \cup {None}]
        /\ UNCHANGED <<list, query, blurred>>
    BY <1>0, <1>2, BoardAssumption DEF MoveFails
  <2>2. ~Unsent'
    BY <2>1, BoardAssumption DEF Unsent
  <2>3. TabOK' /\ GuessKept' /\ OneShown'
    BY <1>0, <1>1, <2>1, <2>2, BoardAssumption DEF TabInv, TabOK, GuessKept, OneShown
  <2>4. ListCatches' /\ RowsCatch' /\ BeforeCatches'
    BY <1>0, <1>1, <2>1 DEF TabInv, ListCatches, RowsCatch, BeforeCatches
  <2> QED
    BY <1>1, <2>3, <2>4 DEF TabInv
<1>3. CASE MoveSucceeds
  <2>1. /\ move.stage = "ok" /\ move'.stage = "none" /\ query'.stage = "asked"
        /\ move' \in [stage : {"none", "made", "ok", "error"} \cup Slots, task : Tasks \cup {None},
                      body : Patches \cup {None}, before : Lists \cup {None}]
        /\ UNCHANGED <<list, blurred>>
    BY <1>3 DEF MoveSucceeds, NoMove, Asked
  <2>2. ~Unsent' /\ ~Unsent
    BY <2>1, BoardAssumption DEF Unsent
  <2>3. TabOK' /\ GuessKept' /\ OneShown'
    BY <1>0, <1>1, <2>1, <2>2, BoardAssumption DEF TabInv, TabOK, GuessKept, OneShown
  <2>4. ListCatches' /\ RowsCatch' /\ BeforeCatches'
    BY <1>0, <1>1, <2>1, <2>2 DEF TabInv, ListCatches, RowsCatch, BeforeCatches
  <2> QED
    BY <1>1, <2>3, <2>4 DEF TabInv
<1>4. CASE RollBack
  <2>1. /\ move.stage = "error" /\ move'.stage = "none" /\ list' = move.before
        /\ blurred' = (blurred \/ passed) /\ UNCHANGED query
        /\ move' \in [stage : {"none", "made", "ok", "error"} \cup Slots, task : Tasks \cup {None},
                      body : Patches \cup {None}, before : Lists \cup {None}]
    BY <1>4 DEF RollBack, NoMove
  <2>2. ~Unsent'
    BY <2>1, BoardAssumption DEF Unsent
  <2>3. TabOK' /\ GuessKept' /\ OneShown'
    BY <1>0, <1>1, <2>1, <2>2, BoardAssumption DEF TabInv, TabOK, GuessKept, OneShown
  <2>4. ListCatches' /\ RowsCatch' /\ BeforeCatches'
    BY <1>0, <1>1, <2>1 DEF TabInv, ListCatches, RowsCatch, BeforeCatches
  <2> QED
    BY <1>1, <2>3, <2>4 DEF TabInv
<1> QED
  BY <1>2, <1>3, <1>4

(* Every step keeps the invariant.                                         *)
LEMMA TabNext ==
  ASSUME OneServes(Operations), TabInv, [BoardNext]_boardVars
  PROVE  TabInv'
<1>1. CASE UNCHANGED boardVars
  <2>1. UNCHANGED <<vars, tab>> /\ UNCHANGED <<used, live, row, board, pc, job>>
    BY <1>1 DEF boardVars, vars, database, outputs, control
  <2>2. BusyInv'
    BY <2>1, BusyStutters DEF TabInv
  <2> QED
    BY <2>1, <2>2 DEF tab, TabInv, TabOK, QueueSound, Tells, Told, Catches, Unsent, Db, Listed,
                      GuessKept, ListCatches, RowsCatch, BeforeCatches, OneShown
<1>2. ASSUME NEW s \in Slots, Serve(s) PROVE TabInv'
  BY <1>2, ServeStep, BoardAssumption
<1>3. ASSUME NEW s \in Slots, SendMove(s) PROVE TabInv'
  BY <1>3, SendStep
<1>4. ASSUME NEW t \in Tasks, NEW status \in Columns, MoveTask(t, status) PROVE TabInv'
  <2>1. t \in Listed /\ Body(status) \in Patches /\ Change(t, Body(status))
    BY <1>4, BoardAssumption DEF MoveTask, Listed
  <2> QED
    BY <2>1, ChangeStep
<1>5. ASSUME NEW body \in Patches, EditTask(body) PROVE TabInv'
  <2>1. open \in Listed /\ Change(open, body)
    BY <1>5 DEF EditTask, Listed
  <2>2. ASSUME NEW t \in Listed, t = open PROVE TabInv'
    BY <2>1, <2>2, ChangeStep
  <2> QED
    BY <2>1, <2>2
<1> QED
  BY <1>1, <1>2, <1>3, <1>4, <1>5, OthersStep, HearStep, DropStep, AskStep, AnswerStep, ShowStep,
     SettleStep DEF BoardNext

(* It holds when the page opens.                                           *)
LEMMA TabStarts == BoardInit => TabInv
<1> SUFFICES ASSUME BoardInit PROVE TabInv
  OBVIOUS
<1>1. /\ Init /\ open \in Seeded \cup {None} /\ list = Rows /\ events = <<>>
      /\ query.stage = "none" /\ move.stage = "none" /\ ~blurred
      /\ move \in [stage : {"none", "made", "ok", "error"} \cup Slots, task : Tasks \cup {None},
                   body : Patches \cup {None}, before : Lists \cup {None}]
  BY DEF BoardInit, NoQuery, NoMove
<1>2. BusyInv /\ row \in [Tasks -> Row] /\ live \subseteq used
  BY <1>1, BusyInit, InitType DEF TypeOK
<1>3. Listed \subseteq Tasks
  BY <1>1, TasksAssumption DEF Listed
<1>4. list \in Lists /\ \A t \in Tasks : list[t] = IF t \in Listed THEN Db(t) ELSE None
  BY <1>1, <1>2 DEF Rows, Lists, Db
<1>5. events \in Seq(Events) /\ DOMAIN events = {}
  BY <1>1
<1>6. TabOK
  BY <1>1, <1>4, <1>5, BoardAssumption DEF TabOK
<1>7. QueueSound
  BY <1>5 DEF QueueSound
<1>8. GuessKept /\ RowsCatch /\ BeforeCatches
  BY <1>1, BoardAssumption DEF GuessKept, Unsent, RowsCatch, BeforeCatches
<1>9. OneShown
  BY <1>1, <1>2, <1>4 DEF OneShown, Db
<1>10. ListCatches
  BY <1>3, <1>4, <1>5 DEF ListCatches, Catches, Told
<1> QED
  BY <1>2, <1>6, <1>7, <1>8, <1>9, <1>10 DEF TabInv

(* At rest it leaves nothing to catch up with.                             *)
LEMMA TabAtRest == TabInv => BoardSettles
<1> SUFFICES ASSUME TabInv PROVE BoardSettles
  OBVIOUS
<1>1. Quiet => \A t \in Tasks : board[t] = Db(t)
  BY DEF TabInv, BusyInv
<1>2. ASSUME AtRest, ~blurred, NEW t \in Tasks, t \in live \/ open = None
      PROVE  list[t] = Rows[t]
  <2>1. Quiet /\ events = <<>> /\ move.stage = "none"
    BY <1>2 DEF AtRest
  <2>2. \A kinds : ~Told(t, kinds)
    BY <2>1 DEF Told
  <2>3. CASE t \in Listed
    <3>1. list[t] \in Row \cup {None}
      BY DEF TabInv, TabOK, Lists
    <3>2. ~Unsent
      BY <2>1, BoardAssumption DEF Unsent
    <3>3. Catches(t, list[t])
      BY <1>2, <2>1, <2>3, <3>1, <3>2 DEF TabInv, ListCatches
    <3>4. list[t] = Db(t)
      BY <1>1, <1>2, <2>1, <2>2, <3>3 DEF Catches
    <3> QED
      BY <2>3, <3>4 DEF Rows, Db
  <2>4. CASE t \notin Listed
    BY <2>4 DEF TabInv, OneShown, Rows
  <2> QED
    BY <2>3, <2>4
<1> QED
  BY <1>1, <1>2 DEF BoardSettles, Db

(* BoardSettles: once every request is answered and every event is heard,  *)
(* the board that missed nothing shows the database, and the tab does      *)
(* unless it is blurred, whatever the user moved meanwhile and however the *)
(* moves went (board/page.tsx, useProjectRealtime.ts).                     *)
THEOREM TabSettles ==
  ASSUME OneServes(Operations)
  PROVE  BoardSpec => []BoardSettles
<1>1. BoardInit => TabInv
  BY TabStarts
<1>2. TabInv /\ [BoardNext]_boardVars => TabInv'
  BY TabNext
<1>3. TabInv => BoardSettles
  BY TabAtRest
<1> QED
  BY <1>1, <1>2, <1>3, PTL DEF BoardSpec

(* The service of BoardClient is the one of Tasks, whoever sends the move: *)
(* what is proved of Tasks holds beside the tab.                           *)
THEOREM BoardCovered == BoardSpec => Spec
<1> DEFINE Sent == /\ "stage" \in DOMAIN move
                   /\ move.stage = "made" => move.task \in Tasks /\ move.body \in Patches
           Opened == open \in Seeded \cup {None}
           Inv == Sent /\ Opened
<1>1. BoardInit => Init /\ Inv
  BY DEF BoardInit, NoMove
<1>2. Inv /\ [BoardNext]_boardVars => Inv' /\ [Next]_vars
  <2> SUFFICES ASSUME Inv, [BoardNext]_boardVars PROVE Inv' /\ [Next]_vars
    OBVIOUS
  <2>1. ASSUME NEW s \in Slots, Serve(s) PROVE Inv' /\ Next
    <3>1. "stage" \in DOMAIN move' /\ (move'.stage = "made" => move' = move)
      BY <2>1 DEF Serve, Ended
    <3> QED
      BY <2>1, <3>1 DEF Serve, Next
  <2>2. ASSUME NEW s \in Slots, SendMove(s) PROVE Inv' /\ Next
    <3>1. Arrive(s)
      BY <2>2, BoardAssumption DEF SendMove, Arrive
    <3> QED
      BY <2>2, <3>1, BoardAssumption DEF SendMove, Next
  <2>3. CASE Others
    BY <2>3 DEF Others, Next, tab
  <2>4. ASSUME NEW t \in Tasks, NEW body \in Patches, Change(t, body) PROVE Inv' /\ UNCHANGED vars
    BY <2>4 DEF Change
  <2>5. CASE \E t \in Tasks, status \in Columns : MoveTask(t, status)
    BY <2>4, <2>5, BoardAssumption DEF MoveTask
  <2>6. CASE \E body \in Patches : EditTask(body)
    BY <2>4, <2>6, TasksAssumption DEF EditTask
  <2>7. CASE Hear \/ DropEvents \/ Ask \/ AnswerQuery \/ ShowAnswer \/ QueryFails
    <3>1. UNCHANGED <<vars, open, move>>
      BY <2>7 DEF Hear, DropEvents, Ask, AnswerQuery, ShowAnswer, QueryFails
    <3> QED
      BY <3>1
  <2>8. CASE MoveFails \/ MoveSucceeds \/ RollBack
    <3>1. UNCHANGED <<vars, open>>
      BY <2>8 DEF MoveFails, MoveSucceeds, RollBack
    <3>2. "stage" \in DOMAIN move' /\ move'.stage # "made"
      BY <2>8 DEF MoveFails, MoveSucceeds, RollBack, NoMove
    <3> QED
      BY <3>1, <3>2
  <2>9. CASE UNCHANGED boardVars
    BY <2>9 DEF boardVars, tab
  <2> QED
    BY <2>1, <2>2, <2>3, <2>5, <2>6, <2>7, <2>8, <2>9 DEF BoardNext
<1> QED
  BY <1>1, <1>2, PTL DEF BoardSpec, Spec
=============================================================================
