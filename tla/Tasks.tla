------------------------------- MODULE Tasks -------------------------------
(***************************************************************************)
(* The task service of one project (backend/src/tasks/tasks.service.ts).   *)
(*                                                                         *)
(* Every request runs on an event loop that other requests share, so it    *)
(* can be overtaken at every await.  A slot is one request in flight.  A   *)
(* step of a slot is the code from the end of one await to the next one:   *)
(* one statement of the database, or one write of the cache followed by    *)
(* the synchronous broadcast.  pc[s] names the await the request stands    *)
(* before; job[s] holds the locals that survive it.                        *)
(*                                                                         *)
(* A request that its first reads refuse changes nothing, so it has no     *)
(* action: the first reads of a handler are the guard of its first step.   *)
(* The project is one, roles do not change here (Membership models them),  *)
(* and `details' stands for title, description and priority together.      *)
(***************************************************************************)
EXTENDS Integers, Sequences, FiniteSets

CONSTANTS
  Tasks,        \* identifiers task.create may draw; each is drawn once
  Users,
  Slots,        \* requests that may be in flight at the same time
  None,         \* null, undefined, an empty answer of the database
  Role,         \* Role[u]: the role of u in the project, None for a stranger
  Details,
  Patches,      \* bodies of create and update that are sent
  Kinds,        \* Kinds[s]: the operations that slot s may serve
  Seeded,       \* the tasks that exist at the start
  Tolerance,    \* the 1000 ms of the conflict check, in units of the clock
  MaxClock,     \* bound on the clock
  MaxRequests,  \* bound on the requests served
  Faults        \* TRUE if a request may die at any of its awaits

Statuses   == {"TODO", "IN_PROGRESS", "REVIEW", "COMPLETED"}
Managing   == {"ADMIN", "MANAGER"}
Operations == {"create", "update", "remove", "addDependency", "removeDependency"}

\* The body of a request: "keep" is a field left undefined.
Patch == [status    : Statuses \cup {"keep"},
          assignee  : Users \cup {None, "keep"},
          details   : Details \cup {"keep"},
          lastKnown : Nat \cup {None}]

Row == [status : Statuses, assignee : Users \cup {None}, creator : Users,
        details : Details, updatedAt : Nat]

ASSUME TasksAssumption ==
  /\ Role \in [Users -> Managing \cup {"MEMBER", None}]
  /\ Kinds \in [Slots -> SUBSET Operations]
  /\ Patches \subseteq Patch
  /\ Seeded \subseteq Tasks
  /\ None \notin {"STATUS_CHANGED_ON_ASSIGNED_TASK", "TASK_ASSIGNED", "TASK_UPDATED"}
  /\ Tolerance \in Nat /\ MaxClock \in Nat /\ MaxRequests \in Nat
  /\ Faults \in BOOLEAN

VARIABLES
  used,      \* task identifiers ever drawn
  live,      \* tasks with a row in the database
  row,       \* row[t]: the row of t, meaningful while t is live
  deps,      \* task_dependencies: <<a, b>> when a is blocked by b
  feed,      \* feed[t]: the activities getHistory returns for t, oldest first
  notified,  \* the notifications created
  board,     \* the tasks a board that joined at the start and missed nothing shows
  pc, job,   \* the requests in flight
  served,    \* requests accepted so far
  clock      \* the time of the server

database == <<used, live, row, deps>>
outputs  == <<feed, notified, board>>
control  == <<pc, job, served>>
vars     == <<database, outputs, control, clock>>

Blockers(t) == {b \in Tasks : <<t, b>> \in deps}

----------------------------------------------------------------------------
(* Taking a slot, moving on in it and leaving it. *)

Begin(s, kind, stage, locals) ==
  /\ pc[s] = "idle" /\ kind \in Kinds[s] /\ served < MaxRequests
  /\ pc' = [pc EXCEPT ![s] = stage]
  /\ job' = [job EXCEPT ![s] = locals]
  /\ served' = served + 1

Continue(s, stage, locals) ==
  /\ pc' = [pc EXCEPT ![s] = stage]
  /\ job' = [job EXCEPT ![s] = IF stage = "idle" THEN None ELSE locals]
  /\ served' = served

Finish(s) == Continue(s, "idle", None)

(* What the handlers of useProjectRealtime.ts do to the list of tasks: a   *)
(* created task is added once, an updated one is merged if it is listed, a *)
(* null task throws before anything is changed, a deleted one is dropped.  *)
ShowCreated(t, r) == board' = [board EXCEPT ![t] = IF @ = None THEN r ELSE @]
ShowUpdated(t, r) == board' = [board EXCEPT ![t] = IF None \in {@, r} THEN @ ELSE r]
ShowDeleted(t)    == board' = [board EXCEPT ![t] = None]

----------------------------------------------------------------------------
(* create: insert; cache del and broadcast; log the activity. *)

NewRow(u, p) ==
  [status    |-> IF p.status = "keep" THEN "TODO" ELSE p.status,
   assignee  |-> IF p.assignee = "keep" THEN None ELSE p.assignee,
   creator   |-> u,
   details   |-> p.details,
   updatedAt |-> clock]

CreateInsert(s, u, t, p) ==
  /\ Role[u] # None
  /\ t \in Tasks \ used
  /\ p.details # "keep"
  /\ used' = used \cup {t}
  /\ live' = live \cup {t}
  /\ row'  = [row EXCEPT ![t] = NewRow(u, p)]
  /\ Begin(s, "create", "createEmit", [task |-> t, snap |-> NewRow(u, p)])
  /\ UNCHANGED <<deps, outputs, clock>>

CreateEmit(s) ==
  /\ pc[s] = "createEmit"
  /\ ShowCreated(job[s].task, job[s].snap)
  /\ Continue(s, "createLog", job[s])
  /\ UNCHANGED <<database, feed, notified, clock>>

Entry(kind, old, new) == [type |-> kind, old |-> old, new |-> new]

(* An activity refers to its task: once the task is gone the insert fails  *)
(* and the handler with it.                                                *)
Log(t, entry) == feed' = [feed EXCEPT ![t] = Append(@, entry)]

CreateLog(s) ==
  LET t == job[s].task IN
  /\ pc[s] = "createLog"
  /\ IF t \in live
       THEN Log(t, Entry("TASK_CREATED", None, None))
       ELSE UNCHANGED feed
  /\ Finish(s)
  /\ UNCHANGED <<database, notified, board, clock>>

----------------------------------------------------------------------------
(* update: read the task; read its blockers; compare the times; write;     *)
(* cache del and broadcast; log the changes; log the status; notify.       *)

MayEdit(u, r) == Role[u] \in Managing \/ (Role[u] # None /\ u \in {r.creator, r.assignee})

SendsStatus(p, r) == p.status \notin {"keep", r.status}

\* Variant: only a start is checked, a task may be completed while blocked.
ChecksStartsOnly(p, r) == SendsStatus(p, r) /\ p.status = "IN_PROGRESS"

ChecksBlockers(p, r) == SendsStatus(p, r) /\ p.status # "TODO"

\* Variant: the difference of the times is taken without its absolute value.
ConflictOneSided(p, r) == p.lastKnown # None /\ p.lastKnown - r.updatedAt > Tolerance

Conflict(p, r) ==
  /\ p.lastKnown # None
  /\ \/ r.updatedAt - p.lastKnown > Tolerance
     \/ p.lastKnown - r.updatedAt > Tolerance

Unresolved(t) == {b \in Blockers(t) : row[b].status # "COMPLETED"}

Patched(r, p, now) ==
  [r EXCEPT !.status    = IF p.status = "keep" THEN @ ELSE p.status,
            !.assignee  = IF p.assignee = "keep" THEN @ ELSE p.assignee,
            !.details   = IF p.details = "keep" THEN @ ELSE p.details,
            !.updatedAt = now]

UpdateRead(s, u, t, p) ==
  /\ t \in live
  /\ MayEdit(u, row[t])
  /\ p.lastKnown \in 0..clock \cup {None}
  /\ \/ ChecksBlockers(p, row[t])
     \/ ~Conflict(p, row[t])
  /\ Begin(s, "update",
           IF ChecksBlockers(p, row[t]) THEN "updateBlockers" ELSE "updateWrite",
           [user |-> u, task |-> t, patch |-> p, orig |-> row[t], snap |-> row[t]])
  /\ UNCHANGED <<database, outputs, clock>>

UpdateBlockers(s) ==
  /\ pc[s] = "updateBlockers"
  /\ IF Unresolved(job[s].task) = {} /\ ~Conflict(job[s].patch, job[s].orig)
       THEN Continue(s, "updateWrite", job[s])
       ELSE Finish(s)
  /\ UNCHANGED <<database, outputs, clock>>

UpdateWrite(s) ==
  LET j == job[s]
      r == Patched(row[j.task], j.patch, clock)
  IN
  /\ pc[s] = "updateWrite"
  /\ IF j.task \in live
       THEN /\ row' = [row EXCEPT ![j.task] = r]
            /\ Continue(s, "updateEmit", [j EXCEPT !.snap = r])
       ELSE /\ UNCHANGED row
            /\ Finish(s)
  /\ UNCHANGED <<used, live, deps, outputs, clock>>

(* What is logged and who is told is decided against the row that was read *)
(* at the start (originalTask), not the row that was overwritten.          *)
LogsChanges(j) == \/ j.patch.assignee \notin {"keep", j.orig.assignee}
                  \/ j.patch.details \notin {"keep", j.orig.details}

\* Variant: the assignee before the update is looked at, not the one after it.
NoticeForOld(j) ==
  IF j.orig.assignee \in {None, j.user} THEN None
  ELSE IF SendsStatus(j.patch, j.orig) THEN "STATUS_CHANGED_ON_ASSIGNED_TASK"
  ELSE IF j.patch.assignee \notin {"keep", j.orig.assignee} THEN "TASK_ASSIGNED"
  ELSE IF j.patch.details \notin {"keep", j.orig.details} THEN "TASK_UPDATED"
  ELSE None

Notice(j) ==
  IF j.snap.assignee \in {None, j.user} THEN None
  ELSE IF SendsStatus(j.patch, j.orig) THEN "STATUS_CHANGED_ON_ASSIGNED_TASK"
  ELSE IF j.patch.assignee \notin {"keep", j.orig.assignee} THEN "TASK_ASSIGNED"
  ELSE IF j.patch.details \notin {"keep", j.orig.details} THEN "TASK_UPDATED"
  ELSE None

ToNotify(j)    == IF Notice(j) # None THEN "updateNotify" ELSE "idle"
ToLogStatus(j) == IF SendsStatus(j.patch, j.orig) THEN "updateLogStatus" ELSE ToNotify(j)
ToLog(j)       == IF LogsChanges(j) THEN "updateLog" ELSE ToLogStatus(j)

UpdateEmit(s) ==
  /\ pc[s] = "updateEmit"
  /\ ShowUpdated(job[s].task, job[s].snap)
  /\ Continue(s, ToLog(job[s]), job[s])
  /\ UNCHANGED <<database, feed, notified, clock>>

UpdateLog(s) ==
  LET j == job[s] IN
  /\ pc[s] = "updateLog"
  /\ IF j.task \in live
       THEN /\ Log(j.task, Entry("TASK_UPDATED", j.orig.details, j.patch.details))
            /\ Continue(s, ToLogStatus(j), j)
       ELSE UNCHANGED feed /\ Finish(s)
  /\ UNCHANGED <<database, notified, board, clock>>

\* Variant: the old status is taken from the row that was written.
UpdateLogStatusLate(s) ==
  LET j == job[s] IN
  /\ pc[s] = "updateLogStatus"
  /\ IF j.task \in live
       THEN /\ Log(j.task, Entry("STATUS_CHANGED", j.snap.status, j.patch.status))
            /\ Continue(s, ToNotify(j), j)
       ELSE UNCHANGED feed /\ Finish(s)
  /\ UNCHANGED <<database, notified, board, clock>>

UpdateLogStatus(s) ==
  LET j == job[s]
      kind == IF j.patch.status = "COMPLETED" THEN "TASK_COMPLETED" ELSE "STATUS_CHANGED"
  IN
  /\ pc[s] = "updateLogStatus"
  /\ IF j.task \in live
       THEN /\ Log(j.task, Entry(kind, j.orig.status, j.patch.status))
            /\ Continue(s, ToNotify(j), j)
       ELSE UNCHANGED feed /\ Finish(s)
  /\ UNCHANGED <<database, notified, board, clock>>

UpdateNotify(s) ==
  LET j == job[s] IN
  /\ pc[s] = "updateNotify"
  /\ notified' = notified \cup {[to |-> j.snap.assignee, task |-> j.task, type |-> Notice(j)]}
  /\ Finish(s)
  /\ UNCHANGED <<database, feed, board, clock>>

----------------------------------------------------------------------------
(* remove: read the task; delete it; cache del and broadcast.  The rows    *)
(* that refer to it cascade: dependencies go, activities lose their task.  *)

RemoveRead(s, u, t) ==
  /\ t \in live
  /\ Role[u] \in Managing \/ (Role[u] # None /\ row[t].creator = u)
  /\ Begin(s, "remove", "removeDelete", [task |-> t])
  /\ UNCHANGED <<database, outputs, clock>>

\* Variant: only the dependencies of the task itself go, not those on it.
RemoveHalf(s) ==
  LET t == job[s].task IN
  /\ pc[s] = "removeDelete"
  /\ IF t \in live
       THEN /\ live' = live \ {t}
            /\ deps' = {d \in deps : t # d[1]}
            /\ feed' = [feed EXCEPT ![t] = <<>>]
            /\ Continue(s, "removeEmit", job[s])
       ELSE /\ UNCHANGED <<live, deps, feed>>
            /\ Finish(s)
  /\ UNCHANGED <<used, row, notified, board, clock>>

RemoveDelete(s) ==
  LET t == job[s].task IN
  /\ pc[s] = "removeDelete"
  /\ IF t \in live
       THEN /\ live' = live \ {t}
            /\ deps' = {d \in deps : t \notin {d[1], d[2]}}
            /\ feed' = [feed EXCEPT ![t] = <<>>]
            /\ Continue(s, "removeEmit", job[s])
       ELSE /\ UNCHANGED <<live, deps, feed>>
            /\ Finish(s)
  /\ UNCHANGED <<used, row, notified, board, clock>>

RemoveEmit(s) ==
  /\ pc[s] = "removeEmit"
  /\ ShowDeleted(job[s].task)
  /\ Finish(s)
  /\ UNCHANGED <<database, feed, notified, clock>>

----------------------------------------------------------------------------
(* addDependency: read both tasks; walk the blockers of the blocker; look  *)
(* for the row; insert it; read the task again; broadcast.                 *)

AddRead(s, u, a, b) ==
  /\ {a, b} \subseteq live
  /\ Role[u] \in Managing
  /\ a # b
  /\ Begin(s, "addDependency", "addVisit",
           [task |-> a, blocker |-> b, work |-> {b}, visited |-> {}])
  /\ UNCHANGED <<database, outputs, clock>>

\* Variant: only the blockers of the blocker are looked at.
VisitOnce(s) ==
  LET j == job[s] IN
  /\ pc[s] = "addVisit"
  /\ IF j.task \in Blockers(j.blocker) \cup {j.blocker}
       THEN Finish(s)
       ELSE Continue(s, "addFind", [j EXCEPT !.work = {}, !.visited = {j.blocker}])
  /\ UNCHANGED <<database, outputs, clock>>

(* isCircular: one call per task, each with a read of its own.  `work' is  *)
(* what the frames of the recursion have still to call; the order of the   *)
(* calls is left open, and a blocker that is the task itself ends the walk *)
(* at the read that returns it, not after the calls for its siblings.      *)
AddVisit(s) ==
  LET j == job[s] IN
  /\ pc[s] = "addVisit"
  /\ \E n \in j.work :
       LET visited == j.visited \cup {n}
           work    == (j.work \cup Blockers(n)) \ visited
       IN IF j.task \in Blockers(n) \cup {n}
            THEN Finish(s)
            ELSE Continue(s, IF work = {} THEN "addFind" ELSE "addVisit",
                          [j EXCEPT !.work = work, !.visited = visited])
  /\ UNCHANGED <<database, outputs, clock>>

AddFind(s) ==
  LET j == job[s] IN
  /\ pc[s] = "addFind"
  /\ Continue(s, IF <<j.task, j.blocker>> \in deps THEN "depReread" ELSE "addInsert", j)
  /\ UNCHANGED <<database, outputs, clock>>

(* The unique index and the two foreign keys make the insert fail.         *)
AddInsert(s) ==
  LET j == job[s] IN
  /\ pc[s] = "addInsert"
  /\ IF <<j.task, j.blocker>> \notin deps /\ {j.task, j.blocker} \subseteq live
       THEN /\ deps' = deps \cup {<<j.task, j.blocker>>}
            /\ Continue(s, "depReread", j)
       ELSE /\ UNCHANGED deps
            /\ Finish(s)
  /\ UNCHANGED <<used, live, row, outputs, clock>>

----------------------------------------------------------------------------
(* removeDependency: read the task; look for the row; delete it; read the  *)
(* task again; broadcast.                                                  *)

DropRead(s, u, a, b) ==
  /\ a \in live /\ b \in used
  /\ Role[u] \in Managing
  /\ Begin(s, "removeDependency", "dropFind", [task |-> a, blocker |-> b])
  /\ UNCHANGED <<database, outputs, clock>>

DropFind(s) ==
  LET j == job[s] IN
  /\ pc[s] = "dropFind"
  /\ Continue(s, IF <<j.task, j.blocker>> \in deps THEN "dropDelete" ELSE "depReread", j)
  /\ UNCHANGED <<database, outputs, clock>>

DropDelete(s) ==
  LET j == job[s] IN
  /\ pc[s] = "dropDelete"
  /\ IF <<j.task, j.blocker>> \in deps
       THEN /\ deps' = deps \ {<<j.task, j.blocker>>}
            /\ Continue(s, "depReread", j)
       ELSE /\ UNCHANGED deps
            /\ Finish(s)
  /\ UNCHANGED <<used, live, row, outputs, clock>>

\* Variant: what the request knows is broadcast, the task is not read again.
DepSkip(s) ==
  /\ pc[s] = "depReread"
  /\ Continue(s, "depEmit", job[s])
  /\ UNCHANGED <<database, outputs, clock>>

\* Variant: the read is repeated until it finds the task.
DepRetry(s) ==
  LET t == job[s].task IN
  /\ pc[s] = "depReread"
  /\ IF t \in live
       THEN Continue(s, "depEmit", [task |-> t, snap |-> row[t]])
       ELSE Continue(s, "depReread", job[s])
  /\ UNCHANGED <<database, outputs, clock>>

(* The end of both: the task as it is now, or null, is what is broadcast   *)
(* once the name of the user has been read too.                            *)
DepReread(s) ==
  LET t == job[s].task IN
  /\ pc[s] = "depReread"
  /\ Continue(s, "depEmit", [task |-> t, snap |-> IF t \in live THEN row[t] ELSE None])
  /\ UNCHANGED <<database, outputs, clock>>

DepEmit(s) ==
  /\ pc[s] = "depEmit"
  /\ ShowUpdated(job[s].task, job[s].snap)
  /\ Finish(s)
  /\ UNCHANGED <<database, feed, notified, clock>>

----------------------------------------------------------------------------
(* A rejected statement, a lost connection to the database or the cache:   *)
(* the handler throws at the await it stands before.                       *)
Fail(s) ==
  /\ Faults
  /\ pc[s] # "idle"
  /\ Finish(s)
  /\ UNCHANGED <<database, outputs, clock>>

Tick ==
  /\ clock < MaxClock
  /\ clock' = clock + 1
  /\ UNCHANGED <<database, outputs, control>>

\* The tasks that exist at the start: created by someone, assigned to nobody.
FirstRow == [status : {"TODO"}, assignee : {None}, creator : Users,
             details : Details, updatedAt : {0}]

Init ==
  /\ used = Seeded /\ live = Seeded
  /\ row \in [Tasks -> FirstRow]
  /\ deps = {}
  /\ feed = [t \in Tasks |->
               IF t \in Seeded THEN <<Entry("TASK_CREATED", None, None)>> ELSE <<>>]
  /\ notified = {}
  /\ board = [t \in Tasks |-> IF t \in Seeded THEN row[t] ELSE None]
  /\ pc = [s \in Slots |-> "idle"]
  /\ job = [s \in Slots |-> None]
  /\ served = 0
  /\ clock = 0

Arrive(s) ==
  \E u \in Users :
    \/ \E t \in Tasks, p \in Patches : CreateInsert(s, u, t, p)
    \/ \E t \in Tasks, p \in Patches : UpdateRead(s, u, t, p)
    \/ \E t \in Tasks : RemoveRead(s, u, t)
    \/ \E a, b \in Tasks : AddRead(s, u, a, b)
    \/ \E a, b \in Tasks : DropRead(s, u, a, b)

Step(s) ==
  \/ CreateEmit(s) \/ CreateLog(s)
  \/ UpdateBlockers(s) \/ UpdateWrite(s) \/ UpdateEmit(s)
  \/ UpdateLog(s) \/ UpdateLogStatus(s) \/ UpdateNotify(s)
  \/ RemoveDelete(s) \/ RemoveEmit(s)
  \/ AddVisit(s) \/ AddFind(s) \/ AddInsert(s)
  \/ DropFind(s) \/ DropDelete(s)
  \/ DepReread(s) \/ DepEmit(s)

Next == Tick \/ \E s \in Slots : Arrive(s) \/ Step(s) \/ Fail(s)

Spec == Init /\ [][Next]_vars

(* A request in flight goes on: the runtime resumes every await.           *)
FairSpec == Spec /\ \A s \in Slots : WF_vars(Step(s))

----------------------------------------------------------------------------
(* Properties. *)

UpdateStages == {"updateBlockers", "updateWrite", "updateEmit", "updateLog",
                 "updateLogStatus", "updateNotify"}
SearchStages == {"addVisit", "addFind", "addInsert"}
DropStages   == {"dropFind", "dropDelete"}
Stages == {"idle", "createEmit", "createLog", "removeDelete", "removeEmit",
           "depReread", "depEmit"} \cup UpdateStages \cup SearchStages \cup DropStages

UpdateJob == [user : Users, task : Tasks, patch : Patches, orig : Row, snap : Row]
SearchJob == [task : Tasks, blocker : Tasks, work : SUBSET Tasks, visited : SUBSET Tasks]
PairJob   == [task : Tasks, blocker : Tasks]
TaskJob   == [task : Tasks]
SnapJob   == [task : Tasks, snap : Row]
NullJob   == [task : Tasks, snap : {None}]

\* The locals of a request that stands at a stage.
Fits(stage, locals) ==
  /\ stage \in {"createEmit", "createLog"} => locals \in SnapJob
  /\ stage \in UpdateStages => locals \in UpdateJob
  /\ stage \in {"removeDelete", "removeEmit"} => locals \in TaskJob
  /\ stage \in SearchStages => locals \in SearchJob
  /\ stage \in DropStages => locals \in PairJob
  /\ stage = "depReread" => locals \in SearchJob \cup PairJob
  /\ stage = "depEmit" => locals \in SnapJob \cup NullJob

SlotsOK ==
  /\ pc \in [Slots -> Stages]
  /\ DOMAIN job = Slots
  /\ \A s \in Slots : Fits(pc[s], job[s])
  /\ served \in Nat

(* Every row, dependency and request in flight has the shape the handlers  *)
(* rely on, and the database never holds a task with an undrawn identifier.*)
TypeOK ==
  /\ used \subseteq Tasks /\ live \subseteq used
  /\ row \in [Tasks -> Row]
  /\ deps \subseteq Tasks \X Tasks
  /\ DOMAIN feed = Tasks
  /\ DOMAIN board = Tasks
  /\ SlotsOK
  /\ clock \in Nat

(* No dependency survives a task it names, whichever of the insert, the    *)
(* delete of the dependency and the delete of the task comes first.        *)
DepsLive == \A d \in deps : d[1] \in live /\ d[2] \in live

(* "Circular dependencies are not allowed": no set of tasks in which every *)
(* one waits for another of the set, so some task can always be completed. *)
NoCircle(E) ==
  \A S \in SUBSET Tasks : S # {} => \E t \in S : \A b \in S : <<t, b>> \notin E

Acyclic == NoCircle(deps)

(* Why it holds as long as one request at a time adds dependencies: what   *)
(* the walk has visited is closed under blockers up to the work left, it   *)
(* holds the blocker and never the task itself.                            *)
WalkSound ==
  \A s \in Slots : pc[s] \in SearchStages =>
    LET j == job[s]
        seen == j.visited \cup j.work
    IN /\ j.blocker \in seen /\ j.task \notin seen
       /\ \A n \in j.visited : Blockers(n) \subseteq seen
       /\ pc[s] # "addVisit" => j.work = {}

\* At most one slot serves these operations.
OneServes(operations) ==
  \A p, q \in Slots :
    Kinds[p] \cap operations # {} /\ Kinds[q] \cap operations # {} => p = q

(* Strict blocking: at the moment a task leaves for a status other than    *)
(* TODO, everything that blocks it is completed.                           *)
StartsUnblocked ==
  [][\A t \in live :
       row'[t].status \notin {row[t].status, "TODO"} => Unresolved(t) = {}]_vars

(* Why it holds as long as one slot moves tasks and adds dependencies: up  *)
(* to its write, the status that update read and the answer to its check   *)
(* of the blockers are still true of the task, unless the task is gone.    *)
CheckStands ==
  \A s \in Slots : pc[s] \in {"updateBlockers", "updateWrite"} =>
    LET j == job[s] IN
    /\ j.task \in used
    /\ j.task \in live =>
         /\ j.orig.status = row[j.task].status
         /\ pc[s] = "updateWrite" /\ ChecksBlockers(j.patch, j.orig)
              => Unresolved(j.task) = {}

Apart(x, y) == IF x < y THEN y - x ELSE x - y

(* Optimistic concurrency: the row a checked update overwrites is at most  *)
(* Tolerance away from the one its client had loaded.                      *)
NoBlindOverwrite ==
  [][\A s \in Slots :
       /\ pc[s] = "updateWrite" /\ pc'[s] = "updateEmit"
       /\ job[s].patch.lastKnown # None
       => Apart(row[job[s].task].updatedAt, job[s].patch.lastKnown) <= Tolerance]_vars

Quiet == \A s \in Slots : pc[s] = "idle"

Moves(f) == {i \in 1..Len(f) : f[i].type \in {"STATUS_CHANGED", "TASK_COMPLETED"}}

\* Every status change in history f starts where the one before it ended.
Chained(f) ==
  \A i, k \in Moves(f) :
    i < k /\ (\A m \in Moves(f) : m <= i \/ k <= m) => f[k].old = f[i].new

\* The last status change in history f, if there is one, ends at st.
EndsAt(f, st) == \A i \in Moves(f) : (\A m \in Moves(f) : m <= i) => f[i].new = st

(* The history of a task is its history: each status change starts where   *)
(* the one before ended, and once all is quiet the last one ends where the *)
(* task is.                                                                *)
AuditTrail ==
  \A t \in live : Chained(feed[t]) /\ (Quiet => EndsAt(feed[t], row[t].status))

(* An edit that hands a task to somebody else has told them of the task by *)
(* the time it is answered, also when the same edit moves or rewords it.   *)
(* Who is named when a task is created is told nothing, hence the update.  *)
AssigneeTold ==
  [][\A s \in Slots :
       /\ pc[s] \in UpdateStages \ {"updateBlockers", "updateWrite"}
       /\ pc'[s] = "idle" /\ job[s].task \in live
       => LET j == job[s]
              v == row[j.task].assignee
          IN v \in {None, j.user, j.orig.assignee}
             \/ \E n \in notified' : n.to = v /\ n.task = j.task]_vars

(* Every request is answered, the walk of isCircular included.             *)
RequestsFinish == \A s \in Slots : pc[s] # "idle" ~> pc[s] = "idle"

(* As long as one slot moves tasks and adds dependencies, tasks, statuses  *)
(* and dependencies are those of Workflow.                                 *)
StatusOf(t) == IF t \in live THEN row[t].status ELSE "none"

Flow == INSTANCE Workflow WITH
  tasks     <- live,
  status    <- [t \in Tasks |-> StatusOf(t)],
  blockedBy <- deps

KeepsWorkflow == Flow!Spec
=============================================================================
