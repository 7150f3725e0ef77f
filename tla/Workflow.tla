------------------------------ MODULE Workflow ------------------------------
(* What README.md promises of the tasks of a project: "Strict blocked-by   *)
(* enforcement (cannot start a task until blocking tasks are resolved)     *)
(* with circular dependency protection".                                   *)

CONSTANTS Tasks, Statuses

VARIABLES
  tasks,     \* the tasks that exist
  status,    \* status[t]: the status of t, "none" unless t exists
  blockedBy  \* <<a, b>> when a is blocked by b

workflow == <<tasks, status, blockedBy>>

\* Some tasks all wait for one of themselves, so none of them can ever start.
Circular(E) ==
  \E S \in SUBSET Tasks : S # {} /\ \A t \in S : \E b \in S : <<t, b>> \in E

Blocked(t) == \E b \in Tasks : <<t, b>> \in blockedBy /\ status[b] # "COMPLETED"

Create(t, st) ==
  /\ t \notin tasks
  /\ tasks' = tasks \cup {t}
  /\ status' = [status EXCEPT ![t] = st]
  /\ UNCHANGED blockedBy

Move(t, st) ==
  /\ t \in tasks
  /\ st = "TODO" \/ ~Blocked(t)
  /\ status' = [status EXCEPT ![t] = st]
  /\ UNCHANGED <<tasks, blockedBy>>

Block(a, b) ==
  /\ a \in tasks /\ b \in tasks
  /\ blockedBy' = blockedBy \cup {<<a, b>>}
  /\ ~Circular(blockedBy')
  /\ UNCHANGED <<tasks, status>>

Unblock(a, b) ==
  /\ blockedBy' = blockedBy \ {<<a, b>>}
  /\ UNCHANGED <<tasks, status>>

Remove(t) ==
  /\ t \in tasks
  /\ tasks' = tasks \ {t}
  /\ status' = [status EXCEPT ![t] = "none"]
  /\ blockedBy' = {d \in blockedBy : t \notin {d[1], d[2]}}

Init ==
  /\ tasks \subseteq Tasks
  /\ status = [t \in Tasks |-> IF t \in tasks THEN "TODO" ELSE "none"]
  /\ blockedBy = {}

Next ==
  \/ \E t \in Tasks, st \in Statuses : Create(t, st) \/ Move(t, st)
  \/ \E a, b \in Tasks : Block(a, b) \/ Unblock(a, b)
  \/ \E t \in Tasks : Remove(t)

Spec == Init /\ [][Next]_workflow
=============================================================================
