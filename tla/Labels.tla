------------------------------- MODULE Labels -------------------------------
(***************************************************************************)
(* The labels of a project and of one of its tasks                         *)
(* (backend/src/labels/labels.service.ts).  The panel and the board show   *)
(* the labels of the task; the list of the project's labels is left out.   *)
(***************************************************************************)
EXTENDS PanelTab

CONSTANT Names  \* the labels, each known by its row

VARIABLES
  label,  \* label[l]: how often l was changed, 0 once it is deleted
  tags    \* the labels of the task

labelRows == <<label, tags>>

TaskLabels == {[id |-> l, version |-> label[l]] : l \in tags}

----------------------------------------------------------------------------
(* The end of every handler here and of two in Comments: the task is read, *)
(* and with the name of the user at hand it is broadcast.  No event tells  *)
(* of a task that is gone, and no answer matters then.                     *)

LoadTask(s) ==
  /\ pc[s] = "taskLoad"
  /\ IF "labels" \in gone THEN Refuse(s)
     ELSE Load(s, "taskEmit", TaskLabels) /\ UNCHANGED <<inbox, answers>>
  /\ UNCHANGED <<labelRows, tab>>

TaskEvent(s) ==
  [kind |-> "task", item |-> 0, data |-> job[s].data, raced |-> job[s].raced]

EmitTask(s) ==
  /\ pc[s] = "taskEmit" /\ job[s].part = "labels"
  /\ inbox' = Append(inbox, TaskEvent(s))
  /\ Reply(s, {"labels"}, {}, {})
  /\ Leave(s)
  /\ UNCHANGED <<labelRows, tab>>

----------------------------------------------------------------------------
(* addLabelToTask and removeLabelFromTask: look, change, tell.             *)

Tag(s, u, l) ==
  /\ label[l] > 0
  /\ Begin(s, u, "labels", l, IF l \in tags THEN "taskLoad" ELSE "tagWrite")
  /\ UNCHANGED <<labelRows, inbox, answers, tab>>

TagWrite(s) ==
  LET l == job[s].item IN
  /\ pc[s] = "tagWrite"
  /\ IF label[l] > 0 /\ l \notin tags /\ "labels" \notin gone
       THEN tags' = tags \cup {l} /\ Write(s, "labels", "taskLoad") /\ UNCHANGED <<inbox, answers>>
       ELSE UNCHANGED tags /\ Refuse(s)
  /\ UNCHANGED <<label, tab>>

Untag(s, u, l) ==
  /\ Begin(s, u, "labels", l, IF l \in tags THEN "untagWrite" ELSE "taskLoad")
  /\ UNCHANGED <<labelRows, inbox, answers, tab>>

UntagWrite(s) ==
  LET l == job[s].item IN
  /\ pc[s] = "untagWrite"
  /\ IF l \in tags
       THEN tags' = tags \ {l} /\ Write(s, "labels", "taskLoad") /\ UNCHANGED <<inbox, answers>>
       ELSE UNCHANGED tags /\ Refuse(s)
  /\ UNCHANGED <<label, tab>>

----------------------------------------------------------------------------
(* Labels are changed and deleted on the settings page, which is not this  *)
(* tab.  update: change the label, look whether the task has it, tell.     *)

Rename(s, u, l) ==
  /\ u \in Managers \ {Me} /\ label[l] > 0 /\ pc[s] = "idle" /\ served < MaxRequests
  /\ label' = [label EXCEPT ![l] = @ + 1]
  /\ pc' = [pc EXCEPT ![s] = "renameFind"]
  /\ job' = [q \in Slots |->
               IF q = s THEN [NoJob EXCEPT !.user = u, !.item = l]
               ELSE [job[q] EXCEPT !.raced = @ \/ Holds(q, "labels")]]
  /\ served' = served + 1
  /\ UNCHANGED <<tags, inbox, answers, tab>>

RenameFind(s) ==
  /\ pc[s] = "renameFind"
  /\ IF job[s].item \in tags THEN Go(s, "taskLoad") ELSE Leave(s)
  /\ UNCHANGED <<labelRows, inbox, answers, tab>>

(* delete: look whether the task has it, delete the label and with it what *)
(* refers to it, tell.  A task that got the label in between is told       *)
(* nothing.                                                                *)
Discard(s, u, l) ==
  /\ u \in Managers \ {Me} /\ label[l] > 0
  /\ Begin(s, u, "labels", l, IF l \in tags THEN "discardTagged" ELSE "discardFree")
  /\ UNCHANGED <<labelRows, inbox, answers, tab>>

DiscardWrite(s) ==
  LET l == job[s].item IN
  /\ pc[s] \in {"discardTagged", "discardFree"}
  /\ IF label[l] = 0
       THEN UNCHANGED <<labelRows, tab>> /\ Refuse(s)
       ELSE /\ label' = [label EXCEPT ![l] = 0]
            /\ tags' = tags \ {l}
            /\ Write(s, "labels", IF pc[s] = "discardTagged" THEN "taskLoad" ELSE "idle")
            /\ IF pc[s] = "discardFree" /\ l \in tags THEN Blur({"labels"})
               ELSE UNCHANGED <<blurred, crossed, inbox, answers>>
            /\ UNCHANGED <<query, cached, failures>>

----------------------------------------------------------------------------
(* update of tasks.service.ts: its answer and its event carry the labels   *)
(* that the write found.  The panel (updateMutation) drops its fetch of    *)
(* the task and keeps what it shows, to put it back if the update fails.   *)

\* What the panel shows of the task, and for which of its updates it is kept.
Shown == [labels |-> cached.labels, nr |-> served]

Save(s, u) ==
  /\ Take(s, [NoJob EXCEPT !.user = u, !.back = IF u = Me THEN {Shown} ELSE {}], "saveWrite")
  /\ query' = IF u = Me THEN [query EXCEPT !.labels = NoQuery] ELSE query
  /\ UNCHANGED <<labelRows, inbox, answers, cached, crossed, blurred, failures>>

SaveWrite(s) ==
  /\ pc[s] = "saveWrite"
  /\ IF "labels" \in gone
       THEN Leave(s) /\ failures' = failures \cup job[s].back
       ELSE Load(s, "saveEmit", TaskLabels) /\ UNCHANGED failures
  /\ UNCHANGED <<labelRows, inbox, answers, query, cached, crossed, blurred>>

EmitSaved(s) ==
  /\ pc[s] = "saveEmit"
  /\ inbox' = Append(inbox, TaskEvent(s))
  /\ Go(s, "saveEnd")
  /\ UNCHANGED <<labelRows, answers, tab>>

\* The log and the notices are seen to, and the answer is sent.
SaveEnd(s) ==
  /\ pc[s] = "saveEnd"
  /\ Reply(s, {"labels"}, {}, {})
  /\ Leave(s)
  /\ UNCHANGED <<labelRows, inbox, tab>>

LabelsInit == label = [l \in Names |-> 1] /\ tags \in SUBSET Names

LabelsNext ==
  \/ \E s \in Slots, u \in Users, l \in Names :
       Tag(s, u, l) \/ Untag(s, u, l) \/ Rename(s, u, l) \/ Discard(s, u, l)
  \/ \E s \in Slots, u \in Users : Save(s, u)
  \/ \E s \in Slots :
       \/ TagWrite(s) \/ UntagWrite(s) \/ RenameFind(s) \/ DiscardWrite(s)
       \/ LoadTask(s) \/ EmitTask(s) \/ SaveWrite(s) \/ EmitSaved(s) \/ SaveEnd(s)
=============================================================================
