----------------------------- MODULE TaskPanel -----------------------------
(***************************************************************************)
(* The panel of a task with its comments, labels and images, and the files *)
(* of its project, in the tab of one member while others work on them      *)
(* (frontend/src/app/dashboard/projects/[projectId]/components/            *)
(* task-detail-panel.tsx, files/page.tsx).                                 *)
(***************************************************************************)
EXTENDS Comments, Attachments

vars == <<requests, inbox, answers, tab, gone, labelRows, commentRows, fileRows>>

\* What the queries read: list of comments, images and files, get of tasks.
Truth ==
  [comments |-> comments, reactions |-> reactions, labels |-> TaskLabels,
   images |-> rows.images, files |-> rows.files]

AnswerQuery(k) ==
  /\ Answer(k, Truth)
  /\ UNCHANGED <<gone, labelRows, commentRows, fileRows>>

(* A request dies between two awaits: what it wrote stays, what it had     *)
(* still to tell is not told.  An update of the task changes nothing that  *)
(* the panel must be told, and may be refused.                             *)
Fail(s) ==
  LET name == job[s].item
      p == job[s].part
  IN
  /\ pc[s] # "idle" /\ (Faults \/ pc[s] = "saveWrite")
  /\ strays' = IF pc[s] = "uploadInsert" \/ (pc[s] = "unlink" /\ p = "files")
               THEN strays \cup {name} ELSE strays
  /\ torn' = IF pc[s] = "deleteRow" /\ p = "images" THEN torn \cup {name} ELSE torn
  /\ IF pc[s] \in {"mention", "saveWrite", "saveEmit", "saveEnd"}
       THEN UNCHANGED <<blurred, crossed, inbox, answers>>
       ELSE Blur({p} \cup IF p = "comments" THEN {"reactions"} ELSE {})
  /\ failures' = failures \cup job[s].back
  /\ Leave(s)
  /\ UNCHANGED <<query, cached, gone, labelRows, commentRows, stored, disk, rows, orphans>>

(* remove of tasks.service.ts, and of projects.service.ts: the database    *)
(* deletes what refers to the row.                                         *)
RemoveTask ==
  /\ served < MaxRequests /\ gone = {}
  /\ served' = served + 1
  /\ gone' = Parts \ {"files"}
  /\ tags' = {} /\ comments' = {} /\ reactions' = {}
  /\ Cascade(gone')
  /\ UNCHANGED <<pc, job, inbox, answers, tab, label, drawn>>

RemoveProject ==
  /\ served < MaxRequests /\ "files" \notin gone
  /\ served' = served + 1
  /\ gone' = Parts
  /\ tags' = {} /\ comments' = {} /\ reactions' = {}
  /\ label' = [l \in Names |-> 0]
  /\ Cascade(gone')
  /\ UNCHANGED <<pc, job, inbox, answers, tab, drawn>>

Init ==
  /\ TabInit /\ CommentsInit /\ AttachmentsInit
  /\ cached = Truth

Next ==
  \/ CommentsNext /\ UNCHANGED <<gone, fileRows>>
  \/ AttachmentsNext /\ UNCHANGED <<gone, labelRows, commentRows>>
  \/ TabNext /\ UNCHANGED <<gone, labelRows, commentRows, fileRows>>
  \/ \E k \in Queries : AnswerQuery(k)
  \/ \E s \in Slots : Fail(s)
  \/ RemoveTask \/ RemoveProject

Spec == Init /\ [][Next]_vars

(***************************************************************************)
(* Once nothing is under way the tab shows the database, for what is not   *)
(* deleted, but for parts that one of these has touched since they were    *)
(* last fetched: a request that died before it told the others; a query    *)
(* for comments, or the answer to a change of one, that failed; a list     *)
(* that was read before another write and sent after it; an event that a   *)
(* slower fetch, or the roll back of an update, has overwritten.  The      *)
(* texts of others' comments are not told, and may be old.                 *)
(***************************************************************************)
PanelSettles ==
  LET Texts(C) == {IF c.author = Me THEN c ELSE [c EXCEPT !.text = 0] : c \in C}
  IN
  AtRest => \A p \in Parts \ (blurred \cup gone) :
              IF p = "comments" THEN Texts(cached[p]) = Texts(comments)
              ELSE cached[p] = Truth[p]
=============================================================================
