---------------------------- MODULE Attachments ----------------------------
(***************************************************************************)
(* The images of one task and the files of its project: a directory and a  *)
(* table that no transaction holds together                                *)
(* (backend/src/task-images/task-images.service.ts,                        *)
(* backend/src/projects/project-files.service.ts).                         *)
(*                                                                         *)
(* An upload is known by the place of its stored name in `stored'.         *)
(***************************************************************************)
EXTENDS PanelTab

VARIABLES
  stored,  \* who uploaded, for every name ever given to a file
  disk,    \* the names in the directories
  rows,    \* rows[p]: the names with a row of part p
  strays,  \* history: names of failed or refused uploads and failed unlinks
  torn,    \* history: names of images whose deletion died after the unlink
  orphans  \* history: names whose rows went with their task or project

fileRows == <<stored, disk, rows, strays, torn, orphans>>

\* Variant: a file is unlinked first, like an image.
StepsSame ==
  [images |-> <<"unlink", "deleteRow", "imageLoad">>,
   files  |-> <<"unlink", "deleteRow", "deleteEmit">>]

\* The awaits of a deletion, in their order.
Steps ==
  [images |-> <<"unlink", "deleteRow", "imageLoad">>,
   files  |-> <<"deleteRow", "unlink", "deleteEmit">>]

Following(s) ==
  LET steps == Steps[job[s].part]
      i == CHOOSE n \in 1..2 : steps[n] = pc[s]
  IN  steps[i + 1]

----------------------------------------------------------------------------
(* Uploading.  The interceptor has stored the file when the handler runs.  *)

Upload(s, u, p) ==
  /\ Begin(s, u, p, Len(stored) + 1, "uploadInsert")
  /\ stored' = Append(stored, u)
  /\ disk' = disk \cup {Len(stored) + 1}
  /\ UNCHANGED <<rows, strays, torn, orphans, inbox, answers, tab>>

\* The handler refuses, and nobody removes the file.
UploadRefused(u) ==
  /\ u \notin Managers \/ gone # {}
  /\ served < MaxRequests
  /\ served' = served + 1
  /\ stored' = Append(stored, u)
  /\ disk' = disk \cup {Len(stored) + 1}
  /\ strays' = strays \cup {Len(stored) + 1}
  /\ UNCHANGED <<pc, job, rows, torn, orphans, inbox, answers, tab>>

UploadInsert(s) ==
  LET p == job[s].part IN
  /\ pc[s] = "uploadInsert"
  /\ IF p \in gone
       THEN strays' = strays \cup {job[s].item} /\ UNCHANGED rows /\ Refuse(s)
       ELSE /\ rows' = [rows EXCEPT ![p] = @ \cup {job[s].item}]
            /\ Write(s, p, "uploadLoad")
            /\ UNCHANGED <<strays, inbox, answers>>
  /\ UNCHANGED <<stored, disk, torn, orphans, tab>>

\* All images of the task, or the new files.
UploadLoad(s) ==
  LET p == job[s].part IN
  /\ pc[s] = "uploadLoad"
  /\ Load(s, "uploadEmit", IF p = "images" THEN rows[p] ELSE rows[p] \cap {job[s].item})
  /\ UNCHANGED <<fileRows, inbox, answers, tab>>

Event(s, kind) ==
  [kind |-> kind, item |-> job[s].item, data |-> job[s].data, raced |-> job[s].raced]

UploadEmit(s) ==
  /\ pc[s] = "uploadEmit"
  /\ inbox' = Append(inbox, Event(s, IF job[s].part = "images" THEN "images" ELSE "uploaded"))
  /\ Reply(s, {}, job[s].data \cap {job[s].item}, {})
  /\ Leave(s)
  /\ UNCHANGED <<fileRows, tab>>

----------------------------------------------------------------------------
(* The rows of these parts go with their owner: no handler unlinks a file. *)
Cascade(parts) ==
  /\ rows' = [p \in DOMAIN rows |-> IF p \in parts THEN {} ELSE rows[p]]
  /\ orphans' = orphans \cup UNION {rows[p] : p \in parts \cap DOMAIN rows}
  /\ UNCHANGED <<stored, disk, strays, torn>>

----------------------------------------------------------------------------
(* Deleting.  An unlink that fails is logged and forgotten.                *)

Drop(s, u, p, name) ==
  /\ name \in rows[p] /\ (stored[name] = u \/ u \in Managers)
  /\ Begin(s, u, p, name, Steps[p][1])
  /\ UNCHANGED <<fileRows, inbox, answers, tab>>

Unlink(s) ==
  /\ pc[s] = "unlink"
  /\ \/ disk' = disk \ {job[s].item} /\ UNCHANGED strays
     \/ Faults /\ strays' = strays \cup {job[s].item} /\ UNCHANGED disk
  /\ Go(s, Following(s))
  /\ UNCHANGED <<stored, rows, torn, orphans, inbox, answers, tab>>

DeleteRow(s) ==
  LET p == job[s].part IN
  /\ pc[s] = "deleteRow"
  /\ IF job[s].item \in rows[p]
       THEN /\ rows' = [rows EXCEPT ![p] = @ \ {job[s].item}]
            /\ Write(s, p, Following(s))
            /\ UNCHANGED <<inbox, answers>>
       ELSE UNCHANGED rows /\ Refuse(s)
  /\ UNCHANGED <<stored, disk, strays, torn, orphans, tab>>

ImageLoad(s) ==
  /\ pc[s] = "imageLoad"
  /\ Load(s, "imageEmit", rows.images)
  /\ UNCHANGED <<fileRows, inbox, answers, tab>>

DeleteEmit(s) ==
  /\ pc[s] \in {"imageEmit", "deleteEmit"}
  /\ inbox' = Append(inbox, Event(s, IF pc[s] = "imageEmit" THEN "images" ELSE "deleted"))
  /\ Reply(s, {}, {}, {job[s].item})
  /\ Leave(s)
  /\ UNCHANGED <<fileRows, tab>>

(* An image and a file of the user of the tab.                             *)
AttachmentsInit ==
  /\ stored = <<Me, Me>> /\ disk = {1, 2}
  /\ rows = [images |-> {1}, files |-> {2}]
  /\ strays = {} /\ torn = {} /\ orphans = {}

AttachmentsNext ==
  \/ \E s \in Slots, u \in Users, p \in {"images", "files"} :
       Upload(s, u, p) \/ \E name \in rows[p] : Drop(s, u, p, name)
  \/ \E u \in Users : UploadRefused(u)
  \/ \E s \in Slots :
       \/ UploadInsert(s) \/ UploadLoad(s) \/ UploadEmit(s)
       \/ Unlink(s) \/ DeleteRow(s) \/ ImageLoad(s) \/ DeleteEmit(s)

(***************************************************************************)
(* The two disagree about a name only while a request is between its two   *)
(* steps for it, or after one died or was refused there, or once its row   *)
(* went with the task or the project.  A row of a project file never lacks *)
(* its file, and a row of an image lacks it only when a deletion died: the *)
(* two deletions go in opposite order.                                     *)
(***************************************************************************)
DiskMatches ==
  LET At(name, stages) == \E s \in Slots : job[s].item = name /\ pc[s] \in stages
      listed == rows.images \cup rows.files
  IN  /\ \A name \in listed \ disk :
           name \in rows.images /\ (At(name, {"deleteRow"}) \/ name \in torn)
      /\ \A name \in disk \ listed :
           At(name, {"uploadInsert", "unlink"}) \/ name \in strays \cup orphans

(* SCHEMA.md says of the deletion of a task that the files of its images   *)
(* are deleted on the disk: once it is over none is left.                  *)
ImagesUnlinked ==
  gone = Parts \ {"files"} /\ (\A s \in Slots : pc[s] = "idle") => orphans \cap disk = {}
=============================================================================
