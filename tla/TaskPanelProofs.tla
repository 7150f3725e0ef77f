-------------------------- MODULE TaskPanelProofs --------------------------
(* What TaskPanel guarantees of the files on disk and their rows, for      *)
(* every number of users, requests, labels, comments and uploads.          *)
EXTENDS TaskPanel, SequenceTheorems, TLAPS

\* The stages between the two steps of a request for one name.
Critical == {"uploadInsert", "unlink", "deleteRow"}
Kinds  == {"images", "files"}
Given  == 1..Len(stored)
Listed == rows.images \cup rows.files
Foreign(p) == IF p = "images" THEN rows.files ELSE rows.images

\* What is needed of a request: it has a part and an item.
IsJob(j) == {"part", "item"} \subseteq DOMAIN j

JobsShaped ==
  /\ DOMAIN pc = Slots /\ DOMAIN job = Slots
  /\ \A s \in Slots : IsJob(job[s])

FilesType ==
  /\ JobsShaped
  /\ \A s \in Slots : pc[s] \in Critical => job[s].part \in Kinds /\ job[s].item \in Given
  /\ stored \in Seq(Users) /\ disk \subseteq Given
  /\ rows = [images |-> rows.images, files |-> rows.files]
  /\ Listed \subseteq Given

(* A name belongs to one part, and only one request is to insert its row.  *)
OneOwner ==
  /\ rows.images \cap rows.files = {}
  /\ \A s \in Slots : pc[s] \in Critical => job[s].item \notin Foreign(job[s].part)
  /\ \A s, q \in Slots :
       s # q /\ pc[s] = "uploadInsert" /\ pc[q] \in Critical => job[s].item # job[q].item

(* What the first step of each request has left for the second.            *)
HalfDone ==
  \A s \in Slots :
    LET name == job[s].item IN
    /\ pc[s] = "uploadInsert" => name \in disk \ Listed
    /\ pc[s] = "unlink" /\ job[s].part = "files" => name \notin Listed
    /\ pc[s] = "unlink" /\ job[s].part = "images" =>
         name \in rows.images \/ name \notin disk \/ name \in strays \cup orphans
    /\ pc[s] = "deleteRow" /\ job[s].part = "images" => name \notin disk \/ name \in strays

DiskInv == FilesType /\ OneOwner /\ HalfDone /\ DiskMatches

----------------------------------------------------------------------------
(* What the steps that the handlers share do to the slots.                 *)

\* Slot q is where it was, with the same name.
Still(q) == pc'[q] = pc[q] /\ job'[q].part = job[q].part /\ job'[q].item = job[q].item
OthersStill(s) == \A q \in Slots \ {s} : Still(q)
\* Slot q has nothing to do with the files.
Elsewhere(q) == pc[q] \notin Critical /\ pc'[q] \notin Critical

LEMMA JobEdited ==
  ASSUME NEW j, IsJob(j), NEW u, NEW part, NEW item, NEW value
  PROVE  /\ LET r == [j EXCEPT !.raced = value]
            IN  IsJob(r) /\ r.part = j.part /\ r.item = j.item
         /\ LET r == [j EXCEPT !.data = value]
            IN  IsJob(r) /\ r.part = j.part /\ r.item = j.item
         /\ LET r == [j EXCEPT !.user = u, !.part = part, !.item = item]
            IN  IsJob(r) /\ r.part = part /\ r.item = item
BY DEF IsJob

LEMMA GoStep ==
  ASSUME JobsShaped, NEW s \in Slots, NEW stage, Go(s, stage)
  PROVE  /\ JobsShaped' /\ OthersStill(s)
         /\ pc'[s] = stage /\ job'[s] = job[s]
BY DEF Go, JobsShaped, IsJob, OthersStill, Still

(* Slot s has a new request or stage, and the others keep theirs.          *)
LEMMA JobSet ==
  ASSUME JobsShaped, NEW s \in Slots, NEW stage, pc' = [pc EXCEPT ![s] = stage],
         NEW r, IsJob(r), job' = [job EXCEPT ![s] = r]
  PROVE  /\ JobsShaped' /\ OthersStill(s)
         /\ pc'[s] = stage /\ job'[s] = r
<1>1. /\ DOMAIN pc' = Slots /\ DOMAIN job' = Slots /\ pc'[s] = stage /\ job'[s] = r
      /\ \A q \in Slots \ {s} : pc'[q] = pc[q] /\ job'[q] = job[q]
  BY DEF JobsShaped
<1>2. \A q \in Slots : IsJob(job'[q])
  BY <1>1 DEF JobsShaped
<1> QED
  BY <1>1, <1>2 DEF JobsShaped, IsJob, OthersStill, Still

LEMMA LoadStep ==
  ASSUME JobsShaped, NEW s \in Slots, NEW stage, NEW data, Load(s, stage, data)
  PROVE  /\ JobsShaped' /\ OthersStill(s)
         /\ pc'[s] = stage /\ job'[s].part = job[s].part /\ job'[s].item = job[s].item
<1> DEFINE r == [job[s] EXCEPT !.data = data]
<1>1. pc' = [pc EXCEPT ![s] = stage] /\ job' = [job EXCEPT ![s] = r]
  BY DEF Load
<1>2. IsJob(r) /\ r.part = job[s].part /\ r.item = job[s].item
  BY DEF JobsShaped, IsJob
<1> HIDE DEF r
<1> QED
  BY <1>1, <1>2, JobSet

LEMMA WriteStep ==
  ASSUME JobsShaped, NEW s \in Slots, NEW part, NEW stage, Write(s, part, stage)
  PROVE  /\ JobsShaped' /\ OthersStill(s)
         /\ pc'[s] = stage /\ job'[s] = job[s]
<1>1. /\ pc' = [pc EXCEPT ![s] = stage]
      /\ job' = [q \in Slots |-> IF q # s /\ Holds(q, part) THEN [job[q] EXCEPT !.raced = TRUE]
                                 ELSE job[q]]
  BY DEF Write
<1>2. ASSUME NEW q \in Slots
      PROVE  LET r == [job[q] EXCEPT !.raced = TRUE]
             IN  IsJob(r) /\ r.part = job[q].part /\ r.item = job[q].item
  BY DEF JobsShaped, IsJob
<1>3. /\ job'[s] = job[s]
      /\ pc'[s] = stage /\ \A q \in Slots \ {s} : pc'[q] = pc[q]
      /\ DOMAIN pc' = Slots /\ DOMAIN job' = Slots
  BY <1>1 DEF JobsShaped
<1>4. \A q \in Slots : job'[q] = job[q] \/ job'[q] = [job[q] EXCEPT !.raced = TRUE]
  BY <1>1
<1>5. \A q \in Slots : IsJob(job'[q]) /\ job'[q].part = job[q].part /\ job'[q].item = job[q].item
  BY <1>2, <1>4 DEF JobsShaped
<1> QED
  BY <1>3, <1>5 DEF JobsShaped, IsJob, OthersStill, Still

LEMMA LeaveStep ==
  ASSUME JobsShaped, NEW s \in Slots, Leave(s)
  PROVE  JobsShaped' /\ OthersStill(s) /\ pc'[s] = "idle"
<1>1. IsJob(NoJob)
  BY DEF IsJob, NoJob
<1> QED
  BY <1>1, JobSet DEF Leave

LEMMA BeginStep ==
  ASSUME JobsShaped, NEW s \in Slots, NEW u, NEW part, NEW item, NEW stage,
         Begin(s, u, part, item, stage)
  PROVE  /\ JobsShaped' /\ OthersStill(s) /\ pc[s] = "idle"
         /\ pc'[s] = stage /\ job'[s].part = part /\ job'[s].item = item
<1> DEFINE r == [NoJob EXCEPT !.user = u, !.part = part, !.item = item]
<1>1. pc[s] = "idle" /\ pc' = [pc EXCEPT ![s] = stage] /\ job' = [job EXCEPT ![s] = r]
  BY DEF Begin, Take
<1>2. IsJob(NoJob)
  BY DEF IsJob, NoJob
<1>3. IsJob(r) /\ r.part = part /\ r.item = item
  BY <1>2 DEF IsJob
<1> HIDE DEF r
<1> QED
  BY <1>1, <1>3, JobSet

----------------------------------------------------------------------------
(* The steps that leave the files alone.                                   *)

LEMMA FilesUntouched ==
  ASSUME DiskInv, JobsShaped', UNCHANGED <<stored, disk, rows>>,
         strays \subseteq strays', torn \subseteq torn', orphans \subseteq orphans',
         \A q \in Slots : Still(q) \/ Elsewhere(q)
  PROVE  DiskInv'
<1> USE DEF DiskInv
<1>1. \A q \in Slots : pc'[q] \in Critical => Still(q) /\ pc[q] \in Critical
  BY DEF Still, Elsewhere
<1>2. \A q \in Slots : pc[q] \in Critical => Still(q)
  BY DEF Elsewhere
<1>3. FilesType'
  BY <1>1 DEF FilesType, Given, Listed, Still
<1>4. OneOwner'
  BY <1>1 DEF OneOwner, Foreign, Still, Critical
<1>5. HalfDone'
  BY <1>1 DEF HalfDone, Listed, Still, Critical
<1>6. DiskMatches'
  BY <1>2 DEF DiskMatches, Still, Critical
<1> QED
  BY <1>3, <1>4, <1>5, <1>6

LEMMA LabelSteps ==
  ASSUME DiskInv, LabelsNext, UNCHANGED fileRows
  PROVE  DiskInv'
<1>1. JobsShaped
  BY DEF DiskInv, FilesType
<1>2. ASSUME NEW s \in Slots, JobsShaped', OthersStill(s),
             pc[s] \notin Critical, pc'[s] \notin Critical
      PROVE  DiskInv'
  BY <1>2, FilesUntouched DEF OthersStill, Elsewhere, fileRows
<1>3. ASSUME NEW s \in Slots, NEW u \in Users, NEW l \in Names,
             Tag(s, u, l) \/ Untag(s, u, l) \/ Discard(s, u, l)
      PROVE  DiskInv'
  BY <1>1, <1>2, <1>3, BeginStep DEF Tag, Untag, Discard, Critical
<1>4. ASSUME NEW s \in Slots, NEW u \in Users, NEW l \in Names, Rename(s, u, l)
      PROVE  DiskInv'
  <2>1. pc[s] = "idle" /\ pc' = [pc EXCEPT ![s] = "renameFind"]
    BY <1>4 DEF Rename
  <2>2. job' = [q \in Slots |->
                  IF q = s THEN [NoJob EXCEPT !.user = u, !.item = l]
                  ELSE [job[q] EXCEPT !.raced = @ \/ Holds(q, "labels")]]
    BY <1>4 DEF Rename
  <2>3. IsJob([NoJob EXCEPT !.user = u, !.item = l])
    BY DEF IsJob, NoJob
  <2>4. ASSUME NEW q \in Slots \ {s}
        PROVE  IsJob(job'[q]) /\ job'[q].part = job[q].part /\ job'[q].item = job[q].item
    BY <1>1, <2>2 DEF JobsShaped, IsJob
  <2>5. JobsShaped' /\ OthersStill(s) /\ pc'[s] = "renameFind"
    BY <1>1, <2>1, <2>2, <2>3, <2>4 DEF JobsShaped, OthersStill, Still
  <2> QED
    BY <1>2, <2>1, <2>5 DEF Critical
<1>5. ASSUME NEW s \in Slots,
             TagWrite(s) \/ UntagWrite(s) \/ DiscardWrite(s)
      PROVE  DiskInv'
  BY <1>1, <1>2, <1>5, WriteStep, LeaveStep DEF TagWrite, UntagWrite, DiscardWrite, Refuse, Critical
<1>6. ASSUME NEW s \in Slots, RenameFind(s) \/ LoadTask(s) \/ EmitTask(s)
      PROVE  DiskInv'
  BY <1>1, <1>2, <1>6, GoStep, LoadStep, LeaveStep DEF RenameFind, LoadTask, EmitTask, Refuse, Critical
<1>7. ASSUME NEW s \in Slots, NEW u \in Users, Save(s, u) PROVE DiskInv'
  <2> DEFINE r == [NoJob EXCEPT !.user = u, !.back = IF u = Me THEN {Shown} ELSE {}]
  <2>1. pc[s] = "idle" /\ pc' = [pc EXCEPT ![s] = "saveWrite"] /\ job' = [job EXCEPT ![s] = r]
    BY <1>7 DEF Save, Take
  <2>2. IsJob(r)
    BY DEF IsJob, NoJob
  <2> HIDE DEF r
  <2>3. JobsShaped' /\ OthersStill(s) /\ pc'[s] = "saveWrite"
    BY <1>1, <2>1, <2>2, JobSet
  <2> QED
    BY <1>2, <2>1, <2>3 DEF Critical
<1>8. ASSUME NEW s \in Slots, SaveWrite(s) \/ EmitSaved(s) \/ SaveEnd(s) PROVE DiskInv'
  BY <1>1, <1>2, <1>8, GoStep, LoadStep, LeaveStep DEF SaveWrite, EmitSaved, SaveEnd, Critical
<1> QED
  BY <1>3, <1>4, <1>5, <1>6, <1>7, <1>8 DEF LabelsNext

LEMMA CommentSteps ==
  ASSUME DiskInv, CommentsNext, UNCHANGED fileRows
  PROVE  DiskInv'
<1>1. JobsShaped
  BY DEF DiskInv, FilesType
<1>2. ASSUME NEW s \in Slots, JobsShaped', OthersStill(s),
             pc[s] \notin Critical, pc'[s] \notin Critical
      PROVE  DiskInv'
  BY <1>2, FilesUntouched DEF OthersStill, Elsewhere, fileRows
<1>3. ASSUME NEW s \in Slots, NEW u \in Users, Comment(s, u)
      PROVE  DiskInv'
  BY <1>1, <1>2, <1>3, BeginStep DEF Comment, Critical
<1>4. ASSUME NEW s \in Slots, NEW u \in Users, NEW id \in Ids,
             Edit(s, u, id) \/ Delete(s, u, id) \/ Toggle(s, u, id)
      PROVE  DiskInv'
  BY <1>1, <1>2, <1>4, BeginStep DEF Edit, Delete, Toggle, Critical
<1>5. ASSUME NEW s \in Slots, EmitCommented(s) \/ Mention(s) \/ ToggleLoad(s) \/ EmitReactions(s)
      PROVE  DiskInv'
  BY <1>1, <1>2, <1>5, GoStep, LoadStep, LeaveStep
     DEF EmitCommented, Mention, ToggleLoad, EmitReactions, Critical
<1>6. ASSUME NEW s \in Slots, EditWrite(s) \/ DeleteWrite(s) \/ ToggleWrite(s)
      PROVE  DiskInv'
  BY <1>1, <1>2, <1>6, WriteStep, LeaveStep DEF EditWrite, DeleteWrite, ToggleWrite, Refuse, Critical
<1> QED
  BY <1>3, <1>4, <1>5, <1>6, LabelSteps DEF CommentsNext

LEMMA TabSteps ==
  ASSUME DiskInv,
         \/ TabNext /\ UNCHANGED fileRows
         \/ \E k \in Queries : AnswerQuery(k)
         \/ UNCHANGED vars
  PROVE  DiskInv'
<1>1. UNCHANGED <<requests, fileRows>>
  BY DEF TabNext, Hear, Show, QueryFails, Receive, AnswerLost, RollBack, AnswerQuery, Answer, vars
<1>2. JobsShaped' /\ \A q \in Slots : Still(q)
  BY <1>1 DEF DiskInv, FilesType, JobsShaped, Still, requests, IsJob
<1> QED
  BY <1>1, <1>2, FilesUntouched DEF fileRows

----------------------------------------------------------------------------
(* The steps about files.                                                  *)

LEMMA NamesGrow ==
  ASSUME FilesType, NEW u \in Users, stored' = Append(stored, u)
  PROVE  /\ stored' \in Seq(Users) /\ Given' = Given \cup {Len(stored) + 1}
         /\ Len(stored) + 1 \notin Given
<1>1. Len(stored) \in Nat /\ stored' \in Seq(Users) /\ Len(stored') = Len(stored) + 1
  BY AppendProperties, LenProperties DEF FilesType
<1> QED
  BY <1>1 DEF Given

LEMMA UploadStep ==
  ASSUME DiskInv, NEW s \in Slots, NEW u \in Users, NEW p \in Kinds, Upload(s, u, p)
  PROVE  DiskInv'
<1> DEFINE n == Len(stored) + 1
<1> USE DEF DiskInv
<1>1. /\ Begin(s, u, p, n, "uploadInsert")
      /\ stored' = Append(stored, u) /\ disk' = disk \cup {n}
      /\ UNCHANGED <<rows, strays, torn, orphans>>
  BY DEF Upload
<1>2. stored' \in Seq(Users) /\ Given' = Given \cup {n} /\ n \notin Given
  BY <1>1, NamesGrow
<1> HIDE DEF n
<1>3. /\ JobsShaped' /\ OthersStill(s) /\ pc[s] = "idle"
      /\ pc'[s] = "uploadInsert" /\ job'[s].part = p /\ job'[s].item = n
  BY <1>1, BeginStep DEF FilesType
<1>4. FilesType'
  BY <1>1, <1>2, <1>3 DEF FilesType, Listed, OthersStill, Still
<1>5. \A q \in Slots \ {s} : pc'[q] \in Critical => job'[q].item \in Given
  BY <1>3 DEF FilesType, OthersStill, Still
<1>6. OneOwner'
  <2>1. rows'.images \cap rows'.files = {} /\ n \notin rows'.images \cup rows'.files
    BY <1>1, <1>2 DEF OneOwner, FilesType, Listed
  <2>2. \A q \in Slots : pc'[q] \in Critical => job'[q].item \notin Foreign(job[q].part)'
    BY <1>1, <1>3, <2>1 DEF OneOwner, OthersStill, Still, Foreign
  <2>3. \A q, r \in Slots :
          q # r /\ pc'[q] = "uploadInsert" /\ pc'[r] \in Critical => job'[q].item # job'[r].item
    BY <1>2, <1>3, <1>5 DEF OneOwner, OthersStill, Still, Critical
  <2> QED
    BY <2>1, <2>2, <2>3 DEF OneOwner
<1>7. HalfDone'
  <2>1. n \in disk' \ Listed'
    BY <1>1, <1>2 DEF FilesType, Listed
  <2>2. ASSUME NEW q \in Slots \ {s} PROVE HalfDone!(q)'
    BY <1>1, <1>2, <1>3, <1>5 DEF HalfDone, OthersStill, Still, Listed, Critical
  <2> QED
    BY <1>3, <2>1, <2>2 DEF HalfDone
<1>8. DiskMatches'
  BY <1>1, <1>3 DEF DiskMatches, OthersStill, Still
<1> QED
  BY <1>4, <1>6, <1>7, <1>8

LEMMA UploadRefusedStep ==
  ASSUME DiskInv, NEW u \in Users, UploadRefused(u)
  PROVE  DiskInv'
<1> DEFINE n == Len(stored) + 1
<1> USE DEF DiskInv
<1>1. /\ stored' = Append(stored, u) /\ disk' = disk \cup {n} /\ strays' = strays \cup {n}
      /\ UNCHANGED <<pc, job, rows, torn, orphans>>
  BY DEF UploadRefused
<1>2. stored' \in Seq(Users) /\ Given' = Given \cup {n} /\ n \notin Given
  BY <1>1, NamesGrow
<1> HIDE DEF n
<1>3. FilesType'
  BY <1>1, <1>2 DEF FilesType, Listed, JobsShaped, IsJob
<1>4. OneOwner'
  BY <1>1 DEF OneOwner, Foreign
<1>5. HalfDone'
  BY <1>1, <1>2 DEF HalfDone, FilesType, Listed, Critical
<1>6. DiskMatches'
  BY <1>1 DEF DiskMatches
<1> QED
  BY <1>3, <1>4, <1>5, <1>6

LEMMA UploadInsertStep ==
  ASSUME DiskInv, NEW s \in Slots, UploadInsert(s), job[s].part \notin gone
  PROVE  DiskInv'
<1> USE DEF DiskInv
<1> DEFINE p == job[s].part
           name == job[s].item
<1>1. /\ pc[s] = "uploadInsert" /\ rows' = [rows EXCEPT ![p] = @ \cup {name}]
      /\ Write(s, p, "uploadLoad") /\ UNCHANGED <<stored, disk, strays, torn, orphans>>
  BY DEF UploadInsert
<1>2. p \in Kinds /\ name \in Given /\ name \in disk \ Listed
  BY <1>1 DEF FilesType, Critical, HalfDone
<1>3. JobsShaped' /\ OthersStill(s) /\ pc'[s] = "uploadLoad"
  BY <1>1, WriteStep DEF FilesType
<1>4. \A q \in Slots : pc'[q] \in Critical =>
        q # s /\ Still(q) /\ pc[q] \in Critical /\ job[q].item # name
  BY <1>1, <1>3 DEF OneOwner, OthersStill, Still, Critical
<1>5. /\ rows' = [images |-> rows'.images, files |-> rows'.files]
      /\ \/ p = "images" /\ rows'.images = rows.images \cup {name} /\ rows'.files = rows.files
         \/ p = "files" /\ rows'.files = rows.files \cup {name} /\ rows'.images = rows.images
  BY <1>1, <1>2 DEF FilesType, Kinds
<1> HIDE DEF p, name
<1>6. FilesType'
  BY <1>1, <1>2, <1>3, <1>4, <1>5 DEF FilesType, Listed, Still, Given
<1>7. OneOwner'
  BY <1>2, <1>4, <1>5 DEF OneOwner, Foreign, Still, Listed, Critical
<1>8. HalfDone'
  BY <1>1, <1>4, <1>5 DEF HalfDone, Listed, Still, Critical
<1>9. DiskMatches'
  <2>1. \A q \in Slots : q # s => Still(q)
    BY <1>3 DEF OthersStill
  <2>2. name = job[s].item
    BY DEF name
  <2> QED
    BY <1>1, <1>2, <1>5, <2>1, <2>2 DEF DiskMatches, Listed, Still
<1> QED
  BY <1>6, <1>7, <1>8, <1>9

LEMMA DropStep ==
  ASSUME DiskInv, NEW s \in Slots, NEW u \in Users, NEW p \in Kinds, NEW name \in rows[p],
         Drop(s, u, p, name)
  PROVE  DiskInv'
<1> USE DEF DiskInv
<1> DEFINE stage == IF p = "images" THEN "unlink" ELSE "deleteRow"
<1>1. Begin(s, u, p, name, stage) /\ UNCHANGED fileRows
  BY DEF Drop, Steps, Kinds
<1>2. /\ JobsShaped' /\ OthersStill(s) /\ pc[s] = "idle"
      /\ pc'[s] = stage /\ job'[s].part = p /\ job'[s].item = name
  BY <1>1, BeginStep DEF FilesType
<1>3. UNCHANGED <<stored, disk, rows, strays, torn, orphans>>
  BY <1>1 DEF fileRows
<1>4. /\ p = "images" => name \in rows.images /\ name \notin rows.files
      /\ p = "files" => name \in rows.files /\ name \notin rows.images
      /\ name \in Given /\ name \in Listed
  BY DEF OneOwner, FilesType, Listed, Kinds
<1>5. FilesType'
  BY <1>2, <1>3, <1>4 DEF FilesType, Listed, Given, OthersStill, Still
<1>6. OneOwner'
  <2>1. \A q \in Slots : pc'[q] \in Critical => job'[q].item \notin Foreign(job[q].part)'
    BY <1>2, <1>3, <1>4 DEF OneOwner, OthersStill, Still, Foreign, Kinds
  <2>2. \A q \in Slots : pc'[q] = "uploadInsert" => q # s /\ Still(q) /\ job'[q].item # name
    BY <1>2, <1>4 DEF HalfDone, OthersStill, Still
  <2>3. \A q, r \in Slots :
          q # r /\ pc'[q] = "uploadInsert" /\ pc'[r] \in Critical => job'[q].item # job'[r].item
    BY <1>2, <2>2 DEF OneOwner, OthersStill, Still
  <2> QED
    BY <1>3, <2>1, <2>3 DEF OneOwner
<1>7. HalfDone'
  <2>1. ASSUME NEW q \in Slots \ {s} PROVE HalfDone!(q)'
    BY <1>2, <1>3 DEF HalfDone, OthersStill, Still, Listed
  <2> QED
    BY <1>2, <1>3, <1>4, <2>1 DEF HalfDone, Kinds
<1>8. DiskMatches'
  BY <1>2, <1>3 DEF DiskMatches, OthersStill, Still
<1> QED
  BY <1>5, <1>6, <1>7, <1>8

LEMMA FollowingIs ==
  ASSUME NEW s \in Slots, job[s].part \in Kinds
  PROVE  /\ pc[s] = "unlink" =>
              Following(s) = IF job[s].part = "images" THEN "deleteRow" ELSE "deleteEmit"
         /\ pc[s] = "deleteRow" =>
              Following(s) = IF job[s].part = "images" THEN "imageLoad" ELSE "unlink"
<1>1. CASE job[s].part = "images"
  <2> DEFINE steps == Steps[job[s].part]
  <2>1. steps[1] = "unlink" /\ steps[2] = "deleteRow" /\ steps[3] = "imageLoad"
    BY <1>1 DEF Steps
  <2>2. /\ pc[s] = "unlink" => (CHOOSE n \in 1..2 : steps[n] = pc[s]) = 1
        /\ pc[s] = "deleteRow" => (CHOOSE n \in 1..2 : steps[n] = pc[s]) = 2
    <3> HIDE DEF steps
    <3>1. 1..2 = {1, 2}
      OBVIOUS
    <3> QED
      BY <2>1, <3>1
  <2> QED
    BY <1>1, <2>1, <2>2 DEF Following
<1>2. CASE job[s].part = "files"
  <2> DEFINE steps == Steps[job[s].part]
  <2>1. steps[1] = "deleteRow" /\ steps[2] = "unlink" /\ steps[3] = "deleteEmit"
    BY <1>2 DEF Steps
  <2>2. /\ pc[s] = "unlink" => (CHOOSE n \in 1..2 : steps[n] = pc[s]) = 2
        /\ pc[s] = "deleteRow" => (CHOOSE n \in 1..2 : steps[n] = pc[s]) = 1
    <3> HIDE DEF steps
    <3>1. 1..2 = {1, 2}
      OBVIOUS
    <3> QED
      BY <2>1, <3>1
  <2> QED
    BY <1>2, <2>1, <2>2 DEF Following
<1> QED
  BY <1>1, <1>2 DEF Kinds

LEMMA UnlinkStep ==
  ASSUME DiskInv, NEW s \in Slots, Unlink(s)
  PROVE  DiskInv'
<1> USE DEF DiskInv
<1> DEFINE name == job[s].item
<1>1. /\ pc[s] = "unlink" /\ Go(s, Following(s)) /\ UNCHANGED <<stored, rows, torn, orphans>>
      /\ \/ disk' = disk \ {name} /\ strays' = strays
         \/ disk' = disk /\ strays' = strays \cup {name}
  BY DEF Unlink
<1>2. /\ job[s].part \in Kinds /\ name \in Given /\ name \notin Foreign(job[s].part)
      /\ job[s].part = "files" => name \notin Listed
  BY <1>1 DEF FilesType, OneOwner, HalfDone, Critical
<1>3. /\ JobsShaped' /\ OthersStill(s) /\ job'[s] = job[s]
      /\ pc'[s] = IF job[s].part = "images" THEN "deleteRow" ELSE "deleteEmit"
  BY <1>1, <1>2, GoStep, FollowingIs DEF FilesType
<1>4. name \notin disk' \/ name \in strays'
  BY <1>1
<1>5. \A q \in Slots : pc'[q] \in Critical =>
        pc[q] \in Critical /\ job'[q].part = job[q].part /\ job'[q].item = job[q].item
  BY <1>1, <1>3 DEF OthersStill, Still, Critical
<1>6. \A q \in Slots : pc'[q] = "uploadInsert" =>
        q # s /\ pc[q] = "uploadInsert" /\ job[q].item # name
  BY <1>1, <1>3 DEF OthersStill, Still, OneOwner, Critical
<1>7. name = job[s].item
  OBVIOUS
<1> HIDE DEF name
<1>8. FilesType'
  BY <1>1, <1>3, <1>5 DEF FilesType, Listed, Given
<1>9. OneOwner'
  BY <1>1, <1>5, <1>6 DEF OneOwner, Foreign, Critical
<1>10. HalfDone'
  <2>1. ASSUME NEW q \in Slots \ {s} PROVE HalfDone!(q)'
    BY <1>1, <1>3, <1>6 DEF HalfDone, OthersStill, Still, Listed
  <2>2. HalfDone!(s)'
    BY <1>1, <1>3, <1>4, <1>7
  <2> QED
    BY <2>1, <2>2 DEF HalfDone
<1>11. DiskMatches'
  <2>1. ASSUME NEW other \in Listed \ disk'
        PROVE  /\ other \in rows.images
               /\ (\E q \in Slots : job'[q].item = other /\ pc'[q] = "deleteRow") \/ other \in torn
    <3>1. CASE other = name
      BY <1>2, <1>3, <1>7, <2>1, <3>1 DEF Listed, Foreign, Kinds
    <3>2. CASE other # name
      BY <1>1, <1>3, <2>1, <3>2 DEF DiskMatches, Listed, OthersStill, Still
    <3> QED
      BY <3>1, <3>2
  <2>2. ASSUME NEW other \in disk' \ Listed
        PROVE  \/ \E q \in Slots : job'[q].item = other /\ pc'[q] \in {"uploadInsert", "unlink"}
               \/ other \in strays' \cup orphans
    <3>1. CASE other = name
      BY <1>4, <2>2, <3>1
    <3>2. CASE other # name
      BY <1>1, <1>3, <1>7, <2>2, <3>2 DEF DiskMatches, Listed, OthersStill, Still
    <3> QED
      BY <3>1, <3>2
  <2> QED
    BY <1>1, <2>1, <2>2 DEF DiskMatches, Listed
<1> QED
  BY <1>8, <1>9, <1>10, <1>11

LEMMA DeleteRowStep ==
  ASSUME DiskInv, NEW s \in Slots, DeleteRow(s), job[s].item \in rows[job[s].part]
  PROVE  DiskInv'
<1> USE DEF DiskInv
<1> DEFINE p == job[s].part
           name == job[s].item
<1>1. /\ pc[s] = "deleteRow" /\ rows' = [rows EXCEPT ![p] = @ \ {name}]
      /\ Write(s, p, Following(s)) /\ UNCHANGED <<stored, disk, strays, torn, orphans>>
  BY DEF DeleteRow
<1>2. /\ p \in Kinds /\ name \in Given /\ name \notin Foreign(p)
      /\ p = "images" => name \notin disk \/ name \in strays
  BY <1>1 DEF FilesType, OneOwner, HalfDone, Critical
<1>3. /\ JobsShaped' /\ OthersStill(s) /\ job'[s] = job[s]
      /\ pc'[s] = IF p = "images" THEN "imageLoad" ELSE "unlink"
  BY <1>1, <1>2, WriteStep, FollowingIs DEF FilesType
<1>4. /\ rows' = [images |-> rows'.images, files |-> rows'.files]
      /\ \/ p = "images" /\ rows'.images = rows.images \ {name} /\ rows'.files = rows.files
         \/ p = "files" /\ rows'.files = rows.files \ {name} /\ rows'.images = rows.images
  BY <1>1, <1>2 DEF FilesType, Kinds
<1>5. \A q \in Slots : pc'[q] \in Critical =>
        pc[q] \in Critical /\ job'[q].part = job[q].part /\ job'[q].item = job[q].item
  BY <1>1, <1>3 DEF OthersStill, Still, Critical
<1>6. \A q \in Slots : pc'[q] = "uploadInsert" => q # s /\ pc[q] = "uploadInsert"
  BY <1>1, <1>3 DEF OthersStill, Still
<1>7. name = job[s].item /\ p = job[s].part
  OBVIOUS
<1>8. Listed' = Listed \ {name}
  BY <1>2, <1>4 DEF Listed, Foreign, Kinds
<1> HIDE DEF p, name
<1>9. FilesType'
  BY <1>1, <1>3, <1>4, <1>5, <1>8 DEF FilesType, Given
<1>10. OneOwner'
  BY <1>4, <1>5, <1>6 DEF OneOwner, Foreign, Critical
<1>11. HalfDone'
  <2>1. ASSUME NEW q \in Slots \ {s} PROVE HalfDone!(q)'
    <3>1. HalfDone!(q) /\ Still(q)
      BY <1>3 DEF HalfDone, OthersStill
    <3>2. CASE job[q].item = name
      <4>1. pc[q] = "unlink" /\ job[q].part = "images" => p = "images"
        BY <1>2, <1>7, <3>2 DEF OneOwner, Foreign, Critical, Kinds
      <4> QED
        BY <1>1, <1>2, <1>4, <1>8, <3>1, <3>2, <4>1 DEF Still
    <3>3. CASE job[q].item # name
      BY <1>1, <1>4, <1>8, <3>1, <3>3 DEF Still
    <3> QED
      BY <3>2, <3>3
  <2>2. HalfDone!(s)'
    BY <1>2, <1>3, <1>7, <1>8 DEF Kinds
  <2> QED
    BY <2>1, <2>2 DEF HalfDone
<1>12. DiskMatches'
  <2>1. ASSUME NEW other \in Listed' \ disk
        PROVE  /\ other \in rows'.images
               /\ (\E q \in Slots : job'[q].item = other /\ pc'[q] = "deleteRow") \/ other \in torn
    BY <1>1, <1>3, <1>4, <1>7, <1>8, <2>1 DEF DiskMatches, Listed, OthersStill, Still
  <2>2. ASSUME NEW other \in disk \ Listed'
        PROVE  \/ \E q \in Slots : job'[q].item = other /\ pc'[q] \in {"uploadInsert", "unlink"}
               \/ other \in strays \cup orphans
    <3>1. CASE other = name
      BY <1>2, <1>3, <1>7, <2>2, <3>1 DEF Kinds
    <3>2. CASE other # name
      BY <1>1, <1>3, <1>8, <2>2, <3>2 DEF DiskMatches, Listed, OthersStill, Still
    <3> QED
      BY <3>1, <3>2
  <2> QED
    BY <1>1, <2>1, <2>2 DEF DiskMatches, Listed
<1> QED
  BY <1>9, <1>10, <1>11, <1>12

(* A request ends, or dies, between its two steps: what it leaves behind   *)
(* is told by torn and strays.                                             *)
LEMMA LeftStep ==
  ASSUME DiskInv, NEW s \in Slots, Leave(s), UNCHANGED <<stored, disk, rows>>,
         strays \subseteq strays', torn \subseteq torn', orphans \subseteq orphans',
         pc[s] = "uploadInsert" => job[s].item \in strays',
         pc[s] = "unlink" /\ job[s].part = "files" => job[s].item \in strays',
         pc[s] = "deleteRow" /\ job[s].part = "images" =>
           job[s].item \in torn' \/ job[s].item \notin rows.images
  PROVE  DiskInv'
<1> USE DEF DiskInv
<1>1. JobsShaped' /\ OthersStill(s) /\ pc'[s] = "idle"
  BY LeaveStep DEF FilesType
<1>2. \A q \in Slots : pc'[q] \in Critical => q # s /\ Still(q) /\ pc[q] \in Critical
  BY <1>1 DEF OthersStill, Still, Critical
<1>3. FilesType'
  BY <1>1, <1>2 DEF FilesType, Given, Listed, Still
<1>4. OneOwner'
  BY <1>2 DEF OneOwner, Foreign, Still, Critical
<1>5. HalfDone'
  BY <1>2 DEF HalfDone, Listed, Still, Critical
<1>6. DiskMatches'
  <2>1. ASSUME NEW name \in Listed \ disk
        PROVE  /\ name \in rows.images
               /\ (\E q \in Slots : job'[q].item = name /\ pc'[q] = "deleteRow") \/ name \in torn'
    <3>1. /\ name \in rows.images
          /\ (\E q \in Slots : job[q].item = name /\ pc[q] = "deleteRow") \/ name \in torn
      BY <2>1 DEF DiskMatches, Listed
    <3>2. ASSUME job[s].item = name, pc[s] = "deleteRow" PROVE name \in torn'
      BY <3>1, <3>2 DEF OneOwner, FilesType, Foreign, Critical, Kinds
    <3> QED
      BY <1>1, <3>1, <3>2 DEF OthersStill, Still
  <2>2. ASSUME NEW name \in disk \ Listed
        PROVE  \/ \E q \in Slots : job'[q].item = name /\ pc'[q] \in {"uploadInsert", "unlink"}
               \/ name \in strays' \cup orphans'
    <3>1. \/ \E q \in Slots : job[q].item = name /\ pc[q] \in {"uploadInsert", "unlink"}
          \/ name \in strays \cup orphans
      BY <2>2 DEF DiskMatches, Listed
    <3>2. ASSUME job[s].item = name, pc[s] \in {"uploadInsert", "unlink"}
          PROVE  name \in strays' \cup orphans'
      BY <2>2, <3>2 DEF HalfDone, FilesType, Listed, Critical, Kinds
    <3> QED
      BY <1>1, <3>1, <3>2 DEF OthersStill, Still
  <2> QED
    BY <2>1, <2>2 DEF DiskMatches, Listed
<1> QED
  BY <1>3, <1>4, <1>5, <1>6

LEMMA FileSteps ==
  ASSUME DiskInv, AttachmentsNext
  PROVE  DiskInv'
<1>1. JobsShaped
  BY DEF DiskInv, FilesType
<1>2. ASSUME NEW s \in Slots, UploadLoad(s) \/ UploadEmit(s) \/ ImageLoad(s) \/ DeleteEmit(s)
      PROVE  DiskInv'
  <2>1. JobsShaped' /\ OthersStill(s) /\ pc[s] \notin Critical /\ pc'[s] \notin Critical
    BY <1>1, <1>2, LoadStep, LeaveStep DEF UploadLoad, UploadEmit, ImageLoad, DeleteEmit, Critical
  <2>2. UNCHANGED <<stored, disk, rows, strays, torn, orphans>>
    BY <1>2 DEF UploadLoad, UploadEmit, ImageLoad, DeleteEmit, fileRows
  <2> QED
    BY <2>1, <2>2, FilesUntouched DEF OthersStill, Elsewhere
<1>4. ASSUME NEW s \in Slots, UploadInsert(s) PROVE DiskInv'
  <2>1. CASE job[s].part \in gone
    <3>1. /\ pc[s] = "uploadInsert" /\ Leave(s) /\ strays' = strays \cup {job[s].item}
          /\ UNCHANGED <<stored, disk, rows, torn, orphans>>
      BY <1>4, <2>1 DEF UploadInsert, Refuse
    <3> QED
      BY <3>1, LeftStep
  <2> QED
    BY <1>4, <2>1, UploadInsertStep
<1>3. ASSUME NEW s \in Slots, DeleteRow(s) PROVE DiskInv'
  <2>1. CASE job[s].item \in rows[job[s].part]
    BY <1>3, <2>1, DeleteRowStep
  <2>2. CASE job[s].item \notin rows[job[s].part]
    <3>1. /\ pc[s] = "deleteRow" /\ Leave(s)
          /\ UNCHANGED <<stored, disk, rows, strays, torn, orphans>>
      BY <1>3, <2>2 DEF DeleteRow, Refuse
    <3>2. job[s].part = "images" => job[s].item \notin rows.images
      BY <2>2
    <3> QED
      BY <3>1, <3>2, LeftStep
  <2> QED
    BY <2>1, <2>2
<1> QED
  BY <1>2, <1>3, <1>4, UploadStep, UploadRefusedStep, DropStep, UnlinkStep
     DEF AttachmentsNext, Kinds

LEMMA FailStep ==
  ASSUME DiskInv, NEW s \in Slots, Fail(s)
  PROVE  DiskInv'
BY LeftStep DEF Fail

(* What is deleted takes its rows along, and leaves the names to orphans.  *)
LEMMA CascadeStep ==
  ASSUME DiskInv, NEW parts, Cascade(parts), UNCHANGED <<pc, job>>
  PROVE  DiskInv'
<1> USE DEF DiskInv
<1>1. /\ UNCHANGED <<stored, disk, strays, torn, pc, job>>
      /\ rows' = [p \in DOMAIN rows |-> IF p \in parts THEN {} ELSE rows[p]]
      /\ orphans' = orphans \cup UNION {rows[p] : p \in parts \cap DOMAIN rows}
  BY DEF Cascade
<1>2. rows = [images |-> rows.images, files |-> rows.files] /\ DOMAIN rows = Kinds
  BY DEF FilesType, Kinds
<1>3. /\ rows' = [images |-> rows'.images, files |-> rows'.files]
      /\ rows'.images = IF "images" \in parts THEN {} ELSE rows.images
      /\ rows'.files = IF "files" \in parts THEN {} ELSE rows.files
  BY <1>1, <1>2 DEF Kinds
<1>4. /\ rows'.images \subseteq rows.images /\ rows'.files \subseteq rows.files
      /\ Listed' \subseteq Listed /\ orphans \subseteq orphans'
      /\ rows.images \ rows'.images \subseteq orphans'
      /\ Listed \ Listed' \subseteq orphans'
  <2>1. \A p \in Kinds : p \in parts => rows[p] \subseteq orphans'
    BY <1>1, <1>2
  <2>2. "images" \in Kinds /\ "files" \in Kinds
    BY DEF Kinds
  <2> QED
    BY <1>1, <1>3, <2>1, <2>2 DEF Listed
<1>5. FilesType'
  BY <1>1, <1>3, <1>4 DEF FilesType, JobsShaped, IsJob, Given
<1>6. OneOwner'
  BY <1>1, <1>4 DEF OneOwner, Foreign
<1>7. HalfDone'
  BY <1>1, <1>4 DEF HalfDone
<1>8. DiskMatches'
  <2>1. ASSUME NEW name \in Listed' \ disk
        PROVE  /\ name \in rows'.images
               /\ (\E q \in Slots : job[q].item = name /\ pc[q] = "deleteRow") \/ name \in torn
    <3>1. name \in Listed \ disk
      BY <1>4, <2>1
    <3>2. /\ name \in rows.images
          /\ (\E q \in Slots : job[q].item = name /\ pc[q] = "deleteRow") \/ name \in torn
      BY <3>1 DEF DiskMatches, Listed
    <3>3. name \notin rows'.files
      BY <1>4, <3>2 DEF OneOwner
    <3> QED
      BY <2>1, <3>2, <3>3 DEF Listed
  <2>2. ASSUME NEW name \in disk \ Listed'
        PROVE  \/ \E q \in Slots : job[q].item = name /\ pc[q] \in {"uploadInsert", "unlink"}
               \/ name \in strays \cup orphans'
    <3>1. CASE name \in Listed
      BY <1>4, <2>2, <3>1
    <3>2. CASE name \notin Listed
      BY <1>4, <2>2, <3>2 DEF DiskMatches, Listed
    <3> QED
      BY <3>1, <3>2
  <2> QED
    BY <1>1, <2>1, <2>2 DEF DiskMatches, Listed
<1> QED
  BY <1>5, <1>6, <1>7, <1>8

LEMMA DiskInitInv == Init => DiskInv
<1> SUFFICES ASSUME Init PROVE DiskInv
  OBVIOUS
<1>1. pc = [s \in Slots |-> "idle"] /\ job = [s \in Slots |-> NoJob]
  BY DEF Init, TabInit
<1>2. /\ stored = <<Me, Me>> /\ disk = {1, 2} /\ rows = [images |-> {1}, files |-> {2}]
  BY DEF Init, AttachmentsInit
<1>3. JobsShaped /\ \A s \in Slots : pc[s] \notin Critical
  BY <1>1 DEF JobsShaped, IsJob, NoJob, Critical
<1>4. /\ stored \in Seq(Users) /\ Given = {1, 2}
  BY <1>2, PanelAssumption DEF Given
<1>5. /\ rows.images = {1} /\ rows.files = {2} /\ rows = [images |-> rows.images, files |-> rows.files]
  BY <1>2
<1>6. FilesType
  BY <1>2, <1>3, <1>4, <1>5 DEF FilesType, Listed
<1>7. OneOwner /\ HalfDone
  BY <1>3, <1>5 DEF OneOwner, HalfDone, Critical
<1>8. DiskMatches
  BY <1>2, <1>5 DEF DiskMatches
<1> QED
  BY <1>6, <1>7, <1>8 DEF DiskInv

(* The directories and the tables agree on every name but those of         *)
(* requests between their two steps, of failed unlinks and of requests     *)
(* that were refused or died there, and the row of a project file never    *)
(* lacks its file: remove deletes the row first, deleteImage the file.     *)
THEOREM FilesAndRowsAgree == Spec => []DiskMatches
<1>1. Init => DiskInv
  BY DiskInitInv
<1>2. DiskInv /\ [Next]_vars => DiskInv'
  BY LabelSteps, CommentSteps, TabSteps, FileSteps, FailStep, CascadeStep
     DEF Next, RemoveTask, RemoveProject, fileRows, commentRows
<1>3. DiskInv => DiskMatches
  BY DEF DiskInv
<1> QED
  BY <1>1, <1>2, <1>3, PTL DEF Spec
----------------------------------------------------------------------------
=============================================================================
