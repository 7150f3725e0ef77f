------------------------------ MODULE Comments ------------------------------
(***************************************************************************)
(* The comments on one task and the reactions to them                      *)
(* (backend/src/comments/comments.service.ts).  One emoji stands for all:  *)
(* two emojis of one user on one comment never meet.                       *)
(***************************************************************************)
EXTENDS Labels

VARIABLES
  comments,   \* the rows: [id, author, text], text counts the edits
  reactions,  \* the rows: <<comment, user>>
  drawn       \* ids drawn so far

commentRows == <<comments, reactions, drawn>>

Ids == {c.id : c \in comments}
ReactionsOf(id) == {r[2] : r \in {x \in reactions : x[1] = id}}

----------------------------------------------------------------------------
(* create: insert, read the task, tell the room, notify who is mentioned,  *)
(* answer.                                                                 *)

Comment(s, u) ==
  /\ Begin(s, u, "comments", drawn + 1, "taskLoad")
  /\ comments' = comments \cup {[id |-> drawn + 1, author |-> u, text |-> 0]}
  /\ drawn' = drawn + 1
  /\ UNCHANGED <<reactions, labelRows, inbox, answers, tab>>

\* A new comment still has its mentions to see to, a deleted one is done.
EmitCommented(s) ==
  /\ pc[s] = "taskEmit" /\ job[s].part = "comments"
  /\ inbox' = Append(inbox, TaskEvent(s))
  /\ Go(s, "mention")
  /\ UNCHANGED <<commentRows, labelRows, answers, tab>>

Mention(s) ==
  /\ pc[s] = "mention"
  /\ Reply(s, {"comments"}, {}, {})
  /\ Leave(s)
  /\ UNCHANGED <<commentRows, labelRows, inbox, tab>>

----------------------------------------------------------------------------
(* update: only the author's tab hears of it.                              *)

Edit(s, u, id) ==
  /\ \E c \in comments : c.id = id /\ c.author = u
  /\ Begin(s, u, "comments", id, "editWrite")
  /\ UNCHANGED <<commentRows, labelRows, inbox, answers, tab>>

EditWrite(s) ==
  LET id == job[s].item IN
  /\ pc[s] = "editWrite"
  /\ IF id \in Ids
       THEN /\ comments' = {IF c.id = id THEN [c EXCEPT !.text = @ + 1] ELSE c : c \in comments}
            /\ Reply(s, {"comments"}, {}, {})
            /\ Leave(s) /\ UNCHANGED inbox
       ELSE UNCHANGED comments /\ Refuse(s)
  /\ UNCHANGED <<reactions, drawn, labelRows, tab>>

(* delete: the row and its reactions, then as the end of create.           *)

Delete(s, u, id) ==
  /\ \E c \in comments : c.id = id /\ (c.author = u \/ u \in Managers)
  /\ Begin(s, u, "comments", id, "deleteWrite")
  /\ UNCHANGED <<commentRows, labelRows, inbox, answers, tab>>

DeleteWrite(s) ==
  LET id == job[s].item IN
  /\ pc[s] = "deleteWrite"
  /\ IF id \in Ids
       THEN /\ comments' = {c \in comments : c.id # id}
            /\ reactions' = {r \in reactions : r[1] # id}
            /\ Write(s, "reactions", "taskLoad")
            /\ UNCHANGED <<inbox, answers>>
       ELSE UNCHANGED <<comments, reactions>> /\ Refuse(s)
  /\ UNCHANGED <<drawn, labelRows, tab>>

----------------------------------------------------------------------------
(* toggleReaction: look, insert or delete, read them all, tell the room.   *)
(* The look counts no more when the write comes; then it fails.            *)

Toggle(s, u, id) ==
  /\ id \in Ids
  /\ Begin(s, u, "reactions", id, IF <<id, u>> \in reactions THEN "toggleOff" ELSE "toggleOn")
  /\ UNCHANGED <<commentRows, labelRows, inbox, answers, tab>>

ToggleWrite(s) ==
  LET mine == <<job[s].item, job[s].user>> IN
  /\ pc[s] \in {"toggleOn", "toggleOff"}
  /\ IF job[s].item \in Ids /\ (mine \in reactions) = (pc[s] = "toggleOff")
       THEN /\ reactions' = IF pc[s] = "toggleOn" THEN reactions \cup {mine} ELSE reactions \ {mine}
            /\ Write(s, "reactions", "toggleLoad")
            /\ UNCHANGED <<inbox, answers>>
       ELSE UNCHANGED reactions /\ Refuse(s)
  /\ UNCHANGED <<comments, drawn, labelRows, tab>>

ToggleLoad(s) ==
  /\ pc[s] = "toggleLoad"
  /\ Load(s, "reactionEmit", ReactionsOf(job[s].item))
  /\ UNCHANGED <<commentRows, labelRows, inbox, answers, tab>>

EmitReactions(s) ==
  /\ pc[s] = "reactionEmit"
  /\ inbox' = Append(inbox, [kind |-> "reactions", item |-> job[s].item,
                             data |-> job[s].data, raced |-> job[s].raced])
  /\ Reply(s, {"comments"}, {}, {})
  /\ Leave(s)
  /\ UNCHANGED <<commentRows, labelRows, tab>>

(* A comment of the user of the tab.                                       *)
CommentsInit ==
  /\ LabelsInit
  /\ comments = {[id |-> 1, author |-> Me, text |-> 0]}
  /\ reactions = {} /\ drawn = 1

CommentsNext ==
  \/ LabelsNext /\ UNCHANGED commentRows
  \/ \E s \in Slots, u \in Users :
       \/ Comment(s, u)
       \/ \E id \in Ids : Edit(s, u, id) \/ Delete(s, u, id) \/ Toggle(s, u, id)
  \/ \E s \in Slots :
       \/ EmitCommented(s) \/ Mention(s) \/ EditWrite(s) \/ DeleteWrite(s)
       \/ ToggleWrite(s) \/ ToggleLoad(s) \/ EmitReactions(s)
=============================================================================
