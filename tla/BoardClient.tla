----------------------------- MODULE BoardClient -----------------------------
(***************************************************************************)
(* The kanban board of one tab, or the panel of one task, beside the task  *)
(* service (frontend/src/app/dashboard/projects/[projectId]/board/page.tsx *)
(* and components/task-detail-panel.tsx, the query cache, and the task     *)
(* handlers of frontend/src/hooks/useProjectRealtime.ts).                  *)
(*                                                                         *)
(* The tab keeps one list of tasks in its cache, which for the panel is    *)
(* the one task.  Three things write to it: the events of the project's    *)
(* room, which arrive in the order in which they were sent; the answers of *)
(* the query, which is asked for, taken from the database and shown in     *)
(* three steps; and the moves and edits of the user, shown before they are *)
(* sent and rolled back when they fail.  One move is in flight at a time,  *)
(* and the tasks of the project fit on one page.                           *)
(***************************************************************************)
EXTENDS Tasks

CONSTANTS
  Me,       \* the user of the tab
  Columns,  \* the columns that tasks are dropped on
  MaxDrops  \* bound on the connections lost

\* What dropping a task on a column sends.
Body(status) == [status |-> status, assignee |-> "keep", details |-> "keep", lastKnown |-> None]

ASSUME BoardAssumption ==
  /\ Me \in Users /\ Columns \subseteq Statuses /\ MaxDrops \in Nat
  /\ \A status \in Columns : Body(status) \in Patches
  /\ None \notin Row
  /\ Slots \cap {"none", "made", "ok", "error"} = {}

VARIABLES
  open,     \* the task whose panel the tab shows, None if it shows the board
  list,     \* list[t]: the row shown for t, None if t is not listed
  events,   \* the events on their way to the tab, oldest first
  query,    \* the query: its stage, and the rows of its answer
  move,     \* the move: its stage, task and body, and the list before it
  overrun,  \* events were heard or lost since the answer of the query was taken
  passed,   \* events were heard or answers shown since the move was made
  blurred,  \* the list has lost something that nothing will bring back
  drops     \* connections lost so far

tab       == <<open, list, events, query, move, overrun, passed, blurred, drops>>
boardVars == <<vars, tab>>

NoQuery == [stage |-> "none", rows |-> None]
Asked   == [stage |-> "asked", rows |-> None]
NoMove  == [stage |-> "none", task |-> None, body |-> None, before |-> None]

Listed == IF open = None THEN Tasks ELSE {open}
Rows   == [t \in Tasks |-> IF t \in live \cap Listed THEN row[t] ELSE None]

----------------------------------------------------------------------------
(* The service, each broadcast of which becomes an event.  The move is in  *)
(* slot s while its stage is s; the slot that ends tells how it went.      *)

Emits == {"createEmit", "updateEmit", "depEmit", "removeEmit"}

Event(s) ==
  [kind |-> pc[s], task |-> job[s].task,
   row  |-> IF pc[s] = "removeEmit" THEN None ELSE job[s].snap]

Broadcast(s) ==
  events' = IF pc[s] \in Emits THEN Append(events, Event(s)) ELSE events

(* A handler that ends at one of these stages ends well; at those that log *)
(* it does unless the task is gone.                                        *)
EndsWell(s) ==
  \/ pc[s] \in {"updateEmit", "updateNotify"}
  \/ pc[s] \in {"updateLog", "updateLogStatus"} /\ job[s].task \in live

Ended(s) ==
  IF move.stage = s /\ pc'[s] = "idle"
    THEN [move EXCEPT !.stage = IF EndsWell(s) THEN "ok" ELSE "error"]
    ELSE move

Serve(s) ==
  /\ Step(s)
  /\ Broadcast(s)
  /\ move' = Ended(s)
  /\ UNCHANGED <<open, list, query, overrun, passed, blurred, drops>>

Others ==
  /\ Tick \/ \E s \in Slots : Arrive(s)
  /\ UNCHANGED tab

----------------------------------------------------------------------------
(* The handlers of the events: what Tasks does to its board.  The panel    *)
(* goes on showing a task that was deleted.                                *)

Shown(e) ==
  LET old == list[e.task] IN
  CASE e.kind = "createEmit" -> IF open = None /\ old = None THEN e.row ELSE old
    [] e.kind = "removeEmit" -> IF open = None THEN None ELSE old
    [] OTHER                 -> IF None \in {old, e.row} THEN old ELSE e.row

Hear ==
  /\ events # <<>>
  /\ list' = [list EXCEPT ![Head(events).task] = Shown(Head(events))]
  /\ events' = Tail(events)
  /\ overrun' = TRUE /\ passed' = TRUE
  /\ UNCHANGED <<vars, open, query, move, blurred, drops>>

(* The connection breaks and comes back: the room is joined again, what    *)
(* was sent meanwhile is not fetched.                                      *)
DropEvents ==
  /\ events # <<>> /\ drops < MaxDrops
  /\ events' = <<>>
  /\ overrun' = TRUE /\ blurred' = TRUE
  /\ drops' = drops + 1
  /\ UNCHANGED <<vars, open, list, query, move, passed>>

----------------------------------------------------------------------------
(* The query: asked for when the page opens and when it is invalidated     *)
(* (the role of the user has changed); an answer under way is given up.    *)

Ask ==
  /\ query.stage = "none"
  /\ query' = Asked
  /\ UNCHANGED <<vars, open, list, events, move, overrun, passed, blurred, drops>>

\* A task that is gone is not found.
AnswerQuery ==
  /\ query.stage = "asked" /\ open \in live \cup {None}
  /\ query' = [stage |-> "answered", rows |-> Rows]
  /\ overrun' = FALSE
  /\ UNCHANGED <<vars, open, list, events, move, passed, blurred, drops>>

(* An answer that no event has overtaken makes up for what was lost, up to *)
(* the events that are still on their way.                                 *)
ShowAnswer ==
  /\ query.stage = "answered"
  /\ list' = query.rows
  /\ query' = NoQuery
  /\ passed' = TRUE /\ blurred' = overrun
  /\ UNCHANGED <<vars, open, events, move, overrun, drops>>

QueryFails ==
  /\ query.stage # "none"
  /\ query' = NoQuery
  /\ UNCHANGED <<vars, open, list, events, move, overrun, passed, blurred, drops>>

----------------------------------------------------------------------------
(* updateTaskStatusMutation of the board, updateMutation of the panel.     *)
(* onMutate: the query is cancelled, the list kept and the change shown.   *)

CanEdit(t) == list[t] # None /\ MayEdit(Me, list[t])

Change(t, body) ==
  /\ move.stage = "none" /\ CanEdit(t)
  /\ query' = NoQuery
  /\ move' = [stage |-> "made", task |-> t, body |-> body, before |-> list]
  /\ list' = [list EXCEPT ![t] = Patched(@, body, @.updatedAt)]
  /\ passed' = FALSE
  /\ UNCHANGED <<vars, open, events, overrun, blurred, drops>>

MoveTask(t, status) == open = None /\ Change(t, Body(status))
EditTask(body) == open # None /\ body.lastKnown = None /\ Change(open, body)

SendMove(s) ==
  /\ move.stage = "made"
  /\ UpdateRead(s, Me, move.task, move.body)
  /\ move' = [move EXCEPT !.stage = s]
  /\ UNCHANGED <<open, list, events, query, overrun, passed, blurred, drops>>

(* Refused by the first reads, or lost on the way there or back.           *)
MoveFails ==
  /\ move.stage \in {"made", "ok"} \cup Slots
  /\ move' = [move EXCEPT !.stage = "error"]
  /\ UNCHANGED <<vars, open, list, events, query, overrun, passed, blurred, drops>>

(* onSuccess: the list is fetched again.                                   *)
MoveSucceeds ==
  /\ move.stage = "ok"
  /\ move' = NoMove
  /\ query' = Asked
  /\ UNCHANGED <<vars, open, list, events, overrun, passed, blurred, drops>>

\* Variant: the message alone is shown.
RollBackNothing ==
  /\ move.stage = "error"
  /\ move' = NoMove
  /\ UNCHANGED <<vars, open, list, events, query, overrun, passed, blurred, drops>>

(* onError: the list is what it was before the move, whatever was heard or *)
(* fetched since.                                                          *)
RollBack ==
  /\ move.stage = "error"
  /\ list' = move.before
  /\ move' = NoMove
  /\ blurred' = (blurred \/ passed)
  /\ UNCHANGED <<vars, open, events, query, overrun, passed, drops>>

----------------------------------------------------------------------------
BoardInit ==
  /\ Init
  /\ open \in Seeded \cup {None}
  /\ list = Rows
  /\ events = <<>> /\ query = NoQuery /\ move = NoMove
  /\ overrun = FALSE /\ passed = FALSE /\ blurred = FALSE /\ drops = 0

BoardNext ==
  \/ \E s \in Slots : Serve(s) \/ SendMove(s)
  \/ Others
  \/ Hear \/ DropEvents
  \/ Ask \/ AnswerQuery \/ ShowAnswer \/ QueryFails
  \/ \E t \in Tasks, status \in Columns : MoveTask(t, status)
  \/ \E body \in Patches : EditTask(body)
  \/ MoveFails \/ MoveSucceeds \/ RollBack

BoardSpec == BoardInit /\ [][BoardNext]_boardVars

----------------------------------------------------------------------------
(* Properties. *)

AtRest == Quiet /\ events = <<>> /\ query.stage = "none" /\ move.stage = "none"

(* As long as the requests come one at a time: a board that joined at the  *)
(* start and missed no broadcast shows the database whenever no request is *)
(* under way.  And at rest the tab shows it, unless it lost an event to a  *)
(* broken connection, to a roll back to a list from before it, or to an    *)
(* answer from before it: a move that was refused or whose answer was lost *)
(* leaves nothing else behind.  Of a task that is gone the panel may show  *)
(* what it was.                                                            *)
BoardSettles ==
  /\ Quiet => \A t \in Tasks : board[t] = IF t \in live THEN row[t] ELSE None
  /\ AtRest /\ ~blurred => \A t \in Tasks : t \in live \/ open = None => list[t] = Rows[t]
=============================================================================
