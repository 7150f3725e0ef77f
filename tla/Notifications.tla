---------------------------- MODULE Notifications ----------------------------
(***************************************************************************)
(* The notifications of one user, the letters about them, and the badge    *)
(* of the bell in one tab                                                  *)
(* (backend/src/notifications/notifications.service.ts, frontend/src/      *)
(* components/layout/topbar.tsx, hooks/useProjectRealtime.ts and           *)
(* app/dashboard/notifications/page.tsx).                                  *)
(*                                                                         *)
(* A notification is known by its place in the order in which they are     *)
(* stored.  The count is taken at the server and shown in the tab in two   *)
(* steps, so events can arrive between them.  The lists of notifications   *)
(* are left out: what they show is fetched again by every mark.            *)
(***************************************************************************)
EXTENDS Mail, FiniteSets

CONSTANTS
  MaxNotes,  \* bound on the notifications
  MaxMoves   \* bound on the marks, and the connections lost

ASSUME NotificationsAssumption == MaxNotes \in Nat /\ MaxMoves \in Nat

VARIABLES
  notes,     \* notes[n]: TRUE once it is read
  making,    \* making[n]: what createNotification has still to do for n
  events,    \* how many events notification:new are on their way
  moves,     \* marks and lost connections so far
  badge,     \* the count in the cache
  counted    \* the counts that were read and are not shown yet, at most one

vars == <<mail, notes, making, events, moves, badge, counted>>

Move == moves < MaxMoves /\ moves' = moves + 1

UnreadNotes == {n \in DOMAIN notes : ~notes[n]}

----------------------------------------------------------------------------
(* createNotification: stored, told, and mailed if the user wants letters; *)
(* a queue that refuses the letter is no failure.                          *)

Notify ==
  /\ Len(notes) < MaxNotes
  /\ notes' = Append(notes, FALSE)
  /\ making' = Append(making, "tell")
  /\ UNCHANGED <<mail, events, moves, badge, counted>>

TellNote(n) ==
  /\ making[n] = "tell"
  /\ making' = [making EXCEPT ![n] = "mail"]
  /\ events' = events + 1
  /\ UNCHANGED <<mail, notes, moves, badge, counted>>

MailNote(n) ==
  /\ making[n] = "mail"
  /\ making' = [making EXCEPT ![n] = "done"]
  /\ Enqueue(<<"note", n>>) \/ UNCHANGED mail
  /\ UNCHANGED <<notes, events, moves, badge, counted>>

----------------------------------------------------------------------------
(* handleNotificationNew: the count goes up by one, whether the answer it  *)
(* came from had counted the notification or not.                          *)
HearNote ==
  /\ events > 0
  /\ events' = events - 1
  /\ badge' = badge + 1
  /\ UNCHANGED <<mail, notes, making, moves, counted>>

(* The connection breaks and comes back: what was on its way is lost, and  *)
(* nothing is fetched.                                                     *)
DropEvents ==
  /\ events > 0 /\ Move
  /\ events' = 0
  /\ UNCHANGED <<mail, notes, making, badge, counted>>

\* Variant: it is asked once, and then when invalidated.
CountOnce ==
  /\ counted = {} /\ badge = 0
  /\ counted' = {Cardinality(UnreadNotes)}
  /\ UNCHANGED <<mail, notes, making, events, moves, badge>>

(* The query for the count: every thirty seconds, and when invalidated.    *)
CountUnread ==
  /\ counted = {}
  /\ counted' = {Cardinality(UnreadNotes)}
  /\ UNCHANGED <<mail, notes, making, events, moves, badge>>

ShowCount ==
  /\ badge' \in counted /\ counted' = {}
  /\ UNCHANGED <<mail, notes, making, events, moves>>

(* markAsRead of a notification that is listed as unread, markAllAsRead;   *)
(* their answers start the query for the count anew.                       *)
Mark(which) ==
  /\ Move
  /\ notes' = [n \in DOMAIN notes |-> notes[n] \/ n \in which]
  /\ counted' = {}
  /\ UNCHANGED <<mail, making, events, badge>>

MarkRead == \E n \in UnreadNotes : Mark({n})
MarkAllRead == badge > 0 /\ Mark(DOMAIN notes)

Init ==
  /\ MailInit
  /\ notes = <<>> /\ making = <<>> /\ events = 0 /\ moves = 0
  /\ badge = 0 /\ counted = {}

Next ==
  \/ Notify
  \/ \E n \in DOMAIN notes : TellNote(n) \/ MailNote(n)
  \/ HearNote \/ DropEvents \/ CountUnread \/ ShowCount
  \/ MarkRead \/ MarkAllRead
  \/ MailNext /\ UNCHANGED <<notes, making, events, moves, badge, counted>>

(* The gateway delivers, and the count is polled; what the worker does is  *)
(* of no concern to the bell.                                              *)
Fairness == WF_vars(HearNote) /\ WF_vars(CountUnread) /\ WF_vars(ShowCount)

Spec == Init /\ [][Next]_vars /\ Fairness

----------------------------------------------------------------------------
(* Properties. *)

(* The badge comes to show the number of unread notifications again and    *)
(* again, though an event and a count that cross make it too high or too   *)
(* low: the count is polled.                                               *)
BadgeSettles == []<>(badge = Cardinality(UnreadNotes))
=============================================================================
