------------------------------ MODULE ChatRoom ------------------------------
(***************************************************************************)
(* One public channel, or one conversation, and the tabs that show it      *)
(* (backend/src/chat/chat.service.ts and realtime.gateway.ts;              *)
(* frontend/src/components/chat/chat-room.tsx, hooks/useChatRealtime.ts    *)
(* and the pages app/dashboard/projects/[projectId]/chat/page.tsx and      *)
(* app/dashboard/messages/page.tsx).                                       *)
(*                                                                         *)
(* A message is its place in the order in which messages were stored, and  *)
(* a time (createdAt, lastReadAt) is the number of messages stored by      *)
(* then.  Every tab is on the chat page of the project, or on the page of  *)
(* conversations, shows this one or another, and belongs to a member of    *)
(* its own.  Peers are members who post; their tabs are not followed.      *)
(***************************************************************************)
EXTENDS Naturals, Sequences, FiniteSets, SequencesExt

CONSTANTS
  Tabs,
  Peers,
  Page,        \* messages that one request for the history returns
  MaxMessages, \* bound on the messages
  MaxMoves     \* bound on what else the tabs and the admins do, and on what fails the tabs

ASSUME ChatAssumption ==
  /\ Tabs \cap Peers = {}
  /\ Page \in Nat \ {0}
  /\ MaxMessages \in Nat /\ MaxMoves \in Nat

VARIABLES
  moves,     \* moves made so far
  direct,    \* TRUE for a conversation, FALSE for a channel
  stored,    \* stored[m]: the sender of message m
  archived,  \* isArchived
  lastRead,  \* lastRead[c]: lastReadAt of the member of c, 0 without a row
  sending,   \* sending[s]: how far sendMessage is for sender s
  room,      \* the tabs whose socket is in the room of the channel
  joins,     \* joins[c]: the runs of joinChannel under way for c
  inbox,     \* inbox[c]: the events on their way to c
  view,      \* the tabs that show the channel
  list,      \* list[c]: the messages in the cache of c
  history,   \* history[c]: how far the query for the newest messages is
  older,     \* older[c]: how far handleLoadMore is
  marks,     \* marks[c]: requests to mark the channel as read under way
  badge,     \* badge[c]: the unread count that c shows
  stale,     \* the tabs that are fetching their counts
  owed,      \* owed[c]: messages that c has to show
  failed,    \* messages whose request failed after they were stored
  broken,    \* tabs that lost a connection
  unmarked,  \* tabs that lost a mark, or its answer, and made none since
  replaced   \* tabs that show another full page than they marked as read

server  == <<direct, stored, archived, lastRead, room>>
lists   == <<view, list, history, older>>
unread  == <<marks, badge, stale>>
promise == <<owed, failed, broken, unmarked, replaced>>
vars == <<moves, server, sending, joins, inbox, lists, unread, promise>>

Senders == Tabs \cup Peers
NewCounts == 0  \* the event channel:message_received, or conversation:message_received
Idle == [stage |-> "idle", page |-> <<>>]

Move == moves < MaxMoves /\ moves' = moves + 1

Shown(c)  == Range(list[c])
Unread(c) ==
  LET new == {m \in DOMAIN stored : stored[m] # c /\ m > lastRead[c]} IN
  IF direct  \* listUserConversations reads the last message only
    THEN Cardinality(new \cap {Len(stored)})
    ELSE Cardinality(new)

\* The messages before message m, the last Page of them.
Before(m) == [i \in 1..(IF m <= Page THEN m - 1 ELSE Page) |->
                (IF m <= Page THEN 0 ELSE m - 1 - Page) + i]

\* The last change of the list, and the request that it makes.
Put(c, messages) ==
  /\ list' = [list EXCEPT ![c] = messages]
  /\ marks' = [marks EXCEPT ![c] =
                 IF c \in view /\ Len(messages) # Len(list[c]) THEN @ + 1 ELSE @]

WithNew(c, m) == IF m \in Shown(c) THEN list[c] ELSE Append(list[c], m)

----------------------------------------------------------------------------
(* Showing the channel. *)

Mount(c) ==
  /\ Move
  /\ c \notin view
  /\ view' = view \cup {c}
  /\ joins' = [joins EXCEPT ![c] = @ + 1]
  /\ history' = [history EXCEPT ![c] = IF @.stage = "idle" THEN [@ EXCEPT !.stage = "asked"] ELSE @]
  /\ marks' = [marks EXCEPT ![c] = @ + 1]
  /\ UNCHANGED <<server, sending, inbox, list, older, badge, stale, promise>>

Unmount(c) ==
  /\ Move
  /\ c \in view
  /\ view' = view \ {c}
  /\ room' = room \ {c}
  /\ owed' = [owed EXCEPT ![c] = {}]
  /\ UNCHANGED <<direct, stored, archived, lastRead, sending, joins, inbox, list, history, older,
                 unread, failed, broken, unmarked, replaced>>

(* handleJoinChannel, when the channel and the membership are found.       *)
JoinChannel(c) ==
  /\ joins[c] > 0
  /\ joins' = [joins EXCEPT ![c] = @ - 1]
  /\ room' = room \cup {c}
  /\ UNCHANGED <<moves, direct, stored, archived, lastRead, sending, inbox, lists, unread, promise>>

(* The connection breaks and comes back: what was on its way is lost.      *)
Reconnect(c) ==
  /\ Move
  /\ room' = room \ {c}
  /\ inbox' = [inbox EXCEPT ![c] = <<>>]
  /\ joins' = [joins EXCEPT ![c] = IF c \in view THEN 1 ELSE 0]
  /\ owed' = [owed EXCEPT ![c] = @ \cap Shown(c)]
  /\ broken' = broken \cup {c}
  /\ UNCHANGED <<direct, stored, archived, lastRead, sending, lists, unread, failed, unmarked, replaced>>

(* getMessageHistory without a cursor, and its answer.                     *)
ReadHistory(c) ==
  /\ history[c].stage = "asked"
  /\ history' = [history EXCEPT ![c] =
                   [stage |-> "read", page |-> Before(Len(stored) + 1)]]
  /\ UNCHANGED <<moves, server, sending, joins, inbox, view, list, older, unread, promise>>

ShowHistory(c) ==
  /\ history[c].stage = "read"
  /\ history' = [history EXCEPT ![c] = Idle]
  /\ Put(c, history[c].page)
  /\ owed' = [owed EXCEPT ![c] = IF c \in view THEN Range(history[c].page) ELSE {}]
  /\ replaced' = IF Len(history[c].page) = Page /\ Len(list[c]) = Page /\ history[c].page # list[c]
                   THEN replaced \cup {c} ELSE replaced
  /\ UNCHANGED <<moves, server, sending, joins, inbox, view, older, badge, stale,
                 failed, broken, unmarked>>

(* handleLoadMore.                                                         *)
LoadMore(c) ==
  /\ Move
  /\ c \in view /\ Len(list[c]) >= Page
  /\ older[c].stage = "idle"
  /\ older' = [older EXCEPT ![c] = [stage |-> "asked", page |-> <<list[c][1]>>]]
  /\ UNCHANGED <<server, sending, joins, inbox, view, list, history, unread, promise>>

ReadOlder(c) ==
  /\ older[c].stage = "asked"
  /\ older' = [older EXCEPT ![c] = [stage |-> "read", page |-> Before(older[c].page[1])]]
  /\ UNCHANGED <<moves, server, sending, joins, inbox, view, list, history, unread, promise>>

(* Either query fails: what is shown stays.                                *)
QueryFails(c) ==
  /\ Move
  /\ \/ history[c].stage # "idle" /\ history' = [history EXCEPT ![c] = Idle] /\ older' = older
     \/ older[c].stage # "idle" /\ older' = [older EXCEPT ![c] = Idle] /\ history' = history
  /\ UNCHANGED <<server, sending, joins, inbox, view, list, unread, promise>>

\* Messages in the order in which they were stored, as in a page.
InOrder(messages) ==
  [i \in 1..Cardinality(messages) |->
     CHOOSE m \in messages : Cardinality({n \in messages : n <= m}) = i]

\* Variant: what is shown already is shown again.
ShowOlderAll(c) ==
  /\ older[c].stage = "read"
  /\ older' = [older EXCEPT ![c] = Idle]
  /\ Put(c, older[c].page \o list[c])
  /\ UNCHANGED <<moves, server, sending, joins, inbox, view, history, badge, stale, promise>>

ShowOlder(c) ==
  /\ older[c].stage = "read"
  /\ older' = [older EXCEPT ![c] = Idle]
  /\ Put(c, InOrder(Range(older[c].page) \ Shown(c)) \o list[c])
  /\ UNCHANGED <<moves, server, sending, joins, inbox, view, history, badge, stale, promise>>

----------------------------------------------------------------------------
(* sendMessage. *)

Settled(c) == c \in room /\ c \in view /\ history[c].stage = "idle"

AtRest == [stage |-> "idle", message |-> 0]

Stage(c, stage) == sending' = [sending EXCEPT ![c].stage = stage]
End(c) == sending' = [sending EXCEPT ![c] = AtRest]

Post(c) ==
  /\ c \in view \cup Peers /\ sending[c].stage = "idle"
  /\ Len(stored) + Cardinality({d \in Senders : sending[d].stage \in {"find", "insert"}}) < MaxMessages
  /\ sending' = [sending EXCEPT ![c] = [stage |-> "find", message |-> 0]]
  /\ UNCHANGED <<moves, server, joins, inbox, lists, unread, promise>>

SendFind(c) ==
  /\ sending[c].stage = "find"
  /\ IF archived THEN End(c) ELSE Stage(c, "insert")
  /\ UNCHANGED <<moves, server, joins, inbox, lists, unread, promise>>

SendInsert(c) ==
  LET m == Len(stored) + 1 IN
  /\ sending[c].stage = "insert"
  /\ stored' = Append(stored, c)
  /\ sending' = [sending EXCEPT ![c].stage = "read", ![c].message = m]
  /\ owed' = [d \in Tabs |-> IF Settled(d) THEN owed[d] \cup {m} ELSE owed[d]]
  /\ UNCHANGED <<moves, direct, archived, lastRead, room, joins, inbox, lists, unread,
                 failed, broken, unmarked, replaced>>

SendRead(c) ==
  /\ sending[c].stage = "read"
  /\ lastRead' = [d \in Tabs |-> IF d = c THEN Len(stored) ELSE lastRead[d]]
  /\ Stage(c, "tell")
  /\ UNCHANGED <<moves, direct, stored, archived, room, joins, inbox, lists, unread, promise>>

Tell(tabs, event) ==
  inbox' = [d \in Tabs |-> IF d \in tabs THEN Append(inbox[d], event) ELSE inbox[d]]

\* Variant: the room is not told of a message that mentions somebody.
SendTellSome(c) ==
  /\ sending[c].stage = "tell"
  /\ \E mentions \in BOOLEAN : Tell(IF mentions THEN {} ELSE room, sending[c].message)
  /\ Stage(c, "count")
  /\ UNCHANGED <<moves, server, joins, lists, unread, promise>>

(* Once the mentions are stored and notified, the room is told.            *)
SendTell(c) ==
  /\ sending[c].stage = "tell"
  /\ Tell(room, sending[c].message)
  /\ Stage(c, "count")
  /\ UNCHANGED <<moves, server, joins, lists, unread, promise>>

\* Variant: only those who show the channel are told that counts changed.
SendCountRoom(c) ==
  /\ sending[c].stage = "count"
  /\ Tell(room, NewCounts)
  /\ IF c \in Tabs THEN Stage(c, "answer") ELSE End(c)
  /\ UNCHANGED <<moves, server, joins, lists, unread, promise>>

(* Once the channel is looked up again, the project is told; of a message  *)
(* in a conversation, the other participants.                              *)
SendCount(c) ==
  /\ sending[c].stage = "count"
  /\ Tell(IF direct THEN Tabs \ {c} ELSE Tabs, NewCounts)
  /\ IF c \in Tabs THEN Stage(c, "answer") ELSE End(c)
  /\ UNCHANGED <<moves, server, joins, lists, unread, promise>>

(* A request that fails, or whose answer is lost.                          *)
Fail(c) ==
  /\ sending[c].stage # "idle"
  /\ failed' = IF sending[c].message = 0 THEN failed ELSE failed \cup {sending[c].message}
  /\ End(c)
  /\ UNCHANGED <<moves, server, joins, inbox, lists, unread, owed, broken, unmarked, replaced>>

(* handleSendMessage goes on with the answer, and marks the channel.       *)
Answer(c) ==
  LET grown == WithNew(c, sending[c].message) IN
  /\ sending[c].stage = "answer"
  /\ End(c)
  /\ list' = [list EXCEPT ![c] = grown]
  /\ marks' = [marks EXCEPT ![c] =
                 @ + (IF c \in view /\ grown # list[c] THEN 2 ELSE 1)]
  /\ UNCHANGED <<moves, server, joins, inbox, view, history, older, badge, stale, promise>>

----------------------------------------------------------------------------
(* Events, marks and counts. *)

\* Variant: a message that arrives does not mark the channel as read.
HearUnread(c) ==
  LET event == Head(inbox[c]) IN
  /\ inbox[c] # <<>>
  /\ inbox' = [inbox EXCEPT ![c] = Tail(@)]
  /\ list' = [list EXCEPT ![c] =
                IF event # NewCounts /\ c \in view THEN WithNew(c, event) ELSE @]
  /\ stale' = IF event = NewCounts \/ c \in view THEN stale \cup {c} ELSE stale
  /\ UNCHANGED <<moves, server, sending, joins, view, history, older, marks, badge, promise>>

(* message:new matters to a tab that shows the channel.                    *)
Hear(c) ==
  LET event == Head(inbox[c]) IN
  /\ inbox[c] # <<>>
  /\ inbox' = [inbox EXCEPT ![c] = Tail(@)]
  /\ IF event # NewCounts /\ c \in view
       THEN Put(c, WithNew(c, event))
       ELSE UNCHANGED <<list, marks>>
  /\ stale' = IF event = NewCounts \/ c \in view THEN stale \cup {c} ELSE stale
  /\ UNCHANGED <<moves, server, sending, joins, view, history, older, badge, promise>>

(* markChannelRead, and its answer.                                        *)
MarkRead(c) ==
  /\ marks[c] > 0
  /\ marks' = [marks EXCEPT ![c] = @ - 1]
  /\ lastRead' = [lastRead EXCEPT ![c] = Len(stored)]
  /\ stale' = stale \cup {c}
  /\ unmarked' = unmarked \ {c} /\ replaced' = replaced \ {c}
  /\ UNCHANGED <<moves, direct, stored, archived, room, sending, joins, inbox, lists, badge,
                 owed, failed, broken>>

(* A mark that fails, or whose answer is lost: it is not made again, and   *)
(* no count is fetched.                                                    *)
MarkFails(c) ==
  /\ Move
  /\ marks[c] > 0
  /\ marks' = [marks EXCEPT ![c] = @ - 1]
  /\ lastRead' \in {lastRead, [lastRead EXCEPT ![c] = Len(stored)]}
  /\ unmarked' = unmarked \cup {c}
  /\ UNCHANGED <<direct, stored, archived, room, sending, joins, inbox, lists, badge, stale,
                 owed, failed, broken, replaced>>

(* listChannels, and its answer.  A query that is under way when the       *)
(* counts are invalidated is started again.                                *)
Count(c) ==
  /\ c \in stale
  /\ stale' = stale \ {c}
  /\ badge' = [badge EXCEPT ![c] = Unread(c)]
  /\ UNCHANGED <<moves, server, sending, joins, inbox, lists, marks, promise>>

----------------------------------------------------------------------------
Archive ==
  /\ Move
  /\ ~direct /\ ~archived
  /\ archived' = TRUE
  /\ UNCHANGED <<direct, stored, lastRead, room, sending, joins, inbox, lists, unread, promise>>

Unarchive ==
  /\ Move
  /\ archived
  /\ archived' = FALSE
  /\ UNCHANGED <<direct, stored, lastRead, room, sending, joins, inbox, lists, unread, promise>>

Init ==
  /\ moves = 0 /\ direct \in BOOLEAN
  /\ stored = <<>> /\ archived = FALSE /\ room = {} /\ view = {} /\ stale = {}
  /\ lastRead = [c \in Tabs |-> 0]
  /\ sending = [c \in Senders |-> AtRest]
  /\ joins = [c \in Tabs |-> 0] /\ marks = [c \in Tabs |-> 0] /\ badge = [c \in Tabs |-> 0]
  /\ inbox = [c \in Tabs |-> <<>>] /\ list = [c \in Tabs |-> <<>>]
  /\ history = [c \in Tabs |-> Idle] /\ older = [c \in Tabs |-> Idle]
  /\ owed = [c \in Tabs |-> {}]
  /\ failed = {} /\ broken = {} /\ unmarked = {} /\ replaced = {}

Send(c) ==
  \/ Post(c) \/ SendFind(c) \/ SendInsert(c) \/ SendRead(c)
  \/ SendTell(c) \/ SendCount(c) \/ Fail(c)

Browse(c) ==
  \/ Answer(c) \/ Mount(c) \/ Unmount(c) \/ Reconnect(c) \/ JoinChannel(c)
  \/ ReadHistory(c) \/ ShowHistory(c)
  \/ LoadMore(c) \/ ReadOlder(c) \/ ShowOlder(c) \/ QueryFails(c)
  \/ Hear(c) \/ MarkRead(c) \/ MarkFails(c) \/ Count(c)

Next ==
  \/ \E c \in Senders : Send(c)
  \/ \E c \in Tabs : Browse(c)
  \/ Archive \/ Unarchive

Spec == Init /\ [][Next]_vars

----------------------------------------------------------------------------
(* Properties. *)

(* No tab shows a message twice, whether it comes with the history, the    *)
(* live event, the answer to its sender or an older page.                  *)
NoRepeats == \A c \in Tabs : IsInjective(list[c])

OnItsWay(m, c) ==
  \/ \E i \in DOMAIN inbox[c] : inbox[c][i] = m
  \/ LET s == sending[stored[m]] IN s.message = m /\ s.stage \in {"read", "tell"}

(* A tab that is in the room and has its history shows every message that  *)
(* is stored from then on, unless its request fails or the connection      *)
(* breaks; and it goes on showing it.                                      *)
SettledSee ==
  \A c \in Tabs : \A m \in owed[c] :
    m \in Shown(c) \/ m \in failed \/ OnItsWay(m, c)

(* What an open channel shows counts as read once the marks are through,   *)
(* unless a mark failed, which is not tried again, or a full page took the *)
(* place of another: the effect that makes the marks depends on the number *)
(* of messages.  The next mark that goes through makes up for both.        *)
ShownRead ==
  \A c \in view \ (unmarked \cup replaced) :
    marks[c] = 0 => \A m \in Shown(c) : stored[m] = c \/ m <= lastRead[c]

(* A count that is not being fetched anew is the number of unread messages *)
(* of the database, as long as nothing that changes it is under way, no    *)
(* request failed, no connection broke and the last mark was answered.     *)
BadgeFresh ==
  \A c \in Tabs \ (stale \cup broken \cup unmarked) :
    \/ failed # {}
    \/ NewCounts \in Range(inbox[c])
    \/ \E d \in Senders : sending[d].stage \in {"read", "tell", "count"}
    \/ sending[c].stage = "answer" \/ (direct /\ marks[c] > 0)
    \/ badge[c] = Unread(c)
=============================================================================
