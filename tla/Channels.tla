------------------------------ MODULE Channels ------------------------------
(***************************************************************************)
(* The channels of one project, the conversations of its people, and the   *)
(* chat pages that list them (backend/src/chat/chat.service.ts, the        *)
(* joinChannel handler of realtime.gateway.ts, and                         *)
(* frontend/src/app/dashboard/projects/[projectId]/chat/page.tsx,          *)
(* app/dashboard/messages/page.tsx, components/chat/*.tsx).                *)
(*                                                                         *)
(* Channels and conversations are numbered as they are stored.  Roles do   *)
(* not change here (Membership is about them): Staff are the admins and    *)
(* managers.  Who is in the project changes from outside.  Everybody has   *)
(* one tab, which may be hidden; whoever acts has it in front.  A          *)
(* membership row is known by its channel and user.                        *)
(***************************************************************************)
EXTENDS Naturals, Sequences, FiniteSets, FiniteSetsExt

CONSTANTS
  Users,
  Staff,        \* the admins and managers among them
  MaxChannels,  \* bound on the channels
  MaxMoves      \* bound on what the users begin

ASSUME ChannelsAssumption ==
  /\ Staff \subseteq Users
  /\ MaxChannels \in Nat \ {0} /\ MaxMoves \in Nat

VARIABLES
  moves,     \* moves made so far
  project,   \* the members of the project
  channels,  \* channels[c]: its kind, and how many channels its maker had seen
  members,   \* the rows of channel_members, as pairs of a channel and a user
  talks,     \* talks[i]: the pair that talks, and how many talks its maker had seen
  job,       \* job[u]: how far the request that u made is
  page,      \* the users who are on the chat page
  hidden,    \* the users whose tab is hidden: minimised, or behind another
  list,      \* list[u]: the channels in the cache of u
  active,    \* active[u]: activeChannelId of u, None for null
  refused,   \* the users whose list came back as an error
  query,     \* query[u]: how far the query of u for the list is
  room,      \* room[u]: the channels whose rooms the socket of u is in
  joins,     \* the runs of joinChannel under way
  late,      \* who left which channel while the join was under way
  kicked     \* the users project:removed is on its way to

data    == <<project, channels, members, talks>>
screen  == <<page, list, active, refused>>
sockets == <<room, joins, late>>
vars == <<moves, data, job, screen, query, sockets, hidden, kicked>>

None  == 0
AtRest == [op |-> "none", chan |-> None, who |-> {}, looked |-> 0, made |-> FALSE]
Idle   == [stage |-> "idle", looked |-> 0, seen |-> {}]

Move == moves < MaxMoves /\ moves' = moves + 1

Generals == {c \in DOMAIN channels : channels[c].kind = "general"}
Visible(u, c) == channels[c].kind # "private" \/ <<c, u>> \in members
Allowed(u, c) == u \in project /\ c \in DOMAIN channels /\ Visible(u, c)

----------------------------------------------------------------------------
(* What the page of a user shows, and what a change of it tells the        *)
(* gateway: ChatRoom leaves the channel it showed and joins the new one.   *)

Showing(on, error, cached, chosen) ==
  IF on /\ ~error /\ chosen \in cached THEN chosen ELSE None

Shown(u) == Showing(u \in page, u \in refused, list[u], active[u])

\* The channel that is chosen when none is: a general one, else the newest.
Preferred(cached) ==
  IF cached \cap Generals # {} THEN Min(cached \cap Generals)
  ELSE IF cached # {} THEN Max(cached) ELSE None

Turn(u, on, error, cached, chosen) ==
  LET before == Shown(u)
      choice == IF on /\ chosen = None THEN Preferred(cached) ELSE chosen
      after  == Showing(on, error, cached, choice)
      left   == before # None /\ before # after
      under  == \E j \in joins : j.user = u /\ j.chan = before
  IN
  /\ page' = IF on THEN page \cup {u} ELSE page \ {u}
  /\ refused' = IF error THEN refused \cup {u} ELSE refused \ {u}
  /\ list' = [list EXCEPT ![u] = cached]
  /\ active' = [active EXCEPT ![u] = choice]
  /\ room' = IF left THEN [room EXCEPT ![u] = @ \ {before}] ELSE room
  /\ late' = IF ~left THEN late
             ELSE IF under THEN late \cup {<<u, before>>} ELSE late \ {<<u, before>>}
  /\ joins' = IF after \in {None, before} THEN joins
              ELSE joins \cup {[user |-> u, chan |-> after, ok |-> FALSE]}

Open(u) ==
  /\ Move
  /\ u \notin page \cup hidden
  /\ Turn(u, TRUE, FALSE, list[u], None)
  /\ UNCHANGED <<data, job, query, hidden, kicked>>

Close(u) ==
  /\ Move
  /\ u \in page \ hidden
  /\ Turn(u, FALSE, FALSE, list[u], None)
  /\ UNCHANGED <<data, job, query, hidden, kicked>>

Choose(u, c) ==
  /\ Move
  /\ u \in page \ (refused \cup hidden) /\ c \in list[u] \ {active[u]}
  /\ Turn(u, TRUE, FALSE, list[u], c)
  /\ UNCHANGED <<data, job, query, hidden, kicked>>

Hide(u) ==
  /\ Move
  /\ u \in page \ hidden
  /\ hidden' = hidden \cup {u}
  /\ UNCHANGED <<data, job, screen, query, sockets, kicked>>

Reveal(u) ==
  /\ u \in hidden
  /\ hidden' = hidden \ {u}
  /\ UNCHANGED <<moves, data, job, screen, query, sockets, kicked>>

(* handleJoinChannel: the checks, and the join once they are through.      *)
JoinCheck(j) ==
  /\ ~j.ok
  /\ joins' = (joins \ {j}) \cup
                (IF Allowed(j.user, j.chan) THEN {[j EXCEPT !.ok = TRUE]} ELSE {})
  /\ UNCHANGED <<moves, data, job, screen, query, room, late, hidden, kicked>>

JoinRoom(j) ==
  /\ j.ok
  /\ joins' = joins \ {j}
  /\ room' = [room EXCEPT ![j.user] = @ \cup {j.chan}]
  /\ UNCHANGED <<moves, data, job, screen, query, late, hidden, kicked>>

----------------------------------------------------------------------------
(* The query for the list, answered by listChannels.  It is asked when the *)
(* page opens, and anew every ten seconds; while the tab is hidden nothing *)
(* is asked but what a request of its own has made due.                    *)

Asks(u) ==
  /\ u \in page
  /\ query[u].stage = "due" \/ (query[u].stage = "idle" /\ u \notin hidden)

Refuse(u) ==
  /\ Asks(u) /\ u \notin project
  /\ query' = [query EXCEPT ![u] = Idle]
  /\ Turn(u, TRUE, TRUE, list[u], active[u])
  /\ UNCHANGED <<moves, data, job, hidden, kicked>>

\* Variant: the first channel is looked at, whatever it is.
FindFirst(u) ==
  /\ Asks(u) /\ u \in project
  /\ query' = [query EXCEPT ![u] =
       [stage |-> IF 1 \notin Generals THEN "make" ELSE "read",
        looked |-> Len(channels), seen |-> {}]]
  /\ UNCHANGED <<moves, data, job, screen, sockets, hidden, kicked>>

(* getChannelForProject makes the general channel when it finds none.      *)
Find(u) ==
  /\ Asks(u) /\ u \in project
  /\ query' = [query EXCEPT ![u] =
       [stage |-> IF Generals = {} THEN "make" ELSE "read",
        looked |-> Len(channels), seen |-> {}]]
  /\ UNCHANGED <<moves, data, job, screen, sockets, hidden, kicked>>

Store(kind, looked) == channels' = Append(channels, [kind |-> kind, looked |-> looked])

Make(u) ==
  /\ query[u].stage = "make"
  /\ Store("general", query[u].looked)
  /\ query' = [query EXCEPT ![u].stage = "read"]
  /\ UNCHANGED <<moves, project, members, talks, job, screen, sockets, hidden, kicked>>

\* Variant: private channels are left out.
ReadPublic(u) ==
  /\ query[u].stage = "read"
  /\ query' = [query EXCEPT ![u].stage = "answer",
       ![u].seen = {c \in DOMAIN channels : channels[c].kind # "private"}]
  /\ UNCHANGED <<moves, data, job, screen, sockets, hidden, kicked>>

Read(u) ==
  /\ query[u].stage = "read"
  /\ query' = [query EXCEPT ![u].stage = "answer",
       ![u].seen = {c \in DOMAIN channels : Visible(u, c)}]
  /\ UNCHANGED <<moves, data, job, screen, sockets, hidden, kicked>>

\* Variant: the list that is shown only grows.
AnswerMerge(u) ==
  /\ query[u].stage = "answer"
  /\ query' = [query EXCEPT ![u] = Idle]
  /\ Turn(u, u \in page, FALSE, list[u] \cup query[u].seen, active[u])
  /\ UNCHANGED <<moves, data, job, hidden, kicked>>

Answer(u) ==
  /\ query[u].stage = "answer"
  /\ query' = [query EXCEPT ![u] = Idle]
  /\ Turn(u, u \in page, FALSE, query[u].seen, active[u])
  /\ UNCHANGED <<moves, data, job, hidden, kicked>>

\* A query that is invalidated drops the list it has read, and starts again.
Invalidate(u) ==
  query' = [query EXCEPT ![u] = IF u \in page /\ @.stage \in {"idle", "answer"}
                                  THEN [Idle EXCEPT !.stage = "due"] ELSE @]

----------------------------------------------------------------------------
(* Requests. *)

Begin(u, request) ==
  /\ Move /\ u \notin hidden
  /\ job[u] = AtRest
  /\ job' = [job EXCEPT ![u] = request]
  /\ UNCHANGED <<data, screen, query, sockets, hidden, kicked>>

End(u) == job' = [job EXCEPT ![u] = AtRest]
Step(u, op, who) == job' = [job EXCEPT ![u].op = op, ![u].who = who]
MayManage(u) == u \in project \cap Staff

AskCreate(u, kind, who) ==
  /\ u \in page \cap Staff
  /\ Begin(u, [AtRest EXCEPT !.op = kind, !.who = who])

AskAdd(u, c, who) ==
  /\ u \in Staff /\ channels[c].kind = "private"
  /\ Begin(u, [AtRest EXCEPT !.op = "add", !.chan = c, !.who = who])

AskRemove(u, c, v) ==
  /\ u \in Staff /\ channels[c].kind = "private"
  /\ Begin(u, [AtRest EXCEPT !.op = "remove", !.chan = c, !.who = {v}])

AskTalk(u, v) ==
  /\ u # v
  /\ Begin(u, [AtRest EXCEPT !.op = "talk", !.who = {u, v}])

(* A request is refused whose sender may not make it (any more).           *)
Forbid(u) ==
  /\ \/ job[u].op \in {"public", "private", "add"} /\ ~MayManage(u)
     \/ job[u].op = "remove" /\ ~MayManage(u) /\ job[u].who # {u}
     \/ job[u].op = "talk" /\ ~(job[u].who \subseteq project)
  /\ End(u)
  /\ UNCHANGED <<moves, data, screen, query, sockets, hidden, kicked>>

(* createChannel: the channel, who of the invited is in the project, and   *)
(* their rows.                                                             *)
CreatePublic(u) ==
  /\ job[u].op = "public" /\ MayManage(u)
  /\ Len(channels) < MaxChannels
  /\ Store("public", 0)
  /\ job' = [job EXCEPT ![u].op = "done", ![u].made = TRUE]
  /\ UNCHANGED <<moves, project, members, talks, screen, query, sockets, hidden, kicked>>

CreatePrivate(u) ==
  /\ job[u].op = "private" /\ MayManage(u)
  /\ Len(channels) < MaxChannels
  /\ Store("private", 0)
  /\ job' = [job EXCEPT ![u].op = "pick", ![u].chan = Len(channels) + 1,
                        ![u].who = @ \cup {u}, ![u].made = TRUE]
  /\ UNCHANGED <<moves, project, members, talks, screen, query, sockets, hidden, kicked>>

PickMembers(u) ==
  /\ job[u].op = "pick"
  /\ Step(u, "insert", job[u].who \cap project)
  /\ UNCHANGED <<moves, data, screen, query, sockets, hidden, kicked>>

(* addChannelMembers: who of them is in the project, who of those has no   *)
(* row, and the rows.                                                      *)
AddMembers(u) ==
  /\ job[u].op = "add" /\ MayManage(u)
  /\ Step(u, "exclude", job[u].who \cap project)
  /\ UNCHANGED <<moves, data, screen, query, sockets, hidden, kicked>>

ExcludeExisting(u) ==
  LET new == {v \in job[u].who : <<job[u].chan, v>> \notin members} IN
  /\ job[u].op = "exclude"
  /\ Step(u, IF new = {} THEN "done" ELSE "insert", new)
  /\ UNCHANGED <<moves, data, screen, query, sockets, hidden, kicked>>

(* createMany stores all rows, or none when one of them is there already.  *)
InsertMembers(u) ==
  LET rows == {<<job[u].chan, v>> : v \in job[u].who} IN
  /\ job[u].op = "insert"
  /\ IF rows \cap members = {}
       THEN members' = members \cup rows /\ Step(u, "done", {})
       ELSE End(u) /\ UNCHANGED members
  /\ UNCHANGED <<moves, project, channels, talks, screen, query, sockets, hidden, kicked>>

(* removeChannelMember: the row is looked up, and deleted.                 *)
RemoveMember(u) ==
  /\ job[u].op = "remove" /\ (MayManage(u) \/ job[u].who = {u})
  /\ IF {<<job[u].chan, v>> : v \in job[u].who} \subseteq members
       THEN Step(u, "delete", job[u].who) ELSE End(u)
  /\ UNCHANGED <<moves, data, screen, query, sockets, hidden, kicked>>

DeleteMember(u) ==
  LET rows == {<<job[u].chan, v>> : v \in job[u].who} IN
  /\ job[u].op = "delete"
  /\ members' = members \ rows
  /\ IF rows \subseteq members THEN Step(u, "done", {}) ELSE End(u)
  /\ UNCHANGED <<moves, project, channels, talks, screen, query, sockets, hidden, kicked>>

(* getOrCreateConversation: the shared project and a look for the          *)
(* conversation, and a new one if there is none.                           *)
LookForTalk(u) ==
  /\ job[u].op = "talk" /\ job[u].who \subseteq project
  /\ IF \E i \in DOMAIN talks : talks[i].pair = job[u].who
       THEN End(u)
       ELSE job' = [job EXCEPT ![u].op = "start", ![u].looked = Len(talks)]
  /\ UNCHANGED <<moves, data, screen, query, sockets, hidden, kicked>>

StartTalk(u) ==
  /\ job[u].op = "start"
  /\ talks' = Append(talks, [pair |-> job[u].who, looked |-> job[u].looked])
  /\ End(u)
  /\ UNCHANGED <<moves, project, channels, members, screen, query, sockets, hidden, kicked>>

(* The answer to a request about a channel: the list is fetched again if   *)
(* the request made a channel; a change of the members changes the list of *)
(* nobody until the next poll.                                             *)
Done(u) ==
  /\ job[u].op = "done"
  /\ IF job[u].made THEN Invalidate(u) ELSE UNCHANGED query
  /\ End(u)
  /\ UNCHANGED <<moves, data, screen, sockets, hidden, kicked>>

Fail(u) ==
  /\ job[u].op # "none"
  /\ Move
  /\ End(u)
  /\ UNCHANGED <<data, screen, query, sockets, hidden, kicked>>

----------------------------------------------------------------------------
(* The project's members change, and who is removed is sent to the         *)
(* dashboard: the reload breaks the connection and empties the cache.      *)

Expel(u) ==
  /\ Move
  /\ u \in project
  /\ project' = project \ {u}
  /\ kicked' = kicked \cup {u}
  /\ UNCHANGED <<channels, members, talks, job, screen, query, sockets, hidden>>

Invite(u) ==
  /\ Move
  /\ u \notin project
  /\ project' = project \cup {u}
  /\ UNCHANGED <<channels, members, talks, job, screen, query, sockets, hidden, kicked>>

Kick(u) ==
  /\ u \in kicked
  /\ kicked' = kicked \ {u}
  /\ page' = page \ {u} /\ refused' = refused \ {u}
  /\ list' = [list EXCEPT ![u] = {}] /\ active' = [active EXCEPT ![u] = None]
  /\ query' = [query EXCEPT ![u] = Idle]
  /\ room' = [room EXCEPT ![u] = {}]
  /\ joins' = {j \in joins : j.user # u}
  /\ late' = {p \in late : p[1] # u}
  /\ UNCHANGED <<moves, data, job, hidden>>

(* A project comes with a public channel that bears its name; or the       *)
(* general channel and a private one of everybody have been made since.    *)
Init ==
  /\ moves = 0
  /\ project = Users
  /\ \/ channels = <<[kind |-> "public", looked |-> 0]>> /\ members = {}
     \/ /\ channels = <<[kind |-> "public", looked |-> 0], [kind |-> "general", looked |-> 1],
                        [kind |-> "private", looked |-> 0]>>
        /\ members = {3} \X Users
  /\ talks = <<>>
  /\ job = [u \in Users |-> AtRest]
  /\ page = {} /\ hidden = {} /\ refused = {} /\ kicked = {} /\ joins = {} /\ late = {}
  /\ list = [u \in Users |-> {}] /\ active = [u \in Users |-> None]
  /\ query = [u \in Users |-> Idle]
  /\ room = [u \in Users |-> {}]

Poll(u) == Refuse(u) \/ Find(u) \/ Make(u) \/ Read(u) \/ Answer(u)

Serve(u) ==
  \/ Forbid(u) \/ CreatePublic(u) \/ CreatePrivate(u) \/ PickMembers(u)
  \/ AddMembers(u) \/ ExcludeExisting(u) \/ InsertMembers(u)
  \/ RemoveMember(u) \/ DeleteMember(u) \/ LookForTalk(u) \/ StartTalk(u)
  \/ Done(u) \/ Fail(u)

Begins(u) ==
  \/ Open(u) \/ Close(u) \/ Hide(u) \/ Reveal(u) \/ Expel(u) \/ Invite(u) \/ Kick(u)
  \/ \E c \in DOMAIN channels : Choose(u, c)
  \/ \E c \in DOMAIN channels, v \in Users : AskRemove(u, c, v)
  \/ \E c \in DOMAIN channels, who \in (SUBSET Users) \ {{}} : AskAdd(u, c, who)
  \/ \E kind \in {"public", "private"}, who \in SUBSET Users :
       (kind = "public" => who = {}) /\ AskCreate(u, kind, who)
  \/ \E v \in Users : AskTalk(u, v)

Next ==
  \/ \E u \in Users : Poll(u) \/ Serve(u) \/ Begins(u)
  \/ \E j \in joins : JoinCheck(j) \/ JoinRoom(j)

(* The page polls while it is open and shown, and the server answers.      *)
Fairness == \A u \in Users : WF_vars(Poll(u))

Spec == Init /\ [][Next]_vars /\ Fairness

----------------------------------------------------------------------------
(* Properties. *)

(* There is one general channel and one conversation of two people, but    *)
(* for requests that looked for it at the same time: whoever looks after   *)
(* it was stored never makes a second one.                                 *)
OneOfEach ==
  /\ \A g, h \in Generals : g < h => channels[h].looked < g
  /\ \A i, j \in DOMAIN talks :
       i < j /\ talks[i].pair = talks[j].pair => talks[j].looked < i

\* What u may see and does not; the rooms u is in and may not be.
Missing(u) == {c \in DOMAIN channels : u \in page /\ Allowed(u, c) /\ c \notin list[u]}
Foreign(u) == {c \in room[u] : ~Allowed(u, c) /\ <<u, c>> \notin late}

(* Somebody who is added to a private channel gets to see it while the     *)
(* chat page is open and shown, though no event says so: the list is       *)
(* polled.                                                                 *)
AddedSees ==
  \A u \in Users : (Missing(u) # {}) ~> (Missing(u) = {} \/ u \in hidden)

(* Somebody who is removed from a private channel, or from the project,    *)
(* does not stay in its room while the tab is shown, unless the page left  *)
(* the room while the join was still under way.  Hidden, the tab does not  *)
(* poll, and nothing else takes its socket out of the room.                *)
RemovedLeaves ==
  \A u \in Users : (Foreign(u) # {}) ~> (Foreign(u) = {} \/ u \in hidden)
=============================================================================
