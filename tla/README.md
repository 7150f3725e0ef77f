# A TLA+ model of TaskFlow

TaskFlow is a NestJS server over PostgreSQL (through Prisma), Redis and Socket.IO, and a Next.js client.
The modules here are translated from `src/backend/src` and `src/frontend/src`; paths below are relative to
those. TLC checks small instances, TLAPS proves the theorems for every value of the constants.

## 1. The system

### Components

| Component | State | Operations | Modules |
|---|---|---|---|
| Tasks and dependencies (`tasks/`) | rows of `tasks`, `task_dependencies`, activities | create, update, remove, addDependency, removeDependency | `Tasks`, `Workflow` |
| Board and task panel (`board/page.tsx`, `task-detail-panel.tsx`, `hooks/useProjectRealtime.ts`) | query cache, events on their way | move, edit, hear, fetch, roll back | `BoardClient`, `PanelTab`, `TaskPanel` |
| Membership (`projects/projects.service.ts`) | project, rows of `project_members` | create, addMember, updateMemberRole, removeMember, remove | `Membership` |
| Statistics and lists (`projects/`, `tasks/`) | entries of the cache | getStats, list, the deletions of the writers, update | `ProjectCache` |
| Refresh tokens (`auth/auth.service.ts`) | rows of `refresh_tokens` by family | login, refreshTokens, logout | `Sessions`, `SessionPromise` |
| Session client (`lib/api.ts`, `store/useAuthStore.ts`) | `localStorage`, `isRefreshing`, `failedQueue` | interceptors, setAuth, logout, initialize | `SessionClient` |
| Password reset (`auth/auth.service.ts`) | rows of `otp_tokens`, tickets | requestOtp, verifyOtp, setNewPassword | `PasswordReset` |
| Mail (`queues/`, `auth/mail.service.ts`) | jobs of the queue | enqueue, process, retry | `Mail` |
| Presence (`realtime/`, `hooks/useSocket.ts`, `hooks/useProjectRealtime.ts`) | sockets, sorted set of Redis, lists on screen | connect, join, leave, disconnect, heartbeat | `Presence` |
| Chat room (`chat/`, `chat-room.tsx`, `hooks/useChatRealtime.ts`) | messages, read marks, cached list, unread counts | sendMessage, history, paging, mark read, archive | `ChatRoom` |
| Typing (`realtime/`, `message-composer.tsx`, `hooks/useChatRealtime.ts`) | refs and timers of two sides | key, stop, post, leave, hear, time out | `Typing` |
| Channels and conversations (`chat/`, `chat/page.tsx`) | channels, their members, conversations, rooms | create, add and remove members, get or create, list, join | `Channels` |
| Notifications (`notifications/`, `topbar.tsx`) | rows, the badge of the bell | create, read, read all, count | `Notifications` |
| Comments and reactions (`comments/`) | rows | create, update, delete, toggle, list | `Comments` |
| Labels (`labels/`) | labels, labels of a task | update, delete, add, remove | `Labels` |
| Images and files (`task-images/`, `projects/project-files.service.ts`) | rows and files on disk | upload, refuse, delete | `Attachments` |
| Profile (`profile/`, `profile/page.tsx`) | a row, a file, the user in the store | updateProfile, updateAvatar, deleteAvatar | `Profile` |
| Search, export, users, health, wiring, widgets | none, or one row | reads, single statements | not modelled |

### How they interact

A request passes the JWT guard and reaches a service, which awaits its statements one by one, without a
transaction except in a few places (`projects.create`, `setNewPassword`), and then tells others: it inserts an activity,
deletes keys of the cache, emits to a Socket.IO room (`project:<id>`, `user:<id>`, `channel:<id>`) and may call
`NotificationsService`, which inserts, emits and enqueues a mail. The client keeps one socket per tab and one
query cache; the events that come over the socket either change a cached list in place or invalidate it.
The access token lives 15 minutes; the interceptor of `lib/api.ts` renews it with a refresh token that all
tabs share.

### What is hard about it

* Every `await` lets other requests in: checks and the writes they guard are apart (circular dependencies, last
  admin, token rotation, archived channel, first conversation), and broadcasts leave later than the writes they report.
* The requests of one handler are not atomic: the server may die, or a statement fail, after any of them; rows and
  files, rows and jobs, rows and cached entries are changed one after the other.
* The client merges answers, events and its own guesses, which arrive in any order, into one list.
* Tokens, presence entries, counts and timers are looked at by parties that do not know of each other's requests.

`PROJECT.json` lists the hazards one by one, each at its line, with the properties that would catch it.

### What makes each component correct

* Tasks: dependencies never form a circle and never name a task that is gone; a task is not started while
  something blocks it; no edit overwrites what its client has not seen; history and notifications agree with the rows.
* Board and panel: at rest they show the database, unless they lost something that nobody brings back.
* Membership: a removal leaves an admin; managers do not touch admins; log and screens agree with the rows.
* Cache: an entry that is out of date is about to be deleted, or was read before a deletion, or nobody knew of it in time.
* Sessions: one live token per session, none after its end; the client renews it without the user noticing
  unless a page is loaded in the middle of it, leaves no call waiting and forgets it at logout.
* Reset and mail: the newest code opens and no older one beside it; a promised letter comes or its job has failed.
* Presence: who is there is shown to everybody there, who left fades within 90 seconds, an open page gets in.
* Chat: a settled tab shows every message once, what it shows counts as read once its mark goes through, counts agree with
  the rows, nobody types for ever; in a tab that is shown, who is removed leaves the room, who is added gets to see the channel.
* Notifications: the badge comes to show the number of unread ones again and again.
* Uploads and profile: directory and table agree but for what died in between, and for the files of what was deleted.

## 2. The modules

The modules of the server share one idea. A *slot* is one request in flight. A step of a slot is the code
between two awaits: one statement, or the write of a cache followed by the synchronous broadcast. `pc[s]`
names the await the request stands before and `job[s]` the locals that survive it, so what a handler read
and uses later is exactly what it holds in the model too. A request that is refused by its first reads
changes nothing and has no action: these reads are guards. With `Faults` a request may die at any await
(action `Fail`): its answer, its later statements and its broadcasts never come. Where a component has few handlers, the
slot bears the name of who asks (`asking[a]`, `ask[r]`, `fill[r]`, `sending[s]`, `job[u]`), and what stays open is the same.

**Tasks** (`tasks.service.ts`). `row`, `live` and `deps` are the tables, `feed` what getHistory returns,
`notified` the notifications, `board` what a board shows that missed no event. Each handler is a chain
of actions with its name as prefix: `UpdateRead`, `UpdateBlockers`, `UpdateWrite`, `UpdateEmit`, `UpdateLog`,
`UpdateLogStatus`, `UpdateNotify`. `AddVisit` is one turn of the recursion of `isCircular`, which visits the
tasks in any order. Title, description and priority are one field; two timestamps conflict if they are more
than `Tolerance` apart, as in the code. `Kinds[s]` says which operations a slot may serve; this is how a run,
and a theorem, says that two operations never overlap. **Workflow** is the promise of README.md:112, with atomic steps: a task
is started when nothing blocks it, a dependency that would close a circle is refused. `Tasks!KeepsWorkflow` says that Tasks
implements it.

**BoardClient** EXTENDS Tasks with one tab. Every broadcast of the service becomes an event; a step of the service and
its event are one step (`Serve`). `list` is the list in the query cache; it is written by events (`Hear`), by answers of the
query, which is asked for, read and shown in three steps, and by the moves of the user, which are shown before they are
sent (`Change`) and rolled back to the list before them (`RollBack`). `open` tells the board from the panel of one task.
`overrun`, `passed` and `blurred` record what was lost or overtaken, for the property; no guard reads them. `Body(status)` is what
dropping a task on a column sends; the assumptions of the module ask that such bodies are among those the service is sent.

**Membership** (`projects.service.ts`). `role` and `joined` are the rows; `joined` tells the row of a member
who came back from the old one, which is what the identifiers in the code do. The caller's role is read once,
at the start, as in the code. `activity` and `told` keep the last entry and the last event about each user.

**ProjectCache**. A fill misses, reads and stores in three steps; a writer writes and then deletes the keys in `todo`, one
step each. The removal of the project looks up the members (`RemoveFind`) and deletes the project in a later step
(`RemoveDelete`); it and `Create` are writers like the others. An entry is reduced to what its writers take care of, as the module says.

**Sessions** (`auth.service.ts`) has the families of refresh tokens; **SessionPromise** is what
docs/ARCHITECTURE.md says of a session; `Sessions!KeepsPromise` relates the two. **SessionClient** EXTENDS
Sessions: a refresh is sent on a line, a slot of Sessions, and its answer (`Leave`) is what `Receive` and `Refused` go on with.
`leader`, `line` and the calls that wait are `isRefreshing` and `failedQueue`: they belong to the page and are gone when
another is loaded (`Load`), while the request on its line goes on (`Reach`, `Drop`). `cut` remembers the sessions of which a page
load has cut short a refresh or a logout; no action reads it.

**Mail** is the queue with one worker; a job goes from waiting to active to sent, backs off when its sending fails, has failed
after `Attempts`, and is given out again once when the worker dies. **PasswordReset** and **Notifications** EXTEND it and put
their letters into it. In PasswordReset each of the three statements of requestOtp is a step that can be the last; `cancelled` in a
code is the number of codes its own request had cancelled. In Notifications the count is read and shown in two steps.

**Presence** (`realtime.gateway.ts`, `useSocket.ts`, `useProjectRealtime.ts`). A connection has its server side
(`up`, `known`, `joined`, `entry`) and its client side (`sock`), which lose sight of each other when the network
breaks. Time passes in beats of 30 s, the period of the heartbeat: 90 s are 3 beats. `emission[e]` is one run of
`emitPresenceUpdate`, whose reading and sending are apart.

**ChatRoom** (`chat.service.ts`, `chat-room.tsx`, `useChatRealtime.ts`, `chat/page.tsx`, `messages/page.tsx`). `direct` tells a
conversation from a channel. A message is its place in the order of insertion, and a time is the number of messages inserted by
then, so `lastReadAt` and `createdAt` compare as they do in the code. `history` and `older` are the two queries, with reading and
answering apart; `inbox` is the socket; `Put` is the change of a list with the effect on `messages.length`. A mark, a query or a request may
fail (`MarkFails`, `QueryFails`, `Fail`). `owed`, `failed`, `broken`, `unmarked` and `replaced` record what the properties speak of and are
read by no action. **Typing** is the indicator of the same room: what a
typist emits reaches the gateway in order, but not in step with the request that posts the message.

**Channels** (`chat.service.ts`, `chat/page.tsx`). Everybody has one tab, shown or hidden; the poll pauses while it is hidden (`Asks`). `Turn` is every change of what the page shows, with what
the change tells the gateway: leave the old room, join the new one. `JoinCheck` and `JoinRoom` are the two ends of
joinChannel, `Find`, `Make`, `Read` and `Answer` the steps of the polled list, `Kick` the reload of who is removed from the project.

**PanelTab** is what the parts of the panel and the files page share: requests, events, answers, the query cache in parts.
**Labels**, **Comments** (over Labels, whose end of a handler it uses) and **Attachments** are three services over it, and
**TaskPanel** composes them. An event carries what its handler had read; `raced` marks what a write has overtaken
since. `Save` is an update of the task by the panel, as far as the labels are concerned: it drops the fetch under way, keeps what is shown, and
puts it back if the update fails (`RollBack`); `SaveWrite`, `EmitSaved` and `SaveEnd` are its steps on the server. Queries fail and answers are lost
(`QueryFails`, `AnswerLost`). `RemoveTask` and `RemoveProject` delete the rows below them (`Cascade`) and leave the files; `gone` is what is deleted.
`Attachments!Steps` is the order of the statements of the two deletions of a file, which differ.

**Profile**: photos on disk, the row, the user in the store, requests of the page that overlap.

The MC modules instantiate these for TLC. **MCMembership** adds a history variable for `NewsCurrent`: about whom requests
overlapped or died. **MCApart** checks five modules in one run (Notifications, Typing, Profile, ProjectCache and PasswordReset):
one is at work, chosen at the start, the others are still, so its states are the sum and not the product of theirs. The bell and the reset have the
queue of letters in common and are never at work together.

The theorems stand in modules of their own, which EXTEND the modules they are about: `TasksProofs` (BoardClient and with it Tasks),
`MembershipProofs`, `SessionsProofs` (SessionClient and with it Sessions), `PasswordResetProofs`, `ChannelsProofs`, `PresenceProofs`, `ApartProofs`
(Profile, ProjectCache and ChatRoom), `TaskPanelProofs`. No model uses them.

A definition whose comment begins with *Variant* is a plausible mistake in the definition that follows it. No
specification uses it; the properties are known to fail with it in place.

## 3. The runs

| Run | Question | Bounds |
|---|---|---|
| `tasks_writer` | One slot edits tasks and adds dependencies, the other creates and deletes, requests die: is it still Workflow, without circles and early starts, and does everything end? | 3 tasks, 2 slots, 3 requests; or 1 task and 1 request, for the creations and the clock |
| `tasks_two_adders` | Two requests add dependencies: **a circle is stored** | 2 tasks, 2 requests |
| `board` | A tab moves, edits, hears, fetches and loses its connection while requests come one at a time: does it show the database, and do history, notifications and the conflict check agree with it? | 2 tasks, 2 users, 2 requests, 1 lost connection |
| `membership_changer` | One slot changes and removes, the other adds, requests die: do admins and their rights survive, and are log and events right where nothing overlapped? | 3 users, 5 requests |
| `sessions_single` | Requests about a session one at a time, deaths anywhere: one live token, ends are final, SessionPromise holds | 2 families, 4 tokens, 6 requests |
| `client_one_tab` | A tab with two calls that is loaded anew at any moment: is the refresh transparent, is nothing left waiting, and which sessions keep one live token? | 2 calls, 2 families, 3 tokens, 4 requests, 2 refreshes at a time |
| `presence_room` | Tabs come, go, break and come back before the server notices: who is shown? | 2 tabs, 3 connections, 5 moves |
| `chat_room` | A tab opens, leaves, pages back, posts, reconnects while a peer posts and admins archive, in a channel or a conversation, and marks and queries fail: what does it show, and what counts as read? | 1 tab, 1 peer, 2 messages, 3 moves and failures, pages of 1 |
| `channels_page` | An admin and a member open and hide pages, create, add, remove, talk and are expelled: who sees and hears what, and is there one of each? | 2 users, 3 channels, 3 moves |
| `panel` | Two requests about comments, reactions, labels, images and files, updates and deletions of the task and its project overlap and die while a tab hears, answers, fetches and rolls back: does it show the database, and does the directory fit the table? | 2 users, 1 label, 2 requests |
| `panel_deleted` | A task with an image is deleted: **the file of the image stays** | 2 requests, one at a time |
| `apart` | The bell, the typing indicator, the profile page, the cache, the password reset, each alone: does the badge settle, does the indicator clear, do photo and store stand, which entries are old, which codes open and do letters come? | 2 notifications; 1 typist, 5 acts; 4 requests of the page; 1 reader, 2 writers, 2 writes; 2 pages, 2 codes, 2 attempts, 1 death |

The runs in bold find the code at odds with what the repository says of it; `findings` in `PROJECT.json`
quotes the lines. The first needs two requests that overlap; the second needs nothing but a deletion: docs/SCHEMA.md:617 says that the files are
unlinked, and no handler does it. The other runs show what holds as soon as a certain overlap is excluded, and
nothing else has to be: other requests and deaths may still come at any await. In `client_one_tab` the overlap of refreshes is
not excluded by assumption (`Overlap = TRUE`). `isRefreshing` excludes it within a page; when a page is loaded in the middle of a refresh, the new one
sends the old token beside it, and the server ends the session for a reuse. The properties excuse the sessions that were cut so, and say that nothing
else in one tab breaks one.

**What other instances show.** With the constants changed, or an excuse dropped, TLC finds each of these violated, and the reason is the race or the failure in the code
that the condition of the run excludes:

| Property | Instance | What happens |
|---|---|---|
| `RemovalKeepsAdmin` | two slots that remove | two admins remove each other, both counted two |
| `BoardSettles` | two slots that update | the broadcasts go out in the other order than the writes, and boards keep the older row |
| `NeverRefused` | `Tabs = {tab1, tab2}`, `TabOf <- TwoTabs`, `Boots = {c1, c2}` | both tabs send the token they share, the second counts as a reuse and the session is ended |
| `OneLive`, `EndedStaysEnded` | `Overlap = TRUE` in Sessions | two refreshes read the token unrevoked; a logout misses the token about to be issued |
| `NobodyMissing` | two emissions | the list that was read first is sent last |
| `NeverRefused`, `StoreLive`, `UncutSessions` | without the excuse for sessions in `cut` | a page loaded during a refresh sends the token that is being rotated out |
| `ShownRead` | without `unmarked`, or without `replaced` | a mark fails and is not made again; a full page takes the place of another and no mark is made |

**Bounds.** A circle of dependencies that a race could store has two tasks, a walk that goes on has three. On the board, two requests and
a move are enough for a create, an update and a delete to meet a query, a roll back and a lost event. Three
users give a removal an admin to remove, one to remain and one to be added meanwhile. In `sessions_single` two families and
four tokens allow a rotation in one session while another is logged in, and a reuse after a rotation; in `client_one_tab` three tokens and four
requests are a login, a refresh that goes adrift, the one of the next page beside it, and a logout or another login. Two codes make an older and a newer
one; two attempts (three in the code) let a letter be refused and tried again, and fail for good; one death lets a letter be sent twice or a job stall. Three
connections let a tab come back while its old connection is still listed. In ChatRoom a page of one message makes
two messages more than a page, so that older pages, replaced pages and live messages meet. Three channels leave room for a second general or
a private one that is made while a list is read. Two requests on the panel are all pairs of handlers at all pairs of awaits, deletions of the task included. Four requests of
the profile page are two that overlap and two more that see what they left. In `apart` two writes of the cache, besides any number of members who come and go,
are a change of the tasks or the name under each of two writers; the cache has one fill at a time. `MaxRequests`, `MaxMoves`, `MaxClock`, `MaxMessages`, `MaxQueue`, `MaxMissed`, `MaxDrops`, `MaxWrites`,
`MaxCodes`, `MaxLetters`, `MaxCrashes`, `MaxNotes`, `MaxTyping`, `MaxAsks`
and `MaxChannels` bound how long a behaviour goes on, not what may happen in it. Deadlock is not checked, since
every run stops when its requests are used up.

**Symmetry** is used for identifiers that are only compared (users of Membership, tokens, families, slots) in
runs that check safety or a safety-only refinement.

**Fairness.** `Tasks!FairSpec` asks that a request that can go on does: the event loop runs every continuation and the
database answers or fails. `Presence!FairSpec` asks that messages arrive and lookups and commands come back; nothing
is asked of the users, of `Tick`, or of the server noticing a broken connection. `Channels` asks that a page that is open and shown goes on polling
(`refetchInterval`, which pauses in a hidden tab: refetchIntervalInBackground is not set) and is answered, not that any request or join ends, nor that a
hidden tab comes back. `PasswordReset` asks that the worker does its jobs and that a job which
backs off comes back, not that a request ends. `Notifications` asks that events are heard and the count is polled, `Typing` that the timer of
the browser goes off. Failures that have an action (`Fail`, `SendFails`, `QueryFails`, `MarkFails`, `AnswerLost`, `HeartbeatFails`, ...) are never excluded by
fairness. These have none, and are assumed away: the membership query of `joinProject` and the lookup of the user who connects (a refusal apart), for `OpenJoins`; the
poll of the channels, which is refused or answered, for `AddedSees` and `RemovedLeaves`; the poll of the count, for `BadgeSettles`: a poll that fails is made again ten
or thirty seconds later, so this only asks that polls do not fail for ever.

## 4. The properties that are not obvious

* `NoBlindOverwrite` compares what a client had loaded with the row that is overwritten, not with the row that was
  checked. It holds for requests that do not overlap.
* `AssigneeTold` is about edits. `create` takes an assignee too and notifies nobody (tasks.service.ts:84-173), although the empty
  inbox promises "updates here when tasks are assigned to you" (notifications/page.tsx:241); the run creates such
  tasks. An edit that assigns and moves a task at once tells the new assignee of the move only.
* `BoardSettles` excuses three losses, each a line of the code: events missed while the connection was down, which nobody fetches
  after the reconnect (useProjectRealtime.ts:41); a roll back to a list from before other events (board/page.tsx:167); an answer that
  was taken before an event and shown after it. Everything else has to be made up for: a refused move, a move whose
  answer was lost, a query that was given up. An answer that no event has overtaken clears the excuse.
* `PanelSettles` excuses a part, until it is fetched again, when a list was read before another write and sent after it, a slower
  fetch overwrote an event, a request died before it told the others, the fetch of the comments failed, the answer to a change of a comment was lost, or
  an update of the task that failed put back labels that are not those shown (task-detail-panel.tsx:183). Edits of others' comments are never told
  (comments.service.ts:234-247), so the texts of others are left out. Of a deleted task nothing is promised but `DiskMatches`.
* `DiskMatches` names the places: the row of an image may lack its file after a deletion that died, the row of a project file
  never does, because the two deletions unlink and delete in opposite order; and a file may lack its row after an upload that was refused or died, after an
  unlink that failed, and after its task or project was deleted (`orphans`). `ImagesUnlinked` is what SCHEMA.md says of the last of these, and is violated.
* `NeverRefused`, `StoreLive` and `UncutSessions` excuse the sessions that a page load has cut in the middle of a refresh or a logout: `isRefreshing`
  is a variable of the page (api.ts:28), so the next page does not know of the refresh under way.
* `StaleIsRaced`: an old entry stays for its minute only if it was read before a deletion of its key, the deletion failed, or it is the list of
  somebody who became a member between the look at the members and the deletion of the project (projects.service.ts:275-282).
* `OneOfEach` allows two general channels, or two conversations of one pair, only if the maker of the later one had looked before
  the earlier one was stored: no constraint forbids the pair.
* `OneOpenCode` allows an older code beside a newer one only if the newer request had cancelled before the older code was stored.
  `NewestOpens` is its other half: cancelling must not take the newest code as well.
* `RemovedLeaves` leaves out a page that leaves the room while its join is under way: the join ends later and the socket stays in the
  room (realtime.gateway.ts:291 checks nothing after its awaits). Nobody tells a removed member's tab; the poll of the list does, as long as the tab is
  shown: the socket of a hidden tab stays in the room.
* `RemovalKeepsAdmin` is about removals. `updateMemberRole` does let the last admin be demoted (no count is taken
  at projects.service.ts:396), and nothing in the repository says otherwise.
* `PresentListed` needs `missed = 0` after the key has expired: `expire` is called by joins only
  (realtime.gateway.ts:177), so 24 hours after the last join everybody vanishes until the next heartbeat.
* `GhostsFade` bounds what a join that ends after its connection is gone can do: its entry is never refreshed.
* `SettledSee` starts at the moment a tab is in the room and its history is shown. Before that a message can be
  lost to the tab: the answer of the history query replaces what came live while it was under way. After a
  reconnect the room is joined again but nothing is fetched, so messages of the gap are missing; the property says
  which ones still have to be there.
* `ShownRead` excuses a tab, until its next mark goes through, if a mark failed or its answer was lost (chat-room.tsx:61 logs it and tries no more), or
  if a full page replaced another full page: the effect of chat-room.tsx:62 depends on `messages.length`, so no mark is made then and the new
  messages stay unread while they are shown.
* `BadgeSettles` is "again and again", not "for ever": an event and a count that cross make the badge wrong until the next poll.
* `ProfileStands` excuses photos after two overlapping requests or a failure, and the store after an answer that was lost or late.

## 5. The proofs

Each theorem holds for any number of tasks, users, slots, tabs, tokens and requests and any bounds, from the ASSUMEs of the modules;
what a theorem needs beyond them is in its own ASSUME. TLC evaluates the ASSUMEs in the runs.

**TasksProofs** (Tasks, and the tab of BoardClient).

* `TypeCorrect`; `DepsLiveAlways`, by the cascade of the delete and the guard of the insert, however requests interleave.
* `AcyclicAlways`, `StartsUnblockedAlways`, `WorkflowKept`, under `OneServes`: at most one slot serves the operations that would race,
  which is the condition `tasks_two_adders` shows to be needed. Acyclic is not inductive: an insert is safe only because of what
  its walk has found. `AcyclicInv` adds `WalkSound`: what was visited is closed under blockers up to the work left,
  contains the blocker and not the task. At the insert no work is left, so a circle through the new edge would lead from the
  blocker to the task inside the visited set (`SafeEdge`). `StartInv` adds `CheckStands`: up to its write, what an
  update found out about its task is still true, since others only delete (`UnresolvedShrinks`).
  `WorkflowKept` maps each step to a step of Workflow or a stutter.
* `NoBlindWrites`, if one slot serves updates: `UpdateInv` says that the row an update read (`orig`) is the row it will overwrite, and
  after the write that `snap` is the row stored. `AssigneeAlwaysTold` follows from it if no request dies.
* `HistoryFollows` (AuditTrail), under the same conditions. The history of a task and its row differ while an update has written and not
  logged: `TrailStands` says that the chain ends where the row is, or where it was before the one update that has its move still to log.
* `TabSettles` (BoardSettles), if one slot serves all requests. Two halves. `BusyInv`: the board that misses nothing is the database,
  but for the one change whose broadcast is pending, and what the request is about to tell is what the database holds. `TabInv` is about the
  tab: `Catches(t, v)` says that a list showing v of task t will show the database once the events on their way are heard, and it
  holds of three lists at once: the one shown (`ListCatches`), the one fetched and not yet shown (`RowsCatch`) and the one a
  roll back would bring (`BeforeCatches`), each unless its excuse is recorded (`blurred`, `overrun`, `passed`). The guess of a move needs no
  excuse as long as its own event is still to be sent (`Unsent`, `GuessKept`). `QueueSound` is what the argument needs of the events: only
  drawn tasks are told, nothing but removals follows a removal, and the last event about a task tells what the board shows.
* `BoardCovered`: the service beside the tab is that of Tasks, so each theorem about Tasks holds of `BoardSpec` as well.

**MembershipProofs.** `TypeCorrect`; `RemovalKeepsAdminAlways` and `ManagersSpareAdminsAlways`, if one slot changes and removes, from
`MemberInv`, which adds `FindingStands`: what a change or removal found out about a row still holds of that row.
`NewsAlwaysCurrent` (NewsCurrent), whatever each slot serves and whoever dies: `UserFit` says of a user who is not `mixed` that one request
at most is about this user, and that one which has written and not told of it yet (`Untold`) is about to say what the row says.
`MixedCovered`: the history variable of MCMembership only watches.

**SessionsProofs** (Sessions, and the tabs of SessionClient).

* `TypeCorrect`; `OneLiveAlways`, `EndedAlways` and `PromiseKept` for `Overlap = FALSE`, from
  `SessionInv`, which adds `RotationSound` (the token being rotated is the live one, none is live while the next is about to
  be issued) and that a family's tokens belong to one login.
* `ClientCovered`: the tabs, with lost calls and answers, are one of the clients Sessions allows for, with no condition.
* `NoneLeftWaiting` (NoOrphans) for any number of tabs and calls and whatever is lost: a call waits only in a tab that refreshes.
* `SignedOutStaysOut` (LeftStaysOut), if nothing is refreshed while the user signs out (`Calm`): `OutInv` adds that signing out has the
  server to itself and that after it no token is stored or under way.
* `OneTabOneLive` (UncutSessions), for a user with one tab, with `Overlap = TRUE` and whatever is lost, dies or is loaded anew: the requests about a session that
  no page load has cut come one at a time, which is proved of the client and not assumed.
* `StoredTokenLives` (StoreLive) and, without faults of the server, `NeverThrownOut` (NeverRefused), for one tab: the stored token is the live one of
  its family, or the page waits for the answer that replaces it, or the session was cut.

**PasswordResetProofs.** `OldCodesClosed` (OneOpenCode) and `NewestStaysOpen` (NewestOpens) from `CancelledBefore`: a request about to
store its code had used up all codes stored when it began, so that what opens beside it is newer than its look. `LettersKept`: the letter of
a promised code is sent, queued, at work, backing off, or has failed for good; `QueueExact` says that every waiting letter is in the queue
once, `OneAtWork` that the worker has one job.

**ChannelsProofs.** `LookersMakeNoSecond` (OneOfEach), with no condition: whoever is about to make a general channel or a conversation has
looked for it among rows in which it was not (`LooksHold`).

**PresenceProofs.** `HereIsListed` (PresentListed): the entries of those here are no older than the last heartbeat that went through
(`EntriesKept`). `NoLastingGhosts` (GhostsFade): an entry is no younger than its connection is gone (`GoneCounted`), so a list that leaves
after 90 seconds does not name it. `EverybodyShown` (NobodyMissing), for one run of `emitPresenceUpdate` at a time (`ListsFull`).

**ApartProofs** (Profile, ProjectCache and ChatRoom, which share nothing). `ProfileSettles` (ProfileStands): as long as nothing overlapped or failed the disk holds exactly
the row's photo and the one being uploaded (`DiskExact`), and the store has the row or the answer that brings it is under way
(`StoreFollows`). `CacheStale` (StaleIsRaced), with no bound on readers and writers: what a reader holds is current, or marked as
overtaken, or its key is still to be deleted by somebody (`ReadIsRaced`), and a writer deletes the lists last (`ListsLast`).

For the chat room, with any number of tabs and peers and any size of a page, all four safety properties of `chat_room` follow from `ChatInv`.

* `ChatKeepsItsShape` is its typed part (`ChatType`, `TabsFit`, `PagesFit`, `SendingFits`); `ChatNoRepeats` (NoRepeats) goes with it. A page is
  a run of numbers (`BeforeLists`), what is put before a list is disjoint from it (`ConcatShows`), what is put behind it was looked for first.
  `InOrderLists` says that numbering the members of a finite set by how many are no larger lists each of them once.
* `ChatSettledSee` (SettledSee) from `OwedComes`, which adds that a tab still to be told of a message is in the room: leaving it forgets what is
  owed, and only the answer of a history, which owes its page instead, takes anything from a list (`ListStep`).
* `ChatShownRead` (ShownRead) from `MarkedRead`, which does not except own messages. Every step that changes the length of an open list makes a
  mark (`MarksStep`); one that fails is recorded (`unmarked`). The one step that changes a list and not its length is a history: a full page in place of
  another is recorded (`replaced`), and if it is shorter than a page it
  holds all n messages up to n, and as many, all different, were read before (`FewNumbers`), so n is read.
* `ChatBadgeFresh` (BadgeFresh) from `CountComes`: the sender's own answer is an excuse in a conversation only, for in a channel the
  sender is told of the new counts like everybody. A count depends on what is stored and read, which only a message that will still be told of, or
  a mark, changes (`UnreadStep`).

**TaskPanelProofs.** `FilesAndRowsAgree` (DiskMatches): a name has one owner (`OneOwner`), and what the first step of an upload or a
deletion has done is still so at its second (`HalfDone`). The cascade of a deletion moves names from the rows to `orphans`.

The type invariants of Membership and Sessions and `DepsLive` are proved and not checked by a run any more.

**Checked by TLC only.**

* `PanelSettles`: it is checked with its failures, roll backs and deletions on the instance of `panel` and has no theorem.
* Liveness, out of the prover's reach: RequestsFinish, OpenJoins, AddedSees, RemovedLeaves, CodeArrives, BadgeSettles, IndicatorClears.

Every other safety property of the passing runs, invariant or action property, has a theorem, some under the conditions named above.

## 6. What the models leave out

* A statement takes effect in the step that issues it; a transaction is one step. Times taken in the server
  (`new Date()`) are those of that step.
* One server process. Socket.IO keeps the order of the events on one connection. Redis commands of one process take
  effect in the order in which they are issued; `zadd` and `expire` of a join are one step, and so are the purge and the
  read of a list. Every tab of Presence belongs to a member; `Tick` waits for messages, lookups and lists, which take less than
  30 s, but not for the query of joinProject.
* BoardClient: one move in flight, the tasks fit on one page, no filter. TaskPanel: the connection holds (losing it is BoardClient's), labels are
  changed on another page, one emoji stands for all, and of a task or project that is deleted no event is followed (the tab of `task:deleted` is BoardClient's).
* The run of ChatRoom follows one tab (the theorems, any number); other members are peers that post. Their tabs only meet through the messages. Its
  members do not change (Channels is about that); mentions are only the delay they are. The poll
  of the counts every 10 s is left out, so that counts have to be right without it. Channels has one project and one tab for each user.
* PasswordReset has no clock and no two codes with the same digits; an address without an account gets the same answer and no steps.
* ProjectCache leaves out the progress and the number of members in a list: no writer of a task deletes the lists, so these
  are up to a minute old by design.
* Operations without an action: `register`, `changePassword`, `updateChannel`, the creation of a label, the quotes and attachments of messages, the
  dashboard's summary, the lists of candidates, activities and
  notifications, search and export, `users.service.ts`: reads, or single statements on one row that no other step looks at.
* Validation, authorisation by the JWT guard, formatting, mail texts, and the content of rows beyond what a guard or a property reads.

## 7. Plan

The plan is carried out: what the runs check of safety is proved, but for `PanelSettles`. What could follow:

1. `updateMemberRole` and the last admin, once the repository says what it should do (the code takes no count at projects.service.ts:396).
2. A proof of `PanelSettles`; the operations of section 6 that have no action, and the loss of the connection in TaskPanel.
