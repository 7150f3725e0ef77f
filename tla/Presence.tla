------------------------------ MODULE Presence ------------------------------
(***************************************************************************)
(* Who is shown to be in the room of one project                           *)
(* (backend/src/realtime/realtime.gateway.ts; frontend/src/hooks:          *)
(* useSocket.ts and useProjectRealtime.ts).                                *)
(*                                                                         *)
(* A tab has one socket at a time.  When its connection breaks it takes a  *)
(* new one, while the server may go on with the old one until it notices.  *)
(* The gateway keeps the sockets of the room in a sorted set of Redis, by  *)
(* the time of their last sign of life.  Its commands go over one          *)
(* connection, so they take effect in the order in which they are issued:  *)
(* zadd and zrem are part of the step that issues them.  Time passes in    *)
(* beats, the 30 seconds between two heartbeats.  Every tab belongs to a   *)
(* member of the project.                                                  *)
(***************************************************************************)
EXTENDS Naturals, Sequences, FiniteSets

CONSTANTS
  Tabs,
  Users,
  UserOf,     \* UserOf[c]: the user of tab c
  Sockets,    \* connections that the server may know at the same time
  TabOf,      \* TabOf[k]: the tab that may take connection k
  Emissions,  \* runs of emitPresenceUpdate that may be under way
  None,
  Stale,      \* beats until an entry is stale: 90 s
  KeyLife,    \* beats until the key expires: 24 h
  MaxMissed,  \* bound on the heartbeats in a row that fail
  MaxQueue,   \* bound on the messages a tab has under way
  MaxMoves    \* bound on what the tabs do

ASSUME PresenceAssumption ==
  /\ UserOf \in [Tabs -> Users]
  /\ TabOf \in [Sockets -> Tabs]
  /\ None \notin Sockets \cup Nat
  /\ Stale \in Nat \ {0} /\ KeyLife \in Nat \ {0}
  /\ MaxMissed \in Nat /\ MaxMissed + 1 < Stale
  /\ MaxQueue \in Nat /\ MaxMoves \in Nat

VARIABLES
  moves,     \* what the tabs have done so far
  sock,      \* sock[c]: the connection of tab c, None while it is offline
  page,      \* the tabs on a page of the project
  shown,     \* shown[c]: the users tab c shows to be present
  greeting,  \* the connections on which `authenticated' is under way
  inbox,     \* inbox[k]: the messages of tab TabOf[k] under way on k
  up,        \* the connections the server takes to be open
  lookups,   \* the connections whose user is being looked up
  known,     \* the connections with client.user set
  checks,    \* checks[k]: the runs of joinProject that await the membership
  joined,    \* the connections with the project in joinedProjects
  entry,     \* entry[k]: the age in beats of the entry of k, None without one
  life,      \* beats the key has left, None if it has no time to live
  emission,  \* emission[e]: how far e is, and the users it found
  due,       \* a heartbeat is due
  missed,    \* heartbeats in a row that failed
  gone,      \* gone[k]: beats since the server closed k and finished with it
  lapsed     \* the key has expired

tabs  == <<moves, sock, page, shown, greeting>>
redis == <<entry, life>>
beat  == <<due, missed, gone, lapsed>>
vars  == <<tabs, inbox, up, lookups, known, checks, joined, redis, emission, beat>>

Listed == {k \in Sockets : entry[k] # None}
Here   == joined \cap up
Who(S) == {UserOf[TabOf[k]] : k \in S}
Min2(x, y) == IF x < y THEN x ELSE y

Move == moves < MaxMoves /\ moves' = moves + 1

Say(k, message) ==
  /\ Len(inbox[k]) < MaxQueue
  /\ inbox' = [inbox EXCEPT ![k] = Append(@, message)]

----------------------------------------------------------------------------
(* The tab. *)

(* A connection of which the server has nothing left is taken anew.        *)
Connect(c) ==
  /\ Move
  /\ sock[c] = None
  /\ \E k \in Sockets \ (up \cup lookups \cup Listed) :
       /\ TabOf[k] = c /\ checks[k] = 0
       /\ sock' = [sock EXCEPT ![c] = k]
       /\ up' = up \cup {k}
       /\ lookups' = lookups \cup {k}
       /\ known' = known \ {k}
       /\ joined' = joined \ {k}
       /\ gone' = [gone EXCEPT ![k] = 0]
  /\ UNCHANGED <<page, shown, greeting, inbox, checks, redis, emission, due, missed, lapsed>>

(* The connection breaks, or the tab renews it because its token changed.  *)
Lose(c) ==
  /\ Move
  /\ sock[c] # None
  /\ sock' = [sock EXCEPT ![c] = None]
  /\ shown' = [shown EXCEPT ![c] = {}]
  /\ greeting' = greeting \ {sock[c]}
  /\ UNCHANGED <<page, inbox, up, lookups, known, checks, joined, redis, emission, beat>>

Open(c) ==
  /\ Move
  /\ c \notin page
  /\ page' = page \cup {c}
  /\ IF sock[c] # None THEN Say(sock[c], "join") ELSE UNCHANGED inbox
  /\ UNCHANGED <<sock, shown, greeting, up, lookups, known, checks, joined,
                 redis, emission, beat>>

Close(c) ==
  /\ Move
  /\ c \in page
  /\ page' = page \ {c}
  /\ IF sock[c] # None THEN Say(sock[c], "leave") ELSE UNCHANGED inbox
  /\ UNCHANGED <<sock, shown, greeting, up, lookups, known, checks, joined,
                 redis, emission, beat>>

\* Variant: a page that is open already does not join again.
GreetSilent(c) ==
  /\ sock[c] \in greeting
  /\ greeting' = greeting \ {sock[c]}
  /\ UNCHANGED <<moves, sock, page, shown, inbox, up, lookups, known, checks, joined,
                 redis, emission, beat>>

(* `authenticated' arrives.  A join sent before the server knew the user   *)
(* was ignored, so the page joins (again).                                 *)
Greet(c) ==
  /\ sock[c] \in greeting
  /\ greeting' = greeting \ {sock[c]}
  /\ IF c \in page THEN Say(sock[c], "join") ELSE UNCHANGED inbox
  /\ UNCHANGED <<moves, sock, page, shown, up, lookups, known, checks, joined,
                 redis, emission, beat>>

----------------------------------------------------------------------------
(* handleConnection, once the user is looked up. *)

Authenticate(k) ==
  /\ k \in lookups
  /\ lookups' = lookups \ {k}
  /\ known' = known \cup {k}
  /\ greeting' = IF sock[TabOf[k]] = k THEN greeting \cup {k} ELSE greeting
  /\ UNCHANGED <<moves, sock, page, shown, inbox, up, checks, joined, redis, emission, beat>>

(* No such user, or a token that is over its age.  The tab connects again  *)
(* when its token has changed.                                             *)
Refuse(k) ==
  LET c == TabOf[k] IN
  /\ k \in lookups
  /\ lookups' = lookups \ {k}
  /\ up' = up \ {k}
  /\ inbox' = [inbox EXCEPT ![k] = <<>>]
  /\ IF sock[c] = k
       THEN /\ sock' = [sock EXCEPT ![c] = None]
            /\ shown' = [shown EXCEPT ![c] = {}]
       ELSE UNCHANGED <<sock, shown>>
  /\ UNCHANGED <<moves, page, greeting, known, checks, joined, redis, emission, beat>>

----------------------------------------------------------------------------
(* The room. *)

\* Redis drops a key, and its time to live, with the last entry.
Enter(k) == entry' = [entry EXCEPT ![k] = 0] /\ life' = KeyLife

Remove(k) ==
  /\ entry' = [entry EXCEPT ![k] = None]
  /\ life' = IF Listed \subseteq {k} THEN None ELSE life

Announce ==
  \E e \in Emissions :
    /\ emission[e].stage = "idle"
    /\ emission' = [emission EXCEPT ![e] = [stage |-> "read", found |-> {}]]

HandleJoin(k) ==
  /\ k \in up /\ inbox[k] # <<>> /\ Head(inbox[k]) = "join"
  /\ inbox' = [inbox EXCEPT ![k] = Tail(@)]
  /\ checks' = [checks EXCEPT ![k] = IF k \in known THEN @ + 1 ELSE @]
  /\ UNCHANGED <<tabs, up, lookups, known, joined, redis, emission, beat>>

\* Variant: nobody is told.
JoinSilently(k) ==
  /\ checks[k] > 0
  /\ checks' = [checks EXCEPT ![k] = @ - 1]
  /\ joined' = joined \cup {k}
  /\ Enter(k)
  /\ UNCHANGED <<tabs, inbox, up, lookups, known, emission, beat>>

(* The membership is found, whatever has become of the connection by then. *)
Join(k) ==
  /\ checks[k] > 0
  /\ checks' = [checks EXCEPT ![k] = @ - 1]
  /\ joined' = joined \cup {k}
  /\ Enter(k)
  /\ Announce
  /\ UNCHANGED <<tabs, inbox, up, lookups, known, beat>>

\* Variant: the project stays in joinedProjects.
HandleLeaveHalf(k) ==
  /\ k \in up /\ inbox[k] # <<>> /\ Head(inbox[k]) = "leave"
  /\ inbox' = [inbox EXCEPT ![k] = Tail(@)]
  /\ Remove(k)
  /\ Announce
  /\ UNCHANGED <<tabs, up, lookups, known, checks, joined, beat>>

HandleLeave(k) ==
  /\ k \in up /\ inbox[k] # <<>> /\ Head(inbox[k]) = "leave"
  /\ inbox' = [inbox EXCEPT ![k] = Tail(@)]
  /\ joined' = joined \ {k}
  /\ Remove(k)
  /\ Announce
  /\ UNCHANGED <<tabs, up, lookups, known, checks, beat>>

(* handleDisconnect, when the server notices that a tab has left k.        *)
HandleDisconnect(k) ==
  /\ k \in up /\ sock[TabOf[k]] # k
  /\ up' = up \ {k}
  /\ inbox' = [inbox EXCEPT ![k] = <<>>]
  /\ IF k \in joined THEN Remove(k) /\ Announce ELSE UNCHANGED <<redis, emission>>
  /\ UNCHANGED <<tabs, lookups, known, checks, joined, beat>>

----------------------------------------------------------------------------
(* emitPresenceUpdate: drop the stale entries and read the others, look    *)
(* the users up, tell the room.                                            *)

Fresh == {k \in Listed : entry[k] < Stale}

Show(found) ==
  shown' = [c \in Tabs |-> IF sock[c] \in Here THEN found ELSE shown[c]]

Read(e, kept) ==
  /\ emission[e].stage = "read"
  /\ entry' = [k \in Sockets |-> IF k \in kept THEN entry[k] ELSE None]
  /\ life' = IF kept = {} THEN None ELSE life
  /\ IF kept = {}
       THEN /\ Show({})
            /\ emission' = [emission EXCEPT ![e] = [stage |-> "idle", found |-> {}]]
       ELSE /\ emission' = [emission EXCEPT ![e] = [stage |-> "tell", found |-> Who(kept)]]
            /\ UNCHANGED shown
  /\ UNCHANGED <<moves, sock, page, greeting, inbox, up, lookups, known, checks, joined, beat>>

\* Variant: stale entries are kept.
EmitReadAll(e) == Read(e, Listed)

EmitRead(e) == Read(e, Fresh)

EmitTell(e) ==
  /\ emission[e].stage = "tell"
  /\ Show(emission[e].found)
  /\ emission' = [emission EXCEPT ![e] = [stage |-> "idle", found |-> {}]]
  /\ UNCHANGED <<moves, sock, page, greeting, inbox, up, lookups, known, checks, joined, redis, beat>>

----------------------------------------------------------------------------
(* The heartbeat: every open connection that has joined is entered anew,   *)
(* without a time to live if the key was gone.                             *)

Heartbeat ==
  /\ due
  /\ entry' = [k \in Sockets |-> IF k \in Here THEN 0 ELSE entry[k]]
  /\ due' = FALSE
  /\ missed' = 0
  /\ UNCHANGED <<tabs, inbox, up, lookups, known, checks, joined, life, emission, gone, lapsed>>

HeartbeatFails ==
  /\ due
  /\ missed < MaxMissed
  /\ due' = FALSE
  /\ missed' = missed + 1
  /\ UNCHANGED <<tabs, inbox, up, lookups, known, checks, joined, redis, emission, gone, lapsed>>

Older(k) == IF entry[k] = None THEN None ELSE Min2(entry[k] + 1, Stale)

(* A beat is long: messages, lookups and lists do not take that much, the  *)
(* query of joinProject may.                                               *)
Tick ==
  /\ ~due /\ lookups = {} /\ greeting = {}
  /\ \A k \in Sockets : inbox[k] = <<>>
  /\ \A e \in Emissions : emission[e].stage = "idle"
  /\ due' = TRUE
  /\ IF life = 1
       THEN /\ entry' = [k \in Sockets |-> None]
            /\ life' = None
            /\ lapsed' = TRUE
       ELSE /\ entry' = [k \in Sockets |-> Older(k)]
            /\ life' = IF life = None THEN None ELSE life - 1
            /\ lapsed' = lapsed
  /\ gone' = [k \in Sockets |->
                IF k \in up \/ checks[k] > 0 THEN 0 ELSE Min2(gone[k] + 1, Stale)]
  /\ UNCHANGED <<tabs, inbox, up, lookups, known, checks, joined, emission, missed>>

----------------------------------------------------------------------------
Init ==
  /\ moves = 0
  /\ sock = [c \in Tabs |-> None]
  /\ page = {} /\ greeting = {}
  /\ shown = [c \in Tabs |-> {}]
  /\ inbox = [k \in Sockets |-> <<>>]
  /\ up = {} /\ lookups = {} /\ known = {} /\ joined = {}
  /\ checks = [k \in Sockets |-> 0]
  /\ entry = [k \in Sockets |-> None] /\ life = None
  /\ emission = [e \in Emissions |-> [stage |-> "idle", found |-> {}]]
  /\ due = FALSE /\ missed = 0 /\ lapsed = FALSE
  /\ gone = [k \in Sockets |-> Stale]

Handle(k) == HandleJoin(k) \/ HandleLeave(k)

Emit(e) == EmitRead(e) \/ EmitTell(e)

Next ==
  \/ \E c \in Tabs :
       Connect(c) \/ Lose(c) \/ Open(c) \/ Close(c) \/ Greet(c)
  \/ \E k \in Sockets :
       Authenticate(k) \/ Refuse(k) \/ Handle(k) \/ Join(k) \/ HandleDisconnect(k)
  \/ \E e \in Emissions : Emit(e)
  \/ Heartbeat \/ HeartbeatFails \/ Tick

Spec == Init /\ [][Next]_vars

(* Messages arrive, lookups and commands come back.                        *)
FairSpec ==
  /\ Spec
  /\ \A c \in Tabs : WF_vars(Greet(c))
  /\ \A k \in Sockets :
       WF_vars(Authenticate(k)) /\ WF_vars(Handle(k)) /\ WF_vars(Join(k))
  /\ \A e \in Emissions : WF_vars(Emit(e))

----------------------------------------------------------------------------
(* Properties. *)

(* Whoever is in the room is listed and not stale once the heartbeat that  *)
(* is due has run, though some of them fail; after the key has expired it  *)
(* takes one that does not.                                                *)
PresentListed == ~due /\ (lapsed => missed = 0) => Here \subseteq Fresh

(* A user who has left is shown no longer: a list that is sent names only  *)
(* users of whom the server had a connection within the last 90 seconds,   *)
(* even if a join completed after the connection was gone.                 *)
GhostsFade ==
  [][\A e \in Emissions :
       emission[e].stage = "read" =>
         \A u \in emission'[e].found : \E k \in Sockets :
           UserOf[TabOf[k]] = u /\ gone[k] < Stale]_vars

Quiet ==
  /\ lookups = {} /\ greeting = {}
  /\ \A k \in Sockets : inbox[k] = <<>> /\ checks[k] = 0
  /\ \A e \in Emissions : emission[e].stage = "idle"

(* If lists are made one at a time and the key never expired, every tab in *)
(* the room shows everybody who is there once all is quiet.                *)
NobodyMissing ==
  Quiet /\ ~lapsed => \A c \in Tabs : sock[c] \in Here => Who(Here) \subseteq shown[c]

(* A page that stays open on a connection that lasts gets into the room,   *)
(* whichever came first: the page, the connection or `authenticated'.      *)
OpenJoins ==
  \A k \in Sockets :
    <>[](TabOf[k] \in page /\ sock[TabOf[k]] = k) => <>[](k \in joined)
=============================================================================
