--------------------------- MODULE PresenceProofs ---------------------------
(* What Presence guarantees for every number of tabs, connections and runs *)
(* of emitPresenceUpdate.                                                  *)
EXTENDS Presence, TLAPS

Emits == [stage : {"idle", "read"}, found : {{}}] \cup [stage : {"tell"}, found : SUBSET Users]

PresenceType ==
  /\ entry \in [Sockets -> Nat \cup {None}] /\ gone \in [Sockets -> Nat]
  /\ checks \in [Sockets -> Nat] /\ up \subseteq Sockets
  /\ emission \in [Emissions -> Emits]
  /\ shown \in [Tabs -> SUBSET Users] /\ sock \in [Tabs -> Sockets \cup {None}]
  /\ missed \in 0..MaxMissed /\ due \in BOOLEAN /\ lapsed \in BOOLEAN

\* The heartbeats that an entry may be behind.
Behind == IF due THEN missed + 1 ELSE missed

(* The entries of whoever is here are as old as the last heartbeat that    *)
(* went through, unless the key has expired since then.                    *)
EntriesKept ==
  (lapsed => missed = 0 /\ ~due) =>
    \A k \in Here : k \in Listed /\ entry[k] <= Behind

(* A connection that the server holds, or asks the members for, is not     *)
(* gone, and no entry is younger than its connection is gone.              *)
GoneCounted ==
  \A k \in Sockets :
    /\ k \in up \/ checks[k] > 0 => gone[k] = 0
    /\ k \in Listed => gone[k] <= entry[k]

PresenceInv == PresenceType /\ EntriesKept /\ GoneCounted

(* With one run of emitPresenceUpdate at a time: what is shown, or about   *)
(* to be, names everybody who is here.                                     *)
ListsFull ==
  ~lapsed =>
    /\ (\A e \in Emissions : emission[e].stage = "idle") =>
         \A c \in Tabs : sock[c] \in Here => Who(Here) \subseteq shown[c]
    /\ \A e \in Emissions : emission[e].stage = "tell" => Who(Here) \subseteq emission[e].found

----------------------------------------------------------------------------
LEMMA EmitsAre ==
  /\ [stage |-> "idle", found |-> {}] \in Emits
  /\ [stage |-> "read", found |-> {}] \in Emits
  /\ \A S \in SUBSET Users : [stage |-> "tell", found |-> S] \in Emits
BY DEF Emits

LEMMA WhoAre == ASSUME NEW S \in SUBSET Sockets PROVE Who(S) \in SUBSET Users
BY PresenceAssumption DEF Who

LEMMA AnnounceType ==
  ASSUME PresenceType, Announce
  PROVE  emission' \in [Emissions -> Emits]
BY EmitsAre DEF Announce, PresenceType

LEMMA PresenceInitInv == Init => PresenceInv
<1> SUFFICES ASSUME Init PROVE PresenceInv
  OBVIOUS
<1>1. PresenceType
  <2>1. /\ entry \in [Sockets -> Nat \cup {None}] /\ gone \in [Sockets -> Nat]
        /\ checks \in [Sockets -> Nat]
    BY PresenceAssumption DEF Init
  <2>2. emission \in [Emissions -> Emits]
    BY EmitsAre DEF Init
  <2>3. 0 \in 0..MaxMissed
    BY PresenceAssumption
  <2> QED
    BY <2>1, <2>2, <2>3 DEF Init, PresenceType
<1>2. EntriesKept /\ GoneCounted
  BY DEF Init, EntriesKept, GoneCounted, Here, Listed
<1> QED
  BY <1>1, <1>2 DEF PresenceInv

(* What does not touch the entries, and lets connections only go.          *)
LEMMA EntriesUntouched ==
  ASSUME PresenceInv, PresenceType', UNCHANGED <<entry, gone, beat>>,
         Here' \subseteq Here, up' \subseteq up,
         \A k \in Sockets : checks'[k] > 0 => gone[k] = 0
  PROVE  PresenceInv'
<1>1. Listed' = Listed /\ Behind' = Behind
  BY DEF Listed, Behind, beat
<1>2. EntriesKept'
  BY <1>1 DEF PresenceInv, EntriesKept, beat
<1>3. GoneCounted'
  BY <1>1 DEF PresenceInv, GoneCounted
<1> QED
  BY <1>2, <1>3 DEF PresenceInv

(* The tab's own steps, but for a new connection.                          *)
LEMMA TabSteps ==
  ASSUME PresenceInv, NEW c \in Tabs, Lose(c) \/ Open(c) \/ Close(c) \/ Greet(c)
  PROVE  PresenceInv'
<1>1. UNCHANGED <<up, joined, checks, entry, gone, beat, emission>>
  BY DEF Lose, Open, Close, Greet, redis, beat
<1>2. PresenceType'
  BY <1>1 DEF PresenceInv, PresenceType, Lose, Open, Close, Greet, beat
<1>3. Here' = Here /\ \A k \in Sockets : checks'[k] > 0 => gone[k] = 0
  BY <1>1 DEF Here, PresenceInv, GoneCounted
<1> QED
  BY <1>1, <1>2, <1>3, EntriesUntouched

LEMMA ConnectStep ==
  ASSUME PresenceInv, NEW c \in Tabs, Connect(c)
  PROVE  PresenceInv'
<1>1. PICK k \in Sockets \ (up \cup lookups \cup Listed) :
        /\ sock' = [sock EXCEPT ![c] = k] /\ up' = up \cup {k} /\ joined' = joined \ {k}
        /\ gone' = [gone EXCEPT ![k] = 0]
  BY DEF Connect
<1>2. UNCHANGED <<shown, checks, entry, emission, due, missed, lapsed>>
  BY DEF Connect, redis
<1>3. PresenceType'
  BY <1>1, <1>2 DEF PresenceInv, PresenceType
<1>4. Here' = Here /\ Listed' = Listed /\ Behind' = Behind
  BY <1>1, <1>2 DEF Here, Listed, Behind
<1>5. EntriesKept'
  BY <1>2, <1>4 DEF PresenceInv, EntriesKept
<1>6. GoneCounted'
  BY <1>1, <1>2, <1>4 DEF PresenceInv, GoneCounted, PresenceType
<1> QED
  BY <1>3, <1>5, <1>6 DEF PresenceInv

LEMMA SocketSteps ==
  ASSUME PresenceInv, NEW k \in Sockets, Authenticate(k) \/ Refuse(k) \/ HandleJoin(k)
  PROVE  PresenceInv'
<1>1. UNCHANGED <<joined, entry, gone, beat, emission>> /\ up' \subseteq up
  BY DEF Authenticate, Refuse, HandleJoin, redis, tabs, beat
<1>2. PresenceType'
  <2>1. /\ checks' \in [Sockets -> Nat] /\ shown' \in [Tabs -> SUBSET Users]
        /\ sock' \in [Tabs -> Sockets \cup {None}]
    <3>1. CASE HandleJoin(k)
      BY <3>1 DEF HandleJoin, tabs, PresenceInv, PresenceType
    <3>2. CASE Authenticate(k)
      BY <3>2 DEF Authenticate, PresenceInv, PresenceType
    <3>3. CASE Refuse(k)
      BY <3>3, PresenceAssumption DEF Refuse, PresenceInv, PresenceType
    <3> QED
      BY <3>1, <3>2, <3>3
  <2> QED
    BY <1>1, <2>1 DEF PresenceInv, PresenceType, beat
<1>3. Here' \subseteq Here
  BY <1>1 DEF Here
<1>4. \A q \in Sockets : checks'[q] > 0 => gone[q] = 0
  BY DEF Authenticate, Refuse, HandleJoin, PresenceInv, GoneCounted, PresenceType
<1> QED
  BY <1>1, <1>2, <1>3, <1>4, EntriesUntouched

LEMMA JoinStep ==
  ASSUME PresenceInv, NEW k \in Sockets, Join(k)
  PROVE  PresenceInv'
<1>1. /\ checks[k] > 0 /\ checks' = [checks EXCEPT ![k] = @ - 1]
      /\ joined' = joined \cup {k} /\ entry' = [entry EXCEPT ![k] = 0] /\ Announce
      /\ UNCHANGED <<tabs, up, beat>>
  BY DEF Join, Enter
<1>2. PresenceType'
  <2>1. checks' \in [Sockets -> Nat] /\ entry' \in [Sockets -> Nat \cup {None}]
    BY <1>1 DEF PresenceInv, PresenceType
  <2> QED
    BY <1>1, <2>1, AnnounceType DEF PresenceInv, PresenceType, tabs, beat
<1>3. Listed' = Listed \cup {k} /\ entry'[k] = 0 /\ \A q \in Sockets \ {k} : entry'[q] = entry[q]
  BY <1>1, PresenceAssumption DEF PresenceInv, PresenceType, Listed
<1>4. Here' \subseteq Here \cup {k} /\ Here' \subseteq Sockets
  BY <1>1 DEF Here, PresenceInv, PresenceType
<1>5. Behind' = Behind /\ Behind \in Nat /\ 0 <= Behind
  BY <1>1, PresenceAssumption DEF Behind, beat, PresenceInv, PresenceType
<1>6. EntriesKept'
  BY <1>1, <1>3, <1>4, <1>5 DEF PresenceInv, EntriesKept, beat
<1>7. GoneCounted'
  BY <1>1, <1>3 DEF PresenceInv, PresenceType, GoneCounted, beat
<1> QED
  BY <1>2, <1>6, <1>7 DEF PresenceInv

LEMMA LeaveSteps ==
  ASSUME PresenceInv, NEW k \in Sockets, HandleLeave(k) \/ HandleDisconnect(k)
  PROVE  PresenceInv'
<1>1. /\ UNCHANGED <<tabs, checks, beat>> /\ up' \subseteq up
      /\ \/ entry' = [entry EXCEPT ![k] = None] /\ Announce /\ Here' \subseteq Here \ {k}
         \/ UNCHANGED <<entry, emission>> /\ Here' \subseteq Here
  BY DEF HandleLeave, HandleDisconnect, Remove, redis, Here
<1>2. emission' \in [Emissions -> Emits] /\ entry' \in [Sockets -> Nat \cup {None}]
  BY <1>1, AnnounceType DEF PresenceInv, PresenceType
<1>3. PresenceType'
  BY <1>1, <1>2 DEF PresenceInv, PresenceType, tabs, beat
<1>4. CASE UNCHANGED <<entry, emission>> /\ Here' \subseteq Here
  BY <1>1, <1>3, <1>4, EntriesUntouched DEF beat, PresenceInv, GoneCounted
<1>5. CASE entry' = [entry EXCEPT ![k] = None] /\ Announce /\ Here' \subseteq Here \ {k}
  <2>1. Listed' = Listed \ {k} /\ \A q \in Sockets \ {k} : entry'[q] = entry[q]
    BY <1>5 DEF PresenceInv, PresenceType, Listed
  <2>2. Behind' = Behind
    BY <1>1 DEF Behind, beat
  <2>3. EntriesKept'
    BY <1>1, <1>5, <2>1, <2>2 DEF PresenceInv, PresenceType, EntriesKept, beat, Listed
  <2>4. GoneCounted'
    BY <1>1, <2>1 DEF PresenceInv, GoneCounted, beat
  <2> QED
    BY <1>3, <2>3, <2>4 DEF PresenceInv
<1> QED
  BY <1>1, <1>4, <1>5

LEMMA NotStale ==
  ASSUME PresenceInv, lapsed => missed = 0 /\ ~due
  PROVE  Here \subseteq Fresh
<1>1. Behind \in Nat /\ Behind < Stale
  BY PresenceAssumption DEF Behind, PresenceInv, PresenceType
<1>2. \A k \in Here : k \in Listed /\ entry[k] \in Nat /\ entry[k] <= Behind
  BY DEF PresenceInv, PresenceType, EntriesKept, Listed
<1> QED
  BY <1>1, <1>2, PresenceAssumption DEF Fresh

LEMMA EmitSteps ==
  ASSUME PresenceInv, NEW e \in Emissions, Emit(e)
  PROVE  PresenceInv'
<1>0. Here \subseteq Sockets
  BY DEF Here, PresenceInv, PresenceType
<1>1. CASE EmitRead(e)
  <2>1. Fresh \subseteq Sockets /\ Fresh \subseteq Listed
    BY DEF Fresh, Listed
  <2>2. /\ entry' = [k \in Sockets |-> IF k \in Fresh THEN entry[k] ELSE None]
        /\ UNCHANGED <<sock, up, checks, joined, beat>>
        /\ \/ Show({}) /\ emission' = [emission EXCEPT ![e] = [stage |-> "idle", found |-> {}]]
           \/ /\ emission' = [emission EXCEPT ![e] = [stage |-> "tell", found |-> Who(Fresh)]]
              /\ UNCHANGED shown
    BY <1>1 DEF EmitRead, Read
  <2>3. emission' \in [Emissions -> Emits]
    <3>1. Who(Fresh) \in SUBSET Users
      BY <2>1, WhoAre
    <3>2. [stage |-> "tell", found |-> Who(Fresh)] \in Emits
      BY <3>1, EmitsAre
    <3>3. \E r \in Emits : emission' = [emission EXCEPT ![e] = r]
      BY <2>2, <3>2, EmitsAre
    <3> QED
      BY <3>3 DEF PresenceInv, PresenceType
  <2>4. shown' \in [Tabs -> SUBSET Users]
    BY <2>2 DEF PresenceInv, PresenceType, Show
  <2>5. entry' \in [Sockets -> Nat \cup {None}]
    BY <2>1, <2>2 DEF PresenceInv, PresenceType
  <2>6. PresenceType'
    BY <2>2, <2>3, <2>4, <2>5 DEF PresenceInv, PresenceType, beat
  <2>7. Listed' = Fresh /\ \A k \in Fresh : entry'[k] = entry[k]
    BY <2>1, <2>2 DEF Listed
  <2>8. Here' = Here /\ Behind' = Behind
    BY <2>2 DEF Here, Behind, beat
  <2>9. EntriesKept'
    BY <2>2, <2>7, <2>8, NotStale DEF PresenceInv, EntriesKept, beat
  <2>10. GoneCounted'
    BY <2>1, <2>2, <2>7 DEF PresenceInv, GoneCounted, beat
  <2> QED
    BY <2>6, <2>9, <2>10 DEF PresenceInv
<1>2. CASE EmitTell(e)
  <2>1. /\ UNCHANGED <<sock, up, checks, joined, entry, beat>> /\ Show(emission[e].found)
        /\ emission' = [emission EXCEPT ![e] = [stage |-> "idle", found |-> {}]]
    BY <1>2 DEF EmitTell, redis
  <2>2. emission' \in [Emissions -> Emits] /\ emission[e].found \in SUBSET Users
    BY <2>1, EmitsAre DEF PresenceInv, PresenceType, Emits
  <2>3. shown' \in [Tabs -> SUBSET Users]
    BY <2>1, <2>2 DEF PresenceInv, PresenceType, Show
  <2>4. PresenceType'
    BY <2>1, <2>2, <2>3 DEF PresenceInv, PresenceType, beat
  <2> QED
    BY <2>1, <2>4, EntriesUntouched DEF Here, beat, PresenceInv, GoneCounted
<1> QED
  BY <1>1, <1>2 DEF Emit

LEMMA HeartbeatSteps ==
  ASSUME PresenceInv, Heartbeat \/ HeartbeatFails
  PROVE  PresenceInv'
<1>0. Here \subseteq Sockets /\ Here \subseteq up
  BY DEF Here, PresenceInv, PresenceType
<1>1. CASE Heartbeat
  <2>1. /\ entry' = [k \in Sockets |-> IF k \in Here THEN 0 ELSE entry[k]]
        /\ due' = FALSE /\ missed' = 0 /\ UNCHANGED <<tabs, up, checks, joined, emission, gone, lapsed>>
    BY <1>1 DEF Heartbeat
  <2>2. entry' \in [Sockets -> Nat \cup {None}]
    BY <2>1 DEF PresenceInv, PresenceType
  <2>3. PresenceType'
    <3>1. missed' \in 0..MaxMissed
      BY <2>1, PresenceAssumption
    <3>2. due' \in BOOLEAN
      BY <2>1
    <3> QED
      BY <2>1, <2>2, <3>1, <3>2 DEF PresenceInv, PresenceType, tabs
  <2>4. Here' = Here /\ Behind' = 0
    BY <2>1 DEF Here, Behind
  <2>5. \A k \in Here : k \in Listed' /\ entry'[k] = 0
    BY <1>0, <2>1, PresenceAssumption DEF Listed
  <2>6. EntriesKept'
    BY <2>4, <2>5 DEF EntriesKept
  <2>7. \A k \in Sockets \ Here : entry'[k] = entry[k] /\ (k \in Listed' => k \in Listed)
    BY <2>1 DEF Listed
  <2>8. GoneCounted'
    BY <1>0, <2>1, <2>5, <2>7 DEF PresenceInv, GoneCounted
  <2> QED
    BY <2>3, <2>6, <2>8 DEF PresenceInv
<1>2. CASE HeartbeatFails
  <2>1. /\ due /\ missed < MaxMissed /\ due' = FALSE /\ missed' = missed + 1
        /\ UNCHANGED <<tabs, up, checks, joined, entry, emission, gone, lapsed>>
    BY <1>2 DEF HeartbeatFails, redis
  <2>2. PresenceType' /\ missed \in Nat
    <3>1. missed \in 0..MaxMissed
      BY DEF PresenceInv, PresenceType
    <3>2. missed' \in 0..MaxMissed /\ missed \in Nat
      BY <2>1, <3>1, PresenceAssumption
    <3>3. due' \in BOOLEAN
      BY <2>1
    <3> QED
      BY <2>1, <3>2, <3>3 DEF PresenceInv, PresenceType, tabs
  <2>3. Here' = Here /\ Behind' = Behind /\ Listed' = Listed
    BY <2>1 DEF Here, Behind, Listed
  <2>4. EntriesKept'
    BY <2>1, <2>2, <2>3 DEF PresenceInv, EntriesKept
  <2>5. GoneCounted'
    BY <2>1, <2>3 DEF PresenceInv, GoneCounted
  <2> QED
    BY <2>2, <2>4, <2>5 DEF PresenceInv
<1> QED
  BY <1>1, <1>2

LEMMA TickStep ==
  ASSUME PresenceInv, Tick
  PROVE  PresenceInv'
<1>0. /\ Here \subseteq Sockets /\ Stale \in Nat /\ None \notin Nat
      /\ missed \in Nat /\ missed + 1 < Stale
  BY PresenceAssumption DEF Here, PresenceInv, PresenceType
<1>1. /\ ~due /\ due' = TRUE
      /\ \/ entry' = [k \in Sockets |-> None] /\ lapsed' = TRUE
         \/ entry' = [k \in Sockets |-> Older(k)] /\ lapsed' = lapsed
      /\ gone' = [k \in Sockets |->
                    IF k \in up \/ checks[k] > 0 THEN 0 ELSE Min2(gone[k] + 1, Stale)]
      /\ UNCHANGED <<tabs, up, checks, joined, emission, missed>>
  BY DEF Tick
<1>2. \A k \in Sockets : /\ Older(k) \in Nat \cup {None}
                         /\ k \in Listed => Older(k) \in Nat /\ Older(k) <= entry[k] + 1
                         /\ k \notin Listed => Older(k) = None
  BY <1>0 DEF Older, Min2, Listed, PresenceInv, PresenceType
<1>3. entry' \in [Sockets -> Nat \cup {None}] /\ gone' \in [Sockets -> Nat]
  BY <1>0, <1>1, <1>2 DEF Min2, PresenceInv, PresenceType
<1>4. PresenceType'
  BY <1>1, <1>3 DEF PresenceInv, PresenceType, tabs
<1>5. Here' = Here /\ Behind = missed /\ Behind' = missed + 1
  BY <1>1 DEF Here, Behind
<1>6. ASSUME ~lapsed', NEW k \in Here PROVE k \in Listed' /\ entry'[k] <= Behind'
  <2>1. ~lapsed /\ entry'[k] = Older(k)
    BY <1>0, <1>1, <1>6
  <2>2. k \in Listed /\ entry[k] \in Nat /\ entry[k] <= missed
    BY <1>0, <1>5, <1>6, <2>1 DEF PresenceInv, EntriesKept, PresenceType, Listed
  <2> QED
    BY <1>0, <1>2, <1>5, <1>6, <2>1, <2>2 DEF Listed
<1>7. EntriesKept'
  BY <1>1, <1>5, <1>6 DEF EntriesKept
<1>8. GoneCounted'
  <2>1. ASSUME NEW k \in Sockets, k \in up \/ checks[k] > 0 PROVE gone'[k] = 0
    BY <1>1, <2>1
  <2>2. ASSUME NEW k \in Sockets, k \in Listed' PROVE gone'[k] <= entry'[k]
    <3>1. entry'[k] = Older(k) /\ k \in Listed
      BY <1>1, <1>2, <2>2 DEF Listed
    <3>2. gone[k] \in Nat /\ entry[k] \in Nat /\ gone[k] <= entry[k] /\ entry[k] # None
      BY <3>1 DEF PresenceInv, PresenceType, GoneCounted, Listed
    <3>3. gone'[k] = 0 \/ gone'[k] = Min2(gone[k] + 1, Stale)
      BY <1>1
    <3> QED
      BY <1>0, <3>1, <3>2, <3>3 DEF Older, Min2
  <2> QED
    BY <1>1, <2>1, <2>2 DEF GoneCounted
<1> QED
  BY <1>4, <1>7, <1>8 DEF PresenceInv

LEMMA PresenceStep == PresenceInv /\ [Next]_vars => PresenceInv'
<1> SUFFICES ASSUME PresenceInv, [Next]_vars PROVE PresenceInv'
  OBVIOUS
<1>1. CASE UNCHANGED vars
  <2>1. UNCHANGED <<tabs, up, checks, joined, entry, emission, beat>>
    BY <1>1 DEF vars, redis
  <2>2. PresenceType'
    BY <2>1 DEF PresenceInv, PresenceType, tabs, beat
  <2> QED
    BY <2>1, <2>2, EntriesUntouched DEF Here, beat, PresenceInv, GoneCounted
<1> QED
  BY <1>1, TabSteps, ConnectStep, SocketSteps, JoinStep, LeaveSteps, EmitSteps, HeartbeatSteps,
     TickStep DEF Next, Handle

LEMMA PresenceAlways == Spec => []PresenceInv
BY PresenceInitInv, PresenceStep, PTL DEF Spec

(* Whoever is in the room stays listed for every number of heartbeats that *)
(* may fail in a row within the ninety seconds: no list leaves out a       *)
(* connection that is open and has joined.                                 *)
THEOREM HereIsListed == Spec => []PresentListed
<1>1. PresenceInv => PresentListed
  BY NotStale DEF PresentListed
<1> QED
  BY <1>1, PresenceAlways, PTL

----------------------------------------------------------------------------
LEMMA ReadFinds ==
  ASSUME PresenceInv, NEW e \in Emissions, EmitRead(e), NEW u \in emission'[e].found
  PROVE  \E k \in Sockets : UserOf[TabOf[k]] = u /\ gone[k] < Stale
<1>1. emission'[e].found = {} \/ emission'[e].found = Who(Fresh)
  BY DEF EmitRead, Read, PresenceInv, PresenceType
<1>2. u \in Who(Fresh)
  BY <1>1
<1>3. PICK k \in Fresh : UserOf[TabOf[k]] = u
  BY <1>2 DEF Who
<1>4. k \in Sockets /\ gone[k] \in Nat /\ entry[k] \in Nat /\ gone[k] <= entry[k] /\ entry[k] < Stale
  BY <1>3 DEF Fresh, Listed, PresenceInv, PresenceType, GoneCounted
<1> QED
  BY <1>3, <1>4, PresenceAssumption

(* A run that stands before its read finds nobody in any other step.       *)
LEMMA OthersFindNone ==
  ASSUME PresenceInv, [Next]_vars, NEW e \in Emissions,
         emission[e].stage = "read", ~EmitRead(e)
  PROVE  emission'[e] = emission[e]
<1>1. ASSUME Announce PROVE emission'[e] = emission[e]
  BY <1>1 DEF Announce, PresenceInv, PresenceType
<1>2. ASSUME NEW d \in Emissions, Emit(d) PROVE emission'[e] = emission[e]
  <2>1. d # e
    BY <1>2 DEF Emit, EmitTell
  <2>2. \E r : emission' = [emission EXCEPT ![d] = r]
    BY <1>2 DEF Emit, EmitRead, Read, EmitTell
  <2> QED
    BY <2>1, <2>2 DEF PresenceInv, PresenceType
<1>3. ASSUME NEW c \in Tabs, Connect(c) \/ Lose(c) \/ Open(c) \/ Close(c) \/ Greet(c)
      PROVE  emission' = emission
  BY <1>3 DEF Connect, Lose, Open, Close, Greet
<1>4. ASSUME NEW k \in Sockets, Authenticate(k) \/ Refuse(k) \/ HandleJoin(k)
      PROVE  emission' = emission
  BY <1>4 DEF Authenticate, Refuse, HandleJoin
<1>5. ASSUME NEW k \in Sockets, HandleLeave(k) \/ Join(k) \/ HandleDisconnect(k)
      PROVE  emission' = emission \/ Announce
  BY <1>5 DEF HandleLeave, Join, HandleDisconnect
<1>6. ASSUME Heartbeat \/ HeartbeatFails \/ Tick \/ UNCHANGED vars PROVE emission' = emission
  BY <1>6 DEF Heartbeat, HeartbeatFails, Tick, vars
<1> QED
  BY <1>1, <1>2, <1>3, <1>4, <1>5, <1>6 DEF Next, Handle

(* No list that is sent names a user of whom the server has had no         *)
(* connection for ninety seconds, even if a join was completed after the   *)
(* connection was gone and nobody will ever leave for it.                  *)
THEOREM NoLastingGhosts == Spec => GhostsFade
<1> DEFINE Named(e) ==
      emission[e].stage = "read" =>
         \A u \in emission'[e].found : \E k \in Sockets :
           UserOf[TabOf[k]] = u /\ gone[k] < Stale
<1>1. ASSUME PresenceInv, [Next]_vars, NEW e \in Emissions PROVE Named(e)
  <2>1. CASE EmitRead(e)
    BY <1>1, <2>1, ReadFinds
  <2>2. CASE ~EmitRead(e)
    <3>1. emission[e].stage = "read" => emission[e].found = {}
      BY <1>1 DEF PresenceInv, PresenceType, Emits
    <3> QED
      BY <1>1, <2>2, <3>1, OthersFindNone
  <2> QED
    BY <2>1, <2>2
<1>2. PresenceInv /\ [Next]_vars => [\A e \in Emissions : Named(e)]_vars
  BY <1>1
<1> QED
  BY <1>2, PresenceAlways, PTL DEF Spec, GhostsFade

----------------------------------------------------------------------------
(* One run of emitPresenceUpdate at a time.                                *)

ListsInv == PresenceInv /\ ListsFull

\* Nobody new is here, and nobody is shown less who can still see it.
LEMMA NobodyNew ==
  ASSUME ListsFull, UNCHANGED <<emission, lapsed>>,
         Here' \subseteq Here,
         \A c \in Tabs : sock'[c] \in Here' => sock[c] \in Here /\ shown'[c] = shown[c]
  PROVE  ListsFull'
<1>1. Who(Here)' \subseteq Who(Here)
  BY DEF Who
<1> QED
  BY <1>1 DEF ListsFull

LEMMA ListsTabs ==
  ASSUME ListsInv, NEW c \in Tabs, Lose(c) \/ Open(c) \/ Close(c) \/ Greet(c) \/ Connect(c)
  PROVE  ListsFull'
<1>1. UNCHANGED <<emission, lapsed>>
  BY DEF Lose, Open, Close, Greet, Connect, beat
<1>2. CASE Connect(c)
  <2>1. PICK k \in Sockets \ (up \cup lookups \cup Listed) :
          sock' = [sock EXCEPT ![c] = k] /\ up' = up \cup {k} /\ joined' = joined \ {k}
    BY <1>2 DEF Connect
  <2>2. shown' = shown /\ Here' = Here /\ k \notin Here
    BY <1>2, <2>1 DEF Connect, Here
  <2> QED
    BY <1>1, <2>1, <2>2, NobodyNew DEF ListsInv, PresenceInv, PresenceType
<1>3. CASE Lose(c) \/ Open(c) \/ Close(c) \/ Greet(c)
  <2>1. Here' = Here /\ None \notin Here
    BY <1>3, PresenceAssumption
       DEF Lose, Open, Close, Greet, Here, ListsInv, PresenceInv, PresenceType
  <2>2. \A d \in Tabs : sock'[d] \in Here => sock[d] \in Here /\ shown'[d] = shown[d]
    BY <1>3, <2>1 DEF Lose, Open, Close, Greet, ListsInv, PresenceInv, PresenceType
  <2> QED
    BY <1>1, <2>1, <2>2, NobodyNew DEF ListsInv
<1> QED
  BY <1>2, <1>3

LEMMA ListsSockets ==
  ASSUME ListsInv, NEW k \in Sockets, Authenticate(k) \/ Refuse(k) \/ HandleJoin(k)
  PROVE  ListsFull'
<1>1. UNCHANGED <<emission, lapsed>>
  BY DEF Authenticate, Refuse, HandleJoin, beat
<1>2. Here' \subseteq Here /\ None \notin Here
  BY PresenceAssumption
     DEF Authenticate, Refuse, HandleJoin, Here, ListsInv, PresenceInv, PresenceType
<1>3. \A d \in Tabs : sock'[d] \in Here' => sock[d] \in Here /\ shown'[d] = shown[d]
  <2>1. CASE Authenticate(k) \/ HandleJoin(k)
    BY <1>2, <2>1 DEF Authenticate, HandleJoin, tabs
  <2>2. CASE Refuse(k)
    BY <1>2, <2>2 DEF Refuse, ListsInv, PresenceInv, PresenceType
  <2> QED
    BY <2>1, <2>2
<1> QED
  BY <1>1, <1>2, <1>3, NobodyNew DEF ListsInv

\* While a list is to be read, nothing is promised of what is shown.
LEMMA ListsAnnounced ==
  ASSUME ListsInv, \A d, e \in Emissions : d = e, Announce
  PROVE  ListsFull'
<1>1. \E e \in Emissions : emission'[e].stage = "read"
  BY DEF Announce, ListsInv, PresenceInv, PresenceType
<1>2. \A e \in Emissions : emission'[e].stage = "read"
  BY <1>1
<1> QED
  BY <1>1, <1>2 DEF ListsFull

LEMMA ListsEmit ==
  ASSUME ListsInv, \A d, e \in Emissions : d = e, NEW e \in Emissions, Emit(e)
  PROVE  ListsFull'
<1>0. /\ Here' = Here /\ lapsed' = lapsed /\ sock' = sock
      /\ \A d \in Emissions : d = e
  BY DEF Emit, EmitRead, Read, EmitTell, Here, beat
<1>1. CASE EmitRead(e)
  <2>1. CASE Fresh = {}
    <3>1. emission'[e].stage = "idle"
      BY <1>1, <2>1 DEF EmitRead, Read, ListsInv, PresenceInv, PresenceType
    <3>2. ~lapsed => Here = {}
      BY <2>1, NotStale DEF ListsInv
    <3> QED
      BY <1>0, <3>1, <3>2 DEF ListsFull
  <2>2. CASE Fresh # {}
    <3>1. emission'[e].stage = "tell" /\ emission'[e].found = Who(Fresh)
      BY <1>1, <2>2 DEF EmitRead, Read, ListsInv, PresenceInv, PresenceType
    <3>2. ~lapsed => Who(Here) \subseteq Who(Fresh)
      BY NotStale DEF ListsInv, Who
    <3>3. Who(Here)' = Who(Here)
      BY <1>0 DEF Who
    <3> QED
      BY <1>0, <3>1, <3>2, <3>3 DEF ListsFull
  <2> QED
    BY <2>1, <2>2
<1>2. CASE EmitTell(e)
  <2>1. /\ emission[e].stage = "tell" /\ emission'[e].stage = "idle"
        /\ Show(emission[e].found)
    BY <1>2 DEF EmitTell, ListsInv, PresenceInv, PresenceType
  <2>2. ~lapsed => Who(Here) \subseteq emission[e].found
    BY <2>1 DEF ListsInv, ListsFull
  <2>3. Who(Here)' = Who(Here)
    BY <1>0 DEF Who
  <2>4. \A c \in Tabs : sock[c] \in Here => shown'[c] = emission[e].found
    BY <2>1 DEF Show
  <2> QED
    BY <1>0, <2>1, <2>2, <2>3, <2>4 DEF ListsFull
<1> QED
  BY <1>1, <1>2 DEF Emit

LEMMA ListsStep ==
  ASSUME ListsInv, \A d, e \in Emissions : d = e, [Next]_vars
  PROVE  ListsFull'
<1>1. ASSUME NEW k \in Sockets, HandleLeave(k) \/ Join(k) \/ HandleDisconnect(k)
      PROVE  ListsFull'
  <2>1. CASE Announce
    BY <2>1, ListsAnnounced
  <2>2. CASE ~Announce
    <3>1. UNCHANGED <<emission, lapsed, sock, shown>> /\ Here' \subseteq Here
      BY <1>1, <2>2 DEF HandleLeave, Join, HandleDisconnect, tabs, beat, Here
    <3> QED
      BY <3>1, NobodyNew DEF ListsInv
  <2> QED
    BY <2>1, <2>2
<1>2. CASE Heartbeat \/ HeartbeatFails \/ UNCHANGED vars
  <2>1. UNCHANGED <<emission, lapsed, sock, shown>> /\ Here' = Here
    BY <1>2 DEF Heartbeat, HeartbeatFails, vars, tabs, beat, Here
  <2> QED
    BY <2>1, NobodyNew DEF ListsInv
<1>3. CASE Tick
  <2>1. UNCHANGED <<emission, sock, shown, up, joined>> /\ (lapsed' \/ lapsed' = lapsed)
    BY <1>3 DEF Tick, tabs
  <2>2. Here' = Here /\ Who(Here)' = Who(Here)
    BY <2>1 DEF Here, Who
  <2> QED
    BY <2>1, <2>2 DEF ListsInv, ListsFull
<1>4. ASSUME NEW c \in Tabs, Connect(c) \/ Lose(c) \/ Open(c) \/ Close(c) \/ Greet(c)
      PROVE  ListsFull'
  BY <1>4, ListsTabs
<1>5. ASSUME NEW k \in Sockets, Authenticate(k) \/ Refuse(k) \/ HandleJoin(k)
      PROVE  ListsFull'
  BY <1>5, ListsSockets
<1>6. ASSUME NEW e \in Emissions, Emit(e) PROVE ListsFull'
  BY <1>6, ListsEmit
<1> QED
  BY <1>1, <1>2, <1>3, <1>4, <1>5, <1>6 DEF Next, Handle

(* As long as one run of emitPresenceUpdate is under way at a time and the *)
(* key has not expired, every tab in the room shows everybody who is there *)
(* once all is quiet, whatever came and went in between.                   *)
THEOREM EverybodyShown ==
  ASSUME Emissions # {}, \A d, e \in Emissions : d = e
  PROVE  Spec => []NobodyMissing
<1>1. Init => ListsInv
  <2> SUFFICES ASSUME Init PROVE ListsInv
    OBVIOUS
  <2>1. Here = {}
    BY DEF Init, Here
  <2>2. \A e \in Emissions : emission[e].stage = "idle"
    BY DEF Init
  <2> QED
    BY <2>1, <2>2, PresenceInitInv DEF ListsInv, ListsFull
<1>2. ListsInv /\ [Next]_vars => ListsInv'
  BY PresenceStep, ListsStep DEF ListsInv
<1>3. ListsInv => NobodyMissing
  BY DEF ListsInv, ListsFull, NobodyMissing, Quiet
<1> QED
  BY <1>1, <1>2, <1>3, PTL DEF Spec
=============================================================================
