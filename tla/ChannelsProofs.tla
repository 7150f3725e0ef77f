--------------------------- MODULE ChannelsProofs ---------------------------
(* What Channels guarantees for every number of users and channels.        *)
EXTENDS Channels, SequenceTheorems, TLAPS

ChannelRows == [kind : {"public", "general", "private"}, looked : Nat]
TalkRows    == [pair : SUBSET Users, looked : Nat]

Ops ==
  {"none", "public", "private", "pick", "insert", "add", "exclude", "remove", "delete", "talk",
   "start", "done"}

Jobs  == [op : Ops, chan : Nat, who : SUBSET Users, looked : Nat, made : BOOLEAN]
Polls == [stage : {"idle", "due", "make", "read", "answer"}, looked : Nat, seen : SUBSET Nat]

RowsType ==
  /\ channels \in Seq(ChannelRows) /\ talks \in Seq(TalkRows)
  /\ job \in [Users -> Jobs]
  /\ query \in [Users -> Polls]

\* What was looked for in vain is not among the first so many.
NoGeneral(looked) == looked <= Len(channels) /\ \A g \in Generals : looked < g
NoTalk(pair, looked) ==
  looked <= Len(talks) /\ \A i \in DOMAIN talks : talks[i].pair = pair => looked < i

(* Whoever is about to make a general channel, or a conversation, has seen *)
(* that there was none: all there are now are newer than the look.         *)
LooksHold ==
  \A u \in Users :
    /\ query[u].stage = "make" => NoGeneral(query[u].looked)
    /\ job[u].op = "start" => NoTalk(job[u].who, job[u].looked)

ChannelInv == RowsType /\ LooksHold /\ OneOfEach

----------------------------------------------------------------------------
LEMMA RowPlaces ==
  ASSUME RowsType
  PROVE  /\ Len(channels) \in Nat /\ DOMAIN channels = 1..Len(channels)
         /\ \A c \in DOMAIN channels : channels[c] \in ChannelRows
         /\ Len(talks) \in Nat /\ DOMAIN talks = 1..Len(talks)
         /\ \A i \in DOMAIN talks : talks[i] \in TalkRows
         /\ \A u \in Users : job[u] \in Jobs /\ query[u] \in Polls
BY LenProperties DEF RowsType

LEMMA RestTypes == AtRest \in Jobs /\ Idle \in Polls /\ AtRest.op = "none" /\ Idle.stage = "idle"
BY DEF AtRest, Idle, None, Jobs, Ops, Polls

LEMMA ChannelInitInv == Init => ChannelInv
<1> SUFFICES ASSUME Init PROVE ChannelInv
  OBVIOUS
<1>1. /\ talks = <<>> /\ talks \in Seq(TalkRows) /\ DOMAIN talks = {}
      /\ job = [u \in Users |-> AtRest] /\ query = [u \in Users |-> Idle]
  BY EmptySeq DEF Init
<1>2. \A u \in Users : job[u].op = "none" /\ query[u].stage = "idle"
  BY <1>1, RestTypes
<1>3. LooksHold
  BY <1>2 DEF LooksHold
<1> DEFINE town == [kind |-> "public", looked |-> 0]
           general == [kind |-> "general", looked |-> 1]
           private == [kind |-> "private", looked |-> 0]
<1>4. town \in ChannelRows /\ general \in ChannelRows /\ private \in ChannelRows
  BY DEF ChannelRows
<1>5. channels = <<town>> \/ channels = <<town, general, private>>
  BY DEF Init
<1>6. \A g \in Generals : g = 2
  BY <1>5 DEF Generals
<1>7. channels \in Seq(ChannelRows)
  <2> HIDE DEF town, general, private
  <2>1. <<town>> \in Seq(ChannelRows)
    BY <1>4
  <2>2. <<town, general, private>> \in Seq(ChannelRows)
    BY <1>4
  <2> QED
    BY <1>5, <2>1, <2>2
<1>8. RowsType
  BY <1>1, <1>7, RestTypes DEF RowsType
<1>9. OneOfEach
  BY <1>1, <1>6 DEF OneOfEach
<1> QED
  BY <1>3, <1>8, <1>9 DEF ChannelInv

(* The request of u becomes r.                                             *)
LEMMA JobBecomes ==
  ASSUME ChannelInv, NEW u \in Users, NEW r \in Jobs, job' = [job EXCEPT ![u] = r],
         UNCHANGED <<channels, talks>>,
         query' \in [Users -> Polls],
         \A v \in Users : query'[v].stage = "make" => query'[v] = query[v],
         r.op = "start" => NoTalk(r.who, r.looked)
  PROVE  ChannelInv'
<1> USE DEF ChannelInv
<1>1. RowsType'
  BY DEF RowsType
<1>2. job'[u] = r /\ \A v \in Users : v # u => job'[v] = job[v]
  BY DEF RowsType
<1>3. Generals' = Generals
  BY DEF Generals
<1>4. \A v \in Users : query'[v].stage = "make" => NoGeneral(query'[v].looked)
  BY DEF LooksHold
<1>5. \A v \in Users : job'[v].op = "start" => NoTalk(job'[v].who, job'[v].looked)
  BY <1>2 DEF LooksHold
<1>6. LooksHold'
  BY <1>3, <1>4, <1>5 DEF LooksHold, NoGeneral, NoTalk
<1>7. OneOfEach'
  BY <1>3 DEF OneOfEach
<1> QED
  BY <1>1, <1>6, <1>7

(* The query of u becomes q, and its request stays as it is.               *)
LEMMA QueryBecomes ==
  ASSUME ChannelInv, NEW u \in Users, NEW q \in Polls, query' = [query EXCEPT ![u] = q],
         UNCHANGED <<channels, talks, job>>,
         q.stage = "make" => NoGeneral(q.looked)
  PROVE  ChannelInv'
<1> USE DEF ChannelInv
<1>1. RowsType'
  BY DEF RowsType
<1>2. query'[u] = q /\ \A v \in Users : v # u => query'[v] = query[v]
  BY DEF RowsType
<1>3. Generals' = Generals
  BY DEF Generals
<1>4. \A v \in Users : query'[v].stage = "make" => NoGeneral(query'[v].looked)
  BY <1>2 DEF LooksHold
<1>6. LooksHold'
  BY <1>3, <1>4 DEF LooksHold, NoGeneral, NoTalk
<1>7. OneOfEach'
  BY <1>3 DEF OneOfEach
<1> QED
  BY <1>1, <1>6, <1>7

LEMMA RowsUntouched ==
  ASSUME ChannelInv, UNCHANGED <<channels, talks, job, query>>
  PROVE  ChannelInv'
<1>1. Generals' = Generals
  BY DEF Generals
<1> QED
  BY <1>1 DEF ChannelInv, RowsType, LooksHold, OneOfEach, NoGeneral, NoTalk

(* A channel is appended.                                                  *)
LEMMA ChannelAppended ==
  ASSUME RowsType, NEW kind \in {"public", "general", "private"}, NEW looked \in Nat,
         Store(kind, looked)
  PROVE  /\ channels' \in Seq(ChannelRows) /\ Len(channels') = Len(channels) + 1
         /\ Generals' = Generals \cup (IF kind = "general" THEN {Len(channels) + 1} ELSE {})
         /\ channels'[Len(channels) + 1].looked = looked
         /\ \A g \in Generals : channels'[g] = channels[g] /\ g < Len(channels) + 1
<1> DEFINE new == [kind |-> kind, looked |-> looked]
           n == Len(channels) + 1
<1>1. new \in ChannelRows /\ new.kind = kind /\ new.looked = looked
  BY DEF ChannelRows
<1>2. channels' = Append(channels, new)
  BY DEF Store
<1> HIDE DEF new
<1>3. /\ channels' \in Seq(ChannelRows) /\ Len(channels') = n /\ channels'[n] = new
      /\ \A c \in 1..Len(channels) : channels'[c] = channels[c]
  BY <1>1, <1>2, AppendProperties DEF RowsType
<1>4. DOMAIN channels' = 1..n /\ DOMAIN channels = 1..Len(channels) /\ Len(channels) \in Nat
  BY <1>3, RowPlaces, LenProperties
<1> QED
  BY <1>1, <1>3, <1>4 DEF Generals

LEMMA MakeStep ==
  ASSUME ChannelInv, NEW u \in Users, Make(u)
  PROVE  ChannelInv'
<1> USE DEF ChannelInv
<1>1. /\ query[u].stage = "make" /\ Store("general", query[u].looked)
      /\ query' = [query EXCEPT ![u].stage = "read"] /\ UNCHANGED <<talks, job>>
  BY DEF Make
<1>2. NoGeneral(query[u].looked) /\ query[u].looked \in Nat
  BY <1>1, RowPlaces DEF LooksHold, Polls
<1>3. /\ channels' \in Seq(ChannelRows) /\ Len(channels') = Len(channels) + 1
      /\ Generals' = Generals \cup {Len(channels) + 1}
      /\ channels'[Len(channels) + 1].looked = query[u].looked
      /\ \A g \in Generals : channels'[g] = channels[g] /\ g < Len(channels) + 1
      /\ Len(channels) \in Nat
  BY <1>1, <1>2, ChannelAppended, RowPlaces
<1>4. query' \in [Users -> Polls] /\ \A v \in Users : query'[v].stage = "make" => query'[v] = query[v]
  BY <1>1 DEF RowsType, Polls
<1>5. RowsType'
  BY <1>1, <1>3, <1>4 DEF RowsType
<1>6. LooksHold'
  <2>1. ASSUME NEW v \in Users, query'[v].stage = "make"
        PROVE  query'[v].looked <= Len(channels') /\ \A g \in Generals' : query'[v].looked < g
    <3>1. NoGeneral(query[v].looked) /\ query'[v] = query[v] /\ query[v].looked \in Nat
      BY <1>4, <2>1, RowPlaces DEF LooksHold, Polls
    <3> QED
      BY <1>3, <3>1 DEF NoGeneral
  <2> QED
    BY <1>1, <2>1 DEF LooksHold, NoGeneral, NoTalk
<1>7. OneOfEach'
  <2>1. ASSUME NEW g \in Generals', NEW h \in Generals', g < h
        PROVE  channels'[h].looked < g
    <3>1. g \in Nat /\ h \in Nat /\ g \in Generals
      BY <1>3, <2>1, RowPlaces DEF Generals
    <3>2. CASE h \in Generals
      BY <1>3, <2>1, <3>1, <3>2 DEF OneOfEach
    <3>3. CASE h = Len(channels) + 1
      BY <1>2, <1>3, <3>1, <3>3 DEF NoGeneral
    <3> QED
      BY <1>3, <3>2, <3>3
  <2> QED
    BY <1>1, <2>1 DEF OneOfEach
<1> QED
  BY <1>5, <1>6, <1>7

(* A channel that is not general is stored, and the request of u is r.     *)
LEMMA OtherChannel ==
  ASSUME ChannelInv, NEW u \in Users, NEW r \in Jobs, r.op # "start",
         NEW kind \in {"public", "private"}, Store(kind, 0),
         job' = [job EXCEPT ![u] = r], UNCHANGED <<talks, query>>
  PROVE  ChannelInv'
<1> USE DEF ChannelInv
<1>1. /\ channels' \in Seq(ChannelRows) /\ Len(channels') = Len(channels) + 1
      /\ Generals' = Generals
      /\ \A g \in Generals : channels'[g] = channels[g]
      /\ Len(channels) \in Nat
  BY ChannelAppended, RowPlaces
<1>2. RowsType'
  BY <1>1 DEF RowsType
<1>3. \A v \in Users : job'[v].op = "start" => job'[v] = job[v]
  BY DEF RowsType
<1>4. LooksHold'
  <2>1. ASSUME NEW v \in Users, query'[v].stage = "make"
        PROVE  query'[v].looked <= Len(channels') /\ \A g \in Generals' : query'[v].looked < g
    <3>1. NoGeneral(query[v].looked) /\ query[v].looked \in Nat
      BY <2>1, RowPlaces DEF LooksHold, Polls
    <3> QED
      BY <1>1, <3>1 DEF NoGeneral
  <2>2. ASSUME NEW v \in Users, job'[v].op = "start"
        PROVE  NoTalk(job'[v].who, job'[v].looked)
    BY <1>3, <2>2 DEF LooksHold
  <2> QED
    BY <2>1, <2>2 DEF LooksHold, NoGeneral, NoTalk
<1>5. OneOfEach'
  BY <1>1 DEF OneOfEach
<1> QED
  BY <1>2, <1>4, <1>5

LEMMA StartTalkStep ==
  ASSUME ChannelInv, NEW u \in Users, StartTalk(u)
  PROVE  ChannelInv'
<1> USE DEF ChannelInv
<1> DEFINE new == [pair |-> job[u].who, looked |-> job[u].looked]
           n == Len(talks) + 1
<1>1. /\ job[u].op = "start" /\ talks' = Append(talks, new)
      /\ job' = [job EXCEPT ![u] = AtRest] /\ UNCHANGED <<channels, query>>
  BY DEF StartTalk, End
<1>2. /\ NoTalk(job[u].who, job[u].looked) /\ job[u].looked \in Nat
      /\ new \in TalkRows /\ new.pair = job[u].who /\ new.looked = job[u].looked
  BY <1>1, RowPlaces DEF LooksHold, Jobs, TalkRows
<1> HIDE DEF new
<1>3. /\ talks' \in Seq(TalkRows) /\ Len(talks') = n /\ talks'[n] = new
      /\ \A i \in 1..Len(talks) : talks'[i] = talks[i]
  BY <1>1, <1>2, AppendProperties DEF RowsType
<1>4. DOMAIN talks' = 1..n /\ DOMAIN talks = 1..Len(talks) /\ Len(talks) \in Nat
  BY <1>3, RowPlaces, LenProperties
<1>5. RowsType'
  BY <1>1, <1>3, RestTypes DEF RowsType
<1>6. \A v \in Users : job'[v].op = "start" => job'[v] = job[v]
  BY <1>1, RestTypes DEF RowsType
<1>7. Generals' = Generals
  BY <1>1 DEF Generals
<1>8. LooksHold'
  <2>1. ASSUME NEW v \in Users, job'[v].op = "start"
        PROVE  /\ job'[v].looked <= Len(talks')
               /\ \A i \in DOMAIN talks' : talks'[i].pair = job'[v].who => job'[v].looked < i
    <3>1. NoTalk(job[v].who, job[v].looked) /\ job'[v] = job[v] /\ job[v].looked \in Nat
      BY <1>6, <2>1, RowPlaces DEF LooksHold, Jobs
    <3> QED
      BY <1>3, <1>4, <3>1 DEF NoTalk
  <2> QED
    BY <1>1, <1>7, <2>1 DEF LooksHold, NoGeneral, NoTalk
<1>9. OneOfEach'
  <2>1. ASSUME NEW i \in DOMAIN talks', NEW j \in DOMAIN talks',
               i < j, talks'[i].pair = talks'[j].pair
        PROVE  talks'[j].looked < i
    <3>1. i \in DOMAIN talks /\ talks'[i] = talks[i]
      BY <1>3, <1>4, <2>1
    <3>2. CASE j \in DOMAIN talks
      BY <1>3, <1>4, <2>1, <3>1, <3>2 DEF OneOfEach
    <3>3. CASE j = n
      BY <1>2, <1>3, <2>1, <3>1, <3>3 DEF NoTalk
    <3> QED
      BY <1>4, <3>2, <3>3
  <2> QED
    BY <1>1, <1>7, <2>1 DEF OneOfEach
<1> QED
  BY <1>5, <1>8, <1>9

LEMMA LookForTalkStep ==
  ASSUME ChannelInv, NEW u \in Users, LookForTalk(u)
  PROVE  ChannelInv'
<1> DEFINE r == [job[u] EXCEPT !.op = "start", !.looked = Len(talks)]
<1>1. /\ UNCHANGED <<channels, talks, query>>
      /\ \/ job' = [job EXCEPT ![u] = AtRest]
         \/ /\ job' = [job EXCEPT ![u] = r]
            /\ \A i \in DOMAIN talks : talks[i].pair # job[u].who
  BY DEF LookForTalk, End, data
<1>2. job[u] \in Jobs /\ Len(talks) \in Nat /\ query' \in [Users -> Polls]
  BY <1>1, RowPlaces DEF ChannelInv, RowsType
<1>3. r \in Jobs /\ r.who = job[u].who /\ r.looked = Len(talks)
  BY <1>2 DEF Jobs, Ops
<1>4. CASE job' = [job EXCEPT ![u] = AtRest]
  BY <1>1, <1>2, <1>4, RestTypes, JobBecomes
<1>5. CASE /\ job' = [job EXCEPT ![u] = r]
           /\ \A i \in DOMAIN talks : talks[i].pair # job[u].who
  <2>1. NoTalk(r.who, r.looked)
    BY <1>2, <1>3, <1>5 DEF NoTalk
  <2> QED
    BY <1>1, <1>2, <1>3, <1>5, <2>1, JobBecomes
<1> QED
  BY <1>1, <1>4, <1>5

LEMMA FindStep ==
  ASSUME ChannelInv, NEW u \in Users, Find(u)
  PROVE  ChannelInv'
<1> DEFINE q == [stage |-> IF Generals = {} THEN "make" ELSE "read",
                 looked |-> Len(channels), seen |-> {}]
<1>1. query' = [query EXCEPT ![u] = q] /\ UNCHANGED <<channels, talks, job>>
  BY DEF Find, data
<1>2. Len(channels) \in Nat
  BY RowPlaces DEF ChannelInv
<1>3. q \in Polls
  BY <1>2 DEF Polls
<1>4. q.stage = "make" => NoGeneral(q.looked)
  BY <1>2 DEF NoGeneral
<1> QED
  BY <1>1, <1>3, <1>4, QueryBecomes

LEMMA ReadStep ==
  ASSUME ChannelInv, NEW u \in Users, Read(u)
  PROVE  ChannelInv'
<1> DEFINE s == {c \in DOMAIN channels : Visible(u, c)}
           q == [query[u] EXCEPT !.stage = "answer", !.seen = s]
<1>1. query' = [query EXCEPT ![u] = q] /\ UNCHANGED <<channels, talks, job>>
  BY DEF Read, data
<1>2. s \subseteq Nat /\ query[u] \in Polls
  BY RowPlaces DEF ChannelInv
<1> HIDE DEF s
<1>3. q \in Polls /\ q.stage = "answer"
  BY <1>2 DEF Polls
<1> QED
  BY <1>1, <1>3, QueryBecomes

LEMMA AnswerStep ==
  ASSUME ChannelInv, NEW u \in Users,
         query' = [query EXCEPT ![u] = Idle], UNCHANGED <<channels, talks, job>>
  PROVE  ChannelInv'
BY RestTypes, QueryBecomes

LEMMA DoneStep ==
  ASSUME ChannelInv, NEW u \in Users, Done(u)
  PROVE  ChannelInv'
<1>1. /\ job' = [job EXCEPT ![u] = AtRest] /\ UNCHANGED <<channels, talks>>
      /\ \/ query' = query
         \/ query' = [query EXCEPT ![u] = [Idle EXCEPT !.stage = "due"]]
         \/ query' = [query EXCEPT ![u] = query[u]]
  BY DEF Done, End, Invalidate, data
<1>3. LET due == [Idle EXCEPT !.stage = "due"] IN due \in Polls /\ due.stage = "due"
  BY DEF Polls, Idle
<1>2. /\ query' \in [Users -> Polls]
      /\ \A v \in Users : query'[v].stage = "make" => query'[v] = query[v]
  BY <1>1, <1>3, RestTypes DEF ChannelInv, RowsType
<1> QED
  BY <1>1, <1>2, RestTypes, JobBecomes

(* A request that is begun, goes on or ends without a channel.             *)
LEMMA JobMoves ==
  ASSUME ChannelInv, NEW u \in Users, NEW r \in Jobs, r.op # "start",
         job' = [job EXCEPT ![u] = r], UNCHANGED <<channels, talks, query>>
  PROVE  ChannelInv'
<1>1. query' \in [Users -> Polls]
  BY DEF ChannelInv, RowsType
<1> QED
  BY <1>1, JobBecomes

LEMMA BeginSteps ==
  ASSUME ChannelInv, NEW u \in Users,
         \/ \E c \in DOMAIN channels, v \in Users : AskRemove(u, c, v)
         \/ \E c \in DOMAIN channels, who \in (SUBSET Users) \ {{}} : AskAdd(u, c, who)
         \/ \E kind \in {"public", "private"}, who \in SUBSET Users :
              (kind = "public" => who = {}) /\ AskCreate(u, kind, who)
         \/ \E v \in Users : AskTalk(u, v)
  PROVE  ChannelInv'
<1>1. ASSUME NEW r \in Jobs, r.op # "start", Begin(u, r) PROVE ChannelInv'
  BY <1>1, JobMoves DEF Begin, data
<1>2. ASSUME NEW c \in DOMAIN channels, NEW v \in Users, AskRemove(u, c, v) PROVE ChannelInv'
  <2> DEFINE r == [AtRest EXCEPT !.op = "remove", !.chan = c, !.who = {v}]
  <2>1. c \in Nat
    BY RowPlaces DEF ChannelInv
  <2>2. r \in Jobs /\ r.op = "remove"
    BY <2>1 DEF Jobs, Ops, AtRest
  <2> QED
    BY <1>1, <1>2, <2>2 DEF AskRemove
<1>3. ASSUME NEW c \in DOMAIN channels, NEW who \in SUBSET Users, AskAdd(u, c, who)
      PROVE  ChannelInv'
  <2> DEFINE r == [AtRest EXCEPT !.op = "add", !.chan = c, !.who = who]
  <2>1. c \in Nat
    BY RowPlaces DEF ChannelInv
  <2>2. r \in Jobs /\ r.op = "add"
    BY <2>1 DEF Jobs, Ops, AtRest
  <2> QED
    BY <1>1, <1>3, <2>2 DEF AskAdd
<1>4. ASSUME NEW kind \in {"public", "private"}, NEW who \in SUBSET Users, AskCreate(u, kind, who)
      PROVE  ChannelInv'
  <2> DEFINE r == [AtRest EXCEPT !.op = kind, !.who = who]
  <2>1. r \in Jobs /\ r.op = kind
    BY DEF Jobs, Ops, AtRest, None
  <2> QED
    BY <1>1, <1>4, <2>1 DEF AskCreate
<1>5. ASSUME NEW v \in Users, AskTalk(u, v) PROVE ChannelInv'
  <2> DEFINE r == [AtRest EXCEPT !.op = "talk", !.who = {u, v}]
  <2>1. r \in Jobs /\ r.op = "talk"
    BY DEF Jobs, Ops, AtRest, None
  <2> QED
    BY <1>1, <1>5, <2>1 DEF AskTalk
<1> QED
  BY <1>2, <1>3, <1>4, <1>5

LEMMA CreateSteps ==
  ASSUME ChannelInv, NEW u \in Users, CreatePublic(u) \/ CreatePrivate(u)
  PROVE  ChannelInv'
<1>1. job[u] \in Jobs /\ Len(channels) \in Nat
  BY RowPlaces DEF ChannelInv
<1>2. CASE CreatePublic(u)
  <2> DEFINE r == [job[u] EXCEPT !.op = "done", !.made = TRUE]
  <2>1. r \in Jobs /\ r.op = "done"
    BY <1>1 DEF Jobs, Ops
  <2>2. Store("public", 0) /\ job' = [job EXCEPT ![u] = r] /\ UNCHANGED <<talks, query>>
    BY <1>2 DEF CreatePublic
  <2> QED
    BY <2>1, <2>2, OtherChannel
<1>3. CASE CreatePrivate(u)
  <2> DEFINE n == Len(channels) + 1
             invited == job[u].who \cup {u}
             r == [job[u] EXCEPT !.op = "pick", !.chan = n, !.who = invited, !.made = TRUE]
  <2>1. n \in Nat /\ invited \subseteq Users
    BY <1>1 DEF Jobs
  <2>2. /\ Store("private", 0) /\ UNCHANGED <<talks, query>>
        /\ job' = [job EXCEPT ![u] = r]
    BY <1>3 DEF CreatePrivate
  <2>3. r \in Jobs /\ r.op = "pick"
    <3> HIDE DEF n, invited
    <3> QED
      BY <1>1, <2>1 DEF Jobs, Ops
  <2> QED
    BY <2>2, <2>3, OtherChannel
<1> QED
  BY <1>2, <1>3

LEMMA RequestSteps ==
  ASSUME ChannelInv, NEW u \in Users,
         \/ Forbid(u) \/ PickMembers(u) \/ AddMembers(u) \/ ExcludeExisting(u)
         \/ InsertMembers(u) \/ RemoveMember(u) \/ DeleteMember(u) \/ Fail(u)
  PROVE  ChannelInv'
<1>1. job[u] \in Jobs
  BY RowPlaces DEF ChannelInv
<1>2. UNCHANGED <<channels, talks, query>>
  BY DEF Forbid, PickMembers, AddMembers, ExcludeExisting, InsertMembers, RemoveMember,
         DeleteMember, Fail, data
<1>3. \/ End(u)
      \/ \E op \in {"insert", "exclude", "done", "delete"}, who \in SUBSET Users : Step(u, op, who)
  <2>1. job[u].who \subseteq Users
    BY <1>1 DEF Jobs
  <2> QED
    BY <2>1 DEF Forbid, PickMembers, AddMembers, ExcludeExisting, InsertMembers,
                RemoveMember, DeleteMember, Fail
<1>4. CASE End(u)
  BY <1>2, <1>4, RestTypes, JobMoves DEF End
<1>5. ASSUME NEW op \in {"insert", "exclude", "done", "delete"}, NEW who \in SUBSET Users,
             Step(u, op, who)
      PROVE  ChannelInv'
  <2> DEFINE r == [job[u] EXCEPT !.op = op, !.who = who]
  <2>1. r \in Jobs /\ r.op = op
    BY <1>1 DEF Jobs, Ops
  <2>2. job' = [job EXCEPT ![u] = r]
    BY <1>5 DEF Step
  <2> QED
    BY <1>2, <2>1, <2>2, JobMoves
<1> QED
  BY <1>3, <1>4, <1>5

LEMMA PageSteps ==
  ASSUME ChannelInv, NEW u \in Users,
         \/ Open(u) \/ Close(u) \/ Hide(u) \/ Reveal(u) \/ Expel(u) \/ Invite(u)
         \/ \E c \in DOMAIN channels : Choose(u, c)
         \/ \E j \in joins : JoinCheck(j) \/ JoinRoom(j)
  PROVE  ChannelInv'
<1>1. UNCHANGED <<channels, talks, job, query>>
  BY DEF Open, Close, Hide, Reveal, Expel, Invite, Choose, JoinCheck, JoinRoom, data
<1> QED
  BY <1>1, RowsUntouched

LEMMA ChannelStep ==
  ASSUME ChannelInv, [Next]_vars
  PROVE  ChannelInv'
<1>1. ASSUME NEW u \in Users, Poll(u) PROVE ChannelInv'
  <2>1. CASE Answer(u) \/ Refuse(u)
    BY <2>1, AnswerStep DEF Answer, Refuse, data
  <2> QED
    BY <1>1, <2>1, PageSteps, FindStep, MakeStep, ReadStep DEF Poll
<1>2. ASSUME NEW u \in Users, Serve(u) PROVE ChannelInv'
  BY <1>2, RequestSteps, CreateSteps, LookForTalkStep, StartTalkStep, DoneStep DEF Serve
<1>3. ASSUME NEW u \in Users, Begins(u) PROVE ChannelInv'
  <2>1. CASE Kick(u)
    BY <2>1, AnswerStep DEF Kick, data
  <2>2. CASE \/ Open(u) \/ Close(u) \/ Hide(u) \/ Reveal(u) \/ Expel(u) \/ Invite(u)
             \/ \E c \in DOMAIN channels : Choose(u, c)
    BY <2>2, PageSteps
  <2> QED
    BY <1>3, <2>1, <2>2, BeginSteps DEF Begins
<1>4. CASE \E j \in joins : JoinCheck(j) \/ JoinRoom(j)
  BY <1>4, RowsUntouched DEF JoinCheck, JoinRoom, data
<1>5. CASE UNCHANGED vars
  BY <1>5, RowsUntouched DEF vars, data
<1> QED
  BY <1>1, <1>2, <1>3, <1>4, <1>5 DEF Next

(* There is never a second general channel of a project, nor a second      *)
(* conversation of two people, made by somebody who looked after the first *)
(* was stored, however many ask at once (getChannelForProject and          *)
(* getOrCreateConversation, which look and then create).                   *)
THEOREM LookersMakeNoSecond == Spec => []OneOfEach
<1>1. Init => ChannelInv
  BY ChannelInitInv
<1>2. ChannelInv /\ [Next]_vars => ChannelInv'
  BY ChannelStep
<1>3. ChannelInv => OneOfEach
  BY DEF ChannelInv
<1> QED
  BY <1>1, <1>2, <1>3, PTL DEF Spec
=============================================================================
