------------------------------ MODULE PanelTab ------------------------------
(***************************************************************************)
(* What the parts of the task panel and the files page share: requests in  *)
(* flight, the socket and the query cache of one user's tab                *)
(* (frontend/src/hooks/useProjectRealtime.ts, the mutations of             *)
(* components/task-detail-panel.tsx and of files/page.tsx).                *)
(*                                                                         *)
(* As in Tasks, a step of a request reaches from one await to the next,    *)
(* its first step to its last read before a write, and what these reads    *)
(* refuse has no action; the activity log is left out.  Requests, queries  *)
(* and answers may fail, but the socket holds here: what is lost with it   *)
(* is BoardClient's.  An event carries what its handler had read before;   *)
(* `raced' marks what a write has overtaken since.  The cache is divided   *)
(* into parts; a part is blurred when it may have missed something, until  *)
(* it is fetched again.  Of a task or project that is deleted all is gone. *)
(***************************************************************************)
EXTENDS Naturals, Sequences, FiniteSets, SequencesExt

CONSTANTS
  Users,        \* members of the project
  Me,           \* the user of the tab
  Managers,     \* those who are admins or managers
  Slots,        \* requests that may be in flight at the same time
  MaxRequests,  \* bound on the requests
  Faults        \* TRUE if a request may die at any await, and a query or an answer get lost

ASSUME PanelAssumption ==
  /\ Me \in Users /\ Managers \subseteq Users
  /\ MaxRequests \in Nat /\ Faults \in BOOLEAN

VARIABLES
  pc, job, served,  \* as in Tasks
  inbox,            \* the events on their way to the tab, oldest first
  answers,          \* the answers to requests of the tab on their way
  query,            \* query[k]: how far the query for k is, and its answer
  cached,           \* cached[p]: what the tab shows of part p
  crossed,          \* parts that changed in the tab since their answer was taken
  blurred,          \* parts that may have missed something
  failures,         \* what failed updates of the task will put back
  gone              \* parts of what was deleted: the task, or the project with it

requests == <<pc, job, served>>
tab      == <<query, cached, crossed, blurred, failures>>

Parts == {"comments", "reactions", "labels", "images", "files"}

\* The queries, and the parts each of them brings.
PartsOf ==
  [comments |-> {"comments", "reactions"}, labels |-> {"labels"},
   images |-> {"images"}, files |-> {"files"}]

Queries == DOMAIN PartsOf
NoQuery == [stage |-> "none", data |-> {}]
Asked   == [stage |-> "asked", data |-> {}]
\* back: the labels that the panel puts back if this update of the task fails.
NoJob   == [user |-> Me, part |-> "labels", item |-> 0, data |-> {}, raced |-> FALSE, back |-> {}]

----------------------------------------------------------------------------
(* Requests. *)

Take(s, request, stage) ==
  /\ pc[s] = "idle" /\ served < MaxRequests /\ request.part \notin gone
  /\ pc' = [pc EXCEPT ![s] = stage]
  /\ job' = [job EXCEPT ![s] = request]
  /\ served' = served + 1

Begin(s, u, part, item, stage) ==
  Take(s, [NoJob EXCEPT !.user = u, !.part = part, !.item = item], stage)

Go(s, stage) == pc' = [pc EXCEPT ![s] = stage] /\ UNCHANGED <<job, served>>

\* What the request will broadcast has been read.
Load(s, stage, data) ==
  /\ pc' = [pc EXCEPT ![s] = stage]
  /\ job' = [job EXCEPT ![s].data = data]
  /\ UNCHANGED served

\* The stages at which a request holds what it read of a part.
Holds(q, part) ==
  CASE pc[q] \in {"taskEmit", "saveEmit"} -> part = "labels"
    [] pc[q] = "reactionEmit" -> part = "reactions"
    [] pc[q] \in {"uploadEmit", "imageEmit"} -> part = job[q].part
    [] OTHER -> FALSE

\* A write to a part overtakes what others have read of it.
Write(s, part, stage) ==
  /\ pc' = [pc EXCEPT ![s] = stage]
  /\ job' = [q \in Slots |-> IF q # s /\ Holds(q, part) THEN [job[q] EXCEPT !.raced = TRUE]
                             ELSE job[q]]
  /\ UNCHANGED served

Leave(s) ==
  /\ pc' = [pc EXCEPT ![s] = "idle"]
  /\ job' = [job EXCEPT ![s] = NoJob]
  /\ UNCHANGED served

\* The answer to the tab: the queries it invalidates, what it adds or drops.
Reply(s, queries, add, drop) ==
  answers' = IF job[s].user # Me THEN answers
             ELSE answers \cup {[part |-> job[s].part, queries |-> queries, add |-> add,
                                 drop |-> drop, raced |-> job[s].raced, back |-> job[s].back]}

Refuse(s) == Leave(s) /\ UNCHANGED <<inbox, answers>>

PartOf(e) ==
  CASE e.kind = "task" -> "labels" [] e.kind = "reactions" -> "reactions"
    [] e.kind = "images" -> "images" [] OTHER -> "files"

\* A change is told to nobody: what is on its way about it is old then.
Blur(parts) ==
  /\ blurred' = blurred \cup parts /\ crossed' = crossed \cup parts
  /\ inbox' = [i \in DOMAIN inbox |->
                 [inbox[i] EXCEPT !.raced = inbox[i].raced \/ PartOf(inbox[i]) \in parts]]
  /\ answers' = {[a EXCEPT !.raced = a.raced \/ a.part \in parts] : a \in answers}

----------------------------------------------------------------------------
(* The query cache.  An invalidated query starts anew.                     *)

Invalidated(queries) == [k \in Queries |-> IF k \in queries THEN Asked ELSE query[k]]

Answer(k, data) ==
  /\ query[k].stage = "asked" /\ PartsOf[k] \cap gone = {}
  /\ query' = [query EXCEPT ![k] = [stage |-> "answered", data |-> data]]
  /\ crossed' = crossed \ PartsOf[k]
  /\ UNCHANGED <<requests, inbox, answers, cached, blurred, failures>>

\* The answer of a query tells its parts apart.
Show(k) ==
  /\ query[k].stage = "answered"
  /\ cached' = [p \in Parts |-> IF p \in PartsOf[k] THEN query[k].data[p] ELSE cached[p]]
  /\ query' = [query EXCEPT ![k] = NoQuery]
  /\ blurred' = (blurred \ PartsOf[k]) \cup (crossed \cap PartsOf[k])
  /\ UNCHANGED <<requests, inbox, answers, crossed, failures>>

(* It has failed for the last time.  Events tell all but the comments.     *)
QueryFails(k) ==
  /\ query[k].stage # "none" /\ (Faults \/ PartsOf[k] \cap gone # {})
  /\ query' = [query EXCEPT ![k] = NoQuery]
  /\ blurred' = blurred \cup (PartsOf[k] \cap {"comments", "reactions"})
  /\ UNCHANGED <<requests, inbox, answers, cached, crossed, failures>>

----------------------------------------------------------------------------
(* The handlers of the events: what each sets, and what it invalidates.    *)

\* What the cache is once event e was heard.
Hearing(e) ==
  CASE e.kind = "task"      -> [cached EXCEPT !.labels = e.data]
    [] e.kind = "reactions" ->
         [cached EXCEPT !.reactions = {r \in @ : r[1] # e.item}
            \cup {<<e.item, u>> : u \in {v \in e.data : \E c \in cached.comments : c.id = e.item}}]
    [] e.kind = "images"    -> [cached EXCEPT !.images = e.data]
    [] e.kind = "uploaded"  -> [cached EXCEPT !.files = @ \cup e.data]
    [] e.kind = "deleted"   -> [cached EXCEPT !.files = @ \ {e.item}]

\* Variant: an updated task leaves its comments as they are.
StaleByNone(e) == {}

\* The queries that event e invalidates.
StaleBy(e) == IF e.kind = "task" THEN {"comments"} ELSE {}

\* An answer that an event has overtaken may add what is there no more.
Hear ==
  /\ inbox # <<>>
  /\ inbox' = Tail(inbox)
  /\ LET e == Head(inbox)
         Late(a) == a.part = PartOf(e) /\ ~(a.add \subseteq Hearing(e)[a.part])
     IN
     /\ cached' = Hearing(e)
     /\ query' = Invalidated(StaleBy(e))
     /\ crossed' = crossed \cup {PartOf(e)}
     /\ blurred' = IF e.raced THEN blurred \cup {PartOf(e)} ELSE blurred
     /\ answers' = {[a EXCEPT !.raced = a.raced \/ Late(a)] : a \in answers}
  /\ UNCHANGED <<requests, failures>>

\* handleUploaded and handleDeleted: what is there already is not added again.
Merged(a) == [cached EXCEPT ![a.part] = (@ \cup a.add) \ a.drop]

(* onSuccess of the mutations.                                             *)
Receive(a) ==
  /\ answers' = answers \ {a}
  /\ cached' = Merged(a)
  /\ query' = Invalidated(a.queries)
  /\ crossed' = IF a.add \cup a.drop = {} THEN crossed ELSE crossed \cup {a.part}
  /\ blurred' = IF a.add # {} /\ a.raced THEN blurred \cup {a.part} ELSE blurred
  /\ UNCHANGED <<requests, inbox, failures>>

(* The answer is lost: an update of the task has failed then, and of an    *)
(* edited comment nothing else tells.                                      *)
AnswerLost(a) ==
  /\ Faults
  /\ answers' = answers \ {a}
  /\ failures' = failures \cup a.back
  /\ LET lost == {"comments"} \cap {a.part} IN
     blurred' = blurred \cup lost /\ crossed' = crossed \cup lost
  /\ UNCHANGED <<requests, inbox, query, cached>>

(* onError of updateMutation puts back the task as it was, its labels too. *)
RollBack(b) ==
  /\ failures' = failures \ {b}
  /\ cached' = [cached EXCEPT !.labels = b.labels]
  /\ blurred' = IF b.labels = cached.labels THEN blurred ELSE blurred \cup {"labels"}
  /\ UNCHANGED <<requests, inbox, answers, query, crossed>>

(* The tab shows what it fetched, and fetches one part at most again.      *)
TabInit ==
  /\ pc = [s \in Slots |-> "idle"] /\ job = [s \in Slots |-> NoJob] /\ served = 0
  /\ inbox = <<>> /\ answers = {}
  /\ \E just \in SUBSET Queries :
       /\ Cardinality(just) < 2
       /\ query = [k \in Queries |-> IF k \in just THEN Asked ELSE NoQuery]
  /\ crossed = {} /\ blurred = {} /\ failures = {} /\ gone = {}

TabNext ==
  \/ Hear
  \/ \E k \in Queries : Show(k) \/ QueryFails(k)
  \/ \E a \in answers : Receive(a) \/ AnswerLost(a)
  \/ \E b \in failures : RollBack(b)

AtRest ==
  /\ \A s \in Slots : pc[s] = "idle"
  /\ inbox = <<>> /\ answers = {} /\ failures = {}
  /\ \A k \in Queries : query[k].stage = "none"
=============================================================================
