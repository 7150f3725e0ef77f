---------------------------- MODULE ProjectCache ----------------------------
(***************************************************************************)
(* The cache of the service: the statistics of one project, and the lists  *)
(* of projects of its users (getStats and list of backend/src/projects/    *)
(* projects.service.ts, and the writers of projects and tasks that delete  *)
(* their entries).                                                         *)
(*                                                                         *)
(* A fill misses, reads the database and stores what it read, in three     *)
(* steps; a writer writes, and then deletes the entries one by one.  The   *)
(* project is there from its creation to its removal, and has the Admin    *)
(* among its members then: nobody else makes it, none takes him out.  What *)
(* an entry is about is reduced to what its writers take care of: the      *)
(* tasks for the statistics, the name of the project and whether the user  *)
(* is a member for a list.  (A list also shows the progress and the number *)
(* of members, which stay as they are until the entry is a minute old.)    *)
(***************************************************************************)
EXTENDS Naturals, Sequences, FiniteSets, SequencesExt

CONSTANTS
  Users,
  Admin,     \* who changes the project and its members
  Stats,     \* the key of the statistics; the key of a list is its user
  Readers,   \* requests that may fill the cache at the same time
  Writers,   \* requests that may write at the same time
  MaxWrites  \* bound on the writes

ASSUME ProjectCacheAssumption ==
  /\ Admin \in Users /\ MaxWrites \in Nat
  /\ Stats \notin Users /\ {"lists", "project"} \cap (Users \cup {Stats}) = {}

VARIABLES
  tasks, name, members,  \* the database: versions of the tasks and the name
  cache,                 \* cache[k]: the entry of k, at most one
  fill,                  \* fill[r]: the fill that r is busy with
  todo                   \* todo[w]: what w has still to do, keys to delete for the most part

cacheVars == <<tasks, name, members, cache, fill, todo>>

Keys == Users \cup {Stats}

There == members # {}

Truth(k) ==
  IF k = Stats THEN IF There THEN tasks ELSE 0
               ELSE IF k \in members THEN name ELSE 0

\* raced: since the rows were read a deletion of the key came too early, failed, or was not made.
Free == [stage |-> "free", key |-> Stats, copy |-> 0, raced |-> FALSE]

----------------------------------------------------------------------------
(* getStats and list.  An entry that is there is the answer; the cache has *)
(* no part in it.  Statistics are for members.                             *)

Miss(r, k) ==
  /\ fill[r] = Free /\ cache[k] = {}
  /\ k = Stats => There
  /\ fill' = [fill EXCEPT ![r] = [Free EXCEPT !.stage = "missed", !.key = k]]
  /\ UNCHANGED <<tasks, name, members, cache, todo>>

ReadRows(r) ==
  /\ fill[r].stage = "missed"
  /\ fill' = [fill EXCEPT ![r].stage = "read", ![r].copy = Truth(fill[r].key)]
  /\ UNCHANGED <<tasks, name, members, cache, todo>>

Store(r) ==
  /\ fill[r].stage = "read"
  /\ cache' = [cache EXCEPT ![fill[r].key] = {[copy |-> fill[r].copy, raced |-> fill[r].raced]}]
  /\ fill' = [fill EXCEPT ![r] = Free]
  /\ UNCHANGED <<tasks, name, members, todo>>

ReaderFails(r) ==
  /\ fill[r] # Free
  /\ fill' = [fill EXCEPT ![r] = Free]
  /\ UNCHANGED <<tasks, name, members, cache, todo>>

(* A minute after it was stored.                                           *)
EntryExpires(k) ==
  /\ cache[k] # {}
  /\ cache' = [cache EXCEPT ![k] = {}]
  /\ UNCHANGED <<tasks, name, members, fill, todo>>

----------------------------------------------------------------------------
(* The writers; a request that fails before it writes has no action.       *)

Begin(w, keys) ==
  /\ todo[w] = <<>>
  /\ todo' = [todo EXCEPT ![w] = keys]
  /\ UNCHANGED <<cache, fill>>

(* create: the list of the creator.                                        *)
Create(w) ==
  /\ name = 0
  /\ Begin(w, <<Admin>>)
  /\ name' = 1 /\ members' = {Admin}
  /\ UNCHANGED tasks

\* Variant: the entry is left to expire.
WriteTaskOnly(w) ==
  /\ There /\ tasks + name < MaxWrites
  /\ todo[w] = <<>>
  /\ tasks' = tasks + 1
  /\ UNCHANGED <<name, members, cache, fill, todo>>

(* create, update and remove of tasks.service.ts: the statistics alone.    *)
WriteTask(w) ==
  /\ There /\ tasks + name < MaxWrites
  /\ Begin(w, <<Stats>>)
  /\ tasks' = tasks + 1
  /\ UNCHANGED <<name, members>>

(* update: the statistics, and then the lists of all who are members when  *)
(* they are gone.                                                          *)
Rename(w) ==
  /\ There /\ tasks + name < MaxWrites
  /\ Begin(w, <<Stats, "lists">>)
  /\ name' = name + 1
  /\ UNCHANGED <<tasks, members>>

AddMember(w, u) ==
  /\ There /\ u \notin members
  /\ Begin(w, <<u, Admin, Stats>>)
  /\ members' = members \cup {u}
  /\ UNCHANGED <<tasks, name>>

RemoveMember(w, u) ==
  /\ u \in members \ {Admin}
  /\ Begin(w, <<u, Admin, Stats>>)
  /\ members' = members \ {u}
  /\ UNCHANGED <<tasks, name>>

ListMembers(w) ==
  /\ todo[w] # <<>> /\ Head(todo[w]) = "lists"
  /\ todo' = [todo EXCEPT ![w] = SetToSeq(members)]
  /\ UNCHANGED <<tasks, name, members, cache, fill>>

(* remove: the members are looked up, and then the project is deleted.     *)
RemoveFind(w) ==
  /\ There
  /\ Begin(w, <<"project", Stats>> \o SetToSeq(members))
  /\ UNCHANGED <<tasks, name, members>>

\* A fill of one of these keys that has read by now has read too early.
Overtake(keys) ==
  fill' = [r \in Readers |->
             IF fill[r].stage = "read" /\ fill[r].key \in keys
               THEN [fill[r] EXCEPT !.raced = TRUE] ELSE fill[r]]

\* Entries of these keys stay.
Keep(keys) ==
  /\ cache' = [k \in Keys |-> IF k \in keys THEN {[e EXCEPT !.raced = TRUE] : e \in cache[k]}
                              ELSE cache[k]]
  /\ Overtake(keys)

\* Variant: the lists are left to expire.
RemoveDeleteOnly(w) ==
  /\ todo[w] # <<>> /\ Head(todo[w]) = "project" /\ There
  /\ Keep(members \ Range(todo[w]))
  /\ members' = {}
  /\ todo' = [todo EXCEPT ![w] = <<Stats>>]
  /\ UNCHANGED <<tasks, name>>

(* Whoever became a member meanwhile is not among those looked up.         *)
RemoveDelete(w) ==
  /\ todo[w] # <<>> /\ Head(todo[w]) = "project" /\ There
  /\ Keep(members \ Range(todo[w]))
  /\ members' = {}
  /\ todo' = [todo EXCEPT ![w] = Tail(@)]
  /\ UNCHANGED <<tasks, name>>

(* cacheManager.del.                                                       *)
Delete(w) ==
  /\ todo[w] # <<>> /\ Head(todo[w]) \in Keys
  /\ cache' = [cache EXCEPT ![Head(todo[w])] = {}]
  /\ Overtake({Head(todo[w])})
  /\ todo' = [todo EXCEPT ![w] = Tail(@)]
  /\ UNCHANGED <<tasks, name, members>>

\* The keys that w has still to delete, for what it has written.
Due(w) ==
  IF "project" \in Range(todo[w]) THEN {}
  ELSE Range(todo[w]) \cup IF "lists" \in Range(todo[w]) THEN members ELSE {}

(* The cache refuses, or the service dies: the entries stay.  Or somebody  *)
(* else has removed the project first.                                     *)
WriterFails(w) ==
  /\ todo[w] # <<>>
  /\ Keep(Due(w))
  /\ todo' = [todo EXCEPT ![w] = <<>>]
  /\ UNCHANGED <<tasks, name, members>>

----------------------------------------------------------------------------
CacheInit ==
  /\ tasks = 0 /\ name = 0 /\ members = {}
  /\ cache = [k \in Keys |-> {}]
  /\ fill = [r \in Readers |-> Free]
  /\ todo = [w \in Writers |-> <<>>]

CacheNext ==
  \/ \E r \in Readers : ReadRows(r) \/ Store(r) \/ ReaderFails(r)
  \/ \E r \in Readers, k \in Keys : Miss(r, k)
  \/ \E k \in Keys : EntryExpires(k)
  \/ \E w \in Writers :
       \/ Create(w) \/ WriteTask(w) \/ Rename(w) \/ ListMembers(w)
       \/ RemoveFind(w) \/ RemoveDelete(w) \/ Delete(w) \/ WriterFails(w)
  \/ \E w \in Writers, u \in Users : AddMember(w, u) \/ RemoveMember(w, u)

CacheSpec == CacheInit /\ [][CacheNext]_cacheVars

----------------------------------------------------------------------------
(* Properties. *)

(* An entry that is out of date is about to be deleted, unless it was read *)
(* before a writer deleted the key, or failed to, and kept after that, or  *)
(* it is the list of a user who became a member while the project was      *)
(* being removed, between the look at its members and its deletion.        *)
(* Nothing else in these writers leaves an old entry for its minute,       *)
(* whichever of them overlap.                                              *)
StaleIsRaced ==
  \A k \in Keys : \A e \in cache[k] :
    e.copy # Truth(k) => e.raced \/ \E w \in Writers : k \in Due(w)
=============================================================================
