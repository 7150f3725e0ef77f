-------------------------------- MODULE Mail --------------------------------
(***************************************************************************)
(* The queue of letters and its worker (backend/src/queues/*.ts,           *)
(* backend/src/auth/mail.service.ts).                                      *)
(*                                                                         *)
(* A letter is known by its place in the order in which letters were put   *)
(* into the queue; its jobId is made of the row it is about, so no two     *)
(* letters share one.  There is one worker, and it has one job at a time.  *)
(* A job whose worker died is given out once more (the queue's own rule).  *)
(***************************************************************************)
EXTENDS Naturals, Sequences

CONSTANTS
  Attempts,    \* attempts of a job, 3 in the code
  MaxLetters,  \* bound on the letters
  MaxCrashes   \* bound on the deaths of the worker

ASSUME MailAssumption == Attempts \in Nat \ {0} /\ MaxLetters \in Nat /\ MaxCrashes \in Nat

VARIABLES
  letters,  \* letters[i]: what it is about, and how far its job is
  waiting,  \* the jobs that wait, oldest first
  crashes   \* deaths so far

mail == <<letters, waiting, crashes>>

Given == 1  \* how often a job whose worker died is given out again

Enqueue(about) ==
  /\ Len(letters) < MaxLetters
  /\ letters' = Append(letters, [about |-> about, stage |-> "waiting", tries |-> 0,
                                 stalls |-> 0, mailed |-> FALSE])
  /\ waiting' = Append(waiting, Len(letters) + 1)
  /\ UNCHANGED crashes

AtWork == {i \in DOMAIN letters : letters[i].stage \in {"active", "sent"}}

Stage(i, stage) == letters' = [letters EXCEPT ![i].stage = stage]

Take ==
  /\ waiting # <<>> /\ AtWork = {}
  /\ waiting' = Tail(waiting)
  /\ Stage(Head(waiting), "active")
  /\ UNCHANGED crashes

SendMail(i) ==
  /\ letters[i].stage = "active"
  /\ letters' = [letters EXCEPT ![i].stage = "sent", ![i].mailed = TRUE]
  /\ UNCHANGED <<waiting, crashes>>

(* removeOnComplete.                                                       *)
Complete(i) ==
  /\ letters[i].stage = "sent"
  /\ Stage(i, "gone")
  /\ UNCHANGED <<waiting, crashes>>

\* Variant: the error is logged and goes no further.
SwallowError(i) ==
  /\ letters[i].stage = "active"
  /\ Stage(i, "gone")
  /\ UNCHANGED <<waiting, crashes>>

(* The error is thrown on: the job backs off, or has failed for good.      *)
SendFails(i) ==
  /\ letters[i].stage = "active"
  /\ letters' = [letters EXCEPT ![i].tries = @ + 1,
       ![i].stage = IF letters[i].tries + 1 < Attempts THEN "delayed" ELSE "failed"]
  /\ UNCHANGED <<waiting, crashes>>

Retry(i) ==
  /\ letters[i].stage = "delayed"
  /\ Stage(i, "waiting")
  /\ waiting' = Append(waiting, i)
  /\ UNCHANGED crashes

WorkerDies(i) ==
  /\ crashes < MaxCrashes /\ i \in AtWork
  /\ crashes' = crashes + 1
  /\ IF letters[i].stalls < Given
       THEN /\ letters' = [letters EXCEPT ![i].stage = "waiting", ![i].stalls = @ + 1]
            /\ waiting' = Append(waiting, i)
       ELSE Stage(i, "failed") /\ UNCHANGED waiting

MailInit == letters = <<>> /\ waiting = <<>> /\ crashes = 0

Work ==
  \/ Take
  \/ \E i \in DOMAIN letters : SendMail(i) \/ SendFails(i) \/ Complete(i) \/ Retry(i)

MailNext == Work \/ \E i \in DOMAIN letters : WorkerDies(i)
=============================================================================
