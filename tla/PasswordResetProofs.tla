------------------------- MODULE PasswordResetProofs -------------------------
(* What PasswordReset guarantees for every number of pages and codes.      *)
EXTENDS PasswordReset, SequenceTheorems, TLAPS

CodeRows == [used : BOOLEAN, cancelled : Nat]

ResetType ==
  /\ codes \in Seq(CodeRows)
  /\ asking \in [Askers -> [stage : {"idle", "store", "mail"}, code : Nat]]
  /\ halves \in BOOLEAN
  /\ spent \subseteq Nat

(* A request that is about to store a code has used up all that were       *)
(* stored when it began: what opens now is newer.                          *)
CancelledBefore ==
  \A a \in Askers : asking[a].stage = "store" =>
    /\ asking[a].code <= Len(codes)
    /\ \A c \in DOMAIN codes : ~codes[c].used => asking[a].code < c

ResetInv == ResetType /\ CancelledBefore /\ OneOpenCode /\ NewestOpens

----------------------------------------------------------------------------
LEMMA ResetInitInv == ResetInit => ResetInv
<1> SUFFICES ASSUME ResetInit PROVE ResetInv
  OBVIOUS
<1>1. codes = <<>> /\ DOMAIN codes = {} /\ codes \in Seq(CodeRows)
  BY EmptySeq DEF ResetInit
<1> QED
  BY <1>1 DEF ResetInit, ResetInv, ResetType, CancelledBefore, OneOpenCode, NewestOpens, AtEase

(* How far a request is, after a step of it.                               *)
LEMMA AskNext ==
  ASSUME ResetType, NEW a \in Askers, NEW stage \in {"idle", "store", "mail"}, NEW code \in Nat,
         Ask(a, stage, code)
  PROVE  /\ asking' \in [Askers -> [stage : {"idle", "store", "mail"}, code : Nat]]
         /\ asking'[a].stage = stage /\ asking'[a].code = code
         /\ \A b \in Askers : b # a => asking'[b] = asking[b]
BY DEF ResetType, Ask

(* The places of the codes.                                                *)
LEMMA Places ==
  ASSUME ResetType
  PROVE  /\ Len(codes) \in Nat /\ DOMAIN codes = 1..Len(codes)
         /\ \A c \in DOMAIN codes : codes[c] \in CodeRows
BY LenProperties DEF ResetType

LEMMA CancelCodesStep ==
  ASSUME ResetInv, NEW a \in Askers, CancelCodes(a)
  PROVE  ResetInv'
<1> USE DEF ResetInv
<1>1. /\ codes' = [c \in DOMAIN codes |-> [codes[c] EXCEPT !.used = TRUE]]
      /\ Ask(a, "store", Len(codes)) /\ UNCHANGED <<halves, spent>>
  BY DEF CancelCodes
<1>2. /\ asking' \in [Askers -> [stage : {"idle", "store", "mail"}, code : Nat]]
      /\ asking'[a].stage = "store"
  BY <1>1, Places, AskNext
<1>3. codes' \in Seq(CodeRows) /\ DOMAIN codes' = DOMAIN codes
  <2>1. \A c \in DOMAIN codes : [codes[c] EXCEPT !.used = TRUE] \in CodeRows
    BY Places DEF CodeRows
  <2>2. codes' \in [1..Len(codes) -> CodeRows]
    BY <1>1, <2>1, Places
  <2> QED
    BY <1>1, <2>2, Places, SeqDef
<1>4. \A c \in DOMAIN codes : codes'[c].used
  BY <1>1, Places DEF CodeRows
<1>5. CancelledBefore'
  <2>1. Len(codes') = Len(codes)
    BY <1>3, Places, LenProperties
  <2>2. asking'[a].code = Len(codes) /\ \A b \in Askers : b # a => asking'[b] = asking[b]
    BY <1>1, Places, AskNext
  <2> QED
    BY <1>3, <1>4, <2>1, <2>2, Places DEF CancelledBefore
<1>6. OneOpenCode'
  BY <1>3, <1>4 DEF OneOpenCode
<1>7. NewestOpens'
  BY <1>2 DEF NewestOpens
<1> QED
  BY <1>1, <1>2, <1>3, <1>5, <1>6, <1>7 DEF ResetType

LEMMA StoreCodeStep ==
  ASSUME ResetInv, NEW a \in Askers, StoreCode(a)
  PROVE  ResetInv'
<1> USE DEF ResetInv
<1> DEFINE new == [used |-> FALSE, cancelled |-> asking[a].code]
<1>1. /\ asking[a].stage = "store" /\ codes' = Append(codes, new)
      /\ Ask(a, "mail", Len(codes) + 1) /\ UNCHANGED <<halves, spent>>
  BY DEF StoreCode
<1>2. /\ asking' \in [Askers -> [stage : {"idle", "store", "mail"}, code : Nat]]
      /\ asking'[a].stage = "mail" /\ \A b \in Askers : b # a => asking'[b] = asking[b]
  BY <1>1, Places, AskNext
<1>3. new \in CodeRows /\ asking[a].code \in Nat
  BY DEF ResetType, CodeRows
<1>4. /\ codes' \in Seq(CodeRows) /\ Len(codes') = Len(codes) + 1
      /\ DOMAIN codes' = 1..(Len(codes) + 1)
      /\ codes'[Len(codes) + 1] = new
      /\ \A c \in DOMAIN codes : codes'[c] = codes[c]
  BY <1>1, <1>3, Places, AppendProperties, LenProperties DEF ResetType
<1>5. ~new.used /\ new.cancelled = asking[a].code
  OBVIOUS
<1> HIDE DEF new
<1>6. CancelledBefore'
  <2> SUFFICES ASSUME NEW b \in Askers, asking'[b].stage = "store"
               PROVE  /\ asking'[b].code <= Len(codes')
                      /\ \A c \in DOMAIN codes' : ~codes'[c].used => asking'[b].code < c
    BY DEF CancelledBefore
  <2>1. b # a /\ asking'[b] = asking[b] /\ asking[b].code \in Nat
    BY <1>2 DEF ResetType
  <2>2. asking[b].code <= Len(codes)
    BY <2>1 DEF CancelledBefore
  <2>3. \A c \in DOMAIN codes : ~codes'[c].used => asking[b].code < c
    BY <1>4, <2>1 DEF CancelledBefore
  <2> QED
    BY <1>4, <2>1, <2>2, <2>3, Places
<1>7. OneOpenCode'
  <2> SUFFICES ASSUME NEW c \in DOMAIN codes', NEW d \in DOMAIN codes', c < d, ~codes'[c].used
               PROVE  codes'[d].cancelled < c
    BY DEF OneOpenCode
  <2>1. c \in DOMAIN codes /\ codes'[c] = codes[c]
    BY <1>4, Places
  <2>2. CASE d \in DOMAIN codes
    BY <1>4, <2>1, <2>2 DEF OneOpenCode
  <2>3. CASE d = Len(codes) + 1
    BY <1>1, <1>4, <1>5, <2>1, <2>3 DEF CancelledBefore
  <2> QED
    BY <1>4, <2>2, <2>3, Places
<1>8. NewestOpens'
  BY <1>4, <1>5 DEF NewestOpens
<1> QED
  BY <1>1, <1>2, <1>4, <1>6, <1>7, <1>8 DEF ResetType

(* A request that goes on, or ends, and stores nothing.                    *)
LEMMA AskStays ==
  ASSUME ResetInv, NEW a \in Askers, Ask(a, "idle", 0), UNCHANGED <<codes, spent>>,
         halves' \in BOOLEAN, halves => halves', asking[a].stage = "store" => halves'
  PROVE  ResetInv'
<1> USE DEF ResetInv
<1>1. /\ asking' \in [Askers -> [stage : {"idle", "store", "mail"}, code : Nat]]
      /\ asking'[a].stage = "idle" /\ \A b \in Askers : b # a => asking'[b] = asking[b]
  BY AskNext
<1>2. CancelledBefore' /\ OneOpenCode'
  BY <1>1 DEF CancelledBefore, OneOpenCode
<1>3. NewestOpens'
  BY <1>1 DEF NewestOpens
<1> QED
  BY <1>1, <1>2, <1>3 DEF ResetType

LEMMA SetPasswordStep ==
  ASSUME ResetInv, NEW c \in DOMAIN codes, SetPassword(c)
  PROVE  ResetInv'
<1> USE DEF ResetInv
<1>1. /\ codes' = [codes EXCEPT ![c].used = TRUE] /\ spent' = spent \cup {c}
      /\ UNCHANGED <<asking, halves>>
  BY DEF SetPassword
<1>2. /\ codes' \in Seq(CodeRows) /\ DOMAIN codes' = DOMAIN codes
      /\ Len(codes') = Len(codes) /\ c \in Nat
      /\ codes'[c] = [codes[c] EXCEPT !.used = TRUE]
      /\ \A d \in DOMAIN codes : d # c => codes'[d] = codes[d]
  <2>1. [codes[c] EXCEPT !.used = TRUE] \in CodeRows
    BY Places DEF CodeRows
  <2> QED
    BY <1>1, <2>1, Places, ExceptSeq, LenProperties DEF ResetType
<1>3. /\ \A d \in DOMAIN codes : ~codes'[d].used => d # c /\ ~codes[d].used
      /\ \A d \in DOMAIN codes : codes'[d].cancelled = codes[d].cancelled
  BY <1>2, Places DEF CodeRows
<1>4. CancelledBefore'
  BY <1>1, <1>2, <1>3 DEF CancelledBefore
<1>5. OneOpenCode'
  BY <1>2, <1>3 DEF OneOpenCode
<1>6. NewestOpens'
  <2> SUFFICES ASSUME codes' # <<>>, codes'[Len(codes')].used, Len(codes') # c
               PROVE  Len(codes') \in spent' \/ halves' \/ \E a \in Askers : asking'[a].stage = "store"
    BY <1>1 DEF NewestOpens
  <2>1. codes # <<>> /\ Len(codes) \in DOMAIN codes
    BY <1>2, Places, EmptySeq DEF ResetType
  <2> QED
    BY <1>1, <1>2, <2>1 DEF NewestOpens
<1> QED
  BY <1>1, <1>2, <1>4, <1>5, <1>6 DEF ResetType

(* Steps that touch neither the codes nor the requests for them.           *)
LEMMA CodesUntouched ==
  ASSUME ResetInv, UNCHANGED <<codes, asking, halves, spent>>
  PROVE  ResetInv'
BY DEF ResetInv, ResetType, CancelledBefore, OneOpenCode, NewestOpens

LEMMA ResetStep == ResetInv /\ [ResetNext]_resetVars => ResetInv'
<1> SUFFICES ASSUME ResetInv, [ResetNext]_resetVars PROVE ResetInv'
  OBVIOUS
<1>1. ASSUME NEW a \in Askers, MailCode(a) PROVE ResetInv'
  BY <1>1, AskStays DEF MailCode, ResetInv, ResetType
<1>2. ASSUME NEW a \in Askers, AskOtpFails(a) PROVE ResetInv'
  BY <1>2, AskStays DEF AskOtpFails, ResetInv, ResetType
<1>3. ASSUME NEW c \in DOMAIN codes, Verify(c) \/ AcceptTicket(c) \/ SetFails(c) PROVE ResetInv'
  BY <1>3, CodesUntouched DEF Verify, AcceptTicket, SetFails
<1>4. CASE MailWorker \/ UNCHANGED resetVars
  BY <1>4, CodesUntouched DEF MailWorker, resetVars
<1> QED
  BY <1>1, <1>2, <1>3, <1>4, CancelCodesStep, StoreCodeStep, SetPasswordStep DEF ResetNext

(* An older code never opens beside a newer one whose request began after  *)
(* the older one was stored, however many pages ask at the same time.      *)
THEOREM OldCodesClosed == ResetSpec => []OneOpenCode
<1>1. ResetInv => OneOpenCode
  BY DEF ResetInv
<1> QED
  BY <1>1, ResetInitInv, ResetStep, PTL DEF ResetSpec

(* The newest code opens until it is spent, unless a request is about to   *)
(* store a newer one or failed there.                                      *)
THEOREM NewestStaysOpen == ResetSpec => []NewestOpens
<1>1. ResetInv => NewestOpens
  BY DEF ResetInv
<1> QED
  BY <1>1, ResetInitInv, ResetStep, PTL DEF ResetSpec

----------------------------------------------------------------------------
(* The queue loses no letter.                                              *)

Stages == {"waiting", "active", "sent", "gone", "delayed", "failed"}

Topics == {"code"} \X Nat

Letters ==
  [about : Topics, stage : Stages, tries : Nat, stalls : Nat, mailed : BOOLEAN]

MailType ==
  /\ letters \in Seq(Letters) /\ waiting \in Seq(Nat)
  /\ asking \in [Askers -> [stage : {"idle", "store", "mail"}, code : Nat]]

(* The jobs in the queue are those that wait, each of them once.           *)
QueueExact ==
  /\ \A j \in DOMAIN waiting :
       waiting[j] \in DOMAIN letters /\ letters[waiting[j]].stage = "waiting"
  /\ \A j, k \in DOMAIN waiting : waiting[j] = waiting[k] => j = k
  /\ \A i \in DOMAIN letters : letters[i].stage = "waiting" => \E j \in DOMAIN waiting : waiting[j] = i

(* A job is done when its letter is out, and given up after the last try   *)
(* or when its worker died once more than a job is given out again.        *)
LettersSound ==
  \A i \in DOMAIN letters :
    LET l == letters[i] IN
    /\ l.stage \in {"sent", "gone"} => l.mailed
    /\ l.stage = "failed" => l.tries >= Attempts \/ l.stalls >= Given
    /\ l.stage \in {"waiting", "active", "sent", "delayed"} => l.tries < Attempts

OneAtWork == \A i, k \in AtWork : i = k

PromisesFiled ==
  \A c \in promised : \E i \in DOMAIN letters : letters[i].about = <<"code", c>>

MailInv == MailType /\ QueueExact /\ LettersSound /\ OneAtWork /\ PromisesFiled

(* The letter of a code that was promised is out, or its job is in the     *)
(* queue, at work or backing off, or has failed for good: after all its    *)
(* tries, or by the deaths of the worker.                                  *)
NoLetterLost ==
  \A c \in promised : \E i \in DOMAIN letters :
    LET l == letters[i] IN
    /\ l.about = <<"code", c>>
    /\ \/ l.mailed
       \/ l.stage \in {"active", "delayed"}
       \/ l.stage = "waiting" /\ \E j \in DOMAIN waiting : waiting[j] = i
       \/ l.stage = "failed" /\ (l.tries >= Attempts \/ l.stalls >= Given)

LEMMA MailInitInv == ResetInit => MailInv
<1> SUFFICES ASSUME ResetInit PROVE MailInv
  OBVIOUS
<1>1. letters = <<>> /\ waiting = <<>> /\ promised = {} /\ DOMAIN letters = {} /\ DOMAIN waiting = {}
  BY EmptySeq DEF ResetInit, MailInit
<1>2. MailType
  BY <1>1, EmptySeq DEF ResetInit, MailType, AtEase
<1> QED
  BY <1>1, <1>2 DEF MailInv, QueueExact, LettersSound, OneAtWork, AtWork, PromisesFiled

(* The places of the letters and of the queue.                             *)
LEMMA MailPlaces ==
  ASSUME MailType
  PROVE  /\ Len(letters) \in Nat /\ DOMAIN letters = 1..Len(letters)
         /\ \A i \in DOMAIN letters : letters[i] \in Letters
         /\ Len(waiting) \in Nat /\ DOMAIN waiting = 1..Len(waiting)
         /\ \A j \in DOMAIN waiting : waiting[j] \in Nat
BY LenProperties DEF MailType

(* One letter becomes l, the others stay as they are.                      *)
LEMMA LetterBecomes ==
  ASSUME MailType, NEW i \in DOMAIN letters, NEW l \in Letters, letters' = [letters EXCEPT ![i] = l]
  PROVE  /\ letters' \in Seq(Letters) /\ DOMAIN letters' = DOMAIN letters
         /\ letters'[i] = l
         /\ \A k \in DOMAIN letters : k # i => letters'[k] = letters[k]
BY MailPlaces, ExceptSeq, LenProperties DEF MailType

LEMMA LetterFields == \A l \in Letters : l.tries \in Nat /\ l.stalls \in Nat
BY DEF Letters

LEMMA LetterUpdates ==
  \A l \in Letters, stage \in Stages, n \in Nat :
    /\ [[l EXCEPT !.tries = n] EXCEPT !.stage = stage] \in Letters
    /\ [[l EXCEPT !.stage = stage] EXCEPT !.stalls = n] \in Letters
BY DEF Letters

(* A job joins the end of the queue.                                       *)
LEMMA JobJoins ==
  ASSUME MailType, NEW i \in Nat, waiting' = Append(waiting, i)
  PROVE  /\ waiting' \in Seq(Nat) /\ DOMAIN waiting' = DOMAIN waiting \cup {Len(waiting) + 1}
         /\ waiting'[Len(waiting) + 1] = i /\ Len(waiting) + 1 \notin DOMAIN waiting
         /\ \A j \in DOMAIN waiting : waiting'[j] = waiting[j]
<1>1. /\ waiting' \in Seq(Nat) /\ Len(waiting') = Len(waiting) + 1
      /\ waiting'[Len(waiting) + 1] = i
      /\ \A j \in 1..Len(waiting) : waiting'[j] = waiting[j]
  BY AppendProperties, MailPlaces DEF MailType
<1> QED
  BY <1>1, MailPlaces, LenProperties

(* A letter changes, and the queue does not: it was not in the queue, and  *)
(* is not now.                                                             *)
LEMMA OneLetterStep ==
  ASSUME MailInv, NEW i \in DOMAIN letters, NEW l \in Letters,
         letters' = [letters EXCEPT ![i] = l], UNCHANGED <<waiting, asking, promised>>,
         letters[i].stage # "waiting", l.stage # "waiting", l.about = letters[i].about,
         l.stage \in {"sent", "gone"} => l.mailed,
         l.stage = "failed" => l.tries >= Attempts \/ l.stalls >= Given,
         l.stage \in {"active", "sent", "delayed"} => l.tries < Attempts,
         l.stage \in {"active", "sent"} => letters[i].stage \in {"active", "sent"}
  PROVE  MailInv'
<1> USE DEF MailInv
<1>1. /\ letters' \in Seq(Letters) /\ DOMAIN letters' = DOMAIN letters
      /\ letters'[i] = l /\ \A k \in DOMAIN letters : k # i => letters'[k] = letters[k]
  BY LetterBecomes
<1>2. MailType'
  BY <1>1 DEF MailType
<1>3. QueueExact'
  BY <1>1 DEF QueueExact
<1>4. LettersSound'
  BY <1>1 DEF LettersSound
<1>5. OneAtWork'
  BY <1>1 DEF OneAtWork, AtWork
<1>6. PromisesFiled'
  BY <1>1 DEF PromisesFiled
<1> QED
  BY <1>2, <1>3, <1>4, <1>5, <1>6

(* A letter goes back into the queue.                                      *)
LEMMA BackInQueue ==
  ASSUME MailInv, NEW i \in DOMAIN letters, NEW l \in Letters,
         letters' = [letters EXCEPT ![i] = l], waiting' = Append(waiting, i),
         UNCHANGED <<asking, promised>>,
         letters[i].stage # "waiting", l.stage = "waiting", l.about = letters[i].about,
         l.tries < Attempts
  PROVE  MailInv'
<1> USE DEF MailInv
<1>1. /\ letters' \in Seq(Letters) /\ DOMAIN letters' = DOMAIN letters
      /\ letters'[i] = l /\ \A k \in DOMAIN letters : k # i => letters'[k] = letters[k]
  BY LetterBecomes
<1>2. /\ waiting' \in Seq(Nat) /\ DOMAIN waiting' = DOMAIN waiting \cup {Len(waiting) + 1}
      /\ waiting'[Len(waiting) + 1] = i /\ Len(waiting) + 1 \notin DOMAIN waiting
      /\ \A j \in DOMAIN waiting : waiting'[j] = waiting[j] /\ waiting[j] # i
  BY JobJoins, MailPlaces DEF QueueExact
<1>3. MailType'
  BY <1>1, <1>2 DEF MailType
<1>4. QueueExact'
  BY <1>1, <1>2 DEF QueueExact
<1>5. LettersSound'
  BY <1>1 DEF LettersSound
<1>6. OneAtWork'
  BY <1>1 DEF OneAtWork, AtWork
<1>7. PromisesFiled'
  BY <1>1 DEF PromisesFiled
<1> QED
  BY <1>3, <1>4, <1>5, <1>6, <1>7

LEMMA TakeStep ==
  ASSUME MailInv, Take, UNCHANGED <<asking, promised>>
  PROVE  MailInv'
<1> USE DEF MailInv
<1> DEFINE i == Head(waiting)
           l == [letters[i] EXCEPT !.stage = "active"]
<1>1. /\ waiting # <<>> /\ AtWork = {} /\ waiting' = Tail(waiting)
      /\ letters' = [letters EXCEPT ![i] = l]
  BY DEF Take, Stage
<1>2. /\ waiting' \in Seq(Nat) /\ Len(waiting') = Len(waiting) - 1 /\ Len(waiting) \in Nat \ {0}
      /\ \A j \in 1..Len(waiting') : waiting'[j] = waiting[j + 1]
      /\ i = waiting[1]
  BY <1>1, HeadTailProperties, EmptySeq DEF MailType
<1>3. DOMAIN waiting' = 1..(Len(waiting) - 1) /\ DOMAIN waiting = 1..Len(waiting) /\ 1 \in DOMAIN waiting
  BY <1>2, MailPlaces, LenProperties
<1>4. i \in DOMAIN letters /\ letters[i].stage = "waiting" /\ letters[i] \in Letters
  BY <1>2, <1>3, MailPlaces DEF QueueExact
<1>5. l \in Letters /\ l.stage = "active" /\ l.about = letters[i].about /\ l.tries = letters[i].tries
  BY <1>4 DEF Letters, Stages
<1> HIDE DEF i, l
<1>6. /\ letters' \in Seq(Letters) /\ DOMAIN letters' = DOMAIN letters
      /\ letters'[i] = l /\ \A k \in DOMAIN letters : k # i => letters'[k] = letters[k]
  BY <1>1, <1>4, <1>5, LetterBecomes
<1>7. MailType'
  BY <1>2, <1>6 DEF MailType
<1>8. QueueExact'
  <2>1. \A j \in DOMAIN waiting' : j + 1 \in DOMAIN waiting /\ waiting'[j] = waiting[j + 1] /\ waiting'[j] # i
    <3> TAKE j \in DOMAIN waiting'
    <3>1. j \in 1..(Len(waiting) - 1)
      BY <1>3
    <3>2. j + 1 \in DOMAIN waiting /\ j + 1 # 1
      BY <1>2, <1>3, <3>1
    <3>3. waiting'[j] = waiting[j + 1]
      BY <1>2, <1>3
    <3> QED
      BY <1>2, <1>3, <3>2, <3>3 DEF QueueExact
  <2>2. \A j \in DOMAIN waiting' :
          waiting'[j] \in DOMAIN letters' /\ letters'[waiting'[j]].stage = "waiting"
    BY <1>6, <2>1 DEF QueueExact
  <2>3. \A j, k \in DOMAIN waiting' : waiting'[j] = waiting'[k] => j = k
    <3> TAKE j \in DOMAIN waiting', k \in DOMAIN waiting'
    <3> HAVE waiting'[j] = waiting'[k]
    <3>1. j + 1 = k + 1
      BY <2>1 DEF QueueExact
    <3> QED
      BY <1>2, <1>3, <3>1
  <2>4. ASSUME NEW k \in DOMAIN letters', letters'[k].stage = "waiting"
        PROVE  \E j \in DOMAIN waiting' : waiting'[j] = k
    <3>1. k # i /\ letters[k].stage = "waiting"
      BY <1>5, <1>6, <2>4
    <3>2. PICK j \in DOMAIN waiting : waiting[j] = k
      BY <1>6, <3>1 DEF QueueExact
    <3>3. j # 1 /\ j - 1 \in DOMAIN waiting'
      BY <1>2, <1>3, <3>1, <3>2
    <3>4. waiting'[j - 1] = k
      BY <1>2, <1>3, <3>2, <3>3
    <3> QED
      BY <3>3, <3>4
  <2> QED
    BY <2>2, <2>3, <2>4 DEF QueueExact
<1>9. LettersSound' /\ PromisesFiled'
  BY <1>4, <1>5, <1>6, ZenonT(60) DEF LettersSound, PromisesFiled
<1>10. OneAtWork'
  BY <1>1, <1>6 DEF OneAtWork, AtWork
<1> QED
  BY <1>7, <1>8, <1>9, <1>10

LEMMA MailNextStep ==
  ASSUME MailInv, MailNext, UNCHANGED <<asking, promised>>
  PROVE  MailInv'
<1> USE DEF MailInv
<1>0. \A i \in DOMAIN letters : letters[i] \in Letters
  BY MailPlaces
<1>1. ASSUME NEW i \in DOMAIN letters, SendMail(i) PROVE MailInv'
  <2> DEFINE l == [[letters[i] EXCEPT !.stage = "sent"] EXCEPT !.mailed = TRUE]
  <2>1. letters[i].stage = "active" /\ letters[i].tries < Attempts
    BY <1>1 DEF SendMail, LettersSound
  <2>2. /\ l \in Letters /\ l.stage = "sent" /\ l.mailed /\ l.tries = letters[i].tries
        /\ l.about = letters[i].about
    BY <1>0 DEF Letters, Stages
  <2>3. letters' = [letters EXCEPT ![i] = l] /\ UNCHANGED waiting
    BY <1>1 DEF SendMail
  <2> HIDE DEF l
  <2> QED
    BY <2>1, <2>2, <2>3, OneLetterStep
<1>2. ASSUME NEW i \in DOMAIN letters, SendFails(i) PROVE MailInv'
  <2> DEFINE stage == IF letters[i].tries + 1 < Attempts THEN "delayed" ELSE "failed"
             l == [[letters[i] EXCEPT !.tries = letters[i].tries + 1] EXCEPT !.stage = stage]
  <2>1. letters[i].stage = "active"
    BY <1>2 DEF SendFails
  <2>0. stage \in Stages /\ letters[i] \in Letters /\ letters[i].tries \in Nat
    BY <1>0, LetterFields DEF Stages
  <2>5. l \in Letters /\ letters[i].tries \in Nat
    <3>1. letters[i].tries + 1 \in Nat
      BY <2>0
    <3> QED
      BY <2>0, <3>1, LetterUpdates
  <2>2. l.stage = stage /\ l.tries = letters[i].tries + 1 /\ l.about = letters[i].about
    BY <2>0 DEF Letters
  <2>3. letters' = [letters EXCEPT ![i] = l] /\ UNCHANGED waiting
    BY <1>2 DEF SendFails
  <2>4. (stage = "delayed" /\ l.tries < Attempts) \/ (stage = "failed" /\ l.tries >= Attempts)
    BY <2>2, <2>5, MailAssumption
  <2> HIDE DEF l, stage
  <2> QED
    BY <2>1, <2>2, <2>3, <2>4, <2>5, OneLetterStep
<1>3. ASSUME NEW i \in DOMAIN letters, Complete(i) PROVE MailInv'
  <2> DEFINE l == [letters[i] EXCEPT !.stage = "gone"]
  <2>1. letters[i].stage = "sent" /\ letters[i].mailed
    BY <1>3 DEF Complete, LettersSound
  <2>2. l \in Letters /\ l.stage = "gone" /\ l.mailed = letters[i].mailed /\ l.about = letters[i].about
    BY <1>0 DEF Letters, Stages
  <2>3. letters' = [letters EXCEPT ![i] = l] /\ UNCHANGED waiting
    BY <1>3 DEF Complete, Stage
  <2> HIDE DEF l
  <2> QED
    BY <2>1, <2>2, <2>3, OneLetterStep
<1>4. ASSUME NEW i \in DOMAIN letters, Retry(i) PROVE MailInv'
  <2> DEFINE l == [letters[i] EXCEPT !.stage = "waiting"]
  <2>1. letters[i].stage = "delayed" /\ letters[i].tries < Attempts
    BY <1>4 DEF Retry, LettersSound
  <2>2. /\ l \in Letters /\ l.stage = "waiting" /\ l.tries = letters[i].tries
        /\ l.about = letters[i].about
    BY <1>0 DEF Letters, Stages
  <2>3. letters' = [letters EXCEPT ![i] = l] /\ waiting' = Append(waiting, i)
    BY <1>4 DEF Retry, Stage
  <2> HIDE DEF l
  <2> QED
    BY <2>1, <2>2, <2>3, BackInQueue
<1>5. ASSUME NEW i \in DOMAIN letters, WorkerDies(i) PROVE MailInv'
  <2>1. letters[i].stage \in {"active", "sent"} /\ letters[i].tries < Attempts
    BY <1>5 DEF WorkerDies, AtWork, LettersSound
  <2>2. CASE letters[i].stalls < Given
    <3> DEFINE l == [[letters[i] EXCEPT !.stage = "waiting"] EXCEPT !.stalls = letters[i].stalls + 1]
    <3>0. letters[i] \in Letters /\ letters[i].stalls \in Nat /\ "waiting" \in Stages
      BY <1>0, LetterFields DEF Stages
    <3>4. letters[i].stalls + 1 \in Nat
      BY <3>0
    <3>3. l \in Letters
      BY <3>0, <3>4, LetterUpdates
    <3>1. l.stage = "waiting" /\ l.tries = letters[i].tries /\ l.about = letters[i].about
      BY <3>0 DEF Letters
    <3>2. letters' = [letters EXCEPT ![i] = l] /\ waiting' = Append(waiting, i)
      BY <1>5, <2>2 DEF WorkerDies
    <3> HIDE DEF l
    <3> QED
      BY <2>1, <3>1, <3>2, <3>3, BackInQueue
  <2>3. CASE ~(letters[i].stalls < Given)
    <3> DEFINE l == [letters[i] EXCEPT !.stage = "failed"]
    <3>1. /\ l \in Letters /\ l.stage = "failed" /\ l.stalls = letters[i].stalls
          /\ l.about = letters[i].about /\ letters[i].stalls \in Nat
      BY <1>0 DEF Letters, Stages
    <3>2. letters' = [letters EXCEPT ![i] = l] /\ UNCHANGED waiting
      BY <1>5, <2>3 DEF WorkerDies, Stage
    <3>3. l.stalls >= Given
      BY <2>3, <3>1 DEF Given
    <3> HIDE DEF l
    <3> QED
      BY <2>1, <3>1, <3>2, <3>3, OneLetterStep
  <2> QED
    BY <2>2, <2>3
<1> QED
  BY <1>1, <1>2, <1>3, <1>4, <1>5, TakeStep DEF MailNext, Work

(* The letter of a new code joins the queue.                               *)
LEMMA MailCodeStep ==
  ASSUME MailInv, NEW a \in Askers, MailCode(a)
  PROVE  MailInv'
<1> USE DEF MailInv
<1> DEFINE n == Len(letters) + 1
           l == [about |-> <<"code", asking[a].code>>, stage |-> "waiting", tries |-> 0,
                 stalls |-> 0, mailed |-> FALSE]
<1>1. /\ letters' = Append(letters, l) /\ waiting' = Append(waiting, n)
      /\ Ask(a, "idle", 0) /\ promised' = promised \cup {asking[a].code}
  BY DEF MailCode, Enqueue
<1>2. l \in Letters /\ n \in Nat
  <2>1. <<"code", asking[a].code>> \in Topics
    BY DEF MailType, Topics
  <2> QED
    BY <2>1, MailPlaces DEF Letters, Stages
<1>3. l.about = <<"code", asking[a].code>> /\ l.stage = "waiting" /\ l.tries = 0
  OBVIOUS
<1> HIDE DEF l
<1>4. /\ letters' \in Seq(Letters) /\ DOMAIN letters' = DOMAIN letters \cup {n}
      /\ letters'[n] = l /\ n \notin DOMAIN letters
      /\ \A i \in DOMAIN letters : letters'[i] = letters[i]
  <2>1. /\ letters' \in Seq(Letters) /\ Len(letters') = Len(letters) + 1 /\ letters'[n] = l
        /\ \A i \in 1..Len(letters) : letters'[i] = letters[i]
    BY <1>1, <1>2, AppendProperties, MailPlaces DEF MailType
  <2> QED
    BY <2>1, MailPlaces, LenProperties
<1>5. /\ waiting' \in Seq(Nat) /\ DOMAIN waiting' = DOMAIN waiting \cup {Len(waiting) + 1}
      /\ waiting'[Len(waiting) + 1] = n /\ Len(waiting) + 1 \notin DOMAIN waiting
      /\ \A j \in DOMAIN waiting : waiting'[j] = waiting[j]
  BY <1>1, <1>2, JobJoins
<1> HIDE DEF n
<1>6. MailType'
  <2>1. asking' \in [Askers -> [stage : {"idle", "store", "mail"}, code : Nat]]
    BY <1>1 DEF Ask, MailType
  <2> QED
    BY <1>4, <1>5, <2>1 DEF MailType
<1>7. QueueExact'
  BY <1>3, <1>4, <1>5 DEF QueueExact
<1>8. LettersSound'
  BY <1>3, <1>4, MailAssumption DEF LettersSound
<1>9. OneAtWork'
  BY <1>3, <1>4 DEF OneAtWork, AtWork
<1>10. PromisesFiled'
  <2> SUFFICES ASSUME NEW c \in promised'
               PROVE  \E i \in DOMAIN letters' : letters'[i].about = <<"code", c>>
    BY DEF PromisesFiled
  <2>1. CASE c \in promised
    BY <1>4, <2>1 DEF PromisesFiled
  <2>2. CASE c = asking[a].code
    BY <1>3, <1>4, <2>2
  <2> QED
    BY <1>1, <2>1, <2>2
<1> QED
  BY <1>6, <1>7, <1>8, <1>9, <1>10

(* Steps that touch neither the letters nor the queue.                     *)
LEMMA MailUntouched ==
  ASSUME MailInv, UNCHANGED <<letters, waiting, promised>>,
         asking' \in [Askers -> [stage : {"idle", "store", "mail"}, code : Nat]]
  PROVE  MailInv'
<1> USE DEF MailInv
<1>1. MailType'
  BY DEF MailType
<1>2. QueueExact'
  BY DEF QueueExact
<1>3. LettersSound' /\ PromisesFiled'
  BY DEF LettersSound, PromisesFiled
<1>4. OneAtWork'
  BY DEF OneAtWork, AtWork
<1> QED
  BY <1>1, <1>2, <1>3, <1>4

LEMMA MailStep == MailInv /\ ResetInv' /\ [ResetNext]_resetVars => MailInv'
<1> SUFFICES ASSUME MailInv, ResetInv', [ResetNext]_resetVars PROVE MailInv'
  OBVIOUS
<1>0. asking' \in [Askers -> [stage : {"idle", "store", "mail"}, code : Nat]]
  BY DEF ResetInv, ResetType
<1>1. ASSUME NEW a \in Askers, CancelCodes(a) \/ StoreCode(a) \/ AskOtpFails(a) PROVE MailInv'
  BY <1>0, <1>1, MailUntouched DEF CancelCodes, StoreCode, AskOtpFails, mail
<1>2. ASSUME NEW c \in DOMAIN codes,
             Verify(c) \/ AcceptTicket(c) \/ SetPassword(c) \/ SetFails(c)
      PROVE  MailInv'
  BY <1>0, <1>2, MailUntouched DEF Verify, AcceptTicket, SetPassword, SetFails, mail
<1>3. CASE MailWorker
  BY <1>3, MailNextStep DEF MailWorker
<1>4. CASE UNCHANGED resetVars
  BY <1>0, <1>4, MailUntouched DEF resetVars, mail
<1> QED
  BY <1>1, <1>2, <1>3, <1>4, MailCodeStep DEF ResetNext

(* Whoever is told that a code was sent has a letter that is out, or whose *)
(* job is still there, or has failed for good: none is forgotten, however  *)
(* often the worker dies.                                                  *)
THEOREM LettersKept == ResetSpec => []NoLetterLost
<1>1. MailInv => NoLetterLost
  <2> SUFFICES ASSUME MailInv, NEW c \in promised
               PROVE  \E i \in DOMAIN letters : NoLetterLost!(c)!(i)
    BY DEF NoLetterLost
  <2>1. PICK i \in DOMAIN letters : letters[i].about = <<"code", c>>
    BY DEF MailInv, PromisesFiled
  <2>2. letters[i].stage \in Stages
    BY MailPlaces DEF MailInv, Letters
  <2> QED
    BY <2>1, <2>2 DEF MailInv, QueueExact, LettersSound, Stages
<1>2. ResetSpec => [](MailInv /\ ResetInv)
  BY MailInitInv, MailStep, ResetInitInv, ResetStep, PTL DEF ResetSpec
<1> QED
  BY <1>1, <1>2, PTL
=============================================================================
