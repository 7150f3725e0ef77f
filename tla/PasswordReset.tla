---------------------------- MODULE PasswordReset ----------------------------
(***************************************************************************)
(* How one user sets a new password with a code that is mailed             *)
(* (backend/src/auth/auth.service.ts, and the pages forgot-password,       *)
(* verify-otp, set-new-password and reset-password of                      *)
(* frontend/src/app/(auth)).                                               *)
(*                                                                         *)
(* Codes are numbered as they are stored; two codes never have the same    *)
(* six digits here.  The user of every address that is asked for exists.   *)
(* There is no clock: a code or a ticket whose time is over is one that is *)
(* not used any more.                                                      *)
(***************************************************************************)
EXTENDS Mail

CONSTANTS
  Askers,   \* pages that ask for codes, each one request at a time
  MaxCodes  \* bound on the codes

ASSUME PasswordResetAssumption == MaxCodes \in Nat

VARIABLES
  codes,     \* codes[c]: used, and how many codes its request had cancelled
  asking,    \* asking[a]: how far the request of a is
  promised,  \* the codes whose requests were answered with success
  halves,    \* TRUE once a request failed between cancelling and storing
  ticket,    \* the codes a verificationToken was given for
  setting,   \* the codes whose tickets setNewPassword has accepted
  spent      \* the codes a password was set with

resetVars == <<mail, codes, asking, promised, halves, ticket, setting, spent>>

AtEase == [stage |-> "idle", code |-> 0]
Ask(a, stage, code) == asking' = [asking EXCEPT ![a] = [stage |-> stage, code |-> code]]

----------------------------------------------------------------------------
(* requestOtp: all codes are used up, a new one is stored, its letter is   *)
(* put into the queue.  A request can fail at every step.                  *)

\* Variant: a code that a ticket was given for is left alone.
CancelUntaken(a) ==
  /\ asking[a].stage = "idle" /\ Len(codes) < MaxCodes
  /\ codes' = [c \in DOMAIN codes |-> [codes[c] EXCEPT !.used = @ \/ c \notin ticket]]
  /\ Ask(a, "store", Len(codes))
  /\ UNCHANGED <<mail, promised, halves, ticket, setting, spent>>

CancelCodes(a) ==
  /\ asking[a].stage = "idle" /\ Len(codes) < MaxCodes
  /\ codes' = [c \in DOMAIN codes |-> [codes[c] EXCEPT !.used = TRUE]]
  /\ Ask(a, "store", Len(codes))
  /\ UNCHANGED <<mail, promised, halves, ticket, setting, spent>>

\* Variant: the new code is stored first, and used up with the others.
StoreUsed(a) ==
  /\ asking[a].stage = "store"
  /\ codes' = Append(codes, [used |-> TRUE, cancelled |-> asking[a].code])
  /\ Ask(a, "mail", Len(codes) + 1)
  /\ UNCHANGED <<mail, promised, halves, ticket, setting, spent>>

StoreCode(a) ==
  /\ asking[a].stage = "store"
  /\ codes' = Append(codes, [used |-> FALSE, cancelled |-> asking[a].code])
  /\ Ask(a, "mail", Len(codes) + 1)
  /\ UNCHANGED <<mail, promised, halves, ticket, setting, spent>>

MailCode(a) ==
  /\ asking[a].stage = "mail"
  /\ Enqueue(<<"code", asking[a].code>>)
  /\ Ask(a, "idle", 0)
  /\ promised' = promised \cup {asking[a].code}
  /\ UNCHANGED <<codes, halves, ticket, setting, spent>>

AskOtpFails(a) ==
  /\ asking[a].stage # "idle"
  /\ halves' = (halves \/ asking[a].stage = "store")
  /\ Ask(a, "idle", 0)
  /\ UNCHANGED <<mail, codes, promised, ticket, setting, spent>>

----------------------------------------------------------------------------
(* verifyOtp: the code of a letter is typed.                               *)

Mailed(c) == \E i \in DOMAIN letters : letters[i].about = <<"code", c>> /\ letters[i].mailed

Verify(c) ==
  /\ Mailed(c) /\ ~codes[c].used
  /\ ticket' = ticket \cup {c}
  /\ UNCHANGED <<mail, codes, asking, promised, halves, setting, spent>>

(* setNewPassword: the ticket is checked before the password is hashed,    *)
(* whether its code is still unused is not.                                *)
AcceptTicket(c) ==
  /\ c \in ticket \ setting
  /\ setting' = setting \cup {c}
  /\ UNCHANGED <<mail, codes, asking, promised, halves, ticket, spent>>

SetPassword(c) ==
  /\ c \in setting
  /\ setting' = setting \ {c}
  /\ codes' = [codes EXCEPT ![c].used = TRUE]
  /\ spent' = spent \cup {c}
  /\ UNCHANGED <<mail, asking, promised, halves, ticket>>

SetFails(c) ==
  /\ c \in setting
  /\ setting' = setting \ {c}
  /\ UNCHANGED <<mail, codes, asking, promised, halves, ticket, spent>>

ResetInit ==
  /\ MailInit
  /\ codes = <<>> /\ asking = [a \in Askers |-> AtEase]
  /\ promised = {} /\ halves = FALSE /\ ticket = {} /\ setting = {} /\ spent = {}

MailWorker == MailNext /\ UNCHANGED <<codes, asking, promised, halves, ticket, setting, spent>>

ResetNext ==
  \/ \E a \in Askers : CancelCodes(a) \/ StoreCode(a) \/ MailCode(a) \/ AskOtpFails(a)
  \/ \E c \in DOMAIN codes : Verify(c) \/ AcceptTicket(c) \/ SetPassword(c) \/ SetFails(c)
  \/ MailWorker

(* The worker does its jobs, and a job that backs off comes back.          *)
ResetSpec ==
  /\ ResetInit /\ [][ResetNext]_resetVars
  /\ WF_resetVars(Work /\ UNCHANGED <<codes, asking, promised, halves, ticket, setting, spent>>)

----------------------------------------------------------------------------
(* Properties. *)

(* The code that was stored last opens until a password was set with it,   *)
(* unless a request is about to store a newer one, or failed when it was.  *)
NewestOpens ==
  LET c == Len(codes) IN
  codes # <<>> /\ codes[c].used =>
    c \in spent \/ halves \/ \E a \in Askers : asking[a].stage = "store"

(* "Invalidate previous tokens": an older code never opens beside a newer  *)
(* one whose request began after the older one was stored.                 *)
OneOpenCode ==
  \A c, d \in DOMAIN codes : c < d /\ ~codes[c].used => codes[d].cancelled < c

(* Whoever is told that a code was sent gets the letter, unless its job    *)
(* failed for good: all attempts refused, or two deaths of the worker.     *)
CodeArrives ==
  \A c \in 1..MaxCodes :
    (c \in promised) ~>
      \E i \in DOMAIN letters :
        letters[i].about = <<"code", c>> /\ (letters[i].mailed \/ letters[i].stage = "failed")
=============================================================================
