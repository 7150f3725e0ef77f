------------------------------ MODULE Sessions ------------------------------
(***************************************************************************)
(* Refresh tokens and their families (backend/src/auth/auth.service.ts).   *)
(*                                                                         *)
(* A slot is one request in flight; a step runs from one await to the      *)
(* next.  A request that is done stands at "answered" with the token it    *)
(* returns, or None when it was refused, until the answer has left.        *)
(***************************************************************************)
EXTENDS Naturals, FiniteSets

CONSTANTS
  Tokens,       \* refresh tokens that may be drawn; each is drawn once
  Families,     \* families that may be drawn; each is drawn once
  Slots,        \* requests that may be in flight at the same time
  None,         \* null, or no answer
  Overlap,      \* FALSE if requests about one family are sent one at a time
  MaxRequests,  \* bound on the requests served
  Faults        \* TRUE if a request may die at any of its awaits

ASSUME SessionsAssumption ==
  /\ None \notin Tokens /\ None \notin Families
  /\ Overlap \in BOOLEAN /\ Faults \in BOOLEAN
  /\ MaxRequests \in Nat

VARIABLES
  family,   \* family[t]: the family of token t, None before t is issued
  revoked,  \* the tokens whose row says revoked
  expired,  \* the tokens whose seven days are over
  ended,    \* the families that a logout or a reuse has revoked as a whole
  pc, job,  \* the requests in flight
  served    \* requests accepted so far

rows  == <<family, revoked, expired>>
slots == <<pc, job, served>>
vars  == <<rows, ended, slots>>

Issued       == {t \in Tokens : family[t] # None}
TokensOf(f)  == {t \in Tokens : family[t] = f}
Live(f)      == TokensOf(f) \ revoked
Drawn        == {family[t] : t \in Issued}

\* The family a request is about: none for a login.
Subject(stage, locals) ==
  IF stage \in {"rotate", "issue", "revokeFamily"} THEN locals.family ELSE None

About(s) == Subject(pc[s], job[s])

Alone(s, f) == \A q \in Slots \ {s} : About(q) # f

----------------------------------------------------------------------------
Begin(s, stage, f, t) ==
  /\ pc[s] = "idle" /\ served < MaxRequests
  /\ Overlap \/ f = None \/ Alone(s, f)
  /\ pc' = [pc EXCEPT ![s] = stage]
  /\ job' = [job EXCEPT ![s] = [family |-> f, token |-> t]]
  /\ served' = served + 1

Continue(s, stage, f, t) ==
  /\ pc' = [pc EXCEPT ![s] = stage]
  /\ job' = [job EXCEPT ![s] = [family |-> f, token |-> t]]
  /\ served' = served

Answer(s, t) == Continue(s, "answered", None, t)

(* login and register: a token of a family of its own, once the user is    *)
(* found or created.                                                       *)
Login(s) ==
  /\ Begin(s, "issue", None, None)
  /\ UNCHANGED <<rows, ended>>

\* Variant: a token that was rotated out may be used again.
RefreshAgain(s, t) ==
  /\ t \in Issued
  /\ Begin(s, IF t \in expired THEN "answered" ELSE "rotate",
           family[t], IF t \in expired THEN None ELSE t)
  /\ UNCHANGED <<rows, ended>>

(* refreshTokens: look the token up.  One that was rotated out, or whose   *)
(* family is gone, ends the family; an expired one is refused.             *)
Refresh(s, t) ==
  /\ t \in Issued
  /\ Begin(s, IF t \in revoked THEN "revokeFamily"
              ELSE IF t \in expired THEN "answered" ELSE "rotate",
           family[t], IF t \notin revoked /\ t \in expired THEN None ELSE t)
  /\ UNCHANGED <<rows, ended>>

\* Variant: the old token is left as it is.
RotateKeep(s) ==
  /\ pc[s] = "rotate"
  /\ Continue(s, "issue", job[s].family, None)
  /\ UNCHANGED <<rows, ended>>

Rotate(s) ==
  /\ pc[s] = "rotate"
  /\ revoked' = revoked \cup {job[s].token}
  /\ Continue(s, "issue", job[s].family, None)
  /\ UNCHANGED <<family, expired, ended>>

(* createRefreshToken: the row of a token nobody has seen before.          *)
Issue(s) ==
  /\ pc[s] = "issue"
  /\ \E t \in Tokens \ Issued :
       /\ \E f \in Families :
            /\ IF job[s].family = None THEN f \notin Drawn ELSE f = job[s].family
            /\ family' = [family EXCEPT ![t] = f]
       /\ Answer(s, t)
  /\ UNCHANGED <<revoked, expired, ended>>

(* logout: look the token up and revoke its family.                        *)
Logout(s, t) ==
  /\ t \in Issued
  /\ Begin(s, "revokeFamily", family[t], t)
  /\ UNCHANGED <<rows, ended>>

\* Variant: only the token that was sent is revoked.
RevokeToken(s) ==
  /\ pc[s] = "revokeFamily"
  /\ revoked' = revoked \cup {job[s].token}
  /\ ended' = ended \cup {job[s].family}
  /\ Answer(s, None)
  /\ UNCHANGED <<family, expired>>

RevokeFamily(s) ==
  /\ pc[s] = "revokeFamily"
  /\ revoked' = revoked \cup TokensOf(job[s].family)
  /\ ended' = ended \cup {job[s].family}
  /\ Answer(s, None)
  /\ UNCHANGED <<family, expired>>

Leave(s) ==
  /\ pc[s] = "answered"
  /\ Continue(s, "idle", None, None)
  /\ UNCHANGED <<rows, ended>>

Expire(t) ==
  /\ t \in Issued \ expired
  /\ expired' = expired \cup {t}
  /\ UNCHANGED <<family, revoked, ended, slots>>

Fail(s) ==
  /\ Faults
  /\ pc[s] \in {"rotate", "issue", "revokeFamily"}
  /\ Answer(s, None)
  /\ UNCHANGED <<rows, ended>>

Init ==
  /\ family = [t \in Tokens |-> None]
  /\ revoked = {} /\ expired = {} /\ ended = {}
  /\ pc = [s \in Slots |-> "idle"]
  /\ job = [s \in Slots |-> [family |-> None, token |-> None]]
  /\ served = 0

Serve(s) == Rotate(s) \/ Issue(s) \/ RevokeFamily(s)

Next ==
  \/ \E s \in Slots :
       \/ Login(s) \/ Serve(s) \/ Leave(s) \/ Fail(s)
       \/ \E t \in Tokens : Refresh(s, t) \/ Logout(s, t)
  \/ \E t \in Tokens : Expire(t)

Spec == Init /\ [][Next]_vars

----------------------------------------------------------------------------
(* Properties. *)

(* Tokens, families and requests in flight have their shape; a request     *)
(* that rotates holds a token of the family it is about.                   *)
TypeOK ==
  /\ family \in [Tokens -> Families \cup {None}]
  /\ revoked \subseteq Issued /\ expired \subseteq Issued
  /\ ended \subseteq Families
  /\ pc \in [Slots -> {"idle", "rotate", "issue", "revokeFamily", "answered"}]
  /\ job \in [Slots -> [family : Families \cup {None}, token : Tokens \cup {None}]]
  /\ \A s \in Slots :
       /\ pc[s] = "rotate" => /\ job[s].token \in Issued
                              /\ job[s].family = family[job[s].token]
       /\ pc[s] = "revokeFamily" => job[s].family \in Families
  /\ served \in Nat

(* "The server rotates both tokens, invalidating the old refresh token":   *)
(* a session has at most one refresh token that is not revoked.            *)
OneLive == \A f \in Families : \A t, u \in Live(f) : t = u

(* A family that a logout or a reuse has ended stays ended.                *)
EndedStaysEnded == \A f \in ended : Live(f) = {}

(* Why both hold as long as requests about a family do not overlap: the    *)
(* token being rotated is the live one of its family, and none is live     *)
(* while the next one is about to be issued.                               *)
RotationSound ==
  \A s \in Slots :
    /\ pc[s] = "rotate" => job[s].token \notin revoked /\ job[s].family \notin ended
    /\ pc[s] = "issue" /\ job[s].family # None =>
         Live(job[s].family) = {} /\ job[s].family \notin ended
    /\ \A q \in Slots \ {s} : About(s) = About(q) => About(s) = None

(* As long as requests about a family do not overlap, the families are the *)
(* sessions of SessionPromise.                                             *)
Stage(f) == IF f \in ended THEN "over" ELSE IF TokensOf(f) = {} THEN "new" ELSE "open"

Promise == INSTANCE SessionPromise WITH
  state <- [f \in Families |-> Stage(f)],
  holds <- [f \in Families |-> Live(f)],
  spent <- Issued

KeepsPromise == Promise!Spec
=============================================================================
