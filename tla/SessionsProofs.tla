--------------------------- MODULE SessionsProofs ---------------------------
(* What Sessions guarantees for every number of tokens and requests, and   *)
(* SessionClient for every number of tabs and calls.                       *)
EXTENDS SessionClient, TLAPS

LEMMA InitType == Init => TypeOK
BY DEF Init, TypeOK, Issued

LEMMA NextType == TypeOK /\ [Next]_vars => TypeOK'
<1> SUFFICES ASSUME TypeOK, [Next]_vars PROVE TypeOK'
  OBVIOUS
<1> USE SessionsAssumption DEF TypeOK
<1>1. ASSUME NEW s \in Slots, Login(s) PROVE TypeOK'
  BY <1>1 DEF Login, Begin, rows, Issued
<1>2. ASSUME NEW s \in Slots, NEW t \in Tokens, Refresh(s, t) PROVE TypeOK'
  BY <1>2 DEF Refresh, Begin, rows, Issued
<1>3. ASSUME NEW s \in Slots, NEW t \in Tokens, Logout(s, t) PROVE TypeOK'
  BY <1>3 DEF Logout, Begin, rows, Issued
<1>4. ASSUME NEW s \in Slots, Rotate(s) PROVE TypeOK'
  BY <1>4 DEF Rotate, Continue, Issued
<1>5. ASSUME NEW s \in Slots, Issue(s) PROVE TypeOK'
  <2>1. PICK t \in Tokens \ Issued, f \in Families :
          /\ family' = [family EXCEPT ![t] = f]
          /\ Answer(s, t)
    BY <1>5 DEF Issue
  <2>2. UNCHANGED <<revoked, expired, ended>>
    BY <1>5 DEF Issue
  <2>3. \A u \in Issued : family'[u] = family[u] /\ u \in Issued'
    BY <2>1 DEF Issued
  <2>4. /\ family' \in [Tokens -> Families \cup {None}]
        /\ revoked' \subseteq Issued' /\ expired' \subseteq Issued'
    BY <2>1, <2>2, <2>3
  <2>5. /\ pc' \in [Slots -> {"idle", "rotate", "issue", "revokeFamily", "answered"}]
        /\ job' \in [Slots -> [family : Families \cup {None}, token : Tokens \cup {None}]]
        /\ served' \in Nat
    BY <2>1 DEF Answer, Continue
  <2>6. \A q \in Slots :
          /\ pc'[q] = "rotate" => /\ job'[q].token \in Issued
                                  /\ job'[q].family = family[job'[q].token]
          /\ pc'[q] = "revokeFamily" => job'[q].family \in Families
    BY <2>1 DEF Answer, Continue
  <2> QED
    BY <2>2, <2>3, <2>4, <2>5, <2>6
<1>6. ASSUME NEW s \in Slots, RevokeFamily(s) PROVE TypeOK'
  BY <1>6 DEF RevokeFamily, TokensOf, Answer, Continue, Issued
<1>7. ASSUME NEW s \in Slots, Leave(s) PROVE TypeOK'
  BY <1>7 DEF Leave, Continue, rows, Issued
<1>8. ASSUME NEW s \in Slots, Fail(s) PROVE TypeOK'
  BY <1>8 DEF Fail, Answer, Continue, rows, Issued
<1>9. ASSUME NEW t \in Tokens, Expire(t) PROVE TypeOK'
  BY <1>9 DEF Expire, Issued, slots
<1>10. CASE UNCHANGED vars
  BY <1>10 DEF vars, rows, slots, Issued
<1> QED
  BY <1>1, <1>2, <1>3, <1>4, <1>5, <1>6, <1>7, <1>8, <1>9, <1>10 DEF Next, Serve

(* Every reachable state has the shape the handlers rely on.               *)
THEOREM TypeCorrect == Spec => []TypeOK
BY InitType, NextType, PTL DEF Spec

----------------------------------------------------------------------------
(* One live token, and none in a family that was ended.                    *)

\* The inductive invariant.
FamiliesDrawn ==
  /\ \A f \in ended : TokensOf(f) # {}
  /\ \A s \in Slots : About(s) # None => TokensOf(About(s)) # {}

SessionInv == TypeOK /\ OneLive /\ EndedStaysEnded /\ RotationSound /\ FamiliesDrawn

(* Who is about what after a step of slot s.                               *)
LEMMA AboutBegin ==
  ASSUME TypeOK, NEW s \in Slots, NEW stage, NEW f, NEW t, Begin(s, stage, f, t)
  PROVE  /\ \A q \in Slots \ {s} : /\ Subject(pc'[q], job'[q]) = Subject(pc[q], job[q])
                                   /\ pc'[q] = pc[q] /\ job'[q] = job[q]
         /\ pc'[s] = stage /\ job'[s] = [family |-> f, token |-> t]
         /\ Subject(pc'[s], job'[s]) =
              IF stage \in {"rotate", "issue", "revokeFamily"} THEN f ELSE None
BY DEF TypeOK, Begin, Subject

LEMMA AboutContinue ==
  ASSUME TypeOK, NEW s \in Slots, NEW stage, NEW f, NEW t, Continue(s, stage, f, t)
  PROVE  /\ \A q \in Slots \ {s} : /\ Subject(pc'[q], job'[q]) = Subject(pc[q], job[q])
                                   /\ pc'[q] = pc[q] /\ job'[q] = job[q]
         /\ pc'[s] = stage /\ job'[s] = [family |-> f, token |-> t]
         /\ Subject(pc'[s], job'[s]) =
              IF stage \in {"rotate", "issue", "revokeFamily"} THEN f ELSE None
BY DEF TypeOK, Continue, Subject

(* A step that leaves the rows alone and starts or ends a request.         *)
LEMMA RowsStay ==
  ASSUME SessionInv, TypeOK', NEW s \in Slots, UNCHANGED <<family, revoked, ended>>,
         NEW stage, NEW f, NEW t,
         Begin(s, stage, f, t) \/ Continue(s, stage, f, t),
         stage = "rotate" => t \notin revoked /\ f \notin ended,
         stage = "issue" => f = None,
         stage \in {"rotate", "issue", "revokeFamily"} /\ f # None =>
            TokensOf(f) # {} /\ \A q \in Slots \ {s} : About(q) # f
  PROVE  SessionInv'
<1> USE DEF SessionInv, About
<1>0. /\ \A q \in Slots \ {s} : /\ Subject(pc'[q], job'[q]) = Subject(pc[q], job[q])
                                /\ pc'[q] = pc[q] /\ job'[q] = job[q]
      /\ pc'[s] = stage /\ job'[s] = [family |-> f, token |-> t]
      /\ Subject(pc'[s], job'[s]) =
           IF stage \in {"rotate", "issue", "revokeFamily"} THEN f ELSE None
  BY AboutBegin, AboutContinue
<1>1. \A g : Live(g)' = Live(g) /\ TokensOf(g)' = TokensOf(g)
  BY DEF Live, TokensOf
<1>2. OneLive' /\ EndedStaysEnded'
  BY <1>1 DEF OneLive, EndedStaysEnded
<1>3. RotationSound'
  <2> SUFFICES ASSUME NEW q \in Slots
               PROVE  /\ pc'[q] = "rotate" => job'[q].token \notin revoked /\ job'[q].family \notin ended
                      /\ pc'[q] = "issue" /\ job'[q].family # None =>
                           (\A u \in Tokens : family[u] = job'[q].family => u \in revoked)
                           /\ job'[q].family \notin ended
                      /\ \A r \in Slots \ {q} : Subject(pc'[q], job'[q]) = Subject(pc'[r], job'[r]) => Subject(pc'[q], job'[q]) = None
    BY DEF RotationSound, Live, TokensOf
  <2>1. CASE q # s
    <3>1. \A r \in Slots \ {q} : Subject(pc'[q], job'[q]) = Subject(pc'[r], job'[r]) => Subject(pc'[q], job'[q]) = None
      BY <2>1, <1>0 DEF RotationSound
    <3> QED
      BY <2>1, <3>1, <1>0 DEF RotationSound, Live, TokensOf
  <2>2. CASE q = s
    BY <2>2, <1>0
  <2> QED
    BY <2>1, <2>2
<1>4. FamiliesDrawn'
  BY <1>1, <1>0 DEF FamiliesDrawn
<1> QED
  BY <1>2, <1>3, <1>4

LEMMA RotateStep ==
  ASSUME SessionInv, TypeOK', NEW s \in Slots, Rotate(s)
  PROVE  SessionInv'
<1> USE DEF SessionInv, About
<1>0. PICK t, f : t = job[s].token /\ f = job[s].family
  OBVIOUS
<1>1. /\ pc[s] = "rotate" /\ t \in Issued /\ family[t] = f /\ t \notin revoked /\ f \notin ended
      /\ f # None /\ About(s) = f
  BY <1>0 DEF Rotate, TypeOK, RotationSound, Issued, Subject
<1>2. /\ revoked' = revoked \cup {t} /\ UNCHANGED <<family, ended>>
      /\ Continue(s, "issue", f, None)
  BY <1>0 DEF Rotate
<1>3. \A g : TokensOf(g)' = TokensOf(g) /\ Live(g)' = Live(g) \ {t}
  BY <1>2 DEF Live, TokensOf
<1>4. f \in Families /\ Live(f) = {t}
  BY <1>1 DEF OneLive, Live, TokensOf, TypeOK, Issued
<1>5. /\ \A q \in Slots \ {s} : Subject(pc'[q], job'[q]) = About(q) /\ pc'[q] = pc[q] /\ job'[q] = job[q]
      /\ pc'[s] = "issue" /\ job'[s].family = f /\ Subject(pc'[s], job'[s]) = f
  <2>1. /\ \A q \in Slots \ {s} : /\ Subject(pc'[q], job'[q]) = Subject(pc[q], job[q])
                                  /\ pc'[q] = pc[q] /\ job'[q] = job[q]
        /\ pc'[s] = "issue" /\ job'[s] = [family |-> f, token |-> None]
    BY <1>2, AboutContinue
  <2> QED
    BY <2>1 DEF Subject
<1>6. \A q \in Slots \ {s} : pc[q] = "rotate" => job[q].token # t
  BY <1>1 DEF RotationSound, TypeOK, Subject
<1>7. OneLive' /\ EndedStaysEnded'
  BY <1>2, <1>3 DEF OneLive, EndedStaysEnded
<1>8. RotationSound'
  <2> SUFFICES ASSUME NEW q \in Slots
               PROVE  /\ pc'[q] = "rotate" => job'[q].token \notin revoked' /\ job'[q].family \notin ended
                      /\ pc'[q] = "issue" /\ job'[q].family # None =>
                           (\A u \in Tokens : family[u] = job'[q].family => u \in revoked')
                           /\ job'[q].family \notin ended
                      /\ \A r \in Slots \ {q} : Subject(pc'[q], job'[q]) = Subject(pc'[r], job'[r]) => Subject(pc'[q], job'[q]) = None
    BY <1>2 DEF RotationSound, Live, TokensOf
  <2>1. \A r \in Slots \ {q} : Subject(pc'[q], job'[q]) = Subject(pc'[r], job'[r]) => Subject(pc'[q], job'[q]) = None
    BY <1>1, <1>5 DEF RotationSound
  <2>2. CASE q # s
    BY <1>2, <1>5, <1>6, <2>1, <2>2 DEF RotationSound, Live, TokensOf
  <2>3. CASE q = s
    <3>1. \A u \in Tokens : family[u] = f => u \in revoked'
      BY <1>2, <1>4 DEF Live, TokensOf
    <3> QED
      BY <1>1, <1>2, <1>5, <2>1, <2>3, <3>1
  <2> QED
    BY <2>2, <2>3
<1>9. FamiliesDrawn'
  BY <1>1, <1>2, <1>3, <1>5 DEF FamiliesDrawn
<1> QED
  BY <1>7, <1>8, <1>9

LEMMA RevokeStep ==
  ASSUME SessionInv, TypeOK', NEW s \in Slots, RevokeFamily(s)
  PROVE  SessionInv'
<1> USE DEF SessionInv, About
<1>0. PICK f : f = job[s].family
  OBVIOUS
<1>1. pc[s] = "revokeFamily" /\ f \in Families /\ About(s) = f /\ f # None
  BY <1>0, SessionsAssumption DEF RevokeFamily, TypeOK, Subject
<1>2. /\ revoked' = revoked \cup TokensOf(f) /\ ended' = ended \cup {f} /\ UNCHANGED family
      /\ Continue(s, "answered", None, None)
  BY <1>0 DEF RevokeFamily, Answer
<1>3. /\ \A g : TokensOf(g)' = TokensOf(g) /\ Live(g)' \subseteq Live(g)
      /\ Live(f)' = {}
  BY <1>2 DEF Live, TokensOf
<1>4. /\ \A q \in Slots \ {s} : Subject(pc'[q], job'[q]) = About(q) /\ pc'[q] = pc[q] /\ job'[q] = job[q]
      /\ pc'[s] = "answered" /\ Subject(pc'[s], job'[s]) = None
  BY <1>2, AboutContinue
<1>5. \A q \in Slots \ {s} : About(q) # f
  BY <1>1 DEF RotationSound
<1>6. OneLive' /\ EndedStaysEnded'
  BY <1>2, <1>3 DEF OneLive, EndedStaysEnded
<1>7. RotationSound'
  <2> SUFFICES ASSUME NEW q \in Slots
               PROVE  /\ pc'[q] = "rotate" => job'[q].token \notin revoked' /\ job'[q].family \notin ended'
                      /\ pc'[q] = "issue" /\ job'[q].family # None =>
                           (\A u \in Tokens : family[u] = job'[q].family => u \in revoked')
                           /\ job'[q].family \notin ended'
                      /\ \A r \in Slots \ {q} : Subject(pc'[q], job'[q]) = Subject(pc'[r], job'[r]) => Subject(pc'[q], job'[q]) = None
    BY <1>2 DEF RotationSound, Live, TokensOf
  <2>1. \A r \in Slots \ {q} : Subject(pc'[q], job'[q]) = Subject(pc'[r], job'[r]) => Subject(pc'[q], job'[q]) = None
    BY <1>4 DEF RotationSound
  <2>2. CASE q # s
    <3>1. pc[q] = "rotate" => job[q].token \notin TokensOf(f) /\ job[q].family # f
      BY <1>5, <2>2 DEF TypeOK, TokensOf, Subject
    <3>2. pc[q] = "issue" => job[q].family # f
      BY <1>5, <2>2 DEF Subject
    <3> QED
      BY <1>2, <1>4, <2>1, <2>2, <3>1, <3>2 DEF RotationSound, Live, TokensOf
  <2>3. CASE q = s
    BY <1>4, <2>1, <2>3
  <2> QED
    BY <2>2, <2>3
<1>8. FamiliesDrawn'
  BY <1>1, <1>2, <1>3, <1>4 DEF FamiliesDrawn
<1> QED
  BY <1>6, <1>7, <1>8

LEMMA IssueStep ==
  ASSUME SessionInv, TypeOK', NEW s \in Slots, Issue(s)
  PROVE  SessionInv'
<1> USE DEF SessionInv, About
<1>1. PICK t \in Tokens \ Issued, f \in Families :
        /\ IF job[s].family = None THEN f \notin Drawn ELSE f = job[s].family
        /\ family' = [family EXCEPT ![t] = f]
        /\ Continue(s, "answered", None, t)
  BY DEF Issue, Answer
<1>2. pc[s] = "issue" /\ UNCHANGED <<revoked, ended>>
  BY DEF Issue
<1>3. /\ \A u \in Tokens : family'[u] = IF u = t THEN f ELSE family[u]
      /\ family[t] = None /\ f # None
  BY <1>1, <1>2, SessionsAssumption DEF TypeOK, Issued, Live, TokensOf
<1>4. Live(f) = {} /\ f \notin ended
  <2>1. CASE job[s].family = None
    <3>1. TokensOf(f) = {}
      BY <1>1, <1>3, <2>1 DEF Drawn, TokensOf, Issued
    <3> QED
      BY <3>1 DEF Live, FamiliesDrawn
  <2>2. CASE job[s].family # None
    BY <1>1, <1>2, <2>2 DEF RotationSound
  <2> QED
    BY <2>1, <2>2
<1>5. /\ \A q \in Slots \ {s} : Subject(pc'[q], job'[q]) = About(q) /\ pc'[q] = pc[q] /\ job'[q] = job[q]
      /\ pc'[s] = "answered" /\ Subject(pc'[s], job'[s]) = None
  BY <1>1, AboutContinue
<1>6. \A q \in Slots \ {s} : About(q) # f
  <2> TAKE q \in Slots \ {s}
  <2>1. CASE job[s].family = None
    <3>1. TokensOf(f) = {}
      BY <1>1, <1>3, <2>1 DEF Drawn, TokensOf, Issued
    <3> QED
      BY <1>3, <3>1 DEF FamiliesDrawn
  <2>2. CASE job[s].family # None
    BY <1>1, <1>2, <2>2 DEF RotationSound, Subject
  <2> QED
    BY <2>1, <2>2
<1>7. OneLive'
  <2> SUFFICES ASSUME NEW g \in Families, NEW u \in Tokens, NEW v \in Tokens,
                      family'[u] = g, family'[v] = g, u \notin revoked, v \notin revoked
               PROVE  u = v
    BY <1>2 DEF OneLive, Live, TokensOf
  <2>1. CASE g = f
    BY <1>3, <1>4, <2>1 DEF Live, TokensOf
  <2>2. CASE g # f
    BY <1>3, <2>2 DEF OneLive, Live, TokensOf
  <2> QED
    BY <2>1, <2>2
<1>8. EndedStaysEnded'
  BY <1>2, <1>3, <1>4 DEF EndedStaysEnded, Live, TokensOf, TypeOK
<1>9. RotationSound'
  <2> SUFFICES ASSUME NEW q \in Slots
               PROVE  /\ pc'[q] = "rotate" => job'[q].token \notin revoked /\ job'[q].family \notin ended
                      /\ pc'[q] = "issue" /\ job'[q].family # None =>
                           (\A u \in Tokens : family'[u] = job'[q].family => u \in revoked)
                           /\ job'[q].family \notin ended
                      /\ \A r \in Slots \ {q} : Subject(pc'[q], job'[q]) = Subject(pc'[r], job'[r]) => Subject(pc'[q], job'[q]) = None
    BY <1>2 DEF RotationSound, Live, TokensOf
  <2>1. \A r \in Slots \ {q} : Subject(pc'[q], job'[q]) = Subject(pc'[r], job'[r]) => Subject(pc'[q], job'[q]) = None
    BY <1>5 DEF RotationSound
  <2>2. CASE q # s
    <3>1. pc[q] = "issue" => job[q].family # f
      BY <1>6, <2>2 DEF Subject
    <3> QED
      BY <1>3, <1>5, <2>1, <2>2, <3>1 DEF RotationSound, Live, TokensOf
  <2>3. CASE q = s
    BY <1>5, <2>1, <2>3
  <2> QED
    BY <2>2, <2>3
<1>10. FamiliesDrawn'
  <2>1. \A g : g # None /\ TokensOf(g) # {} => \E u \in Tokens : family'[u] = g
    BY <1>3 DEF TokensOf
  <2>2. \A g \in ended : g # None
    BY SessionsAssumption DEF TypeOK
  <2> QED
    BY <1>2, <1>5, <2>1, <2>2 DEF FamiliesDrawn, TokensOf
<1> QED
  BY <1>7, <1>8, <1>9, <1>10

(* A request begins alone, because the guard says so.                      *)
LEMMA BeginsAlone ==
  ASSUME TypeOK, Overlap = FALSE, NEW s \in Slots,
         NEW stage, NEW f, f # None, NEW t, Begin(s, stage, f, t)
  PROVE  \A q \in Slots \ {s} : About(q) # f
BY DEF Begin, Alone

LEMMA SessionNext ==
  Overlap = FALSE /\ SessionInv /\ TypeOK' /\ [Next]_vars => SessionInv'
<1> SUFFICES ASSUME Overlap = FALSE, SessionInv, TypeOK', [Next]_vars
             PROVE  SessionInv'
  OBVIOUS
<1>1. ASSUME NEW s \in Slots, Login(s) PROVE SessionInv'
  <2>1. UNCHANGED <<family, revoked, ended>> /\ Begin(s, "issue", None, None)
    BY <1>1 DEF Login, rows
  <2> QED
    BY <2>1, RowsStay
<1>2. ASSUME NEW s \in Slots, NEW t \in Tokens, Refresh(s, t) PROVE SessionInv'
  <2>1. PICK f \in Families : f = family[t] /\ f # None /\ t \in TokensOf(f)
    BY <1>2, SessionsAssumption DEF Refresh, Issued, SessionInv, TypeOK, TokensOf
  <2>2. UNCHANGED <<family, revoked, ended>>
    BY <1>2 DEF Refresh, rows
  <2>3. CASE t \in revoked
    <3>1. Begin(s, "revokeFamily", f, t)
      BY <1>2, <2>1, <2>3 DEF Refresh
    <3>2. \A q \in Slots \ {s} : About(q) # f
      BY <2>1, <3>1, BeginsAlone, SessionsAssumption DEF SessionInv
    <3> QED
      BY <2>1, <2>2, <3>1, <3>2, RowsStay
  <2>4. CASE t \notin revoked /\ t \in expired
    <3>1. Begin(s, "answered", f, None)
      BY <1>2, <2>1, <2>4 DEF Refresh
    <3> QED
      BY <2>2, <3>1, RowsStay
  <2>5. CASE t \notin revoked /\ t \notin expired
    <3>1. Begin(s, "rotate", f, t)
      BY <1>2, <2>1, <2>5 DEF Refresh
    <3>2. f \notin ended
      BY <2>1, <2>5 DEF SessionInv, EndedStaysEnded, Live
    <3>3. \A q \in Slots \ {s} : About(q) # f
      BY <2>1, <3>1, BeginsAlone, SessionsAssumption DEF SessionInv
    <3> QED
      BY <2>1, <2>2, <2>5, <3>1, <3>2, <3>3, RowsStay
  <2> QED
    BY <2>3, <2>4, <2>5
<1>3. ASSUME NEW s \in Slots, NEW t \in Tokens, Logout(s, t) PROVE SessionInv'
  <2>1. PICK f \in Families : f = family[t] /\ f # None /\ t \in TokensOf(f)
    BY <1>3, SessionsAssumption DEF Logout, Issued, SessionInv, TypeOK, TokensOf
  <2>2. UNCHANGED <<family, revoked, ended>> /\ Begin(s, "revokeFamily", f, t)
    BY <1>3, <2>1 DEF Logout, rows
  <2>3. \A q \in Slots \ {s} : About(q) # f
    BY <2>1, <2>2, BeginsAlone, SessionsAssumption DEF SessionInv
  <2> QED
    BY <2>1, <2>2, <2>3, RowsStay
<1>4. ASSUME NEW s \in Slots, Leave(s) PROVE SessionInv'
  <2>1. UNCHANGED <<family, revoked, ended>> /\ Continue(s, "idle", None, None)
    BY <1>4 DEF Leave, rows
  <2> QED
    BY <2>1, RowsStay
<1>5. ASSUME NEW s \in Slots, Fail(s) PROVE SessionInv'
  <2>1. UNCHANGED <<family, revoked, ended>> /\ Continue(s, "answered", None, None)
    BY <1>5 DEF Fail, rows, Answer
  <2> QED
    BY <2>1, RowsStay
<1>6. ASSUME NEW s \in Slots, Serve(s) PROVE SessionInv'
  BY <1>6, RotateStep, IssueStep, RevokeStep DEF Serve
<1>7. ASSUME NEW t \in Tokens, Expire(t) PROVE SessionInv'
  BY <1>7 DEF Expire, slots, SessionInv, OneLive, EndedStaysEnded, RotationSound,
              FamiliesDrawn, Live, TokensOf, About
<1>8. CASE UNCHANGED vars
  BY <1>8 DEF vars, rows, slots, SessionInv, OneLive, EndedStaysEnded, RotationSound,
              FamiliesDrawn, Live, TokensOf, About
<1> QED
  BY <1>1, <1>2, <1>3, <1>4, <1>5, <1>6, <1>7, <1>8 DEF Next

LEMMA SessionInit == Init => SessionInv
<1> SUFFICES ASSUME Init PROVE SessionInv
  OBVIOUS
<1>1. \A f \in Families : Live(f) = {}
  BY SessionsAssumption DEF Init, Live, TokensOf
<1>2. \A s \in Slots : pc[s] = "idle" /\ About(s) = None
  BY DEF Init, About, Subject
<1> QED
  BY InitType, <1>1, <1>2 DEF Init, SessionInv, OneLive, EndedStaysEnded, RotationSound, FamiliesDrawn

LEMMA SessionAlways == ASSUME Overlap = FALSE PROVE Spec => []SessionInv
<1>1. SessionInv /\ [Next]_vars => SessionInv'
  BY NextType, SessionNext DEF SessionInv
<1> QED
  BY <1>1, SessionInit, PTL DEF Spec

(* As long as requests about one session are sent one at a time, a session *)
(* never has two refresh tokens that can both be used.                     *)
THEOREM OneLiveAlways == ASSUME Overlap = FALSE PROVE Spec => []OneLive
<1>1. SessionInv => OneLive
  BY DEF SessionInv
<1> QED
  BY <1>1, SessionAlways, PTL

(* Under the same condition a family that was ended has no live token      *)
(* ever again.                                                             *)
THEOREM EndedAlways == ASSUME Overlap = FALSE PROVE Spec => []EndedStaysEnded
<1>1. SessionInv => EndedStaysEnded
  BY DEF SessionInv
<1> QED
  BY <1>1, SessionAlways, PTL

----------------------------------------------------------------------------
(* Sessions implements SessionPromise.                                     *)

(* A step that leaves rows and ended families alone is no step of a session.*)
LEMMA PromiseStutters ==
  ASSUME UNCHANGED <<family, revoked, ended>>
  PROVE  UNCHANGED Promise!promise
BY DEF Promise!promise, Stage, Live, TokensOf, Issued

LEMMA RotateWithdraws ==
  ASSUME SessionInv, NEW s \in Slots, Rotate(s)
  PROVE  \E f \in Families : Promise!Withdraw(f)
<1>1. PICK f, t : f = job[s].family /\ t = job[s].token
  OBVIOUS
<1>2. /\ f \in Families /\ t \in Live(f) /\ f \notin ended
      /\ revoked' = revoked \cup {t} /\ UNCHANGED <<family, ended>>
  BY <1>1, SessionsAssumption
  DEF SessionInv, TypeOK, RotationSound, Rotate, Issued, Live, TokensOf
<1>3. /\ \A g : TokensOf(g)' = TokensOf(g) /\ Stage(g)' = Stage(g)
      /\ Issued' = Issued
  BY <1>2 DEF TokensOf, Stage, Issued
<1>4. \A g \in Families : Live(g)' = IF g = f THEN {} ELSE Live(g)
  <2> TAKE g \in Families
  <2>1. CASE g = f
    BY <1>2, <2>1 DEF SessionInv, OneLive, Live, TokensOf
  <2>2. CASE g # f
    BY <1>2, <2>2 DEF Live, TokensOf
  <2> QED
    BY <2>1, <2>2
<1>5. Stage(f) = "open" /\ Live(f) # {}
  BY <1>2 DEF Stage, Live
<1> QED
  BY <1>2, <1>3, <1>4, <1>5 DEF Promise!Withdraw

LEMMA IssueGives ==
  ASSUME SessionInv, NEW s \in Slots, Issue(s)
  PROVE  \E f \in Families, t \in Tokens : Promise!Open(f, t) \/ Promise!Renew(f, t)
<1>1. PICK t \in Tokens \ Issued, f \in Families :
        /\ IF job[s].family = None THEN f \notin Drawn ELSE f = job[s].family
        /\ family' = [family EXCEPT ![t] = f]
  BY DEF Issue
<1>2. /\ pc[s] = "issue" /\ UNCHANGED <<revoked, ended>>
      /\ \A u \in Tokens : family'[u] = IF u = t THEN f ELSE family[u]
      /\ family[t] = None /\ f # None /\ t \notin revoked
  BY <1>1, SessionsAssumption DEF Issue, SessionInv, TypeOK, Issued
<1>3. /\ \A g \in Families : TokensOf(g)' = IF g = f THEN TokensOf(g) \cup {t} ELSE TokensOf(g)
      /\ Issued' = Issued \cup {t}
  BY <1>2, SessionsAssumption DEF TokensOf, Issued
<1>4. Live(f) = {} /\ f \notin ended
  <2>1. CASE job[s].family = None
    <3>1. TokensOf(f) = {}
      BY <1>1, <1>2, <2>1 DEF Drawn, TokensOf, Issued
    <3> QED
      BY <3>1 DEF SessionInv, Live, FamiliesDrawn
  <2>2. CASE job[s].family # None
    BY <1>1, <1>2, <2>2 DEF SessionInv, RotationSound
  <2> QED
    BY <2>1, <2>2
<1>5. \A g \in Families : Live(g)' = IF g = f THEN {t} ELSE Live(g)
  BY <1>2, <1>3, <1>4 DEF Live
<1>6. \A g \in Families : Stage(g)' = IF g = f THEN "open" ELSE Stage(g)
  BY <1>2, <1>3, <1>4 DEF Stage
<1>7. Promise!Give(f, t)
  BY <1>1, <1>3, <1>4, <1>5 DEF Promise!Give
<1>8. CASE TokensOf(f) = {}
  <2>1. Stage(f) = "new"
    BY <1>4, <1>8 DEF Stage
  <2> QED
    BY <1>6, <1>7, <2>1 DEF Promise!Open
<1>9. CASE TokensOf(f) # {}
  <2>1. Stage(f) = "open"
    BY <1>4, <1>9 DEF Stage
  <2>2. \A g \in Families : Stage(g)' = Stage(g)
    BY <1>6, <2>1
  <2> QED
    BY <1>7, <2>1, <2>2 DEF Promise!Renew
<1> QED
  BY <1>8, <1>9

LEMMA RevokeEnds ==
  ASSUME SessionInv, NEW s \in Slots, RevokeFamily(s)
  PROVE  (\E f \in Families : Promise!End(f)) \/ UNCHANGED Promise!promise
<1>1. PICK f : f = job[s].family
  OBVIOUS
<1>2. /\ f \in Families /\ TokensOf(f) # {}
      /\ revoked' = revoked \cup TokensOf(f) /\ ended' = ended \cup {f} /\ UNCHANGED family
  BY <1>1, SessionsAssumption DEF RevokeFamily, SessionInv, TypeOK, FamiliesDrawn, About, Subject
<1>3. /\ \A g : TokensOf(g)' = TokensOf(g)
      /\ Issued' = Issued
  BY <1>2 DEF TokensOf, Issued
<1>4. \A g \in Families : Live(g)' = IF g = f THEN {} ELSE Live(g)
  BY <1>2 DEF Live, TokensOf
<1>5. \A g \in Families : Stage(g)' = IF g = f THEN "over" ELSE Stage(g)
  BY <1>2, <1>3 DEF Stage
<1>6. CASE f \in ended
  <2>1. Live(f) = {} /\ Stage(f) = "over"
    BY <1>6 DEF SessionInv, EndedStaysEnded, Stage
  <2> QED
    BY <1>3, <1>4, <1>5, <2>1 DEF Promise!promise
<1>7. CASE f \notin ended
  <2>1. Stage(f) = "open"
    BY <1>2, <1>7 DEF Stage
  <2> QED
    BY <1>2, <1>3, <1>4, <1>5, <2>1 DEF Promise!End
<1> QED
  BY <1>6, <1>7

LEMMA PromiseNext == SessionInv /\ [Next]_vars => [Promise!Next]_(Promise!promise)
<1> SUFFICES ASSUME SessionInv, [Next]_vars PROVE [Promise!Next]_(Promise!promise)
  OBVIOUS
<1>1. ASSUME NEW s \in Slots, Serve(s) PROVE [Promise!Next]_(Promise!promise)
  BY <1>1, RotateWithdraws, IssueGives, RevokeEnds DEF Serve, Promise!Next
<1>2. ASSUME NEW s \in Slots, Login(s) \/ Leave(s) \/ Fail(s) PROVE UNCHANGED <<family, revoked, ended>>
  BY <1>2 DEF Login, Leave, Fail, rows
<1>3. ASSUME NEW s \in Slots, NEW t \in Tokens, Refresh(s, t) \/ Logout(s, t)
      PROVE  UNCHANGED <<family, revoked, ended>>
  BY <1>3 DEF Refresh, Logout, rows
<1>4. ASSUME NEW t \in Tokens, Expire(t) PROVE UNCHANGED <<family, revoked, ended>>
  BY <1>4 DEF Expire
<1>5. CASE UNCHANGED vars
  BY <1>5, PromiseStutters DEF vars, rows
<1> QED
  BY <1>1, <1>2, <1>3, <1>4, <1>5, PromiseStutters DEF Next

(* As long as requests about one session are sent one at a time, the       *)
(* handlers of auth.service.ts keep the promise of SessionPromise.         *)
THEOREM PromiseKept == ASSUME Overlap = FALSE PROVE Spec => KeepsPromise
<1>1. Init => Promise!Init
  BY SessionsAssumption DEF Init, Promise!Init, Stage, Live, TokensOf, Issued
<1> QED
  BY <1>1, PromiseNext, SessionAlways, PTL DEF Spec, KeepsPromise, Promise!Spec

----------------------------------------------------------------------------
(* The calls of the browser. *)

CallStages == {"idle", "sent", "stale", "waiting", "done", "failed"}

\* The inductive invariant: NoOrphans needs only the types beside it.
WaitInv ==
  /\ call \in [Calls -> CallStages]
  /\ leader \in [Tabs -> Calls \cup {None}]
  /\ NoOrphans

(* A step that changes no leader and neither starts nor ends a wait.       *)
LEMMA WaitsStay ==
  ASSUME WaitInv, call' \in [Calls -> CallStages], leader' = leader,
         \A c \in Calls : call'[c] = "waiting" <=> call[c] = "waiting"
  PROVE  WaitInv'
<1>1. \A b \in Tabs : Waiting(b)' = Waiting(b)
  BY DEF Waiting
<1> QED
  BY <1>1 DEF WaitInv, NoOrphans

LEMMA CallSteps ==
  ASSUME WaitInv, NEW c \in Calls,
         Send(c) \/ Succeed(c) \/ LoseCall(c) \/ GiveUp(c) \/ NoToken(c)
  PROVE  WaitInv'
<1>1. PICK stage \in CallStages \ {"waiting"} :
        call' = [call EXCEPT ![c] = stage] /\ call[c] # "waiting" /\ leader' = leader
  <2> USE DEF refreshing
  <2>1. CASE Send(c)
    <3>1. Sending \in CallStages \ {"waiting"}
      BY DEF Sending, CallStages
    <3> QED
      BY <2>1, <3>1 DEF Send
  <2>2. CASE Succeed(c)
    BY <2>2 DEF Succeed, CallStages
  <2>3. CASE LoseCall(c) \/ GiveUp(c)
    BY <2>3 DEF LoseCall, GiveUp, Fails, CallStages
  <2>4. CASE NoToken(c)
    BY <2>4 DEF NoToken, CallStages
  <2> QED
    BY <2>1, <2>2, <2>3, <2>4
<1>2. /\ call' \in [Calls -> CallStages]
      /\ \A d \in Calls : call'[d] = "waiting" <=> call[d] = "waiting"
  BY <1>1 DEF WaitInv
<1> QED
  BY <1>1, <1>2, WaitsStay

LEMMA WaitStep ==
  ASSUME WaitInv, NEW c \in Calls, Wait(c)
  PROVE  WaitInv'
<1>1. /\ call[c] = "stale" /\ leader[TabOf[c]] # None
      /\ call' = [call EXCEPT ![c] = "waiting"] /\ leader' = leader
  BY DEF Wait, refreshing
<1>2. call' \in [Calls -> CallStages]
  BY <1>1 DEF WaitInv, CallStages
<1>3. \A b \in Tabs : Waiting(b)' = IF b = TabOf[c] THEN Waiting(b) \cup {c} ELSE Waiting(b)
  BY <1>1 DEF Waiting, WaitInv
<1> QED
  BY <1>1, <1>2, <1>3 DEF WaitInv, NoOrphans

LEMMA LeadStep ==
  ASSUME WaitInv, NEW c \in Calls, Lead(c)
  PROVE  WaitInv'
<1>1. /\ call[c] = "stale"
      /\ call' = [call EXCEPT ![c] = "waiting"] /\ leader' = [leader EXCEPT ![TabOf[c]] = c]
  BY DEF Lead
<1>2. call' \in [Calls -> CallStages] /\ leader' \in [Tabs -> Calls \cup {None}]
  BY <1>1 DEF WaitInv, CallStages
<1>3. \A b \in Tabs : Waiting(b)' = IF b = TabOf[c] THEN Waiting(b) \cup {c} ELSE Waiting(b)
  BY <1>1 DEF Waiting, WaitInv
<1>4. \A b \in Tabs : leader'[b] = IF b = TabOf[c] THEN c ELSE leader[b]
  BY <1>1 DEF WaitInv
<1>5. c # None
  BY SessionClientAssumption
<1> QED
  BY <1>2, <1>3, <1>4, <1>5 DEF WaitInv, NoOrphans

LEMMA LoadStep ==
  ASSUME WaitInv, NEW b \in Tabs, Load(b)
  PROVE  WaitInv'
<1>1. PICK stage \in CallStages \ {"waiting"} :
        call' = [c \in Calls |-> IF TabOf[c] # b THEN call[c]
                                  ELSE IF c \in Boots /\ store # None THEN stage ELSE "idle"]
  <2>1. Sending \in CallStages \ {"waiting"}
    BY DEF Sending, CallStages
  <2> QED
    BY <2>1 DEF Load
<1>2. call' \in [Calls -> CallStages]
  BY <1>1 DEF WaitInv, CallStages
<1>3. leader' = [leader EXCEPT ![b] = None] /\ leader' \in [Tabs -> Calls \cup {None}]
  BY DEF Load, WaitInv
<1>4. \A d \in Tabs : Waiting(d)' = IF d = b THEN {} ELSE Waiting(d)
  BY <1>1 DEF Waiting, CallStages
<1> QED
  BY <1>2, <1>3, <1>4 DEF WaitInv, NoOrphans

LEMMA ReleaseStep ==
  ASSUME WaitInv, NEW b \in Tabs, NEW outcome \in CallStages \ {"waiting"}, Release(b, outcome)
  PROVE  WaitInv'
<1>1. /\ call' = [c \in Calls |-> IF c \in Waiting(b) THEN outcome ELSE call[c]]
      /\ leader' = [leader EXCEPT ![b] = None]
  BY DEF Release
<1>2. call' \in [Calls -> CallStages] /\ leader' \in [Tabs -> Calls \cup {None}]
  BY <1>1 DEF WaitInv
<1>3. \A d \in Tabs : Waiting(d)' = IF d = b THEN {} ELSE Waiting(d)
  BY <1>1 DEF Waiting
<1> QED
  BY <1>1, <1>2, <1>3 DEF WaitInv, NoOrphans

LEMMA WaitNext == WaitInv /\ [ClientNext]_clientVars => WaitInv'
<1> SUFFICES ASSUME WaitInv, [ClientNext]_clientVars PROVE WaitInv'
  OBVIOUS
<1>1. CASE UNCHANGED <<call, leader>>
  BY <1>1, WaitsStay DEF WaitInv
<1>2. CASE SignIn \/ SignedIn \/ SignOut \/ SignedOut \/ SignOutCut \/ Server \/ UNCHANGED clientVars
  BY <1>1, <1>2 DEF SignIn, SignedIn, SignOut, SignedOut, SignOutCut, Server, clientVars, browser,
                    calls, refreshing
<1>3. ASSUME NEW l \in Lines, Reach(l) \/ Drop(l) PROVE WaitInv'
  BY <1>1, <1>3 DEF Reach, Drop, browser, calls, refreshing
<1>4. ASSUME NEW b \in Tabs, Receive(b) \/ LoseRefresh(b) PROVE WaitInv'
  <2>1. Release(b, "sent") \/ Release(b, "failed")
    BY <1>4 DEF Receive, LoseRefresh, Refused
  <2> QED
    BY <2>1, ReleaseStep DEF CallStages
<1>5. CASE AccessExpires
  <2>1. /\ call' = [c \in Calls |-> IF call[c] = "sent" THEN "stale" ELSE call[c]]
        /\ leader' = leader
    BY <1>5 DEF AccessExpires, refreshing
  <2>2. /\ call' \in [Calls -> CallStages]
        /\ \A c \in Calls : call'[c] = "waiting" <=> call[c] = "waiting"
    BY <2>1 DEF WaitInv, CallStages
  <2> QED
    BY <2>1, <2>2, WaitsStay
<1> QED
  BY <1>2, <1>3, <1>4, <1>5, CallSteps, WaitStep, LeadStep, LoadStep DEF ClientNext

(* For every number of tabs and calls, and whatever is lost: no call waits *)
(* in a tab that is not refreshing, and a refresh always has its leader    *)
(* among the calls that it will release.                                   *)
THEOREM NoneLeftWaiting == ClientSpec => []NoOrphans
<1>1. ClientInit => WaitInv
  BY SessionClientAssumption DEF ClientInit, WaitInv, NoOrphans, Waiting, CallStages
<1>2. WaitInv => NoOrphans
  BY DEF WaitInv
<1> QED
  BY <1>1, <1>2, WaitNext, PTL DEF ClientSpec

----------------------------------------------------------------------------
(* The browser asks the server for nothing that Sessions leaves out.       *)

\* A tab that refreshes has a line.
LinesKept ==
  /\ leader \in [Tabs -> Calls \cup {None}]
  /\ line \in [Tabs -> Lines \cup {None}]
  /\ \A b \in Tabs : leader[b] = None <=> line[b] = None

LEMMA LinesKeptNext == LinesKept /\ [ClientNext]_clientVars => LinesKept'
<1> SUFFICES ASSUME LinesKept, [ClientNext]_clientVars PROVE LinesKept'
  OBVIOUS
<1>1. CASE UNCHANGED <<leader, line>>
  BY <1>1 DEF LinesKept
<1>2. CASE SignIn \/ SignedIn \/ SignOut \/ SignedOut \/ SignOutCut \/ Server \/ AccessExpires
           \/ UNCHANGED clientVars
  BY <1>1, <1>2 DEF SignIn, SignedIn, SignOut, SignedOut, SignOutCut, Server, AccessExpires,
                    clientVars, browser, refreshing
<1>3. ASSUME NEW c \in Calls,
             Send(c) \/ Succeed(c) \/ LoseCall(c) \/ GiveUp(c) \/ Wait(c) \/ NoToken(c)
      PROVE  LinesKept'
  BY <1>1, <1>3 DEF Send, Succeed, LoseCall, GiveUp, Wait, NoToken, refreshing
<1>4. ASSUME NEW c \in Calls, Lead(c) PROVE LinesKept'
  <2>1. PICK l \in Lines : line' = [line EXCEPT ![TabOf[c]] = l] /\ leader' = [leader EXCEPT ![TabOf[c]] = c]
    BY <1>4 DEF Lead
  <2>2. c # None /\ l # None
    BY SessionClientAssumption DEF Lines
  <2> QED
    BY <2>1, <2>2 DEF LinesKept
<1>5. ASSUME NEW b \in Tabs, Load(b) \/ Receive(b) \/ LoseRefresh(b) PROVE LinesKept'
  <2>1. line' = [line EXCEPT ![b] = None] /\ leader' = [leader EXCEPT ![b] = None]
    BY <1>5 DEF Load, Receive, LoseRefresh, Refused, Release
  <2> QED
    BY <2>1 DEF LinesKept
<1>6. ASSUME NEW l \in Lines, Reach(l) \/ Drop(l) PROVE LinesKept'
  BY <1>1, <1>6 DEF Reach, Drop, browser, refreshing
<1> QED
  BY <1>2, <1>3, <1>4, <1>5, <1>6 DEF ClientNext

LEMMA LinesAlwaysKept == ClientSpec => []LinesKept
<1>1. ClientInit => LinesKept
  BY DEF ClientInit, LinesKept
<1> QED
  BY <1>1, LinesKeptNext, PTL DEF ClientSpec

LEMMA ServerTakesPart == LinesKept /\ [ClientNext]_clientVars => [Next]_vars
<1> SUFFICES ASSUME LinesKept, [ClientNext]_clientVars PROVE [Next]_vars
  OBVIOUS
<1>1. {SigningIn, SigningOut} \subseteq Slots /\ Lines \subseteq Slots
  BY SessionClientAssumption DEF Lines
<1>2. CASE SignIn \/ SignedIn \/ SignedOut \/ SignOutCut
  BY <1>1, <1>2 DEF SignIn, SignedIn, SignedOut, SignOutCut, Next
<1>3. CASE SignOut
  <2>1. store \in Tokens /\ Logout(SigningOut, store)
    BY <1>3 DEF SignOut, Logout, Issued
  <2> QED
    BY <1>1, <2>1 DEF Next
<1>4. ASSUME NEW c \in Calls,
             \/ Send(c) \/ Succeed(c) \/ LoseCall(c) \/ GiveUp(c) \/ Wait(c) \/ NoToken(c) \/ Lead(c)
      PROVE  UNCHANGED vars
  BY <1>4 DEF Send, Succeed, LoseCall, GiveUp, Wait, NoToken, Lead
<1>5. ASSUME NEW l \in Lines, Reach(l) PROVE Next
  <2>1. sent[l] \in Tokens /\ Refresh(l, sent[l])
    BY <1>5 DEF Reach, Refresh, Issued
  <2> QED
    BY <1>1, <2>1 DEF Next
<1>6. ASSUME NEW b \in Tabs, Receive(b) PROVE Next
  <2>1. line[b] \in Slots /\ Leave(line[b])
    BY <1>1, <1>6 DEF Receive, LinesKept
  <2> QED
    BY <2>1 DEF Next
<1>9. ASSUME NEW b \in Tabs, Load(b) \/ LoseRefresh(b) PROVE UNCHANGED vars
  BY <1>9 DEF Load, LoseRefresh
<1>10. ASSUME NEW l \in Lines, Drop(l) PROVE [Next]_vars
  BY <1>1, <1>10 DEF Drop, Next
<1>7. CASE AccessExpires \/ UNCHANGED clientVars
  BY <1>7 DEF AccessExpires, clientVars
<1>8. CASE Server
  BY <1>8 DEF Server, Next
<1> QED
  BY <1>2, <1>3, <1>4, <1>5, <1>6, <1>7, <1>8, <1>9, <1>10 DEF ClientNext

(* What the tabs do together, lost calls and answers included, is for the  *)
(* server a behaviour of auth.service.ts as Sessions describes it.         *)
THEOREM ClientCovered == ClientSpec => Spec
<1>1. ClientInit => Init
  BY DEF ClientInit
<1> QED
  BY <1>1, ServerTakesPart, LinesAlwaysKept, PTL DEF ClientSpec, Spec

LEMMA ClientTypes == ClientSpec => []TypeOK
BY ClientCovered, TypeCorrect, PTL

(* Which slots are in use after a step: requests of a tab, of a login and  *)
(* of a logout begin and end with the steps of the browser that say so.    *)
LEMMA ServerInUse ==
  ASSUME TypeOK, Server, NEW s \in Slots
  PROVE  pc'[s] = "idle" <=> pc[s] = "idle"
<1>1. ASSUME NEW q \in Slots, Serve(q) \/ Fail(q)
      PROVE  \E stage \in {"issue", "answered"} : \E f, t : pc[q] # "idle" /\ Continue(q, stage, f, t)
  BY <1>1 DEF Serve, Rotate, Issue, RevokeFamily, Fail, Answer
<1>2. ASSUME NEW q \in Slots, NEW stage \in {"issue", "answered"}, NEW f, NEW t,
             pc[q] # "idle", Continue(q, stage, f, t)
      PROVE  pc'[s] = "idle" <=> pc[s] = "idle"
  BY <1>2 DEF Continue, TypeOK
<1>3. ASSUME NEW t \in Tokens, Expire(t) PROVE pc' = pc
  BY <1>3 DEF Expire, slots
<1> QED
  BY <1>1, <1>2, <1>3 DEF Server

LEMMA EndsUse ==
  ASSUME TypeOK, NEW q \in Slots, Leave(q)
  PROVE  /\ pc[q] = "answered" /\ pc'[q] = "idle"
         /\ \A s \in Slots \ {q} : pc'[s] = pc[s] /\ job'[s] = job[s]
         /\ UNCHANGED <<rows, ended>>
BY DEF Leave, Continue, TypeOK

LEMMA StartsUse ==
  ASSUME TypeOK, NEW q \in Slots, NEW t, Login(q) \/ Refresh(q, t) \/ Logout(q, t)
  PROVE  /\ pc[q] = "idle" /\ pc'[q] # "idle"
         /\ \A s \in Slots \ {q} : pc'[s] = pc[s] /\ job'[s] = job[s]
         /\ UNCHANGED <<rows, ended>>
BY DEF Login, Refresh, Logout, Begin, TypeOK

----------------------------------------------------------------------------
(* Signing out while no tab refreshes. *)

\* The inductive invariant: as long as a logout is on its way nothing else is,
\* so no refresh can come back and sign the user in again.
OutAlone == pc[SigningOut] # "idle" => Busy = {}

OutInv ==
  /\ left \in BOOLEAN
  /\ OutAlone
  /\ left => store = None /\ Busy = {}

LEMMA OutsideTabs ==
  /\ SigningIn \in Slots \ Lines /\ SigningOut \in Slots \ Lines /\ SigningIn # SigningOut
  /\ Slots = Lines \cup {SigningIn, SigningOut}
  /\ None \notin Lines
BY SessionClientAssumption DEF Lines

LEMMA OutNext ==
  Calm = TRUE /\ TypeOK /\ LinesKept /\ OutInv /\ [ClientNext]_clientVars => OutInv'
<1> SUFFICES ASSUME Calm = TRUE, TypeOK, LinesKept, OutInv, [ClientNext]_clientVars PROVE OutInv'
  OBVIOUS
<1> USE OutsideTabs
<1>1. ASSUME Busy' \subseteq Busy, pc'[SigningOut] # "idle" => pc[SigningOut] # "idle",
             left' = left, store' = store \/ store' = None
      PROVE  OutInv'
  BY <1>1 DEF OutInv, OutAlone
<1>2. ASSUME UNCHANGED <<left, store, leader>>, pc'[SigningOut] # "idle" => pc[SigningOut] # "idle"
      PROVE  OutInv'
  BY <1>1, <1>2 DEF Busy
<1>3. CASE SignIn
  BY <1>2, <1>3, StartsUse DEF SignIn, browser, refreshing
<1>4. CASE SignedIn
  <2>1. pc'[SigningOut] = pc[SigningOut] /\ leader' = leader /\ Busy' = Busy
    BY <1>4, EndsUse DEF SignedIn, Busy, refreshing
  <2>2. CASE UNCHANGED <<store, left>>
    BY <1>1, <2>1, <2>2
  <2>3. CASE left' = FALSE
    BY <2>1, <2>3 DEF OutInv, OutAlone
  <2> QED
    BY <1>4, <2>2, <2>3 DEF SignedIn
<1>5. CASE SignOut
  <2>1. Busy' = Busy /\ Busy = {}
    BY <1>5 DEF SignOut, browser, refreshing, Busy
  <2> QED
    BY <1>5, <2>1 DEF SignOut, browser, OutInv, OutAlone
<1>6. CASE SignedOut
  <2>1. Busy = {} /\ Busy' = {}
    BY <1>6, EndsUse DEF SignedOut, OutInv, OutAlone, Busy, refreshing
  <2>2. left' = TRUE /\ store' = None
    BY <1>6 DEF SignedOut, Clear
  <2> QED
    BY <2>1, <2>2 DEF OutInv, OutAlone
<1>7. ASSUME NEW c \in Calls,
             Send(c) \/ Succeed(c) \/ LoseCall(c) \/ GiveUp(c) \/ Wait(c) \/ NoToken(c)
      PROVE  OutInv'
  <2>1. pc' = pc /\ leader' = leader /\ left' = left /\ (store' = store \/ store' = None)
    BY <1>7 DEF Send, Succeed, LoseCall, GiveUp, Wait, NoToken, Fails, Clear, vars, slots, refreshing
  <2>2. Busy' = Busy
    BY <2>1 DEF Busy
  <2> QED
    BY <1>1, <2>1, <2>2
<1>8. ASSUME NEW c \in Calls, Lead(c) PROVE OutInv'
  <2>1. store # None /\ pc[SigningOut] = "idle" /\ pc' = pc /\ store' = store /\ left' = left
    BY <1>8 DEF Lead, vars, slots
  <2>2. left = FALSE
    BY <2>1 DEF OutInv
  <2> QED
    BY <2>1, <2>2 DEF OutInv, OutAlone
<1>9. ASSUME NEW l \in Lines, Reach(l) PROVE OutInv'
  BY <1>2, <1>9, StartsUse DEF Reach, browser, refreshing
<1>10. ASSUME NEW l \in Lines, Drop(l) PROVE OutInv'
  BY <1>2, <1>10, EndsUse DEF Drop, vars, slots
<1>11. ASSUME NEW b \in Tabs, Load(b) PROVE OutInv'
  <2>1. leader' = [leader EXCEPT ![b] = None] /\ left' = left /\ store' = store /\ pc' = pc
    BY <1>11 DEF Load, vars, slots
  <2>2. Busy' \subseteq Busy
    BY <2>1 DEF Busy, LinesKept
  <2> QED
    BY <1>1, <2>1, <2>2
<1>12. ASSUME NEW b \in Tabs, Receive(b) \/ LoseRefresh(b) PROVE OutInv'
  <2>1. /\ leader[b] # None /\ leader' = [leader EXCEPT ![b] = None] /\ left' = left
    BY <1>12 DEF Receive, LoseRefresh, Refused, Release
  <2>2. b \in Busy /\ Busy' \subseteq Busy
    BY <2>1 DEF Busy, LinesKept
  <2>3. left = FALSE /\ pc[SigningOut] = "idle"
    BY <2>2 DEF OutInv, OutAlone
  <2>4. pc'[SigningOut] = pc[SigningOut]
    <3>1. line[b] \in Slots \ {SigningOut}
      BY <2>1 DEF LinesKept
    <3> QED
      BY <1>12, <3>1, EndsUse DEF Receive, LoseRefresh, vars, slots
  <2> QED
    BY <2>1, <2>2, <2>3, <2>4 DEF OutInv, OutAlone
<1>13. CASE SignOutCut
  BY <1>2, <1>13, EndsUse DEF SignOutCut, refreshing
<1>14. CASE AccessExpires \/ UNCHANGED clientVars
  BY <1>2, <1>14 DEF AccessExpires, clientVars, browser, refreshing, vars, slots
<1>15. CASE Server
  BY <1>2, <1>15, ServerInUse DEF Server, browser, refreshing
<1> QED
  BY <1>3, <1>4, <1>5, <1>6, <1>7, <1>8, <1>9, <1>10, <1>11, <1>12, <1>13, <1>14, <1>15 DEF ClientNext

LEMMA OutAlways == ASSUME Calm = TRUE PROVE ClientSpec => []OutInv
<1>1. ClientInit => OutInv
  BY OutsideTabs DEF ClientInit, Init, OutInv, OutAlone, Busy
<1> QED
  BY <1>1, OutNext, ClientTypes, LinesAlwaysKept, PTL DEF ClientSpec

(* If nothing is being refreshed when the user signs out, a user who has   *)
(* signed out stays out until the next login, in any number of tabs and    *)
(* whatever becomes of the logout on the server.                           *)
THEOREM SignedOutStaysOut == ASSUME Calm = TRUE PROVE ClientSpec => []LeftStaysOut
<1>1. OutInv => LeftStaysOut
  BY DEF OutInv, LeftStaysOut
<1> QED
  BY <1>1, OutAlways, PTL

----------------------------------------------------------------------------
(* One tab. *)

Taken == {l \in Lines : sent[l] # None}

\* The tokens that the browser holds, sends and receives were issued to it.
HeldSound ==
  /\ store \in Issued \cup {None}
  /\ sent \in [Lines -> Tokens \cup {None}]
  /\ \A l \in Taken : sent[l] \in Issued
  /\ \A b \in Busy : line[b] \in Taken
  /\ \A s \in Slots : pc[s] = "answered" => job[s].token \in Issued \cup {None}

\* A request that is served is the one its client sent.
ServedSound ==
  /\ pc[SigningIn] \in {"idle", "issue", "answered"}
  /\ pc[SigningIn] = "issue" => job[SigningIn].family = None
  /\ pc[SigningOut] \in {"idle", "revokeFamily", "answered"}
  /\ pc[SigningOut] = "revokeFamily" => job[SigningOut].family \in Drawn
  /\ ended \subseteq Drawn
  /\ \A l \in Lines :
       /\ pc[l] # "idle" => l \in Taken
       /\ pc[l] = "rotate" => job[l].token = sent[l]
       /\ pc[l] \in {"rotate", "issue", "revokeFamily"} => job[l].family = Session(l)
       /\ pc[l] = "answered" /\ job[l].token # None => family[job[l].token] = Session(l)

\* A session that was not cut has one request in flight, and while that is
\* adrift the browser has let go of the session.
Apart ==
  \A l \in Taken : Session(l) \notin cut =>
    /\ \A m \in Taken \ {l} : Session(m) # Session(l)
    /\ l \notin Heard /\ store # None => family[store] # Session(l)
    /\ pc[SigningOut] = "revokeFamily" => job[SigningOut].family # Session(l)

\* The token of a login under way is of a session that nothing else is about.
NewApart ==
  pc[SigningIn] = "answered" /\ job[SigningIn].token # None =>
    /\ job[SigningIn].token \notin revoked
    /\ store # None => family[store] # family[job[SigningIn].token]
    /\ \A l \in Taken : Session(l) # family[job[SigningIn].token]
    /\ pc[SigningOut] = "revokeFamily" => job[SigningOut].family # family[job[SigningIn].token]

\* A refresh goes out with a token that is good, and comes back with one.
RefreshSound ==
  \A l \in Taken : Session(l) \notin cut =>
    /\ pc[l] \in {"idle", "rotate"} => sent[l] \notin revoked
    /\ pc[l] = "issue" => Live(Session(l)) = {} /\ Session(l) \notin ended
    /\ pc[l] # "revokeFamily"
    /\ pc[l] = "answered" /\ job[l].token = None => Faults \/ sent[l] \in expired
    /\ pc[l] = "answered" /\ job[l].token # None => job[l].token \notin revoked

StoreSound ==
  /\ pc[SigningOut] = "idle"
  /\ store # None /\ family[store] \notin cut
  /\ \A l \in Taken : Session(l) # family[store]
  => store \notin revoked

TokensSound ==
  HeldSound /\ ServedSound /\ Apart /\ NewApart /\ RefreshSound /\ StoreSound /\ UncutSessions

\* What is known of the rest of the state.
OneTabInv ==
  /\ TypeOK /\ LinesKept /\ OutInv
  /\ \A b, d \in Tabs : b = d

LEMMA SameRows ==
  ASSUME UNCHANGED rows
  PROVE  Issued' = Issued /\ Drawn' = Drawn /\ \A f : TokensOf(f)' = TokensOf(f) /\ Live(f)' = Live(f)
BY DEF rows, Issued, Drawn, TokensOf, Live

LEMMA NothingHeard ==
  ASSUME OneTabInv, TokensSound, Busy = {}
  PROVE  /\ Heard \cap Lines = {}
         /\ StoreLive
<1>1. Heard \cap Lines = {}
  BY OutsideTabs DEF OneTabInv, LinesKept, Heard, Busy
<1>2. ASSUME pc[SigningOut] = "idle", store # None, family[store] \notin cut PROVE store \notin revoked
  <2>1. \A l \in Taken : Session(l) # family[store]
    BY <1>1, <1>2 DEF TokensSound, Apart, Taken
  <2> QED
    BY <1>2, <2>1 DEF TokensSound, StoreSound
<1> QED
  BY <1>1, <1>2 DEF StoreLive

(* A step of the browser alone that at most loses the token it stores, or  *)
(* lets a refresh go adrift that it then no longer holds the session of.   *)
LEMMA BrowserAlone ==
  ASSUME OneTabInv, TokensSound, UNCHANGED vars, UNCHANGED sent, cut \subseteq cut',
         Busy' \subseteq Busy, \A b \in Busy' : line'[b] = line[b],
         store' = store \/ store' = None,
         \A l \in Taken : l \in Heard /\ l \notin Heard' => store' = None \/ Session(l) \in cut'
  PROVE  TokensSound'
<1>1. UNCHANGED <<rows, ended, pc, job, family, revoked, expired>>
  BY DEF vars, rows, slots
<1>2. /\ Issued' = Issued /\ Drawn' = Drawn /\ Taken' = Taken
      /\ \A f : TokensOf(f)' = TokensOf(f) /\ Live(f)' = Live(f)
      /\ \A l \in Lines : Session(l)' = Session(l)
  BY <1>1, SameRows DEF Taken, Session
<1>3. HeldSound'
  BY <1>1, <1>2 DEF TokensSound, HeldSound
<1>4. ServedSound'
  BY <1>1, <1>2 DEF TokensSound, ServedSound
<1>5. Apart'
  BY <1>1, <1>2 DEF TokensSound, Apart, Taken
<1>6. NewApart'
  BY <1>1, <1>2 DEF TokensSound, NewApart, Taken
<1>7. RefreshSound'
  BY <1>1, <1>2 DEF TokensSound, RefreshSound, Taken
<1>8. StoreSound' /\ UncutSessions'
  BY <1>1, <1>2 DEF TokensSound, StoreSound, UncutSessions, Taken
<1> QED
  BY <1>3, <1>4, <1>5, <1>6, <1>7, <1>8 DEF TokensSound

LEMMA LeadSound ==
  ASSUME OneTabInv, TokensSound, Calm = TRUE, NEW c \in Calls, Lead(c)
  PROVE  TokensSound'
<1> USE OutsideTabs
<1> DEFINE b == TabOf[c]
<1>0. b \in Tabs /\ c # None /\ leader[b] = None
  BY SessionClientAssumption DEF Lead
<1>1. PICK l \in Lines : /\ sent[l] = None /\ sent' = [sent EXCEPT ![l] = store]
                         /\ line' = [line EXCEPT ![b] = l]
  BY DEF Lead
<1>2. /\ store # None /\ pc[SigningOut] = "idle" /\ store' = store /\ cut' = cut
      /\ leader' = [leader EXCEPT ![b] = c]
      /\ UNCHANGED <<rows, ended, pc, job, family, revoked, expired>>
  BY DEF Lead, vars, rows, slots
<1>3. Busy = {} /\ Busy' = {b} /\ Heard' = {l} /\ Heard \cap Lines = {}
  <2>1. Busy = {}
    BY <1>0 DEF Busy, OneTabInv
  <2>2. Busy' = {b} /\ Heard' = {l}
    BY <1>0, <1>1, <1>2 DEF Busy, Heard, OneTabInv, LinesKept
  <2> QED
    BY <2>1, <2>2, NothingHeard
<1> HIDE DEF b
<1>4. /\ store \in Issued /\ sent'[l] = store /\ \A m \in Lines \ {l} : sent'[m] = sent[m]
      /\ Taken' = Taken \cup {l} /\ l \notin Taken
      /\ Issued' = Issued /\ Drawn' = Drawn
      /\ \A f : TokensOf(f)' = TokensOf(f) /\ Live(f)' = Live(f)
      /\ Session(l)' = family[store] /\ \A m \in Taken : Session(m)' = Session(m)
  BY <1>1, <1>2, SameRows DEF TokensSound, HeldSound, Taken, Session
<1>5. family[store] \notin cut => store \notin revoked
  BY <1>2, <1>3, NothingHeard DEF StoreLive
<1>6. \A m \in Taken : Session(m) \notin cut => Session(m) # family[store]
  BY <1>2, <1>3 DEF TokensSound, Apart, Taken
<1>7. pc[l] = "idle"
  BY <1>4 DEF TokensSound, ServedSound
<1>8. HeldSound'
  <2>1. sent' \in [Lines -> Tokens \cup {None}]
    BY <1>1, <1>4 DEF TokensSound, HeldSound, Issued
  <2>2. \A d \in Busy' : line'[d] \in Taken'
    BY <1>0, <1>1, <1>3, <1>4 DEF OneTabInv, LinesKept
  <2>3. \A m \in Taken' : sent'[m] \in Issued'
    BY <1>4 DEF TokensSound, HeldSound, Taken
  <2> QED
    BY <1>2, <1>4, <2>1, <2>2, <2>3 DEF TokensSound, HeldSound
<1>9. ServedSound'
  BY <1>2, <1>4, <1>7 DEF TokensSound, ServedSound, Taken
<1>10. Apart'
  BY <1>2, <1>3, <1>4, <1>6 DEF TokensSound, Apart, Taken
<1>11. NewApart'
  BY <1>2, <1>4 DEF TokensSound, NewApart, Taken
<1>12. RefreshSound'
  BY <1>2, <1>4, <1>5, <1>7 DEF TokensSound, RefreshSound, Taken
<1>13. StoreSound' /\ UncutSessions'
  BY <1>2, <1>4 DEF TokensSound, StoreSound, UncutSessions
<1> QED
  BY <1>8, <1>9, <1>10, <1>11, <1>12, <1>13 DEF TokensSound

(* A line is freed, and the browser keeps the token it brought or none.    *)
LEMMA LineFreed ==
  ASSUME OneTabInv, TokensSound, NEW l \in Taken,
         sent' = [sent EXCEPT ![l] = None], cut' = cut,
         \/ pc[l] = "idle" /\ UNCHANGED vars
         \/ Leave(l),
         Busy' \subseteq Busy, \A b \in Busy' : line'[b] = line[b] /\ line[b] # l,
         Heard' \cap Lines = (Heard \cap Lines) \ {l},
         \/ store' = None
         \/ store' = store /\ l \notin Heard
         \/ store' = job[l].token /\ job[l].token # None /\ pc[l] = "answered"
  PROVE  TokensSound'
<1> USE OutsideTabs
<1>1. /\ UNCHANGED <<rows, ended, family, revoked, expired>> /\ pc'[l] = "idle"
      /\ \A s \in Slots \ {l} : pc'[s] = pc[s] /\ job'[s] = job[s]
  <2>1. l \in Slots
    BY DEF Taken
  <2> QED
    BY <2>1, EndsUse DEF vars, slots, rows, OneTabInv
<1>2. /\ \A m \in Lines \ {l} : sent'[m] = sent[m] /\ Session(m)' = Session(m)
      /\ Taken' = Taken \ {l}
      /\ Issued' = Issued /\ Drawn' = Drawn
      /\ \A f : TokensOf(f)' = TokensOf(f) /\ Live(f)' = Live(f)
  BY <1>1, SameRows DEF TokensSound, HeldSound, Taken, Session
<1>3. HeldSound'
  <2>1. store' \in Issued \cup {None} /\ sent' \in [Lines -> Tokens \cup {None}]
    BY DEF TokensSound, HeldSound, Taken
  <2>2. \A b \in Busy' : line'[b] \in Taken'
    BY <1>2 DEF TokensSound, HeldSound
  <2> QED
    BY <1>1, <1>2, <2>1, <2>2 DEF TokensSound, HeldSound, Taken
<1>4. ServedSound'
  BY <1>1, <1>2 DEF TokensSound, ServedSound
<1>5. store' # None /\ store' # store => family[store'] = Session(l)
  BY DEF TokensSound, ServedSound, Taken
<1>6. Apart'
  BY <1>1, <1>2, <1>5 DEF TokensSound, Apart, Taken
<1>7. NewApart'
  BY <1>1, <1>2, <1>5 DEF TokensSound, NewApart, Taken
<1>8. RefreshSound'
  BY <1>1, <1>2 DEF TokensSound, RefreshSound, Taken
<1>9. StoreSound'
  <2> SUFFICES ASSUME pc[SigningOut] = "idle", store' # None, family[store'] \notin cut,
                      \A m \in Taken \ {l} : Session(m) # family[store']
               PROVE  store' \notin revoked
    BY <1>1, <1>2 DEF StoreSound, Taken
  <2>1. CASE store' = job[l].token /\ job[l].token # None /\ pc[l] = "answered"
    BY <2>1 DEF TokensSound, ServedSound, RefreshSound, Taken
  <2>2. CASE store' = store /\ l \notin Heard
    <3>1. Session(l) # family[store]
      BY <2>2 DEF TokensSound, Apart
    <3> QED
      BY <2>2, <3>1 DEF TokensSound, StoreSound
  <2> QED
    BY <2>1, <2>2
<1>10. UncutSessions'
  BY <1>1, <1>2 DEF TokensSound, UncutSessions
<1> QED
  BY <1>3, <1>4, <1>6, <1>7, <1>8, <1>9, <1>10 DEF TokensSound

LEMMA RefreshEnds ==
  ASSUME OneTabInv, TokensSound, NEW b \in Tabs, Load(b) \/ Receive(b) \/ LoseRefresh(b)
  PROVE  TokensSound'
<1> USE OutsideTabs
<1>1. /\ leader' = [leader EXCEPT ![b] = None] /\ line' = [line EXCEPT ![b] = None]
      /\ Busy' = {} /\ Heard' = {None} /\ Heard = {line[b]}
  <2>1. leader' = [leader EXCEPT ![b] = None] /\ line' = [line EXCEPT ![b] = None]
    BY DEF Load, Receive, LoseRefresh, Refused, Release
  <2> QED
    BY <2>1 DEF OneTabInv, LinesKept, Busy, Heard
<1>2. CASE Receive(b)
  <2> DEFINE l == line[b]
  <2>1. b \in Busy /\ l \in Taken
    BY <1>2 DEF Receive, Busy, TokensSound, HeldSound
  <2>2. /\ sent' = [sent EXCEPT ![l] = None] /\ cut' = cut /\ Leave(l)
        /\ \/ store' = None
           \/ store' = job[l].token /\ job[l].token # None /\ pc[l] = "answered"
    BY <1>2 DEF Receive, Refused, Release, Clear, Leave
  <2>3. Heard' \cap Lines = (Heard \cap Lines) \ {l}
    BY <1>1
  <2> HIDE DEF l
  <2> QED
    BY <1>1, <2>1, <2>2, <2>3, LineFreed
<1>3. CASE LoseRefresh(b)
  <2>1. UNCHANGED vars /\ UNCHANGED sent /\ cut' = cut /\ store' = None
    BY <1>3 DEF LoseRefresh, Refused, Release, Clear
  <2> QED
    BY <1>1, <2>1, BrowserAlone
<1>4. CASE Load(b)
  <2>1. /\ UNCHANGED vars /\ UNCHANGED sent /\ store' = store
        /\ cut' = cut \cup {Session(l) : l \in Lines \cap {line[b]}}
    BY <1>4 DEF Load
  <2>2. \A l \in Taken : l \in Heard => Session(l) \in cut'
    BY <1>1, <2>1 DEF Taken
  <2> QED
    BY <1>1, <2>1, <2>2, BrowserAlone
<1> QED
  BY <1>2, <1>3, <1>4

LEMMA DropSound ==
  ASSUME OneTabInv, TokensSound, NEW l \in Lines, Drop(l)
  PROVE  TokensSound'
<1>1. l \in Taken /\ l \notin Heard /\ sent' = [sent EXCEPT ![l] = None]
  BY DEF Drop, Taken
<1>2. UNCHANGED <<store, leader, line, cut>> /\ Busy' = Busy /\ Heard' = Heard
  BY DEF Drop, Busy, Heard
<1>3. \A b \in Busy : line[b] # l
  BY <1>1 DEF Heard, Busy
<1> QED
  BY <1>1, <1>2, <1>3, LineFreed DEF Drop

LEMMA SigningInSound ==
  ASSUME OneTabInv, TokensSound, SignIn \/ SignedIn
  PROVE  TokensSound'
<1> USE OutsideTabs
<1>1. /\ UNCHANGED <<rows, ended, family, revoked, expired>>
      /\ \A s \in Slots \ {SigningIn} : pc'[s] = pc[s] /\ job'[s] = job[s]
      /\ pc'[SigningIn] \in {"idle", "issue"} /\ (pc'[SigningIn] = "issue" => job'[SigningIn].family = None)
  <2>1. CASE SignIn
    BY <2>1, StartsUse DEF SignIn, Login, Begin, rows, OneTabInv, TypeOK
  <2>2. CASE SignedIn
    BY <2>2, EndsUse DEF SignedIn, rows, OneTabInv
  <2> QED
    BY <2>1, <2>2
<1>2. /\ UNCHANGED <<leader, line, sent, cut>>
      /\ \/ store' = store
         \/ /\ pc[SigningIn] = "answered" /\ job[SigningIn].token # None
            /\ store' = job[SigningIn].token
  BY DEF SignIn, SignedIn, Leave, browser, refreshing
<1>3. /\ Busy' = Busy /\ Heard' = Heard /\ Taken' = Taken
      /\ Issued' = Issued /\ Drawn' = Drawn
      /\ \A f : TokensOf(f)' = TokensOf(f) /\ Live(f)' = Live(f)
      /\ \A l \in Lines : Session(l)' = Session(l) /\ pc'[l] = pc[l] /\ job'[l] = job[l]
      /\ pc'[SigningOut] = pc[SigningOut] /\ job'[SigningOut] = job[SigningOut]
  BY <1>1, <1>2, SameRows DEF Busy, Heard, Taken, Session
<1>4. HeldSound'
  BY <1>1, <1>2, <1>3 DEF TokensSound, HeldSound
<1>5. ServedSound'
  BY <1>1, <1>2, <1>3 DEF TokensSound, ServedSound
<1>6. Apart'
  BY <1>1, <1>2, <1>3 DEF TokensSound, Apart, NewApart, Taken
<1>7. NewApart'
  BY <1>1 DEF NewApart
<1>8. RefreshSound'
  BY <1>1, <1>2, <1>3 DEF TokensSound, RefreshSound, Taken
<1>9. StoreSound' /\ UncutSessions'
  BY <1>1, <1>2, <1>3 DEF TokensSound, NewApart, StoreSound, UncutSessions, Taken
<1> QED
  BY <1>4, <1>5, <1>6, <1>7, <1>8, <1>9 DEF TokensSound

LEMMA SigningOutSound ==
  ASSUME OneTabInv, TokensSound, Calm = TRUE, SignOut \/ SignedOut \/ SignOutCut
  PROVE  TokensSound'
<1> USE OutsideTabs
<1>1. /\ UNCHANGED <<rows, ended, family, revoked, expired>>
      /\ \A s \in Slots \ {SigningOut} : pc'[s] = pc[s] /\ job'[s] = job[s]
      /\ pc'[SigningOut] \in {"idle", "revokeFamily"}
      /\ pc'[SigningOut] = "revokeFamily" =>
           /\ store \in Issued /\ store' = store /\ job'[SigningOut].family = family[store]
  <2>1. CASE SignOut
    BY <2>1, StartsUse DEF SignOut, browser, Logout, Begin, rows, OneTabInv, TypeOK
  <2>2. CASE SignedOut \/ SignOutCut
    BY <2>2, EndsUse DEF SignedOut, SignOutCut, vars, rows, slots, OneTabInv
  <2> QED
    BY <2>1, <2>2
<1>2. /\ UNCHANGED <<leader, line, sent>> /\ cut \subseteq cut'
      /\ \/ store' = None
         \/ store' = store /\ pc'[SigningOut] = "revokeFamily"
         \/ store' = store /\ (store # None => family[store] \in cut')
  <2>1. CASE SignOut
    BY <2>1 DEF SignOut, browser, refreshing, Logout, Begin, OneTabInv, TypeOK
  <2>2. CASE SignedOut
    BY <2>2 DEF SignedOut, refreshing, Clear
  <2>3. CASE SignOutCut
    BY <2>3 DEF SignOutCut, refreshing, TokensSound, HeldSound, Issued
  <2> QED
    BY <2>1, <2>2, <2>3
<1>3. /\ Busy' = Busy /\ Busy = {} /\ Heard' = Heard /\ Heard \cap Lines = {} /\ Taken' = Taken
      /\ Issued' = Issued /\ Drawn' = Drawn
      /\ \A f : TokensOf(f)' = TokensOf(f) /\ Live(f)' = Live(f)
      /\ \A l \in Lines : Session(l)' = Session(l) /\ pc'[l] = pc[l] /\ job'[l] = job[l]
      /\ pc'[SigningIn] = pc[SigningIn] /\ job'[SigningIn] = job[SigningIn]
  <2>1. Busy = {}
    BY DEF SignOut, SignedOut, SignOutCut, Leave, OneTabInv, OutInv, OutAlone
  <2> QED
    BY <1>1, <1>2, <2>1, SameRows, NothingHeard DEF Busy, Heard, Taken, Session
<1>4. HeldSound'
  BY <1>1, <1>2, <1>3 DEF TokensSound, HeldSound
<1>5. ServedSound'
  BY <1>1, <1>2, <1>3 DEF TokensSound, ServedSound, Drawn
<1>6. Apart'
  BY <1>1, <1>2, <1>3, SessionsAssumption DEF TokensSound, Apart, Taken, Issued
<1>7. NewApart'
  <2>1. None \notin Issued
    BY SessionsAssumption DEF Issued
  <2> QED
    BY <1>1, <1>2, <1>3, <2>1 DEF TokensSound, NewApart, Taken
<1>8. RefreshSound'
  BY <1>1, <1>2, <1>3 DEF TokensSound, RefreshSound, Taken
<1>9. StoreSound' /\ UncutSessions'
  BY <1>1, <1>2, <1>3 DEF TokensSound, StoreSound, UncutSessions
<1> QED
  BY <1>4, <1>5, <1>6, <1>7, <1>8, <1>9 DEF TokensSound

LEMMA ReachSound ==
  ASSUME OneTabInv, TokensSound, NEW l \in Lines, Reach(l)
  PROVE  TokensSound'
<1> USE OutsideTabs
<1>1. /\ UNCHANGED <<rows, ended, family, revoked, expired>> /\ pc[l] = "idle" /\ l \in Taken
      /\ \A s \in Slots \ {l} : pc'[s] = pc[s] /\ job'[s] = job[s]
  BY StartsUse DEF Reach, Taken, rows, OneTabInv
<1>2. UNCHANGED <<leader, line, sent, store, cut>>
  BY DEF Reach, browser, refreshing
<1>3. /\ Busy' = Busy /\ Heard' = Heard /\ Taken' = Taken /\ Issued' = Issued /\ Drawn' = Drawn
      /\ \A f : TokensOf(f)' = TokensOf(f) /\ Live(f)' = Live(f)
      /\ \A m \in Lines : Session(m)' = Session(m)
      /\ \A m \in Lines \ {l} : pc'[m] = pc[m] /\ job'[m] = job[m]
      /\ pc'[SigningIn] = pc[SigningIn] /\ job'[SigningIn] = job[SigningIn]
      /\ pc'[SigningOut] = pc[SigningOut] /\ job'[SigningOut] = job[SigningOut]
  BY <1>1, <1>2, SameRows DEF Busy, Heard, Taken, Session
<1>4. /\ \/ pc'[l] = "rotate" /\ job'[l].token = sent[l] /\ sent[l] \notin revoked
         \/ pc'[l] = "answered" /\ job'[l].token = None /\ sent[l] \in expired
         \/ pc'[l] = "revokeFamily" /\ sent[l] \in revoked
      /\ job'[l].family = Session(l)
  BY <1>1 DEF Reach, Refresh, Begin, Session, OneTabInv, TypeOK
<1>5. HeldSound'
  BY <1>2, <1>3, <1>1, <1>4 DEF TokensSound, HeldSound
<1>6. ServedSound'
  BY <1>1, <1>2, <1>3, <1>4 DEF TokensSound, ServedSound
<1>7. Apart' /\ NewApart'
  BY <1>1, <1>2, <1>3 DEF TokensSound, Apart, NewApart, Taken
<1>8. RefreshSound'
  BY <1>1, <1>2, <1>3, <1>4 DEF TokensSound, RefreshSound, Taken
<1>9. StoreSound' /\ UncutSessions'
  BY <1>1, <1>2, <1>3 DEF TokensSound, StoreSound, UncutSessions, Taken
<1> QED
  BY <1>5, <1>6, <1>7, <1>8, <1>9 DEF TokensSound

(* The steps of the server.                                                *)
LEMMA RotateTab ==
  ASSUME OneTabInv, TokensSound, UNCHANGED browser, NEW s \in Slots, Rotate(s)
  PROVE  TokensSound'
<1> USE OutsideTabs
<1>1. s \in Lines /\ pc[s] = "rotate" /\ s \in Taken
  BY DEF Rotate, TokensSound, ServedSound
<1>2. UNCHANGED <<leader, line, sent, store, cut>>
  BY DEF browser, refreshing
<1>3. /\ revoked' = revoked \cup {sent[s]} /\ UNCHANGED <<family, expired, ended>>
      /\ pc'[s] = "issue" /\ job'[s].family = Session(s)
      /\ \A q \in Slots \ {s} : pc'[q] = pc[q] /\ job'[q] = job[q]
  BY <1>1 DEF Rotate, Continue, OneTabInv, TypeOK, TokensSound, ServedSound
<1>4. /\ Busy' = Busy /\ Heard' = Heard /\ Taken' = Taken /\ Issued' = Issued /\ Drawn' = Drawn
      /\ \A m \in Lines : Session(m)' = Session(m)
      /\ sent[s] \in TokensOf(Session(s))
      /\ \A f : TokensOf(f)' = TokensOf(f) /\ Live(f)' = Live(f) \ {sent[s]}
      /\ \A f : f # Session(s) => Live(f)' = Live(f)
  BY <1>1, <1>2, <1>3 DEF Busy, Heard, Taken, Issued, Drawn, Session, TokensOf, Live, TokensSound, HeldSound
<1>5. Session(s) \notin cut => Live(Session(s))' = {} /\ Session(s) \notin ended
  <2> SUFFICES ASSUME Session(s) \notin cut PROVE Live(Session(s))' = {} /\ Session(s) \notin ended
    OBVIOUS
  <2>1. Session(s) \in Families /\ sent[s] \in Live(Session(s))
    BY <1>1, <1>4 DEF TokensSound, RefreshSound, HeldSound, Issued, Session, Live, OneTabInv, TypeOK
  <2>2. \A t \in Live(Session(s)) : t = sent[s]
    BY <2>1 DEF TokensSound, UncutSessions
  <2>3. Session(s) \notin ended
    BY <2>1 DEF TokensSound, UncutSessions
  <2>4. Live(Session(s))' = Live(Session(s)) \ {sent[s]}
    BY <1>1, <1>3, <1>4 DEF Live, TokensOf, Taken
  <2> QED
    BY <2>2, <2>3, <2>4
<1>6. HeldSound'
  BY <1>2, <1>3, <1>4 DEF TokensSound, HeldSound
<1>7. ServedSound'
  BY <1>1, <1>2, <1>3, <1>4 DEF TokensSound, ServedSound
<1>8. Apart'
  BY <1>1, <1>2, <1>3, <1>4 DEF TokensSound, Apart, Taken
<1>9. NewApart'
  BY <1>1, <1>2, <1>3, <1>4 DEF TokensSound, NewApart, Taken, Session
<1>10. RefreshSound'
  <2> SUFFICES ASSUME NEW l \in Taken, Session(l) \notin cut
               PROVE  /\ pc'[l] \in {"idle", "rotate"} => sent[l] \notin revoked'
                      /\ pc'[l] = "issue" => Live(Session(l))' = {} /\ Session(l) \notin ended
                      /\ pc'[l] # "revokeFamily"
                      /\ pc'[l] = "answered" /\ job'[l].token = None => Faults \/ sent[l] \in expired
                      /\ pc'[l] = "answered" /\ job'[l].token # None => job'[l].token \notin revoked'
    BY <1>2, <1>3, <1>4 DEF RefreshSound, Taken, Session
  <2>1. CASE l = s
    BY <1>3, <1>5, <2>1
  <2>2. CASE l # s
    <3>1. Session(s) # Session(l) /\ l \in Slots
      BY <1>1, <2>2 DEF TokensSound, Apart, Taken
    <3>2. /\ sent[l] # sent[s]
          /\ pc[l] = "answered" /\ job[l].token # None => job[l].token # sent[s]
      BY <3>1 DEF Session, TokensSound, ServedSound, Taken
    <3> QED
      BY <1>3, <1>4, <2>2, <3>1, <3>2 DEF TokensSound, RefreshSound, Taken
  <2> QED
    BY <2>1, <2>2
<1>11. StoreSound'
  BY <1>1, <1>2, <1>3, <1>4 DEF TokensSound, StoreSound, Session
<1>12. UncutSessions'
  BY <1>2, <1>3, <1>4 DEF TokensSound, UncutSessions
<1> QED
  BY <1>6, <1>7, <1>8, <1>9, <1>10, <1>11, <1>12 DEF TokensSound

LEMMA IssueTab ==
  ASSUME OneTabInv, TokensSound, UNCHANGED browser, NEW s \in Slots, Issue(s)
  PROVE  TokensSound'
<1> USE OutsideTabs
<1>1. UNCHANGED <<leader, line, sent, store, cut, revoked, expired, ended>>
  BY DEF browser, refreshing, Issue
<1>2. PICK t \in Tokens \ Issued, f \in Families :
        /\ IF job[s].family = None THEN f \notin Drawn ELSE f = job[s].family
        /\ family' = [family EXCEPT ![t] = f] /\ Answer(s, t)
  BY DEF Issue
<1>3. /\ pc[s] = "issue" /\ pc'[s] = "answered" /\ job'[s].token = t
      /\ \A q \in Slots \ {s} : pc'[q] = pc[q] /\ job'[q] = job[q]
  BY <1>2 DEF Issue, Answer, Continue, OneTabInv, TypeOK
<1>4. /\ t # None /\ f # None /\ t \notin revoked
      /\ family'[t] = f /\ \A u \in Issued : family'[u] = family[u] /\ u # t
      /\ Issued' = Issued \cup {t}
      /\ \A u \in Tokens \ {t} : family'[u] = family[u]
  BY <1>2, SessionsAssumption DEF Issued, OneTabInv, TypeOK
<1>5. /\ TokensOf(f)' = TokensOf(f) \cup {t} /\ Live(f)' = Live(f) \cup {t}
      /\ \A g \in Families \ {f} : TokensOf(g)' = TokensOf(g) /\ Live(g)' = Live(g)
      /\ Drawn \subseteq Drawn'
  <2>1. family[t] = None
    BY <1>2 DEF Issued
  <2>2. TokensOf(f)' = TokensOf(f) \cup {t} /\ \A g \in Families \ {f} : TokensOf(g)' = TokensOf(g)
    BY <1>4, <2>1, SessionsAssumption DEF TokensOf
  <2>3. Drawn \subseteq Drawn'
    BY <1>4 DEF Drawn
  <2> QED
    BY <1>1, <1>4, <2>2, <2>3 DEF Live
<1>6. /\ Busy' = Busy /\ Heard' = Heard /\ Taken' = Taken
      /\ \A m \in Taken : Session(m)' = Session(m) /\ Session(m) \in Families /\ Session(m) \in Drawn
  BY <1>1, <1>4 DEF Busy, Heard, Taken, Session, TokensSound, HeldSound, Issued, Drawn, OneTabInv, TypeOK
<1>7. \/ s = SigningIn /\ f \notin Drawn
      \/ s \in Taken /\ f = Session(s) /\ s # SigningIn /\ s # SigningOut
  BY <1>2, <1>3, SessionsAssumption DEF TokensSound, ServedSound, Taken, Session, HeldSound, Issued
<1>8. /\ store # None => family'[store] = family[store] /\ family[store] \in Drawn
      /\ \A q \in Slots \ {s} : pc[q] = "answered" /\ job[q].token # None =>
            job[q].token \in Issued /\ family'[job[q].token] = family[job[q].token]
  BY <1>4 DEF TokensSound, HeldSound, Drawn
<1>9. HeldSound'
  BY <1>1, <1>3, <1>4, <1>6 DEF TokensSound, HeldSound, Taken
<1>10. ServedSound'
  <2>1. /\ pc'[SigningIn] \in {"idle", "issue", "answered"}
        /\ pc'[SigningIn] = "issue" => job'[SigningIn].family = None
        /\ pc'[SigningOut] = pc[SigningOut] /\ job'[SigningOut] = job[SigningOut]
    BY <1>3, <1>7 DEF TokensSound, ServedSound
  <2>2. ASSUME NEW l \in Lines
        PROVE  /\ pc'[l] # "idle" => l \in Taken
               /\ pc'[l] = "rotate" => job'[l].token = sent[l]
               /\ pc'[l] \in {"rotate", "issue", "revokeFamily"} => job'[l].family = Session(l)'
               /\ pc'[l] = "answered" /\ job'[l].token # None => family'[job'[l].token] = Session(l)'
    BY <1>3, <1>4, <1>6, <1>7, <1>8 DEF TokensSound, ServedSound
  <2> QED
    BY <1>1, <1>5, <1>6, <2>1, <2>2 DEF TokensSound, ServedSound
<1>11. pc'[SigningOut] = pc[SigningOut] /\ job'[SigningOut] = job[SigningOut]
  BY <1>3, <1>7
<1>12. Apart'
  BY <1>1, <1>6, <1>8, <1>11 DEF TokensSound, Apart
<1>13. NewApart'
  <2>1. CASE s = SigningIn /\ f \notin Drawn
    <3>1. pc[SigningOut] = "revokeFamily" => job[SigningOut].family # f
      BY <2>1 DEF TokensSound, ServedSound
    <3> QED
      BY <1>1, <1>3, <1>4, <1>6, <1>8, <1>11, <2>1, <3>1 DEF NewApart
  <2>2. CASE s \in Taken /\ s # SigningIn
    BY <1>1, <1>3, <1>6, <1>8, <1>11, <2>2 DEF TokensSound, NewApart
  <2> QED
    BY <1>7, <2>1, <2>2
<1>14. RefreshSound'
  <2> SUFFICES ASSUME NEW l \in Taken, Session(l) \notin cut
               PROVE  /\ pc'[l] \in {"idle", "rotate"} => sent[l] \notin revoked
                      /\ pc'[l] = "issue" => Live(Session(l))' = {} /\ Session(l) \notin ended
                      /\ pc'[l] # "revokeFamily"
                      /\ pc'[l] = "answered" /\ job'[l].token = None => Faults \/ sent[l] \in expired
                      /\ pc'[l] = "answered" /\ job'[l].token # None => job'[l].token \notin revoked
    BY <1>1, <1>6 DEF RefreshSound
  <2>1. CASE l = s
    BY <1>3, <1>4, <2>1
  <2>2. CASE l # s
    <3>1. Session(l) # f /\ l \in Slots
      BY <1>6, <1>7, <2>2 DEF TokensSound, Apart, Taken
    <3>2. Live(Session(l))' = Live(Session(l))
      BY <1>5, <1>6, <3>1
    <3> QED
      BY <1>3, <2>2, <3>1, <3>2 DEF TokensSound, RefreshSound
  <2> QED
    BY <2>1, <2>2
<1>15. StoreSound'
  BY <1>1, <1>6, <1>8, <1>11 DEF TokensSound, StoreSound
<1>16. UncutSessions'
  <2>1. f \notin cut => Live(f) = {} /\ f \notin ended
    <3>1. CASE s = SigningIn /\ f \notin Drawn
      <4>1. TokensOf(f) = {}
        BY <1>4, <3>1 DEF TokensOf, Drawn, Issued
      <4> QED
        BY <3>1, <4>1 DEF TokensSound, ServedSound, Live
    <3>2. CASE s \in Taken /\ f = Session(s)
      BY <1>3, <3>2 DEF TokensSound, RefreshSound
    <3> QED
      BY <1>7, <3>1, <3>2
  <2> QED
    BY <1>1, <1>5, <2>1 DEF TokensSound, UncutSessions
<1> QED
  BY <1>9, <1>10, <1>12, <1>13, <1>14, <1>15, <1>16 DEF TokensSound

LEMMA RevokeOut ==
  ASSUME OneTabInv, TokensSound, UNCHANGED browser, NEW s \in Slots, RevokeFamily(s)
  PROVE  TokensSound'
<1> USE OutsideTabs
<1>1. UNCHANGED <<leader, line, sent, store, cut, family, expired>>
  BY DEF browser, refreshing, RevokeFamily
<1> DEFINE f == job[s].family
<1>2. /\ pc[s] = "revokeFamily" /\ revoked' = revoked \cup TokensOf(f) /\ ended' = ended \cup {f}
      /\ pc'[s] = "answered" /\ job'[s].token = None
      /\ \A q \in Slots \ {s} : pc'[q] = pc[q] /\ job'[q] = job[q]
  BY DEF RevokeFamily, Answer, Continue, OneTabInv, TypeOK
<1>3. f \in Families /\ f \in Drawn
  BY <1>2 DEF TokensSound, ServedSound, HeldSound, Session, Drawn, Taken, OneTabInv, TypeOK
<1> HIDE DEF f
<1>4. \/ s = SigningOut /\ \A l \in Taken : Session(l) \notin cut => Session(l) # f
      \/ s \in Taken /\ f = Session(s) /\ f \in cut /\ s # SigningIn /\ s # SigningOut
  <2>1. CASE s = SigningOut
    BY <1>2, <2>1 DEF f, TokensSound, Apart
  <2>2. CASE s \in Lines
    BY <1>2, <2>2 DEF f, TokensSound, ServedSound, RefreshSound
  <2>3. s # SigningIn
    BY <1>2 DEF TokensSound, ServedSound
  <2> QED
    BY <2>1, <2>2, <2>3
<1>5. /\ Busy' = Busy /\ Heard' = Heard /\ Taken' = Taken /\ Issued' = Issued /\ Drawn' = Drawn
      /\ \A l \in Lines : Session(l)' = Session(l)
      /\ \A g : TokensOf(g)' = TokensOf(g) /\ Live(g)' = Live(g) \ TokensOf(f)
      /\ \A g : g # f => Live(g)' = Live(g)
      /\ \A t \in Tokens : t \in TokensOf(f) <=> family[t] = f
  BY <1>1, <1>2 DEF Busy, Heard, Taken, Issued, Drawn, Session, TokensOf, Live
<1>6. HeldSound'
  BY <1>1, <1>2, <1>5 DEF TokensSound, HeldSound
<1>7. ServedSound'
  BY <1>1, <1>2, <1>3, <1>4, <1>5 DEF TokensSound, ServedSound
<1>8. Apart'
  BY <1>1, <1>2, <1>4, <1>5 DEF TokensSound, Apart, Taken
<1>9. NewApart'
  <2> SUFFICES ASSUME pc[SigningIn] = "answered", job[SigningIn].token # None
               PROVE  job[SigningIn].token \notin TokensOf(f)
    BY <1>1, <1>2, <1>4, <1>5 DEF TokensSound, NewApart, Taken
  <2>1. family[job[SigningIn].token] # f
    BY <1>2, <1>4 DEF f, TokensSound, NewApart
  <2> QED
    BY <2>1 DEF TokensOf
<1>10. RefreshSound'
  <2> SUFFICES ASSUME NEW l \in Taken, Session(l) \notin cut
               PROVE  /\ pc'[l] \in {"idle", "rotate"} => sent[l] \notin revoked'
                      /\ pc'[l] = "issue" => Live(Session(l))' = {} /\ Session(l) \notin ended'
                      /\ pc'[l] # "revokeFamily"
                      /\ pc'[l] = "answered" /\ job'[l].token = None => Faults \/ sent[l] \in expired
                      /\ pc'[l] = "answered" /\ job'[l].token # None => job'[l].token \notin revoked'
    BY <1>1, <1>5 DEF RefreshSound, Taken
  <2>1. Session(l) # f /\ l # s /\ l \in Slots
    BY <1>4 DEF Taken
  <2>2. /\ sent[l] \notin TokensOf(f)
        /\ pc[l] = "answered" /\ job[l].token # None => job[l].token \notin TokensOf(f)
    BY <2>1 DEF TokensOf, Session, TokensSound, ServedSound, Taken
  <2>3. Live(Session(l))' = Live(Session(l)) /\ pc'[l] = pc[l] /\ job'[l] = job[l]
    <3>1. \A t \in TokensOf(Session(l)) : t \notin TokensOf(f)
      BY <2>1 DEF TokensOf
    <3>2. TokensOf(Session(l))' = TokensOf(Session(l))
      BY <1>1 DEF TokensOf, Session
    <3> QED
      BY <1>2, <2>1, <3>1, <3>2 DEF Live
  <2>4. Session(l) \in ended' => Session(l) \in ended
    BY <1>2, <2>1
  <2>5. sent[l] \in revoked' => sent[l] \in revoked
    BY <1>2, <2>2
  <2>6. pc[l] = "answered" /\ job[l].token # None => (job[l].token \in revoked' => job[l].token \in revoked)
    BY <1>2, <2>2
  <2> QED
    BY <2>3, <2>4, <2>5, <2>6 DEF TokensSound, RefreshSound
<1>11. StoreSound'
  <2>1. CASE s = SigningOut
    BY <1>2, <2>1 DEF StoreSound
  <2>2. CASE f \in cut /\ s # SigningOut
    BY <1>1, <1>2, <1>5, <2>2 DEF TokensSound, StoreSound, TokensOf, Taken
  <2> QED
    BY <1>4, <2>1, <2>2
<1>12. UncutSessions'
  <2> SUFFICES ASSUME NEW g \in Families \ cut
               PROVE  /\ \A t, u \in Live(g)' : t = u
                      /\ g \in ended' => Live(g)' = {}
    BY <1>1 DEF UncutSessions
  <2>1. CASE g = f
    <3>1. Live(g)' = {}
      BY <1>5, <2>1 DEF Live
    <3> QED
      BY <3>1
  <2>2. CASE g # f
    BY <1>2, <1>5, <2>2 DEF TokensSound, UncutSessions
  <2> QED
    BY <2>1, <2>2
<1> QED
  BY <1>6, <1>7, <1>8, <1>9, <1>10, <1>11, <1>12 DEF TokensSound

LEMMA FailOrExpire ==
  ASSUME OneTabInv, TokensSound, UNCHANGED browser,
         (\E s \in Slots : Fail(s)) \/ (\E t \in Tokens : Expire(t))
  PROVE  TokensSound'
<1> USE OutsideTabs
<1>1. UNCHANGED <<leader, line, sent, store, cut, family, revoked, ended>>
  BY DEF browser, refreshing, Fail, rows, Expire
<1>2. /\ Busy' = Busy /\ Heard' = Heard /\ Taken' = Taken /\ Issued' = Issued /\ Drawn' = Drawn
      /\ \A l \in Lines : Session(l)' = Session(l)
      /\ \A f : TokensOf(f)' = TokensOf(f) /\ Live(f)' = Live(f)
  BY <1>1 DEF Busy, Heard, Taken, Issued, Drawn, Session, TokensOf, Live
<1>3. ASSUME NEW s \in Slots, Fail(s) PROVE TokensSound'
  <2>1. /\ Faults /\ pc[s] # "idle" /\ expired' = expired
        /\ pc'[s] = "answered" /\ job'[s].token = None
        /\ \A q \in Slots \ {s} : pc'[q] = pc[q] /\ job'[q] = job[q]
    BY <1>3 DEF Fail, rows, Answer, Continue, OneTabInv, TypeOK
  <2>2. HeldSound'
    BY <1>1, <1>2, <2>1 DEF TokensSound, HeldSound
  <2>3. ServedSound'
    BY <1>1, <1>2, <2>1 DEF TokensSound, ServedSound
  <2>4. Apart'
    BY <1>1, <1>2, <2>1 DEF TokensSound, Apart, Taken
  <2>5. NewApart'
    BY <1>1, <1>2, <2>1 DEF TokensSound, NewApart, Taken
  <2>6. RefreshSound'
    BY <1>1, <1>2, <2>1 DEF TokensSound, RefreshSound, Taken
  <2>7. StoreSound' /\ UncutSessions'
    BY <1>1, <1>2, <2>1 DEF TokensSound, StoreSound, UncutSessions, Taken
  <2> QED
    BY <2>2, <2>3, <2>4, <2>5, <2>6, <2>7 DEF TokensSound
<1>4. ASSUME NEW t \in Tokens, Expire(t) PROVE TokensSound'
  <2>1. UNCHANGED <<pc, job>> /\ expired \subseteq expired'
    BY <1>4 DEF Expire, slots
  <2>2. HeldSound' /\ ServedSound'
    BY <1>1, <1>2, <2>1 DEF TokensSound, HeldSound, ServedSound
  <2>3. Apart' /\ NewApart'
    BY <1>1, <1>2, <2>1 DEF TokensSound, Apart, NewApart, Taken
  <2>4. RefreshSound'
    BY <1>1, <1>2, <2>1 DEF TokensSound, RefreshSound, Taken
  <2>5. StoreSound' /\ UncutSessions'
    BY <1>1, <1>2, <2>1 DEF TokensSound, StoreSound, UncutSessions, Taken
  <2> QED
    BY <2>2, <2>3, <2>4, <2>5 DEF TokensSound
<1> QED
  BY <1>3, <1>4

LEMMA TokensSoundNext ==
  ASSUME Calm = TRUE
  PROVE  OneTabInv /\ TokensSound /\ [ClientNext]_clientVars => TokensSound'
<1> SUFFICES ASSUME OneTabInv, TokensSound, [ClientNext]_clientVars PROVE TokensSound'
  OBVIOUS
<1>1. CASE SignIn \/ SignedIn \/ SignOut \/ SignedOut \/ SignOutCut
  BY <1>1, SigningInSound, SigningOutSound
<1>2. ASSUME UNCHANGED vars, UNCHANGED <<leader, line, sent, cut>>, store' = store \/ store' = None
      PROVE  TokensSound'
  <2>1. Busy' = Busy /\ Heard' = Heard
    BY <1>2 DEF Busy, Heard
  <2> QED
    BY <1>2, <2>1, BrowserAlone
<1>3. ASSUME NEW c \in Calls,
             Send(c) \/ Succeed(c) \/ LoseCall(c) \/ GiveUp(c) \/ Wait(c) \/ NoToken(c)
      PROVE  TokensSound'
  <2>1. UNCHANGED vars /\ UNCHANGED <<leader, line, sent, cut>> /\ (store' = store \/ store' = None)
    BY <1>3 DEF Send, Succeed, LoseCall, GiveUp, Wait, NoToken, Fails, Clear, refreshing
  <2> QED
    BY <2>1, <1>2
<1>4. ASSUME NEW c \in Calls, Lead(c) PROVE TokensSound'
  BY <1>4, LeadSound
<1>5. ASSUME NEW b \in Tabs, Load(b) \/ Receive(b) \/ LoseRefresh(b) PROVE TokensSound'
  BY <1>5, RefreshEnds
<1>6. ASSUME NEW l \in Lines, Reach(l) \/ Drop(l) PROVE TokensSound'
  BY <1>6, ReachSound, DropSound
<1>7. CASE AccessExpires \/ UNCHANGED clientVars
  <2>1. UNCHANGED vars /\ UNCHANGED <<leader, line, sent, cut>> /\ store' = store
    BY <1>7 DEF AccessExpires, clientVars, browser, refreshing
  <2> QED
    BY <2>1, <1>2
<1>8. CASE Server
  BY <1>8, RotateTab, IssueTab, RevokeOut, FailOrExpire DEF Server, Serve
<1> QED
  BY <1>1, <1>3, <1>4, <1>5, <1>6, <1>7, <1>8 DEF ClientNext

LEMMA TokensAlwaysSound ==
  ASSUME \A b, d \in Tabs : b = d, Calm = TRUE
  PROVE  ClientSpec => [](OneTabInv /\ TokensSound)
<1>1. ClientInit => TokensSound
  <2> SUFFICES ASSUME ClientInit PROVE TokensSound
    OBVIOUS
  <2>1. Taken = {} /\ Busy = {} /\ \A f \in Families : Live(f) = {}
    BY SessionsAssumption DEF ClientInit, Init, Taken, Busy, Live, TokensOf
  <2> QED
    BY <2>1, OutsideTabs DEF ClientInit, Init, TokensSound, HeldSound, ServedSound, Apart, NewApart,
         RefreshSound, StoreSound, UncutSessions
<1>2. TypeOK /\ LinesKept /\ OutInv => OneTabInv
  BY DEF OneTabInv
<1> QED
  BY <1>1, <1>2, OutAlways, ClientTypes, LinesAlwaysKept, TokensSoundNext, PTL DEF ClientSpec

(* With one tab that signs out only while nothing is refreshed: whatever   *)
(* calls and answers are lost, wherever a request dies on the server and   *)
(* whenever a page is loaded, a session that no page load has cut has one  *)
(* live refresh token at most, and none once it is over.                   *)
THEOREM OneTabOneLive ==
  ASSUME \A b, d \in Tabs : b = d, Calm = TRUE
  PROVE  ClientSpec => []UncutSessions
<1>1. TokensSound => UncutSessions
  BY DEF TokensSound
<1> QED
  BY <1>1, TokensAlwaysSound, PTL

(* In such a browser, while nothing is refreshed and the user does not     *)
(* sign out, the token in localStorage was never rotated out, unless a     *)
(* page load has cut its session.                                          *)
THEOREM StoredTokenLives ==
  ASSUME \A b, d \in Tabs : b = d, Calm = TRUE
  PROVE  ClientSpec => []StoreLive
<1>1. OneTabInv /\ TokensSound => StoreLive
  BY NothingHeard DEF StoreLive
<1> QED
  BY <1>1, TokensAlwaysSound, PTL

(* If moreover no request dies on the server, the one tab is refused a     *)
(* refresh only when its token has expired or a page load, coming in the   *)
(* middle of a refresh or a logout, has cut its session.                   *)
THEOREM NeverThrownOut ==
  ASSUME \A b, d \in Tabs : b = d, Calm = TRUE, Faults = FALSE
  PROVE  ClientSpec => []NeverRefused
<1>1. OneTabInv /\ TokensSound => NeverRefused
  <2> SUFFICES ASSUME OneTabInv, TokensSound, NEW b \in Busy,
                      pc[line[b]] = "answered", job[line[b]].token = None
               PROVE  sent[line[b]] \in expired \/ Session(line[b]) \in cut
    BY DEF NeverRefused
  <2>1. line[b] \in Taken
    BY DEF TokensSound, HeldSound
  <2> QED
    BY <2>1 DEF TokensSound, RefreshSound
<1> QED
  BY <1>1, TokensAlwaysSound, PTL
=============================================================================
