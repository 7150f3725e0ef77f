--------------------------- MODULE SessionPromise ---------------------------
(* What docs/ARCHITECTURE.md promises of a session: it holds at most one   *)
(* refresh token at a time, a token that was withdrawn never comes back,   *)
(* and a session that has ended is over.                                   *)

CONSTANTS Tokens, Families

VARIABLES
  state,  \* state[f]: "new" before the login, "open", then "over"
  holds,  \* holds[f]: the token of session f, as a set of at most one
  spent   \* the tokens ever given out

promise == <<state, holds, spent>>

Give(f, t) ==
  /\ t \notin spent
  /\ holds[f] = {}
  /\ holds' = [holds EXCEPT ![f] = {t}]
  /\ spent' = spent \cup {t}

Open(f, t) ==
  /\ state[f] = "new"
  /\ state' = [state EXCEPT ![f] = "open"]
  /\ Give(f, t)

Withdraw(f) ==
  /\ state[f] = "open" /\ holds[f] # {}
  /\ holds' = [holds EXCEPT ![f] = {}]
  /\ UNCHANGED <<state, spent>>

Renew(f, t) ==
  /\ state[f] = "open"
  /\ Give(f, t)
  /\ UNCHANGED state

End(f) ==
  /\ state[f] = "open"
  /\ state' = [state EXCEPT ![f] = "over"]
  /\ holds' = [holds EXCEPT ![f] = {}]
  /\ UNCHANGED spent

Init ==
  /\ state = [f \in Families |-> "new"]
  /\ holds = [f \in Families |-> {}]
  /\ spent = {}

Next ==
  \E f \in Families :
    \/ Withdraw(f) \/ End(f)
    \/ \E t \in Tokens : Open(f, t) \/ Renew(f, t)

Spec == Init /\ [][Next]_promise
=============================================================================
