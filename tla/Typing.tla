------------------------------- MODULE Typing -------------------------------
(***************************************************************************)
(* Who is shown as typing in a room of the chat (the typing handlers of    *)
(* backend/src/realtime/realtime.gateway.ts, and of                        *)
(* frontend/src/hooks/useChatRealtime.ts and                               *)
(* components/chat/message-composer.tsx).                                  *)
(*                                                                         *)
(* Typists have the room open, each in a tab; one more tab watches.  There *)
(* is no clock: a timer that runs may go off at any time.  What a typist   *)
(* emits reaches the gateway in order, but not in step with the requests   *)
(* that post the messages.                                                 *)
(***************************************************************************)
EXTENDS Naturals, Sequences

CONSTANTS
  Typists,
  MaxTyping  \* bound on keys, posts, renders, and connections lost

ASSUME TypingAssumption == MaxTyping \in Nat

VARIABLES
  acts,      \* keys, posts, renders and losses so far
  present,   \* the typists whose tab shows the room
  typing,    \* isTypingRef
  stopping,  \* the typists whose timer for the stop runs
  posting,   \* posting[u]: how far the message that u posts is
  up,        \* up[u]: what u emitted and the gateway has not handled
  wire,      \* what is on its way to the watcher, oldest first
  shown,     \* typingUsers of the watcher
  timers     \* the users whose removal a timer of the watcher is to bring

composer   == <<present, typing, stopping, posting>>
watcher    == <<wire, shown, timers>>
typingVars == <<acts, composer, up, watcher>>

Act == acts < MaxTyping /\ acts' = acts + 1

Emit(u, kind) == up' = [up EXCEPT ![u] = Append(@, kind)]

----------------------------------------------------------------------------
(* The composer. *)

\* handleInputChange: the first key emits, every key puts the stop off.
Key(u) ==
  /\ Act /\ u \in present
  /\ typing' = typing \cup {u} /\ stopping' = stopping \cup {u}
  /\ IF u \in typing THEN UNCHANGED up ELSE Emit(u, "start")
  /\ UNCHANGED <<present, posting, watcher>>

Stop(u) ==
  /\ u \in stopping
  /\ typing' = typing \ {u} /\ stopping' = stopping \ {u}
  /\ Emit(u, "stop")
  /\ UNCHANGED <<acts, present, posting, watcher>>

(* The effect of the composer is cleaned up whenever the room is rendered  *)
(* anew, for onTyping is another function then: the timer is cleared, and  *)
(* a stop emitted, while isTypingRef stays as it is.                       *)
CleanUp(u) ==
  /\ stopping' = stopping \ {u}
  /\ IF u \in typing THEN Emit(u, "stop") ELSE UNCHANGED up

Render(u) ==
  /\ Act /\ u \in present
  /\ CleanUp(u)
  /\ UNCHANGED <<present, typing, posting, watcher>>

Leave(u) ==
  /\ Act /\ u \in present
  /\ CleanUp(u)
  /\ present' = present \ {u} /\ typing' = typing \ {u}
  /\ UNCHANGED <<posting, watcher>>

Enter(u) ==
  /\ Act /\ u \notin present /\ posting[u] = "none"
  /\ present' = present \cup {u}
  /\ UNCHANGED <<typing, stopping, posting, up, watcher>>

(* The tab is gone before it has emitted anything; handleDisconnect of the *)
(* gateway tells the room nothing.                                         *)
Vanish(u) ==
  /\ Act /\ u \in present
  /\ present' = present \ {u} /\ typing' = typing \ {u} /\ stopping' = stopping \ {u}
  /\ posting' = [posting EXCEPT ![u] = "none"]
  /\ up' = [up EXCEPT ![u] = <<>>]
  /\ UNCHANGED watcher

(* handleSubmit: one message at a time, the keys are not locked meanwhile. *)
Submit(u) ==
  /\ Act /\ u \in present /\ posting[u] = "none"
  /\ posting' = [posting EXCEPT ![u] = "posted"]
  /\ UNCHANGED <<present, typing, stopping, up, watcher>>

Deliver(u) ==
  /\ posting[u] = "posted"
  /\ posting' = [posting EXCEPT ![u] = "stored"]
  /\ wire' = Append(wire, [user |-> u, kind |-> "message"])
  /\ UNCHANGED <<acts, present, typing, stopping, up, shown, timers>>

Submitted(u) ==
  /\ posting[u] = "stored"
  /\ posting' = [posting EXCEPT ![u] = "none"]
  /\ typing' = typing \ {u} /\ stopping' = stopping \ {u}
  /\ Emit(u, "stop")
  /\ UNCHANGED <<acts, present, watcher>>

SubmitFails(u) ==
  /\ posting[u] # "none"
  /\ posting' = [posting EXCEPT ![u] = "none"]
  /\ UNCHANGED <<acts, present, typing, stopping, up, watcher>>

----------------------------------------------------------------------------
(* handleTypingStart and handleTypingStop.                                 *)
Relay(u) ==
  /\ up[u] # <<>>
  /\ up' = [up EXCEPT ![u] = Tail(@)]
  /\ wire' = Append(wire, [user |-> u, kind |-> Head(up[u])])
  /\ UNCHANGED <<acts, composer, shown, timers>>

----------------------------------------------------------------------------
(* The watcher. *)

\* Variant: no timer is set for somebody who types.
HearUntimed ==
  /\ wire # <<>>
  /\ wire' = Tail(wire)
  /\ LET u == Head(wire).user IN
     IF Head(wire).kind = "start"
       THEN shown' = shown \cup {u} /\ UNCHANGED timers
       ELSE shown' = shown \ {u} /\ timers' = timers \ {u}
  /\ UNCHANGED <<acts, composer, up>>

(* handleTypingUpdate, and what handleMessageNew does to its sender.       *)
Hear ==
  /\ wire # <<>>
  /\ wire' = Tail(wire)
  /\ LET u == Head(wire).user IN
     IF Head(wire).kind = "start"
       THEN shown' = shown \cup {u} /\ timers' = timers \cup {u}
       ELSE shown' = shown \ {u} /\ timers' = timers \ {u}
  /\ UNCHANGED <<acts, composer, up>>

TimeOut(u) ==
  /\ u \in timers
  /\ shown' = shown \ {u} /\ timers' = timers \ {u}
  /\ UNCHANGED <<acts, composer, up, wire>>

\* The connection breaks and comes back: what was on its way is lost.
Lose ==
  /\ Act /\ wire # <<>>
  /\ wire' = <<>>
  /\ UNCHANGED <<composer, up, shown, timers>>

\* The watcher leaves the room, and comes back to a new ChatRoom.
Reopen ==
  /\ Act
  /\ wire' = <<>> /\ shown' = {} /\ timers' = {}
  /\ UNCHANGED <<composer, up>>

TypingInit ==
  /\ acts = 0
  /\ present = Typists /\ typing = {} /\ stopping = {}
  /\ posting = [u \in Typists |-> "none"]
  /\ up = [u \in Typists |-> <<>>]
  /\ wire = <<>> /\ shown = {} /\ timers = {}

Compose(u) ==
  \/ Key(u) \/ Stop(u) \/ Render(u) \/ Leave(u) \/ Enter(u) \/ Vanish(u)
  \/ Submit(u) \/ Deliver(u) \/ Submitted(u) \/ SubmitFails(u)

TypingNext ==
  \/ \E u \in Typists : Compose(u) \/ Relay(u) \/ TimeOut(u)
  \/ Hear \/ Lose \/ Reopen

(* The timers of the browser go off.                                       *)
TypingFairness == \A u \in Typists : WF_typingVars(TimeOut(u))

TypingSpec == TypingInit /\ [][TypingNext]_typingVars /\ TypingFairness

----------------------------------------------------------------------------
(* Properties. *)

(* Nobody is shown as typing for ever, though the stop was lost, came      *)
(* before the start, or was never sent: a timer takes the name away.       *)
IndicatorClears == \A u \in Typists : (u \in shown) ~> (u \notin shown)
=============================================================================
