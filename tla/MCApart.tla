------------------------------- MODULE MCApart -------------------------------
(* Notifications, Typing, Profile, ProjectCache and PasswordReset for TLC. *)
(* No two of them are at work in one behaviour: those that are not are     *)
(* still.  The bell and the reset have the queue of letters in common.     *)
EXTENDS Notifications, Typing, Profile, ProjectCache, PasswordReset, TLC

VARIABLE part

CONSTANTS u1, u2, r1, r2, w1, w2, page1, page2

bellVars == <<notes, making, events, moves, badge, counted>>
codeVars == <<codes, asking, promised, halves, ticket, setting, spent>>
apart == <<part, mail, bellVars, typingVars, profileVars, cacheVars, codeVars>>

InBell    == part = "bell" /\ UNCHANGED <<part, typingVars, profileVars, cacheVars, codeVars>>
InTyping  == part = "typing" /\ UNCHANGED <<part, vars, profileVars, cacheVars, codeVars>>
InProfile == part = "profile" /\ UNCHANGED <<part, vars, typingVars, cacheVars, codeVars>>
InCache   == part = "cache" /\ UNCHANGED <<part, vars, typingVars, profileVars, codeVars>>
InReset   == part = "reset" /\ UNCHANGED <<part, bellVars, typingVars, profileVars, cacheVars>>

ApartInit ==
  /\ part \in {"bell", "typing", "profile", "cache", "reset"}
  /\ Init /\ TypingInit /\ ProfileInit /\ CacheInit /\ ResetInit

ApartNext ==
  \/ Next /\ InBell
  \/ TypingNext /\ InTyping
  \/ ProfileNext /\ InProfile
  \/ CacheNext /\ InCache
  \/ ResetNext /\ InReset

ApartSpec ==
  /\ ApartInit /\ [][ApartNext]_apart
  /\ WF_apart(HearNote /\ InBell) /\ WF_apart(CountUnread /\ InBell) /\ WF_apart(ShowCount /\ InBell)
  /\ WF_apart(Work /\ UNCHANGED codeVars /\ InReset)
  /\ \A u \in Typists : WF_apart(TimeOut(u) /\ InTyping)
=============================================================================
