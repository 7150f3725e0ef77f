---------------------------- MODULE SessionClient ----------------------------
(***************************************************************************)
(* The browser of one user and the sessions it holds on the server         *)
(* (frontend/src/lib/api.ts, frontend/src/store/useAuthStore.ts).          *)
(*                                                                         *)
(* The tabs share the tokens in localStorage; isRefreshing and failedQueue *)
(* belong to the page that a tab shows, and die with it.  Refreshes are    *)
(* sent on lines, the slots of Sessions that SigningIn and SigningOut, the *)
(* slots of logins and logouts, leave over.  A line whose page is gone, or *)
(* whose page was told that the connection broke, is adrift: the request   *)
(* may still reach the server, and nobody hears the answer.  Of the access *)
(* token only its age counts: whether the one in localStorage, and the one *)
(* a call was sent with, is still accepted.                                *)
(***************************************************************************)
EXTENDS Sessions

CONSTANTS
  Tabs,                   \* tabs of the browser; each shows one page at a time
  SigningIn, SigningOut,  \* the slots that serve logins and logouts
  Calls,                  \* calls of the API, each sent again and again
  TabOf,                  \* TabOf[c]: the tab that sends call c
  Boots,                  \* the calls of initialize: getMe when a page is loaded
  Calm                    \* TRUE if nothing is refreshed while the user signs out

Lines == Slots \ {SigningIn, SigningOut}

ASSUME SessionClientAssumption ==
  /\ {SigningIn, SigningOut} \subseteq Slots /\ SigningIn # SigningOut
  /\ None \notin Slots
  /\ TabOf \in [Calls -> Tabs]
  /\ Boots \subseteq Calls
  /\ None \notin Calls
  /\ Calm \in BOOLEAN

VARIABLES
  store,    \* the refresh token in localStorage
  fresh,    \* the access token in localStorage is still accepted
  call,     \* call[c]: how far call c has come
  retried,  \* the calls that bear _retry
  leader,   \* leader[b]: the call that made tab b refresh; None: not refreshing
  line,     \* line[b]: the line the refresh of tab b is on, None if there is none
  sent,     \* sent[l]: the token that is on its way on line l, None if l is free
  left,     \* the user has signed out and not in again
  cut       \* the sessions whose refresh or logout a page load cut short

calls      == <<call, retried>>
refreshing == <<leader, line, sent>>
browser    == <<store, fresh, calls, refreshing, left, cut>>
clientVars == <<vars, browser>>

Waiting(b) == {c \in Calls : TabOf[c] = b /\ call[c] = "waiting"}
Busy       == {b \in Tabs : leader[b] # None}
Heard      == {line[b] : b \in Tabs}

\* The session that the request on line l is about.
Session(l) == family[sent[l]]

----------------------------------------------------------------------------
(* useAuthStore: setAuth after a login, logout, and the loss of both.      *)

Clear == store' = None /\ fresh' = FALSE

SignIn ==
  /\ store = None
  /\ Login(SigningIn)
  /\ UNCHANGED browser

\* A login may be refused, and its answer may be lost or come to no page.
SignedIn ==
  /\ Leave(SigningIn)
  /\ \/ UNCHANGED <<store, fresh, left>>
     \/ /\ job[SigningIn].token # None
        /\ store' = job[SigningIn].token /\ fresh' = TRUE /\ left' = FALSE
  /\ UNCHANGED <<calls, refreshing, cut>>

SignOut ==
  /\ store # None
  /\ Calm => Busy = {}
  /\ Logout(SigningOut, store)
  /\ UNCHANGED browser

(* A logout that fails on the server is only warned about.                 *)
\* Variant: only the access token is forgotten.
SignedHalfOut ==
  /\ \/ Leave(SigningOut)
     \/ pc[SigningOut] = "idle" /\ store # None /\ (Calm => Busy = {}) /\ UNCHANGED vars
  /\ fresh' = FALSE
  /\ left' = TRUE
  /\ UNCHANGED <<store, calls, refreshing, cut>>

SignedOut ==
  /\ \/ Leave(SigningOut)
     \/ pc[SigningOut] = "idle" /\ store # None /\ (Calm => Busy = {}) /\ UNCHANGED vars
  /\ Clear
  /\ left' = TRUE
  /\ UNCHANGED <<calls, refreshing, cut>>

\* The page that signs out is loaded anew before the logout is answered.
SignOutCut ==
  /\ Leave(SigningOut)
  /\ cut' = cut \cup {family[t] : t \in Tokens \cap {store}}
  /\ UNCHANGED <<store, fresh, calls, refreshing, left>>

----------------------------------------------------------------------------
(* A page is loaded: what the old one waited for is dropped, its refresh   *)
(* goes adrift, and initialize asks who the user is if a token is stored.  *)

Sending == IF fresh THEN "sent" ELSE "stale"

Load(b) ==
  /\ call' = [c \in Calls |-> IF TabOf[c] # b THEN call[c]
                              ELSE IF c \in Boots /\ store # None THEN Sending ELSE "idle"]
  /\ retried' = retried \ {c \in Calls : TabOf[c] = b}
  /\ leader' = [leader EXCEPT ![b] = None]
  /\ line' = [line EXCEPT ![b] = None]
  /\ cut' = cut \cup {Session(l) : l \in Lines \cap {line[b]}}
  /\ UNCHANGED <<vars, store, fresh, sent, left>>

----------------------------------------------------------------------------
(* The interceptors of api.ts. *)

Send(c) ==
  /\ c \notin Boots /\ call[c] \in {"idle", "done", "failed"}
  /\ call' = [call EXCEPT ![c] = Sending]
  /\ retried' = retried \ {c}
  /\ UNCHANGED <<vars, store, fresh, refreshing, left, cut>>

Succeed(c) ==
  /\ call[c] = "sent"
  /\ call' = [call EXCEPT ![c] = "done"]
  /\ UNCHANGED <<vars, store, fresh, retried, refreshing, left, cut>>

(* A call of initialize that fails, for whatever reason, clears the store. *)
Fails(c) ==
  /\ call' = [call EXCEPT ![c] = "failed"]
  /\ IF c \in Boots THEN Clear ELSE UNCHANGED <<store, fresh>>

LoseCall(c) ==
  /\ call[c] \in {"sent", "stale"}
  /\ Fails(c)
  /\ UNCHANGED <<vars, retried, refreshing, left, cut>>

(* 401: a call that was retried fails; while the tab is refreshing, a call *)
(* waits; without a token to refresh with, all is cleared; otherwise the   *)
(* call makes its tab refresh.                                             *)
GiveUp(c) ==
  /\ call[c] = "stale" /\ c \in retried
  /\ Fails(c)
  /\ UNCHANGED <<vars, retried, refreshing, left, cut>>

Wait(c) ==
  /\ call[c] = "stale" /\ c \notin retried /\ leader[TabOf[c]] # None
  /\ call' = [call EXCEPT ![c] = "waiting"]
  /\ UNCHANGED <<vars, store, fresh, retried, refreshing, left, cut>>

NoToken(c) ==
  /\ call[c] = "stale" /\ c \notin retried /\ leader[TabOf[c]] = None
  /\ store = None
  /\ Clear
  /\ call' = [call EXCEPT ![c] = "failed"]
  /\ retried' = retried \cup {c}
  /\ UNCHANGED <<vars, refreshing, left, cut>>

Lead(c) ==
  LET b == TabOf[c] IN
  /\ call[c] = "stale" /\ c \notin retried /\ leader[b] = None
  /\ store # None
  /\ Calm => pc[SigningOut] = "idle"
  /\ call' = [call EXCEPT ![c] = "waiting"]
  /\ retried' = retried \cup {c}
  /\ leader' = [leader EXCEPT ![b] = c]
  /\ \E l \in Lines :
       /\ sent[l] = None
       /\ sent' = [sent EXCEPT ![l] = store]
       /\ line' = [line EXCEPT ![b] = l]
  /\ UNCHANGED <<vars, store, fresh, left, cut>>

(* A refresh reaches the server, adrift or not.                            *)
Reach(l) ==
  /\ sent[l] # None
  /\ Refresh(l, sent[l])
  /\ UNCHANGED browser

\* A refresh that is adrift is lost, or answered to nobody.
Drop(l) ==
  /\ sent[l] # None /\ l \notin Heard
  /\ \/ pc[l] = "idle" /\ UNCHANGED vars
     \/ Leave(l)
  /\ sent' = [sent EXCEPT ![l] = None]
  /\ UNCHANGED <<store, fresh, calls, leader, line, left, cut>>

\* Variant: the calls that wait behind the leader are forgotten.
ReleaseLeader(b, outcome) ==
  /\ call' = [call EXCEPT ![leader[b]] = outcome]
  /\ leader' = [leader EXCEPT ![b] = None]
  /\ line' = [line EXCEPT ![b] = None]
  /\ UNCHANGED <<retried, left, cut>>

\* Whatever waits in tab b goes on with this outcome, the leader among it.
Release(b, outcome) ==
  /\ call' = [c \in Calls |-> IF c \in Waiting(b) THEN outcome ELSE call[c]]
  /\ leader' = [leader EXCEPT ![b] = None]
  /\ line' = [line EXCEPT ![b] = None]
  /\ UNCHANGED <<retried, left, cut>>

\* Variant: the tokens stay in localStorage.
RefusedKeep(b) == Release(b, "failed") /\ UNCHANGED <<store, fresh>>

Refused(b) == Release(b, "failed") /\ Clear

\* Variant: the new access token is stored, the new refresh token is not.
ReceiveHalf(b) ==
  LET l == line[b] IN
  /\ leader[b] # None
  /\ Leave(l)
  /\ sent' = [sent EXCEPT ![l] = None]
  /\ IF job[l].token = None
       THEN Refused(b)
       ELSE fresh' = TRUE /\ UNCHANGED store /\ Release(b, "sent")

Receive(b) ==
  LET l == line[b] IN
  /\ leader[b] # None
  /\ Leave(l)
  /\ sent' = [sent EXCEPT ![l] = None]
  /\ IF job[l].token = None
       THEN Refused(b)
       ELSE /\ store' = job[l].token /\ fresh' = TRUE
            /\ Release(b, "sent")

(* The connection breaks: the refresh fails, and the request goes adrift.  *)
LoseRefresh(b) ==
  /\ leader[b] # None
  /\ Refused(b)
  /\ UNCHANGED <<vars, sent>>

(* Fifteen minutes: the access token in localStorage, and every older one, *)
(* is accepted no more.                                                    *)
AccessExpires ==
  /\ fresh
  /\ fresh' = FALSE
  /\ call' = [c \in Calls |-> IF call[c] = "sent" THEN "stale" ELSE call[c]]
  /\ UNCHANGED <<vars, store, retried, refreshing, left, cut>>

Server ==
  /\ \/ \E s \in Slots : Serve(s) \/ Fail(s)
     \/ \E t \in Tokens : Expire(t)
  /\ UNCHANGED browser

ClientInit ==
  /\ Init
  /\ store = None /\ fresh = FALSE
  /\ call = [c \in Calls |-> "idle"]
  /\ retried = {}
  /\ leader = [b \in Tabs |-> None] /\ line = [b \in Tabs |-> None]
  /\ sent = [l \in Lines |-> None]
  /\ left = FALSE /\ cut = {}

ClientNext ==
  \/ SignIn \/ SignedIn \/ SignOut \/ SignedOut \/ SignOutCut
  \/ \E c \in Calls :
       Send(c) \/ Succeed(c) \/ LoseCall(c) \/ GiveUp(c) \/ Wait(c) \/ NoToken(c) \/ Lead(c)
  \/ \E b \in Tabs : Load(b) \/ Receive(b) \/ LoseRefresh(b)
  \/ \E l \in Lines : Reach(l) \/ Drop(l)
  \/ AccessExpires
  \/ Server

ClientSpec == ClientInit /\ [][ClientNext]_clientVars

----------------------------------------------------------------------------
(* Properties. *)

(* "transparent refresh": a refresh is refused only when its token is over *)
(* seven days old, or when its session is one that a page load has cut: no *)
(* other reload, lost call or lost answer throws the user out.             *)
NeverRefused ==
  \A b \in Busy : LET l == line[b] IN
    pc[l] = "answered" /\ job[l].token = None =>
      sent[l] \in expired \/ Session(l) \in cut

(* While no tab refreshes and the user does not sign out, the token in     *)
(* localStorage is one the server will rotate, unless a page was loaded in *)
(* the middle of a refresh or a logout of its session.                     *)
StoreLive ==
  /\ Busy = {} /\ pc[SigningOut] = "idle"
  /\ store # None /\ family[store] \notin cut
  => store \notin revoked

(* The refreshes of a session that no page load has cut do not cross, so   *)
(* it has one live token at most, and none once it is over.                *)
UncutSessions ==
  \A f \in Families \ cut :
    /\ \A t, u \in Live(f) : t = u
    /\ f \in ended => Live(f) = {}

(* failedQueue is emptied whenever a refresh ends: no call waits in a tab  *)
(* that is not refreshing, and the call that made it refresh waits too.    *)
NoOrphans ==
  \A b \in Tabs : IF leader[b] = None THEN Waiting(b) = {} ELSE leader[b] \in Waiting(b)

(* A user who has signed out stays out until the next login.               *)
LeftStaysOut == left => store = None
=============================================================================
