------------------------------- MODULE Profile -------------------------------
(***************************************************************************)
(* The profile page of one user: the row, the file of the photo, and the   *)
(* user kept in the store of the tab                                       *)
(* (backend/src/profile/profile.service.ts and profile.controller.ts,      *)
(* frontend/src/app/dashboard/profile/page.tsx).                           *)
(*                                                                         *)
(* Photos are numbered as they are stored.  The three fields of the form   *)
(* are one text, numbered as it is saved; an address that is taken is one  *)
(* of the ways in which a request fails.                                   *)
(***************************************************************************)
EXTENDS Naturals

CONSTANTS
  Asks,    \* requests of the page that may be in flight at the same time
  MaxAsks  \* bound on the requests

ASSUME ProfileAssumption == MaxAsks \in Nat

VARIABLES
  account,     \* the row: its text and its photo, 0 for none
  me,          \* the user in the store
  photos,      \* the photos on the disk
  ask,         \* ask[r]: what request r is about, and how far it is
  busy,        \* isSaving, isUploading and isRemoving: those that are set
  asked,       \* requests so far, which number the photos and the texts
  changes,     \* changes of the row so far
  overlapped,  \* two requests about the photo were in flight at once
  torn,        \* a request about the photo failed, or could not unlink
  behind       \* the store was given another row than the newest

flags       == <<overlapped, torn, behind>>
profileVars == <<account, me, photos, ask, busy, asked, changes, flags>>

Blank == [text |-> 0, photo |-> 0]
NoAsk == [kind |-> "none", stage |-> "idle", item |-> 0, old |-> 0, row |-> Blank, at |-> 0]

PhotoAsks == {r \in Asks : ask[r].kind \in {"upload", "remove"}}
Serving   == {r \in Asks : ask[r].stage \notin {"idle", "answered"}}

----------------------------------------------------------------------------
(* The page.  A form is saved once at a time, and a photo is not removed   *)
(* while one is uploaded; the camera is never locked.                      *)

BeginAsk(r, kind, stage) ==
  /\ ask[r].stage = "idle" /\ asked < MaxAsks
  /\ asked' = asked + 1
  /\ ask' = [ask EXCEPT ![r] = [NoAsk EXCEPT !.kind = kind, !.stage = stage, !.item = asked + 1]]
  /\ busy' = busy \cup {kind}

SaveForm(r) ==
  /\ "save" \notin busy
  /\ BeginAsk(r, "save", "write")
  /\ UNCHANGED <<account, me, photos, changes, flags>>

\* The photo is on the disk before its handler begins.
UploadPhoto(r) ==
  /\ BeginAsk(r, "upload", "read")
  /\ photos' = photos \cup {asked + 1}
  /\ overlapped' = (overlapped \/ PhotoAsks \cap Serving # {})
  /\ UNCHANGED <<account, me, changes, torn, behind>>

CanRemove == me.photo # 0 /\ busy \cap {"upload", "remove"} = {}

RemovePhoto(r) ==
  /\ CanRemove
  /\ BeginAsk(r, "remove", "read")
  /\ overlapped' = (overlapped \/ PhotoAsks \cap Serving # {})
  /\ UNCHANGED <<account, me, photos, changes, torn, behind>>

----------------------------------------------------------------------------
(* updateAvatar and deleteAvatar: look, unlink what was there, write.      *)

ReadPhoto(r) ==
  /\ ask[r].stage = "read"
  /\ ask' = [ask EXCEPT ![r].stage = "unlink", ![r].old = account.photo]
  /\ UNCHANGED <<account, me, photos, busy, asked, changes, flags>>

\* deleteLocalAvatarFile: an unlink that fails is only warned about.
UnlinkPhoto(r) ==
  /\ ask[r].stage = "unlink"
  /\ ask' = [ask EXCEPT ![r].stage = "write"]
  /\ \/ photos' = photos \ {ask[r].old} /\ UNCHANGED torn
     \/ ask[r].old \in photos /\ torn' = TRUE /\ UNCHANGED photos
  /\ UNCHANGED <<account, me, busy, asked, changes, overlapped, behind>>

\* What request r makes of the row; the other columns are left alone.
Updated(r) ==
  CASE ask[r].kind = "save"   -> [account EXCEPT !.text = ask[r].item]
    [] ask[r].kind = "upload" -> [account EXCEPT !.photo = ask[r].item]
    [] ask[r].kind = "remove" -> [account EXCEPT !.photo = 0]

WriteAccount(r) ==
  /\ ask[r].stage = "write"
  /\ account' = Updated(r)
  /\ changes' = changes + 1
  /\ ask' = [ask EXCEPT ![r].stage = "answered", ![r].row = Updated(r), ![r].at = changes + 1]
  /\ UNCHANGED <<me, photos, busy, asked, flags>>

----------------------------------------------------------------------------
(* What the page does with an answer.  One that is late puts an older row  *)
(* into the store; one that is lost is an error like any other.            *)

\* Variant: the photo alone is taken from the answer.
TakePhoto(r) ==
  /\ ask[r].stage = "answered"
  /\ me' = [me EXCEPT !.photo = ask[r].row.photo]
  /\ behind' = (ask[r].at # changes)
  /\ busy' = busy \ {ask[r].kind}
  /\ ask' = [ask EXCEPT ![r] = NoAsk]
  /\ UNCHANGED <<account, photos, asked, changes, overlapped, torn>>

TakeAnswer(r) ==
  /\ ask[r].stage = "answered"
  /\ me' = ask[r].row
  /\ behind' = (ask[r].at # changes)
  /\ busy' = busy \ {ask[r].kind}
  /\ ask' = [ask EXCEPT ![r] = NoAsk]
  /\ UNCHANGED <<account, photos, asked, changes, overlapped, torn>>

AskFails(r) ==
  /\ ask[r].stage # "idle"
  /\ behind' = (behind \/ ask[r].stage = "answered")
  /\ torn' = (torn \/ r \in PhotoAsks \cap Serving)
  /\ busy' = busy \ {ask[r].kind}
  /\ ask' = [ask EXCEPT ![r] = NoAsk]
  /\ UNCHANGED <<account, me, photos, asked, changes, overlapped>>

ProfileInit ==
  /\ account = Blank /\ me = account
  /\ photos = {} /\ busy = {} /\ asked = 0 /\ changes = 0
  /\ ask = [r \in Asks |-> NoAsk]
  /\ overlapped = FALSE /\ torn = FALSE /\ behind = FALSE

ProfileNext ==
  \E r \in Asks :
    \/ SaveForm(r) \/ UploadPhoto(r) \/ RemovePhoto(r)
    \/ ReadPhoto(r) \/ UnlinkPhoto(r) \/ WriteAccount(r)
    \/ TakeAnswer(r) \/ AskFails(r)

ProfileSpec == ProfileInit /\ [][ProfileNext]_profileVars

----------------------------------------------------------------------------
(* Properties. *)

(* The photo of the row is on the disk, unless a request that has removed  *)
(* it is about to write, or failed there.  When nothing is in flight, it   *)
(* is the only photo on the disk, unless two requests about it overlapped  *)
(* or one failed, and the store holds the row, unless an answer was lost   *)
(* or came behind a newer one.                                             *)
ProfileStands ==
  /\ \/ account.photo \in photos \cup {0}
     \/ torn
     \/ \E r \in PhotoAsks : ask[r].stage = "write" /\ ask[r].old = account.photo
  /\ Serving = {} /\ ~overlapped /\ ~torn => photos = {account.photo} \ {0}
  /\ (\A r \in Asks : ask[r].stage = "idle") /\ ~behind => me = account
=============================================================================
