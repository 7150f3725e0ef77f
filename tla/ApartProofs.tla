----------------------------- MODULE ApartProofs -----------------------------
(* What Profile, ProjectCache and ChatRoom guarantee, which share nothing, *)
(* for every number of requests, users, readers, writers, tabs and         *)
(* messages, and every size of a page.                                     *)
EXTENDS Profile, ProjectCache, ChatRoom, FiniteSetTheorems, FunctionTheorems, SequenceTheorems, TLAPS

----------------------------------------------------------------------------
(* The profile page: the row, the disk and the store of the tab.           *)

Rows == [text : Nat, photo : Nat]

AskRecords ==
  [kind : {"none", "save", "upload", "remove"},
   stage : {"idle", "read", "unlink", "write", "answered"},
   item : Nat, old : Nat, row : Rows, at : Nat]

ProfileType ==
  /\ account \in Rows /\ me \in Rows
  /\ photos \subseteq Nat /\ 0 \notin photos
  /\ ask \in [Asks -> AskRecords]
  /\ asked \in Nat /\ changes \in Nat
  /\ overlapped \in BOOLEAN /\ torn \in BOOLEAN /\ behind \in BOOLEAN

\* The requests that will still write to the row.
PhotoServing == PhotoAsks \cap Serving
Uploading    == {r \in PhotoServing : ask[r].kind = "upload"}

(* A request that is under way is about something, and only one about the  *)
(* photo looks at it.                                                      *)
AsksSound ==
  \A r \in Asks :
    /\ ask[r].stage \in {"read", "unlink"} => ask[r].kind \in {"upload", "remove"}
    /\ ask[r].stage # "idle" => ask[r].kind # "none"
    /\ ask[r].item <= asked /\ ask[r].old <= asked
    /\ r \in Uploading => ask[r].item # 0

(* A photo that is being uploaded is on the disk, and nobody else has      *)
(* heard of it: not the row, nor another request.                          *)
UploadsFresh ==
  /\ account.photo <= asked
  /\ \A r \in Uploading :
       /\ ask[r].item \in photos /\ ask[r].item # account.photo
       /\ \A q \in Asks :
            /\ ask[q].old # ask[r].item
            /\ q # r /\ q \in Uploading => ask[q].item # ask[r].item

PhotoThere ==
  \/ account.photo \in photos \cup {0}
  \/ torn
  \/ \E r \in PhotoAsks : ask[r].stage = "write" /\ ask[r].old = account.photo

(* As long as nothing overlapped and nothing failed, the disk holds the    *)
(* photo of the row until it is unlinked, and the one that is uploaded.    *)
DiskExact ==
  ~overlapped /\ ~torn =>
    /\ \A q, r \in PhotoServing : q = r
    /\ \A r \in PhotoServing : ask[r].stage \in {"unlink", "write"} => ask[r].old = account.photo
    /\ photos = (IF \E r \in PhotoServing : ask[r].stage = "write" THEN {}
                 ELSE {account.photo} \ {0}) \cup {ask[r].item : r \in Uploading}

(* The store holds the row, or the answer that brings it is on its way.    *)
StoreFollows ==
  /\ \A r \in Asks : ask[r].stage = "answered" =>
       ask[r].at <= changes /\ (ask[r].at = changes => ask[r].row = account)
  /\ ~behind => \/ me = account
                \/ \E r \in Asks : ask[r].stage = "answered" /\ ask[r].at = changes

ProfileInv ==
  ProfileType /\ AsksSound /\ UploadsFresh /\ PhotoThere /\ DiskExact /\ StoreFollows

----------------------------------------------------------------------------
LEMMA BlankAsk == Blank \in Rows /\ NoAsk \in AskRecords
BY DEF Blank, NoAsk, Rows, AskRecords

LEMMA RowFields == \A row \in Rows : row.text \in Nat /\ row.photo \in Nat
BY DEF Rows

LEMMA ProfileInitInv == ProfileInit => ProfileInv
<1> SUFFICES ASSUME ProfileInit PROVE ProfileInv
  OBVIOUS
<1>1. ProfileType
  BY BlankAsk DEF ProfileInit, ProfileType
<1>2. /\ PhotoServing = {} /\ Uploading = {}
      /\ \A r \in Asks : ask[r] = NoAsk
  BY DEF ProfileInit, NoAsk, PhotoServing, PhotoAsks, Serving, Uploading
<1>3. AsksSound /\ UploadsFresh /\ PhotoThere /\ DiskExact /\ StoreFollows
  BY <1>2 DEF ProfileInit, AsksSound, UploadsFresh, PhotoThere, DiskExact, StoreFollows, NoAsk, Blank
<1> QED
  BY <1>1, <1>3 DEF ProfileInv

(* What a request that begins leaves of the others, and what it is.        *)
LEMMA Beginning ==
  ASSUME ProfileType, NEW r \in Asks, NEW kind \in {"save", "upload", "remove"},
         NEW stage \in {"read", "write"}, BeginAsk(r, kind, stage)
  PROVE  /\ ask' \in [Asks -> AskRecords] /\ asked' = asked + 1
         /\ ask[r].stage = "idle"
         /\ \A q \in Asks : q # r => ask'[q] = ask[q]
         /\ ask'[r].kind = kind /\ ask'[r].stage = stage
         /\ ask'[r].item = asked + 1 /\ ask'[r].old = 0
<1> DEFINE new == [NoAsk EXCEPT !.kind = kind, !.stage = stage, !.item = asked + 1]
<1>1. asked + 1 \in Nat
  BY DEF ProfileType
<1>2. \A a \in AskRecords, k \in {"save", "upload", "remove"}, t \in {"read", "write"}, n \in Nat :
        [a EXCEPT !.kind = k, !.stage = t, !.item = n] \in AskRecords
  BY DEF AskRecords
<1>3. new \in AskRecords
  BY <1>1, <1>2, BlankAsk
<1>4. new.kind = kind /\ new.stage = stage /\ new.item = asked + 1 /\ new.old = 0
  BY DEF NoAsk
<1>5. ask' = [ask EXCEPT ![r] = new] /\ asked' = asked + 1 /\ ask[r].stage = "idle"
  BY DEF BeginAsk
<1> HIDE DEF new
<1> QED
  BY <1>3, <1>4, <1>5 DEF ProfileType

(* What one step within a request leaves of the others, and what it sets.  *)
LEMMA Going ==
  ASSUME ProfileType, NEW r \in Asks, ReadPhoto(r) \/ UnlinkPhoto(r) \/ WriteAccount(r)
  PROVE  /\ \A q \in Asks : q # r => ask'[q] = ask[q]
         /\ ask'[r].kind = ask[r].kind /\ ask'[r].item = ask[r].item
         /\ ReadPhoto(r) => ask'[r].stage = "unlink" /\ ask'[r].old = account.photo
         /\ UnlinkPhoto(r) => ask'[r].stage = "write" /\ ask'[r].old = ask[r].old
         /\ WriteAccount(r) => /\ ask'[r].stage = "answered" /\ ask'[r].old = ask[r].old
                               /\ ask'[r].row = Updated(r) /\ ask'[r].at = changes + 1
BY DEF ProfileType, AskRecords, ReadPhoto, UnlinkPhoto, WriteAccount

(* A request that is over is gone.                                         *)
LEMMA Ending ==
  ASSUME ProfileType, NEW r \in Asks, TakeAnswer(r) \/ AskFails(r)
  PROVE  /\ \A q \in Asks : q # r => ask'[q] = ask[q]
         /\ ask'[r].kind = "none" /\ ask'[r].stage = "idle"
         /\ ask'[r].item = 0 /\ ask'[r].old = 0
BY DEF ProfileType, TakeAnswer, AskFails, NoAsk

LEMMA ProfileTypeStep == ProfileType /\ AsksSound /\ [ProfileNext]_profileVars => ProfileType'
<1> SUFFICES ASSUME ProfileType, AsksSound, [ProfileNext]_profileVars PROVE ProfileType'
  OBVIOUS
<1> USE BlankAsk DEF ProfileType, flags
<1>0. account.photo \in Nat
  BY RowFields
<1>1. ASSUME NEW r \in Asks, SaveForm(r) PROVE ProfileType'
  <2>1. ask' \in [Asks -> AskRecords] /\ asked' \in Nat
    BY <1>1, Beginning DEF SaveForm
  <2> QED
    BY <1>1, <2>1 DEF SaveForm
<1>2. ASSUME NEW r \in Asks, UploadPhoto(r) PROVE ProfileType'
  <2>1. ask' \in [Asks -> AskRecords] /\ asked' \in Nat
    BY <1>2, Beginning DEF UploadPhoto
  <2> QED
    BY <1>2, <2>1 DEF UploadPhoto
<1>3. ASSUME NEW r \in Asks, RemovePhoto(r) PROVE ProfileType'
  <2>1. ask' \in [Asks -> AskRecords] /\ asked' \in Nat
    BY <1>3, Beginning DEF RemovePhoto
  <2> QED
    BY <1>3, <2>1 DEF RemovePhoto
<1>4. ASSUME NEW r \in Asks, ReadPhoto(r) PROVE ProfileType'
  <2>1. ask' \in [Asks -> AskRecords]
    BY <1>4, <1>0, ZenonT(60) DEF ReadPhoto, AskRecords
  <2> QED
    BY <1>4, <2>1 DEF ReadPhoto
<1>5. ASSUME NEW r \in Asks, UnlinkPhoto(r) PROVE ProfileType'
  <2>1. ask' \in [Asks -> AskRecords]
    BY <1>5 DEF UnlinkPhoto, AskRecords
  <2> QED
    BY <1>5, <2>1 DEF UnlinkPhoto
<1>6. ASSUME NEW r \in Asks, WriteAccount(r) PROVE ProfileType'
  <2>1. ask[r].item \in Nat /\ ask[r].kind \in {"none", "save", "upload", "remove"}
    BY DEF AskRecords
  <2>2. Updated(r) \in Rows
    BY <1>6, <2>1 DEF WriteAccount, Updated, AsksSound, Rows
  <2>0. \A a \in AskRecords, row \in Rows, n \in Nat :
          [a EXCEPT !.stage = "answered", !.row = row, !.at = n] \in AskRecords
    BY DEF AskRecords
  <2>3. [ask[r] EXCEPT !.stage = "answered", !.row = Updated(r), !.at = changes + 1] \in AskRecords
    <3>1. ask[r] \in AskRecords /\ changes + 1 \in Nat
      OBVIOUS
    <3> QED
      BY <2>0, <2>2, <3>1
  <2>4. ask' = [ask EXCEPT ![r] = [ask[r] EXCEPT !.stage = "answered", !.row = Updated(r), !.at = changes + 1]]
    BY <1>6 DEF WriteAccount
  <2> QED
    BY <1>6, <2>2, <2>3, <2>4 DEF WriteAccount
<1>7. ASSUME NEW r \in Asks, TakeAnswer(r) PROVE ProfileType'
  <2>1. ask[r].row \in Rows
    BY DEF AskRecords
  <2> QED
    BY <1>7, <2>1 DEF TakeAnswer
<1>8. ASSUME NEW r \in Asks, AskFails(r) PROVE ProfileType'
  BY <1>8 DEF AskFails
<1>9. CASE UNCHANGED profileVars
  BY <1>9 DEF profileVars
<1> QED
  BY <1>1, <1>2, <1>3, <1>4, <1>5, <1>6, <1>7, <1>8, <1>9 DEF ProfileNext

----------------------------------------------------------------------------
(* ProfileInv is inductive: one lemma for every action.                    *)

PhotoUnderWay(a) == a.kind \in {"upload", "remove"} /\ a.stage \in {"read", "unlink", "write"}

LEMMA AskFields ==
  ASSUME ProfileType
  PROVE  /\ account.photo \in Nat
         /\ \A q \in Asks : /\ ask[q].item \in Nat /\ ask[q].old \in Nat /\ ask[q].at \in Nat
                            /\ ask[q].stage \in {"idle", "read", "unlink", "write", "answered"}
BY RowFields DEF ProfileType, AskRecords

LEMMA ServingIs ==
  ASSUME ProfileType
  PROVE  PhotoServing = {q \in Asks : PhotoUnderWay(ask[q])}
BY AskFields DEF PhotoServing, PhotoAsks, Serving, PhotoUnderWay

LEMMA ServingNext ==
  ASSUME ProfileType'
  PROVE  PhotoServing' = {q \in Asks : PhotoUnderWay(ask'[q])}
<1>1. \A q \in Asks : ask'[q].stage \in {"idle", "read", "unlink", "write", "answered"}
  BY DEF ProfileType, AskRecords
<1> QED
  BY <1>1 DEF PhotoServing, PhotoAsks, Serving, PhotoUnderWay

LEMMA SaveFormStep ==
  ASSUME ProfileInv, ProfileType', NEW r \in Asks, SaveForm(r)
  PROVE  ProfileInv'
<1> USE DEF ProfileInv
<1>0. /\ PhotoServing = {q \in Asks : PhotoUnderWay(ask[q])}
      /\ PhotoServing' = {q \in Asks : PhotoUnderWay(ask'[q])}
      /\ account.photo \in Nat /\ asked \in Nat /\ changes \in Nat
      /\ \A q \in Asks : ask[q].item \in Nat /\ ask[q].old \in Nat /\ ask[q].at \in Nat
  BY ServingIs, ServingNext, AskFields DEF ProfileType
<1>1. /\ UNCHANGED <<account, me, photos, changes, flags>>
      /\ BeginAsk(r, "save", "write")
  BY DEF SaveForm
<1>2. /\ asked' = asked + 1 /\ ask[r].stage = "idle"
      /\ \A q \in Asks : q # r => ask'[q] = ask[q]
      /\ ask'[r].kind = "save" /\ ask'[r].stage = "write"
      /\ ask'[r].item = asked + 1 /\ ask'[r].old = 0
  BY <1>1, Beginning
<1>3. PhotoServing' = PhotoServing /\ Uploading' = Uploading /\ r \notin PhotoServing
  BY <1>0, <1>2 DEF PhotoUnderWay, Uploading
<1>4. AsksSound'
  BY <1>0, <1>2, <1>3 DEF AsksSound, Uploading
<1>5. UploadsFresh'
  BY <1>0, <1>1, <1>2, <1>3 DEF UploadsFresh, Uploading, AsksSound
<1>6. PhotoThere'
  BY <1>0, <1>1, <1>2, <1>3 DEF PhotoThere, PhotoAsks, flags
<1>7. DiskExact'
  BY <1>0, <1>1, <1>2, <1>3 DEF DiskExact, Uploading, flags
<1>8. StoreFollows'
  BY <1>0, <1>1, <1>2 DEF StoreFollows, flags
<1> QED
  BY <1>4, <1>5, <1>6, <1>7, <1>8

LEMMA UploadPhotoStep ==
  ASSUME ProfileInv, ProfileType', NEW r \in Asks, UploadPhoto(r)
  PROVE  ProfileInv'
<1> USE DEF ProfileInv
<1>0. /\ PhotoServing = {q \in Asks : PhotoUnderWay(ask[q])}
      /\ PhotoServing' = {q \in Asks : PhotoUnderWay(ask'[q])}
      /\ account.photo \in Nat /\ asked \in Nat /\ changes \in Nat
      /\ \A q \in Asks : ask[q].item \in Nat /\ ask[q].old \in Nat /\ ask[q].at \in Nat
  BY ServingIs, ServingNext, AskFields DEF ProfileType
<1>1. /\ UNCHANGED <<account, me, changes, torn, behind>>
      /\ BeginAsk(r, "upload", "read")
      /\ photos' = photos \cup {asked + 1}
      /\ overlapped' = (overlapped \/ PhotoServing # {})
  BY DEF UploadPhoto, PhotoServing
<1>2. /\ asked' = asked + 1 /\ ask[r].stage = "idle"
      /\ \A q \in Asks : q # r => ask'[q] = ask[q]
      /\ ask'[r].kind = "upload" /\ ask'[r].stage = "read"
      /\ ask'[r].item = asked + 1 /\ ask'[r].old = 0
  BY <1>1, Beginning
<1>3. /\ PhotoServing' = PhotoServing \cup {r} /\ Uploading' = Uploading \cup {r}
      /\ r \notin PhotoServing
  BY <1>0, <1>2 DEF PhotoUnderWay, Uploading
<1>4. AsksSound'
  BY <1>0, <1>2, <1>3 DEF AsksSound, Uploading
<1>5. UploadsFresh'
  BY <1>0, <1>1, <1>2, <1>3 DEF UploadsFresh, Uploading, AsksSound
<1>6. PhotoThere'
  BY <1>0, <1>1, <1>2, <1>3 DEF PhotoThere, PhotoAsks
<1>7. DiskExact'
  <2> SUFFICES ASSUME ~overlapped', ~torn' PROVE DiskExact!2'
    BY DEF DiskExact
  <2>1. PhotoServing = {} /\ Uploading = {} /\ photos = {account.photo} \ {0}
    BY <1>1 DEF DiskExact, Uploading
  <2>2. PhotoServing' = {r} /\ Uploading' = {r}
    BY <1>3, <2>1
  <2>3. photos' = ({account'.photo} \ {0}) \cup {ask'[q].item : q \in Uploading'}
    BY <1>1, <1>2, <2>1, <2>2
  <2> QED
    BY <1>2, <2>2, <2>3
<1>8. StoreFollows'
  BY <1>0, <1>1, <1>2 DEF StoreFollows
<1> QED
  BY <1>4, <1>5, <1>6, <1>7, <1>8

LEMMA RemovePhotoStep ==
  ASSUME ProfileInv, ProfileType', NEW r \in Asks, RemovePhoto(r)
  PROVE  ProfileInv'
<1> USE DEF ProfileInv
<1>0. /\ PhotoServing = {q \in Asks : PhotoUnderWay(ask[q])}
      /\ PhotoServing' = {q \in Asks : PhotoUnderWay(ask'[q])}
      /\ account.photo \in Nat /\ asked \in Nat /\ changes \in Nat
      /\ \A q \in Asks : ask[q].item \in Nat /\ ask[q].old \in Nat /\ ask[q].at \in Nat
  BY ServingIs, ServingNext, AskFields DEF ProfileType
<1>1. /\ UNCHANGED <<account, me, photos, changes, torn, behind>>
      /\ BeginAsk(r, "remove", "read")
      /\ overlapped' = (overlapped \/ PhotoServing # {})
  BY DEF RemovePhoto, PhotoServing
<1>2. /\ asked' = asked + 1 /\ ask[r].stage = "idle"
      /\ \A q \in Asks : q # r => ask'[q] = ask[q]
      /\ ask'[r].kind = "remove" /\ ask'[r].stage = "read"
      /\ ask'[r].item = asked + 1 /\ ask'[r].old = 0
  BY <1>1, Beginning
<1>3. /\ PhotoServing' = PhotoServing \cup {r} /\ Uploading' = Uploading
      /\ r \notin PhotoServing
  BY <1>0, <1>2 DEF PhotoUnderWay, Uploading
<1>4. AsksSound'
  BY <1>0, <1>2, <1>3 DEF AsksSound, Uploading
<1>5. UploadsFresh'
  BY <1>0, <1>1, <1>2, <1>3 DEF UploadsFresh, Uploading, AsksSound
<1>6. PhotoThere'
  BY <1>0, <1>1, <1>2, <1>3 DEF PhotoThere, PhotoAsks
<1>7. DiskExact'
  <2> SUFFICES ASSUME ~overlapped', ~torn' PROVE DiskExact!2'
    BY DEF DiskExact
  <2>1. PhotoServing = {} /\ Uploading = {} /\ photos = {account.photo} \ {0}
    BY <1>1 DEF DiskExact, Uploading
  <2>2. PhotoServing' = {r} /\ Uploading' = {}
    BY <1>3, <2>1
  <2>3. photos' = ({account'.photo} \ {0}) \cup {ask'[q].item : q \in Uploading'}
    BY <1>1, <1>2, <2>1, <2>2
  <2> QED
    BY <1>2, <2>2, <2>3
<1>8. StoreFollows'
  BY <1>0, <1>1, <1>2 DEF StoreFollows
<1> QED
  BY <1>4, <1>5, <1>6, <1>7, <1>8

LEMMA ReadPhotoStep ==
  ASSUME ProfileInv, ProfileType', NEW r \in Asks, ReadPhoto(r)
  PROVE  ProfileInv'
<1> USE DEF ProfileInv
<1>0. /\ PhotoServing = {q \in Asks : PhotoUnderWay(ask[q])}
      /\ PhotoServing' = {q \in Asks : PhotoUnderWay(ask'[q])}
      /\ account.photo \in Nat /\ asked \in Nat /\ changes \in Nat
      /\ \A q \in Asks : ask[q].item \in Nat /\ ask[q].old \in Nat /\ ask[q].at \in Nat
  BY ServingIs, ServingNext, AskFields DEF ProfileType
<1>1. /\ UNCHANGED <<account, me, photos, asked, changes, overlapped, torn, behind>>
      /\ ask[r].stage = "read" /\ ask[r].kind \in {"upload", "remove"}
  BY DEF ReadPhoto, flags, AsksSound
<1>2. /\ \A q \in Asks : q # r => ask'[q] = ask[q]
      /\ ask'[r].kind = ask[r].kind /\ ask'[r].item = ask[r].item
      /\ ask'[r].stage = "unlink" /\ ask'[r].old = account.photo
  BY Going
<1>3. PhotoServing' = PhotoServing /\ Uploading' = Uploading /\ r \in PhotoServing
  BY <1>0, <1>1, <1>2 DEF PhotoUnderWay, Uploading
<1>4. AsksSound'
  BY <1>0, <1>1, <1>2, <1>3 DEF AsksSound, Uploading, UploadsFresh
<1>5. UploadsFresh'
  BY <1>0, <1>1, <1>2, <1>3 DEF UploadsFresh, Uploading
<1>6. PhotoThere'
  BY <1>0, <1>1, <1>2, <1>3 DEF PhotoThere, PhotoAsks
<1>7. DiskExact'
  <2> SUFFICES ASSUME ~overlapped', ~torn' PROVE DiskExact!2'
    BY DEF DiskExact
  <2>1. {ask'[q].item : q \in Uploading'} = {ask[q].item : q \in Uploading}
    BY <1>0, <1>2, <1>3 DEF Uploading
  <2>2. (\E q \in PhotoServing : ask[q].stage = "write")
          <=> (\E q \in PhotoServing' : ask'[q].stage = "write")
    BY <1>0, <1>1, <1>2, <1>3
  <2> QED
    BY <1>1, <1>2, <1>3, <2>1, <2>2 DEF DiskExact
<1>8. StoreFollows'
  BY <1>0, <1>1, <1>2 DEF StoreFollows
<1> QED
  BY <1>4, <1>5, <1>6, <1>7, <1>8

LEMMA UnlinkPhotoStep ==
  ASSUME ProfileInv, ProfileType', NEW r \in Asks, UnlinkPhoto(r)
  PROVE  ProfileInv'
<1> USE DEF ProfileInv
<1>0. /\ PhotoServing = {q \in Asks : PhotoUnderWay(ask[q])}
      /\ PhotoServing' = {q \in Asks : PhotoUnderWay(ask'[q])}
      /\ account.photo \in Nat /\ asked \in Nat /\ changes \in Nat
      /\ \A q \in Asks : ask[q].item \in Nat /\ ask[q].old \in Nat /\ ask[q].at \in Nat
  BY ServingIs, ServingNext, AskFields DEF ProfileType
<1>1. /\ UNCHANGED <<account, me, asked, changes, overlapped, behind>>
      /\ ask[r].stage = "unlink" /\ ask[r].kind \in {"upload", "remove"}
      /\ \/ photos' = photos \ {ask[r].old} /\ UNCHANGED torn
         \/ torn' /\ UNCHANGED photos
  BY DEF UnlinkPhoto, AsksSound
<1>2. /\ \A q \in Asks : q # r => ask'[q] = ask[q]
      /\ ask'[r].kind = ask[r].kind /\ ask'[r].item = ask[r].item
      /\ ask'[r].stage = "write" /\ ask'[r].old = ask[r].old
  BY Going
<1>3. PhotoServing' = PhotoServing /\ Uploading' = Uploading /\ r \in PhotoServing
  BY <1>0, <1>1, <1>2 DEF PhotoUnderWay, Uploading
<1>4. AsksSound'
  BY <1>0, <1>1, <1>2, <1>3 DEF AsksSound, Uploading
<1>5. UploadsFresh'
  BY <1>0, <1>1, <1>2, <1>3 DEF UploadsFresh, Uploading
<1>6. PhotoThere'
  <2>1. r \in PhotoAsks'
    BY <1>1, <1>2 DEF PhotoAsks
  <2>2. \A q \in PhotoAsks : ask[q].stage = "write" => q \in PhotoAsks' /\ ask'[q] = ask[q]
    BY <1>1, <1>2 DEF PhotoAsks
  <2> QED
    BY <1>1, <1>2, <2>1, <2>2 DEF PhotoThere
<1>7. DiskExact'
  <2> SUFFICES ASSUME ~overlapped', ~torn' PROVE DiskExact!2'
    BY DEF DiskExact
  <2>1. /\ PhotoServing = {r} /\ ask[r].old = account.photo
        /\ photos' = photos \ {account.photo}
        /\ photos = ({account.photo} \ {0}) \cup {ask[q].item : q \in Uploading}
    BY <1>1, <1>3 DEF DiskExact
  <2>2. {ask'[q].item : q \in Uploading'} = {ask[q].item : q \in Uploading}
    BY <1>0, <1>2, <1>3 DEF Uploading
  <2>3. account.photo \notin {ask[q].item : q \in Uploading}
    BY DEF UploadsFresh
  <2>4. photos' = {ask'[q].item : q \in Uploading'}
    BY <2>1, <2>2, <2>3
  <2> QED
    BY <1>1, <1>2, <1>3, <2>1, <2>4
<1>8. StoreFollows'
  BY <1>0, <1>1, <1>2 DEF StoreFollows
<1> QED
  BY <1>4, <1>5, <1>6, <1>7, <1>8

LEMMA WriteAccountStep ==
  ASSUME ProfileInv, ProfileType', NEW r \in Asks, WriteAccount(r)
  PROVE  ProfileInv'
<1> USE DEF ProfileInv
<1>0. /\ PhotoServing = {q \in Asks : PhotoUnderWay(ask[q])}
      /\ PhotoServing' = {q \in Asks : PhotoUnderWay(ask'[q])}
      /\ account.photo \in Nat /\ asked \in Nat /\ changes \in Nat
      /\ \A q \in Asks : ask[q].item \in Nat /\ ask[q].old \in Nat /\ ask[q].at \in Nat
  BY ServingIs, ServingNext, AskFields DEF ProfileType
<1>1. /\ UNCHANGED <<me, photos, asked, overlapped, torn, behind>>
      /\ ask[r].stage = "write" /\ ask[r].kind \in {"save", "upload", "remove"}
      /\ account' = Updated(r) /\ changes' = changes + 1
  BY DEF WriteAccount, flags, AsksSound, ProfileType, AskRecords
<1>2. /\ \A q \in Asks : q # r => ask'[q] = ask[q]
      /\ ask'[r].kind = ask[r].kind /\ ask'[r].item = ask[r].item
      /\ ask'[r].stage = "answered" /\ ask'[r].old = ask[r].old
      /\ ask'[r].row = account' /\ ask'[r].at = changes'
  BY <1>1, Going
<1>3. account'.photo = CASE ask[r].kind = "save"   -> account.photo
                         [] ask[r].kind = "upload" -> ask[r].item
                         [] ask[r].kind = "remove" -> 0
  BY <1>1 DEF Updated, ProfileType, Rows
<1>4. PhotoServing' = PhotoServing \ {r} /\ Uploading' = Uploading \ {r}
  BY <1>0, <1>2 DEF PhotoUnderWay, Uploading
<1>5. r \in PhotoServing <=> ask[r].kind # "save"
  BY <1>0, <1>1 DEF PhotoUnderWay
<1>6. AsksSound'
  BY <1>0, <1>1, <1>2, <1>4 DEF AsksSound, Uploading
<1>7. UploadsFresh'
  <2>1. account'.photo <= asked'
    BY <1>0, <1>1, <1>3 DEF UploadsFresh, AsksSound
  <2>2. ASSUME NEW q \in Uploading' PROVE account'.photo # ask'[q].item
    <3>1. q \in Uploading /\ q # r /\ ask'[q] = ask[q] /\ ask[q].item # 0
      BY <1>2, <1>4, <2>2 DEF Uploading, PhotoServing, PhotoAsks, AsksSound
    <3> QED
      BY <1>1, <1>3, <1>5, <3>1 DEF UploadsFresh, Uploading
  <2> QED
    BY <1>0, <1>1, <1>2, <1>4, <2>1, <2>2 DEF UploadsFresh, Uploading
<1>8. PhotoThere'
  <2>1. CASE ask[r].kind = "save"
    <3>1. \A q \in PhotoAsks : q # r /\ q \in PhotoAsks' /\ ask'[q] = ask[q]
      BY <1>2, <2>1 DEF PhotoAsks
    <3> QED
      BY <1>1, <1>3, <2>1, <3>1 DEF PhotoThere
  <2>2. CASE ask[r].kind = "upload"
    BY <1>1, <1>3, <1>5, <2>2 DEF PhotoThere, UploadsFresh, Uploading
  <2>3. CASE ask[r].kind = "remove"
    BY <1>3, <2>3 DEF PhotoThere
  <2> QED
    BY <1>1, <2>1, <2>2, <2>3
<1>9. DiskExact'
  <2> SUFFICES ASSUME ~overlapped', ~torn' PROVE DiskExact!2'
    BY DEF DiskExact
  <2>0. DiskExact!2
    BY <1>1 DEF DiskExact
  <2>1. CASE ask[r].kind = "save"
    <3>1. /\ PhotoServing' = PhotoServing /\ Uploading' = Uploading
          /\ account'.photo = account.photo
          /\ \A q \in PhotoServing : ask'[q] = ask[q]
      BY <1>0, <1>2, <1>3, <1>4, <1>5, <2>1 DEF Uploading
    <3>2. {ask'[q].item : q \in Uploading'} = {ask[q].item : q \in Uploading}
      BY <3>1 DEF Uploading
    <3> QED
      BY <1>1, <2>0, <3>1, <3>2
  <2>2. CASE ask[r].kind # "save"
    <3>1. PhotoServing = {r} /\ PhotoServing' = {} /\ Uploading' = {}
      BY <1>4, <1>5, <2>0, <2>2 DEF Uploading
    <3>2. photos = {ask[q].item : q \in Uploading}
      BY <1>1, <2>0, <3>1
    <3>3. photos = {account'.photo} \ {0}
      <4>1. CASE ask[r].kind = "upload"
        BY <1>3, <3>1, <3>2, <4>1 DEF Uploading, AsksSound
      <4>2. CASE ask[r].kind = "remove"
        BY <1>3, <3>1, <3>2, <4>2 DEF Uploading
      <4> QED
        BY <1>1, <2>2, <4>1, <4>2
    <3> QED
      BY <1>1, <3>1, <3>3
  <2> QED
    BY <2>1, <2>2
<1>10. StoreFollows'
  BY <1>0, <1>1, <1>2 DEF StoreFollows
<1> QED
  BY <1>6, <1>7, <1>8, <1>9, <1>10

LEMMA TakeAnswerStep ==
  ASSUME ProfileInv, ProfileType', NEW r \in Asks, TakeAnswer(r)
  PROVE  ProfileInv'
<1> USE DEF ProfileInv
<1>0. /\ PhotoServing = {q \in Asks : PhotoUnderWay(ask[q])}
      /\ PhotoServing' = {q \in Asks : PhotoUnderWay(ask'[q])}
      /\ account.photo \in Nat /\ asked \in Nat /\ changes \in Nat
      /\ \A q \in Asks : ask[q].item \in Nat /\ ask[q].old \in Nat /\ ask[q].at \in Nat
  BY ServingIs, ServingNext, AskFields DEF ProfileType
<1>1. /\ UNCHANGED <<account, photos, asked, changes, overlapped, torn>>
      /\ ask[r].stage = "answered"
      /\ me' = ask[r].row /\ behind' = (ask[r].at # changes)
  BY DEF TakeAnswer
<1>2. /\ \A q \in Asks : q # r => ask'[q] = ask[q]
      /\ ask'[r].kind = "none" /\ ask'[r].stage = "idle"
      /\ ask'[r].item = 0 /\ ask'[r].old = 0
  BY Ending
<1>3. PhotoServing' = PhotoServing /\ Uploading' = Uploading /\ r \notin PhotoServing
  BY <1>0, <1>1, <1>2 DEF PhotoUnderWay, Uploading
<1>4. AsksSound'
  BY <1>0, <1>1, <1>2, <1>3 DEF AsksSound, Uploading
<1>5. UploadsFresh'
  BY <1>0, <1>1, <1>2, <1>3 DEF UploadsFresh, Uploading, AsksSound
<1>6. PhotoThere'
  <2>1. \A q \in PhotoAsks : ask[q].stage = "write" => q \in PhotoAsks' /\ ask'[q] = ask[q]
    BY <1>1, <1>2 DEF PhotoAsks
  <2> QED
    BY <1>1, <2>1 DEF PhotoThere
<1>7. DiskExact'
  <2>1. \A q \in PhotoServing : q \in Asks /\ ask'[q] = ask[q]
    BY <1>0, <1>2, <1>3
  <2>2. {ask'[q].item : q \in Uploading'} = {ask[q].item : q \in Uploading}
    BY <1>3, <2>1 DEF Uploading
  <2> QED
    BY <1>1, <1>3, <2>1, <2>2 DEF DiskExact
<1>8. StoreFollows'
  BY <1>0, <1>1, <1>2 DEF StoreFollows
<1> QED
  BY <1>4, <1>5, <1>6, <1>7, <1>8

LEMMA AskFailsStep ==
  ASSUME ProfileInv, ProfileType', NEW r \in Asks, AskFails(r)
  PROVE  ProfileInv'
<1> USE DEF ProfileInv
<1>0. /\ PhotoServing = {q \in Asks : PhotoUnderWay(ask[q])}
      /\ PhotoServing' = {q \in Asks : PhotoUnderWay(ask'[q])}
      /\ account.photo \in Nat /\ asked \in Nat /\ changes \in Nat
      /\ \A q \in Asks : ask[q].item \in Nat /\ ask[q].old \in Nat /\ ask[q].at \in Nat
  BY ServingIs, ServingNext, AskFields DEF ProfileType
<1>1. /\ UNCHANGED <<account, me, photos, asked, changes, overlapped>>
      /\ behind' = (behind \/ ask[r].stage = "answered")
      /\ torn' = (torn \/ r \in PhotoServing)
  BY DEF AskFails, PhotoServing
<1>2. /\ \A q \in Asks : q # r => ask'[q] = ask[q]
      /\ ask'[r].kind = "none" /\ ask'[r].stage = "idle"
      /\ ask'[r].item = 0 /\ ask'[r].old = 0
  BY Ending
<1>3. PhotoServing' = PhotoServing \ {r} /\ Uploading' = Uploading \ {r}
  BY <1>0, <1>2 DEF PhotoUnderWay, Uploading
<1>4. AsksSound'
  BY <1>0, <1>1, <1>2, <1>3 DEF AsksSound, Uploading
<1>5. UploadsFresh'
  BY <1>0, <1>1, <1>2, <1>3 DEF UploadsFresh, Uploading, AsksSound
<1>6. PhotoThere'
  <2>1. r \in PhotoAsks /\ ask[r].stage = "write" => torn'
    BY <1>0, <1>1 DEF PhotoAsks, PhotoUnderWay
  <2>2. \A q \in PhotoAsks : q # r => q \in PhotoAsks' /\ ask'[q] = ask[q]
    BY <1>2 DEF PhotoAsks
  <2> QED
    BY <1>1, <2>1, <2>2 DEF PhotoThere
<1>7. DiskExact'
  <2> SUFFICES ASSUME ~overlapped', ~torn' PROVE DiskExact!2'
    BY DEF DiskExact
  <2>1. /\ PhotoServing' = PhotoServing /\ Uploading' = Uploading
        /\ \A q \in PhotoServing : q \in Asks /\ ask'[q] = ask[q]
    BY <1>0, <1>1, <1>2, <1>3 DEF Uploading
  <2>2. {ask'[q].item : q \in Uploading'} = {ask[q].item : q \in Uploading}
    BY <2>1 DEF Uploading
  <2> QED
    BY <1>1, <2>1, <2>2 DEF DiskExact
<1>8. StoreFollows'
  BY <1>0, <1>1, <1>2 DEF StoreFollows
<1> QED
  BY <1>4, <1>5, <1>6, <1>7, <1>8

LEMMA ProfileStep == ProfileInv /\ [ProfileNext]_profileVars => ProfileInv'
<1> SUFFICES ASSUME ProfileInv, [ProfileNext]_profileVars PROVE ProfileInv'
  OBVIOUS
<1>1. ProfileType'
  BY ProfileTypeStep DEF ProfileInv
<1>2. CASE UNCHANGED profileVars
  BY <1>1, <1>2 DEF profileVars, flags, ProfileInv, AsksSound, UploadsFresh, PhotoThere, DiskExact,
     StoreFollows, Uploading, PhotoServing, PhotoAsks, Serving
<1> QED
  BY <1>1, <1>2, SaveFormStep, UploadPhotoStep, RemovePhotoStep, ReadPhotoStep, UnlinkPhotoStep,
     WriteAccountStep, TakeAnswerStep, AskFailsStep DEF ProfileNext

(* The photo of the row, the disk and the store of the tab agree, but for  *)
(* what is under way and for the overlaps and failures that are named.     *)
THEOREM ProfileSettles == ProfileSpec => []ProfileStands
<1>1. ProfileInv => ProfileStands
  <2> SUFFICES ASSUME ProfileInv PROVE ProfileStands
    OBVIOUS
  <2> USE DEF ProfileInv
  <2>1. ProfileStands!1
    BY DEF PhotoThere
  <2>2. ProfileStands!2
    BY DEF DiskExact, PhotoServing, Uploading
  <2>3. ProfileStands!3
    BY DEF StoreFollows
  <2> QED
    BY <2>1, <2>2, <2>3 DEF ProfileStands
<1> QED
  BY <1>1, ProfileInitInv, ProfileStep, PTL DEF ProfileSpec

----------------------------------------------------------------------------
(* The cache of the service.                                               *)

Orders == Keys \cup {"lists", "project"}

CacheType ==
  /\ tasks \in Nat /\ name \in Nat
  /\ members \subseteq Users /\ IsFiniteSet(members) /\ (There => Admin \in members)
  /\ (name = 0 => tasks = 0 /\ ~There)
  /\ cache \in [Keys -> SUBSET [copy : Nat, raced : BOOLEAN]]
  /\ fill \in [Readers -> [stage : {"free", "missed", "read"}, key : Keys, copy : Nat, raced : BOOLEAN]]
  /\ todo \in [Writers -> Seq(Orders)]

\* Whether the entries of key k are still to be deleted.
Pending(k) == \E w \in Writers : k \in Due(w)

(* The lists come last: when their keys replace what is left to do,        *)
(* nothing else is forgotten.                                              *)
ListsLast ==
  \A w \in Writers : \A i \in DOMAIN todo[w] : todo[w][i] = "lists" => i = Len(todo[w])

(* The removal of the project comes first, and its statistics are among    *)
(* what comes after it.                                                    *)
ProjectFirst ==
  \A w \in Writers :
    /\ \A i \in DOMAIN todo[w] : todo[w][i] = "project" => i = 1
    /\ "project" \in Range(todo[w]) => Stats \in Range(todo[w])

(* What StaleIsRaced says of the entries, of the fills that have read.     *)
ReadIsRaced ==
  \A r \in Readers :
    fill[r].stage = "read" /\ fill[r].copy # Truth(fill[r].key) =>
      fill[r].raced \/ Pending(fill[r].key)

CacheInv == CacheType /\ ListsLast /\ ProjectFirst /\ ReadIsRaced /\ StaleIsRaced

----------------------------------------------------------------------------
(* SetToSeq lists the elements of a finite set, and nothing else.          *)
LEMMA SetToSeqRange ==
  ASSUME NEW S, IsFiniteSet(S)
  PROVE  /\ SetToSeq(S) \in Seq(S)
         /\ Range(SetToSeq(S)) = S
<1> DEFINE D == 1..Cardinality(S)
<1>1. Cardinality(S) \in Nat /\ ExistsBijection(D, S)
  BY FS_CardinalityType
<1>2. \E f \in [D -> S] : IsInjective(f)
  BY <1>1, Fun_ExistsBij, Fun_BijectionProperties DEF IsInjective
<1>3. SetToSeq(S) \in [D -> S] /\ IsInjective(SetToSeq(S))
  BY <1>2 DEF SetToSeq
<1>4. SetToSeq(S) \in Injection(D, S)
  BY <1>3 DEF Injection
<1>5. SetToSeq(S) \in Surjection(D, S)
  <2>1. IsFiniteSet(D) /\ Cardinality(D) = Cardinality(S)
    BY <1>1, FS_Interval
  <2> QED
    BY <1>4, <2>1, FS_Injection
<1>6. Range(SetToSeq(S)) = S
  BY <1>5, Fun_SurjectionProperties
<1>7. SetToSeq(S) \in Seq(S)
  BY <1>1, <1>3, SeqDef
<1> QED
  BY <1>6, <1>7

(* What a list of orders still says once its head is done.                 *)
LEMMA TailRange ==
  ASSUME NEW S, NEW s \in Seq(S), s # <<>>
  PROVE  /\ Head(s) \in S /\ Tail(s) \in Seq(S)
         /\ Range(s) = Range(Tail(s)) \cup {Head(s)}
<1>1. /\ Head(s) \in S /\ Tail(s) \in Seq(S) /\ Len(Tail(s)) = Len(s) - 1
      /\ Head(s) = s[1] /\ Len(s) \in Nat \ {0}
      /\ \A i \in 1..Len(Tail(s)) : Tail(s)[i] = s[i + 1]
  BY HeadTailProperties, EmptySeq
<1>2. DOMAIN s = 1..Len(s) /\ DOMAIN Tail(s) = 1..(Len(s) - 1)
  BY <1>1, LenProperties
<1>3. \A i \in 1..Len(s) : s[i] \in Range(Tail(s)) \cup {Head(s)}
  <2> TAKE i \in 1..Len(s)
  <2>1. CASE i = 1
    BY <1>1, <2>1
  <2>2. CASE i # 1
    <3>1. i - 1 \in 1..(Len(s) - 1) /\ Tail(s)[i - 1] = s[i]
      BY <1>1, <2>2
    <3> QED
      BY <1>2, <3>1 DEF Range
  <2> QED
    BY <2>1, <2>2
<1>4. \A i \in 1..(Len(s) - 1) : Tail(s)[i] \in Range(s)
  BY <1>1, <1>2 DEF Range
<1>5. Head(s) \in Range(s)
  BY <1>1, <1>2 DEF Range
<1> QED
  BY <1>1, <1>2, <1>3, <1>4, <1>5 DEF Range

LEMMA TupleRange ==
  \A a, b, c : /\ Range(<<a>>) = {a} /\ Range(<<a, b>>) = {a, b}
               /\ Range(<<a, b, c>>) = {a, b, c}
BY DEF Range

----------------------------------------------------------------------------
LEMMA CacheInitInv == CacheInit => CacheInv
<1> SUFFICES ASSUME CacheInit PROVE CacheInv
  OBVIOUS
<1>1. CacheType
  <2>1. members \subseteq Users /\ IsFiniteSet(members) /\ ~There
    BY FS_EmptySet DEF CacheInit, There
  <2>2. fill \in [Readers -> [stage : {"free", "missed", "read"}, key : Keys, copy : Nat,
                             raced : BOOLEAN]]
    BY DEF CacheInit, Free, Keys
  <2>3. todo \in [Writers -> Seq(Orders)] /\ cache \in [Keys -> SUBSET [copy : Nat, raced : BOOLEAN]]
    BY EmptySeq DEF CacheInit
  <2> QED
    BY <2>1, <2>2, <2>3 DEF CacheInit, CacheType
<1>2. ListsLast /\ ProjectFirst /\ ReadIsRaced /\ StaleIsRaced
  BY DEF CacheInit, ListsLast, ProjectFirst, ReadIsRaced, StaleIsRaced, Free, Range
<1> QED
  BY <1>1, <1>2 DEF CacheInv

(* What a step that leaves the database and the orders alone leaves.       *)
LEMMA QuietKeeps ==
  ASSUME CacheInv, UNCHANGED <<tasks, name, members, todo>>
  PROVE  /\ ListsLast' /\ ProjectFirst'
         /\ \A k : Truth(k)' = Truth(k) /\ (Pending(k) => Pending(k)')
<1>1. ListsLast' /\ ProjectFirst'
  BY DEF CacheInv, ListsLast, ProjectFirst
<1>2. \A k : Truth(k)' = Truth(k)
  BY DEF Truth, There
<1>3. \A w : Due(w)' = Due(w)
  BY DEF Due
<1> QED
  BY <1>1, <1>2, <1>3 DEF Pending

LEMMA MissStep ==
  ASSUME CacheInv, NEW r \in Readers, NEW k \in Keys, Miss(r, k)
  PROVE  CacheInv'
<1> USE DEF CacheInv
<1>1. /\ UNCHANGED <<tasks, name, members, cache, todo>>
      /\ fill' = [fill EXCEPT ![r] = [Free EXCEPT !.stage = "missed", !.key = k]]
  BY DEF Miss
<1>2. CacheType'
  BY <1>1 DEF CacheType, Free, There
<1>3. \A q \in Readers : fill'[q].stage = "read" => fill'[q] = fill[q]
  BY <1>1 DEF CacheType, Free
<1>4. ListsLast' /\ ProjectFirst' /\ ReadIsRaced' /\ StaleIsRaced'
  BY <1>1, <1>3, QuietKeeps DEF ReadIsRaced, StaleIsRaced, Pending
<1> QED
  BY <1>2, <1>4

LEMMA ReadRowsStep ==
  ASSUME CacheInv, NEW r \in Readers, ReadRows(r)
  PROVE  CacheInv'
<1> USE DEF CacheInv
<1>1. /\ UNCHANGED <<tasks, name, members, cache, todo>>
      /\ fill' = [fill EXCEPT ![r].stage = "read", ![r].copy = Truth(fill[r].key)]
  BY DEF ReadRows
<1>2. Truth(fill[r].key) \in Nat
  BY DEF CacheType, Truth, There
<1>3. CacheType'
  BY <1>1, <1>2 DEF CacheType, There
<1>4. /\ \A q \in Readers : q # r => fill'[q] = fill[q]
      /\ fill'[r].copy = Truth(fill'[r].key)
  BY <1>1 DEF CacheType
<1>5. ListsLast' /\ ProjectFirst' /\ StaleIsRaced'
  BY <1>1 DEF ListsLast, ProjectFirst, StaleIsRaced, Truth, There, Due
<1>6. ReadIsRaced'
  <2>1. \A k : Truth(k)' = Truth(k) /\ Pending(k)' = Pending(k)
    BY <1>1 DEF Truth, There, Pending, Due
  <2> QED
    BY <1>4, <2>1 DEF ReadIsRaced
<1> QED
  BY <1>3, <1>5, <1>6

LEMMA StoreStep ==
  ASSUME CacheInv, NEW r \in Readers, Store(r)
  PROVE  CacheInv'
<1> USE DEF CacheInv
<1>1. /\ UNCHANGED <<tasks, name, members, todo>>
      /\ fill[r].stage = "read"
      /\ cache' = [cache EXCEPT ![fill[r].key] = {[copy |-> fill[r].copy, raced |-> fill[r].raced]}]
      /\ fill' = [fill EXCEPT ![r] = Free]
  BY DEF Store
<1>2. CacheType'
  BY <1>1 DEF CacheType, Free, Keys, There
<1>3. \A q \in Readers : fill'[q].stage = "read" => fill'[q] = fill[q]
  BY <1>1 DEF CacheType, Free
<1>4. ListsLast' /\ ProjectFirst' /\ ReadIsRaced'
  BY <1>1, <1>3, QuietKeeps DEF ReadIsRaced
<1>5. StaleIsRaced'
  <2> SUFFICES ASSUME NEW k \in Keys, NEW e \in cache'[k], e.copy # Truth(k)'
               PROVE  e.raced \/ \E w \in Writers : k \in Due(w)'
    BY DEF StaleIsRaced
  <2>1. Truth(k)' = Truth(k) /\ \A w \in Writers : Due(w)' = Due(w)
    BY <1>1 DEF Truth, There, Due
  <2>2. CASE k = fill[r].key
    <3>1. e.copy = fill[r].copy /\ e.raced = fill[r].raced
      BY <1>1, <2>2 DEF CacheType
    <3> QED
      BY <1>1, <2>1, <2>2, <3>1 DEF ReadIsRaced, Pending
  <2>3. CASE k # fill[r].key
    BY <1>1, <2>1, <2>3 DEF CacheType, StaleIsRaced
  <2> QED
    BY <2>2, <2>3
<1> QED
  BY <1>2, <1>4, <1>5

LEMMA ReaderFailsStep ==
  ASSUME CacheInv, NEW r \in Readers, ReaderFails(r)
  PROVE  CacheInv'
<1> USE DEF CacheInv
<1>1. UNCHANGED <<tasks, name, members, cache, todo>> /\ fill' = [fill EXCEPT ![r] = Free]
  BY DEF ReaderFails
<1>2. CacheType'
  BY <1>1 DEF CacheType, Free, Keys, There
<1>3. \A q \in Readers : fill'[q].stage = "read" => fill'[q] = fill[q]
  BY <1>1 DEF CacheType, Free
<1> QED
  BY <1>1, <1>2, <1>3, QuietKeeps DEF ReadIsRaced, StaleIsRaced, Pending

LEMMA EntryExpiresStep ==
  ASSUME CacheInv, NEW k \in Keys, EntryExpires(k)
  PROVE  CacheInv'
<1> USE DEF CacheInv
<1>1. UNCHANGED <<tasks, name, members, fill, todo>> /\ cache' = [cache EXCEPT ![k] = {}]
  BY DEF EntryExpires
<1>2. CacheType'
  BY <1>1 DEF CacheType, There
<1>3. \A j \in Keys : cache'[j] \subseteq cache[j]
  BY <1>1 DEF CacheType
<1> QED
  BY <1>1, <1>2, <1>3, QuietKeeps DEF ReadIsRaced, StaleIsRaced, Pending

----------------------------------------------------------------------------
(* A writer that begins has nothing left to do, and takes on the keys of   *)
(* all entries whose truth it changes.                                     *)
LEMMA BeginStep ==
  ASSUME CacheInv, NEW w \in Writers, NEW keys \in Seq(Orders), Begin(w, keys),
         tasks' \in Nat, name' \in Nat, members' \subseteq Users, IsFiniteSet(members'),
         Admin \in members', name' # 0,
         \A i \in DOMAIN keys : keys[i] = "lists" => i = Len(keys),
         \A i \in DOMAIN keys : keys[i] = "project" => i = 1 /\ Stats \in Range(keys),
         \A k \in Keys : Truth(k)' # Truth(k) => k \in Due(w)',
         \A k \in members \ members' : k \in Due(w)'
  PROVE  CacheInv'
<1> USE DEF CacheInv
<1>1. /\ UNCHANGED <<cache, fill>> /\ todo[w] = <<>>
      /\ todo' = [todo EXCEPT ![w] = keys]
  BY DEF Begin
<1>2. CacheType'
  BY <1>1 DEF CacheType, There
<1>3. todo'[w] = keys /\ \A v \in Writers : v # w => todo'[v] = todo[v]
  BY <1>1 DEF CacheType
<1>4. ListsLast' /\ ProjectFirst'
  BY <1>3 DEF ListsLast, ProjectFirst, Range
<1>5. ASSUME NEW k \in Keys, Pending(k) PROVE Pending(k)'
  <2>1. PICK v \in Writers : k \in Due(v)
    BY <1>5 DEF Pending
  <2>2. v # w
    BY <1>1, <2>1 DEF Due, Range
  <2>5. "project" \notin Range(todo[v]) /\ todo'[v] = todo[v]
    BY <1>3, <2>1, <2>2 DEF Due
  <2>3. CASE k \in Range(todo[v])
    BY <2>3, <2>5 DEF Pending, Due
  <2>4. CASE "lists" \in Range(todo[v]) /\ k \in members
    BY <2>4, <2>5 DEF Pending, Due
  <2> QED
    BY <2>1, <2>3, <2>4, <2>5 DEF Due
<1>6. \A k \in Keys : Truth(k)' # Truth(k) => Pending(k)'
  BY DEF Pending
<1>7. StaleIsRaced'
  <2>1. \A k \in Keys : \A e \in cache[k] : e.copy # Truth(k) => e.raced \/ Pending(k)
    BY DEF StaleIsRaced, Pending
  <2>2. \A k \in Keys : \A e \in cache'[k] : e.copy # Truth(k)' => e.raced \/ Pending(k)'
    BY <1>1, <1>5, <1>6, <2>1
  <2> QED
    BY <2>2 DEF StaleIsRaced, Pending
<1>8. ReadIsRaced'
  <2>1. \A r \in Readers : fill[r].key \in Keys
    BY DEF CacheType
  <2> QED
    BY <1>1, <1>5, <1>6, <2>1 DEF ReadIsRaced
<1> QED
  BY <1>2, <1>4, <1>7, <1>8

LEMMA CreateStep ==
  ASSUME CacheInv, NEW w \in Writers, Create(w)
  PROVE  CacheInv'
<1> USE DEF CacheInv
<1> DEFINE keys == <<Admin>>
<1>1. Admin \in Orders /\ Admin # "lists" /\ Admin # "project" /\ Admin \in Users /\ Admin # Stats
  BY ProjectCacheAssumption DEF Orders, Keys
<1>2. /\ Begin(w, keys) /\ UNCHANGED tasks /\ name' = 1 /\ members' = {Admin}
      /\ todo'[w] = keys
  BY DEF Create, Begin, CacheType
<1>3. Admin \in Due(w)'
  <2>1. Admin \in Range(keys) /\ "project" \notin Range(keys)
    BY <1>1, TupleRange
  <2> QED
    BY <1>2, <2>1 DEF Due
<1>4. keys \in Seq(Orders) /\ \A i \in DOMAIN keys : keys[i] # "lists" /\ keys[i] # "project"
  BY <1>1
<1>5. name = 0 /\ tasks = 0 /\ members = {} /\ IsFiniteSet({Admin})
  BY FS_Singleton DEF Create, CacheType, There
<1>6. \A k \in Keys : k # Admin => Truth(k)' = Truth(k)
  BY <1>2, <1>5 DEF Truth, There
<1>9. /\ tasks' \in Nat /\ name' \in Nat /\ members' \subseteq Users /\ IsFiniteSet(members')
      /\ Admin \in members' /\ name' # 0
      /\ \A k \in Keys : Truth(k)' # Truth(k) => k \in Due(w)'
      /\ \A k \in members \ members' : k \in Due(w)'
  BY <1>1, <1>2, <1>3, <1>5, <1>6
<1> HIDE DEF keys
<1> QED
  BY <1>2, <1>4, <1>9, BeginStep

LEMMA WriteTaskStep ==
  ASSUME CacheInv, NEW w \in Writers, WriteTask(w)
  PROVE  CacheInv'
<1> USE DEF CacheInv
<1> DEFINE keys == <<Stats>>
<1>1. Stats \in Orders /\ Stats # "lists" /\ Stats # "project"
  BY ProjectCacheAssumption DEF Orders, Keys
<1>2. /\ Begin(w, keys) /\ tasks' = tasks + 1 /\ UNCHANGED <<name, members>>
      /\ todo'[w] = keys /\ There /\ Admin \in members /\ name # 0
  BY DEF WriteTask, Begin, CacheType
<1>3. Stats \in Due(w)'
  <2>1. Stats \in Range(keys) /\ "project" \notin Range(keys)
    BY <1>1, TupleRange
  <2> QED
    BY <1>2, <2>1 DEF Due
<1>4. \A k : k # Stats => Truth(k)' = Truth(k)
  BY <1>2 DEF Truth, There
<1>5. keys \in Seq(Orders) /\ \A i \in DOMAIN keys : keys[i] # "lists" /\ keys[i] # "project"
  BY <1>1
<1>9. /\ tasks' \in Nat /\ name' \in Nat /\ members' \subseteq Users /\ IsFiniteSet(members')
      /\ Admin \in members' /\ name' # 0
      /\ \A k \in Keys : Truth(k)' # Truth(k) => k \in Due(w)'
      /\ \A k \in members \ members' : k \in Due(w)'
  BY <1>2, <1>3, <1>4 DEF CacheType
<1> HIDE DEF keys
<1> QED
  BY <1>2, <1>5, <1>9, BeginStep

LEMMA RenameStep ==
  ASSUME CacheInv, NEW w \in Writers, Rename(w)
  PROVE  CacheInv'
<1> USE DEF CacheInv
<1> DEFINE keys == <<Stats, "lists">>
<1>1. Stats \in Orders /\ Stats # "lists" /\ "lists" \in Orders /\ Stats # "project" /\ "lists" # "project"
  BY ProjectCacheAssumption DEF Orders, Keys
<1>2. /\ Begin(w, keys) /\ name' = name + 1 /\ UNCHANGED <<tasks, members>>
      /\ todo'[w] = keys /\ There /\ Admin \in members /\ name # 0
  BY DEF Rename, Begin, CacheType
<1>3. members \subseteq Due(w)'
  <2>1. "lists" \in Range(keys) /\ "project" \notin Range(keys)
    BY <1>1, TupleRange
  <2> QED
    BY <1>2, <2>1 DEF Due
<1>4. \A k : k \notin members => Truth(k)' = Truth(k)
  BY <1>2 DEF Truth, There
<1>5. /\ keys \in Seq(Orders) /\ \A i \in DOMAIN keys : keys[i] = "lists" => i = Len(keys)
      /\ \A i \in DOMAIN keys : keys[i] # "project"
  BY <1>1
<1>9. /\ tasks' \in Nat /\ name' \in Nat /\ members' \subseteq Users /\ IsFiniteSet(members')
      /\ Admin \in members' /\ name' # 0
      /\ \A k \in Keys : Truth(k)' # Truth(k) => k \in Due(w)'
      /\ \A k \in members \ members' : k \in Due(w)'
  BY <1>2, <1>3, <1>4 DEF CacheType
<1> HIDE DEF keys
<1> QED
  BY <1>2, <1>5, <1>9, BeginStep

LEMMA MemberStep ==
  ASSUME CacheInv, NEW w \in Writers, NEW u \in Users, AddMember(w, u) \/ RemoveMember(w, u)
  PROVE  CacheInv'
<1> USE DEF CacheInv
<1> DEFINE keys == <<u, Admin, Stats>>
<1>1. {u, Admin, Stats} \subseteq Orders /\ "lists" \notin {u, Admin, Stats} /\ "project" \notin {u, Admin, Stats}
  BY ProjectCacheAssumption DEF Orders, Keys
<1>2. /\ Begin(w, keys) /\ UNCHANGED <<tasks, name>>
      /\ members' = members \cup {u} \/ members' = members \ {u}
      /\ todo'[w] = keys
  BY DEF AddMember, RemoveMember, Begin, CacheType
<1>3. members' \subseteq Users /\ IsFiniteSet(members') /\ Admin \in members /\ Admin \in members' /\ name # 0
  <2>1. members \subseteq Users /\ IsFiniteSet(members) /\ Admin \in members /\ name # 0
    BY DEF CacheType, AddMember, RemoveMember, There
  <2>3. members' = members \cup {u} \/ (members' = members \ {u} /\ u # Admin)
    BY DEF AddMember, RemoveMember
  <2>2. IsFiniteSet(members \cup {u}) /\ IsFiniteSet(members \ {u})
    BY <2>1, FS_AddElement, FS_RemoveElement
  <2> QED
    BY <1>2, <2>1, <2>2, <2>3
<1>4. u \in Due(w)'
  <2>1. u \in Range(keys) /\ "project" \notin Range(keys)
    BY <1>1, TupleRange
  <2> QED
    BY <1>2, <2>1 DEF Due
<1>7. There' <=> There
  BY <1>3 DEF There
<1>5. \A k : k # u => Truth(k)' = Truth(k)
  BY <1>2, <1>7 DEF Truth
<1>6. keys \in Seq(Orders) /\ \A i \in DOMAIN keys : keys[i] # "lists" /\ keys[i] # "project"
  BY <1>1
<1>9. /\ tasks' \in Nat /\ name' \in Nat /\ members' \subseteq Users /\ IsFiniteSet(members')
      /\ Admin \in members' /\ name' # 0
      /\ \A k \in Keys : Truth(k)' # Truth(k) => k \in Due(w)'
      /\ \A k \in members \ members' : k \in Due(w)'
  BY <1>2, <1>3, <1>4, <1>5 DEF CacheType
<1> HIDE DEF keys
<1> QED
  BY <1>2, <1>6, <1>9, BeginStep

(* The lists of all members are due before their keys are looked up, and   *)
(* after.                                                                  *)
LEMMA ListMembersStep ==
  ASSUME CacheInv, NEW w \in Writers, ListMembers(w)
  PROVE  CacheInv'
<1> USE DEF CacheInv
<1>1. /\ UNCHANGED <<tasks, name, members, cache, fill>>
      /\ todo[w] # <<>> /\ Head(todo[w]) = "lists"
      /\ todo' = [todo EXCEPT ![w] = SetToSeq(members)]
  BY DEF ListMembers
<1>2. /\ SetToSeq(members) \in Seq(members) /\ Range(SetToSeq(members)) = members
      /\ members \subseteq Users /\ members \subseteq Orders /\ "lists" \notin members /\ "project" \notin members
  BY SetToSeqRange, ProjectCacheAssumption DEF CacheType, Orders, Keys
<1>3. SetToSeq(members) \in Seq(Orders)
  BY <1>2, SeqMonotonic
<1>4. /\ todo'[w] = SetToSeq(members) /\ \A v \in Writers : v # w => todo'[v] = todo[v]
  BY <1>1 DEF CacheType
<1>5. CacheType'
  BY <1>1, <1>3 DEF CacheType, There
<1>6. ListsLast' /\ ProjectFirst'
  <2>1. \A i \in DOMAIN SetToSeq(members) : SetToSeq(members)[i] # "lists" /\ SetToSeq(members)[i] # "project"
    BY <1>2 DEF Range
  <2> QED
    BY <1>2, <1>4, <2>1 DEF ListsLast, ProjectFirst
<1>7. Range(todo[w]) = {"lists"}
  <2>1. todo[w] \in Seq(Orders) /\ Len(todo[w]) \in Nat \ {0} /\ todo[w][1] = "lists"
    BY <1>1, EmptySeq DEF CacheType
  <2>2. DOMAIN todo[w] = 1..Len(todo[w])
    BY <2>1, LenProperties
  <2>3. Len(todo[w]) = 1
    <3>1. 1 \in DOMAIN todo[w]
      BY <2>1, <2>2
    <3> QED
      BY <2>1, <3>1 DEF ListsLast
  <2> QED
    BY <2>1, <2>2, <2>3 DEF Range
<1>8. \A k \in Keys : k \in Due(w) => k \in Due(w)'
  BY <1>2, <1>4, <1>7, ProjectCacheAssumption DEF Due, Keys
<1>9. \A k \in Keys : Pending(k) => Pending(k)'
  BY <1>1, <1>4, <1>8 DEF Pending, Due
<1>10. StaleIsRaced' /\ ReadIsRaced'
  <2>1. \A r \in Readers : fill[r].key \in Keys
    BY DEF CacheType
  <2>2. \A k \in Keys : Truth(k)' = Truth(k)
    BY <1>1 DEF Truth, There
  <2> QED
    BY <1>1, <1>9, <2>1, <2>2 DEF StaleIsRaced, ReadIsRaced, Pending
<1> QED
  BY <1>5, <1>6, <1>10

LEMMA OvertakeType ==
  ASSUME CacheType, NEW done, Overtake(done)
  PROVE  fill' \in [Readers -> [stage : {"free", "missed", "read"}, key : Keys, copy : Nat,
                               raced : BOOLEAN]]
BY ZenonT(60) DEF CacheType, Overtake

(* What is put together shows what its parts show.                         *)
LEMMA ConcatShows ==
  ASSUME NEW S, NEW s \in Seq(S), NEW t \in Seq(S)
  PROVE  /\ s \o t \in Seq(S) /\ Len(s \o t) = Len(s) + Len(t)
         /\ Range(s \o t) = Range(s) \cup Range(t)
         /\ IsInjective(s) /\ IsInjective(t) /\ Range(s) \cap Range(t) = {} => IsInjective(s \o t)
<1> DEFINE u == s \o t
<1>1. /\ u \in Seq(S) /\ Len(u) = Len(s) + Len(t)
      /\ \A i \in 1..(Len(s) + Len(t)) : u[i] = IF i <= Len(s) THEN s[i] ELSE t[i - Len(s)]
  BY ConcatProperties
<1>2. /\ Len(s) \in Nat /\ Len(t) \in Nat
      /\ DOMAIN s = 1..Len(s) /\ DOMAIN t = 1..Len(t) /\ DOMAIN u = 1..(Len(s) + Len(t))
  BY <1>1, LenProperties
<1> HIDE DEF u
<1>3. \A i \in DOMAIN s : i \in DOMAIN u /\ u[i] = s[i]
  BY <1>1, <1>2
<1>4. \A i \in DOMAIN t : i + Len(s) \in DOMAIN u /\ u[i + Len(s)] = t[i]
  <2> TAKE i \in DOMAIN t
  <2>1. i + Len(s) \in 1..(Len(s) + Len(t)) /\ ~(i + Len(s) <= Len(s)) /\ (i + Len(s)) - Len(s) = i
    BY <1>2
  <2> QED
    BY <1>1, <1>2, <2>1
<1>5. \A i \in DOMAIN u : \/ i \in DOMAIN s /\ u[i] = s[i]
                          \/ i - Len(s) \in DOMAIN t /\ u[i] = t[i - Len(s)]
  BY <1>1, <1>2
<1>6. Range(u) = Range(s) \cup Range(t)
  <2>1. Range(s) \subseteq Range(u)
    BY <1>3 DEF Range
  <2>2. Range(t) \subseteq Range(u)
    BY <1>4 DEF Range
  <2>3. Range(u) \subseteq Range(s) \cup Range(t)
    BY <1>5 DEF Range
  <2> QED
    BY <2>1, <2>2, <2>3
<1>7. ASSUME IsInjective(s), IsInjective(t), Range(s) \cap Range(t) = {} PROVE IsInjective(u)
  <2>1. \A i \in DOMAIN s : \A j \in DOMAIN t : s[i] # t[j]
    BY <1>7 DEF Range
  <2> SUFFICES ASSUME NEW i \in DOMAIN u, NEW j \in DOMAIN u, u[i] = u[j] PROVE i = j
    BY DEF IsInjective
  <2>2. CASE i \in DOMAIN s /\ u[i] = s[i]
    BY <1>5, <1>7, <2>1, <2>2 DEF IsInjective
  <2>3. CASE i - Len(s) \in DOMAIN t /\ u[i] = t[i - Len(s)]
    <3>1. j - Len(s) \in DOMAIN t /\ u[j] = t[j - Len(s)]
      BY <1>5, <2>1, <2>3
    <3>2. i - Len(s) = j - Len(s)
      BY <1>7, <2>3, <3>1 DEF IsInjective
    <3> QED
      BY <1>2, <3>2
  <2> QED
    BY <1>5, <2>2, <2>3
<1> QED
  BY <1>1, <1>6, <1>7 DEF u

LEMMA RemoveFindStep ==
  ASSUME CacheInv, NEW w \in Writers, RemoveFind(w)
  PROVE  CacheInv'
<1> USE DEF CacheInv
<1> DEFINE keys == <<"project", Stats>> \o SetToSeq(members)
<1>1. /\ members \subseteq Users /\ members \subseteq Orders /\ {"project", Stats} \subseteq Orders
      /\ {"lists", "project"} \cap (members \cup {Stats}) = {}
  BY ProjectCacheAssumption DEF CacheType, Orders, Keys
<1>2. /\ Begin(w, keys) /\ UNCHANGED <<tasks, name, members>>
      /\ Admin \in members /\ name # 0
  BY DEF RemoveFind, Begin, CacheType
<1>3. SetToSeq(members) \in Seq(members) /\ Range(SetToSeq(members)) = members
  BY SetToSeqRange DEF CacheType
<1>4. /\ keys \in Seq(members \cup {"project", Stats})
      /\ Range(keys) = {"project", Stats} \cup members
      /\ \A i \in DOMAIN keys : i # 1 => keys[i] \in {Stats} \cup members
  <2> DEFINE S == members \cup {"project", Stats}
             p == <<"project", Stats>>
             l == SetToSeq(members)
  <2>1. p \in Seq(S) /\ DOMAIN p = {1, 2} /\ p[1] = "project" /\ p[2] = Stats /\ Len(p) = 2
    OBVIOUS
  <2>2. l \in Seq(S) /\ Range(l) = members /\ keys = p \o l
    BY <1>3, SeqMonotonic
  <2> HIDE DEF p, l, keys, S
  <2>3. Range(p) = {"project", Stats}
    BY <2>1 DEF Range
  <2>4. keys \in Seq(S) /\ Range(keys) = {"project", Stats} \cup members
    BY <2>1, <2>2, <2>3, ConcatShows
  <2>5. ASSUME NEW i \in DOMAIN keys, i # 1 PROVE keys[i] \in {Stats} \cup members
    <3>1. Len(l) \in Nat /\ DOMAIN l = 1..Len(l)
      BY <2>2, LenProperties
    <3>2. Len(keys) = 2 + Len(l)
      BY <2>1, <2>2, ConcatShows
    <3>3. DOMAIN keys = 1..(2 + Len(l))
      BY <2>4, <3>2, LenProperties
    <3>4. \A j \in 1..(2 + Len(l)) : keys[j] = IF j <= 2 THEN p[j] ELSE l[j - 2]
      <4>1. p \in Seq(S) /\ l \in Seq(S) /\ Len(p) = 2
        BY <2>1, <2>2
      <4>2. \A j \in 1..(Len(p) + Len(l)) : (p \o l)[j] = IF j <= Len(p) THEN p[j] ELSE l[j - Len(p)]
        BY <4>1, ConcatProperties
      <4> QED
        BY <2>1, <2>2, <4>2
    <3>5. CASE i = 2
      BY <2>1, <3>3, <3>4, <3>5
    <3>6. CASE i # 2
      <4>1. i - 2 \in DOMAIN l /\ keys[i] = l[i - 2]
        BY <2>5, <3>1, <3>3, <3>4, <3>6
      <4> QED
        BY <2>2, <4>1 DEF Range
    <3> QED
      BY <3>5, <3>6
  <2> QED
    BY <2>4, <2>5 DEF S
<1> HIDE DEF keys
<1>5. keys \in Seq(Orders)
  BY <1>1, <1>4, SeqMonotonic
<1>6. /\ \A i \in DOMAIN keys : keys[i] = "lists" => i = Len(keys)
      /\ \A i \in DOMAIN keys : keys[i] = "project" => i = 1 /\ Stats \in Range(keys)
  <2>1. \A i \in DOMAIN keys : keys[i] \in Range(keys)
    BY DEF Range
  <2> QED
    BY <1>1, <1>4, <2>1
<1>7. \A k : Truth(k)' = Truth(k)
  BY <1>2 DEF Truth, There
<1>8. tasks' \in Nat /\ name' \in Nat /\ members' \subseteq Users /\ IsFiniteSet(members') /\ members \ members' = {}
  BY <1>2 DEF CacheType
<1> QED
  BY <1>2, <1>5, <1>6, <1>7, <1>8, BeginStep

(* The keys of the members it knows of are due, what the others have is    *)
(* marked.                                                                 *)
LEMMA RemoveDeleteStep ==
  ASSUME CacheInv, NEW w \in Writers, RemoveDelete(w)
  PROVE  CacheInv'
<1> USE DEF CacheInv
<1> DEFINE kept == members \ Range(todo[w])
<1>1. /\ UNCHANGED <<tasks, name>> /\ members' = {} /\ There
      /\ todo[w] # <<>> /\ Head(todo[w]) = "project"
      /\ cache' = [k \in Keys |-> IF k \in kept THEN {[e EXCEPT !.raced = TRUE] : e \in cache[k]}
                                  ELSE cache[k]]
      /\ Overtake(kept)
      /\ todo' = [todo EXCEPT ![w] = Tail(todo[w])]
  BY DEF RemoveDelete, Keep
<1>2. /\ todo[w] \in Seq(Orders) /\ Tail(todo[w]) \in Seq(Orders)
      /\ Range(todo[w]) = Range(Tail(todo[w])) \cup {"project"}
  BY <1>1, TailRange DEF CacheType
<1>3. todo'[w] = Tail(todo[w]) /\ \A v \in Writers : v # w => todo'[v] = todo[v]
  BY <1>1 DEF CacheType
<1>4. CacheType'
  <2>1. \A e \in [copy : Nat, raced : BOOLEAN] :
          [e EXCEPT !.raced = TRUE] \in [copy : Nat, raced : BOOLEAN]
    OBVIOUS
  <2>2. \A k \in Keys : \A e \in cache[k] : e \in [copy : Nat, raced : BOOLEAN]
    BY DEF CacheType
  <2>3. \A k \in Keys : cache'[k] \in SUBSET [copy : Nat, raced : BOOLEAN]
    BY <1>1, <2>1, <2>2
  <2>4. cache' \in [Keys -> SUBSET [copy : Nat, raced : BOOLEAN]]
    BY <1>1, <2>3
  <2> QED
    BY <1>1, <1>2, <2>4, OvertakeType, FS_EmptySet DEF CacheType, There
<1>5. /\ ListsLast' /\ ProjectFirst'
      /\ "project" \notin Range(Tail(todo[w])) /\ Stats \in Range(Tail(todo[w]))
  <2>1. /\ Len(Tail(todo[w])) = Len(todo[w]) - 1 /\ Len(todo[w]) \in Nat \ {0}
        /\ DOMAIN todo[w] = 1..Len(todo[w])
        /\ DOMAIN Tail(todo[w]) = 1..Len(Tail(todo[w]))
        /\ \A i \in 1..Len(Tail(todo[w])) : Tail(todo[w])[i] = todo[w][i + 1]
    BY <1>1, <1>2, HeadTailProperties, EmptySeq, LenProperties
  <2>2. \A i \in DOMAIN Tail(todo[w]) : Tail(todo[w])[i] = "lists" => i = Len(Tail(todo[w]))
    BY <2>1 DEF ListsLast
  <2>3. \A i \in DOMAIN Tail(todo[w]) : Tail(todo[w])[i] # "project"
    BY <2>1 DEF ProjectFirst
  <2>4. Stats \in Range(Tail(todo[w]))
    BY <1>2, ProjectCacheAssumption DEF ProjectFirst
  <2>5. "project" \notin Range(Tail(todo[w]))
    BY <2>3 DEF Range
  <2>6. ListsLast'
    BY <1>3, <2>2 DEF ListsLast
  <2>7. ProjectFirst'
    BY <1>3, <2>3, <2>5 DEF ProjectFirst
  <2> QED
    BY <2>4, <2>5, <2>6, <2>7
<1>6. Due(w) = {} /\ Range(Tail(todo[w])) \subseteq Due(w)'
  BY <1>2, <1>3, <1>5 DEF Due
<1>7. ASSUME NEW k \in Keys, Truth(k)' # Truth(k) \/ Pending(k)
      PROVE  k \in kept \/ Pending(k)'
  <2>1. CASE k = Stats
    BY <1>5, <1>6, <2>1 DEF Pending
  <2>2. CASE k \in members
    <3>1. k # "project"
      BY ProjectCacheAssumption, <2>2 DEF CacheType
    <3> QED
      BY <1>2, <1>6, <2>2, <3>1 DEF Pending
  <2>3. CASE k # Stats /\ k \notin members
    <3>1. Truth(k)' = Truth(k)
      BY <1>1, <2>3 DEF Truth
    <3>2. PICK v \in Writers : k \in Due(v)
      BY <1>7, <3>1 DEF Pending
    <3>3. v # w /\ todo'[v] = todo[v]
      BY <1>3, <1>6, <3>2
    <3>4. k \in Due(v)'
      BY <2>3, <3>2, <3>3 DEF Due
    <3> QED
      BY <3>4 DEF Pending
  <2> QED
    BY <2>1, <2>2, <2>3
<1> HIDE DEF kept
<1>8. StaleIsRaced'
  <2>1. \A k \in Keys : \A e \in cache[k] : e.copy # Truth(k) => e.raced \/ Pending(k)
    BY DEF StaleIsRaced, Pending
  <2>2. \A k \in Keys : \A e \in cache'[k] : (k \in kept /\ e.raced) \/ (k \notin kept /\ e \in cache[k])
    BY <1>1 DEF CacheType
  <2>3. \A k \in Keys : \A e \in cache'[k] : e.copy # Truth(k)' => e.raced \/ Pending(k)'
    BY <1>7, <2>1, <2>2
  <2> QED
    BY <2>3 DEF StaleIsRaced, Pending
<1>9. ReadIsRaced'
  <2> SUFFICES ASSUME NEW r \in Readers, fill'[r].stage = "read",
                      fill'[r].copy # Truth(fill[r].key)'
               PROVE  fill'[r].raced \/ Pending(fill[r].key)'
    BY DEF ReadIsRaced
  <2>1. fill'[r] = IF fill[r].stage = "read" /\ fill[r].key \in kept
                     THEN [fill[r] EXCEPT !.raced = TRUE] ELSE fill[r]
    BY <1>1 DEF Overtake
  <2>2. fill[r].key \in Keys
    BY DEF CacheType
  <2>3. CASE fill[r].stage = "read" /\ fill[r].key \in kept
    BY <2>1, <2>3 DEF CacheType
  <2>4. CASE ~(fill[r].stage = "read" /\ fill[r].key \in kept)
    <3>1. fill'[r] = fill[r] /\ fill[r].key \notin kept
      BY <2>1, <2>4
    <3>2. \A k \in Keys : Truth(k)' # Truth(k) \/ Pending(k) => k \in kept \/ Pending(k)'
      BY <1>7
    <3> QED
      BY <2>2, <3>1, <3>2 DEF ReadIsRaced
  <2> QED
    BY <2>3, <2>4
<1> QED
  BY <1>4, <1>5, <1>8, <1>9

(* Orders that are given up, or done: what they were about is raced, or    *)
(* still due from somebody else.                                           *)
LEMMA OrdersDone ==
  ASSUME CacheInv, CacheType', UNCHANGED <<tasks, name, members>>, NEW w \in Writers, NEW done,
         \A v \in Writers : v # w => todo'[v] = todo[v],
         \A k \in Keys : k \in Due(w) => k \in done \/ k \in Due(w)',
         Overtake(done),
         \A k \in Keys : \A e \in cache'[k] : (k \in done /\ e.raced) \/ (k \notin done /\ e \in cache[k])
  PROVE  ReadIsRaced' /\ StaleIsRaced'
<1> USE DEF CacheInv
<1>1. \A k \in Keys : Truth(k)' = Truth(k)
  BY DEF Truth, There
<1>2. \A k \in Keys : Pending(k) => k \in done \/ Pending(k)'
  BY DEF Pending, Due
<1>3. StaleIsRaced'
  BY <1>1, <1>2 DEF StaleIsRaced, Pending
<1>4. ReadIsRaced'
  <2> SUFFICES ASSUME NEW r \in Readers, fill'[r].stage = "read",
                      fill'[r].copy # Truth(fill[r].key)'
               PROVE  fill'[r].raced \/ Pending(fill[r].key)'
    BY DEF ReadIsRaced
  <2>1. fill'[r] = IF fill[r].stage = "read" /\ fill[r].key \in done
                     THEN [fill[r] EXCEPT !.raced = TRUE] ELSE fill[r]
    BY DEF Overtake
  <2>2. fill[r].key \in Keys
    BY DEF CacheType
  <2>3. CASE fill[r].stage = "read" /\ fill[r].key \in done
    BY <2>1, <2>3 DEF CacheType
  <2>4. CASE ~(fill[r].stage = "read" /\ fill[r].key \in done)
    BY <1>1, <1>2, <2>1, <2>2, <2>4 DEF ReadIsRaced
  <2> QED
    BY <2>3, <2>4
<1> QED
  BY <1>3, <1>4

LEMMA DeleteStep ==
  ASSUME CacheInv, NEW w \in Writers, Delete(w)
  PROVE  CacheInv'
<1> USE DEF CacheInv
<1> DEFINE head == Head(todo[w])
<1>1. /\ UNCHANGED <<tasks, name, members>>
      /\ todo[w] # <<>> /\ head \in Keys /\ head # "lists" /\ head # "project"
      /\ cache' = [cache EXCEPT ![head] = {}]
      /\ Overtake({head})
      /\ todo' = [todo EXCEPT ![w] = Tail(todo[w])]
  BY ProjectCacheAssumption DEF Delete, Keys
<1>2. /\ todo[w] \in Seq(Orders) /\ Tail(todo[w]) \in Seq(Orders)
      /\ Range(todo[w]) = Range(Tail(todo[w])) \cup {head}
  BY <1>1, TailRange DEF CacheType
<1>3. todo'[w] = Tail(todo[w]) /\ \A v \in Writers : v # w => todo'[v] = todo[v]
  BY <1>1 DEF CacheType
<1>4. CacheType'
  BY <1>1, <1>2, OvertakeType DEF CacheType, There
<1>5. ListsLast' /\ ProjectFirst'
  <2>1. /\ Len(Tail(todo[w])) = Len(todo[w]) - 1 /\ Len(todo[w]) \in Nat \ {0}
        /\ DOMAIN todo[w] = 1..Len(todo[w])
        /\ DOMAIN Tail(todo[w]) = 1..Len(Tail(todo[w]))
        /\ \A i \in 1..Len(Tail(todo[w])) : Tail(todo[w])[i] = todo[w][i + 1]
    BY <1>1, <1>2, HeadTailProperties, EmptySeq, LenProperties
  <2>2. \A i \in DOMAIN Tail(todo[w]) : Tail(todo[w])[i] = "lists" => i = Len(Tail(todo[w]))
    BY <2>1 DEF ListsLast
  <2>3. \A i \in DOMAIN Tail(todo[w]) : Tail(todo[w])[i] # "project"
    BY <2>1 DEF ProjectFirst
  <2>5. "project" \notin Range(Tail(todo[w]))
    BY <2>3 DEF Range
  <2>6. ListsLast'
    BY <1>3, <2>2 DEF ListsLast
  <2>7. ProjectFirst'
    BY <1>3, <2>3, <2>5 DEF ProjectFirst
  <2> QED
    BY <2>6, <2>7
<1>6. \A k \in Keys : k \in Due(w) => k \in {head} \/ k \in Due(w)'
  BY <1>1, <1>2, <1>3 DEF Due
<1>7. \A k \in Keys : \A e \in cache'[k] :
        (k \in {head} /\ e.raced) \/ (k \notin {head} /\ e \in cache[k])
  BY <1>1 DEF CacheType
<1> HIDE DEF head
<1>8. ReadIsRaced' /\ StaleIsRaced'
  BY <1>1, <1>3, <1>4, <1>6, <1>7, OrdersDone
<1> QED
  BY <1>4, <1>5, <1>8

LEMMA WriterFailsStep ==
  ASSUME CacheInv, NEW w \in Writers, WriterFails(w)
  PROVE  CacheInv'
<1> USE DEF CacheInv
<1>1. /\ UNCHANGED <<tasks, name, members>>
      /\ cache' = [k \in Keys |-> IF k \in Due(w) THEN {[e EXCEPT !.raced = TRUE] : e \in cache[k]}
                                  ELSE cache[k]]
      /\ Overtake(Due(w))
      /\ todo' = [todo EXCEPT ![w] = <<>>]
  BY DEF WriterFails, Keep
<1>2. todo'[w] = <<>> /\ \A v \in Writers : v # w => todo'[v] = todo[v]
  BY <1>1 DEF CacheType
<1>3. CacheType'
  <2>1. todo' \in [Writers -> Seq(Orders)]
    BY <1>1, EmptySeq DEF CacheType
  <2>2. cache' \in [Keys -> SUBSET [copy : Nat, raced : BOOLEAN]]
    <3>1. \A e \in [copy : Nat, raced : BOOLEAN] :
            [e EXCEPT !.raced = TRUE] \in [copy : Nat, raced : BOOLEAN]
      OBVIOUS
    <3>2. \A k \in Keys : \A e \in cache[k] : e \in [copy : Nat, raced : BOOLEAN]
      BY DEF CacheType
    <3>3. \A k \in Keys : cache'[k] \in SUBSET [copy : Nat, raced : BOOLEAN]
      BY <1>1, <3>1, <3>2
    <3> QED
      BY <1>1, <3>3
  <2> QED
    BY <1>1, <2>1, <2>2, OvertakeType DEF CacheType, There
<1>4. ListsLast' /\ ProjectFirst'
  BY <1>2 DEF ListsLast, ProjectFirst, Range
<1>5. \A k \in Keys : \A e \in cache'[k] :
        (k \in Due(w) /\ e.raced) \/ (k \notin Due(w) /\ e \in cache[k])
  BY <1>1 DEF CacheType
<1>6. ReadIsRaced' /\ StaleIsRaced'
  BY <1>1, <1>2, <1>3, <1>5, OrdersDone
<1> QED
  BY <1>3, <1>4, <1>6

LEMMA CacheStep == CacheInv /\ [CacheNext]_cacheVars => CacheInv'
<1> SUFFICES ASSUME CacheInv, [CacheNext]_cacheVars PROVE CacheInv'
  OBVIOUS
<1>1. CASE UNCHANGED cacheVars
  BY <1>1 DEF cacheVars, CacheInv, CacheType, ListsLast, ProjectFirst, ReadIsRaced, StaleIsRaced, Truth,
     There, Pending, Due, Keys
<1> QED
  BY <1>1, MissStep, ReadRowsStep, StoreStep, ReaderFailsStep, EntryExpiresStep, CreateStep,
     WriteTaskStep, RenameStep, MemberStep, ListMembersStep, RemoveFindStep, RemoveDeleteStep, DeleteStep, WriterFailsStep DEF CacheNext

(* Whoever reads and writes at the same time: an entry that is out of date *)
(* is about to be deleted, or was stored by a fill that a deletion passed, *)
(* or its deletion failed, or is the list of somebody who became a member  *)
(* behind the back of the removal of the project.                          *)
THEOREM CacheStale == CacheSpec => []StaleIsRaced
<1>1. CacheInv => StaleIsRaced
  BY DEF CacheInv
<1> QED
  BY <1>1, CacheInitInv, CacheStep, PTL DEF CacheSpec

----------------------------------------------------------------------------
(* The chat room.  The shape of its state.                                 *)

Kept   == DOMAIN stored  \* the messages
Told   == {"read", "tell", "count"}  \* a message is stored, and not yet told of

Sends == [stage : {"idle", "find", "insert", "answer"} \cup Told, message : Nat]
Asked == [stage : {"idle", "asked", "read"}, page : Seq(Nat)]

ChatType ==
  /\ stored \in Seq(Senders) /\ Kept = 1..Len(stored) /\ Len(stored) \in Nat
  /\ room \subseteq Tabs /\ view \subseteq Tabs /\ failed \subseteq Nat
  /\ archived \in BOOLEAN
  /\ lastRead \in [Tabs -> 0..Len(stored)] /\ marks \in [Tabs -> Nat]
  /\ DOMAIN badge = Tabs /\ DOMAIN joins = Tabs

\* What the tabs hold, and what is on its way to them, are messages.
TabsFit ==
  /\ inbox \in [Tabs -> Seq(Kept \cup {NewCounts})]
  /\ list \in [Tabs -> Seq(Kept)]
  /\ owed \in [Tabs -> SUBSET Kept]
  /\ \A c \in Tabs : owed[c] # {} => c \in view

\* A page is read from the messages there are: the last ones, all if they are few.
PagesFit ==
  /\ history \in [Tabs -> Asked] /\ older \in [Tabs -> Asked]
  /\ \A c \in Tabs :
       /\ history[c].stage = "read" => \E n \in 0..Len(stored) : history[c].page = Before(n + 1)
       /\ older[c].page \in Seq(Kept)
       /\ older[c].stage = "asked" => older[c].page # <<>>

SendingFits ==
  /\ sending \in [Senders -> Sends]
  /\ \A s \in Senders :
       /\ sending[s].stage \in {"idle", "find", "insert"} => sending[s].message = 0
       /\ sending[s].stage \in Told \cup {"answer"} =>
            sending[s].message \in Kept /\ stored[sending[s].message] = s
       /\ sending[s].stage = "answer" => s \in Tabs

\* A message owed to a tab that is not shown is still to reach it, and the tab is there.
OwedComes ==
  \A c \in Tabs : \A m \in owed[c] :
    \/ m \in Shown(c) \/ m \in failed
    \/ \E i \in DOMAIN inbox[c] : inbox[c][i] = m
    \/ /\ c \in room
       /\ sending[stored[m]].message = m /\ sending[stored[m]].stage \in {"read", "tell"}

\* Own messages are no exception.
MarkedRead ==
  \A c \in view \ (unmarked \cup replaced) : marks[c] = 0 => \A m \in Shown(c) : m <= lastRead[c]

\* In a channel the sender is told of the new counts as all are.
CountComes ==
  \A c \in Tabs \ (stale \cup broken \cup unmarked) :
    \/ failed # {}
    \/ NewCounts \in Range(inbox[c])
    \/ \E d \in Senders : sending[d].stage \in Told
    \/ direct /\ (sending[c].stage = "answer" \/ marks[c] > 0)
    \/ badge[c] = Unread(c)

ChatInv ==
  /\ ChatType /\ TabsFit /\ PagesFit /\ SendingFits
  /\ NoRepeats /\ OwedComes /\ MarkedRead /\ CountComes

----------------------------------------------------------------------------
(* Lists of messages: pages, lists in order, and what is put together.     *)

(* A finite set of numbers in order: the place of a number is how many     *)
(* there are up to it.                                                     *)
LEMMA InOrderLists ==
  ASSUME NEW S \in SUBSET Nat, IsFiniteSet(S)
  PROVE  /\ InOrder(S) \in Seq(S) /\ Len(InOrder(S)) = Cardinality(S)
         /\ IsInjective(InOrder(S)) /\ Range(InOrder(S)) = S
<1> DEFINE upto(m) == {n \in S : n <= m}
           D == 1..Cardinality(S)
           place == [m \in S |-> Cardinality(upto(m))]
           s == InOrder(S)
<1>1. Cardinality(S) \in Nat
  BY FS_CardinalityType
<1>2. \A m \in S : /\ IsFiniteSet(upto(m)) /\ Cardinality(upto(m)) \in Nat
                   /\ Cardinality(upto(m)) <= Cardinality(S)
                   /\ Cardinality(upto(m)) # 0
  <2> TAKE m \in S
  <2>1. upto(m) \in SUBSET S /\ m \in upto(m)
    OBVIOUS
  <2>2. IsFiniteSet(upto(m)) /\ Cardinality(upto(m)) <= Cardinality(S)
    BY <2>1, FS_Subset
  <2> QED
    BY <2>1, <2>2, FS_CardinalityType, FS_EmptySet
<1>3. \A m, n \in S : m < n => Cardinality(upto(m)) < Cardinality(upto(n))
  <2> TAKE m, n \in S
  <2> HAVE m < n
  <2>1. m \in Nat /\ n \in Nat /\ \A k \in S : k \in Nat
    OBVIOUS
  <2>2. (\A k \in S : k <= m => k <= n) /\ n <= n /\ ~(n <= m)
    BY <2>1
  <2>3. upto(m) \in SUBSET upto(n) /\ n \in upto(n) /\ n \notin upto(m)
    <3>1. \A k \in upto(m) : k \in upto(n)
      BY <2>2
    <3> QED
      BY <2>2, <3>1
  <2>4. Cardinality(upto(m)) <= Cardinality(upto(n)) /\ Cardinality(upto(n)) # Cardinality(upto(m))
    BY <1>2, <2>3, FS_Subset
  <2> QED
    BY <1>2, <2>4
<1> HIDE DEF upto
<1>4. place \in Injection(S, D)
  <2>1. place \in [S -> D]
    BY <1>1, <1>2
  <2>2. ASSUME NEW m \in S, NEW n \in S, place[m] = place[n] PROVE m = n
    BY <1>2, <1>3, <2>2
  <2> QED
    BY <2>1, <2>2 DEF Injection, IsInjective
<1>5. place \in Surjection(S, D)
  <2>1. IsFiniteSet(D) /\ Cardinality(D) = Cardinality(S)
    BY <1>1, FS_Interval
  <2> QED
    BY <1>4, <2>1, FS_Injection
<1>6. \A i \in D : s[i] \in S /\ Cardinality(upto(s[i])) = i
  <2> TAKE i \in D
  <2>1. \E m \in S : Cardinality(upto(m)) = i
    BY <1>5 DEF Surjection
  <2>2. s[i] = CHOOSE m \in S : Cardinality(upto(m)) = i
    BY DEF InOrder, upto
  <2> QED
    BY <2>1, <2>2
<1>7. s \in [D -> S]
  BY <1>6 DEF InOrder
<1>8. s \in Seq(S)
  BY <1>1, <1>7, SeqDef
<1>9. Len(s) = Cardinality(S) /\ DOMAIN s = D
  BY <1>1, <1>7, <1>8, LenProperties
<1>10. IsInjective(s)
  BY <1>6, <1>7 DEF IsInjective
<1>11. ASSUME NEW m \in S PROVE m \in Range(s)
  <2>1. Cardinality(upto(m)) \in D
    BY <1>1, <1>2
  <2>2. PICK i \in D : i = Cardinality(upto(m))
    BY <2>1
  <2>3. s[i] \in S /\ Cardinality(upto(s[i])) = Cardinality(upto(m))
    BY <1>6, <2>2
  <2>4. ~(s[i] < m) /\ ~(m < s[i])
    <3> DEFINE k == s[i]
    <3>1. k \in S /\ Cardinality(upto(k)) = Cardinality(upto(m)) /\ Cardinality(upto(m)) \in Nat
      BY <1>2, <2>3
    <3> HIDE DEF k
    <3>2. ~(k < m) /\ ~(m < k)
      BY <1>3, <3>1
    <3> QED
      BY <3>2 DEF k
  <2>5. s[i] = m
    <3>1. s[i] \in Nat /\ m \in Nat
      BY <2>3
    <3> QED
      BY <2>4, <3>1
  <2> QED
    BY <1>9, <2>5 DEF Range
<1>12. Range(s) \subseteq S
  BY <1>6, <1>9 DEF Range
<1> QED
  BY <1>8, <1>9, <1>10, <1>11, <1>12

LEMMA AppendShows ==
  ASSUME NEW S, NEW s \in Seq(S), NEW m \in S
  PROVE  /\ Append(s, m) \in Seq(S) /\ Len(Append(s, m)) = Len(s) + 1
         /\ Range(Append(s, m)) = Range(s) \cup {m}
         /\ IsInjective(s) /\ m \notin Range(s) => IsInjective(Append(s, m))
<1> DEFINE u == Append(s, m)
<1>1. /\ u \in Seq(S) /\ Len(u) = Len(s) + 1
      /\ \A i \in 1..Len(s) : u[i] = s[i]
      /\ u[Len(s) + 1] = m
  BY AppendProperties
<1>2. /\ Len(s) \in Nat /\ DOMAIN s = 1..Len(s) /\ DOMAIN u = 1..(Len(s) + 1)
  BY <1>1, LenProperties
<1> HIDE DEF u
<1>3. DOMAIN u = DOMAIN s \cup {Len(s) + 1} /\ Len(s) + 1 \notin DOMAIN s
  BY <1>2
<1>4. Range(u) = Range(s) \cup {m}
  BY <1>1, <1>2, <1>3 DEF Range
<1>5. ASSUME IsInjective(s), m \notin Range(s) PROVE IsInjective(u)
  <2>1. \A i \in DOMAIN s : s[i] # m
    BY <1>5 DEF Range
  <2> QED
    BY <1>1, <1>2, <1>3, <1>5, <2>1 DEF IsInjective
<1> QED
  BY <1>1, <1>4, <1>5 DEF u

(* A page holds the last messages before one, each once: all of them, when *)
(* they are fewer than a page.                                             *)
LEMMA BeforeLists ==
  ASSUME NEW n \in Nat
  PROVE  /\ Before(n + 1) \in Seq(1..n) /\ IsInjective(Before(n + 1))
         /\ Len(Before(n + 1)) \in Nat /\ Len(Before(n + 1)) <= Page
         /\ Len(Before(n + 1)) # Page => Len(Before(n + 1)) = n
<1> DEFINE size == IF n + 1 <= Page THEN (n + 1) - 1 ELSE Page
           from == IF n + 1 <= Page THEN 0 ELSE (n + 1) - 1 - Page
           b == Before(n + 1)
<1>1. Page \in Nat \ {0}
  BY ChatAssumption
<1>2. size \in Nat /\ from \in Nat /\ from + size = n
  BY <1>1
<1>3. b = [i \in 1..size |-> from + i]
  BY DEF Before
<1>4. size <= Page /\ (size # Page => size = n)
  BY <1>1
<1> HIDE DEF size, from
<1>5. b \in [1..size -> 1..n]
  BY <1>2, <1>3
<1>6. b \in Seq(1..n)
  BY <1>2, <1>5, SeqDef
<1>7. Len(b) = size /\ DOMAIN b = 1..size
  BY <1>2, <1>5, <1>6, LenProperties
<1>8. IsInjective(b)
  BY <1>2, <1>3 DEF IsInjective
<1> QED
  BY <1>2, <1>4, <1>6, <1>7, <1>8

(* A list with no message twice is no longer than its messages allow.      *)
LEMMA FewNumbers ==
  ASSUME NEW S, NEW s \in Seq(S), NEW n \in Nat, IsInjective(s), Range(s) \subseteq 1..n
  PROVE  Len(s) <= n
<1>1. Len(s) \in Nat /\ DOMAIN s = 1..Len(s) /\ s \in [1..Len(s) -> S]
  BY LenProperties
<1>2. s \in [1..Len(s) -> 1..n]
  BY <1>1 DEF Range
<1>3. s \in Injection(1..Len(s), 1..n)
  BY <1>1, <1>2 DEF Injection, IsInjective
<1>4. \A k \in Nat : IsFiniteSet(1..k) /\ Cardinality(1..k) = k
  <2> TAKE k \in Nat
  <2>1. 1 \in Int /\ k \in Int
    OBVIOUS
  <2> QED
    BY <2>1, FS_Interval
<1>5. Cardinality(1..Len(s)) <= Cardinality(1..n)
  BY <1>3, <1>4, FS_Injection
<1> QED
  BY <1>1, <1>4, <1>5

LEMMA ShownFinite ==
  ASSUME NEW S, NEW s \in Seq(S)
  PROVE  Range(s) \subseteq S /\ IsFiniteSet(Range(s))
<1>1. Len(s) \in Nat /\ DOMAIN s = 1..Len(s) /\ s \in [1..Len(s) -> S]
  BY LenProperties
<1>2. Range(s) \subseteq S
  BY <1>1 DEF Range
<1>3. s \in Surjection(DOMAIN s, Range(s))
  BY <1>1, Fun_RangeProperties
<1>4. IsFiniteSet(DOMAIN s)
  BY <1>1, FS_Interval
<1>5. IsFiniteSet(Range(s))
  BY <1>3, <1>4, FS_Surjection
<1> QED
  BY <1>2, <1>5

----------------------------------------------------------------------------
(* What each variable of the chat room may do in a step.                   *)

LEMMA SeqGrows == \A S, T : S \subseteq T => Seq(S) \subseteq Seq(T)
BY SeqMonotonic

(* Messages are only added.                                                *)
LEMMA StoredStep ==
  ASSUME ChatInv, [Next]_vars
  PROVE  /\ \/ stored' = stored
            \/ \E d \in Senders : SendInsert(d) /\ stored' = Append(stored, d)
         /\ stored' \in Seq(Senders) /\ DOMAIN stored' = 1..Len(stored') /\ Len(stored') \in Nat
         /\ Len(stored) <= Len(stored') /\ Len(stored) \in Nat
         /\ \A m \in Kept : m \in DOMAIN stored' /\ stored'[m] = stored[m]
<1>1. \/ stored' = stored
      \/ \E d \in Senders : SendInsert(d) /\ stored' = Append(stored, d)
  <2>1. ASSUME NEW d \in Senders, Send(d) PROVE stored' = stored \/ (SendInsert(d) /\ stored' = Append(stored, d))
    BY <2>1 DEF Send, Post, SendFind, SendInsert, SendRead, SendTell, SendCount, Fail, server
  <2>2. ASSUME NEW c \in Tabs, Browse(c) PROVE stored' = stored
    BY <2>2 DEF Browse, Answer, Mount, Unmount, Reconnect, JoinChannel, ReadHistory, ShowHistory,
                LoadMore, ReadOlder, ShowOlder, Hear, MarkRead, MarkFails, QueryFails, Count, server
  <2>3. Archive \/ Unarchive \/ UNCHANGED vars => stored' = stored
    BY DEF Archive, Unarchive, vars, server
  <2> QED
    BY <2>1, <2>2, <2>3 DEF Next
<1>2. stored \in Seq(Senders) /\ Kept = 1..Len(stored) /\ Len(stored) \in Nat
  BY DEF ChatInv, ChatType
<1>3. CASE stored' = stored
  BY <1>1, <1>2, <1>3 DEF Kept
<1>4. CASE \E d \in Senders : stored' = Append(stored, d)
  <2>1. PICK d \in Senders : stored' = Append(stored, d)
    BY <1>4
  <2>2. /\ stored' \in Seq(Senders) /\ Len(stored') = Len(stored) + 1
        /\ \A m \in 1..Len(stored) : stored'[m] = stored[m]
    BY <1>2, <2>1, AppendProperties
  <2>3. DOMAIN stored' = 1..Len(stored')
    BY <2>2, LenProperties
  <2> QED
    BY <1>1, <1>2, <2>2, <2>3
<1> QED
  BY <1>1, <1>3, <1>4

LEMMA ChatTypeNext ==
  ASSUME ChatInv, [Next]_vars
  PROVE  /\ room' \subseteq Tabs /\ view' \subseteq Tabs /\ failed' \subseteq Nat
         /\ DOMAIN badge' = Tabs /\ DOMAIN joins' = Tabs
         /\ lastRead' \in [Tabs -> 0..Len(stored')]
         /\ marks' \in [Tabs -> Nat]
         /\ \A c \in Tabs : lastRead[c] <= lastRead'[c]
<1>1. /\ room \subseteq Tabs /\ view \subseteq Tabs /\ failed \subseteq Nat
      /\ DOMAIN badge = Tabs /\ DOMAIN joins = Tabs
      /\ lastRead \in [Tabs -> 0..Len(stored)]
      /\ marks \in [Tabs -> Nat]
      /\ Kept = 1..Len(stored)
  BY DEF ChatInv, ChatType
<1>2. \A s \in Senders : sending[s].message \in Nat
  BY DEF ChatInv, SendingFits, Sends
<1>3. /\ room' \subseteq Tabs /\ view' \subseteq Tabs
      /\ DOMAIN badge' = Tabs /\ DOMAIN joins' = Tabs
  <2>1. ASSUME NEW d \in Senders, Send(d)
        PROVE  room' = room /\ view' = view /\ badge' = badge /\ joins' = joins
    BY <2>1 DEF Send, Post, SendFind, SendInsert, SendRead, SendTell, SendCount, Fail, server, unread, lists
  <2>2. ASSUME NEW c \in Tabs, Browse(c)
        PROVE  /\ room' \subseteq Tabs /\ view' \subseteq Tabs
               /\ DOMAIN badge' = Tabs /\ DOMAIN joins' = Tabs
    BY <1>1, <2>2 DEF Browse, Answer, Mount, Unmount, Reconnect, JoinChannel, ReadHistory, ShowHistory,
                      LoadMore, ReadOlder, ShowOlder, Hear, MarkRead, MarkFails, QueryFails, Count, server, unread, lists
  <2>3. Archive \/ Unarchive \/ UNCHANGED vars
        => room' = room /\ view' = view /\ badge' = badge /\ joins' = joins
    BY DEF Archive, Unarchive, vars, server, unread, lists
  <2> QED
    BY <1>1, <2>1, <2>2, <2>3 DEF Next
<1>4. failed' \subseteq Nat
  <2>1. ASSUME NEW d \in Senders, Send(d) PROVE failed' \subseteq Nat
    BY <1>1, <1>2, <2>1 DEF Send, Post, SendFind, SendInsert, SendRead, SendTell, SendCount, Fail, promise
  <2>2. ASSUME NEW c \in Tabs, Browse(c) PROVE failed' = failed
    BY <2>2 DEF Browse, Answer, Mount, Unmount, Reconnect, JoinChannel, ReadHistory, ShowHistory,
                LoadMore, ReadOlder, ShowOlder, Hear, MarkRead, MarkFails, QueryFails, Count, promise
  <2>3. Archive \/ Unarchive \/ UNCHANGED vars => failed' = failed
    BY DEF Archive, Unarchive, vars, promise
  <2> QED
    BY <1>1, <2>1, <2>2, <2>3 DEF Next
<1>5. /\ lastRead' \in [Tabs -> 0..Len(stored')]
      /\ \A c \in Tabs : lastRead[c] <= lastRead'[c]
  <2>1. ASSUME NEW d \in Senders, Send(d)
        PROVE  \/ lastRead' = lastRead
               \/ lastRead' = [e \in Tabs |-> IF e = d THEN Len(stored) ELSE lastRead[e]]
    BY <2>1 DEF Send, Post, SendFind, SendInsert, SendRead, SendTell, SendCount, Fail, server
  <2>2. ASSUME NEW c \in Tabs, Browse(c)
        PROVE  lastRead' = lastRead \/ lastRead' = [lastRead EXCEPT ![c] = Len(stored)]
    BY <2>2 DEF Browse, Answer, Mount, Unmount, Reconnect, JoinChannel, ReadHistory, ShowHistory,
                LoadMore, ReadOlder, ShowOlder, Hear, MarkRead, MarkFails, QueryFails, Count, server
  <2>3. Archive \/ Unarchive \/ UNCHANGED vars => lastRead' = lastRead
    BY DEF Archive, Unarchive, vars, server
  <2>4. \/ lastRead' = lastRead
        \/ \E d \in Senders : lastRead' = [e \in Tabs |-> IF e = d THEN Len(stored) ELSE lastRead[e]]
        \/ \E c \in Tabs : lastRead' = [lastRead EXCEPT ![c] = Len(stored)]
    BY <2>1, <2>2, <2>3 DEF Next
  <2>5. Len(stored) \in Nat /\ Len(stored') \in Nat /\ Len(stored) <= Len(stored')
    BY StoredStep
  <2>6. /\ lastRead' \in [Tabs -> 0..Len(stored)]
        /\ \A c \in Tabs : lastRead[c] <= lastRead'[c]
    <3>1. \A c \in Tabs : lastRead[c] \in 0..Len(stored) /\ lastRead[c] <= Len(stored)
      BY <1>1, <2>5
    <3>2. Len(stored) \in 0..Len(stored)
      BY <2>5
    <3>3. CASE lastRead' = lastRead
      BY <1>1, <2>5, <3>3
    <3>4. CASE \E d \in Senders : lastRead' = [e \in Tabs |-> IF e = d THEN Len(stored) ELSE lastRead[e]]
      BY <2>5, <3>1, <3>2, <3>4
    <3>5. CASE \E c \in Tabs : lastRead' = [lastRead EXCEPT ![c] = Len(stored)]
      BY <1>1, <2>5, <3>1, <3>2, <3>5
    <3> QED
      BY <2>4, <3>3, <3>4, <3>5
  <2>7. 0..Len(stored) \subseteq 0..Len(stored')
    BY <2>5
  <2> QED
    BY <2>6, <2>7
<1>6. marks' \in [Tabs -> Nat]
  <2>1. ASSUME NEW d \in Senders, Send(d) PROVE marks' = marks
    BY <2>1 DEF Send, Post, SendFind, SendInsert, SendRead, SendTell, SendCount, Fail, unread
  <2>2. ASSUME NEW c \in Tabs, Browse(c) PROVE marks' \in [Tabs -> Nat]
    <3>1. marks[c] \in Nat
      BY <1>1
    <3>2. ASSUME Answer(c) PROVE marks' \in [Tabs -> Nat]
      <4>1. \E n \in {1, 2} : marks' = [marks EXCEPT ![c] = @ + n]
        BY <3>2 DEF Answer
      <4> QED
        BY <1>1, <3>1, <4>1
    <3>3. ASSUME Mount(c) PROVE marks' \in [Tabs -> Nat]
      <4>1. marks' = [marks EXCEPT ![c] = @ + 1]
        BY <3>3 DEF Mount
      <4> QED
        BY <1>1, <3>1, <4>1
    <3>4. ASSUME MarkRead(c) PROVE marks' \in [Tabs -> Nat]
      <4>1. marks' = [marks EXCEPT ![c] = @ - 1] /\ marks[c] > 0
        BY <3>4 DEF MarkRead
      <4> QED
        BY <1>1, <3>1, <4>1
    <3>7. ASSUME MarkFails(c) PROVE marks' \in [Tabs -> Nat]
      <4>1. marks' = [marks EXCEPT ![c] = @ - 1] /\ marks[c] > 0
        BY <3>7 DEF MarkFails
      <4> QED
        BY <1>1, <3>1, <4>1
    <3>5. ASSUME NEW messages, Put(c, messages) PROVE marks' \in [Tabs -> Nat]
      <4>1. marks' = marks \/ marks' = [marks EXCEPT ![c] = @ + 1]
        BY <1>1, <3>5 DEF Put
      <4> QED
        BY <1>1, <3>1, <4>1
    <3>6. ShowHistory(c) \/ ShowOlder(c) \/ Hear(c)
          => marks' = marks \/ \E messages : Put(c, messages)
      BY DEF ShowHistory, ShowOlder, Hear
    <3> QED
      BY <1>1, <2>2, <3>2, <3>3, <3>4, <3>5, <3>6, <3>7
        DEF Browse, Unmount, Reconnect, JoinChannel, ReadHistory, LoadMore, ReadOlder, QueryFails, Count, unread
  <2>3. Archive \/ Unarchive \/ UNCHANGED vars => marks' = marks
    BY DEF Archive, Unarchive, vars, unread
  <2> QED
    BY <1>1, <2>1, <2>2, <2>3 DEF Next
<1> QED
  BY <1>3, <1>4, <1>5, <1>6

(* How a message being sent moves on.                                      *)
Same(s) == sending'[s].message = sending[s].message

Moves(s) ==
  \/ sending'[s].stage = sending[s].stage /\ Same(s)
  \/ /\ Post(s) \/ SendFind(s) \/ (s \in Tabs /\ Answer(s))
     /\ sending'[s].stage \in {"idle", "find", "insert"} /\ sending'[s].message = 0
  \/ SendInsert(s) /\ sending'[s].stage = "read" /\ sending'[s].message = Len(stored) + 1
  \/ SendRead(s) /\ sending'[s].stage = "tell" /\ Same(s)
  \/ SendTell(s) /\ sending'[s].stage = "count" /\ Same(s)
  \/ SendCount(s) /\ s \in Tabs /\ sending'[s].stage = "answer" /\ Same(s)
  \/ /\ SendCount(s) \/ Fail(s)
     /\ sending'[s].stage = "idle" /\ sending'[s].message = 0

LEMMA SendingMoves ==
  ASSUME ChatInv, [Next]_vars, NEW s \in Senders
  PROVE  sending' \in [Senders -> Sends] /\ Moves(s)
<1>1. /\ sending \in [Senders -> Sends] /\ archived \in BOOLEAN /\ Len(stored) + 1 \in Nat
      /\ \A d \in Senders : sending[d].stage \in {"idle", "find", "insert"} => sending[d].message = 0
  BY DEF ChatInv, ChatType, SendingFits
<1>2. AtRest \in Sends /\ AtRest.stage = "idle" /\ AtRest.message = 0
  BY DEF AtRest, Sends
<1>3. ASSUME NEW x \in Sends, NEW d \in Senders, sending' = [sending EXCEPT ![d] = x]
      PROVE  /\ sending' \in [Senders -> Sends]
             /\ sending'[s] = IF s = d THEN x ELSE sending[s]
  BY <1>1, <1>3
<1>4. ASSUME NEW d \in Senders, NEW stage \in {"idle", "find", "insert", "answer"} \cup Told,
             sending' = [sending EXCEPT ![d].stage = stage]
      PROVE  /\ sending' \in [Senders -> Sends]
             /\ s # d => sending'[s] = sending[s]
             /\ s = d => sending'[s].stage = stage /\ Same(s)
  <2> DEFINE x == [sending[d] EXCEPT !.stage = stage]
  <2>1. sending[d] \in Sends
    BY <1>1
  <2>2. x \in Sends /\ x.stage = stage /\ x.message = sending[d].message
    BY <2>1 DEF Sends
  <2>3. sending' = [sending EXCEPT ![d] = x]
    BY <1>4
  <2> HIDE DEF x
  <2> QED
    BY <1>3, <2>2, <2>3 DEF Same
<1>5. ASSUME NEW d \in Senders, End(d)
      PROVE  /\ sending' \in [Senders -> Sends]
             /\ s # d => sending'[s] = sending[s]
             /\ s = d => sending'[s].stage = "idle" /\ sending'[s].message = 0
  BY <1>2, <1>3, <1>5 DEF End
<1>7. sending'[s] = sending[s] => Moves(s)
  BY DEF Moves, Same
<1>8. {"read", "tell", "count"} \subseteq Told
  BY DEF Told
<1>9. ASSUME NEW d \in Senders, Send(d) PROVE sending' \in [Senders -> Sends] /\ Moves(s)
  <2>1. CASE Post(d)
    <3> DEFINE x == [stage |-> "find", message |-> 0]
    <3>1. sending' = [sending EXCEPT ![d] = x]
      BY <2>1 DEF Post
    <3>2. x \in Sends /\ x.stage = "find" /\ x.message = 0
      BY <1>1 DEF Sends
    <3> HIDE DEF x
    <3>3. sending' \in [Senders -> Sends] /\ sending'[s] = IF s = d THEN x ELSE sending[s]
      BY <1>3, <3>1, <3>2
    <3> QED
      BY <1>7, <2>1, <3>2, <3>3 DEF Moves
  <2>2. CASE SendFind(d)
    <3>1. sending[d].stage = "find" /\ sending[d].message = 0
      BY <1>1, <2>2 DEF SendFind
    <3>2. CASE End(d)
      BY <1>5, <1>7, <2>2, <3>2 DEF Moves
    <3>3. CASE sending' = [sending EXCEPT ![d].stage = "insert"]
      <4>1. /\ sending' \in [Senders -> Sends]
            /\ s # d => sending'[s] = sending[s]
            /\ s = d => sending'[s].stage = "insert" /\ Same(s)
        BY <1>4, <3>3
      <4> QED
        BY <1>7, <2>2, <3>1, <4>1 DEF Moves, Same
    <3> QED
      BY <2>2, <3>2, <3>3 DEF SendFind, Stage
  <2>3. CASE SendInsert(d)
    <3> DEFINE x == [sending[d] EXCEPT !.stage = "read", !.message = Len(stored) + 1]
    <3>1. sending[d] \in Sends
      BY <1>1
    <3>2. x \in Sends /\ x.stage = "read" /\ x.message = Len(stored) + 1
      BY <1>1, <1>8, <3>1 DEF Sends
    <3>3. sending' = [sending EXCEPT ![d] = x]
      BY <1>1, <2>3 DEF SendInsert
    <3> HIDE DEF x
    <3>4. sending' \in [Senders -> Sends] /\ sending'[s] = IF s = d THEN x ELSE sending[s]
      BY <1>3, <3>2, <3>3
    <3> QED
      BY <1>7, <2>3, <3>2, <3>4 DEF Moves
  <2>4. CASE SendRead(d)
    <3>1. /\ sending' \in [Senders -> Sends]
          /\ s # d => sending'[s] = sending[s]
          /\ s = d => sending'[s].stage = "tell" /\ Same(s)
      BY <1>4, <1>8, <2>4 DEF SendRead, Stage
    <3> QED
      BY <1>7, <2>4, <3>1 DEF Moves
  <2>5. CASE SendTell(d)
    <3>1. /\ sending' \in [Senders -> Sends]
          /\ s # d => sending'[s] = sending[s]
          /\ s = d => sending'[s].stage = "count" /\ Same(s)
      BY <1>4, <1>8, <2>5 DEF SendTell, Stage
    <3> QED
      BY <1>7, <2>5, <3>1 DEF Moves
  <2>6. CASE SendCount(d)
    <3>1. CASE d \in Tabs
      <4>1. /\ sending' \in [Senders -> Sends]
            /\ s # d => sending'[s] = sending[s]
            /\ s = d => sending'[s].stage = "answer" /\ Same(s)
        BY <1>4, <2>6, <3>1 DEF SendCount, Stage
      <4> QED
        BY <1>7, <2>6, <3>1, <4>1 DEF Moves
    <3>2. CASE d \notin Tabs
      <4>1. End(d)
        BY <2>6, <3>2 DEF SendCount
      <4>2. /\ sending' \in [Senders -> Sends]
            /\ s # d => sending'[s] = sending[s]
            /\ s = d => sending'[s].stage = "idle" /\ sending'[s].message = 0
        BY <1>5, <4>1
      <4> QED
        BY <1>7, <2>6, <4>2 DEF Moves
    <3> QED
      BY <3>1, <3>2
  <2>7. CASE Fail(d)
    BY <1>5, <1>7, <2>7 DEF Fail, Moves
  <2> QED
    BY <1>9, <2>1, <2>2, <2>3, <2>4, <2>5, <2>6, <2>7 DEF Send
<1>10. ASSUME NEW c \in Tabs, Browse(c) PROVE sending' \in [Senders -> Sends] /\ Moves(s)
  <2>1. CASE Answer(c)
    <3>1. c \in Senders /\ End(c)
      BY <2>1 DEF Answer, Senders
    <3> QED
      BY <1>5, <1>7, <2>1, <3>1 DEF Moves
  <2>2. CASE sending' = sending
    BY <1>1, <1>7, <2>2
  <2> QED
    BY <1>10, <2>1, <2>2 DEF Browse, Mount, Unmount, Reconnect, JoinChannel, ReadHistory, ShowHistory,
      LoadMore, ReadOlder, ShowOlder, Hear, MarkRead, MarkFails, QueryFails, Count
<1>11. Archive \/ Unarchive \/ UNCHANGED vars => sending' = sending
  BY DEF Archive, Unarchive, vars
<1> QED
  BY <1>1, <1>7, <1>9, <1>10, <1>11 DEF Next

LEMMA SendingFitsNext ==
  ASSUME ChatInv, [Next]_vars
  PROVE  SendingFits'
<1>1. sending' \in [Senders -> Sends]
  <2>1. ASSUME NEW s \in Senders PROVE sending' \in [Senders -> Sends]
    BY SendingMoves
  <2>2. CASE Senders = {}
    <3>1. sending \in [Senders -> Sends] /\ UNCHANGED sending
      BY <2>2 DEF ChatInv, SendingFits, Next, Senders, Browse, Archive, Unarchive, vars
    <3> QED
      BY <3>1
  <2> QED
    BY <2>1, <2>2
<1>2. ASSUME NEW s \in Senders
      PROVE  /\ sending'[s].stage \in {"idle", "find", "insert"} => sending'[s].message = 0
             /\ sending'[s].stage \in Told \cup {"answer"} =>
                  sending'[s].message \in DOMAIN stored' /\ stored'[sending'[s].message] = s
             /\ sending'[s].stage = "answer" => s \in Tabs
  <2>1. /\ sending[s].stage \in {"idle", "find", "insert"} => sending[s].message = 0
        /\ sending[s].stage \in Told \cup {"answer"} =>
             sending[s].message \in Kept /\ stored[sending[s].message] = s
        /\ sending[s].stage = "answer" => s \in Tabs
    BY DEF ChatInv, SendingFits
  <2>2. \A m \in Kept : m \in DOMAIN stored' /\ stored'[m] = stored[m]
    BY StoredStep
  <2>3. Moves(s)
    BY SendingMoves
  <2>4. CASE sending'[s].stage = sending[s].stage /\ Same(s)
    BY <2>1, <2>2, <2>4 DEF Same
  <2>5. CASE sending'[s].stage \in {"idle", "find", "insert"} /\ sending'[s].message = 0
    BY <2>5 DEF Told
  <2>6. CASE SendInsert(s) /\ sending'[s].stage = "read" /\ sending'[s].message = Len(stored) + 1
    <3>1. stored' = Append(stored, s)
      BY <2>6 DEF SendInsert
    <3>2. stored \in Seq(Senders) /\ Len(stored) \in Nat
      BY DEF ChatInv, ChatType
    <3>3. Len(stored') = Len(stored) + 1 /\ stored'[Len(stored) + 1] = s
      BY <3>1, <3>2, AppendProperties
    <3>4. Len(stored) + 1 \in DOMAIN stored'
      BY <3>2, <3>3, StoredStep
    <3> QED
      BY <2>6, <3>3, <3>4
  <2>7. CASE /\ SendRead(s) \/ SendTell(s)
             /\ sending'[s].stage \in {"tell", "count"} /\ Same(s)
    <3>1. sending[s].stage \in Told
      BY <2>7 DEF SendRead, SendTell, Told
    <3> QED
      BY <2>1, <2>2, <2>7, <3>1 DEF Same, Told
  <2>8. CASE SendCount(s) /\ s \in Tabs /\ sending'[s].stage = "answer" /\ Same(s)
    <3>1. sending[s].stage \in Told
      BY <2>8 DEF SendCount, Told
    <3> QED
      BY <2>1, <2>2, <2>8, <3>1 DEF Same
  <2> QED
    BY <2>3, <2>4, <2>5, <2>6, <2>7, <2>8 DEF Moves
<1> QED
  BY <1>1, <1>2 DEF SendingFits, Kept

LEMMA PutChanges ==
  ASSUME ChatInv, NEW c \in Tabs, NEW messages, Put(c, messages)
  PROVE  /\ list'[c] = messages /\ \A d \in Tabs \ {c} : list'[d] = list[d]
         /\ DOMAIN list' = Tabs
         /\ marks'[c] = IF c \in view /\ Len(messages) # Len(list[c]) THEN marks[c] + 1 ELSE marks[c]
         /\ \A d \in Tabs \ {c} : marks'[d] = marks[d]
BY DEF Put, ChatInv, ChatType, TabsFit

(* Nothing is lost from a list, or it is a page of the history.            *)
LEMMA ListStep ==
  ASSUME ChatInv, [Next]_vars, NEW c \in Tabs
  PROVE  /\ DOMAIN list' = Tabs
         /\ list'[c] \in Seq(Kept) /\ IsInjective(list'[c])
         /\ \/ ShowHistory(c)
            \/ Shown(c) \subseteq Range(list'[c]) /\ (Len(list'[c]) = Len(list[c]) => list'[c] = list[c])
<1> DEFINE Goal == /\ DOMAIN list' = Tabs
                   /\ list'[c] \in Seq(Kept) /\ IsInjective(list'[c])
                   /\ \/ ShowHistory(c)
                      \/ Shown(c) \subseteq Range(list'[c]) /\ (Len(list'[c]) = Len(list[c]) => list'[c] = list[c])
<1>1. /\ list \in [Tabs -> Seq(Kept)] /\ list[c] \in Seq(Kept) /\ IsInjective(list[c])
      /\ Kept = 1..Len(stored) /\ Len(stored) \in Nat /\ Kept \subseteq Nat
      /\ inbox[c] \in Seq(Kept \cup {NewCounts})
  BY DEF ChatInv, ChatType, TabsFit, NoRepeats
<1>2. DOMAIN list' = Tabs /\ list'[c] = list[c] => Goal
  BY <1>1 DEF Shown
<1>3. Len(list[c]) \in Nat
  BY <1>1, LenProperties
<1>4. ASSUME NEW m \in Kept, DOMAIN list' = Tabs, list'[c] = WithNew(c, m) PROVE Goal
  <2>1. CASE m \in Shown(c)
    BY <1>2, <1>4, <2>1 DEF WithNew
  <2>2. CASE m \notin Shown(c)
    <3>1. list'[c] = Append(list[c], m)
      BY <1>4, <2>2 DEF WithNew
    <3>2. /\ list'[c] \in Seq(Kept) /\ Len(list'[c]) = Len(list[c]) + 1
          /\ Range(list'[c]) = Shown(c) \cup {m} /\ IsInjective(list'[c])
      BY <1>1, <2>2, <3>1, AppendShows DEF Shown
    <3>3. Len(list'[c]) # Len(list[c])
      BY <1>3, <3>2
    <3> QED
      BY <1>4, <3>2, <3>3
  <2> QED
    BY <2>1, <2>2
<1>5. ASSUME ShowHistory(c) PROVE Goal
  <2>1. DOMAIN list' = Tabs /\ list'[c] = history[c].page
    BY <1>5, PutChanges DEF ShowHistory
  <2>2. PICK n \in 0..Len(stored) : list'[c] = Before(n + 1)
    BY <1>5, <2>1 DEF ShowHistory, ChatInv, PagesFit
  <2>3. n \in Nat /\ 1..n \subseteq Kept
    BY <1>1
  <2>4. list'[c] \in Seq(1..n) /\ IsInjective(list'[c])
    BY <2>2, <2>3, BeforeLists
  <2>5. list'[c] \in Seq(Kept)
    BY <2>3, <2>4, SeqGrows
  <2> QED
    BY <1>5, <2>1, <2>4, <2>5
<1>6. ASSUME ShowOlder(c) PROVE Goal
  <2> DEFINE new == Range(older[c].page) \ Shown(c)
             before == InOrder(new)
  <2>1. DOMAIN list' = Tabs /\ list'[c] = before \o list[c]
    BY <1>6, PutChanges DEF ShowOlder
  <2>2. older[c].page \in Seq(Kept)
    BY DEF ChatInv, PagesFit
  <2>3. Range(older[c].page) \subseteq Kept /\ IsFiniteSet(Range(older[c].page))
    BY <2>2, ShownFinite
  <2>4. new \in SUBSET Nat /\ IsFiniteSet(new) /\ new \subseteq Kept /\ new \cap Shown(c) = {}
    BY <1>1, <2>3, FS_Subset
  <2> HIDE DEF new
  <2>5. before \in Seq(new) /\ IsInjective(before) /\ Range(before) = new
    BY <2>4, InOrderLists
  <2>6. before \in Seq(Kept)
    BY <2>4, <2>5, SeqGrows
  <2> HIDE DEF before
  <2>7. /\ list'[c] \in Seq(Kept) /\ Len(list'[c]) = Len(before) + Len(list[c])
        /\ Range(list'[c]) = new \cup Shown(c) /\ IsInjective(list'[c])
    BY <1>1, <2>1, <2>4, <2>5, <2>6, ConcatShows DEF Shown
  <2>8. ASSUME Len(list'[c]) = Len(list[c]) PROVE list'[c] = list[c]
    <3>1. Len(before) = 0
      BY <1>3, <2>6, <2>7, <2>8, LenProperties
    <3>2. before = <<>>
      BY <2>6, <3>1, EmptySeq
    <3> QED
      BY <1>1, <2>1, <3>2, ConcatEmptySeq
  <2> QED
    BY <2>1, <2>7, <2>8
<1>7. ASSUME Answer(c) PROVE Goal
  <2>1. sending[c].message \in Kept
    BY <1>7 DEF Answer, ChatInv, SendingFits, Senders
  <2>2. DOMAIN list' = Tabs /\ list'[c] = WithNew(c, sending[c].message)
    BY <1>1, <1>7 DEF Answer
  <2> QED
    BY <1>4, <2>1, <2>2
<1>8. ASSUME Hear(c) PROVE Goal
  <2> DEFINE event == Head(inbox[c])
  <2>1. event \in Kept \cup {NewCounts}
    BY <1>1, <1>8, HeadTailProperties DEF Hear
  <2>2. CASE event # NewCounts /\ c \in view
    <3>1. DOMAIN list' = Tabs /\ list'[c] = WithNew(c, event)
      BY <1>8, <2>2, PutChanges DEF Hear
    <3> QED
      BY <1>4, <2>1, <2>2, <3>1
  <2>3. CASE ~(event # NewCounts /\ c \in view)
    <3>1. list' = list
      BY <1>8, <2>3 DEF Hear
    <3> QED
      BY <1>1, <1>2, <3>1
  <2> QED
    BY <2>2, <2>3
<1>9. ASSUME NEW d \in Tabs \ {c}, Browse(d) PROVE Goal
  <2>1. DOMAIN list' = Tabs /\ list'[c] = list[c]
    <3>1. CASE list' = list
      BY <1>1, <3>1
    <3>2. CASE \E messages : Put(d, messages)
      BY <3>2, PutChanges
    <3>3. CASE Answer(d)
      BY <1>1, <3>3 DEF Answer
    <3>4. ShowHistory(d) \/ ShowOlder(d) \/ Hear(d) => list' = list \/ \E messages : Put(d, messages)
      BY DEF ShowHistory, ShowOlder, Hear
    <3> QED
      BY <1>9, <3>1, <3>2, <3>3, <3>4 DEF Browse, Mount, Unmount, Reconnect, JoinChannel, ReadHistory,
        LoadMore, ReadOlder, MarkRead, MarkFails, QueryFails, Count, lists
  <2> QED
    BY <1>2, <2>1
<1>10. ASSUME list' = list PROVE Goal
  BY <1>1, <1>2, <1>10
<1>11. ASSUME NEW d \in Senders, Send(d) PROVE list' = list
  BY <1>11 DEF Send, Post, SendFind, SendInsert, SendRead, SendTell, SendCount, Fail, lists
<1>12. Archive \/ Unarchive \/ UNCHANGED vars => list' = list
  BY DEF Archive, Unarchive, vars, lists
<1> HIDE DEF Goal
<1>13. ASSUME Browse(c) PROVE Goal
  BY <1>5, <1>6, <1>7, <1>8, <1>10, <1>13 DEF Browse, Mount, Unmount, Reconnect, JoinChannel, ReadHistory,
    LoadMore, ReadOlder, MarkRead, MarkFails, QueryFails, Count, lists
<1>14. Goal
  BY <1>9, <1>10, <1>11, <1>12, <1>13 DEF Next
<1> QED
  BY <1>14 DEF Goal

(* How what is on its way to a tab changes.                                *)
LEMMA InboxStep ==
  ASSUME ChatInv, [Next]_vars, NEW c \in Tabs
  PROVE  /\ DOMAIN inbox' = Tabs /\ inbox'[c] \in Seq(Kept \cup {NewCounts})
         /\ \/ Range(inbox[c]) \subseteq Range(inbox'[c])
            \/ Reconnect(c)
            \/ /\ Hear(c) /\ inbox[c] # <<>> /\ Head(inbox[c]) \in Kept \cup {NewCounts}
               /\ Range(inbox[c]) = Range(inbox'[c]) \cup {Head(inbox[c])}
         /\ \A d \in Senders : /\ SendTell(d) /\ c \in room => sending[d].message \in Range(inbox'[c])
                               /\ SendCount(d) /\ ~(direct /\ c = d) => NewCounts \in Range(inbox'[c])
<1> DEFINE Events == Kept \cup {NewCounts}
           Change == \/ Range(inbox[c]) \subseteq Range(inbox'[c])
                     \/ Reconnect(c)
                     \/ /\ Hear(c) /\ inbox[c] # <<>> /\ Head(inbox[c]) \in Events
                        /\ Range(inbox[c]) = Range(inbox'[c]) \cup {Head(inbox[c])}
           Goal == DOMAIN inbox' = Tabs /\ inbox'[c] \in Seq(Events) /\ Change
           Reached == \A d \in Senders :
             /\ SendTell(d) /\ c \in room => sending[d].message \in Range(inbox'[c])
             /\ SendCount(d) /\ ~(direct /\ c = d) => NewCounts \in Range(inbox'[c])
<1>1. DOMAIN inbox = Tabs /\ inbox[c] \in Seq(Events)
  BY DEF ChatInv, TabsFit
<1>2. DOMAIN inbox' = Tabs /\ inbox'[c] = inbox[c] => Goal
  BY <1>1
<1>3. ASSUME NEW tabs, NEW e \in Events, Tell(tabs, e)
      PROVE  Goal /\ (c \in tabs => e \in Range(inbox'[c]))
  <2>1. DOMAIN inbox' = Tabs /\ inbox'[c] = IF c \in tabs THEN Append(inbox[c], e) ELSE inbox[c]
    BY <1>3 DEF Tell
  <2>2. /\ Append(inbox[c], e) \in Seq(Events)
        /\ Range(Append(inbox[c], e)) = Range(inbox[c]) \cup {e}
    BY <1>1, AppendShows
  <2>3. CASE c \in tabs
    BY <2>1, <2>2, <2>3
  <2>4. CASE c \notin tabs
    BY <1>2, <2>1, <2>4
  <2> QED
    BY <2>3, <2>4
<1>4. ASSUME NEW d \in Senders, SendTell(d)
      PROVE  Goal /\ (c \in room => sending[d].message \in Range(inbox'[c]))
  <2>1. sending[d].message \in Events /\ Tell(room, sending[d].message)
    BY <1>4 DEF SendTell, ChatInv, SendingFits, Told
  <2> QED
    BY <1>3, <2>1
<1>5. ASSUME NEW d \in Senders, SendCount(d)
      PROVE  Goal /\ (~(direct /\ c = d) => NewCounts \in Range(inbox'[c]))
  <2>1. NewCounts \in Events /\ Tell(IF direct THEN Tabs \ {d} ELSE Tabs, NewCounts)
    BY <1>5 DEF SendCount
  <2>2. Goal /\ (c \in (IF direct THEN Tabs \ {d} ELSE Tabs) => NewCounts \in Range(inbox'[c]))
    BY <1>3, <2>1
  <2> QED
    BY <2>2
<1>6. ASSUME Reconnect(c) PROVE Goal
  <2>1. DOMAIN inbox' = Tabs /\ inbox'[c] = <<>>
    BY <1>1, <1>6 DEF Reconnect
  <2> QED
    BY <1>6, <2>1, EmptySeq
<1>7. ASSUME Hear(c) PROVE Goal
  <2>1. DOMAIN inbox' = Tabs /\ inbox'[c] = Tail(inbox[c]) /\ inbox[c] # <<>>
    BY <1>1, <1>7 DEF Hear
  <2>2. /\ Head(inbox[c]) \in Events /\ Tail(inbox[c]) \in Seq(Events)
        /\ Range(inbox[c]) = Range(Tail(inbox[c])) \cup {Head(inbox[c])}
    BY <1>1, <2>1, TailRange
  <2> QED
    BY <1>7, <2>1, <2>2
<1>8. ASSUME NEW d \in Tabs \ {c}, Reconnect(d) \/ Hear(d) PROVE Goal
  <2>1. DOMAIN inbox' = Tabs /\ inbox'[c] = inbox[c]
    BY <1>1, <1>8 DEF Reconnect, Hear
  <2> QED
    BY <1>2, <2>1
<1>9. inbox' = inbox => Goal
  BY <1>1, <1>2
<1> HIDE DEF Goal
<1>10. ASSUME NEW d \in Senders, Send(d) PROVE Goal
  BY <1>4, <1>5, <1>9, <1>10 DEF Send, Post, SendFind, SendInsert, SendRead, Fail
<1>11. ASSUME NEW d \in Tabs, Browse(d) PROVE Goal
  BY <1>6, <1>7, <1>8, <1>9, <1>11 DEF Browse, Answer, Mount, Unmount, JoinChannel, ReadHistory, ShowHistory,
    LoadMore, ReadOlder, ShowOlder, MarkRead, MarkFails, QueryFails, Count
<1>12. Archive \/ Unarchive \/ UNCHANGED vars => inbox' = inbox
  BY DEF Archive, Unarchive, vars
<1>13. Goal
  BY <1>9, <1>10, <1>11, <1>12 DEF Next
<1>14. Reached
  BY <1>4, <1>5
<1> QED
  BY <1>13, <1>14 DEF Goal

(* What a tab has to show.                                                 *)
LEMMA OwedStep ==
  ASSUME ChatInv, [Next]_vars, NEW c \in Tabs
  PROVE  /\ DOMAIN owed' = Tabs
         /\ \/ owed'[c] \subseteq owed[c]
            \/ ShowHistory(c) /\ owed'[c] \subseteq Range(list'[c]) /\ (owed'[c] # {} => c \in view)
            \/ /\ \E d \in Senders : SendInsert(d)
               /\ c \in room /\ c \in view /\ owed'[c] \subseteq owed[c] \cup {Len(stored) + 1}
         /\ c \in view' \/ owed'[c] = {} \/ c \notin view
         /\ c \in room' \/ owed'[c] \subseteq Shown(c) \/ c \notin room
<1>1. /\ owed \in [Tabs -> SUBSET Kept] /\ list \in [Tabs -> Seq(Kept)] /\ room \subseteq Tabs /\ view \subseteq Tabs
  BY DEF ChatInv, ChatType, TabsFit
<1> DEFINE Goal == /\ DOMAIN owed' = Tabs
                   /\ \/ owed'[c] \subseteq owed[c]
                      \/ ShowHistory(c) /\ owed'[c] \subseteq Range(list'[c]) /\ (owed'[c] # {} => c \in view)
                      \/ /\ \E d \in Senders : SendInsert(d)
                         /\ c \in room /\ c \in view /\ owed'[c] \subseteq owed[c] \cup {Len(stored) + 1}
                   /\ c \in view' \/ owed'[c] = {} \/ c \notin view
                   /\ c \in room' \/ owed'[c] \subseteq Shown(c) \/ c \notin room
<1>2. ASSUME owed' = owed, view \subseteq view', room \subseteq room' PROVE Goal
  BY <1>1, <1>2
<1>3. ASSUME NEW d \in Senders, Send(d) PROVE Goal
  <2>1. CASE SendInsert(d)
    <3>1. owed' = [e \in Tabs |-> IF Settled(e) THEN owed[e] \cup {Len(stored) + 1} ELSE owed[e]]
      BY <2>1 DEF SendInsert
    <3>2. view' = view /\ room' = room
      BY <2>1 DEF SendInsert, lists
    <3>3. Settled(c) => c \in room /\ c \in view
      BY DEF Settled
    <3> QED
      BY <2>1, <3>1, <3>2, <3>3
  <2>2. owed' = owed /\ view' = view /\ room' = room => Goal
    BY <1>2
  <2> HIDE DEF Goal
  <2> QED
    BY <1>3, <2>1, <2>2 DEF Send, Post, SendFind, SendRead, SendTell, SendCount, Fail, promise, lists, server
<1>4. ASSUME ShowHistory(c) PROVE Goal
  <2>1. /\ owed' = [owed EXCEPT ![c] = IF c \in view THEN Range(history[c].page) ELSE {}]
        /\ view' = view /\ room' = room /\ Put(c, history[c].page)
    BY <1>4 DEF ShowHistory, server
  <2>2. list'[c] = history[c].page
    BY <2>1, PutChanges
  <2>3. DOMAIN owed' = Tabs /\ owed'[c] = IF c \in view THEN Range(list'[c]) ELSE {}
    BY <1>1, <2>1, <2>2
  <2> QED
    BY <1>4, <2>1, <2>3
<1>5. ASSUME Unmount(c) PROVE Goal
  BY <1>1, <1>5 DEF Unmount
<1>6. ASSUME Reconnect(c) PROVE Goal
  BY <1>1, <1>6 DEF Reconnect, lists
<1>7. ASSUME NEW d \in Tabs \ {c}, ShowHistory(d) \/ Unmount(d) \/ Reconnect(d) PROVE Goal
  <2>1. DOMAIN owed' = Tabs /\ owed'[c] = owed[c]
    BY <1>1, <1>7 DEF ShowHistory, Unmount, Reconnect
  <2>2. view \ {d} \subseteq view' /\ room \ {d} \subseteq room'
    BY <1>7 DEF ShowHistory, Unmount, Reconnect, server, lists
  <2>3. c \notin view' => c \notin view
    BY <2>2
  <2>4. c \notin room' => c \notin room
    BY <2>2
  <2> QED
    BY <2>1, <2>3, <2>4
<1>8. ASSUME NEW d \in Tabs, Browse(d) PROVE Goal
  <2>1. ASSUME Answer(d) \/ ReadHistory(d) \/ LoadMore(d) \/ ReadOlder(d) \/ ShowOlder(d) \/ Hear(d) \/ MarkRead(d)
               \/ MarkFails(d) \/ QueryFails(d) \/ Count(d)
        PROVE  owed' = owed /\ view' = view /\ room' = room
    BY <2>1 DEF Answer, ReadHistory, LoadMore, ReadOlder, ShowOlder, Hear, MarkRead, MarkFails, QueryFails, Count, promise, lists, server
  <2>2. ASSUME Mount(d) \/ JoinChannel(d)
        PROVE  owed' = owed /\ view \subseteq view' /\ room \subseteq room'
    BY <2>2 DEF Mount, JoinChannel, promise, lists, server
  <2> HIDE DEF Goal
  <2> QED
    BY <1>2, <1>4, <1>5, <1>6, <1>7, <1>8, <2>1, <2>2 DEF Browse
<1>9. Archive \/ Unarchive \/ UNCHANGED vars => owed' = owed /\ view' = view /\ room' = room
  BY DEF Archive, Unarchive, vars, promise, lists, server
<1> HIDE DEF Goal
<1>10. Goal
  BY <1>2, <1>3, <1>8, <1>9 DEF Next
<1> QED
  BY <1>10 DEF Goal

OfTabs(f) == f = [c \in Tabs |-> f[c]]

LEMMA OfTabsExcept == \A f, c, x : OfTabs(f) => OfTabs([f EXCEPT ![c] = x])
BY DEF OfTabs

LEMMA TabsStay ==
  ASSUME ChatInv, [Next]_vars
  PROVE  OfTabs(inbox') /\ OfTabs(list') /\ OfTabs(owed')
<1>1. OfTabs(inbox) /\ OfTabs(list) /\ OfTabs(owed)
  BY DEF ChatInv, TabsFit, OfTabs
<1>2. ASSUME NEW d \in Senders, Send(d) PROVE OfTabs(inbox') /\ OfTabs(list') /\ OfTabs(owed')
  <2>1. list' = list
    BY <1>2 DEF Send, Post, SendFind, SendInsert, SendRead, SendTell, SendCount, Fail, lists
  <2>2. owed' = owed \/ owed' = [e \in Tabs |-> IF Settled(e) THEN owed[e] \cup {Len(stored) + 1} ELSE owed[e]]
    BY <1>2 DEF Send, Post, SendFind, SendInsert, SendRead, SendTell, SendCount, Fail, promise
  <2>3. inbox' = inbox \/ \E tabs, e : Tell(tabs, e)
    BY <1>2 DEF Send, Post, SendFind, SendInsert, SendRead, SendTell, SendCount, Fail
  <2>4. \A tabs, e : Tell(tabs, e) => OfTabs(inbox')
    BY DEF Tell, OfTabs
  <2>5. OfTabs([e \in Tabs |-> IF Settled(e) THEN owed[e] \cup {Len(stored) + 1} ELSE owed[e]])
    BY DEF OfTabs
  <2> QED
    BY <1>1, <2>1, <2>2, <2>3, <2>4, <2>5
<1>3. ASSUME NEW c \in Tabs, Browse(c) PROVE OfTabs(inbox') /\ OfTabs(list') /\ OfTabs(owed')
  <2>1. inbox' = inbox \/ \E x : inbox' = [inbox EXCEPT ![c] = x]
    BY <1>3 DEF Browse, Answer, Mount, Unmount, Reconnect, JoinChannel, ReadHistory, ShowHistory,
      LoadMore, ReadOlder, ShowOlder, Hear, MarkRead, MarkFails, QueryFails, Count
  <2>2. owed' = owed \/ \E x : owed' = [owed EXCEPT ![c] = x]
    BY <1>3 DEF Browse, Answer, Mount, Unmount, Reconnect, JoinChannel, ReadHistory, ShowHistory,
      LoadMore, ReadOlder, ShowOlder, Hear, MarkRead, MarkFails, QueryFails, Count, promise
  <2>3. list' = list \/ \E x : list' = [list EXCEPT ![c] = x]
    BY <1>3 DEF Browse, Answer, Mount, Unmount, Reconnect, JoinChannel, ReadHistory, ShowHistory,
      LoadMore, ReadOlder, ShowOlder, Hear, MarkRead, MarkFails, QueryFails, Count, lists, Put
  <2> QED
    BY <1>1, <2>1, <2>2, <2>3, OfTabsExcept
<1>4. Archive \/ Unarchive \/ UNCHANGED vars => inbox' = inbox /\ list' = list /\ owed' = owed
  BY DEF Archive, Unarchive, vars, lists, promise
<1> QED
  BY <1>1, <1>2, <1>3, <1>4 DEF Next

LEMMA TabsFitNext ==
  ASSUME ChatInv, [Next]_vars
  PROVE  TabsFit' /\ NoRepeats'
<1>1. Kept \subseteq DOMAIN stored' /\ Len(stored) \in Nat
  BY StoredStep
<1>2. ASSUME NEW c \in Tabs
      PROVE  /\ DOMAIN inbox' = Tabs /\ inbox'[c] \in Seq(DOMAIN stored' \cup {NewCounts})
             /\ DOMAIN list' = Tabs /\ list'[c] \in Seq(DOMAIN stored') /\ IsInjective(list'[c])
             /\ DOMAIN owed' = Tabs /\ owed'[c] \subseteq DOMAIN stored' /\ (owed'[c] # {} => c \in view')
  <2>1. DOMAIN inbox' = Tabs /\ inbox'[c] \in Seq(Kept \cup {NewCounts})
    BY InboxStep
  <2>2. inbox'[c] \in Seq(DOMAIN stored' \cup {NewCounts})
    BY <1>1, <2>1, SeqGrows
  <2>3. DOMAIN list' = Tabs /\ list'[c] \in Seq(Kept) /\ IsInjective(list'[c])
    BY ListStep
  <2>4. list'[c] \in Seq(DOMAIN stored')
    BY <1>1, <2>3, SeqGrows
  <2>5. Range(list'[c]) \subseteq Kept
    BY <2>3, ShownFinite
  <2>6. owed[c] \subseteq Kept /\ (owed[c] # {} => c \in view)
    BY DEF ChatInv, TabsFit
  <2>7. (\E d \in Senders : SendInsert(d)) => Len(stored) + 1 \in DOMAIN stored'
    <3> SUFFICES ASSUME NEW d \in Senders, SendInsert(d) PROVE Len(stored) + 1 \in DOMAIN stored'
      OBVIOUS
    <3>1. stored' = Append(stored, d) /\ stored \in Seq(Senders)
      BY DEF SendInsert, ChatInv, ChatType
    <3>2. Len(stored') = Len(stored) + 1
      BY <3>1, AppendProperties
    <3> QED
      BY <1>1, <3>2, StoredStep
  <2>8. DOMAIN owed' = Tabs /\ owed'[c] \subseteq DOMAIN stored' /\ (owed'[c] # {} => c \in view')
    <3>1. /\ DOMAIN owed' = Tabs
          /\ \/ owed'[c] \subseteq owed[c]
             \/ owed'[c] \subseteq Range(list'[c]) /\ (owed'[c] # {} => c \in view)
             \/ /\ \E d \in Senders : SendInsert(d)
                /\ c \in view /\ owed'[c] \subseteq owed[c] \cup {Len(stored) + 1}
          /\ c \in view' \/ owed'[c] = {} \/ c \notin view
      BY OwedStep
    <3>2. owed'[c] \subseteq DOMAIN stored'
      BY <1>1, <2>5, <2>6, <2>7, <3>1
    <3>3. owed'[c] # {} => c \in view
      BY <2>6, <3>1
    <3> QED
      BY <3>1, <3>2, <3>3
  <2> QED
    BY <2>1, <2>2, <2>3, <2>4, <2>8
<1>3. OfTabs(inbox') /\ OfTabs(list') /\ OfTabs(owed')
  BY TabsStay
<1>4. /\ inbox' \in [Tabs -> Seq(DOMAIN stored' \cup {NewCounts})]
      /\ list' \in [Tabs -> Seq(DOMAIN stored')]
      /\ owed' \in [Tabs -> SUBSET (DOMAIN stored')]
  BY <1>2, <1>3 DEF OfTabs
<1> QED
  BY <1>2, <1>4 DEF TabsFit, NoRepeats, Kept

HistoryFits(h) == h \in Asked /\ (h.stage = "read" => \E n \in 0..Len(stored) : h.page = Before(n + 1))
OlderFits(o)   == o \in Asked /\ o.page \in Seq(Kept) /\ (o.stage = "asked" => o.page # <<>>)

(* What is asked and what comes back are messages that are stored.         *)
LEMMA PagesFitNext ==
  ASSUME ChatInv, [Next]_vars
  PROVE  PagesFit'
<1>1. /\ history \in [Tabs -> Asked] /\ older \in [Tabs -> Asked]
      /\ \A c \in Tabs : HistoryFits(history[c]) /\ OlderFits(older[c])
      /\ Kept = 1..Len(stored) /\ Len(stored) \in Nat /\ Kept \subseteq Nat
      /\ list \in [Tabs -> Seq(Kept)]
  BY DEF ChatInv, ChatType, TabsFit, PagesFit, HistoryFits, OlderFits
<1>2. Seq(Kept) \subseteq Seq(Nat)
  BY <1>1, SeqGrows
<1>3. HistoryFits(Idle) /\ OlderFits(Idle)
  <2>1. <<>> \in Seq(Nat) /\ <<>> \in Seq(Kept)
    BY EmptySeq
  <2> QED
    BY <2>1 DEF HistoryFits, OlderFits, Idle, Asked
<1>4. ASSUME NEW n \in 0..Len(stored) PROVE Before(n + 1) \in Seq(Kept) /\ Before(n + 1) \in Seq(Nat)
  <2>1. n \in Nat /\ 1..n \subseteq Kept
    BY <1>1
  <2>2. Before(n + 1) \in Seq(1..n)
    BY <2>1, BeforeLists
  <2> QED
    BY <1>2, <2>1, <2>2, SeqGrows
<1>5. ASSUME NEW c \in Tabs, Browse(c)
      PROVE  \E h : HistoryFits(h) /\ history' = [history EXCEPT ![c] = h]
  <2>1. HistoryFits(history[c]) /\ history = [history EXCEPT ![c] = history[c]]
    BY <1>1
  <2>2. ASSUME Mount(c) PROVE \E h : HistoryFits(h) /\ history' = [history EXCEPT ![c] = h]
    <3> DEFINE h == [history[c] EXCEPT !.stage = "asked"]
    <3>1. history' = [history EXCEPT ![c] = IF @.stage = "idle" THEN [@ EXCEPT !.stage = "asked"] ELSE @]
      BY <2>2 DEF Mount
    <3>2. history' = [history EXCEPT ![c] = h] \/ history' = [history EXCEPT ![c] = history[c]]
      BY <3>1
    <3>3. HistoryFits(h)
      BY <2>1 DEF HistoryFits, Asked
    <3> HIDE DEF h
    <3> QED
      BY <2>1, <3>2, <3>3
  <2>3. ASSUME ReadHistory(c) PROVE \E h : HistoryFits(h) /\ history' = [history EXCEPT ![c] = h]
    <3> DEFINE h == [stage |-> "read", page |-> Before(Len(stored) + 1)]
    <3>1. history' = [history EXCEPT ![c] = h]
      BY <2>3 DEF ReadHistory
    <3>2. Len(stored) \in 0..Len(stored)
      BY <1>1
    <3>3. Before(Len(stored) + 1) \in Seq(Nat)
      BY <1>4, <3>2
    <3>4. HistoryFits(h)
      BY <3>2, <3>3 DEF HistoryFits, Asked
    <3> HIDE DEF h
    <3> QED
      BY <3>1, <3>4
  <2>4. ASSUME ShowHistory(c) \/ QueryFails(c) PROVE \E h : HistoryFits(h) /\ history' = [history EXCEPT ![c] = h]
    BY <1>3, <2>1, <2>4 DEF ShowHistory, QueryFails
  <2>5. history' = history => \E h : HistoryFits(h) /\ history' = [history EXCEPT ![c] = h]
    BY <2>1
  <2> QED
    BY <1>5, <2>2, <2>3, <2>4, <2>5 DEF Browse, Answer, Unmount, Reconnect, JoinChannel,
      LoadMore, ReadOlder, ShowOlder, Hear, MarkRead, MarkFails, Count, lists
<1>6. ASSUME NEW c \in Tabs, Browse(c)
      PROVE  \E o : OlderFits(o) /\ older' = [older EXCEPT ![c] = o]
  <2>1. OlderFits(older[c]) /\ older = [older EXCEPT ![c] = older[c]]
    BY <1>1
  <2>2. ASSUME LoadMore(c) PROVE \E o : OlderFits(o) /\ older' = [older EXCEPT ![c] = o]
    <3> DEFINE p == <<list[c][1]>>
               o == [stage |-> "asked", page |-> p]
    <3>1. older' = [older EXCEPT ![c] = o] /\ Len(list[c]) >= Page
      BY <2>2 DEF LoadMore
    <3>2. list[c] \in Seq(Kept) /\ Page \in Nat \ {0} /\ Len(list[c]) \in Nat
      BY <1>1, LenProperties, ChatAssumption
    <3>3. 1 \in 1..Len(list[c])
      BY <3>1, <3>2
    <3>4. list[c][1] \in Kept
      BY <3>2, <3>3, ElementOfSeq
    <3>5. p \in Seq(Kept) /\ p # <<>>
      BY <3>4
    <3>6. p \in Seq(Nat)
      BY <1>2, <3>5
    <3> HIDE DEF p
    <3>7. OlderFits(o)
      BY <3>5, <3>6 DEF OlderFits, Asked
    <3> HIDE DEF o
    <3> QED
      BY <3>1, <3>7
  <2>3. ASSUME ReadOlder(c) PROVE \E o : OlderFits(o) /\ older' = [older EXCEPT ![c] = o]
    <3> DEFINE p == Before(older[c].page[1])
               o == [stage |-> "read", page |-> p]
    <3>1. older' = [older EXCEPT ![c] = o] /\ older[c].stage = "asked"
      BY <2>3 DEF ReadOlder
    <3>2. older[c].page \in Seq(Kept) /\ older[c].page # <<>>
      BY <2>1, <3>1 DEF OlderFits
    <3>3. Len(older[c].page) \in Nat \ {0}
      BY <3>2, EmptySeq
    <3>4. 1 \in 1..Len(older[c].page)
      BY <3>3
    <3>5. older[c].page[1] \in Kept
      BY <3>2, <3>4, ElementOfSeq
    <3>6. PICK n \in 0..Len(stored) : older[c].page[1] = n + 1
      <4>1. older[c].page[1] \in 1..Len(stored)
        BY <1>1, <3>5
      <4>2. older[c].page[1] - 1 \in 0..Len(stored) /\ older[c].page[1] = (older[c].page[1] - 1) + 1
        BY <1>1, <4>1
      <4> QED
        BY <4>2
    <3>7. p \in Seq(Kept) /\ p \in Seq(Nat)
      BY <1>4, <3>6
    <3> HIDE DEF p
    <3>8. OlderFits(o)
      BY <3>7 DEF OlderFits, Asked
    <3> HIDE DEF o
    <3> QED
      BY <3>1, <3>8
  <2>4. ASSUME ShowOlder(c) \/ QueryFails(c) PROVE \E o : OlderFits(o) /\ older' = [older EXCEPT ![c] = o]
    BY <1>3, <2>1, <2>4 DEF ShowOlder, QueryFails
  <2>5. older' = older => \E o : OlderFits(o) /\ older' = [older EXCEPT ![c] = o]
    BY <2>1
  <2> QED
    BY <1>6, <2>2, <2>3, <2>4, <2>5 DEF Browse, Answer, Mount, Unmount, Reconnect, JoinChannel,
      ReadHistory, ShowHistory, Hear, MarkRead, MarkFails, Count, lists
<1>7. ASSUME NEW d \in Senders, Send(d) PROVE history' = history /\ older' = older
  BY <1>7 DEF Send, Post, SendFind, SendInsert, SendRead, SendTell, SendCount, Fail, lists
<1>8. Archive \/ Unarchive \/ UNCHANGED vars => history' = history /\ older' = older
  BY DEF Archive, Unarchive, vars, lists
<1>9. /\ history' \in [Tabs -> Asked] /\ older' \in [Tabs -> Asked]
      /\ \A c \in Tabs : HistoryFits(history'[c]) /\ OlderFits(older'[c])
  <2>1. ASSUME NEW c \in Tabs, NEW h, HistoryFits(h), history' = [history EXCEPT ![c] = h]
        PROVE  history' \in [Tabs -> Asked] /\ \A d \in Tabs : HistoryFits(history'[d])
    <3>1. h \in Asked
      BY <2>1 DEF HistoryFits
    <3> QED
      BY <1>1, <2>1, <3>1
  <2>2. ASSUME NEW c \in Tabs, NEW o, OlderFits(o), older' = [older EXCEPT ![c] = o]
        PROVE  older' \in [Tabs -> Asked] /\ \A d \in Tabs : OlderFits(older'[d])
    <3>1. o \in Asked
      BY <2>2 DEF OlderFits
    <3> QED
      BY <1>1, <2>2, <3>1
  <2>3. ASSUME NEW c \in Tabs, Browse(c)
        PROVE  /\ history' \in [Tabs -> Asked] /\ older' \in [Tabs -> Asked]
               /\ \A d \in Tabs : HistoryFits(history'[d]) /\ OlderFits(older'[d])
    <3>1. history' \in [Tabs -> Asked] /\ \A d \in Tabs : HistoryFits(history'[d])
      BY <1>5, <2>1, <2>3
    <3>2. older' \in [Tabs -> Asked] /\ \A d \in Tabs : OlderFits(older'[d])
      BY <1>6, <2>2, <2>3
    <3> QED
      BY <3>1, <3>2
  <2> QED
    BY <1>1, <1>7, <1>8, <2>3 DEF Next
<1>10. Seq(Kept) \subseteq Seq(DOMAIN stored') /\ 0..Len(stored) \subseteq 0..Len(stored')
  <2>1. Kept \subseteq DOMAIN stored' /\ Len(stored) <= Len(stored') /\ Len(stored') \in Nat
    BY StoredStep
  <2> QED
    BY <1>1, <2>1, SeqGrows
<1>11. ASSUME NEW c \in Tabs
       PROVE  /\ history'[c].stage = "read" => \E n \in 0..Len(stored') : history'[c].page = Before(n + 1)
              /\ older'[c].page \in Seq(DOMAIN stored')
              /\ older'[c].stage = "asked" => older'[c].page # <<>>
  <2>1. HistoryFits(history'[c]) /\ OlderFits(older'[c])
    BY <1>9
  <2> QED
    BY <1>10, <2>1 DEF HistoryFits, OlderFits
<1> QED
  BY <1>9, <1>11 DEF PagesFit, Kept

(* What failed and what broke is not forgotten; who took part stays.       *)
LEMMA FailedStep ==
  ASSUME [Next]_vars
  PROVE  failed \subseteq failed' /\ broken \subseteq broken' /\ direct' = direct
<1>1. ASSUME NEW d \in Senders, Send(d) PROVE failed \subseteq failed' /\ broken' = broken /\ direct' = direct
  BY <1>1 DEF Send, Post, SendFind, SendInsert, SendRead, SendTell, SendCount, Fail, promise, server
<1>2. ASSUME NEW c \in Tabs, Browse(c) PROVE failed' = failed /\ broken \subseteq broken' /\ direct' = direct
  BY <1>2 DEF Browse, Answer, Mount, Unmount, Reconnect, JoinChannel, ReadHistory, ShowHistory,
    LoadMore, ReadOlder, ShowOlder, Hear, MarkRead, MarkFails, QueryFails, Count, promise, server
<1>3. Archive \/ Unarchive \/ UNCHANGED vars => failed' = failed /\ broken' = broken /\ direct' = direct
  BY DEF Archive, Unarchive, vars, promise, server
<1> QED
  BY <1>1, <1>2, <1>3 DEF Next

LEMMA ChatTypeAll ==
  ASSUME ChatInv, [Next]_vars
  PROVE  ChatType'
<1>1. archived' \in BOOLEAN
  <2>1. archived \in BOOLEAN
    BY DEF ChatInv, ChatType
  <2>2. ASSUME NEW d \in Senders, Send(d) PROVE archived' = archived
    BY <2>2 DEF Send, Post, SendFind, SendInsert, SendRead, SendTell, SendCount, Fail, server
  <2>3. ASSUME NEW c \in Tabs, Browse(c) PROVE archived' = archived
    BY <2>3 DEF Browse, Answer, Mount, Unmount, Reconnect, JoinChannel, ReadHistory, ShowHistory,
      LoadMore, ReadOlder, ShowOlder, Hear, MarkRead, MarkFails, QueryFails, Count, server
  <2>4. Archive \/ Unarchive \/ UNCHANGED vars => archived' = archived \/ archived' \in {TRUE, FALSE}
    BY DEF Archive, Unarchive, vars, server
  <2> QED
    BY <2>1, <2>2, <2>3, <2>4 DEF Next
<1> QED
  BY <1>1, StoredStep, ChatTypeNext DEF ChatType, Kept

(* A message that a tab has to show stays shown, or comes nearer.          *)
LEMMA OwedNext ==
  ASSUME ChatInv, [Next]_vars
  PROVE  OwedComes'
<1> SUFFICES ASSUME NEW c \in Tabs, NEW m \in owed'[c]
             PROVE  \/ m \in Range(list'[c]) \/ m \in failed'
                    \/ m \in Range(inbox'[c])
                    \/ /\ c \in room'
                       /\ sending'[stored'[m]].message = m /\ sending'[stored'[m]].stage \in {"read", "tell"}
  BY DEF OwedComes, Shown, Range
<1>1. /\ \/ owed'[c] \subseteq owed[c]
         \/ ShowHistory(c) /\ owed'[c] \subseteq Range(list'[c])
         \/ /\ \E d \in Senders : SendInsert(d)
            /\ c \in room /\ c \in view /\ owed'[c] \subseteq owed[c] \cup {Len(stored) + 1}
      /\ c \in view' \/ owed'[c] = {} \/ c \notin view
      /\ c \in room' \/ owed'[c] \subseteq Shown(c) \/ c \notin room
  BY OwedStep
<1>2. ShowHistory(c) \/ Shown(c) \subseteq Range(list'[c])
  BY ListStep
<1>3. ASSUME ShowHistory(c) PROVE m \in Range(list'[c])
  <2>1. /\ owed' = [owed EXCEPT ![c] = IF c \in view THEN Range(history[c].page) ELSE {}]
        /\ list'[c] = history[c].page
    BY <1>3, PutChanges DEF ShowHistory
  <2>2. owed'[c] \subseteq Range(list'[c])
    BY <2>1 DEF ChatInv, TabsFit
  <2> QED
    BY <2>2
<1>4. ASSUME NEW d \in Senders, SendInsert(d), m = Len(stored) + 1, c \in room
      PROVE  /\ c \in room'
             /\ sending'[stored'[m]].message = m /\ sending'[stored'[m]].stage \in {"read", "tell"}
  <2>1. room' = room /\ stored' = Append(stored, d)
    BY <1>4 DEF SendInsert
  <2>2. stored \in Seq(Senders) /\ Len(stored) \in Nat /\ sending \in [Senders -> Sends]
    BY DEF ChatInv, ChatType, SendingFits
  <2>3. stored'[m] = d
    BY <1>4, <2>1, <2>2, AppendProperties
  <2>4. sending' = [sending EXCEPT ![d].stage = "read", ![d].message = Len(stored) + 1]
    BY <1>4 DEF SendInsert
  <2>5. sending'[d].stage = "read" /\ sending'[d].message = Len(stored) + 1
    BY <2>2, <2>4 DEF Sends
  <2> QED
    BY <1>4, <2>1, <2>3, <2>5
<1>5. ASSUME m \in owed[c], ~ShowHistory(c)
      PROVE  \/ m \in Range(list'[c]) \/ m \in failed'
             \/ m \in Range(inbox'[c])
             \/ /\ c \in room'
                /\ sending'[stored'[m]].message = m /\ sending'[stored'[m]].stage \in {"read", "tell"}
  <2>1. m \in Kept /\ m \in Nat /\ m # NewCounts /\ c \in view
    BY <1>5 DEF ChatInv, ChatType, TabsFit, NewCounts
  <2>2. \/ m \in Shown(c) \/ m \in failed
        \/ m \in Range(inbox[c])
        \/ /\ c \in room
           /\ sending[stored[m]].message = m /\ sending[stored[m]].stage \in {"read", "tell"}
    BY <1>5 DEF ChatInv, OwedComes, Range
  <2>3. CASE m \in Shown(c)
    BY <1>2, <1>5, <2>3
  <2>4. failed \subseteq failed'
    BY FailedStep
  <2>5. CASE m \in Range(inbox[c])
    <3>1. CASE Range(inbox[c]) \subseteq Range(inbox'[c])
      BY <2>5, <3>1
    <3>2. CASE Reconnect(c)
      <4>1. owed' = [owed EXCEPT ![c] = @ \cap Shown(c)]
        BY <3>2 DEF Reconnect
      <4>2. m \in Shown(c)
        BY <4>1 DEF ChatInv, TabsFit
      <4> QED
        BY <2>3, <4>2
    <3>3. CASE Hear(c) /\ Range(inbox[c]) = Range(inbox'[c]) \cup {Head(inbox[c])}
      <4>1. CASE m = Head(inbox[c])
        <5>1. Put(c, WithNew(c, m))
          BY <2>1, <3>3, <4>1 DEF Hear
        <5>2. list'[c] = WithNew(c, m)
          BY <5>1, PutChanges
        <5>3. CASE m \in Shown(c)
          BY <2>3, <5>3
        <5>4. CASE m \notin Shown(c)
          <6>1. list'[c] = Append(list[c], m) /\ list[c] \in Seq(Kept)
            BY <5>2, <5>4 DEF WithNew, ChatInv, TabsFit
          <6> QED
            BY <2>1, <6>1, AppendShows
        <5> QED
          BY <5>3, <5>4
      <4> QED
        BY <2>5, <3>3, <4>1
    <3> QED
      BY <3>1, <3>2, <3>3, InboxStep
  <2>6. CASE /\ c \in room
             /\ sending[stored[m]].message = m /\ sending[stored[m]].stage \in {"read", "tell"}
    <3> DEFINE s == stored[m]
    <3>1. s \in Senders /\ stored'[m] = s
      <4>1. stored \in Seq(Senders) /\ m \in 1..Len(stored)
        BY <2>1 DEF ChatInv, ChatType
      <4> QED
        BY <2>1, <4>1, ElementOfSeq, StoredStep
    <3> HIDE DEF s
    <3>2. sending[s].message = m /\ sending[s].stage \in {"read", "tell"}
      BY <2>6 DEF s
    <3>3. Moves(s)
      BY <3>1, SendingMoves
    <3>4. c \in room' \/ m \in Range(list'[c])
      BY <1>1, <1>2, <1>5, <2>6
    <3>5. CASE sending'[s].stage = sending[s].stage /\ Same(s)
      BY <3>1, <3>2, <3>4, <3>5 DEF Same
    <3>6. ~Post(s) /\ ~SendFind(s) /\ ~Answer(s) /\ ~SendInsert(s) /\ ~SendCount(s)
      BY <3>2 DEF Post, SendFind, Answer, SendInsert, SendCount
    <3>7. CASE SendRead(s) /\ sending'[s].stage = "tell" /\ Same(s)
      BY <3>1, <3>2, <3>4, <3>7 DEF Same
    <3>8. CASE SendTell(s)
      BY <2>6, <3>1, <3>2, <3>8, InboxStep
    <3>9. CASE Fail(s)
      <4>1. m # 0
        BY <2>1 DEF NewCounts
      <4> QED
        BY <3>2, <3>9, <4>1 DEF Fail
    <3> QED
      BY <3>3, <3>5, <3>6, <3>7, <3>8, <3>9 DEF Moves
  <2> QED
    BY <2>2, <2>3, <2>4, <2>5, <2>6
<1> QED
  BY <1>1, <1>3, <1>4, <1>5

(* A mark goes only when what is stored is read.                           *)
LEMMA MarksStep ==
  ASSUME ChatInv, [Next]_vars, NEW c \in Tabs
  PROVE  \/ MarkRead(c) \/ MarkFails(c)
         \/ /\ marks[c] <= marks'[c]
            /\ c \in view' => c \in view \/ marks'[c] > 0
            /\ c \in view /\ Len(list'[c]) # Len(list[c]) => marks'[c] > 0
            /\ Answer(c) => marks'[c] > 0
<1> DEFINE Goal == \/ MarkRead(c) \/ MarkFails(c)
                   \/ /\ marks[c] <= marks'[c]
                      /\ c \in view' => c \in view \/ marks'[c] > 0
                      /\ c \in view /\ Len(list'[c]) # Len(list[c]) => marks'[c] > 0
                      /\ Answer(c) => marks'[c] > 0
<1>1. /\ marks \in [Tabs -> Nat] /\ marks[c] \in Nat /\ view \subseteq Tabs /\ list \in [Tabs -> Seq(Kept)]
      /\ marks[c] <= marks[c] /\ marks[c] + 1 > 0 /\ marks[c] <= marks[c] + 1
      /\ marks[c] + 2 > 0 /\ marks[c] <= marks[c] + 2
  BY DEF ChatInv, ChatType, TabsFit
<1>2. ASSUME Answer(c) PROVE Goal
  <2>1. marks'[c] = marks[c] + 1 \/ marks'[c] = marks[c] + 2
    BY <1>1, <1>2 DEF Answer
  <2>2. view' = view
    BY <1>2 DEF Answer
  <2> QED
    BY <1>1, <2>1, <2>2
<1>3. ASSUME Mount(c) PROVE Goal
  <2>1. marks'[c] = marks[c] + 1 /\ list' = list
    BY <1>1, <1>3 DEF Mount
  <2> QED
    BY <1>1, <2>1
<1>4. ASSUME ~Answer(c), view' = view, marks'[c] = marks[c], list'[c] = list[c] PROVE Goal
  BY <1>1, <1>4
<1>5. ASSUME NEW messages, Put(c, messages), view' = view, ~Answer(c) PROVE Goal
  <2>1. /\ list'[c] = messages
        /\ marks'[c] = IF c \in view /\ Len(messages) # Len(list[c]) THEN marks[c] + 1 ELSE marks[c]
    BY <1>5, PutChanges
  <2> QED
    BY <1>1, <1>5, <2>1
<1>6. \A d \in Senders : Answer(d) => sending[d].stage = "answer"
  BY DEF Answer
<1>7. ASSUME ShowHistory(c) \/ ShowOlder(c) \/ Hear(c) PROVE Goal
  <2>1. view' = view
    BY <1>7 DEF ShowHistory, ShowOlder, Hear
  <2>2. ~Answer(c)
    <3>1. c \in Senders /\ sending[c] \in Sends /\ sending' = sending
      BY <1>7 DEF ChatInv, SendingFits, Senders, ShowHistory, ShowOlder, Hear
    <3>2. ASSUME Answer(c) PROVE FALSE
      <4>1. sending' = [sending EXCEPT ![c] = AtRest] /\ sending[c].stage = "answer"
        BY <3>2 DEF Answer, End
      <4>2. sending'[c].stage = "idle"
        BY <3>1, <4>1 DEF AtRest, ChatInv, SendingFits
      <4> QED
        BY <3>1, <4>1, <4>2
    <3> QED
      BY <3>2
  <2>3. (UNCHANGED <<list, marks>>) \/ \E messages : Put(c, messages)
    BY <1>7 DEF ShowHistory, ShowOlder, Hear
  <2> HIDE DEF Goal
  <2> QED
    BY <1>4, <1>5, <2>1, <2>2, <2>3
<1>8. ASSUME ~Answer(c), marks' = marks, list' = list, view' \subseteq view PROVE Goal
  BY <1>1, <1>8
<1>9. ASSUME NEW d \in Tabs \ {c}, Browse(d), ~Answer(c) PROVE Goal
  <2>1. marks'[c] = marks[c] /\ list'[c] = list[c] /\ (c \in view' => c \in view)
    <3>1. CASE \E messages : Put(d, messages) /\ view' = view
      BY <3>1, PutChanges
    <3>2. CASE Answer(d) \/ Mount(d) \/ MarkRead(d) \/ MarkFails(d)
      BY <1>1, <3>2 DEF Answer, Mount, MarkRead, MarkFails, lists
    <3>3. CASE marks' = marks /\ list' = list /\ view' \subseteq view
      BY <3>3
    <3>4. ShowHistory(d) \/ ShowOlder(d) \/ Hear(d)
          => view' = view /\ (UNCHANGED <<list, marks>> \/ \E messages : Put(d, messages))
      BY DEF ShowHistory, ShowOlder, Hear
    <3>5. Unmount(d) \/ Reconnect(d) \/ JoinChannel(d) \/ ReadHistory(d) \/ LoadMore(d) \/ ReadOlder(d)
          \/ QueryFails(d) \/ Count(d)
          => marks' = marks /\ list' = list /\ view' \subseteq view
      BY DEF Unmount, Reconnect, JoinChannel, ReadHistory, LoadMore, ReadOlder, QueryFails, Count, lists, unread
    <3> QED
      BY <1>9, <3>1, <3>2, <3>3, <3>4, <3>5 DEF Browse
  <2> QED
    BY <1>1, <1>9, <2>1
<1>10. ASSUME Unmount(c) \/ Reconnect(c) \/ JoinChannel(c) \/ ReadHistory(c) \/ LoadMore(c) \/ ReadOlder(c)
              \/ QueryFails(c) \/ Count(c)
       PROVE  marks' = marks /\ list' = list /\ view' \subseteq view
  BY <1>10 DEF Unmount, Reconnect, JoinChannel, ReadHistory, LoadMore, ReadOlder, QueryFails, Count, lists, unread
<1>11. ASSUME NEW d \in Senders, Send(d) PROVE marks' = marks /\ list' = list /\ view' = view
  BY <1>11 DEF Send, Post, SendFind, SendInsert, SendRead, SendTell, SendCount, Fail, lists, unread
<1>12. Archive \/ Unarchive \/ UNCHANGED vars => marks' = marks /\ list' = list /\ view' = view
  BY DEF Archive, Unarchive, vars, lists, unread
<1> HIDE DEF Goal
<1>13. MarkRead(c) \/ MarkFails(c) => Goal
  BY DEF Goal
<1>14. Goal
  BY <1>2, <1>3, <1>7, <1>8, <1>9, <1>10, <1>11, <1>12, <1>13 DEF Next, Browse
<1> QED
  BY <1>14 DEF Goal

(* Only a mark that goes through makes up for one that failed, or that was *)
(* not made.                                                               *)
LEMMA ExcusesStay ==
  ASSUME [Next]_vars, NEW c \in Tabs
  PROVE  \/ MarkRead(c)
         \/ /\ c \in unmarked => c \in unmarked'
            /\ c \in replaced => c \in replaced'
            /\ MarkFails(c) => c \in unmarked'
<1>1. ASSUME NEW d \in Senders, Send(d) PROVE unmarked' = unmarked /\ replaced' = replaced
  BY <1>1 DEF Send, Post, SendFind, SendInsert, SendRead, SendTell, SendCount, Fail, promise
<1>2. ASSUME NEW d \in Tabs, Browse(d), ~MarkRead(d) PROVE unmarked \subseteq unmarked' /\ replaced \subseteq replaced'
  BY <1>2 DEF Browse, Answer, Mount, Unmount, Reconnect, JoinChannel, ReadHistory, ShowHistory,
    LoadMore, ReadOlder, ShowOlder, Hear, MarkFails, QueryFails, Count, promise
<1>3. ASSUME NEW d \in Tabs \ {c}, MarkRead(d) PROVE unmarked \ {d} = unmarked' /\ replaced \ {d} = replaced'
  BY <1>3 DEF MarkRead
<1>4. Archive \/ Unarchive \/ UNCHANGED vars => unmarked' = unmarked /\ replaced' = replaced
  BY DEF Archive, Unarchive, vars, promise
<1>5. MarkFails(c) => c \in unmarked'
  BY DEF MarkFails
<1> QED
  BY <1>1, <1>2, <1>3, <1>4, <1>5 DEF Next

LEMMA MarkedNext ==
  ASSUME ChatInv, [Next]_vars
  PROVE  MarkedRead'
<1> SUFFICES ASSUME NEW c \in Tabs, c \in view', marks'[c] = 0, c \notin unmarked', c \notin replaced',
                    NEW m \in Range(list'[c])
             PROVE  m <= lastRead'[c]
  <2>1. view' \subseteq Tabs
    BY ChatTypeNext
  <2> QED
    BY <2>1 DEF MarkedRead, Shown
<1>1. /\ lastRead[c] \in 0..Len(stored) /\ Len(stored) \in Nat /\ marks[c] \in Nat
      /\ Kept = 1..Len(stored) /\ list[c] \in Seq(Kept) /\ IsInjective(list[c]) /\ lastRead \in [Tabs -> 0..Len(stored)]
      /\ c \in view /\ c \notin unmarked /\ c \notin replaced /\ marks[c] = 0 => \A n \in Shown(c) : n <= lastRead[c]
  BY DEF ChatInv, ChatType, TabsFit, NoRepeats, MarkedRead
<1>2. list'[c] \in Seq(Kept) /\ IsInjective(list'[c])
  BY ListStep
<1>3. m \in Kept
  BY <1>2, ShownFinite
<1>4. lastRead[c] <= lastRead'[c] /\ lastRead'[c] \in 0..Len(stored') /\ Len(stored') \in Nat
  BY ChatTypeNext, StoredStep
<1>5. CASE MarkRead(c)
  <2>1. lastRead' = [lastRead EXCEPT ![c] = Len(stored)]
    BY <1>5 DEF MarkRead
  <2>2. lastRead'[c] = Len(stored)
    BY <1>1, <2>1
  <2> QED
    BY <1>1, <1>3, <2>2
<1>6. CASE ~MarkRead(c)
  <2>6. c \notin unmarked /\ c \notin replaced /\ ~MarkFails(c)
    BY <1>6, ExcusesStay
  <2>1. /\ marks[c] <= marks'[c]
        /\ c \in view' => c \in view \/ marks'[c] > 0
        /\ c \in view /\ Len(list'[c]) # Len(list[c]) => marks'[c] > 0
    BY <1>6, <2>6, MarksStep
  <2>2. c \in view /\ marks[c] = 0 /\ Len(list'[c]) = Len(list[c])
    BY <1>1, <2>1
  <2>3. \A n \in Shown(c) : n <= lastRead[c]
    BY <1>1, <2>2, <2>6
  <2>4. CASE list'[c] = list[c]
    <3>1. m \in Shown(c)
      BY <2>4 DEF Shown
    <3> QED
      BY <1>1, <1>3, <1>4, <2>3, <3>1
  <2>5. CASE ShowHistory(c)
    <3>1. list'[c] = history[c].page
      BY <2>5, PutChanges DEF ShowHistory
    <3>2. PICK n \in 0..Len(stored) : list'[c] = Before(n + 1)
      BY <2>5, <3>1 DEF ShowHistory, ChatInv, PagesFit
    <3>3. n \in Nat
      BY <1>1
    <3>10. CASE list'[c] = list[c]
      BY <2>4, <3>10
    <3> SUFFICES ASSUME list'[c] # list[c] PROVE m <= lastRead'[c]
      BY <3>10
    <3>11. Len(list'[c]) # Page
      BY <2>2, <2>5, <3>1 DEF ShowHistory
    <3>4. list'[c] \in Seq(1..n) /\ Len(list'[c]) = n
      BY <3>2, <3>3, <3>11, BeforeLists
    <3>5. m \in 1..n
      BY <3>4, ShownFinite
    <3>6. Len(list[c]) = n
      BY <2>2, <3>4
    <3>7. Shown(c) \subseteq 1..lastRead[c]
      <4>1. Shown(c) \subseteq Kept
        BY <1>1, ShownFinite DEF Shown
      <4> QED
        BY <1>1, <2>3, <4>1
    <3>8. lastRead[c] \in Nat
      BY <1>1
    <3>9. n <= lastRead[c]
      BY <1>1, <3>6, <3>7, <3>8, FewNumbers DEF Shown
    <3> QED
      BY <1>4, <3>3, <3>5, <3>8, <3>9
  <2> QED
    BY <2>2, <2>4, <2>5, ListStep
<1> QED
  BY <1>5, <1>6

(* A count that is not fetched anew is the one that was fetched.           *)
LEMMA CountStep ==
  ASSUME ChatInv, [Next]_vars, NEW c \in Tabs, c \notin stale', c \notin broken', c \notin unmarked'
  PROVE  /\ ~Reconnect(c) /\ ~MarkRead(c) /\ ~MarkFails(c) /\ (Hear(c) => Head(inbox[c]) # NewCounts)
         /\ \/ Count(c)
            \/ c \notin stale /\ badge'[c] = badge[c]
<1>1. DOMAIN badge = Tabs
  BY DEF ChatInv, ChatType
<1>2. ~Reconnect(c) /\ ~MarkRead(c) /\ ~MarkFails(c) /\ (Hear(c) => Head(inbox[c]) # NewCounts)
  BY DEF Reconnect, MarkRead, MarkFails, Hear
<1>3. ASSUME NEW d \in Senders, Send(d) PROVE stale' = stale /\ badge' = badge
  BY <1>3 DEF Send, Post, SendFind, SendInsert, SendRead, SendTell, SendCount, Fail, unread
<1>4. ASSUME NEW d \in Tabs, Browse(d), ~Count(c) PROVE (c \in stale => c \in stale') /\ badge'[c] = badge[c]
  <2>1. CASE Count(d)
    BY <1>1, <1>4, <2>1 DEF Count
  <2>2. ~Count(d) => stale \subseteq stale' /\ badge' = badge
    BY <1>4 DEF Browse, Answer, Mount, Unmount, Reconnect, JoinChannel, ReadHistory, ShowHistory,
      LoadMore, ReadOlder, ShowOlder, Hear, MarkRead, MarkFails, QueryFails, unread
  <2> QED
    BY <2>1, <2>2
<1>5. Archive \/ Unarchive \/ UNCHANGED vars => stale' = stale /\ badge' = badge
  BY DEF Archive, Unarchive, vars, unread
<1> QED
  BY <1>2, <1>3, <1>4, <1>5 DEF Next

(* What a count depends on changes only as a message is sent or read.      *)
LEMMA UnreadStep ==
  ASSUME ChatInv, [Next]_vars, NEW c \in Tabs
  PROVE  \/ stored' = stored /\ lastRead'[c] = lastRead[c]
         \/ MarkRead(c) \/ MarkFails(c)
         \/ \E d \in Senders : sending'[d].stage \in Told
<1>1. lastRead \in [Tabs -> 0..Len(stored)] /\ sending \in [Senders -> Sends]
  BY DEF ChatInv, ChatType, SendingFits
<1>2. ASSUME NEW d \in Senders, SendInsert(d) \/ SendRead(d)
      PROVE  sending'[d].stage \in Told
  <2>1. sending'[d].stage \in {"read", "tell"}
    BY <1>1, <1>2 DEF SendInsert, SendRead, Stage, Sends
  <2> QED
    BY <2>1 DEF Told
<1>3. ASSUME NEW d \in Senders, Send(d), ~SendInsert(d), ~SendRead(d)
      PROVE  stored' = stored /\ lastRead' = lastRead
  BY <1>3 DEF Send, Post, SendFind, SendTell, SendCount, Fail, server
<1>4. ASSUME NEW d \in Tabs, Browse(d) PROVE MarkRead(d) \/ MarkFails(d) \/ (stored' = stored /\ lastRead' = lastRead)
  BY <1>4 DEF Browse, Answer, Mount, Unmount, Reconnect, JoinChannel, ReadHistory, ShowHistory,
    LoadMore, ReadOlder, ShowOlder, Hear, QueryFails, Count, server
<1>5. ASSUME NEW d \in Tabs \ {c}, MarkRead(d) \/ MarkFails(d) PROVE stored' = stored /\ lastRead'[c] = lastRead[c]
  BY <1>1, <1>5 DEF MarkRead, MarkFails
<1>6. Archive \/ Unarchive \/ UNCHANGED vars => stored' = stored /\ lastRead' = lastRead
  BY DEF Archive, Unarchive, vars, server
<1> QED
  BY <1>2, <1>3, <1>4, <1>5, <1>6 DEF Next

LEMMA CountNext ==
  ASSUME ChatInv, [Next]_vars
  PROVE  CountComes'
<1> SUFFICES ASSUME NEW c \in Tabs, c \notin stale', c \notin broken', c \notin unmarked'
             PROVE  \/ failed' # {}
                    \/ NewCounts \in Range(inbox'[c])
                    \/ \E d \in Senders : sending'[d].stage \in Told
                    \/ direct' /\ (sending'[c].stage = "answer" \/ marks'[c] > 0)
                    \/ (badge[c] = Unread(c))'
  BY DEF CountComes, NewCounts
<1> DEFINE Goal == \/ failed' # {}
                   \/ NewCounts \in Range(inbox'[c])
                   \/ \E d \in Senders : sending'[d].stage \in Told
                   \/ direct' /\ (sending'[c].stage = "answer" \/ marks'[c] > 0)
                   \/ (badge[c] = Unread(c))'
<1>1. failed \subseteq failed' /\ c \notin broken /\ direct' = direct
  BY FailedStep
<1>2. /\ ~Reconnect(c) /\ ~MarkRead(c) /\ ~MarkFails(c) /\ (Hear(c) => Head(inbox[c]) # NewCounts)
      /\ Count(c) \/ (c \notin stale /\ badge'[c] = badge[c])
  BY CountStep
<1>6. c \notin unmarked
  BY <1>2, ExcusesStay
<1>3. ASSUME Count(c) PROVE Goal
  <2>1. badge' = [badge EXCEPT ![c] = Unread(c)] /\ stored' = stored /\ lastRead' = lastRead
    BY <1>3 DEF Count, server
  <2>2. badge'[c] = Unread(c)
    BY <2>1 DEF ChatInv, ChatType
  <2>3. (badge[c] = Unread(c))'
    BY <1>1, <2>1, <2>2 DEF Unread
  <2> QED
    BY <2>3
<1>4. ASSUME c \notin stale, badge'[c] = badge[c] PROVE Goal
  <2>1. \/ failed # {}
        \/ NewCounts \in Range(inbox[c])
        \/ \E d \in Senders : sending[d].stage \in Told
        \/ direct /\ (sending[c].stage = "answer" \/ marks[c] > 0)
        \/ badge[c] = Unread(c)
    BY <1>1, <1>4, <1>6 DEF ChatInv, CountComes
  <2>2. CASE failed # {}
    BY <1>1, <2>2
  <2>3. CASE NewCounts \in Range(inbox[c])
    <3>1. NewCounts \in Range(inbox'[c])
      BY <1>2, <2>3, InboxStep
    <3> QED
      BY <3>1
  <2>4. ASSUME NEW d \in Senders, sending[d].stage \in Told PROVE Goal
    <3>1. Moves(d)
      BY SendingMoves
    <3>2. ~Post(d) /\ ~SendFind(d) /\ ~Answer(d) /\ ~SendInsert(d)
      BY <2>4 DEF Post, SendFind, Answer, SendInsert, Told
    <3>3. CASE sending'[d].stage \in Told
      BY <3>3
    <3>4. CASE SendCount(d)
      <4>1. CASE direct /\ c = d
        <5>1. sending'[c].stage = "answer"
          BY <3>4, <4>1 DEF SendCount, Stage, ChatInv, SendingFits, Sends
        <5> QED
          BY <1>1, <4>1, <5>1
      <4>2. CASE ~(direct /\ c = d)
        <5>1. NewCounts \in Range(inbox'[c])
          BY <3>4, <4>2, InboxStep
        <5> QED
          BY <5>1
      <4> QED
        BY <4>1, <4>2
    <3>5. CASE Fail(d)
      <4>1. sending[d].message \in Kept /\ Kept = 1..Len(stored) /\ Len(stored) \in Nat
        BY <2>4 DEF ChatInv, ChatType, SendingFits
      <4>2. sending[d].message # 0
        BY <4>1
      <4>3. failed' # {}
        BY <3>5, <4>2 DEF Fail
      <4> QED
        BY <4>3
    <3>6. sending'[d].stage = sending[d].stage \/ sending'[d].stage \in {"read", "tell", "count"}
          => sending'[d].stage \in Told
      BY <2>4 DEF Told
    <3> HIDE DEF Goal
    <3> QED
      BY <3>1, <3>2, <3>3, <3>4, <3>5, <3>6 DEF Moves
  <2>5. ASSUME direct, sending[c].stage = "answer" PROVE Goal
    <3>1. c \in Senders /\ Moves(c)
      BY SendingMoves DEF Senders
    <3>2. /\ ~Post(c) /\ ~SendFind(c) /\ ~SendInsert(c) /\ ~SendRead(c) /\ ~SendTell(c)
          /\ ~SendCount(c)
      BY <2>5 DEF Post, SendFind, SendInsert, SendRead, SendTell, SendCount
    <3>5. Fail(c) => failed' # {}
      <4>1. sending[c].message \in Kept /\ Kept = 1..Len(stored) /\ Len(stored) \in Nat
        BY <2>5, <3>1 DEF ChatInv, ChatType, SendingFits
      <4>2. sending[c].message # 0
        BY <4>1
      <4> QED
        BY <4>2 DEF Fail
    <3>3. Answer(c) => marks'[c] > 0
      BY <1>2, MarksStep
    <3>4. Answer(c) \/ Fail(c) \/ sending'[c].stage = "answer"
      BY <2>5, <3>1, <3>2 DEF Moves
    <3> QED
      BY <1>1, <2>5, <3>3, <3>4, <3>5
  <2>6. ASSUME direct, marks[c] > 0 PROVE Goal
    <3>1. marks[c] <= marks'[c]
      BY <1>2, MarksStep
    <3>2. marks[c] \in Nat /\ marks'[c] \in Nat
      BY ChatTypeNext DEF ChatInv, ChatType
    <3> QED
      BY <1>1, <2>6, <3>1, <3>2
  <2>7. ASSUME badge[c] = Unread(c) PROVE Goal
    <3>1. CASE stored' = stored /\ lastRead'[c] = lastRead[c]
      <4>1. (badge[c] = Unread(c))'
        BY <1>1, <1>4, <2>7, <3>1 DEF Unread
      <4> QED
        BY <4>1
    <3>2. (\E d \in Senders : sending'[d].stage \in Told) => Goal
      OBVIOUS
    <3> HIDE DEF Goal
    <3> QED
      BY <1>2, <3>1, <3>2, UnreadStep
  <2> HIDE DEF Goal
  <2>8. (failed # {} \/ NewCounts \in Range(inbox[c])) => Goal
    BY <2>2, <2>3
  <2> QED
    BY <2>1, <2>4, <2>5, <2>6, <2>7, <2>8
<1> HIDE DEF Goal
<1>5. Goal
  BY <1>2, <1>3, <1>4
<1> QED
  BY <1>5 DEF Goal

----------------------------------------------------------------------------
LEMMA ChatInit == Init => ChatInv
<1> SUFFICES ASSUME Init PROVE ChatInv
  OBVIOUS
<1>1. \A S : <<>> \in Seq(S)
  BY EmptySeq
<1>2. Len(stored) = 0 /\ Kept = 1..0 /\ stored \in Seq(Senders)
  BY <1>1 DEF Init, Kept
<1>3. Len(stored) \in Nat /\ 0 \in 0..Len(stored) /\ 0 \in Nat /\ DOMAIN stored = {}
  BY <1>2 DEF Init
<1>4. ChatType
  BY <1>2, <1>3 DEF Init, ChatType
<1>5. TabsFit
  BY <1>1 DEF Init, TabsFit
<1>6. PagesFit
  <2>1. Idle \in Asked /\ Idle.stage = "idle" /\ Idle.page = <<>>
    BY <1>1 DEF Idle, Asked
  <2> QED
    BY <1>1, <2>1 DEF Init, PagesFit
<1>7. SendingFits
  <2>1. AtRest \in Sends /\ AtRest.stage = "idle" /\ AtRest.message = 0
    BY DEF AtRest, Sends
  <2>2. "idle" \notin Told
    BY DEF Told
  <2> QED
    BY <2>1, <2>2 DEF Init, SendingFits
<1>8. NoRepeats
  BY DEF Init, NoRepeats, IsInjective
<1>9. OwedComes /\ MarkedRead
  BY DEF Init, OwedComes, MarkedRead
<1>10. CountComes
  <2>1. ASSUME NEW c \in Tabs PROVE badge[c] = Unread(c)
    <3>1. {m \in DOMAIN stored : stored[m] # c /\ m > lastRead[c]} = {}
      BY <1>3
    <3>2. {} \cap {Len(stored)} = {}
      OBVIOUS
    <3>3. Unread(c) = 0
      BY <3>1, <3>2, FS_EmptySet DEF Unread
    <3> QED
      BY <3>3 DEF Init
  <2> QED
    BY <2>1 DEF CountComes
<1> QED
  BY <1>4, <1>5, <1>6, <1>7, <1>8, <1>9, <1>10 DEF ChatInv

LEMMA ChatStep == ChatInv /\ [Next]_vars => ChatInv'
<1> SUFFICES ASSUME ChatInv, [Next]_vars PROVE ChatInv'
  OBVIOUS
<1>1. ChatType' /\ TabsFit' /\ PagesFit' /\ SendingFits' /\ NoRepeats' /\ OwedComes' /\ MarkedRead' /\ CountComes'
  BY ChatTypeAll, TabsFitNext, PagesFitNext, SendingFitsNext, OwedNext, MarkedNext, CountNext
<1> QED
  BY <1>1 DEF ChatInv

LEMMA ChatInvHolds == Spec => []ChatInv
BY ChatInit, ChatStep, PTL DEF Spec

(* Whatever is shown, on its way, owed, fetched or being sent is a message *)
(* that is stored, a message is being told of by its own sender, and a     *)
(* page is a run of the messages stored by then.                           *)
THEOREM ChatKeepsItsShape == Spec => [](ChatType /\ TabsFit /\ PagesFit /\ SendingFits)
<1>1. ChatInv => ChatType /\ TabsFit /\ PagesFit /\ SendingFits
  BY DEF ChatInv
<1> QED
  BY <1>1, ChatInvHolds, PTL

(* No tab shows a message twice: chat-room.tsx looks for its id before it  *)
(* adds a message, and handleLoadMore drops what is shown.                 *)
THEOREM ChatNoRepeats == Spec => []NoRepeats
<1>1. ChatInv => NoRepeats
  BY DEF ChatInv
<1> QED
  BY <1>1, ChatInvHolds, PTL

(* A tab in the room shows every message stored since: the order of        *)
(* joinChannel, the query of the history and message:new loses none.       *)
THEOREM ChatSettledSee == Spec => []SettledSee
<1>1. ChatInv => SettledSee
  <2> SUFFICES ASSUME ChatInv, NEW c \in Tabs, NEW m \in owed[c]
               PROVE  m \in Shown(c) \/ m \in failed \/ OnItsWay(m, c)
    BY DEF SettledSee
  <2>1. \/ m \in Shown(c) \/ m \in failed
        \/ \E i \in DOMAIN inbox[c] : inbox[c][i] = m
        \/ sending[stored[m]].message = m /\ sending[stored[m]].stage \in {"read", "tell"}
    BY DEF ChatInv, OwedComes
  <2> QED
    BY <2>1 DEF OnItsWay
<1> QED
  BY <1>1, ChatInvHolds, PTL

(* What an open channel shows counts as read once the marks are through:   *)
(* the effect of chat-room.tsx marks it whenever its length changes, and   *)
(* what is lost is a mark that failed or a full page for a full page.      *)
THEOREM ChatShownRead == Spec => []ShownRead
<1>1. ChatInv => ShownRead
  BY DEF ChatInv, MarkedRead, ShownRead
<1> QED
  BY <1>1, ChatInvHolds, PTL

(* A count that is not being fetched anew is the one of the database, once *)
(* the events and the marks that change it are through.                    *)
THEOREM ChatBadgeFresh == Spec => []BadgeFresh
<1>1. ChatInv => BadgeFresh
  <2> SUFFICES ASSUME ChatInv, NEW c \in Tabs \ (stale \cup broken \cup unmarked)
               PROVE  \/ failed # {}
                      \/ NewCounts \in Range(inbox[c])
                      \/ \E d \in Senders : sending[d].stage \in {"read", "tell", "count"}
                      \/ sending[c].stage = "answer" \/ (direct /\ marks[c] > 0)
                      \/ badge[c] = Unread(c)
    BY DEF BadgeFresh
  <2> QED
    BY DEF ChatInv, CountComes, Told
<1> QED
  BY <1>1, ChatInvHolds, PTL
=============================================================================
