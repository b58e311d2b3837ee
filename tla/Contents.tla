------------------------------ MODULE Contents -------------------------------
(***************************************************************************)
(* The contents of a creator (albums, the photos in them, videos and live  *)
(* streams): their insertion and removal, the photos counter of an album   *)
(* and the views counters of a content and of its owner.  A request is a   *)
(* process, and each of its database calls is one action.  Owners of       *)
(* contents do not change.                                                 *)
(***************************************************************************)
EXTENDS Integers, FiniteSets, Sums

CONSTANTS
  Users,
  Albums,
  Photos,
  Others,    \* videos and live streams
  OwnerOf,   \* content |-> the creator who may insert it
  Procs,     \* running requests
  None,      \* no album
  MaxViews,  \* bound: views of all contents
  MaxMoves,  \* bound: photos moved to another album by admins
  MaxCrashes \* bound: restarts of the application

Contents == Albums \cup Photos \cup Others

ASSUME PhotosAssumption == Photos \cap Albums = {}
ASSUME FinitenessAssumption ==
  IsFiniteSet(Users) /\ IsFiniteSet(Contents) /\ IsFiniteSet(Procs)
ASSUME OwnerOfAssumption == OwnerOf \in [Contents -> Users]
ASSUME ContentsBoundsAssumption ==
  MaxViews \in Nat /\ MaxMoves \in Nat /\ MaxCrashes \in Nat

VARIABLES
  life,       \* content |-> "new", "stored" or "removed"
  album,      \* photo |-> its album
  photos,     \* album |-> photosCounter
  views,      \* content |-> viewsCounter
  userViews,  \* user |-> viewsCounter of the profile
  req,        \* process |-> where its request is and what it holds
  moves,      \* album |-> photos moved out of it (bounded by MaxMoves)
  crashes     \* restarts (bounded by MaxCrashes)

stored == <<life, album, photos, moves>>
seen == <<views, userViews>>
contentVars == <<stored, seen, req, crashes>>

-----------------------------------------------------------------------------
Idle == [pc |-> "idle"]
Requests ==
  {Idle}
    \cup [pc : {"save", "count", "uncount", "remove"}, content : Contents,
          album : Albums \cup {None}]
    \cup [pc : {"viewed"}, content : Contents]

At(p, pc) == req[p].pc = pc
Become(p, r) == req' = [req EXCEPT ![p] = r]
Finish(p) == Become(p, Idle)
Live == {c \in Contents : life[c] = "stored"}

ContentsInit ==
  /\ life = [c \in Contents |-> "new"]
  /\ album = [p \in Photos |-> None]
  /\ photos = [a \in Albums |-> 0]
  /\ views = [c \in Contents |-> 0]
  /\ userViews = [u \in Users |-> 0]
  /\ req = [p \in Procs |-> Idle]
  /\ moves = [a \in Albums |-> 0]
  /\ crashes = 0

-----------------------------------------------------------------------------
(* Contents                                                                *)

(* A photo goes to an album of its owner, which pre looked up; an admin    *)
(* names any album, even one that was removed.                             *)
Known == {a \in Albums : life[a] # "new"}

MayHold(admin, c, a) ==
  IF c \in Photos
  THEN a \in Known /\ (~admin => a \in Live /\ OwnerOf[a] = OwnerOf[c])
  ELSE a = None

(* pre of an insertion.                                                    *)
StartInsert(p) ==
  /\ At(p, "idle")
  /\ \E c \in Contents, a \in Albums \cup {None}, admin \in BOOLEAN :
       /\ life[c] = "new"
       /\ \A q \in Procs : At(q, "save") => req[q].content # c
       /\ MayHold(admin, c, a)
       /\ Become(p, [pc |-> "save", content |-> c, album |-> a])
  /\ UNCHANGED <<stored, seen, crashes>>

(* The document is stored, with counters at 0 and an empty list.           *)
SaveContent(p) ==
  LET c == req[p].content
  IN
    /\ At(p, "save")
    /\ life' = [life EXCEPT ![c] = "stored"]
    /\ album' = [x \in Photos |-> IF x = c THEN req[p].album ELSE album[x]]
    /\ IF c \in Photos THEN Become(p, [req[p] EXCEPT !.pc = "count"])
                       ELSE Finish(p)
    /\ UNCHANGED <<photos, moves, seen, crashes>>

(* Mutant: the removal of a photo is forgotten.                            *)
AddOnly(a, n) ==
  photos' = [x \in Albums |->
               IF x = a /\ x \in Live /\ n > 0 THEN photos[x] + n ELSE photos[x]]

(* incPhotoCounter; the album may be gone.                                 *)
AddTo(a, n) ==
  photos' = [x \in Albums |-> IF x = a /\ x \in Live THEN photos[x] + n
                                                      ELSE photos[x]]

(* afterSave of a photo counts it in the album it was stored with.         *)
CountPhoto(p) ==
  /\ At(p, "count")
  /\ AddTo(req[p].album, 1)
  /\ Finish(p)
  /\ UNCHANGED <<life, album, moves, seen, crashes>>

(* A removal locates the document, by its owner or by an admin.            *)
StartDelete(p) ==
  /\ At(p, "idle")
  /\ \E c \in Live :
       Become(p, IF c \in Photos
                 THEN [pc |-> "uncount", content |-> c, album |-> album[c]]
                 ELSE [pc |-> "remove", content |-> c, album |-> None])
  /\ UNCHANGED <<stored, seen, crashes>>

(* beforeDelete of a photo takes it off the album it was located in.       *)
UncountPhoto(p) ==
  /\ At(p, "uncount")
  /\ AddTo(req[p].album, -1)
  /\ Become(p, [req[p] EXCEPT !.pc = "remove"])
  /\ UNCHANGED <<life, album, moves, seen, crashes>>

(* The photos of an album stay when it is removed.                         *)
RemoveContent(p) ==
  /\ At(p, "remove")
  /\ life' = [life EXCEPT ![req[p].content] = "removed"]
  /\ Finish(p)
  /\ UNCHANGED <<album, photos, moves, seen, crashes>>

(* An admin's update may name another album; no counter follows.           *)
MovePhoto ==
  /\ \E x \in Photos \cap Live, a \in Known :
       /\ a # album[x]
       /\ moves[album[x]] < MaxMoves
       /\ album' = [album EXCEPT ![x] = a]
       /\ moves' = [moves EXCEPT ![album[x]] = @ + 1]
  /\ UNCHANGED <<life, photos, seen, req, crashes>>

-----------------------------------------------------------------------------
(* Views                                                                   *)

(* The $inc of the content, which must exist.                              *)
View(p) ==
  /\ At(p, "idle")
  /\ Total(views) < MaxViews
  /\ \E c \in Live :
       /\ views' = [views EXCEPT ![c] = @ + 1]
       /\ Become(p, [pc |-> "viewed", content |-> c])
  /\ UNCHANGED <<stored, userViews, crashes>>

(* Mutant: a view of a content that was removed meanwhile is not counted.  *)
ViewOwnerOfStored(p) ==
  /\ At(p, "viewed")
  /\ userViews' =
       IF req[p].content \in Live
       THEN [userViews EXCEPT ![OwnerOf[req[p].content]] = @ + 1] ELSE userViews
  /\ Finish(p)
  /\ UNCHANGED <<stored, views, crashes>>

(* afterInc: the $inc of its owner.                                        *)
ViewOwner(p) ==
  /\ At(p, "viewed")
  /\ userViews' = [userViews EXCEPT ![OwnerOf[req[p].content]] = @ + 1]
  /\ Finish(p)
  /\ UNCHANGED <<stored, views, crashes>>

-----------------------------------------------------------------------------
(* The application stops and starts again: requests under way are cut.     *)
Crash ==
  /\ crashes < MaxCrashes
  /\ crashes' = crashes + 1
  /\ req' = [p \in Procs |-> Idle]
  /\ UNCHANGED <<stored, seen>>

ContentsNext ==
  \/ \E p \in Procs :
       \/ StartInsert(p) \/ SaveContent(p) \/ CountPhoto(p)
       \/ StartDelete(p) \/ UncountPhoto(p) \/ RemoveContent(p)
       \/ View(p) \/ ViewOwner(p)
  \/ MovePhoto
  \/ Crash
=============================================================================
