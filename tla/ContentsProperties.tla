------------------------- MODULE ContentsProperties --------------------------
(* What contents, their counters and the lists of favorites promise.       *)
EXTENDS Contents, Favorites

(* Variables hold values of their types.                                   *)
ContentsTypeOK ==
  /\ life \in [Contents -> {"new", "stored", "removed"}]
  /\ album \in [Photos -> Albums \cup {None}]
  /\ photos \in [Albums -> Int]
  /\ views \in [Contents -> 0 .. MaxViews]
  /\ userViews \in [Users -> 0 .. MaxViews]
  /\ req \in [Procs -> Requests]
  /\ moves \in [Albums -> 0 .. MaxMoves]
  /\ crashes \in 0 .. MaxCrashes
  /\ list \in ItemLists
  /\ removed \subseteq Items
  /\ favorites \in [Docs -> SUBSET People]
  /\ counter \in [Docs -> 0 .. Cardinality(People)]
  /\ call \in [Callers -> Calls]

PhotosIn(a) == {p \in Photos : life[p] = "stored" /\ album[p] = a}

(* An album never shows more photos than it holds, whatever insertions,    *)
(* removals and restarts overlap, because a photo is counted after it is   *)
(* stored and taken off before it is removed (photo.controller.ts:573-596);*)
(* photos that an admin moved elsewhere stay counted.                      *)
AlbumNotOverstated ==
  \A a \in Albums :
    life[a] = "stored" => photos[a] <= Cardinality(PhotosIn(a)) + moves[a]

PendingViews == {p \in Procs : At(p, "viewed")}

(* A view of a content is a view of its owner once the request is over:    *)
(* the two $inc of inc-field.restdone.plugin.ts:46-60 lose no view but     *)
(* those a restart cuts.                                                   *)
ViewsCounted ==
  LET total == Total(userViews) + Cardinality(PendingViews)
  IN
    /\ total <= Total(views)
    /\ crashes = 0 => total = Total(views)

(* Counters kept in another document than what they count.                 *)
ContentCounters == AlbumNotOverstated /\ ViewsCounted

(* A list and its counter agree after a call that read the list the save   *)
(* still found, so that a counter left behind by calls that overlapped is  *)
(* put right by the next call (array-with-counter.restdone.plugin.ts:      *)
(* 147-162 and 197-216).                                                   *)
CounterFollowsRead ==
  [][\A c \in Callers :
       /\ SaveList(c)
       /\ call[c].doc \notin removed
       /\ call[c].read = favorites[call[c].doc]
       => counter'[call[c].doc] = Cardinality(favorites'[call[c].doc])]_favoriteVars

(* The changes a request still has to make to lists of favorites.          *)
OwnerLists(r) ==
  IF r.doc \in Items /\ list.mirrored THEN {CreatorOf[r.doc]} ELSE {}

ListChanges(o, ds, who) == {[op |-> o, doc |-> d, who |-> who] : d \in ds}

Owed(r) ==
  IF r.pc = "put" THEN ListChanges("add", {r.doc} \cup OwnerLists(r), r.who)
  ELSE IF r.pc = "pull" THEN ListChanges("remove", {r.doc}, r.who)
  ELSE IF r.pc = "mirror" THEN ListChanges("add", OwnerLists(r), r.who)
  ELSE {}

owedByCalls == [c \in Callers |-> Owed(call[c])]

Lists == INSTANCE Collection WITH
  Members <- People, members <- favorites, owed <- owedByCalls

(* Lists of favorites merge the calls that overlap: each call changes its  *)
(* own users in the lists of its document and of the owner, at most once,  *)
(* and no call undoes another one, although every call reads the list      *)
(* first (array-with-counter.restdone.plugin.ts:147-216,                   *)
(* photo.controller.ts:500-509).                                           *)
FavoritesMerge == Lists!Spec
=============================================================================
