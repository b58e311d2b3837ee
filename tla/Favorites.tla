------------------------------ MODULE Favorites ------------------------------
(***************************************************************************)
(* Lists of users kept in documents: who has a content or a user among the *)
(* favorites, who likes or views a live stream.  A list and its counter    *)
(* are kept by array-with-counter.restdone.plugin: the document is read    *)
(* with its list but without its counter, changed and saved, and the save  *)
(* sends the change of the list ($addToSet, $pullAll) but the value of the *)
(* counter.  A favorite of a content goes to the favorites of its owner.   *)
(***************************************************************************)
EXTENDS Integers, FiniteSets

CONSTANTS
  People,      \* users
  Creators,    \* those of them whose profiles have favorites
  Items,       \* contents with favorites
  CreatorOf,   \* item |-> its owner
  Callers      \* running requests

Docs == Items \cup Creators

(* A creator is a user and not a content.                                  *)
ASSUME CreatorOfAssumption ==
  /\ Creators \subseteq People
  /\ Items \cap Creators = {}
  /\ CreatorOf \in [Items -> Creators]

VARIABLES
  list,       \* which list of the items the behaviour is about
  removed,    \* the items removed
  favorites,  \* document |-> favoritedUsers
  counter,    \* document |-> favoritedUsersCounter
  call        \* caller |-> where its request is and what it holds

favoriteVars == <<list, removed, favorites, counter, call>>

-----------------------------------------------------------------------------
(* The lists: whether a put goes to the favorites of the owner too, and    *)
(* whether users can be taken out.                                         *)
List(mirrored, shrinks) == [mirrored |-> mirrored, shrinks |-> shrinks]

AlbumFavorites == List(TRUE, TRUE)
PhotoFavorites == List(TRUE, TRUE)
LiveStreamFavorites == List(TRUE, TRUE)
LikedUsers == List(FALSE, TRUE)
LiveStreamViewers == List(FALSE, FALSE)
UserFavorites == List(FALSE, TRUE)

ItemLists ==
  {AlbumFavorites, PhotoFavorites, LiveStreamFavorites, LikedUsers,
   LiveStreamViewers}
ListOf(d) == IF d \in Items THEN list ELSE UserFavorites

NoCall == [pc |-> "none"]
Calls ==
  {NoCall}
    \cup [pc : {"put", "pull"}, doc : Docs, who : SUBSET People,
          single : BOOLEAN, read : SUBSET People]
    \cup [pc : {"mirror"}, doc : Items, who : SUBSET People]

Goes(c, r) == call' = [call EXCEPT ![c] = r]
Returns(c) == Goes(c, NoCall)

FavoritesInit ==
  /\ list \in ItemLists
  /\ removed = {}
  /\ favorites = [d \in Docs |-> {}]
  /\ counter = [d \in Docs |-> 0]
  /\ call = [c \in Callers |-> NoCall]

(* A user names only oneself in the path (single); a body may name anyone. *)
(* For a removal it makes no difference.                                   *)
MayName(pc, who, single) ==
  IF single THEN pc = "put" /\ Cardinality(who) = 1 ELSE who # {}

(* The document is read with its list.                                     *)
ReadList(c) ==
  /\ call[c] = NoCall
  /\ \E d \in Docs \ removed, who \in SUBSET People, s \in BOOLEAN,
        pc \in {"put", "pull"} :
       /\ MayName(pc, who, s)
       /\ pc = "pull" => ListOf(d).shrinks
       /\ Goes(c, [pc |-> pc, doc |-> d, who |-> who, single |-> s,
                   read |-> favorites[d]])
  /\ UNCHANGED <<list, removed, favorites, counter>>

(* Mutant: the length is taken before the change.                          *)
LengthRead(r) == Cardinality(r.read)

(* The new counter, the length of the list that was read and changed.      *)
NewLength(r) ==
  Cardinality(IF r.pc = "put" THEN r.read \cup r.who ELSE r.read \ r.who)

(* Mutant: the save sends the whole list.                                  *)
Overwritten(now, r) ==
  IF r.pc = "put" THEN r.read \cup r.who ELSE r.read \ r.who

(* What the save makes of the stored list: a put sends the users who were  *)
(* not in the list that was read, a removal sends all of its users.        *)
Merged(now, r) ==
  IF r.pc = "put" THEN now \cup (r.who \ r.read) ELSE now \ r.who

(* afterPut of the favorites of contents: those of the owner get the user  *)
(* too.  A put of several users names none in the path.                    *)
Mirrors(r) == r.pc = "put" /\ r.single /\ ListOf(r.doc).mirrored

(* doc.save(), which changes nothing when the document is gone.            *)
SaveList(c) ==
  LET r == call[c]
  IN
    /\ r.pc \in {"put", "pull"}
    /\ IF r.doc \in removed
       THEN UNCHANGED <<favorites, counter>> /\ Returns(c)
       ELSE /\ favorites' = [favorites EXCEPT ![r.doc] = Merged(@, r)]
            /\ counter' = [counter EXCEPT ![r.doc] = NewLength(r)]
            /\ IF Mirrors(r)
               THEN Goes(c, [pc |-> "mirror", doc |-> r.doc, who |-> r.who])
               ELSE Returns(c)
    /\ UNCHANGED <<list, removed>>

(* The item is read again for its owner, whose counter does not follow.    *)
MirrorToOwner(c) ==
  LET r == call[c]
  IN
    /\ r.pc = "mirror"
    /\ IF r.doc \in removed
       THEN UNCHANGED favorites
       ELSE favorites' = [favorites EXCEPT ![CreatorOf[r.doc]] = @ \cup r.who]
    /\ Returns(c)
    /\ UNCHANGED <<list, removed, counter>>

(* The owner or an admin removes an item.                                  *)
RemoveItem ==
  /\ \E i \in Items \ removed : removed' = removed \cup {i}
  /\ UNCHANGED <<list, favorites, counter, call>>

(* The application stops and starts again, however often: calls under way  *)
(* are cut.                                                                *)
Restart ==
  /\ call' = [c \in Callers |-> NoCall]
  /\ UNCHANGED <<list, removed, favorites, counter>>

FavoritesNext ==
  \/ \E c \in Callers : ReadList(c) \/ SaveList(c) \/ MirrorToOwner(c)
  \/ RemoveItem
  \/ Restart
=============================================================================
