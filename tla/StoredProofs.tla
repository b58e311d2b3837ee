----------------------------- MODULE StoredProofs -----------------------------
(***************************************************************************)
(* Proofs about StoredValues, for any users, documents and number of       *)
(* calls and restarts: lists of favorites implement Collection, and their  *)
(* counters follow; an album shows no photos it lacks; ratings are those   *)
(* of the reviews; a photo or video is whole; and migrations keep what     *)
(* they promise and what was counted.                                      *)
(***************************************************************************)
EXTENDS StoredValues, SumsProofs, SequenceTheorems

-----------------------------------------------------------------------------
(* Lists of favorites                                                      *)

FavoritesSpec == FavoritesInit /\ [][FavoritesNext]_favoriteVars

(* The state as the mapping to Collection needs it: types, and that calls  *)
(* go to the owner only for the lists that have it so.                     *)
ListsTyped ==
  /\ list \in ItemLists
  /\ favorites \in [Docs -> SUBSET People]
  /\ call \in [Callers -> Calls]
  /\ \A c \in Callers : call[c].pc = "mirror" => list.mirrored

(* The two kinds of calls under way.                                       *)
ListCalls ==
  [pc : {"put", "pull"}, doc : Docs, who : SUBSET People, single : BOOLEAN,
   read : SUBSET People]
MirrorCalls == [pc : {"mirror"}, doc : Items, who : SUBSET People]

(* The change a call makes in the list of its own document.                *)
ListChange(r) ==
  [op |-> IF r.pc = "put" THEN "add" ELSE "remove", doc |-> r.doc,
   who |-> r.who]

-----------------------------------------------------------------------------
(* Types                                                                   *)

LEMMA ListsTypedInit == FavoritesInit => ListsTyped
  BY DEF FavoritesInit, ListsTyped, Calls, Docs, NoCall

LEMMA ListsTypedStep == ListsTyped /\ [FavoritesNext]_favoriteVars => ListsTyped'
<1> SUFFICES ASSUME ListsTyped, [FavoritesNext]_favoriteVars
             PROVE  ListsTyped'
  OBVIOUS
<1> USE DEF ListsTyped
<1>1. ASSUME NEW c \in Callers, ReadList(c)
      PROVE  ListsTyped'
  <2>1. PICK d \in Docs \ removed, who \in SUBSET People, s \in BOOLEAN,
             pc \in {"put", "pull"} :
          call' = [call EXCEPT ![c] = [pc |-> pc, doc |-> d, who |-> who,
                                       single |-> s, read |-> favorites[d]]]
    BY <1>1 DEF ReadList, Goes
  <2>2. [pc |-> pc, doc |-> d, who |-> who, single |-> s,
         read |-> favorites[d]] \in Calls
    BY DEF Calls
  <2> QED BY <1>1, <2>1, <2>2 DEF ReadList
<1>2. ASSUME NEW c \in Callers, SaveList(c)
      PROVE  ListsTyped'
  <2> DEFINE r == call[c]
  <2>1. r \in [pc : {"put", "pull"}, doc : Docs, who : SUBSET People,
               single : BOOLEAN, read : SUBSET People]
    BY <1>2 DEF SaveList, Calls, NoCall
  <2>2. favorites' \in [Docs -> SUBSET People]
    BY <1>2, <2>1 DEF SaveList, Merged
  <2>3. call' \in [Callers -> Calls]
    <3>1. NoCall \in Calls
      BY DEF Calls
    <3>2. Mirrors(r) => [pc |-> "mirror", doc |-> r.doc, who |-> r.who] \in Calls
      BY <2>1 DEF Mirrors, ListOf, UserFavorites, List, Calls, Docs
    <3> QED BY <1>2, <3>1, <3>2 DEF SaveList, Returns, Goes
  <2>4. \A d \in Callers : call'[d].pc = "mirror" => list.mirrored
    <3>1. Mirrors(r) => list.mirrored
      BY DEF Mirrors, ListOf, UserFavorites, List
    <3> QED BY <1>2, <3>1 DEF SaveList, Returns, Goes, NoCall
  <2> QED BY <1>2, <2>2, <2>3, <2>4 DEF SaveList
<1>3. ASSUME NEW c \in Callers, MirrorToOwner(c)
      PROVE  ListsTyped'
  <2>1. call[c] \in [pc : {"mirror"}, doc : Items, who : SUBSET People]
    BY <1>3 DEF MirrorToOwner, Calls, NoCall
  <2>2. CreatorOf[call[c].doc] \in Docs
    BY <2>1, CreatorOfAssumption DEF Docs
  <2> QED BY <1>3, <2>1, <2>2 DEF MirrorToOwner, Returns, Goes, Calls
<1>4. CASE RemoveItem
  BY <1>4 DEF RemoveItem
<1>5. CASE Restart
  BY <1>5 DEF Restart, Calls, NoCall
<1>6. CASE UNCHANGED favoriteVars
  BY <1>6 DEF favoriteVars
<1> QED BY <1>1, <1>2, <1>3, <1>4, <1>5, <1>6 DEF FavoritesNext

-----------------------------------------------------------------------------
(* What a call owes                                                        *)

LEMMA NothingOwed == Owed(NoCall) = {}
  BY DEF Owed, NoCall

LEMMA OwnListOwed ==
  ASSUME NEW r \in ListCalls
  PROVE  ListChange(r) \in Owed(r)
  BY DEF Owed, ListCalls, ListChange, ListChanges

LEMMA OwedAreChanges ==
  ASSUME NEW r \in Calls
  PROVE  Owed(r) \subseteq Lists!Changes
<1>1. CreatorOf \in [Items -> Docs]
  BY CreatorOfAssumption DEF Docs
<1>2. OwnerLists(r) \subseteq Docs
  BY <1>1 DEF OwnerLists
<1>3. CASE r = NoCall
  BY <1>3, NothingOwed
<1>4. CASE r \in ListCalls
  <2>1. \A d \in {r.doc} \cup OwnerLists(r), o \in {"add", "remove"} :
          [op |-> o, doc |-> d, who |-> r.who] \in Lists!Changes
    BY <1>2, <1>4 DEF ListCalls, Lists!Changes
  <2> QED BY <1>4, <2>1 DEF ListCalls, Owed, ListChanges
<1>5. CASE r \in MirrorCalls
  <2>1. \A d \in OwnerLists(r) :
          [op |-> "add", doc |-> d, who |-> r.who] \in Lists!Changes
    BY <1>2, <1>5 DEF MirrorCalls, Lists!Changes
  <2> QED BY <1>5, <2>1 DEF MirrorCalls, Owed, ListChanges
<1> QED BY <1>3, <1>4, <1>5 DEF Calls, ListCalls, MirrorCalls

(* A call that becomes r changes what it owes itself and nothing else.     *)
LEMMA OwedAfter ==
  ASSUME ListsTyped, UNCHANGED list, NEW c \in Callers, NEW r, Goes(c, r)
  PROVE  owedByCalls' = [owedByCalls EXCEPT ![c] = Owed(r)]
<1>1. \A d \in Callers : Owed(call[d])' = Owed(call'[d])
  BY DEF Owed, OwnerLists, ListChanges
<1>2. owedByCalls' = [d \in Callers |-> Owed(call'[d])]
  BY <1>1 DEF owedByCalls
<1>3. call' = [call EXCEPT ![c] = r] /\ DOMAIN call = Callers
  BY DEF Goes, ListsTyped
<1> QED BY <1>2, <1>3 DEF owedByCalls

-----------------------------------------------------------------------------
(* Each action is one of Collection, or changes nothing of it              *)

(* Reading a list makes a call.                                            *)
LEMMA ReadListCalls ==
  ASSUME ListsTyped, NEW c \in Callers, ReadList(c)
  PROVE  Lists!Call(c)
<1>1. PICK r \in ListCalls : Goes(c, r)
  <2>1. PICK d \in Docs \ removed, who \in SUBSET People, s \in BOOLEAN,
             pc \in {"put", "pull"} :
          Goes(c, [pc |-> pc, doc |-> d, who |-> who, single |-> s,
                   read |-> favorites[d]])
    BY DEF ReadList
  <2>2. [pc |-> pc, doc |-> d, who |-> who, single |-> s,
         read |-> favorites[d]] \in ListCalls
    BY DEF ListsTyped, ListCalls
  <2> QED BY <2>1, <2>2
<1>2. owedByCalls' = [owedByCalls EXCEPT ![c] = Owed(r)]
  BY <1>1, OwedAfter DEF ReadList
<1>3. owedByCalls[c] = {}
  BY NothingOwed DEF ReadList, owedByCalls
<1>4. owedByCalls'[c] = Owed(r)
  BY <1>2 DEF owedByCalls
<1>5. Owed(r) \subseteq Lists!Changes
  BY OwedAreChanges DEF Calls, ListCalls
<1> QED BY <1>2, <1>3, <1>4, <1>5 DEF Lists!Call, ReadList

(* A save makes the change of its own document, or, when the document is   *)
(* gone, gives up every change of the call.                                *)
LEMMA SaveListMakes ==
  ASSUME ListsTyped, NEW c \in Callers, SaveList(c)
  PROVE  Lists!Abandon \/ Lists!Make(c)
<1> DEFINE r == call[c]
           x == ListChange(r)
<1>1. r \in ListCalls
  BY DEF ListsTyped, SaveList, Calls, NoCall, ListCalls
<1>2. x \in owedByCalls[c]
  BY <1>1, OwnListOwed DEF owedByCalls
<1>3. CASE r.doc \in removed
  <2>1. Goes(c, NoCall) /\ UNCHANGED <<list, favorites>>
    BY <1>3 DEF SaveList, Returns
  <2>2. owedByCalls' = [owedByCalls EXCEPT ![c] = {}]
    BY <2>1, OwedAfter, NothingOwed
  <2> QED BY <2>1, <2>2 DEF Lists!Abandon, owedByCalls
<1>4. CASE r.doc \notin removed
  <2>1. /\ UNCHANGED list
        /\ favorites' = [favorites EXCEPT ![r.doc] = Merged(@, r)]
    BY <1>4 DEF SaveList
  <2>2. Merged(favorites[r.doc], r) \in Lists!Changed(favorites[r.doc], x)
    BY <1>1 DEF Merged, Lists!Changed, ListChange, ListCalls
  <2>3. r.doc \in Docs
    BY <1>1 DEF ListCalls
  <2>4. PICK n : Goes(c, n) /\ Owed(n) \subseteq owedByCalls[c] \ {x}
    <3>1. CASE Mirrors(r)
      <4> DEFINE n == [pc |-> "mirror", doc |-> r.doc, who |-> r.who]
      <4>1. Goes(c, n)
        BY <1>4, <3>1 DEF SaveList
      <4>2. Owed(n) = ListChanges("add", OwnerLists(r), r.who)
        BY DEF Owed, OwnerLists
      <4>3. Owed(n) \subseteq Owed(r)
        BY <3>1, <4>2 DEF Mirrors, Owed, ListChanges
      <4>4. r.doc \notin OwnerLists(r)
        BY CreatorOfAssumption DEF OwnerLists
      <4>5. \A y \in Owed(n) : y.doc \in OwnerLists(r)
        BY <4>2 DEF ListChanges
      <4>6. x \notin Owed(n)
        BY <4>4, <4>5 DEF ListChange
      <4> QED BY <4>1, <4>3, <4>6 DEF owedByCalls
    <3>2. CASE ~Mirrors(r)
      BY <1>4, <3>2, NothingOwed DEF SaveList, Returns
    <3> QED BY <3>1, <3>2
  <2>5. owedByCalls' = [owedByCalls EXCEPT ![c] = Owed(n)]
    BY <2>1, <2>4, OwedAfter
  <2>6. owedByCalls'[c] = Owed(n)
    BY <2>5 DEF owedByCalls
  <2>7. x.doc = r.doc
    BY DEF ListChange
  <2>8. favorites'[r.doc] = Merged(favorites[r.doc], r)
    BY <2>1, <2>3 DEF ListsTyped
  <2>9. owedByCalls' = [owedByCalls EXCEPT ![c] = owedByCalls'[c]]
    BY <2>5, <2>6
  <2>10. owedByCalls'[c] \subseteq owedByCalls[c] \ {x}
    BY <2>4, <2>6
  <2>11. /\ favorites'[x.doc] \in Lists!Changed(favorites[x.doc], x)
         /\ favorites' = [favorites EXCEPT ![x.doc] = favorites'[x.doc]]
    BY <2>1, <2>2, <2>7, <2>8
  <2> HIDE DEF x
  <2>12. Lists!Make(c)
    BY <1>2, <2>9, <2>10, <2>11 DEF Lists!Make
  <2> QED BY <2>12
<1> QED BY <1>3, <1>4

(* The owner's list gets the change that remains.                          *)
LEMMA MirrorMakes ==
  ASSUME ListsTyped, NEW c \in Callers, MirrorToOwner(c)
  PROVE  Lists!Abandon \/ Lists!Make(c)
<1> DEFINE r == call[c]
           o == CreatorOf[r.doc]
           x == [op |-> "add", doc |-> o, who |-> r.who]
<1>1. r \in MirrorCalls
  BY DEF ListsTyped, MirrorToOwner, Calls, NoCall, MirrorCalls
<1>2. Goes(c, NoCall) /\ UNCHANGED list
  BY DEF MirrorToOwner, Returns
<1>3. owedByCalls' = [owedByCalls EXCEPT ![c] = {}]
  BY <1>2, OwedAfter, NothingOwed
<1>4. CASE r.doc \in removed
  BY <1>3, <1>4 DEF MirrorToOwner, Lists!Abandon, owedByCalls
<1>5. CASE r.doc \notin removed
  <2>1. favorites' = [favorites EXCEPT ![o] = @ \cup r.who]
    BY <1>5 DEF MirrorToOwner
  <2>2. o \in Docs
    BY <1>1, CreatorOfAssumption DEF MirrorCalls, Docs
  <2>3. x \in Owed(r)
    <3>1. r.pc = "mirror" /\ list.mirrored /\ r.doc \in Items
      BY <1>1 DEF ListsTyped, MirrorCalls
    <3> QED BY <3>1 DEF Owed, OwnerLists, ListChanges
  <2> QED BY <1>3, <2>1, <2>2, <2>3 DEF Lists!Make, Lists!Changed, ListsTyped,
                                         owedByCalls
<1> QED BY <1>4, <1>5

(* Other steps change neither a list nor what is owed, but for a restart,  *)
(* which cuts every call.                                                  *)
LEMMA RestartAbandons ==
  ASSUME ListsTyped, Restart
  PROVE  Lists!Abandon
<1>1. \A c \in Callers : Owed(call[c])' = {}
  BY DEF Restart, Owed, NoCall
<1> QED BY <1>1 DEF Restart, Lists!Abandon, owedByCalls

LEMMA CallsUntouched ==
  ASSUME UNCHANGED <<list, favorites, call>>
  PROVE  UNCHANGED <<favorites, owedByCalls>>
<1>1. \A c \in Callers : Owed(call[c])' = Owed(call[c])
  BY DEF Owed, OwnerLists, ListChanges
<1> QED BY <1>1 DEF owedByCalls

LEMMA ListsInit == FavoritesInit => Lists!Init
  BY NothingOwed DEF FavoritesInit, Lists!Init, owedByCalls

LEMMA ListsStep ==
  ASSUME ListsTyped, [FavoritesNext]_favoriteVars
  PROVE  [Lists!Next]_<<favorites, owedByCalls>>
<1>1. ASSUME NEW c \in Callers, ReadList(c)
      PROVE  Lists!Next
  BY <1>1, ReadListCalls DEF Lists!Next
<1>2. ASSUME NEW c \in Callers, SaveList(c)
      PROVE  Lists!Next
  BY <1>2, SaveListMakes DEF Lists!Next
<1>3. ASSUME NEW c \in Callers, MirrorToOwner(c)
      PROVE  Lists!Next
  BY <1>3, MirrorMakes DEF Lists!Next
<1>4. CASE RemoveItem
  BY <1>4, CallsUntouched DEF RemoveItem
<1>5. CASE Restart
  BY <1>5, RestartAbandons DEF Lists!Next
<1>6. CASE UNCHANGED favoriteVars
  BY <1>6, CallsUntouched DEF favoriteVars
<1> QED BY <1>1, <1>2, <1>3, <1>4, <1>5, <1>6 DEF FavoritesNext

(* Lists of favorites merge the calls that overlap: whatever the number of *)
(* users, documents, calls and restarts, a call makes the changes it owes  *)
(* and no other (array-with-counter.restdone.plugin.ts:147-216).           *)
THEOREM ListsMergeCalls == FavoritesSpec => FavoritesMerge
<1>1. FavoritesSpec => []ListsTyped
  BY ListsTypedInit, ListsTypedStep, PTL DEF FavoritesSpec
<1> QED BY <1>1, ListsInit, ListsStep, PTL
        DEF FavoritesSpec, FavoritesMerge, Lists!Spec

(* The same of the specification that is model-checked, whose steps either *)
(* are steps of Favorites or leave the lists alone.                        *)
COROLLARY StoredListsMergeCalls == Spec => FavoritesMerge
<1>1. Init => FavoritesInit
  BY DEF Init
<1>2. [Next]_vars => [FavoritesNext]_favoriteVars
  BY DEF Next, vars, ContentsRun, FavoritesRun, ReviewsRun, MigrationsRun,
         UploadsRun
<1>3. Spec => FavoritesSpec
  BY <1>1, <1>2, PTL DEF Spec, FavoritesSpec
<1> QED BY <1>3, ListsMergeCalls

(* A call that finds the list it read writes the length of the list it     *)
(* leaves.                                                                 *)
Follows ==
  \A c \in Callers :
    /\ SaveList(c)
    /\ call[c].doc \notin removed
    /\ call[c].read = favorites[call[c].doc]
    => counter'[call[c].doc] = Cardinality(favorites'[call[c].doc])

CounterTyped == counter = [d \in Docs |-> counter[d]]

LEMMA SavesFollow == ListsTyped /\ CounterTyped => Follows
<1> SUFFICES ASSUME ListsTyped, CounterTyped, NEW c \in Callers, SaveList(c),
                    call[c].doc \notin removed,
                    call[c].read = favorites[call[c].doc]
             PROVE  counter'[call[c].doc] = Cardinality(favorites'[call[c].doc])
  BY DEF Follows
<1> DEFINE r == call[c]
<1>1. r \in ListCalls
  BY DEF SaveList, ListsTyped, Calls, NoCall, ListCalls
<1>2. /\ favorites' = [favorites EXCEPT ![r.doc] = Merged(@, r)]
      /\ counter' = [counter EXCEPT ![r.doc] = NewLength(r)]
  BY DEF SaveList
<1>3. /\ favorites'[r.doc] = Merged(favorites[r.doc], r)
      /\ counter'[r.doc] = NewLength(r)
  BY <1>1, <1>2 DEF ListCalls, ListsTyped, CounterTyped
<1>4. /\ r.pc = "put" => Merged(r.read, r) = r.read \cup r.who
      /\ r.pc # "put" => Merged(r.read, r) = r.read \ r.who
  BY DEF Merged
<1>5. NewLength(r) = Cardinality(Merged(r.read, r))
  BY <1>4 DEF NewLength
<1> QED BY <1>3, <1>5

LEMMA CounterTypedStep == CounterTyped /\ [FavoritesNext]_favoriteVars => CounterTyped'
  BY DEF CounterTyped, FavoritesNext, ReadList, SaveList, MirrorToOwner, RemoveItem,
         Restart, favoriteVars

(* A counter left behind by calls that overlapped is put right by the next *)
(* call that reads the list its save still finds                           *)
(* (array-with-counter.restdone.plugin.ts:147-162 and 197-216).            *)
THEOREM CounterFollowsReadAlways == Spec => CounterFollowsRead
<1>1. Init => ListsTyped /\ CounterTyped
  BY ListsTypedInit DEF Init, FavoritesInit, CounterTyped
<1>2. [Next]_vars => [FavoritesNext]_favoriteVars
  BY DEF Next, vars, ContentsRun, FavoritesRun, ReviewsRun, MigrationsRun,
         UploadsRun
<1>3. ListsTyped /\ CounterTyped /\ [Next]_vars => (ListsTyped /\ CounterTyped)' /\ Follows
  BY <1>2, ListsTypedStep, CounterTypedStep, SavesFollow
<1>4. CounterFollowsRead <=> [][Follows]_favoriteVars
  BY DEF CounterFollowsRead, Follows
<1> QED BY <1>1, <1>3, <1>4, PTL DEF Spec

-----------------------------------------------------------------------------
(* Contents and the photos counters of albums                              *)

ContentsTyped ==
  /\ life \in [Contents -> {"new", "stored", "removed"}]
  /\ album \in [Photos -> Albums \cup {None}]
  /\ photos \in [Albums -> Int]
  /\ moves \in [Albums -> Nat]
  /\ req = [p \in Procs |-> req[p]]
  /\ \A p \in Procs : req[p] \in Requests

(* A content is inserted by one request.                                   *)
StoredOnce ==
  \A p \in Procs :
    At(p, "save") =>
      /\ life[req[p].content] = "new"
      /\ \A q \in Procs \ {p} : At(q, "save") => req[q].content # req[p].content

(* Requests know contents and albums that were stored; an album that is    *)
(* not stored counts nothing.                                              *)
RequestsKnow ==
  /\ \A p \in Procs :
       /\ req[p].pc \in {"count", "uncount", "remove"} => life[req[p].content] # "new"
       /\ At(p, "count") => req[p].content \in Photos
       /\ At(p, "count") \/ (At(p, "save") /\ req[p].content \in Photos)
            => req[p].album \in Known
  /\ \A a \in Albums : life[a] = "new" => photos[a] = 0

(* A photo is counted by one request.                                      *)
CountedOnce ==
  \A p, q \in Procs :
    At(p, "count") /\ At(q, "count") /\ p # q => req[p].content # req[q].content

(* Photos an album will count, and photos in it that will be removed but   *)
(* that it counts no more, or that were counted off another album.         *)
Counting(a) ==
  {x \in Photos : \E p \in Procs :
     At(p, "count") /\ req[p].content = x /\ req[p].album = a}
Loose(a) ==
  {x \in PhotosIn(a) : \E p \in Procs :
     /\ req[p].pc \in {"uncount", "remove"}
     /\ req[p].content = x
     /\ At(p, "uncount") => req[p].album # a}

AlbumBound(a) ==
  photos[a] + Cardinality(Counting(a)) + Cardinality(Loose(a))
    <= Cardinality(PhotosIn(a)) + moves[a]

AlbumsInv ==
  /\ ContentsTyped
  /\ StoredOnce
  /\ RequestsKnow
  /\ CountedOnce
  /\ \A a \in Albums : life[a] = "stored" => AlbumBound(a)

-----------------------------------------------------------------------------
(* Sizes of sets                                                           *)

LEMMA SetsOfPhotos ==
  ASSUME NEW S, S \subseteq Photos
  PROVE  IsFiniteSet(S) /\ Cardinality(S) \in Nat
BY FS_Subset, FS_CardinalityType, FinitenessAssumption DEF Contents

LEMMA NoMore ==
  ASSUME NEW S, IsFiniteSet(S), NEW T, T \subseteq S
  PROVE  Cardinality(T) <= Cardinality(S)
BY FS_Subset

LEMMA OneMore ==
  ASSUME NEW S, IsFiniteSet(S), NEW x, NEW T, T \subseteq S \cup {x}
  PROVE  Cardinality(T) <= Cardinality(S) + 1
<1>1. IsFiniteSet(S \cup {x}) /\ Cardinality(S \cup {x}) <= Cardinality(S) + 1
  <2>1. Cardinality(S) \in Nat
    BY FS_CardinalityType
  <2> QED BY <2>1, FS_AddElement
<1>2. Cardinality(T) <= Cardinality(S \cup {x}) /\ IsFiniteSet(T)
  BY <1>1, FS_Subset
<1> QED BY <1>1, <1>2, FS_CardinalityType

LEMMA OneLess ==
  ASSUME NEW S, IsFiniteSet(S), NEW x \in S, NEW T, T \subseteq S \ {x}
  PROVE  Cardinality(T) + 1 <= Cardinality(S)
<1>1. IsFiniteSet(S \ {x}) /\ Cardinality(S \ {x}) = Cardinality(S) - 1
  BY FS_RemoveElement
<1>2. Cardinality(T) <= Cardinality(S \ {x}) /\ IsFiniteSet(T)
  BY <1>1, FS_Subset
<1> QED BY <1>1, <1>2, FS_CardinalityType

-----------------------------------------------------------------------------
LEMMA AlbumSets ==
  ASSUME NEW a
  PROVE  /\ Counting(a) \subseteq Photos
         /\ Loose(a) \subseteq PhotosIn(a)
         /\ PhotosIn(a) \subseteq Photos
         /\ IsFiniteSet(Counting(a)) /\ Cardinality(Counting(a)) \in Nat
         /\ IsFiniteSet(Loose(a)) /\ Cardinality(Loose(a)) \in Nat
         /\ IsFiniteSet(PhotosIn(a)) /\ Cardinality(PhotosIn(a)) \in Nat
<1>1. /\ Counting(a) \subseteq Photos
      /\ Loose(a) \subseteq PhotosIn(a)
      /\ PhotosIn(a) \subseteq Photos
  BY DEF Counting, Loose, PhotosIn
<1> QED BY <1>1, SetsOfPhotos

(* The same after a step.                                                  *)
LEMMA AlbumSetsAfter ==
  ASSUME NEW a
  PROVE  /\ Counting(a)' \subseteq Photos
         /\ Loose(a)' \subseteq PhotosIn(a)'
         /\ PhotosIn(a)' \subseteq Photos
         /\ IsFiniteSet(Counting(a)') /\ Cardinality(Counting(a)') \in Nat
         /\ IsFiniteSet(Loose(a)') /\ Cardinality(Loose(a)') \in Nat
         /\ IsFiniteSet(PhotosIn(a)') /\ Cardinality(PhotosIn(a)') \in Nat
<1>1. /\ Counting(a)' \subseteq Photos
      /\ Loose(a)' \subseteq PhotosIn(a)'
      /\ PhotosIn(a)' \subseteq Photos
  BY DEF Counting, Loose, PhotosIn
<1> QED BY <1>1, SetsOfPhotos

(* A step that adds nothing to what the album shows.                       *)
LEMMA AlbumStays ==
  ASSUME NEW a \in Albums, ContentsTyped, ContentsTyped', AlbumBound(a),
         Counting(a)' \subseteq Counting(a), Loose(a)' \subseteq Loose(a),
         PhotosIn(a) \subseteq PhotosIn(a)', photos'[a] = photos[a], moves'[a] = moves[a]
  PROVE  AlbumBound(a)'
<1>1. /\ Cardinality(Counting(a)') <= Cardinality(Counting(a))
      /\ Cardinality(Loose(a)') <= Cardinality(Loose(a))
      /\ Cardinality(PhotosIn(a)) <= Cardinality(PhotosIn(a)')
  BY AlbumSets, AlbumSetsAfter, NoMore
<1>2. photos[a] \in Int /\ moves[a] \in Nat
  BY DEF ContentsTyped
<1> QED BY <1>1, <1>2, AlbumSets, AlbumSetsAfter DEF AlbumBound

LEMMA AlbumsInvInit == ContentsInit => AlbumsInv
<1> SUFFICES ASSUME ContentsInit
             PROVE  AlbumsInv
  OBVIOUS
<1> USE DEF ContentsInit
<1>1. ContentsTyped
  BY DEF ContentsTyped, Requests
<1>2. StoredOnce /\ RequestsKnow /\ CountedOnce
  BY DEF StoredOnce, RequestsKnow, CountedOnce, At, Idle
<1>3. \A a \in Albums : life[a] # "stored"
  BY DEF Contents
<1> QED BY <1>1, <1>2, <1>3 DEF AlbumsInv

(* The kinds of requests.                                                  *)
LEMMA RequestKinds ==
  ASSUME ContentsTyped, NEW p \in Procs
  PROVE  /\ req[p].pc \in {"idle", "save", "count", "uncount", "remove", "viewed"}
         /\ req[p].pc # "idle" => req[p].content \in Contents
         /\ req[p].pc \in {"save", "count", "uncount", "remove"} =>
              req[p] = [pc |-> req[p].pc, content |-> req[p].content,
                        album |-> req[p].album]
BY DEF ContentsTyped, Requests, Idle

(* A request that starts, without counting or removing anything yet that   *)
(* an album still counts; and one that ends.                               *)
LEMMA StartInsertStep ==
  ASSUME AlbumsInv, NEW p \in Procs, StartInsert(p)
  PROVE  AlbumsInv'
<1>1. PICK c \in Contents, a \in Albums \cup {None} :
        /\ life[c] = "new"
        /\ \A q \in Procs : At(q, "save") => req[q].content # c
        /\ c \in Photos => a \in Known
        /\ Become(p, [pc |-> "save", content |-> c, album |-> a])
  BY DEF StartInsert, MayHold
<1>2. PICK new \in Requests :
        /\ new.pc = "save" /\ new.content = c /\ new.album = a
        /\ req' = [req EXCEPT ![p] = new]
  <2> DEFINE s == [pc |-> "save", content |-> c, album |-> a]
  <2>1. s \in Requests /\ s.pc = "save" /\ s.content = c /\ s.album = a
    BY DEF Requests
  <2>2. req' = [req EXCEPT ![p] = s]
    BY <1>1 DEF Become
  <2> HIDE DEF s
  <2> QED BY <2>1, <2>2
<1>3. /\ req[p].pc = "idle"
      /\ UNCHANGED <<life, album, photos, moves>>
  BY DEF StartInsert, stored, At
<1>4. ContentsTyped'
  BY <1>2, <1>3 DEF AlbumsInv, ContentsTyped
<1>5. StoredOnce'
  BY <1>1, <1>2, <1>3 DEF AlbumsInv, StoredOnce, At, ContentsTyped
<1>6. RequestsKnow'
  BY <1>1, <1>2, <1>3 DEF AlbumsInv, RequestsKnow, At, Known, ContentsTyped
<1>7. CountedOnce'
  BY <1>2, <1>3 DEF AlbumsInv, CountedOnce, At, ContentsTyped
<1>8. ASSUME NEW b \in Albums, life'[b] = "stored"
      PROVE  AlbumBound(b)'
  <2>1. PhotosIn(b)' = PhotosIn(b)
    BY <1>3 DEF PhotosIn
  <2>2. Counting(b)' \subseteq Counting(b)
    BY <1>2, <1>3 DEF Counting, At, AlbumsInv, ContentsTyped
  <2>3. Loose(b)' \subseteq Loose(b)
    BY <1>2, <1>3, <2>1 DEF Loose, At, AlbumsInv, ContentsTyped
  <2> QED BY <1>3, <1>4, <1>8, <2>1, <2>2, <2>3, AlbumStays DEF AlbumsInv
<1> QED BY <1>4, <1>5, <1>6, <1>7, <1>8 DEF AlbumsInv

LEMMA StartDeleteStep ==
  ASSUME AlbumsInv, NEW p \in Procs, StartDelete(p)
  PROVE  AlbumsInv'
<1>1. PICK c \in Live :
       Become(p, IF c \in Photos
                 THEN [pc |-> "uncount", content |-> c, album |-> album[c]]
                 ELSE [pc |-> "remove", content |-> c, album |-> None])
  BY DEF StartDelete
<1>2. PICK new \in Requests :
        /\ new.pc \in {"uncount", "remove"} /\ new.content = c
        /\ c \in Photos => new.pc = "uncount" /\ new.album = album[c]
        /\ req' = [req EXCEPT ![p] = new]
  <2>0. c \in Contents /\ (c \in Photos => album[c] \in Albums \cup {None})
    BY DEF Live, AlbumsInv, ContentsTyped
  <2>1. CASE c \in Photos
    <3> DEFINE s == [pc |-> "uncount", content |-> c, album |-> album[c]]
    <3>1. s \in Requests /\ s.pc = "uncount" /\ s.content = c /\ s.album = album[c]
      BY <2>0, <2>1 DEF Requests
    <3>2. req' = [req EXCEPT ![p] = s]
      BY <1>1, <2>1 DEF Become
    <3> HIDE DEF s
    <3> QED BY <3>1, <3>2
  <2>2. CASE c \notin Photos
    <3> DEFINE s == [pc |-> "remove", content |-> c, album |-> None]
    <3>1. s \in Requests /\ s.pc = "remove" /\ s.content = c
      BY <2>0 DEF Requests
    <3>2. req' = [req EXCEPT ![p] = s]
      BY <1>1, <2>2 DEF Become
    <3> HIDE DEF s
    <3> QED BY <2>2, <3>1, <3>2
  <2> QED BY <2>1, <2>2
<1>3. /\ req[p].pc = "idle"
      /\ life[c] = "stored"
      /\ UNCHANGED <<life, album, photos, moves>>
  BY DEF StartDelete, stored, At, Live
<1>4. ContentsTyped'
  BY <1>2, <1>3 DEF AlbumsInv, ContentsTyped
<1>5. StoredOnce'
  BY <1>2, <1>3 DEF AlbumsInv, StoredOnce, At, ContentsTyped
<1>6. RequestsKnow'
  BY <1>2, <1>3 DEF AlbumsInv, RequestsKnow, At, Known, ContentsTyped
<1>7. CountedOnce'
  BY <1>2, <1>3 DEF AlbumsInv, CountedOnce, At, ContentsTyped
<1>8. ASSUME NEW b \in Albums, life'[b] = "stored"
      PROVE  AlbumBound(b)'
  <2>1. PhotosIn(b)' = PhotosIn(b)
    BY <1>3 DEF PhotosIn
  <2>2. Counting(b)' \subseteq Counting(b)
    BY <1>2, <1>3 DEF Counting, At, AlbumsInv, ContentsTyped
  <2>3. ASSUME NEW x \in Loose(b)'
        PROVE  x \in Loose(b)
    <3>1. x \in PhotosIn(b) /\ x \in Photos /\ album[x] = b
      BY <2>1 DEF Loose, PhotosIn
    <3>2. PICK q \in Procs :
            /\ req'[q].pc \in {"uncount", "remove"}
            /\ req'[q].content = x
            /\ req'[q].pc = "uncount" => req'[q].album # b
      BY <2>3 DEF Loose, At
    <3>3. q # p
      BY <1>2, <3>1, <3>2 DEF AlbumsInv, ContentsTyped
    <3>4. req'[q] = req[q]
      BY <1>2, <3>3 DEF AlbumsInv, ContentsTyped
    <3> QED BY <3>1, <3>2, <3>4 DEF Loose, At
  <2> QED BY <1>3, <1>4, <1>8, <2>1, <2>2, <2>3, AlbumStays DEF AlbumsInv
<1> QED BY <1>4, <1>5, <1>6, <1>7, <1>8 DEF AlbumsInv

(* A request ends or views, and only it and the views change.              *)
LEMMA RequestEnds ==
  ASSUME AlbumsInv, NEW p \in Procs, UNCHANGED <<life, album, photos, moves>>,
         NEW new \in Requests, new.pc \in {"idle", "viewed"},
         req' = [req EXCEPT ![p] = new]
  PROVE  AlbumsInv'
<1>4. ContentsTyped'
  BY DEF AlbumsInv, ContentsTyped
<1>5. StoredOnce'
  BY DEF AlbumsInv, StoredOnce, At, ContentsTyped
<1>6. RequestsKnow'
  BY DEF AlbumsInv, RequestsKnow, At, Known, ContentsTyped
<1>7. CountedOnce'
  BY DEF AlbumsInv, CountedOnce, At, ContentsTyped
<1>8. ASSUME NEW b \in Albums, life'[b] = "stored"
      PROVE  AlbumBound(b)'
  <2>1. PhotosIn(b)' = PhotosIn(b)
    BY DEF PhotosIn
  <2>2. Counting(b)' \subseteq Counting(b)
    BY DEF Counting, At, AlbumsInv, ContentsTyped
  <2>3. Loose(b)' \subseteq Loose(b)
    BY <2>1 DEF Loose, At, AlbumsInv, ContentsTyped
  <2> QED BY <1>4, <1>8, <2>1, <2>2, <2>3, AlbumStays DEF AlbumsInv
<1> QED BY <1>4, <1>5, <1>6, <1>7, <1>8 DEF AlbumsInv

(* A photo is stored and will be counted; an album starts empty.           *)
LEMMA SaveContentStep ==
  ASSUME AlbumsInv, NEW p \in Procs, SaveContent(p)
  PROVE  AlbumsInv'
<1> DEFINE r == req[p]
<1>1. PICK c \in Contents : c = r.content
  BY RequestKinds DEF SaveContent, At, AlbumsInv
<1>2. /\ r.pc = "save"
      /\ life' = [life EXCEPT ![c] = "stored"]
      /\ album' = [x \in Photos |-> IF x = c THEN r.album ELSE album[x]]
      /\ UNCHANGED <<photos, moves>>
  BY <1>1 DEF SaveContent, At
<1>3. PICK new \in Requests :
        /\ c \in Photos => new.pc = "count" /\ new.content = c /\ new.album = r.album
        /\ c \notin Photos => new.pc = "idle"
        /\ req' = [req EXCEPT ![p] = new]
  <2>1. CASE c \in Photos
    <3> DEFINE s == [req[p] EXCEPT !.pc = "count"]
    <3>1. s \in Requests /\ s.pc = "count" /\ s.content = c /\ s.album = r.album
      BY <1>1, <1>2 DEF AlbumsInv, ContentsTyped, Requests, Idle
    <3>2. req' = [req EXCEPT ![p] = s]
      BY <1>1, <2>1 DEF SaveContent, Become
    <3> HIDE DEF s
    <3> QED BY <2>1, <3>1, <3>2
  <2>2. CASE c \notin Photos
    BY <1>1, <2>2 DEF SaveContent, Finish, Become, Idle, Requests
  <2> QED BY <2>1, <2>2
<1>4. life[c] = "new" /\ life \in [Contents -> {"new", "stored", "removed"}]
  BY <1>1, <1>2 DEF AlbumsInv, StoredOnce, At, ContentsTyped
<1>5. /\ \A x \in Contents : life'[x] = IF x = c THEN "stored" ELSE life[x]
      /\ \A q \in Procs : req'[q] = IF q = p THEN new ELSE req[q]
      /\ \A x \in Photos : album'[x] = IF x = c THEN r.album ELSE album[x]
  BY <1>2, <1>3, <1>4 DEF AlbumsInv, ContentsTyped
<1>6. r.album \in Albums \cup {None}
  BY <1>2 DEF AlbumsInv, ContentsTyped, Requests, Idle
<1>7. ContentsTyped'
  BY <1>2, <1>3, <1>4, <1>6 DEF AlbumsInv, ContentsTyped
<1>8. Photos \subseteq Contents /\ Albums \subseteq Contents /\ Photos \cap Albums = {}
  BY PhotosAssumption DEF Contents
<1>9. \A q \in Procs \ {p} :
        /\ req[q].pc = "save" => req[q].content # c
        /\ req[q].pc \in {"count", "uncount", "remove"} => req[q].content # c
  BY <1>1, <1>2, <1>4 DEF AlbumsInv, StoredOnce, RequestsKnow, At
<1>10. StoredOnce'
  <2>1. ASSUME NEW q \in Procs, req'[q].pc = "save"
        PROVE  /\ life'[req'[q].content] = "new"
               /\ \A o \in Procs \ {q} : req'[o].pc = "save" => req'[o].content # req'[q].content
    <3>1. q # p /\ req'[q] = req[q]
      BY <1>3, <1>5, <2>1
    <3>2. req[q].content # c /\ req[q].content \in Contents /\ life[req[q].content] = "new"
      BY <1>9, <2>1, <3>1, RequestKinds DEF AlbumsInv, StoredOnce, At
    <3>3. ASSUME NEW o \in Procs \ {q}, req'[o].pc = "save"
          PROVE  req'[o].content # req'[q].content
      <4>1. o # p /\ req'[o] = req[o]
        BY <1>3, <1>5, <3>3
      <4> QED BY <2>1, <3>1, <3>3, <4>1 DEF AlbumsInv, StoredOnce, At
    <3> QED BY <1>5, <3>1, <3>2, <3>3
  <2> QED BY <2>1 DEF StoredOnce, At
<1>11. RequestsKnow'
  <2>1. \A x : x \in Known => x \in Known'
    BY <1>5, <1>8 DEF Known
  <2>2. ASSUME NEW q \in Procs
        PROVE  /\ req'[q].pc \in {"count", "uncount", "remove"} => life'[req'[q].content] # "new"
               /\ req'[q].pc = "count" => req'[q].content \in Photos
               /\ req'[q].pc = "count" \/ (req'[q].pc = "save" /\ req'[q].content \in Photos)
                    => req'[q].album \in Known'
    <3>1. CASE q = p
      <4>1. c \in Photos => r.album \in Known
        BY <1>1, <1>2 DEF AlbumsInv, RequestsKnow, At
      <4> QED BY <1>3, <1>5, <2>1, <3>1, <4>1
    <3>2. CASE q # p
      <4>1. req'[q] = req[q]
        BY <1>5, <3>2
      <4>2. /\ req[q].pc \in {"count", "uncount", "remove"} =>
                  req[q].content \in Contents /\ life[req[q].content] # "new"
            /\ req[q].pc = "count" => req[q].content \in Photos
            /\ req[q].pc = "count" \/ (req[q].pc = "save" /\ req[q].content \in Photos)
                 => req[q].album \in Known
        BY RequestKinds DEF AlbumsInv, RequestsKnow, At
      <4>3. req[q].content \in Contents /\ life[req[q].content] # "new"
              => life'[req[q].content] # "new"
        BY <1>5
      <4> QED BY <2>1, <4>1, <4>2, <4>3
    <3> QED BY <3>1, <3>2
  <2>3. ASSUME NEW a \in Albums, life'[a] = "new"
        PROVE  photos'[a] = 0
    BY <1>2, <1>5, <1>8, <2>3 DEF AlbumsInv, RequestsKnow
  <2> QED BY <2>2, <2>3 DEF RequestsKnow, At
<1>12. CountedOnce'
  <2>1. ASSUME NEW q \in Procs, NEW o \in Procs, q # o, req'[q].pc = "count",
               req'[o].pc = "count"
        PROVE  req'[q].content # req'[o].content
    BY <1>3, <1>5, <1>9, <2>1 DEF AlbumsInv, CountedOnce, At
  <2> QED BY <2>1 DEF CountedOnce, At
<1>13. ASSUME NEW a \in Albums, life'[a] = "stored"
       PROVE  AlbumBound(a)'
  <2>1. \A x \in Photos : x # c => (x \in PhotosIn(a)' <=> x \in PhotosIn(a))
    BY <1>5, <1>8 DEF PhotosIn
  <2>2. c \notin PhotosIn(a)
    BY <1>4 DEF PhotosIn
  <2>3. ASSUME NEW x \in Loose(a)'
        PROVE  x \in PhotosIn(a)' /\ x \in Loose(a)
    <3>1. PICK q \in Procs :
            /\ req'[q].pc \in {"uncount", "remove"}
            /\ req'[q].content = x
            /\ req'[q].pc = "uncount" => req'[q].album # a
      BY <2>3 DEF Loose, At
    <3>2. x \in PhotosIn(a)' /\ x \in Photos
      BY <2>3, AlbumSetsAfter
    <3>3. q # p /\ req'[q] = req[q]
      BY <1>3, <1>5, <3>1
    <3>4. x # c
      BY <1>9, <3>1, <3>3
    <3> QED BY <2>1, <3>1, <3>2, <3>3, <3>4 DEF Loose, At
  <2>4. ASSUME NEW x \in Counting(a)'
        PROVE  x \in Counting(a) \/ (x = c /\ c \in Photos /\ r.album = a)
    <3>1. PICK q \in Procs :
            req'[q].pc = "count" /\ req'[q].content = x /\ req'[q].album = a
      BY <2>4 DEF Counting, At
    <3>2. CASE q = p
      BY <1>3, <1>5, <3>1, <3>2
    <3>3. CASE q # p
      BY <1>5, <2>4, <3>1, <3>3, AlbumSetsAfter DEF Counting, At
    <3> QED BY <3>2, <3>3
  <2>5. photos'[a] = photos[a] /\ moves'[a] = moves[a] /\ photos[a] \in Int /\ moves[a] \in Nat
    BY <1>2 DEF AlbumsInv, ContentsTyped
  <2>6. CASE a = c
    <3>1. Counting(a) = {}
      <4>1. ASSUME NEW x \in Counting(a)
            PROVE  FALSE
        BY <1>4, <2>6, <4>1 DEF Counting, AlbumsInv, RequestsKnow, Known
      <4> QED BY <4>1
    <3>2. Cardinality(Counting(a)') = 0
      BY <1>8, <2>4, <2>6, <3>1, FS_EmptySet
    <3>3. photos[a] = 0
      BY <1>4, <2>6 DEF AlbumsInv, RequestsKnow
    <3>4. Cardinality(Loose(a)') <= Cardinality(PhotosIn(a)')
      BY AlbumSetsAfter, NoMore
    <3> QED BY <2>5, <3>2, <3>3, <3>4, AlbumSetsAfter DEF AlbumBound
  <2>7. CASE a # c /\ c \in Photos /\ r.album = a
    <3>1. AlbumBound(a)
      BY <1>5, <1>8, <1>13, <2>7 DEF AlbumsInv
    <3>2. c \in PhotosIn(a)' /\ PhotosIn(a) \subseteq PhotosIn(a)' \ {c}
      <4>1. c \in PhotosIn(a)'
        BY <1>5, <2>7 DEF PhotosIn
      <4> QED BY <2>1, <2>2, <4>1, AlbumSets
    <3>3. Cardinality(PhotosIn(a)) + 1 <= Cardinality(PhotosIn(a)')
      BY <3>2, AlbumSetsAfter, OneLess
    <3>4. Cardinality(Counting(a)') <= Cardinality(Counting(a)) + 1
      BY <2>4, AlbumSets, OneMore
    <3>5. Cardinality(Loose(a)') <= Cardinality(Loose(a))
      BY <2>3, AlbumSets, NoMore
    <3> QED BY <2>5, <3>1, <3>3, <3>4, <3>5, AlbumSets, AlbumSetsAfter DEF AlbumBound
  <2>8. CASE a # c /\ ~(c \in Photos /\ r.album = a)
    <3>1. AlbumBound(a)
      BY <1>5, <1>8, <1>13, <2>8 DEF AlbumsInv
    <3>2. PhotosIn(a) \subseteq PhotosIn(a)'
      BY <2>1, <2>2, AlbumSets
    <3>3. Counting(a)' \subseteq Counting(a) /\ Loose(a)' \subseteq Loose(a)
      BY <2>3, <2>4, <2>8
    <3> QED BY <1>7, <2>5, <3>1, <3>2, <3>3, AlbumStays DEF AlbumsInv
  <2> QED BY <2>6, <2>7, <2>8
<1> QED BY <1>7, <1>10, <1>11, <1>12, <1>13 DEF AlbumsInv

(* A photo is counted: it is no longer among those to be counted.          *)
LEMMA CountPhotoStep ==
  ASSUME AlbumsInv, NEW p \in Procs, CountPhoto(p)
  PROVE  AlbumsInv'
<1>1. PICK x, b : x = req[p].content /\ b = req[p].album
  OBVIOUS
<1>2. /\ req[p].pc = "count"
      /\ photos' = [a \in Albums |-> IF a = b /\ a \in Live THEN photos[a] + 1
                                                             ELSE photos[a]]
      /\ req' = [req EXCEPT ![p] = Idle]
      /\ UNCHANGED <<life, album, moves>>
  BY <1>1 DEF CountPhoto, At, AddTo, Finish, Become
<1>3. x \in Photos /\ b \in Known
  BY <1>1, <1>2 DEF AlbumsInv, RequestsKnow, At
<1>4. \A q \in Procs : req'[q] = IF q = p THEN Idle ELSE req[q]
  BY <1>2 DEF AlbumsInv, ContentsTyped
<1>5. ContentsTyped'
  <2>1. Idle \in Requests
    BY DEF Requests
  <2>2. photos' \in [Albums -> Int]
    BY <1>2 DEF AlbumsInv, ContentsTyped
  <2> QED BY <1>2, <2>1, <2>2 DEF AlbumsInv, ContentsTyped
<1>6. StoredOnce'
  BY <1>2, <1>4 DEF AlbumsInv, StoredOnce, At, Idle
<1>7. RequestsKnow'
  <2>1. \A q \in Procs :
          /\ req'[q].pc \in {"count", "uncount", "remove"} => life'[req'[q].content] # "new"
          /\ req'[q].pc = "count" => req'[q].content \in Photos
          /\ req'[q].pc = "count" \/ (req'[q].pc = "save" /\ req'[q].content \in Photos)
               => req'[q].album \in Known'
    BY <1>2, <1>4 DEF AlbumsInv, RequestsKnow, At, Idle, Known
  <2>2. ASSUME NEW a \in Albums, life'[a] = "new"
        PROVE  photos'[a] = 0
    BY <1>2, <2>2 DEF AlbumsInv, RequestsKnow, Live
  <2> QED BY <2>1, <2>2 DEF RequestsKnow, At
<1>8. CountedOnce'
  BY <1>4 DEF AlbumsInv, CountedOnce, At, Idle
<1>9. ASSUME NEW a \in Albums, life'[a] = "stored"
      PROVE  AlbumBound(a)'
  <2>1. AlbumBound(a) /\ a \in Live
    BY <1>2, <1>9 DEF AlbumsInv, Live, Contents
  <2>2. PhotosIn(a)' = PhotosIn(a)
    BY <1>2 DEF PhotosIn
  <2>3. Loose(a)' \subseteq Loose(a)
    BY <1>4, <2>2 DEF Loose, At, Idle
  <2>4. CASE a = b
    <3>1. x \in Counting(a) /\ Counting(a)' \subseteq Counting(a) \ {x}
      <4>1. x \in Counting(a)
        BY <1>1, <1>2, <1>3, <2>4 DEF Counting, At
      <4>2. ASSUME NEW y \in Counting(a)'
            PROVE  y \in Counting(a) /\ y # x
        <5>1. PICK q \in Procs :
                req'[q].pc = "count" /\ req'[q].content = y /\ req'[q].album = a
          BY <4>2 DEF Counting, At
        <5>2. q # p /\ req'[q] = req[q] /\ y \in Photos
          BY <1>4, <4>2, <5>1, AlbumSetsAfter DEF Idle
        <5>3. y # x
          BY <1>1, <1>2, <5>1, <5>2 DEF AlbumsInv, CountedOnce, At
        <5> QED BY <5>1, <5>2, <5>3 DEF Counting, At
      <4> QED BY <4>1, <4>2
    <3>2. Cardinality(Counting(a)') + 1 <= Cardinality(Counting(a))
      BY <3>1, AlbumSets, OneLess
    <3>3. Cardinality(Loose(a)') <= Cardinality(Loose(a))
      BY <2>3, AlbumSets, NoMore
    <3>4. /\ photos'[a] = photos[a] + 1 /\ moves'[a] = moves[a]
          /\ photos[a] \in Int /\ moves[a] \in Nat
      BY <1>2, <2>1, <2>4 DEF AlbumsInv, ContentsTyped
    <3> QED BY <2>1, <2>2, <3>2, <3>3, <3>4, AlbumSets, AlbumSetsAfter DEF AlbumBound
  <2>5. CASE a # b
    <3>1. Counting(a)' \subseteq Counting(a)
      BY <1>4 DEF Counting, At, Idle
    <3> QED BY <1>2, <1>5, <2>1, <2>2, <2>3, <2>5, <3>1, AlbumStays DEF AlbumsInv
  <2> QED BY <2>4, <2>5
<1> QED BY <1>5, <1>6, <1>7, <1>8, <1>9 DEF AlbumsInv

(* A photo is counted off the album it was found in; if it is in another   *)
(* one by now, it was loose there already.                                 *)
LEMMA UncountPhotoStep ==
  ASSUME AlbumsInv, NEW p \in Procs, UncountPhoto(p)
  PROVE  AlbumsInv'
<1>1. PICK x, b : x = req[p].content /\ b = req[p].album
  OBVIOUS
<1>2. /\ req[p].pc = "uncount"
      /\ photos' = [a \in Albums |-> IF a = b /\ a \in Live THEN photos[a] + -1
                                                             ELSE photos[a]]
      /\ UNCHANGED <<life, album, moves>>
  BY <1>1 DEF UncountPhoto, At, AddTo
<1>3. PICK new \in Requests :
        /\ new.pc = "remove" /\ new.content = x
        /\ req' = [req EXCEPT ![p] = new]
  <2> DEFINE s == [req[p] EXCEPT !.pc = "remove"]
  <2>1. s \in Requests /\ s.pc = "remove" /\ s.content = x
    BY <1>1, <1>2 DEF AlbumsInv, ContentsTyped, Requests, Idle
  <2>2. req' = [req EXCEPT ![p] = s]
    BY DEF UncountPhoto, Become
  <2> HIDE DEF s
  <2> QED BY <2>1, <2>2
<1>4. \A q \in Procs : req'[q] = IF q = p THEN new ELSE req[q]
  BY <1>3 DEF AlbumsInv, ContentsTyped
<1>5. ContentsTyped'
  <2>2. photos' \in [Albums -> Int]
    BY <1>2 DEF AlbumsInv, ContentsTyped
  <2> QED BY <1>2, <1>3, <2>2 DEF AlbumsInv, ContentsTyped
<1>6. StoredOnce'
  BY <1>2, <1>3, <1>4 DEF AlbumsInv, StoredOnce, At
<1>7. RequestsKnow'
  <2>1. \A q \in Procs :
          /\ req'[q].pc \in {"count", "uncount", "remove"} => life'[req'[q].content] # "new"
          /\ req'[q].pc = "count" => req'[q].content \in Photos
          /\ req'[q].pc = "count" \/ (req'[q].pc = "save" /\ req'[q].content \in Photos)
               => req'[q].album \in Known'
    BY <1>1, <1>2, <1>3, <1>4 DEF AlbumsInv, RequestsKnow, At, Known
  <2>2. ASSUME NEW a \in Albums, life'[a] = "new"
        PROVE  photos'[a] = 0
    BY <1>2, <2>2 DEF AlbumsInv, RequestsKnow, Live
  <2> QED BY <2>1, <2>2 DEF RequestsKnow, At
<1>8. CountedOnce'
  BY <1>3, <1>4 DEF AlbumsInv, CountedOnce, At
<1>9. ASSUME NEW a \in Albums, life'[a] = "stored"
      PROVE  AlbumBound(a)'
  <2>1. AlbumBound(a) /\ a \in Live
    BY <1>2, <1>9 DEF AlbumsInv, Live, Contents
  <2>2. PhotosIn(a)' = PhotosIn(a)
    BY <1>2 DEF PhotosIn
  <2>3. Counting(a)' \subseteq Counting(a)
    BY <1>3, <1>4 DEF Counting, At
  <2>4. ASSUME NEW y \in Loose(a)'
        PROVE  y \in Loose(a) \/ (y = x /\ a = b)
    <3>1. PICK q \in Procs :
            /\ req'[q].pc \in {"uncount", "remove"}
            /\ req'[q].content = y
            /\ req'[q].pc = "uncount" => req'[q].album # a
      BY <2>4 DEF Loose, At
    <3>2. y \in PhotosIn(a)
      BY <2>2, <2>4, AlbumSetsAfter
    <3>3. CASE q = p
      BY <1>1, <1>2, <1>3, <1>4, <3>1, <3>2, <3>3 DEF Loose, At
    <3>4. CASE q # p
      BY <1>4, <3>1, <3>2, <3>4 DEF Loose, At
    <3> QED BY <3>3, <3>4
  <2>5. CASE a = b
    <3>1. Cardinality(Loose(a)') <= Cardinality(Loose(a)) + 1
      BY <2>4, AlbumSets, OneMore
    <3>2. Cardinality(Counting(a)') <= Cardinality(Counting(a))
      BY <2>3, AlbumSets, NoMore
    <3>3. /\ photos'[a] = photos[a] + -1 /\ moves'[a] = moves[a]
          /\ photos[a] \in Int /\ moves[a] \in Nat
      BY <1>2, <2>1, <2>5 DEF AlbumsInv, ContentsTyped
    <3> QED BY <2>1, <2>2, <3>1, <3>2, <3>3, AlbumSets, AlbumSetsAfter DEF AlbumBound
  <2>6. CASE a # b
    <3>1. Loose(a)' \subseteq Loose(a)
      BY <2>4, <2>6
    <3> QED BY <1>2, <1>5, <2>1, <2>2, <2>3, <2>6, <3>1, AlbumStays DEF AlbumsInv
  <2> QED BY <2>5, <2>6
<1> QED BY <1>5, <1>6, <1>7, <1>8, <1>9 DEF AlbumsInv

(* A photo that is removed was loose in its album.                         *)
LEMMA RemoveContentStep ==
  ASSUME AlbumsInv, NEW p \in Procs, RemoveContent(p)
  PROVE  AlbumsInv'
<1>1. PICK x \in Contents : x = req[p].content
  BY RequestKinds DEF RemoveContent, At, AlbumsInv
<1>2. /\ req[p].pc = "remove"
      /\ life' = [life EXCEPT ![x] = "removed"]
      /\ req' = [req EXCEPT ![p] = Idle]
      /\ UNCHANGED <<album, photos, moves>>
  BY <1>1 DEF RemoveContent, At, Finish, Become
<1>3. life[x] # "new"
  BY <1>1, <1>2 DEF AlbumsInv, RequestsKnow
<1>4. /\ \A q \in Procs : req'[q] = IF q = p THEN Idle ELSE req[q]
      /\ \A y \in Contents : life'[y] = IF y = x THEN "removed" ELSE life[y]
      /\ Photos \subseteq Contents /\ Albums \subseteq Contents
  BY <1>2 DEF AlbumsInv, ContentsTyped, Contents
<1>5. ContentsTyped'
  BY <1>2 DEF AlbumsInv, ContentsTyped, Requests
<1>6. StoredOnce'
  <2>1. ASSUME NEW q \in Procs, req'[q].pc = "save"
        PROVE  /\ req'[q] = req[q] /\ req[q].content \in Contents
               /\ life[req[q].content] = "new"
    <3>1. req'[q] = req[q]
      BY <1>4, <2>1 DEF Idle
    <3> QED BY <2>1, <3>1, RequestKinds DEF AlbumsInv, StoredOnce, At
  <2> QED BY <1>3, <1>4, <2>1 DEF AlbumsInv, StoredOnce, At
<1>7. RequestsKnow'
  <2>1. Known' = Known
    BY <1>3, <1>4 DEF Known
  <2>2. ASSUME NEW q \in Procs
        PROVE  /\ req'[q].pc \in {"count", "uncount", "remove"} => life'[req'[q].content] # "new"
               /\ req'[q].pc = "count" => req'[q].content \in Photos
               /\ req'[q].pc = "count" \/ (req'[q].pc = "save" /\ req'[q].content \in Photos)
                    => req'[q].album \in Known'
    <3>1. CASE req'[q] = Idle
      BY <3>1 DEF Idle
    <3>2. CASE req'[q] = req[q]
      BY <1>4, <2>1, <3>2, RequestKinds DEF AlbumsInv, RequestsKnow, At
    <3> QED BY <1>4, <3>1, <3>2
  <2>3. ASSUME NEW a \in Albums, life'[a] = "new"
        PROVE  photos'[a] = 0
    BY <1>2, <1>4, <2>3 DEF AlbumsInv, RequestsKnow
  <2> QED BY <2>2, <2>3 DEF RequestsKnow, At
<1>8. CountedOnce'
  BY <1>4 DEF AlbumsInv, CountedOnce, At, Idle
<1>9. ASSUME NEW a \in Albums, life'[a] = "stored"
      PROVE  AlbumBound(a)'
  <2>1. AlbumBound(a)
    BY <1>4, <1>9 DEF AlbumsInv
  <2>2. \A y : y \in PhotosIn(a)' <=> y \in PhotosIn(a) /\ y # x
    BY <1>2, <1>4 DEF PhotosIn
  <2>3. Counting(a)' \subseteq Counting(a)
    BY <1>4 DEF Counting, At, Idle
  <2>4. Loose(a)' \subseteq Loose(a) \ {x}
    <3>1. ASSUME NEW y \in Loose(a)'
          PROVE  y \in Loose(a) /\ y # x
      <4>1. y \in PhotosIn(a) /\ y # x
        BY <2>2, <3>1, AlbumSetsAfter
      <4>2. PICK q \in Procs :
            /\ req'[q].pc \in {"uncount", "remove"}
            /\ req'[q].content = y
            /\ req'[q].pc = "uncount" => req'[q].album # a
        BY <3>1 DEF Loose, At
      <4>3. req'[q] = req[q]
        BY <1>4, <4>2 DEF Idle
      <4> QED BY <4>1, <4>2, <4>3 DEF Loose, At
    <3> QED BY <3>1
  <2>5. CASE x \in PhotosIn(a)
    <3>1. x \in Loose(a)
      BY <1>1, <1>2, <2>5 DEF Loose, At
    <3>2. Cardinality(Loose(a)') + 1 <= Cardinality(Loose(a))
      BY <2>4, <3>1, AlbumSets, OneLess
    <3>3. Cardinality(PhotosIn(a)) <= Cardinality(PhotosIn(a)') + 1
      <4>1. PhotosIn(a) \subseteq PhotosIn(a)' \cup {x}
        BY <2>2
      <4> QED BY <4>1, AlbumSetsAfter, OneMore
    <3>4. Cardinality(Counting(a)') <= Cardinality(Counting(a))
      BY <2>3, AlbumSets, NoMore
    <3>5. /\ photos'[a] = photos[a] /\ moves'[a] = moves[a]
          /\ photos[a] \in Int /\ moves[a] \in Nat
      BY <1>2 DEF AlbumsInv, ContentsTyped
    <3> QED BY <2>1, <3>2, <3>3, <3>4, <3>5, AlbumSets, AlbumSetsAfter DEF AlbumBound
  <2>6. CASE x \notin PhotosIn(a)
    <3>1. PhotosIn(a) \subseteq PhotosIn(a)'
      BY <2>2, <2>6
    <3> QED BY <1>2, <1>5, <2>1, <2>3, <2>4, <3>1, AlbumStays DEF AlbumsInv
  <2> QED BY <2>5, <2>6
<1> QED BY <1>5, <1>6, <1>7, <1>8, <1>9 DEF AlbumsInv

(* A photo that is moved leaves an album that goes on counting it, and may *)
(* be loose where it arrives.                                              *)
LEMMA MovePhotoStep ==
  ASSUME AlbumsInv, MovePhoto
  PROVE  AlbumsInv'
<1>1. PICK x \in Photos \cap Live, b \in Known :
        /\ b # album[x]
        /\ album' = [album EXCEPT ![x] = b]
        /\ moves' = [moves EXCEPT ![album[x]] = @ + 1]
  BY DEF MovePhoto
<1>2. UNCHANGED <<life, photos, req>>
  BY DEF MovePhoto
<1>3. ContentsTyped'
  <2>1. b \in Albums
    BY DEF Known
  <2>2. album' \in [Photos -> Albums \cup {None}]
    BY <1>1, <2>1 DEF AlbumsInv, ContentsTyped
  <2>3. moves' \in [Albums -> Nat]
    <3>1. /\ moves' = [a \in Albums |-> moves'[a]]
          /\ \A a \in Albums : moves'[a] = IF a = album[x] THEN moves[a] + 1 ELSE moves[a]
      BY <1>1 DEF AlbumsInv, ContentsTyped
    <3>2. \A a \in Albums : moves'[a] \in Nat
      BY <3>1 DEF AlbumsInv, ContentsTyped
    <3> QED BY <3>1, <3>2
  <2> QED BY <1>2, <2>2, <2>3 DEF AlbumsInv, ContentsTyped
<1>4. StoredOnce' /\ RequestsKnow' /\ CountedOnce'
  BY <1>2 DEF AlbumsInv, StoredOnce, RequestsKnow, CountedOnce, At, Known
<1>5. ASSUME NEW a \in Albums, life'[a] = "stored"
      PROVE  AlbumBound(a)'
  <2>1. AlbumBound(a)
    BY <1>2, <1>5 DEF AlbumsInv
  <2>2. Counting(a)' = Counting(a)
    BY <1>2 DEF Counting, At
  <2>3. \A y \in Photos : album'[y] = IF y = x THEN b ELSE album[y]
    BY <1>1 DEF AlbumsInv, ContentsTyped
  <2>4. \A y \in Photos : y # x => (y \in PhotosIn(a)' <=> y \in PhotosIn(a))
    BY <1>2, <2>3 DEF PhotosIn
  <2>5. ASSUME NEW y \in Loose(a)', y # x
        PROVE  y \in Loose(a)
    BY <1>2, <2>4, <2>5, AlbumSetsAfter DEF Loose, At
  <2>6. /\ photos'[a] = photos[a] /\ photos[a] \in Int /\ moves[a] \in Nat
        /\ moves'[a] = IF a = album[x] THEN moves[a] + 1 ELSE moves[a]
    BY <1>1, <1>2 DEF AlbumsInv, ContentsTyped
  <2>7. x \in PhotosIn(a)' <=> a = b
    BY <1>1, <1>2, <2>3 DEF PhotosIn, Live
  <2>8. x \in PhotosIn(a) <=> a = album[x]
    BY <1>1 DEF PhotosIn, Live
  <2>9. CASE a = b
    <3>1. /\ x \in PhotosIn(a)' /\ PhotosIn(a) \subseteq PhotosIn(a)' \ {x}
      BY <1>1, <2>4, <2>7, <2>8, <2>9, AlbumSets
    <3>2. Cardinality(PhotosIn(a)) + 1 <= Cardinality(PhotosIn(a)')
      BY <3>1, AlbumSetsAfter, OneLess
    <3>3. Cardinality(Loose(a)') <= Cardinality(Loose(a)) + 1
      BY <2>5, AlbumSets, OneMore
    <3> QED BY <1>1, <2>1, <2>2, <2>6, <2>9, <3>2, <3>3, AlbumSets, AlbumSetsAfter DEF AlbumBound
  <2>10. CASE a # b
    <3>1. PhotosIn(a) \subseteq PhotosIn(a)' \cup {x}
      BY <2>4, AlbumSets
    <3>2. Loose(a)' \subseteq Loose(a)
      BY <2>5, <2>7, <2>10, AlbumSetsAfter
    <3>3. Cardinality(Loose(a)') <= Cardinality(Loose(a))
      BY <3>2, AlbumSets, NoMore
    <3>4. CASE a = album[x]
      <4>1. Cardinality(PhotosIn(a)) <= Cardinality(PhotosIn(a)') + 1
        BY <3>1, AlbumSetsAfter, OneMore
      <4> QED BY <2>1, <2>2, <2>6, <3>3, <3>4, <4>1, AlbumSets, AlbumSetsAfter DEF AlbumBound
    <3>5. CASE a # album[x]
      <4>1. PhotosIn(a) \subseteq PhotosIn(a)'
        BY <2>8, <3>1, <3>5
      <4> QED BY <1>3, <2>1, <2>2, <2>6, <3>2, <3>5, <4>1, AlbumStays DEF AlbumsInv
    <3> QED BY <3>4, <3>5
  <2> QED BY <2>9, <2>10
<1> QED BY <1>3, <1>4, <1>5 DEF AlbumsInv

(* A restart forgets what was to be counted and removed.                   *)
LEMMA ContentsCrashStep == AlbumsInv /\ Crash => AlbumsInv'
<1> SUFFICES ASSUME AlbumsInv, Crash
             PROVE  AlbumsInv'
  OBVIOUS
<1>1. /\ req' = [p \in Procs |-> Idle]
      /\ UNCHANGED <<life, album, photos, moves>>
  BY DEF Crash, stored
<1>2. \A p \in Procs : req'[p] = Idle
  BY <1>1
<1>3. ContentsTyped'
  BY <1>1, <1>2 DEF AlbumsInv, ContentsTyped, Requests
<1>4. StoredOnce' /\ RequestsKnow' /\ CountedOnce'
  BY <1>1, <1>2 DEF AlbumsInv, StoredOnce, RequestsKnow, CountedOnce, At, Idle
<1>5. ASSUME NEW a \in Albums, life'[a] = "stored"
      PROVE  AlbumBound(a)'
  <2>1. PhotosIn(a)' = PhotosIn(a)
    BY <1>1 DEF PhotosIn
  <2>2. Counting(a)' = {} /\ Loose(a)' = {}
    BY <1>2 DEF Counting, Loose, At, Idle
  <2> QED BY <1>1, <1>3, <1>5, <2>1, <2>2, AlbumStays DEF AlbumsInv
<1> QED BY <1>3, <1>4, <1>5 DEF AlbumsInv

LEMMA ViewStep ==
  ASSUME AlbumsInv, NEW p \in Procs, View(p) \/ ViewOwner(p)
  PROVE  AlbumsInv'
<1>1. CASE View(p)
  <2>1. PICK c \in Live : Become(p, [pc |-> "viewed", content |-> c])
    BY <1>1 DEF View
  <2> DEFINE s == [pc |-> "viewed", content |-> c]
  <2>2. s \in Requests /\ s.pc = "viewed" /\ req' = [req EXCEPT ![p] = s]
    BY <2>1 DEF Requests, Live, Become
  <2> HIDE DEF s
  <2> QED BY <1>1, <2>2, RequestEnds DEF View, stored
<1>2. CASE ViewOwner(p)
  <2>1. Idle \in Requests /\ Idle.pc = "idle" /\ req' = [req EXCEPT ![p] = Idle]
    BY <1>2 DEF ViewOwner, Finish, Become, Requests, Idle
  <2> QED BY <1>2, <2>1, RequestEnds DEF ViewOwner, stored
<1> QED BY <1>1, <1>2

LEMMA AlbumsInvStep == AlbumsInv /\ [ContentsNext]_contentVars => AlbumsInv'
<1> SUFFICES ASSUME AlbumsInv, [ContentsNext]_contentVars
             PROVE  AlbumsInv'
  OBVIOUS
<1>1. ASSUME NEW p \in Procs,
             \/ StartInsert(p) \/ SaveContent(p) \/ CountPhoto(p)
             \/ StartDelete(p) \/ UncountPhoto(p) \/ RemoveContent(p)
             \/ View(p) \/ ViewOwner(p)
      PROVE  AlbumsInv'
  BY <1>1, StartInsertStep, SaveContentStep, CountPhotoStep, StartDeleteStep,
     UncountPhotoStep, RemoveContentStep, ViewStep
<1>2. CASE MovePhoto \/ Crash
  BY <1>2, MovePhotoStep, ContentsCrashStep
<1>3. CASE UNCHANGED contentVars
  <2>1. UNCHANGED <<life, album, photos, moves, req>>
    BY <1>3 DEF contentVars, stored
  <2>2. ContentsTyped' /\ StoredOnce' /\ RequestsKnow' /\ CountedOnce'
    BY <2>1 DEF AlbumsInv, ContentsTyped, StoredOnce, RequestsKnow, CountedOnce, At, Known
  <2>3. ASSUME NEW a \in Albums, life'[a] = "stored"
        PROVE  AlbumBound(a)'
    <3>1. PhotosIn(a)' = PhotosIn(a)
      BY <2>1 DEF PhotosIn
    <3>2. Counting(a)' = Counting(a) /\ Loose(a)' = Loose(a)
      BY <2>1, <3>1 DEF Counting, Loose, At
    <3> QED BY <2>1, <2>2, <2>3, <3>1, <3>2, AlbumStays DEF AlbumsInv
  <2> QED BY <2>2, <2>3 DEF AlbumsInv
<1> QED BY <1>1, <1>2, <1>3 DEF ContentsNext

LEMMA AlbumsInvBounds == AlbumsInv => AlbumNotOverstated
<1> SUFFICES ASSUME AlbumsInv, NEW a \in Albums, life[a] = "stored"
             PROVE  photos[a] <= Cardinality(PhotosIn(a)) + moves[a]
  BY DEF AlbumNotOverstated
<1>1. AlbumBound(a) /\ photos[a] \in Int /\ moves[a] \in Nat
  BY DEF AlbumsInv, ContentsTyped
<1> QED BY <1>1, AlbumSets DEF AlbumBound

(* An album never shows more photos than it holds, for any number of       *)
(* albums, photos, requests and restarts (photo.controller.ts:573-596).    *)
THEOREM AlbumNotOverstatedAlways == Spec => []AlbumNotOverstated
<1>1. Init => AlbumsInv
  BY AlbumsInvInit DEF Init
<1>2. AlbumsInv /\ [Next]_vars => AlbumsInv'
  BY AlbumsInvStep DEF Next, vars, ContentsRun, FavoritesRun, ReviewsRun, MigrationsRun,
                       UploadsRun
<1> QED BY <1>1, <1>2, AlbumsInvBounds, PTL DEF Spec

-----------------------------------------------------------------------------
(* Views.  Every step but a restart leaves the views of users, and those   *)
(* still to be counted for them, together equal to the views of contents.  *)

ViewsTyped ==
  /\ views \in [Contents -> Int]
  /\ userViews \in [Users -> Int]
  /\ req = [p \in Procs |-> req[p]]
  /\ \A p \in Procs : At(p, "viewed") => req[p].content \in Contents
  /\ crashes \in Nat

(* The inductive invariant.                                                *)
ViewsInv == ViewsTyped /\ ViewsCounted

LEMMA ViewSums ==
  ASSUME ViewsTyped
  PROVE  /\ Total(views) \in Int /\ Total(userViews) \in Int
         /\ Cardinality(PendingViews) \in Int
<1>1. Total(views) \in Int /\ Total(userViews) \in Int
  BY FinitenessAssumption, TotalTyped DEF ViewsTyped
<1>2. PendingViews \subseteq Procs
  BY DEF PendingViews
<1> QED BY <1>1, <1>2, FinitenessAssumption, FS_Subset, FS_CardinalityType

(* A step of requests that neither start nor end a view.                   *)
LEMMA NoView ==
  ASSUME ViewsInv, UNCHANGED <<views, userViews, crashes>>,
         req' = [p \in Procs |-> req'[p]],
         \A p \in Procs : \/ req'[p] = req[p]
                          \/ req[p].pc # "viewed" /\ req'[p].pc # "viewed"
  PROVE  ViewsInv'
<1>1. PendingViews' = PendingViews
  BY DEF PendingViews, At
<1>2. ViewsTyped'
  BY DEF ViewsInv, ViewsTyped, At
<1> QED BY <1>1, <1>2 DEF ViewsInv, ViewsCounted

LEMMA NoViewBy ==
  ASSUME ViewsInv, NEW p \in Procs, NEW new, req' = [req EXCEPT ![p] = new],
         new.pc # "viewed", req[p].pc # "viewed",
         UNCHANGED <<views, userViews, crashes>>
  PROVE  ViewsInv'
<1>1. req' = [q \in Procs |-> req'[q]]
  BY DEF ViewsInv, ViewsTyped
<1>2. \A q \in Procs \ {p} : req'[q] = req[q]
  BY DEF ViewsInv, ViewsTyped
<1>3. req'[p] = new
  BY DEF ViewsInv, ViewsTyped
<1> QED BY <1>1, <1>2, <1>3, NoView

LEMMA ViewCounts ==
  ASSUME ViewsInv, NEW p \in Procs, View(p)
  PROVE  ViewsInv'
<1>1. PICK c \in Contents : /\ views' = [views EXCEPT ![c] = @ + 1]
                            /\ Become(p, [pc |-> "viewed", content |-> c])
  BY DEF View, Live
<1>2. req[p].pc = "idle" /\ UNCHANGED <<userViews, crashes>>
  BY DEF View, At
<1>3. /\ req' = [q \in Procs |-> req'[q]]
      /\ req'[p].pc = "viewed" /\ req'[p].content = c
      /\ \A q \in Procs \ {p} : req'[q] = req[q]
  BY <1>1 DEF ViewsInv, ViewsTyped, Become
<1>4. ViewsTyped'
  BY <1>1, <1>2, <1>3 DEF ViewsInv, ViewsTyped, At
<1>5. Total(views') = Total(views) + 1
  <2>1. /\ DOMAIN views' = DOMAIN views /\ DOMAIN views = Contents
        /\ views'[c] = views[c] + 1 /\ views[c] \in Int
        /\ \A d \in Contents \ {c} : views'[d] = views[d]
        /\ \A d \in Contents : views[d] \in Int
    BY <1>1 DEF ViewsInv, ViewsTyped
  <2>2. views'[c] \in Int
    BY <2>1
  <2>3. Total(views') = Total(views) - views[c] + views'[c]
    BY <2>1, <2>2, FinitenessAssumption, TotalChange
  <2> QED BY <2>1, <2>3, ViewSums DEF ViewsInv
<1>6. Cardinality(PendingViews') = Cardinality(PendingViews) + 1
  <2>1. PendingViews' = PendingViews \cup {p} /\ p \notin PendingViews
    BY <1>2, <1>3 DEF PendingViews, At
  <2>2. IsFiniteSet(PendingViews)
    BY FinitenessAssumption, FS_Subset DEF PendingViews
  <2> QED BY <2>1, <2>2, FS_AddElement
<1> QED BY <1>2, <1>4, <1>5, <1>6, ViewSums DEF ViewsInv, ViewsCounted

LEMMA ViewOfOwnerCounts ==
  ASSUME ViewsInv, NEW p \in Procs, ViewOwner(p)
  PROVE  ViewsInv'
<1>1. PICK u \in Users : u = OwnerOf[req[p].content]
  BY OwnerOfAssumption DEF ViewsInv, ViewsTyped, ViewOwner
<1>2. /\ userViews' = [userViews EXCEPT ![u] = @ + 1]
      /\ req[p].pc = "viewed" /\ UNCHANGED <<views, crashes>>
  BY <1>1 DEF ViewOwner, At
<1>3. /\ req' = [q \in Procs |-> req'[q]]
      /\ req'[p].pc = "idle"
      /\ \A q \in Procs \ {p} : req'[q] = req[q]
  BY DEF ViewsInv, ViewsTyped, ViewOwner, Finish, Become, Idle
<1>4. ViewsTyped'
  BY <1>2, <1>3 DEF ViewsInv, ViewsTyped, At
<1>5. Total(userViews') = Total(userViews) + 1
  <2>1. /\ DOMAIN userViews' = DOMAIN userViews /\ DOMAIN userViews = Users
        /\ userViews'[u] = userViews[u] + 1 /\ userViews[u] \in Int
        /\ \A d \in Users \ {u} : userViews'[d] = userViews[d]
        /\ \A d \in Users : userViews[d] \in Int
    BY <1>2 DEF ViewsInv, ViewsTyped
  <2>2. userViews'[u] \in Int
    BY <2>1
  <2>3. Total(userViews') = Total(userViews) - userViews[u] + userViews'[u]
    BY <2>1, <2>2, FinitenessAssumption, TotalChange
  <2> QED BY <2>1, <2>3, ViewSums DEF ViewsInv
<1>6. Cardinality(PendingViews') = Cardinality(PendingViews) - 1
  <2>1. PendingViews' = PendingViews \ {p} /\ p \in PendingViews
    BY <1>2, <1>3 DEF PendingViews, At
  <2>2. IsFiniteSet(PendingViews)
    BY FinitenessAssumption, FS_Subset DEF PendingViews
  <2> QED BY <2>1, <2>2, FS_RemoveElement
<1> QED BY <1>2, <1>4, <1>5, <1>6, ViewSums DEF ViewsInv, ViewsCounted

LEMMA CrashCutsViews == ViewsInv /\ Crash => ViewsInv'
<1> SUFFICES ASSUME ViewsInv, Crash
             PROVE  ViewsInv'
  OBVIOUS
<1>1. /\ UNCHANGED <<views, userViews>> /\ crashes' = crashes + 1
      /\ req' = [p \in Procs |-> Idle]
  BY DEF Crash, seen
<1>2. ViewsTyped'
  BY <1>1 DEF ViewsInv, ViewsTyped, At, Idle
<1>3. Cardinality(PendingViews') = 0
  <2>1. PendingViews' = {}
    BY <1>1 DEF PendingViews, At, Idle
  <2> QED BY <2>1, FS_EmptySet
<1>4. Cardinality(PendingViews) >= 0
  <2>1. IsFiniteSet(PendingViews)
    BY FinitenessAssumption, FS_Subset DEF PendingViews
  <2> QED BY <2>1, FS_CardinalityType
<1>5. crashes' # 0
  BY <1>1 DEF ViewsInv, ViewsTyped
<1> QED BY <1>1, <1>2, <1>3, <1>4, <1>5, ViewSums DEF ViewsInv, ViewsCounted

LEMMA ViewsInvStep ==
  ContentsTyped /\ ViewsInv /\ [ContentsNext]_contentVars => ViewsInv'
<1> SUFFICES ASSUME ContentsTyped, ViewsInv, [ContentsNext]_contentVars
             PROVE  ViewsInv'
  OBVIOUS
<1> USE DEF Become, Finish, Idle, At, seen
<1>1. ASSUME NEW p \in Procs,
             StartInsert(p) \/ SaveContent(p) \/ CountPhoto(p) \/ StartDelete(p)
               \/ UncountPhoto(p) \/ RemoveContent(p)
      PROVE  ViewsInv'
  <2>1. req[p].pc # "viewed" /\ UNCHANGED <<views, userViews, crashes>>
    BY <1>1 DEF StartInsert, SaveContent, CountPhoto, StartDelete, UncountPhoto,
                RemoveContent
  <2>2. \E new : req' = [req EXCEPT ![p] = new] /\ new.pc # "viewed"
    <3>1. CASE StartInsert(p) \/ StartDelete(p)
      BY <3>1 DEF StartInsert, StartDelete
    <3>2. CASE SaveContent(p) \/ UncountPhoto(p)
      <4>1. ASSUME req' = [req EXCEPT ![p] = [pc |-> "idle"]]
            PROVE  \E new : req' = [req EXCEPT ![p] = new] /\ new.pc # "viewed"
        <5> DEFINE new == [pc |-> "idle"]
        <5>1. new.pc # "viewed"
          OBVIOUS
        <5>2. req' = [req EXCEPT ![p] = new]
          BY <4>1
        <5> HIDE DEF new
        <5> QED BY <5>1, <5>2
      <4>2. ASSUME NEW pc \in {"count", "remove"},
                   req' = [req EXCEPT ![p] = [req[p] EXCEPT !.pc = pc]]
            PROVE  \E new : req' = [req EXCEPT ![p] = new] /\ new.pc # "viewed"
        <5> DEFINE new == [req[p] EXCEPT !.pc = pc]
        <5>1. req[p] = [pc |-> req[p].pc, content |-> req[p].content,
                        album |-> req[p].album]
          BY <3>2, RequestKinds DEF SaveContent, UncountPhoto
        <5>2. new.pc # "viewed"
          BY <5>1
        <5>3. req' = [req EXCEPT ![p] = new]
          BY <4>2
        <5> HIDE DEF new
        <5> QED BY <5>2, <5>3
      <4>3. \/ req' = [req EXCEPT ![p] = [pc |-> "idle"]]
            \/ \E pc \in {"count", "remove"} :
                 req' = [req EXCEPT ![p] = [req[p] EXCEPT !.pc = pc]]
        BY <3>2 DEF SaveContent, UncountPhoto
      <4> QED BY <4>1, <4>2, <4>3
    <3>3. CASE CountPhoto(p) \/ RemoveContent(p)
      BY <3>3 DEF CountPhoto, RemoveContent
    <3> QED BY <1>1, <3>1, <3>2, <3>3
  <2> QED BY <2>1, <2>2, NoViewBy
<1>2. CASE MovePhoto
  BY <1>2, NoView DEF MovePhoto, ViewsInv, ViewsTyped
<1>3. CASE UNCHANGED contentVars
  BY <1>3, NoView DEF contentVars, ViewsInv, ViewsTyped
<1> QED BY <1>1, <1>2, <1>3, ViewCounts, ViewOfOwnerCounts, CrashCutsViews
        DEF ContentsNext

LEMMA ViewsInvInit == ContentsInit => ViewsInv
<1> SUFFICES ASSUME ContentsInit
             PROVE  ViewsInv
  OBVIOUS
<1>1. ViewsTyped
  BY DEF ContentsInit, ViewsTyped, At, Idle
<1>2. Total(views) = 0 /\ Total(userViews) = 0
  BY FinitenessAssumption, TotalOfZeros DEF ContentsInit
<1>3. Cardinality(PendingViews) = 0
  <2>1. PendingViews = {}
    BY DEF ContentsInit, PendingViews, At, Idle
  <2> QED BY <2>1, FS_EmptySet
<1> QED BY <1>1, <1>2, <1>3 DEF ViewsInv, ViewsCounted

(* Every view of a content is counted for its owner once, when the request *)
(* is over, however views overlap; a restart can only lose what it cuts    *)
(* (inc-field.restdone.plugin.ts:46-60).                                   *)
THEOREM ViewsCountedAlways == Spec => []ViewsCounted
<1>1. Init => AlbumsInv /\ ViewsInv
  BY AlbumsInvInit, ViewsInvInit DEF Init
<1>2. AlbumsInv /\ ViewsInv /\ [Next]_vars => (AlbumsInv /\ ViewsInv)'
  BY AlbumsInvStep, ViewsInvStep
     DEF AlbumsInv, Next, vars, ContentsRun, FavoritesRun, ReviewsRun, MigrationsRun,
         UploadsRun
<1>3. ViewsInv => ViewsCounted
  BY DEF ViewsInv
<1> QED BY <1>1, <1>2, <1>3, PTL DEF Spec

(* Counters kept in another document than what they count: the photos of   *)
(* an album (photo.controller.ts:573-596), the views of a user             *)
(* (inc-field.restdone.plugin.ts:46-60).                                   *)
THEOREM ContentCountersAlways == Spec => []ContentCounters
<1>1. AlbumNotOverstated /\ ViewsCounted => ContentCounters
  BY DEF ContentCounters
<1> QED BY <1>1, AlbumNotOverstatedAlways, ViewsCountedAlways, PTL

-----------------------------------------------------------------------------
(* Reviews and ratings                                                     *)

StoredShape == [life : {"stored"}, user : Rated, stars : Stars]
RemovedShape == [life : {"removed"}, user : Rated, stars : Stars]
TaskShape ==
  [pc : {"insert"}, review : Reviews, user : Rated, stars : Stars]
    \cup [pc : {"update"}, review : Reviews, user : Rated, stars : Stars,
          was : StoredShape]
    \cup [pc : {"remove"}, review : Reviews, user : Rated]
    \cup [pc : {"after"}, user : Rated]

RatingsTyped ==
  /\ reviews = [r \in Reviews |-> reviews[r]]
  /\ \A r \in Reviews :
       reviews[r].life = "new" \/ reviews[r] \in StoredShape \cup RemovedShape
  /\ rating = [u \in Rated |-> rating[u]]
  /\ queue \in Seq([user : Rated, left : Int])
  /\ job # NoWork => /\ job.pc \in {"compute", "write"}
                     /\ job.user \in Rated /\ job.left \in Int
  /\ task = [p \in Writers |-> task[p]]
  /\ \A p \in Writers : task[p] = NoWork \/ task[p] \in TaskShape

(* A review is inserted by one request, and changed or removed only when   *)
(* it is there.                                                            *)
InsertedOnce ==
  \A p \in Writers :
    /\ Stands(p, "insert") =>
         /\ reviews[task[p].review].life = "new"
         /\ \A q \in Writers \ {p} :
              Stands(q, "insert") => task[q].review # task[p].review
    /\ task[p].pc \in {"update", "remove"} => reviews[task[p].review].life # "new"

(* What the rating of a user should be.                                    *)
Due(u) == IF Of(u) = {} THEN NoRating ELSE Average(StarsOf(u))

(* A job of the user will start, or none will although its reviews changed.*)
Followed(u) ==
  \/ Pending(u)
  \/ \E p \in Writers : Stands(p, "after") /\ task[p].user = u
  \/ u \in behind

(* Otherwise the job that runs holds what is due, or it is the rating.     *)
JobHolds(u) ==
  \/ job.pc = "compute" /\ job.user = u
  \/ job.pc = "write" /\ job.user = u /\ Of(u) # {} /\ job.average = Due(u)
Current(u) == (job # NoWork => job.user # u) /\ rating[u] = Due(u)

RatingDue == \A u \in Rated : Followed(u) \/ JobHolds(u) \/ Current(u)

RatingsInv == RatingsTyped /\ InsertedOnce /\ RatingDue

LEMMA RatingsInvInit == ReviewsInit => RatingsInv
<1> SUFFICES ASSUME ReviewsInit
             PROVE  RatingsInv
  OBVIOUS
<1> USE DEF ReviewsInit, NoWork
<1>1. RatingsTyped
  BY DEF RatingsTyped
<1>2. InsertedOnce
  BY DEF InsertedOnce, Stands
<1>3. \A u \in Rated : Of(u) = {}
  BY DEF Of, StoredReviews
<1>4. RatingDue
  BY <1>3 DEF RatingDue, Current, Due
<1> QED BY <1>1, <1>2, <1>4 DEF RatingsInv

-----------------------------------------------------------------------------
(* What is due depends on the reviews of the user.                         *)

LEMMA DueStays ==
  ASSUME NEW u, StarsOf(u)' = StarsOf(u)
  PROVE  Due(u)' = Due(u) /\ Of(u)' = Of(u)
<1>1. DOMAIN StarsOf(u) = Of(u) /\ DOMAIN StarsOf(u)' = Of(u)'
  BY DEF StarsOf
<1>2. Of(u)' = Of(u)
  BY <1>1
<1>3. Average(StarsOf(u)') = Average(StarsOf(u))
  OBVIOUS
<1> QED BY <1>2, <1>3 DEF Due

LEMMA SameReviews ==
  ASSUME UNCHANGED reviews, NEW u
  PROVE  Due(u)' = Due(u) /\ Of(u)' = Of(u)
<1>1. StarsOf(u)' = StarsOf(u)
  BY DEF StarsOf, Of, StoredReviews
<1> QED BY <1>1, DueStays

(* Who has reviews has a rating that is not that of nobody.                *)
LEMMA RatedByReviews ==
  ASSUME NEW u, Of(u) # {}
  PROVE  Average(StarsOf(u)) # NoRating
<1>1. IsFiniteSet(Of(u))
  <2>1. Of(u) \subseteq Reviews
    BY DEF Of, StoredReviews
  <2> QED BY <2>1, FS_Subset, ReviewsAssumption
<1>2. Cardinality(Of(u)) # 0
  BY <1>1, FS_EmptySet
<1>3. DOMAIN StarsOf(u) = Of(u)
  BY DEF StarsOf
<1>4. Average(StarsOf(u)) = <<Total(StarsOf(u)), Cardinality(Of(u))>>
  BY <1>3 DEF Average
<1> QED BY <1>2, <1>4 DEF NoRating

(* A queue that grows.                                                     *)
LEMMA QueueGrows ==
  ASSUME RatingsTyped, NEW v \in Rated, NEW l \in Int,
         queue' = Append(queue, [user |-> v, left |-> l])
  PROVE  /\ queue' \in Seq([user : Rated, left : Int])
         /\ Pending(v)'
         /\ \A u : Pending(u) => Pending(u)'
<1>1. /\ Len(queue) \in Nat
      /\ Len(queue') = Len(queue) + 1
      /\ queue'[Len(queue) + 1] = [user |-> v, left |-> l]
      /\ \A i \in 1 .. Len(queue) : queue'[i] = queue[i]
      /\ queue' \in Seq([user : Rated, left : Int])
  BY DEF RatingsTyped
<1>2. Pending(v)'
  BY <1>1 DEF Pending
<1>3. ASSUME NEW u, Pending(u)
      PROVE  Pending(u)'
  BY <1>1, <1>3 DEF Pending
<1> QED BY <1>1, <1>2, <1>3

-----------------------------------------------------------------------------
(* Requests                                                                *)

LEMMA StartChangeStep ==
  ASSUME RatingsInv, NEW p \in Writers, StartChange(p)
  PROVE  RatingsInv'
<1> USE DEF RatingsInv
<1>1. /\ task[p].pc = "idle"
      /\ UNCHANGED <<reviews, rating, queue, job, behind>>
  BY DEF StartChange, Stands
<1>2. PICK new \in TaskShape :
        /\ task' = [task EXCEPT ![p] = new]
        /\ new.pc = "insert" =>
             /\ reviews[new.review].life = "new"
             /\ \A q \in Writers : Stands(q, "insert") => task[q].review # new.review
        /\ new.pc \in {"update", "remove"} => reviews[new.review].life # "new"
        /\ new.pc # "after"
  <2>1. PICK r \in Reviews, u \in Rated, s \in Stars :
       \/ /\ reviews[r].life = "new"
          /\ \A q \in Writers : Stands(q, "insert") => task[q].review # r
          /\ Goto(p, [pc |-> "insert", review |-> r, user |-> u, stars |-> s])
       \/ /\ reviews[r].life = "stored"
          /\ \/ Goto(p, [pc |-> "update", review |-> r, user |-> u,
                           stars |-> s, was |-> reviews[r]])
             \/ Goto(p, [pc |-> "remove", review |-> r,
                           user |-> reviews[r].user])
    BY DEF StartChange
  <2>2. reviews[r].life = "stored" => reviews[r] \in StoredShape /\ reviews[r].user \in Rated
    BY DEF RatingsTyped, StoredShape, RemovedShape
  <2> DEFINE i == [pc |-> "insert", review |-> r, user |-> u, stars |-> s]
             c == [pc |-> "update", review |-> r, user |-> u,
                   stars |-> s, was |-> reviews[r]]
             d == [pc |-> "remove", review |-> r, user |-> reviews[r].user]
  <2>3. CASE reviews[r].life = "new" /\ Goto(p, i)
            /\ \A q \in Writers : Stands(q, "insert") => task[q].review # r
    <3>1. i \in TaskShape /\ i.pc = "insert" /\ i.review = r
      BY DEF TaskShape
    <3> HIDE DEF i
    <3> QED BY <2>3, <3>1 DEF Goto
  <2>4. CASE reviews[r].life = "stored" /\ Goto(p, c)
    <3>1. c \in TaskShape /\ c.pc = "update" /\ c.review = r
      BY <2>2, <2>4 DEF TaskShape
    <3> HIDE DEF c
    <3> QED BY <2>4, <3>1 DEF Goto
  <2>5. CASE reviews[r].life = "stored" /\ Goto(p, d)
    <3>1. d \in TaskShape /\ d.pc = "remove" /\ d.review = r
      BY <2>2, <2>5 DEF TaskShape
    <3> HIDE DEF d
    <3> QED BY <2>5, <3>1 DEF Goto
  <2> QED BY <2>1, <2>3, <2>4, <2>5
<1>3. RatingsTyped'
  BY <1>1, <1>2 DEF RatingsTyped
<1>4. InsertedOnce'
  BY <1>1, <1>2 DEF InsertedOnce, Stands, RatingsTyped
<1>5. ASSUME NEW u \in Rated, Followed(u)
      PROVE  Followed(u)'
  BY <1>1, <1>2, <1>5 DEF Followed, Pending, Stands, RatingsTyped
<1>6. \A u : Due(u)' = Due(u) /\ Of(u)' = Of(u)
  BY <1>1, SameReviews
<1>7. RatingDue'
  BY <1>1, <1>5, <1>6 DEF RatingDue, JobHolds, Current
<1> QED BY <1>3, <1>4, <1>7

(* A save changes the reviews of the user the request knows, whose job     *)
(* will follow, and of those that it leaves behind.                        *)
LEMMA SaveReviewStep ==
  ASSUME RatingsInv, NEW p \in Writers, SaveReview(p)
  PROVE  RatingsInv'
<1> USE DEF RatingsInv
<1> DEFINE r == task[p]
           old == reviews[r.review]
           new == Saved(r, old)
           rated == {new.user} \cup IF r.pc = "insert" THEN {} ELSE {old.user}
<1>1. /\ r \in TaskShape /\ r.pc \in {"insert", "update", "remove"}
      /\ r.review \in Reviews /\ r.user \in Rated
      /\ UNCHANGED <<rating, queue, job>>
  BY DEF SaveReview, RatingsTyped, TaskShape, NoWork
<1>2. CASE r.pc = "update" /\ old.life # "stored"
  <2>1. task' = [task EXCEPT ![p] = NoWork] /\ UNCHANGED <<reviews, behind>>
    BY <1>2 DEF SaveReview, Goto
  <2>2. RatingsTyped'
    BY <1>1, <2>1 DEF RatingsTyped
  <2>3. InsertedOnce'
    BY <1>1, <2>1 DEF InsertedOnce, Stands, RatingsTyped, NoWork
  <2>4. ASSUME NEW u \in Rated, Followed(u)
        PROVE  Followed(u)'
    BY <1>1, <1>2, <2>1, <2>4 DEF Followed, Pending, Stands, RatingsTyped
  <2>5. \A u : Due(u)' = Due(u) /\ Of(u)' = Of(u)
    BY <2>1, SameReviews
  <2>6. RatingDue'
    BY <1>1, <2>1, <2>4, <2>5 DEF RatingDue, JobHolds, Current
  <2> QED BY <2>2, <2>3, <2>6
<1>3. CASE ~(r.pc = "update" /\ old.life # "stored")
  <2>1. /\ reviews' = [reviews EXCEPT ![r.review] = new]
        /\ behind' = behind \cup (rated \ {r.user})
        /\ task' = [task EXCEPT ![p] = [pc |-> "after", user |-> r.user]]
    BY <1>3 DEF SaveReview, Goto
  <2>2. r.pc # "insert" => old \in StoredShape \cup RemovedShape
    BY <1>1 DEF RatingsTyped, InsertedOnce
  <2>3. /\ new \in StoredShape \cup RemovedShape
        /\ r.pc = "insert" => new.user = r.user
    <3>1. CASE r.pc = "insert"
      BY <1>1, <3>1 DEF Saved, TaskShape, StoredShape
    <3>2. CASE r.pc = "update"
      BY <1>1, <2>2, <3>2 DEF Saved, TaskShape, StoredShape, RemovedShape
    <3>3. CASE r.pc = "remove"
      <4>1. new = [old EXCEPT !.life = "removed"]
        BY <3>3 DEF Saved
      <4> QED BY <2>2, <3>3, <4>1 DEF StoredShape, RemovedShape
    <3> QED BY <1>1, <3>1, <3>2, <3>3
  <2> HIDE DEF new
  <2>4. [pc |-> "after", user |-> r.user] \in TaskShape
    BY <1>1 DEF TaskShape
  <2>5. RatingsTyped'
    BY <1>1, <2>1, <2>3, <2>4 DEF RatingsTyped
  <2>6. InsertedOnce'
    <3>1. new.life # "new"
      BY <2>3 DEF StoredShape, RemovedShape
    <3>2. \A q \in Writers : task[q].pc \in {"insert", "update", "remove"} => task[q].review \in Reviews
      BY DEF RatingsTyped, TaskShape, NoWork
    <3>3. ASSUME NEW q \in Writers, Stands(q, "insert")'
          PROVE  /\ q # p /\ task'[q] = task[q] /\ task[q].pc = "insert"
                 /\ task[q].review # r.review
      <4>1. q # p /\ task'[q] = task[q] /\ task[q].pc = "insert"
        BY <2>1, <3>3 DEF Stands, RatingsTyped
      <4>2. r.pc = "insert" => task[q].review # r.review
        BY <4>1 DEF InsertedOnce, Stands
      <4>3. r.pc # "insert" => task[q].review # r.review
        BY <1>1, <4>1 DEF InsertedOnce, Stands
      <4> QED BY <4>1, <4>2, <4>3
    <3>4. ASSUME NEW q \in Writers, task'[q].pc \in {"update", "remove"}
          PROVE  reviews'[task'[q].review].life # "new"
      <4>1. q # p /\ task'[q] = task[q]
        BY <2>1, <3>4 DEF RatingsTyped
      <4> QED BY <2>1, <3>1, <3>2, <3>4, <4>1 DEF InsertedOnce, RatingsTyped
    <3> QED BY <2>1, <3>2, <3>3, <3>4 DEF InsertedOnce, Stands, RatingsTyped
  <2>7. ASSUME NEW u \in Rated, Followed(u)
        PROVE  Followed(u)'
    BY <1>1, <2>1, <2>7 DEF Followed, Pending, Stands, RatingsTyped
  <2>8. Followed(r.user)'
    BY <2>1 DEF Followed, Stands, RatingsTyped
  <2>9. \A u \in rated : Followed(u)'
    BY <2>1, <2>8 DEF Followed
  <2>10. ASSUME NEW u, u \notin rated
         PROVE  StarsOf(u)' = StarsOf(u)
    <3>1. \A x \in Reviews \ {r.review} : reviews'[x] = reviews[x]
      BY <2>1 DEF RatingsTyped
    <3>2. reviews'[r.review].user # u
      BY <1>1, <2>1, <2>10 DEF RatingsTyped
    <3>3. r.review \notin Of(u)
      <4>1. CASE r.pc = "insert"
        BY <4>1 DEF InsertedOnce, Of, StoredReviews, Stands
      <4>2. CASE r.pc # "insert"
        BY <2>10, <4>2 DEF Of
      <4> QED BY <4>1, <4>2
    <3>4. Of(u)' = Of(u)
      BY <1>1, <3>1, <3>2, <3>3 DEF Of, StoredReviews
    <3>5. \A x \in Of(u) : reviews'[x].stars = reviews[x].stars
      BY <3>1, <3>3 DEF Of, StoredReviews
    <3> QED BY <3>4, <3>5 DEF StarsOf
  <2> HIDE DEF rated
  <2>11. \A u \in Rated \ rated : Due(u)' = Due(u) /\ Of(u)' = Of(u)
    BY <2>10, DueStays
  <2>12. RatingDue'
    BY <1>1, <2>7, <2>9, <2>11 DEF RatingDue, JobHolds, Current
  <2> QED BY <2>5, <2>6, <2>12
<1> QED BY <1>2, <1>3

LEMMA AfterChangeStep ==
  ASSUME RatingsInv, NEW p \in Writers, AfterChange(p)
  PROVE  RatingsInv'
<1> USE DEF RatingsInv
<1>1. PICK v \in Rated : v = task[p].user
  BY DEF AfterChange, Stands, RatingsTyped, TaskShape, NoWork
<1>2. /\ task[p].pc = "after" /\ task[p].user = v
      /\ queue' = Append(queue, [user |-> v, left |-> Attempts])
      /\ behind' = behind \ {v}
      /\ task' = [task EXCEPT ![p] = NoWork]
      /\ UNCHANGED <<reviews, rating, job>>
  BY <1>1 DEF AfterChange, QueueJob, Goto, Stands
<1>3. /\ queue' \in Seq([user : Rated, left : Int])
      /\ Pending(v)'
      /\ \A u : Pending(u) => Pending(u)'
  <2>1. Attempts \in Int
    BY DEF Attempts
  <2> QED BY <1>2, <1>1, <2>1, QueueGrows
<1>4. RatingsTyped'
  BY <1>2, <1>3 DEF RatingsTyped
<1>5. InsertedOnce'
  BY <1>2 DEF InsertedOnce, Stands, RatingsTyped, NoWork
<1>6. ASSUME NEW u \in Rated, Followed(u)
      PROVE  Followed(u)'
  <2>1. CASE u = v
    BY <1>3, <2>1 DEF Followed
  <2>2. CASE u # v
    BY <1>2, <1>3, <1>6, <2>2 DEF Followed, Stands, RatingsTyped
  <2> QED BY <2>1, <2>2
<1>7. \A u : Due(u)' = Due(u) /\ Of(u)' = Of(u)
  BY <1>2, SameReviews
<1>8. RatingDue'
  BY <1>2, <1>6, <1>7 DEF RatingDue, JobHolds, Current
<1> QED BY <1>4, <1>5, <1>8

LEMMA CutRequestStep ==
  ASSUME RatingsInv, NEW p \in Writers, CutRequest(p)
  PROVE  RatingsInv'
<1> USE DEF RatingsInv
<1>1. /\ behind' = IF task[p].pc = "after" THEN behind \cup {task[p].user} ELSE behind
      /\ task' = [task EXCEPT ![p] = NoWork]
      /\ UNCHANGED <<reviews, rating, queue, job>>
  BY DEF CutRequest, Goto, Stands
<1>2. RatingsTyped'
  BY <1>1 DEF RatingsTyped
<1>3. InsertedOnce'
  BY <1>1 DEF InsertedOnce, Stands, RatingsTyped, NoWork
<1>4. ASSUME NEW u \in Rated, Followed(u)
      PROVE  Followed(u)'
  BY <1>1, <1>4 DEF Followed, Pending, Stands, RatingsTyped
<1>5. \A u : Due(u)' = Due(u) /\ Of(u)' = Of(u)
  BY <1>1, SameReviews
<1>6. RatingDue'
  BY <1>1, <1>4, <1>5 DEF RatingDue, JobHolds, Current
<1> QED BY <1>2, <1>3, <1>6

-----------------------------------------------------------------------------
(* The worker                                                              *)

(* What a step of the worker leaves alone.                                 *)
LEMMA WorkerStep ==
  ASSUME RatingsInv, UNCHANGED <<reviews, task>>,
         rating' = [u \in Rated |-> rating'[u]],
         queue' \in Seq([user : Rated, left : Int]),
         job' # NoWork => /\ job'.pc \in {"compute", "write"}
                          /\ job'.user \in Rated /\ job'.left \in Int,
         \A u \in Rated : (Followed(u) \/ JobHolds(u) \/ Current(u))'
  PROVE  RatingsInv'
<1>1. RatingsTyped'
  BY DEF RatingsInv, RatingsTyped
<1>2. InsertedOnce'
  BY DEF RatingsInv, InsertedOnce, Stands
<1>3. RatingDue'
  BY DEF RatingDue
<1> QED BY <1>1, <1>2, <1>3 DEF RatingsInv

LEMMA TakeJobStep == RatingsInv /\ TakeJob => RatingsInv'
<1> SUFFICES ASSUME RatingsInv, TakeJob
             PROVE  RatingsInv'
  OBVIOUS
<1> DEFINE h == Head(queue)
<1>1. /\ job = NoWork /\ queue # <<>>
      /\ job' = [pc |-> "compute", user |-> h.user, left |-> h.left]
      /\ queue' = Tail(queue)
      /\ UNCHANGED <<reviews, rating, task, behind>>
  BY DEF TakeJob
<1>2. queue \in Seq([user : Rated, left : Int])
  BY DEF RatingsInv, RatingsTyped
<1>3. h \in [user : Rated, left : Int] /\ queue' \in Seq([user : Rated, left : Int])
  BY <1>1, <1>2, HeadTailProperties
<1>4. job' # NoWork /\ job'.pc = "compute" /\ job'.user = h.user /\ job'.left = h.left
  BY <1>1 DEF NoWork
<1>5. \A u : Due(u)' = Due(u) /\ Of(u)' = Of(u)
  BY <1>1, SameReviews
<1>6. ASSUME NEW u, Pending(u), u # h.user
      PROVE  Pending(u)'
  <2>1. PICK i \in 1 .. Len(queue) : queue[i].user = u
    BY <1>6 DEF Pending
  <2>2. i # 1
    BY <1>1, <1>2, <1>6, <2>1
  <2>3. i - 1 \in 1 .. Len(queue') /\ queue'[i - 1] = queue[i]
    BY <1>1, <1>2, <2>1, <2>2
  <2> QED BY <2>1, <2>3 DEF Pending
<1>7. ASSUME NEW u \in Rated
      PROVE  (Followed(u) \/ JobHolds(u) \/ Current(u))'
  <2>1. CASE u = h.user
    BY <1>4, <2>1 DEF JobHolds
  <2>2. CASE u # h.user
    <3>1. Followed(u) => Followed(u)'
      BY <1>1, <1>6, <2>2 DEF Followed, Stands
    <3>2. ~JobHolds(u)
      BY <1>1 DEF JobHolds, NoWork
    <3>3. Current(u) => Current(u)'
      BY <1>1, <1>4, <1>5, <2>2 DEF Current
    <3> QED BY <3>1, <3>2, <3>3 DEF RatingsInv, RatingDue
  <2> QED BY <2>1, <2>2
<1>8. rating' = [u \in Rated |-> rating'[u]]
  BY <1>1 DEF RatingsInv, RatingsTyped
<1> QED BY <1>1, <1>3, <1>4, <1>7, <1>8, WorkerStep

(* A job that ends with nothing written.                                   *)
LEMMA JobLost ==
  ASSUME RatingsInv, UNCHANGED <<reviews, task, rating>>, job # NoWork, job' = NoWork,
         \/ /\ \E l \in Int : queue' = Append(queue, [user |-> job.user, left |-> l])
            /\ behind' = behind
         \/ queue' = queue /\ behind' = behind \cup Abandoned(job.user)
  PROVE  RatingsInv'
<1>1. PICK v \in Rated : v = job.user
  BY DEF RatingsInv, RatingsTyped
<1>2. /\ queue' \in Seq([user : Rated, left : Int])
      /\ \A u : Pending(u) => Pending(u)'
      /\ behind \subseteq behind'
      /\ Pending(v)' \/ v \in behind'
  <2>1. CASE queue' = queue /\ behind' = behind \cup Abandoned(job.user)
    BY <1>1, <2>1 DEF Pending, Abandoned, RatingsInv, RatingsTyped
  <2>2. CASE /\ \E l \in Int : queue' = Append(queue, [user |-> job.user, left |-> l])
             /\ behind' = behind
    BY <1>1, <2>2, QueueGrows DEF RatingsInv
  <2> QED BY <2>1, <2>2
<1>3. \A u : Due(u)' = Due(u) /\ Of(u)' = Of(u)
  BY SameReviews
<1>4. ASSUME NEW u \in Rated
      PROVE  (Followed(u) \/ JobHolds(u) \/ Current(u))'
  <2>1. Followed(u) => Followed(u)'
    BY <1>2 DEF Followed, Stands
  <2>2. JobHolds(u) => Followed(u)'
    BY <1>1, <1>2 DEF JobHolds, Followed
  <2>3. Current(u) => Current(u)'
    BY <1>3 DEF Current
  <2> QED BY <2>1, <2>2, <2>3 DEF RatingsInv, RatingDue
<1>5. rating' = [u \in Rated |-> rating'[u]]
  BY DEF RatingsInv, RatingsTyped
<1> QED BY <1>2, <1>4, <1>5, WorkerStep

LEMMA RetryStep ==
  ASSUME RatingsInv, job # NoWork, Retry, UNCHANGED <<reviews, task, rating>>
  PROVE  RatingsInv'
<1>1. job.left - 1 \in Int
  BY DEF RatingsInv, RatingsTyped
<1> QED BY <1>1, JobLost DEF Retry

LEMMA CalculateRatingStep == RatingsInv /\ CalculateRating => RatingsInv'
<1> SUFFICES ASSUME RatingsInv, CalculateRating
             PROVE  RatingsInv'
  OBVIOUS
<1>1. job.pc = "compute" /\ job # NoWork /\ UNCHANGED <<reviews, rating, task>>
  BY DEF CalculateRating, NoWork
<1>2. CASE Of(job.user) = {}
  BY <1>1, <1>2, RetryStep DEF CalculateRating
<1>3. CASE Of(job.user) # {}
  <2>1. /\ job' = [pc |-> "write", user |-> job.user, left |-> job.left,
                   average |-> Average(StarsOf(job.user))]
        /\ UNCHANGED <<queue, behind>>
    BY <1>3 DEF CalculateRating
  <2>2. /\ job'.pc = "write" /\ job'.user = job.user /\ job'.left = job.left
        /\ job'.average = Due(job.user)
    BY <1>3, <2>1 DEF Due
  <2>3. job.user \in Rated /\ job.left \in Int
    BY <1>1 DEF RatingsInv, RatingsTyped
  <2>4. \A u : Due(u)' = Due(u) /\ Of(u)' = Of(u)
    BY <1>1, SameReviews
  <2>5. ASSUME NEW u \in Rated
        PROVE  (Followed(u) \/ JobHolds(u) \/ Current(u))'
    <3>1. CASE u = job.user
      BY <1>3, <2>2, <2>4, <3>1 DEF JobHolds
    <3>2. CASE u # job.user
      <4>1. Followed(u) => Followed(u)'
        BY <1>1, <2>1 DEF Followed, Pending, Stands
      <4>2. Current(u) => Current(u)'
        BY <1>1, <2>2, <2>4, <3>2 DEF Current
      <4> QED BY <3>2, <4>1, <4>2 DEF RatingsInv, RatingDue, JobHolds
    <3> QED BY <3>1, <3>2
  <2>6. rating' = [u \in Rated |-> rating'[u]] /\ queue' \in Seq([user : Rated, left : Int])
    BY <1>1, <2>1 DEF RatingsInv, RatingsTyped
  <2> QED BY <1>1, <2>2, <2>3, <2>5, <2>6, WorkerStep
<1> QED BY <1>2, <1>3

LEMMA WriteRatingStep == RatingsInv /\ WriteRating => RatingsInv'
<1> SUFFICES ASSUME RatingsInv, WriteRating
             PROVE  RatingsInv'
  OBVIOUS
<1>1. /\ job.pc = "write" /\ job # NoWork /\ job' = NoWork
      /\ rating' = [rating EXCEPT ![job.user] = job.average]
      /\ UNCHANGED <<reviews, queue, task, behind>>
  BY DEF WriteRating, NoWork
<1>2. \A u : Due(u)' = Due(u) /\ Of(u)' = Of(u)
  BY <1>1, SameReviews
<1>3. ASSUME NEW u \in Rated
      PROVE  (Followed(u) \/ JobHolds(u) \/ Current(u))'
  <2>1. Followed(u) => Followed(u)'
    BY <1>1 DEF Followed, Pending, Stands
  <2>2. JobHolds(u) => Current(u)'
    BY <1>1, <1>2 DEF JobHolds, Current, RatingsInv, RatingsTyped
  <2>3. Current(u) => Current(u)'
    BY <1>1, <1>2 DEF Current, RatingsInv, RatingsTyped
  <2> QED BY <2>1, <2>2, <2>3 DEF RatingsInv, RatingDue
<1>4. rating' = [u \in Rated |-> rating'[u]] /\ queue' \in Seq([user : Rated, left : Int])
  BY <1>1 DEF RatingsInv, RatingsTyped
<1> QED BY <1>1, <1>3, <1>4, WorkerStep

-----------------------------------------------------------------------------
LEMMA RatingsInvStep == RatingsInv /\ [ReviewsNext]_reviewVars => RatingsInv'
<1> SUFFICES ASSUME RatingsInv, [ReviewsNext]_reviewVars
             PROVE  RatingsInv'
  OBVIOUS
<1>1. ASSUME NEW p \in Writers, Writing(p) \/ CutRequest(p)
      PROVE  RatingsInv'
  BY <1>1, StartChangeStep, SaveReviewStep, AfterChangeStep, CutRequestStep DEF Writing
<1>2. CASE Worker
  BY <1>2, TakeJobStep, CalculateRatingStep, WriteRatingStep DEF Worker
<1>3. CASE FailJob
  BY <1>3, RetryStep DEF FailJob
<1>4. CASE CrashWorker
  <2>1. job # NoWork => job.left \in Int
    BY DEF RatingsInv, RatingsTyped
  <2> QED BY <1>4, <2>1, JobLost DEF CrashWorker
<1>5. CASE UNCHANGED reviewVars
  <2>1. UNCHANGED <<reviews, rating, queue, job, task, behind>>
    BY <1>5 DEF reviewVars
  <2>2. \A u : Due(u)' = Due(u) /\ Of(u)' = Of(u)
    BY <2>1, SameReviews
  <2>3. ASSUME NEW u \in Rated
        PROVE  (Followed(u) \/ JobHolds(u) \/ Current(u))'
    BY <2>1, <2>2 DEF RatingsInv, RatingDue, Followed, Pending, Stands, JobHolds, Current
  <2>4. /\ rating' = [u \in Rated |-> rating'[u]]
        /\ queue' \in Seq([user : Rated, left : Int])
        /\ job' # NoWork => /\ job'.pc \in {"compute", "write"}
                            /\ job'.user \in Rated /\ job'.left \in Int
    BY <2>1 DEF RatingsInv, RatingsTyped
  <2> QED BY <2>1, <2>3, <2>4, WorkerStep
<1> QED BY <1>1, <1>2, <1>3, <1>4, <1>5 DEF ReviewsNext

LEMMA RatingsInvSettled == RatingsInv => RatingSettled
<1> SUFFICES ASSUME RatingsInv, NEW u \in Rated, ~Waits(u), u \notin behind
             PROVE  \/ rating[u] = NoRating /\ Of(u) = {}
                    \/ Equal(rating[u], Average(StarsOf(u)))
  BY DEF RatingSettled
<1>1. ~Followed(u) /\ (job # NoWork => job.user # u)
  BY DEF Followed, Waits, HasJob
<1>2. rating[u] = Due(u)
  BY <1>1 DEF RatingsInv, RatingDue, JobHolds, Current, NoWork
<1>3. CASE Of(u) = {}
  BY <1>2, <1>3 DEF Due
<1>4. CASE Of(u) # {}
  BY <1>2, <1>4, RatedByReviews DEF Due, Equal
<1> QED BY <1>3, <1>4

(* The rating of a user is the average of its reviews once its last job is *)
(* done, for any number of users, reviews, requests and faults             *)
(* (rating.molecule.ts:18-44, review.controller.ts:163-168).               *)
THEOREM RatingSettledAlways == Spec => []RatingSettled
<1>1. Init => RatingsInv
  BY RatingsInvInit DEF Init
<1>2. RatingsInv /\ [Next]_vars => RatingsInv'
  BY RatingsInvStep DEF Next, vars, ContentsRun, FavoritesRun, ReviewsRun, MigrationsRun,
                        UploadsRun
<1> QED BY <1>1, <1>2, RatingsInvSettled, PTL DEF Spec

-----------------------------------------------------------------------------
(* Photos and videos                                                       *)

UploadsSpec == UploadsInit /\ [][UploadsNext]_uploadVars

Uses == {"free", "single", "multi", "closed", "cover"}
AnyKey == Keys \cup {NoKey}

(* A request that is under way.                                            *)
Saving ==
  [pc : {"download", "upload", "save"},
   read : [url : AnyKey, cover : AnyKey], url : Keys, cover : AnyKey]

FilmsTyped ==
  /\ medium \in {"photo", "video"}
  /\ object \in [Keys -> {NoObject, File} \cup {Frame(k) : k \in Keys}]
  /\ place \in [Keys -> Uses]
  /\ film \in [life : {"none", "stored"}, url : AnyKey, publicUrl : AnyKey,
               cover : AnyKey]
  /\ urls \subseteq Keys
  /\ cleared \in BOOLEAN
  /\ save \in [Savers -> Saving \cup {NoSave}]

(* Keys that clients were given, and every key that was drawn.             *)
FilesOfClients == {k \in Keys : place[k] \in {"single", "multi", "closed"}}
Drawn == {k \in Keys : place[k] # "free"}

(* Only the program puts a frame into the bucket, and only as a cover; a   *)
(* key that was not drawn holds nothing.                                   *)
FramesAreCovers ==
  \A k \in Keys :
    /\ place[k] # "cover" => object[k] \in {NoObject, File}
    /\ place[k] = "free" => object[k] = NoObject

(* The document is as some request left it: it has urls of clients' files, *)
(* and its cover was drawn.                                                *)
FilmStored ==
  /\ film.life = "none" => film = NoFilm
  /\ film.life = "stored" => film.url \in FilesOfClients /\ film.publicUrl = film.url
  /\ film.cover = NoKey \/ film.cover \in Drawn

(* A cover that the program made is a frame of a file that a client sent.  *)
IsFrameOf(c, url) == object[c] = Frame(url) /\ object[url] = File
CoverOfFilm ==
  /\ film.life = "stored" /\ medium = "video" /\ film.cover = NoKey => cleared
  /\ film.cover \in Drawn \ FilesOfClients
       => \E k \in urls : IsFrameOf(film.cover, k)

(* What a request holds: a file of a client; the cover it read, one that a *)
(* client sent or the frame it took itself; and on the way to its frame,   *)
(* none as yet.                                                            *)
SaverKnows(s) ==
  /\ s.url \in FilesOfClients
  /\ s.cover = NoKey \/ s.cover \in Drawn
  /\ s.read.url = NoKey => s.read.cover = NoKey
  /\ s.read.url # NoKey => film.life = "stored"
  /\ s.pc = "upload" => object[s.url] = File
  /\ s.pc \in {"download", "upload"} => UrlModified(s) /\ s.cover = NoKey
  /\ s.cover \in Drawn \ FilesOfClients /\ s.cover # s.read.cover
       => UrlModified(s) /\ IsFrameOf(s.cover, s.url)
  /\ s.pc = "save" /\ medium = "video" /\ s.read.url = NoKey => s.cover # NoKey

SaversKnow == \A p \in Savers : save[p] # NoSave => SaverKnows(save[p])

FilmsInv ==
  FilmsTyped /\ FramesAreCovers /\ FilmStored /\ CoverOfFilm /\ SaversKnow

-----------------------------------------------------------------------------
LEMMA FilmsInvInit == UploadsInit => FilmsInv
<1> SUFFICES ASSUME UploadsInit
             PROVE  FilmsInv
  OBVIOUS
<1> USE DEF UploadsInit
<1>1. FilmsTyped
  BY DEF FilmsTyped, Uses, AnyKey, NoFilm
<1>2. FramesAreCovers
  BY DEF FramesAreCovers
<1>3. FilmStored /\ CoverOfFilm
  BY DEF FilmStored, CoverOfFilm, NoFilm, Drawn, Keys, NoKey
<1>4. SaversKnow
  BY DEF SaversKnow
<1> QED BY <1>1, <1>2, <1>3, <1>4 DEF FilmsInv

(* What the bucket does in any step: keys are drawn, once, and what an     *)
(* object is does not change.                                              *)
BucketGrows ==
  /\ FilesOfClients \subseteq FilesOfClients' /\ Drawn \subseteq Drawn'
  /\ FilesOfClients' \cap Drawn \subseteq FilesOfClients
  /\ \A k \in Keys : object[k] # NoObject => object'[k] = object[k]

LEMMA ObjectsDiffer ==
  NoObject # File /\ \A k : Frame(k) # NoObject /\ Frame(k) # File
  BY DEF NoObject, File, Frame

(* What was a frame of a client's file stays one.                          *)
LEMMA FramesStay ==
  ASSUME FilmsInv, BucketGrows, NEW c \in Keys, NEW k \in Keys, IsFrameOf(c, k)
  PROVE  IsFrameOf(c, k)'
<1>1. object[c] # NoObject /\ object[k] # NoObject
  BY ObjectsDiffer DEF IsFrameOf
<1> QED BY <1>1 DEF BucketGrows, IsFrameOf

LEMMA FilmStays ==
  ASSUME FilmsInv, BucketGrows, UNCHANGED <<film, urls, cleared, medium>>
  PROVE  FilmStored' /\ CoverOfFilm'
<1>1. FilmStored'
  BY DEF FilmsInv, FilmStored, BucketGrows
<1>2. ASSUME film.cover \in Drawn' \ FilesOfClients'
      PROVE  \E k \in urls : IsFrameOf(film.cover, k)'
  <2>1. film.cover \in Drawn \ FilesOfClients
    <3>1. film.cover # NoKey
      BY <1>2 DEF Drawn, Keys, NoKey
    <3> QED BY <1>2, <3>1 DEF FilmsInv, FilmStored, BucketGrows
  <2>2. PICK k \in urls : IsFrameOf(film.cover, k)
    BY <2>1 DEF FilmsInv, CoverOfFilm
  <2>3. film.cover \in Keys /\ k \in Keys
    BY <2>1 DEF FilmsInv, FilmsTyped, Drawn
  <2> QED BY <2>2, <2>3, FramesStay
<1> QED BY <1>1, <1>2 DEF FilmsInv, CoverOfFilm, IsFrameOf

(* A request still knows what it knew.                                     *)
LEMMA SaverStays ==
  ASSUME FilmsInv, BucketGrows, UNCHANGED medium,
         film.life = "stored" => film'.life = "stored",
         NEW s \in Saving, SaverKnows(s)
  PROVE  SaverKnows(s)'
<1>1. s.url \in Keys /\ (s.cover = NoKey \/ s.cover \in Keys)
  BY DEF Saving, AnyKey
<1>2. s.url \in FilesOfClients' /\ (s.cover = NoKey \/ s.cover \in Drawn')
  BY DEF SaverKnows, BucketGrows
<1>3. s.pc = "upload" => object'[s.url] = File
  BY <1>1, ObjectsDiffer DEF SaverKnows, BucketGrows
<1>4. ASSUME s.cover \in Drawn' \ FilesOfClients', s.cover # s.read.cover
      PROVE  UrlModified(s) /\ IsFrameOf(s.cover, s.url)'
  <2>1. s.cover \in Drawn \ FilesOfClients
    <3>1. s.cover # NoKey
      BY <1>4 DEF Drawn, Keys, NoKey
    <3> QED BY <1>4, <3>1 DEF SaverKnows, BucketGrows
  <2>2. UrlModified(s) /\ IsFrameOf(s.cover, s.url)
    BY <1>4, <2>1 DEF SaverKnows
  <2>3. s.cover \in Keys
    BY <2>1 DEF Drawn
  <2> QED BY <1>1, <2>2, <2>3, FramesStay
<1>5. UrlModified(s)' <=> UrlModified(s)
  BY DEF UrlModified
<1>6. IsFrameOf(s.cover, s.url)' <=> object'[s.cover] = Frame(s.url) /\ object'[s.url] = File
  BY DEF IsFrameOf
<1> QED BY <1>2, <1>3, <1>4, <1>5 DEF SaverKnows

(* So do all the requests that a step leaves alone.                        *)
LEMMA SaversStay ==
  ASSUME FilmsInv, BucketGrows, UNCHANGED medium,
         film.life = "stored" => film'.life = "stored",
         \A p \in Savers :
           \/ save'[p] \in {save[p], NoSave}
           \/ \E s \in Saving : save'[p] = s /\ SaverKnows(s)'
  PROVE  SaversKnow'
<1> SUFFICES ASSUME NEW p \in Savers, save'[p] # NoSave
             PROVE  SaverKnows(save[p])'
  BY DEF SaversKnow
<1>1. PICK s \in Saving : save'[p] = s /\ SaverKnows(s)'
  <2>1. CASE save'[p] = save[p]
    <3>1. PICK s \in Saving : s = save[p]
      BY <2>1 DEF FilmsInv, FilmsTyped
    <3>2. SaverKnows(s)
      BY <2>1, <3>1 DEF FilmsInv, SaversKnow
    <3> QED BY <2>1, <3>1, <3>2, SaverStays
  <2> QED BY <2>1
<1> QED BY <1>1 DEF SaverKnows, UrlModified, IsFrameOf

-----------------------------------------------------------------------------
(* The actions                                                             *)

LEMMA NothingDrawn == UNCHANGED bucket => BucketGrows
  BY DEF bucket, BucketGrows, FilesOfClients, Drawn

(* Clients and the bucket.                                                 *)
LEMMA BucketSteps ==
  ASSUME FilmsInv, UploadController \/ PutObject
  PROVE  FilmsInv'
<1> USE DEF FilmsInv
<1>1. UNCHANGED <<medium, film, urls, cleared, save>>
  BY DEF UploadController, GetSignedUrl, CreateMultipartUpload, SendPart,
         CompleteMultipartUpload, PutObject, written
<1>2. /\ object' \in [Keys -> {NoObject, File} \cup {Frame(k) : k \in Keys}]
      /\ place' \in [Keys -> Uses]
      /\ FramesAreCovers'
      /\ BucketGrows
  <2> USE DEF FilmsTyped, FramesAreCovers, BucketGrows, Uses, FilesOfClients, Drawn
  <2>1. ASSUME NEW k \in Keys, GenerateKey(k, "single") \/ GenerateKey(k, "multi"),
               UNCHANGED object
        PROVE  <1>2!1 /\ <1>2!2 /\ <1>2!3 /\ <1>2!4
    BY <2>1 DEF GenerateKey
  <2>2. ASSUME NEW k \in Keys, place[k] = "single", UNCHANGED place,
               object' = [object EXCEPT ![k] = File]
        PROVE  <1>2!1 /\ <1>2!2 /\ <1>2!3 /\ <1>2!4
    BY <2>2
  <2>3. ASSUME NEW k \in Keys, place[k] = "multi",
               place' = [place EXCEPT ![k] = "closed"],
               object' = [object EXCEPT ![k] = File]
        PROVE  <1>2!1 /\ <1>2!2 /\ <1>2!3 /\ <1>2!4
    BY <2>3
  <2>4. CASE GetSignedUrl \/ CreateMultipartUpload
    BY <2>1, <2>4 DEF GetSignedUrl, CreateMultipartUpload
  <2>5. CASE PutObject
    BY <2>2, <2>5 DEF PutObject
  <2>6. CASE CompleteMultipartUpload
    BY <2>3, <2>6 DEF CompleteMultipartUpload
  <2>7. CASE SendPart
    BY <2>7 DEF SendPart
  <2> QED BY <2>4, <2>5, <2>6, <2>7 DEF UploadController
<1>3. FilmsTyped'
  BY <1>1, <1>2 DEF FilmsTyped
<1>4. FilmStored' /\ CoverOfFilm'
  BY <1>1, <1>2, FilmStays
<1>5. SaversKnow'
  BY <1>1, <1>2, SaversStay
<1> QED BY <1>2, <1>3, <1>4, <1>5

(* Requests that end change nothing else.                                  *)
LEMMA SaveEnding ==
  ASSUME FilmsInv, NEW p \in Savers, SaveEnds(p),
         UNCHANGED <<medium, bucket, written>>
  PROVE  FilmsInv'
<1>1. save' = [save EXCEPT ![p] = NoSave]
  BY DEF SaveEnds, SaveGoesOn
<1>2. FilmsTyped'
  BY <1>1 DEF FilmsInv, FilmsTyped, bucket, written
<1>3. FramesAreCovers'
  BY DEF FilmsInv, FramesAreCovers, bucket
<1>4. FilmStored' /\ CoverOfFilm'
  BY NothingDrawn, FilmStays DEF written
<1>5. SaversKnow'
  <2>1. \A q \in Savers : save'[q] \in {save[q], NoSave}
    BY <1>1 DEF FilmsInv, FilmsTyped
  <2> QED BY <2>1, NothingDrawn, SaversStay DEF written
<1> QED BY <1>2, <1>3, <1>4, <1>5 DEF FilmsInv

(* A step of one request that only goes on, with what it now knows.        *)
LEMMA SaveGoing ==
  ASSUME FilmsInv, NEW p \in Savers, NEW s \in Saving, SaveGoesOn(p, s),
         UNCHANGED <<medium, bucket, written>>, SaverKnows(s)
  PROVE  FilmsInv'
<1>1. save' = [save EXCEPT ![p] = s]
  BY DEF SaveGoesOn
<1>2. FilmsTyped'
  BY <1>1 DEF FilmsInv, FilmsTyped, bucket, written
<1>3. FramesAreCovers'
  BY DEF FilmsInv, FramesAreCovers, bucket
<1>4. FilmStored' /\ CoverOfFilm'
  BY NothingDrawn, FilmStays DEF written
<1>5. SaversKnow'
  <2>1. SaverKnows(s)'
    BY NothingDrawn, SaverStays DEF written
  <2>2. \A q \in Savers : save'[q] = save[q] \/ save'[q] = s
    BY <1>1 DEF FilmsInv, FilmsTyped
  <2> QED BY <2>1, <2>2, NothingDrawn, SaversStay DEF written
<1> QED BY <1>2, <1>3, <1>4, <1>5 DEF FilmsInv

LEMMA ReceiveSaveStep ==
  ASSUME FilmsInv, NEW p \in Savers, ReceiveSave(p)
  PROVE  FilmsInv'
<1>1. PICK url \in (Given \cup {film.url}) \ {NoKey},
           cover \in {film.cover, NoKey} \cup Given :
        LET s == [pc |-> "save", read |-> [url |-> film.url, cover |-> film.cover],
                  url |-> url, cover |-> cover]
        IN SaveGoesOn(p, [s EXCEPT !.pc = BeforeSave(s)])
  BY DEF ReceiveSave
<1> DEFINE s0 == [pc |-> "save", read |-> [url |-> film.url, cover |-> film.cover],
                  url |-> url, cover |-> cover]
           s == [s0 EXCEPT !.pc = BeforeSave(s0)]
<1>2. s = [pc |-> BeforeSave(s0), read |-> [url |-> film.url, cover |-> film.cover],
           url |-> url, cover |-> cover]
  OBVIOUS
<1>3. Given = FilesOfClients /\ Given \subseteq Drawn /\ Given \subseteq Keys
  BY DEF FilmsInv, FilmsTyped, Uses, Given, FilesOfClients, Drawn
<1>4. url \in FilesOfClients /\ url \in Keys
  <2>1. film.life = "none" => film.url = NoKey
    BY DEF FilmsInv, FilmStored, NoFilm
  <2>2. film.life \in {"none", "stored"}
    BY DEF FilmsInv, FilmsTyped
  <2> QED BY <1>3, <2>1, <2>2 DEF FilmsInv, FilmStored
<1>5. cover \in AnyKey /\ film.url \in AnyKey /\ film.cover \in AnyKey
  BY <1>3 DEF FilmsInv, FilmsTyped, AnyKey
<1>6. /\ BeforeSave(s0) \in {"download", "save"}
      /\ BeforeSave(s0) = "download" => url # film.url /\ cover = NoKey
      /\ BeforeSave(s0) = "save" /\ medium = "video" => url = film.url \/ cover # NoKey
  BY DEF BeforeSave, UrlModified
<1> HIDE DEF s0
<1>7. s \in Saving
  BY <1>2, <1>4, <1>5, <1>6 DEF Saving
<1>8. SaverKnows(s)
  <2>1. film.url = NoKey => film.cover = NoKey
    BY DEF FilmsInv, FilmStored, FilmsTyped, NoFilm, FilesOfClients, Keys, NoKey
  <2>2. film.url # NoKey => film.life = "stored"
    BY DEF FilmsInv, FilmStored, FilmsTyped, NoFilm
  <2>3. cover = NoKey \/ cover \in Drawn
    BY <1>3 DEF FilmsInv, FilmStored
  <2>4. url # NoKey /\ NoKey \notin Drawn
    BY DEF Drawn, Keys, NoKey
  <2>5. /\ s.pc = BeforeSave(s0) /\ s.url = url /\ s.cover = cover
        /\ s.read.url = film.url /\ s.read.cover = film.cover
    BY <1>2
  <2> HIDE DEF s
  <2> QED BY <1>3, <1>4, <1>6, <2>1, <2>2, <2>3, <2>4, <2>5 DEF SaverKnows, UrlModified
<1>9. SaveGoesOn(p, s)
  BY <1>1 DEF s0
<1> HIDE DEF s
<1> QED BY <1>7, <1>8, <1>9, SaveGoing DEF ReceiveSave

LEMMA DownloadStep ==
  ASSUME FilmsInv, NEW p \in Savers, DownloadFile(p)
  PROVE  FilmsInv'
<1> DEFINE s == save[p]
           t == [s EXCEPT !.pc = "upload"]
<1>1. s \in Saving /\ s.pc = "download"
  BY DEF FilmsInv, FilmsTyped, DownloadFile, AtSave, NoSave
<1>2. SaverKnows(s)
  BY <1>1 DEF FilmsInv, SaversKnow, NoSave
<1>3. CASE object[s.url] = NoObject
  BY <1>3, SaveEnding DEF DownloadFile
<1>4. CASE object[s.url] # NoObject
  <2>1. t \in Saving /\ t.pc = "upload" /\ t.url = s.url /\ t.cover = s.cover
          /\ t.read = s.read
    BY <1>1 DEF Saving
  <2>2. object[s.url] = File
    BY <1>1, <1>2, <1>4 DEF FilmsInv, FramesAreCovers, SaverKnows, Saving, FilesOfClients
  <2> HIDE DEF t
  <2>3. SaverKnows(t)
    BY <1>1, <1>2, <2>1, <2>2 DEF SaverKnows, UrlModified
  <2>4. SaveGoesOn(p, t)
    BY <1>4 DEF DownloadFile, t
  <2> QED BY <2>1, <2>3, <2>4, SaveGoing DEF DownloadFile
<1> QED BY <1>3, <1>4

(* The frame becomes an object of its own, which the request knows.        *)
LEMMA UploadFileStep ==
  ASSUME FilmsInv, NEW p \in Savers, UploadFile(p)
  PROVE  FilmsInv'
<1>1. PICK s \in Saving : s = save[p] /\ s.pc = "upload"
  BY DEF FilmsInv, FilmsTyped, UploadFile, AtSave, NoSave
<1>2. SaverKnows(s)
  BY <1>1 DEF FilmsInv, SaversKnow, NoSave
<1>3. PICK k \in Keys :
        /\ ExtractCover(k, s.url)
        /\ SaveGoesOn(p, [s EXCEPT !.pc = "save", !.cover = k])
  BY <1>1 DEF UploadFile
<1>4. PICK t \in Saving :
        /\ t = [s EXCEPT !.pc = "save", !.cover = k]
        /\ t.pc = "save" /\ t.cover = k /\ t.url = s.url /\ t.read = s.read
  <2> DEFINE t == [s EXCEPT !.pc = "save", !.cover = k]
  <2>1. /\ t \in Saving
        /\ t.pc = "save" /\ t.cover = k /\ t.url = s.url /\ t.read = s.read
    BY <1>1 DEF Saving, AnyKey
  <2> QED BY <2>1
<1>5. save' = [save EXCEPT ![p] = t]
  BY <1>1, <1>3, <1>4 DEF SaveGoesOn
<1>6. /\ place[k] = "free" /\ object' = [object EXCEPT ![k] = Frame(s.url)]
      /\ place' = [place EXCEPT ![k] = "cover"]
      /\ s.url \in Keys /\ object[s.url] = File /\ s.url # k
  BY <1>1, <1>2, <1>3 DEF ExtractCover, GenerateKey, SaverKnows, Saving, FilesOfClients
<1>7. UNCHANGED <<medium, film, urls, cleared>>
  BY DEF UploadFile, written
<1>8. FilmsTyped'
  BY <1>4, <1>5, <1>6, <1>7 DEF FilmsInv, FilmsTyped, Uses
<1>9. FramesAreCovers'
  BY <1>6 DEF FilmsInv, FilmsTyped, FramesAreCovers
<1>10. BucketGrows
  BY <1>6 DEF FilmsInv, FilmsTyped, FramesAreCovers, BucketGrows, FilesOfClients, Drawn
<1>11. SaverKnows(t)'
  <2>1. IsFrameOf(k, s.url)'
    BY <1>6 DEF FilmsInv, FilmsTyped, IsFrameOf
  <2>2. s.url \in FilesOfClients' /\ k \in Drawn' /\ k # NoKey
    BY <1>2, <1>6, <1>10 DEF SaverKnows, BucketGrows, Drawn, FilmsInv, FilmsTyped, Keys,
                             NoKey
  <2>3. UrlModified(t)
    BY <1>1, <1>2, <1>4 DEF SaverKnows, UrlModified
  <2> QED BY <1>2, <1>4, <1>7, <2>1, <2>2, <2>3 DEF SaverKnows, UrlModified
<1>12. FilmStored' /\ CoverOfFilm'
  BY <1>7, <1>10, FilmStays
<1>13. SaversKnow'
  <2>1. \A q \in Savers : save'[q] = save[q] \/ save'[q] = t
    BY <1>5 DEF FilmsInv, FilmsTyped
  <2> QED BY <1>4, <1>7, <1>10, <1>11, <2>1, SaversStay
<1> QED BY <1>8, <1>9, <1>12, <1>13 DEF FilmsInv

(* The document becomes what one request knows, or keeps a cover that was  *)
(* right.                                                                  *)
LEMMA SaveFilmStep ==
  ASSUME FilmsInv, NEW p \in Savers, SaveFilm(p)
  PROVE  FilmsInv'
<1> DEFINE s == save[p]
<1>1. s \in Saving /\ s.pc = "save"
  BY DEF FilmsInv, FilmsTyped, SaveFilm, AtSave, NoSave
<1>2. SaverKnows(s)
  BY <1>1 DEF FilmsInv, SaversKnow, NoSave
<1>3. /\ UNCHANGED <<medium, object, place>>
      /\ save' = [save EXCEPT ![p] = NoSave]
      /\ urls' = urls \cup {film'.url}
      /\ cleared' = (cleared \/ (film'.cover = NoKey /\ s.read.url # NoKey))
  BY DEF SaveFilm, bucket, SaveEnds, SaveGoesOn
<1>4. s.url \in Keys /\ s.cover \in AnyKey /\ film.url \in AnyKey
        /\ film.publicUrl \in AnyKey /\ film.cover \in AnyKey
  BY <1>1 DEF Saving, FilmsInv, FilmsTyped
<1>5. /\ film' \in [life : {"none", "stored"}, url : AnyKey, publicUrl : AnyKey,
                   cover : AnyKey]
      /\ film'.life = "stored" /\ film'.publicUrl = film'.url
      /\ film'.url = s.url \/ (~UrlModified(s) /\ film'.url = film.url)
      /\ \/ s.read.url = NoKey /\ film'.cover = s.cover
         \/ /\ s.read.url # NoKey /\ film.life = "stored"
            /\ film'.cover = IF s.cover = s.read.cover THEN film.cover ELSE s.cover
  <2>1. CASE s.read.url = NoKey
    <3>1. film' = [life |-> "stored", url |-> s.url, publicUrl |-> s.url,
                   cover |-> s.cover]
      BY <2>1 DEF SaveFilm
    <3> QED BY <1>4, <2>1, <3>1 DEF AnyKey
  <2>2. CASE s.read.url # NoKey
    <3>1. film.life = "stored" /\ film.publicUrl = film.url
      BY <1>2, <2>2 DEF SaverKnows, FilmsInv, FilmStored
    <3> DEFINE c == IF s.cover = s.read.cover THEN film.cover ELSE s.cover
               covered == [film EXCEPT !.cover = c]
    <3>2. /\ covered \in [life : {"none", "stored"}, url : AnyKey, publicUrl : AnyKey,
                          cover : AnyKey]
          /\ covered.life = "stored" /\ covered.publicUrl = film.url
          /\ covered.url = film.url /\ covered.cover = c
      BY <1>4, <3>1 DEF FilmsInv, FilmsTyped
    <3>3. film' = IF UrlModified(s)
                  THEN [covered EXCEPT !.url = s.url, !.publicUrl = s.url]
                  ELSE covered
      BY <2>2 DEF SaveFilm
    <3> HIDE DEF c, covered
    <3>4. film'.cover = c
      BY <3>2, <3>3
    <3> QED BY <1>4, <2>2, <3>1, <3>2, <3>3, <3>4 DEF AnyKey, c
  <2> QED BY <2>1, <2>2
<1>6. film'.url \in FilesOfClients
  BY <1>2, <1>5 DEF SaverKnows, FilmsInv, FilmStored, UrlModified, FilesOfClients, Keys,
                    NoKey
<1>7. FilmsTyped'
  BY <1>3, <1>5, <1>6 DEF FilmsInv, FilmsTyped, FilesOfClients
<1>8. FramesAreCovers'
  BY <1>3 DEF FilmsInv, FramesAreCovers
<1>9. FilmStored'
  BY <1>2, <1>3, <1>5, <1>6 DEF FilmsInv, FilmStored, SaverKnows, FilesOfClients, Drawn
<1>10. CoverOfFilm'
  <2>1. ASSUME medium = "video", film'.cover = NoKey
        PROVE  cleared'
    BY <1>1, <1>2, <1>3, <1>5, <2>1 DEF SaverKnows, FilmsInv, CoverOfFilm
  <2>2. ASSUME film'.cover \in Drawn \ FilesOfClients
        PROVE  \E k \in urls' : IsFrameOf(film'.cover, k)
    <3>1. CASE film'.cover = film.cover
      BY <1>3, <2>2, <3>1 DEF FilmsInv, CoverOfFilm
    <3>2. CASE film'.cover # film.cover
      <4>1. film'.cover = s.cover /\ s.cover # s.read.cover
        <5>1. NoKey \notin Drawn
          BY DEF Drawn, Keys, NoKey
        <5> QED BY <1>2, <1>5, <2>2, <3>2, <5>1 DEF SaverKnows
      <4>2. UrlModified(s) /\ IsFrameOf(s.cover, s.url)
        BY <1>2, <2>2, <4>1 DEF SaverKnows
      <4> QED BY <1>3, <1>5, <4>1, <4>2
    <3> QED BY <3>1, <3>2
  <2> QED BY <1>3, <2>1, <2>2 DEF CoverOfFilm, IsFrameOf, Drawn, FilesOfClients
<1>11. SaversKnow'
  <2>1. \A q \in Savers : save'[q] \in {save[q], NoSave}
    BY <1>3 DEF FilmsInv, FilmsTyped
  <2>2. BucketGrows
    BY <1>3, NothingDrawn DEF BucketGrows, FilesOfClients, Drawn
  <2> QED BY <1>3, <1>5, <2>1, <2>2, SaversStay
<1> QED BY <1>7, <1>8, <1>9, <1>10, <1>11 DEF FilmsInv

LEMMA FilmsInvStep == FilmsInv /\ [UploadsNext]_uploadVars => FilmsInv'
<1> SUFFICES ASSUME FilmsInv, [UploadsNext]_uploadVars
             PROVE  FilmsInv'
  OBVIOUS
<1>1. CASE UploadController \/ PutObject
  BY <1>1, BucketSteps
<1>2. ASSUME NEW p \in Savers,
             ReceiveSave(p) \/ DownloadFile(p) \/ UploadFile(p) \/ SaveFilm(p)
               \/ CutSave(p)
      PROVE  FilmsInv'
  <2>1. CutSave(p) => FilmsInv'
    BY SaveEnding DEF CutSave
  <2> QED BY <1>2, <2>1, ReceiveSaveStep, DownloadStep, UploadFileStep, SaveFilmStep
<1>3. CASE UNCHANGED uploadVars
  BY <1>3 DEF uploadVars, bucket, written, FilmsInv, FilmsTyped, FramesAreCovers,
              FilmStored, CoverOfFilm, SaversKnow, SaverKnows, UrlModified, IsFrameOf,
              Drawn, FilesOfClients
<1> QED BY <1>1, <1>2, <1>3 DEF UploadsNext

LEMMA FilmsInvWhole == FilmsInv => FilmWhole
  BY DEF FilmsInv, FilmsTyped, FilmStored, CoverOfFilm, FilmWhole, FilesOfClients, Drawn,
         IsFrameOf, Keys, NoKey, AnyKey

(* A stored photo or video is whole, whatever overlaps or is cut: its urls *)
(* agree and name a file that a client asked a place for, and a cover that *)
(* the program made is a frame of a file that the video had as its url     *)
(* (video.controller.ts:422-431).                                          *)
THEOREM FilmWholeAlways == Spec => []FilmWhole
<1>1. Init => FilmsInv
  BY FilmsInvInit DEF Init
<1>2. FilmsInv /\ [Next]_vars => FilmsInv'
  BY FilmsInvStep DEF Next, vars, ContentsRun, FavoritesRun, ReviewsRun, MigrationsRun,
                      UploadsRun
<1> QED BY <1>1, <1>2, FilmsInvWhole, PTL DEF Spec

-----------------------------------------------------------------------------
(* Migrations                                                              *)

VideoShape == [viewCounter : Int, commentCounter : Int, viewsCounter : Int,
               commentsCounter : Int]
AlbumShape == [viewCounter : Int, photoCounter : Int, viewsCounter : Int,
               photosCounter : Int]
PhotoShape == [viewsCounter : Int]
ChatShape == [chatType : Int]
PersonShape == [prices : Int, subscriptions : Int, viewsCounter : Int,
                subscriptionsCounter : Int, balance : Int]

DocsTyped ==
  /\ docs = [d \in Documents |-> docs[d]]
  /\ \A d \in OldVideos : docs[d] \in VideoShape
  /\ \A d \in OldAlbums : docs[d] \in AlbumShape
  /\ \A d \in OldPhotos : docs[d] \in PhotoShape
  /\ \A d \in OldChats : docs[d] \in ChatShape
  /\ \A d \in OldUsers : docs[d] \in PersonShape

(* The runner works upwards on the migration after the position, and       *)
(* downwards on that of the position.                                      *)
Working == [pc : {"change", "save"}, way : {"up", "down"}, at : 1 .. Last,
            todo : SUBSET Documents]
RunnerTyped ==
  /\ pos \in 0 .. Last
  /\ cutDown \subseteq 1 .. Last
  /\ runner # Off =>
       /\ runner \in Working
       /\ runner.at = Following(runner.way, pos)
       /\ runner.todo \subseteq Targets(runner.at)
       /\ runner.pc = "save" => runner.todo = {}

(* What each migration leaves in a document: upwards (the third may stop   *)
(* after one) and downwards.                                               *)
Good(k, doc) ==
  /\ k = 4 => Has(doc, "chatType")
  /\ k = 5 => ~Has(doc, "viewCounter") /\ ~Has(doc, "commentCounter")
  /\ k = 6 => Has(doc, "viewsCounter")
  /\ k = 7 => Has(doc, "viewsCounter")
  /\ k = 8 => Has(doc, "commentsCounter")
  /\ k = 9 => ~Has(doc, "viewCounter") /\ ~Has(doc, "photoCounter")
  /\ k = 10 => Has(doc, "viewsCounter")
  /\ k = 12 => Has(doc, "viewsCounter")
  /\ k = 13 => doc.subscriptionsCounter = doc.subscriptions
  /\ k = 14 => Has(doc, "balance")
  /\ k = 15 => doc.balance > 0

Reverted(k, doc) ==
  /\ k = 5 => ~Has(doc, "viewsCounter") /\ ~Has(doc, "commentsCounter")
  /\ k = 9 => ~Has(doc, "viewsCounter") /\ ~Has(doc, "photosCounter")

Changed(way, k, doc) == IF way = "up" THEN Good(k, doc) ELSE Reverted(k, doc)

(* The documents that are no longer to do are changed; the base is last.   *)
Progress ==
  runner # Off =>
    /\ \A d \in Targets(runner.at) \ runner.todo :
         Changed(runner.way, runner.at, docs[d])
    /\ runner.pc = "save" /\ runner.way = "up" => Created(runner.at) \subseteq base

(* The migrations up to the position hold; but those with a way down only  *)
(* while the way down was not begun.                                       *)
GoingDown(k) == runner # Off /\ runner.way = "down" /\ runner.at = k
InDoubt(k) == k \in {1, 2, 5, 9} /\ (k \in cutDown \/ GoingDown(k))
Reached(k) == Created(k) \subseteq base /\ \A d \in Targets(k) : Good(k, docs[d])
Kept == \A k \in 1 .. pos : InDoubt(k) \/ Reached(k)

(* No document has a counter under both names, unless the way down of the  *)
(* migration that renames it was cut short.                                *)
NameChanges == {<<"viewsCounter", "viewCounter">>, <<"commentsCounter", "commentCounter">>,
                <<"photosCounter", "photoCounter">>}
Single(doc) == \A names \in NameChanges : ~(Has(doc, names[1]) /\ Has(doc, names[2]))
NamedOnce == \A k \in {5, 9} \ cutDown : \A d \in Targets(k) : Single(docs[d])

MigrationsInv == DocsTyped /\ RunnerTyped /\ Progress /\ Kept /\ NamedOnce

(* Nothing that was counted is lost.                                       *)
Keeps(doc, new) ==
  /\ \A names \in NameChanges :
       Counter(doc, names) # Absent => Counter(new, names) = Counter(doc, names)
  /\ Value(doc, "balance") > 0 => new.balance = doc.balance

-----------------------------------------------------------------------------
(* What is said of a document, in its fields                               *)

LEMMA VideoFields ==
  ASSUME NEW doc \in VideoShape
  PROVE  /\ Value(doc, "viewCounter") = doc.viewCounter
         /\ Value(doc, "commentCounter") = doc.commentCounter
         /\ Value(doc, "viewsCounter") = doc.viewsCounter
         /\ Value(doc, "commentsCounter") = doc.commentsCounter
         /\ Value(doc, "photoCounter") = Absent /\ Value(doc, "photosCounter") = Absent
         /\ Value(doc, "balance") = Absent
  BY DEF VideoShape, Value

LEMMA AlbumFields ==
  ASSUME NEW doc \in AlbumShape
  PROVE  /\ Value(doc, "viewCounter") = doc.viewCounter
         /\ Value(doc, "photoCounter") = doc.photoCounter
         /\ Value(doc, "viewsCounter") = doc.viewsCounter
         /\ Value(doc, "photosCounter") = doc.photosCounter
         /\ Value(doc, "commentCounter") = Absent
         /\ Value(doc, "commentsCounter") = Absent
         /\ Value(doc, "balance") = Absent
  BY DEF AlbumShape, Value

LEMMA OtherFields ==
  /\ \A doc \in PhotoShape :
       /\ Value(doc, "viewsCounter") = doc.viewsCounter
       /\ \A f \in {"viewCounter", "commentsCounter", "commentCounter", "photosCounter",
                    "photoCounter", "balance"} : Value(doc, f) = Absent
  /\ \A doc \in ChatShape :
       /\ Value(doc, "chatType") = doc.chatType
       /\ \A f \in {"viewsCounter", "viewCounter", "commentsCounter", "commentCounter",
                    "photosCounter", "photoCounter", "balance"} : Value(doc, f) = Absent
  /\ \A doc \in PersonShape :
       /\ Value(doc, "prices") = doc.prices
       /\ Value(doc, "viewsCounter") = doc.viewsCounter
       /\ Value(doc, "subscriptionsCounter") = doc.subscriptionsCounter
       /\ Value(doc, "balance") = doc.balance
       /\ \A f \in {"viewCounter", "commentsCounter", "commentCounter", "photosCounter",
                    "photoCounter"} : Value(doc, f) = Absent
  BY DEF PhotoShape, ChatShape, PersonShape, Value

(* The pairs of names, one by one.                                         *)
LEMMA NamesSpelled ==
  ASSUME NEW doc
  PROVE  /\ Single(doc) <=>
              /\ ~(Has(doc, "viewsCounter") /\ Has(doc, "viewCounter"))
              /\ ~(Has(doc, "commentsCounter") /\ Has(doc, "commentCounter"))
              /\ ~(Has(doc, "photosCounter") /\ Has(doc, "photoCounter"))
         /\ \A new, old : Counter(doc, <<new, old>>) =
              IF Has(doc, new) THEN doc[new] ELSE Value(doc, old)
  BY DEF Single, NameChanges, Counter

LEMMA UpSpelled ==
  ASSUME NEW doc
  PROVE  /\ Up(3, doc) = FillPrices(doc)
         /\ Up(4, doc) = FillChatType(doc)
         /\ Up(5, doc) = RenameVideoCounters(doc)
         /\ Up(6, doc) = FillPhotoViews(doc)
         /\ Up(7, doc) = FillVideoViews(doc)
         /\ Up(8, doc) = FillVideoComments(doc)
         /\ Up(9, doc) = RenameAlbumCounters(doc)
         /\ Up(10, doc) = FillAlbumViews(doc)
         /\ Up(11, doc) = FillSubscriptions(doc)
         /\ Up(12, doc) = FillUserViews(doc)
         /\ Up(13, doc) = RefillSubscriptions(doc)
         /\ Up(14, doc) = FillBalance(doc)
         /\ Up(15, doc) = FillBalanceWith1000(doc)
         /\ Down(5, doc) = RestoreVideoCounters(doc)
         /\ Down(9, doc) = RestoreAlbumCounters(doc)
         /\ \A k \in (1 .. Last) \ {5, 9} : Down(k, doc) = doc
  BY DEF Up, Down, Last

LEMMA TargetsSpelled ==
  /\ Targets(1) = {} /\ Targets(2) = {}
  /\ Targets(4) = OldChats /\ Targets(6) = OldPhotos
  /\ \A k \in {5, 7, 8} : Targets(k) = OldVideos
  /\ \A k \in {9, 10} : Targets(k) = OldAlbums
  /\ \A k \in {3, 11, 12, 13, 14, 15} : Targets(k) = OldUsers
  BY DEF Targets

-----------------------------------------------------------------------------
(* What a migration does to a document                                     *)

(* Renaming: the old name is gone, or, on the way down, the new one.       *)
LEMMA VideoRenamed ==
  ASSUME NEW doc \in VideoShape, NEW r, r = RenameVideoCounters(doc)
  PROVE  /\ r \in VideoShape
         /\ r.viewCounter = Absent /\ r.commentCounter = Absent
         /\ r.viewsCounter = IF doc.viewCounter = Absent THEN doc.viewsCounter
                                                         ELSE doc.viewCounter
         /\ r.commentsCounter = IF doc.commentCounter = Absent THEN doc.commentsCounter
                                                               ELSE doc.commentCounter
  BY DEF VideoShape, RenameVideoCounters, Rename, Has, Value, Absent

LEMMA VideoRestored ==
  ASSUME NEW doc \in VideoShape, NEW r, r = RestoreVideoCounters(doc)
  PROVE  /\ r \in VideoShape
         /\ r.viewsCounter = Absent /\ r.commentsCounter = Absent
         /\ r.viewCounter = IF doc.viewsCounter = Absent THEN doc.viewCounter
                                                         ELSE doc.viewsCounter
         /\ r.commentCounter = IF doc.commentsCounter = Absent THEN doc.commentCounter
                                                               ELSE doc.commentsCounter
  BY DEF VideoShape, RestoreVideoCounters, Rename, Has, Value, Absent

LEMMA AlbumRenamed ==
  ASSUME NEW doc \in AlbumShape, NEW r, r = RenameAlbumCounters(doc)
  PROVE  /\ r \in AlbumShape
         /\ r.viewCounter = Absent /\ r.photoCounter = Absent
         /\ r.viewsCounter = IF doc.viewCounter = Absent THEN doc.viewsCounter
                                                         ELSE doc.viewCounter
         /\ r.photosCounter = IF doc.photoCounter = Absent THEN doc.photosCounter
                                                           ELSE doc.photoCounter
  BY DEF AlbumShape, RenameAlbumCounters, Rename, Has, Value, Absent

LEMMA AlbumRestored ==
  ASSUME NEW doc \in AlbumShape, NEW r, r = RestoreAlbumCounters(doc)
  PROVE  /\ r \in AlbumShape
         /\ r.viewsCounter = Absent /\ r.photosCounter = Absent
         /\ r.viewCounter = IF doc.viewsCounter = Absent THEN doc.viewCounter
                                                         ELSE doc.viewsCounter
         /\ r.photoCounter = IF doc.photosCounter = Absent THEN doc.photoCounter
                                                           ELSE doc.photosCounter
  BY DEF AlbumShape, RestoreAlbumCounters, Rename, Has, Value, Absent

(* A way up leaves a document as the migration promises and keeps what     *)
(* earlier ones promised; nothing is lost if the renaming was of documents *)
(* with one name for a counter, or is over.                                *)
LEMMA VideoUp ==
  ASSUME NEW doc \in VideoShape, NEW k \in {5, 7, 8}, NEW r, r = Up(k, doc)
  PROVE  /\ r \in VideoShape
         /\ Good(k, r)
         /\ \A j \in {5, 7, 8} : j < k /\ Good(j, doc) => Good(j, r)
         /\ k = 5 \/ Good(5, doc) => Single(r)
         /\ (k = 5 /\ Single(doc)) \/ (k # 5 /\ Good(5, doc)) => Keeps(doc, r)
<1> DEFINE v == r.viewsCounter
           c == r.commentsCounter
<1>1. /\ r \in VideoShape
      /\ k = 5 => /\ r.viewCounter = Absent /\ r.commentCounter = Absent
                  /\ v = IF doc.viewCounter = Absent THEN doc.viewsCounter
                                                     ELSE doc.viewCounter
                  /\ c = IF doc.commentCounter = Absent THEN doc.commentsCounter
                                                        ELSE doc.commentCounter
      /\ k # 5 => r.viewCounter = doc.viewCounter /\ r.commentCounter = doc.commentCounter
      /\ k = 7 => /\ v = IF doc.viewsCounter = Absent THEN 0 ELSE doc.viewsCounter
                  /\ c = doc.commentsCounter
      /\ k = 8 => /\ v = doc.viewsCounter
                  /\ c = IF doc.commentsCounter = Absent THEN 0 ELSE doc.commentsCounter
  <2>1. CASE k = 5
    BY <2>1, UpSpelled, VideoRenamed
  <2>2. CASE k = 7
    <3>1. r = Fill(doc, "viewsCounter", 0)
      BY <2>2, UpSpelled DEF FillVideoViews
    <3> QED BY <2>2, <3>1, VideoFields DEF Fill, Has, VideoShape
  <2>3. CASE k = 8
    <3>1. r = Fill(doc, "commentsCounter", 0)
      BY <2>3, UpSpelled DEF FillVideoComments
    <3> QED BY <2>3, <3>1, VideoFields DEF Fill, Has, VideoShape
  <2> QED BY <2>1, <2>2, <2>3
<1>2. doc.viewsCounter \in Int /\ doc.commentsCounter \in Int /\ doc.viewCounter \in Int
        /\ doc.commentCounter \in Int
  BY DEF VideoShape
<1>3. \A x \in VideoShape :
        /\ Has(x, "viewCounter") <=> x.viewCounter # Absent
        /\ Has(x, "commentCounter") <=> x.commentCounter # Absent
        /\ Has(x, "viewsCounter") <=> x.viewsCounter # Absent
        /\ Has(x, "commentsCounter") <=> x.commentsCounter # Absent
        /\ ~Has(x, "photoCounter") /\ ~Has(x, "photosCounter")
  BY VideoFields DEF Has
<1>4. Good(k, r)
  BY <1>1, <1>3 DEF Good, Absent
<1>5. \A j \in {5, 7, 8} : j < k /\ Good(j, doc) => Good(j, r)
  BY <1>1, <1>3 DEF Good
<1>6. k = 5 \/ Good(5, doc) => Single(r)
  BY <1>1, <1>3, NamesSpelled DEF Good
<1>7. ASSUME (k = 5 /\ Single(doc)) \/ (k # 5 /\ Good(5, doc))
      PROVE  Keeps(doc, r)
  <2>1. Single(doc)
    BY <1>3, <1>7, NamesSpelled DEF Good
  <2>2. /\ ~(doc.viewsCounter # Absent /\ doc.viewCounter # Absent)
        /\ ~(doc.commentsCounter # Absent /\ doc.commentCounter # Absent)
    BY <1>3, <2>1, NamesSpelled
  <2>3. \A names \in NameChanges : Counter(doc, names) # Absent
          => Counter(r, names) = Counter(doc, names)
    <3>1. /\ Counter(doc, <<"viewsCounter", "viewCounter">>)
               = IF doc.viewsCounter # Absent THEN doc.viewsCounter ELSE doc.viewCounter
          /\ Counter(doc, <<"commentsCounter", "commentCounter">>)
               = IF doc.commentsCounter # Absent THEN doc.commentsCounter
                                                 ELSE doc.commentCounter
          /\ Counter(doc, <<"photosCounter", "photoCounter">>) = Absent
      BY <1>3, VideoFields, NamesSpelled
    <3>2. /\ Counter(r, <<"viewsCounter", "viewCounter">>)
               = IF v # Absent THEN v ELSE r.viewCounter
          /\ Counter(r, <<"commentsCounter", "commentCounter">>)
               = IF c # Absent THEN c ELSE r.commentCounter
      BY <1>1, <1>3, VideoFields, NamesSpelled
    <3>3. k # 5 => doc.viewCounter = Absent /\ doc.commentCounter = Absent
      BY <1>3, <1>7 DEF Good
    <3> QED BY <1>1, <2>2, <3>1, <3>2, <3>3 DEF NameChanges
  <2>4. ~(Value(doc, "balance") > 0)
    BY VideoFields DEF Absent
  <2> QED BY <2>3, <2>4 DEF Keeps
<1> QED BY <1>1, <1>4, <1>5, <1>6, <1>7

LEMMA AlbumUp ==
  ASSUME NEW doc \in AlbumShape, NEW k \in {9, 10}, NEW r, r = Up(k, doc)
  PROVE  /\ r \in AlbumShape
         /\ Good(k, r)
         /\ k = 10 /\ Good(9, doc) => Good(9, r)
         /\ k = 9 \/ Good(9, doc) => Single(r)
         /\ (k = 9 /\ Single(doc)) \/ (k = 10 /\ Good(9, doc)) => Keeps(doc, r)
<1> DEFINE v == r.viewsCounter
           c == r.photosCounter
<1>1. /\ r \in AlbumShape
      /\ k = 9 => /\ r.viewCounter = Absent /\ r.photoCounter = Absent
                  /\ v = IF doc.viewCounter = Absent THEN doc.viewsCounter
                                                     ELSE doc.viewCounter
                  /\ c = IF doc.photoCounter = Absent THEN doc.photosCounter
                                                      ELSE doc.photoCounter
      /\ k = 10 => /\ r.viewCounter = doc.viewCounter /\ r.photoCounter = doc.photoCounter
                   /\ v = IF doc.viewsCounter = Absent THEN 0 ELSE doc.viewsCounter
                   /\ c = doc.photosCounter
  <2>1. CASE k = 9
    BY <2>1, UpSpelled, AlbumRenamed
  <2>2. CASE k = 10
    <3>1. r = Fill(doc, "viewsCounter", 0)
      BY <2>2, UpSpelled DEF FillAlbumViews
    <3> QED BY <2>2, <3>1, AlbumFields DEF Fill, Has, AlbumShape
  <2> QED BY <2>1, <2>2
<1>2. \A x \in AlbumShape :
        /\ Has(x, "viewCounter") <=> x.viewCounter # Absent
        /\ Has(x, "photoCounter") <=> x.photoCounter # Absent
        /\ Has(x, "viewsCounter") <=> x.viewsCounter # Absent
        /\ Has(x, "photosCounter") <=> x.photosCounter # Absent
        /\ ~Has(x, "commentCounter") /\ ~Has(x, "commentsCounter")
  BY AlbumFields DEF Has
<1>3. Good(k, r)
  BY <1>1, <1>2 DEF Good, Absent
<1>4. k = 10 /\ Good(9, doc) => Good(9, r)
  BY <1>1, <1>2 DEF Good
<1>5. k = 9 \/ Good(9, doc) => Single(r)
  BY <1>1, <1>2, NamesSpelled DEF Good
<1>6. ASSUME (k = 9 /\ Single(doc)) \/ (k = 10 /\ Good(9, doc))
      PROVE  Keeps(doc, r)
  <2>1. Single(doc)
    BY <1>2, <1>6, NamesSpelled DEF Good
  <2>2. /\ ~(doc.viewsCounter # Absent /\ doc.viewCounter # Absent)
        /\ ~(doc.photosCounter # Absent /\ doc.photoCounter # Absent)
    BY <1>2, <2>1, NamesSpelled
  <2>3. \A names \in NameChanges : Counter(doc, names) # Absent
          => Counter(r, names) = Counter(doc, names)
    <3>1. /\ Counter(doc, <<"viewsCounter", "viewCounter">>)
               = IF doc.viewsCounter # Absent THEN doc.viewsCounter ELSE doc.viewCounter
          /\ Counter(doc, <<"photosCounter", "photoCounter">>)
               = IF doc.photosCounter # Absent THEN doc.photosCounter ELSE doc.photoCounter
          /\ Counter(doc, <<"commentsCounter", "commentCounter">>) = Absent
      BY <1>2, AlbumFields, NamesSpelled
    <3>2. /\ Counter(r, <<"viewsCounter", "viewCounter">>)
               = IF v # Absent THEN v ELSE r.viewCounter
          /\ Counter(r, <<"photosCounter", "photoCounter">>)
               = IF c # Absent THEN c ELSE r.photoCounter
      BY <1>1, <1>2, AlbumFields, NamesSpelled
    <3>3. k = 10 => doc.viewCounter = Absent /\ doc.photoCounter = Absent
      BY <1>2, <1>6 DEF Good
    <3> QED BY <1>1, <2>2, <3>1, <3>2, <3>3 DEF NameChanges
  <2>4. ~(Value(doc, "balance") > 0)
    BY AlbumFields DEF Absent
  <2> QED BY <2>3, <2>4 DEF Keeps
<1> QED BY <1>1, <1>3, <1>4, <1>5, <1>6

(* Photos and chats are filled by one migration each.                      *)
LEMMA PhotoUp ==
  ASSUME NEW doc \in PhotoShape, NEW r, r = Up(6, doc)
  PROVE  r \in PhotoShape /\ Good(6, r) /\ Keeps(doc, r)
<1>1. r = Fill(doc, "viewsCounter", 0)
  BY UpSpelled DEF FillPhotoViews
<1>2. /\ r \in PhotoShape
      /\ r.viewsCounter = IF doc.viewsCounter = Absent THEN 0 ELSE doc.viewsCounter
  BY <1>1, OtherFields DEF Fill, Has, PhotoShape
<1>3. Good(6, r)
  BY <1>2, OtherFields DEF Good, Has, Absent
<1>4. \A x \in PhotoShape : \A names \in NameChanges : Counter(x, names)
        = IF names[1] = "viewsCounter" THEN x.viewsCounter ELSE Absent
  BY OtherFields DEF NameChanges, Counter, Has
<1>5. ~(Value(doc, "balance") > 0)
  BY OtherFields DEF Absent
<1> QED BY <1>2, <1>3, <1>4, <1>5 DEF Keeps

LEMMA ChatUp ==
  ASSUME NEW doc \in ChatShape, NEW r, r = Up(4, doc)
  PROVE  r \in ChatShape /\ Good(4, r) /\ Keeps(doc, r)
<1>1. r = Fill(doc, "chatType", 1)
  BY UpSpelled DEF FillChatType
<1>2. /\ r \in ChatShape
      /\ r.chatType = IF doc.chatType = Absent THEN 1 ELSE doc.chatType
  BY <1>1, OtherFields DEF Fill, Has, ChatShape
<1>3. Good(4, r)
  BY <1>2, OtherFields DEF Good, Has, Absent
<1>4. \A names \in NameChanges : Counter(doc, names) = Absent
  BY OtherFields DEF NameChanges, Counter, Has
<1>5. ~(Value(doc, "balance") > 0)
  BY OtherFields DEF Absent
<1> QED BY <1>2, <1>3, <1>4, <1>5 DEF Keeps

LEMMA PersonUp ==
  ASSUME NEW doc \in PersonShape, NEW k \in {3, 11, 12, 13, 14, 15}, NEW r, r = Up(k, doc),
         k = 15 => Good(14, doc)
  PROVE  /\ r \in PersonShape
         /\ Good(k, r)
         /\ \A j \in {3, 11, 12, 13, 14, 15} : j < k /\ Good(j, doc) => Good(j, r)
         /\ Keeps(doc, r)
<1> DEFINE n == doc.subscriptions
<1>1. /\ doc.viewsCounter \in Int /\ doc.balance \in Int /\ n \in Int
      /\ doc.subscriptionsCounter \in Int /\ doc.prices \in Int
  BY DEF PersonShape
<1>2. /\ r \in PersonShape
      /\ r.subscriptions = n
      /\ r.viewsCounter = IF k = 12 /\ doc.viewsCounter = Absent THEN 0
                                                                 ELSE doc.viewsCounter
      /\ r.balance = IF k = 14 /\ doc.balance = Absent THEN 0
                     ELSE IF k = 15 /\ doc.balance <= 0 THEN 1000 ELSE doc.balance
      /\ k = 13 => r.subscriptionsCounter = n
      /\ k > 13 => r.subscriptionsCounter = doc.subscriptionsCounter
  <2>1. CASE k = 3
    <3>1. r = Fill(doc, "prices", 1)
      BY <2>1, UpSpelled DEF FillPrices
    <3> QED BY <2>1, <3>1, OtherFields DEF Fill, Has, PersonShape
  <2>2. CASE k = 11
    <3>1. r = Fill(doc, "subscriptionsCounter", n)
      BY <2>2, UpSpelled DEF FillSubscriptions
    <3> QED BY <2>2, <3>1, OtherFields DEF Fill, Has, PersonShape
  <2>3. CASE k = 12
    <3>1. r = Fill(doc, "viewsCounter", 0)
      BY <2>3, UpSpelled DEF FillUserViews
    <3> QED BY <2>3, <3>1, OtherFields DEF Fill, Has, PersonShape
  <2>4. CASE k = 13
    BY <2>4, UpSpelled DEF RefillSubscriptions, PersonShape
  <2>5. CASE k = 14
    <3>1. r = Fill(doc, "balance", 0)
      BY <2>5, UpSpelled DEF FillBalance
    <3> QED BY <2>5, <3>1, OtherFields DEF Fill, Has, PersonShape
  <2>6. CASE k = 15
    <3>1. Has(doc, "balance")
      BY <2>6 DEF Good
    <3>2. r = IF doc.balance <= 0 THEN [doc EXCEPT !.balance = 1000] ELSE doc
      BY <2>6, <3>1, UpSpelled DEF FillBalanceWith1000
    <3> QED BY <1>1, <2>6, <3>2 DEF PersonShape
  <2> QED BY <2>1, <2>2, <2>3, <2>4, <2>5, <2>6
<1>3. \A x \in PersonShape :
        /\ Has(x, "viewsCounter") <=> x.viewsCounter # Absent
        /\ Has(x, "balance") <=> x.balance # Absent
  BY OtherFields DEF Has
<1>4. Good(k, r)
  BY <1>1, <1>2, <1>3 DEF Good, Absent
<1>5. \A j \in {3, 11, 12, 13, 14, 15} : j < k /\ Good(j, doc) => Good(j, r)
  BY <1>1, <1>2, <1>3 DEF Good, Absent
<1>6. Keeps(doc, r)
  <2>1. \A x \in PersonShape : \A names \in NameChanges : Counter(x, names)
          = IF names[1] = "viewsCounter" THEN x.viewsCounter ELSE Absent
    BY OtherFields DEF NameChanges, Counter, Has
  <2>2. Value(doc, "balance") > 0 => r.balance = doc.balance
    BY <1>1, <1>2, OtherFields DEF Absent
  <2> QED BY <1>2, <2>1, <2>2 DEF Keeps
<1> QED BY <1>2, <1>4, <1>5, <1>6

(* A way down gives the counters of one kind their old names.              *)
LEMMA VideoDown ==
  ASSUME NEW doc \in VideoShape, NEW r, r = Down(5, doc)
  PROVE  r \in VideoShape /\ Reverted(5, r) /\ Single(r) /\ Keeps(doc, r)
<1>1. /\ r \in VideoShape
      /\ r.viewsCounter = Absent /\ r.commentsCounter = Absent
      /\ r.viewCounter = IF doc.viewsCounter = Absent THEN doc.viewCounter
                                                      ELSE doc.viewsCounter
      /\ r.commentCounter = IF doc.commentsCounter = Absent THEN doc.commentCounter
                                                            ELSE doc.commentsCounter
  BY UpSpelled, VideoRestored
<1>2. \A x \in VideoShape :
        /\ Has(x, "viewCounter") <=> x.viewCounter # Absent
        /\ Has(x, "commentCounter") <=> x.commentCounter # Absent
        /\ Has(x, "viewsCounter") <=> x.viewsCounter # Absent
        /\ Has(x, "commentsCounter") <=> x.commentsCounter # Absent
        /\ ~Has(x, "photoCounter") /\ ~Has(x, "photosCounter")
  BY VideoFields DEF Has
<1>3. Reverted(5, r) /\ Single(r)
  BY <1>1, <1>2, NamesSpelled DEF Reverted
<1>4. Keeps(doc, r)
  <2>1. \A x \in VideoShape :
          /\ Counter(x, <<"viewsCounter", "viewCounter">>)
               = IF x.viewsCounter # Absent THEN x.viewsCounter ELSE x.viewCounter
          /\ Counter(x, <<"commentsCounter", "commentCounter">>)
               = IF x.commentsCounter # Absent THEN x.commentsCounter ELSE x.commentCounter
          /\ Counter(x, <<"photosCounter", "photoCounter">>) = Absent
    BY <1>2, VideoFields, NamesSpelled
  <2>2. ~(Value(doc, "balance") > 0)
    BY VideoFields DEF Absent
  <2> QED BY <1>1, <2>1, <2>2 DEF NameChanges, Keeps
<1> QED BY <1>1, <1>3, <1>4

LEMMA AlbumDown ==
  ASSUME NEW doc \in AlbumShape, NEW r, r = Down(9, doc)
  PROVE  r \in AlbumShape /\ Reverted(9, r) /\ Single(r) /\ Keeps(doc, r)
<1>1. /\ r \in AlbumShape
      /\ r.viewsCounter = Absent /\ r.photosCounter = Absent
      /\ r.viewCounter = IF doc.viewsCounter = Absent THEN doc.viewCounter
                                                      ELSE doc.viewsCounter
      /\ r.photoCounter = IF doc.photosCounter = Absent THEN doc.photoCounter
                                                        ELSE doc.photosCounter
  BY UpSpelled, AlbumRestored
<1>2. \A x \in AlbumShape :
        /\ Has(x, "viewCounter") <=> x.viewCounter # Absent
        /\ Has(x, "photoCounter") <=> x.photoCounter # Absent
        /\ Has(x, "viewsCounter") <=> x.viewsCounter # Absent
        /\ Has(x, "photosCounter") <=> x.photosCounter # Absent
        /\ ~Has(x, "commentCounter") /\ ~Has(x, "commentsCounter")
  BY AlbumFields DEF Has
<1>3. Reverted(9, r) /\ Single(r)
  BY <1>1, <1>2, NamesSpelled DEF Reverted
<1>4. Keeps(doc, r)
  <2>1. \A x \in AlbumShape :
          /\ Counter(x, <<"viewsCounter", "viewCounter">>)
               = IF x.viewsCounter # Absent THEN x.viewsCounter ELSE x.viewCounter
          /\ Counter(x, <<"photosCounter", "photoCounter">>)
               = IF x.photosCounter # Absent THEN x.photosCounter ELSE x.photoCounter
          /\ Counter(x, <<"commentsCounter", "commentCounter">>) = Absent
    BY <1>2, AlbumFields, NamesSpelled
  <2>2. ~(Value(doc, "balance") > 0)
    BY AlbumFields DEF Absent
  <2> QED BY <1>1, <2>1, <2>2 DEF NameChanges, Keeps
<1> QED BY <1>1, <1>3, <1>4

LEMMA KeepsSame == \A doc : Keeps(doc, doc)
  BY DEF Keeps, Counter, Value, Has

(* The document that is changed next, by the way the runner goes.          *)
LEMMA NextDocument ==
  ASSUME MigrationsInv, runner # Off, NEW d \in runner.todo, NEW r,
         r = IF runner.way = "up" THEN Up(runner.at, docs[d]) ELSE Down(runner.at, docs[d])
  PROVE  /\ d \in OldVideos => r \in VideoShape
         /\ d \in OldAlbums => r \in AlbumShape
         /\ d \in OldPhotos => r \in PhotoShape
         /\ d \in OldChats => r \in ChatShape
         /\ d \in OldUsers => r \in PersonShape
         /\ Changed(runner.way, runner.at, r)
         /\ \A j \in 1 .. pos :
              ~InDoubt(j) /\ d \in Targets(j) /\ Good(j, docs[d]) => Good(j, r)
         /\ \A j \in {5, 9} \ cutDown : d \in Targets(j) => Single(r)
         /\ cutDown = {} => Keeps(docs[d], r)
<1> DEFINE k == runner.at
           doc == docs[d]
<1>1. /\ k \in 1 .. 15 /\ d \in Targets(k)
      /\ pos \in 0 .. 15
      /\ runner.way \in {"up", "down"}
      /\ runner.way = "up" => k = pos + 1
      /\ runner.way = "down" => k = pos
  BY DEF MigrationsInv, RunnerTyped, Working, Following, Last
<1>2. \A j \in 1 .. pos : InDoubt(j) \/ \A x \in Targets(j) : Good(j, docs[x])
  BY DEF MigrationsInv, Kept, Reached
<1>3. \A j \in {5, 9} \ cutDown : d \in Targets(j) => Single(doc)
  BY DEF MigrationsInv, NamedOnce
<1>4. /\ d \in OldVideos => doc \in VideoShape
      /\ d \in OldAlbums => doc \in AlbumShape
      /\ d \in OldPhotos => doc \in PhotoShape
      /\ d \in OldChats => doc \in ChatShape
      /\ d \in OldUsers => doc \in PersonShape
  BY DEF MigrationsInv, DocsTyped
<1>5. /\ runner.way = "up" => r = Up(k, doc)
      /\ runner.way = "down" => r = Down(k, doc)
  BY <1>1
<1>6. runner.way = "up" => \A j : InDoubt(j) => j \in {1, 2, 5, 9} \cap cutDown
  BY DEF InDoubt, GoingDown
<1> HIDE DEF doc
<1>7. CASE runner.way = "down" /\ k \notin {5, 9}
  <2>1. r = doc
    BY <1>1, <1>5, <1>7, UpSpelled DEF Last
  <2>2. Changed(runner.way, k, r)
    BY <1>7 DEF Changed, Reverted
  <2> QED BY <1>3, <1>4, <2>1, <2>2, KeepsSame DEF doc
<1>8. CASE k \in {5, 7, 8}
  <2>1. /\ d \in OldVideos
        /\ d \notin OldAlbums /\ d \notin OldPhotos /\ d \notin OldChats /\ d \notin OldUsers
        /\ \A j \in 1 .. 15 : d \in Targets(j) => j \in {5, 7, 8}
    BY <1>1, <1>8, TargetsSpelled, DocumentsAssumption
  <2>2. ASSUME runner.way = "up"
        PROVE  /\ r \in VideoShape /\ Good(k, r)
               /\ \A j \in 1 .. pos : d \in Targets(j) /\ Good(j, doc) => Good(j, r)
               /\ 5 \notin cutDown => Single(r)
               /\ cutDown = {} => Keeps(doc, r)
    <3>1. k # 5 /\ 5 \notin cutDown => Good(5, doc)
      BY <1>1, <1>2, <1>6, <1>8, <2>1, <2>2, TargetsSpelled DEF doc
    <3>2. 5 \notin cutDown => Single(doc)
      BY <1>3, <2>1, TargetsSpelled
    <3> QED BY <1>1, <1>4, <1>5, <1>8, <2>1, <2>2, <3>1, <3>2, VideoUp
  <2>3. ASSUME runner.way = "down", k = 5
        PROVE  /\ r \in VideoShape /\ Reverted(k, r) /\ Single(r) /\ Keeps(doc, r)
               /\ \A j \in 1 .. pos : d \in Targets(j) => InDoubt(j)
    <3>1. InDoubt(5)
      BY <2>3 DEF InDoubt, GoingDown
    <3>2. \A j \in 1 .. pos : d \in Targets(j) => j = 5
      BY <1>1, <2>1, <2>3
    <3> QED BY <1>4, <1>5, <2>1, <2>3, <3>1, <3>2, VideoDown
  <2>4. d \notin Targets(9)
    BY <2>1
  <2> QED BY <1>1, <1>7, <1>8, <2>1, <2>2, <2>3, <2>4 DEF Changed, doc
<1>9. CASE k \in {9, 10}
  <2>1. /\ d \in OldAlbums
        /\ d \notin OldVideos /\ d \notin OldPhotos /\ d \notin OldChats /\ d \notin OldUsers
        /\ \A j \in 1 .. 15 : d \in Targets(j) => j \in {9, 10}
    BY <1>1, <1>9, TargetsSpelled, DocumentsAssumption
  <2>2. ASSUME runner.way = "up"
        PROVE  /\ r \in AlbumShape /\ Good(k, r)
               /\ \A j \in 1 .. pos : d \in Targets(j) /\ Good(j, doc) => Good(j, r)
               /\ 9 \notin cutDown => Single(r)
               /\ cutDown = {} => Keeps(doc, r)
    <3>1. k # 9 /\ 9 \notin cutDown => Good(9, doc)
      BY <1>1, <1>2, <1>6, <1>9, <2>1, <2>2, TargetsSpelled DEF doc
    <3>2. 9 \notin cutDown => Single(doc)
      BY <1>3, <2>1, TargetsSpelled
    <3> QED BY <1>1, <1>4, <1>5, <1>9, <2>1, <2>2, <3>1, <3>2, AlbumUp
  <2>3. ASSUME runner.way = "down", k = 9
        PROVE  /\ r \in AlbumShape /\ Reverted(k, r) /\ Single(r) /\ Keeps(doc, r)
               /\ \A j \in 1 .. pos : d \in Targets(j) => InDoubt(j)
    <3>1. InDoubt(9)
      BY <2>3 DEF InDoubt, GoingDown
    <3>2. \A j \in 1 .. pos : d \in Targets(j) => j = 9
      BY <1>1, <2>1, <2>3
    <3> QED BY <1>4, <1>5, <2>1, <2>3, <3>1, <3>2, AlbumDown
  <2>4. d \notin Targets(5)
    BY <2>1
  <2> QED BY <1>1, <1>7, <1>9, <2>1, <2>2, <2>3, <2>4 DEF Changed, doc
<1>10. CASE runner.way = "up" /\ k \in {4, 6}
  <2>1. /\ d \in IF k = 4 THEN OldChats ELSE OldPhotos
        /\ d \notin OldVideos /\ d \notin OldAlbums /\ d \notin OldUsers
        /\ d \in OldChats => d \notin OldPhotos
        /\ \A j \in 1 .. 15 : d \in Targets(j) => j = k
    BY <1>1, <1>10, TargetsSpelled, DocumentsAssumption
  <2>2. /\ d \in OldChats => r \in ChatShape
        /\ d \in OldPhotos => r \in PhotoShape
        /\ Good(k, r) /\ Keeps(doc, r)
    BY <1>4, <1>5, <1>10, <2>1, PhotoUp, ChatUp
  <2>3. \A j \in 1 .. pos : d \notin Targets(j)
    BY <1>1, <1>10, <2>1
  <2> QED BY <1>10, <2>1, <2>2, <2>3 DEF Changed, doc
<1>11. CASE runner.way = "up" /\ k \in {3, 11, 12, 13, 14, 15}
  <2>1. /\ d \in OldUsers
        /\ d \notin OldVideos /\ d \notin OldAlbums /\ d \notin OldPhotos /\ d \notin OldChats
        /\ \A j \in 1 .. 15 : d \in Targets(j) => j \in {3, 11, 12, 13, 14, 15}
    BY <1>1, <1>11, TargetsSpelled, DocumentsAssumption
  <2>2. k = 15 => Good(14, doc)
    BY <1>1, <1>2, <1>6, <1>11, <2>1, TargetsSpelled DEF doc
  <2>3. /\ r \in PersonShape /\ Good(k, r) /\ Keeps(doc, r)
        /\ \A j \in {3, 11, 12, 13, 14, 15} : j < k /\ Good(j, doc) => Good(j, r)
    BY <1>4, <1>5, <1>11, <2>1, <2>2, PersonUp
  <2>4. \A j \in 1 .. pos : d \in Targets(j) => j \in {3, 11, 12, 13, 14, 15} /\ j < k
    BY <1>1, <1>11, <2>1
  <2> QED BY <1>11, <2>1, <2>3, <2>4 DEF Changed, doc
<1>12. k \notin {1, 2}
  BY <1>1, TargetsSpelled
<1> QED BY <1>1, <1>7, <1>8, <1>9, <1>10, <1>11, <1>12

-----------------------------------------------------------------------------
(* The runner                                                              *)

LEMMA MigrationsInvInit == MigrationsInit => MigrationsInv
<1> SUFFICES ASSUME MigrationsInit
             PROVE  MigrationsInv
  OBVIOUS
<1>1. DocsTyped
  <2>1. PICK vs \in [OldVideos -> VideoDocs], as \in [OldAlbums -> AlbumDocs],
             ps \in [OldPhotos -> PhotoDocs], cs \in [OldChats -> ChatDocs],
             us \in [OldUsers -> PersonDocs] :
          docs = [d \in Documents |-> CASE d \in OldVideos -> vs[d]
                                        [] d \in OldAlbums -> as[d]
                                        [] d \in OldPhotos -> ps[d]
                                        [] d \in OldChats -> cs[d]
                                        [] d \in OldUsers -> us[d]]
    BY DEF MigrationsInit
  <2>2. /\ VideoDocs \subseteq VideoShape /\ AlbumDocs \subseteq AlbumShape
        /\ PhotoDocs \subseteq PhotoShape /\ ChatDocs \subseteq ChatShape
        /\ PersonDocs \subseteq PersonShape
    BY DEF VideoDocs, VideoShape, AlbumDocs, AlbumShape, PhotoDocs, PhotoShape, ChatDocs,
           ChatShape, PersonDocs, PersonShape, Old, Absent, Some
  <2>3. /\ \A d \in OldVideos : docs[d] = vs[d]
        /\ \A d \in OldAlbums : docs[d] = as[d]
        /\ \A d \in OldPhotos : docs[d] = ps[d]
        /\ \A d \in OldChats : docs[d] = cs[d]
        /\ \A d \in OldUsers : docs[d] = us[d]
    BY <2>1, DocumentsAssumption DEF Documents
  <2> DEFINE E(d) == CASE d \in OldVideos -> vs[d]
                       [] d \in OldAlbums -> as[d]
                       [] d \in OldPhotos -> ps[d]
                       [] d \in OldChats -> cs[d]
                       [] d \in OldUsers -> us[d]
  <2>4. docs = [d \in Documents |-> E(d)]
    BY <2>1
  <2> HIDE DEF E
  <2>5. docs = [d \in Documents |-> docs[d]]
    BY <2>4
  <2> QED BY <2>2, <2>3, <2>5 DEF DocsTyped
<1>2. RunnerTyped /\ Progress /\ Kept
  BY DEF MigrationsInit, RunnerTyped, Progress, Kept, Last
<1>3. NamedOnce
  <2>1. PICK vs \in [OldVideos -> VideoDocs], as \in [OldAlbums -> AlbumDocs],
             ps \in [OldPhotos -> PhotoDocs], cs \in [OldChats -> ChatDocs],
             us \in [OldUsers -> PersonDocs] :
          docs = [d \in Documents |-> CASE d \in OldVideos -> vs[d]
                                        [] d \in OldAlbums -> as[d]
                                        [] d \in OldPhotos -> ps[d]
                                        [] d \in OldChats -> cs[d]
                                        [] d \in OldUsers -> us[d]]
    BY DEF MigrationsInit
  <2>2. /\ \A d \in OldVideos : docs[d] = vs[d]
        /\ \A d \in OldAlbums : docs[d] = as[d]
    BY <2>1, DocumentsAssumption DEF Documents
  <2>3. ASSUME NEW d \in OldVideos
        PROVE  Single(docs[d])
    <3>1. docs[d].viewsCounter = Absent /\ docs[d].commentsCounter = Absent
      BY <2>2 DEF VideoDocs
    <3>2. docs[d] \in VideoShape
      BY <1>1 DEF DocsTyped
    <3> QED BY <3>1, <3>2, VideoFields, NamesSpelled DEF Has
  <2>4. ASSUME NEW d \in OldAlbums
        PROVE  Single(docs[d])
    <3>1. docs[d].viewsCounter = Absent /\ docs[d].photosCounter = Absent
      BY <2>2 DEF AlbumDocs
    <3>2. docs[d] \in AlbumShape
      BY <1>1 DEF DocsTyped
    <3> QED BY <3>1, <3>2, AlbumFields, NamesSpelled DEF Has
  <2> QED BY <2>3, <2>4, TargetsSpelled DEF NamedOnce
<1> QED BY <1>1, <1>2, <1>3 DEF MigrationsInv

LEMMA TargetsAreDocuments == \A k \in 1 .. 15 : Targets(k) \subseteq Documents
<1> SUFFICES ASSUME NEW k \in 1 .. 15
             PROVE  Targets(k) \subseteq Documents
  OBVIOUS
<1>1. \/ k \in {1, 2} \/ k = 4 \/ k = 6 \/ k \in {5, 7, 8} \/ k \in {9, 10}
      \/ k \in {3, 11, 12, 13, 14, 15}
  OBVIOUS
<1> QED BY <1>1, TargetsSpelled DEF Documents

(* What the runner is about when it takes up a migration.                  *)
LEMMA WorkTyped ==
  ASSUME NEW way \in {"up", "down"}, NEW k \in 1 .. 15
  PROVE  /\ Work(way, k) \in Working /\ Work(way, k) # Off
         /\ Work(way, k).pc = "change" /\ Work(way, k).way = way
         /\ Work(way, k).at = k /\ Work(way, k).todo = Targets(k)
<1>1. Targets(k) \in SUBSET Documents
  BY TargetsAreDocuments
<1> QED BY <1>1 DEF Work, Working, Off, Last

LEMMA RunStep ==
  ASSUME MigrationsInv, NEW way \in {"up", "down"}, Run(way)
  PROVE  MigrationsInv'
<1> DEFINE k == Following(way, pos)
<1>1. PICK w : w = Work(way, k) /\ runner' = w
  BY DEF Run
<1>2. UNCHANGED <<docs, base, pos, cutDown>> /\ runner = Off /\ Remains(way, pos)
  BY DEF Run
<1>3. k \in 1 .. 15 /\ pos \in 0 .. 15
  BY <1>2 DEF MigrationsInv, RunnerTyped, Last, Following, Remains
<1>4. /\ w \in Working /\ w # Off /\ w.pc = "change" /\ w.way = way /\ w.at = k
      /\ w.todo = Targets(k)
  BY <1>1, <1>3, WorkTyped
<1>5. DocsTyped' /\ NamedOnce'
  BY <1>2 DEF MigrationsInv, DocsTyped, NamedOnce
<1>6. RunnerTyped'
  BY <1>1, <1>2, <1>4 DEF MigrationsInv, RunnerTyped
<1>7. Progress'
  BY <1>1, <1>4 DEF Progress
<1>8. Kept'
  BY <1>2 DEF MigrationsInv, Kept, InDoubt, GoingDown, Reached
<1> QED BY <1>5, <1>6, <1>7, <1>8 DEF MigrationsInv

LEMMA ChangeDocumentStep ==
  ASSUME MigrationsInv, ChangeDocument
  PROVE  MigrationsInv' /\ (cutDown = {} => \A d \in DOMAIN docs : Keeps(docs[d], docs'[d]))
<1>1. runner # Off
  BY DEF ChangeDocument, Off
<1>2. PICK d \in runner.todo :
        /\ docs' = [docs EXCEPT ![d] = IF runner.way = "up" THEN Up(runner.at, docs[d])
                                                            ELSE Down(runner.at, docs[d])]
        /\ runner' = [runner EXCEPT !.todo =
             IF runner.at = 3 /\ ~Has(docs[d], "prices") THEN {} ELSE runner.todo \ {d}]
  BY DEF ChangeDocument
<1>3. PICK r : r = IF runner.way = "up" THEN Up(runner.at, docs[d])
                                        ELSE Down(runner.at, docs[d])
  OBVIOUS
<1>4. PICK w \in Working : w = runner
  BY <1>1 DEF MigrationsInv, RunnerTyped
<1>5. PICK v \in Working :
        /\ v = runner' /\ v # Off
        /\ v.pc = "change" /\ v.way = w.way /\ v.at = w.at
        /\ v.todo \subseteq w.todo
        /\ \A x \in w.todo \ v.todo : x = d \/ w.at = 3
  <2> DEFINE v == [w EXCEPT !.todo = IF w.at = 3 /\ ~Has(docs[d], "prices")
                                     THEN {} ELSE w.todo \ {d}]
  <2>1. w.pc = "change"
    BY <1>4 DEF ChangeDocument
  <2>2. /\ v \in Working
        /\ v.pc = "change" /\ v.way = w.way /\ v.at = w.at
        /\ v.todo = IF w.at = 3 /\ ~Has(docs[d], "prices") THEN {} ELSE w.todo \ {d}
    BY <2>1 DEF Working
  <2>3. v # Off
    BY <2>2 DEF Off
  <2>4. v = runner'
    BY <1>2, <1>4
  <2> HIDE DEF v
  <2> QED BY <2>2, <2>3, <2>4
<1>6. UNCHANGED <<base, pos, cutDown>>
  BY DEF ChangeDocument
<1>7. d \in Documents /\ d \in Targets(w.at) /\ w.at \in 1 .. 15 /\ w.todo \subseteq Targets(w.at)
  BY <1>1, <1>2, <1>4 DEF MigrationsInv, RunnerTyped, Working, Last
<1>8. /\ docs' = [x \in Documents |-> docs'[x]]
      /\ docs'[d] = r
      /\ \A x \in Documents \ {d} : docs'[x] = docs[x]
      /\ DOMAIN docs = Documents
  BY <1>2, <1>3, <1>7 DEF MigrationsInv, DocsTyped
<1>9. /\ d \in OldVideos => r \in VideoShape
      /\ d \in OldAlbums => r \in AlbumShape
      /\ d \in OldPhotos => r \in PhotoShape
      /\ d \in OldChats => r \in ChatShape
      /\ d \in OldUsers => r \in PersonShape
      /\ Changed(w.way, w.at, r)
      /\ \A j \in 1 .. pos :
           ~InDoubt(j) /\ d \in Targets(j) /\ Good(j, docs[d]) => Good(j, r)
      /\ \A j \in {5, 9} \ cutDown : d \in Targets(j) => Single(r)
      /\ cutDown = {} => Keeps(docs[d], r)
  BY <1>1, <1>2, <1>3, <1>4, NextDocument
<1>10. DocsTyped'
  BY <1>8, <1>9 DEF MigrationsInv, DocsTyped, Documents
<1>11. RunnerTyped'
  BY <1>4, <1>5, <1>6, <1>1 DEF MigrationsInv, RunnerTyped
<1>12. Progress'
  <2>1. \A x \in Targets(w.at) \ v.todo : Changed(w.way, w.at, docs'[x])
    <3> SUFFICES ASSUME NEW x \in Targets(w.at) \ v.todo
                 PROVE  Changed(w.way, w.at, docs'[x])
      OBVIOUS
    <3>1. CASE x = d
      BY <1>8, <1>9, <3>1
    <3>2. CASE w.at = 3
      BY <3>2 DEF Changed, Good, Reverted
    <3>3. CASE x # d /\ w.at # 3
      <4>1. x \in Documents /\ x \notin w.todo
        BY <1>5, <1>7, <3>3, TargetsAreDocuments
      <4> QED BY <1>1, <1>4, <1>8, <3>3, <4>1 DEF MigrationsInv, Progress
    <3> QED BY <3>1, <3>2, <3>3
  <2> QED BY <1>5, <2>1 DEF Progress
<1>13. Kept'
  <2> SUFFICES ASSUME NEW j \in 1 .. pos, ~InDoubt(j)'
               PROVE  Reached(j)'
    BY <1>6 DEF Kept
  <2>1. ~InDoubt(j)
    BY <1>1, <1>4, <1>5, <1>6 DEF InDoubt, GoingDown
  <2>2. Reached(j)
    BY <2>1 DEF MigrationsInv, Kept
  <2>3. j \in 1 .. 15
    BY DEF MigrationsInv, RunnerTyped, Last
  <2>4. \A x \in Targets(j) : Good(j, docs'[x])
    BY <1>8, <1>9, <2>1, <2>2, <2>3, TargetsAreDocuments DEF Reached
  <2> QED BY <1>6, <2>2, <2>4 DEF Reached
<1>14. NamedOnce'
  <2>1. \A j \in {5, 9} : Targets(j) \subseteq Documents
    BY TargetsAreDocuments
  <2> QED BY <1>6, <1>8, <1>9, <2>1 DEF MigrationsInv, NamedOnce
<1>15. cutDown = {} => \A x \in DOMAIN docs : Keeps(docs[x], docs'[x])
  BY <1>8, <1>9, KeepsSame
<1> QED BY <1>10, <1>11, <1>12, <1>13, <1>14, <1>15 DEF MigrationsInv

LEMMA ChangeBaseStep ==
  ASSUME MigrationsInv, ChangeBase
  PROVE  MigrationsInv'
<1>1. runner # Off /\ runner.pc = "change" /\ runner.todo = {}
  BY DEF ChangeBase, Done, Off
<1>2. PICK w \in Working : w = runner
  BY <1>1 DEF MigrationsInv, RunnerTyped
<1>3. PICK v \in Working :
        /\ v = runner' /\ v # Off
        /\ v.pc = "save" /\ v.way = w.way /\ v.at = w.at /\ v.todo = w.todo
  <2> DEFINE v == [w EXCEPT !.pc = "save"]
  <2>1. v \in Working /\ v.pc = "save" /\ v.way = w.way /\ v.at = w.at /\ v.todo = w.todo
    BY DEF Working
  <2>2. v # Off /\ v = runner'
    BY <1>2, <2>1 DEF ChangeBase, Off
  <2> HIDE DEF v
  <2> QED BY <2>1, <2>2
<1>4. /\ UNCHANGED <<docs, pos, cutDown>>
      /\ base' = IF w.way = "up" THEN base \cup Created(w.at) ELSE base \ Created(w.at)
  BY <1>2 DEF ChangeBase
<1>5. DocsTyped' /\ NamedOnce'
  BY <1>4 DEF MigrationsInv, DocsTyped, NamedOnce
<1>6. RunnerTyped'
  BY <1>1, <1>2, <1>3, <1>4 DEF MigrationsInv, RunnerTyped
<1>7. Progress'
  BY <1>1, <1>2, <1>3, <1>4 DEF MigrationsInv, Progress
<1>8. Kept'
  <2> SUFFICES ASSUME NEW j \in 1 .. pos, ~InDoubt(j)'
               PROVE  Reached(j)'
    BY <1>4 DEF Kept
  <2>1. ~InDoubt(j)
    BY <1>1, <1>2, <1>3, <1>4 DEF InDoubt, GoingDown
  <2>2. Reached(j)
    BY <2>1 DEF MigrationsInv, Kept
  <2>3. w.way = "down" => Created(j) \cap Created(w.at) = {}
    BY <1>1, <1>2, <2>1 DEF Created, InDoubt, GoingDown
  <2>4. Created(j) \subseteq base'
    BY <1>2, <1>4, <2>2, <2>3 DEF Reached, Working
  <2> QED BY <1>4, <2>2, <2>4 DEF Reached
<1> QED BY <1>5, <1>6, <1>7, <1>8 DEF MigrationsInv

LEMMA SavePositionStep ==
  ASSUME MigrationsInv, SavePosition
  PROVE  MigrationsInv'
<1>1. runner # Off /\ runner.pc = "save"
  BY DEF SavePosition, Off
<1>2. PICK w \in Working : w = runner
  BY <1>1 DEF MigrationsInv, RunnerTyped
<1>3. PICK k : k = IF w.way = "up" THEN w.at ELSE w.at - 1
  OBVIOUS
<1>4. /\ pos' = k /\ cutDown' = cutDown \ {w.at}
      /\ runner' = IF Remains(w.way, k) THEN Work(w.way, Following(w.way, k)) ELSE Off
      /\ UNCHANGED <<docs, base>>
  BY <1>2, <1>3 DEF SavePosition
<1>5. /\ w.at \in 1 .. 15 /\ w.way \in {"up", "down"} /\ pos \in 0 .. 15
      /\ w.way = "up" => w.at = pos + 1 /\ k = w.at
      /\ w.way = "down" => w.at = pos /\ k = pos - 1
      /\ w.todo = {} /\ k \in 0 .. 15
  BY <1>1, <1>2, <1>3 DEF MigrationsInv, RunnerTyped, Working, Following, Last
<1>6. Remains(w.way, k) => Following(w.way, k) \in 1 .. 15
  BY <1>5 DEF Remains, Following, Last
<1>7. \/ runner' = Off
      \/ \E v \in Working : /\ v = runner' /\ v # Off /\ v.pc = "change" /\ v.way = w.way
                            /\ v.at = Following(w.way, k) /\ v.todo = Targets(v.at)
  BY <1>4, <1>5, <1>6, WorkTyped
<1>8. DocsTyped'
  BY <1>4 DEF MigrationsInv, DocsTyped
<1>9. RunnerTyped'
  BY <1>4, <1>5, <1>7 DEF MigrationsInv, RunnerTyped, Last
<1>10. Progress'
  BY <1>7 DEF Progress
<1>11. /\ \A d \in Targets(w.at) : Changed(w.way, w.at, docs[d])
       /\ w.way = "up" => Created(w.at) \subseteq base
  BY <1>1, <1>2, <1>5 DEF MigrationsInv, Progress
<1>12. Kept'
  <2> SUFFICES ASSUME NEW j \in 1 .. k, ~InDoubt(j)'
               PROVE  Reached(j)'
    BY <1>4 DEF Kept
  <2>1. CASE w.way = "up" /\ j = w.at
    BY <1>4, <1>11, <2>1 DEF Reached, Changed
  <2>2. CASE ~(w.way = "up" /\ j = w.at)
    <3>1. j \in 1 .. pos /\ j # w.at
      BY <1>5, <2>2
    <3>2. ~InDoubt(j)
      BY <1>1, <1>2, <1>4, <3>1 DEF InDoubt, GoingDown
    <3>3. Reached(j)
      BY <3>1, <3>2 DEF MigrationsInv, Kept
    <3> QED BY <1>4, <3>3 DEF Reached
  <2> QED BY <2>1, <2>2
<1>13. NamedOnce'
  <2> SUFFICES ASSUME NEW j \in {5, 9} \ cutDown', NEW d \in Targets(j)
               PROVE  Single(docs[d])
    BY <1>4 DEF NamedOnce
  <2>1. CASE j \notin cutDown
    BY <2>1 DEF MigrationsInv, NamedOnce
  <2>2. CASE j \in cutDown
    <3>1. j = w.at
      BY <1>4, <2>2
    <3>2. Good(j, docs[d]) \/ Reverted(j, docs[d])
      BY <1>11, <3>1 DEF Changed
    <3>3. docs[d] \in VideoShape \/ docs[d] \in AlbumShape
      BY TargetsSpelled DEF MigrationsInv, DocsTyped
    <3>4. CASE j = 5
      <4>1. docs[d] \in VideoShape
        BY <3>4, TargetsSpelled DEF MigrationsInv, DocsTyped
      <4> QED BY <3>2, <3>4, <4>1, VideoFields, NamesSpelled DEF Good, Reverted, Has
    <3>5. CASE j = 9
      <4>1. docs[d] \in AlbumShape
        BY <3>5, TargetsSpelled DEF MigrationsInv, DocsTyped
      <4> QED BY <3>2, <3>5, <4>1, AlbumFields, NamesSpelled DEF Good, Reverted, Has
    <3> QED BY <3>4, <3>5
  <2> QED BY <2>1, <2>2
<1> QED BY <1>8, <1>9, <1>10, <1>12, <1>13 DEF MigrationsInv

LEMMA CrashStep ==
  ASSUME MigrationsInv, CrashRunner
  PROVE  MigrationsInv'
<1>1. /\ UNCHANGED <<docs, base, pos>> /\ runner' = Off /\ runner # Off
      /\ cutDown' = IF runner.way = "down" THEN cutDown \cup {runner.at} ELSE cutDown
  BY DEF CrashRunner
<1>2. runner.at \in 1 .. Last
  BY <1>1 DEF MigrationsInv, RunnerTyped, Working
<1>3. DocsTyped' /\ NamedOnce'
  BY <1>1 DEF MigrationsInv, DocsTyped, NamedOnce
<1>4. RunnerTyped' /\ Progress'
  BY <1>1, <1>2 DEF MigrationsInv, RunnerTyped, Progress
<1>5. Kept'
  <2>1. \A k : InDoubt(k) => InDoubt(k)'
    BY <1>1 DEF InDoubt, GoingDown
  <2> QED BY <1>1, <2>1 DEF MigrationsInv, Kept, Reached
<1> QED BY <1>3, <1>4, <1>5 DEF MigrationsInv

LEMMA MigrationsStep ==
  ASSUME MigrationsInv, [MigrationsNext]_migrationVars
  PROVE  MigrationsInv' /\ (cutDown = {} => \A d \in DOMAIN docs : Keeps(docs[d], docs'[d]))
<1>1. ASSUME NEW way \in {"up", "down"}, Run(way)
      PROVE  MigrationsInv' /\ UNCHANGED docs
  BY <1>1, RunStep DEF Run
<1>2. ChangeBase => MigrationsInv' /\ UNCHANGED docs
  BY ChangeBaseStep DEF ChangeBase
<1>3. SavePosition => MigrationsInv' /\ UNCHANGED docs
  BY SavePositionStep DEF SavePosition
<1>4. CrashRunner => MigrationsInv' /\ UNCHANGED docs
  BY CrashStep DEF CrashRunner
<1>5. UNCHANGED migrationVars => MigrationsInv' /\ UNCHANGED docs
  BY DEF migrationVars, MigrationsInv, DocsTyped, RunnerTyped, Progress, Kept, InDoubt,
         GoingDown, Reached, NamedOnce
<1>6. CASE UNCHANGED docs /\ MigrationsInv'
  BY <1>6, KeepsSame
<1> QED BY <1>1, <1>2, <1>3, <1>4, <1>5, <1>6, ChangeDocumentStep DEF MigrationsNext

LEMMA MigrationsInvTrue == MigrationsInv => PositionTrue
<1> SUFFICES ASSUME MigrationsInv, NEW k \in 1 .. pos, k \notin cutDown, ~GoingDown(k)
             PROVE  Migrated(k)
  BY DEF PositionTrue, GoingDown
<1>1. pos \in 0 .. 15 /\ k \in 1 .. 15
  BY DEF MigrationsInv, RunnerTyped, Last
<1>2. ~InDoubt(k)
  BY DEF InDoubt
<1>3. /\ Created(k) \subseteq base
      /\ \A d \in Targets(k) : Good(k, docs[d])
  BY <1>2 DEF MigrationsInv, Kept, Reached
<1>4. \A j \in {6, 7, 12} : j \in 1 .. pos => \A d \in Targets(j) : Good(j, docs[d])
  BY DEF MigrationsInv, Kept, Reached, InDoubt
<1>5. CASE k \in {1, 2}
  BY <1>3, <1>5 DEF Migrated
<1>6. CASE k \in {4, 5, 9, 15}
  BY <1>3, <1>6, TargetsSpelled DEF Migrated, Good
<1>7. CASE k = 8
  BY <1>1, <1>3, <1>4, <1>7, TargetsSpelled DEF Migrated, Good
<1>8. CASE k = 10
  BY <1>1, <1>3, <1>4, <1>8, TargetsSpelled DEF Migrated, Good
<1>9. CASE k = 13
  BY <1>1, <1>3, <1>4, <1>9, TargetsSpelled DEF Migrated, Good
<1>10. CASE k \notin {1, 2, 4, 5, 8, 9, 10, 13, 15}
  BY <1>1, <1>10 DEF Migrated
<1> QED BY <1>5, <1>6, <1>7, <1>8, <1>9, <1>10

-----------------------------------------------------------------------------
(* Only the migrations' own part changes their documents; elsewhere they   *)
(* are over.                                                               *)
MigrationsPart ==
  \/ part = "migrations" /\ MigrationsInv
  \/ part # "migrations" /\ pos = 0

LEMMA MigrationsPartInit == Init => MigrationsPart
  BY MigrationsInvInit DEF Init, MigrationsPart, NothingToMigrate

LEMMA MigrationsPartStep ==
  ASSUME MigrationsPart, [Next]_vars
  PROVE  /\ MigrationsPart'
         /\ cutDown = {} => \A d \in DOMAIN docs : Keeps(docs[d], docs'[d])
<1>1. UNCHANGED part
  BY DEF Next, vars, ContentsRun, FavoritesRun, ReviewsRun, MigrationsRun, UploadsRun
<1>2. CASE part = "migrations"
  <2>1. [MigrationsNext]_migrationVars
    BY DEF Next, vars, ContentsRun, FavoritesRun, ReviewsRun, MigrationsRun, UploadsRun
  <2>2. MigrationsInv
    BY <1>2 DEF MigrationsPart
  <2> QED BY <1>1, <1>2, <2>1, <2>2, MigrationsStep DEF MigrationsPart
<1>3. CASE part # "migrations"
  <2>1. UNCHANGED <<docs, pos>>
    BY <1>3 DEF Next, vars, ContentsRun, FavoritesRun, ReviewsRun, MigrationsRun, UploadsRun,
                migrationVars
  <2> QED BY <1>1, <1>3, <2>1, KeepsSame DEF MigrationsPart
<1> QED BY <1>2, <1>3

(* A position that is stored speaks the truth, whatever the documents,     *)
(* after any crashes and returns (migrate-db.ts:18-71).                    *)
THEOREM PositionTrueAlways == Spec => []PositionTrue
<1>1. MigrationsPart => PositionTrue
  BY MigrationsInvTrue DEF MigrationsPart, PositionTrue
<1>2. MigrationsPart /\ [Next]_vars => MigrationsPart'
  BY MigrationsPartStep
<1> QED BY <1>1, <1>2, MigrationsPartInit, PTL DEF Spec

(* No migration loses a counter or a balance, on its way up or down,       *)
(* repeated or not (migrations/005 to 015).                                *)
THEOREM CountsSurviveAlways == Spec => CountsSurvive
<1> DEFINE Survive == cutDown = {} => \A d \in DOMAIN docs : Keeps(docs[d], docs'[d])
<1>1. MigrationsPart /\ [Next]_vars => MigrationsPart' /\ Survive
  BY MigrationsPartStep
<1>2. CountsSurvive <=> [][Survive]_migrationVars
  BY DEF CountsSurvive, Keeps, NameChanges
<1> QED BY <1>1, <1>2, MigrationsPartInit, PTL DEF Spec

=============================================================================
