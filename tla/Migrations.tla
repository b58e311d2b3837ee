------------------------------ MODULE Migrations ------------------------------
(***************************************************************************)
(* The migrations of the database, run up or down by one runner before a   *)
(* release.  A migration changes document by document, and the position is *)
(* saved after it; a crash may come anywhere.                              *)
(***************************************************************************)
EXTENDS Integers, FiniteSets

CONSTANTS
  OldVideos, OldAlbums, OldPhotos, OldChats, OldUsers,  \* documents
  MaxRuns,     \* bound: how often the runner is started
  MaxStops   \* bound: stops of the runner

ASSUME MigrationsBoundsAssumption == MaxRuns \in Nat /\ MaxStops \in Nat
(* Each document is in one collection.                                     *)
ASSUME DocumentsAssumption ==
  /\ OldVideos \cap (OldAlbums \cup OldPhotos \cup OldChats \cup OldUsers) = {}
  /\ OldAlbums \cap (OldPhotos \cup OldChats \cup OldUsers) = {}
  /\ OldPhotos \cap (OldChats \cup OldUsers) = {}
  /\ OldChats \cap OldUsers = {}

VARIABLES
  docs,     \* document |-> field |-> value
  base,     \* the default client and the default admin, if stored
  pos,      \* the position saved in the database
  runner,   \* the migration at work, its way and the documents left to it
  cutDown,  \* history: migrations whose way down was cut short
  runs,     \* runs so far (bounded by MaxRuns)
  stops   \* stops so far (bounded by MaxStops)

migrationVars == <<docs, base, pos, runner, cutDown, runs, stops>>

-----------------------------------------------------------------------------
(* Values: those that migrations tell apart, and one they must keep.       *)
Absent == -9    \* the field does not exist
Some == 7
Last == 15
Documents ==
  OldVideos \cup OldAlbums \cup OldPhotos \cup OldChats \cup OldUsers
Off == [pc |-> "off"]

Value(doc, f) == IF f \in DOMAIN doc THEN doc[f] ELSE Absent
Has(doc, f) == Value(doc, f) # Absent

(* Documents as former releases may have left them.                        *)
Old == {Absent, Some}
VideoDocs == [viewCounter : Old, commentCounter : {Some},
              viewsCounter : {Absent}, commentsCounter : {Absent}]
AlbumDocs == [viewCounter : Old, photoCounter : {Some},
              viewsCounter : {Absent}, photosCounter : {Absent}]
ChatDocs == [chatType : {Absent}]
PhotoDocs == [viewsCounter : Old]
PersonDocs == [prices : {Absent}, subscriptions : {1}, viewsCounter : {Some},
               subscriptionsCounter : Old, balance : {Absent, -1, Some}]

MigrationsInit ==
  /\ \E vs \in [OldVideos -> VideoDocs], as \in [OldAlbums -> AlbumDocs],
        ps \in [OldPhotos -> PhotoDocs],
        cs \in [OldChats -> ChatDocs], us \in [OldUsers -> PersonDocs] :
       docs = [d \in Documents |-> CASE d \in OldVideos -> vs[d]
                                    [] d \in OldAlbums -> as[d]
                                    [] d \in OldPhotos -> ps[d]
                                    [] d \in OldChats -> cs[d]
                                    [] d \in OldUsers -> us[d]]
  /\ base = {}
  /\ pos = 0
  /\ runner = Off
  /\ cutDown = {}
  /\ runs = 0
  /\ stops = 0

-----------------------------------------------------------------------------
(* What a migration does to one document                                   *)

(* Mutant: $exists: false is forgotten.                                    *)
Refill(doc, f, v) == [doc EXCEPT ![f] = v]

(* $set where $exists is false.                                            *)
Fill(doc, f, v) == IF Has(doc, f) THEN doc ELSE [doc EXCEPT ![f] = v]

(* $rename overwrites the new field, if the old one exists.                *)
Rename(doc, old, new) ==
  IF Has(doc, old)
  THEN [doc EXCEPT ![new] = doc[old], ![old] = Absent] ELSE doc

RenameVideoCounters(doc) ==
  Rename(Rename(doc, "commentCounter", "commentsCounter"),
         "viewCounter", "viewsCounter")
RenameAlbumCounters(doc) ==
  Rename(Rename(doc, "photoCounter", "photosCounter"),
         "viewCounter", "viewsCounter")
RestoreVideoCounters(doc) ==
  Rename(Rename(doc, "commentsCounter", "commentCounter"),
         "viewsCounter", "viewCounter")
RestoreAlbumCounters(doc) ==
  Rename(Rename(doc, "photosCounter", "photoCounter"),
         "viewsCounter", "viewCounter")
FillPrices(doc) == Fill(doc, "prices", 1)
FillChatType(doc) == Fill(doc, "chatType", 1)
FillPhotoViews(doc) == Fill(doc, "viewsCounter", 0)
FillVideoViews(doc) == Fill(doc, "viewsCounter", 0)
FillVideoComments(doc) == Fill(doc, "commentsCounter", 0)
FillAlbumViews(doc) == Fill(doc, "viewsCounter", 0)
FillUserViews(doc) == Fill(doc, "viewsCounter", 0)
FillSubscriptions(doc) == Fill(doc, "subscriptionsCounter", doc.subscriptions)
RefillSubscriptions(doc) ==
  [doc EXCEPT !.subscriptionsCounter = doc.subscriptions]
FillBalance(doc) == Fill(doc, "balance", 0)
FillBalanceWith1000(doc) ==
  IF Has(doc, "balance") /\ doc.balance <= 0
  THEN [doc EXCEPT !.balance = 1000] ELSE doc

-----------------------------------------------------------------------------
(* The runner                                                              *)

(* The documents a migration works on.                                     *)
Targets(k) ==
  CASE k \in {1, 2} -> {}
    [] k = 4 -> OldChats
    [] k \in {5, 7, 8} -> OldVideos
    [] k = 6 -> OldPhotos
    [] k \in {9, 10} -> OldAlbums
    [] OTHER -> OldUsers

Up(k, doc) ==
  CASE k = 3 -> FillPrices(doc)
    [] k = 4 -> FillChatType(doc)
    [] k = 5 -> RenameVideoCounters(doc)
    [] k = 6 -> FillPhotoViews(doc)
    [] k = 7 -> FillVideoViews(doc)
    [] k = 8 -> FillVideoComments(doc)
    [] k = 9 -> RenameAlbumCounters(doc)
    [] k = 10 -> FillAlbumViews(doc)
    [] k = 11 -> FillSubscriptions(doc)
    [] k = 12 -> FillUserViews(doc)
    [] k = 13 -> RefillSubscriptions(doc)
    [] k = 14 -> FillBalance(doc)
    [] k = 15 -> FillBalanceWith1000(doc)

Down(k, doc) ==
  CASE k = 5 -> RestoreVideoCounters(doc)
    [] k = 9 -> RestoreAlbumCounters(doc)
    [] OTHER -> doc

Work(way, k) == [pc |-> "change", way |-> way, at |-> k, todo |-> Targets(k)]
(* The migration that follows position k, on either way.                   *)
Following(way, k) == IF way = "up" THEN k + 1 ELSE k
Remains(way, k) == IF way = "up" THEN k < Last ELSE k > 0

(* load reads the position; up and down go through all that remain.        *)
Run(way) ==
  /\ runner = Off
  /\ runs < MaxRuns
  /\ Remains(way, pos)
  /\ runs' = runs + 1
  /\ runner' = Work(way, Following(way, pos))
  /\ UNCHANGED <<docs, base, pos, cutDown, stops>>

(* updateMany and Promise.all change the documents in any order; the       *)
(* updateOne of migration 3 is over with the first user it fills.          *)
ChangeDocument ==
  /\ runner.pc = "change"
  /\ \E d \in runner.todo :
       /\ docs' = [docs EXCEPT ![d] =
                     IF runner.way = "up" THEN Up(runner.at, @)
                                          ELSE Down(runner.at, @)]
       /\ runner' = [runner EXCEPT !.todo =
            IF runner.at = 3 /\ ~Has(docs[d], "prices") THEN {} ELSE @ \ {d}]
  /\ UNCHANGED <<base, pos, cutDown, runs, stops>>

(* Mutant: the position is counted before the migration has finished.      *)
DoneEarly == runner.pc = "change" /\ Cardinality(runner.todo) <= 1

Done == runner.pc = "change" /\ runner.todo = {}

(* The default client and admin are looked up before they are created.     *)
Created(k) == IF k = 1 THEN {"client"} ELSE IF k = 2 THEN {"admin"} ELSE {}

ChangeBase ==
  /\ Done
  /\ base' = IF runner.way = "up" THEN base \cup Created(runner.at)
                                  ELSE base \ Created(runner.at)
  /\ runner' = [runner EXCEPT !.pc = "save"]
  /\ UNCHANGED <<docs, pos, cutDown, runs, stops>>

(* save stores the position, and the next migration follows.               *)
SavePosition ==
  LET k == IF runner.way = "up" THEN runner.at ELSE runner.at - 1
  IN
    /\ runner.pc = "save"
    /\ pos' = k
    /\ cutDown' = cutDown \ {runner.at}
    /\ runner' = IF Remains(runner.way, k)
                 THEN Work(runner.way, Following(runner.way, k))
                 ELSE Off
    /\ UNCHANGED <<docs, base, runs, stops>>

CrashRunner ==
  /\ runner # Off
  /\ stops < MaxStops
  /\ stops' = stops + 1
  /\ runner' = Off
  /\ cutDown' = IF runner.way = "down"
                THEN cutDown \cup {runner.at} ELSE cutDown
  /\ UNCHANGED <<docs, base, pos, runs>>

MigrationsNext ==
  \/ \E way \in {"up", "down"} : Run(way)
  \/ ChangeDocument
  \/ ChangeBase
  \/ SavePosition
  \/ CrashRunner
=============================================================================
