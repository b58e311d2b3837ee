----------------------------- MODULE StoredValues -----------------------------
(***************************************************************************)
(* Values that are stored beside what they are derived from: counters of   *)
(* contents and of lists, ratings, covers of videos, and what migrations   *)
(* fill in.  Contents, Favorites, Reviews, Uploads and Migrations share no *)
(* state (the migrations end before the application starts): the           *)
(* specification takes the behaviours of any one of them, while the others *)
(* stay as they began.                                                     *)
(***************************************************************************)
EXTENDS ContentsProperties, BackgroundProperties, UploadsProperties

VARIABLE part  \* the component that runs

vars ==
  <<contentVars, favoriteVars, reviewVars, migrationVars, uploadVars, part>>

(* An empty database, whose migrations are over.                           *)
NothingToMigrate ==
  /\ docs = <<>>
  /\ base = {}
  /\ pos = 0
  /\ runner = Off
  /\ cutDown = {}
  /\ runs = MaxRuns
  /\ stops = MaxStops

Init ==
  /\ ContentsInit
  /\ FavoritesInit
  /\ ReviewsInit
  /\ UploadsInit
  /\ \/ part = "migrations" /\ MigrationsInit
     \/ /\ part \in {"contents", "favorites", "reviews", "uploads"}
        /\ NothingToMigrate
  /\ part # "uploads" => medium = "video"
  /\ part # "favorites" => list = PhotoFavorites

ContentsRun ==
  /\ part = "contents"
  /\ ContentsNext
  /\ UNCHANGED <<favoriteVars, reviewVars, migrationVars, uploadVars,
                 part>>

FavoritesRun ==
  /\ part = "favorites"
  /\ FavoritesNext
  /\ UNCHANGED <<contentVars, reviewVars, migrationVars, uploadVars,
                 part>>

ReviewsRun(A) ==
  /\ part = "reviews"
  /\ A
  /\ UNCHANGED <<contentVars, favoriteVars, migrationVars, uploadVars,
                 part>>

MigrationsRun ==
  /\ part = "migrations"
  /\ MigrationsNext
  /\ UNCHANGED <<contentVars, favoriteVars, reviewVars, uploadVars,
                 part>>

UploadsRun ==
  /\ part = "uploads"
  /\ UploadsNext
  /\ UNCHANGED <<contentVars, favoriteVars, reviewVars, migrationVars,
                 part>>

Next ==
  \/ ContentsRun
  \/ FavoritesRun
  \/ ReviewsRun(ReviewsNext)
  \/ MigrationsRun
  \/ UploadsRun

(* The worker goes on as long as there are jobs.                           *)
Spec == Init /\ [][Next]_vars /\ WF_vars(ReviewsRun(Worker))
=============================================================================
