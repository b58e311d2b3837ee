------------------------ MODULE BackgroundProperties ------------------------
(* What the work behind the requests promises: the rating of users from    *)
(* their reviews, and the migrations.                                      *)
EXTENDS Reviews, Migrations

HasJob(u) == Pending(u) \/ (job # NoWork /\ job.user = u)
Waits(u) ==
  \/ HasJob(u)
  \/ \E p \in Writers : Stands(p, "after") /\ task[p].user = u

(* The rating of a user is the average of its reviews once its last job is *)
(* done, whatever changed while jobs waited, failed or were computed       *)
(* (rating.molecule.ts:18-44, review.controller.ts:163-168); except after  *)
(* a change that no job of the user followed, as when a review is given to *)
(* another user, or whose job failed three times, as for want of reviews.  *)
RatingSettled ==
  \A u \in Rated :
    \/ Waits(u) \/ u \in behind
    \/ rating[u] = NoRating /\ Of(u) = {}
    \/ Equal(rating[u], Average(StarsOf(u)))

(* No job waits for ever, even one that fails each time: a rating that is  *)
(* out of date is written, or its job is dropped (rating.molecule.ts:27).  *)
JobsEnd == \A u \in Rated : HasJob(u) ~> ~HasJob(u)

(* What the migrations up to position k promise of the documents.          *)
Migrated(k) ==
  CASE k \in {1, 2} -> Created(k) \subseteq base
    [] k = 4 -> \A d \in OldChats : Has(docs[d], "chatType")
    [] k = 5 -> \A d \in OldVideos : ~Has(docs[d], "viewCounter")
                                  /\ ~Has(docs[d], "commentCounter")
    [] k = 8 -> \A d \in OldVideos : Has(docs[d], "viewsCounter")
                                  /\ Has(docs[d], "commentsCounter")
    [] k = 9 -> \A d \in OldAlbums : ~Has(docs[d], "viewCounter")
                                  /\ ~Has(docs[d], "photoCounter")
    [] k = 10 -> \A d \in OldAlbums \cup OldPhotos : Has(docs[d], "viewsCounter")
    [] k = 13 -> \A d \in OldUsers : Has(docs[d], "viewsCounter")
                    /\ docs[d].subscriptionsCounter = docs[d].subscriptions
    [] k = 15 -> \A d \in OldUsers : docs[d].balance > 0
    [] OTHER -> TRUE

(* A position that is stored speaks the truth: every document is as the    *)
(* migrations before it leave it, after any crashes and returns            *)
(* (migrate-db.ts:18-71), unless a way down was cut short there.           *)
PositionTrue ==
  \A k \in 1 .. pos :
    \/ k \in cutDown
    \/ runner # Off /\ runner.way = "down" /\ runner.at = k
    \/ Migrated(k)

(* A counter under its new name or its old one.                            *)
Counter(doc, names) ==
  IF Has(doc, names[1]) THEN doc[names[1]] ELSE Value(doc, names[2])

(* No migration, on its way up or down, repeated after a crash or not,     *)
(* loses what a document counted, or a balance above zero                  *)
(* (migrations/005 to 015), unless a way down was cut short.               *)
CountsSurvive ==
  [][cutDown = {} => \A d \in DOMAIN docs :
       /\ \A names \in {<<"viewsCounter", "viewCounter">>,
                        <<"commentsCounter", "commentCounter">>,
                        <<"photosCounter", "photoCounter">>} :
            Counter(docs[d], names) # Absent
              => Counter(docs'[d], names) = Counter(docs[d], names)
       /\ Value(docs[d], "balance") > 0
            => docs'[d].balance = docs[d].balance]_migrationVars
=============================================================================
