# werfans-api: specifications, model checking and proofs

werfans-api is the backend of a fan platform: a Node.js / TypeScript application on Express (REST controllers
of the restdone framework), Socket.IO, MongoDB through mongoose, and a Moleculer broker whose services
("molecules") handle events and queue jobs. This directory holds TLA+ modules of its core logic, the TLC
instances that check them and the TLAPS proofs about them. Paths below are relative to `src/app/` unless they
start with `test/`.

## 1. Inventory

| component | state | operations | hard part |
|---|---|---|---|
| payment service (`lib/services/payment.service.ts`) | `User.balance`, the BalanceRecord collection | `processRecord`: conditional `$inc` of the balance, create the record, emit `payment.accepted` | three calls that interleave with others and may stop half way |
| payment molecule (`molecules/payment.molecule.ts`) | `Goal.currentAmount/state`, `User.purchases`, `processedAt` | handler of `payment.accepted`: SendTip, PurchaseContent, GoalReached | goals saved from a snapshot; payouts that are payments themselves; events delivered at most once |
| goals (`controllers/rest/goal.controller.ts`, `models/goal.model.ts`) | goal state, amounts | create, update, delete, sendTip, cancel, complete | checks on snapshots of the stream, of other goals and of the amount |
| goals molecule (`molecules/goals.molecule.ts`) | goal state, refunds | handler of `liveStreams.completed`: expire the goal, give its tips back | racing with tips in flight; a crash between two refunds |
| live streams (`controllers/rest/liveStream.controller.ts`, `models/liveStream.model.ts`) | stream state, scheduled start, chat, viewers and likes | create, schedule, start, stop, purchase, delete, view, like | check and save are separate calls |
| live streams molecule (`molecules/liveStreams.molecule.ts`) | `startingProcessedAt` | cron job: claim, fetch, announce | ticks that overlap; a crash between claim and announcement |
| strikes (`controllers/rest/strike.controller.ts`, `models/strike.model.ts`) | strike state | create, confirm, revoke, edit, delete | rulings on snapshots |
| banning molecule (`molecules/banning.molecule.ts`) | `suspendedAt`, `banningReasonType`, sessions | handlers of `strikes.created` / `strikes.revoked` | events in any order; decisions on stale counts |
| ban plugins (`lib/restdone.plugin/ban*.ts`) | the same fields of users, `suspendedAt` of contents | ban, unban | races with the molecule and with admitted requests |
| ccBill (`lib/services/ccBill.service.ts`, `controllers/others/billing.controller.ts`) | `User.subscriptions`, `subscribers` and counters, deposits | forms; webhooks: sale, cancellation, expiration, deposit | seven calls per webhook, no transaction, webhooks repeated |
| authentication, sign-up, e-mail verification (`lib/authDelegate.ts`, `auth` and `emailVerification` plugins, `user.controller.ts`) | users, refresh tokens, e-mailed tokens, `emailVerified` | sign-up, log-in, renewal, log-out, forgot, reset, verify, removal | an answer, a date and a new token in any order; log-out against renewal |
| REST resources (every `controllers/rest/*.controller.ts`, `lib/base.restdone.controller.ts`, `0130-restdone.middleware.ts`) | one document each, roles | select, insert, update, delete; admin paths; sockets | who may do what is spread over `pre`, conditions, filters and schemas, and read at different times |
| contents (`photo`, `album`, `video` controllers and models, `inc-field` plugin) | documents, photos and views counters | insert, delete, move, view | a counter in another document |
| arrays with counters (`array-with-counter` plugin) | favourites, likes, viewers, subscribers and their counters | put, delete, the hook that copies to the owner | array sent as a change, counter as a value |
| uploads and covers (`upload.controller.ts`, `s3.helper.ts`, `ffmpeg.service.ts`, `video.controller.ts`) | objects of the bucket, urls in documents | signed urls, parts, the frame of a video | bucket and database are apart |
| what is shown (`post` of photos, videos, live streams, users) | none of its own | urls for subscribers and buyers, public profiles | decided from documents read at different times |
| chats and messages | chats, messages, counters, unread marks | open, join, post, edit, drop, read, remove | upserts and removals that race |
| reviews, rating molecule | reviews, the queue, `User.rating` | change of a review, job with retries | a rating computed before and written after another change |
| notification service, system notifications | notifications, who is online, muted ways | create, emit, mail, read | recipients that come and go meanwhile |
| migrations (`src/migrate-db.ts`, `src/migrations/`) | fields of old documents, the position | up, down | a stop between a migration and its position |
| e-mail queue, metadata, remaining middlewares | jobs of an external service, none | send | none |

How they interact. Controllers run on a request, call services directly, and write through mongoose. After a
write they emit events on the Moleculer broker: `payment.accepted` (payment service → payment molecule, which
calls the payment service again), `liveStreams.completed` (live stream controller → goals molecule → payment
service), `strikes.created` and `strikes.revoked` (strike controller → banning molecule → users, contents,
sessions). Nothing is locked and there are no transactions: two handlers share state only through
single-document updates of MongoDB, so any two of them interleave at every `await`. Events are sent without
acknowledgement or retry. Every component of this table is in `PROJECT.json` with its status, and `hazards`
lists, at its line, everything here that a test would hardly reach. The bucket (S3), the e-mail service and
ccBill are external and known by the calls made to them.

What makes each component correct:

* payments: no overdraft; the balance is explained by the records; a goal's amount is explained by its tips;
  refunds match tips and happen once; a payout never exceeds what was collected; an accepted payment is
  processed;
* banning: a ban has a reason and enough strikes; a handler respects the ban of an admin; when all is settled
  the ban agrees with the strikes; a banned user is logged out;
* subscriptions: subscriptions of the fan, subscribers of the creator and both counters agree; a paid sale
  ends subscribed; fans do not disturb one another;
* live streams: one active goal; what is announced is true, due and said once; goals end with their stream;
* stored values: a counter never shows more than there is; lists merge overlapping calls; a rating that
  settled is the average; a video has a cover made from its own file; a migration that is marked done is done,
  and none loses a count;
* messaging: a chat's messages go with it; two users have few chats; a recipient is told one way or the other;
* access: only owners and admins change a document, and a document is not given away; private documents stay
  private; a token serves once; log-out ends sessions; a ban shuts out; what is paid is what is shown.

## 2. Modules

| module | models | proofs |
|---|---|---|
| `Payments`, `PaymentsProperties`, `MCPayments` | payment service, payment molecule, goals molecule, `sendTip`, `purchase`, `stop`, deposits | `PaymentsProofs` |
| `Banning`, `BanningProperties`, `MCBanning` | strikes, banning molecule, ban plugins, logout | `BanningProofs` |
| `Subscriptions`, `SubscriptionsProperties`, `MCSubscriptions` | prices, forms, ccBill webhooks and the counters of `user.model.ts` | `SubscriptionsProofs` |
| `LiveStreams`, `LiveStreamsProperties`, `MCLiveStreams` | live streams, creation of goals, cron job, expiry | `LiveStreamsProofs` |
| `Contents`, `Favorites`, `ContentsProperties` | contents and their counters; lists of users with counters | `StoredProofs` |
| `Collection` | abstract: a list in a document that overlapping calls change | `StoredProofs` |
| `Reviews`, `Migrations`, `BackgroundProperties` | reviews, the queue and its worker; the migrations and their runner | `StoredProofs` |
| `Uploads`, `UploadsProperties` | the bucket, uploads, the cover and the save of a video or photo | `StoredProofs` |
| `StoredValues`, `MCStoredValues` | the five modules above in one specification | `StoredProofs` |
| `Chats`, `Notifications`, `MessagingProperties`, `MCMessaging` | chats and messages; the notification service | `MessagingProofs` |
| `Resources`, `ResourcesProperties` | `pre`, conditions, filters and schemas of the 18 REST resources | `AccessProofs` |
| `Accounts`, `AccountsProperties` | sign-up, e-mailed tokens, sessions, bans | `AccessProofs` |
| `Viewing`, `ViewingProperties` | which urls and profile fields a select answers | `AccessProofs` |
| `Access`, `MCAccess` | the three modules above in one specification | `AccessProofs` |
| `Sums` | the sum of a function over its domain, in which balances, views and averages are stated | `SumsProofs` |

`X` is the state machine, `XProperties` states what is checked of it, `MCX` gives instances, and each `.cfg`
is one run. `PROJECT.json` maps every definition to its lines.

### Conventions

* **Processes.** A running request, event handler or cron tick is a process (`Procs`, `Callers`, `Writers`,
  `Clients`, `Requests`, ...); a function says where it is (`pc`) and the values it holds from earlier calls.
  One action per database call: what the code does between two awaits belongs to one action, and what was read
  is in that function, hence stale. The number of processes bounds the concurrency.
* **Refused requests.** A request whose checks fail changes nothing, so it is the guard of the action and not
  an action, unless it can be refused later than it began.
* **Events** are sets of references to what they are about: delivered in any order, at most once. Two
  emissions about one subject that are in flight together are one element.
* **Faults.** `AbortJob`, `CutRequest`, `Cut`, ... end a process between two calls (a rejected call, a crash;
  memory is lost and the database keeps what was written), `Lose...` drops an event; each kind is bounded, but
  for `Restart` of `Favorites`, which may always come.
* **Bounds** are constants named `Max...`; each appears in the guard of the action it bounds.
* **History.** A variable that only properties read says so where it is declared (`behind`, `answers`, `urls`,
  `paid`, ...).
* **Mutants.** A definition headed by a comment "Mutant" is not part of any specification: it is a plausible
  bug that replaces the definition it stands before, to show that a property notices it.
* **Parts.** Components that share no state gain nothing from being interleaved: their product has the states
  of all and the behaviours of each. `StoredValues`, `MessagingProperties` and `Access` choose in `Init` the
  component that runs (`part`) and leave the others as they began, so that one run checks each of them in
  full. Components that do interact (payments with goals and streams, strikes with bans and sessions, webhooks
  with counters) are in one module.

### How MongoDB, mongoose and the frameworks are read

One-document updates are atomic. A filter whose `_id` is `undefined` matches no user. Since schemas have
timestamps, an update that matches also modifies. `save()` writes the changed fields over whatever the
document has become: an array as `$addToSet` or `$pull` of what changed, a number as its value. It fails when
the document is gone. restdone calls the controller's `pre` on its own CRUD actions, not on custom ones; it
then locates the document by the params, applies the body but for read-only fields (`assignFilter` decides
field by field where a controller has one), and saves. Two removals of one document both succeed. Definitions
marked external in `PROJECT.json` say what is assumed of these libraries. `goal.cancel` and `goal.complete`
change a document in memory and never save it, so they are not actions (see section 6).

### Payments

`processRecord` is `Call` (the argument is built), `MoveBalance` (the conditional update: `Matches` is its
filter) or `RefuseRecord` (no match), and `CreateRecord` (record and event). `TakeTip`, `MarkTip`,
`ReachGoal`, then a `Call` for the payout, are the SendTip branch of the payment molecule; `TakePayout` and
`TakePurchase` the others, `IgnoreAccepted` the types without a branch. The goals molecule is `ExpireGoal`,
`FindTips`, and `RefundTip` / `RecordRefund` for the concurrent `processRecord` calls of its `Promise.all`.
`TakePayout` adds the sum to the balance although `processRecord` already did (`payment.service.ts:23`,
`payment.molecule.ts:33`); the tests of both expect exactly this, so the reconciliation invariant counts a
handled payout twice.

### Banning

`ReadStrike` / `SaveStrike` are confirm and revoke; `CountOnCreated`, `BanByStrikes`, `LogOut` the handler of
`strikes.created`; `ShowContent`, `Recount`, `ReadReason`, `Unban` that of `strikes.revoked`; `BanUser`,
`UnbanUser`, `BanContent` the plugins. The ban of a content tries to create a strike without its required
fields, which fails after the content is hidden.

### Subscriptions

`Subscriptions` takes a fan and a creator per sale. `SetPrices` and `AskForm` are the creator's prices and the
form that a fan asks for; only a sale whose form was asked for is sold, but a form stays good after its price
is gone. A sale is `ReadCreator`, `PullSubscription`, `PushSubscription`, `CountSubscriptions`, `SetCounters`,
`SaveCreator`; a cancellation or expiration is `Cancel`, `CountSubscriptions`, `SetCounters`,
`PullSubscriber`. `SaveCreator` sends an `$addToSet` or `$push` of the fan and a counter computed from the
array that was read. `Without` is what `$pull` leaves of a list. `Serves` says which sales' webhooks a process
takes, which is how a run keeps those of one fan one after the other.

### LiveStreams

`CreateChat` and `InsertStream` are the insert (`beforeSave` awaits the chat). `ReadStream` / `SaveStream` /
`Tell` are schedule, start and stop; `changeState` is the transition table of the model. `Tick`, `Fetch`,
`Announce` are the cron job; `ReadStreamOfGoal`, `FindOther`, `InsertGoal` the creation of a goal;
`ExpireGoal` the event handler (its refunds are in `Payments`). Hours are the unit of time, since schedule
asks for a start an hour away. `Overlap` says whether the requests of an owner about one stream may overlap;
removals, by admins too, may come at any time. The removal of chats is in `Chats`.

### Contents, Favorites and Collection

`Contents`: an insert is `StartInsert` (`pre`, which looks the album up), `SaveContent`, and for a photo
`CountPhoto` (`afterSave`); a removal is `StartDelete`, for a photo `UncountPhoto` (`beforeDelete`), and
`RemoveContent`. `MovePhoto` is the update that only an admin may make of `album`; no counter follows. `View`
and `ViewOwner` are the two `$inc` of the `inc-field` plugin and its `afterInc`.

`Favorites`: `ReadList` and `SaveList` are `putToArray` / `deleteFromArray` and the save; `MirrorToOwner` is
the `afterPut` of photos, albums and live streams that copies the user to the owner's favourites. A list is
one of `AlbumFavorites`, ..., `LiveStreamViewers`, which differ in whether they are mirrored and can shrink.
`NewLength` is what makes the counter stale: it is the length of what was read.

`Collection` is the promise: each call owes a document one change, makes it in one step, and nothing else
touches a list. `FavoritesMerge` is `Collection!Spec` under the mapping `members <- favorites`, `owed <-
owedByCalls`, where `Owed` lists the changes that a request still has to make: first those of its own
document and of the owner, after the save only that of the owner. The counter is not part of it, since
overlapping calls do leave it stale; `CounterFollowsRead` says what remains true of it.

### Reviews and Migrations

A change of a review is `StartChange` (located), `SaveReview`, `AfterChange` (the job is queued). The worker
is `TakeJob`, `CalculateRating` (the aggregation, which fails when there is no review), `WriteRating`; `Retry`
queues a failed job again while attempts are left. A rating is the pair of sum and number, compared by cross
multiplication. `behind` is the history of users that no job will rate again: a review given to another user,
a request cut before it queued, a job dropped.

`Migrations`: `Run` loads the position, `ChangeDocument` applies `Up(k, doc)` or `Down(k, doc)` to one
document at a time (`updateMany`, `Promise.all`), `ChangeBase` creates or removes the default client and
admin, `SavePosition` stores the position. Documents begin as former releases may have left them. Migrations 1
to 15 are all there; those without a way down keep the document.

### Uploads

`GetSignedUrl`, `CreateMultipartUpload`, `SendPart`, `CompleteMultipartUpload` give places in the bucket;
`PutObject` is the client. A save is `ReceiveSave`, then for a video whose url changed and that has no cover
`DownloadFile` and `UploadFile` (`beforeSave`, `extractCover`), then `SaveFilm`; `CutSave` may end it
anywhere.

### Chats and Notifications

`OpenPrivate` / `InsertPrivate` are the two halves of the upsert, which no index makes one. `LocateChat` and
`RemoveChat` are `deleteChat` with the post hook that removes the messages. A message is `StartMessage`
(`pre`), `SaveMessage`, `EditMessage` or `DropMessage`, and `CountMessage` (the post hooks).
`createNotification` is `Start` (recipients and muted ways), `Create` (store and emit to everyone), `Look` for
each recipient and `Emit` when one is online, and `Mail` to the others. `Connect`, `Disconnect`, `Mute`,
`ReadAll` are the users meanwhile.

### Resources

A behaviour is about one resource (`scene.kind`) and one document. A request is `Receive` (user, role, admin
mode, action, the owner it names), `Prepare` (`pre`: may it go on, whose documents it will locate, the owner
it writes), `Locate`, and `Save`, `Remove` or `Answer`. `CommentPre` ... `ChatPre` are the controllers' `pre`,
`PhotoTakesOwner` ... their `assignFilter`, `CommentSchema` ... which field is the owner and whether it is
required, `CommentController` ... which actions and paths they register. `keepers` are the users to whom what
the document refers to belongs (the stream of a goal, the album of a photo, the chat of a message). Roles
change (`SetRole`), and a socket keeps the user it connected with (`Scopes`), admin flag included.

### Accounts

Sign-up is `StartSignUp`, `CreateUser`, `DrawToken`, `SendEmail`, and the grant of a session; `forgot` and
`resendVerification` draw tokens too. `StartAnswer` is the look-up of a token, `VerifyEmail` and `Reset` the
save, which clears whichever token is stored by then. `StartLogin` / `StartRenew`, `CleanUpTokens`,
`CreateRefreshToken` are a grant of `authDelegate`. A request with an access token is `StartBearer` and
`Authenticate`, which includes the check of a ban. Sessions remember the log-outs before the log-in they go
back to, for `LogoutEndsSessions`.

### Viewing

`AuthenticateViewer`, `FindContent`, `AnswerContent` are the three reads of a select, the last one applying
`PhotoShown`, `VideoShown` or `LiveStreamShown` to what the request holds. `AnswerProfile` is the public
profile. Around them `PullFormer` / `PushNew` / `CancelActive` are the steps of webhooks, `Unlock` a processed
purchase, `MoveContent` and `RemoveFolder` the changes of the content and its album, `SetProfile` those of the
profile's settings.

## 3. Runs

| run | question | instance |
|---|---|---|
| `payments_tips` | types, refunds and payouts under interleaved tips and a stop | 2 users, 1 goal, 3 requests, 2 processes, no fault |
| `payments_faults` | what a fault may and may not break | the same with a content, deposits and changing targets, 2 requests, 1 fault |
| `payments_liveness` | every payment is processed, every tip of an expired goal given back | 2 requests, fair |
| `payments_paid_twice` | violated: a goal is paid once | 3 tips, 2 processes |
| `banning_events` | safety of bans under interleaving, edits and a fault | 1 user, 2 strikes, threshold 2, 2 processes |
| `banning_serial` | with one handler at a time, events in any order settle right; liveness | 2 users, 2 strikes, threshold 1, 1 process, fair |
| `banning_stale_ban` | violated: a user below the threshold is not banned by strikes | 3 strikes, 2 processes |
| `subscriptions_fans` | arrays, counters and sales agree while fans interleave | 2 fans, 1 creator, 3 sales, 6 webhooks, 1 fault, fair |
| `streams_serial` | one goal, announcements true, due and unique, goals end with their stream | 1 stream, 2 goals, 2 hours, 3 processes, 1 fault, fair |
| `stored_values` | counters, lists (refinement of `Collection`), ratings, covers, migrations | contents: 2 albums, 1 photo, 1 video, 2 processes, 1 view, 1 move, 1 restart; favourites: 2 users, 1 item, 2 calls, any restarts; reviews: 2 users, 2 reviews, 3 changes, 1 fault, a worker that goes on; uploads: 3 keys, 3 saves by 2 processes, any cuts; migrations: 6 documents, 3 runs, 1 stop |
| `messaging_overlap` | chats and messages that overlap; who is told | 2 users, 3 chats, 2 messages, 2 processes, 1 restart; 2 recipients, 2 notifications, 1 change of settings |
| `access` | who may do what, tokens and sessions, what is shown | resources: all 18, 2 users, 2 requests, 1 change of role; accounts: 2 users, 2 applications, 2 processes, 2 tokens, 4 requests, 1 cut; viewing: 2 users, 2 albums, 1 select, 3 events |

What each property says, with its lines, is in the comment above it. Why the bounds are enough to be
interesting: two processes let every pair of handlers interleave at each call, and every hazard in
`PROJECT.json` is between two handlers or between a handler and an event; three tips are needed to fill a goal
twice over from one snapshot; one fault reaches each point between two calls. Three strikes are needed for a
count to go stale in both directions. Three processes in `streams_serial` are a request and two overlapping
ticks, and two hours are two ticks. Three chats are two that overlapping upserts insert and the chat of a
stream. Three changes of reviews are two that overlap a job and one that comes after; two reviewed users let a
review be given away. Three keys are a file, its replacement and a cover. Two tokens are one that is answered
while another is drawn. Three runs of the migrations are up, down and up again. Three events around a select
are a renewal (two steps) and a move. Deadlock is checked in the two `banning` runs; elsewhere clients need
not send anything and bounds end all runs, so those systems may stop.

Every property of a passing run has a mutant of the code that violates it under the run's own instance
(`mutants` in `PROJECT.json`); a property that is a conjunction of two promises has one for each. `TypeOK` of
`Payments` is checked and proved. The types of the other modules (`TypeOK`, `AccountsTypeOK`,
`ResourcesTypeOK`, ...) take no run: they are parts of the inductive invariants of section 4 and proved there.

### Fairness

* Payments, Banning, Subscriptions, LiveStreams: `WF(Continue(p))`. Node resumes a handler once its database
  call has answered; nothing in the code holds one back.
* Payments: `WF(\E p : Handle(p))`: the broker delivers what is not lost.
* Banning: `SF` on the handler of each event. The code starts a handler per event, however many others run;
  weak fairness would let a bounded set of processes starve an event, an artefact of the bound.
* LiveStreams: also `WF` of time, of the cron tick, and of the handler of `liveStreams.completed`.
* StoredValues: `WF` of the worker of ratings, which Bull runs as long as there are jobs.
* No client request is fair, and a run with faults states its liveness properties up to a fault.

### What the violation runs show

1. **A goal is paid more than once** (`payments_paid_twice`). Each handler that increments a goal and finds it
   at its target saves it and pays the whole `currentAmount`; two tips in flight pay it twice, with different
   amounts (`PayoutsWithinFunding` bounds it).
2. **A ban from a stale count** (`banning_stale_ban`). Between the count and the ban a strike is revoked and
   its handler finds nobody to unban.

## 4. Proofs

All theorems are checked by `tlapm` to the last leaf. They hold for every value of the constants that
satisfies the named assumptions, so for any number of users, requests, events, faults and any bounds, where the
runs check one small instance. Every invariant was first checked by TLC.

### Assumptions and hypotheses

Most assumptions type the constants (`GoalsAssumption`, `SalesAssumption`, ...), say that a missing value is
not a value (`None`, `Nobody`, `Everyone`), or that ids of different collections differ (`PhotosAssumption`,
`DocumentsAssumption`, `ThingsAssumption`, and `Goals` and `Contents` in `GoalsAssumption`; that no document is
its owner's id in `CreatorOfAssumption`): all are ObjectIds drawn by MongoDB. Some sets are finite, because
something is counted over them: processes of `Payments`; users, contents and processes of `Contents`; reviews;
strikes; the users of `Subscriptions`; the clients of `Chats`. A database and a running process hold finitely
many of each.

Four theorems have a hypothesis, which is that of the run they generalise, since section 6 lists what happens
without it:

* `OneActiveGoalAlways`: `~Overlap`, the requests about one stream come one at a time;
* `SubscribersToldRightAlways`: the same and `OneNode`, the cron job runs on one node;
* `BanMatchesStrikesAlways`: `OneHandler`, strikes are handled one at a time, in any order;
* `SubscriptionsAgreeAlways` (and the types it needs): `FansServedApart`, the webhooks of one fan come one after
  the other, while those of different fans interleave.

### Arguments

Each theorem about a state follows from an inductive invariant: one lemma for the initial states, one per
action (or per class of actions that do the same to the state in question), and a step by `PTL`.

* **Payments** (`PaymentsProofs`). `IInv` (`TypesKept`, `NeverOverdrawn`): a call holds its sum while it waits,
  so the invariant knows the sign of each type of record and of what a process is about to move. `RInv`
  (`RefundedAtMostOnce`, `RefundsMatchTips`): ordinary calls create no refunds; a process that refunds holds
  processed tips of a goal it has expired, which is no longer active; at most one process deals with the tips
  of a goal, since expiring is one conditional update; tips found have no refund yet, and refunds in progress
  are of different tips. `AmountsInv` (`PayoutsWithinFundingAlways`): payouts of a goal, held or recorded, have
  different amounts, none above what the goal has collected; amounts differ because each is the amount after
  an increment by a tip, and goals only grow. `UnlockedFirst` (`PurchasesBackedAlways`): who is about to mark a
  purchase has unlocked the content. `LInv` (`LedgerReconcilesAlways`, `GoalFundedByTipsAlways`,
  `EffectsBackedAlways`): every sum is that of a function, to which a step adds an argument, or takes one from;
  that an argument is new rests on `MarksOnce`: an event in flight and a handler about to mark are about a
  record that nobody counted.
* **Sums** (`SumsProofs`). `Total` folds a function over its finite domain. That the fold is defined, and that
  any element may be added last, is shown by induction over finite subsets, stated for a set of subsets so
  that it needs no operator as a parameter.
* **Banning** (`BanningProofs`). `StrikesInv` (`BanNeedsStrikesAlways`): a handler that decided to ban counted
  enough strikes, and strikes given are never ungiven. `AdminBanHoldsAlways` is an action property. `SettledInv`
  (`BanMatchesStrikesAlways`): for each user, a ban that is missing has a `strikes.created` event or a handler
  underway that will see it, a needless ban a `strikes.revoked`, and the count a handler holds is overtaken
  only by strikes whose events are still to come.
* **Subscriptions** (`SubscriptionsProofs`). `SInv`: what a call read, counted or changed is still so
  (`HoldsTrue`), because no other call is about its fan and calls of others change other members of a
  creator's subscribers (`StepAbout`, `OthersKept`); a call leaves the counters of its fan open until it sets
  them and the membership in one creator's list until it ends (`FanAgrees`). `WithoutIs` is what the recursive
  function `Without` returns, by induction over the length.
* **Live streams** (`LiveStreamsProofs`). `RequestsInv`: requests are alone at their stream, so what they read
  still allows what they save, and a goal found absent stays absent. `CronInv`: a tick lists only streams whose
  claim it made itself, at its own time, so no two ticks announce one stream.
* **Stored values** (`StoredProofs`). `StoredListsMergeCalls`: lists of favourites implement `Collection`, for
  each action a step of `Collection` or a stutter: `ReadList` is `Call`; `SaveList` makes the change of the own
  document and drops it from what is owed, or is `Abandon` when the document is gone; `MirrorToOwner` makes the
  last change; `Restart` is `Abandon`. `CounterFollowsReadAlways` is an action property. `AlbumsInv` and
  `ViewsInv` (`ContentCountersAlways`): what an album counts, with what is about to be counted, is at most what
  it holds and what was moved away; views of users and views of contents differ by the requests between the two
  increments. `RatingsInv` (`RatingSettledAlways`): every user whose rating is not that of the reviews is
  `behind`, has a job to come, or one that holds the right average. `FilmsInv` (`FilmWholeAlways`): a saver
  knows a cover that is a frame of the file it will store. `MigrationsInv` (`PositionTrueAlways`,
  `CountsSurviveAlways`): the documents a run has done have the form of its migration, those of earlier
  migrations keep theirs, and no document has a counter under two names unless a way down was cut short.
* **Messaging** (`MessagingProofs`). `NoticeInv` (`DeliveredAlways`): each recipient is still to be looked up, was
  found, or left. `DocsInv` types chats and messages and what requests hold of them (`GoneWithChatAlways`).
  `FewInv` (`FewChatsAlways`): the chats of a pair with the upserts about to insert one are at most the
  clients. `CountInv` (`CounterNotOverstatedAlways`): as for albums.
* **Access** (`AccessProofs`). `TokensInv` (`TokensServeOnceAlways`): no token drawn later is one that was
  answered. `SessionsInv` (`LogoutEndsSessionsAlways`): a grant that no log-out overlapped goes back to a log-in
  since which it saw none. `BansInv` (`BanShutsOutAlways`): a request that began under a ban is of a user still
  suspended. `ResourcesInv` (`OwnersOnlyAlways`, `PrivateKeptAlways`, `OwnerReturnsAlways`): what a request of no
  admin will locate, write and answer is its user's (`OwnRun`), shown per controller from its `pre`,
  conditions and filters. `ViewingInv` (`ShownAsPaidAlways`): who is a fan, or has unlocked a thing, is in the
  history of those who paid.

### Only model-checked

Liveness under fairness, and `ENABLED`, are out of the prover's reach: `PaymentsProcessed`,
`TipsOfExpiredGoalRefunded`, `ThresholdBans`, `RevokedContentShown`, `BannedLoggedOut`, `SaleSubscribes`,
`DueAnnounced`, `CompletedGoalsExpire`, `JobsEnd`. Every invariant and every action property that a run checks
is also proved. No module that is proved about reaches a RECURSIVE operator; recursion is by functions
(`Without`) and by the folds of the community modules (`Sums`). Induction is used where it can be stated for a
set instead of an operator: over finite subsets (`SubsetInduction`) and over numbers (`NaturalsInduct`), both
from the well-foundedness theorems of the library.

## 5. Not modelled

* `metadata`: constant dictionaries. The remaining middlewares, `server.ts` and configuration are wiring of
  libraries.
* The queue behind `sendEmail` (`email.molecule.ts`): it calls an external service and has the retries that
  `Reviews` models. What callers can tell of it, that an e-mail may be lost and nobody is told, is in
  `SendEmail` and `Mail`.
* Social sign-in: outside the emulation of the tests no path reaches it. `changePassword` writes one field of
  the caller.
* Inside the modelled components: wording of notifications, digests of ccBill, logging, the validation of
  bodies against JSON schemas, searches and statistics, tags, titles and similar data that no rule reads.
* Time enters where a rule compares it (the start of a stream, the date of a token); access tokens expire by
  themselves and have no state.

## 6. Behaviour seen with TLC that has no run

These follow from the modules under weaker instances; they are recorded so that a reader does not take the
runs for more than they say.

* Two tips capped from one snapshot overfund a goal (`goal.controller.ts:393`).
* A late tip turns an expired goal into a reached one (`payment.molecule.ts:57`).
* Two rulings on one strike overwrite each other (`strike.controller.ts:299`), although the model's transition
  table admits only one.
* With two banning handlers at a time, an unban may follow a stale count (`banning.molecule.ts:63`), and may
  lift a ban that an admin gave after the reason was read (`banning.molecule.ts:61-63`).
* Two overlapping sales of one fan to one creator leave two subscriptions (`ccBill.service.ts:216-226`); a
  cancellation that overtakes the end of the sale leaves the fan among the subscribers
  (`ccBill.service.ts:228`). The run keeps the webhooks of one fan one after the other.
* With `Overlap = TRUE`, two goals of one stream become active, schedule overwrites a start (the stream goes
  back from on air to scheduled), and a goal created while its stream stops stays active for ever:
  `OneActiveGoal`, `ToldWhatHappened`, `AnnouncedWhenDue` and `CompletedGoalsExpire` are violated; that a
  stream has its chat holds.
* With two application processes whose ticks fall on the same millisecond, both fetch what either claimed and
  subscribers are told twice (`liveStreams.molecule.ts:38-42`).
* A stream that was started early, or is over, is still announced as starting: the claim does not look at the
  state (`liveStreams.molecule.ts:28-32`).
* A content can be bought twice, and `goal.cancel` and `goal.complete` answer with a changed goal that is
  never stored (`goal.controller.ts:415-423`, `goal.model.ts:124-134`).
* A tip still in flight when its goal expires is counted into the expired goal and never given back
  (`goals.molecule.ts:33` asks for `processedAt`); the seller of a content is not paid, for the payment takes
  `owner` from a projection of `ref refModel` (`payment.molecule.ts:82`); `subscribersCounter` is not
  decremented by a cancellation (`ccBill.service.ts:248`).
* A form stays good after its creator has no price any more (`ccBill.service.ts:19`).
* Two removals of one photo or message take two off the counter (`photo.controller.ts:593`,
  `message.model.ts:80`), and photos that an admin moved stay counted where they were: a counter may show less
  than there is, never more.
* Overlapping calls on a list leave its counter stale until the next call; the favourites of an owner that
  were mirrored are not counted (`array-with-counter.restdone.plugin.ts:147`, `photo.controller.ts:500`).
* A review given to another user leaves the rating of the former one (`review.controller.ts:163`); the rating
  of a user whose last review was removed is never updated (`review.model.ts:104`). With two workers a rating
  could stay stale; the queue of a process works on one job at a time.
* Migration 3 uses `updateOne` and fills one user; a way down of 5 or 9 that is cut short and then taken up
  hides counters under their old names, and a later way down overwrites them. `cutDown` excludes exactly this.
* A url may be saved before its file is in the bucket. `publicUrl` is the url itself, which the code marks as
  to do.
* Two overlapping upserts make two private chats; the selector of `deleteChat` does not ask for the type and
  may find the chat of a live stream that both users joined (`chat.controller.ts:345`). Update and delete of a
  chat under the path of a user locate nothing, for chats have no field `user`.
* A system notification wraps its recipients in an array, so one for everyone is never made
  (`systemNotification.controller.ts:165`).
* An admin's update of a comment makes the admin its author, and an overlapping update of the former author
  takes it back (`comment.controller.ts:188`). Admins remove only their own reports and feedback, change only
  strikes they created, and may set the `state` of a strike by a plain update. In admin mode a message cannot
  be inserted or changed (`message.controller.ts:366` reads the chat that `pre` did not look up), and a goal
  can be stored without owner.
* A socket keeps the user, the ban and the admin flag it connected with (`base.restdone.controller.ts:182`
  marks it as to do); a banned user may log in; `endpointWhitelist` compares paths and not methods; a reset of
  the password leaves other sessions, a removal of a user its refresh tokens, and a change of address
  `emailVerified`.
* During a renewal (pull, then push) a fan is for a moment not shown the urls that were paid; `isSubscribedTo`
  does not look at `active`. `emailVerified` is never public, since the comparison for one's own profile is of
  a string with an ObjectId.

## 7. Plan

Modelled first because most is at stake: money (`Payments`), bans (`Banning`), subscriptions
(`Subscriptions`), streams and goals (`LiveStreams`); then the values stored beside what they are derived from
(`StoredValues`), messaging, and access. Every safety property of the runs is proved. What is left:

1. Abstract specifications beside `Collection`, with their refinements proved: a bank account as the promise of
   `Payments` (a balance that only changes by entries that are listed), a set of standing strikes as that of
   `Banning`.
2. What liveness rests on and can be proved: that the handler of an event is never stuck, stated as
   invariants (every process that runs has a next step, for each value of its `pc`).
3. Weaker hypotheses: `BanMatchesStrikes` for handlers that overlap but are about different users.
