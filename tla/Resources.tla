------------------------------ MODULE Resources ------------------------------
(***************************************************************************)
(* The REST resources: who may insert, change, remove and select their     *)
(* documents.  Every controller gives restdone its actions and fields and  *)
(* a handler "pre", which refuses a request, narrows what it locates or    *)
(* sets the owner it writes.  A request reads the role of its user, then   *)
(* what pre needs, then the document, and at last writes it: four steps.   *)
(* A behaviour is about one document of one resource; "owner" is its       *)
(* author, owner, creator or recipient.                                    *)
(***************************************************************************)
EXTENDS Integers

CONSTANTS
  Users,
  Nobody,   \* no owner
  Requests, \* running requests
  MaxRoles  \* bound: admin flags set or cleared

ASSUME UsersAssumption == Nobody \notin Users
ASSUME RolesAssumption == MaxRoles \in Nat

VARIABLES
  scene,   \* the resource, the keepers of the parent document (the owner of
           \* the album or live stream, the participants of the chat) and the
           \* user named in the path of a strike; they do not change
  doc,     \* the document
  admins,  \* users whose admin flag is set
  flags,   \* user |-> the values of its flag that open sockets may hold
  roles,   \* changes of admins (bounded by MaxRoles)
  request  \* request |-> where it is and what it holds

resourceVars == <<scene, doc, admins, flags, roles, request>>

-----------------------------------------------------------------------------
(* Resources: actions, whether /admin paths exist, and whether what the    *)
(* program keeps in a document (counters, state, suspension) is read-only. *)

CRUD == {"insert", "update", "delete", "select"}
Resource(actions, expanded, readOnly) ==
  [actions |-> actions, expanded |-> expanded, readOnly |-> readOnly]

CommentController == Resource(CRUD, FALSE, TRUE)
ReportController == Resource(CRUD \ {"update"}, FALSE, TRUE)
FeedbackController == Resource(CRUD \ {"update"}, FALSE, TRUE)
RewardController == Resource(CRUD, FALSE, TRUE)
ReviewController == Resource(CRUD, TRUE, TRUE)
UserConfigController == Resource(CRUD, FALSE, TRUE)
BalanceRecordController == Resource(CRUD \ {"insert"}, FALSE, FALSE)
SystemNotificationController == Resource(CRUD, FALSE, TRUE)
NotificationController == Resource(CRUD \ {"insert"}, FALSE, FALSE)
StrikeController == Resource(CRUD, TRUE, FALSE)
GoalController == Resource(CRUD, TRUE, TRUE)
MessageController == Resource(CRUD, TRUE, TRUE)
PhotoController == Resource(CRUD, TRUE, TRUE)
AlbumController == Resource(CRUD, TRUE, TRUE)
VideoController == Resource(CRUD, TRUE, TRUE)
LiveStreamController == Resource(CRUD, FALSE, TRUE)
UserController == Resource(CRUD \ {"insert"}, TRUE, TRUE)
ChatController == Resource(CRUD \ {"insert"}, FALSE, TRUE)

Controllers ==
  [comment |-> CommentController, report |-> ReportController,
   feedback |-> FeedbackController, reward |-> RewardController,
   review |-> ReviewController, userConfig |-> UserConfigController,
   balanceRecord |-> BalanceRecordController,
   systemNotification |-> SystemNotificationController,
   notification |-> NotificationController, strike |-> StrikeController,
   goal |-> GoalController, message |-> MessageController,
   photo |-> PhotoController, album |-> AlbumController,
   video |-> VideoController, liveStream |-> LiveStreamController,
   user |-> UserController, chat |-> ChatController]
Kinds == DOMAIN Controllers
Controller == Controllers[scene.kind]

(* Schemas: the field of the owner, and whether a document must have one.   *)
Schema(field, required) == [field |-> field, required |-> required]

CommentSchema == Schema("author", TRUE)
ReportSchema == Schema("author", TRUE)
FeedbackSchema == Schema("author", TRUE)
RewardSchema == Schema("none", FALSE)
ReviewSchema == Schema("author", TRUE)
UserConfigSchema == Schema("user", TRUE)
BalanceRecordSchema == Schema("owner", TRUE)
SystemNotificationSchema == Schema("author", FALSE)
NotificationSchema == Schema("recipients", FALSE)
StrikeSchema == Schema("creator", TRUE)
GoalSchema == Schema("owner", FALSE)
MessageSchema == Schema("author", TRUE)
PhotoSchema == Schema("owner", TRUE)
AlbumSchema == Schema("owner", TRUE)
VideoSchema == Schema("owner", TRUE)
LiveStreamSchema == Schema("owner", TRUE)
UserSchema == Schema("_id", TRUE)
ChatSchema == Schema("none", FALSE)

Schemas ==
  [comment |-> CommentSchema, report |-> ReportSchema,
   feedback |-> FeedbackSchema, reward |-> RewardSchema,
   review |-> ReviewSchema, userConfig |-> UserConfigSchema,
   balanceRecord |-> BalanceRecordSchema,
   systemNotification |-> SystemNotificationSchema,
   notification |-> NotificationSchema, strike |-> StrikeSchema,
   goal |-> GoalSchema, message |-> MessageSchema, photo |-> PhotoSchema,
   album |-> AlbumSchema, video |-> VideoSchema,
   liveStream |-> LiveStreamSchema, user |-> UserSchema, chat |-> ChatSchema]

Owned == Schemas[scene.kind].field # "none"
NeedsOwner == Schemas[scene.kind].required

(* Contents and messages can be banned; a banned one is for its owner and  *)
(* for requests in admin mode.                                             *)
Bannable == {"photo", "album", "video", "message"}

-----------------------------------------------------------------------------
(* pre.  A request r has the user, the user's role, the mode (an /admin    *)
(* path), the action, and the owner it names or Nobody.  pre tells whether *)
(* the request goes on, whose documents it locates, and the owner it       *)
(* writes.                                                                 *)

Anyone == Users \cup {Nobody}
Pre(may, find, write) == [may |-> may, find |-> find, write |-> write]
Named(r) == IF r.named = Nobody THEN Anyone ELSE {r.named}
Own(r) == Pre(TRUE, {r.user}, r.user)
Selects(r) == r.action = "select"
NamedOrOwn(r) == IF r.named = Nobody THEN r.user ELSE r.named
Stored == doc.life = "stored"

(* Mutants: the author of the comment is not compared; the author is taken *)
(* from the body.                                                          *)
AnyComment(r) == Pre(TRUE, Anyone, r.user)
AuthorOfBody(r) ==
  Pre(Selects(r) \/ r.admin \/ doc.owner = r.user, Anyone, NamedOrOwn(r))

CommentPre(r) ==
  Pre(Selects(r) \/ r.admin \/ ~Stored \/ doc.owner = r.user, Anyone, r.user)

ReportPre(r) ==
  IF Selects(r) /\ r.admin THEN Pre(TRUE, Named(r), r.user) ELSE Own(r)

(* Mutant: a select keeps the author of the path.                          *)
FeedbackOfPath(r) == Pre(TRUE, Named(r), r.user)

FeedbackPre(r) ==
  IF Selects(r) /\ r.admin
  THEN Pre(TRUE, Named(r), r.user)
  ELSE [Own(r) EXCEPT !.may = Selects(r) => r.named = r.user]

RewardPre(r) == Pre(Selects(r) \/ r.admin, Anyone, Nobody)

(* An admin path takes the author from the request.  A list of all reviews *)
(* is for admins, but reviews are public.                                  *)
ReviewPre(r) ==
  IF r.mode \/ Selects(r) THEN Pre(TRUE, Anyone, r.named) ELSE Own(r)

UserConfigPre(r) == Pre(r.admin \/ r.named = r.user, Named(r), r.named)

BalanceRecordPre(r) ==
  Pre(Selects(r) /\ (r.admin \/ r.named \in {Nobody, r.user}),
      {NamedOrOwn(r)}, Nobody)

SystemNotificationPre(r) ==
  Pre(r.admin, Anyone, IF r.action = "insert" THEN r.user ELSE r.named)

(* A notification without recipients is for everyone.                      *)
NotificationPre(r) ==
  Pre(Selects(r) /\ (r.admin \/ r.named \in {Nobody, r.user}),
      {NamedOrOwn(r), Nobody}, Nobody)

(* Admins change the strikes they created; users select theirs, told by    *)
(* targetUser.                                                             *)
StrikePre(r) ==
  Pre(r.mode \/ Selects(r),
      IF ~Selects(r) THEN {r.user}
      ELSE IF r.mode \/ scene.target = r.user THEN Anyone ELSE {},
      r.user)

(* Only the owner of the live stream changes its goals.                    *)
GoalPre(r) ==
  LET owner == IF r.mode THEN r.named ELSE r.user
  IN IF Selects(r) THEN Pre(TRUE, Anyone, Nobody)
     ELSE Pre(owner # Nobody => owner \in scene.keepers,
              IF r.mode THEN Anyone ELSE {r.user}, owner)

(* Outside of admin mode the chat must have the author.  A request in      *)
(* admin mode has no chat, and beforeSave fails.                           *)
MessagePre(r) ==
  LET author == NamedOrOwn(r)
  IN Pre(r.mode \/ (author = r.user /\ author \in scene.keepers),
         IF Selects(r) THEN Named(r) ELSE {author},
         author)
MessageFails(r) == r.mode /\ r.action \in {"insert", "update"}

(* Outside of admin mode the album must belong to the user.                *)
PhotoPre(r) ==
  IF Selects(r) \/ r.mode THEN Pre(TRUE, Anyone, r.named)
  ELSE [Own(r) EXCEPT !.may = r.user \in scene.keepers]

(* A change names the owner or means oneself, in admin mode too.           *)
AlbumPre(r) ==
  IF Selects(r) THEN Pre(TRUE, Named(r), Nobody)
  ELSE Pre(r.mode \/ r.named \in {Nobody, r.user}, {NamedOrOwn(r)},
           NamedOrOwn(r))
VideoPre(r) ==
  IF Selects(r) THEN Pre(TRUE, Named(r), Nobody)
  ELSE Pre(r.named # Nobody => r.mode \/ r.named = r.user, {NamedOrOwn(r)},
           NamedOrOwn(r))

(* No admin paths: the role decides.                                       *)
LiveStreamPre(r) ==
  IF Selects(r) THEN Pre(TRUE, Named(r), Nobody)
  ELSE Pre(r.admin \/ r.named \in {Nobody, r.user}, {NamedOrOwn(r)},
           NamedOrOwn(r))

(* The document of a user is its own; lists are for admin paths.  Users    *)
(* are inserted by sign-up (module Accounts), chats by openChat (Chats).   *)
UserPre(r) == Pre(r.mode \/ r.named = r.user, Named(r), Nobody)

(* A select locates the chats of the user in the path; a change would look *)
(* for a field "user" that chats do not have.                              *)
ChatConditions(r) ==
  IF r.named = Nobody \/ (Selects(r) /\ r.named \in scene.keepers)
  THEN Anyone ELSE {}
ChatPre(r) == Pre(r.admin \/ r.named = r.user, ChatConditions(r), Nobody)

PreOf(r) ==
  CASE scene.kind = "comment" -> CommentPre(r)
    [] scene.kind = "report" -> ReportPre(r)
    [] scene.kind = "feedback" -> FeedbackPre(r)
    [] scene.kind = "reward" -> RewardPre(r)
    [] scene.kind = "review" -> ReviewPre(r)
    [] scene.kind = "userConfig" -> UserConfigPre(r)
    [] scene.kind = "balanceRecord" -> BalanceRecordPre(r)
    [] scene.kind = "systemNotification" -> SystemNotificationPre(r)
    [] scene.kind = "notification" -> NotificationPre(r)
    [] scene.kind = "strike" -> StrikePre(r)
    [] scene.kind = "goal" -> GoalPre(r)
    [] scene.kind = "message" -> MessagePre(r)
    [] scene.kind = "photo" -> PhotoPre(r)
    [] scene.kind = "album" -> AlbumPre(r)
    [] scene.kind = "video" -> VideoPre(r)
    [] scene.kind = "liveStream" -> LiveStreamPre(r)
    [] scene.kind = "user" -> UserPre(r)
    [] scene.kind = "chat" -> ChatPre(r)

-----------------------------------------------------------------------------
(* assignFilter: an update does not take the owner from everyone.          *)

PhotoTakesOwner(r) == r.action = "update" => r.mode
AlbumTakesOwner(r) == r.action = "update" => r.mode
VideoTakesOwner(r) == r.action = "update" => r.mode
LiveStreamTakesOwner(r) == r.action = "update" => r.admin
StrikeTakesOwner(r) == r.action = "update" => r.admin

TakesOwner(r) ==
  CASE scene.kind = "photo" -> PhotoTakesOwner(r)
    [] scene.kind = "album" -> AlbumTakesOwner(r)
    [] scene.kind = "video" -> VideoTakesOwner(r)
    [] scene.kind = "liveStream" -> LiveStreamTakesOwner(r)
    [] scene.kind = "strike" -> StrikeTakesOwner(r)
    [] OTHER -> TRUE

-----------------------------------------------------------------------------
(* Requests                                                                *)

NoRequest == [pc |-> "none"]
At(p, pc) == request[p].pc = pc
Become(p, r) == request' = [request EXCEPT ![p] = r]
Finish(p) == Become(p, NoRequest)
Keep == UNCHANGED <<scene, admins, flags, roles>>

(* Resources whose paths always name the user.                             *)
NamedByPath == {"feedback", "userConfig", "balanceRecord", "notification"}

ResourcesInit ==
  /\ scene \in [kind : Kinds, keepers : SUBSET Users, target : Anyone]
  /\ scene.keepers # {} => scene.kind \in {"goal", "photo", "message", "chat"}
  /\ scene.target # Nobody <=> scene.kind = "strike"
  /\ doc \in [life : {"none", "stored"}, owner : Anyone, system : {"program"}]
  /\ doc.life = "none" => doc.owner = Nobody /\ "insert" \in Controller.actions
  /\ doc.life = "stored" /\ doc.owner = Nobody
       => ~NeedsOwner /\ scene.kind # "systemNotification"
  /\ ~Owned => doc.owner = Nobody
  /\ admins \in SUBSET Users
  /\ flags = [u \in Users |-> {u \in admins}]
  /\ roles = 0
  /\ request = [p \in Requests |-> NoRequest]

(* An /admin path is for users whose flag is set when they are read.       *)
MayUseAdminPath(u) == Controller.expanded /\ u \in admins

(* The scope of a request: over HTTP the user is read by the access token, *)
(* and an /admin path gives admin mode; a socket keeps the user that was   *)
(* read when it connected, and is never in admin mode.                     *)
Scopes(u) ==
  {[admin |-> u \in admins, mode |-> m] : m \in {FALSE, MayUseAdminPath(u)}}
    \cup {[admin |-> flag, mode |-> FALSE] : flag \in flags[u]}

(* The request is authenticated.  It names a document that was stored:     *)
(* identifiers are made when a document is, but keys of user               *)
(* configurations are not.  What the program keeps is sent only where it   *)
(* is not read-only: elsewhere it is dropped.                              *)
Receive(p) ==
  /\ At(p, "none")
  /\ \E u \in Users, a \in Controller.actions, sends \in BOOLEAN,
        named \in IF scene.kind \in NamedByPath THEN Users ELSE Anyone :
     \E scope \in Scopes(u) :
       /\ sends => a \in {"insert", "update"} /\ ~Controller.readOnly
       /\ a # "insert" => doc.life # "none" \/ scene.kind = "userConfig"
       /\ Become(p, [pc |-> "pre", user |-> u, admin |-> scope.admin,
                     mode |-> scope.mode, action |-> a, named |-> named,
                     sends |-> sends])
  /\ UNCHANGED doc /\ Keep

(* pre, with what it reads.                                                *)
Prepare(p) ==
  LET r == request[p]
      pre == PreOf(r)
  IN
    /\ At(p, "pre")
    /\ IF pre.may
       THEN Become(p, [pc |-> IF r.action = "insert" THEN "save" ELSE "locate",
                       user |-> r.user, admin |-> r.admin, mode |-> r.mode,
                       action |-> r.action, sends |-> r.sends,
                       find |-> pre.find, write |-> pre.write,
                       seen |-> doc.owner, read |-> doc.system,
                       fails |-> scene.kind = "message" /\ MessageFails(r)])
       ELSE Finish(p)
    /\ UNCHANGED doc /\ Keep

(* Outside of admin mode a banned document is for its owner.               *)
Visible(r) ==
  scene.kind \in Bannable /\ doc.system = "banned"
    => r.mode \/ doc.owner = r.user

(* The document is located, or there is none.                              *)
Locate(p) ==
  LET r == request[p]
      next == [update |-> "save", delete |-> "remove", select |-> "answer"]
  IN
    /\ At(p, "locate")
    /\ IF Stored /\ doc.owner \in r.find /\ Visible(r)
       THEN Become(p, [r EXCEPT !.pc = next[r.action], !.read = doc.system, !.find = {},
                       !.seen = IF r.user = @ THEN @ ELSE doc.owner])
       ELSE IF scene.kind = "userConfig" /\ r.action = "update" /\ ~Stored
       THEN Become(p, [r EXCEPT !.pc = "save", !.action = "insert"])
       ELSE Finish(p)
    /\ UNCHANGED doc /\ Keep

(* A save sends what the request changed, what the program keeps included. *)
SavedSystem(r) ==
  IF r.sends THEN "client" ELSE doc.system

(* A new document is stored; an update sends what changed.  A document     *)
(* that needs an owner is not stored without one.                          *)
Save(p) ==
  LET r == request[p]
      owner == IF r.write # Nobody /\ TakesOwner(r) THEN r.write ELSE doc.owner
  IN
    /\ At(p, "save")
    /\ \/ /\ r.action = "insert"
          /\ doc.life = "none"
          /\ ~r.fails
          /\ NeedsOwner => r.write # Nobody
          /\ doc' = [life |-> "stored", owner |-> r.write,
                     system |-> SavedSystem(r)]
       \/ /\ r.action = "update"
          /\ Stored
          /\ ~r.fails
          /\ doc' = [doc EXCEPT !.owner = owner, !.system = SavedSystem(r)]
       \/ UNCHANGED doc  \* invalid, refused by the database, or removed
    /\ Finish(p)
    /\ Keep

Remove(p) ==
  /\ At(p, "remove")
  /\ doc' = [doc EXCEPT !.life = "removed"]
  /\ Finish(p)
  /\ Keep

Answer(p) ==
  /\ At(p, "answer")
  /\ Finish(p)
  /\ UNCHANGED doc /\ Keep

(* An admin bans the document.                                             *)
Ban ==
  /\ scene.kind \in Bannable
  /\ Stored
  /\ admins # {}
  /\ doc' = [doc EXCEPT !.system = "banned"]
  /\ UNCHANGED request /\ Keep

(* An admin sets or clears the admin flag of a user.                       *)
SetRole ==
  /\ roles < MaxRoles
  /\ admins # {}
  /\ \E u \in Users :
       /\ admins' = (admins \cup {u}) \ (admins \cap {u})
       /\ flags' = [flags EXCEPT ![u] = @ \cup {u \in admins'}]
  /\ roles' = roles + 1
  /\ UNCHANGED <<scene, doc, request>>

ResourcesNext ==
  \/ \E p \in Requests :
       \/ Receive(p) \/ Prepare(p) \/ Locate(p)
       \/ Save(p) \/ Remove(p) \/ Answer(p)
  \/ Ban
  \/ SetRole
=============================================================================
