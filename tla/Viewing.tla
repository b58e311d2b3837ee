------------------------------- MODULE Viewing --------------------------------
(***************************************************************************)
(* What a select answers: the url of a photo, video or live stream only to *)
(* its owner, to subscribers of the owner and to whoever bought it (for a  *)
(* photo, its album), and of a public profile only what its user allows.   *)
(* The rules are applied in memory to documents read one after the other:  *)
(* the user when the request is authenticated, then the content or the     *)
(* profile, then what it refers to.  Meanwhile webhooks renew and cancel   *)
(* subscriptions, payments unlock contents, admins move and remove them.   *)
(* A behaviour is about one content and the profile of one of its owners.  *)
(***************************************************************************)
EXTENDS Integers

CONSTANTS
  Viewers,   \* users
  Makers,    \* users who may own the content
  Folders,   \* albums
  Views,     \* running selects
  MaxEvents  \* bound: what else happens

ASSUME MakersAssumption == Makers \subseteq Viewers /\ MaxEvents \in Nat

VARIABLES
  content,   \* the content
  folders,   \* albums that are stored
  fans,      \* <<user, creator>> of the subscriptions
  active,    \* those that are not cancelled
  renewing,  \* those taken out by the webhook of a sale, to be put back
  unlocked,  \* <<user, thing>> of the purchases, by refModel and ref
  profile,   \* what the profile allows to show
  paid,      \* <<user, creator or thing>> ever paid (for the properties)
  view,      \* what a select has read, and answered
  events     \* what else happened (bounded by MaxEvents)

subscribing == <<fans, active, renewing>>
viewingVars ==
  <<content, folders, subscribing, unlocked, profile, paid, view, events>>

-----------------------------------------------------------------------------
(* Things that are bought, and the content with where it is.               *)
Content == [refModel |-> "Content"]
Album(f) == [refModel |-> "Album", ref |-> f]
Things == {Content} \cup {Album(f) : f \in Folders}

(* Users are no things, nor what is left where an album was removed.       *)
ASSUME ThingsAssumption == Makers \cap (Things \cup {Album("removed")}) = {}

(* Fields of a public profile that depend on its settings: some on         *)
(* publicFields, the counter on showSubscribersCounter.  emailVerified is  *)
(* never allowed: publicFields has no such flag, and the comparison of ids *)
(* for one's own profile is of a string with an ObjectId.                  *)
PublicFlags == {"birthDate", "fullName", "location"}
ExtraPublicFields == PublicFlags \cup {"emailVerified", "showSubscribersCounter"}
BasePublicFields == {"username", "subscribersCounter"}

NoView == [pc |-> "none"]
ViewAt(p, pc) == view[p].pc = pc
ViewGoesOn(p, v) == view' = [view EXCEPT ![p] = v]
Apart == UNCHANGED <<content, folders, subscribing, unlocked, profile, paid,
                     events>>

NothingPaid ==
  /\ folders = Folders
  /\ fans = {}
  /\ active = {}
  /\ renewing = {}
  /\ unlocked = {}
  /\ profile = PublicFlags \cup {"subscribersCounter"}
  /\ paid = {}
  /\ view = [p \in Views |-> NoView]
  /\ events = 0

ViewingInit ==
  /\ content \in [kind : {"photo", "video", "liveStream"}, life : {"stored"},
                  owner : Makers, album : Folders]
  /\ NothingPaid

-----------------------------------------------------------------------------
(* The rules                                                               *)

IsSubscribedTo(v, owner) == v.user = owner \/ owner \in v.subscriptions
HasPurchasedContent(v, thing) == thing \in v.purchases

(* Mutant: the photo is looked up among the purchases, not its album.      *)
PhotoBoughtItself(v) ==
  IsSubscribedTo(v, v.owner) \/ HasPurchasedContent(v, Content)

(* An album that was removed is populated with nothing.                    *)
PhotoShown(v) ==
  \/ IsSubscribedTo(v, v.owner)
  \/ v.album \in Folders /\ HasPurchasedContent(v, Album(v.album))
VideoShown(v) ==
  IsSubscribedTo(v, v.owner) \/ HasPurchasedContent(v, Content)
LiveStreamShown(v) ==
  IsSubscribedTo(v, v.owner) \/ HasPurchasedContent(v, Content)

UrlShown(v) ==
  CASE content.kind = "photo" -> PhotoShown(v)
    [] content.kind = "video" -> VideoShown(v)
    [] content.kind = "liveStream" -> LiveStreamShown(v)

(* The fields of a public profile that are fetched, and those answered.    *)
FetchingFields == BasePublicFields \cup ExtraPublicFields
ProfileShown(allowed) ==
  LET counted == IF "subscribersCounter" \in allowed THEN FetchingFields
                 ELSE FetchingFields \ {"subscribersCounter",
                                        "showSubscribersCounter"}
      extra == PublicFlags \cap allowed
  IN counted \ (ExtraPublicFields \ extra)

-----------------------------------------------------------------------------
(* A select                                                                *)

(* What u paid for and still holds: a cancelled subscription may be held.  *)
Due(u) ==
  {x \in paid : x[1] = u /\ (x \in active \/ x \in unlocked)}

(* The user is read with its subscriptions and purchases.                  *)
AuthenticateViewer(p) ==
  /\ ViewAt(p, "none")
  /\ \E u \in Viewers :
       ViewGoesOn(p, [pc |-> "find", user |-> u, due |-> Due(u),
                      subscriptions |-> {x[2] : x \in {y \in fans : y[1] = u}},
                      purchases |-> {x[2] : x \in {y \in unlocked : y[1] = u}}])
  /\ Apart

(* The content is read, or the select answers that there is none.          *)
FindContent(p) ==
  LET v == view[p]
  IN
    /\ ViewAt(p, "find")
    /\ ViewGoesOn(p, IF content.life = "stored"
                     THEN [pc |-> "populate", user |-> v.user, due |-> v.due,
                           subscriptions |-> v.subscriptions,
                           purchases |-> v.purchases,
                           owner |-> content.owner, album |-> content.album]
                     ELSE NoView)
    /\ Apart

(* The album is populated by another query, and the rules are applied.     *)
AnswerContent(p) ==
  LET v == [view[p] EXCEPT !.album = IF @ \in folders THEN @ ELSE "removed"]
  IN
    /\ ViewAt(p, "populate")
    /\ ViewGoesOn(p, [pc |-> "content", user |-> v.user, due |-> v.due,
                      owner |-> v.owner, album |-> v.album,
                      shown |-> UrlShown(v)])
    /\ Apart

(* A public profile needs no user.                                         *)
AnswerProfile(p) ==
  /\ ViewAt(p, "none")
  /\ ViewGoesOn(p, [pc |-> "profile", shown |-> ProfileShown(profile),
                    allowed |-> profile])
  /\ Apart

CloseView(p) ==
  /\ view[p].pc \in {"content", "profile"}
  /\ ViewGoesOn(p, NoView)
  /\ Apart

-----------------------------------------------------------------------------
(* What else happens                                                       *)

Happens ==
  /\ events < MaxEvents
  /\ events' = events + 1
  /\ UNCHANGED view

(* A sale first takes out a former subscription and then puts in the new.  *)
PullFormer(u, c) ==
  /\ Happens
  /\ u # c
  /\ renewing' = renewing \cup {<<u, c>>}
  /\ fans' = fans \ {<<u, c>>}
  /\ active' = active \ {<<u, c>>}
  /\ UNCHANGED <<content, folders, unlocked, profile, paid>>

PushNew(u, c) ==
  /\ <<u, c>> \in renewing
  /\ renewing' = renewing \ {<<u, c>>}
  /\ fans' = fans \cup {<<u, c>>}
  /\ active' = active \cup {<<u, c>>}
  /\ paid' = paid \cup {<<u, c>>}
  /\ UNCHANGED <<content, folders, unlocked, profile, view, events>>

CancelActive(u, c) ==
  /\ Happens
  /\ <<u, c>> \in active
  /\ active' = active \ {<<u, c>>}
  /\ UNCHANGED <<content, folders, fans, renewing, unlocked, profile, paid>>

(* The purchase is in the user once its payment is processed.              *)
Unlock(u, thing) ==
  /\ Happens
  /\ unlocked' = unlocked \cup {<<u, thing>>}
  /\ paid' = paid \cup {<<u, thing>>}
  /\ UNCHANGED <<content, folders, subscribing, profile>>

(* An admin gives the content to another owner or album, or it is removed. *)
MoveContent ==
  /\ Happens
  /\ content' \in [kind : {content.kind}, life : {"stored", "removed"},
                   owner : Makers, album : Folders]
  /\ content.life = "stored"
  /\ UNCHANGED <<folders, subscribing, unlocked, profile, paid>>

RemoveFolder(f) ==
  /\ Happens
  /\ folders' = folders \ {f}
  /\ UNCHANGED <<content, subscribing, unlocked, profile, paid>>

SetProfile ==
  /\ Happens
  /\ profile' \in SUBSET (PublicFlags \cup {"subscribersCounter"})
  /\ UNCHANGED <<content, folders, subscribing, unlocked, paid>>

ViewingNext ==
  \/ \E p \in Views :
       \/ AuthenticateViewer(p) \/ FindContent(p) \/ AnswerContent(p)
       \/ AnswerProfile(p) \/ CloseView(p)
  \/ \E u \in Viewers, c \in Makers :
       PullFormer(u, c) \/ PushNew(u, c) \/ CancelActive(u, c)
  \/ \E u \in Viewers, thing \in Things : Unlock(u, thing)
  \/ MoveContent
  \/ \E f \in Folders : RemoveFolder(f)
  \/ SetProfile
=============================================================================
