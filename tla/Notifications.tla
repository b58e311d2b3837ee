---------------------------- MODULE Notifications ----------------------------
(***************************************************************************)
(* Notification service: a notification is stored for its recipients,      *)
(* emitted to those who are online and mailed to the others.  Whoever      *)
(* stores a content, a goal, a message or a strike awaits it.              *)
(***************************************************************************)
EXTENDS Integers

CONSTANTS
  Recipients,
  Everyone,  \* a notification without recipients
  Senders,   \* running calls of createNotification
  MaxNotes,  \* bound: notifications started
  MaxMoods   \* bound: changes of the notification settings

ASSUME EveryoneAssumption == Everyone \notin Recipients
ASSUME NotesAssumption == MaxNotes \in Nat /\ MaxMoods \in Nat

VARIABLES
  online,   \* users with a socket in their room
  muted,    \* "email" and "inApp" |-> the users who muted it
  unread,   \* stored notifications: the users who have not read them
  sender,   \* sender |-> where its call is, what it holds, what came of it
  notes,    \* notifications started (bounded by MaxNotes)
  moods     \* settings changed (bounded by MaxMoods)

noticeVars == <<online, muted, unread, sender, notes, moods>>

-----------------------------------------------------------------------------
Ready == [pc |-> "ready"]
Sends(s, pc) == sender[s].pc = pc
Set(s, r) == sender' = [sender EXCEPT ![s] = r]

NotificationsInit ==
  /\ online \in SUBSET Recipients
  /\ muted = [way \in {"email", "inApp"} |-> {}]
  /\ unread = {}
  /\ sender = [s \in Senders |-> Ready]
  /\ notes = 0
  /\ moods = 0

(* Those of the recipients who did not mute a way.                         *)
ApplyRules(to, way) == IF to = {Everyone} THEN {} ELSE to \ muted[way]

(* Who is told: the subscribers of a creator (of new contents, of live     *)
(* streams and of their goals), the other participants of a chat, the user *)
(* of a strike, who may be missing, the one a system notification names;   *)
(* callers outside of the code may tell everyone.                          *)
SubscribersTold == SUBSET Recipients
MessageTold == {Recipients \ {u} : u \in Recipients}
StrikeTold == {{}} \cup {{u} : u \in Recipients}
SystemTold == {{}} \cup {{u} : u \in Recipients}
Told ==
  SubscribersTold \cup MessageTold \cup StrikeTold \cup SystemTold
    \cup {{Everyone}}

(* createNotification, up to the rules.  "left" collects the users who     *)
(* were offline at some time since.                                        *)
Start(s) ==
  /\ sender[s].pc \in {"ready", "sent"}
  /\ notes < MaxNotes
  /\ notes' = notes + 1
  /\ \E to \in Told :
       Set(s, [pc |-> "create", to |-> to, email |-> ApplyRules(to, "email"),
               inApp |-> ApplyRules(to, "inApp"), left |-> Recipients \ online])
  /\ UNCHANGED <<online, muted, unread, moods>>

NoRecipients(r) == r.to # {Everyone} /\ r.email = {} /\ r.inApp = {}

(* Notification.create; a notification for everyone is emitted to all.     *)
Create(s) ==
  LET r == sender[s]
      next == [pc |-> IF r.to = {Everyone} THEN "sent" ELSE "look", to |-> r.to,
               email |-> r.email, inApp |-> r.inApp, left |-> r.left,
               looks |-> r.inApp, found |-> {}, mailed |-> {},
               shown |-> IF r.to = {Everyone} THEN online ELSE {}]
  IN
    /\ Sends(s, "create")
    /\ IF NoRecipients(r)
       THEN Set(s, Ready) /\ UNCHANGED unread
       ELSE Set(s, next) /\ unread' = unread \cup r.inApp
    /\ UNCHANGED <<online, muted, notes, moods>>

(* The adapter is asked for the clients in the room of each recipient.     *)
Look(s) ==
  LET r == sender[s]
  IN
    /\ Sends(s, "look")
    /\ \E u \in r.looks :
         Set(s, [r EXCEPT !.looks = @ \ {u},
                          !.found = IF u \in online THEN @ \cup {u} ELSE @])
    /\ UNCHANGED <<online, muted, unread, notes, moods>>

(* One was found: the notification is emitted to the room.                 *)
Emit(s) ==
  LET r == sender[s]
  IN
    /\ Sends(s, "look")
    /\ \E u \in (r.found \cap online) \ r.shown :
         Set(s, [r EXCEPT !.shown = @ \cup {u}])
    /\ UNCHANGED <<online, muted, unread, notes, moods>>

(* Mutant: the e-mails do not wait for all the answers of the adapter.     *)
AnyTime(r) == TRUE

(* Promise.all: every room was looked up and emitted to, though there may  *)
(* be nobody in it any more.                                               *)
AllShown(r) == r.looks = {} /\ r.found \subseteq r.shown \cup r.left

(* An e-mail is asked for each user who was not found, and goes to a queue *)
(* of its own.                                                             *)
Mail(s) ==
  LET r == sender[s]
  IN
    /\ Sends(s, "look")
    /\ AllShown(r)
    /\ Set(s, [r EXCEPT !.pc = "sent", !.mailed = r.email \ r.found])
    /\ UNCHANGED <<online, muted, unread, notes, moods>>

(* A socket joins the room of its user, or leaves it.                      *)
Connect ==
  /\ \E u \in Recipients \ online : online' = online \cup {u}
  /\ UNCHANGED <<muted, unread, sender, notes, moods>>

Disconnect ==
  /\ \E u \in online :
       /\ online' = online \ {u}
       /\ sender' = [s \in Senders |->
            IF sender[s].pc \in {"create", "look"}
            THEN [sender[s] EXCEPT !.left = @ \cup {u}] ELSE sender[s]]
  /\ UNCHANGED <<muted, unread, notes, moods>>

(* A user changes the notification settings.                               *)
Mute ==
  /\ moods < MaxMoods
  /\ moods' = moods + 1
  /\ \E way \in {"email", "inApp"} : \E u \in Recipients \ muted[way] :
       muted' = [muted EXCEPT ![way] = @ \cup {u}]
  /\ UNCHANGED <<online, unread, sender, notes>>

(* A user reads the notifications.                                         *)
ReadAll ==
  /\ \E u \in unread : unread' = unread \ {u}
  /\ UNCHANGED <<online, muted, sender, notes, moods>>

(* A failed database call or adapter, or a restart.                        *)
Fail(s) ==
  /\ sender[s].pc \in {"create", "look"}
  /\ Set(s, Ready)
  /\ UNCHANGED <<online, muted, unread, notes, moods>>

NotificationsNext ==
  \/ \E s \in Senders :
       Start(s) \/ Create(s) \/ Look(s) \/ Emit(s) \/ Mail(s) \/ Fail(s)
  \/ Connect
  \/ Disconnect
  \/ Mute
  \/ ReadAll
=============================================================================
