---------------------------- MODULE MessagingProofs ---------------------------
(***************************************************************************)
(* Theorems about notifications and chats, for any users, chats, messages, *)
(* overlapping requests and restarts: who is told of a notification, what  *)
(* the counter of a chat may show, what goes with a chat, and how many     *)
(* private chats two users have.                                           *)
(***************************************************************************)
EXTENDS MessagingProperties, FiniteSetTheorems, TLAPS

ChatsSpec == ChatsInit /\ [][ChatsNext]_chatVars
NotificationsSpec == NotificationsInit /\ [][NotificationsNext]_noticeVars

LEMMA MessagingRunsBoth == Spec => ChatsSpec /\ NotificationsSpec
<1>1. Init => ChatsInit /\ NotificationsInit
  BY DEF Init
<1>2. [Next]_vars => [ChatsNext]_chatVars /\ [NotificationsNext]_noticeVars
  BY DEF Next, vars
<1> QED BY <1>1, <1>2, PTL DEF Spec, ChatsSpec, NotificationsSpec

-----------------------------------------------------------------------------
(* Notifications                                                           *)

(* What a call knows: the users it may miss include those who are offline, *)
(* each user is still to be looked up, was found or may be missed, and a   *)
(* notification that was sent is Delivered.                                *)
Knows(r) ==
  /\ r.pc \in {"create", "look"} => Recipients \ online \subseteq r.left
  /\ r.pc = "look" => r.inApp \subseteq r.looks \cup r.found \cup r.left
  /\ r.pc = "sent" /\ r.to # {Everyone} =>
       /\ r.email \subseteq r.mailed \cup r.shown \cup r.left
       /\ r.inApp \ r.left \subseteq r.shown \ r.mailed

NoticeInv == NotificationsTypeOK /\ \A s \in Senders : Knows(sender[s])

Creating ==
  [pc : {"create"}, to : Told, email : SUBSET Recipients,
   inApp : SUBSET Recipients, left : SUBSET Recipients]
Sending ==
  [pc : {"look", "sent"}, to : Told, email : SUBSET Recipients,
   inApp : SUBSET Recipients, left : SUBSET Recipients,
   looks : SUBSET Recipients, found : SUBSET Recipients,
   mailed : SUBSET Recipients, shown : SUBSET Recipients]

LEMMA SenderShape ==
  ASSUME NEW r \in SenderTasks
  PROVE  /\ r.pc = "create" => r \in Creating
         /\ r.pc \in {"look", "sent"} => r \in Sending
  BY DEF SenderTasks, Creating, Sending, Ready

LEMMA RulesTyped ==
  ASSUME NotificationsTypeOK, NEW to \in Told, NEW way \in {"email", "inApp"}
  PROVE  ApplyRules(to, way) \in SUBSET Recipients
  BY DEF NotificationsTypeOK, ApplyRules, Told, SubscribersTold, MessageTold,
         StrikeTold, SystemTold

(* A call that goes on with a typed task it knows enough about.            *)
LEMMA SetKeeps ==
  ASSUME NoticeInv, NEW s \in Senders, NEW r \in SenderTasks, Knows(r),
         Set(s, r), online' = online
  PROVE  /\ sender' \in [Senders -> SenderTasks]
         /\ \A t \in Senders : Knows(sender[t])'
<1>1. sender' \in [Senders -> SenderTasks]
  BY DEF NoticeInv, NotificationsTypeOK, Set
<1>2. ASSUME NEW t \in Senders
      PROVE  Knows(sender[t])'
  <2>1. sender'[t] = r \/ sender'[t] = sender[t]
    BY DEF NoticeInv, NotificationsTypeOK, Set
  <2> QED BY <2>1 DEF NoticeInv, Knows
<1> QED BY <1>1, <1>2

LEMMA StartKeeps ==
  ASSUME NoticeInv, NEW s \in Senders, Start(s)
  PROVE  NoticeInv'
<1>1. PICK to \in Told :
        Set(s, [pc |-> "create", to |-> to, email |-> ApplyRules(to, "email"),
                inApp |-> ApplyRules(to, "inApp"),
                left |-> Recipients \ online])
  BY DEF Start
<1> DEFINE r == [pc |-> "create", to |-> to, email |-> ApplyRules(to, "email"),
                 inApp |-> ApplyRules(to, "inApp"),
                 left |-> Recipients \ online]
<1>2. r \in SenderTasks
  BY RulesTyped DEF NoticeInv, SenderTasks
<1>3. Knows(r)
  BY DEF Knows
<1>4. notes' \in 0 .. MaxNotes
  BY NotesAssumption DEF Start, NoticeInv, NotificationsTypeOK
<1> QED BY <1>1, <1>2, <1>3, <1>4, SetKeeps
        DEF Start, NoticeInv, NotificationsTypeOK

LEMMA CreateKeeps ==
  ASSUME NoticeInv, NEW s \in Senders, Create(s)
  PROVE  NoticeInv'
<1> DEFINE r == sender[s]
           pc == IF r.to = {Everyone} THEN "sent" ELSE "look"
           n == [pc |-> pc, to |-> r.to, email |-> r.email,
                 inApp |-> r.inApp, left |-> r.left, looks |-> r.inApp,
                 found |-> {}, mailed |-> {},
                 shown |-> IF r.to = {Everyone} THEN online ELSE {}]
<1>1. r \in Creating /\ Knows(r) /\ r.pc = "create"
  BY SenderShape DEF NoticeInv, NotificationsTypeOK, Create, Sends
<1>2. Ready \in SenderTasks /\ Knows(Ready)
  BY DEF SenderTasks, Ready, Knows
<1>3. n \in SenderTasks
  BY <1>1 DEF Creating, SenderTasks, NoticeInv, NotificationsTypeOK
<1>4. Knows(n)
  <2>1. CASE r.to = {Everyone}
    BY <2>1 DEF Knows
  <2>2. CASE r.to # {Everyone}
    BY <1>1, <2>2 DEF Knows
  <2> QED BY <2>1, <2>2
<1>5. Set(s, Ready) \/ Set(s, n)
  BY DEF Create
<1>6. unread' \subseteq Recipients
  BY <1>1 DEF Create, Creating, NoticeInv, NotificationsTypeOK
<1>7. UNCHANGED <<online, muted, notes, moods>>
  BY DEF Create
<1>8. /\ sender' \in [Senders -> SenderTasks]
      /\ \A t \in Senders : Knows(sender[t])'
  BY <1>2, <1>3, <1>4, <1>5, <1>7, SetKeeps
<1> QED BY <1>6, <1>7, <1>8 DEF NoticeInv, NotificationsTypeOK

LEMMA LookKeeps ==
  ASSUME NoticeInv, NEW s \in Senders, Look(s)
  PROVE  NoticeInv'
<1> DEFINE r == sender[s]
<1>1. r \in Sending /\ Knows(r) /\ r.pc = "look"
  BY SenderShape DEF NoticeInv, NotificationsTypeOK, Look, Sends
<1>2. PICK u \in r.looks :
        Set(s, [r EXCEPT !.looks = @ \ {u},
                         !.found = IF u \in online THEN @ \cup {u} ELSE @])
  BY DEF Look
<1> DEFINE n == [r EXCEPT !.looks = @ \ {u},
                          !.found = IF u \in online THEN @ \cup {u} ELSE @]
<1>3. n \in SenderTasks
  BY <1>1 DEF Sending, SenderTasks
<1>4. Knows(n)
  BY <1>1 DEF Sending, Knows
<1> QED BY <1>2, <1>3, <1>4, SetKeeps DEF Look, NoticeInv, NotificationsTypeOK

LEMMA EmitKeeps ==
  ASSUME NoticeInv, NEW s \in Senders, Emit(s)
  PROVE  NoticeInv'
<1> DEFINE r == sender[s]
<1>1. r \in Sending /\ Knows(r) /\ r.pc = "look"
  BY SenderShape DEF NoticeInv, NotificationsTypeOK, Emit, Sends
<1>2. PICK u \in (r.found \cap online) \ r.shown :
        Set(s, [r EXCEPT !.shown = @ \cup {u}])
  BY DEF Emit
<1> DEFINE n == [r EXCEPT !.shown = @ \cup {u}]
<1>3. n \in SenderTasks
  BY <1>1 DEF Sending, SenderTasks
<1>4. Knows(n)
  BY <1>1 DEF Sending, Knows
<1> QED BY <1>2, <1>3, <1>4, SetKeeps DEF Emit, NoticeInv, NotificationsTypeOK

(* The step that the property is about: with every room looked up, who was *)
(* not found may have left, and who was found was emitted to or has left.  *)
LEMMA MailKeeps ==
  ASSUME NoticeInv, NEW s \in Senders, Mail(s)
  PROVE  NoticeInv'
<1> DEFINE r == sender[s]
           n == [r EXCEPT !.pc = "sent", !.mailed = r.email \ r.found]
<1>1. r \in Sending /\ Knows(r) /\ r.pc = "look"
  BY SenderShape DEF NoticeInv, NotificationsTypeOK, Mail, Sends
<1>2. n \in SenderTasks
  BY <1>1 DEF Sending, SenderTasks
<1>3. Knows(n)
  BY <1>1 DEF Sending, Knows, Mail, AllShown
<1>4. Set(s, n)
  BY DEF Mail
<1> QED BY <1>2, <1>3, <1>4, SetKeeps DEF Mail, NoticeInv, NotificationsTypeOK

LEMMA DisconnectKeeps ==
  ASSUME NoticeInv, Disconnect
  PROVE  NoticeInv'
<1>1. PICK u \in online :
        /\ online' = online \ {u}
        /\ sender' = [s \in Senders |->
             IF sender[s].pc \in {"create", "look"}
             THEN [sender[s] EXCEPT !.left = @ \cup {u}] ELSE sender[s]]
  BY DEF Disconnect
<1>2. u \in Recipients
  BY DEF NoticeInv, NotificationsTypeOK
<1>3. ASSUME NEW s \in Senders
      PROVE  sender'[s] \in SenderTasks /\ Knows(sender[s])'
  <2> DEFINE r == sender[s]
  <2>1. r \in SenderTasks /\ Knows(r)
    BY DEF NoticeInv, NotificationsTypeOK
  <2>2. CASE r.pc = "create"
    <3>1. r \in Creating /\ sender'[s] = [r EXCEPT !.left = @ \cup {u}]
      BY <1>1, <2>1, <2>2, SenderShape
    <3> QED BY <1>1, <1>2, <2>1, <3>1 DEF Creating, SenderTasks, Knows
  <2>3. CASE r.pc = "look"
    <3>1. r \in Sending /\ sender'[s] = [r EXCEPT !.left = @ \cup {u}]
      BY <1>1, <2>1, <2>3, SenderShape
    <3> QED BY <1>1, <1>2, <2>1, <3>1 DEF Sending, SenderTasks, Knows
  <2>4. CASE r.pc \notin {"create", "look"}
    <3>1. sender'[s] = r
      BY <1>1, <2>4
    <3> QED BY <2>1, <2>4, <3>1 DEF Knows
  <2> QED BY <2>2, <2>3, <2>4
<1>4. sender' \in [Senders -> SenderTasks]
  BY <1>1, <1>3
<1> QED BY <1>1, <1>3, <1>4 DEF Disconnect, NoticeInv, NotificationsTypeOK

LEMMA NoticeStep ==
  ASSUME NoticeInv, [NotificationsNext]_noticeVars
  PROVE  NoticeInv'
<1>1. ASSUME NEW s \in Senders, Fail(s)
      PROVE  NoticeInv'
  <2>1. Ready \in SenderTasks /\ Knows(Ready)
    BY DEF SenderTasks, Ready, Knows
  <2> QED BY <1>1, <2>1, SetKeeps DEF Fail, NoticeInv, NotificationsTypeOK
<1>2. CASE Connect
  <2>1. online \subseteq online'
    BY <1>2 DEF Connect
  <2> QED BY <1>2, <2>1 DEF Connect, NoticeInv, NotificationsTypeOK, Knows
<1>3. CASE Mute
  <2>1. moods' \in 0 .. MaxMoods
    BY <1>3, NotesAssumption DEF Mute, NoticeInv, NotificationsTypeOK
  <2>2. muted' \in [{"email", "inApp"} -> SUBSET Recipients]
    BY <1>3 DEF Mute, NoticeInv, NotificationsTypeOK
  <2> QED BY <1>3, <2>1, <2>2 DEF Mute, NoticeInv, NotificationsTypeOK, Knows
<1>4. CASE ReadAll
  BY <1>4 DEF ReadAll, NoticeInv, NotificationsTypeOK, Knows
<1>5. CASE UNCHANGED noticeVars
  BY <1>5 DEF noticeVars, NoticeInv, NotificationsTypeOK, Knows
<1> QED BY <1>1, <1>2, <1>3, <1>4, <1>5, StartKeeps, CreateKeeps, LookKeeps,
           EmitKeeps, MailKeeps, DisconnectKeeps DEF NotificationsNext

LEMMA NoticeAlways == NotificationsSpec => []NoticeInv
<1>1. NotificationsInit => NoticeInv
  BY NotesAssumption
     DEF NotificationsInit, NoticeInv, NotificationsTypeOK, SenderTasks, Ready,
         Knows
<1> QED BY <1>1, NoticeStep, PTL DEF NotificationsSpec

(* Whoever comes and goes while a notification is sent, each recipient is  *)
(* reached in the way that is due, or had left meanwhile                   *)
(* (notification.service.ts:39-67).                                        *)
THEOREM DeliveredAlways == Spec => []Delivered
<1>1. NoticeInv => Delivered
  BY DEF NoticeInv, Knows, Delivered
<1> QED BY <1>1, MessagingRunsBoth, NoticeAlways, PTL

-----------------------------------------------------------------------------
(* Chats: types                                                            *)

StoredChats ==
  [life : {"stored", "removed"}, chatType : {"private", "liveStream"},
   participants : SUBSET Users, messagesCounter : Int, had : SUBSET Messages]
Filed ==
  [life : {"stored"}, chat : Chats, author : Users, unread : SUBSET Users]

LEMMA ChatShape ==
  ASSUME NEW d \in ChatDocs
  PROVE  /\ d.life \in {"new", "stored", "removed"}
         /\ d.life # "new" => d \in StoredChats
  BY DEF ChatDocs, StoredChats, NoChat

LEMMA MessageShape ==
  ASSUME NEW d \in MessageDocs
  PROVE  /\ d.life \in {"new", "stored", "removed"}
         /\ d.life = "stored" => d \in Filed
  BY DEF MessageDocs, Filed, NoMessage

LEMMA ClientShape ==
  ASSUME NEW r \in ClientTasks
  PROVE  /\ r.pc = "upsert" => r.who \in SUBSET Users
         /\ r.pc \in {"removeChat", "removeMessages"} => r.chat \in Chats
         /\ r.pc = "post" =>
              r.chat \in Chats /\ r.author \in Users /\ r.who \in SUBSET Users
         /\ r.pc = "edit" => r.message \in Messages /\ r.who \in SUBSET Users
         /\ r.pc = "drop" => r.message \in Messages /\ r.chat \in Chats
         /\ r.pc = "count" => r.chat \in Chats /\ r.n \in {1, -1}
  BY DEF ClientTasks, Waiting

LEMMA GoesTyped ==
  ASSUME ChatsTypeOK, NEW x \in Clients, NEW r \in ClientTasks, Goes(x, r)
  PROVE  client' \in [Clients -> ClientTasks]
  BY DEF ChatsTypeOK, Goes

LEMMA DoneTyped ==
  ASSUME ChatsTypeOK, NEW x \in Clients, Done(x)
  PROVE  client' \in [Clients -> ClientTasks]
  BY DEF ChatsTypeOK, Done, Goes, ClientTasks

(* How a step may change the chats.                                        *)
Stores(d) ==
  \E c \in Chats : chats[c].life = "new" /\ chats' = [chats EXCEPT ![c] = d]
Joins(c, who) == chats' = [chats EXCEPT ![c].participants = who]
Counts(c, n) ==
  chats' = [chats EXCEPT ![c].messagesCounter = IF c \in Open THEN @ + n ELSE @]

LEMMA StoresTyped ==
  ASSUME ChatsTypeOK, NEW d \in ChatDocs, Stores(d)
  PROVE  chats' \in [Chats -> ChatDocs]
  BY DEF ChatsTypeOK, Stores

LEMMA JoinsTyped ==
  ASSUME ChatsTypeOK, NEW c \in Open, NEW who \in SUBSET Users, Joins(c, who)
  PROVE  chats' \in [Chats -> ChatDocs]
<1>1. chats[c] \in StoredChats
  BY ChatShape DEF Open, ChatsTypeOK
<1>2. [chats[c] EXCEPT !.participants = who] \in ChatDocs
  BY <1>1 DEF StoredChats, ChatDocs
<1> QED BY <1>2 DEF ChatsTypeOK, Joins, Open

LEMMA CountsTyped ==
  ASSUME ChatsTypeOK, NEW c \in Chats, NEW n \in {1, -1},
         chats[c].life # "new", Counts(c, n)
  PROVE  chats' \in [Chats -> ChatDocs]
<1>1. chats[c] \in StoredChats
  BY ChatShape DEF ChatsTypeOK
<1> DEFINE k == IF c \in Open THEN chats[c].messagesCounter + n
                               ELSE chats[c].messagesCounter
<1>2. k \in Int
  BY <1>1 DEF StoredChats
<1>3. [chats[c] EXCEPT !.messagesCounter = k] \in ChatDocs
  BY <1>1, <1>2 DEF StoredChats, ChatDocs
<1>4. chats' = [chats EXCEPT ![c] = [chats[c] EXCEPT !.messagesCounter = k]]
  BY DEF Counts
<1> HIDE DEF k
<1> QED BY <1>3, <1>4 DEF ChatsTypeOK

LEMMA CloseTyped ==
  ASSUME ChatsTypeOK, NEW c \in Chats, chats[c].life # "new", Close(c)
  PROVE  chats' \in [Chats -> ChatDocs]
<1>1. chats[c] \in StoredChats
  BY ChatShape DEF ChatsTypeOK
<1> DEFINE h == IF c \in Open THEN MessagesOf(c) ELSE chats[c].had
           d == [chats[c] EXCEPT !.life = "removed", !.had = h]
<1>2. h \in SUBSET Messages
  BY <1>1 DEF StoredChats, MessagesOf, StoredMessages
<1>3. d \in ChatDocs
  BY <1>1, <1>2 DEF StoredChats, ChatDocs
<1>4. chats' = [chats EXCEPT ![c] = d]
  BY DEF Close, ChatsTypeOK
<1> HIDE DEF d
<1> QED BY <1>3, <1>4 DEF ChatsTypeOK

LEMMA ForgetTyped ==
  ASSUME ChatsTypeOK, NEW c \in Chats, Forget(c)
  PROVE  messages' \in [Messages -> MessageDocs]
  BY DEF ChatsTypeOK, Forget, MessageDocs

-----------------------------------------------------------------------------
(* Chats: what holds of the documents a request deals with                 *)

Pairs == {w \in SUBSET Users : \E u, v \in Users : u # v /\ w = {u, v}}

Fits(r) ==
  /\ r.pc \in {"removeChat", "removeMessages", "post", "drop", "count"} =>
       chats[r.chat].life # "new"
  /\ r.pc = "removeMessages" => chats[r.chat].life = "removed"
  /\ r.pc = "upsert" => r.who \in Pairs
  /\ r.pc \in {"edit", "drop"} => messages[r.message].life # "new"
  /\ r.pc = "drop" /\ messages[r.message].life = "stored" =>
       messages[r.message].chat = r.chat

ChatsFit ==
  \A c \in Chats : chats[c].life # "new" =>
    /\ chats[c].chatType = "private" => chats[c].participants \in Pairs
    /\ \A m \in chats[c].had : messages[m].life # "new"

MessagesFit ==
  \A m \in StoredMessages : chats[messages[m].chat].life # "new"

DocsInv ==
  /\ ChatsTypeOK
  /\ \A x \in Clients : Fits(client[x])
  /\ ChatsFit
  /\ MessagesFit

(* Documents live once, and a message stays in its chat.                   *)
GoesOn ==
  /\ \A c \in Chats :
       /\ chats[c].life # "new" => chats'[c].life # "new"
       /\ chats[c].life = "removed" => chats'[c].life = "removed"
  /\ \A m \in Messages :
       messages[m].life # "new" =>
         /\ messages'[m].life # "new"
         /\ messages'[m].life = "stored" =>
              /\ messages[m].life = "stored"
              /\ messages'[m].chat = messages[m].chat

LEMMA FitsStays ==
  ASSUME GoesOn, NEW r \in ClientTasks, Fits(r)
  PROVE  Fits(r)'
<1>1. CASE r.pc \in {"removeChat", "removeMessages", "post", "count"}
  BY <1>1, ClientShape DEF GoesOn, Fits
<1>2. CASE r.pc \in {"edit", "drop"}
  BY <1>2, ClientShape DEF GoesOn, Fits
<1>3. CASE r.pc \notin {"removeChat", "removeMessages", "post", "count", "edit",
                        "drop"}
  BY <1>3 DEF Fits
<1> QED BY <1>1, <1>2, <1>3

(* Every request still fits when one of them goes on.                      *)
LEMMA GoesFits ==
  ASSUME DocsInv, GoesOn, NEW x \in Clients, NEW r \in ClientTasks, Fits(r)',
         Goes(x, r)
  PROVE  (\A y \in Clients : Fits(client[y]))'
<1>1. ASSUME NEW y \in Clients
      PROVE  Fits(client[y])'
  <2>1. client'[y] = r \/ client'[y] = client[y]
    BY DEF Goes, DocsInv, ChatsTypeOK
  <2>2. CASE client'[y] = r
    BY <2>2 DEF Fits
  <2>3. CASE client'[y] = client[y]
    <3>1. PICK t \in ClientTasks : t = client[y] /\ Fits(t)
      BY DEF DocsInv, ChatsTypeOK
    <3>2. Fits(t)'
      BY <3>1, FitsStays
    <3> QED BY <2>3, <3>1, <3>2 DEF Fits
  <2> QED BY <2>1, <2>2, <2>3
<1> QED BY <1>1

LEMMA DoneFits ==
  ASSUME DocsInv, GoesOn, NEW x \in Clients, Done(x)
  PROVE  (\A y \in Clients : Fits(client[y]))'
<1>1. Waiting \in ClientTasks /\ Fits(Waiting)'
  BY DEF ClientTasks, Waiting, Fits
<1> QED BY <1>1, GoesFits DEF Done

LEMMA SameClientsFit ==
  ASSUME DocsInv, GoesOn, UNCHANGED client
  PROVE  (\A y \in Clients : Fits(client[y]))'
<1>1. ASSUME NEW y \in Clients
      PROVE  Fits(client[y])'
  <2>1. PICK t \in ClientTasks : t = client[y] /\ Fits(t)
    BY DEF DocsInv, ChatsTypeOK
  <2>2. Fits(t)'
    BY <2>1, FitsStays
  <2> QED BY <2>1, <2>2 DEF Fits
<1> QED BY <1>1

(* What a step must show of the documents it changes.                      *)
LEMMA ChatsFitStays ==
  ASSUME DocsInv, GoesOn,
         \A c \in Chats :
           \/ chats'[c] = chats[c]
           \/ /\ chats'[c].chatType = "private" =>
                  chats'[c].participants \in Pairs
              /\ \A m \in chats'[c].had : messages'[m].life # "new"
  PROVE  ChatsFit'
<1>1. ASSUME NEW c \in Chats, chats[c].life # "new", NEW m \in chats[c].had
      PROVE  messages'[m].life # "new"
  <2>1. m \in Messages
    BY <1>1, ChatShape DEF DocsInv, ChatsTypeOK, StoredChats
  <2> QED BY <1>1, <2>1 DEF DocsInv, ChatsFit, GoesOn
<1>2. ASSUME NEW c \in Chats, chats'[c].life # "new"
      PROVE  /\ chats'[c].chatType = "private" =>
                  chats'[c].participants \in Pairs
             /\ \A m \in chats'[c].had : messages'[m].life # "new"
  BY <1>1, <1>2 DEF DocsInv, ChatsFit
<1> QED BY <1>2 DEF ChatsFit, Pairs

LEMMA MessagesFitStays ==
  ASSUME DocsInv, GoesOn, UNCHANGED messages
  PROVE  MessagesFit'
<1>1. ASSUME NEW m \in Messages, messages[m].life = "stored"
      PROVE  chats'[messages[m].chat].life # "new"
  <2>1. messages[m].chat \in Chats
    BY <1>1, MessageShape DEF DocsInv, ChatsTypeOK, Filed
  <2> QED BY <1>1, <2>1 DEF DocsInv, MessagesFit, StoredMessages, GoesOn
<1> QED BY <1>1 DEF MessagesFit, StoredMessages

-----------------------------------------------------------------------------
(* Chats: every step keeps the documents fit                               *)

Keeps == DocsInv' /\ GoesOn

LEMMA NewChatTyped ==
  ASSUME NEW type \in {"private", "liveStream"}, NEW who \in SUBSET Users
  PROVE  /\ NewChat(type, who) \in ChatDocs
         /\ NewChat(type, who).life = "stored"
         /\ NewChat(type, who).chatType = type
         /\ NewChat(type, who).participants = who
         /\ NewChat(type, who).messagesCounter = 0
         /\ NewChat(type, who).had = {}
  BY DEF NewChat, ChatDocs

LEMMA StoreKeeps ==
  ASSUME DocsInv, NEW type \in {"private", "liveStream"},
         NEW who \in SUBSET Users, type = "private" => who \in Pairs,
         StoreChat(NewChat(type, who)), UNCHANGED messages
  PROVE  chats' \in [Chats -> ChatDocs] /\ GoesOn /\ ChatsFit' /\ MessagesFit'
<1> DEFINE d == NewChat(type, who)
<1>1. PICK c \in Chats : chats[c].life = "new" /\ chats' = [chats EXCEPT ![c] = d]
  BY DEF StoreChat
<1>2. /\ d \in ChatDocs /\ d.life = "stored" /\ d.chatType = type
      /\ d.participants = who /\ d.had = {}
  BY NewChatTyped
<1> HIDE DEF d
<1>3. chats' \in [Chats -> ChatDocs]
  BY <1>1, <1>2 DEF DocsInv, ChatsTypeOK
<1>4. GoesOn
  BY <1>1 DEF GoesOn, DocsInv, ChatsTypeOK
<1>5. ChatsFit'
  BY <1>1, <1>2, <1>4, ChatsFitStays DEF DocsInv, ChatsTypeOK
<1> QED BY <1>3, <1>4, <1>5, MessagesFitStays

LEMMA CreateLiveStreamKeeps ==
  ASSUME DocsInv, CreateLiveStream
  PROVE  Keeps
<1>1. PICK u \in Users : StoreChat(NewChat("liveStream", {u}))
  BY DEF CreateLiveStream
<1>2. UNCHANGED <<messages, client, cuts>>
  BY DEF CreateLiveStream
<1>3. chats' \in [Chats -> ChatDocs] /\ GoesOn /\ ChatsFit' /\ MessagesFit'
  BY <1>1, <1>2, StoreKeeps
<1> QED BY <1>2, <1>3, SameClientsFit DEF Keeps, DocsInv, ChatsTypeOK

LEMMA InsertPrivateKeeps ==
  ASSUME DocsInv, NEW x \in Clients, InsertPrivate(x)
  PROVE  Keeps
<1>1. client[x].who \in SUBSET Users /\ client[x].who \in Pairs
  BY ClientShape DEF InsertPrivate, Is, DocsInv, ChatsTypeOK, Fits
<1>2. /\ StoreChat(NewChat("private", client[x].who)) /\ Done(x)
      /\ UNCHANGED <<messages, cuts>>
  BY DEF InsertPrivate
<1>3. chats' \in [Chats -> ChatDocs] /\ GoesOn /\ ChatsFit' /\ MessagesFit'
  BY <1>1, <1>2, StoreKeeps
<1>4. client' \in [Clients -> ClientTasks]
  BY <1>2, DoneTyped DEF DocsInv
<1> QED BY <1>2, <1>3, <1>4, DoneFits DEF Keeps, DocsInv, ChatsTypeOK

(* Two users that a private chat has are all it has: nothing is changed.   *)
LEMMA FoundIsPair ==
  ASSUME DocsInv, NEW u \in Users, NEW v \in Users, u # v, NEW c \in Open,
         chats[c].chatType = "private", HasBoth(c, {u, v})
  PROVE  chats[c].participants = {u, v}
<1>1. chats[c].participants \in Pairs
  BY DEF DocsInv, ChatsFit, Open
<1> QED BY <1>1 DEF Pairs, HasBoth

LEMMA OpenPrivateSteps ==
  ASSUME DocsInv, NEW x \in Clients, OpenPrivate(x)
  PROVE  /\ UNCHANGED <<chats, messages, cuts>>
         /\ \/ UNCHANGED client
            \/ \E u, v \in Users :
                 /\ u # v
                 /\ \A c \in Open : chats[c].chatType = "private" =>
                                    ~HasBoth(c, {u, v})
                 /\ Goes(x, [pc |-> "upsert", who |-> {u, v}])
<1>1. PICK u \in Users, v \in Users :
        LET found == {c \in Open : chats[c].chatType = "private"
                                   /\ HasBoth(c, {u, v})}
        IN
          /\ u # v
          /\ \/ /\ found # {}
                /\ \E c \in found :
                     chats' = [chats EXCEPT ![c].participants = {u, v}]
                /\ UNCHANGED client
             \/ /\ found = {}
                /\ Goes(x, [pc |-> "upsert", who |-> {u, v}])
                /\ UNCHANGED chats
  BY DEF OpenPrivate
<1>2. UNCHANGED <<messages, cuts>>
  BY DEF OpenPrivate
<1>3. ASSUME NEW c \in Open, chats[c].chatType = "private", HasBoth(c, {u, v}),
             chats' = [chats EXCEPT ![c].participants = {u, v}]
      PROVE  UNCHANGED chats
  <2>1. chats[c].participants = {u, v}
    BY <1>1, <1>3, FoundIsPair
  <2>2. chats[c] \in StoredChats
    BY ChatShape DEF Open, DocsInv, ChatsTypeOK
  <2>3. [chats[c] EXCEPT !.participants = {u, v}] = chats[c]
    BY <2>1, <2>2 DEF StoredChats
  <2> QED BY <1>3, <2>3 DEF DocsInv, ChatsTypeOK
<1> QED BY <1>1, <1>2, <1>3

LEMMA OpenPrivateKeeps ==
  ASSUME DocsInv, NEW x \in Clients, OpenPrivate(x)
  PROVE  Keeps
<1>1. UNCHANGED <<chats, messages, cuts>>
  BY OpenPrivateSteps
<1>2. GoesOn
  BY <1>1 DEF GoesOn
<1>3. ChatsFit' /\ MessagesFit'
  BY <1>1, <1>2, ChatsFitStays, MessagesFitStays
<1>4. CASE UNCHANGED client
  BY <1>1, <1>2, <1>3, <1>4, SameClientsFit DEF Keeps, DocsInv, ChatsTypeOK
<1>5. ASSUME NEW u \in Users, NEW v \in Users, u # v,
             Goes(x, [pc |-> "upsert", who |-> {u, v}])
      PROVE  Keeps
  <2> DEFINE r == [pc |-> "upsert", who |-> {u, v}]
  <2>1. r \in ClientTasks
    BY DEF ClientTasks
  <2>2. Fits(r)'
    BY <1>5 DEF Fits, Pairs
  <2>3. client' \in [Clients -> ClientTasks]
    BY <1>5, <2>1, GoesTyped DEF DocsInv
  <2>4. (\A y \in Clients : Fits(client[y]))'
    BY <1>2, <1>5, <2>1, <2>2, GoesFits
  <2> QED BY <1>1, <1>2, <1>3, <2>3, <2>4 DEF Keeps, DocsInv, ChatsTypeOK
<1> QED BY <1>4, <1>5, OpenPrivateSteps

LEMMA JoinLiveStreamKeeps ==
  ASSUME DocsInv, JoinLiveStream
  PROVE  Keeps
<1>1. PICK c \in Open, u \in Users :
        /\ chats[c].chatType = "liveStream"
        /\ chats' = [chats EXCEPT ![c].participants = @ \cup {u}]
  BY DEF JoinLiveStream
<1>2. UNCHANGED <<messages, client, cuts>>
  BY DEF JoinLiveStream
<1>3. chats[c] \in StoredChats /\ c \in Chats
  BY ChatShape DEF Open, DocsInv, ChatsTypeOK
<1> DEFINE d == [chats[c] EXCEPT !.participants = @ \cup {u}]
<1>4. /\ d \in ChatDocs /\ d.life = chats[c].life
      /\ d.chatType = "liveStream" /\ d.had = chats[c].had
  BY <1>1, <1>3 DEF StoredChats, ChatDocs
<1>5. chats' = [chats EXCEPT ![c] = d]
  BY <1>1
<1> HIDE DEF d
<1>6. chats' \in [Chats -> ChatDocs]
  BY <1>4, <1>5 DEF DocsInv, ChatsTypeOK
<1>7. GoesOn
  BY <1>2, <1>4, <1>5 DEF GoesOn, DocsInv, ChatsTypeOK
<1>8. \A m \in chats[c].had : messages'[m].life # "new"
  BY <1>2 DEF DocsInv, ChatsFit, Open
<1>9. ChatsFit'
  BY <1>4, <1>5, <1>7, <1>8, ChatsFitStays DEF DocsInv, ChatsTypeOK
<1> QED BY <1>2, <1>6, <1>7, <1>9, MessagesFitStays, SameClientsFit
        DEF Keeps, DocsInv, ChatsTypeOK

LEMMA LocateChatKeeps ==
  ASSUME DocsInv, NEW x \in Clients, LocateChat(x)
  PROVE  Keeps
<1>1. PICK c \in Open : Goes(x, [pc |-> "removeChat", chat |-> c])
  BY DEF LocateChat
<1>2. UNCHANGED <<chats, messages, cuts>>
  BY DEF LocateChat
<1> DEFINE r == [pc |-> "removeChat", chat |-> c]
<1>3. r \in ClientTasks
  BY DEF ClientTasks, Open
<1>4. Fits(r)'
  BY <1>2 DEF Fits, Open
<1>5. GoesOn
  BY <1>2 DEF GoesOn
<1>6. client' \in [Clients -> ClientTasks]
  BY <1>1, <1>3, GoesTyped DEF DocsInv
<1>7. (\A y \in Clients : Fits(client[y]))'
  BY <1>1, <1>3, <1>4, <1>5, GoesFits
<1> QED BY <1>2, <1>5, <1>6, <1>7, ChatsFitStays, MessagesFitStays
        DEF Keeps, DocsInv, ChatsTypeOK


LEMMA CloseKeeps ==
  ASSUME DocsInv, NEW x \in Clients, Is(x, "removeChat"), RemoveChat(x)
  PROVE  Keeps
<1>0. client[x].chat \in Chats /\ chats[client[x].chat].life # "new"
  BY ClientShape DEF Is, DocsInv, ChatsTypeOK, Fits
<1>1. PICK c \in Chats : c = client[x].chat /\ chats[c].life # "new"
  BY <1>0
<1> DEFINE r == [pc |-> "removeMessages", chat |-> c]
<1>2. Close(c) /\ Goes(x, r) /\ UNCHANGED <<messages, cuts>>
  BY <1>1 DEF RemoveChat, Is
<1>3. chats' \in [Chats -> ChatDocs]
  BY <1>1, <1>2, CloseTyped DEF DocsInv
<1>4. chats[c] \in StoredChats
  BY <1>1, ChatShape DEF DocsInv, ChatsTypeOK
<1>5. /\ chats'[c].life = "removed"
      /\ chats'[c].chatType = chats[c].chatType
      /\ chats'[c].participants = chats[c].participants
      /\ chats'[c].had = IF c \in Open THEN MessagesOf(c) ELSE chats[c].had
      /\ \A b \in Chats \ {c} : chats'[b] = chats[b]
  BY <1>1, <1>2, <1>4 DEF Close, DocsInv, ChatsTypeOK, StoredChats
<1>6. GoesOn
  BY <1>2, <1>5 DEF GoesOn
<1>7. \A m \in chats'[c].had : messages'[m].life # "new"
  BY <1>1, <1>2, <1>5 DEF DocsInv, ChatsFit, MessagesOf, StoredMessages
<1>8. chats[c].chatType = "private" => chats[c].participants \in Pairs
  BY <1>1 DEF DocsInv, ChatsFit
<1>9. ChatsFit'
  BY <1>5, <1>6, <1>7, <1>8, ChatsFitStays
<1>10. r \in ClientTasks
  BY <1>1 DEF ClientTasks
<1>11. Fits(r)'
  BY <1>5 DEF Fits
<1>12. (\A y \in Clients : Fits(client[y]))'
  BY <1>2, <1>6, <1>10, <1>11, GoesFits
<1>13. client' \in [Clients -> ClientTasks]
  BY <1>2, <1>10, GoesTyped DEF DocsInv
<1> QED BY <1>2, <1>3, <1>6, <1>9, <1>12, <1>13, MessagesFitStays
        DEF Keeps, DocsInv, ChatsTypeOK

(* Steps that change messages only: each is as it was, or stored in a chat *)
(* that is there, or removed.                                              *)
LEMMA MessageKeeps ==
  ASSUME DocsInv, UNCHANGED <<chats, cuts>>,
         messages' \in [Messages -> MessageDocs],
         \A m \in Messages :
           \/ /\ messages'[m].life = messages[m].life
              /\ messages[m].life = "stored" =>
                   messages'[m].chat = messages[m].chat
           \/ /\ messages'[m].life = "stored" /\ messages[m].life = "new"
              /\ chats[messages'[m].chat].life # "new"
           \/ messages'[m].life = "removed"
  PROVE  GoesOn /\ ChatsFit' /\ MessagesFit'
<1>1. GoesOn
  BY DEF GoesOn
<1>2. MessagesFit'
  BY DEF MessagesFit, StoredMessages, DocsInv
<1> QED BY <1>1, <1>2, ChatsFitStays

LEMMA ForgetKeeps ==
  ASSUME DocsInv, NEW x \in Clients, Is(x, "removeMessages"), RemoveChat(x)
  PROVE  Keeps
<1> DEFINE c == client[x].chat
<1>1. c \in Chats
  BY ClientShape DEF Is, DocsInv, ChatsTypeOK
<1>2. Forget(c) /\ Done(x) /\ UNCHANGED <<chats, cuts>>
  BY DEF RemoveChat, Is
<1>3. messages' \in [Messages -> MessageDocs]
  BY <1>1, <1>2, ForgetTyped DEF DocsInv
<1>4. GoesOn /\ ChatsFit' /\ MessagesFit'
  BY <1>2, <1>3, MessageKeeps DEF Forget
<1> QED BY <1>2, <1>3, <1>4, DoneFits, DoneTyped DEF Keeps, DocsInv, ChatsTypeOK

LEMMA StartMessageSteps ==
  ASSUME DocsInv, NEW x \in Clients, StartMessage(x)
  PROVE  /\ UNCHANGED <<chats, messages, cuts>>
         /\ \E r \in ClientTasks :
              r.pc \in {"post", "edit", "drop"} /\ Fits(r) /\ Goes(x, r)
<1>1. PICK u \in Users, c \in Open :
        \/ Goes(x, [pc |-> "post", chat |-> c, author |-> u,
                     who |-> chats[c].participants])
        \/ \E m \in MessagesOf(c) :
             \/ Goes(x, [pc |-> "edit", message |-> m,
                         who |-> chats[c].participants \ {u}])
             \/ Goes(x, [pc |-> "drop", message |-> m, chat |-> c])
  BY DEF StartMessage
<1>2. c \in Chats /\ chats[c].participants \in SUBSET Users
  BY ChatShape DEF Open, DocsInv, ChatsTypeOK, StoredChats
<1>3. chats[c].life # "new"
  BY DEF Open
<1>4. CASE Goes(x, [pc |-> "post", chat |-> c, author |-> u,
                    who |-> chats[c].participants])
  <2> DEFINE r == [pc |-> "post", chat |-> c, author |-> u,
                   who |-> chats[c].participants]
  <2>1. r \in ClientTasks
    BY <1>2 DEF ClientTasks
  <2>2. Fits(r)
    BY <1>3 DEF Fits
  <2>3. r.pc = "post"
    OBVIOUS
  <2> HIDE DEF r
  <2>4. Goes(x, r)
    BY <1>4 DEF r
  <2> QED BY <2>1, <2>2, <2>3, <2>4 DEF StartMessage
<1>5. ASSUME NEW m \in MessagesOf(c),
             Goes(x, [pc |-> "edit", message |-> m,
                      who |-> chats[c].participants \ {u}])
      PROVE  \E r \in ClientTasks :
               r.pc \in {"post", "edit", "drop"} /\ Fits(r) /\ Goes(x, r)
  <2> DEFINE r == [pc |-> "edit", message |-> m,
                   who |-> chats[c].participants \ {u}]
  <2>1. r \in ClientTasks
    BY <1>2 DEF ClientTasks, MessagesOf, StoredMessages
  <2>2. Fits(r)
    BY DEF Fits, MessagesOf, StoredMessages
  <2>3. r.pc = "edit"
    OBVIOUS
  <2>4. Goes(x, r)
    BY <1>5
  <2> HIDE DEF r
  <2> QED BY <2>1, <2>2, <2>3, <2>4
<1>6. ASSUME NEW m \in MessagesOf(c),
             Goes(x, [pc |-> "drop", message |-> m, chat |-> c])
      PROVE  \E r \in ClientTasks :
               r.pc \in {"post", "edit", "drop"} /\ Fits(r) /\ Goes(x, r)
  <2> DEFINE r == [pc |-> "drop", message |-> m, chat |-> c]
  <2>1. r \in ClientTasks
    BY <1>2 DEF ClientTasks, MessagesOf, StoredMessages
  <2>2. Fits(r)
    BY <1>3 DEF Fits, MessagesOf, StoredMessages
  <2>3. r.pc = "drop"
    OBVIOUS
  <2>4. Goes(x, r)
    BY <1>6
  <2> HIDE DEF r
  <2> QED BY <2>1, <2>2, <2>3, <2>4
<1> QED BY <1>1, <1>4, <1>5, <1>6 DEF StartMessage

LEMMA StartMessageKeeps ==
  ASSUME DocsInv, NEW x \in Clients, StartMessage(x)
  PROVE  Keeps
<1>1. UNCHANGED <<chats, messages, cuts>>
  BY StartMessageSteps
<1>2. PICK r \in ClientTasks : Fits(r) /\ Goes(x, r)
  BY StartMessageSteps
<1>3. GoesOn
  BY <1>1 DEF GoesOn
<1>4. Fits(r)'
  BY <1>2, <1>3, FitsStays
<1>5. client' \in [Clients -> ClientTasks]
  BY <1>2, GoesTyped DEF DocsInv
<1>6. (\A y \in Clients : Fits(client[y]))'
  BY <1>2, <1>3, <1>4, GoesFits
<1> QED BY <1>1, <1>3, <1>5, <1>6, ChatsFitStays, MessagesFitStays
        DEF Keeps, DocsInv, ChatsTypeOK

(* A message is stored, in the chat that its request found, and counted.   *)
LEMMA SaveMessageSteps ==
  ASSUME DocsInv, NEW x \in Clients, SaveMessage(x)
  PROVE  /\ UNCHANGED <<chats, cuts>>
         /\ client[x].chat \in Chats /\ chats[client[x].chat].life # "new"
         /\ Goes(x, [pc |-> "count", chat |-> client[x].chat, n |-> 1])
         /\ \E m \in Messages, d \in Filed :
              /\ messages[m].life = "new" /\ d.chat = client[x].chat
              /\ messages' = [messages EXCEPT ![m] = d]
<1> DEFINE r == client[x]
<1>1. /\ r.chat \in Chats /\ r.author \in Users /\ r.who \in SUBSET Users
      /\ chats[r.chat].life # "new"
  BY ClientShape DEF SaveMessage, Is, DocsInv, ChatsTypeOK, Fits
<1>2. PICK m \in Messages :
        /\ messages[m].life = "new"
        /\ messages' = [messages EXCEPT ![m] =
              [life |-> "stored", chat |-> r.chat, author |-> r.author,
               unread |-> OtherParticipants(r)]]
  BY DEF SaveMessage
<1> DEFINE d == [life |-> "stored", chat |-> r.chat, author |-> r.author,
                 unread |-> OtherParticipants(r)]
<1>3. d \in Filed /\ d.chat = r.chat
  BY <1>1 DEF Filed, OtherParticipants
<1>4. messages' = [messages EXCEPT ![m] = d]
  BY <1>2
<1> HIDE DEF d
<1> QED BY <1>1, <1>2, <1>3, <1>4 DEF SaveMessage

LEMMA CountTask ==
  ASSUME DocsInv, NEW c \in Chats, NEW n \in {1, -1}, chats'[c].life # "new"
  PROVE  /\ [pc |-> "count", chat |-> c, n |-> n] \in ClientTasks
         /\ Fits([pc |-> "count", chat |-> c, n |-> n])'
<1>1. [pc |-> "count", chat |-> c, n |-> n] \in ClientTasks
  BY DEF ClientTasks
<1> QED BY <1>1 DEF Fits

LEMMA SaveMessageKeeps ==
  ASSUME DocsInv, NEW x \in Clients, SaveMessage(x)
  PROVE  Keeps
<1>0. PICK c \in Chats : c = client[x].chat
  BY SaveMessageSteps
<1> DEFINE r == [pc |-> "count", chat |-> c, n |-> 1]
<1>1. /\ UNCHANGED <<chats, cuts>> /\ c \in Chats /\ chats[c].life # "new"
      /\ Goes(x, r)
  BY <1>0, SaveMessageSteps
<1>2. PICK m \in Messages, d \in Filed :
        /\ messages[m].life = "new" /\ d.chat = c
        /\ messages' = [messages EXCEPT ![m] = d]
  BY <1>0, SaveMessageSteps
<1>3. d \in MessageDocs /\ d.life = "stored"
  BY DEF Filed, MessageDocs
<1>4. messages' \in [Messages -> MessageDocs]
  BY <1>2, <1>3 DEF DocsInv, ChatsTypeOK
<1>5. GoesOn /\ ChatsFit' /\ MessagesFit'
  BY <1>1, <1>2, <1>3, <1>4, MessageKeeps DEF DocsInv, ChatsTypeOK
<1>6. r \in ClientTasks /\ Fits(r)'
  BY <1>1, CountTask
<1> HIDE DEF r
<1>7. client' \in [Clients -> ClientTasks]
  BY <1>1, <1>6, GoesTyped DEF DocsInv
<1>8. (\A y \in Clients : Fits(client[y]))'
  BY <1>1, <1>5, <1>6, GoesFits
<1> QED BY <1>1, <1>4, <1>5, <1>7, <1>8 DEF Keeps, DocsInv, ChatsTypeOK

LEMMA EditMessageKeeps ==
  ASSUME DocsInv, NEW x \in Clients, EditMessage(x)
  PROVE  Keeps
<1> DEFINE m == client[x].message
           who == client[x].who
<1>1. m \in Messages /\ who \in SUBSET Users
  BY ClientShape DEF EditMessage, Is, DocsInv, ChatsTypeOK
<1>2. /\ messages' = IF m \in StoredMessages
                     THEN [messages EXCEPT ![m].unread = who] ELSE messages
      /\ Done(x) /\ UNCHANGED <<chats, cuts>>
  BY DEF EditMessage
<1> HIDE DEF m, who
<1>3. /\ messages' \in [Messages -> MessageDocs]
      /\ \A k \in Messages :
           /\ messages'[k].life = messages[k].life
           /\ messages[k].life = "stored" =>
                messages'[k].chat = messages[k].chat
  <2>1. CASE m \in StoredMessages
    <3> DEFINE d == [messages[m] EXCEPT !.unread = who]
    <3>1. messages[m] \in Filed
      BY <2>1, MessageShape DEF StoredMessages, DocsInv, ChatsTypeOK
    <3>2. /\ d \in MessageDocs /\ d.life = messages[m].life
          /\ d.chat = messages[m].chat
      BY <1>1, <3>1 DEF Filed, MessageDocs
    <3>3. messages' = [messages EXCEPT ![m] = d]
      BY <1>2, <2>1
    <3> HIDE DEF d
    <3> QED BY <3>2, <3>3 DEF DocsInv, ChatsTypeOK
  <2>2. CASE m \notin StoredMessages
    BY <1>2, <2>2 DEF DocsInv, ChatsTypeOK
  <2> QED BY <2>1, <2>2
<1>4. GoesOn /\ ChatsFit' /\ MessagesFit'
  BY <1>2, <1>3, MessageKeeps
<1> QED BY <1>2, <1>3, <1>4, DoneFits, DoneTyped DEF Keeps, DocsInv, ChatsTypeOK

LEMMA DropMessageSteps ==
  ASSUME DocsInv, NEW x \in Clients, DropMessage(x)
  PROVE  /\ UNCHANGED <<chats, cuts>>
         /\ client[x].chat \in Chats /\ chats[client[x].chat].life # "new"
         /\ Goes(x, [pc |-> "count", chat |-> client[x].chat, n |-> -1])
         /\ \E m \in Messages :
              /\ messages[m].life = "stored" =>
                   messages[m].chat = client[x].chat
              /\ messages' = [messages EXCEPT ![m] = [life |-> "removed"]]
<1>1. /\ client[x].message \in Messages /\ client[x].chat \in Chats
      /\ chats[client[x].chat].life # "new"
      /\ messages[client[x].message].life = "stored" =>
           messages[client[x].message].chat = client[x].chat
  BY ClientShape DEF DropMessage, Is, DocsInv, ChatsTypeOK, Fits
<1> QED BY <1>1 DEF DropMessage

LEMMA DropMessageKeeps ==
  ASSUME DocsInv, NEW x \in Clients, DropMessage(x)
  PROVE  Keeps
<1>0. PICK c \in Chats : c = client[x].chat
  BY DropMessageSteps
<1> DEFINE r == [pc |-> "count", chat |-> c, n |-> -1]
<1>1. /\ UNCHANGED <<chats, cuts>> /\ c \in Chats /\ chats[c].life # "new"
      /\ Goes(x, r)
  BY <1>0, DropMessageSteps
<1>2. PICK m \in Messages : messages' = [messages EXCEPT ![m] = [life |-> "removed"]]
  BY DropMessageSteps
<1>3. messages' \in [Messages -> MessageDocs]
  BY <1>2 DEF DocsInv, ChatsTypeOK, MessageDocs
<1>4. GoesOn /\ ChatsFit' /\ MessagesFit'
  BY <1>1, <1>2, <1>3, MessageKeeps DEF DocsInv, ChatsTypeOK
<1>5. r \in ClientTasks /\ Fits(r)'
  BY <1>1, CountTask
<1> HIDE DEF r
<1>6. client' \in [Clients -> ClientTasks]
  BY <1>1, <1>5, GoesTyped DEF DocsInv
<1>7. (\A y \in Clients : Fits(client[y]))'
  BY <1>1, <1>4, <1>5, GoesFits
<1> QED BY <1>1, <1>3, <1>4, <1>6, <1>7 DEF Keeps, DocsInv, ChatsTypeOK

LEMMA CountMessageSteps ==
  ASSUME DocsInv, NEW x \in Clients, CountMessage(x)
  PROVE  /\ UNCHANGED <<messages, cuts>> /\ Done(x)
         /\ client[x].chat \in Chats /\ client[x].n \in {1, -1}
         /\ chats[client[x].chat].life # "new"
         /\ Counts(client[x].chat, client[x].n)
<1>1. /\ client[x].chat \in Chats /\ client[x].n \in {1, -1}
      /\ chats[client[x].chat].life # "new"
  BY ClientShape DEF CountMessage, Is, DocsInv, ChatsTypeOK, Fits
<1> QED BY <1>1 DEF CountMessage, IncMessageCounter, Counts

LEMMA CountMessageKeeps ==
  ASSUME DocsInv, NEW x \in Clients, CountMessage(x)
  PROVE  Keeps
<1>1. PICK c \in Chats, n \in {1, -1} :
        chats[c].life # "new" /\ Counts(c, n)
  BY CountMessageSteps
<1>2. UNCHANGED <<messages, cuts>> /\ Done(x)
  BY CountMessageSteps
<1>3. chats' \in [Chats -> ChatDocs]
  BY <1>1, CountsTyped DEF DocsInv
<1>4. chats[c] \in StoredChats
  BY <1>1, ChatShape DEF DocsInv, ChatsTypeOK
<1>5. /\ chats'[c].life = chats[c].life
      /\ chats'[c].chatType = chats[c].chatType
      /\ chats'[c].participants = chats[c].participants
      /\ chats'[c].had = chats[c].had
      /\ \A b \in Chats \ {c} : chats'[b] = chats[b]
  BY <1>1, <1>4 DEF Counts, StoredChats, DocsInv, ChatsTypeOK
<1>6. GoesOn
  BY <1>2, <1>5 DEF GoesOn
<1>7. /\ chats[c].chatType = "private" => chats[c].participants \in Pairs
      /\ \A m \in chats[c].had : messages'[m].life # "new"
  BY <1>1, <1>2 DEF DocsInv, ChatsFit
<1>8. ChatsFit'
  BY <1>5, <1>6, <1>7, ChatsFitStays
<1> QED BY <1>2, <1>3, <1>6, <1>8, MessagesFitStays, DoneFits, DoneTyped
        DEF Keeps, DocsInv, ChatsTypeOK

LEMMA ReadKeeps ==
  ASSUME DocsInv, NEW ms \in SUBSET StoredMessages, NEW u \in Users, Read(ms, u),
         UNCHANGED <<chats, client, cuts>>
  PROVE  Keeps
<1>1. ASSUME NEW m \in Messages
      PROVE  /\ messages'[m] \in MessageDocs
             /\ messages'[m].life = messages[m].life
             /\ messages[m].life = "stored" =>
                  messages'[m].chat = messages[m].chat
  <2>1. CASE m \in ms
    <3>1. messages[m] \in Filed
      BY <2>1, MessageShape DEF StoredMessages, DocsInv, ChatsTypeOK
    <3>2. messages'[m] = [messages[m] EXCEPT !.unread = @ \ {u}]
      BY <2>1 DEF Read
    <3> QED BY <3>1, <3>2 DEF Filed, MessageDocs
  <2>2. CASE m \notin ms
    BY <2>2 DEF Read, DocsInv, ChatsTypeOK
  <2> QED BY <2>1, <2>2
<1>2. messages' \in [Messages -> MessageDocs]
  BY <1>1 DEF Read
<1>3. GoesOn /\ ChatsFit' /\ MessagesFit'
  BY <1>1, <1>2, MessageKeeps
<1> QED BY <1>2, <1>3, SameClientsFit DEF Keeps, DocsInv, ChatsTypeOK

LEMMA CutKeeps ==
  ASSUME DocsInv, Cut
  PROVE  Keeps
<1>1. UNCHANGED <<chats, messages>> /\ client' = [x \in Clients |-> Waiting]
  BY DEF Cut
<1>2. GoesOn
  BY <1>1 DEF GoesOn
<1>3. cuts' \in 0 .. MaxCuts
  BY CutsAssumption DEF Cut, DocsInv, ChatsTypeOK
<1>4. client' \in [Clients -> ClientTasks]
  BY <1>1 DEF ClientTasks
<1>5. (\A y \in Clients : Fits(client[y]))'
  BY <1>1 DEF Fits, Waiting
<1> QED BY <1>1, <1>2, <1>3, <1>4, <1>5, ChatsFitStays, MessagesFitStays
        DEF Keeps, DocsInv, ChatsTypeOK

LEMMA DocsStep ==
  ASSUME DocsInv, [ChatsNext]_chatVars
  PROVE  DocsInv' /\ GoesOn
<1> SUFFICES Keeps
  BY DEF Keeps
<1>1. ASSUME NEW x \in Clients, RemoveChat(x)
      PROVE  Keeps
  BY <1>1, CloseKeeps, ForgetKeeps DEF RemoveChat
<1>2. CASE UnreadRemove
  BY <1>2, ReadKeeps DEF UnreadRemove
<1>3. CASE UnreadRemoveAll
  BY <1>3, ReadKeeps DEF UnreadRemoveAll, MessagesOf
<1>4. CASE UNCHANGED chatVars
  <2>1. GoesOn
    BY <1>4 DEF GoesOn, chatVars
  <2> QED BY <1>4, <2>1, SameClientsFit, ChatsFitStays, MessagesFitStays
          DEF Keeps, DocsInv, ChatsTypeOK, chatVars
<1>5. Keeps
  BY <1>1, <1>2, <1>3, <1>4, OpenPrivateKeeps, InsertPrivateKeeps,
     LocateChatKeeps, StartMessageKeeps, SaveMessageKeeps, EditMessageKeeps,
     DropMessageKeeps, CountMessageKeeps, CreateLiveStreamKeeps,
     JoinLiveStreamKeeps, CutKeeps DEF ChatsNext
<1> QED BY <1>5

LEMMA DocsStart == ChatsInit => DocsInv
  BY CutsAssumption
     DEF ChatsInit, DocsInv, ChatsTypeOK, ChatDocs, MessageDocs, ClientTasks,
         Waiting, NoChat, NoMessage, Fits, ChatsFit, MessagesFit, StoredMessages

LEMMA DocsAlways == ChatsSpec => []DocsInv
  BY DocsStart, DocsStep, PTL DEF ChatsSpec

(* Variables of chats, messages and notifications hold values of their     *)
(* types (chat.model.ts, message.model.ts, notification.service.ts).       *)
THEOREM MessagingTyped == Spec => []TypeOK
<1>1. DocsInv /\ NoticeInv => TypeOK
  BY DEF DocsInv, NoticeInv, TypeOK
<1> QED BY <1>1, MessagingRunsBoth, DocsAlways, NoticeAlways, PTL

-----------------------------------------------------------------------------
(* Chats: what goes with a chat                                            *)

Gone(c) ==
  chats[c].life = "removed" /\ ~Removing(c)
    => MessagesOf(c) \cap chats[c].had = {}

(* A step that is none of a removal.                                       *)
NoRemoval ==
  /\ \A c \in Chats :
       chats'[c].life = "removed" =>
         chats[c].life = "removed" /\ chats'[c].had = chats[c].had
  /\ \A c \in Chats : Removing(c) => Removing(c)'

LEMMA RemovalGoesOn ==
  ASSUME DocsInv, NEW x \in Clients, NEW r, Goes(x, r),
         ~Is(x, "removeMessages"), NEW c \in Chats, Removing(c)
  PROVE  Removing(c)'
<1>1. PICK y \in Clients : Is(y, "removeMessages") /\ client[y].chat = c
  BY DEF Removing
<1>2. client'[y] = client[y]
  BY <1>1 DEF Goes, Is, DocsInv, ChatsTypeOK
<1> QED BY <1>1, <1>2 DEF Removing, Is

(* A message that a removed chat had was stored before: it is not one that *)
(* is saved later.                                                         *)
LEMMA GoneStays ==
  ASSUME DocsInv, GoesOn, NEW c \in Chats, Gone(c),
         Removing(c) => Removing(c)',
         chats'[c].life = "removed" =>
           chats[c].life = "removed" /\ chats'[c].had = chats[c].had
  PROVE  Gone(c)'
<1> SUFFICES ASSUME chats'[c].life = "removed", ~Removing(c)',
                    NEW m \in Messages, messages'[m].life = "stored",
                    messages'[m].chat = c, m \in chats[c].had
             PROVE  FALSE
  BY DEF Gone, MessagesOf, StoredMessages
<1>1. messages[m].life # "new"
  BY DEF DocsInv, ChatsFit
<1>2. m \in MessagesOf(c)
  BY <1>1 DEF GoesOn, MessagesOf, StoredMessages
<1> QED BY <1>2 DEF Gone

LEMMA NoRemovalByClient ==
  ASSUME DocsInv, NEW x \in Clients,
         \/ OpenPrivate(x) \/ InsertPrivate(x) \/ LocateChat(x)
         \/ StartMessage(x) \/ SaveMessage(x) \/ EditMessage(x)
         \/ DropMessage(x) \/ CountMessage(x)
  PROVE  NoRemoval
<1>1. ~Is(x, "removeMessages")
  BY DEF OpenPrivate, InsertPrivate, LocateChat, StartMessage, SaveMessage,
         EditMessage, DropMessage, CountMessage, Is
<1>2. UNCHANGED client \/ \E r : Goes(x, r)
  BY OpenPrivateSteps
     DEF InsertPrivate, LocateChat, StartMessage, SaveMessage, EditMessage,
         DropMessage, CountMessage, Done
<1>3. \A c \in Chats : Removing(c) => Removing(c)'
  BY <1>1, <1>2, RemovalGoesOn DEF Removing, Is
<1>4. CASE InsertPrivate(x)
  <2> DEFINE d == NewChat("private", client[x].who)
  <2>1. PICK c \in Chats : chats' = [chats EXCEPT ![c] = d]
    BY <1>4 DEF InsertPrivate, StoreChat
  <2>2. d.life = "stored"
    BY DEF NewChat
  <2> HIDE DEF d
  <2> QED BY <1>3, <2>1, <2>2 DEF NoRemoval, DocsInv, ChatsTypeOK
<1>5. CASE CountMessage(x)
  <2>1. PICK c \in Chats, n \in {1, -1} :
          chats[c].life # "new" /\ Counts(c, n)
    BY <1>5, CountMessageSteps
  <2>2. chats[c] \in StoredChats
    BY <2>1, ChatShape DEF DocsInv, ChatsTypeOK
  <2>3. /\ chats'[c].life = chats[c].life /\ chats'[c].had = chats[c].had
        /\ \A b \in Chats \ {c} : chats'[b] = chats[b]
    BY <2>1, <2>2 DEF Counts, StoredChats, DocsInv, ChatsTypeOK
  <2> QED BY <1>3, <2>3 DEF NoRemoval
<1>6. CASE UNCHANGED chats
  BY <1>3, <1>6 DEF NoRemoval
<1> QED BY <1>4, <1>5, <1>6, OpenPrivateSteps
        DEF LocateChat, StartMessage, SaveMessage, EditMessage, DropMessage

LEMMA NoRemovalByOthers ==
  ASSUME DocsInv,
         \/ CreateLiveStream \/ JoinLiveStream \/ UnreadRemove
         \/ UnreadRemoveAll \/ UNCHANGED chatVars
  PROVE  NoRemoval
<1>1. UNCHANGED client
  BY DEF CreateLiveStream, JoinLiveStream, UnreadRemove, UnreadRemoveAll,
         chatVars
<1>2. \A c \in Chats : Removing(c) => Removing(c)'
  BY <1>1 DEF Removing, Is
<1>3. CASE CreateLiveStream
  <2>1. PICK u \in Users : StoreChat(NewChat("liveStream", {u}))
    BY <1>3 DEF CreateLiveStream
  <2> DEFINE d == NewChat("liveStream", {u})
  <2>2. PICK c \in Chats : chats' = [chats EXCEPT ![c] = d]
    BY <2>1 DEF StoreChat
  <2>3. d.life = "stored"
    BY DEF NewChat
  <2> HIDE DEF d
  <2> QED BY <1>2, <2>2, <2>3 DEF NoRemoval, DocsInv, ChatsTypeOK
<1>4. CASE JoinLiveStream
  <2>1. PICK c \in Open, u \in Users :
          chats' = [chats EXCEPT ![c].participants = @ \cup {u}]
    BY <1>4 DEF JoinLiveStream
  <2>2. chats[c] \in StoredChats /\ c \in Chats
    BY ChatShape DEF Open, DocsInv, ChatsTypeOK
  <2>3. /\ chats'[c].life = chats[c].life /\ chats'[c].had = chats[c].had
        /\ \A b \in Chats \ {c} : chats'[b] = chats[b]
    BY <2>1, <2>2 DEF StoredChats, DocsInv, ChatsTypeOK
  <2> QED BY <1>2, <2>3 DEF NoRemoval
<1>5. CASE UNCHANGED chats
  BY <1>2, <1>5 DEF NoRemoval
<1> QED BY <1>3, <1>4, <1>5 DEF UnreadRemove, UnreadRemoveAll, chatVars

LEMMA CloseGone ==
  ASSUME DocsInv, GoesOn, NEW x \in Clients, Is(x, "removeChat"), RemoveChat(x),
         NEW c \in Chats, Gone(c)
  PROVE  Gone(c)'
<1>1. PICK b \in Chats : b = client[x].chat
  BY ClientShape DEF Is, DocsInv, ChatsTypeOK
<1>2. Close(b) /\ Goes(x, [pc |-> "removeMessages", chat |-> b])
  BY <1>1 DEF RemoveChat, Is
<1>3. CASE c = b
  <2>1. client'[x] = [pc |-> "removeMessages", chat |-> b]
    BY <1>2 DEF Goes, DocsInv, ChatsTypeOK
  <2> QED BY <1>3, <2>1 DEF Gone, Removing, Is
<1>4. CASE c # b
  <2>1. chats'[c] = chats[c]
    BY <1>2, <1>4 DEF Close, DocsInv, ChatsTypeOK
  <2>2. Removing(c) => Removing(c)'
    BY <1>2, RemovalGoesOn DEF Is
  <2> QED BY <2>1, <2>2, GoneStays
<1> QED BY <1>3, <1>4

LEMMA ForgetGone ==
  ASSUME DocsInv, GoesOn, NEW x \in Clients, Is(x, "removeMessages"),
         RemoveChat(x), NEW c \in Chats, Gone(c)
  PROVE  Gone(c)'
<1>1. PICK b \in Chats : b = client[x].chat
  BY ClientShape DEF Is, DocsInv, ChatsTypeOK
<1>2. Forget(b) /\ Done(x) /\ UNCHANGED chats
  BY <1>1 DEF RemoveChat, Is
<1>3. CASE c = b
  <2>1. MessagesOf(c)' = {}
    BY <1>2, <1>3 DEF Forget, MessagesOf, StoredMessages
  <2> QED BY <2>1 DEF Gone
<1>4. CASE c # b
  <2>1. ASSUME Removing(c)
        PROVE  Removing(c)'
    <3>1. PICK y \in Clients : Is(y, "removeMessages") /\ client[y].chat = c
      BY <2>1 DEF Removing
    <3>2. client'[y] = client[y]
      BY <1>1, <1>2, <1>4, <3>1 DEF Done, Goes, DocsInv, ChatsTypeOK
    <3> QED BY <3>1, <3>2 DEF Removing, Is
  <2> QED BY <1>2, <2>1, GoneStays
<1> QED BY <1>3, <1>4

LEMMA GoneStep ==
  ASSUME DocsInv, GoneWithChat, [ChatsNext]_chatVars
  PROVE  GoneWithChat'
<1> SUFFICES ASSUME cuts' = 0, NEW c \in Chats
             PROVE  Gone(c)'
  BY DEF GoneWithChat, Gone
<1>1. GoesOn
  BY DocsStep
<1>2. ~Cut
  BY DEF Cut, DocsInv, ChatsTypeOK
<1>3. Gone(c)
  BY <1>2 DEF ChatsNext, OpenPrivate, InsertPrivate, LocateChat, RemoveChat,
       StartMessage, SaveMessage, EditMessage, DropMessage, CountMessage,
       CreateLiveStream, JoinLiveStream, UnreadRemove, UnreadRemoveAll,
       chatVars, GoneWithChat, Gone
<1>4. CASE NoRemoval
  BY <1>1, <1>3, <1>4, GoneStays DEF NoRemoval
<1>5. ASSUME NEW x \in Clients, RemoveChat(x)
      PROVE  Gone(c)'
  BY <1>1, <1>3, <1>5, CloseGone, ForgetGone DEF RemoveChat
<1> QED BY <1>2, <1>4, <1>5, NoRemovalByClient, NoRemovalByOthers DEF ChatsNext

(* Whatever overlaps a removal, the messages a chat had when it was removed*)
(* go with it (chat.model.ts:89-96).                                       *)
THEOREM GoneWithChatAlways == Spec => []GoneWithChat
<1>1. ChatsInit => GoneWithChat
  BY DEF ChatsInit, GoneWithChat, NoChat
<1>2. ChatsSpec => []GoneWithChat
  BY <1>1, GoneStep, DocsAlways, PTL DEF ChatsSpec
<1> QED BY <1>2, MessagingRunsBoth, PTL

-----------------------------------------------------------------------------
(* Chats: how many private chats two users have                            *)

PrivateOf(pair) ==
  {c \in Open : chats[c].chatType = "private" /\ chats[c].participants = pair}
Upserts(pair) ==
  {x \in Clients : client[x].pc = "upsert" /\ client[x].who = pair}

(* The chats of two users, and those that are about to be inserted.        *)
Few(pair) ==
  /\ IsFiniteSet(PrivateOf(pair))
  /\ Cardinality(PrivateOf(pair)) + Cardinality(Upserts(pair))
       <= Cardinality(Clients)

FewInv == \A pair \in SUBSET Users : Few(pair)

LEMMA UpsertsFinite ==
  ASSUME NEW pair
  PROVE  /\ IsFiniteSet(Upserts(pair)) /\ Cardinality(Upserts(pair)) \in Nat
         /\ Cardinality(Upserts(pair)) <= Cardinality(Clients)
         /\ Cardinality(Clients) \in Nat
<1>1. Upserts(pair) \in SUBSET Clients
  BY DEF Upserts
<1>2. IsFiniteSet(Clients)
  BY ClientsAssumption
<1> QED BY <1>1, <1>2, FS_Subset, FS_CardinalityType

LEMMA FewStays ==
  ASSUME NEW pair \in SUBSET Users, Few(pair),
         PrivateOf(pair)' \subseteq PrivateOf(pair),
         Upserts(pair)' \subseteq Upserts(pair)
  PROVE  Few(pair)'
<1> DEFINE P == PrivateOf(pair)
           U == Upserts(pair)
<1>1. PICK P2, U2 : P2 = P' /\ U2 = U'
  OBVIOUS
<1>2. P2 \in SUBSET P /\ U2 \in SUBSET U /\ IsFiniteSet(P) /\ IsFiniteSet(U)
  BY <1>1, UpsertsFinite DEF Few
<1>3. /\ IsFiniteSet(P2) /\ Cardinality(P2) <= Cardinality(P)
      /\ IsFiniteSet(U2) /\ Cardinality(U2) <= Cardinality(U)
  BY <1>2, FS_Subset
<1>4. /\ Cardinality(P) \in Nat /\ Cardinality(P2) \in Nat
      /\ Cardinality(U) \in Nat /\ Cardinality(U2) \in Nat
      /\ Cardinality(Clients) \in Nat
  BY <1>2, <1>3, UpsertsFinite, FS_CardinalityType
<1>5. Cardinality(P) + Cardinality(U) <= Cardinality(Clients)
  BY DEF Few
<1> HIDE DEF P, U
<1>6. IsFiniteSet(P2) /\ Cardinality(P2) + Cardinality(U2) <= Cardinality(Clients)
  BY <1>3, <1>4, <1>5
<1>7. IsFiniteSet(P') /\ Cardinality(P') + Cardinality(U') <= Cardinality(Clients)
  BY <1>1, <1>6
<1> QED BY <1>7 DEF Few, P, U

(* A request that does not begin to insert.                                *)
LEMMA UpsertsStay ==
  ASSUME DocsInv, NEW x \in Clients, NEW r, Goes(x, r), r.pc # "upsert", NEW pair
  PROVE  Upserts(pair)' \subseteq Upserts(pair)
  BY DEF Upserts, Goes, DocsInv, ChatsTypeOK

(* An upsert starts where the two users have no chat: however many others  *)
(* are on their way, there are no more of them than requests.              *)
LEMMA OpenPrivateFew ==
  ASSUME DocsInv, FewInv, NEW x \in Clients, OpenPrivate(x)
  PROVE  FewInv'
<1> SUFFICES ASSUME NEW pair \in SUBSET Users
             PROVE  Few(pair)'
  BY DEF FewInv
<1>1. UNCHANGED chats /\ Few(pair)
  BY OpenPrivateSteps DEF FewInv
<1>2. PrivateOf(pair)' = PrivateOf(pair)
  BY <1>1 DEF PrivateOf, Open
<1>3. CASE UNCHANGED client
  BY <1>1, <1>2, <1>3, FewStays DEF Upserts
<1>4. ASSUME NEW u \in Users, NEW v \in Users, u # v,
             \A c \in Open : chats[c].chatType = "private" =>
                             ~HasBoth(c, {u, v}),
             Goes(x, [pc |-> "upsert", who |-> {u, v}])
      PROVE  Few(pair)'
  <2>1. CASE pair # {u, v}
    <3>1. Upserts(pair)' \subseteq Upserts(pair)
      BY <1>4, <2>1 DEF Upserts, Goes, DocsInv, ChatsTypeOK
    <3> QED BY <1>1, <1>2, <3>1, FewStays
  <2>2. CASE pair = {u, v}
    <3>1. PrivateOf(pair)' = {}
      BY <1>2, <1>4, <2>2 DEF PrivateOf, HasBoth
    <3>2. PICK U : U = Upserts(pair)'
      OBVIOUS
    <3>3. U \in SUBSET Clients
      BY <3>2 DEF Upserts
    <3>4. Cardinality(U) \in Nat /\ Cardinality(U) <= Cardinality(Clients)
      BY <3>3, ClientsAssumption, FS_Subset, FS_CardinalityType
    <3>5. IsFiniteSet({}) /\ Cardinality({}) = 0
      BY FS_EmptySet
    <3>6. IsFiniteSet({}) /\ Cardinality({}) + Cardinality(U) <= Cardinality(Clients)
      BY <3>4, <3>5
    <3> QED BY <3>1, <3>2, <3>6 DEF Few
  <2> QED BY <2>1, <2>2
<1> QED BY <1>3, <1>4, OpenPrivateSteps

(* The inserted chat takes the place of its upsert.                        *)
LEMMA InsertPrivateFew ==
  ASSUME DocsInv, FewInv, NEW x \in Clients, InsertPrivate(x)
  PROVE  FewInv'
<1> SUFFICES ASSUME NEW pair \in SUBSET Users
             PROVE  Few(pair)'
  BY DEF FewInv
<1>1. Few(pair)
  BY DEF FewInv
<1>2. PICK who \in SUBSET Users : who = client[x].who
  BY ClientShape DEF InsertPrivate, Is, DocsInv, ChatsTypeOK
<1> DEFINE d == NewChat("private", who)
<1>3. PICK c \in Chats : chats[c].life = "new" /\ chats' = [chats EXCEPT ![c] = d]
  BY <1>2 DEF InsertPrivate, StoreChat
<1>4. d.life = "stored" /\ d.chatType = "private" /\ d.participants = who
  BY NewChatTyped
<1> HIDE DEF d
<1>5. /\ chats'[c] = d /\ \A b \in Chats \ {c} : chats'[b] = chats[b]
  BY <1>3 DEF DocsInv, ChatsTypeOK
<1>6. client'[x] = Waiting /\ \A y \in Clients \ {x} : client'[y] = client[y]
  BY DEF InsertPrivate, Done, Goes, DocsInv, ChatsTypeOK
<1>7. CASE pair # who
  <2>1. PrivateOf(pair)' \subseteq PrivateOf(pair)
    BY <1>4, <1>5, <1>7 DEF PrivateOf, Open
  <2>2. Upserts(pair)' \subseteq Upserts(pair)
    BY <1>6 DEF Upserts, Waiting
  <2> QED BY <1>1, <2>1, <2>2, FewStays
<1>8. CASE pair = who
  <2> DEFINE P == PrivateOf(pair)
             U == Upserts(pair)
  <2>1. P' = P \cup {c} /\ c \notin P
    BY <1>3, <1>4, <1>5, <1>8 DEF PrivateOf, Open
  <2>2. U' = U \ {x} /\ x \in U
    BY <1>2, <1>6, <1>8 DEF Upserts, Waiting, InsertPrivate, Is
  <2>3. /\ IsFiniteSet(P) /\ IsFiniteSet(U) /\ Cardinality(U) \in Nat
        /\ Cardinality(Clients) \in Nat
        /\ Cardinality(P) + Cardinality(U) <= Cardinality(Clients)
    BY <1>1, UpsertsFinite DEF Few
  <2> HIDE DEF P, U
  <2>4. Cardinality(P) \in Nat
    BY <2>3, FS_CardinalityType
  <2>5. IsFiniteSet(P \cup {c}) /\ Cardinality(P \cup {c}) = Cardinality(P) + 1
    BY <2>1, <2>3, FS_AddElement
  <2>6. Cardinality(U \ {x}) = Cardinality(U) - 1
    BY <2>2, <2>3, FS_RemoveElement
  <2>7. /\ IsFiniteSet(P \cup {c})
        /\ Cardinality(P \cup {c}) + Cardinality(U \ {x}) <= Cardinality(Clients)
    BY <2>3, <2>4, <2>5, <2>6
  <2>8. IsFiniteSet(P') /\ Cardinality(P') + Cardinality(U') <= Cardinality(Clients)
    BY <2>1, <2>2, <2>7
  <2> QED BY <2>8 DEF Few, P, U
<1> QED BY <1>7, <1>8

LEMMA FewStep ==
  ASSUME DocsInv, FewInv, [ChatsNext]_chatVars
  PROVE  FewInv'
<1>1. ASSUME \A pair \in SUBSET Users :
               /\ PrivateOf(pair)' \subseteq PrivateOf(pair)
               /\ Upserts(pair)' \subseteq Upserts(pair)
      PROVE  FewInv'
  BY <1>1, FewStays DEF FewInv
<1>2. ASSUME UNCHANGED chats
      PROVE  \A pair \in SUBSET Users :
               PrivateOf(pair)' \subseteq PrivateOf(pair)
  BY <1>2 DEF PrivateOf, Open
<1>3. ASSUME UNCHANGED client
      PROVE  \A pair \in SUBSET Users : Upserts(pair)' \subseteq Upserts(pair)
  BY <1>3 DEF Upserts
<1>4. ASSUME NEW x \in Clients, NEW r, Goes(x, r), r.pc # "upsert"
      PROVE  \A pair \in SUBSET Users : Upserts(pair)' \subseteq Upserts(pair)
  BY <1>4, UpsertsStay
<1>5. Waiting.pc # "upsert"
  BY DEF Waiting
<1>6. ASSUME NEW x \in Clients,
             \/ LocateChat(x) \/ StartMessage(x) \/ SaveMessage(x)
             \/ EditMessage(x) \/ DropMessage(x)
      PROVE  FewInv'
  <2>1. \E r : Goes(x, r) /\ r.pc # "upsert"
    <3>1. CASE LocateChat(x)
      BY <3>1 DEF LocateChat
    <3>2. CASE StartMessage(x)
      BY <3>2, StartMessageSteps
    <3>3. CASE SaveMessage(x)
      <4>1. Goes(x, [pc |-> "count", chat |-> client[x].chat, n |-> 1])
        BY <3>3 DEF SaveMessage
      <4> QED BY <4>1
    <3>4. CASE EditMessage(x)
      BY <1>5, <3>4 DEF EditMessage, Done
    <3>5. CASE DropMessage(x)
      <4>1. Goes(x, [pc |-> "count", chat |-> client[x].chat, n |-> -1])
        BY <3>5 DEF DropMessage
      <4> QED BY <4>1
    <3> QED BY <1>6, <3>1, <3>2, <3>3, <3>4, <3>5
  <2>2. UNCHANGED chats
    BY <1>6 DEF LocateChat, StartMessage, SaveMessage, EditMessage, DropMessage
  <2> QED BY <1>1, <1>2, <1>4, <2>1, <2>2
<1>7. ASSUME NEW x \in Clients, RemoveChat(x)
      PROVE  FewInv'
  <2>1. PICK c \in Chats : c = client[x].chat /\ chats[c].life # "new"
    BY <1>7, ClientShape DEF RemoveChat, Is, DocsInv, ChatsTypeOK, Fits
  <2>2. \E r : Goes(x, r) /\ r.pc # "upsert"
    BY <1>5, <1>7 DEF RemoveChat, Done
  <2>3. chats[c] \in StoredChats
    BY <2>1, ChatShape DEF DocsInv, ChatsTypeOK
  <2>4. UNCHANGED chats \/ Close(c)
    BY <1>7, <2>1 DEF RemoveChat
  <2>5. ASSUME Close(c)
        PROVE  /\ chats'[c].life = "removed"
               /\ \A b \in Chats \ {c} : chats'[b] = chats[b]
    BY <2>3, <2>5 DEF Close, StoredChats, DocsInv, ChatsTypeOK
  <2>6. \A pair \in SUBSET Users : PrivateOf(pair)' \subseteq PrivateOf(pair)
    BY <1>2, <2>4, <2>5 DEF PrivateOf, Open
  <2> QED BY <1>1, <1>4, <2>2, <2>6
<1>8. ASSUME NEW x \in Clients, CountMessage(x)
      PROVE  FewInv'
  <2>1. PICK c \in Chats, n \in {1, -1} :
          chats[c].life # "new" /\ Counts(c, n)
    BY <1>8, CountMessageSteps
  <2>2. chats[c] \in StoredChats
    BY <2>1, ChatShape DEF DocsInv, ChatsTypeOK
  <2>3. /\ chats'[c].life = chats[c].life
        /\ chats'[c].participants = chats[c].participants
        /\ chats'[c].chatType = chats[c].chatType
        /\ \A b \in Chats \ {c} : chats'[b] = chats[b]
    BY <2>1, <2>2 DEF Counts, StoredChats, DocsInv, ChatsTypeOK
  <2>4. \A pair \in SUBSET Users : PrivateOf(pair)' \subseteq PrivateOf(pair)
    BY <2>3 DEF PrivateOf, Open
  <2>5. Done(x)
    BY <1>8 DEF CountMessage
  <2> QED BY <1>1, <1>4, <1>5, <2>4, <2>5 DEF Done
<1>9. CASE CreateLiveStream
  <2>1. PICK u \in Users : StoreChat(NewChat("liveStream", {u}))
    BY <1>9 DEF CreateLiveStream
  <2> DEFINE d == NewChat("liveStream", {u})
  <2>2. PICK c \in Chats : chats' = [chats EXCEPT ![c] = d]
    BY <2>1 DEF StoreChat
  <2>3. d.chatType = "liveStream"
    BY DEF NewChat
  <2> HIDE DEF d
  <2>4. \A pair \in SUBSET Users : PrivateOf(pair)' \subseteq PrivateOf(pair)
    BY <2>2, <2>3 DEF PrivateOf, Open, DocsInv, ChatsTypeOK
  <2> QED BY <1>1, <1>3, <1>9, <2>4 DEF CreateLiveStream
<1>10. CASE JoinLiveStream
  <2>1. PICK c \in Open, u \in Users :
          /\ chats[c].chatType = "liveStream"
          /\ chats' = [chats EXCEPT ![c].participants = @ \cup {u}]
    BY <1>10 DEF JoinLiveStream
  <2>2. chats[c] \in StoredChats /\ c \in Chats
    BY ChatShape DEF Open, DocsInv, ChatsTypeOK
  <2>3. /\ chats'[c].chatType = "liveStream"
        /\ \A b \in Chats \ {c} : chats'[b] = chats[b]
    BY <2>1, <2>2 DEF StoredChats, DocsInv, ChatsTypeOK
  <2>4. \A pair \in SUBSET Users : PrivateOf(pair)' \subseteq PrivateOf(pair)
    BY <2>3 DEF PrivateOf, Open
  <2> QED BY <1>1, <1>3, <1>10, <2>4 DEF JoinLiveStream
<1>11. CASE UnreadRemove \/ UnreadRemoveAll \/ UNCHANGED chatVars
  BY <1>1, <1>2, <1>3, <1>11 DEF UnreadRemove, UnreadRemoveAll, chatVars
<1>12. CASE Cut
  <2>1. \A pair \in SUBSET Users : Upserts(pair)' \subseteq Upserts(pair)
    BY <1>12 DEF Cut, Upserts, Waiting
  <2> QED BY <1>1, <1>2, <1>12, <2>1 DEF Cut
<1> QED BY <1>6, <1>7, <1>8, <1>9, <1>10, <1>11, <1>12, OpenPrivateFew,
           InsertPrivateFew DEF ChatsNext

LEMMA FewStart == ChatsInit => FewInv
<1> SUFFICES ASSUME ChatsInit, NEW pair \in SUBSET Users
             PROVE  Few(pair)
  BY DEF FewInv
<1>1. PrivateOf(pair) = {} /\ Upserts(pair) = {}
  BY DEF ChatsInit, PrivateOf, Open, NoChat, Upserts, Waiting
<1>2. IsFiniteSet({}) /\ Cardinality({}) + Cardinality({}) <= Cardinality(Clients)
  BY FS_EmptySet, FS_CardinalityType, ClientsAssumption
<1> QED BY <1>1, <1>2 DEF Few

(* However many requests open the chat of two users at once, they make no  *)
(* more chats than there were requests (chat.controller.ts:319-327).       *)
THEOREM FewChatsAlways == Spec => []FewChats
<1>1. ChatsSpec => []FewInv
  BY FewStart, FewStep, DocsAlways, PTL DEF ChatsSpec
<1>2. FewInv => FewChats
  <2> SUFFICES ASSUME FewInv, NEW pair \in SUBSET Users
               PROVE  Cardinality(PrivateOf(pair)) <= Cardinality(Clients)
    BY DEF FewChats, PrivateOf
  <2>1. /\ IsFiniteSet(PrivateOf(pair))
        /\ Cardinality(PrivateOf(pair)) + Cardinality(Upserts(pair))
             <= Cardinality(Clients)
    BY DEF FewInv, Few
  <2>2. Cardinality(PrivateOf(pair)) \in Nat
    BY <2>1, FS_CardinalityType
  <2> QED BY <2>1, <2>2, UpsertsFinite
<1> QED BY <1>1, <1>2, MessagingRunsBoth, PTL

-----------------------------------------------------------------------------
(* Chats: what a counter may show                                          *)

Counting(r, c, n) == r.pc = "count" /\ r.chat = c /\ r.n = n
Tasks(c, n) == {x \in Clients : Counting(client[x], c, n)}

(* What a chat counts, with what is about to be counted, is no more than   *)
(* what it holds with what was taken from it.                              *)
Counted(c) ==
  chats[c].messagesCounter + Cardinality(Tasks(c, 1))
    <= Cardinality(MessagesOf(c)) + Cardinality(Tasks(c, -1))

CountInv ==
  /\ IsFiniteSet(StoredMessages)
  /\ cuts = 0 => \A c \in Open : Counted(c)

LEMMA TasksFinite ==
  ASSUME NEW c, NEW n
  PROVE  IsFiniteSet(Tasks(c, n)) /\ Cardinality(Tasks(c, n)) \in Nat
<1>1. Tasks(c, n) \in SUBSET Clients
  BY DEF Tasks
<1> QED BY <1>1, ClientsAssumption, FS_Subset, FS_CardinalityType

LEMMA MessagesFinite ==
  ASSUME CountInv, NEW c
  PROVE  IsFiniteSet(MessagesOf(c)) /\ Cardinality(MessagesOf(c)) \in Nat
<1>1. MessagesOf(c) \in SUBSET StoredMessages
  BY DEF MessagesOf
<1> QED BY <1>1, FS_Subset, FS_CardinalityType DEF CountInv

LEMMA CounterInt ==
  ASSUME DocsInv, NEW c \in Open
  PROVE  c \in Chats /\ chats[c] \in StoredChats /\ chats[c].messagesCounter \in Int
  BY ChatShape DEF DocsInv, ChatsTypeOK, Open, StoredChats

(* A request that goes on may be one of those that count, or stop being.   *)
LEMMA TasksStay ==
  ASSUME DocsInv, NEW x \in Clients, NEW r, Goes(x, r), NEW c, NEW n,
         Counting(client[x], c, n) <=> Counting(r, c, n)
  PROVE  Tasks(c, n)' = Tasks(c, n)
  BY DEF Tasks, Counting, Goes, DocsInv, ChatsTypeOK

LEMMA TasksGrow ==
  ASSUME DocsInv, NEW x \in Clients, NEW r, Goes(x, r), NEW c, NEW n,
         ~Counting(client[x], c, n), Counting(r, c, n)
  PROVE  Cardinality(Tasks(c, n))' = Cardinality(Tasks(c, n)) + 1
<1>1. Tasks(c, n)' = Tasks(c, n) \cup {x} /\ x \notin Tasks(c, n)
  BY DEF Tasks, Counting, Goes, DocsInv, ChatsTypeOK
<1> QED BY <1>1, TasksFinite, FS_AddElement

LEMMA TasksShrink ==
  ASSUME DocsInv, NEW x \in Clients, NEW r, Goes(x, r), NEW c, NEW n,
         Counting(client[x], c, n), ~Counting(r, c, n)
  PROVE  Cardinality(Tasks(c, n))' = Cardinality(Tasks(c, n)) - 1
<1>1. Tasks(c, n)' = Tasks(c, n) \ {x} /\ x \in Tasks(c, n)
  BY DEF Tasks, Counting, Goes, DocsInv, ChatsTypeOK
<1> QED BY <1>1, TasksFinite, FS_RemoveElement

LEMMA CountedStays ==
  ASSUME NEW c, Counted(c),
         chats'[c].messagesCounter = chats[c].messagesCounter,
         Tasks(c, 1)' = Tasks(c, 1), Tasks(c, -1)' = Tasks(c, -1),
         MessagesOf(c)' = MessagesOf(c)
  PROVE  Counted(c)'
  BY DEF Counted

(* A request that does not count, and goes on to nothing that counts.      *)
LEMMA NoCountStays ==
  ASSUME DocsInv, NEW x \in Clients, NEW r, Goes(x, r),
         client[x].pc # "count", r.pc # "count", NEW c, Counted(c),
         chats'[c].messagesCounter = chats[c].messagesCounter,
         MessagesOf(c)' = MessagesOf(c)
  PROVE  Counted(c)'
<1>1. \A n : ~Counting(client[x], c, n) /\ ~Counting(r, c, n)
  BY DEF Counting
<1> QED BY <1>1, TasksStay, CountedStays

(* A chat that was just stored counts nothing, and no request knows it.    *)
LEMMA NewCounted ==
  ASSUME DocsInv, CountInv, NEW c \in Chats, chats[c].life = "new",
         chats'[c].messagesCounter = 0, UNCHANGED messages,
         Tasks(c, 1)' \subseteq Tasks(c, 1)
  PROVE  Counted(c)'
<1>1. Tasks(c, 1) = {}
  BY DEF Tasks, Counting, DocsInv, Fits
<1>2. Tasks(c, 1)' = {} /\ MessagesOf(c)' = MessagesOf(c)
  BY <1>1 DEF MessagesOf, StoredMessages
<1>3. PICK m \in Nat : m = Cardinality(Tasks(c, -1))'
  <2>1. PICK T : T = Tasks(c, -1)'
    OBVIOUS
  <2>2. T \in SUBSET Clients
    BY <2>1 DEF Tasks
  <2>3. Cardinality(T) \in Nat
    BY <2>2, ClientsAssumption, FS_Subset, FS_CardinalityType
  <2> QED BY <2>1, <2>3
<1>4. Cardinality({}) = 0 /\ Cardinality(MessagesOf(c)) \in Nat
  BY FS_EmptySet, MessagesFinite
<1>5. 0 + Cardinality({}) <= Cardinality(MessagesOf(c)) + m
  BY <1>4
<1> QED BY <1>2, <1>3, <1>5 DEF Counted

(* The stored messages stay finitely many.                                 *)
LEMMA StoredFinite ==
  ASSUME DocsInv, IsFiniteSet(StoredMessages), [ChatsNext]_chatVars
  PROVE  IsFiniteSet(StoredMessages)'
<1>1. ASSUME NEW m, StoredMessages' \subseteq StoredMessages \cup {m}
      PROVE  IsFiniteSet(StoredMessages)'
  <2>1. PICK T : T = StoredMessages'
    OBVIOUS
  <2>2. IsFiniteSet(StoredMessages \cup {m})
    BY FS_AddElement
  <2>3. T \in SUBSET (StoredMessages \cup {m})
    BY <1>1, <2>1
  <2>4. IsFiniteSet(T)
    BY <2>2, <2>3, FS_Subset
  <2> QED BY <2>1, <2>4
<1>2. CASE StoredMessages' \subseteq StoredMessages
  BY <1>1, <1>2
<1>3. ASSUME NEW x \in Clients, SaveMessage(x)
      PROVE  IsFiniteSet(StoredMessages)'
  <2>1. PICK m \in Messages, d \in Filed : messages' = [messages EXCEPT ![m] = d]
    BY <1>3, SaveMessageSteps
  <2>2. StoredMessages' \subseteq StoredMessages \cup {m}
    BY <2>1 DEF StoredMessages, DocsInv, ChatsTypeOK
  <2> QED BY <1>1, <2>2
<1>4. CASE UNCHANGED messages
  BY <1>2, <1>4 DEF StoredMessages
<1>5. ASSUME NEW x \in Clients, RemoveChat(x) \/ EditMessage(x) \/ DropMessage(x)
      PROVE  StoredMessages' \subseteq StoredMessages
  <2>1. CASE RemoveChat(x)
    BY <2>1 DEF RemoveChat, Forget, StoredMessages
  <2>2. CASE EditMessage(x)
    BY <2>2 DEF EditMessage, StoredMessages, DocsInv, ChatsTypeOK
  <2>3. CASE DropMessage(x)
    BY <2>3 DEF DropMessage, StoredMessages, DocsInv, ChatsTypeOK
  <2> QED BY <1>5, <2>1, <2>2, <2>3
<1>6. ASSUME NEW ms \in SUBSET StoredMessages, NEW u, Read(ms, u)
      PROVE  StoredMessages' \subseteq StoredMessages
  BY <1>6 DEF Read, StoredMessages
<1>7. CASE UnreadRemove
  BY <1>2, <1>6, <1>7 DEF UnreadRemove
<1>8. CASE UnreadRemoveAll
  BY <1>2, <1>6, <1>8 DEF UnreadRemoveAll, MessagesOf
<1> QED BY <1>2, <1>3, <1>4, <1>5, <1>7, <1>8
        DEF ChatsNext, OpenPrivate, InsertPrivate, LocateChat, StartMessage,
            CountMessage, CreateLiveStream, JoinLiveStream, Cut, chatVars

(* The step that stores a message: it is about to be counted.              *)
LEMMA SaveCounted ==
  ASSUME DocsInv, CountInv, NEW x \in Clients, SaveMessage(x), NEW c \in Open,
         Counted(c)
  PROVE  Counted(c)'
<1>1. PICK b \in Chats : b = client[x].chat
  BY SaveMessageSteps
<1>2. Goes(x, [pc |-> "count", chat |-> b, n |-> 1]) /\ UNCHANGED chats
  BY <1>1, SaveMessageSteps
<1>3. PICK m \in Messages, d \in Filed :
        /\ messages[m].life = "new" /\ d.chat = b
        /\ messages' = [messages EXCEPT ![m] = d]
  BY <1>1, SaveMessageSteps
<1>4. d.life = "stored"
  BY DEF Filed
<1>5. client[x].pc # "count"
  BY DEF SaveMessage, Is
<1>6. Tasks(c, -1)' = Tasks(c, -1)
  BY <1>2, <1>5, TasksStay DEF Counting
<1>7. CASE b = c
  <2>1. MessagesOf(c)' = MessagesOf(c) \cup {m} /\ m \notin MessagesOf(c)
    BY <1>3, <1>4, <1>7 DEF MessagesOf, StoredMessages, DocsInv, ChatsTypeOK
  <2>2. Cardinality(MessagesOf(c))' = Cardinality(MessagesOf(c)) + 1
    BY <2>1, MessagesFinite, FS_AddElement
  <2>3. Cardinality(Tasks(c, 1))' = Cardinality(Tasks(c, 1)) + 1
    BY <1>2, <1>5, <1>7, TasksGrow DEF Counting
  <2>4. /\ chats[c].messagesCounter \in Int
        /\ Cardinality(MessagesOf(c)) \in Nat
        /\ Cardinality(Tasks(c, 1)) \in Nat /\ Cardinality(Tasks(c, -1)) \in Nat
    BY CounterInt, MessagesFinite, TasksFinite
  <2> QED BY <1>2, <1>6, <2>2, <2>3, <2>4 DEF Counted
<1>8. CASE b # c
  <2>1. MessagesOf(c)' = MessagesOf(c)
    BY <1>3, <1>4, <1>8 DEF MessagesOf, StoredMessages, DocsInv, ChatsTypeOK
  <2>2. Tasks(c, 1)' = Tasks(c, 1)
    BY <1>2, <1>5, <1>8, TasksStay DEF Counting
  <2> QED BY <1>2, <1>6, <2>1, <2>2, CountedStays
<1> QED BY <1>7, <1>8

(* The step that removes one: its removal is about to be counted, and the  *)
(* message may have been gone.                                             *)
LEMMA DropCounted ==
  ASSUME DocsInv, CountInv, NEW x \in Clients, DropMessage(x), NEW c \in Open,
         Counted(c)
  PROVE  Counted(c)'
<1>1. PICK b \in Chats : b = client[x].chat
  BY DropMessageSteps
<1>2. Goes(x, [pc |-> "count", chat |-> b, n |-> -1]) /\ UNCHANGED chats
  BY <1>1, DropMessageSteps
<1>3. PICK m \in Messages :
        /\ messages[m].life = "stored" => messages[m].chat = b
        /\ messages' = [messages EXCEPT ![m] = [life |-> "removed"]]
  BY <1>1, DropMessageSteps
<1>4. client[x].pc # "count"
  BY DEF DropMessage, Is
<1>5. Tasks(c, 1)' = Tasks(c, 1)
  BY <1>2, <1>4, TasksStay DEF Counting
<1>6. CASE b = c
  <2>1. MessagesOf(c)' = MessagesOf(c) \ {m}
    BY <1>3 DEF MessagesOf, StoredMessages, DocsInv, ChatsTypeOK
  <2>2. Cardinality(MessagesOf(c))' >= Cardinality(MessagesOf(c)) - 1
    <3>1. PICK M : M = MessagesOf(c)
      OBVIOUS
    <3>2. IsFiniteSet(M) /\ Cardinality(M) \in Nat
      BY <3>1, MessagesFinite
    <3>3. Cardinality(M \ {m}) = IF m \in M THEN Cardinality(M) - 1
                                             ELSE Cardinality(M)
      BY <3>2, FS_RemoveElement
    <3>4. Cardinality(M \ {m}) >= Cardinality(M) - 1
      BY <3>2, <3>3
    <3> QED BY <2>1, <3>1, <3>4
  <2>3. Cardinality(Tasks(c, -1))' = Cardinality(Tasks(c, -1)) + 1
    BY <1>2, <1>4, <1>6, TasksGrow DEF Counting
  <2>4. /\ chats[c].messagesCounter \in Int
        /\ Cardinality(MessagesOf(c)) \in Nat
        /\ Cardinality(Tasks(c, 1)) \in Nat /\ Cardinality(Tasks(c, -1)) \in Nat
    BY CounterInt, MessagesFinite, TasksFinite
  <2>5. Cardinality(MessagesOf(c))' \in Nat
    BY <2>1, MessagesFinite, FS_RemoveElement, FS_CardinalityType
  <2> QED BY <1>2, <1>5, <2>2, <2>3, <2>4, <2>5 DEF Counted
<1>7. CASE b # c
  <2>1. MessagesOf(c)' = MessagesOf(c)
    BY <1>3, <1>7 DEF MessagesOf, StoredMessages, DocsInv, ChatsTypeOK
  <2>2. Tasks(c, -1)' = Tasks(c, -1)
    BY <1>2, <1>4, <1>7, TasksStay DEF Counting
  <2> QED BY <1>2, <1>5, <2>1, <2>2, CountedStays
<1> QED BY <1>6, <1>7

(* The steps that count: the task gives way to the counter.                *)
LEMMA CountCounted ==
  ASSUME DocsInv, CountInv, NEW x \in Clients, CountMessage(x), NEW c \in Open,
         Counted(c)
  PROVE  Counted(c)'
<1>1. PICK b \in Chats, n \in {1, -1} : b = client[x].chat /\ n = client[x].n
  BY CountMessageSteps
<1>2. Counts(b, n) /\ Goes(x, Waiting) /\ UNCHANGED messages
  BY <1>1, CountMessageSteps DEF Done
<1>3. \A k, i : /\ Counting(client[x], k, i) <=> k = b /\ i = n
                /\ ~Counting(Waiting, k, i)
  BY <1>1 DEF CountMessage, Is, Waiting, Counting
<1>4. MessagesOf(c)' = MessagesOf(c)
  BY <1>2 DEF MessagesOf, StoredMessages
<1>5. /\ c \in Chats /\ chats[c] \in StoredChats
      /\ chats[c].messagesCounter \in Int
      /\ Cardinality(MessagesOf(c)) \in Nat
      /\ Cardinality(Tasks(c, 1)) \in Nat /\ Cardinality(Tasks(c, -1)) \in Nat
  BY CounterInt, MessagesFinite, TasksFinite
<1>6. CASE b = c
  <2>1. chats'[c].messagesCounter = chats[c].messagesCounter + n
    BY <1>2, <1>5, <1>6 DEF Counts, StoredChats, DocsInv, ChatsTypeOK
  <2>2. Cardinality(Tasks(c, n))' = Cardinality(Tasks(c, n)) - 1
    BY <1>2, <1>3, <1>6, TasksShrink
  <2>3. CASE n = 1
    <3>1. Tasks(c, -1)' = Tasks(c, -1)
      BY <1>2, <1>3, <2>3, TasksStay
    <3> QED BY <1>4, <1>5, <2>1, <2>2, <2>3, <3>1 DEF Counted
  <2>4. CASE n = -1
    <3>1. Tasks(c, 1)' = Tasks(c, 1)
      BY <1>2, <1>3, <2>4, TasksStay
    <3> QED BY <1>4, <1>5, <2>1, <2>2, <2>4, <3>1 DEF Counted
  <2> QED BY <2>3, <2>4
<1>7. CASE b # c
  <2>1. chats'[c] = chats[c]
    BY <1>2, <1>5, <1>7 DEF Counts, DocsInv, ChatsTypeOK
  <2>2. Tasks(c, 1)' = Tasks(c, 1) /\ Tasks(c, -1)' = Tasks(c, -1)
    BY <1>2, <1>3, <1>7, TasksStay
  <2> QED BY <1>4, <2>1, <2>2, CountedStays
<1> QED BY <1>6, <1>7

(* A removed chat is not open; the other chats keep what they have.        *)
LEMMA RemoveCounted ==
  ASSUME DocsInv, NEW x \in Clients, RemoveChat(x), NEW c \in Open, Counted(c),
         c \in Open'
  PROVE  Counted(c)'
<1>1. PICK b \in Chats : b = client[x].chat /\ Fits(client[x])
  BY ClientShape DEF RemoveChat, Is, DocsInv, ChatsTypeOK
<1>2. client[x].pc # "count" /\ Waiting.pc # "count" /\ c \in Chats
  BY DEF RemoveChat, Is, Waiting, Open
<1>3. CASE Is(x, "removeChat")
  <2>1. /\ Close(b) /\ UNCHANGED messages
        /\ Goes(x, [pc |-> "removeMessages", chat |-> b])
    BY <1>1, <1>3 DEF RemoveChat, Is
  <2>2. c # b
    BY <2>1, CounterInt DEF Close, Open, StoredChats, DocsInv, ChatsTypeOK
  <2>3. chats'[c] = chats[c] /\ MessagesOf(c)' = MessagesOf(c)
    BY <1>2, <2>1, <2>2
       DEF Close, MessagesOf, StoredMessages, DocsInv, ChatsTypeOK
  <2> QED BY <1>2, <2>1, <2>3, NoCountStays
<1>4. CASE Is(x, "removeMessages")
  <2>1. Forget(b) /\ UNCHANGED chats /\ Goes(x, Waiting)
    BY <1>1, <1>4 DEF RemoveChat, Is, Done
  <2>2. c # b
    BY <1>1, <1>4 DEF Fits, Is, Open
  <2>3. MessagesOf(c)' = MessagesOf(c)
    BY <2>1, <2>2 DEF Forget, MessagesOf, StoredMessages
  <2> QED BY <1>2, <2>1, <2>3, NoCountStays
<1> QED BY <1>3, <1>4 DEF RemoveChat

LEMMA EditCounted ==
  ASSUME DocsInv, NEW x \in Clients, EditMessage(x), NEW c \in Open, Counted(c)
  PROVE  Counted(c)'
<1>1. client[x].pc # "count" /\ Waiting.pc # "count"
  BY DEF EditMessage, Is, Waiting
<1> DEFINE m == client[x].message
           who == client[x].who
<1>2. messages' = IF m \in StoredMessages
                  THEN [messages EXCEPT ![m].unread = who] ELSE messages
  BY DEF EditMessage
<1> HIDE DEF m, who
<1>3. \A k \in Messages :
        /\ messages'[k].life = messages[k].life
        /\ messages[k].life = "stored" => messages'[k].chat = messages[k].chat
  <2>1. CASE m \in StoredMessages
    <3>1. messages[m] \in Filed
      BY <2>1, MessageShape DEF StoredMessages, DocsInv, ChatsTypeOK
    <3> QED BY <1>2, <2>1, <3>1 DEF Filed, DocsInv, ChatsTypeOK
  <2>2. CASE m \notin StoredMessages
    BY <1>2, <2>2
  <2> QED BY <2>1, <2>2
<1>4. MessagesOf(c)' = MessagesOf(c)
  BY <1>3 DEF MessagesOf, StoredMessages
<1>5. Goes(x, Waiting) /\ UNCHANGED chats
  BY DEF EditMessage, Done
<1> QED BY <1>1, <1>4, <1>5, NoCountStays

LEMMA ReadCounted ==
  ASSUME DocsInv, NEW ms \in SUBSET StoredMessages, NEW u, Read(ms, u),
         UNCHANGED <<chats, client>>, NEW c, Counted(c)
  PROVE  Counted(c)'
<1>1. ASSUME NEW m \in Messages
      PROVE  /\ messages'[m].life = messages[m].life
             /\ messages[m].life = "stored" =>
                  messages'[m].chat = messages[m].chat
  <2>1. CASE m \in ms
    <3>1. messages[m] \in Filed
      BY <2>1, MessageShape DEF StoredMessages, DocsInv, ChatsTypeOK
    <3>2. messages'[m] = [messages[m] EXCEPT !.unread = @ \ {u}]
      BY <2>1 DEF Read
    <3> QED BY <3>1, <3>2 DEF Filed
  <2>2. CASE m \notin ms
    BY <2>2 DEF Read
  <2> QED BY <2>1, <2>2
<1>2. MessagesOf(c)' = MessagesOf(c)
  BY <1>1 DEF MessagesOf, StoredMessages
<1>3. Tasks(c, 1)' = Tasks(c, 1) /\ Tasks(c, -1)' = Tasks(c, -1)
  BY DEF Tasks
<1> QED BY <1>2, <1>3, CountedStays

LEMMA InsertCounted ==
  ASSUME DocsInv, CountInv, NEW x \in Clients, InsertPrivate(x), NEW c \in Open',
         c \in Open => Counted(c)
  PROVE  Counted(c)'
<1>1. client[x].pc # "count" /\ Waiting.pc # "count" /\ c \in Chats
  BY DEF InsertPrivate, Is, Waiting, Open
<1>2. Goes(x, Waiting) /\ UNCHANGED messages
  BY DEF InsertPrivate, Done
<1>3. \A n : ~Counting(client[x], c, n) /\ ~Counting(Waiting, c, n)
  BY <1>1 DEF Counting
<1>4. \A n : Tasks(c, n)' = Tasks(c, n)
  BY <1>2, <1>3, TasksStay
<1> DEFINE d == NewChat("private", client[x].who)
<1>5. PICK b \in Chats : chats[b].life = "new" /\ chats' = [chats EXCEPT ![b] = d]
  BY DEF InsertPrivate, StoreChat
<1>6. d.messagesCounter = 0
  BY DEF NewChat
<1> HIDE DEF d
<1>7. CASE b = c
  BY <1>1, <1>2, <1>4, <1>5, <1>6, <1>7, NewCounted DEF DocsInv, ChatsTypeOK
<1>8. CASE b # c
  <2>1. chats'[c] = chats[c] /\ c \in Open
    BY <1>1, <1>5, <1>8 DEF Open, DocsInv, ChatsTypeOK
  <2>2. MessagesOf(c)' = MessagesOf(c)
    BY <1>2 DEF MessagesOf, StoredMessages
  <2> QED BY <1>4, <2>1, <2>2, CountedStays
<1> QED BY <1>7, <1>8

LEMMA CreateCounted ==
  ASSUME DocsInv, CountInv, CreateLiveStream, NEW c \in Open',
         c \in Open => Counted(c)
  PROVE  Counted(c)'
<1>1. c \in Chats
  BY DEF Open
<1>2. UNCHANGED <<client, messages>>
  BY DEF CreateLiveStream
<1>3. \A n : Tasks(c, n)' = Tasks(c, n)
  BY <1>2 DEF Tasks
<1>4. PICK u \in Users : StoreChat(NewChat("liveStream", {u}))
  BY DEF CreateLiveStream
<1> DEFINE d == NewChat("liveStream", {u})
<1>5. PICK b \in Chats : chats[b].life = "new" /\ chats' = [chats EXCEPT ![b] = d]
  BY <1>4 DEF StoreChat
<1>6. d.messagesCounter = 0
  BY DEF NewChat
<1> HIDE DEF d
<1>7. CASE b = c
  BY <1>1, <1>2, <1>3, <1>5, <1>6, <1>7, NewCounted DEF DocsInv, ChatsTypeOK
<1>8. CASE b # c
  <2>1. chats'[c] = chats[c] /\ c \in Open
    BY <1>1, <1>5, <1>8 DEF Open, DocsInv, ChatsTypeOK
  <2>2. MessagesOf(c)' = MessagesOf(c)
    BY <1>2 DEF MessagesOf, StoredMessages
  <2> QED BY <1>3, <2>1, <2>2, CountedStays
<1> QED BY <1>7, <1>8

LEMMA JoinCounted ==
  ASSUME DocsInv, JoinLiveStream, NEW c \in Open, Counted(c)
  PROVE  Counted(c)'
<1>1. PICK b \in Open, u \in Users :
        chats' = [chats EXCEPT ![b].participants = @ \cup {u}]
  BY DEF JoinLiveStream
<1>2. chats[b] \in StoredChats /\ b \in Chats /\ c \in Chats
  BY CounterInt
<1>3. chats'[c].messagesCounter = chats[c].messagesCounter
  BY <1>1, <1>2 DEF StoredChats, DocsInv, ChatsTypeOK
<1>4. UNCHANGED <<client, messages>>
  BY DEF JoinLiveStream
<1>5. \A n : Tasks(c, n)' = Tasks(c, n)
  BY <1>4 DEF Tasks
<1>6. MessagesOf(c)' = MessagesOf(c)
  BY <1>4 DEF MessagesOf, StoredMessages
<1> QED BY <1>3, <1>5, <1>6, CountedStays

(* Steps that leave the chats and the messages as they are.                *)
LEMMA IdleCounted ==
  ASSUME DocsInv, NEW x \in Clients,
         OpenPrivate(x) \/ LocateChat(x) \/ StartMessage(x),
         NEW c \in Open, Counted(c)
  PROVE  Counted(c)'
<1>1. client[x].pc # "count" /\ UNCHANGED <<chats, messages>>
  BY OpenPrivateSteps
     DEF OpenPrivate, LocateChat, StartMessage, Is
<1>2. UNCHANGED client \/ \E r : Goes(x, r) /\ r.pc # "count"
  <2>1. CASE OpenPrivate(x)
    <3>1. ASSUME NEW u \in Users, NEW v \in Users,
                 Goes(x, [pc |-> "upsert", who |-> {u, v}])
          PROVE  \E r : Goes(x, r) /\ r.pc # "count"
      BY <3>1
    <3> QED BY <2>1, <3>1, OpenPrivateSteps
  <2>2. CASE LocateChat(x)
    BY <2>2 DEF LocateChat
  <2>3. CASE StartMessage(x)
    BY <2>3, StartMessageSteps
  <2> QED BY <2>1, <2>2, <2>3
<1>3. MessagesOf(c)' = MessagesOf(c)
  BY <1>1 DEF MessagesOf, StoredMessages
<1>4. CASE UNCHANGED client
  <2>1. \A n : Tasks(c, n)' = Tasks(c, n)
    BY <1>4 DEF Tasks
  <2> QED BY <1>1, <1>3, <2>1, CountedStays
<1> QED BY <1>1, <1>2, <1>3, <1>4, NoCountStays

(* Only the insertions open a chat.                                        *)
LEMMA NothingElseOpens ==
  ASSUME DocsInv, [ChatsNext]_chatVars, ~CreateLiveStream,
         \A x \in Clients : ~InsertPrivate(x)
  PROVE  Open' \subseteq Open
<1>1. CASE UNCHANGED chats
  BY <1>1 DEF Open
<1>2. ASSUME NEW x \in Clients, RemoveChat(x)
      PROVE  Open' \subseteq Open
  <2>1. PICK c \in Chats : c = client[x].chat /\ chats[c].life # "new"
    BY <1>2, ClientShape DEF RemoveChat, Is, DocsInv, ChatsTypeOK, Fits
  <2>2. UNCHANGED chats \/ Close(c)
    BY <1>2, <2>1 DEF RemoveChat
  <2>3. chats[c] \in StoredChats
    BY <2>1, ChatShape DEF DocsInv, ChatsTypeOK
  <2> QED BY <1>1, <2>2, <2>3 DEF Close, StoredChats, Open, DocsInv, ChatsTypeOK
<1>3. ASSUME NEW x \in Clients, CountMessage(x)
      PROVE  Open' \subseteq Open
  <2>1. PICK c \in Chats, n \in {1, -1} :
          chats[c].life # "new" /\ Counts(c, n)
    BY <1>3, CountMessageSteps
  <2>2. chats[c] \in StoredChats
    BY <2>1, ChatShape DEF DocsInv, ChatsTypeOK
  <2>3. /\ chats'[c].life = chats[c].life
        /\ \A b \in Chats \ {c} : chats'[b] = chats[b]
    BY <2>1, <2>2 DEF Counts, StoredChats, DocsInv, ChatsTypeOK
  <2> QED BY <2>3 DEF Open
<1>4. CASE JoinLiveStream
  <2>1. PICK c \in Open, u \in Users :
          chats' = [chats EXCEPT ![c].participants = @ \cup {u}]
    BY <1>4 DEF JoinLiveStream
  <2>2. chats[c] \in StoredChats /\ c \in Chats
    BY CounterInt
  <2>3. \A b \in Chats \ {c} : chats'[b] = chats[b]
    BY <2>1 DEF DocsInv, ChatsTypeOK
  <2> QED BY <2>3 DEF Open
<1> QED BY <1>1, <1>2, <1>3, <1>4, OpenPrivateSteps
        DEF ChatsNext, LocateChat, StartMessage, SaveMessage, EditMessage,
            DropMessage, UnreadRemove, UnreadRemoveAll, Cut, chatVars

LEMMA CountStep ==
  ASSUME DocsInv, CountInv, [ChatsNext]_chatVars
  PROVE  CountInv'
<1> SUFFICES ASSUME cuts' = 0, NEW c \in Open'
             PROVE  Counted(c)'
  BY StoredFinite DEF CountInv
<1>1. ~Cut
  BY DEF Cut, DocsInv, ChatsTypeOK
<1>2. cuts = 0
  BY <1>1 DEF ChatsNext, OpenPrivate, InsertPrivate, LocateChat, RemoveChat,
       StartMessage, SaveMessage, EditMessage, DropMessage, CountMessage,
       CreateLiveStream, JoinLiveStream, UnreadRemove, UnreadRemoveAll, chatVars
<1>3. c \in Open => Counted(c)
  BY <1>2 DEF CountInv
<1>4. ASSUME NEW x \in Clients, InsertPrivate(x)
      PROVE  Counted(c)'
  BY <1>3, <1>4, InsertCounted
<1>5. CASE CreateLiveStream
  BY <1>3, <1>5, CreateCounted
<1>6. CASE ~CreateLiveStream /\ \A x \in Clients : ~InsertPrivate(x)
  <2>1. c \in Open /\ Counted(c)
    BY <1>3, <1>6, NothingElseOpens
  <2>2. ASSUME NEW x \in Clients,
               \/ OpenPrivate(x) \/ LocateChat(x) \/ RemoveChat(x)
               \/ StartMessage(x) \/ SaveMessage(x) \/ EditMessage(x)
               \/ DropMessage(x) \/ CountMessage(x)
        PROVE  Counted(c)'
    BY <2>1, <2>2, IdleCounted, RemoveCounted, SaveCounted, EditCounted,
       DropCounted, CountCounted
  <2>3. CASE JoinLiveStream
    BY <2>1, <2>3, JoinCounted
  <2>4. CASE UnreadRemove
    <3>1. PICK m \in StoredMessages, u \in Users : Read({m}, u)
      BY <2>4 DEF UnreadRemove
    <3> QED BY <2>1, <2>4, <3>1, ReadCounted DEF UnreadRemove
  <2>5. CASE UnreadRemoveAll
    <3>1. PICK b \in Chats, u \in Users : Read(MessagesOf(b), u)
      BY <2>5 DEF UnreadRemoveAll
    <3>2. MessagesOf(b) \in SUBSET StoredMessages
      BY DEF MessagesOf
    <3> QED BY <2>1, <2>5, <3>1, <3>2, ReadCounted DEF UnreadRemoveAll
  <2>6. CASE UNCHANGED chatVars
    BY <2>1, <2>6 DEF Counted, Tasks, MessagesOf, StoredMessages, chatVars
  <2> QED BY <1>1, <1>6, <2>2, <2>3, <2>4, <2>5, <2>6 DEF ChatsNext
<1> QED BY <1>4, <1>5, <1>6

(* Until a restart cuts a request, no chat shows more messages than it     *)
(* holds, but for removals that are not counted yet                        *)
(* (message.model.ts:74-85).                                               *)
THEOREM CounterNotOverstatedAlways == Spec => []CounterNotOverstated
<1>1. ChatsInit => CountInv
  <2> SUFFICES ASSUME ChatsInit
               PROVE  StoredMessages = {} /\ Open = {}
    BY FS_EmptySet DEF CountInv
  <2> QED BY DEF ChatsInit, StoredMessages, Open, NoMessage, NoChat
<1>2. ChatsSpec => [](DocsInv /\ CountInv)
  BY <1>1, DocsStart, DocsStep, CountStep, PTL DEF ChatsSpec
<1>3. DocsInv /\ CountInv => CounterNotOverstated
  <2> SUFFICES ASSUME DocsInv, CountInv, cuts = 0, NEW c \in Open
               PROVE  chats[c].messagesCounter
                        <= Cardinality(MessagesOf(c)) + Cardinality(Tasks(c, -1))
    BY DEF CounterNotOverstated, Tasks, Counting, Is
  <2> QED BY CounterInt, TasksFinite, MessagesFinite DEF CountInv, Counted
<1> QED BY <1>2, <1>3, MessagingRunsBoth, PTL
=============================================================================
