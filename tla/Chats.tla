-------------------------------- MODULE Chats --------------------------------
(***************************************************************************)
(* Chats and their messages.  A private chat is made when one of two users *)
(* opens it, the chat of a live stream with the stream; a message belongs  *)
(* to a chat, which counts it, and is unread by the other participants.    *)
(* A request is a process, and each of its database calls is one action.   *)
(***************************************************************************)
EXTENDS Integers, FiniteSets

CONSTANTS
  Users,
  Chats,     \* documents of chats
  Messages,  \* documents of messages
  Clients,   \* running requests
  MaxCuts    \* bound: restarts of the application

ASSUME CutsAssumption == MaxCuts \in Nat
ASSUME ClientsAssumption == IsFiniteSet(Clients)

VARIABLES
  chats,     \* chat |-> life, chatType, participants, messagesCounter, and
             \* the messages it had when it was removed
  messages,  \* message |-> life, chat, author, unread
  client,    \* client |-> where its request is and what it holds
  cuts       \* restarts (bounded by MaxCuts)

chatVars == <<chats, messages, client, cuts>>

-----------------------------------------------------------------------------
NoMessage == [life |-> "new"]
NoChat == [life |-> "new"]
Waiting == [pc |-> "none"]

Is(x, pc) == client[x].pc = pc
Goes(x, r) == client' = [client EXCEPT ![x] = r]
Done(x) == Goes(x, Waiting)

Open == {c \in Chats : chats[c].life = "stored"}
StoredMessages == {m \in Messages : messages[m].life = "stored"}
MessagesOf(c) == {m \in StoredMessages : messages[m].chat = c}

ChatsInit ==
  /\ chats = [c \in Chats |-> NoChat]
  /\ messages = [m \in Messages |-> NoMessage]
  /\ client = [x \in Clients |-> Waiting]
  /\ cuts = 0

(* The schema of a chat.                                                   *)
NewChat(type, who) ==
  [life |-> "stored", chatType |-> type, participants |-> who,
   messagesCounter |-> 0, had |-> {}]

StoreChat(new) ==
  \E c \in Chats :
    chats[c].life = "new" /\ chats' = [chats EXCEPT ![c] = new]

-----------------------------------------------------------------------------
(* Chats                                                                   *)

(* Mutant: a chat of both users that others joined is not found.           *)
HasOnly(c, pair) == chats[c].participants = pair /\ chats[c].messagesCounter = 0

(* getSelector of private chats: both users are participants.              *)
HasBoth(c, pair) == pair \subseteq chats[c].participants

(* The chat of a live stream, stored with its insertion.                   *)
CreateLiveStream ==
  /\ \A c \in Open : chats[c].chatType # "liveStream"
  /\ \E u \in Users : StoreChat(NewChat("liveStream", {u}))
  /\ UNCHANGED <<messages, client, cuts>>

(* findOneAndUpdate with upsert: the chat is found and updated at once, or *)
(* not found and inserted later.                                           *)
OpenPrivate(x) ==
  /\ Is(x, "none")
  /\ \E u, v \in Users :
       LET found == {c \in Open : chats[c].chatType = "private"
                                  /\ HasBoth(c, {u, v})}
       IN
         /\ u # v
         /\ \/ /\ found # {}
               /\ \E c \in found :
                    chats' = [chats EXCEPT ![c].participants = {u, v}]
               /\ UNCHANGED client
            \/ /\ found = {}
               /\ Goes(x, [pc |-> "upsert", who |-> {u, v}])
               /\ UNCHANGED chats
  /\ UNCHANGED <<messages, cuts>>

(* No index keeps a second upsert from inserting too.                      *)
InsertPrivate(x) ==
  /\ Is(x, "upsert")
  /\ StoreChat(NewChat("private", client[x].who))
  /\ Done(x)
  /\ UNCHANGED <<messages, cuts>>

(* The chat of a live stream is joined, and never inserted here.           *)
JoinLiveStream ==
  /\ \E c \in Open, u \in Users :
       /\ chats[c].chatType = "liveStream"
       /\ chats' = [chats EXCEPT ![c].participants = @ \cup {u}]
  /\ UNCHANGED <<messages, client, cuts>>

(* deleteChat locates by the selector alone: the selector of private chats *)
(* also finds the chat of a live stream that both users joined.            *)
LocateChat(x) ==
  /\ Is(x, "none")
  /\ \E c \in Open :
       /\ chats[c].chatType = "private"
            => \E u, v \in Users : u # v /\ HasBoth(c, {u, v})
       /\ Goes(x, [pc |-> "removeChat", chat |-> c])
  /\ UNCHANGED <<chats, messages, cuts>>

Forget(c) ==
  messages' = [m \in Messages |->
                 IF m \in MessagesOf(c) THEN [life |-> "removed"]
                                        ELSE messages[m]]
Close(c) ==
  chats' = [chats EXCEPT ![c].life = "removed",
                         ![c].had = IF c \in Open THEN MessagesOf(c) ELSE @]

(* Mutant: the messages go first.                                          *)
MessagesFirst(x) ==
  LET c == client[x].chat
  IN
    /\ \/ /\ Is(x, "removeChat")
          /\ Forget(c)
          /\ Goes(x, [pc |-> "removeMessages", chat |-> c])
          /\ UNCHANGED chats
       \/ /\ Is(x, "removeMessages")
          /\ Close(c)
          /\ Done(x)
          /\ UNCHANGED messages
    /\ UNCHANGED cuts

(* chat.remove(), and its post hook: Message.remove({ chat }).             *)
RemoveChat(x) ==
  LET c == client[x].chat
  IN
    /\ \/ /\ Is(x, "removeChat")
          /\ Close(c)
          /\ Goes(x, [pc |-> "removeMessages", chat |-> c])
          /\ UNCHANGED messages
       \/ /\ Is(x, "removeMessages")
          /\ Forget(c)
          /\ Done(x)
          /\ UNCHANGED chats
    /\ UNCHANGED cuts

-----------------------------------------------------------------------------
(* Messages                                                                *)

(* Mutant: the counter is written, not incremented.                        *)
SetCounter(c, n) ==
  chats' = [chats EXCEPT ![c].messagesCounter =
              Cardinality(MessagesOf(c)) + (IF n > 0 THEN n ELSE 0)]

(* incMessageCounter; the chat may be gone.                                *)
IncMessageCounter(c, n) ==
  chats' = [chats EXCEPT ![c].messagesCounter = IF c \in Open THEN @ + n ELSE @]

(* pre: the chat of the author is read with its participants; a message    *)
(* that is changed or removed is located by its author.                    *)
StartMessage(x) ==
  /\ Is(x, "none")
  /\ \E u \in Users, c \in Open :
       /\ u \in chats[c].participants
       /\ \/ Goes(x, [pc |-> "post", chat |-> c, author |-> u,
                       who |-> chats[c].participants])
          \/ \E m \in MessagesOf(c) :
               /\ messages[m].author = u
               /\ \/ Goes(x, [pc |-> "edit", message |-> m,
                               who |-> chats[c].participants \ {u}])
                  \/ Goes(x, [pc |-> "drop", message |-> m, chat |-> c])
  /\ UNCHANGED <<chats, messages, cuts>>

(* A new message is unread by the participants that pre read, but one.     *)
OtherParticipants(r) == r.who \ {r.author}

SaveMessage(x) ==
  LET r == client[x]
  IN
    /\ Is(x, "post")
    /\ \E m \in Messages :
         /\ messages[m].life = "new"
         /\ messages' = [messages EXCEPT ![m] =
              [life |-> "stored", chat |-> r.chat, author |-> r.author,
               unread |-> OtherParticipants(r)]]
    /\ Goes(x, [pc |-> "count", chat |-> r.chat, n |-> 1])
    /\ UNCHANGED <<chats, cuts>>

(* An edited message is unread again by all of them.                       *)
EditMessage(x) ==
  LET m == client[x].message
  IN
    /\ Is(x, "edit")
    /\ messages' = IF m \in StoredMessages
                   THEN [messages EXCEPT ![m].unread = client[x].who]
                   ELSE messages
    /\ Done(x)
    /\ UNCHANGED <<chats, cuts>>

(* The message may be gone: its chat counts one less again.                *)
DropMessage(x) ==
  /\ Is(x, "drop")
  /\ messages' = [messages EXCEPT ![client[x].message] = [life |-> "removed"]]
  /\ Goes(x, [pc |-> "count", chat |-> client[x].chat, n |-> -1])
  /\ UNCHANGED <<chats, cuts>>

(* The post hooks of save and remove.                                      *)
CountMessage(x) ==
  /\ Is(x, "count")
  /\ IncMessageCounter(client[x].chat, client[x].n)
  /\ Done(x)
  /\ UNCHANGED <<messages, cuts>>

(* A user reads a message, or all the messages of a chat.                  *)
Read(ms, u) ==
  messages' = [m \in Messages |->
                 IF m \in ms THEN [messages[m] EXCEPT !.unread = @ \ {u}]
                             ELSE messages[m]]
UnreadRemove ==
  /\ \E m \in StoredMessages, u \in Users : Read({m}, u)
  /\ UNCHANGED <<chats, client, cuts>>
UnreadRemoveAll ==
  /\ \E c \in Chats, u \in Users : MessagesOf(c) # {} /\ Read(MessagesOf(c), u)
  /\ UNCHANGED <<chats, client, cuts>>

-----------------------------------------------------------------------------
(* The application stops and starts again: requests under way are cut.     *)
Cut ==
  /\ cuts < MaxCuts
  /\ cuts' = cuts + 1
  /\ client' = [x \in Clients |-> Waiting]
  /\ UNCHANGED <<chats, messages>>

ChatsNext ==
  \/ \E x \in Clients :
       \/ OpenPrivate(x) \/ InsertPrivate(x) \/ LocateChat(x) \/ RemoveChat(x)
       \/ StartMessage(x) \/ SaveMessage(x) \/ EditMessage(x)
       \/ DropMessage(x) \/ CountMessage(x)
  \/ CreateLiveStream
  \/ JoinLiveStream
  \/ UnreadRemove
  \/ UnreadRemoveAll
  \/ Cut
=============================================================================
