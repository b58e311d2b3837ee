------------------------- MODULE MessagingProperties -------------------------
(***************************************************************************)
(* What chats and notifications promise, over modules Chats and            *)
(* Notifications.  A message hands its recipients to the service, which    *)
(* takes any: the specification takes the behaviours of one or the other.  *)
(***************************************************************************)
EXTENDS Chats, Notifications

VARIABLE part  \* the component that runs

vars == <<chatVars, noticeVars, part>>

Init ==
  /\ ChatsInit
  /\ NotificationsInit
  /\ part \in {"chats", "notifications"}
  /\ part = "chats" => online = {}

Next ==
  \/ part = "chats" /\ ChatsNext /\ UNCHANGED <<noticeVars, part>>
  \/ part = "notifications" /\ NotificationsNext /\ UNCHANGED <<chatVars, part>>

Spec == Init /\ [][Next]_vars

ChatDocs ==
  {NoChat}
    \cup [life : {"stored", "removed"}, chatType : {"private", "liveStream"},
          participants : SUBSET Users, messagesCounter : Int,
          had : SUBSET Messages]

MessageDocs ==
  {NoMessage, [life |-> "removed"]}
    \cup [life : {"stored"}, chat : Chats, author : Users,
          unread : SUBSET Users]

ClientTasks ==
  {Waiting}
    \cup [pc : {"upsert"}, who : SUBSET Users]
    \cup [pc : {"removeChat", "removeMessages"}, chat : Chats]
    \cup [pc : {"post"}, chat : Chats, author : Users, who : SUBSET Users]
    \cup [pc : {"edit"}, message : Messages, who : SUBSET Users]
    \cup [pc : {"drop"}, message : Messages, chat : Chats]
    \cup [pc : {"count"}, chat : Chats, n : {1, -1}]

SenderTasks ==
  {Ready}
    \cup [pc : {"create"}, to : Told, email : SUBSET Recipients,
          inApp : SUBSET Recipients, left : SUBSET Recipients]
    \cup [pc : {"look", "sent"}, to : Told, email : SUBSET Recipients,
          inApp : SUBSET Recipients, left : SUBSET Recipients,
          looks : SUBSET Recipients, found : SUBSET Recipients,
          mailed : SUBSET Recipients, shown : SUBSET Recipients]

ChatsTypeOK ==
  /\ chats \in [Chats -> ChatDocs]
  /\ messages \in [Messages -> MessageDocs]
  /\ client \in [Clients -> ClientTasks]
  /\ cuts \in 0 .. MaxCuts

NotificationsTypeOK ==
  /\ online \subseteq Recipients /\ unread \subseteq Recipients
  /\ muted \in [{"email", "inApp"} -> SUBSET Recipients]
  /\ sender \in [Senders -> SenderTasks]
  /\ notes \in 0 .. MaxNotes /\ moods \in 0 .. MaxMoods

(* Variables hold values of their types.                                   *)
TypeOK == ChatsTypeOK /\ NotificationsTypeOK

(* While no restart cut a request, a chat never shows more messages than   *)
(* it holds, but for removals that are not counted yet: a message is       *)
(* counted after it is stored (message.model.ts:74-85).  Two removals of   *)
(* one message count twice, so that a chat may show fewer.                 *)
CounterNotOverstated ==
  cuts = 0 =>
    \A c \in Open :
      chats[c].messagesCounter
        <= Cardinality(MessagesOf(c))
             + Cardinality({x \in Clients : Is(x, "count")
                              /\ client[x].chat = c /\ client[x].n = -1})

Removing(c) ==
  \E x \in Clients : Is(x, "removeMessages") /\ client[x].chat = c

(* The messages a chat had when it was removed go with it: only a message  *)
(* whose request found the chat before and saved it later is left over     *)
(* (chat.model.ts:89-96, message.controller.ts:351-357).                   *)
GoneWithChat ==
  cuts = 0 =>
    \A c \in Chats :
      chats[c].life = "removed" /\ ~Removing(c)
        => MessagesOf(c) \cap chats[c].had = {}

(* Two users have no more private chats than there were requests at a      *)
(* time: an upsert inserts a second chat only when it overlaps another     *)
(* (chat.controller.ts:319-327), and what is there is found.               *)
FewChats ==
  \A pair \in SUBSET Users :
    Cardinality({c \in Open : chats[c].chatType = "private"
                              /\ chats[c].participants = pair})
      <= Cardinality(Clients)

(* When a notification was sent, each recipient who did not mute e-mails   *)
(* was mailed or emitted to, or left meanwhile; who stayed online was      *)
(* emitted to and got no e-mail (notification.service.ts:39-67: the        *)
(* e-mails wait for all the answers about who is online).                  *)
Delivered ==
  \A s \in Senders :
    LET r == sender[s]
    IN r.pc = "sent" /\ r.to # {Everyone}
         => /\ r.email \subseteq r.mailed \cup r.shown \cup r.left
            /\ r.inApp \ r.left \subseteq r.shown \ r.mailed
=============================================================================
