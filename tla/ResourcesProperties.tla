------------------------- MODULE ResourcesProperties -------------------------
(* What the REST resources promise, over module Resources.                 *)
EXTENDS Resources

Active(p) == request[p].pc \notin {"none", "pre"}

(* Variables hold values of their types.                                   *)
ResourcesTypeOK ==
  /\ scene \in [kind : Kinds, keepers : SUBSET Users, target : Anyone]
  /\ doc \in [life : {"none", "stored", "removed"}, owner : Anyone,
              system : {"program", "banned", "client"}]
  /\ admins \subseteq Users
  /\ flags \in [Users -> SUBSET BOOLEAN]
  /\ roles \in 0 .. MaxRoles
  /\ \A p \in Requests :
       LET r == request[p]
       IN
         /\ r.pc \in {"none", "pre", "locate", "save", "remove", "answer"}
         /\ r.pc # "none" => r.user \in Users /\ r.action \in Controller.actions
                             /\ (r.mode => r.admin)
         /\ Active(p) => r.find \subseteq Anyone /\ r.write \in Anyone

(* A request that is about to change or remove a document is an admin's,   *)
(* or its user was the owner when the request looked, whatever role and    *)
(* owner changes overlap it (pre of comment.controller.ts:172-200, and the *)
(* conditions that the other controllers put into params).                 *)
OwnersOnly ==
  \A p \in Requests :
    LET r == request[p]
    IN r.pc = "remove" \/ (r.pc = "save" /\ r.action = "update")
       => r.admin \/ r.user = r.seen

(* Outside of admins' requests a stored document gets no other owner, but  *)
(* the one the request saw: an author's update that overlaps the update of *)
(* an admin takes the comment back (comment.controller.ts:188).            *)
OwnerReturns ==
  [][\A p \in Requests :
       /\ request'[p] # request[p]
       /\ doc.life = "stored" /\ doc'.owner # doc.owner
       => request[p].admin
          \/ (doc'.owner = request[p].user /\ doc'.owner = request[p].seen)]_resourceVars

(* The resources that are not for everyone, with who may see a document.   *)
Readers(o) ==
  CASE scene.kind \in {"report", "feedback", "userConfig", "balanceRecord",
                       "user"}
         -> {o}
    [] scene.kind = "notification" -> IF o = Nobody THEN Users ELSE {o}
    [] scene.kind = "strike" -> {scene.target}
    [] scene.kind \in {"message", "chat"} -> scene.keepers
    [] scene.kind = "systemNotification" -> {}
    [] OTHER -> Users

(* A select answers admins, and others with documents that are for them:   *)
(* their own, those of their chats, the strikes against them; a banned     *)
(* document only to its owner (params.$or of message.controller.ts:361).   *)
PrivateKept ==
  \A p \in Requests :
    LET r == request[p]
    IN r.pc = "answer" /\ ~r.admin
       => /\ r.user \in Readers(r.seen)
          /\ scene.kind \in Bannable /\ r.read = "banned" => r.user = r.seen

=============================================================================
