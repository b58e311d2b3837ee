-------------------------- MODULE ViewingProperties --------------------------
(* What the answers of selects promise, over module Viewing.               *)
EXTENDS Viewing

PaysFor(v, x) ==
  \/ x = v.owner
  \/ x = IF content.kind = "photo" THEN Album(v.album) ELSE Content

(* The url of a content is answered to its owner and to those who paid for *)
(* it, and to them always, although user, content and album are read at    *)
(* different times while subscriptions are renewed and cancelled, contents *)
(* bought, moved and removed (photo.controller.ts:598-621,                 *)
(* video.controller.ts:448-467, liveStream.controller.ts:905-934): whoever *)
(* gets it has paid at some time, and whoever held a paid subscription or  *)
(* purchase when the select began gets it.  A public profile shows what    *)
(* its user allows (user.controller.ts:1049-1093).                         *)
ShownAsPaid ==
  \A p \in Views :
    /\ view[p].pc = "content" =>
         LET v == view[p]
         IN /\ v.shown => v.user = v.owner
                            \/ \E x \in paid : x[1] = v.user /\ PaysFor(v, x[2])
            /\ (\E x \in v.due : PaysFor(v, x[2])) => v.shown
    /\ view[p].pc = "profile" =>
         view[p].shown \ {"username"} \subseteq view[p].allowed
=============================================================================
