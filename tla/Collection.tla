----------------------------- MODULE Collection ------------------------------
(***************************************************************************)
(* What a list of users kept in documents promises: a call owes each       *)
(* document it was made for one change, the change is made in one step, it *)
(* concerns the users of the call only, and nothing else touches a list.   *)
(***************************************************************************)
CONSTANTS
  Docs,      \* the documents that hold a list
  Members,   \* who may be in a list
  Callers    \* the calls that may be under way at a time

VARIABLES
  members,   \* document |-> its list
  owed       \* caller |-> the changes it still has to make

Changes == [op : {"add", "remove"}, doc : Docs, who : SUBSET Members]

(* What change c may make of the list l.                                   *)
Changed(l, c) ==
  {IF c.op = "add" THEN l \cup s ELSE l \ s : s \in SUBSET c.who}

Init ==
  /\ members = [d \in Docs |-> {}]
  /\ owed = [c \in Callers |-> {}]

Call(c) ==
  /\ owed[c] = {}
  /\ owed'[c] \subseteq Changes
  /\ owed' = [owed EXCEPT ![c] = owed'[c]]
  /\ UNCHANGED members

(* A change is made, with or without giving up the others.                 *)
Make(c) ==
  \E x \in owed[c] :
    /\ members'[x.doc] \in Changed(members[x.doc], x)
    /\ members' = [members EXCEPT ![x.doc] = members'[x.doc]]
    /\ owed'[c] \subseteq owed[c] \ {x}
    /\ owed' = [owed EXCEPT ![c] = owed'[c]]

(* A call that fails makes no more changes; a restart fails several.       *)
Abandon ==
  /\ \A c \in Callers : owed'[c] \subseteq owed[c]
  /\ DOMAIN owed' = Callers
  /\ UNCHANGED members

Next == Abandon \/ \E c \in Callers : Call(c) \/ Make(c)

Spec == Init /\ [][Next]_<<members, owed>>
=============================================================================
