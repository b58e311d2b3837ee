-------------------------------- MODULE Access --------------------------------
(***************************************************************************)
(* Who may do what: accounts with their sessions and bans, the checks of   *)
(* the REST resources, and what is shown of contents and profiles.         *)
(* Resources and Viewing take a user as Accounts admits it, and the three  *)
(* share no other state: the specification takes the behaviours of one of  *)
(* them.                                                                   *)
(***************************************************************************)
EXTENDS ResourcesProperties, AccountsProperties, ViewingProperties

VARIABLE part  \* the component that runs

vars == <<resourceVars, accountVars, viewingVars, part>>

(* One beginning for the components that do not run.                       *)
NoResources ==
  /\ scene = [kind |-> "goal", keepers |-> {}, target |-> Nobody]
  /\ doc = [life |-> "none", owner |-> Nobody, system |-> "program"]
  /\ admins = {}
  /\ flags = [u \in Users |-> {FALSE}]
NoAccounts == life = [u \in Holders |-> "new"]
NoViewing == content = [life |-> "removed"] /\ NothingPaid

Init ==
  /\ ResourcesInit
  /\ AccountsInit
  /\ \/ part = "resources" /\ NoAccounts /\ NoViewing
     \/ part = "accounts" /\ NoResources /\ NoViewing
     \/ part = "viewing" /\ NoResources /\ NoAccounts /\ ViewingInit

Next ==
  \/ /\ part = "resources"
     /\ ResourcesNext
     /\ UNCHANGED <<accountVars, viewingVars, part>>
  \/ /\ part = "accounts"
     /\ AccountsNext
     /\ UNCHANGED <<resourceVars, viewingVars, part>>
  \/ /\ part = "viewing"
     /\ ViewingNext
     /\ UNCHANGED <<resourceVars, accountVars, part>>

Spec == Init /\ [][Next]_vars
=============================================================================
