------------------------- MODULE BanningProperties --------------------------
(***************************************************************************)
(* What strikes and bans promise, over the state machine of module Banning.*)
(***************************************************************************)
EXTENDS Banning

(* Variables hold values of their types, and a user has a banning reason   *)
(* exactly while suspended: the two are always set and unset together      *)
(* (user.model.ts:888-890 replaces the plugin's own $unset).               *)
TypeOK ==
  /\ strike \in [Strikes -> StrikeStates]
  /\ suspended \in [Users -> BOOLEAN]
  /\ reason \in [Users -> Reasons \cup {"none"}]
  /\ hidden \subseteq Contents
  /\ sessions \subseteq Users
  /\ created \subseteq Strikes
  /\ revoked \subseteq Strikes
  /\ job \in [Procs -> Job]
  /\ edits \in 0 .. MaxEdits
  /\ faults \in 0 .. MaxFaults
  /\ \A u \in Users : suspended[u] <=> reason[u] # "none"

(* Whatever the order of requests, events and faults, a user is banned by  *)
(* strikes only after getting Threshold of them (banning.molecule.ts:34).  *)
GivenTo(u) == {s \in Strikes : Target[s] = u /\ strike[s] # "none"}
BanNeedsStrikes ==
  \A u \in Users : reason[u] = "byStrikes" => Cardinality(GivenTo(u)) >= Threshold

(* While a user has fewer than Threshold strikes, no handler lifts a ban   *)
(* decided by an admin, whichever revocations and bans race with it        *)
(* (banning.molecule.ts:61-63).  Only requests leave job as it is.         *)
ByRequest == UNCHANGED job
AdminBanHolds ==
  [][\A u \in Users :
       reason[u] = "byAdmin" /\ Cardinality(GivenTo(u)) < Threshold
         => suspended'[u] \/ ByRequest]_vars

-----------------------------------------------------------------------------
(* Handlers that run one at a time.                                        *)

NothingInFlight ==
  created = {} /\ revoked = {} /\ \A p \in Procs : Idle(p)

(* The strikes of u that stand.                                            *)
Standing(u) ==
  Cardinality({s \in Strikes : Target[s] = u /\ strike[s] \in {"created", "confirmed"}})

(* When all events are handled, in whatever order they came, a user no     *)
(* admin bans by hand is banned exactly when the active strikes reach the  *)
(* threshold (banning.molecule.ts:30-65).                                  *)
BanMatchesStrikes ==
  NothingInFlight /\ faults = 0 /\ edits = 0 =>
    \A u \in Users \ Moderated : suspended[u] <=> Standing(u) >= Threshold

-----------------------------------------------------------------------------
(* Liveness, under FairSpec and without faults.                            *)

(* A user at the threshold is banned, unless an admin rules on one of the  *)
(* strikes first (banning.molecule.ts:30-38).                              *)
Untouched(u) == \A s \in Strikes : Target[s] = u => strike[s] \in {"none", "created"}
ThresholdBans ==
  \A u \in Users \ Moderated :
    Count(u) >= Threshold ~> (suspended[u] \/ ~Untouched(u))

(* A content is shown again after the revocation of a strike about it      *)
(* (banning.molecule.ts:49-52).                                            *)
RevokedContentShown ==
  \A s \in Strikes :
    Ref[s] # None => (s \in revoked ~> Ref[s] \notin hidden)

(* A ban, by an admin or by strikes, ends the sessions the user had before *)
(* it (banning.molecule.ts:39-41, user.controller.ts:814-816).             *)
BannedLoggedOut ==
  \A u \in Users :
    [](~suspended[u] /\ u \in sessions
         => []~suspended[u] \/ <>(u \notin sessions))

-----------------------------------------------------------------------------
(* What the repository says and the code does not do, refuted by a run of  *)
(* its own.                                                                *)

(* banning.molecule.ts:54-55: if the threshold gets inactive, a user       *)
(* banned with reason ByStrikes is unbanned.                               *)
UnbannedBelowThreshold ==
  NothingInFlight => \A u \in Users :
    reason[u] = "byStrikes" => Standing(u) >= Threshold
=============================================================================
