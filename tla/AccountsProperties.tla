-------------------------- MODULE AccountsProperties --------------------------
(* What the accounts of users promise.                                     *)
EXTENDS Accounts

(* Every variable has its type.                                            *)
AccountsTypeOK ==
  /\ life \in [Holders -> {"new", "stored", "removed"}]
  /\ suspended \in [Holders -> BOOLEAN]
  /\ verified \in [Holders -> BOOLEAN]
  /\ token \in [Purposes -> [Holders -> Tokens \cup {NoToken}]]
  /\ expired \subseteq Tokens
  /\ mails \subseteq Mails
  /\ sessions \subseteq Sessions
  /\ req \in [Procs -> Tasks]
  /\ issued \in 0 .. MaxTokens
  /\ logouts \in [Holders -> Nat]
  /\ answers \subseteq Answers
  /\ calls \in 0 .. MaxCalls
  /\ cuts \in 0 .. MaxCuts

(* A token that was answered is dead for every later request: no request   *)
(* that overlapped the answer, a second answer or a new token included,    *)
(* brings it back (auth.restdone.plugin.ts:385-399,                        *)
(* emailVerification.restdone.plugin.ts:102-115).                          *)
AnsweredTokensStayDead ==
  \A a \in answers : token[a.purpose][a.user] # a.token

(* A token that was e-mailed works until its date, unless a token of the   *)
(* same user for the same purpose was stored after it, or one was answered *)
(* since it was drawn: a token is stored before it is e-mailed, and        *)
(* nothing else takes it away (auth.restdone.plugin.ts:360-377,            *)
(* emailVerification.restdone.plugin.ts:56-75).                            *)
MailedTokensWork ==
  \A m \in mails :
    \/ ~HasAccount(m.user)
    \/ token[m.purpose][m.user] >= m.token
    \/ \E a \in answers :
         a.purpose = m.purpose /\ a.user = m.user /\ a.at >= m.token

(* A token serves once and until then: what is e-mailed works, what was    *)
(* answered does not, however requests for tokens, answers and expiry      *)
(* overlap.                                                                *)
TokensServeOnce == AnsweredTokensStayDead /\ MailedTokensWork

(* A session outlives a logout or a ban of its user only if the logout     *)
(* overlapped a grant that the session goes back to: the tokens of every   *)
(* client are deleted, so no grant that begins later can renew one         *)
(* (auth.restdone.plugin.ts:146-148, authDelegate.ts:65-82).               *)
LogoutEndsSessions ==
  \A s \in sessions : s.kept \/ s.since = logouts[s.user]

(* A request that begins while its user is banned gets past the check only *)
(* after an unban, or at a whitelisted path: the ban is read with the user *)
(* by each request, never kept in a token                                  *)
(* (0130-restdone.middleware.ts:43-61, authDelegate.ts:57-78).             *)
BanShutsOut ==
  \A p \in Procs :
    "barred" \in DOMAIN req[p] /\ req[p].barred
      => req[p].pc \in {"auth"} \cup Whitelisted
=============================================================================
