------------------------------- MODULE Accounts -------------------------------
(***************************************************************************)
(* The accounts of users: sign-up, the verification of the e-mail address, *)
(* the reset of a forgotten password, sessions and bans.  A request is a   *)
(* process and each of its database calls is one action, on what an        *)
(* earlier call read.  Names, passwords and addresses are not modelled:    *)
(* a caller who logs in knows the password, and one who uses a token has   *)
(* received it by e-mail.  A request that is refused changes nothing and   *)
(* is left out, unless it can be refused later than it was begun.          *)
(***************************************************************************)
EXTENDS Integers, FiniteSets

CONSTANTS
  Holders,
  Clients,    \* applications that users sign in with
  Procs,      \* running requests
  MaxTokens,  \* bound: tokens drawn for e-mails
  MaxCalls,   \* bound: requests
  MaxCuts     \* bound: requests cut short by a crash

ASSUME AccountsBoundsAssumption ==
  MaxTokens \in Nat /\ MaxCalls \in Nat /\ MaxCuts \in Nat

VARIABLES
  life,       \* user |-> "new", "stored" or "removed"
  suspended,  \* user |-> is suspendedAt set
  verified,   \* user |-> emailVerified
  token,      \* purpose |-> user |-> the stored token, or NoToken
  expired,    \* tokens that are past their date
  mails,      \* what was e-mailed
  sessions,   \* the refresh tokens
  req,        \* process |-> where its request is and what it holds
  issued,     \* tokens drawn so far (bounded by MaxTokens)
  logouts,    \* user |-> how often its sessions were closed
  answers,    \* history: tokens that were answered, and how many were drawn
  calls,      \* requests so far (bounded by MaxCalls)
  cuts        \* crashes so far (bounded by MaxCuts)

accounts == <<life, suspended, verified>>
post == <<token, expired, mails, issued, answers>>
access == <<sessions, logouts>>
bounds == <<calls, cuts>>
accountVars == <<accounts, post, access, req, bounds>>

-----------------------------------------------------------------------------
NoToken == 0
Tokens == 1 .. MaxTokens
Purposes == {"verify", "reset"}

(* A session: the refresh token of a user and a client.  For the history:  *)
(* the logouts before the log-in it goes back to, and whether a logout     *)
(* overlapped one of the grants since.                                     *)
Sessions ==
  [user : Holders, client : Clients, since : Nat, kept : BOOLEAN]

Answers ==
  [purpose : Purposes, user : Holders, token : Tokens, at : Tokens]

Mails == [purpose : Purposes, user : Holders, token : Tokens]

(* Where a request is; barred: its user was suspended when it began and    *)
(* still is.                                                               *)
Idle == [pc |-> "idle"]
Tasks ==
  {Idle}
    \cup [pc : {"auth"}, kind : {"resend", "logout", "remove"}, user : Holders,
          barred : BOOLEAN]
    \cup [pc : {"resend", "logout", "remove"}, user : Holders,
          barred : BOOLEAN]
    \cup [pc : {"create", "draw", "forgot", "close"}, user : Holders]
    \cup [pc : {"mail"}, mail : Mails, signUp : BOOLEAN]
    \cup [pc : {"verify", "reset"}, user : Holders, token : Tokens]
    \cup [pc : {"clean", "grant"}, user : Holders, client : Clients,
          since : Nat, seen : Nat, kept : BOOLEAN]

Is(p, pc) == req[p].pc = pc
Goto(p, r) == req' = [req EXCEPT ![p] = r]
Leave(p) == Goto(p, Idle)

(* A call begins with its first read.                                      *)
Begin(p, r) ==
  /\ Is(p, "idle")
  /\ calls < MaxCalls
  /\ calls' = calls + 1
  /\ cuts' = cuts
  /\ Goto(p, r)

HasAccount(u) == life[u] = "stored"

AccountsInit ==
  /\ life \in [Holders -> {"new", "stored"}]
  /\ suspended = [u \in Holders |-> FALSE]
  /\ verified = [u \in Holders |-> FALSE]
  /\ token = [w \in Purposes |-> [u \in Holders |-> NoToken]]
  /\ expired = {}
  /\ mails = {}
  /\ sessions = {}
  /\ req = [p \in Procs |-> Idle]
  /\ issued = 0
  /\ logouts = [u \in Holders |-> 0]
  /\ answers = {}
  /\ calls = 0
  /\ cuts = 0

-----------------------------------------------------------------------------
(* Bearer requests: the access token names the user, who is read and       *)
(* checked before the controller runs.                                     *)

(* /users/me is in endpointWhitelist.                                      *)
Whitelisted == {"remove"}

StartBearer(p) ==
  /\ \E u \in Holders, k \in {"resend", "logout", "remove"} :
       /\ life[u] # "new"
       /\ Begin(p, [pc |-> "auth", kind |-> k, user |-> u,
                    barred |-> suspended[u]])
  /\ UNCHANGED <<accounts, post, access>>

(* Mutant: a banned user is not told from others.                          *)
AdmitsAnyone(u, kind) == HasAccount(u)

(* findUserByToken and isBannedUser.                                       *)
Admits(u, kind) == HasAccount(u) /\ (suspended[u] => kind \in Whitelisted)

Authenticate(p) ==
  LET r == req[p]
      refused == \/ ~Admits(r.user, r.kind)
                 \/ r.kind = "resend" /\ verified[r.user]
  IN
    /\ Is(p, "auth")
    /\ IF refused
       THEN Leave(p)
       ELSE Goto(p, [pc |-> r.kind, user |-> r.user, barred |-> r.barred])
    /\ UNCHANGED <<accounts, post, access, bounds>>

(* The removal of a user leaves its refresh tokens.                        *)
RemoveUser(p) ==
  /\ Is(p, "remove")
  /\ life' = [life EXCEPT ![req[p].user] = "removed"]
  /\ Leave(p)
  /\ UNCHANGED <<suspended, verified, post, access, bounds>>

-----------------------------------------------------------------------------
(* E-mailed tokens                                                         *)

(* A save writes the one field it changed; it fails for a removed user.    *)
Store(w, u, t) == token' = [token EXCEPT ![w][u] = t]

StartSignUp(p) ==
  /\ \E u \in Holders :
       /\ life[u] = "new"
       /\ \A q \in Procs : Is(q, "create") => req[q].user # u
       /\ Begin(p, [pc |-> "create", user |-> u])
  /\ UNCHANGED <<accounts, post, access>>

(* The new document, which afterSave sends a verification for.             *)
CreateUser(p) ==
  LET u == req[p].user
  IN
    /\ Is(p, "create")
    /\ life' = [life EXCEPT ![u] = "stored"]
    /\ Goto(p, [pc |-> "draw", user |-> u])
    /\ UNCHANGED <<suspended, verified, post, access, bounds>>

(* A new token for a user: stored, then e-mailed.                          *)
DrawToken(p, w, signUp) ==
  LET u == req[p].user
  IN
    /\ issued < MaxTokens
    /\ IF HasAccount(u)
       THEN /\ issued' = issued + 1
            /\ Store(w, u, issued + 1)
            /\ Goto(p, [pc |-> "mail", signUp |-> signUp,
                          mail |-> [purpose |-> w, user |-> u,
                                    token |-> issued + 1]])
       ELSE Leave(p) /\ UNCHANGED <<issued, token>>
    /\ UNCHANGED <<accounts, expired, mails, answers, access, bounds>>

(* sendEmailVerification of afterSave and of resendVerification, which     *)
(* holds the user that was read when the request was authenticated.        *)
SendEmailVerification(p) ==
  \/ Is(p, "draw") /\ DrawToken(p, "verify", TRUE)
  \/ Is(p, "resend") /\ DrawToken(p, "verify", FALSE)

(* forgot looks the user up by name, banned or not.                        *)
StartForgot(p) ==
  /\ \E u \in Holders :
       HasAccount(u) /\ Begin(p, [pc |-> "forgot", user |-> u])
  /\ UNCHANGED <<accounts, post, access>>

Forgot(p) == Is(p, "forgot") /\ DrawToken(p, "reset", FALSE)

(* The session of a user who signs up or resets the password.              *)
Welcome(p, u) ==
  \E c \in Clients :
    Goto(p, [pc |-> "grant", user |-> u, client |-> c, since |-> logouts[u],
               seen |-> logouts[u], kept |-> FALSE])

(* sendEmail hides a failure: the e-mail may be lost.                      *)
SendEmail(p) ==
  LET m == req[p].mail
  IN
    /\ Is(p, "mail")
    /\ mails' \in {mails, mails \cup {m}}
    /\ IF req[p].signUp THEN Welcome(p, m.user) ELSE Leave(p)
    /\ UNCHANGED <<accounts, token, expired, issued, answers, access, bounds>>

Expire ==
  /\ \E t \in 1 .. issued : t \notin expired /\ expired' = expired \cup {t}
  /\ UNCHANGED <<accounts, token, mails, issued, answers, access, req, bounds>>

(* Whom an e-mailed token finds.                                           *)
Finds(w, u, t) == HasAccount(u) /\ token[w][u] = t /\ t \notin expired

(* verifyEmail and reset, by somebody who has the e-mail.                  *)
StartAnswer(p) ==
  /\ \E m \in mails, u \in Holders :
       /\ Finds(m.purpose, u, m.token)
       /\ Begin(p, [pc |-> m.purpose, user |-> u, token |-> m.token])
  /\ UNCHANGED <<accounts, post, access>>

Answered(w, r) ==
  [purpose |-> w, user |-> r.user, token |-> r.token, at |-> issued]

(* Mutant: the token is not cleared.                                       *)
LeaveToken(p, w) ==
  /\ HasAccount(req[p].user)
  /\ token' = token
  /\ answers' = answers \cup {Answered(w, req[p])}

(* Whichever token is stored by now is cleared.                            *)
TakeToken(p, w) ==
  LET u == req[p].user
  IN
    /\ HasAccount(u)
    /\ Store(w, u, NoToken)
    /\ answers' = answers \cup {Answered(w, req[p])}

VerifyEmail(p) ==
  LET u == req[p].user
  IN
    /\ Is(p, "verify")
    /\ IF HasAccount(u)
       THEN TakeToken(p, "verify") /\ verified' = [verified EXCEPT ![u] = TRUE]
       ELSE UNCHANGED <<token, answers, verified>>
    /\ Leave(p)
    /\ UNCHANGED <<life, suspended, expired, mails, issued, access, bounds>>

(* The other sessions of the user stay open.                               *)
Reset(p) ==
  LET u == req[p].user
  IN
    /\ Is(p, "reset")
    /\ IF HasAccount(u) THEN TakeToken(p, "reset") /\ Welcome(p, u)
                    ELSE Leave(p) /\ UNCHANGED <<token, answers>>
    /\ UNCHANGED <<accounts, expired, mails, issued, access, bounds>>

-----------------------------------------------------------------------------
(* Sessions                                                                *)

(* The password grant: findUser.  A banned user may log in.                *)
StartLogin(p) ==
  /\ \E u \in Holders, c \in Clients :
       /\ HasAccount(u)
       /\ Begin(p, [pc |-> "clean", user |-> u, client |-> c,
                    since |-> logouts[u], seen |-> logouts[u], kept |-> FALSE])
  /\ UNCHANGED <<accounts, post, access>>

(* The refresh grant: findUserByToken.                                     *)
StartRenew(p) ==
  /\ \E s \in sessions :
       /\ HasAccount(s.user)
       /\ Begin(p, [pc |-> "clean", user |-> s.user, client |-> s.client,
                    since |-> s.since, seen |-> logouts[s.user],
                    kept |-> s.kept])
  /\ UNCHANGED <<accounts, post, access>>

CleanUpTokens(p) ==
  LET r == req[p]
  IN
    /\ Is(p, "clean")
    /\ sessions' = {s \in sessions : s.user # r.user \/ s.client # r.client}
    /\ Goto(p, [r EXCEPT !.pc = "grant"])
    /\ UNCHANGED <<accounts, post, logouts, bounds>>

CreateRefreshToken(p) ==
  LET r == req[p]
  IN
    /\ Is(p, "grant")
    /\ sessions' = sessions \cup
         {[user |-> r.user, client |-> r.client, since |-> r.since,
           kept |-> r.kept \/ r.seen # logouts[r.user]]}
    /\ Leave(p)
    /\ UNCHANGED <<accounts, post, logouts, bounds>>

(* Mutant: the sessions of one client are closed.                          *)
OpenAfterLogoutOfOne(u) ==
  {s \in sessions : s.user # u \/ s.client # CHOOSE c \in Clients : TRUE}

OpenAfterLogout(u) == {s \in sessions : s.user # u}

(* User.logout, asked for by the user or by afterBan.                      *)
Logout(p) ==
  LET u == req[p].user
  IN
    /\ Is(p, "logout") \/ Is(p, "close")
    /\ sessions' = OpenAfterLogout(u)
    /\ logouts' = [logouts EXCEPT ![u] = @ + 1]
    /\ Leave(p)
    /\ UNCHANGED <<accounts, post, bounds>>

-----------------------------------------------------------------------------
(* Bans, by an admin or by the service of strikes                          *)

Suspend(u) == suspended' = [suspended EXCEPT ![u] = TRUE]

(* The ban goes on with afterBan, the logout.                              *)
BanUser(p) ==
  /\ \E u \in Holders :
       /\ HasAccount(u)
       /\ Begin(p, [pc |-> "close", user |-> u])
       /\ Suspend(u)
  /\ UNCHANGED <<life, verified, post, access>>

(* From now on no request of the user is barred.                           *)
UnbanUser(u) ==
  /\ suspended[u]
  /\ HasAccount(u)
  /\ suspended' = [suspended EXCEPT ![u] = FALSE]
  /\ req' = [p \in Procs |->
               IF "barred" \in DOMAIN req[p] /\ req[p].user = u
               THEN [req[p] EXCEPT !.barred = FALSE] ELSE req[p]]
  /\ UNCHANGED <<life, verified, post, access, bounds>>

-----------------------------------------------------------------------------
Cut(p) ==
  /\ ~Is(p, "idle")
  /\ cuts < MaxCuts
  /\ cuts' = cuts + 1
  /\ Leave(p)
  /\ UNCHANGED <<accounts, post, access, calls>>

SignUps(p) == StartSignUp(p) \/ CreateUser(p)
Posts(p) ==
  \/ SendEmailVerification(p)
  \/ StartForgot(p)
  \/ Forgot(p)
  \/ SendEmail(p)
Answering(p) == StartAnswer(p) \/ VerifyEmail(p) \/ Reset(p)
Grants(p) ==
  StartLogin(p) \/ StartRenew(p) \/ CleanUpTokens(p) \/ CreateRefreshToken(p)
Bearers(p) == StartBearer(p) \/ Authenticate(p) \/ RemoveUser(p) \/ Logout(p)

AccountsNext ==
  \/ Expire
  \/ \E u \in Holders : UnbanUser(u)
  \/ \E p \in Procs :
       \/ SignUps(p)
       \/ Posts(p)
       \/ Answering(p)
       \/ Grants(p)
       \/ Bearers(p)
       \/ BanUser(p)
       \/ Cut(p)

=============================================================================
