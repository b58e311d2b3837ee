----------------------------- MODULE AccessProofs -----------------------------
(***************************************************************************)
(* Theorems about the parts that module Access runs side by side, for any  *)
(* users, clients, roles, bounds and overlapping requests.                 *)
(*                                                                         *)
(* The accounts of users: e-mailed tokens serve once, a logout ends the    *)
(* sessions, a ban shuts its user out.  The REST resources: who changes a  *)
(* document, who sees it, whom it belongs to.  What selects answer of      *)
(* contents and profiles.                                                  *)
(***************************************************************************)
EXTENDS Access, TLAPS

-----------------------------------------------------------------------------
(* Accounts                                                                *)

AccountsSpec == AccountsInit /\ [][AccountsNext]_accountVars

(* What a task holds.                                                      *)
LEMMA TaskShape ==
  ASSUME NEW r \in Tasks
  PROVE  /\ r.pc = "auth" => /\ r.kind \in {"resend", "logout", "remove"}
                             /\ r.user \in Holders /\ r.barred \in BOOLEAN
         /\ r.pc \in {"resend", "logout", "remove"} =>
              r.user \in Holders /\ r.barred \in BOOLEAN
         /\ r.pc \in {"create", "draw", "forgot", "close"} => r.user \in Holders
         /\ r.pc = "mail" => r.mail \in Mails /\ r.signUp \in BOOLEAN
         /\ r.pc \in {"verify", "reset"} =>
              r.user \in Holders /\ r.token \in Tokens
         /\ r.pc \in {"clean", "grant"} =>
              /\ r.user \in Holders /\ r.client \in Clients
              /\ r.since \in Nat /\ r.seen \in Nat /\ r.kept \in BOOLEAN
              /\ [r EXCEPT !.pc = "grant"] \in Tasks
         /\ "barred" \in DOMAIN r <=>
              r.pc \in {"auth", "resend", "logout", "remove"}
         /\ "barred" \in DOMAIN r => [r EXCEPT !.barred = FALSE] \in Tasks
<1>1. CASE r = Idle
  BY <1>1 DEF Idle
<1>2. CASE r \in [pc : {"auth"}, kind : {"resend", "logout", "remove"},
                  user : Holders, barred : BOOLEAN]
  BY <1>2 DEF Tasks
<1>3. CASE r \in [pc : {"resend", "logout", "remove"}, user : Holders,
                  barred : BOOLEAN]
  BY <1>3 DEF Tasks
<1>4. CASE r \in [pc : {"create", "draw", "forgot", "close"}, user : Holders]
  BY <1>4
<1>5. CASE r \in [pc : {"mail"}, mail : Mails, signUp : BOOLEAN]
  BY <1>5
<1>6. CASE r \in [pc : {"verify", "reset"}, user : Holders, token : Tokens]
  BY <1>6
<1>7. CASE r \in [pc : {"clean", "grant"}, user : Holders, client : Clients,
                  since : Nat, seen : Nat, kept : BOOLEAN]
  BY <1>7 DEF Tasks
<1> QED BY <1>1, <1>2, <1>3, <1>4, <1>5, <1>6, <1>7 DEF Tasks

-----------------------------------------------------------------------------
(* Types                                                                   *)

(* A request that goes on with a typed task.                               *)
LEMMA GotoTyped ==
  ASSUME req \in [Procs -> Tasks], NEW p \in Procs, NEW r \in Tasks, Goto(p, r)
  PROVE  req' \in [Procs -> Tasks]
  BY DEF Goto

LEMMA LeaveTyped ==
  ASSUME req \in [Procs -> Tasks], NEW p \in Procs, Leave(p)
  PROVE  req' \in [Procs -> Tasks]
  BY DEF Leave, Goto, Tasks

LEMMA BeginTyped ==
  ASSUME AccountsTypeOK, NEW p \in Procs, NEW r \in Tasks, Begin(p, r)
  PROVE  /\ req' \in [Procs -> Tasks]
         /\ calls' \in 0 .. MaxCalls
         /\ cuts' \in 0 .. MaxCuts
  BY AccountsBoundsAssumption DEF AccountsTypeOK, Begin, Goto

(* Answered tokens are at most those issued, which the type of the answer  *)
(* needs.                                                                  *)
TasksIssued ==
  \A p \in Procs : req[p].pc \in {"verify", "reset"} => req[p].token <= issued

LEMMA AccountsTypedInit == AccountsInit => AccountsTypeOK
  BY AccountsBoundsAssumption
     DEF AccountsInit, AccountsTypeOK, Tasks, NoToken

LEMMA DrawTyped ==
  ASSUME AccountsTypeOK, NEW p \in Procs, NEW w \in Purposes,
         NEW signUp \in BOOLEAN, req[p].user \in Holders,
         DrawToken(p, w, signUp)
  PROVE  AccountsTypeOK'
<1> DEFINE u == req[p].user
           m == [purpose |-> w, user |-> u, token |-> issued + 1]
           r == [pc |-> "mail", signUp |-> signUp, mail |-> m]
<1>1. CASE HasAccount(u)
  <2>1. issued' = issued + 1 /\ Goto(p, r) /\ Store(w, u, issued + 1)
    BY <1>1 DEF DrawToken
  <2>2. issued + 1 \in Tokens
    BY AccountsBoundsAssumption DEF DrawToken, AccountsTypeOK, Tokens
  <2>3. r \in Tasks
    BY <2>2 DEF Mails, Tasks
  <2>4. req' \in [Procs -> Tasks]
    BY <2>1, <2>3, GotoTyped DEF AccountsTypeOK
  <2>5. token' \in [Purposes -> [Holders -> Tokens \cup {NoToken}]]
    BY <2>1, <2>2 DEF Store, AccountsTypeOK
  <2>6. issued' \in 0 .. MaxTokens
    BY <2>1, <2>2 DEF Tokens
  <2> QED BY <2>4, <2>5, <2>6
          DEF DrawToken, AccountsTypeOK, accounts, access, bounds
<1>2. CASE ~HasAccount(u)
  <2>1. Leave(p) /\ UNCHANGED <<issued, token>>
    BY <1>2 DEF DrawToken
  <2> QED BY <2>1, LeaveTyped
          DEF DrawToken, AccountsTypeOK, accounts, access, bounds
<1> QED BY <1>1, <1>2

LEMMA TakeTyped ==
  ASSUME AccountsTypeOK, TasksIssued, NEW p \in Procs,
         NEW w \in Purposes, Is(p, w),
         TakeToken(p, w)
  PROVE  /\ token' \in [Purposes -> [Holders -> Tokens \cup {NoToken}]]
         /\ answers' \subseteq Answers
<1> DEFINE r == req[p]
<1>1. r.user \in Holders /\ r.token \in Tokens /\ r.token <= issued
  BY TaskShape DEF AccountsTypeOK, TasksIssued, Is, Purposes
<1>2. issued \in Tokens
  BY <1>1 DEF AccountsTypeOK, Tokens
<1>3. Answered(w, r) \in Answers
  BY <1>1, <1>2 DEF Answered, Answers
<1> QED BY <1>1, <1>3 DEF TakeToken, Store, AccountsTypeOK

LEMMA WelcomeTyped ==
  ASSUME AccountsTypeOK, NEW p \in Procs, NEW u \in Holders, Welcome(p, u)
  PROVE  req' \in [Procs -> Tasks]
<1>1. PICK c \in Clients :
        Goto(p, [pc |-> "grant", user |-> u, client |-> c,
                 since |-> logouts[u], seen |-> logouts[u], kept |-> FALSE])
  BY DEF Welcome
<1>2. [pc |-> "grant", user |-> u, client |-> c, since |-> logouts[u],
       seen |-> logouts[u], kept |-> FALSE] \in Tasks
  BY DEF Tasks, AccountsTypeOK
<1> QED BY <1>1, <1>2, GotoTyped DEF AccountsTypeOK

LEMMA PostsTyped ==
  ASSUME AccountsTypeOK, NEW p \in Procs, Posts(p)
  PROVE  AccountsTypeOK'
<1>1. req[p] \in Tasks
  BY DEF AccountsTypeOK
<1>2. ASSUME SendEmailVerification(p) \/ Forgot(p)
      PROVE  AccountsTypeOK'
  <2>1. req[p].user \in Holders
    BY <1>1, <1>2, TaskShape DEF SendEmailVerification, Forgot, Is
  <2> QED BY <1>2, <2>1, DrawTyped DEF SendEmailVerification, Forgot, Purposes
<1>3. CASE StartForgot(p)
  <2>1. PICK u \in Holders : Begin(p, [pc |-> "forgot", user |-> u])
    BY <1>3 DEF StartForgot
  <2>2. [pc |-> "forgot", user |-> u] \in Tasks
    BY DEF Tasks
  <2> QED BY <1>3, <2>1, <2>2, BeginTyped
          DEF StartForgot, AccountsTypeOK, accounts, post, access
<1>4. CASE SendEmail(p)
  <2>1. req[p].mail \in Mails
    BY <1>1, <1>4, TaskShape DEF SendEmail, Is
  <2>2. req' \in [Procs -> Tasks]
    BY <1>4, <2>1, WelcomeTyped, LeaveTyped
       DEF SendEmail, Mails, AccountsTypeOK
  <2> QED BY <1>4, <2>1, <2>2
          DEF SendEmail, AccountsTypeOK, accounts, access, bounds
<1> QED BY <1>2, <1>3, <1>4 DEF Posts

LEMMA AnsweringTyped ==
  ASSUME AccountsTypeOK, TasksIssued, NEW p \in Procs, Answering(p)
  PROVE  AccountsTypeOK'
<1>1. req[p] \in Tasks
  BY DEF AccountsTypeOK
<1>2. CASE StartAnswer(p)
  <2>1. PICK m \in mails, u \in Holders :
          Begin(p, [pc |-> m.purpose, user |-> u, token |-> m.token])
    BY <1>2 DEF StartAnswer
  <2>2. m \in Mails
    BY DEF AccountsTypeOK
  <2>3. [pc |-> m.purpose, user |-> u, token |-> m.token] \in Tasks
    BY <2>2 DEF Mails, Purposes, Tasks
  <2> QED BY <1>2, <2>1, <2>3, BeginTyped
          DEF StartAnswer, AccountsTypeOK, accounts, post, access
<1>3. CASE VerifyEmail(p)
  <2>1. req[p].user \in Holders
    BY <1>1, <1>3, TaskShape DEF VerifyEmail, Is
  <2>2. Is(p, "verify") /\ "verify" \in Purposes
    BY <1>3 DEF VerifyEmail, Purposes
  <2>3. /\ token' \in [Purposes -> [Holders -> Tokens \cup {NoToken}]]
        /\ answers' \subseteq Answers
        /\ verified' \in [Holders -> BOOLEAN]
    BY <1>3, <2>1, <2>2, TakeTyped DEF VerifyEmail, AccountsTypeOK
  <2>4. req' \in [Procs -> Tasks]
    BY <1>3, LeaveTyped DEF VerifyEmail, AccountsTypeOK
  <2> QED BY <1>3, <2>3, <2>4
          DEF VerifyEmail, AccountsTypeOK, access, bounds
<1>4. CASE Reset(p)
  <2>1. req[p].user \in Holders
    BY <1>1, <1>4, TaskShape DEF Reset, Is
  <2>2. Is(p, "reset") /\ "reset" \in Purposes
    BY <1>4 DEF Reset, Purposes
  <2>3. /\ token' \in [Purposes -> [Holders -> Tokens \cup {NoToken}]]
        /\ answers' \subseteq Answers
    BY <1>4, <2>1, <2>2, TakeTyped DEF Reset, AccountsTypeOK
  <2>4. req' \in [Procs -> Tasks]
    BY <1>4, <2>1, LeaveTyped, WelcomeTyped DEF Reset, AccountsTypeOK
  <2> QED BY <1>4, <2>3, <2>4
          DEF Reset, AccountsTypeOK, accounts, access, bounds
<1> QED BY <1>2, <1>3, <1>4 DEF Answering

LEMMA GrantsTyped ==
  ASSUME AccountsTypeOK, NEW p \in Procs, Grants(p)
  PROVE  AccountsTypeOK'
<1>1. req[p] \in Tasks
  BY DEF AccountsTypeOK
<1>2. ASSUME NEW u \in Holders, NEW c \in Clients, NEW n \in Nat,
             NEW k \in BOOLEAN
      PROVE  [pc |-> "clean", user |-> u, client |-> c, since |-> n,
              seen |-> logouts[u], kept |-> k] \in Tasks
  BY DEF Tasks, AccountsTypeOK
<1>3. CASE StartLogin(p)
  <2>1. PICK u \in Holders, c \in Clients :
          Begin(p, [pc |-> "clean", user |-> u, client |-> c,
                    since |-> logouts[u], seen |-> logouts[u], kept |-> FALSE])
    BY <1>3 DEF StartLogin
  <2>2. logouts[u] \in Nat
    BY DEF AccountsTypeOK
  <2> QED BY <1>2, <1>3, <2>1, <2>2, BeginTyped
          DEF StartLogin, AccountsTypeOK, accounts, post, access
<1>4. CASE StartRenew(p)
  <2>1. PICK s \in sessions :
          Begin(p, [pc |-> "clean", user |-> s.user, client |-> s.client,
                    since |-> s.since, seen |-> logouts[s.user],
                    kept |-> s.kept])
    BY <1>4 DEF StartRenew
  <2>2. s \in Sessions
    BY DEF AccountsTypeOK
  <2> QED BY <1>2, <1>4, <2>1, <2>2, BeginTyped
          DEF StartRenew, AccountsTypeOK, accounts, post, access, Sessions
<1>5. CASE CleanUpTokens(p)
  <2>1. [req[p] EXCEPT !.pc = "grant"] \in Tasks
    BY <1>1, <1>5, TaskShape DEF CleanUpTokens, Is
  <2>2. req' \in [Procs -> Tasks]
    BY <1>5, <2>1, GotoTyped DEF CleanUpTokens, AccountsTypeOK
  <2>3. sessions' \subseteq Sessions
    BY <1>5 DEF CleanUpTokens, AccountsTypeOK
  <2> QED BY <1>5, <2>2, <2>3
          DEF CleanUpTokens, AccountsTypeOK, accounts, post, bounds
<1>6. CASE CreateRefreshToken(p)
  <2> DEFINE r == req[p]
  <2>1. /\ r.user \in Holders /\ r.client \in Clients
        /\ r.since \in Nat /\ r.kept \in BOOLEAN
    BY <1>1, <1>6, TaskShape DEF CreateRefreshToken, Is
  <2>2. [user |-> r.user, client |-> r.client, since |-> r.since,
         kept |-> r.kept \/ r.seen # logouts[r.user]] \in Sessions
    BY <2>1 DEF Sessions
  <2>3. req' \in [Procs -> Tasks]
    BY <1>6, LeaveTyped DEF CreateRefreshToken, AccountsTypeOK
  <2> QED BY <1>6, <2>2, <2>3
          DEF CreateRefreshToken, AccountsTypeOK, accounts, post, bounds
<1> QED BY <1>3, <1>4, <1>5, <1>6 DEF Grants

LEMMA BearersTyped ==
  ASSUME AccountsTypeOK, NEW p \in Procs, Bearers(p)
  PROVE  AccountsTypeOK'
<1>1. req[p] \in Tasks
  BY DEF AccountsTypeOK
<1>2. CASE StartBearer(p)
  <2>1. PICK u \in Holders, k \in {"resend", "logout", "remove"} :
          Begin(p, [pc |-> "auth", kind |-> k, user |-> u,
                    barred |-> suspended[u]])
    BY <1>2 DEF StartBearer
  <2>2. [pc |-> "auth", kind |-> k, user |-> u, barred |-> suspended[u]]
          \in Tasks
    BY DEF Tasks, AccountsTypeOK
  <2> QED BY <1>2, <2>1, <2>2, BeginTyped
          DEF StartBearer, AccountsTypeOK, accounts, post, access
<1>3. CASE Authenticate(p)
  <2> DEFINE r == req[p]
             next == [pc |-> r.kind, user |-> r.user, barred |-> r.barred]
  <2>1. next \in Tasks
    BY <1>1, <1>3, TaskShape DEF Authenticate, Is, Tasks
  <2>2. Leave(p) \/ Goto(p, next)
    BY <1>3 DEF Authenticate
  <2>3. req' \in [Procs -> Tasks]
    BY <2>1, <2>2, LeaveTyped, GotoTyped DEF AccountsTypeOK
  <2> QED BY <1>3, <2>3
          DEF Authenticate, AccountsTypeOK, accounts, post, access, bounds
<1>4. CASE RemoveUser(p)
  <2>1. req' \in [Procs -> Tasks]
    BY <1>4, LeaveTyped DEF RemoveUser, AccountsTypeOK
  <2> QED BY <1>4, <2>1
          DEF RemoveUser, AccountsTypeOK, post, access, bounds
<1>5. CASE Logout(p)
  <2>1. req' \in [Procs -> Tasks]
    BY <1>5, LeaveTyped DEF Logout, AccountsTypeOK
  <2>2. sessions' \subseteq Sessions
    BY <1>5 DEF Logout, OpenAfterLogout, AccountsTypeOK
  <2>3. req[p].user \in Holders
    BY <1>1, <1>5, TaskShape DEF Logout, Is
  <2>4. logouts' \in [Holders -> Nat]
    BY <1>5, <2>3 DEF Logout, AccountsTypeOK
  <2> QED BY <1>5, <2>1, <2>2, <2>4
          DEF Logout, AccountsTypeOK, accounts, post, bounds
<1> QED BY <1>2, <1>3, <1>4, <1>5 DEF Bearers

LEMMA AccountsTypedStep ==
  ASSUME AccountsTypeOK, TasksIssued, [AccountsNext]_accountVars
  PROVE  AccountsTypeOK'
<1>1. CASE Expire
  <2>1. PICK t \in 1 .. issued : expired' = expired \cup {t}
    BY <1>1 DEF Expire
  <2>2. t \in Tokens
    BY AccountsBoundsAssumption DEF Tokens, AccountsTypeOK
  <2> QED BY <1>1, <2>1, <2>2
          DEF Expire, AccountsTypeOK, accounts, access, bounds
<1>2. ASSUME NEW u \in Holders, UnbanUser(u)
      PROVE  AccountsTypeOK'
  <2>1. req' \in [Procs -> Tasks]
    BY <1>2, TaskShape DEF UnbanUser, AccountsTypeOK
  <2> QED BY <1>2, <2>1
          DEF UnbanUser, AccountsTypeOK, post, access, bounds
<1>3. ASSUME NEW p \in Procs, SignUps(p)
      PROVE  AccountsTypeOK'
  <2>1. CASE StartSignUp(p)
    <3>1. PICK u \in Holders : Begin(p, [pc |-> "create", user |-> u])
      BY <2>1 DEF StartSignUp
    <3>2. [pc |-> "create", user |-> u] \in Tasks
      BY DEF Tasks
    <3> QED BY <2>1, <3>1, <3>2, BeginTyped
            DEF StartSignUp, AccountsTypeOK, accounts, post, access
  <2>2. CASE CreateUser(p)
    <3>1. req[p] \in Tasks
      BY DEF AccountsTypeOK
    <3>2. req[p].user \in Holders
      BY <2>2, <3>1, TaskShape DEF CreateUser, Is
    <3>3. [pc |-> "draw", user |-> req[p].user] \in Tasks
      BY <3>2 DEF Tasks
    <3>4. req' \in [Procs -> Tasks]
      BY <2>2, <3>3, GotoTyped DEF CreateUser, AccountsTypeOK
    <3> QED BY <2>2, <3>4
            DEF CreateUser, AccountsTypeOK, post, access, bounds
  <2> QED BY <1>3, <2>1, <2>2 DEF SignUps
<1>4. ASSUME NEW p \in Procs, BanUser(p)
      PROVE  AccountsTypeOK'
  <2>1. PICK u \in Holders :
          Begin(p, [pc |-> "close", user |-> u]) /\ Suspend(u)
    BY <1>4 DEF BanUser
  <2>2. [pc |-> "close", user |-> u] \in Tasks
    BY DEF Tasks
  <2> QED BY <1>4, <2>1, <2>2, BeginTyped
          DEF BanUser, Suspend, AccountsTypeOK, post, access
<1>5. ASSUME NEW p \in Procs, Cut(p)
      PROVE  AccountsTypeOK'
  <2>1. req' \in [Procs -> Tasks]
    BY <1>5, LeaveTyped DEF Cut, AccountsTypeOK
  <2>2. cuts' \in 0 .. MaxCuts
    BY <1>5, AccountsBoundsAssumption DEF Cut, AccountsTypeOK
  <2> QED BY <1>5, <2>1, <2>2 DEF Cut, AccountsTypeOK, accounts, post, access
<1>6. CASE UNCHANGED accountVars
  BY <1>6 DEF accountVars, accounts, post, access, bounds, AccountsTypeOK
<1> QED BY <1>1, <1>2, <1>3, <1>4, <1>5, <1>6, PostsTyped, AnsweringTyped,
           GrantsTyped, BearersTyped DEF AccountsNext

-----------------------------------------------------------------------------
(* Tokens                                                                  *)

(* A token for an e-mail works until another one is stored or one is       *)
(* answered; it holds before the e-mail is sent too, which makes the       *)
(* invariant inductive.                                                    *)
Works(m) ==
  \/ token[m.purpose][m.user] >= m.token
  \/ \E a \in answers :
       a.purpose = m.purpose /\ a.user = m.user /\ a.at >= m.token

Drawn(m) == m.token <= issued /\ Works(m)

TokensInv ==
  /\ AccountsTypeOK
  /\ TasksIssued
  /\ \A m \in mails : Drawn(m)
  /\ \A p \in Procs : req[p].pc = "mail" => Drawn(req[p].mail)
  /\ \A a \in answers : a.token <= issued
  /\ AnsweredTokensStayDead

(* Whatever a step does to the stored tokens.                              *)
PostKept == UNCHANGED <<token, issued, answers>>
PostDraws(w, u) ==
  /\ issued' = issued + 1
  /\ Store(w, u, issued + 1)
  /\ UNCHANGED answers
PostTakes(w, r) ==
  /\ Store(w, r.user, NoToken)
  /\ answers' = answers \cup {Answered(w, r)}
  /\ issued' = issued

PostStep ==
  \/ PostKept
  \/ \E w \in Purposes, u \in Holders : PostDraws(w, u)
  \/ \E w \in Purposes, p \in Procs : Is(p, w) /\ PostTakes(w, req[p])

LEMMA DrawnStays ==
  ASSUME AccountsTypeOK, PostStep, NEW m \in Mails, Drawn(m)
  PROVE  Drawn(m)'
<1>1. m.purpose \in Purposes /\ m.user \in Holders /\ m.token \in Nat
  BY DEF Mails, Tokens
<1>2. issued \in Nat
  BY DEF AccountsTypeOK
<1>3. token[m.purpose][m.user] \in Nat
  BY <1>1 DEF AccountsTypeOK, Tokens, NoToken
<1>4. CASE PostKept
  BY <1>4 DEF PostKept, Drawn, Works
<1>5. ASSUME NEW w \in Purposes, NEW u \in Holders, PostDraws(w, u)
      PROVE  Drawn(m)'
  <2>1. \/ token'[m.purpose][m.user] = token[m.purpose][m.user]
        \/ token'[m.purpose][m.user] = issued + 1
    BY <1>1, <1>5 DEF PostDraws, Store, AccountsTypeOK
  <2> QED BY <1>1, <1>2, <1>3, <1>5, <2>1 DEF PostDraws, Drawn, Works
<1>6. ASSUME NEW w \in Purposes, NEW p \in Procs, Is(p, w),
             PostTakes(w, req[p])
      PROVE  Drawn(m)'
  <2> DEFINE a == Answered(w, req[p])
  <2>1. a \in answers' /\ answers \subseteq answers' /\ issued' = issued
    BY <1>6 DEF PostTakes
  <2>2. CASE m.purpose = w /\ m.user = req[p].user
    BY <1>1, <1>2, <2>1, <2>2 DEF Answered, Drawn, Works
  <2>3. CASE ~(m.purpose = w /\ m.user = req[p].user)
    <3>1. token'[m.purpose][m.user] = token[m.purpose][m.user]
      BY <1>1, <1>6, <2>3 DEF PostTakes, Store, AccountsTypeOK
    <3> QED BY <2>1, <3>1 DEF Drawn, Works
  <2> QED BY <2>2, <2>3
<1> QED BY <1>4, <1>5, <1>6 DEF PostStep

LEMMA AnswersStay ==
  ASSUME TokensInv, PostStep
  PROVE  /\ (\A a \in answers : a.token <= issued)'
         /\ AnsweredTokensStayDead'
<1>1. /\ answers \subseteq Answers /\ issued \in Nat
      /\ token \in [Purposes -> [Holders -> Tokens \cup {NoToken}]]
  BY DEF TokensInv, AccountsTypeOK
<1>2. \A a \in Answers :
        a.purpose \in Purposes /\ a.user \in Holders /\ a.token \in 1 .. MaxTokens
  BY DEF Answers, Tokens
<1>3. CASE PostKept
  BY <1>3 DEF PostKept, TokensInv, AnsweredTokensStayDead
<1>4. ASSUME NEW w \in Purposes, NEW u \in Holders, PostDraws(w, u)
      PROVE  /\ (\A a \in answers : a.token <= issued)'
             /\ AnsweredTokensStayDead'
  <2> SUFFICES ASSUME NEW a \in answers
               PROVE  a.token <= issued + 1
                        /\ token'[a.purpose][a.user] # a.token
    BY <1>4 DEF PostDraws, AnsweredTokensStayDead
  <2>1. a.token <= issued /\ token[a.purpose][a.user] # a.token
    BY DEF TokensInv, AnsweredTokensStayDead
  <2>2. \/ token'[a.purpose][a.user] = token[a.purpose][a.user]
        \/ token'[a.purpose][a.user] = issued + 1
    BY <1>1, <1>2, <1>4 DEF PostDraws, Store
  <2> QED BY <1>1, <1>2, <2>1, <2>2
<1>5. ASSUME NEW w \in Purposes, NEW p \in Procs, Is(p, w),
             PostTakes(w, req[p])
      PROVE  /\ (\A a \in answers : a.token <= issued)'
             /\ AnsweredTokensStayDead'
  <2> SUFFICES ASSUME NEW a \in answers'
               PROVE  a.token <= issued /\ token'[a.purpose][a.user] # a.token
    BY <1>5 DEF PostTakes, AnsweredTokensStayDead
  <2>1. /\ req[p].token <= issued /\ req[p].token \in Tokens
        /\ req[p].user \in Holders
    BY <1>5, TaskShape DEF TokensInv, AccountsTypeOK, TasksIssued, Is, Purposes
  <2>2. CASE a = Answered(w, req[p])
    <3>1. token'[w][req[p].user] = NoToken
      BY <1>1, <1>5, <2>1 DEF PostTakes, Store
    <3> QED BY <2>1, <2>2, <3>1 DEF Answered, NoToken, Tokens
  <2>3. CASE a \in answers
    <3>1. \/ token'[a.purpose][a.user] = token[a.purpose][a.user]
          \/ token'[a.purpose][a.user] = NoToken
      BY <1>1, <1>2, <1>5, <2>3 DEF PostTakes, Store
    <3> QED BY <1>1, <1>2, <2>3, <3>1
            DEF TokensInv, AnsweredTokensStayDead, NoToken
  <2> QED BY <1>5, <2>2, <2>3 DEF PostTakes
<1> QED BY <1>3, <1>4, <1>5 DEF PostStep

(* The steps of requests that deal with no token.                          *)
Plain(r) == r.pc \notin {"mail", "verify", "reset"}
PlainStep ==
  /\ PostKept
  /\ UNCHANGED mails
  /\ \A q \in Procs : req'[q] = req[q] \/ Plain(req'[q])

LEMMA PlainGoto ==
  ASSUME req \in [Procs -> Tasks], NEW p, NEW r, Goto(p, r), Plain(r)
  PROVE  \A q \in Procs : req'[q] = req[q] \/ Plain(req'[q])
  BY DEF Goto

LEMMA PlainLeave ==
  ASSUME req \in [Procs -> Tasks], NEW p, Leave(p)
  PROVE  \A q \in Procs : req'[q] = req[q] \/ Plain(req'[q])
  BY PlainGoto DEF Leave, Idle, Plain

LEMMA PlainActions ==
  ASSUME AccountsTypeOK, NEW p \in Procs,
         \/ SignUps(p) \/ StartForgot(p) \/ Grants(p) \/ Bearers(p)
         \/ BanUser(p) \/ Cut(p)
  PROVE  PlainStep
<1> USE DEF PlainStep, PostKept, post, AccountsTypeOK
<1>1. CASE SignUps(p)
  BY <1>1, PlainGoto DEF SignUps, StartSignUp, CreateUser, Begin, Plain
<1>2. CASE StartForgot(p)
  BY <1>2, PlainGoto DEF StartForgot, Begin, Plain
<1>3. CASE Grants(p)
  <2>1. CASE StartLogin(p) \/ StartRenew(p)
    BY <2>1, PlainGoto DEF StartLogin, StartRenew, Begin, Plain
  <2>2. CASE CleanUpTokens(p)
    <3>1. [req[p] EXCEPT !.pc = "grant"].pc = "grant"
      BY <2>2, TaskShape DEF CleanUpTokens, Is, Tasks
    <3> QED BY <2>2, <3>1, PlainGoto DEF CleanUpTokens, Plain
  <2>3. CASE CreateRefreshToken(p)
    BY <2>3, PlainLeave DEF CreateRefreshToken
  <2> QED BY <1>3, <2>1, <2>2, <2>3 DEF Grants
<1>4. CASE Bearers(p)
  <2>1. CASE StartBearer(p)
    BY <2>1, PlainGoto DEF StartBearer, Begin, Plain
  <2>2. CASE Authenticate(p)
    <3> DEFINE r == req[p]
               next == [pc |-> r.kind, user |-> r.user, barred |-> r.barred]
    <3>1. Plain(next)
      BY <2>2, TaskShape DEF Authenticate, Is, Plain
    <3>2. Leave(p) \/ Goto(p, next)
      BY <2>2 DEF Authenticate
    <3>3. \A q \in Procs : req'[q] = req[q] \/ Plain(req'[q])
      BY <3>1, <3>2, PlainGoto, PlainLeave
    <3> QED BY <2>2, <3>3 DEF Authenticate
  <2>3. CASE RemoveUser(p) \/ Logout(p)
    BY <2>3, PlainLeave DEF RemoveUser, Logout
  <2> QED BY <1>4, <2>1, <2>2, <2>3 DEF Bearers
<1>5. CASE BanUser(p)
  BY <1>5, PlainGoto DEF BanUser, Begin, Plain
<1>6. CASE Cut(p)
  BY <1>6, PlainLeave DEF Cut
<1> QED BY <1>1, <1>2, <1>3, <1>4, <1>5, <1>6

LEMMA PlainUnban ==
  ASSUME AccountsTypeOK, NEW u \in Holders, UnbanUser(u)
  PROVE  PlainStep
<1>1. ASSUME NEW q \in Procs
      PROVE  req'[q] = req[q] \/ Plain(req'[q])
  <2>1. req[q] \in Tasks
    BY DEF AccountsTypeOK
  <2>2. CASE "barred" \in DOMAIN req[q]
    <3>1. req[q].pc \in {"auth", "resend", "logout", "remove"}
      BY <2>1, <2>2, TaskShape
    <3>2. [req[q] EXCEPT !.barred = FALSE].pc = req[q].pc
      OBVIOUS
    <3> QED BY <2>2, <3>1, <3>2 DEF UnbanUser, Plain
  <2>3. CASE "barred" \notin DOMAIN req[q]
    BY <2>3 DEF UnbanUser
  <2> QED BY <2>2, <2>3
<1> QED BY <1>1 DEF UnbanUser, PlainStep, PostKept, post

LEMMA PlainKeeps ==
  ASSUME TokensInv, AccountsTypeOK', PlainStep
  PROVE  TokensInv'
<1>1. PostStep
  BY DEF PlainStep, PostStep
<1>2. \A m \in mails' : Drawn(m)'
  BY <1>1, DrawnStays DEF PlainStep, TokensInv, AccountsTypeOK
<1>3. ASSUME NEW p \in Procs, req'[p].pc = "mail"
      PROVE  Drawn(req[p].mail)'
  <2>1. req'[p] = req[p]
    BY <1>3 DEF PlainStep, Plain
  <2>2. PICK m \in Mails : m = req[p].mail /\ Drawn(m)
    BY <1>3, <2>1, TaskShape DEF TokensInv, AccountsTypeOK
  <2>3. Drawn(m)'
    BY <1>1, <2>2, DrawnStays DEF TokensInv
  <2> QED BY <2>1, <2>2, <2>3 DEF Drawn, Works
<1>4. TasksIssued'
  BY DEF TokensInv, TasksIssued, PlainStep, Plain, PostKept
<1> QED BY <1>1, <1>2, <1>3, <1>4, AnswersStay DEF TokensInv

(* A step of a request that deals with a token: what it holds then is as   *)
(* the invariant says, and only a token that was stored is e-mailed.       *)
LEMMA TokensByTask ==
  ASSUME TokensInv, AccountsTypeOK', PostStep, NEW p \in Procs,
         \A q \in Procs : q # p => req'[q] = req[q],
         req'[p].pc = "mail" => Drawn(req[p].mail)',
         req'[p].pc \in {"verify", "reset"} => req'[p].token <= issued',
         \A m \in mails' :
           m \in mails \/ (req[p].pc = "mail" /\ m = req[p].mail)
  PROVE  TokensInv'
<1>1. ASSUME NEW q \in Procs, req[q].pc = "mail"
      PROVE  \E m \in Mails : m = req[q].mail /\ Drawn(m)'
  <2>1. PICK m \in Mails : m = req[q].mail /\ Drawn(m)
    BY <1>1, TaskShape DEF TokensInv, AccountsTypeOK
  <2> QED BY <2>1, DrawnStays DEF TokensInv
<1>2. \A m \in mails' : Drawn(m)'
  <2> TAKE m \in mails'
  <2>1. CASE m \in mails
    BY <2>1, DrawnStays DEF TokensInv, AccountsTypeOK
  <2>2. CASE req[p].pc = "mail" /\ m = req[p].mail
    BY <1>1, <2>2
  <2> QED BY <2>1, <2>2
<1>3. ASSUME NEW q \in Procs, req'[q].pc = "mail"
      PROVE  Drawn(req[q].mail)'
  <2>1. CASE q = p
    BY <1>3, <2>1
  <2>2. CASE q # p
    <3>1. req'[q] = req[q]
      BY <2>2
    <3>2. PICK m \in Mails : m = req[q].mail /\ Drawn(m)'
      BY <1>1, <1>3, <3>1
    <3> QED BY <3>1, <3>2 DEF Drawn, Works
  <2> QED BY <2>1, <2>2
<1>4. TasksIssued'
  <2> SUFFICES ASSUME NEW q \in Procs, req'[q].pc \in {"verify", "reset"}
               PROVE  req'[q].token <= issued'
    BY DEF TasksIssued
  <2>1. CASE q = p
    BY <2>1
  <2>2. CASE q # p
    <3>1. req'[q] = req[q] /\ req[q] \in Tasks
      BY <2>2 DEF TokensInv, AccountsTypeOK
    <3>2. req[q].token <= issued
      BY <3>1 DEF TokensInv, TasksIssued
    <3>3. req[q].token \in Nat
      <4>1. req[q].token \in Tokens
        BY <3>1, TaskShape
      <4> QED BY <4>1 DEF Tokens
    <3>4. issued \in Nat /\ (issued' = issued \/ issued' = issued + 1)
      BY DEF PostStep, PostKept, PostDraws, PostTakes, TokensInv,
             AccountsTypeOK
    <3> QED BY <3>1, <3>2, <3>3, <3>4
  <2> QED BY <2>1, <2>2
<1> QED BY <1>2, <1>3, <1>4, AnswersStay DEF TokensInv

LEMMA DrawKeeps ==
  ASSUME TokensInv, AccountsTypeOK', NEW p \in Procs, NEW w \in Purposes,
         NEW signUp \in BOOLEAN, req[p].user \in Holders,
         req[p].pc # "mail", DrawToken(p, w, signUp)
  PROVE  TokensInv'
<1> DEFINE u == req[p].user
           m == [purpose |-> w, user |-> u, token |-> issued + 1]
           r == [pc |-> "mail", signUp |-> signUp, mail |-> m]
<1> USE DEF TokensInv
<1>1. CASE HasAccount(u)
  <2>1. issued' = issued + 1 /\ Goto(p, r) /\ Store(w, u, issued + 1)
    BY <1>1 DEF DrawToken
  <2>2. PostStep
    BY <2>1 DEF DrawToken, PostStep, PostDraws
  <2>3. \A q \in Procs : q # p => req'[q] = req[q]
    BY <2>1 DEF Goto, AccountsTypeOK
  <2>4. req'[p] = r
    BY <2>1 DEF Goto, AccountsTypeOK
  <2>5. token'[w][u] = issued + 1
    BY <2>1 DEF Store, AccountsTypeOK
  <2>6. Drawn(req[p].mail)'
    BY <2>1, <2>4, <2>5 DEF Drawn, Works, AccountsTypeOK
  <2>7. mails' = mails
    BY DEF DrawToken
  <2> QED BY <2>2, <2>3, <2>4, <2>6, <2>7, TokensByTask
<1>2. CASE ~HasAccount(u)
  <2>1. PlainStep
    BY <1>2, PlainLeave DEF DrawToken, PlainStep, PostKept, AccountsTypeOK
  <2> QED BY <2>1, PlainKeeps
<1> QED BY <1>1, <1>2

LEMMA WelcomeOrLeave ==
  ASSUME req \in [Procs -> Tasks], NEW p \in Procs, NEW u,
         Welcome(p, u) \/ Leave(p)
  PROVE  /\ req'[p].pc \in {"idle", "grant"}
         /\ \A q \in Procs : q # p => req'[q] = req[q]
<1>1. CASE Welcome(p, u)
  <2>1. PICK c \in Clients :
          req' = [req EXCEPT ![p] =
                    [pc |-> "grant", user |-> u, client |-> c,
                     since |-> logouts[u], seen |-> logouts[u],
                     kept |-> FALSE]]
    BY <1>1 DEF Welcome, Goto
  <2> QED BY <2>1
<1>2. CASE Leave(p)
  BY <1>2 DEF Leave, Goto, Idle
<1> QED BY <1>1, <1>2

LEMMA SendEmailKeeps ==
  ASSUME TokensInv, AccountsTypeOK', NEW p \in Procs, SendEmail(p)
  PROVE  TokensInv'
<1>1. PostStep
  BY DEF SendEmail, PostStep, PostKept
<1>2. Welcome(p, req[p].mail.user) \/ Leave(p)
  BY DEF SendEmail
<1>3. /\ req'[p].pc \in {"idle", "grant"}
      /\ \A q \in Procs : q # p => req'[q] = req[q]
  BY <1>2, WelcomeOrLeave DEF TokensInv, AccountsTypeOK
<1>4. \A m \in mails' :
        m \in mails \/ (req[p].pc = "mail" /\ m = req[p].mail)
  BY DEF SendEmail, Is
<1> QED BY <1>1, <1>3, <1>4, TokensByTask

LEMMA AnsweringKeeps ==
  ASSUME TokensInv, AccountsTypeOK', NEW p \in Procs, Answering(p)
  PROVE  TokensInv'
<1> USE DEF TokensInv
<1>1. CASE StartAnswer(p)
  <2>1. PICK m \in mails, u \in Holders :
          Goto(p, [pc |-> m.purpose, user |-> u, token |-> m.token])
    BY <1>1 DEF StartAnswer, Begin
  <2>2. m.purpose \in {"verify", "reset"} /\ m.token <= issued
    BY DEF AccountsTypeOK, Mails, Purposes, Drawn
  <2>3. /\ req'[p] = [pc |-> m.purpose, user |-> u, token |-> m.token]
        /\ \A q \in Procs : q # p => req'[q] = req[q]
    BY <2>1 DEF Goto, AccountsTypeOK
  <2>4. PostStep /\ UNCHANGED <<mails, issued>>
    BY <1>1 DEF StartAnswer, post, PostStep, PostKept
  <2> QED BY <2>2, <2>3, <2>4, TokensByTask
<1>2. CASE VerifyEmail(p)
  <2>1. PostStep
    <3>1. Is(p, "verify") /\ "verify" \in Purposes
      BY <1>2 DEF VerifyEmail, Purposes
    <3> QED BY <1>2, <3>1
            DEF VerifyEmail, TakeToken, PostStep, PostKept, PostTakes
  <2>2. req'[p] = Idle /\ \A q \in Procs : q # p => req'[q] = req[q]
    BY <1>2 DEF VerifyEmail, Leave, Goto, AccountsTypeOK
  <2>3. mails' = mails
    BY <1>2 DEF VerifyEmail
  <2> QED BY <2>1, <2>2, <2>3, TokensByTask DEF Idle
<1>3. CASE Reset(p)
  <2>1. PostStep
    <3>1. Is(p, "reset") /\ "reset" \in Purposes
      BY <1>3 DEF Reset, Purposes
    <3> QED BY <1>3, <3>1
            DEF Reset, TakeToken, PostStep, PostKept, PostTakes
  <2>2. Welcome(p, req[p].user) \/ Leave(p)
    BY <1>3 DEF Reset
  <2>3. /\ req'[p].pc \in {"idle", "grant"}
        /\ \A q \in Procs : q # p => req'[q] = req[q]
    BY <2>2, WelcomeOrLeave DEF AccountsTypeOK
  <2>4. mails' = mails
    BY <1>3 DEF Reset
  <2> QED BY <2>1, <2>3, <2>4, TokensByTask
<1> QED BY <1>1, <1>2, <1>3 DEF Answering

LEMMA TokensInit == AccountsInit => TokensInv
  BY AccountsTypedInit
     DEF AccountsInit, TokensInv, TasksIssued, AnsweredTokensStayDead, Idle

LEMMA TokensStep ==
  ASSUME TokensInv, [AccountsNext]_accountVars
  PROVE  TokensInv'
<1>1. AccountsTypeOK'
  BY AccountsTypedStep DEF TokensInv
<1>2. AccountsTypeOK
  BY DEF TokensInv
<1>3. CASE Expire \/ UNCHANGED accountVars
  <2>1. PlainStep
    BY <1>3 DEF Expire, accountVars, post, PlainStep, PostKept
  <2> QED BY <1>1, <2>1, PlainKeeps
<1>4. ASSUME NEW u \in Holders, UnbanUser(u)
      PROVE  TokensInv'
  BY <1>1, <1>2, <1>4, PlainUnban, PlainKeeps
<1>5. ASSUME NEW p \in Procs,
             \/ SignUps(p) \/ StartForgot(p) \/ Grants(p) \/ Bearers(p)
             \/ BanUser(p) \/ Cut(p)
      PROVE  TokensInv'
  BY <1>1, <1>2, <1>5, PlainActions, PlainKeeps
<1>6. ASSUME NEW p \in Procs, SendEmailVerification(p) \/ Forgot(p)
      PROVE  TokensInv'
  <2>1. req[p].user \in Holders /\ req[p].pc # "mail"
    BY <1>2, <1>6, TaskShape
       DEF SendEmailVerification, Forgot, Is, AccountsTypeOK
  <2> QED BY <1>1, <1>6, <2>1, DrawKeeps
          DEF SendEmailVerification, Forgot, Purposes
<1> QED BY <1>1, <1>3, <1>4, <1>5, <1>6, SendEmailKeeps, AnsweringKeeps
        DEF AccountsNext, Posts

LEMMA TokensAlways == AccountsSpec => []TokensInv
  BY TokensInit, TokensStep, PTL DEF AccountsSpec

LEMMA TokensServe == TokensInv => TokensServeOnce
  BY DEF TokensInv, Drawn, Works, TokensServeOnce, MailedTokensWork

-----------------------------------------------------------------------------
(* The steps of Accounts within Access                                     *)
LEMMA AccessRunsAccounts == Spec => AccountsSpec
<1>1. Init => AccountsInit
  BY DEF Init
<1>2. [Next]_vars => [AccountsNext]_accountVars
  BY DEF Next, vars
<1> QED BY <1>1, <1>2, PTL DEF Spec, AccountsSpec

(* A token that was e-mailed works until it is answered or overtaken, and  *)
(* an answered one never again (auth.restdone.plugin.ts:360-399,           *)
(* emailVerification.restdone.plugin.ts:56-115).                           *)
THEOREM TokensServeOnceAlways == Spec => []TokensServeOnce
  BY AccessRunsAccounts, TokensAlways, TokensServe, PTL

(* Every variable of Accounts keeps its type.                              *)
THEOREM AccountsTyped == Spec => []AccountsTypeOK
<1>1. TokensInv => AccountsTypeOK
  BY DEF TokensInv
<1> QED BY <1>1, AccessRunsAccounts, TokensAlways, PTL

-----------------------------------------------------------------------------
(* Sessions                                                                *)

(* A grant that no logout overlapped goes back to a log-in since which it  *)
(* saw none.                                                               *)
GrantsKnow ==
  \A p \in Procs : req[p].pc \in {"clean", "grant"}
                     => req[p].kept \/ req[p].since = req[p].seen

SessionsInv == AccountsTypeOK /\ GrantsKnow /\ LogoutEndsSessions

LEMMA GrantGoto ==
  ASSUME SessionsInv, NEW p, NEW r, Goto(p, r),
         r.pc \notin {"clean", "grant"} \/ r.kept \/ r.since = r.seen
  PROVE  GrantsKnow'
  BY DEF SessionsInv, AccountsTypeOK, GrantsKnow, Goto

LEMMA GrantLeave ==
  ASSUME SessionsInv, NEW p, Leave(p)
  PROVE  GrantsKnow'
  BY GrantGoto DEF Leave, Idle

(* Steps that touch no session keep the property.                          *)
LEMMA SessionsKept ==
  ASSUME SessionsInv, UNCHANGED access
  PROVE  LogoutEndsSessions'
  BY DEF SessionsInv, access, LogoutEndsSessions

LEMMA GrantsKeep ==
  ASSUME SessionsInv, NEW p \in Procs, Grants(p)
  PROVE  GrantsKnow' /\ LogoutEndsSessions'
<1>1. CASE StartLogin(p)
  <2>1. PICK u \in Holders, c \in Clients :
          Goto(p, [pc |-> "clean", user |-> u, client |-> c,
                   since |-> logouts[u], seen |-> logouts[u], kept |-> FALSE])
    BY <1>1 DEF StartLogin, Begin
  <2>2. GrantsKnow'
    BY <2>1, GrantGoto
  <2> QED BY <1>1, <2>2, SessionsKept DEF StartLogin
<1>2. CASE StartRenew(p)
  <2>1. PICK s \in sessions :
          Goto(p, [pc |-> "clean", user |-> s.user, client |-> s.client,
                   since |-> s.since, seen |-> logouts[s.user],
                   kept |-> s.kept])
    BY <1>2 DEF StartRenew, Begin
  <2>2. s.kept \/ s.since = logouts[s.user]
    BY DEF SessionsInv, LogoutEndsSessions
  <2>3. GrantsKnow'
    BY <2>1, <2>2, GrantGoto
  <2> QED BY <1>2, <2>3, SessionsKept DEF StartRenew
<1>3. CASE CleanUpTokens(p)
  <2> DEFINE r == req[p]
             n == [r EXCEPT !.pc = "grant"]
  <2>1. r \in Tasks /\ r.pc = "clean" /\ (r.kept \/ r.since = r.seen)
    BY <1>3 DEF CleanUpTokens, Is, SessionsInv, AccountsTypeOK, GrantsKnow
  <2>2. n.kept = r.kept /\ n.since = r.since /\ n.seen = r.seen
    BY <2>1
  <2>3. GrantsKnow'
    BY <1>3, <2>1, <2>2, GrantGoto DEF CleanUpTokens
  <2>4. sessions' \subseteq sessions /\ logouts' = logouts
    BY <1>3 DEF CleanUpTokens
  <2> QED BY <2>3, <2>4 DEF SessionsInv, LogoutEndsSessions
<1>4. CASE CreateRefreshToken(p)
  <2> DEFINE r == req[p]
             new == [user |-> r.user, client |-> r.client, since |-> r.since,
                     kept |-> r.kept \/ r.seen # logouts[r.user]]
  <2>1. r.kept \/ r.since = r.seen
    BY <1>4 DEF CreateRefreshToken, Is, SessionsInv, GrantsKnow
  <2>2. new.kept \/ new.since = logouts[new.user]
    <3>1. /\ new.user = r.user /\ new.since = r.since
          /\ new.kept = (r.kept \/ r.seen # logouts[r.user])
      OBVIOUS
    <3> QED BY <2>1, <3>1
  <2>3. sessions' = sessions \cup {new} /\ logouts' = logouts
    BY <1>4 DEF CreateRefreshToken
  <2>4. GrantsKnow'
    BY <1>4, GrantLeave DEF CreateRefreshToken
  <2>5. ASSUME NEW s \in sessions'
        PROVE  s.kept \/ s.since = logouts[s.user]
    <3>1. CASE s = new
      BY <2>2, <3>1
    <3>2. CASE s \in sessions
      BY <3>2 DEF SessionsInv, LogoutEndsSessions
    <3> QED BY <2>3, <3>1, <3>2
  <2> QED BY <2>3, <2>4, <2>5 DEF LogoutEndsSessions
<1> QED BY <1>1, <1>2, <1>3, <1>4 DEF Grants

LEMMA LogoutKeeps ==
  ASSUME SessionsInv, NEW p \in Procs, Logout(p)
  PROVE  GrantsKnow' /\ LogoutEndsSessions'
<1> DEFINE u == req[p].user
<1>1. GrantsKnow'
  BY GrantLeave DEF Logout
<1>2. ASSUME NEW s \in sessions'
      PROVE  s \in sessions /\ logouts'[s.user] = logouts[s.user]
  <2>1. s \in sessions /\ s.user # u
    BY DEF Logout, OpenAfterLogout
  <2>2. s.user \in Holders
    BY <2>1 DEF SessionsInv, AccountsTypeOK, Sessions
  <2> QED BY <2>1, <2>2 DEF Logout, SessionsInv, AccountsTypeOK
<1> QED BY <1>1, <1>2 DEF SessionsInv, LogoutEndsSessions

(* The steps of the other requests.                                        *)
LEMMA NoGrantKeeps ==
  ASSUME SessionsInv, NEW p \in Procs,
         \/ SignUps(p) \/ Posts(p) \/ Answering(p) \/ BanUser(p) \/ Cut(p)
         \/ StartBearer(p) \/ Authenticate(p) \/ RemoveUser(p)
  PROVE  GrantsKnow' /\ LogoutEndsSessions'
<1>1. ASSUME NEW u, Welcome(p, u)
      PROVE  GrantsKnow'
  <2>1. PICK c \in Clients :
          Goto(p, [pc |-> "grant", user |-> u, client |-> c,
                   since |-> logouts[u], seen |-> logouts[u], kept |-> FALSE])
    BY <1>1 DEF Welcome
  <2> QED BY <2>1, GrantGoto
<1>2. CASE SignUps(p)
  BY <1>2, GrantGoto, SessionsKept DEF SignUps, StartSignUp, CreateUser, Begin
<1>3. CASE Posts(p)
  <2>1. CASE StartForgot(p)
    BY <2>1, GrantGoto, SessionsKept DEF StartForgot, Begin
  <2>2. ASSUME NEW w, NEW b, DrawToken(p, w, b)
        PROVE  GrantsKnow' /\ LogoutEndsSessions'
    BY <2>2, GrantGoto, GrantLeave, SessionsKept DEF DrawToken
  <2>3. CASE SendEmail(p)
    BY <1>1, <2>3, GrantLeave, SessionsKept DEF SendEmail
  <2> QED BY <1>3, <2>1, <2>2, <2>3 DEF Posts, SendEmailVerification, Forgot
<1>4. CASE Answering(p)
  <2>1. CASE StartAnswer(p)
    <3>1. PICK m \in mails, u \in Holders :
            Goto(p, [pc |-> m.purpose, user |-> u, token |-> m.token])
      BY <2>1 DEF StartAnswer, Begin
    <3>2. m.purpose \in Purposes
      BY DEF SessionsInv, AccountsTypeOK, Mails
    <3> QED BY <2>1, <3>1, <3>2, GrantGoto, SessionsKept
            DEF StartAnswer, Purposes
  <2>2. CASE VerifyEmail(p)
    BY <2>2, GrantLeave, SessionsKept DEF VerifyEmail
  <2>3. CASE Reset(p)
    BY <1>1, <2>3, GrantLeave, SessionsKept DEF Reset
  <2> QED BY <1>4, <2>1, <2>2, <2>3 DEF Answering
<1>5. CASE BanUser(p)
  BY <1>5, GrantGoto, SessionsKept DEF BanUser, Begin
<1>6. CASE Cut(p) \/ RemoveUser(p)
  BY <1>6, GrantLeave, SessionsKept DEF Cut, RemoveUser
<1>7. CASE StartBearer(p)
  BY <1>7, GrantGoto, SessionsKept DEF StartBearer, Begin
<1>8. CASE Authenticate(p)
  <2>1. req[p].kind \in {"resend", "logout", "remove"}
    BY <1>8, TaskShape DEF Authenticate, Is, SessionsInv, AccountsTypeOK
  <2> QED BY <1>8, <2>1, GrantGoto, GrantLeave, SessionsKept DEF Authenticate
<1> QED BY <1>2, <1>3, <1>4, <1>5, <1>6, <1>7, <1>8

LEMMA SessionsStep ==
  ASSUME SessionsInv, AccountsTypeOK', [AccountsNext]_accountVars
  PROVE  SessionsInv'
<1>1. CASE Expire \/ UNCHANGED accountVars
  BY <1>1 DEF Expire, accountVars, access, SessionsInv, GrantsKnow,
              LogoutEndsSessions
<1>2. ASSUME NEW u \in Holders, UnbanUser(u)
      PROVE  SessionsInv'
  <2>1. ASSUME NEW q \in Procs, req'[q].pc \in {"clean", "grant"}
        PROVE  req'[q] = req[q]
    <3>1. CASE "barred" \in DOMAIN req[q]
      <4>1. req[q].pc \in {"auth", "resend", "logout", "remove"}
        BY <3>1, TaskShape DEF SessionsInv, AccountsTypeOK
      <4>2. [req[q] EXCEPT !.barred = FALSE].pc = req[q].pc
        OBVIOUS
      <4> QED BY <1>2, <2>1, <4>1, <4>2 DEF UnbanUser
    <3> QED BY <1>2, <3>1 DEF UnbanUser
  <2>2. GrantsKnow'
    BY <2>1 DEF SessionsInv, GrantsKnow
  <2> QED BY <1>2, <2>2, SessionsKept DEF UnbanUser, SessionsInv
<1> QED BY <1>1, <1>2, GrantsKeep, LogoutKeeps, NoGrantKeeps
        DEF AccountsNext, Bearers, SessionsInv

(* A logout or a ban ends every session but those of a grant that it       *)
(* overlapped (auth.restdone.plugin.ts:146-148, authDelegate.ts:65-82).    *)
THEOREM LogoutEndsSessionsAlways == Spec => []LogoutEndsSessions
<1>1. AccountsInit => SessionsInv
  BY AccountsTypedInit
     DEF AccountsInit, SessionsInv, GrantsKnow, LogoutEndsSessions, Idle
<1>2. SessionsInv => LogoutEndsSessions
  BY DEF SessionsInv
<1> QED BY <1>1, <1>2, AccountsTyped, AccessRunsAccounts, SessionsStep, PTL
        DEF AccountsSpec

-----------------------------------------------------------------------------
(* Bans                                                                    *)

(* A barred request is one of a user who is still suspended.               *)
BarredAreSuspended ==
  \A p \in Procs :
    "barred" \in DOMAIN req[p] /\ req[p].barred => suspended[req[p].user]

BansInv == AccountsTypeOK /\ BarredAreSuspended /\ BanShutsOut

(* What the invariant says of one task.                                    *)
Shut(r) ==
  "barred" \in DOMAIN r /\ r.barred
    => suspended[r.user] /\ r.pc \in {"auth"} \cup Whitelisted

(* A task without the field, or one that was there, stays shut as long as  *)
(* nobody is unbanned.                                                     *)
LEMMA ShutGoto ==
  ASSUME BansInv, AccountsTypeOK', NEW p \in Procs, NEW r, Goto(p, r),
         Shut(r), \A u \in Holders : suspended[u] => suspended'[u]
  PROVE  BansInv'
<1>1. ASSUME NEW q \in Procs, "barred" \in DOMAIN req'[q], req'[q].barred
      PROVE  suspended'[req'[q].user] /\ req'[q].pc \in {"auth"} \cup Whitelisted
  <2>1. req'[q] \in Tasks
    BY DEF AccountsTypeOK
  <2>2. req'[q].user \in Holders
    BY <1>1, <2>1, TaskShape
  <2>3. req'[q] = r \/ req'[q] = req[q]
    BY DEF Goto, BansInv, AccountsTypeOK
  <2>4. CASE req'[q] = r
    BY <1>1, <2>2, <2>4 DEF Shut
  <2>5. CASE req'[q] = req[q]
    BY <1>1, <2>2, <2>5 DEF BansInv, BarredAreSuspended, BanShutsOut
  <2> QED BY <2>3, <2>4, <2>5
<1> QED BY <1>1 DEF BansInv, BarredAreSuspended, BanShutsOut

LEMMA ShutLeave ==
  ASSUME BansInv, AccountsTypeOK', NEW p \in Procs, Leave(p),
         \A u \in Holders : suspended[u] => suspended'[u]
  PROVE  BansInv'
<1>1. Shut(Idle)
  BY DEF Shut, Idle
<1> QED BY <1>1, ShutGoto DEF Leave

(* The checks of a bearer: the one step that a barred request takes.       *)
LEMMA BearersShut ==
  ASSUME BansInv, AccountsTypeOK', NEW p \in Procs, Bearers(p)
  PROVE  BansInv'
<1>1. CASE StartBearer(p)
  <2>1. PICK u \in Holders, k \in {"resend", "logout", "remove"} :
          Goto(p, [pc |-> "auth", kind |-> k, user |-> u,
                   barred |-> suspended[u]])
    BY <1>1 DEF StartBearer, Begin
  <2>2. Shut([pc |-> "auth", kind |-> k, user |-> u, barred |-> suspended[u]])
    BY DEF Shut
  <2> QED BY <1>1, <2>1, <2>2, ShutGoto DEF StartBearer, accounts
<1>2. CASE Authenticate(p)
  <2> DEFINE r == req[p]
             n == [pc |-> r.kind, user |-> r.user, barred |-> r.barred]
  <2>1. suspended' = suspended
    BY <1>2 DEF Authenticate, accounts
  <2>2. CASE Leave(p)
    BY <2>1, <2>2, ShutLeave
  <2>3. CASE Goto(p, n) /\ Admits(r.user, r.kind)
    <3>1. r \in Tasks /\ r.pc = "auth"
      BY <1>2 DEF Authenticate, Is, BansInv, AccountsTypeOK
    <3>2. r.barred => suspended[r.user]
      BY <3>1, TaskShape DEF BansInv, BarredAreSuspended
    <3>3. Shut(n)
      BY <2>3, <3>2 DEF Shut, Admits
    <3> QED BY <2>1, <2>3, <3>3, ShutGoto
  <2> QED BY <1>2, <2>2, <2>3 DEF Authenticate
<1>3. CASE RemoveUser(p)
  BY <1>3, ShutLeave DEF RemoveUser
<1>4. CASE Logout(p)
  BY <1>4, ShutLeave DEF Logout, accounts
<1> QED BY <1>1, <1>2, <1>3, <1>4 DEF Bearers

(* Tasks of requests that no ban bars.                                     *)
LEMMA FreeTasksShut ==
  /\ \A u, pc : Shut([pc |-> pc, user |-> u])
  /\ \A m, b : Shut([pc |-> "mail", signUp |-> b, mail |-> m])
  /\ \A w, u, t : Shut([pc |-> w, user |-> u, token |-> t])
  /\ \A pc, u, c, n, k, b :
       Shut([pc |-> pc, user |-> u, client |-> c, since |-> n, seen |-> k,
             kept |-> b])
  BY DEF Shut

LEMMA OthersShut ==
  ASSUME BansInv, AccountsTypeOK', NEW p \in Procs,
         \/ SignUps(p) \/ Posts(p) \/ Answering(p) \/ Grants(p)
         \/ BanUser(p) \/ Cut(p)
  PROVE  BansInv'
<1>1. \A u \in Holders : suspended[u] => suspended'[u]
  BY DEF SignUps, StartSignUp, CreateUser, Posts, SendEmailVerification,
         StartForgot, Forgot, DrawToken, SendEmail, Answering, StartAnswer,
         VerifyEmail, Reset, Grants, StartLogin, StartRenew, CleanUpTokens,
         CreateRefreshToken, BanUser, Suspend, Cut, accounts, BansInv,
         AccountsTypeOK
<1>2. ASSUME NEW u, Welcome(p, u)
      PROVE  BansInv'
  BY <1>1, <1>2, ShutGoto, FreeTasksShut DEF Welcome
<1>3. CASE SignUps(p)
  BY <1>1, <1>3, ShutGoto, FreeTasksShut
     DEF SignUps, StartSignUp, CreateUser, Begin
<1>4. CASE Posts(p)
  <2>1. CASE StartForgot(p)
    BY <1>1, <2>1, ShutGoto, FreeTasksShut DEF StartForgot, Begin
  <2>2. ASSUME NEW w, NEW b, DrawToken(p, w, b)
        PROVE  BansInv'
    BY <1>1, <2>2, ShutGoto, ShutLeave, FreeTasksShut DEF DrawToken
  <2>3. CASE SendEmail(p)
    BY <1>1, <1>2, <2>3, ShutLeave DEF SendEmail
  <2> QED BY <1>4, <2>1, <2>2, <2>3 DEF Posts, SendEmailVerification, Forgot
<1>5. CASE Answering(p)
  <2>1. CASE StartAnswer(p)
    BY <1>1, <2>1, ShutGoto, FreeTasksShut DEF StartAnswer, Begin
  <2>2. CASE VerifyEmail(p)
    BY <1>1, <2>2, ShutLeave DEF VerifyEmail
  <2>3. CASE Reset(p)
    BY <1>1, <1>2, <2>3, ShutLeave DEF Reset
  <2> QED BY <1>5, <2>1, <2>2, <2>3 DEF Answering
<1>6. CASE Grants(p)
  <2>1. CASE StartLogin(p) \/ StartRenew(p)
    BY <1>1, <2>1, ShutGoto, FreeTasksShut DEF StartLogin, StartRenew, Begin
  <2>2. CASE CleanUpTokens(p)
    <3> DEFINE n == [req[p] EXCEPT !.pc = "grant"]
    <3>1. req[p] \in Tasks /\ req[p].pc = "clean"
      BY <2>2 DEF CleanUpTokens, Is, BansInv, AccountsTypeOK
    <3>2. "barred" \notin DOMAIN req[p]
      BY <3>1, TaskShape
    <3>3. DOMAIN n = DOMAIN req[p]
      OBVIOUS
    <3>4. Shut(n)
      BY <3>2, <3>3 DEF Shut
    <3> QED BY <1>1, <2>2, <3>4, ShutGoto DEF CleanUpTokens
  <2>3. CASE CreateRefreshToken(p)
    BY <1>1, <2>3, ShutLeave DEF CreateRefreshToken
  <2> QED BY <1>6, <2>1, <2>2, <2>3 DEF Grants
<1>7. CASE BanUser(p)
  BY <1>1, <1>7, ShutGoto, FreeTasksShut DEF BanUser, Begin
<1>8. CASE Cut(p)
  BY <1>1, <1>8, ShutLeave DEF Cut
<1> QED BY <1>3, <1>4, <1>5, <1>6, <1>7, <1>8

LEMMA BansStep ==
  ASSUME BansInv, AccountsTypeOK', [AccountsNext]_accountVars
  PROVE  BansInv'
<1>1. CASE Expire \/ UNCHANGED accountVars
  BY <1>1 DEF Expire, accountVars, accounts, BansInv, BarredAreSuspended,
              BanShutsOut
<1>2. ASSUME NEW u \in Holders, UnbanUser(u)
      PROVE  BansInv'
  <2>1. ASSUME NEW q \in Procs, "barred" \in DOMAIN req'[q], req'[q].barred
        PROVE  req'[q] = req[q] /\ req[q].user # u
    <3>1. CASE "barred" \in DOMAIN req[q] /\ req[q].user = u
      <4>1. req'[q] = [req[q] EXCEPT !.barred = FALSE]
        BY <1>2, <3>1 DEF UnbanUser
      <4> QED BY <2>1, <3>1, <4>1
    <3>2. CASE ~("barred" \in DOMAIN req[q] /\ req[q].user = u)
      <4>1. req'[q] = req[q]
        BY <1>2, <3>2 DEF UnbanUser
      <4> QED BY <2>1, <3>2, <4>1
    <3> QED BY <3>1, <3>2
  <2>2. \A v \in Holders : v # u => suspended'[v] = suspended[v]
    BY <1>2 DEF UnbanUser, BansInv, AccountsTypeOK
  <2>3. ASSUME NEW q \in Procs, "barred" \in DOMAIN req'[q], req'[q].barred
        PROVE  /\ suspended'[req'[q].user]
               /\ req'[q].pc \in {"auth"} \cup Whitelisted
    <3>1. req'[q] = req[q] /\ req[q].user # u /\ req[q] \in Tasks
      BY <2>1, <2>3 DEF BansInv, AccountsTypeOK
    <3>2. req[q].user \in Holders
      BY <2>3, <3>1, TaskShape
    <3> QED BY <2>2, <2>3, <3>1, <3>2
            DEF BansInv, BarredAreSuspended, BanShutsOut
  <2> QED BY <2>3 DEF BansInv, BarredAreSuspended, BanShutsOut
<1> QED BY <1>1, <1>2, BearersShut, OthersShut DEF AccountsNext

(* A request of a banned user gets past the check only after an unban or   *)
(* at a whitelisted path, although the ban is set and lifted meanwhile     *)
(* (0130-restdone.middleware.ts:43-61, authDelegate.ts:57-78).             *)
THEOREM BanShutsOutAlways == Spec => []BanShutsOut
<1>1. AccountsInit => BansInv
  BY AccountsTypedInit
     DEF AccountsInit, BansInv, BarredAreSuspended, BanShutsOut, Idle
<1>2. BansInv => BanShutsOut
  BY DEF BansInv
<1> QED BY <1>1, <1>2, AccountsTyped, AccessRunsAccounts, BansStep, PTL
        DEF AccountsSpec

-----------------------------------------------------------------------------
(* Resources, and what is shown of contents and profiles                   *)

ResourcesSpec == ResourcesInit /\ [][ResourcesNext]_resourceVars

LEMMA AccessRunsResources == Spec => ResourcesSpec
<1>1. Init => ResourcesInit
  BY DEF Init
<1>2. [Next]_vars => [ResourcesNext]_resourceVars
  BY DEF Next, vars
<1> QED BY <1>1, <1>2, PTL DEF Spec, ResourcesSpec

-----------------------------------------------------------------------------
(* What pre lets through                                                   *)

(* A request before pre, and one that pre let go on.                       *)
Asking ==
  [pc : {"pre"}, user : Users, admin : BOOLEAN, mode : BOOLEAN, action : CRUD,
   named : Anyone, sends : BOOLEAN]
Running ==
  [pc : {"locate", "save", "remove", "answer"}, user : Users, admin : BOOLEAN,
   mode : BOOLEAN, action : CRUD, sends : BOOLEAN, find : SUBSET Anyone,
   write : Anyone, seen : Anyone, read : {"program", "banned", "client"},
   fails : BOOLEAN]

(* Admin mode is for admins, and some paths name a user.                   *)
Asks(r) ==
  /\ r.mode => r.admin
  /\ scene.kind \in NamedByPath => r.named \in Users

(* Who is no admin changes its own documents: what pre lets it locate is   *)
(* its own, or the document that pre read is, or was removed.  What it     *)
(* selects is for it, and it writes no other owner.                        *)
OwnGuard(r, pre) ==
  r.action \in {"update", "delete"} =>
    \/ pre.find \subseteq {r.user}
    \/ doc.owner = r.user
    \/ ~Stored /\ scene.kind # "userConfig"
SelectGuard(r, pre) ==
  r.action = "select" => \A o \in pre.find : r.user \in Readers(o)
WriteGuard(r, pre) ==
  r.action # "select" => pre.write \in {Nobody, r.user}
Guarded(r, pre) ==
  /\ pre.find \subseteq Anyone
  /\ pre.write \in Anyone
  /\ pre.may /\ ~r.admin =>
       OwnGuard(r, pre) /\ SelectGuard(r, pre) /\ WriteGuard(r, pre)

SceneTyped ==
  scene \in [kind : Kinds, keepers : SUBSET Users, target : Anyone]

LEMMA ActionsAreCRUD ==
  ASSUME SceneTyped
  PROVE  Controller.actions \in SUBSET CRUD
  BY DEF SceneTyped, Kinds, Controller, Controllers, CommentController,
         ReportController, FeedbackController, RewardController,
         ReviewController, UserConfigController, BalanceRecordController,
         SystemNotificationController, NotificationController,
         StrikeController, GoalController, MessageController, PhotoController,
         AlbumController, VideoController, LiveStreamController,
         UserController, ChatController, Resource, CRUD

LEMMA KindCases ==
  ASSUME SceneTyped
  PROVE  scene.kind \in
           {"comment", "report", "feedback", "reward", "review", "userConfig",
            "balanceRecord", "systemNotification", "notification", "strike",
            "goal", "message", "photo", "album", "video", "liveStream", "user",
            "chat"}
  BY DEF SceneTyped, Kinds, Controllers

(* Controllers whose pre compares the user of the request.                 *)
LEMMA PersonalGuarded ==
  ASSUME SceneTyped, NEW r \in Asking, Asks(r), doc.owner \in Anyone,
         scene.kind \in {"comment", "report", "feedback", "reward", "review",
                         "userConfig"}
  PROVE  Guarded(r, PreOf(r))
<1> USE UsersAssumption
    DEF Asking, Asks, Guarded, OwnGuard, SelectGuard, WriteGuard, Readers,
        PreOf, Pre, Own, Named, Anyone, Selects, SceneTyped, NamedByPath
<1>1. CASE scene.kind = "comment"
  BY <1>1 DEF CommentPre
<1>2. CASE scene.kind = "report"
  BY <1>2 DEF ReportPre
<1>3. CASE scene.kind = "feedback"
  BY <1>3 DEF FeedbackPre
<1>4. CASE scene.kind = "reward"
  BY <1>4 DEF RewardPre
<1>5. CASE scene.kind = "review"
  BY <1>5 DEF ReviewPre
<1>6. CASE scene.kind = "userConfig"
  BY <1>6 DEF UserConfigPre
<1> QED BY <1>1, <1>2, <1>3, <1>4, <1>5, <1>6

(* Controllers whose documents the program writes, or admins.              *)
LEMMA ProgramGuarded ==
  ASSUME SceneTyped, NEW r \in Asking, Asks(r), doc.owner \in Anyone,
         scene.kind \in {"balanceRecord", "systemNotification", "notification",
                         "strike", "user", "chat"}
  PROVE  Guarded(r, PreOf(r))
<1> USE UsersAssumption
    DEF Asking, Asks, Guarded, OwnGuard, SelectGuard, WriteGuard, Readers,
        PreOf, Pre, Own, Named, Anyone, Selects, NamedOrOwn, SceneTyped,
        NamedByPath
<1>1. CASE scene.kind = "balanceRecord"
  BY <1>1 DEF BalanceRecordPre
<1>2. CASE scene.kind = "systemNotification"
  BY <1>2 DEF SystemNotificationPre
<1>3. CASE scene.kind = "notification"
  BY <1>3 DEF NotificationPre
<1>4. CASE scene.kind = "strike"
  BY <1>4 DEF StrikePre
<1>5. CASE scene.kind = "user"
  BY <1>5 DEF UserPre
<1>6. CASE scene.kind = "chat"
  BY <1>6 DEF ChatPre, ChatConditions
<1> QED BY <1>1, <1>2, <1>3, <1>4, <1>5, <1>6

(* Contents, and what belongs to a parent document.                        *)
LEMMA ContentGuarded ==
  ASSUME SceneTyped, NEW r \in Asking, Asks(r), doc.owner \in Anyone,
         scene.kind \in {"goal", "message", "photo", "album", "video",
                         "liveStream"}
  PROVE  Guarded(r, PreOf(r))
<1> USE UsersAssumption
    DEF Asking, Asks, Guarded, OwnGuard, SelectGuard, WriteGuard, Readers,
        PreOf, Pre, Own, Named, Anyone, Selects, NamedOrOwn, SceneTyped
<1>1. CASE scene.kind = "goal"
  BY <1>1 DEF GoalPre
<1>2. CASE scene.kind = "message"
  BY <1>2 DEF MessagePre
<1>3. CASE scene.kind = "photo"
  BY <1>3 DEF PhotoPre
<1>4. CASE scene.kind = "album"
  BY <1>4 DEF AlbumPre
<1>5. CASE scene.kind = "video"
  BY <1>5 DEF VideoPre
<1>6. CASE scene.kind = "liveStream"
  BY <1>6 DEF LiveStreamPre
<1> QED BY <1>1, <1>2, <1>3, <1>4, <1>5, <1>6

LEMMA PreGuarded ==
  ASSUME SceneTyped, NEW r \in Asking, Asks(r), doc.owner \in Anyone
  PROVE  Guarded(r, PreOf(r))
  BY KindCases, PersonalGuarded, ProgramGuarded, ContentGuarded

(* Whoever sees the documents of an owner does not depend on the owner, or *)
(* the owner sees them.                                                    *)
LEMMA OwnersRead ==
  ASSUME SceneTyped, NEW o \in Anyone, NEW u \in Users, u \in Readers(o)
  PROVE  u \in Readers(u) \/ Readers(u) = Readers(o)
  BY KindCases DEF Readers

-----------------------------------------------------------------------------
(* What holds of every request                                             *)

DocTyped ==
  doc \in [life : {"none", "stored", "removed"}, owner : Anyone,
           system : {"program", "banned", "client"}]

AskingInv(r) ==
  /\ r \in Asking /\ Asks(r)
  /\ r.action \in Controller.actions
  /\ r.action # "insert" => doc.life # "none" \/ scene.kind = "userConfig"

(* What a request of who is no admin may still do.                         *)
OwnRun(r) ==
  /\ r.pc = "locate" /\ r.action \in {"update", "delete"} =>
       r.find \subseteq {r.user} \/ r.seen = r.user \/ doc.life = "removed"
  /\ r.pc = "locate" /\ r.action = "select" =>
       \A o \in r.find : r.user \in Readers(o)
  /\ r.action # "select" => r.write \in {Nobody, r.user}
  /\ r.pc = "remove" \/ (r.pc = "save" /\ r.action = "update") =>
       r.user = r.seen
  /\ r.pc = "answer" =>
       /\ r.user \in Readers(r.seen)
       /\ scene.kind \in Bannable /\ r.read = "banned" => r.user = r.seen

RunningInv(r) ==
  /\ r \in Running
  /\ r.mode => r.admin
  /\ r.action \in Controller.actions
  /\ r.pc = "locate" => r.action # "insert"
  /\ ~r.admin => OwnRun(r)

RequestInv(r) == r = NoRequest \/ AskingInv(r) \/ RunningInv(r)

ResourcesInv ==
  /\ SceneTyped /\ DocTyped
  /\ admins \subseteq Users
  /\ flags \in [Users -> SUBSET BOOLEAN]
  /\ roles \in 0 .. MaxRoles
  /\ request = [p \in Requests |-> request[p]]
  /\ \A p \in Requests : RequestInv(request[p])

LEMMA RequestShape ==
  ASSUME NEW r, RequestInv(r)
  PROVE  /\ r.pc = "none" => r = NoRequest
         /\ r.pc = "pre" => AskingInv(r)
         /\ r.pc \in {"locate", "save", "remove", "answer"} => RunningInv(r)
         /\ r.pc \in {"none", "pre", "locate", "save", "remove", "answer"}
  BY DEF RequestInv, NoRequest, AskingInv, RunningInv, Asking, Running

(* A document is stored once, and a removed one stays removed.             *)
DocMoves ==
  /\ scene' = scene
  /\ doc.life = "removed" => doc'.life = "removed"
  /\ doc.life # "none" => doc'.life # "none"

LEMMA RequestStays ==
  ASSUME DocMoves, NEW r, RequestInv(r)
  PROVE  RequestInv(r)'
<1>1. Controller' = Controller /\ \A o : Readers(o)' = Readers(o)
  BY DEF DocMoves, Controller, Readers
<1>2. CASE r = NoRequest
  BY <1>2 DEF RequestInv
<1>3. CASE AskingInv(r)
  BY <1>1, <1>3 DEF RequestInv, AskingInv, Asks, DocMoves
<1>4. CASE RunningInv(r)
  <2>1. OwnRun(r) => OwnRun(r)'
    BY <1>1 DEF OwnRun, DocMoves
  <2> QED BY <1>1, <1>4, <2>1 DEF RequestInv, RunningInv
<1> QED BY <1>2, <1>3, <1>4 DEF RequestInv

(* One request goes on, and the others are as they were.                   *)
LEMMA BecomeStays ==
  ASSUME ResourcesInv, DocMoves, NEW p \in Requests, NEW r, Become(p, r),
         RequestInv(r)'
  PROVE  /\ (request = [q \in Requests |-> request[q]])'
         /\ (\A q \in Requests : RequestInv(request[q]))'
<1>1. ASSUME NEW q \in Requests
      PROVE  RequestInv(request[q])'
  <2>1. request'[q] = r \/ request'[q] = request[q]
    BY DEF Become, ResourcesInv
  <2>2. CASE request'[q] = r
    BY <2>2 DEF RequestInv, AskingInv, RunningInv, Asks, OwnRun
  <2>3. CASE request'[q] = request[q]
    <3>1. PICK t : t = request[q]
      OBVIOUS
    <3>2. RequestInv(t)
      BY <3>1 DEF ResourcesInv
    <3>3. RequestInv(t)'
      BY <3>2, RequestStays
    <3> QED BY <2>3, <3>1, <3>3 DEF RequestInv, AskingInv, RunningInv, Asks, OwnRun
  <2> QED BY <2>1, <2>2, <2>3
<1>2. request' = [q \in Requests |-> request'[q]]
  BY DEF Become, ResourcesInv
<1> QED BY <1>1, <1>2

LEMMA FinishStays ==
  ASSUME ResourcesInv, DocMoves, NEW p \in Requests, Finish(p)
  PROVE  /\ (request = [q \in Requests |-> request[q]])'
         /\ (\A q \in Requests : RequestInv(request[q]))'
<1>1. RequestInv(NoRequest)'
  BY DEF RequestInv
<1> QED BY <1>1, BecomeStays DEF Finish

LEMMA IdleStays ==
  ASSUME ResourcesInv, DocMoves, UNCHANGED request
  PROVE  /\ (request = [q \in Requests |-> request[q]])'
         /\ (\A q \in Requests : RequestInv(request[q]))'
<1>1. ASSUME NEW q \in Requests
      PROVE  RequestInv(request[q])'
  <2>1. PICK t : t = request[q]
    OBVIOUS
  <2>2. RequestInv(t)
    BY <2>1 DEF ResourcesInv
  <2>3. RequestInv(t)'
    BY <2>2, RequestStays
  <2> QED BY <2>1, <2>3 DEF RequestInv, AskingInv, RunningInv, Asks, OwnRun
<1> QED BY <1>1 DEF ResourcesInv

-----------------------------------------------------------------------------
(* The steps                                                               *)

LEMMA ScopeTyped ==
  ASSUME ResourcesInv, NEW u \in Users, NEW scope \in Scopes(u)
  PROVE  /\ scope.admin \in BOOLEAN /\ scope.mode \in BOOLEAN
         /\ scope.mode => scope.admin
<1>1. CASE scope \in {[admin |-> u \in admins, mode |-> m] :
                         m \in {FALSE, MayUseAdminPath(u)}}
  <2>1. PICK m \in {FALSE, MayUseAdminPath(u)} :
          scope = [admin |-> u \in admins, mode |-> m]
    BY <1>1
  <2>2. CASE u \in admins
    <3>1. m \in BOOLEAN
      BY DEF MayUseAdminPath
    <3>2. (u \in admins) = TRUE
      BY <2>2
    <3>3. scope = [admin |-> TRUE, mode |-> m]
      BY <2>1, <3>2
    <3> QED BY <3>1, <3>3
  <2>3. CASE u \notin admins
    <3>1. m = FALSE
      BY <2>3 DEF MayUseAdminPath
    <3>2. (u \in admins) = FALSE
      BY <2>3
    <3>3. scope = [admin |-> FALSE, mode |-> FALSE]
      BY <2>1, <3>1, <3>2
    <3> QED BY <3>3
  <2> QED BY <2>2, <2>3
<1>2. CASE scope \in {[admin |-> flag, mode |-> FALSE] : flag \in flags[u]}
  <2>1. PICK flag \in flags[u] : scope = [admin |-> flag, mode |-> FALSE]
    BY <1>2
  <2>2. flag \in BOOLEAN
    BY DEF ResourcesInv
  <2> QED BY <2>1, <2>2
<1> QED BY <1>1, <1>2 DEF Scopes

LEMMA ReceiveKeeps ==
  ASSUME ResourcesInv, NEW p \in Requests, Receive(p)
  PROVE  ResourcesInv'
<1>1. UNCHANGED <<doc, scene, admins, flags, roles>>
  BY DEF Receive, Keep
<1>2. DocMoves
  BY <1>1 DEF DocMoves
<1>3. PICK u \in Users, a \in Controller.actions, sends \in BOOLEAN,
           named \in IF scene.kind \in NamedByPath THEN Users ELSE Anyone :
      \E scope \in Scopes(u) :
        /\ a # "insert" => doc.life # "none" \/ scene.kind = "userConfig"
        /\ Become(p, [pc |-> "pre", user |-> u, admin |-> scope.admin,
                      mode |-> scope.mode, action |-> a, named |-> named,
                      sends |-> sends])
  BY DEF Receive
<1>0. PICK scope \in Scopes(u) :
        /\ a # "insert" => doc.life # "none" \/ scene.kind = "userConfig"
        /\ Become(p, [pc |-> "pre", user |-> u, admin |-> scope.admin,
                      mode |-> scope.mode, action |-> a, named |-> named,
                      sends |-> sends])
  BY <1>3
<1> DEFINE r == [pc |-> "pre", user |-> u, admin |-> scope.admin,
                 mode |-> scope.mode, action |-> a, named |-> named,
                 sends |-> sends]
<1>4. /\ scope.admin \in BOOLEAN /\ scope.mode \in BOOLEAN
      /\ scope.mode => scope.admin
  BY ScopeTyped
<1>5. a \in CRUD
  BY ActionsAreCRUD DEF ResourcesInv
<1>6. named \in Anyone /\ (scene.kind \in NamedByPath => named \in Users)
  BY DEF Anyone
<1>7. AskingInv(r)
  BY <1>0, <1>4, <1>5, <1>6 DEF AskingInv, Asking, Asks
<1> HIDE DEF r
<1>8. RequestInv(r)'
  BY <1>2, <1>7, RequestStays DEF RequestInv
<1> QED BY <1>0, <1>1, <1>2, <1>8, BecomeStays
        DEF ResourcesInv, SceneTyped, DocTyped, r

LEMMA PrepareKeeps ==
  ASSUME ResourcesInv, NEW p \in Requests, Prepare(p)
  PROVE  ResourcesInv'
<1>1. UNCHANGED <<doc, scene, admins, flags, roles>>
  BY DEF Prepare, Keep
<1>2. DocMoves
  BY <1>1 DEF DocMoves
<1>3. PICK r : r = request[p] /\ AskingInv(r)
  BY RequestShape DEF ResourcesInv, Prepare, At
<1>4. PICK pre : pre = PreOf(r)
  OBVIOUS
<1>5. Guarded(r, pre)
  BY <1>3, <1>4, PreGuarded DEF AskingInv, ResourcesInv, DocTyped
<1> DEFINE n == [pc |-> IF r.action = "insert" THEN "save" ELSE "locate",
                 user |-> r.user, admin |-> r.admin, mode |-> r.mode,
                 action |-> r.action, sends |-> r.sends,
                 find |-> pre.find, write |-> pre.write,
                 seen |-> doc.owner, read |-> doc.system,
                 fails |-> scene.kind = "message" /\ MessageFails(r)]
<1>6. (Become(p, n) /\ pre.may) \/ Finish(p)
  BY <1>3, <1>4 DEF Prepare
<1>7. ASSUME pre.may
      PROVE  RunningInv(n)
  <2>1. n \in Running
    BY <1>3, <1>5 DEF AskingInv, Asking, Running, Guarded, ResourcesInv, DocTyped,
       MessageFails
  <2>2. ASSUME ~r.admin
        PROVE  OwnRun(n)
    <3>1. OwnGuard(r, pre) /\ SelectGuard(r, pre) /\ WriteGuard(r, pre)
      BY <1>5, <1>7, <2>2 DEF Guarded
    <3>2. ~Stored /\ scene.kind # "userConfig" /\ r.action # "insert" =>
            doc.life = "removed"
      BY <1>3 DEF AskingInv, ResourcesInv, DocTyped, Stored
    <3> QED BY <3>1, <3>2 DEF OwnRun, OwnGuard, SelectGuard, WriteGuard
  <2>3. /\ n.mode => n.admin
        /\ n.action \in Controller.actions
        /\ n.pc = "locate" => n.action # "insert"
    BY <1>3 DEF AskingInv, Asks
  <2> QED BY <2>1, <2>2, <2>3 DEF RunningInv
<1> HIDE DEF n
<1>8. CASE Become(p, n) /\ pre.may
  <2>1. PICK t : t = n /\ RunningInv(t)
    BY <1>7, <1>8
  <2>2. RequestInv(t)'
    BY <1>2, <2>1, RequestStays DEF RequestInv
  <2> QED BY <1>1, <1>2, <1>8, <2>1, <2>2, BecomeStays
          DEF ResourcesInv, SceneTyped, DocTyped
<1>9. CASE Finish(p)
  BY <1>1, <1>2, <1>9, FinishStays DEF ResourcesInv, SceneTyped, DocTyped
<1> QED BY <1>6, <1>8, <1>9

(* What pre let a request locate is found: it is its user's, or for it.    *)
LEMMA LocatedRuns ==
  ASSUME ResourcesInv, NEW r, RunningInv(r), r.pc = "locate",
         Stored, doc.owner \in r.find, Visible(r),
         NEW pc, pc = [update |-> "save", delete |-> "remove",
                       select |-> "answer"][r.action]
  PROVE  RunningInv([r EXCEPT !.pc = pc, !.read = doc.system, !.find = {},
                              !.seen = IF r.user = @ THEN @ ELSE doc.owner])
<1> DEFINE seen == IF r.user = r.seen THEN r.seen ELSE doc.owner
           n == [r EXCEPT !.pc = pc, !.read = doc.system, !.find = {},
                          !.seen = IF r.user = @ THEN @ ELSE doc.owner]
<1>1. r.action \in {"update", "delete", "select"} /\ r \in Running
  BY DEF RunningInv, Running, CRUD
<1>2. /\ pc \in {"save", "remove", "answer"}
      /\ pc = "answer" <=> r.action = "select"
  BY <1>1
<1>3. n \in Running
  BY <1>1, <1>2 DEF Running, ResourcesInv, DocTyped
<1>4. /\ n.pc = pc /\ n.action = r.action /\ n.user = r.user /\ n.seen = seen
      /\ n.read = doc.system /\ n.write = r.write /\ n.admin = r.admin
      /\ n.mode = r.mode
  BY <1>1 DEF Running
<1>5. ASSUME ~r.admin
      PROVE  OwnRun(n)
  <2>1. OwnRun(r)
    BY <1>5 DEF RunningInv
  <2>2. r.action \in {"update", "delete"} => r.user = seen
    BY <2>1 DEF OwnRun, Stored
  <2>3. ASSUME r.action = "select"
        PROVE  /\ r.user \in Readers(seen)
               /\ scene.kind \in Bannable /\ doc.system = "banned" => r.user = seen
    <3>1. r.user \in Readers(doc.owner)
      BY <2>1, <2>3 DEF OwnRun
    <3>2. doc.owner \in Anyone /\ r.user \in Users
      BY <1>1 DEF Running, ResourcesInv, DocTyped
    <3>3. r.user \in Readers(r.user) \/ Readers(r.user) = Readers(doc.owner)
      BY <3>1, <3>2, OwnersRead DEF ResourcesInv
    <3>4. scene.kind \in Bannable /\ doc.system = "banned" => doc.owner = r.user
      BY <1>5 DEF Visible, RunningInv
    <3> QED BY <3>1, <3>3, <3>4
  <2>4. r.action # "select" => r.write \in {Nobody, r.user}
    BY <2>1 DEF OwnRun
  <2> HIDE DEF n, seen
  <2>5. /\ n.pc # "locate"
        /\ n.action # "select" => n.write \in {Nobody, n.user}
    BY <1>2, <1>4, <2>4
  <2>6. n.pc = "remove" \/ (n.pc = "save" /\ n.action = "update") =>
          n.user = n.seen
    BY <1>1, <1>2, <1>4, <2>2
  <2>7. n.pc = "answer" =>
          /\ n.user \in Readers(n.seen)
          /\ scene.kind \in Bannable /\ n.read = "banned" => n.user = n.seen
    BY <1>2, <1>4, <2>3
  <2> QED BY <2>5, <2>6, <2>7 DEF OwnRun
<1> HIDE DEF n
<1>6. /\ n.mode => n.admin
      /\ n.action \in Controller.actions
      /\ n.pc # "locate"
  BY <1>2, <1>4 DEF RunningInv
<1>7. RunningInv(n)
  BY <1>3, <1>4, <1>5, <1>6 DEF RunningInv
<1> QED BY <1>7 DEF n

LEMMA LocateKeeps ==
  ASSUME ResourcesInv, NEW p \in Requests, Locate(p)
  PROVE  ResourcesInv'
<1>1. UNCHANGED <<doc, scene, admins, flags, roles>>
  BY DEF Locate, Keep
<1>2. DocMoves
  BY <1>1 DEF DocMoves
<1>3. PICK r : r = request[p] /\ RunningInv(r) /\ r.pc = "locate"
  BY RequestShape DEF ResourcesInv, Locate, At
<1>4. PICK pc : pc = [update |-> "save", delete |-> "remove",
                      select |-> "answer"][r.action]
  OBVIOUS
<1> DEFINE found == [r EXCEPT !.pc = pc, !.read = doc.system, !.find = {},
                              !.seen = IF r.user = @ THEN @ ELSE doc.owner]
           insert == [r EXCEPT !.pc = "save", !.action = "insert"]
<1>5. \/ Stored /\ doc.owner \in r.find /\ Visible(r) /\ Become(p, found)
      \/ scene.kind = "userConfig" /\ r.action = "update" /\ Become(p, insert)
      \/ Finish(p)
  BY <1>3, <1>4 DEF Locate
<1>6. ASSUME Stored, doc.owner \in r.find, Visible(r), Become(p, found)
      PROVE  ResourcesInv'
  <2>0. RunningInv(found)
    BY <1>3, <1>4, <1>6, LocatedRuns
  <2> HIDE DEF found
  <2>1. PICK t : t = found /\ RunningInv(t)
    BY <2>0
  <2>2. RequestInv(t)'
    BY <1>2, <2>1, RequestStays DEF RequestInv
  <2> QED BY <1>1, <1>2, <1>6, <2>1, <2>2, BecomeStays
          DEF ResourcesInv, SceneTyped, DocTyped
<1>7. ASSUME scene.kind = "userConfig", r.action = "update", Become(p, insert)
      PROVE  ResourcesInv'
  <2>1. insert \in Running
    BY <1>3 DEF RunningInv, Running, CRUD
  <2>2. "insert" \in Controller.actions
    BY <1>7 DEF Controller, Controllers, UserConfigController, Resource, CRUD
  <2>3. RunningInv(insert)
    BY <1>3, <1>7, <2>1, <2>2 DEF RunningInv, OwnRun, Running
  <2> HIDE DEF insert
  <2>4. RequestInv(insert)'
    BY <1>2, <2>3, RequestStays DEF RequestInv
  <2> QED BY <1>1, <1>2, <1>7, <2>4, BecomeStays
          DEF ResourcesInv, SceneTyped, DocTyped
<1>8. CASE Finish(p)
  BY <1>1, <1>2, <1>8, FinishStays DEF ResourcesInv, SceneTyped, DocTyped
<1> QED BY <1>5, <1>6, <1>7, <1>8

LEMMA SaveSteps ==
  ASSUME ResourcesInv, NEW p \in Requests, Save(p), NEW r, r = request[p]
  PROVE  \/ /\ doc.life = "none"
            /\ doc' = [life |-> "stored", owner |-> r.write,
                       system |-> SavedSystem(r)]
         \/ /\ Stored /\ r.action = "update"
            /\ \/ doc' = [doc EXCEPT !.system = SavedSystem(r)]
               \/ /\ r.write # Nobody
                  /\ doc' = [doc EXCEPT !.owner = r.write,
                                        !.system = SavedSystem(r)]
         \/ UNCHANGED doc
<1>1. [doc EXCEPT !.owner = doc.owner, !.system = SavedSystem(r)]
        = [doc EXCEPT !.system = SavedSystem(r)]
  BY DEF ResourcesInv, DocTyped
<1> QED BY <1>1 DEF Save

LEMMA SaveKeeps ==
  ASSUME ResourcesInv, NEW p \in Requests, Save(p)
  PROVE  ResourcesInv'
<1>1. UNCHANGED <<scene, admins, flags, roles>> /\ Finish(p)
  BY DEF Save, Keep
<1>2. PICK r : r = request[p] /\ RunningInv(r)
  BY RequestShape DEF ResourcesInv, Save, At
<1>3. r.write \in Anyone /\ r \in Running
  BY <1>2 DEF RunningInv, Running
<1>4. SavedSystem(r) \in {"program", "banned", "client"}
  BY DEF SavedSystem, ResourcesInv, DocTyped
<1>5. PICK system \in {"program", "banned", "client"} : system = SavedSystem(r)
  BY <1>4
<1>6. doc \in [life : {"none", "stored", "removed"}, owner : Anyone,
               system : {"program", "banned", "client"}]
  BY DEF ResourcesInv, DocTyped
<1>7. CASE doc.life = "none" /\ doc' = [life |-> "stored", owner |-> r.write,
                                        system |-> system]
  BY <1>1, <1>3, <1>7, FinishStays
     DEF DocMoves, DocTyped, Anyone, ResourcesInv, SceneTyped
<1>8. ASSUME NEW owner \in Anyone, Stored,
             doc' = [doc EXCEPT !.owner = owner, !.system = system]
      PROVE  ResourcesInv'
  <2>1. DocMoves /\ DocTyped'
    BY <1>1, <1>6, <1>8 DEF DocMoves, DocTyped, Stored, Anyone
  <2> QED BY <1>1, <2>1, FinishStays DEF ResourcesInv, SceneTyped
<1>9. CASE UNCHANGED doc
  BY <1>1, <1>9, FinishStays DEF DocMoves, DocTyped, ResourcesInv, SceneTyped
<1>10. [doc EXCEPT !.owner = doc.owner, !.system = system]
         = [doc EXCEPT !.system = system] /\ doc.owner \in Anyone
  BY <1>6
<1> QED BY <1>2, <1>3, <1>5, <1>7, <1>8, <1>9, <1>10, SaveSteps

LEMMA ResourcesStep ==
  ASSUME ResourcesInv, [ResourcesNext]_resourceVars
  PROVE  ResourcesInv'
<1>1. ASSUME NEW p \in Requests, Remove(p)
      PROVE  ResourcesInv'
  <2>1. DocMoves /\ DocTyped'
    BY <1>1 DEF Remove, Keep, DocMoves, DocTyped, ResourcesInv, Anyone
  <2> QED BY <1>1, <2>1, FinishStays DEF Remove, Keep, ResourcesInv, SceneTyped
<1>2. ASSUME NEW p \in Requests, Answer(p)
      PROVE  ResourcesInv'
  <2>1. DocMoves
    BY <1>2 DEF Answer, Keep, DocMoves
  <2> QED BY <1>2, <2>1, FinishStays
          DEF Answer, Keep, ResourcesInv, SceneTyped, DocTyped
<1>3. CASE Ban
  <2>1. DocMoves /\ DocTyped'
    BY <1>3 DEF Ban, Keep, DocMoves, DocTyped, ResourcesInv, Anyone
  <2> QED BY <1>3, <2>1, IdleStays DEF Ban, Keep, ResourcesInv, SceneTyped
<1>4. CASE SetRole
  <2>1. DocMoves
    BY <1>4 DEF SetRole, DocMoves
  <2>2. PICK u \in Users :
          /\ admins' = (admins \cup {u}) \ (admins \cap {u})
          /\ flags' = [flags EXCEPT ![u] = @ \cup {u \in admins'}]
    BY <1>4 DEF SetRole
  <2>3. admins' \subseteq Users /\ flags' \in [Users -> SUBSET BOOLEAN]
    BY <2>2 DEF ResourcesInv
  <2>4. roles' \in 0 .. MaxRoles
    BY <1>4, RolesAssumption DEF SetRole, ResourcesInv
  <2> QED BY <1>4, <2>1, <2>3, <2>4, IdleStays
          DEF SetRole, ResourcesInv, SceneTyped, DocTyped
<1>5. CASE UNCHANGED resourceVars
  <2>1. DocMoves
    BY <1>5 DEF resourceVars, DocMoves
  <2> QED BY <1>5, <2>1, IdleStays
          DEF resourceVars, ResourcesInv, SceneTyped, DocTyped
<1> QED BY <1>1, <1>2, <1>3, <1>4, <1>5, ReceiveKeeps, PrepareKeeps, LocateKeeps,
           SaveKeeps DEF ResourcesNext

LEMMA ResourcesStart == ResourcesInit => ResourcesInv
<1> SUFFICES ASSUME ResourcesInit
             PROVE  ResourcesInv
  OBVIOUS
<1>1. SceneTyped /\ DocTyped
  BY DEF ResourcesInit, SceneTyped, DocTyped
<1>2. flags \in [Users -> SUBSET BOOLEAN]
  BY DEF ResourcesInit
<1>3. /\ request = [p \in Requests |-> request[p]]
      /\ \A p \in Requests : RequestInv(request[p])
  BY DEF ResourcesInit, RequestInv
<1> QED BY <1>1, <1>2, <1>3, RolesAssumption DEF ResourcesInit, ResourcesInv

LEMMA ResourcesAlways == Spec => []ResourcesInv
  BY AccessRunsResources, ResourcesStart, ResourcesStep, PTL DEF ResourcesSpec

(* Variables of the resources hold values of their types.                  *)
THEOREM ResourcesTyped == Spec => []ResourcesTypeOK
<1>1. ResourcesInv => ResourcesTypeOK
  <2> SUFFICES ASSUME ResourcesInv
               PROVE  ResourcesTypeOK
    OBVIOUS
  <2>1. ASSUME NEW p \in Requests, NEW r, r = request[p]
        PROVE  /\ r.pc \in {"none", "pre", "locate", "save", "remove", "answer"}
               /\ r.pc # "none" =>
                    /\ r.user \in Users /\ r.action \in Controller.actions
                    /\ r.mode => r.admin
               /\ r.pc \notin {"none", "pre"} =>
                    r.find \subseteq Anyone /\ r.write \in Anyone
    BY <2>1, RequestShape
       DEF ResourcesInv, AskingInv, RunningInv, Asking, Running, Asks
  <2> QED BY <2>1 DEF ResourcesInv, SceneTyped, DocTyped, ResourcesTypeOK, Active
<1> QED BY <1>1, ResourcesAlways, PTL

(* Whatever roles, bans and other requests overlap it, a request that is   *)
(* about to change or remove a document is an admin's or the owner's (pre  *)
(* of the controllers under src/app/controllers/rest).                     *)
THEOREM OwnersOnlyAlways == Spec => []OwnersOnly
<1>1. ResourcesInv => OwnersOnly
  BY RequestShape DEF ResourcesInv, OwnersOnly, RunningInv, OwnRun
<1> QED BY <1>1, ResourcesAlways, PTL

(* Nobody but admins is answered with what is not for them (the conditions *)
(* that pre puts into the params of a select).                             *)
THEOREM PrivateKeptAlways == Spec => []PrivateKept
<1>1. ResourcesInv => PrivateKept
  BY RequestShape DEF ResourcesInv, PrivateKept, RunningInv, OwnRun
<1> QED BY <1>1, ResourcesAlways, PTL

(* Only an admin's request gives a stored document to another owner; the   *)
(* update of its author may take it back (comment.controller.ts:188).      *)
THEOREM OwnerReturnsAlways == Spec => OwnerReturns
<1>1. ASSUME ResourcesInv, [ResourcesNext]_resourceVars, NEW p \in Requests,
             request'[p] # request[p], doc.life = "stored",
             doc'.owner # doc.owner, ~request[p].admin
      PROVE  doc'.owner = request[p].user /\ doc'.owner = request[p].seen
  <2>1. ASSUME NEW q \in Requests, NEW r, Become(q, r)
        PROVE  q = p
    BY <1>1, <2>1 DEF Become, ResourcesInv
  <2>2. ~Ban /\ ~SetRole /\ ~UNCHANGED resourceVars
    BY <1>1 DEF Ban, SetRole, resourceVars
  <2>3. PICK q \in Requests : Save(q) \/ Remove(q)
    BY <1>1, <2>2 DEF ResourcesNext, Receive, Prepare, Locate, Answer
  <2>4. ~Remove(q)
    BY <1>1 DEF Remove, ResourcesInv, DocTyped
  <2>5. Save(p)
    BY <2>1, <2>3, <2>4 DEF Save, Finish
  <2>6. PICK r : r = request[p] /\ RunningInv(r)
    BY <1>1, <2>5, RequestShape DEF ResourcesInv, Save, At
  <2>7. r.pc = "save"
    BY <2>5, <2>6 DEF Save, At
  <2>8. \/ doc' = [doc EXCEPT !.system = SavedSystem(r)] /\ r.action = "update"
        \/ /\ r.action = "update" /\ r.write # Nobody
           /\ doc' = [doc EXCEPT !.owner = r.write, !.system = SavedSystem(r)]
    BY <1>1, <2>5, <2>6, SaveSteps
  <2>9. /\ r.action = "update" /\ r.write # Nobody
        /\ doc'.owner = r.write
    BY <1>1, <2>8 DEF ResourcesInv, DocTyped
  <2> QED BY <1>1, <2>6, <2>7, <2>9 DEF RunningInv, OwnRun
<1>2. ResourcesInv /\ [ResourcesNext]_resourceVars
        => [\A p \in Requests :
              /\ request'[p] # request[p]
              /\ doc.life = "stored" /\ doc'.owner # doc.owner
              => request[p].admin
                 \/ (doc'.owner = request[p].user
                       /\ doc'.owner = request[p].seen)]_resourceVars
  BY <1>1
<1> QED BY <1>2, ResourcesAlways, AccessRunsResources, PTL
        DEF ResourcesSpec, OwnerReturns
-----------------------------------------------------------------------------
(* What selects answer of contents and profiles                            *)

ViewingSpec == (ViewingInit \/ NoViewing) /\ [][ViewingNext]_viewingVars

LEMMA AccessRunsViewing == Spec => ViewingSpec
<1>1. Init => ViewingInit \/ NoViewing
  BY DEF Init
<1>2. [Next]_vars => [ViewingNext]_viewingVars
  BY DEF Next, vars
<1> QED BY <1>1, <1>2, PTL DEF Spec, ViewingSpec

KindKnown == content.kind \in {"photo", "video", "liveStream"}

(* The user that a select read: what it holds was paid, and holds what it  *)
(* was due.                                                                *)
Holds(v) ==
  /\ \A c \in v.subscriptions : c \in Makers /\ <<v.user, c>> \in paid
  /\ \A t \in v.purchases : t \in Things /\ <<v.user, t>> \in paid
  /\ \A x \in v.due : x[2] \in v.subscriptions \cup v.purchases

AnsweredAsPaid(v) ==
  /\ v.shown => v.user = v.owner
                  \/ \E x \in paid : x[1] = v.user /\ PaysFor(v, x[2])
  /\ (\E x \in v.due : PaysFor(v, x[2])) => v.shown

ViewInv(v) ==
  /\ v.pc \in {"find", "populate"} => Holds(v)
  /\ v.pc = "populate" =>
       /\ v.owner \in Makers /\ v.album \in Folders
       /\ v = [pc |-> "populate", user |-> v.user, due |-> v.due,
               subscriptions |-> v.subscriptions, purchases |-> v.purchases,
               owner |-> v.owner, album |-> v.album]
  /\ v.pc \in {"populate", "content"} => KindKnown
  /\ v.pc = "content" => AnsweredAsPaid(v)
  /\ v.pc = "profile" => v.shown \ {"username"} \subseteq v.allowed

ViewingInv ==
  /\ content.life = "stored" =>
       KindKnown /\ content.owner \in Makers /\ content.album \in Folders
  /\ folders \subseteq Folders
  /\ fans \subseteq (Viewers \X Makers) \cap paid
  /\ unlocked \subseteq (Viewers \X Things) \cap paid
  /\ active \subseteq fans
  /\ view = [p \in Views |-> view[p]]
  /\ \A p \in Views : ViewInv(view[p])

(* What was paid stays paid, and a content is of one kind.                 *)
PaidGrows ==
  /\ paid \subseteq paid'
  /\ KindKnown => content'.kind = content.kind

LEMMA ViewStays ==
  ASSUME PaidGrows, NEW v, ViewInv(v)
  PROVE  ViewInv(v)'
<1>1. Holds(v) => Holds(v)'
  BY DEF Holds, PaidGrows
<1>2. KindKnown => KindKnown'
  BY DEF KindKnown, PaidGrows
<1>3. KindKnown /\ AnsweredAsPaid(v) => AnsweredAsPaid(v)'
  BY DEF AnsweredAsPaid, PaysFor, PaidGrows
<1> QED BY <1>1, <1>2, <1>3 DEF ViewInv

LEMMA ViewsStay ==
  ASSUME ViewingInv, PaidGrows, UNCHANGED view
  PROVE  (\A q \in Views : ViewInv(view[q]))'
<1>1. ASSUME NEW q \in Views
      PROVE  ViewInv(view[q])'
  <2>1. PICK v : v = view[q] /\ ViewInv(v)
    BY DEF ViewingInv
  <2>2. ViewInv(v)'
    BY <2>1, ViewStays
  <2> QED BY <2>1, <2>2
       DEF ViewInv, Holds, AnsweredAsPaid, PaysFor, KindKnown
<1> QED BY <1>1

(* A select that goes on; nothing else happens.                            *)
LEMMA ViewGoesOnKeeps ==
  ASSUME ViewingInv, Apart, NEW p \in Views, NEW v, ViewInv(v), ViewGoesOn(p, v)
  PROVE  ViewingInv'
<1>1. PaidGrows
  BY DEF Apart, PaidGrows
<1>2. ViewInv(v)'
  BY <1>1, ViewStays
<1>3. ASSUME NEW q \in Views
      PROVE  ViewInv(view[q])'
  <2>1. view'[q] = v \/ view'[q] = view[q]
    BY DEF ViewGoesOn, ViewingInv
  <2>2. CASE view'[q] = v
    BY <1>2, <2>2 DEF ViewInv, Holds, AnsweredAsPaid, PaysFor, KindKnown
  <2>3. CASE view'[q] = view[q]
    <3>1. PICK t : t = view[q] /\ ViewInv(t)
      BY DEF ViewingInv
    <3>2. ViewInv(t)'
      BY <1>1, <3>1, ViewStays
    <3> QED BY <2>3, <3>1, <3>2
         DEF ViewInv, Holds, AnsweredAsPaid, PaysFor, KindKnown
  <2> QED BY <2>1, <2>2, <2>3
<1>4. view' = [q \in Views |-> view'[q]]
  BY DEF ViewGoesOn, ViewingInv
<1> QED BY <1>3, <1>4 DEF Apart, subscribing, ViewingInv, KindKnown

LEMMA AuthenticateViewerKeeps ==
  ASSUME ViewingInv, NEW p \in Views, AuthenticateViewer(p)
  PROVE  ViewingInv'
<1>1. PICK u \in Viewers :
        ViewGoesOn(p, [pc |-> "find", user |-> u, due |-> Due(u),
                       subscriptions |-> {x[2] : x \in {y \in fans : y[1] = u}},
                       purchases |-> {x[2] : x \in {y \in unlocked : y[1] = u}}])
  BY DEF AuthenticateViewer
<1> DEFINE v == [pc |-> "find", user |-> u, due |-> Due(u),
                 subscriptions |-> {x[2] : x \in {y \in fans : y[1] = u}},
                 purchases |-> {x[2] : x \in {y \in unlocked : y[1] = u}}]
<1>2. \A c \in v.subscriptions : c \in Makers /\ <<u, c>> \in paid
  BY DEF ViewingInv
<1>3. \A t \in v.purchases : t \in Things /\ <<u, t>> \in paid
  BY DEF ViewingInv
<1>4. \A x \in v.due : x[2] \in v.subscriptions \cup v.purchases
  BY DEF ViewingInv, Due
<1>5. Holds(v)
  BY <1>2, <1>3, <1>4 DEF Holds
<1>6. ViewInv(v)
  BY <1>5 DEF ViewInv
<1> QED BY <1>1, <1>6, ViewGoesOnKeeps DEF AuthenticateViewer

LEMMA FindContentKeeps ==
  ASSUME ViewingInv, NEW p \in Views, FindContent(p)
  PROVE  ViewingInv'
<1> DEFINE v == view[p]
           n == [pc |-> "populate", user |-> v.user, due |-> v.due,
                 subscriptions |-> v.subscriptions, purchases |-> v.purchases,
                 owner |-> content.owner, album |-> content.album]
<1>1. Holds(v)
  BY DEF ViewingInv, ViewInv, FindContent, ViewAt
<1>2. Holds(n)
  BY <1>1 DEF Holds
<1>3. content.life = "stored" => ViewInv(n)
  BY <1>2 DEF ViewInv, ViewingInv
<1>4. ViewInv(NoView)
  BY DEF ViewInv, NoView
<1>5. Apart
  BY DEF FindContent
<1> HIDE DEF n
<1>6. \/ content.life = "stored" /\ ViewGoesOn(p, n)
      \/ ViewGoesOn(p, NoView)
  BY DEF FindContent, n
<1> QED BY <1>3, <1>4, <1>5, <1>6, ViewGoesOnKeeps

(* The rule that is applied agrees with what was paid: a thing that was    *)
(* bought is no user, and a removed album is no thing.                     *)
LEMMA RuleAsPaid ==
  ASSUME KindKnown, NEW v, Holds(v), v.owner \in Makers,
         v.album \in Folders \cup {"removed"}
  PROVE  /\ UrlShown(v) =>
              v.user = v.owner
                \/ \E x \in paid : x[1] = v.user /\ PaysFor(v, x[2])
         /\ (\E x \in v.due : PaysFor(v, x[2])) => UrlShown(v)
<1>1. v.owner \in v.subscriptions =>
        \E x \in paid : x[1] = v.user /\ PaysFor(v, x[2])
  BY DEF Holds, PaysFor
<1>2. ASSUME NEW t \in v.purchases, PaysFor(v, t)
      PROVE  \E x \in paid : x[1] = v.user /\ PaysFor(v, x[2])
  BY <1>2 DEF Holds
<1>3. ASSUME NEW x \in v.due, x[2] = v.owner
      PROVE  v.owner \in v.subscriptions
  BY <1>3, ThingsAssumption DEF Holds
<1>4. ASSUME NEW x \in v.due, x[2] \in Things
      PROVE  x[2] \in v.purchases
  BY <1>4, ThingsAssumption DEF Holds
<1>5. CASE content.kind = "photo"
  <2>1. UrlShown(v) <=> PhotoShown(v)
    BY <1>5 DEF UrlShown
  <2>2. \A x : PaysFor(v, x) <=> x = v.owner \/ x = Album(v.album)
    BY <1>5 DEF PaysFor
  <2>3. ASSUME NEW x \in v.due, x[2] = Album(v.album)
        PROVE  v.album \in Folders /\ Album(v.album) \in v.purchases
    <3>1. x[2] \in v.subscriptions \cup v.purchases /\ x[2] \notin Makers
      BY <2>3, ThingsAssumption DEF Holds, Things
    <3>2. x[2] \in v.purchases /\ x[2] \in Things
      BY <3>1 DEF Holds
    <3>3. x[2] # Content
      BY <2>3 DEF Album, Content
    <3>4. PICK f \in Folders : x[2] = Album(f)
      BY <3>2, <3>3 DEF Things
    <3>5. f = v.album
      BY <2>3, <3>4 DEF Album
    <3> QED BY <2>3, <3>2, <3>5
  <2> QED BY <1>1, <1>2, <1>3, <2>1, <2>2, <2>3
          DEF PhotoShown, IsSubscribedTo, HasPurchasedContent
<1>6. CASE content.kind # "photo"
  <2>1. UrlShown(v) <=> IsSubscribedTo(v, v.owner) \/ HasPurchasedContent(v, Content)
    BY <1>6 DEF UrlShown, VideoShown, LiveStreamShown, KindKnown
  <2>2. \A x : PaysFor(v, x) <=> x = v.owner \/ x = Content
    BY <1>6 DEF PaysFor
  <2>3. Content \in Things
    BY DEF Things
  <2> QED BY <1>1, <1>2, <1>3, <1>4, <2>1, <2>2, <2>3
          DEF IsSubscribedTo, HasPurchasedContent
<1> QED BY <1>5, <1>6

LEMMA AnswerContentKeeps ==
  ASSUME ViewingInv, NEW p \in Views, AnswerContent(p)
  PROVE  ViewingInv'
<1>1. PICK v : v = [view[p] EXCEPT !.album = IF @ \in folders THEN @ ELSE "removed"]
  OBVIOUS
<1>2. ViewInv(view[p]) /\ view[p].pc = "populate"
  BY DEF ViewingInv, AnswerContent, ViewAt
<1>3. KindKnown
  BY <1>2 DEF ViewInv
<1>4. /\ Holds(v) /\ v.owner \in Makers
      /\ v.album \in Folders \cup {"removed"}
  <2>1. PICK w : w = view[p] /\ ViewInv(w) /\ w.pc = "populate"
    BY <1>2
  <2>2. /\ w = [pc |-> "populate", user |-> w.user, due |-> w.due,
               subscriptions |-> w.subscriptions, purchases |-> w.purchases,
               owner |-> w.owner, album |-> w.album]
        /\ Holds(w) /\ w.owner \in Makers /\ w.album \in Folders
    BY <2>1 DEF ViewInv
  <2>3. v = [w EXCEPT !.album = IF w.album \in folders THEN w.album
                                                       ELSE "removed"]
    BY <1>1, <2>1
  <2>4. /\ v.user = w.user /\ v.due = w.due /\ v.owner = w.owner
        /\ v.subscriptions = w.subscriptions /\ v.purchases = w.purchases
        /\ v.album \in {w.album, "removed"}
    BY <2>2, <2>3
  <2> QED BY <2>2, <2>4 DEF Holds
<1> DEFINE n == [pc |-> "content", user |-> v.user, due |-> v.due,
                 owner |-> v.owner, album |-> v.album, shown |-> UrlShown(v)]
<1>5. AnsweredAsPaid(n)
  BY <1>3, <1>4, RuleAsPaid DEF AnsweredAsPaid, PaysFor
<1>6. ViewInv(n)
  BY <1>3, <1>5 DEF ViewInv
<1> HIDE DEF n
<1>7. ViewGoesOn(p, n) /\ Apart
  BY <1>1 DEF AnswerContent, n
<1> QED BY <1>6, <1>7, ViewGoesOnKeeps

LEMMA AnswerProfileKeeps ==
  ASSUME ViewingInv, NEW p \in Views, AnswerProfile(p)
  PROVE  ViewingInv'
<1> DEFINE n == [pc |-> "profile", shown |-> ProfileShown(profile),
                 allowed |-> profile]
<1>1. ProfileShown(profile) \ {"username"} \subseteq profile
  BY DEF ProfileShown, FetchingFields, BasePublicFields, ExtraPublicFields,
         PublicFlags
<1>2. ViewInv(n)
  BY <1>1 DEF ViewInv
<1> HIDE DEF n
<1>3. ViewGoesOn(p, n) /\ Apart
  BY DEF AnswerProfile, n
<1> QED BY <1>2, <1>3, ViewGoesOnKeeps

LEMMA EventKeeps ==
  ASSUME ViewingInv,
         \/ \E u \in Viewers, c \in Makers :
              PullFormer(u, c) \/ PushNew(u, c) \/ CancelActive(u, c)
         \/ \E u \in Viewers, thing \in Things : Unlock(u, thing)
         \/ MoveContent
         \/ \E f \in Folders : RemoveFolder(f)
         \/ SetProfile
  PROVE  ViewingInv'
<1> USE DEF ViewingInv, KindKnown, PaidGrows, Happens, subscribing
<1>1. ASSUME NEW u \in Viewers, NEW c \in Makers,
             PullFormer(u, c) \/ PushNew(u, c) \/ CancelActive(u, c)
      PROVE  ViewingInv'
  <2>1. PaidGrows /\ UNCHANGED view
    BY <1>1 DEF PullFormer, PushNew, CancelActive
  <2>2. (\A q \in Views : ViewInv(view[q]))'
    BY <2>1, ViewsStay
  <2>3. CASE PullFormer(u, c)
    BY <2>1, <2>2, <2>3 DEF PullFormer
  <2>4. CASE PushNew(u, c)
    BY <2>1, <2>2, <2>4 DEF PushNew
  <2>5. CASE CancelActive(u, c)
    BY <2>1, <2>2, <2>5 DEF CancelActive
  <2> QED BY <1>1, <2>3, <2>4, <2>5
<1>2. ASSUME NEW u \in Viewers, NEW thing \in Things, Unlock(u, thing)
      PROVE  ViewingInv'
  <2>1. PaidGrows /\ UNCHANGED view
    BY <1>2 DEF Unlock
  <2>2. (\A q \in Views : ViewInv(view[q]))'
    BY <2>1, ViewsStay
  <2> QED BY <1>2, <2>1, <2>2 DEF Unlock
<1>3. CASE MoveContent
  <2>1. PaidGrows /\ UNCHANGED view
    BY <1>3 DEF MoveContent
  <2>2. (\A q \in Views : ViewInv(view[q]))'
    BY <2>1, ViewsStay
  <2> QED BY <1>3, <2>1, <2>2 DEF MoveContent
<1>4. ASSUME NEW f \in Folders, RemoveFolder(f)
      PROVE  ViewingInv'
  <2>1. PaidGrows /\ UNCHANGED view
    BY <1>4 DEF RemoveFolder
  <2>2. (\A q \in Views : ViewInv(view[q]))'
    BY <2>1, ViewsStay
  <2> QED BY <1>4, <2>1, <2>2 DEF RemoveFolder
<1>5. CASE SetProfile
  <2>1. PaidGrows /\ UNCHANGED view
    BY <1>5 DEF SetProfile
  <2>2. (\A q \in Views : ViewInv(view[q]))'
    BY <2>1, ViewsStay
  <2> QED BY <1>5, <2>1, <2>2 DEF SetProfile
<1> QED BY <1>1, <1>2, <1>3, <1>4, <1>5

LEMMA ViewingStep ==
  ASSUME ViewingInv, [ViewingNext]_viewingVars
  PROVE  ViewingInv'
<1>1. ASSUME NEW p \in Views, CloseView(p)
      PROVE  ViewingInv'
  <2>1. ViewInv(NoView)
    BY DEF ViewInv, NoView
  <2> QED BY <1>1, <2>1, ViewGoesOnKeeps DEF CloseView
<1>2. CASE UNCHANGED viewingVars
  <2>1. PaidGrows
    BY <1>2 DEF viewingVars, PaidGrows
  <2>2. (\A q \in Views : ViewInv(view[q]))'
    BY <1>2, <2>1, ViewsStay DEF viewingVars
  <2> QED BY <1>2, <2>2 DEF viewingVars, subscribing, ViewingInv, KindKnown
<1> QED BY <1>1, <1>2, AuthenticateViewerKeeps, FindContentKeeps,
           AnswerContentKeeps, AnswerProfileKeeps, EventKeeps DEF ViewingNext

LEMMA ViewingStart == ViewingInit \/ NoViewing => ViewingInv
  BY DEF ViewingInit, NoViewing, NothingPaid, ViewingInv, KindKnown, ViewInv,
         NoView

(* However subscriptions, purchases, owners and albums change while a      *)
(* select reads them, whoever is shown a content paid for it, and whoever  *)
(* paid is shown it (photo.controller.ts:598-621).                         *)
THEOREM ShownAsPaidAlways == Spec => []ShownAsPaid
<1>1. ViewingInv => ShownAsPaid
  BY DEF ViewingInv, ViewInv, AnsweredAsPaid, ShownAsPaid
<1> QED BY <1>1, AccessRunsViewing, ViewingStart, ViewingStep, PTL DEF ViewingSpec
=============================================================================
