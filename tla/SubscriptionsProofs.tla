-------------------------- MODULE SubscriptionsProofs -------------------------
(***************************************************************************)
(* Theorems about module Subscriptions, for any users, sales, prices,      *)
(* processes and bounds: the list of a fan, its counters and the           *)
(* subscribers of the creators agree as soon as the webhooks of the fan    *)
(* are over, if they come one after the other.                             *)
(*                                                                         *)
(* A call holds what it read or counted.  No other call is about the same  *)
(* fan, so the list of the fan is still as it was, and calls about other   *)
(* fans change other members of the subscribers of a creator.              *)
(***************************************************************************)
EXTENDS SubscriptionsProperties, FiniteSetTheorems, WellFoundedInduction, TLAPS

-----------------------------------------------------------------------------
(* What $pull leaves                                                       *)

LEMMA NaturalsInduct ==
  ASSUME NEW T, T \subseteq Nat, 0 \in T, \A n \in T : n + 1 \in T
  PROVE  T = Nat
<1> DEFINE Bad == Nat \ T
<1> SUFFICES ASSUME Bad # {} PROVE FALSE
  OBVIOUS
<1>1. Bad \subseteq Nat
  OBVIOUS
<1> HIDE DEF Bad
<1>2. \E n \in Bad : \A m \in Bad : ~ (<<m, n>> \in OpToRel(<, Nat))
  BY <1>1, WFMin, NatLessThanWellFounded
<1>3. PICK n \in Bad : \A m \in Bad : ~ (<<m, n>> \in OpToRel(<, Nat))
  BY <1>2
<1>4. \A m \in Bad : ~ (m < n)
  BY <1>1, <1>3 DEF OpToRel
<1>5. n \in Nat /\ n # 0
  BY DEF Bad
<1>6. n - 1 \in Nat /\ n - 1 < n /\ (n - 1) + 1 = n
  BY <1>5
<1>7. n - 1 \in T
  BY <1>4, <1>6 DEF Bad
<1> QED BY <1>6, <1>7 DEF Bad

LeftAt(c, seq, left, n) ==
  IF n = 0 THEN <<>>
  ELSE IF Creator[seq[n].sale] = c THEN left[n - 1]
  ELSE Append(left[n - 1], seq[n])
Leaves(c, seq, k, left) == left = [n \in 0 .. k |-> LeftAt(c, seq, left, n)]
Left(c, seq, k) == CHOOSE left : Leaves(c, seq, k, left)

LEMMA WithoutIsLeft ==
  \A c, seq : Without(c, seq) = Left(c, seq, Len(seq))[Len(seq)]
  BY DEF Without, Left, Leaves, LeftAt

(* The recursive function exists.                                          *)
LEMMA LeftExists ==
  ASSUME NEW c, NEW seq, NEW k \in Nat
  PROVE  \E left : Leaves(c, seq, k, left)
<1> DEFINE T == {n \in Nat : \E left : Leaves(c, seq, n, left)}
<1>1. 0 \in T
  <2> DEFINE left == [n \in 0 .. 0 |-> <<>>]
  <2>1. Leaves(c, seq, 0, left)
    BY DEF Leaves, LeftAt
  <2> HIDE DEF left
  <2> QED BY <2>1
<1>2. ASSUME NEW n \in T
      PROVE  n + 1 \in T
  <2>1. PICK left : Leaves(c, seq, n, left)
    OBVIOUS
  <2> DEFINE more == [i \in 0 .. n + 1 |->
                        IF i = n + 1 THEN LeftAt(c, seq, left, i) ELSE left[i]]
  <2>2. \A i \in 0 .. n : left[i] = LeftAt(c, seq, left, i)
    BY <2>1 DEF Leaves
  <2>3. \A i \in 0 .. n + 1 : LeftAt(c, seq, more, i) = LeftAt(c, seq, left, i)
    <3>1. \A i \in 0 .. n + 1 : i # 0 => i - 1 \in 0 .. n
      OBVIOUS
    <3>2. \A i \in 0 .. n : more[i] = left[i]
      OBVIOUS
    <3> HIDE DEF more
    <3> QED BY <3>1, <3>2 DEF LeftAt
  <2>4. \A i \in 0 .. n + 1 : more[i] = LeftAt(c, seq, left, i)
    <3>1. \A i \in 0 .. n + 1 : i # n + 1 => i \in 0 .. n
      OBVIOUS
    <3> QED BY <2>2, <3>1
  <2>5. more = [i \in 0 .. n + 1 |-> more[i]]
    OBVIOUS
  <2> HIDE DEF more
  <2>6. Leaves(c, seq, n + 1, more)
    BY <2>3, <2>4, <2>5 DEF Leaves
  <2> QED BY <2>6
<1>3. T \subseteq Nat
  OBVIOUS
<1> HIDE DEF T
<1>4. T = Nat
  BY <1>1, <1>2, <1>3, NaturalsInduct
<1> QED BY <1>4 DEF T

(* The subscriptions to others than c among the first n of seq.            *)
Others(c, seq, n) == {seq[i] : i \in {j \in 1 .. n : Creator[seq[j].sale] # c}}
Elements(seq) == {seq[i] : i \in DOMAIN seq}
Single(seq) ==
  \A i, k \in DOMAIN seq :
    Creator[seq[i].sale] = Creator[seq[k].sale] => i = k

LEMMA AppendIs ==
  ASSUME NEW seq \in Seq(Subscription), NEW x \in Subscription
  PROVE  /\ Append(seq, x) \in Seq(Subscription)
         /\ Elements(Append(seq, x)) = Elements(seq) \cup {x}
         /\ Single(seq)
            /\ (\A y \in Elements(seq) : Creator[y.sale] # Creator[x.sale])
              => Single(Append(seq, x))
<1> DEFINE more == Append(seq, x)
<1>1. /\ more \in Seq(Subscription) /\ Len(more) = Len(seq) + 1
      /\ \A i \in 1 .. Len(seq) : more[i] = seq[i]
      /\ more[Len(seq) + 1] = x
      /\ DOMAIN more = 1 .. Len(seq) + 1 /\ DOMAIN seq = 1 .. Len(seq)
      /\ Len(seq) \in Nat
  OBVIOUS
<1> HIDE DEF more
<1>2. DOMAIN more = DOMAIN seq \cup {Len(seq) + 1}
  BY <1>1
<1>3. Elements(more) = Elements(seq) \cup {x}
  BY <1>1, <1>2 DEF Elements
<1>4. ASSUME Single(seq), \A y \in Elements(seq) : Creator[y.sale] # Creator[x.sale]
      PROVE  Single(more)
  BY <1>1, <1>2, <1>4 DEF Elements, Single
<1> QED BY <1>1, <1>3, <1>4 DEF more

(* What is left is a list of exactly the subscriptions to others, with no  *)
(* two to one creator if there were none.                                  *)
LEMMA WithoutIs ==
  ASSUME NEW c, NEW seq \in Seq(Subscription)
  PROVE  /\ Without(c, seq) \in Seq(Subscription)
         /\ Elements(Without(c, seq)) = {x \in Elements(seq) : Creator[x.sale] # c}
         /\ Single(seq) => Single(Without(c, seq))
<1> DEFINE L == Len(seq)
           left == Left(c, seq, L)
           Good(n) == /\ left[n] \in Seq(Subscription)
                      /\ Elements(left[n]) = Others(c, seq, n)
                      /\ Single(seq) => Single(left[n])
           T == {n \in Nat : n <= L => Good(n)}
<1>1. L \in Nat /\ DOMAIN seq = 1 .. L /\ \A i \in 1 .. L : seq[i] \in Subscription
  OBVIOUS
<1>2. \A n \in 0 .. L : left[n] = LeftAt(c, seq, left, n)
  <2>1. Leaves(c, seq, L, left)
    BY <1>1, LeftExists DEF Left
  <2> HIDE DEF left, L
  <2> QED BY <2>1 DEF Leaves
<1> HIDE DEF L, left
<1>3. 0 \in T
  <2>1. left[0] = <<>>
    BY <1>1, <1>2 DEF LeftAt
  <2>2. Others(c, seq, 0) = {}
    BY DEF Others
  <2>3. <<>> \in Seq(Subscription) /\ Elements(<<>>) = {} /\ Single(<<>>)
    BY DEF Elements, Single
  <2>4. Good(0)
    BY <2>1, <2>2, <2>3
  <2> HIDE DEF Good
  <2> QED BY <2>4
<1>4. ASSUME NEW n \in T
      PROVE  n + 1 \in T
  <2> SUFFICES ASSUME n + 1 <= L
               PROVE  Good(n + 1)
    OBVIOUS
  <2>1. n \in Nat /\ n <= L /\ n + 1 \in 1 .. L /\ n + 1 \in 0 .. L
    BY <1>1
  <2>2. Good(n)
    BY <2>1
  <2> DEFINE x == seq[n + 1]
  <2>3. x \in Subscription
    BY <1>1, <2>1
  <2>4. left[n + 1] = IF Creator[x.sale] = c THEN left[n] ELSE Append(left[n], x)
    BY <1>2, <2>1 DEF LeftAt
  <2>5. Others(c, seq, n + 1) =
          IF Creator[x.sale] = c THEN Others(c, seq, n)
                                 ELSE Others(c, seq, n) \cup {x}
    <3>1. 1 .. n + 1 = 1 .. n \cup {n + 1}
      BY <2>1
    <3> QED BY <3>1 DEF Others
  <2>6. CASE Creator[x.sale] = c
    BY <2>2, <2>4, <2>5, <2>6
  <2>7. CASE Creator[x.sale] # c
    <3>1. ASSUME Single(seq), NEW y \in Elements(left[n])
          PROVE  Creator[y.sale] # Creator[x.sale]
      <4>1. PICK i \in 1 .. n : y = seq[i]
        BY <2>2, <3>1 DEF Others
      <4>2. i \in DOMAIN seq /\ n + 1 \in DOMAIN seq /\ i # n + 1
        BY <1>1, <2>1
      <4> QED BY <3>1, <4>1, <4>2 DEF Single
    <3> DEFINE now == left[n]
    <3>2. now \in Seq(Subscription)
      BY <2>2
    <3>3. left[n + 1] = Append(now, x)
      BY <2>4, <2>7
    <3> HIDE DEF now, x
    <3>4. /\ left[n + 1] \in Seq(Subscription)
          /\ Elements(left[n + 1]) = Elements(now) \cup {x}
          /\ Single(now) /\ (\A y \in Elements(now) : Creator[y.sale] # Creator[x.sale])
               => Single(left[n + 1])
      BY <2>3, <3>2, <3>3, AppendIs
    <3>5. Single(seq) => Single(left[n + 1])
      BY <2>2, <3>1, <3>4 DEF now
    <3> QED BY <2>2, <2>5, <2>7, <3>4, <3>5 DEF now, x
  <2> QED BY <2>6, <2>7
<1>5. L \in T
  <2>1. T \subseteq Nat
    OBVIOUS
  <2> HIDE DEF T
  <2>2. T = Nat
    BY <1>3, <1>4, <2>1, NaturalsInduct
  <2> QED BY <1>1, <2>2
<1>6. Good(L)
  BY <1>1, <1>5
<1>7. Without(c, seq) = left[L]
  BY WithoutIsLeft DEF left, L
<1>8. Others(c, seq, L) = {x \in Elements(seq) : Creator[x.sale] # c}
  BY <1>1 DEF Others, Elements
<1> QED BY <1>6, <1>7, <1>8

-----------------------------------------------------------------------------
(* The invariant                                                           *)

(* The webhooks of a fan come one after the other.                         *)
FansServedApart ==
  \A p, q \in Procs : \A s \in Serves[p], t \in Serves[q] :
    Fan[s] = Fan[t] => p = q

Steps == {"pull", "push", "count", "setCounters", "save", "pullSubscriber"}

CallsServed ==
  \A p \in Procs : ~Idle(p) =>
    /\ job[p].sale \in Serves[p] \cap sold
    /\ job[p].pc \in {"pull", "push", "save"} => job[p].sells
    /\ job[p].pc = "pullSubscriber" => ~job[p].sells

(* What a call read, counted or changed is still so.                       *)
HoldsTrue(p) ==
  LET j == job[p]
      u == Fan[j.sale]
      c == Creator[j.sale]
  IN
    /\ j.pc = "push" => \A x \in Subscriptions(u) : Creator[x.sale] # c
    /\ j.pc = "setCounters" =>
         /\ j.all = Len(subscriptions[u])
         /\ j.active = Cardinality(Active(subscriptions[u]))
    /\ j.sells =>
         /\ j.pc \in {"count", "setCounters", "save"} => SubscribedTo(u, c)
         /\ u \in j.read => u \in subscribers[c]
    /\ ~j.sells => ~SubscribedTo(u, c)

About(p, u) == ~Idle(p) /\ Fan[job[p].sale] = u

Counted(u) ==
  /\ counter[u] = Len(subscriptions[u])
  /\ activeCounter[u] = Cardinality(Active(subscriptions[u]))
Listed(u, c) == u \in subscribers[c] <=> SubscribedTo(u, c)

(* A call about u leaves its counters wrong until it sets them, and        *)
(* disturbs no creator but its own.                                        *)
FanAgrees(u) ==
  /\ Single(subscriptions[u])
  /\ faults = 0 =>
       /\ (\A p \in Procs : About(p, u) => job[p].pc \in {"save", "pullSubscriber"})
            => Counted(u)
       /\ \A c \in Users :
            (\A p \in Procs : About(p, u) => Creator[job[p].sale] # c)
              => Listed(u, c)

SInv ==
  /\ TypeOK
  /\ CallsServed
  /\ \A p \in Procs : ~Idle(p) => HoldsTrue(p)
  /\ \A u \in Users : FanAgrees(u)

LEMMA SInvAgrees == SInv => SubscriptionsAgree
<1> SUFFICES ASSUME SInv
             PROVE  SubscriptionsAgree
  OBVIOUS
<1>1. CountersMatch
  BY DEF SInv, FanAgrees, CountersMatch, Settled, About, Counted
<1>2. SubscribersMatch
  BY DEF SInv, FanAgrees, SubscribersMatch, Settled, About, Listed
<1>3. OneSubscriptionPerCreator
  BY DEF SInv, FanAgrees, OneSubscriptionPerCreator, Single
<1> QED BY <1>1, <1>2, <1>3 DEF SubscriptionsAgree

LEMMA CallShape ==
  ASSUME NEW j \in Job, j.pc # "idle"
  PROVE  /\ j.pc \in Steps /\ j.sale \in Sales /\ j.sells \in BOOLEAN
         /\ j.read \subseteq Users /\ j.active \in Nat /\ j.all \in Nat
         /\ Fan[j.sale] \in Users /\ Creator[j.sale] \in Users
         /\ j = [pc |-> j.pc, sale |-> j.sale, sells |-> j.sells, read |-> j.read,
                 readCounter |-> j.readCounter, active |-> j.active, all |-> j.all]
         /\ j.readCounter \in Nat
  BY SalesAssumption DEF Job, IdleJob, Steps

MovedTo(j, pc) == [j EXCEPT !.pc = pc]

LEMMA Advanced ==
  ASSUME NEW j \in Job, j.pc # "idle", NEW pc \in Steps, NEW k,
         k = MovedTo(j, pc)
  PROVE  /\ k \in Job /\ k.pc = pc /\ k.sale = j.sale /\ k.sells = j.sells
         /\ k.read = j.read /\ k.all = j.all /\ k.active = j.active
<1>1. k = [pc |-> pc, sale |-> j.sale, sells |-> j.sells, read |-> j.read,
           readCounter |-> j.readCounter, active |-> j.active, all |-> j.all]
  BY CallShape DEF MovedTo
<1>2. k \in [pc : Steps, sale : Sales, sells : BOOLEAN, read : SUBSET Users,
             readCounter : Nat, active : Nat, all : Nat]
  BY <1>1, CallShape
<1> QED BY <1>1, <1>2 DEF Job, Steps

LEMMA SInvInit == Init => SInv
<1> SUFFICES ASSUME Init
             PROVE  SInv
  OBVIOUS
<1> USE DEF Init
<1>1. \A u \in Users : subscriptions[u] = <<>>
  OBVIOUS
<1>2. /\ <<>> \in Seq(Subscription) /\ Single(<<>>) /\ Len(<<>>) = 0
      /\ Active(<<>>) = {}
  BY DEF Single, Active
<1>3. \A p \in Procs : Idle(p)
  BY DEF Idle, IdleJob
<1>4. TypeOK
  BY <1>1, <1>2, DeliveriesAssumption DEF TypeOK, Job
<1>5. \A u \in Users : FanAgrees(u)
  <2> SUFFICES ASSUME NEW u \in Users
               PROVE  FanAgrees(u)
    OBVIOUS
  <2>1. Counted(u)
    BY <1>1, <1>2, FS_EmptySet DEF Counted
  <2>2. Subscriptions(u) = {}
    BY <1>1 DEF Subscriptions
  <2>3. \A c \in Users : Listed(u, c)
    BY <2>2 DEF Listed, SubscribedTo
  <2>4. Single(subscriptions[u])
    BY <1>1, <1>2
  <2> QED BY <2>1, <2>3, <2>4 DEF FanAgrees
<1> QED BY <1>3, <1>4, <1>5 DEF SInv, CallsServed

-----------------------------------------------------------------------------
(* What a call about one fan leaves alone                                  *)

(* p, which serves the fan u, makes a step that changes nothing of others. *)
StepAbout(p, u) ==
  /\ \E s \in Serves[p] : Fan[s] = u
  /\ job' = [job EXCEPT ![p] = job'[p]]
  /\ ~Idle(p) => Fan[job[p].sale] = u
  /\ ~Idle(p)' => Fan[job'[p].sale] = u
  /\ \A v \in Users \ {u} :
       /\ subscriptions'[v] = subscriptions[v]
       /\ counter'[v] = counter[v] /\ activeCounter'[v] = activeCounter[v]
       /\ \A c \in Users : v \in subscribers'[c] <=> v \in subscribers[c]
  /\ sold \subseteq sold'
  /\ faults' = 0 => faults = 0

LEMMA OnlyOneAbout ==
  ASSUME FansServedApart, CallsServed, NEW p \in Procs, NEW u,
         \E s \in Serves[p] : Fan[s] = u
  PROVE  \A q \in Procs : About(q, u) => q = p
  BY DEF FansServedApart, CallsServed, About

LEMMA OthersKept ==
  ASSUME FansServedApart, SInv, NEW p \in Procs, NEW u \in Users, StepAbout(p, u),
         TypeOK', CallsServed', ~Idle(p)' => HoldsTrue(p)', FanAgrees(u)'
  PROVE  SInv'
<1>1. \A q \in Procs \ {p} : job'[q] = job[q]
  BY DEF StepAbout, SInv, TypeOK
<1>2. ASSUME NEW q \in Procs, ~Idle(q)'
      PROVE  HoldsTrue(q)'
  <2>1. CASE q = p
    BY <1>2, <2>1
  <2>2. CASE q # p
    <3> DEFINE v == Fan[job[q].sale]
               c == Creator[job[q].sale]
    <3>1. job'[q] = job[q] /\ ~Idle(q)
      BY <1>1, <1>2, <2>2 DEF Idle
    <3>2. v # u
      BY <2>2, <3>1, OnlyOneAbout DEF SInv, StepAbout, About
    <3>3. v \in Users /\ c \in Users
      <4>1. job[q] \in Job /\ job[q].pc # "idle"
        BY <3>1 DEF SInv, TypeOK, Idle
      <4> QED BY <4>1, CallShape
    <3>4. subscriptions'[v] = subscriptions[v] /\ (v \in subscribers'[c] <=> v \in subscribers[c])
      BY <3>2, <3>3 DEF StepAbout
    <3>5. HoldsTrue(q)
      BY <3>1 DEF SInv
    <3> QED BY <3>1, <3>4, <3>5 DEF HoldsTrue, SubscribedTo, Subscriptions
  <2> QED BY <2>1, <2>2
<1>3. ASSUME NEW v \in Users
      PROVE  FanAgrees(v)'
  <2>1. CASE v = u
    BY <2>1
  <2>2. CASE v # u
    <3>1. \A q \in Procs : About(q, v)' => About(q, v) /\ job'[q] = job[q]
      BY <1>1, <2>2 DEF About, Idle, StepAbout
    <3>2. \A q \in Procs : About(q, v) => About(q, v)' /\ job'[q] = job[q]
      BY <1>1, <2>2 DEF About, Idle, StepAbout
    <3>3. FanAgrees(v)
      BY DEF SInv
    <3>4. /\ subscriptions'[v] = subscriptions[v]
          /\ counter'[v] = counter[v] /\ activeCounter'[v] = activeCounter[v]
          /\ \A c \in Users : v \in subscribers'[c] <=> v \in subscribers[c]
          /\ faults' = 0 => faults = 0
      BY <2>2 DEF StepAbout
    <3>5. Counted(v) => Counted(v)'
      BY <3>4 DEF Counted
    <3>6. \A c \in Users : Listed(v, c) => Listed(v, c)'
      BY <3>4 DEF Listed, SubscribedTo, Subscriptions
    <3> QED BY <3>1, <3>2, <3>3, <3>4, <3>5, <3>6 DEF FanAgrees
  <2> QED BY <2>1, <2>2
<1> QED BY <1>2, <1>3 DEF SInv

-----------------------------------------------------------------------------
(* The steps of a call                                                     *)

LEMMA CallFacts ==
  ASSUME SInv, NEW p \in Procs, ~Idle(p)
  PROVE  /\ job[p] \in Job /\ job[p].pc # "idle"
         /\ job[p].sale \in Sales /\ job[p].sale \in Serves[p]
         /\ job[p].sale \in sold
         /\ Fan[job[p].sale] \in Users /\ Creator[job[p].sale] \in Users
         /\ subscriptions[Fan[job[p].sale]] \in Seq(Subscription)
         /\ HoldsTrue(p) /\ FanAgrees(Fan[job[p].sale])
<1>1. job[p] \in Job /\ job[p].pc # "idle"
  BY DEF SInv, TypeOK, Idle
<1>2. Fan[job[p].sale] \in Users /\ Creator[job[p].sale] \in Users /\ job[p].sale \in Sales
  BY <1>1, CallShape
<1> QED BY <1>1, <1>2 DEF SInv, TypeOK, CallsServed

RestTyped ==
  /\ prices \subseteq Creators
  /\ forms \subseteq {Form(u, c) : u \in Users, c \in Creators}
  /\ activeCounter \in [Users -> Nat]
  /\ counter \in [Users -> Nat]
  /\ subscribers \in [Users -> SUBSET Users]
  /\ subscribersCounter \in [Users -> Nat]
  /\ sold \subseteq Sales
  /\ job \in [Procs -> Job]
  /\ deliveries \in 0 .. MaxDeliveries
  /\ faults \in 0 .. MaxFaults

ListsTyped ==
  /\ subscriptions \in [Users -> Seq(Subscription)]
  /\ \A u \in Users : \A i \in DOMAIN subscriptions[u] :
       /\ Fan[subscriptions[u][i].sale] = u
       /\ subscriptions[u][i].sale \in sold

LEMMA TypedParts == RestTyped' /\ ListsTyped' => TypeOK'
  BY DEF RestTyped, ListsTyped, TypeOK

LEMMA ListChange ==
  ASSUME TypeOK, RestTyped', sold \subseteq sold', NEW u \in Users,
         NEW new \in Seq(Subscription),
         subscriptions' = [subscriptions EXCEPT ![u] = new],
         \A x \in Elements(new) : Fan[x.sale] = u /\ x.sale \in sold
  PROVE  TypeOK'
<1>1. subscriptions' \in [Users -> Seq(Subscription)]
  BY DEF TypeOK
<1>2. ASSUME NEW v \in Users, NEW i \in DOMAIN subscriptions'[v]
      PROVE  /\ Fan[subscriptions'[v][i].sale] = v
             /\ subscriptions'[v][i].sale \in sold'
  <2>1. CASE v = u
    BY <1>2, <2>1 DEF TypeOK, Elements
  <2>2. CASE v # u
    BY <1>2, <2>2 DEF TypeOK
  <2> QED BY <2>1, <2>2
<1>3. \A v \in Users : \A i \in DOMAIN subscriptions'[v] :
        Fan[subscriptions'[v][i].sale] = v /\ subscriptions'[v][i].sale \in sold'
  BY <1>2
<1>4. ListsTyped'
  BY <1>1, <1>3 DEF ListsTyped
<1> QED BY <1>4, TypedParts

LEMMA ListsSame ==
  ASSUME TypeOK, RestTyped', sold \subseteq sold', subscriptions' = subscriptions
  PROVE  TypeOK'
<1>1. ListsTyped'
  BY DEF TypeOK, ListsTyped
<1> QED BY <1>1, TypedParts

LEMMA CallsKept ==
  ASSUME CallsServed, sold \subseteq sold', NEW p \in Procs, NEW k,
         job \in [Procs -> Job], job' = [job EXCEPT ![p] = k],
         k.pc # "idle" =>
           /\ k.sale \in Serves[p] /\ k.sale \in sold'
           /\ k.pc \in {"pull", "push", "save"} => k.sells
           /\ k.pc = "pullSubscriber" => ~k.sells
  PROVE  CallsServed'
<1> SUFFICES ASSUME NEW q \in Procs, ~Idle(q)'
             PROVE  /\ job'[q].sale \in Serves[q] /\ job'[q].sale \in sold'
                    /\ job'[q].pc \in {"pull", "push", "save"} => job'[q].sells
                    /\ job'[q].pc = "pullSubscriber" => ~job'[q].sells
  BY DEF CallsServed
<1>1. CASE q = p
  BY <1>1 DEF Idle
<1>2. CASE q # p
  BY <1>2 DEF CallsServed, Idle
<1> QED BY <1>1, <1>2

LEMMA PullKeeps ==
  ASSUME FansServedApart, SInv, NEW p \in Procs, PullSubscription(p)
  PROVE  SInv'
<1> PICK j : j = job[p]
  OBVIOUS
<1> DEFINE u == Fan[j.sale]
           c == Creator[j.sale]
<1> PICK k : k = MovedTo(j, "push")
  OBVIOUS
<1> PICK new : new = Without(c, subscriptions[u])
  OBVIOUS
<1>1. j.pc = "pull" /\ ~Idle(p)
  BY DEF PullSubscription, Idle
<1>2. /\ job' = [job EXCEPT ![p] = k]
      /\ subscriptions' = [subscriptions EXCEPT ![u] = new]
      /\ UNCHANGED <<offers, activeCounter, counter, creator, sold, deliveries, faults>>
  BY DEF PullSubscription, Advance, Become, MovedTo
<1>3. TypeOK /\ CallsServed /\ \A q \in Procs : About(q, u) => q = p
  BY <1>1, CallFacts, OnlyOneAbout DEF SInv
<1>4. /\ j \in Job /\ j.pc # "idle" /\ j.sale \in Serves[p] /\ j.sale \in sold
      /\ u \in Users /\ c \in Users /\ subscriptions[u] \in Seq(Subscription)
      /\ FanAgrees(u) /\ HoldsTrue(p) /\ j.sells
  BY <1>1, CallFacts DEF SInv, CallsServed
<1>5. /\ k \in Job /\ k.pc = "push" /\ k.sale = j.sale /\ k.sells = j.sells
      /\ k.read = j.read
  <2>1. "push" \in Steps
    BY DEF Steps
  <2>2. j \in Job /\ j.pc # "idle" /\ k = MovedTo(j, "push")
    BY <1>4
  <2> HIDE DEF u, c
  <2> QED BY <2>1, <2>2, Advanced
<1>6. /\ new \in Seq(Subscription)
      /\ Elements(new) = {x \in Elements(subscriptions[u]) : Creator[x.sale] # c}
      /\ Single(subscriptions[u]) => Single(new)
  BY <1>4, WithoutIs
<1>7. job'[p] = k /\ subscriptions'[u] = new
  BY <1>2, <1>3, <1>4 DEF TypeOK
<1>8. RestTyped'
  BY <1>2, <1>3, <1>5 DEF RestTyped, TypeOK, offers, creator
<1>9. TypeOK'
  <2>1. \A x \in Elements(subscriptions[u]) : Fan[x.sale] = u /\ x.sale \in sold
    BY <1>3, <1>4 DEF TypeOK, Elements
  <2> QED BY <1>2, <1>3, <1>4, <1>6, <1>8, <2>1, ListChange
<1>10. CallsServed'
  <2>1. job \in [Procs -> Job] /\ sold' = sold
    BY <1>2, <1>3 DEF TypeOK
  <2> QED BY <1>2, <1>3, <1>4, <1>5, <2>1, CallsKept
<1>11. HoldsTrue(p)'
  <2>1. \A x \in Subscriptions(u)' : Creator[x.sale] # c
    BY <1>6, <1>7 DEF Subscriptions, Elements
  <2> QED BY <1>2, <1>4, <1>5, <1>7, <2>1 DEF HoldsTrue, creator
<1>12. \A d \in Users : d # c => (SubscribedTo(u, d)' <=> SubscribedTo(u, d))
  BY <1>6, <1>7 DEF SubscribedTo, Subscriptions, Elements
<1>13. FanAgrees(u)'
  <2>1. About(p, u) /\ About(p, u)'
    BY <1>1, <1>5, <1>7 DEF About, Idle
  <2>2. Single(subscriptions'[u])
    BY <1>4, <1>6, <1>7 DEF FanAgrees
  <2>3. ASSUME faults' = 0, NEW d \in Users, d # c
        PROVE  Listed(u, d)'
    <3>1. Listed(u, d)
      BY <1>2, <1>3, <1>4, <2>3 DEF FanAgrees
    <3> QED BY <1>2, <1>12, <2>3, <3>1 DEF Listed, creator
  <2> QED BY <1>5, <1>7, <2>1, <2>2, <2>3 DEF FanAgrees
<1>14. StepAbout(p, u)
  BY <1>2, <1>3, <1>4, <1>5, <1>7 DEF StepAbout, TypeOK, creator
<1> QED BY <1>4, <1>9, <1>10, <1>11, <1>13, <1>14, OthersKept

LEMMA PushKeeps ==
  ASSUME FansServedApart, SInv, NEW p \in Procs, PushSubscription(p)
  PROVE  SInv'
<1> PICK j : j = job[p]
  OBVIOUS
<1> DEFINE u == Fan[j.sale]
           c == Creator[j.sale]
<1> PICK k : k = MovedTo(j, "count")
  OBVIOUS
<1> PICK x : x = [sale |-> j.sale, active |-> TRUE]
  OBVIOUS
<1> PICK new : new = Append(subscriptions[u], x)
  OBVIOUS
<1>1. j.pc = "push" /\ ~Idle(p)
  BY DEF PushSubscription, Idle
<1>2. /\ job' = [job EXCEPT ![p] = k]
      /\ subscriptions' = [subscriptions EXCEPT ![u] = new]
      /\ UNCHANGED <<offers, activeCounter, counter, creator, sold, deliveries, faults>>
  BY DEF PushSubscription, Advance, Become, MovedTo
<1>3. TypeOK /\ CallsServed /\ \A q \in Procs : About(q, u) => q = p
  BY <1>1, CallFacts, OnlyOneAbout DEF SInv
<1>4. /\ j \in Job /\ j.pc # "idle" /\ j.sale \in Serves[p] /\ j.sale \in sold
      /\ j.sale \in Sales
      /\ u \in Users /\ c \in Users /\ subscriptions[u] \in Seq(Subscription)
      /\ FanAgrees(u) /\ HoldsTrue(p) /\ j.sells
  BY <1>1, CallFacts DEF SInv, CallsServed
<1>5. /\ k \in Job /\ k.pc = "count" /\ k.sale = j.sale /\ k.sells = j.sells
      /\ k.read = j.read
  <2>1. "count" \in Steps
    BY DEF Steps
  <2>2. j \in Job /\ j.pc # "idle" /\ k = MovedTo(j, "count")
    BY <1>4
  <2> HIDE DEF u, c
  <2> QED BY <2>1, <2>2, Advanced
<1>6. /\ new \in Seq(Subscription)
      /\ Elements(new) = Elements(subscriptions[u]) \cup {x}
      /\ Single(new) /\ x.sale = j.sale /\ x.active
  <2>1. x \in Subscription /\ x.sale = j.sale /\ x.active
    BY <1>4 DEF Subscription
  <2>2. \A y \in Elements(subscriptions[u]) : Creator[y.sale] # Creator[x.sale]
    BY <1>1, <1>4, <2>1 DEF HoldsTrue, Subscriptions, Elements
  <2>3. Single(subscriptions[u])
    BY <1>4 DEF FanAgrees
  <2> QED BY <1>4, <2>1, <2>2, <2>3, AppendIs
<1>7. job'[p] = k /\ subscriptions'[u] = new
  BY <1>2, <1>3, <1>4 DEF TypeOK
<1>8. RestTyped'
  BY <1>2, <1>3, <1>5 DEF RestTyped, TypeOK, offers, creator
<1>9. TypeOK'
  <2>1. \A y \in Elements(subscriptions[u]) : Fan[y.sale] = u /\ y.sale \in sold
    BY <1>3, <1>4 DEF TypeOK, Elements
  <2>2. \A y \in Elements(new) : Fan[y.sale] = u /\ y.sale \in sold
    BY <1>4, <1>6, <2>1
  <2> QED BY <1>2, <1>3, <1>4, <1>6, <1>8, <2>2, ListChange
<1>10. CallsServed'
  <2>1. job \in [Procs -> Job] /\ sold' = sold
    BY <1>2, <1>3 DEF TypeOK
  <2> QED BY <1>2, <1>3, <1>4, <1>5, <2>1, CallsKept
<1>11. HoldsTrue(p)'
  <2>1. SubscribedTo(u, c)'
    <3>1. Subscriptions(u)' = Elements(new)
      BY <1>7 DEF Subscriptions, Elements
    <3>2. x \in Elements(new) /\ Creator[x.sale] = c
      BY <1>6
    <3> QED BY <1>6, <3>1, <3>2 DEF SubscribedTo
  <2> QED BY <1>2, <1>4, <1>5, <1>7, <2>1 DEF HoldsTrue, creator
<1>12. \A d \in Users : d # c => (SubscribedTo(u, d)' <=> SubscribedTo(u, d))
  <2>1. Subscriptions(u)' = Subscriptions(u) \cup {x}
    BY <1>6, <1>7 DEF Subscriptions, Elements
  <2> QED BY <1>6, <2>1 DEF SubscribedTo
<1>13. FanAgrees(u)'
  <2>1. About(p, u) /\ About(p, u)'
    BY <1>1, <1>5, <1>7 DEF About, Idle
  <2>2. ASSUME faults' = 0, NEW d \in Users, d # c
        PROVE  Listed(u, d)'
    <3>1. Listed(u, d)
      BY <1>2, <1>3, <1>4, <2>2 DEF FanAgrees
    <3> QED BY <1>2, <1>12, <2>2, <3>1 DEF Listed, creator
  <2> QED BY <1>5, <1>6, <1>7, <2>1, <2>2 DEF FanAgrees
<1>14. StepAbout(p, u)
  BY <1>2, <1>3, <1>4, <1>5, <1>7 DEF StepAbout, TypeOK, creator
<1> QED BY <1>4, <1>9, <1>10, <1>11, <1>13, <1>14, OthersKept

LEMMA UpToIsFinite ==
  ASSUME NEW n \in Nat
  PROVE  IsFiniteSet(1 .. n)
<1>1. n \in Int /\ 1 \in Int
  OBVIOUS
<1> QED BY <1>1, FS_Interval, Zenon

LEMMA CountKeeps ==
  ASSUME FansServedApart, SInv, NEW p \in Procs, CountSubscriptions(p)
  PROVE  SInv'
<1> PICK j : j = job[p]
  OBVIOUS
<1> DEFINE u == Fan[j.sale]
           c == Creator[j.sale]
<1> PICK n, m : /\ n = Len(subscriptions[u])
                /\ m = Cardinality(Active(subscriptions[u]))
  OBVIOUS
<1> PICK k : k = [j EXCEPT !.pc = "setCounters", !.all = n, !.active = m]
  OBVIOUS
<1>1. j.pc = "count" /\ ~Idle(p)
  BY DEF CountSubscriptions, Idle
<1>2. /\ job' = [job EXCEPT ![p] = k]
      /\ UNCHANGED <<offers, fan, creator, sold, deliveries, faults>>
  BY DEF CountSubscriptions, Become
<1>3. TypeOK /\ CallsServed /\ \A q \in Procs : About(q, u) => q = p
  BY <1>1, CallFacts, OnlyOneAbout DEF SInv
<1>4. /\ j \in Job /\ j.pc # "idle" /\ j.sale \in Serves[p] /\ j.sale \in sold
      /\ u \in Users /\ c \in Users /\ subscriptions[u] \in Seq(Subscription)
      /\ FanAgrees(u) /\ HoldsTrue(p)
  BY <1>1, CallFacts DEF SInv
<1>5. n \in Nat /\ m \in Nat
  <2>1. n \in Nat /\ DOMAIN subscriptions[u] = 1 .. n
    BY <1>4
  <2>2. IsFiniteSet(1 .. n)
    BY <2>1, UpToIsFinite
  <2>3. IsFiniteSet(Active(subscriptions[u]))
    BY <2>1, <2>2, FS_Subset DEF Active
  <2> QED BY <2>1, <2>3, FS_CardinalityType
<1>6. /\ k \in Job /\ k.pc = "setCounters" /\ k.sale = j.sale /\ k.sells = j.sells
      /\ k.read = j.read /\ k.all = n /\ k.active = m
  <2>1. /\ j.sale \in Sales /\ j.sells \in BOOLEAN /\ j.read \subseteq Users
        /\ j.readCounter \in Nat
        /\ j = [pc |-> j.pc, sale |-> j.sale, sells |-> j.sells, read |-> j.read,
                readCounter |-> j.readCounter, active |-> j.active, all |-> j.all]
    BY <1>4, CallShape
  <2> HIDE DEF u, c
  <2>2. k = [pc |-> "setCounters", sale |-> j.sale, sells |-> j.sells,
             read |-> j.read, readCounter |-> j.readCounter, active |-> m,
             all |-> n]
    BY <2>1
  <2>3. k \in [pc : {"setCounters"}, sale : Sales, sells : BOOLEAN,
               read : SUBSET Users, readCounter : Nat, active : Nat, all : Nat]
    BY <1>5, <2>1, <2>2
  <2> QED BY <2>2, <2>3 DEF Job
<1>7. job'[p] = k
  BY <1>2, <1>3 DEF TypeOK
<1>8. RestTyped'
  BY <1>2, <1>3, <1>6 DEF RestTyped, TypeOK, offers, fan, creator
<1>9. TypeOK'
  BY <1>2, <1>3, <1>8, ListsSame DEF fan
<1>10. CallsServed'
  <2>1. job \in [Procs -> Job] /\ sold' = sold
    BY <1>2, <1>3 DEF TypeOK
  <2> QED BY <1>2, <1>3, <1>4, <1>6, <2>1, CallsKept
<1>11. HoldsTrue(p)'
  <2>1. SubscribedTo(u, c)' <=> SubscribedTo(u, c)
    BY <1>2 DEF SubscribedTo, Subscriptions, fan
  <2>2. subscriptions' = subscriptions /\ subscribers' = subscribers
    BY <1>2 DEF fan, creator
  <2> QED BY <1>1, <1>4, <1>6, <1>7, <2>1, <2>2 DEF HoldsTrue
<1>12. \A d \in Users : Listed(u, d)' <=> Listed(u, d)
  BY <1>2 DEF Listed, SubscribedTo, Subscriptions, fan, creator
<1>13. FanAgrees(u)'
  <2>1. About(p, u) /\ About(p, u)'
    BY <1>1, <1>6, <1>7 DEF About, Idle
  <2>2. ASSUME faults' = 0, NEW d \in Users, d # c
        PROVE  Listed(u, d)'
    BY <1>2, <1>3, <1>4, <1>12, <2>2 DEF FanAgrees
  <2>3. Single(subscriptions'[u])
    BY <1>2, <1>4 DEF FanAgrees, fan
  <2>4. job'[p].pc = "setCounters" /\ job'[p].sale = j.sale
    BY <1>6, <1>7
  <2> QED BY <2>1, <2>2, <2>3, <2>4 DEF FanAgrees
<1>14. StepAbout(p, u)
  BY <1>2, <1>3, <1>4, <1>6, <1>7 DEF StepAbout, TypeOK, fan, creator
<1> QED BY <1>4, <1>9, <1>10, <1>11, <1>13, <1>14, OthersKept

LEMMA SetKeeps ==
  ASSUME FansServedApart, SInv, NEW p \in Procs, SetCounters(p)
  PROVE  SInv'
<1> PICK j : j = job[p]
  OBVIOUS
<1> DEFINE u == Fan[j.sale]
           c == Creator[j.sale]
<1> PICK pc : pc = IF j.sells THEN "save" ELSE "pullSubscriber"
  OBVIOUS
<1> PICK k : k = MovedTo(j, pc)
  OBVIOUS
<1>1. j.pc = "setCounters" /\ ~Idle(p)
  BY DEF SetCounters, Idle
<1>2. /\ job' = [job EXCEPT ![p] = k]
      /\ counter' = [counter EXCEPT ![u] = j.all]
      /\ activeCounter' = [activeCounter EXCEPT ![u] = j.active]
      /\ UNCHANGED <<offers, subscriptions, creator, sold, deliveries, faults>>
  BY DEF SetCounters, WriteCounters, Advance, Become, MovedTo
<1>3. TypeOK /\ CallsServed /\ \A q \in Procs : About(q, u) => q = p
  BY <1>1, CallFacts, OnlyOneAbout DEF SInv
<1>4. /\ j \in Job /\ j.pc # "idle" /\ j.sale \in Serves[p] /\ j.sale \in sold
      /\ u \in Users /\ c \in Users /\ FanAgrees(u) /\ HoldsTrue(p)
      /\ j.sells \in BOOLEAN /\ j.all \in Nat /\ j.active \in Nat
  BY <1>1, CallFacts, CallShape DEF SInv
<1>5. /\ k \in Job /\ k.pc = pc /\ k.sale = j.sale /\ k.sells = j.sells
      /\ k.read = j.read
  <2>1. pc \in Steps
    BY DEF Steps
  <2>2. j \in Job /\ j.pc # "idle" /\ k = MovedTo(j, pc)
    BY <1>4
  <2> HIDE DEF u, c
  <2> QED BY <2>1, <2>2, Advanced
<1>6. /\ pc \in {"save", "pullSubscriber"}
      /\ pc = "save" => j.sells
      /\ pc = "pullSubscriber" => ~j.sells
  BY <1>4
<1>7. job'[p] = k
  BY <1>2, <1>3 DEF TypeOK
<1>8. RestTyped'
  BY <1>2, <1>3, <1>4, <1>5 DEF RestTyped, TypeOK, offers, creator
<1>9. TypeOK'
  BY <1>2, <1>3, <1>8, ListsSame
<1>10. CallsServed'
  <2>1. job \in [Procs -> Job] /\ sold' = sold
    BY <1>2, <1>3 DEF TypeOK
  <2> QED BY <1>2, <1>3, <1>4, <1>5, <1>6, <2>1, CallsKept
<1>11. HoldsTrue(p)'
  <2>1. SubscribedTo(u, c)' <=> SubscribedTo(u, c)
    BY <1>2 DEF SubscribedTo, Subscriptions
  <2>2. subscriptions' = subscriptions /\ subscribers' = subscribers
    BY <1>2 DEF creator
  <2> QED BY <1>1, <1>4, <1>5, <1>6, <1>7, <2>1, <2>2 DEF HoldsTrue
<1>12. \A d \in Users : Listed(u, d)' <=> Listed(u, d)
  BY <1>2 DEF Listed, SubscribedTo, Subscriptions, creator
<1>13. FanAgrees(u)'
  <2>1. About(p, u) /\ About(p, u)'
    BY <1>1, <1>5, <1>6, <1>7 DEF About, Idle
  <2>2. ASSUME faults' = 0, NEW d \in Users, d # c
        PROVE  Listed(u, d)'
    BY <1>2, <1>3, <1>4, <1>12, <2>2 DEF FanAgrees
  <2>3. Single(subscriptions'[u])
    BY <1>2, <1>4 DEF FanAgrees
  <2>4. job'[p].sale = j.sale
    BY <1>5, <1>7
  <2>5. Counted(u)'
    BY <1>1, <1>2, <1>3, <1>4 DEF Counted, HoldsTrue, TypeOK
  <2> QED BY <2>1, <2>2, <2>3, <2>4, <2>5 DEF FanAgrees
<1>14. StepAbout(p, u)
  BY <1>2, <1>3, <1>4, <1>5, <1>7 DEF StepAbout, TypeOK, creator
<1> QED BY <1>4, <1>9, <1>10, <1>11, <1>13, <1>14, OthersKept

-----------------------------------------------------------------------------
(* The ends of a call                                                      *)

LEMMA IdleIsJob == IdleJob \in Job /\ IdleJob.pc = "idle"
  BY DEF Job, IdleJob

LEMMA EndKeeps ==
  ASSUME FansServedApart, SInv, NEW p \in Procs, SaveCreator(p) \/ PullSubscriber(p)
  PROVE  SInv'
<1> PICK j : j = job[p]
  OBVIOUS
<1> DEFINE u == Fan[j.sale]
           c == Creator[j.sale]
<1>1. j.pc \in {"save", "pullSubscriber"} /\ ~Idle(p)
  BY DEF SaveCreator, PullSubscriber, Idle
<1>2. /\ job' = [job EXCEPT ![p] = IdleJob]
      /\ UNCHANGED <<offers, fan, sold, deliveries, faults>>
  BY DEF SaveCreator, PullSubscriber, Finish, Become
<1>3. TypeOK /\ CallsServed /\ \A q \in Procs : About(q, u) => q = p
  BY <1>1, CallFacts, OnlyOneAbout DEF SInv
<1>4. /\ j \in Job /\ j.pc # "idle" /\ j.sale \in Serves[p] /\ j.sale \in sold
      /\ u \in Users /\ c \in Users /\ FanAgrees(u) /\ HoldsTrue(p)
      /\ j.read \subseteq Users
      /\ j.pc = "save" => j.sells
      /\ j.pc = "pullSubscriber" => ~j.sells
  BY <1>1, CallFacts, CallShape DEF SInv, CallsServed
<1>5. job'[p] = IdleJob /\ Idle(p)'
  BY <1>2, <1>3, IdleIsJob DEF TypeOK, Idle
<1>6. /\ subscribers' \in [Users -> SUBSET Users]
      /\ \A d \in Users \ {c} : subscribers'[d] = subscribers[d]
      /\ u \in subscribers'[c] <=> SubscribedTo(u, c)
      /\ \A v \in Users \ {u} : v \in subscribers'[c] <=> v \in subscribers[c]
  <2>1. subscribers \in [Users -> SUBSET Users]
    BY <1>3 DEF TypeOK
  <2>2. CASE SaveCreator(p)
    <3>1. subscribers' = [subscribers EXCEPT ![c] = @ \cup ({u} \ j.read)]
      BY <2>2 DEF SaveCreator
    <3>2. j.pc = "save"
      BY <2>2 DEF SaveCreator
    <3>3. SubscribedTo(u, c) /\ (u \in j.read => u \in subscribers[c])
      BY <1>4, <3>2 DEF HoldsTrue
    <3> QED BY <1>4, <2>1, <3>1, <3>3
  <2>3. CASE PullSubscriber(p)
    <3>1. subscribers' = [subscribers EXCEPT ![c] = @ \ {u}]
      BY <2>3 DEF PullSubscriber
    <3>2. j.pc = "pullSubscriber"
      BY <2>3 DEF PullSubscriber
    <3>3. ~SubscribedTo(u, c)
      BY <1>4, <3>2 DEF HoldsTrue
    <3> QED BY <1>4, <2>1, <3>1, <3>3
  <2> QED BY <2>2, <2>3
<1>7. subscribersCounter' \in [Users -> Nat]
  <2>1. CASE SaveCreator(p)
    <3>1. Cardinality(j.read \cup {u}) \in Nat
      <4>1. j.read \cup {u} \subseteq Users
        BY <1>4
      <4>2. IsFiniteSet(j.read \cup {u})
        BY <4>1, SalesAssumption, FS_Subset
      <4> QED BY <4>2, FS_CardinalityType
    <3>2. subscribersCounter' =
            [subscribersCounter EXCEPT
               ![c] = IF Cardinality(j.read \cup {u}) = j.readCounter THEN @
                      ELSE Cardinality(j.read \cup {u})]
      BY <2>1 DEF SaveCreator
    <3> QED BY <1>3, <1>4, <3>1, <3>2 DEF TypeOK
  <2>2. CASE PullSubscriber(p)
    BY <1>3, <2>2 DEF PullSubscriber, TypeOK
  <2> QED BY <2>1, <2>2
<1>8. RestTyped'
  BY <1>2, <1>3, <1>6, <1>7, IdleIsJob DEF RestTyped, TypeOK, offers, fan
<1>9. TypeOK'
  BY <1>2, <1>3, <1>8, ListsSame DEF fan
<1>10. CallsServed'
  <2>1. job \in [Procs -> Job] /\ sold' = sold
    BY <1>2, <1>3 DEF TypeOK
  <2> QED BY <1>2, <1>3, <2>1, IdleIsJob, CallsKept
<1>11. FanAgrees(u)'
  <2>1. About(p, u)
    BY <1>1 DEF About
  <2>2. Single(subscriptions'[u])
    BY <1>2, <1>4 DEF FanAgrees, fan
  <2>3. faults' = 0 => Counted(u)'
    BY <1>1, <1>2, <1>3, <1>4 DEF FanAgrees, Counted, fan
  <2>4. ASSUME faults' = 0, NEW d \in Users
        PROVE  Listed(u, d)'
    <3>1. SubscribedTo(u, d)' <=> SubscribedTo(u, d)
      BY <1>2 DEF SubscribedTo, Subscriptions, fan
    <3>2. d # c => Listed(u, d)
      BY <1>2, <1>3, <1>4, <2>4 DEF FanAgrees
    <3> QED BY <1>6, <2>4, <3>1, <3>2 DEF Listed
  <2> QED BY <2>2, <2>3, <2>4 DEF FanAgrees
<1>12. StepAbout(p, u)
  <2>1. \A v \in Users \ {u}, d \in Users : v \in subscribers'[d] <=> v \in subscribers[d]
    BY <1>6
  <2> QED BY <1>1, <1>2, <1>3, <1>4, <1>5, <2>1 DEF StepAbout, TypeOK, fan
<1> QED BY <1>4, <1>5, <1>9, <1>10, <1>11, <1>12, OthersKept

LEMMA AbortKeeps ==
  ASSUME FansServedApart, SInv, NEW p \in Procs, AbortJob(p)
  PROVE  SInv'
<1> PICK u : u = Fan[job[p].sale]
  OBVIOUS
<1>1. ~Idle(p) /\ TypeOK /\ CallsServed
  BY DEF SInv, AbortJob
<1>2. /\ job' = [job EXCEPT ![p] = IdleJob]
      /\ faults' = faults + 1 /\ faults < MaxFaults
      /\ UNCHANGED <<offers, fan, creator, sold, deliveries>>
  BY DEF AbortJob, Finish, Become
<1>3. u \in Users /\ FanAgrees(u) /\ job[p].sale \in Serves[p]
  BY <1>1, CallFacts
<1>4. job'[p] = IdleJob /\ Idle(p)'
  BY <1>1, <1>2, IdleIsJob DEF TypeOK, Idle
<1>5. faults' # 0 /\ faults' \in 0 .. MaxFaults
  BY <1>1, <1>2, DeliveriesAssumption DEF TypeOK
<1>6. RestTyped'
  BY <1>1, <1>2, <1>5, IdleIsJob DEF RestTyped, TypeOK, offers, fan, creator
<1>7. TypeOK'
  BY <1>1, <1>2, <1>6, ListsSame DEF fan
<1>8. CallsServed'
  <2>1. job \in [Procs -> Job] /\ sold' = sold
    BY <1>1, <1>2 DEF TypeOK
  <2> QED BY <1>1, <1>2, <2>1, IdleIsJob, CallsKept
<1>9. FanAgrees(u)'
  BY <1>2, <1>3, <1>5 DEF FanAgrees, fan
<1>10. StepAbout(p, u)
  BY <1>1, <1>2, <1>3, <1>4, <1>5 DEF StepAbout, TypeOK, fan, creator
<1> QED BY <1>3, <1>4, <1>7, <1>8, <1>9, <1>10, OthersKept

-----------------------------------------------------------------------------
(* The beginnings of a call                                                *)

LEMMA Started ==
  ASSUME NEW pc \in Steps, NEW s \in Sales, NEW sells \in BOOLEAN,
         NEW read \in SUBSET Users, NEW n \in Nat, NEW k,
         k = [pc |-> pc, sale |-> s, sells |-> sells, read |-> read,
              readCounter |-> n, active |-> 0, all |-> 0]
  PROVE  /\ k \in Job /\ k.pc = pc /\ k.sale = s /\ k.sells = sells
         /\ k.read = read
<1>1. k \in [pc : Steps, sale : Sales, sells : BOOLEAN, read : SUBSET Users,
             readCounter : Nat, active : Nat, all : Nat]
  OBVIOUS
<1>2. k \in Job
  BY <1>1 DEF Job, Steps
<1> QED BY <1>2

LEMMA ReadKeeps ==
  ASSUME FansServedApart, SInv, NEW p \in Procs, NEW s \in Sales, ReadCreator(p, s)
  PROVE  SInv'
<1> DEFINE u == Fan[s]
           c == Creator[s]
<1> PICK read : read = subscribers[c]
  OBVIOUS
<1> PICK n : n = subscribersCounter[c]
  OBVIOUS
<1> PICK sells \in BOOLEAN : sells = TRUE
  OBVIOUS
<1> PICK k : k = [pc |-> "pull", sale |-> s, sells |-> sells, read |-> read,
                  readCounter |-> n, active |-> 0, all |-> 0]
  OBVIOUS
<1>1. /\ Idle(p) /\ s \in Serves[p] /\ deliveries < MaxDeliveries
      /\ deliveries' = deliveries + 1
  BY DEF ReadCreator, Deliver
<1>2. /\ job' = [job EXCEPT ![p] = k] /\ sold' = sold \cup {s}
      /\ UNCHANGED <<offers, fan, creator, faults>>
  BY DEF ReadCreator, Become, Start
<1>3. /\ TypeOK /\ CallsServed /\ u \in Users /\ c \in Users
      /\ FanAgrees(u)
  BY SalesAssumption DEF SInv
<1>4. \A q \in Procs : ~About(q, u)
  BY <1>1, <1>3, OnlyOneAbout DEF About
<1>5. k \in Job /\ k.pc = "pull" /\ k.sale = s /\ k.sells = TRUE /\ k.read = read
  <2>1. read \in SUBSET Users /\ n \in Nat
    BY <1>3 DEF TypeOK
  <2>2. "pull" \in Steps
    BY DEF Steps
  <2>3. k \in [pc : Steps, sale : Sales, sells : BOOLEAN, read : SUBSET Users,
               readCounter : Nat, active : Nat, all : Nat]
    BY <2>1, <2>2
  <2>4. k \in Job
    BY <2>3 DEF Job, Steps
  <2> QED BY <2>4
<1>6. job'[p] = k
  BY <1>2, <1>3 DEF TypeOK
<1>7. RestTyped'
  <2>1. deliveries' \in 0 .. MaxDeliveries
    BY <1>1, <1>3, DeliveriesAssumption DEF TypeOK
  <2>2. job' \in [Procs -> Job]
    BY <1>2, <1>3, <1>5 DEF TypeOK
  <2>3. sold' \subseteq Sales /\ faults' \in 0 .. MaxFaults
    BY <1>2, <1>3 DEF TypeOK
  <2> QED BY <1>2, <1>3, <2>1, <2>2, <2>3 DEF RestTyped, TypeOK, offers, fan, creator
<1>8. TypeOK'
  BY <1>2, <1>3, <1>7, ListsSame DEF fan
<1>9. CallsServed'
  <2>1. job \in [Procs -> Job] /\ sold \subseteq sold' /\ s \in sold'
    BY <1>2, <1>3 DEF TypeOK
  <2> QED BY <1>1, <1>2, <1>3, <1>5, <2>1, CallsKept
<1>10. HoldsTrue(p)'
  BY <1>2, <1>5, <1>6 DEF HoldsTrue, creator
<1>11. FanAgrees(u)'
  <2>1. About(p, u)'
    BY <1>5, <1>6 DEF About, Idle
  <2>2. Single(subscriptions'[u])
    BY <1>2, <1>3 DEF FanAgrees, fan
  <2>3. ASSUME faults' = 0, NEW d \in Users
        PROVE  Listed(u, d)'
    <3>1. Listed(u, d)
      BY <1>2, <1>3, <1>4, <2>3 DEF FanAgrees
    <3> QED BY <1>2, <3>1 DEF Listed, SubscribedTo, Subscriptions, fan, creator
  <2> QED BY <1>5, <1>6, <2>1, <2>2, <2>3 DEF FanAgrees
<1>12. StepAbout(p, u)
  BY <1>1, <1>2, <1>3, <1>5, <1>6 DEF StepAbout, TypeOK, fan, creator
<1> QED BY <1>3, <1>8, <1>9, <1>10, <1>11, <1>12, OthersKept

(* An ended subscription is the same one, not active.                      *)
LEMMA EndedIs ==
  ASSUME NEW y \in Subscription, NEW active
  PROVE  [y EXCEPT !.active = active] = [sale |-> y.sale, active |-> active]
  BY DEF Subscription

LEMMA CancelKeeps ==
  ASSUME FansServedApart, SInv, NEW p \in Procs, NEW s \in Sales, Cancel(p, s)
  PROVE  SInv'
<1> DEFINE u == Fan[s]
           c == Creator[s]
<1> PICK sells \in BOOLEAN : sells = FALSE
  OBVIOUS
<1> PICK k : k = [pc |-> "count", sale |-> s, sells |-> sells, read |-> {},
                  readCounter |-> 0, active |-> 0, all |-> 0]
  OBVIOUS
<1> PICK old : old = subscriptions[u]
  OBVIOUS
<1>1. /\ Idle(p) /\ s \in Serves[p] /\ deliveries < MaxDeliveries
      /\ deliveries' = deliveries + 1 /\ s \in sold
  BY DEF Cancel, Deliver
<1>2. /\ job' = [job EXCEPT ![p] = k]
      /\ UNCHANGED <<offers, activeCounter, counter, creator, sold, faults>>
  BY DEF Cancel, Become, Start
<1>3. /\ TypeOK /\ CallsServed /\ u \in Users /\ c \in Users
      /\ FanAgrees(u) /\ old \in Seq(Subscription)
  BY SalesAssumption DEF SInv, TypeOK
<1>4. \A q \in Procs : ~About(q, u)
  BY <1>1, <1>3, OnlyOneAbout DEF About
<1>5. k \in Job /\ k.pc = "count" /\ k.sale = s /\ k.sells = FALSE /\ k.read = {}
  <2>1. {} \in SUBSET Users /\ 0 \in Nat
    OBVIOUS
  <2>2. "count" \in Steps
    BY DEF Steps
  <2> QED BY <2>1, <2>2, Started
<1>6. PICK i \in Positions(s) :
        subscriptions' = [subscriptions EXCEPT ![u][i].active = FALSE]
  BY DEF Cancel
<1>7. i \in DOMAIN old /\ old[i].sale = s
  BY <1>6 DEF Positions
<1> PICK x : x = [sale |-> s, active |-> FALSE]
  OBVIOUS
<1> PICK new : new = [old EXCEPT ![i] = x]
  OBVIOUS
<1>8. subscriptions' = [subscriptions EXCEPT ![u] = new]
  <2>1. old[i] \in Subscription
    BY <1>3, <1>7
  <2> PICK y : y = old[i]
    OBVIOUS
  <2>2. [y EXCEPT !.active = FALSE] = x
    BY <1>7, <2>1, EndedIs
  <2>3. [old[i] EXCEPT !.active = FALSE] = x
    BY <2>2
  <2> QED BY <1>3, <1>6, <2>3 DEF TypeOK
<1>9. /\ new \in Seq(Subscription) /\ DOMAIN new = DOMAIN old
      /\ \A n \in DOMAIN old : new[n].sale = old[n].sale
      /\ \A n \in DOMAIN old : n # i => new[n] = old[n]
      /\ ~new[i].active
  <2>1. x \in Subscription /\ x.sale = s /\ ~x.active
    BY DEF Subscription
  <2> QED BY <1>3, <1>7, <2>1
<1>10. job'[p] = k /\ subscriptions'[u] = new
  <2>1. job \in [Procs -> Job] /\ subscriptions \in [Users -> Seq(Subscription)]
    BY <1>3 DEF TypeOK
  <2>2. job'[p] = k
    BY <1>2, <2>1
  <2>3. subscriptions'[u] = new
    BY <1>3, <1>8, <2>1
  <2> QED BY <2>2, <2>3
<1>11. RestTyped'
  <2>1. deliveries' \in 0 .. MaxDeliveries
    BY <1>1, <1>3, DeliveriesAssumption DEF TypeOK
  <2>2. job' \in [Procs -> Job]
    BY <1>2, <1>3, <1>5 DEF TypeOK
  <2>3. sold' \subseteq Sales /\ faults' \in 0 .. MaxFaults
    BY <1>2, <1>3 DEF TypeOK
  <2> QED BY <1>2, <1>3, <2>1, <2>2, <2>3 DEF RestTyped, TypeOK, offers, creator
<1>12. TypeOK'
  <2>1. \A n \in DOMAIN old : Fan[old[n].sale] = u /\ old[n].sale \in sold
    BY <1>3 DEF TypeOK
  <2>2. \A y \in Elements(new) : Fan[y.sale] = u /\ y.sale \in sold
    BY <1>9, <2>1 DEF Elements
  <2> QED BY <1>2, <1>3, <1>8, <1>9, <1>11, <2>2, ListChange
<1>13. CallsServed'
  <2>1. job \in [Procs -> Job] /\ sold' = sold
    BY <1>2, <1>3 DEF TypeOK
  <2> QED BY <1>1, <1>2, <1>3, <1>5, <2>1, CallsKept
<1>14. Single(new)
  <2>1. Single(old)
    BY <1>3 DEF FanAgrees
  <2> QED BY <1>9, <2>1 DEF Single
<1>15. ~SubscribedTo(u, c)'
  <2>1. ASSUME NEW n \in DOMAIN new, Creator[new[n].sale] = c
        PROVE  n = i
    BY <1>7, <1>9, <1>14, <2>1 DEF Single
  <2> QED BY <1>9, <1>10, <2>1 DEF SubscribedTo, Subscriptions
<1>16. HoldsTrue(p)'
  BY <1>5, <1>10, <1>15 DEF HoldsTrue
<1>17. ASSUME NEW d \in Users, d # c
       PROVE  SubscribedTo(u, d)' <=> SubscribedTo(u, d)
  <2>1. \A n \in DOMAIN old : Creator[old[n].sale] = d => n # i
    BY <1>7, <1>17
  <2>2. SubscribedTo(u, d)' <=>
          \E n \in DOMAIN new : new[n].active /\ Creator[new[n].sale] = d
    BY <1>10 DEF SubscribedTo, Subscriptions
  <2>3. SubscribedTo(u, d) <=>
          \E n \in DOMAIN old : old[n].active /\ Creator[old[n].sale] = d
    BY DEF SubscribedTo, Subscriptions
  <2> QED BY <1>9, <2>1, <2>2, <2>3
<1>18. FanAgrees(u)'
  <2>1. About(p, u)'
    BY <1>5, <1>10 DEF About, Idle
  <2>2. ASSUME faults' = 0, NEW d \in Users, d # c
        PROVE  Listed(u, d)'
    <3>1. Listed(u, d)
      BY <1>2, <1>3, <1>4, <2>2 DEF FanAgrees
    <3> QED BY <1>2, <1>17, <2>2, <3>1 DEF Listed, creator
  <2>3. job'[p].pc = "count" /\ job'[p].sale = s
    BY <1>5, <1>10
  <2> QED BY <1>10, <1>14, <2>1, <2>2, <2>3 DEF FanAgrees
<1>19. StepAbout(p, u)
  <2>1. job' = [job EXCEPT ![p] = job'[p]] /\ Fan[job'[p].sale] = u
    BY <1>2, <1>5, <1>10
  <2>2. subscriptions \in [Users -> Seq(Subscription)]
    BY <1>3 DEF TypeOK
  <2>3. \A v \in Users \ {u} : subscriptions'[v] = subscriptions[v]
    BY <1>8, <2>2
  <2>4. /\ UNCHANGED <<activeCounter, counter, subscribers, sold, faults>>
        /\ \E t \in Serves[p] : Fan[t] = u
    BY <1>1, <1>2 DEF creator
  <2> QED BY <1>1, <2>1, <2>3, <2>4 DEF StepAbout
<1> QED BY <1>3, <1>12, <1>13, <1>16, <1>18, <1>19, OthersKept

-----------------------------------------------------------------------------
(* Theorems                                                                *)

LEMMA OfferKeeps ==
  ASSUME SInv, NEW a \in Creators, Offer(a)
  PROVE  SInv'
<1>1. /\ UNCHANGED <<fan, creator, sold, job, deliveries, faults>>
      /\ prices' \subseteq prices \cup {a}
      /\ \E u \in Users : forms' \subseteq forms \cup {Form(u, a)}
  <2>1. CASE SetPrices(a)
    <3>1. \E u \in Users : TRUE
      BY SalesAssumption DEF Creators
    <3> QED BY <2>1, <3>1 DEF SetPrices
  <2>2. CASE \E u \in Users : AskForm(u, a)
    BY <2>2 DEF AskForm
  <2> QED BY <2>1, <2>2 DEF Offer
<1>2. TypeOK'
  BY <1>1 DEF SInv, TypeOK, fan, creator
<1> QED BY <1>1, <1>2 DEF SInv, CallsServed, HoldsTrue, FanAgrees, Idle, About, Counted,
       Listed, SubscribedTo, Subscriptions, fan, creator

LEMMA SInvNext == FansServedApart /\ SInv /\ [Next]_vars => SInv'
<1> SUFFICES ASSUME FansServedApart, SInv, [Next]_vars
             PROVE  SInv'
  OBVIOUS
<1>1. CASE \E a \in Creators : Offer(a)
  BY <1>1, OfferKeeps
<1>2. CASE \E p \in Procs : Webhook(p)
  BY <1>2, ReadKeeps, CancelKeeps DEF Webhook
<1>3. CASE \E p \in Procs : Continue(p)
  BY <1>3, PullKeeps, PushKeeps, CountKeeps, SetKeeps, EndKeeps DEF Continue
<1>4. CASE \E p \in Procs : AbortJob(p)
  BY <1>4, AbortKeeps
<1>5. CASE UNCHANGED vars
  BY <1>5 DEF SInv, TypeOK, CallsServed, HoldsTrue, FanAgrees, Idle, About, Counted,
       Listed, SubscribedTo, Subscriptions, fan, creator, offers, vars
<1> QED BY <1>1, <1>2, <1>3, <1>4, <1>5 DEF Next

LEMMA SubscriptionsKeep == ASSUME FansServedApart PROVE Spec => []SInv
  BY SInvInit, SInvNext, PTL DEF Spec

(* Every variable of Subscriptions keeps its type, and a subscription is   *)
(* stored in the fan it was sold to.                                       *)
THEOREM SubscriptionsTyped == ASSUME FansServedApart PROVE Spec => []TypeOK
<1>1. SInv => TypeOK
  BY DEF SInv
<1> QED BY <1>1, SubscriptionsKeep, PTL

(* If the webhooks of a fan come one after the other, then whenever none   *)
(* of them is running and none was cut short, the list of the fan, its     *)
(* counters and the subscribers of every creator agree, however webhooks   *)
(* of other fans interleave (ccBill.service.ts:206-252,                    *)
(* user.model.ts:767-819).                                                 *)
THEOREM SubscriptionsAgreeAlways ==
  ASSUME FansServedApart
  PROVE  Spec => []SubscriptionsAgree
  BY SInvAgrees, SubscriptionsKeep, PTL
=============================================================================
