--------------------------- MODULE Clients_proofs ---------------------------
(***************************************************************************)
(* Safety of the calls to a provider, for every number of requests, every  *)
(* provider, every patience of the breaker and any number of lapses.       *)
(***************************************************************************)
EXTENDS Clients, FiniteSetTheorems, SequenceTheorems, WellFoundedInduction, TLAPS

-----------------------------------------------------------------------------
(* The steps of the operations.                                            *)

Steps == {"org", "search", "create", "save", "resolve", "checkout", "portal", "invoices",
          "subscription", "token", "user", "emails", "run", "cancel", "status"}

Ops == {"checkout", "portal", "invoices", "subscription", "google", "github", "trigger",
        "cancelJob", "jobStatus"}

(* A suffix is the end of a sequence, place by place.                      *)
LEMMA SuffixPlaces ==
  ASSUME NEW S, NEW t \in Seq(S), NEW s \in Seq(S)
  PROVE  IsSuffix(s, t) <=>
           /\ Len(s) <= Len(t)
           /\ \A i \in 1 .. Len(s) : s[i] = t[Len(t) - Len(s) + i]
<1> DEFINE a == Reverse(s)
           b == Reverse(t)
<1>1. a \in Seq(S) /\ Len(a) = Len(s) /\ \A i \in 1 .. Len(s) : a[i] = s[Len(s) - i + 1]
  BY DEF Reverse
<1>2. b \in Seq(S) /\ Len(b) = Len(t) /\ \A i \in 1 .. Len(t) : b[i] = t[Len(t) - i + 1]
  BY DEF Reverse
<1>3. IsSuffix(s, t) <=> IsPrefix(a, b)
  BY DEF IsSuffix
<1> HIDE DEF a, b
<1>4. IsPrefix(a, b) <=> Len(a) <= Len(b) /\ \A i \in 1 .. Len(a) : a[i] = b[i]
  BY <1>1, <1>2 DEF IsPrefix
<1>5. SUFFICES ASSUME Len(s) <= Len(t)
               PROVE  (\A i \in 1 .. Len(s) : a[i] = b[i])
                        <=> \A i \in 1 .. Len(s) : s[i] = t[Len(t) - Len(s) + i]
  BY <1>1, <1>2, <1>3, <1>4
<1>6. ASSUME NEW i \in 1 .. Len(s)
      PROVE  LET j == Len(s) - i + 1
             IN  /\ j \in 1 .. Len(s) /\ j \in 1 .. Len(t)
                 /\ Len(s) - j + 1 = i /\ Len(t) - j + 1 = Len(t) - Len(s) + i
  BY <1>5
<1>7. ASSUME NEW i \in 1 .. Len(s)
      PROVE  LET j == Len(s) - i + 1
             IN  a[j] = s[i] /\ b[j] = t[Len(t) - Len(s) + i]
  <2> DEFINE j == Len(s) - i + 1
  <2>1. /\ j \in 1 .. Len(s) /\ j \in 1 .. Len(t)
        /\ Len(s) - j + 1 = i /\ Len(t) - j + 1 = Len(t) - Len(s) + i
    BY <1>6
  <2> HIDE DEF j
  <2>2. a[j] = s[i]
    BY <1>1, <2>1
  <2>3. b[j] = t[Len(t) - Len(s) + i]
    BY <1>2, <2>1
  <2> QED
    BY <2>2, <2>3 DEF j
<1>8. ASSUME \A i \in 1 .. Len(s) : a[i] = b[i], NEW i \in 1 .. Len(s)
      PROVE  s[i] = t[Len(t) - Len(s) + i]
  BY <1>6, <1>7, <1>8
<1>9. ASSUME \A i \in 1 .. Len(s) : s[i] = t[Len(t) - Len(s) + i], NEW j \in 1 .. Len(s)
      PROVE  a[j] = b[j]
  <2> DEFINE i == Len(s) - j + 1
  <2>1. i \in 1 .. Len(s) /\ Len(s) - i + 1 = j
    OBVIOUS
  <2>2. s[i] = t[Len(t) - Len(s) + i]
    BY <1>9, <2>1
  <2> HIDE DEF i
  <2> QED
    BY <1>7, <2>1, <2>2
<1> QED
  BY <1>8, <1>9

(* What remains after a step is a suffix too, and the first step of a      *)
(* suffix is known by its length.                                          *)
LEMMA SuffixTail ==
  ASSUME NEW S, NEW t \in Seq(S), NEW s \in Seq(S), IsSuffix(s, t), s # << >>
  PROVE  /\ IsSuffix(Tail(s), t)
         /\ Tail(s) \in Seq(S)
         /\ Len(Tail(s)) = Len(s) - 1
         /\ Len(s) \in 1 .. Len(t)
         /\ Head(s) = t[Len(t) - Len(s) + 1]
<1>1. /\ Len(s) <= Len(t) /\ Len(s) \in 1 .. Len(t)
      /\ \A i \in 1 .. Len(s) : s[i] = t[Len(t) - Len(s) + i]
  BY SuffixPlaces
<1>2. /\ Tail(s) \in Seq(S) /\ Len(Tail(s)) = Len(s) - 1
      /\ \A i \in 1 .. Len(Tail(s)) : Tail(s)[i] = s[i + 1]
  BY HeadTailProperties
<1>3. \A i \in 1 .. Len(Tail(s)) : Tail(s)[i] = t[Len(t) - Len(Tail(s)) + i]
  BY <1>1, <1>2
<1>4. IsSuffix(Tail(s), t)
  <2> DEFINE u == Tail(s)
  <2>1. /\ u \in Seq(S) /\ Len(u) <= Len(t)
        /\ \A i \in 1 .. Len(u) : u[i] = t[Len(t) - Len(u) + i]
    BY <1>1, <1>2, <1>3
  <2> HIDE DEF u
  <2>2. IsSuffix(u, t)
    BY <2>1, SuffixPlaces
  <2> QED
    BY <2>2 DEF u
<1>5. Head(s) = s[1]
  OBVIOUS
<1> QED
  BY <1>1, <1>2, <1>4, <1>5

(* Nothing is left at the end, and nothing has been done at the start.     *)
LEMMA SuffixEnds ==
  ASSUME NEW S, NEW t \in Seq(S)
  PROVE  IsSuffix(<< >>, t) /\ IsSuffix(t, t)
<1>2. IsSuffix(<< >>, t)
  <2> DEFINE e == << >>
  <2>1. /\ e \in Seq(S) /\ Len(e) <= Len(t)
        /\ \A i \in 1 .. Len(e) : e[i] = t[Len(t) - Len(e) + i]
    OBVIOUS
  <2> HIDE DEF e
  <2>2. IsSuffix(e, t)
    BY <2>1, SuffixPlaces
  <2> QED
    BY <2>2 DEF e
<1>3. IsSuffix(t, t)
  BY SuffixPlaces
<1> QED
  BY <1>2, <1>3


(* Two sequences of steps one after the other. *)
LEMMA Joined ==
  ASSUME NEW s \in Seq(Steps), NEW u \in Seq(Steps)
  PROVE  /\ s \o u \in Seq(Steps)
         /\ Len(s \o u) = Len(s) + Len(u)
         /\ \A i \in 1 .. Len(s) + Len(u) :
              (s \o u)[i] = IF i <= Len(s) THEN s[i] ELSE u[i - Len(s)]
<1> DEFINE S == Steps
<1>1. s \in Seq(S) /\ u \in Seq(S)
  OBVIOUS
<1> HIDE DEF S
<1>2. /\ s \o u \in Seq(S)
      /\ Len(s \o u) = Len(s) + Len(u)
      /\ \A i \in 1 .. Len(s) + Len(u) :
           (s \o u)[i] = IF i <= Len(s) THEN s[i] ELSE u[i - Len(s)]
  BY <1>1, ConcatProperties
<1> QED
  BY <1>2 DEF S

(* A checkout and a portal session look a customer up before they resolve  *)
(* it.                                                                     *)
Sessions == {"checkout", "portal"}

LEMMA CheckoutPlaces ==
  ASSUME NEW last \in Sessions
  PROVE  LET t == <<"org">> \o EnsureCustomer \o <<"resolve", last>>
         IN  /\ t \in Seq(Steps) /\ Len(t) = 6
             /\ t[1] = "org" /\ t[2] = "search" /\ t[3] = "create" /\ t[4] = "save"
             /\ t[5] = "resolve" /\ t[6] = last
<1> DEFINE org == <<"org">>
           t   == org \o EnsureCustomer
           end == <<"resolve", last>>
           all == t \o end
<1>1. org \in Seq(Steps)
  BY DEF Steps
<1>2. Len(org) = 1 /\ org[1] = "org"
  OBVIOUS
<1>3. EnsureCustomer \in Seq(Steps)
  BY DEF Steps, EnsureCustomer
<1>4. /\ Len(EnsureCustomer) = 3
      /\ EnsureCustomer[1] = "search" /\ EnsureCustomer[2] = "create" /\ EnsureCustomer[3] = "save"
  BY DEF EnsureCustomer
<1>5. end \in Seq(Steps)
  BY DEF Steps, Sessions
<1>6. Len(end) = 2 /\ end[1] = "resolve" /\ end[2] = last
  OBVIOUS
<1>7. /\ t \in Seq(Steps) /\ Len(t) = Len(org) + Len(EnsureCustomer)
      /\ \A i \in 1 .. Len(org) + Len(EnsureCustomer) :
           t[i] = IF i <= Len(org) THEN org[i] ELSE EnsureCustomer[i - Len(org)]
  BY <1>1, <1>3, Joined
<1>8. /\ all \in Seq(Steps) /\ Len(all) = Len(t) + Len(end)
      /\ \A i \in 1 .. Len(t) + Len(end) :
           all[i] = IF i <= Len(t) THEN t[i] ELSE end[i - Len(t)]
  BY <1>5, <1>7, Joined
<1> HIDE DEF org, t, end, all
<1>9. Len(t) = 4 /\ t[1] = "org" /\ t[2] = "search" /\ t[3] = "create" /\ t[4] = "save"
  BY <1>2, <1>4, <1>7
<1>10. /\ Len(all) = 6 /\ all[1] = "org" /\ all[2] = "search" /\ all[3] = "create"
       /\ all[4] = "save" /\ all[5] = "resolve" /\ all[6] = last
  BY <1>6, <1>8, <1>9
<1> QED
  BY <1>8, <1>10 DEF t, org, end, all

(* The steps of a session, one by one.                                     *)
LEMMA SessionSteps ==
  ASSUME NEW op \in Sessions
  PROVE  /\ StepsOf[op] \in Seq(Steps) /\ Len(StepsOf[op]) = 6
         /\ StepsOf[op][1] = "org" /\ StepsOf[op][2] = "search" /\ StepsOf[op][3] = "create"
         /\ StepsOf[op][4] = "save" /\ StepsOf[op][5] = "resolve" /\ StepsOf[op][6] = op
<1>1. CASE op = "checkout"
  <2>1. StepsOf[op] = <<"org">> \o EnsureCustomer \o <<"resolve", "checkout">>
    BY <1>1 DEF StepsOf, CheckoutSteps
  <2> QED
    BY <1>1, <2>1, CheckoutPlaces DEF Sessions
<1>2. CASE op = "portal"
  <2>1. StepsOf[op] = <<"org">> \o EnsureCustomer \o <<"resolve", "portal">>
    BY <1>2 DEF StepsOf, PortalSteps
  <2> QED
    BY <1>2, <2>1, CheckoutPlaces DEF Sessions
<1> QED
  BY <1>1, <1>2 DEF Sessions

(* The other operations neither read the organization nor make customers,  *)
(* and only the reads at Stripe resolve one.                               *)
LEMMA OtherSteps ==
  ASSUME NEW op \in Ops \ Sessions
  PROVE  /\ StepsOf[op] \in Seq(Steps) /\ Len(StepsOf[op]) \in 1 .. 3
         /\ \A i \in 1 .. Len(StepsOf[op]) :
              /\ StepsOf[op][i] \notin {"org", "search", "create", "save"}
              /\ StepsOf[op][i] = "resolve" => op \in {"invoices", "subscription"}
<1>1. CASE op = "invoices"
  <2>1. StepsOf[op] = <<"resolve", "invoices">>
    BY <1>1 DEF StepsOf, InvoiceSteps
  <2> QED
    BY <1>1, <2>1 DEF Steps
<1>2. CASE op = "subscription"
  <2>1. StepsOf[op] = <<"resolve", "subscription">>
    BY <1>2 DEF StepsOf, SubscriptionSteps
  <2> QED
    BY <1>2, <2>1 DEF Steps
<1>3. CASE op = "google"
  <2>1. StepsOf[op] = <<"token", "user">>
    BY <1>3 DEF StepsOf, GoogleSteps
  <2> QED
    BY <1>3, <2>1 DEF Steps
<1>4. CASE op = "github"
  <2>1. StepsOf[op] = <<"token", "user", "emails">>
    BY <1>4 DEF StepsOf, GithubSteps
  <2> QED
    BY <1>4, <2>1 DEF Steps
<1>5. CASE op = "trigger"
  <2>1. StepsOf[op] = <<"run">>
    BY <1>5 DEF StepsOf, TriggerSteps
  <2> QED
    BY <1>5, <2>1 DEF Steps
<1>6. CASE op = "cancelJob"
  <2>1. StepsOf[op] = <<"cancel">>
    BY <1>6 DEF StepsOf, CancelSteps
  <2> QED
    BY <1>6, <2>1 DEF Steps
<1>7. CASE op = "jobStatus"
  <2>1. StepsOf[op] = <<"status">>
    BY <1>7 DEF StepsOf, StatusSteps
  <2> QED
    BY <1>7, <2>1 DEF Steps
<1> QED
  BY <1>1, <1>2, <1>3, <1>4, <1>5, <1>6, <1>7 DEF Ops, Sessions

(* Every operation has steps.                                              *)
LEMMA StepsType ==
  ASSUME NEW op \in Ops
  PROVE  StepsOf[op] \in Seq(Steps) /\ StepsOf[op] # << >>
<1>1. CASE op \in Sessions
  BY <1>1, SessionSteps
<1>2. CASE op \notin Sessions
  BY <1>2, OtherSteps
<1> QED
  BY <1>1, <1>2


-----------------------------------------------------------------------------
(* One request.                                                            *)

Results == {"none", "ok", "unfinished", "rejected", "refused", "noCustomer", "failed",
            "limited", "garbled"}

Calls == [op : Ops, todo : Seq(Steps), attempt : Nat, flying : BOOLEAN, hungUp : BOOLEAN,
          late : BOOLEAN, customer : Nat, effects : Nat, failures : Nat, troubled : BOOLEAN,
          result : Results]

(* Every request gets what was promised, unless something went wrong with  *)
(* it or it reads at a customer nobody has made.                           *)
Healthy(q) ==
  \/ q.troubled
  \/ q.result = Promised(q.op)
  \/ q.result = "noCustomer" /\ q.op \in {"invoices", "subscription"}

(* A request to provider p, in itself: one about to save a customer has    *)
(* one, and every effect of the present step but the one that ended it is  *)
(* explained by a failure.                                                 *)
Fits(q, p) ==
  /\ q \in Calls
  /\ q.op \in Operations[p]
  /\ IsSuffix(q.todo, StepsOf[q.op])
  /\ q.attempt \in 0 .. Retries[p].max
  /\ q.result = "none" =>
       /\ q.todo # << >>
       /\ q.flying => Head(q.todo) \notin Local
       /\ Head(q.todo) = "save" => q.customer # NoCustomer
       /\ q.effects <= q.failures
  /\ q.result # "none" => q.effects <= q.failures + 1 /\ Healthy(q)

Names == {"stripe", "google", "github", "runpod"}

LEMMA RetriesType ==
  ASSUME NEW p \in Names
  PROVE  Retries[p].max \in Nat
<1>1. /\ Retries["stripe"].max = 2 /\ Retries["google"].max = 1
      /\ Retries["github"].max = 1 /\ Retries["runpod"].max = 2
  BY DEF Retries, StripeRetries, GoogleRetries, GithubRetries, RunPodRetries
<1> QED
  BY <1>1 DEF Names

LEMMA OperationsType ==
  ASSUME NEW p \in Names
  PROVE  Operations[p] \subseteq Ops
BY DEF Names, Operations, Ops

(* A request that is over fits.                                            *)
LEMMA OverFits ==
  ASSUME NEW p \in Names, NEW q \in Calls, NEW x \in Results \ {"none"},
         q.op \in Operations[p], q.effects <= q.failures + 1,
         \/ q.troubled
         \/ x = Promised(q.op)
         \/ x = "noCustomer" /\ q.op \in {"invoices", "subscription"}
  PROVE  /\ Fits(Over(q, x), p)
         /\ Over(q, x).result = x
         /\ Over(q, x).op = q.op
<1> DEFINE n == Over(q, x)
<1>1. q.op \in Ops /\ StepsOf[q.op] \in Seq(Steps)
  BY OperationsType, StepsType
<1>2. << >> \in Seq(Steps)
  OBVIOUS
<1>3. Greatest(0, q.effects - q.failures) \in 0 .. 1
  BY DEF Greatest, Calls
<1>4. n \in Calls
  <2> DEFINE e == Greatest(0, q.effects - q.failures)
             m == [q EXCEPT !.result = x, !.todo = << >>, !.attempt = 0, !.flying = FALSE,
                            !.hungUp = FALSE]
  <2>1. m \in Calls
    BY <1>2 DEF Calls
  <2>2. n = [m EXCEPT !.late = FALSE, !.customer = 0, !.effects = e, !.failures = 0]
    BY DEF Over, NoCustomer
  <2>3. e \in Nat
    BY <1>3
  <2> HIDE DEF n, m, e
  <2> QED
    BY <2>1, <2>2, <2>3 DEF Calls
<1>5. /\ n.result = x /\ n.op = q.op /\ n.todo = << >> /\ n.attempt = 0
      /\ n.troubled = q.troubled /\ n.failures = 0
      /\ n.effects = Greatest(0, q.effects - q.failures)
  BY DEF Over, Calls
<1>6. IsSuffix(n.todo, StepsOf[n.op])
  BY <1>1, <1>5, SuffixEnds
<1>7. Healthy(n)
  BY <1>5 DEF Healthy
<1> HIDE DEF n
<1>8. Fits(n, p)
  BY <1>3, <1>4, <1>5, <1>6, <1>7, RetriesType DEF Fits
<1> QED
  BY <1>5, <1>8 DEF n

(* So does one that ends in an error, whatever it has done.                *)
LEMMA EndedFits ==
  ASSUME NEW p \in Names, NEW q \in Calls, NEW x \in Results \ {"none"},
         q.op \in Operations[p], q.effects <= q.failures + 1
  PROVE  /\ Fits(EndedWith(q, x), p)
         /\ EndedWith(q, x).result = x
         /\ EndedWith(q, x).op = q.op
<1> DEFINE m == [q EXCEPT !.troubled = TRUE]
<1>1. /\ m \in Calls /\ m.op = q.op /\ m.effects = q.effects /\ m.failures = q.failures
      /\ m.troubled
  BY DEF Calls
<1>2. EndedWith(q, x) = Over(m, x)
  BY DEF EndedWith, Over, Calls
<1> HIDE DEF m
<1> QED
  BY <1>1, <1>2, OverFits

(* A request that has done a step fits: the last one is its promise, and   *)
(* before the next one nothing has been sent for it.                       *)
LEMMA AdvancedFits ==
  ASSUME NEW p \in Names, NEW q \in Calls,
         q.op \in Operations[p], q.result = "none",
         q.todo # << >>, IsSuffix(q.todo, StepsOf[q.op]),
         q.effects <= q.failures + 1,
         Len(q.todo) # 1 /\ Head(Tail(q.todo)) = "save" => q.customer # NoCustomer
  PROVE  LET n == Advanced(q)
         IN  /\ Fits(n, p)
             /\ n.op = q.op
             /\ Len(q.todo) = 1 => n.result # "none"
             /\ Len(q.todo) # 1 =>
                  /\ n.result = "none" /\ ~n.flying
                  /\ n.troubled = q.troubled
                  /\ n.todo = Tail(q.todo)
<1> DEFINE n == Advanced(q)
<1>1. q.op \in Ops /\ StepsOf[q.op] \in Seq(Steps)
  BY OperationsType, StepsType
<1>2. q.todo \in Seq(Steps)
  BY DEF Calls
<1>3. /\ IsSuffix(Tail(q.todo), StepsOf[q.op]) /\ Tail(q.todo) \in Seq(Steps)
      /\ Len(Tail(q.todo)) = Len(q.todo) - 1
  BY <1>1, <1>2, SuffixTail
<1>4. CASE Len(q.todo) = 1
  <2>1. Promised(q.op) \in Results \ {"none"}
    BY DEF Promised, Results
  <2>2. n = Over(q, Promised(q.op))
    BY <1>4 DEF Advanced
  <2> HIDE DEF n
  <2> QED
    BY <1>4, <2>1, <2>2, OverFits DEF n
<1>5. CASE Len(q.todo) # 1
  <2>1. n = [q EXCEPT !.todo = Tail(@), !.attempt = 0, !.flying = FALSE,
                      !.effects = 0, !.failures = 0]
    BY <1>5 DEF Advanced
  <2>2. n \in Calls
    <3> DEFINE rest == Tail(q.todo)
    <3>1. n = [q EXCEPT !.todo = rest, !.attempt = 0, !.flying = FALSE, !.effects = 0,
                        !.failures = 0]
      BY <2>1
    <3>2. rest \in Seq(Steps)
      BY <1>3
    <3> HIDE DEF n, rest
    <3> QED
      BY <3>1, <3>2 DEF Calls
  <2>3. /\ n.op = q.op /\ n.result = "none" /\ ~n.flying /\ n.troubled = q.troubled
        /\ n.todo = Tail(q.todo) /\ n.attempt = 0 /\ n.effects = 0 /\ n.failures = 0
        /\ n.customer = q.customer
    BY <2>1 DEF Calls
  <2>4. Tail(q.todo) # << >>
    <3> DEFINE rest == Tail(q.todo)
    <3>1. Len(q.todo) # 0
      BY <1>2
    <3>2. Len(rest) # 0
      BY <1>2, <1>3, <1>5, <3>1
    <3> HIDE DEF rest
    <3>3. rest # << >>
      BY <3>2
    <3> QED
      BY <3>3 DEF rest
  <2> HIDE DEF n
  <2>5. Fits(n, p)
    BY <1>3, <1>5, <2>2, <2>3, <2>4, RetriesType DEF Fits
  <2> QED
    BY <1>5, <2>3, <2>5 DEF n
<1> QED
  BY <1>4, <1>5


-----------------------------------------------------------------------------
(* The inductive invariant.                                                *)

Typed ==
  /\ provider \in Providers
  /\ request \in [Requests -> Calls \cup {Idle}]
  /\ breaker \in [state : {"closed", "open", "half"}, failures : 0 .. TripAfter,
                  calls : SUBSET Requests]
  /\ row \in Nat
  /\ customers \subseteq Nat \ {NoCustomer} /\ IsFiniteSet(customers)
  /\ excused \in BOOLEAN

RequestsFit == \A r \in Requests : Started(r) => Fits(request[r], provider)

(* An untroubled request for a session has made sure that the row names a  *)
(* customer before it resolves it, and nobody empties the row.             *)
Ensured(q) == q.result = "none" /\ q.op \in Sessions /\ ~q.troubled /\ Len(q.todo) <= 2

RowHolds == \A r \in Requests : Started(r) /\ Ensured(request[r]) => row # NoCustomer

(* The breaker counts calls that are under way, at most one while it is    *)
(* half open.                                                              *)
BreakerFits ==
  /\ \A r \in breaker.calls : Flying(r)
  /\ breaker.state = "open" => breaker.calls = {}
  /\ breaker.state = "half" => \A r, s \in breaker.calls : r = s

(* As long as nothing excuses a second customer, one request at most is    *)
(* about sessions, and it creates a customer if there is none.             *)
OneEnsures ==
  ~excused =>
    /\ Cardinality(customers) <= 1
    /\ \A r \in Requests : At(r, "create") => customers = {}
    /\ \A r, s \in Requests :
         Active(r) /\ Active(s) /\ request[r].op \in Sessions /\ request[s].op \in Sessions => r = s

IInv == Typed /\ RequestsFit /\ RowHolds /\ BreakerFits /\ OneEnsures


-----------------------------------------------------------------------------
(* Where a request stands.                                                 *)

(* The next step of a session is known by what is left, and the other way. *)
LEMMA SessionPlaces ==
  ASSUME NEW op \in Sessions, NEW s \in Seq(Steps), s # << >>, IsSuffix(s, StepsOf[op])
  PROVE  /\ Len(s) \in 1 .. 6
         /\ Len(s) = 6 <=> Head(s) = "org"
         /\ Len(s) = 5 <=> Head(s) = "search"
         /\ Len(s) = 4 <=> Head(s) = "create"
         /\ Len(s) = 3 <=> Head(s) = "save"
         /\ Len(s) = 2 <=> Head(s) = "resolve"
         /\ Len(s) = 1 <=> Head(s) = op
<1> DEFINE t == StepsOf[op]
           k == Len(s)
<1>1. t \in Seq(Steps)
  BY SessionSteps
<1>2. /\ Len(t) = 6 /\ t[1] = "org" /\ t[2] = "search" /\ t[3] = "create"
      /\ t[4] = "save" /\ t[5] = "resolve" /\ t[6] = op
  BY SessionSteps
<1>3. IsSuffix(s, t)
  OBVIOUS
<1> HIDE DEF t
<1>4. k \in 1 .. Len(t) /\ Head(s) = t[Len(t) - k + 1]
  BY <1>1, <1>3, SuffixTail
<1> HIDE DEF k
<1>5. k \in 1 .. 6 /\ Head(s) = t[7 - k]
  BY <1>2, <1>4
<1>6. /\ k = 1 => Head(s) = t[6]
      /\ k = 2 => Head(s) = t[5]
      /\ k = 3 => Head(s) = t[4]
      /\ k = 4 => Head(s) = t[3]
      /\ k = 5 => Head(s) = t[2]
      /\ k = 6 => Head(s) = t[1]
  BY <1>5
<1>7. k = 1 \/ k = 2 \/ k = 3 \/ k = 4 \/ k = 5 \/ k = 6
  BY <1>5
<1> QED
  BY <1>2, <1>5, <1>6, <1>7 DEF k, Sessions

(* No other operation ever looks a customer up.                            *)
LEMMA OtherPlaces ==
  ASSUME NEW op \in Ops \ Sessions, NEW s \in Seq(Steps), s # << >>, IsSuffix(s, StepsOf[op])
  PROVE  /\ Head(s) \notin {"org", "search", "create", "save"}
         /\ Head(s) = "resolve" => op \in {"invoices", "subscription"}
<1> DEFINE t == StepsOf[op]
<1>1. /\ t \in Seq(Steps)
      /\ \A i \in 1 .. Len(t) : /\ t[i] \notin {"org", "search", "create", "save"}
                                /\ t[i] = "resolve" => op \in {"invoices", "subscription"}
  BY OtherSteps
<1>2. IsSuffix(s, t)
  OBVIOUS
<1> HIDE DEF t
<1>3. Len(s) \in 1 .. Len(t) /\ Head(s) = t[Len(t) - Len(s) + 1]
  BY <1>1, <1>2, SuffixTail
<1>4. Len(t) - Len(s) + 1 \in 1 .. Len(t)
  BY <1>1, <1>3
<1> QED
  BY <1>1, <1>3, <1>4

(* A request that has done a step stands at the next one: it creates after *)
(* it has searched and saves after it has created, and it is ensured only  *)
(* if it was, or has just saved.                                           *)
LEMMA AdvancedPlaces ==
  ASSUME NEW p \in Names, NEW q \in Calls,
         q.op \in Operations[p], q.result = "none",
         q.todo # << >>, IsSuffix(q.todo, StepsOf[q.op]),
         q.effects <= q.failures + 1,
         Head(q.todo) = "create" => q.customer # NoCustomer
  PROVE  LET n == Advanced(q)
         IN  /\ Fits(n, p)
             /\ n.op = q.op
             /\ ~(n.result = "none" /\ n.flying)
             /\ n.result = "none" /\ Head(n.todo) = "create" => Head(q.todo) = "search"
             /\ Ensured(n) => Ensured(q) \/ (Head(q.todo) = "save" /\ ~q.troubled)
             /\ Head(q.todo) = "create" => ~Ensured(n)
<1> DEFINE n == Advanced(q)
           rest == Tail(q.todo)
<1>1. q.op \in Ops /\ StepsOf[q.op] \in Seq(Steps)
  BY OperationsType, StepsType
<1>2. q.todo \in Seq(Steps)
  BY DEF Calls
<1>3. IsSuffix(rest, StepsOf[q.op]) /\ rest \in Seq(Steps) /\ Len(rest) = Len(q.todo) - 1
  BY <1>1, <1>2, SuffixTail
<1> HIDE DEF rest
<1>4. Len(q.todo) # 1 => rest # << >>
  <2>1. Len(q.todo) # 0
    BY <1>2
  <2>2. Len(q.todo) # 1 => Len(rest) # 0
    BY <1>2, <1>3, <2>1
  <2> QED
    BY <2>2
<1>5. ASSUME Len(q.todo) # 1
      PROVE  /\ Head(rest) = "save" => Head(q.todo) = "create"
             /\ Head(rest) = "create" => Head(q.todo) = "search"
             /\ q.op \in Sessions /\ Len(rest) <= 2 => Len(q.todo) <= 2 \/ Head(q.todo) = "save"
             /\ q.op \in Sessions /\ Len(rest) <= 2 => Head(q.todo) # "create"
  <2>1. CASE q.op \in Sessions
    <3>1. /\ Len(q.todo) \in 1 .. 6
          /\ Len(q.todo) = 5 <=> Head(q.todo) = "search"
          /\ Len(q.todo) = 4 <=> Head(q.todo) = "create"
          /\ Len(q.todo) = 3 <=> Head(q.todo) = "save"
      BY <1>2, <2>1, SessionPlaces
    <3>2. /\ Len(rest) = 4 <=> Head(rest) = "create"
          /\ Len(rest) = 3 <=> Head(rest) = "save"
      BY <1>3, <1>4, <1>5, <2>1, SessionPlaces
    <3>3. ASSUME NEW k \in 1 .. 6, NEW l, l = k - 1
          PROVE  /\ l = 3 => k = 4
                 /\ l = 4 => k = 5
                 /\ l <= 2 => k <= 2 \/ k = 3
      BY <3>3
    <3>4. Len(q.todo) \in 1 .. 6
      BY <3>1
    <3>5. /\ Len(rest) = 3 => Len(q.todo) = 4
          /\ Len(rest) = 4 => Len(q.todo) = 5
          /\ Len(rest) <= 2 => Len(q.todo) <= 2 \/ Len(q.todo) = 3
      BY <1>3, <3>3, <3>4
    <3>6. Len(q.todo) = 4 => ~(Len(rest) <= 2)
      BY <1>3
    <3> QED
      BY <3>1, <3>2, <3>5, <3>6
  <2>2. CASE q.op \notin Sessions
    BY <1>1, <1>3, <1>4, <1>5, <2>2, OtherPlaces
  <2> QED
    BY <2>1, <2>2
<1>6. /\ Fits(n, p)
      /\ n.op = q.op
      /\ Len(q.todo) = 1 => n.result # "none"
      /\ Len(q.todo) # 1 =>
           /\ n.result = "none" /\ ~n.flying
           /\ n.troubled = q.troubled
           /\ n.todo = rest
  BY <1>5, AdvancedFits DEF rest
<1> HIDE DEF n
<1>7. /\ ~(n.result = "none" /\ n.flying)
      /\ n.result = "none" /\ Head(n.todo) = "create" => Head(q.todo) = "search"
      /\ Ensured(n) => Ensured(q) \/ (Head(q.todo) = "save" /\ ~q.troubled)
      /\ Head(q.todo) = "create" => ~Ensured(n)
  BY <1>5, <1>6 DEF Ensured
<1> QED
  BY <1>6, <1>7 DEF n


-----------------------------------------------------------------------------
(* One request moves.                                                      *)

LEMMA NamesHold ==
  ASSUME Typed
  PROVE  provider \in Names
BY ClientsAssumption DEF Typed, Names

LEMMA ActiveFits ==
  ASSUME Typed, RequestsFit, NEW r \in Requests, Active(r)
  PROVE  /\ Fits(request[r], provider)
         /\ request[r] \in Calls /\ request[r].result = "none"
         /\ request[r].todo # << >> /\ request[r].todo \in Seq(Steps)
BY DEF RequestsFit, Active, Fits, Calls

(* Who creates a customer is about a session.                              *)
LEMMA CreatesForSession ==
  ASSUME Typed, RequestsFit, NEW r \in Requests, Active(r),
         Head(request[r].todo) \in {"org", "search", "create", "save"}
  PROVE  request[r].op \in Sessions
<1>1. Fits(request[r], provider) /\ request[r].todo # << >> /\ request[r].todo \in Seq(Steps)
  BY ActiveFits
<1>2. request[r].op \in Ops /\ IsSuffix(request[r].todo, StepsOf[request[r].op])
  BY <1>1 DEF Fits, Calls
<1> QED
  BY <1>1, <1>2, OtherPlaces

(* Request r becomes n: what that needs of n, of the breaker and of the    *)
(* row.                                                                    *)
LEMMA RequestMoves ==
  ASSUME Typed, RequestsFit, RowHolds, BreakerFits,
         NEW r \in Requests, NEW n,
         request' = [request EXCEPT ![r] = n],
         provider' = provider,
         Fits(n, provider),
         breaker' \in [state : {"closed", "open", "half"}, failures : 0 .. TripAfter,
                       calls : SUBSET Requests],
         \A c \in breaker'.calls :
           (c \in breaker.calls /\ c # r) \/ (c = r /\ n.result = "none" /\ n.flying),
         breaker'.state = "open" => breaker'.calls = {},
         breaker'.state = "half" => \A c, d \in breaker'.calls : c = d,
         row' \in Nat,
         row # NoCustomer => row' # NoCustomer,
         Ensured(n) => row' # NoCustomer
  PROVE  /\ request' \in [Requests -> Calls \cup {Idle}]
         /\ request'[r] = n /\ n # Idle
         /\ \A s \in Requests \ {r} : request'[s] = request[s]
         /\ RequestsFit' /\ RowHolds' /\ BreakerFits'
<1>1. n \in Calls /\ n # Idle
  <2>1. n \in Calls
    BY DEF Fits
  <2>2. n.op \in Ops
    BY <2>1 DEF Calls
  <2>3. Idle.op = "none"
    BY DEF Idle
  <2> QED
    BY <2>1, <2>2, <2>3 DEF Ops
<1>2. /\ request' \in [Requests -> Calls \cup {Idle}]
      /\ request'[r] = n
      /\ \A s \in Requests \ {r} : request'[s] = request[s]
  BY <1>1 DEF Typed
<1>3. RequestsFit'
  BY <1>2 DEF RequestsFit, Started
<1>4. RowHolds'
  BY <1>2 DEF RowHolds, Started
<1>5. \A c \in breaker'.calls : Flying(c)'
  <2> SUFFICES ASSUME NEW c \in breaker'.calls PROVE Flying(c)'
    OBVIOUS
  <2>1. CASE c = r
    BY <1>1, <1>2, <2>1 DEF Flying, Active, Started
  <2>2. CASE c # r
    <3>1. c \in Requests /\ Flying(c)
      BY <2>2 DEF BreakerFits, Typed
    <3> QED
      BY <1>2, <2>2, <3>1 DEF Flying, Active, Started
  <2> QED
    BY <2>1, <2>2
<1>6. BreakerFits'
  BY <1>5 DEF BreakerFits
<1> QED
  BY <1>1, <1>2, <1>3, <1>4, <1>6

(* The customers stay as they are.                                         *)
LEMMA CustomersStay ==
  ASSUME Typed, RequestsFit, OneEnsures,
         NEW r \in Requests, NEW n, Active(r),
         request'[r] = n, n.op = request[r].op,
         \A s \in Requests \ {r} : request'[s] = request[s],
         customers' = customers,
         excused => excused',
         ~excused' /\ n.result = "none" /\ Head(n.todo) = "create" => customers = {}
  PROVE  OneEnsures'
<1> SUFFICES ASSUME ~excused' PROVE OneEnsures'
  BY DEF OneEnsures
<1>1. /\ Cardinality(customers) <= 1
      /\ \A s \in Requests : At(s, "create") => customers = {}
      /\ \A s, u \in Requests :
           Active(s) /\ Active(u) /\ request[s].op \in Sessions /\ request[u].op \in Sessions => s = u
  BY DEF OneEnsures
<1>2. \A s \in Requests : Active(s)' => Active(s) /\ request'[s].op = request[s].op
  BY DEF Active, Started
<1>3. \A s, u \in Requests :
        Active(s)' /\ Active(u)' /\ request'[s].op \in Sessions /\ request'[u].op \in Sessions => s = u
  BY <1>1, <1>2
<1>4. \A s \in Requests : At(s, "create")' => customers' = {}
  BY <1>1 DEF At, Active, Started
<1> QED
  BY <1>1, <1>3, <1>4 DEF OneEnsures

(* They grow by the one that is created, or for an excused reason.         *)
LEMMA CustomersGrow ==
  ASSUME Typed, RequestsFit, OneEnsures,
         NEW r \in Requests, NEW n, At(r, "create"),
         request'[r] = n, n.op = request[r].op,
         \A s \in Requests \ {r} : request'[s] = request[s],
         customers' = customers \cup {NewCustomer},
         excused => excused',
         ~excused' => ~(n.result = "none" /\ Head(n.todo) = "create")
  PROVE  OneEnsures'
<1> SUFFICES ASSUME ~excused' PROVE OneEnsures'
  BY DEF OneEnsures
<1>1. /\ customers = {}
      /\ \A s, u \in Requests :
           Active(s) /\ Active(u) /\ request[s].op \in Sessions /\ request[u].op \in Sessions => s = u
  BY DEF OneEnsures
<1>2. \A s \in Requests : Active(s)' => Active(s) /\ request'[s].op = request[s].op
  BY DEF Active, Started, At
<1>3. \A s, u \in Requests :
        Active(s)' /\ Active(u)' /\ request'[s].op \in Sessions /\ request'[u].op \in Sessions => s = u
  BY <1>1, <1>2
<1>4. \A s \in Requests : ~At(s, "create")'
  <2> SUFFICES ASSUME NEW s \in Requests, At(s, "create")' PROVE FALSE
    OBVIOUS
  <2>1. s # r
    BY DEF At, Active
  <2>2. At(s, "create")
    BY <2>1 DEF At, Active, Started
  <2>3. request[s].op \in Sessions /\ request[r].op \in Sessions /\ Active(s) /\ Active(r)
    BY <2>2, CreatesForSession DEF At
  <2> QED
    BY <1>1, <2>1, <2>3
<1>5. Cardinality(customers') <= 1
  <2>1. customers' = {NewCustomer}
    BY <1>1
  <2>2. Cardinality({NewCustomer}) = 1
    BY FS_Singleton
  <2> QED
    BY <2>1, <2>2
<1> QED
  BY <1>3, <1>4, <1>5 DEF OneEnsures

(* A new customer has an id, and one no row means by "none".               *)
LEMMA NewCustomerType ==
  ASSUME Typed
  PROVE  /\ NewCustomer \in Nat \ {NoCustomer}
         /\ customers \cup {NewCustomer} \subseteq Nat \ {NoCustomer}
         /\ IsFiniteSet(customers \cup {NewCustomer})
<1>1. Cardinality(customers) \in Nat
  BY FS_CardinalityType DEF Typed
<1>2. NewCustomer \in Nat \ {NoCustomer}
  BY <1>1 DEF NewCustomer, Present, NoCustomer
<1>3. IsFiniteSet(customers \cup {NewCustomer})
  BY FS_AddElement DEF Typed
<1> QED
  BY <1>2, <1>3 DEF Typed

(* The breaker stays within its rules.                                     *)
LEMMA SucceededType ==
  ASSUME Typed, BreakerFits, NEW r \in Requests
  PROVE  LET b == Succeeded(r)
         IN  /\ b \in [state : {"closed", "open", "half"}, failures : 0 .. TripAfter,
                       calls : SUBSET Requests]
             /\ b.calls \subseteq breaker.calls \ {r}
             /\ b.state = "open" => b.calls = {}
             /\ b.state = "half" => \A c, d \in b.calls : c = d
<1>1. TripAfter \in Nat
  BY ClientsAssumption
<1>2. /\ breaker \in [state : {"closed", "open", "half"}, failures : 0 .. TripAfter,
                      calls : SUBSET Requests]
      /\ breaker.state = "open" => breaker.calls = {}
      /\ breaker.state = "half" => \A c, d \in breaker.calls : c = d
  BY DEF Typed, BreakerFits
<1>3. CASE r \notin breaker.calls
  BY <1>2, <1>3 DEF Succeeded
<1>4. CASE r \in breaker.calls /\ breaker.state = "half"
  BY <1>1, <1>4 DEF Succeeded, Renewed
<1>5. CASE r \in breaker.calls /\ breaker.state # "half"
  <2>1. Succeeded(r) = [breaker EXCEPT !.failures = 0, !.calls = @ \ {r}]
    BY <1>5 DEF Succeeded
  <2>2. 0 \in 0 .. TripAfter
    BY <1>1
  <2> QED
    BY <1>2, <1>5, <2>1, <2>2
<1> QED
  BY <1>3, <1>4, <1>5

(* A failure opens the breaker or is counted.                              *)
LEMMA FailedType ==
  ASSUME Typed, BreakerFits, NEW r \in Requests
  PROVE  LET b == Failed(r)
         IN  /\ b \in [state : {"closed", "open", "half"}, failures : 0 .. TripAfter,
                       calls : SUBSET Requests]
             /\ b.calls \subseteq breaker.calls \ {r}
             /\ b.state = "open" => b.calls = {}
             /\ b.state = "half" => \A c, d \in b.calls : c = d
<1>1. TripAfter \in Nat
  BY ClientsAssumption
<1>2. /\ breaker \in [state : {"closed", "open", "half"}, failures : 0 .. TripAfter,
                      calls : SUBSET Requests]
      /\ breaker.state = "open" => breaker.calls = {}
      /\ breaker.state = "half" => \A c, d \in breaker.calls : c = d
  BY DEF Typed, BreakerFits
<1>3. CASE r \notin breaker.calls
  BY <1>2, <1>3 DEF Failed
<1>4. CASE r \in breaker.calls /\ (breaker.state = "half" \/ Trips(breaker.failures + 1))
  BY <1>1, <1>4 DEF Failed, Renewed
<1>5. CASE r \in breaker.calls /\ ~(breaker.state = "half" \/ Trips(breaker.failures + 1))
  <2>1. Failed(r) = [breaker EXCEPT !.failures = @ + 1, !.calls = @ \ {r}]
    BY <1>5 DEF Failed
  <2>2. breaker.failures + 1 \in 0 .. TripAfter
    BY <1>1, <1>2, <1>5 DEF Trips
  <2> QED
    BY <1>2, <1>5, <2>1, <2>2
<1> QED
  BY <1>3, <1>4, <1>5


-----------------------------------------------------------------------------
(* What becomes of the breaker when the call of a request is over, or was  *)
(* never counted.                                                          *)
BreakerMoves(r) ==
  \/ breaker' = breaker /\ r \notin breaker.calls
  \/ breaker' = Succeeded(r)
  \/ breaker' = Failed(r)

LEMMA BreakerKept ==
  ASSUME Typed, BreakerFits, NEW r \in Requests, BreakerMoves(r)
  PROVE  /\ breaker' \in [state : {"closed", "open", "half"}, failures : 0 .. TripAfter,
                          calls : SUBSET Requests]
         /\ breaker'.calls \subseteq breaker.calls \ {r}
         /\ breaker'.state = "open" => breaker'.calls = {}
         /\ breaker'.state = "half" => \A c, d \in breaker'.calls : c = d
<1>1. CASE breaker' = breaker /\ r \notin breaker.calls
  BY <1>1 DEF Typed, BreakerFits
<1>2. CASE breaker' = Succeeded(r)
  BY <1>2, SucceededType
<1>3. CASE breaker' = Failed(r)
  BY <1>3, FailedType
<1> QED
  BY <1>1, <1>2, <1>3 DEF BreakerMoves

(* A call that is not under way is not counted.                            *)
LEMMA GroundedIsNotCounted ==
  ASSUME IInv, NEW r \in Requests,
         ~Active(r) \/ ~request[r].flying \/ Head(request[r].todo) \in Local
  PROVE  r \notin breaker.calls
<1> SUFFICES ASSUME r \in breaker.calls PROVE FALSE
  OBVIOUS
<1>1. Flying(r)
  BY DEF IInv, BreakerFits
<1>2. Active(r) /\ request[r].flying
  BY <1>1 DEF Flying
<1>3. Fits(request[r], provider) /\ request[r].result = "none"
  BY <1>2, ActiveFits DEF IInv
<1> QED
  BY <1>2, <1>3 DEF Fits

(* A request ends, whatever it is told, and no customer is made for it or  *)
(* one whose creation is excused.                                          *)
LEMMA Ends ==
  ASSUME IInv, NEW r \in Requests, NEW n, Active(r),
         request' = [request EXCEPT ![r] = n],
         Fits(n, provider), n.result # "none", n.op = request[r].op,
         BreakerMoves(r),
         provider' = provider, row' = row,
         excused' \in BOOLEAN, excused => excused',
         \/ customers' = customers
         \/ At(r, "create") /\ customers' = customers \cup {NewCustomer}
  PROVE  IInv'
<1>1. Typed /\ RequestsFit /\ RowHolds /\ BreakerFits /\ OneEnsures /\ row \in Nat
  BY DEF IInv, Typed
<1>2. ~Ensured(n)
  BY DEF Ensured
<1>3. /\ breaker' \in [state : {"closed", "open", "half"}, failures : 0 .. TripAfter,
                       calls : SUBSET Requests]
      /\ breaker'.calls \subseteq breaker.calls \ {r}
      /\ breaker'.state = "open" => breaker'.calls = {}
      /\ breaker'.state = "half" => \A c, d \in breaker'.calls : c = d
  BY <1>1, BreakerKept
<1>4. /\ request' \in [Requests -> Calls \cup {Idle}]
      /\ request'[r] = n
      /\ \A s \in Requests \ {r} : request'[s] = request[s]
      /\ RequestsFit' /\ RowHolds' /\ BreakerFits'
  BY <1>1, <1>2, <1>3, RequestMoves
<1>5. OneEnsures' /\ customers' \subseteq Nat \ {NoCustomer} /\ IsFiniteSet(customers')
  <2>1. CASE customers' = customers
    <3>1. OneEnsures'
      BY <1>1, <1>4, <2>1, CustomersStay
    <3> QED
      BY <1>1, <2>1, <3>1 DEF Typed
  <2>2. CASE At(r, "create") /\ customers' = customers \cup {NewCustomer}
    <3>1. OneEnsures'
      BY <1>1, <1>4, <2>2, CustomersGrow
    <3> QED
      BY <1>1, <2>2, <3>1, NewCustomerType
  <2> QED
    BY <2>1, <2>2
<1>6. Typed'
  BY <1>1, <1>3, <1>4, <1>5 DEF Typed
<1> QED
  BY <1>4, <1>5, <1>6 DEF IInv

(* A request does its step, seen as q.                                     *)
LEMMA Advances ==
  ASSUME IInv, NEW r \in Requests, NEW q \in Calls, Active(r),
         q.op = request[r].op, q.result = "none", q.todo = request[r].todo,
         q.effects <= q.failures + 1,
         request[r].troubled => q.troubled,
         Head(request[r].todo) = "create" => q.customer # NoCustomer,
         request' = [request EXCEPT ![r] = Advanced(q)],
         BreakerMoves(r),
         provider' = provider, excused' = excused,
         row' \in Nat, row # NoCustomer => row' # NoCustomer,
         Head(request[r].todo) = "save" /\ ~q.troubled => row' # NoCustomer,
         Head(request[r].todo) = "search" => customers = {},
         \/ customers' = customers
         \/ At(r, "create") /\ customers' = customers \cup {NewCustomer}
  PROVE  IInv'
<1> DEFINE n == Advanced(q)
<1>1. Typed /\ RequestsFit /\ RowHolds /\ BreakerFits /\ OneEnsures
  BY DEF IInv
<1>2. Fits(request[r], provider) /\ request[r].result = "none" /\ request[r].todo # << >>
  BY <1>1, ActiveFits
<1>3. q.op \in Operations[provider] /\ IsSuffix(q.todo, StepsOf[q.op]) /\ q.todo # << >>
  BY <1>2 DEF Fits
<1>4. /\ Fits(n, provider) /\ n.op = q.op
      /\ ~(n.result = "none" /\ n.flying)
      /\ n.result = "none" /\ Head(n.todo) = "create" => Head(q.todo) = "search"
      /\ Ensured(n) => Ensured(q) \/ (Head(q.todo) = "save" /\ ~q.troubled)
  BY <1>1, <1>3, NamesHold, AdvancedPlaces
<1> HIDE DEF n
<1>5. Ensured(n) => row' # NoCustomer
  <2>1. Ensured(q) => Ensured(request[r]) /\ Started(r)
    BY <1>2 DEF Ensured, Active
  <2>2. Ensured(q) => row # NoCustomer
    BY <1>1, <2>1 DEF RowHolds
  <2> QED
    BY <1>4, <2>2
<1>6. /\ breaker' \in [state : {"closed", "open", "half"}, failures : 0 .. TripAfter,
                       calls : SUBSET Requests]
      /\ breaker'.calls \subseteq breaker.calls \ {r}
      /\ breaker'.state = "open" => breaker'.calls = {}
      /\ breaker'.state = "half" => \A c, d \in breaker'.calls : c = d
  BY <1>1, BreakerKept
<1>7. request' = [request EXCEPT ![r] = n]
  BY DEF n
<1>8. /\ request' \in [Requests -> Calls \cup {Idle}]
      /\ request'[r] = n
      /\ \A s \in Requests \ {r} : request'[s] = request[s]
      /\ RequestsFit' /\ RowHolds' /\ BreakerFits'
  BY <1>1, <1>4, <1>5, <1>6, <1>7, RequestMoves
<1>9. OneEnsures' /\ customers' \subseteq Nat \ {NoCustomer} /\ IsFiniteSet(customers')
  <2>1. CASE customers' = customers
    <3>1. OneEnsures'
      BY <1>1, <1>4, <1>8, <2>1, CustomersStay
    <3> QED
      BY <1>1, <2>1, <3>1 DEF Typed
  <2>2. CASE At(r, "create") /\ customers' = customers \cup {NewCustomer}
    <3>1. ~(n.result = "none" /\ Head(n.todo) = "create")
      BY <1>4, <2>2 DEF At
    <3>2. OneEnsures'
      BY <1>1, <1>4, <1>8, <2>2, <3>1, CustomersGrow
    <3> QED
      BY <1>1, <2>2, <3>2, NewCustomerType
  <2> QED
    BY <2>1, <2>2
<1>10. Typed'
  BY <1>1, <1>6, <1>8, <1>9 DEF Typed
<1> QED
  BY <1>8, <1>9, <1>10 DEF IInv


-----------------------------------------------------------------------------
(* The actions.                                                            *)

LEMMA InitHolds == Init => IInv
<1> SUFFICES ASSUME Init PROVE IInv
  OBVIOUS
<1>1. \A r \in Requests : ~Started(r)
  BY DEF Init, Started
<1>2. /\ IsFiniteSet({}) /\ Cardinality({}) = 0
      /\ IsFiniteSet({Present}) /\ Cardinality({Present}) = 1
  BY FS_EmptySet, FS_Singleton
<1>3. customers \in {{}, {Present}}
  BY DEF Init
<1>4. /\ customers \subseteq Nat \ {NoCustomer} /\ IsFiniteSet(customers)
      /\ Cardinality(customers) <= 1
  BY <1>2, <1>3 DEF Present, NoCustomer
<1>5. row \in Nat
  BY <1>4 DEF Init, NoCustomer, Removed
<1>6. TripAfter \in Nat
  BY ClientsAssumption
<1>7. Typed
  <2>1. breaker \in [state : {"closed", "open", "half"}, failures : 0 .. TripAfter,
                     calls : SUBSET Requests]
    BY <1>6 DEF Init
  <2>2. request \in [Requests -> Calls \cup {Idle}] /\ provider \in Providers /\ excused = FALSE
    BY DEF Init
  <2> QED
    BY <1>4, <1>5, <2>1, <2>2 DEF Typed
<1>8. RequestsFit /\ RowHolds
  BY <1>1 DEF RequestsFit, RowHolds
<1>9. BreakerFits
  BY DEF Init, BreakerFits
<1>10. OneEnsures
  BY <1>1, <1>4 DEF OneEnsures, At, Active
<1> QED
  BY <1>7, <1>8, <1>9, <1>10 DEF IInv

(* A request begins: a second one for a session is an excuse.              *)
LEMMA BeginHolds ==
  ASSUME IInv, NEW r \in Requests, NEW op \in DOMAIN StepsOf, NEW in \in Inputs,
         Begin(r, op, in)
  PROVE  IInv'
<1> DEFINE n == [op |-> op, todo |-> StepsOf[op], attempt |-> 0, flying |-> FALSE,
                 hungUp |-> FALSE, late |-> FALSE, customer |-> NoCustomer, effects |-> 0,
                 failures |-> 0, troubled |-> ~Accepted(op, in),
                 result |-> IF Accepted(op, in) THEN "none" ELSE "rejected"]
<1>1. Typed /\ RequestsFit /\ RowHolds /\ BreakerFits /\ OneEnsures
  BY DEF IInv
<1>2. provider \in Names /\ op \in Operations[provider] /\ op \in Ops
  BY <1>1, NamesHold, OperationsType DEF Begin
<1>3. StepsOf[op] \in Seq(Steps) /\ StepsOf[op] # << >>
  BY <1>2, StepsType
<1>4. IsSuffix(StepsOf[op], StepsOf[op])
  BY <1>3, SuffixEnds
<1>5. /\ n \in Calls
      /\ n.op = op /\ n.todo = StepsOf[op] /\ n.attempt = 0 /\ ~n.flying /\ n.effects = 0
      /\ n.failures = 0
      /\ n.result = "none" \/ (n.troubled /\ n.result = "rejected")
      /\ n.result = "none" <=> Accepted(op, in)
  <2> DEFINE fine == Accepted(op, in)
  <2>1. n.troubled \in BOOLEAN
    OBVIOUS
  <2>2. NoCustomer \in Nat
    BY DEF NoCustomer
  <2> HIDE DEF fine
  <2> QED
    BY <1>2, <1>3, <2>2 DEF Calls, Results
<1> HIDE DEF n
<1>6. n.todo # << >> /\ Head(n.todo) # "save" /\ Head(n.todo) # "create"
      /\ (n.op \in Sessions => ~(Len(n.todo) <= 2))
  <2>1. CASE op \in Sessions
    <3>1. Len(StepsOf[op]) = 6
      BY <2>1, SessionSteps
    <3>2. Head(StepsOf[op]) # "save" /\ Head(StepsOf[op]) # "create"
      BY <1>3, <1>4, <2>1, <3>1, SessionPlaces
    <3>3. ~(Len(StepsOf[op]) <= 2)
      BY <3>1
    <3> QED
      BY <1>3, <1>5, <3>2, <3>3
  <2>2. CASE op \notin Sessions
    BY <1>2, <1>3, <1>4, <1>5, <2>2, OtherPlaces
  <2> QED
    BY <2>1, <2>2
<1>7. Fits(n, provider)
  <2>1. 0 \in 0 .. Retries[provider].max
    BY <1>2, RetriesType
  <2> QED
    BY <1>2, <1>4, <1>5, <1>6, <2>1 DEF Fits, Healthy
<1>8. ~Ensured(n)
  BY <1>6 DEF Ensured
<1>9. /\ request' = [request EXCEPT ![r] = n]
      /\ UNCHANGED <<provider, breaker, customers, row>>
      /\ ~Started(r)
      /\ excused' = (excused \/ (Ensures(op) /\ Accepted(op, in)
                                  /\ \E s \in Requests : Active(s) /\ Ensures(request[s].op)))
  BY DEF Begin, n
<1>10. r \notin breaker.calls
  BY <1>9, GroundedIsNotCounted DEF Active
<1>11. /\ request' \in [Requests -> Calls \cup {Idle}]
       /\ request'[r] = n
       /\ \A s \in Requests \ {r} : request'[s] = request[s]
       /\ RequestsFit' /\ RowHolds' /\ BreakerFits'
  <2>1. /\ breaker' \in [state : {"closed", "open", "half"}, failures : 0 .. TripAfter,
                         calls : SUBSET Requests]
        /\ \A c \in breaker'.calls : c \in breaker.calls /\ c # r
        /\ breaker'.state = "open" => breaker'.calls = {}
        /\ breaker'.state = "half" => \A c, d \in breaker'.calls : c = d
        /\ row' \in Nat /\ row' = row
    BY <1>1, <1>9, <1>10 DEF Typed, BreakerFits
  <2> QED
    BY <1>1, <1>7, <1>8, <1>9, <2>1, RequestMoves
<1>12. excused' \in BOOLEAN
  BY <1>9 DEF Begin
<1>13. OneEnsures'
  <2> SUFFICES ASSUME ~excused' PROVE OneEnsures'
    BY DEF OneEnsures
  <2>1. /\ ~excused
        /\ Ensures(op) /\ Accepted(op, in) =>
             \A s \in Requests : ~(Active(s) /\ Ensures(request[s].op))
    BY <1>9
  <2>2. /\ Cardinality(customers) <= 1
        /\ \A s \in Requests : At(s, "create") => customers = {}
        /\ \A s, u \in Requests :
             Active(s) /\ Active(u) /\ request[s].op \in Sessions /\ request[u].op \in Sessions => s = u
    BY <1>1, <2>1 DEF OneEnsures
  <2>3. \A s \in Requests \ {r} : (Active(s)' <=> Active(s)) /\ (At(s, "create")' <=> At(s, "create"))
    BY <1>11 DEF At, Active, Started
  <2>4. Active(r)' => n.result = "none"
    BY <1>11 DEF Active
  <2>5. \A s, u \in Requests :
          Active(s)' /\ Active(u)' /\ request'[s].op \in Sessions /\ request'[u].op \in Sessions => s = u
    BY <1>5, <1>11, <2>1, <2>2, <2>3, <2>4 DEF Ensures, Sessions
  <2>6. \A s \in Requests : At(s, "create")' => customers' = {}
    BY <1>6, <1>9, <1>11, <2>2, <2>3 DEF At
  <2> QED
    BY <1>9, <2>2, <2>5, <2>6 DEF OneEnsures
<1>14. Typed'
  BY <1>1, <1>9, <1>11, <1>12 DEF Typed
<1> QED
  BY <1>11, <1>13, <1>14 DEF IInv

LEMMA LapseHolds ==
  ASSUME IInv, Lapse
  PROVE  IInv'
<1>1. Typed /\ RequestsFit /\ RowHolds /\ BreakerFits /\ OneEnsures
  BY DEF IInv
<1>2. /\ breaker' = Renewed("closed") \/ breaker' = Renewed("half")
      /\ UNCHANGED <<provider, request, customers, row, excused>>
  BY DEF Lapse
<1>3. TripAfter \in Nat
  BY ClientsAssumption
<1>4. Typed'
  <2>1. breaker' \in [state : {"closed", "open", "half"}, failures : 0 .. TripAfter,
                      calls : SUBSET Requests]
    BY <1>2, <1>3 DEF Renewed
  <2> QED
    BY <1>1, <1>2, <2>1 DEF Typed
<1>5. RequestsFit' /\ RowHolds' /\ OneEnsures'
  BY <1>1, <1>2 DEF RequestsFit, RowHolds, OneEnsures, At, Active, Started
<1>6. BreakerFits'
  BY <1>2 DEF BreakerFits, Renewed
<1> QED
  BY <1>4, <1>5, <1>6 DEF IInv


LEMMA HangUpHolds ==
  ASSUME IInv, NEW r \in Requests, HangUp(r)
  PROVE  IInv'
<1> DEFINE q == request[r]
           n == [q EXCEPT !.hungUp = TRUE, !.troubled = TRUE]
<1>1. Typed /\ RequestsFit /\ RowHolds /\ BreakerFits /\ OneEnsures
  BY DEF IInv
<1>2. /\ Active(r) /\ request' = [request EXCEPT ![r] = n]
      /\ UNCHANGED <<provider, breaker, customers, row, excused>>
  BY DEF HangUp
<1>3. Fits(q, provider) /\ q \in Calls /\ q.result = "none"
  BY <1>1, <1>2, ActiveFits
<1>4. /\ n \in Calls /\ n.op = q.op /\ n.todo = q.todo /\ n.attempt = q.attempt
      /\ n.result = "none" /\ n.flying = q.flying /\ n.customer = q.customer
      /\ n.effects = q.effects /\ n.failures = q.failures /\ n.troubled
  BY <1>3 DEF Calls
<1> HIDE DEF n
<1>5. Fits(n, provider) /\ ~Ensured(n)
  BY <1>3, <1>4 DEF Fits, Ensured
<1>6. /\ breaker' \in [state : {"closed", "open", "half"}, failures : 0 .. TripAfter,
                       calls : SUBSET Requests]
      /\ \A c \in breaker'.calls :
           (c \in breaker.calls /\ c # r) \/ (c = r /\ n.result = "none" /\ n.flying)
      /\ breaker'.state = "open" => breaker'.calls = {}
      /\ breaker'.state = "half" => \A c, d \in breaker'.calls : c = d
      /\ row' \in Nat /\ row' = row
  BY <1>1, <1>2, <1>4 DEF Typed, BreakerFits, Flying
<1>7. /\ request' \in [Requests -> Calls \cup {Idle}]
      /\ request'[r] = n
      /\ \A s \in Requests \ {r} : request'[s] = request[s]
      /\ RequestsFit' /\ RowHolds' /\ BreakerFits'
  BY <1>1, <1>2, <1>5, <1>6, RequestMoves
<1>8. ~excused' /\ n.result = "none" /\ Head(n.todo) = "create" => customers = {}
  BY <1>1, <1>2, <1>4 DEF OneEnsures, At
<1>9. OneEnsures'
  BY <1>1, <1>2, <1>4, <1>7, <1>8, CustomersStay
<1>10. Typed'
  BY <1>1, <1>2, <1>7 DEF Typed
<1> QED
  BY <1>7, <1>9, <1>10 DEF IInv

LEMMA GetOrgHolds ==
  ASSUME IInv, NEW r \in Requests, GetOrg(r)
  PROVE  IInv'
<1> DEFINE q == request[r]
<1>1. /\ Active(r) /\ Head(q.todo) = "org"
      /\ UNCHANGED <<provider, breaker, customers, row, excused>>
  BY DEF GetOrg, At
<1>2. /\ Fits(q, provider) /\ q \in Calls /\ q.result = "none" /\ provider \in Names
      /\ excused \in BOOLEAN /\ row \in Nat
  BY <1>1, ActiveFits, NamesHold DEF IInv, Typed
<1>3. q.op \in Operations[provider] /\ q.effects <= q.failures + 1
  BY <1>2 DEF Fits, Calls
<1>4. BreakerMoves(r)
  BY <1>1, GroundedIsNotCounted DEF BreakerMoves, Local
<1>5. CASE request' = [request EXCEPT ![r] = Advanced(q)]
  BY <1>1, <1>2, <1>3, <1>4, <1>5, Advances
<1>6. CASE request' = [request EXCEPT ![r] = EndedWith(q, "failed")]
  <2> DEFINE n == EndedWith(q, "failed")
  <2>1. Fits(n, provider) /\ n.result # "none" /\ n.op = q.op
    BY <1>2, <1>3, EndedFits DEF Results
  <2> HIDE DEF n
  <2>2. request' = [request EXCEPT ![r] = n]
    BY <1>6 DEF n
  <2> QED
    BY <1>1, <1>2, <1>4, <2>1, <2>2, Ends
<1> QED
  BY <1>5, <1>6 DEF GetOrg

(* The row gets a customer, or the request is in trouble.                  *)
LEMMA SaveCustomerHolds ==
  ASSUME IInv, NEW r \in Requests, SaveCustomer(r)
  PROVE  IInv'
<1> DEFINE q == request[r]
           m == [q EXCEPT !.customer = NoCustomer]
           f == [q EXCEPT !.customer = NoCustomer, !.troubled = TRUE]
<1>1. /\ Active(r) /\ Head(q.todo) = "save"
      /\ UNCHANGED <<provider, breaker, customers, excused>>
  BY DEF SaveCustomer, At
<1>2. Fits(q, provider) /\ q \in Calls /\ q.result = "none" /\ excused \in BOOLEAN /\ row \in Nat
  BY <1>1, ActiveFits DEF IInv, Typed
<1>3. q.effects <= q.failures + 1 /\ q.customer # NoCustomer /\ q.customer \in Nat
  BY <1>1, <1>2 DEF Fits, Calls
<1>4. BreakerMoves(r)
  BY <1>1, GroundedIsNotCounted DEF BreakerMoves, Local
<1>5. /\ m \in Calls /\ m.op = q.op /\ m.result = "none" /\ m.todo = q.todo
      /\ m.effects = q.effects /\ m.failures = q.failures /\ m.troubled = q.troubled
  BY <1>2 DEF Calls, NoCustomer
<1>6. /\ f \in Calls /\ f.op = q.op /\ f.result = "none" /\ f.todo = q.todo
      /\ f.effects = q.effects /\ f.failures = q.failures /\ f.troubled
  BY <1>2 DEF Calls, NoCustomer
<1>7. \/ row' = q.customer /\ request' = [request EXCEPT ![r] = Advanced(m)]
      \/ row' = row /\ request' = [request EXCEPT ![r] = Advanced(f)]
  BY DEF SaveCustomer
<1> HIDE DEF m, f
<1>8. CASE row' = q.customer /\ request' = [request EXCEPT ![r] = Advanced(m)]
  BY <1>1, <1>3, <1>4, <1>5, <1>8, Advances
<1>9. CASE row' = row /\ request' = [request EXCEPT ![r] = Advanced(f)]
  BY <1>1, <1>2, <1>3, <1>4, <1>6, <1>9, Advances
<1> QED
  BY <1>7, <1>8, <1>9

(* Only a read finds no customer without being in trouble.                 *)
LEMMA ResolveCustomerHolds ==
  ASSUME IInv, NEW r \in Requests, ResolveCustomer(r)
  PROVE  IInv'
<1> DEFINE q == request[r]
           m == [q EXCEPT !.customer = row]
<1>1. /\ Active(r) /\ Head(q.todo) = "resolve"
      /\ UNCHANGED <<provider, breaker, customers, row, excused>>
  BY DEF ResolveCustomer, At
<1>2. /\ Fits(q, provider) /\ q \in Calls /\ q.result = "none" /\ provider \in Names
      /\ excused \in BOOLEAN /\ row \in Nat /\ q.todo # << >> /\ q.todo \in Seq(Steps)
  BY <1>1, ActiveFits, NamesHold DEF IInv, Typed
<1>3. /\ q.op \in Operations[provider] /\ q.op \in Ops /\ q.effects <= q.failures + 1
      /\ IsSuffix(q.todo, StepsOf[q.op])
  BY <1>2 DEF Fits, Calls
<1>4. BreakerMoves(r)
  BY <1>1, GroundedIsNotCounted DEF BreakerMoves, Local
<1>5. /\ m \in Calls /\ m.op = q.op /\ m.result = "none" /\ m.todo = q.todo
      /\ m.effects = q.effects /\ m.failures = q.failures /\ m.troubled = q.troubled
  BY <1>2 DEF Calls
<1>6. \/ request' = [request EXCEPT ![r] = Advanced(m)]
      \/ row = NoCustomer /\ request' = [request EXCEPT ![r] = Over(q, "noCustomer")]
      \/ request' = [request EXCEPT ![r] = EndedWith(q, "failed")]
  BY DEF ResolveCustomer
<1> HIDE DEF m
<1>7. CASE request' = [request EXCEPT ![r] = Advanced(m)]
  BY <1>1, <1>2, <1>3, <1>4, <1>5, <1>7, Advances
<1>8. CASE row = NoCustomer /\ request' = [request EXCEPT ![r] = Over(q, "noCustomer")]
  <2> DEFINE n == Over(q, "noCustomer")
  <2>1. q.op \in Sessions => q.troubled
    <3> SUFFICES ASSUME q.op \in Sessions, ~q.troubled PROVE FALSE
      OBVIOUS
    <3>1. Len(q.todo) = 2
      BY <1>1, <1>2, <1>3, SessionPlaces
    <3>2. Ensured(q) /\ Started(r)
      BY <1>1, <1>2, <3>1 DEF Ensured, Active
    <3> QED
      BY <1>8, <3>2 DEF IInv, RowHolds
  <2>2. q.op \notin Sessions => q.op \in {"invoices", "subscription"}
    BY <1>1, <1>2, <1>3, OtherPlaces
  <2>3. Fits(n, provider) /\ n.result # "none" /\ n.op = q.op
    <3>1. "noCustomer" \in Results \ {"none"}
      BY DEF Results
    <3> QED
      BY <1>2, <1>3, <2>1, <2>2, <3>1, OverFits
  <2> HIDE DEF n
  <2>4. request' = [request EXCEPT ![r] = n]
    BY <1>8 DEF n
  <2> QED
    BY <1>1, <1>2, <1>4, <2>3, <2>4, Ends
<1>9. CASE request' = [request EXCEPT ![r] = EndedWith(q, "failed")]
  <2> DEFINE n == EndedWith(q, "failed")
  <2>1. Fits(n, provider) /\ n.result # "none" /\ n.op = q.op
    BY <1>2, <1>3, EndedFits DEF Results
  <2> HIDE DEF n
  <2>2. request' = [request EXCEPT ![r] = n]
    BY <1>9 DEF n
  <2> QED
    BY <1>1, <1>2, <1>4, <2>1, <2>2, Ends
<1> QED
  BY <1>6, <1>7, <1>8, <1>9


(* The breaker admits a call, one at most while it is half open.           *)
LEMMA SendHolds ==
  ASSUME IInv, NEW r \in Requests, Send(r)
  PROVE  IInv'
<1> DEFINE q == request[r]
           f == [q EXCEPT !.flying = TRUE, !.late = q.hungUp]
           n == EndedWith(q, "limited")
<1>1. /\ Active(r) /\ ~q.flying /\ Head(q.todo) \notin Local
      /\ UNCHANGED <<provider, customers, row, excused>>
  BY DEF Send, Flying
<1>2. Typed /\ RequestsFit /\ RowHolds /\ BreakerFits /\ OneEnsures
  BY DEF IInv
<1>3. /\ Fits(q, provider) /\ q \in Calls /\ q.result = "none" /\ provider \in Names
      /\ excused \in BOOLEAN /\ row \in Nat
  BY <1>1, <1>2, ActiveFits, NamesHold DEF Typed
<1>4. q.op \in Operations[provider] /\ q.effects <= q.failures + 1
  BY <1>3 DEF Fits, Calls
<1>5. r \notin breaker.calls
  BY <1>1, GroundedIsNotCounted
<1>6. CASE Admits
  <2>1. /\ breaker' = [breaker EXCEPT !.calls = @ \cup {r}]
        /\ request' = [request EXCEPT ![r] = f]
    BY <1>6 DEF Send
  <2>2. /\ f \in Calls /\ f.op = q.op /\ f.todo = q.todo /\ f.attempt = q.attempt
        /\ f.result = "none" /\ f.flying /\ f.customer = q.customer
        /\ f.effects = q.effects /\ f.failures = q.failures /\ f.troubled = q.troubled
    BY <1>3 DEF Calls
  <2> HIDE DEF f
  <2>3. Fits(f, provider)
    BY <1>1, <1>3, <2>2 DEF Fits
  <2>4. Ensured(f) => row # NoCustomer
    <3>1. Ensured(f) => Ensured(q) /\ Started(r)
      BY <1>1, <1>3, <2>2 DEF Ensured, Active
    <3> QED
      BY <1>2, <3>1 DEF RowHolds
  <2>5. /\ breaker'.calls = breaker.calls \cup {r} /\ breaker'.state = breaker.state
        /\ breaker' \in [state : {"closed", "open", "half"}, failures : 0 .. TripAfter,
                         calls : SUBSET Requests]
    BY <1>2, <2>1 DEF Typed
  <2>6. /\ breaker'.state = "open" => breaker'.calls = {}
        /\ breaker'.state = "half" => \A c, d \in breaker'.calls : c = d
    BY <1>6, <2>5 DEF Admits
  <2>7. \A c \in breaker'.calls :
          (c \in breaker.calls /\ c # r) \/ (c = r /\ f.result = "none" /\ f.flying)
    BY <1>5, <2>2, <2>5
  <2>8. /\ request' \in [Requests -> Calls \cup {Idle}]
        /\ request'[r] = f
        /\ \A s \in Requests \ {r} : request'[s] = request[s]
        /\ RequestsFit' /\ RowHolds' /\ BreakerFits'
    BY <1>1, <1>2, <1>3, <2>1, <2>3, <2>4, <2>5, <2>6, <2>7, RequestMoves
  <2>9. ~excused' /\ f.result = "none" /\ Head(f.todo) = "create" => customers = {}
    BY <1>1, <1>2, <2>2 DEF OneEnsures, At
  <2>10. OneEnsures'
    BY <1>1, <1>2, <2>2, <2>8, <2>9, CustomersStay
  <2>11. Typed'
    BY <1>1, <1>2, <2>5, <2>8 DEF Typed
  <2> QED
    BY <2>8, <2>10, <2>11 DEF IInv
<1>7. CASE ~Admits
  <2>1. breaker' = breaker /\ request' = [request EXCEPT ![r] = n]
    BY <1>7 DEF Send
  <2>2. Fits(n, provider) /\ n.result # "none" /\ n.op = q.op
    BY <1>3, <1>4, EndedFits DEF Results
  <2> HIDE DEF n
  <2>3. BreakerMoves(r)
    BY <1>5, <2>1 DEF BreakerMoves
  <2> QED
    BY <1>1, <1>3, <2>1, <2>2, <2>3, Ends
<1> QED
  BY <1>6, <1>7

(* What an answer to a call of a step does to the rest of the state.       *)
LEMMA AnsweredMoves ==
  ASSUME IInv, NEW r \in Requests, NEW step, Answered(r, step)
  PROVE  /\ Active(r) /\ At(r, step) /\ Head(request[r].todo) = step
         /\ BreakerMoves(r)
         /\ provider' = provider /\ row' = row /\ excused' = excused
         /\ excused \in BOOLEAN /\ row \in Nat
         /\ customers' = IF step = "create" THEN customers \cup {NewCustomer} ELSE customers
<1>1. Active(r) /\ At(r, step) /\ Head(request[r].todo) = step
  BY DEF Answered, At
<1>2. At(r, "create") <=> step = "create"
  BY <1>1 DEF At
<1> QED
  BY <1>1, <1>2 DEF Answered, TakesEffect, BreakerMoves, IInv, Typed

(* The effects of the present step, with the one that is answered.         *)
LEMMA EffectsType ==
  ASSUME NEW q \in Calls, q.effects <= q.failures
  PROVE  Effects(q) \in Nat /\ Effects(q) <= q.failures + 1
BY DEF Effects, Calls

(* A call is answered and the request goes on.                             *)
LEMMA ContinueHolds ==
  ASSUME IInv, NEW r \in Requests, NEW step, Answered(r, step), Continue(r),
         step \notin {"create", "save"},
         step = "search" => customers = {}
  PROVE  IInv'
<1> DEFINE q == request[r]
           e == Effects(q)
           m == [q EXCEPT !.effects = e]
<1>1. /\ Active(r) /\ Head(q.todo) = step /\ BreakerMoves(r)
      /\ provider' = provider /\ row' = row /\ excused' = excused /\ row \in Nat
      /\ customers' = customers
  BY AnsweredMoves
<1>2. Fits(q, provider) /\ q \in Calls /\ q.result = "none"
  BY <1>1, ActiveFits DEF IInv
<1>3. e \in Nat /\ e <= q.failures + 1
  BY <1>2, EffectsType DEF Fits
<1>4. request' = [request EXCEPT ![r] = Advanced(m)]
  BY DEF Continue
<1> HIDE DEF e
<1>5. /\ m \in Calls /\ m.op = q.op /\ m.result = "none" /\ m.todo = q.todo
      /\ m.effects = e /\ m.failures = q.failures /\ m.troubled = q.troubled
  BY <1>2, <1>3 DEF Calls
<1> HIDE DEF m
<1> QED
  BY <1>1, <1>3, <1>4, <1>5, Advances

(* A customer that is found is saved next.                                 *)
LEMMA SearchAnsweredHolds ==
  ASSUME IInv, NEW r \in Requests, SearchAnswered(r)
  PROVE  IInv'
<1> DEFINE q == request[r]
<1>1. Answered(r, "search")
  BY DEF SearchAnswered
<1>2. CASE customers = {}
  <2>1. Continue(r)
    BY <1>2 DEF SearchAnswered
  <2> QED
    BY <1>1, <1>2, <2>1, ContinueHolds
<1>3. CASE customers # {}
  <2>1. PICK c \in customers :
          request' = [request EXCEPT ![r] = Advanced(Found(request[r], c))]
    BY <1>3 DEF SearchAnswered
  <2> DEFINE rest == Tail(q.todo)
             m == Found(q, c)
             n == Advanced(m)
  <2>2. Typed /\ RequestsFit /\ RowHolds /\ BreakerFits /\ OneEnsures
    BY DEF IInv
  <2>3. /\ Active(r) /\ Head(q.todo) = "search" /\ BreakerMoves(r)
        /\ provider' = provider /\ row' = row /\ excused' = excused /\ row \in Nat
        /\ customers' = customers
    BY <1>1, AnsweredMoves
  <2>4. /\ Fits(q, provider) /\ q \in Calls /\ q.result = "none" /\ provider \in Names
        /\ q.todo # << >> /\ q.todo \in Seq(Steps)
    BY <2>2, <2>3, ActiveFits, NamesHold
  <2>5. /\ q.op \in Operations[provider] /\ q.op \in Ops /\ q.effects <= q.failures + 1
        /\ IsSuffix(q.todo, StepsOf[q.op])
    BY <2>4 DEF Fits, Calls
  <2>6. c \in Nat \ {NoCustomer}
    BY <2>2 DEF Typed
  <2>7. q.op \in Sessions
    BY <2>2, <2>3, CreatesForSession
  <2>8. Len(q.todo) = 5
    BY <2>3, <2>4, <2>5, <2>7, SessionPlaces
  <2>9. StepsOf[q.op] \in Seq(Steps)
    BY <2>5, StepsType
  <2>10. IsSuffix(rest, StepsOf[q.op]) /\ rest \in Seq(Steps) /\ Len(rest) = Len(q.todo) - 1
    BY <2>4, <2>5, <2>9, SuffixTail
  <2> HIDE DEF rest
  <2>11. Len(rest) = 4 /\ rest # << >>
    <3>1. Len(rest) = 4
      BY <2>8, <2>10
    <3>2. Len(rest) # 0
      BY <3>1
    <3> QED
      BY <3>1, <3>2
  <2>12. Head(rest) = "create"
    BY <2>7, <2>5, <2>10, <2>11, SessionPlaces
  <2>13. /\ m \in Calls /\ m.op = q.op /\ m.result = "none" /\ m.todo = rest
         /\ m.effects = q.effects /\ m.failures = q.failures /\ m.customer = c
    <3>1. m = [q EXCEPT !.todo = rest, !.customer = c]
      BY DEF Found, rest
    <3> HIDE DEF m
    <3> QED
      BY <2>4, <2>6, <2>10, <3>1 DEF Calls
  <2>14. request' = [request EXCEPT ![r] = n]
    BY <2>1
  <2> HIDE DEF m
  <2>15. /\ Fits(n, provider) /\ n.op = m.op
         /\ ~(n.result = "none" /\ n.flying)
         /\ n.result = "none" /\ Head(n.todo) = "create" => Head(m.todo) = "search"
         /\ Head(m.todo) = "create" => ~Ensured(n)
    BY <2>4, <2>5, <2>6, <2>10, <2>11, <2>12, <2>13, AdvancedPlaces
  <2> HIDE DEF n
  <2>16. /\ breaker' \in [state : {"closed", "open", "half"}, failures : 0 .. TripAfter,
                          calls : SUBSET Requests]
         /\ breaker'.calls \subseteq breaker.calls \ {r}
         /\ breaker'.state = "open" => breaker'.calls = {}
         /\ breaker'.state = "half" => \A a, b \in breaker'.calls : a = b
    BY <2>2, <2>3, BreakerKept
  <2>17. /\ request' \in [Requests -> Calls \cup {Idle}]
         /\ request'[r] = n
         /\ \A s \in Requests \ {r} : request'[s] = request[s]
         /\ RequestsFit' /\ RowHolds' /\ BreakerFits'
    BY <2>2, <2>3, <2>12, <2>13, <2>14, <2>15, <2>16, RequestMoves
  <2>18. OneEnsures'
    BY <2>2, <2>3, <2>12, <2>13, <2>15, <2>17, CustomersStay
  <2>19. Typed'
    BY <2>2, <2>3, <2>16, <2>17 DEF Typed
  <2> QED
    BY <2>17, <2>18, <2>19 DEF IInv
<1> QED
  BY <1>2, <1>3

(* The customer that is created is the first one, or excused.              *)
LEMMA CreateAnsweredHolds ==
  ASSUME IInv, NEW r \in Requests, CreateAnswered(r)
  PROVE  IInv'
<1> DEFINE q == request[r]
           new == NewCustomer
           m == Created(q, new)
<1>1. /\ Active(r) /\ At(r, "create") /\ Head(q.todo) = "create" /\ BreakerMoves(r)
      /\ provider' = provider /\ row' = row /\ excused' = excused /\ row \in Nat
      /\ customers' = customers \cup {NewCustomer}
  BY AnsweredMoves DEF CreateAnswered
<1>2. Fits(q, provider) /\ q \in Calls /\ q.result = "none"
  BY <1>1, ActiveFits DEF IInv
<1>3. new \in Nat \ {NoCustomer}
  BY NewCustomerType DEF IInv
<1>4. request' = [request EXCEPT ![r] = Advanced(m)]
  BY DEF CreateAnswered
<1> HIDE DEF new
<1>5. /\ m \in Calls /\ m.op = q.op /\ m.result = "none" /\ m.todo = q.todo
      /\ m.effects = q.effects + 1 /\ m.failures = q.failures /\ m.troubled = q.troubled
      /\ m.customer = new
  <2>1. m = [q EXCEPT !.customer = new, !.effects = q.effects + 1]
    BY DEF Created
  <2>2. q.effects + 1 \in Nat
    BY <1>2 DEF Calls
  <2> HIDE DEF m
  <2> QED
    BY <1>2, <1>3, <2>1, <2>2 DEF Calls
<1>6. q.effects \in Nat /\ q.failures \in Nat /\ q.effects <= q.failures
  BY <1>2 DEF Fits, Calls
<1> HIDE DEF m
<1>7. m.effects <= m.failures + 1 /\ m.customer # NoCustomer
  BY <1>3, <1>5, <1>6
<1> QED
  BY <1>1, <1>4, <1>5, <1>7, Advances


(* An answer that cannot be read is a failure that was counted as none.    *)
LEMMA GarbledHolds ==
  ASSUME IInv, NEW r \in Requests, Garbled(r)
  PROVE  IInv'
<1> DEFINE q == request[r]
           e == Effects(q)
           m == Undecoded(q)
           n == EndedWith(m, "garbled")
<1>1. /\ Active(r) /\ TakesEffect(r) /\ breaker' = Succeeded(r)
      /\ request' = [request EXCEPT ![r] = n]
      /\ excused' = (excused \/ At(r, "create"))
      /\ provider' = provider /\ row' = row
  BY DEF Garbled, Flying
<1>2. /\ Fits(q, provider) /\ q \in Calls /\ q.result = "none" /\ provider \in Names
      /\ excused \in BOOLEAN
  BY <1>1, ActiveFits, NamesHold DEF IInv, Typed
<1>3. e \in Nat /\ e <= q.failures + 1 /\ q.failures \in Nat
  BY <1>2, EffectsType DEF Fits, Calls
<1>4. m = [q EXCEPT !.effects = e, !.failures = q.failures + 1]
  BY DEF Undecoded
<1> HIDE DEF e, m
<1>5. m \in Calls /\ m.op = q.op /\ m.effects = e /\ m.failures = q.failures + 1
  <2> DEFINE f == q.failures + 1
  <2>1. f \in Nat /\ m = [q EXCEPT !.effects = e, !.failures = f]
    BY <1>3, <1>4
  <2> HIDE DEF f
  <2>2. m \in Calls /\ m.op = q.op /\ m.effects = e /\ m.failures = f
    BY <1>2, <1>3, <2>1 DEF Calls
  <2> QED
    BY <2>2 DEF f
<1>6. m.op \in Operations[provider] /\ m.effects <= m.failures + 1
  BY <1>2, <1>3, <1>5 DEF Fits
<1>7. Fits(n, provider) /\ n.result # "none" /\ n.op = q.op
  BY <1>2, <1>5, <1>6, EndedFits DEF Results
<1> HIDE DEF n
<1>8. BreakerMoves(r) /\ excused' \in BOOLEAN /\ (excused => excused')
  BY <1>1, <1>2 DEF BreakerMoves, At
<1>9. customers' = customers \/ (At(r, "create") /\ customers' = customers \cup {NewCustomer})
  BY <1>1 DEF TakesEffect
<1> QED
  BY <1>1, <1>7, <1>8, <1>9, Ends

LEMMA RefusedHolds ==
  ASSUME IInv, NEW r \in Requests, Refused(r)
  PROVE  IInv'
<1> DEFINE q == request[r]
           n == EndedWith(q, "refused")
<1>1. /\ Active(r) /\ breaker' = Succeeded(r)
      /\ request' = [request EXCEPT ![r] = n]
      /\ UNCHANGED <<provider, customers, row, excused>>
  BY DEF Refused, Flying
<1>2. /\ Fits(q, provider) /\ q \in Calls /\ provider \in Names /\ excused \in BOOLEAN
      /\ q.result = "none"
  BY <1>1, ActiveFits, NamesHold DEF IInv, Typed
<1>3. q.op \in Operations[provider] /\ q.effects <= q.failures + 1
  BY <1>2 DEF Fits, Calls
<1>4. Fits(n, provider) /\ n.result # "none" /\ n.op = q.op
  BY <1>2, <1>3, EndedFits DEF Results
<1> HIDE DEF n
<1>5. BreakerMoves(r)
  BY <1>1 DEF BreakerMoves
<1> QED
  BY <1>1, <1>2, <1>4, <1>5, Ends

(* A failure is counted, and the call repeated or given up.                *)
LEMMA FailsHolds ==
  ASSUME IInv, NEW r \in Requests, Fails(r)
  PROVE  IInv'
<1> DEFINE q == request[r]
<1>1. /\ Active(r) /\ breaker' = Failed(r)
      /\ excused' = (excused \/ At(r, "create"))
      /\ provider' = provider /\ row' = row
  BY DEF Fails, Flying
<1>2. PICK effect \in BOOLEAN :
        /\ IF effect THEN Head(q.todo) \in Mutating /\ TakesEffect(r) ELSE NoEffect
        /\ request' = [request EXCEPT ![r] =
             IF Failure(q, effect).attempt < Retries[provider].max
             THEN Again(Failure(q, effect)) ELSE EndedWith(Failure(q, effect), "failed")]
  BY DEF Fails
<1>3. Typed /\ RequestsFit /\ RowHolds /\ BreakerFits /\ OneEnsures
  BY DEF IInv
<1>4. /\ Fits(q, provider) /\ q \in Calls /\ provider \in Names /\ excused \in BOOLEAN
      /\ q.result = "none" /\ row \in Nat
  BY <1>1, <1>3, ActiveFits, NamesHold DEF Typed
<1>5. /\ q.op \in Operations[provider] /\ q.effects <= q.failures
      /\ q.effects \in Nat /\ q.failures \in Nat /\ q.attempt \in 0 .. Retries[provider].max
  BY <1>4 DEF Fits, Calls
<1>6. customers' = customers \/ (At(r, "create") /\ customers' = customers \cup {NewCustomer})
  BY <1>2 DEF TakesEffect, NoEffect
<1>7. BreakerMoves(r) /\ excused' \in BOOLEAN /\ (excused => excused')
  BY <1>1, <1>4 DEF BreakerMoves, At
<1> DEFINE m == Failure(q, effect)
           e == IF effect THEN q.effects + 1 ELSE q.effects
           f == q.failures + 1
<1>8. /\ m \in Calls /\ m.op = q.op /\ m.todo = q.todo /\ m.result = "none"
      /\ m.attempt = q.attempt /\ m.customer = q.customer /\ m.troubled
      /\ m.effects \in Nat /\ m.failures \in Nat /\ m.effects <= m.failures
  <2>1. m = [q EXCEPT !.effects = e, !.failures = f, !.troubled = TRUE]
    BY DEF Failure
  <2>2. e \in Nat /\ f \in Nat /\ e <= f
    BY <1>5
  <2> HIDE DEF m, e, f
  <2>3. /\ m \in Calls /\ m.op = q.op /\ m.todo = q.todo /\ m.result = "none"
        /\ m.attempt = q.attempt /\ m.customer = q.customer /\ m.troubled
        /\ m.effects = e /\ m.failures = f
    BY <1>4, <2>1, <2>2 DEF Calls
  <2> QED
    BY <2>2, <2>3
<1>9. request' = [request EXCEPT ![r] =
                    IF m.attempt < Retries[provider].max THEN Again(m) ELSE EndedWith(m, "failed")]
  BY <1>2
<1> HIDE DEF m
<1>10. CASE m.attempt < Retries[provider].max
  <2> DEFINE n == Again(m)
  <2>1. request' = [request EXCEPT ![r] = n]
    BY <1>9, <1>10
  <2>2. m.attempt + 1 \in 0 .. Retries[provider].max
    BY <1>4, <1>5, <1>8, <1>10, RetriesType
  <2>3. n = [m EXCEPT !.attempt = m.attempt + 1, !.flying = FALSE, !.late = FALSE]
    BY DEF Again
  <2> HIDE DEF n
  <2>4. /\ n \in Calls /\ n.op = q.op /\ n.todo = q.todo /\ n.result = "none"
        /\ n.attempt = m.attempt + 1 /\ n.customer = q.customer /\ n.troubled /\ ~n.flying
        /\ n.effects = m.effects /\ n.failures = m.failures
    <3>1. m.attempt + 1 \in Nat
      BY <2>2
    <3> QED
      BY <1>8, <2>3, <3>1 DEF Calls
  <2>5. Fits(n, provider) /\ ~Ensured(n)
    BY <1>4, <1>8, <2>2, <2>4 DEF Fits, Ensured
  <2>6. /\ breaker' \in [state : {"closed", "open", "half"}, failures : 0 .. TripAfter,
                         calls : SUBSET Requests]
        /\ breaker'.calls \subseteq breaker.calls \ {r}
        /\ breaker'.state = "open" => breaker'.calls = {}
        /\ breaker'.state = "half" => \A c, d \in breaker'.calls : c = d
    BY <1>3, <1>7, BreakerKept
  <2>7. /\ request' \in [Requests -> Calls \cup {Idle}]
        /\ request'[r] = n
        /\ \A s \in Requests \ {r} : request'[s] = request[s]
        /\ RequestsFit' /\ RowHolds' /\ BreakerFits'
    BY <1>1, <1>3, <1>4, <2>1, <2>5, <2>6, RequestMoves
  <2>8. /\ OneEnsures'
        /\ customers' \subseteq Nat \ {NoCustomer} /\ IsFiniteSet(customers')
    <3>1. CASE At(r, "create")
      <4>1. OneEnsures'
        BY <1>1, <3>1 DEF OneEnsures
      <4> QED
        BY <1>3, <1>6, <4>1, NewCustomerType DEF Typed
    <3>2. CASE ~At(r, "create")
      <4>1. customers' = customers
        BY <1>6, <3>2
      <4>2. Head(n.todo) # "create"
        BY <1>1, <2>4, <3>2 DEF At
      <4>3. OneEnsures'
        BY <1>1, <1>3, <1>7, <2>4, <2>7, <4>1, <4>2, CustomersStay
      <4> QED
        BY <1>3, <4>1, <4>3 DEF Typed
    <3> QED
      BY <3>1, <3>2
  <2>9. Typed'
    BY <1>1, <1>3, <1>7, <2>6, <2>7, <2>8 DEF Typed
  <2> QED
    BY <2>7, <2>8, <2>9 DEF IInv
<1>11. CASE ~(m.attempt < Retries[provider].max)
  <2> DEFINE n == EndedWith(m, "failed")
  <2>1. request' = [request EXCEPT ![r] = n]
    BY <1>9, <1>11
  <2>2. m.op \in Operations[provider] /\ m.effects <= m.failures + 1
    BY <1>5, <1>8
  <2>3. Fits(n, provider) /\ n.result # "none" /\ n.op = q.op
    BY <1>4, <1>8, <2>2, EndedFits DEF Results
  <2> HIDE DEF n
  <2> QED
    BY <1>1, <1>6, <1>7, <2>1, <2>3, Ends
<1> QED
  BY <1>10, <1>11

LEMMA StepHolds ==
  ASSUME IInv, NEW r \in Requests, Step(r)
  PROVE  IInv'
<1>1. CASE GetOrg(r)
  BY <1>1, GetOrgHolds
<1>2. CASE SaveCustomer(r)
  BY <1>2, SaveCustomerHolds
<1>3. CASE ResolveCustomer(r)
  BY <1>3, ResolveCustomerHolds
<1>4. CASE Send(r)
  BY <1>4, SendHolds
<1>5. CASE Garbled(r)
  BY <1>5, GarbledHolds
<1>6. CASE Fails(r)
  BY <1>6, FailsHolds
<1>7. CASE StripeRefused(r) \/ OAuthRefused(r) \/ RunPodRefused(r)
  BY <1>7, RefusedHolds DEF StripeRefused, OAuthRefused, RunPodRefused
<1>8. CASE SearchAnswered(r)
  BY <1>8, SearchAnsweredHolds
<1>9. CASE CreateAnswered(r)
  BY <1>9, CreateAnsweredHolds
<1>10. CASE CheckoutAnswered(r) \/ PortalAnswered(r) \/ InvoicesAnswered(r) \/ SubscriptionAnswered(r)
  BY <1>10, ContinueHolds
     DEF CheckoutAnswered, PortalAnswered, InvoicesAnswered, SubscriptionAnswered
<1>11. CASE \/ GoogleTokenAnswered(r) \/ GithubTokenAnswered(r)
            \/ GoogleUserAnswered(r) \/ GithubUserAnswered(r) \/ EmailsAnswered(r)
  BY <1>11, ContinueHolds
     DEF GoogleTokenAnswered, GithubTokenAnswered, GoogleUserAnswered, GithubUserAnswered,
         EmailsAnswered
<1>12. CASE RunAnswered(r) \/ CancelAnswered(r) \/ StatusAnswered(r)
  BY <1>12, ContinueHolds DEF RunAnswered, CancelAnswered, StatusAnswered
<1> QED
  BY <1>1, <1>2, <1>3, <1>4, <1>5, <1>6, <1>7, <1>8, <1>9, <1>10, <1>11, <1>12 DEF Step

LEMMA NextHolds == IInv /\ [Next]_vars => IInv'
<1> SUFFICES ASSUME IInv, [Next]_vars PROVE IInv'
  OBVIOUS
<1>1. ASSUME NEW r \in Requests, NEW op \in DOMAIN StepsOf, NEW in \in Inputs, Begin(r, op, in)
      PROVE  IInv'
  BY <1>1, BeginHolds
<1>2. ASSUME NEW r \in Requests, HangUp(r)
      PROVE  IInv'
  BY <1>2, HangUpHolds
<1>3. ASSUME NEW r \in Requests, Step(r)
      PROVE  IInv'
  BY <1>3, StepHolds
<1>4. CASE Lapse
  BY <1>4, LapseHolds
<1>5. CASE UNCHANGED vars
  BY <1>5 DEF vars, IInv, Typed, RequestsFit, RowHolds, BreakerFits, OneEnsures, Started, Active,
              At, Flying
<1> QED
  BY <1>1, <1>2, <1>3, <1>4, <1>5 DEF Next


-----------------------------------------------------------------------------
(* The choices a client makes.                                             *)

(* A set of numbers has a least one.                                       *)
LEMMA LeastNumber ==
  ASSUME NEW T \in SUBSET Nat, T # {}
  PROVE  \E x \in T : \A y \in T : x <= y
<1> DEFINE R == OpToRel(<, Nat)
<1>1. IsWellFoundedOn(R, Nat)
  BY NatLessThanWellFounded
<1> HIDE DEF R
<1>2. PICK x \in T : \A y \in T : ~(<<y, x>> \in R)
  BY <1>1, WFMin
<1>3. \A y \in T : ~(y < x)
  BY <1>2 DEF R, OpToRel
<1> QED
  BY <1>3

LEMMA PreferenceType ==
  ASSUME NEW e \in Emails
  PROVE  /\ Preference(e) \in 1 .. 4
         /\ e.verified <=> Preference(e) <= 2
         /\ e.verified /\ e.primary <=> Preference(e) = 1
BY DEF Preference, Emails

(* The address that is taken comes first in the order, however many there  *)
(* are.                                                                    *)
LEMMA PrimaryEmailIsBest ==
  ASSUME NEW n \in Nat \ {0}, NEW emails \in [1 .. n -> Emails]
  PROVE  /\ PrimaryEmail(emails) \in 1 .. n
         /\ \A j \in 1 .. n : Preference(emails[PrimaryEmail(emails)]) <= Preference(emails[j])
<1> DEFINE P(i) == Preference(emails[i])
           T == {P(i) : i \in 1 .. n}
           Best(i) == \A j \in DOMAIN emails : P(i) < P(j) \/ (P(i) = P(j) /\ i <= j)
<1>1. \A i \in 1 .. n : P(i) \in Nat
  BY PreferenceType
<1>2. T \in SUBSET Nat /\ T # {}
  BY <1>1
<1>3. PICK p \in T : \A y \in T : p <= y
  BY <1>2, LeastNumber
<1> DEFINE U == {i \in 1 .. n : P(i) = p}
<1>4. U \in SUBSET Nat /\ U # {}
  BY <1>3
<1>5. PICK k \in U : \A y \in U : k <= y
  BY <1>4, LeastNumber
<1>6. \A j \in 1 .. n : p <= P(j)
  BY <1>3
<1>7. \A j \in 1 .. n : p < P(j) \/ j \in U
  BY <1>1, <1>3, <1>6
<1>8. k \in DOMAIN emails /\ Best(k)
  BY <1>5, <1>7
<1>9. PrimaryEmail(emails) = CHOOSE i \in DOMAIN emails : Best(i)
  BY DEF PrimaryEmail
<1> HIDE DEF Best
<1>10. PrimaryEmail(emails) \in DOMAIN emails /\ Best(PrimaryEmail(emails))
  BY <1>8, <1>9
<1> QED
  BY <1>1, <1>10 DEF Best

LEMMA RetriesBounds ==
  ASSUME NEW p \in Names
  PROVE  /\ Retries[p].max \in 1 .. 2
         /\ Retries[p].minWait \in Nat /\ Retries[p].maxWait \in Nat
         /\ 1 <= Retries[p].minWait /\ Retries[p].minWait <= Retries[p].maxWait
<1>1. /\ Retries["stripe"] = StripeRetries /\ Retries["google"] = GoogleRetries
      /\ Retries["github"] = GithubRetries /\ Retries["runpod"] = RunPodRetries
  BY DEF Retries
<1>2. CASE p = "stripe"
  BY <1>1, <1>2 DEF StripeRetries
<1>3. CASE p = "google"
  BY <1>1, <1>3 DEF GoogleRetries
<1>4. CASE p = "github"
  BY <1>1, <1>4 DEF GithubRetries
<1>5. CASE p = "runpod"
  BY <1>1, <1>5 DEF RunPodRetries
<1> QED
  BY <1>2, <1>3, <1>4, <1>5 DEF Names

(* A wait is positive and bounded, whatever the header says.               *)
LEMMA WaitsAreBounded ==
  ASSUME NEW p \in Names, NEW h \in Headers, NEW attempt \in 0 .. Retries[p].max
  PROVE  Waits(p, attempt, h) # {} /\ Waits(p, attempt, h) \subseteq 1 .. Retries[p].maxWait
<1> DEFINE least == Retries[p].minWait
           most == Retries[p].maxWait
           times == 2^attempt
<1>1. /\ Retries[p].max \in 1 .. 2 /\ least \in Nat /\ most \in Nat
      /\ 1 <= least /\ least <= most
  BY RetriesBounds
<1>2. times \in {1, 2, 4}
  <2>1. attempt = 0 \/ attempt = 1 \/ attempt = 2
    BY <1>1
  <2>2. 2^0 = 1 /\ 2^1 = 2 /\ 2^2 = 4
    OBVIOUS
  <2> QED
    BY <2>1, <2>2
<1>3. h.value \in Int /\ h.form \in {"seconds", "date", "none"}
  BY DEF Headers
<1>4. Waits(p, attempt, h) =
        CASE h.form = "seconds" /\ h.value > 0 -> {Least(2 * h.value, most)}
          [] h.form = "date" /\ h.value > 0    -> {Least(h.value, most)}
          [] h.form = "date" /\ h.value <= 0   -> {least}
          [] OTHER                             -> least .. Least(least * times, most)
  BY DEF Waits
<1> HIDE DEF least, most, times
<1>5. CASE h.form = "seconds" /\ h.value > 0
  <2>1. Waits(p, attempt, h) = {Least(2 * h.value, most)}
    BY <1>4, <1>5
  <2>2. Least(2 * h.value, most) \in 1 .. most
    BY <1>1, <1>3, <1>5 DEF Least
  <2> QED
    BY <2>1, <2>2 DEF most
<1>6. CASE h.form = "date" /\ h.value > 0
  <2>0. /\ ~(h.form = "seconds" /\ h.value > 0)
        /\ ~(h.form = "date" /\ h.value <= 0)
    BY <1>3, <1>6
  <2>1. Waits(p, attempt, h) = {Least(h.value, most)}
    BY <1>4, <1>6, <2>0
  <2>2. Least(h.value, most) \in 1 .. most
    BY <1>1, <1>3, <1>6 DEF Least
  <2> QED
    BY <2>1, <2>2 DEF most
<1>7. CASE h.form = "date" /\ h.value <= 0
  <2>1. Waits(p, attempt, h) = {least}
    BY <1>3, <1>4, <1>7
  <2> QED
    BY <1>1, <2>1 DEF most
<1>8. CASE /\ ~(h.form = "seconds" /\ h.value > 0)
           /\ ~(h.form = "date" /\ h.value > 0)
           /\ ~(h.form = "date" /\ h.value <= 0)
  <2>1. Waits(p, attempt, h) = least .. Least(least * times, most)
    BY <1>4, <1>8
  <2>2. least * times \in Nat /\ least <= least * times
    <3>1. CASE times = 1
      BY <1>1, <3>1
    <3>2. CASE times = 2
      BY <1>1, <3>2
    <3>3. CASE times = 4
      BY <1>1, <3>3
    <3> QED
      BY <1>2, <3>1, <3>2, <3>3
  <2>3. least \in least .. Least(least * times, most) /\ Least(least * times, most) <= most
        /\ Least(least * times, most) \in Nat
    BY <1>1, <2>2 DEF Least
  <2> QED
    BY <1>1, <2>1, <2>3 DEF most
<1> QED
  BY <1>5, <1>6, <1>7, <1>8

-----------------------------------------------------------------------------
(* The theorems.                                                           *)

(* What the arguments rest on: each request fits its place, an untroubled  *)
(* request for a session leaves a customer in the row, the breaker counts  *)
(* calls under way, and without an excuse one request makes a customer.    *)
THEOREM InvariantHolds == Spec => []IInv
BY InitHolds, NextHolds, PTL DEF Spec

(* Where no call and no statement fails, a request gets what it asked for, *)
(* whatever other requests do meanwhile: a checkout finds or makes the     *)
(* customer, remembers it, and resolves it.                                *)
THEOREM UntroubledRequestsSucceed == Spec => []HealthyRequestsSucceed
<1>1. IInv => HealthyRequestsSucceed
  BY DEF IInv, RequestsFit, HealthyRequestsSucceed, Ended, Fits, Healthy
<1> QED
  BY <1>1, InvariantHolds, PTL

(* A step leaves more than one effect only if an answer was not received,  *)
(* and an organization has one customer unless checkouts overlapped or the *)
(* answer to a creation was lost.                                          *)
THEOREM EffectsAreNotDoubled == Spec => []NothingIsDoubled
<1>1. IInv => OneCustomer
  BY DEF IInv, OneEnsures, OneCustomer
<1>2. IInv => EffectsAreExplained
  <2> SUFFICES ASSUME IInv, NEW r \in Requests, Started(r)
               PROVE  request[r].effects <= request[r].failures + (IF Ended(r) THEN 1 ELSE 0)
    BY DEF EffectsAreExplained
  <2>1. Fits(request[r], provider)
    BY DEF IInv, RequestsFit
  <2>2. request[r].effects \in Nat /\ request[r].failures \in Nat
    BY <2>1 DEF Fits, Calls
  <2>3. CASE request[r].result = "none"
    BY <2>1, <2>2, <2>3 DEF Fits, Ended
  <2>4. CASE request[r].result # "none"
    BY <2>1, <2>2, <2>4 DEF Fits, Ended
  <2> QED
    BY <2>3, <2>4
<1> QED
  BY <1>1, <1>2, InvariantHolds, PTL DEF NothingIsDoubled

(* The types, and the breaker: it lets one call through while it is half   *)
(* open, and counts no call from before it opened.                         *)
THEOREM BreakerCountsItsCalls == Spec => []Consistent
<1>1. IInv => TypeOK
  <2> SUFFICES ASSUME IInv PROVE TypeOK
    OBVIOUS
  <2>1. /\ provider \in Providers
        /\ breaker.state \in {"closed", "open", "half"}
        /\ breaker.failures \in 0 .. TripAfter
        /\ breaker.calls \subseteq {r \in Requests : Flying(r)}
        /\ row \in Nat /\ customers \subseteq Nat
    BY DEF IInv, Typed, BreakerFits
  <2>2. ASSUME NEW r \in Requests, Started(r)
        PROVE  /\ request[r].op \in Operations[provider]
               /\ IsSuffix(request[r].todo, StepsOf[request[r].op])
               /\ request[r].attempt \in 0 .. Retries[provider].max
               /\ {request[r].flying, request[r].hungUp, request[r].late, request[r].troubled}
                    \subseteq BOOLEAN
               /\ request[r].effects \in Nat /\ request[r].failures \in Nat
               /\ request[r].result \in {"none", "ok", "unfinished", "rejected", "refused",
                                         "noCustomer", "failed", "limited", "garbled"}
               /\ Flying(r) => Head(request[r].todo) \notin Local
               /\ Active(r) => request[r].todo # << >>
    <3>1. Fits(request[r], provider)
      BY <2>2 DEF IInv, RequestsFit
    <3>2. /\ request[r].flying \in BOOLEAN /\ request[r].hungUp \in BOOLEAN
          /\ request[r].late \in BOOLEAN /\ request[r].troubled \in BOOLEAN
          /\ request[r].effects \in Nat /\ request[r].failures \in Nat
          /\ request[r].result \in Results
      BY <3>1 DEF Fits, Calls
    <3>3. {request[r].flying, request[r].hungUp, request[r].late, request[r].troubled}
             \subseteq BOOLEAN
      BY <3>2
    <3> QED
      BY <3>1, <3>2, <3>3 DEF Fits, Results, Flying, Active
  <2> QED
    BY <2>1, <2>2 DEF TypeOK
<1>2. IInv => BreakerHolds
  <2> SUFFICES ASSUME IInv PROVE BreakerHolds
    OBVIOUS
  <2>1. breaker.state = "half" => Cardinality(breaker.calls) <= 1
    <3> SUFFICES ASSUME breaker.state = "half" PROVE Cardinality(breaker.calls) <= 1
      OBVIOUS
    <3>1. \A r, s \in breaker.calls : r = s
      BY DEF IInv, BreakerFits
    <3>2. CASE breaker.calls = {}
      <4>1. Cardinality({}) = 0
        BY FS_EmptySet
      <4> QED
        BY <3>2, <4>1
    <3>3. CASE breaker.calls # {}
      <4>1. PICK r \in breaker.calls : TRUE
        BY <3>3
      <4>2. breaker.calls = {r}
        BY <3>1, <4>1
      <4>3. Cardinality({r}) = 1
        BY FS_Singleton
      <4> QED
        BY <4>2, <4>3
    <3> QED
      BY <3>2, <3>3
  <2> QED
    BY <2>1 DEF IInv, BreakerFits, BreakerHolds
<1> QED
  BY <1>1, <1>2, InvariantHolds, PTL DEF Consistent

(* A verified address is taken if there is one, the primary one if that is *)
(* verified, and every wait before a retry is positive and bounded.        *)
THEOREM SafeChoices == Spec => []ChoicesAreSafe
<1>1. ChoicesAreSafe
  <2>1. ASSUME NEW n \in 1 .. 3, NEW emails \in [1 .. n -> Emails]
        PROVE  LET e == emails[PrimaryEmail(emails)]
               IN  /\ (\E i \in 1 .. n : emails[i].verified) => e.verified
                   /\ (\E i \in 1 .. n : emails[i].verified /\ emails[i].primary) => e.primary
    <3> DEFINE k == PrimaryEmail(emails)
    <3>1. k \in 1 .. n /\ \A j \in 1 .. n : Preference(emails[k]) <= Preference(emails[j])
      BY PrimaryEmailIsBest
    <3> HIDE DEF k
    <3>2. \A j \in 1 .. n : /\ Preference(emails[j]) \in 1 .. 4
                            /\ emails[j].verified <=> Preference(emails[j]) <= 2
                            /\ emails[j].verified /\ emails[j].primary <=> Preference(emails[j]) = 1
      BY PreferenceType
    <3>3. (\E i \in 1 .. n : emails[i].verified) => emails[k].verified
      BY <3>1, <3>2
    <3>4. (\E i \in 1 .. n : emails[i].verified /\ emails[i].primary) => emails[k].primary
      BY <3>1, <3>2
    <3> QED
      BY <3>3, <3>4 DEF k
  <2>2. DOMAIN Retries = Names
    BY DEF Retries, Names
  <2> QED
    BY <2>1, <2>2, WaitsAreBounded DEF ChoicesAreSafe
<1> QED
  BY <1>1, PTL
=============================================================================
