------------------------------- MODULE Clients -------------------------------
(***************************************************************************)
(* Requests that call one external provider: checkouts, portal sessions    *)
(* and reads at Stripe, sign-ins at Google and GitHub, inference jobs at   *)
(* RunPod.  The calls share the circuit breaker of the provider's client   *)
(* and are retried; an answer may be lost after the provider has done what *)
(* was asked, and the caller may hang up.  Stripe has the customers of one *)
(* organization, whose id the organization's row remembers.                *)
(***************************************************************************)
EXTENDS Integers, FiniteSets, Sequences, SequencesExt

CONSTANTS
  Requests,   \* HTTP requests to the API, or executions of the poller
  Providers,  \* the providers a behaviour may be about
  TripAfter,  \* consecutive failures the breaker puts up with
  MaxLapses   \* bound: timers of the breaker that run out, and callers that hang up

ASSUME ClientsAssumption ==
  /\ Providers \subseteq {"stripe", "google", "github", "runpod"}
  /\ {TripAfter, MaxLapses} \subseteq Nat

(***************************************************************************)
(* Retries and waits, in halves of a second.                               *)
(***************************************************************************)
StripeRetries == [max |-> 2, minWait |-> 1, maxWait |-> 10]
GoogleRetries == [max |-> 1, minWait |-> 1, maxWait |-> 6]
GithubRetries == [max |-> 1, minWait |-> 1, maxWait |-> 6]
RunPodRetries == [max |-> 2, minWait |-> 2, maxWait |-> 20]

Retries == [stripe |-> StripeRetries, google |-> GoogleRetries,
            github |-> GithubRetries, runpod |-> RunPodRetries]

Least(a, b)    == IF a < b THEN a ELSE b
Greatest(a, b) == IF a < b THEN b ELSE a

\* A Retry-After header in seconds, as a date (the wait until it), or none that parses.
Headers == [form : {"seconds", "date"}, value : -3..30] \cup {[form |-> "none", value |-> 0]}

\* The waits the client may choose before it tries again.
Waits(p, attempt, h) ==
  LET least == Retries[p].minWait
      most  == Retries[p].maxWait
  IN  CASE h.form = "seconds" /\ h.value > 0 -> {Least(2 * h.value, most)}
        [] h.form = "date" /\ h.value > 0    -> {Least(h.value, most)}
        [] h.form = "date" /\ h.value <= 0   -> {least}
        [] OTHER                             -> least .. Least(least * 2^attempt, most)

\* Mutant: a primary address before a verified one.
PrimaryFirst(e) ==
  IF e.primary /\ e.verified THEN 1 ELSE IF e.primary THEN 2 ELSE IF e.verified THEN 3 ELSE 4

\* The address of a GitHub account: primary and verified before verified before
\* primary, and the first in the list of those that are equal.
Preference(e) ==
  IF e.primary /\ e.verified THEN 1 ELSE IF e.verified THEN 2 ELSE IF e.primary THEN 3 ELSE 4

PrimaryEmail(emails) ==
  CHOOSE i \in DOMAIN emails : \A j \in DOMAIN emails :
    \/ Preference(emails[i]) < Preference(emails[j])
    \/ Preference(emails[i]) = Preference(emails[j]) /\ i <= j

-----------------------------------------------------------------------------
(***************************************************************************)
(* What each operation does, one step after another.  "org", "save" and    *)
(* "resolve" are statements on the organization's row; the others are HTTP *)
(* calls.                                                                  *)
(***************************************************************************)
EnsureCustomer  == <<"search", "create", "save">>
CheckoutSteps   == <<"org">> \o EnsureCustomer \o <<"resolve", "checkout">>
PortalSteps     == <<"org">> \o EnsureCustomer \o <<"resolve", "portal">>
InvoiceSteps    == <<"resolve", "invoices">>
SubscriptionSteps == <<"resolve", "subscription">>
GoogleSteps     == <<"token", "user">>
GithubSteps     == <<"token", "user", "emails">>
TriggerSteps    == <<"run">>
CancelSteps     == <<"cancel">>
StatusSteps     == <<"status">>

StepsOf == [checkout |-> CheckoutSteps, portal |-> PortalSteps, invoices |-> InvoiceSteps,
            subscription |-> SubscriptionSteps, google |-> GoogleSteps, github |-> GithubSteps,
            trigger |-> TriggerSteps, cancelJob |-> CancelSteps, jobStatus |-> StatusSteps]

Operations == [stripe |-> {"checkout", "portal", "invoices", "subscription"},
               google |-> {"google"}, github |-> {"github"},
               runpod |-> {"trigger", "cancelJob", "jobStatus"}]

SignIns   == {"google", "github"}
Local     == {"org", "save", "resolve"}
Mutating  == {"create", "checkout", "portal", "token", "run"}
Ensures(op) == op \in {"checkout", "portal"}

\* What a handler wants of a request before it calls the provider.
CheckoutAccepted(in) == in.plan # "free"
InvoicesAccepted(in) == in.role # "member"
CallbackAccepted(in) == in.state = in.cookie /\ in.cookie # "none"

Accepted(op, in) ==
  CASE op = "checkout" -> CheckoutAccepted(in)
    [] op = "invoices" -> InvoicesAccepted(in)
    [] op \in SignIns  -> CallbackAccepted(in)
    [] OTHER           -> TRUE

Inputs == [plan : {"free", "pro"}, role : {"member", "admin"},
           state : {"s1", "s2"}, cookie : {"s1", "none"}]

\* The last word of an operation in which nothing goes wrong: the callback of a sign-in
\* ends in an error, for LoginWithOAuth does not exist yet.
Promised(op) == IF op \in SignIns THEN "unfinished" ELSE "ok"

VARIABLES
  provider,   \* the provider this behaviour is about
  request,    \* request -> what it is doing; effects, failures: those of the present step
  breaker,    \* of the provider's client; calls: those whose outcome it still counts
  customers,  \* Stripe's customers with the organization's id
  row,        \* stripe_customer_id; NoCustomer if it is empty
  excused,    \* two checkouts overlapped, or the answer to a creation was lost
  lapses      \* timers that ran out and callers that hung up, bounded

vars == <<provider, request, breaker, customers, row, excused, lapses>>

NoCustomer == 0
Removed    == 1 \* a customer Stripe has no more
Present    == 2

Idle == [op |-> "none"]

Started(r)  == request[r] # Idle
Ended(r)    == Started(r) /\ request[r].result # "none"
Active(r)   == Started(r) /\ request[r].result = "none"
At(r, step) == Active(r) /\ Head(request[r].todo) = step
Flying(r)   == Active(r) /\ request[r].flying

TypeOK ==
  /\ provider \in Providers
  /\ breaker.state \in {"closed", "open", "half"}
  /\ breaker.failures \in 0 .. TripAfter
  /\ breaker.calls \subseteq {r \in Requests : Flying(r)}
  /\ \A r \in Requests : Started(r) =>
       /\ request[r].op \in Operations[provider]
       /\ IsSuffix(request[r].todo, StepsOf[request[r].op])
       /\ request[r].attempt \in 0 .. Retries[provider].max
       /\ {request[r].flying, request[r].hungUp, request[r].late, request[r].troubled} \subseteq BOOLEAN
       /\ request[r].effects \in Nat /\ request[r].failures \in Nat
       /\ request[r].result \in {"none", "ok", "unfinished", "rejected", "refused", "noCustomer",
                                 "failed", "limited", "garbled"}
       /\ Flying(r) => Head(request[r].todo) \notin Local
       /\ Active(r) => request[r].todo # << >>
  /\ row \in Nat /\ customers \subseteq Nat

Init ==
  /\ provider \in Providers
  /\ request = [r \in Requests |-> Idle]
  /\ breaker = [state |-> "closed", failures |-> 0, calls |-> {}]
  /\ customers \in IF provider = "stripe" THEN {{}, {Present}} ELSE {{}}
  /\ row \in IF provider = "stripe" THEN {NoCustomer, Removed} \cup customers ELSE {NoCustomer}
  /\ excused = FALSE
  /\ lapses = 0

-----------------------------------------------------------------------------
(***************************************************************************)
(* Requests                                                                *)
(***************************************************************************)
Begin(r, op, in) ==
  /\ ~Started(r)
  /\ op \in Operations[provider]
  /\ request' = [request EXCEPT ![r] =
       [op |-> op, todo |-> StepsOf[op], attempt |-> 0, flying |-> FALSE, hungUp |-> FALSE,
        late |-> FALSE, customer |-> NoCustomer, effects |-> 0, failures |-> 0,
        troubled |-> ~Accepted(op, in),
        result |-> IF Accepted(op, in) THEN "none" ELSE "rejected"]]
  /\ excused' = \/ excused
                \/ /\ Ensures(op) /\ Accepted(op, in)
                   /\ \E s \in Requests : Active(s) /\ Ensures(request[s].op)
  /\ UNCHANGED <<provider, breaker, customers, row, lapses>>

\* The client of the API goes away: the context of its request is done.
HangUp(r) ==
  /\ Active(r) /\ ~request[r].hungUp
  /\ lapses < MaxLapses
  /\ lapses' = lapses + 1
  /\ request' = [request EXCEPT ![r].hungUp = TRUE, ![r].troubled = TRUE]
  /\ UNCHANGED <<provider, breaker, customers, row, excused>>

\* Of a request that has ended only what it was told matters, and the effects that no
\* failure explains.
Over(q, result) ==
  [q EXCEPT !.result = result, !.todo = << >>, !.attempt = 0, !.flying = FALSE,
            !.hungUp = FALSE, !.late = FALSE, !.customer = NoCustomer,
            !.effects = Greatest(0, @ - q.failures), !.failures = 0]

EndedWith(q, result) == [Over(q, result) EXCEPT !.troubled = TRUE]

\* Request q has done its first step, which may have been the last.
Advanced(q) ==
  IF Len(q.todo) = 1
  THEN Over(q, Promised(q.op))
  ELSE [q EXCEPT !.todo = Tail(@), !.attempt = 0, !.flying = FALSE,
                 !.effects = 0, !.failures = 0]

(***************************************************************************)
(* The statements on the organization's row.                               *)
(***************************************************************************)
GetOrg(r) ==
  /\ At(r, "org")
  /\ \/ ~request[r].hungUp /\ request' = [request EXCEPT ![r] = Advanced(@)]
     \/ request' = [request EXCEPT ![r] = EndedWith(@, "failed")]
  /\ UNCHANGED <<provider, breaker, customers, row, excused, lapses>>

\* A failure to remember the customer is logged.  The id that EnsureCustomer returns is
\* not used.
SaveCustomer(r) ==
  /\ At(r, "save")
  /\ \/ /\ ~request[r].hungUp
        /\ row' = request[r].customer
        /\ request' = [request EXCEPT ![r] = Advanced([@ EXCEPT !.customer = NoCustomer])]
     \/ /\ UNCHANGED row
        /\ request' = [request EXCEPT ![r] =
             Advanced([@ EXCEPT !.customer = NoCustomer, !.troubled = TRUE])]
  /\ UNCHANGED <<provider, breaker, customers, excused, lapses>>

\* A session is for the customer in the row, not for the one that was just ensured.
ResolveCustomer(r) ==
  /\ At(r, "resolve")
  /\ \/ /\ ~request[r].hungUp /\ row # NoCustomer
        /\ request' = [request EXCEPT ![r] = Advanced([@ EXCEPT !.customer = row])]
     \/ /\ ~request[r].hungUp /\ row = NoCustomer
        /\ request' = [request EXCEPT ![r] = Over(@, "noCustomer")]
     \/ request' = [request EXCEPT ![r] = EndedWith(@, "failed")]
  /\ UNCHANGED <<provider, breaker, customers, row, excused, lapses>>

-----------------------------------------------------------------------------
(***************************************************************************)
(* HTTP calls.  The breaker forgets the calls that are under way when its  *)
(* state changes or its interval ends.                                     *)
(***************************************************************************)
Trips(failures) == failures > TripAfter

Renewed(state) == [state |-> state, failures |-> 0, calls |-> {}]

Succeeded(r) ==
  IF r \notin breaker.calls THEN breaker
  ELSE IF breaker.state = "half" THEN Renewed("closed")
  ELSE [breaker EXCEPT !.failures = 0, !.calls = @ \ {r}]

Failed(r) ==
  IF r \notin breaker.calls THEN breaker
  ELSE IF breaker.state = "half" \/ Trips(breaker.failures + 1) THEN Renewed("open")
  ELSE [breaker EXCEPT !.failures = @ + 1, !.calls = @ \ {r}]

\* Mutant: a half open breaker admits every call.
AdmitsProbes == breaker.state # "open"

Admits == breaker.state # "open" /\ (breaker.state = "half" => breaker.calls = {})

Send(r) ==
  /\ Active(r) /\ ~Flying(r) /\ Head(request[r].todo) \notin Local
  /\ IF Admits
     THEN /\ breaker' = [breaker EXCEPT !.calls = @ \cup {r}]
          /\ request' = [request EXCEPT ![r].flying = TRUE, ![r].late = request[r].hungUp]
     ELSE /\ request' = [request EXCEPT ![r] = EndedWith(@, "limited")]
          /\ UNCHANGED breaker
  /\ UNCHANGED <<provider, customers, row, excused, lapses>>

\* Stripe knows the customer, and an authorization code is good for one token.
Possible(r) ==
  /\ Head(request[r].todo) \in {"checkout", "portal", "invoices", "subscription"}
       => request[r].customer \in customers
  /\ At(r, "token") => request[r].effects = 0

NewCustomer == Present + Cardinality(customers)

\* What the provider does for a call, whether or not its answer arrives.
TakesEffect(r) ==
  /\ Possible(r) /\ ~request[r].late
  /\ customers' = IF At(r, "create") THEN customers \cup {NewCustomer} ELSE customers

NoEffect == UNCHANGED customers

Effects(q) == q.effects + (IF Head(q.todo) \in Mutating THEN 1 ELSE 0)

\* A call of this step is answered with what was asked for.
Answered(r, step) ==
  /\ Flying(r) /\ At(r, step) /\ ~request[r].hungUp
  /\ TakesEffect(r)
  /\ breaker' = Succeeded(r)
  /\ UNCHANGED <<provider, row, excused, lapses>>

Continue(r) ==
  request' = [request EXCEPT ![r] = Advanced([@ EXCEPT !.effects = Effects(request[r])])]

\* Mutants: a customer that is found is not remembered, or not looked for in the answer.
FoundIsNotSaved(r) ==
  /\ Answered(r, "search")
  /\ IF customers = {}
     THEN Continue(r)
     ELSE \E c \in customers :
            request' = [request EXCEPT ![r] =
              Advanced([@ EXCEPT !.todo = Tail(Tail(@)), !.customer = c])]

FoundIsIgnored(r) == Answered(r, "search") /\ Continue(r)

\* The first customer of the answer is the one to save, and the creation is left out.
Found(q, c) == [q EXCEPT !.todo = Tail(@), !.customer = c]

\* Search first: a customer that is found is remembered, and none is created.
SearchAnswered(r) ==
  /\ Answered(r, "search")
  /\ IF customers = {}
     THEN Continue(r)
     ELSE \E c \in customers : request' = [request EXCEPT ![r] = Advanced(Found(@, c))]

Created(q, c) == [q EXCEPT !.customer = c, !.effects = @ + 1]

CreateAnswered(r) ==
  /\ Answered(r, "create")
  /\ request' = [request EXCEPT ![r] = Advanced(Created(@, NewCustomer))]

CheckoutAnswered(r)     == Answered(r, "checkout") /\ Continue(r)
PortalAnswered(r)       == Answered(r, "portal") /\ Continue(r)
InvoicesAnswered(r)     == Answered(r, "invoices") /\ Continue(r)
SubscriptionAnswered(r) == Answered(r, "subscription") /\ Continue(r)
GoogleTokenAnswered(r)  == provider = "google" /\ Answered(r, "token") /\ Continue(r)
GithubTokenAnswered(r)  == provider = "github" /\ Answered(r, "token") /\ Continue(r)
GoogleUserAnswered(r)   == provider = "google" /\ Answered(r, "user") /\ Continue(r)
GithubUserAnswered(r)   == provider = "github" /\ Answered(r, "user") /\ Continue(r)
EmailsAnswered(r)       == Answered(r, "emails") /\ Continue(r)
RunAnswered(r)          == Answered(r, "run") /\ Continue(r)
CancelAnswered(r)       == Answered(r, "cancel") /\ Continue(r)
StatusAnswered(r)       == Answered(r, "status") /\ Continue(r)

Undecoded(q) == [q EXCEPT !.effects = Effects(q), !.failures = @ + 1]

\* A 200 that cannot be decoded: nobody asks again, although it was done.
Garbled(r) ==
  /\ Flying(r) /\ ~request[r].hungUp /\ ~At(r, "cancel")
  /\ TakesEffect(r)
  /\ breaker' = Succeeded(r)
  /\ request' = [request EXCEPT ![r] = EndedWith(Undecoded(@), "garbled")]
  /\ excused' = (excused \/ At(r, "create"))
  /\ UNCHANGED <<provider, row, lapses>>

\* A 4xx, or a 200 that holds an error: it is final and is no failure of the provider's.
Refused(r) ==
  /\ Flying(r) /\ ~request[r].hungUp
  /\ breaker' = Succeeded(r)
  /\ request' = [request EXCEPT ![r] = EndedWith(@, "refused")]
  /\ UNCHANGED <<provider, customers, row, excused, lapses>>

StripeRefused(r) == provider = "stripe" /\ Refused(r)
OAuthRefused(r)  == provider \in SignIns /\ Refused(r)
RunPodRefused(r) == provider = "runpod" /\ Refused(r)

Failure(q, effect) ==
  [q EXCEPT !.effects = IF effect THEN @ + 1 ELSE @, !.failures = @ + 1, !.troubled = TRUE]

Again(q) == [q EXCEPT !.attempt = @ + 1, !.flying = FALSE, !.late = FALSE]

\* A 429, a 5xx or no answer, after the provider has done what was asked or not: the
\* call is repeated as it was, and the last failure is told to the caller.
Fails(r) ==
  /\ Flying(r)
  /\ \E effect \in BOOLEAN :
       /\ IF effect THEN Head(request[r].todo) \in Mutating /\ TakesEffect(r) ELSE NoEffect
       /\ LET q == Failure(request[r], effect)
          IN  request' = [request EXCEPT ![r] =
                IF q.attempt < Retries[provider].max THEN Again(q) ELSE EndedWith(q, "failed")]
  /\ breaker' = Failed(r)
  /\ excused' = (excused \/ At(r, "create"))
  /\ UNCHANGED <<provider, row, lapses>>

\* The interval ends, in which failures are counted, or the timeout of an open breaker.
Lapse ==
  /\ lapses < MaxLapses
  /\ \/ breaker.state = "closed" /\ breaker.failures > 0 /\ breaker' = Renewed("closed")
     \/ breaker.state = "open" /\ breaker' = Renewed("half")
  /\ lapses' = lapses + 1
  /\ UNCHANGED <<provider, request, customers, row, excused>>

-----------------------------------------------------------------------------
Step(r) ==
  \/ GetOrg(r) \/ SaveCustomer(r) \/ ResolveCustomer(r)
  \/ Send(r) \/ Garbled(r) \/ Fails(r)
  \/ StripeRefused(r) \/ OAuthRefused(r) \/ RunPodRefused(r)
  \/ SearchAnswered(r) \/ CreateAnswered(r) \/ CheckoutAnswered(r) \/ PortalAnswered(r)
  \/ InvoicesAnswered(r) \/ SubscriptionAnswered(r)
  \/ GoogleTokenAnswered(r) \/ GithubTokenAnswered(r)
  \/ GoogleUserAnswered(r) \/ GithubUserAnswered(r) \/ EmailsAnswered(r)
  \/ RunAnswered(r) \/ CancelAnswered(r) \/ StatusAnswered(r)

Next ==
  \/ \E r \in Requests :
       \/ \E op \in DOMAIN StepsOf, in \in Inputs : Begin(r, op, in)
       \/ HangUp(r)
       \/ Step(r)
  \/ Lapse

Spec == Init /\ [][Next]_vars

-----------------------------------------------------------------------------
(***************************************************************************)
(* Properties                                                              *)
(***************************************************************************)
\* "Self-healing customer id": where no call and no statement fails, a request gets
\* what it asked for, be the row empty or the customer in it removed, and whatever
\* other requests do meanwhile; only reads need a customer that is there already.
HealthyRequestsSucceed ==
  \A r \in Requests : Ended(r) /\ ~request[r].troubled =>
    \/ request[r].result = Promised(request[r].op)
    \/ request[r].result = "noCustomer" /\ request[r].op \in {"invoices", "subscription"}

\* A POST is repeated without an idempotency key, and yet leaves more than one
\* customer, session or job only if an answer was not received.
EffectsAreExplained ==
  \A r \in Requests : Started(r) =>
    request[r].effects <= request[r].failures + (IF Ended(r) THEN 1 ELSE 0)

\* stripe.go:124, "search-first logic to prevent duplicates": an organization has one
\* customer, unless checkouts overlapped or the answer to a creation was lost.
OneCustomer == excused \/ Cardinality(customers) <= 1

\* Neither retries nor overlapping requests do at a provider what nobody asked for.
NothingIsDoubled == EffectsAreExplained /\ OneCustomer

\* The breaker, whatever order the answers arrive in: it lets at most one call through
\* while it is half open, and no outcome of a call from before it opened is taken for
\* that of the probe.
BreakerHolds ==
  /\ breaker.state = "open" => breaker.calls = {}
  /\ breaker.state = "half" => Cardinality(breaker.calls) <= 1

\* The types, and the calls the breaker counts.
Consistent == TypeOK /\ BreakerHolds

\* GitHub: an address the account has verified is taken if there is one, the primary
\* one if that is verified; and every wait before a retry is positive and bounded.
Emails == [primary : BOOLEAN, verified : BOOLEAN]

ChoicesAreSafe ==
  Init =>
    /\ \A n \in 1..3 : \A emails \in [1..n -> Emails] :
         LET e == emails[PrimaryEmail(emails)]
         IN  /\ (\E i \in 1..n : emails[i].verified) => e.verified
             /\ (\E i \in 1..n : emails[i].verified /\ emails[i].primary) => e.primary
    /\ \A p \in DOMAIN Retries, h \in Headers : \A attempt \in 0 .. Retries[p].max :
         Waits(p, attempt, h) # {} /\ Waits(p, attempt, h) \subseteq 1 .. Retries[p].maxWait

==============================================================================
