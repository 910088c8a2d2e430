---------------------------- MODULE MeterLedger ----------------------------
(***************************************************************************)
(* The ledger of metered usage: publish_meter claims a row of              *)
(* stripe_meter_effects under the delivery id the caller chose, POSTs one  *)
(* meter event and writes its outcome.  The ledger has the checkout        *)
(* ledger's statements, but the caller is compared and no part of the key, *)
(* fail_meter_effect's answer is looked at, no operator settles an unknown *)
(* row, and a request is refused by its age before the ledger is asked.    *)
(* One SQL statement is one action.                                        *)
(*                                                                         *)
(* Which requests and which customers' checkouts a behaviour may see is    *)
(* chosen at its start from Traffic, so that one run takes several small   *)
(* casts; the theorems hold of any Traffic, all of both included.          *)
(***************************************************************************)
EXTENDS Naturals

CONSTANTS
    Process,        \* invocation slots, each of a plugin process of its own
    Delivery,       \* delivery ids
    Request,        \* requests, as told apart by caller and content
    Caller,         \* meter_instances
    Content,        \* what request_hash covers, the occurrence time included
    Subject,        \* scope kind, scope id and subject
    Customer,       \* Stripe customers
    CallerOf,       \* Request -> Caller
    ContentOf,      \* Request -> Content
    SubjectOf,      \* Content -> Subject
    OwnerOf,        \* Customer -> Subject: whose checkout made the customer
    Traffic,        \* the casts: [requests, customers]
    Uncertainty,    \* effect_uncertainty_seconds, in ticks
    None

Usage == [request : Request, customer : Customer]

ASSUME MeterLedgerAssumption ==
    /\ CallerOf \in [Request -> Caller]
    /\ ContentOf \in [Request -> Content]
    /\ \A r, q \in Request : CallerOf[r] = CallerOf[q] /\ ContentOf[r] = ContentOf[q]
                                => r = q
    /\ SubjectOf \in [Content -> Subject]
    /\ OwnerOf \in [Customer -> Subject]
    /\ Traffic \subseteq [requests : SUBSET Request, customers : SUBSET Customer]
    /\ Uncertainty \in Nat \ {0}
    /\ None \notin Delivery \cup Request \cup Customer \cup Usage

VARIABLES
    status,         \* stripe_meter_effects.status, "absent" before the INSERT
    claimant,       \* caller_instance and request_hash: the request of the row
    age,            \* now - updated_at of an in_flight row, up to Uncertainty
    up,             \* the process holds a PreparedStripe with an open pool
    pc,             \* the next statement of the invocation in the slot
    target,         \* the delivery it publishes
    request,        \* and the request it was called with
    payer,          \* publish_meter's local `customer_id`
    inserted,       \* claim_meter_effect's local `inserted`
    account,        \* stripe_billing_subjects.stripe_customer_id
    window,         \* is now before, in or after the time a content is taken
    traffic,        \* the requests and customers of this behaviour
    stripe,         \* the meter event of a delivery id at Stripe
    usage,          \* ghost: what was POSTed for a delivery
    posts,          \* ghost: how often
    told            \* ghost: definite answers, with the request they answer

row   == <<status, claimant, age>>
call  == <<pc, target, request, payer, inserted>>
world == <<account, window, traffic, stripe>>
ghost == <<usage, posts, told>>
vars  == <<row, up, call, world, ghost>>

Status  == {"absent", "prepared", "in_flight", "accepted", "known_failure",
            "effect_unknown"}
Final   == {"accepted", "known_failure", "effect_unknown"}
Answer  == {"accepted", "replayed", "rejected", "invalid"}
Holding == {"post", "posted", "accept", "reject", "mark"}
Step    == {"idle", "account", "insert", "read", "recover", "claim", "reload"}
             \cup Holding

TypeOK ==
    /\ status \in [Delivery -> Status]
    /\ claimant \in [Delivery -> Request \cup {None}]
    /\ age \in [Delivery -> 0 .. Uncertainty]
    /\ up \in [Process -> BOOLEAN]
    /\ pc \in [Process -> Step]
    /\ target \in [Process -> Delivery \cup {None}]
    /\ request \in [Process -> Request \cup {None}]
    /\ payer \in [Process -> Customer \cup {None}]
    /\ inserted \in [Process -> BOOLEAN]
    /\ account \in [Subject -> Customer \cup {None}]
    /\ window \in [Content -> {"ahead", "open", "past"}]
    /\ traffic \in Traffic
    /\ stripe \in [Delivery -> {"none", "wire", "recorded", "refused"}]
    /\ usage \in [Delivery -> Usage \cup {None}]
    /\ posts \in [Delivery -> Nat]
    /\ told \in [Delivery -> SUBSET (Request \X Answer)]

Init ==
    /\ status = [d \in Delivery |-> "absent"]
    /\ claimant = [d \in Delivery |-> None]
    /\ age = [d \in Delivery |-> 0]
    /\ up = [p \in Process |-> FALSE]
    /\ pc = [p \in Process |-> "idle"]
    /\ target = [p \in Process |-> None]
    /\ request = [p \in Process |-> None]
    /\ payer = [p \in Process |-> None]
    /\ inserted = [p \in Process |-> FALSE]
    /\ account = [s \in Subject |-> None]
    /\ traffic \in Traffic
    /\ window \in {w \in [Content -> {"ahead", "open", "past"}] :
                      \A k \in Content :
                         w[k] # "past" => \E r \in traffic.requests : ContentOf[r] = k}
    /\ stripe = [d \in Delivery |-> "none"]
    /\ usage = [d \in Delivery |-> None]
    /\ posts = [d \in Delivery |-> 0]
    /\ told = [d \in Delivery |-> {}]

-----------------------------------------------------------------------------
(* The statements.                                                         *)

SetStatus(d, s) ==
    /\ status' = [status EXCEPT ![d] = s]
    /\ age' = [age EXCEPT ![d] = 0]
    /\ UNCHANGED claimant

\* updated_at <= transaction_timestamp() - the uncertainty window.
Overdue(d) == status[d] = "in_flight" /\ age[d] >= Uncertainty

\* Plausible bug: a claim takes over a row that is already in flight.
ClaimTakesOver(d) == status[d] \in {"prepared", "in_flight"}
Claimable(d) == status[d] = "prepared"

\* Plausible bug: an outcome is written to whatever row is there.
AnyRow(d) == status[d] # "absent"
Live(d)   == status[d] = "in_flight"

\* Plausible bugs: a status the column's CHECK does not know; a lost dispatch
\* put back for another attempt.
MarkMisspelt(d) == SetStatus(d, "unknown")
MarkForRetry(d) == SetStatus(d, "prepared")

\* mark_meter_effect_unknown, and both recoveries.
MarkUnknown(d) == SetStatus(d, "effect_unknown")

\* Plausible bug: load_billing_customer ignores the scope.
AnyScope(r) == account[CHOOSE s \in Subject : TRUE]

\* load_billing_customer.
BillingCustomer(r) == account[SubjectOf[ContentOf[r]]]

-----------------------------------------------------------------------------
(* Invocations of publish_meter_event.                                     *)

Statement(p, s) == up[p] /\ pc[p] = s

Goto(p, s) ==
    /\ pc' = [pc EXCEPT ![p] = s]
    /\ UNCHANGED <<target, request>>

End(p) ==
    /\ pc' = [pc EXCEPT ![p] = "idle"]
    /\ target' = [target EXCEPT ![p] = None]
    /\ request' = [request EXCEPT ![p] = None]
    /\ payer' = [payer EXCEPT ![p] = None]
    /\ inserted' = [inserted EXCEPT ![p] = FALSE]

Tell(d, r, answers) == told' = [told EXCEPT ![d] = @ \cup ({r} \X answers)]

\* existing_response: a row without an outcome is answered effect_unknown,
\* which promises nothing.
Stored(d) == CASE status[d] = "accepted"      -> {"replayed"}
               [] status[d] = "known_failure" -> {"rejected"}
               [] OTHER                       -> {}

\* validate_request: an occurrence more than 35 days back or 5 minutes ahead
\* is InvalidEvent, whatever the ledger holds.  It is remembered of the request
\* that has the row; to others it says nothing about the row.
Refuse(p, d, r) ==
    /\ pc[p] = "idle" /\ window[ContentOf[r]] # "open"
    /\ IF claimant[d] = r THEN Tell(d, r, {"invalid"}) ELSE UNCHANGED told
    /\ UNCHANGED <<row, up, call, world, usage, posts>>

\* A request that passes, of a meter that is configured.
Publish(p, d, r) ==
    /\ up[p] /\ pc[p] = "idle" /\ window[ContentOf[r]] = "open"
    /\ pc' = [pc EXCEPT ![p] = "account"]
    /\ target' = [target EXCEPT ![p] = d]
    /\ request' = [request EXCEPT ![p] = r]
    /\ UNCHANGED <<row, up, payer, inserted, world, ghost>>

\* load_billing_customer, or AccountNotFound.  The customer is kept for the
\* POST, however long the claim takes.
Account(p) ==
    /\ Statement(p, "account")
    /\ LET customer == BillingCustomer(request[p]) IN
       \/ customer = None /\ End(p)
       \/ /\ customer # None
          /\ payer' = [payer EXCEPT ![p] = customer]
          /\ Goto(p, "insert") /\ UNCHANGED inserted
    /\ UNCHANGED <<row, up, world, ghost>>

\* claim_meter_effect: INSERT ... ON CONFLICT DO NOTHING.
Insert(p) ==
    /\ Statement(p, "insert")
    /\ Goto(p, "read")
    /\ LET d == target[p] IN
       \/ /\ status[d] = "absent"
          /\ status' = [status EXCEPT ![d] = "prepared"]
          /\ claimant' = [claimant EXCEPT ![d] = request[p]]
          /\ inserted' = [inserted EXCEPT ![p] = TRUE]
          /\ UNCHANGED age
       \/ status[d] # "absent" /\ UNCHANGED <<row, inserted>>
    /\ UNCHANGED <<up, payer, world, ghost>>

\* Plausible bug: the hash is compared, the caller is not.
HashAlone(p) == ContentOf[claimant[target[p]]] = ContentOf[request[p]]
SameRequest(p) ==
    /\ CallerOf[claimant[target[p]]] = CallerOf[request[p]]
    /\ ContentOf[claimant[target[p]]] = ContentOf[request[p]]

\* claim_meter_effect: SELECT, and IdempotencyConflict, recovery, a stored
\* outcome or the claim.
Read(p) ==
    /\ Statement(p, "read")
    /\ LET d == target[p] IN
       \/ /\ ~SameRequest(p)
          /\ End(p) /\ UNCHANGED told
       \/ /\ SameRequest(p) /\ ~inserted[p] /\ status[d] = "in_flight"
          /\ Goto(p, "recover") /\ UNCHANGED <<payer, inserted, told>>
       \/ /\ SameRequest(p) /\ ~inserted[p] /\ status[d] \in Final
          /\ End(p) /\ Tell(d, request[p], Stored(d))
       \/ /\ SameRequest(p) /\ (inserted[p] \/ status[d] = "prepared")
          /\ Goto(p, "claim") /\ UNCHANGED <<payer, inserted, told>>
    /\ UNCHANGED <<row, up, world, usage, posts>>

\* Plausible bug: stranded rows are looked for at activation only.
AnswerOnly(p) ==
    /\ Statement(p, "recover")
    /\ End(p)
    /\ UNCHANGED <<row, up, world, ghost>>

\* claim_meter_effect: an overdue dispatch is given up; the answer is
\* effect_unknown either way.
RecoverOne(p) ==
    /\ Statement(p, "recover")
    /\ \/ Overdue(target[p]) /\ MarkUnknown(target[p])
       \/ ~Overdue(target[p]) /\ UNCHANGED row
    /\ End(p)
    /\ UNCHANGED <<up, world, ghost>>

\* claim_meter_effect: the compare-and-swap from prepared to in_flight.
Claim(p) ==
    /\ Statement(p, "claim")
    /\ \/ /\ Claimable(target[p])
          /\ SetStatus(target[p], "in_flight")
          /\ Goto(p, "post")
       \/ /\ ~Claimable(target[p])
          /\ Goto(p, "reload") /\ UNCHANGED row
    /\ UNCHANGED <<up, payer, inserted, world, ghost>>

\* load_meter_effect after a lost compare-and-swap.
Reload(p) ==
    /\ Statement(p, "reload")
    /\ End(p) /\ Tell(target[p], request[p], Stored(target[p]))
    /\ UNCHANGED <<row, up, world, usage, posts>>

\* The POST, under the delivery id as identifier and idempotency key, for the
\* customer found before the claim.  It needs no pool.
Post(p) ==
    /\ pc[p] = "post"
    /\ Goto(p, "posted")
    /\ LET d == target[p] IN
       /\ stripe' = [stripe EXCEPT ![d] = IF @ = "none" THEN "wire" ELSE @]
       /\ usage' = [usage EXCEPT ![d] = [request |-> request[p], customer |-> payer[p]]]
       /\ posts' = [posts EXCEPT ![d] = @ + 1]
    /\ UNCHANGED <<row, up, payer, inserted, account, window, traffic, told>>

\* Plausible bug: 408, 409, 425 and 429 are taken for a final refusal.
AnyClientError(d) == stripe[d] \in {"wire", "refused"}
FinalRefusal(d)   == stripe[d] = "refused"

\* classify_response and parse_meter_reference: a 2xx that echoes the delivery
\* id, a final 4xx, and everything else.
Receive(p) ==
    /\ pc[p] = "posted"
    /\ \/ stripe[target[p]] = "recorded" /\ Goto(p, "accept")
       \/ FinalRefusal(target[p]) /\ Goto(p, "reject")
       \/ Goto(p, "mark")
    /\ UNCHANGED <<row, up, payer, inserted, world, ghost>>

\* Plausible bug: the answer does not depend on what the UPDATE found.
AnswerAnyway(d, answer) == {answer}
AnswerIfWritten(d, answer) == IF Live(d) THEN {answer} ELSE {}

\* finish_meter: the guarded UPDATE, and its row count decides the answer.
Settle(p, outcome, answer) ==
    /\ \/ Live(target[p]) /\ SetStatus(target[p], outcome)
       \/ ~Live(target[p]) /\ UNCHANGED row
    /\ Tell(target[p], request[p], AnswerIfWritten(target[p], answer))
    /\ End(p)
    /\ UNCHANGED <<up, world, usage, posts>>

Accept(p) == Statement(p, "accept") /\ Settle(p, "accepted", "accepted")
Reject(p) == Statement(p, "reject") /\ Settle(p, "known_failure", "rejected")

\* mark_unknown drops the store's error: the row may stay in flight.
Mark(p) ==
    /\ pc[p] = "mark"
    /\ \/ up[p] /\ Live(target[p]) /\ MarkUnknown(target[p])
       \/ UNCHANGED row
    /\ End(p)
    /\ UNCHANGED <<up, world, ghost>>

\* The store fails, or the invocation is cancelled, at any await.
Drop(p) ==
    /\ pc[p] # "idle"
    /\ End(p)
    /\ UNCHANGED <<row, up, world, ghost>>

-----------------------------------------------------------------------------
(* Processes and the environment.                                          *)

\* activate: recover_stranded_meter_effects is its last statement.
Activate(p) ==
    /\ ~up[p] /\ pc[p] = "idle"
    /\ status' = [d \in Delivery |-> IF Overdue(d) THEN "effect_unknown"
                                                 ELSE status[d]]
    /\ age' = [d \in Delivery |-> IF Overdue(d) THEN 0 ELSE age[d]]
    /\ up' = [up EXCEPT ![p] = TRUE]
    /\ UNCHANGED <<claimant, call, world, ghost>>

\* deactivate closes the pool; an invocation keeps its clone of it.
Deactivate(p) ==
    /\ up[p]
    /\ up' = [up EXCEPT ![p] = FALSE]
    /\ UNCHANGED <<row, call, world, ghost>>

Crash(p) ==
    /\ up[p] /\ pc[p] # "idle"
    /\ up' = [up EXCEPT ![p] = FALSE]
    /\ End(p)
    /\ UNCHANGED <<row, world, ghost>>

\* Stripe records or refuses a meter event once.
StripeDecides(d) ==
    /\ stripe[d] = "wire"
    /\ \E outcome \in {"recorded", "refused"} :
           stripe' = [stripe EXCEPT ![d] = outcome]
    /\ UNCHANGED <<row, up, call, account, window, traffic, ghost>>

\* A checkout of the subject links its customer, or a later one another.
Link(s) ==
    /\ \E c \in traffic.customers : OwnerOf[c] = s /\ account' = [account EXCEPT ![s] = c]
    /\ UNCHANGED <<row, up, call, window, traffic, stripe, ghost>>

\* Time passes the five minutes before, or the 35 days after an occurrence.
Elapse(k) ==
    /\ window[k] # "past"
    /\ window' = [window EXCEPT ![k] = IF @ = "ahead" THEN "open" ELSE "past"]
    /\ UNCHANGED <<row, up, call, account, traffic, stripe, ghost>>

\* A tick ages the rows in flight; invocations may take any number of ticks.
Tick ==
    /\ \E d \in Delivery : Live(d) /\ age[d] < Uncertainty
    /\ age' = [d \in Delivery |-> IF Live(d) /\ age[d] < Uncertainty
                                 THEN age[d] + 1 ELSE age[d]]
    /\ UNCHANGED <<status, claimant, up, call, world, ghost>>

-----------------------------------------------------------------------------

Advance(p) ==
    \/ Account(p) \/ Insert(p) \/ Read(p) \/ RecoverOne(p) \/ Claim(p)
    \/ Reload(p) \/ Post(p) \/ Receive(p) \/ Accept(p) \/ Reject(p) \/ Mark(p)

Next ==
    \/ \E p \in Process :
          \/ \E d \in Delivery, r \in traffic.requests : Refuse(p, d, r) \/ Publish(p, d, r)
          \/ Advance(p) \/ Drop(p) \/ Activate(p) \/ Deactivate(p) \/ Crash(p)
    \/ \E d \in Delivery : StripeDecides(d)
    \/ \E s \in Subject : Link(s)
    \/ \E k \in Content : Elapse(k)
    \/ Tick

Spec == Init /\ [][Next]_vars

-----------------------------------------------------------------------------
(* What must hold.                                                         *)

\* One delivery id, one POST: whichever callers, processes, retries, crashes
\* and recoveries meet on it, usage is not sent twice.
AtMostOneDispatch == \A d \in Delivery : posts[d] <= 1

\* What went to Stripe is the request the row was claimed with, its caller
\* included, and it is charged to a customer of that request's own subject,
\* though the customer was read before the claim and may be relinked since.
UsageAsClaimed ==
    \A d \in Delivery : usage[d] # None =>
        /\ usage[d].request = claimant[d]
        /\ OwnerOf[usage[d].customer] = SubjectOf[ContentOf[claimant[d]]]

\* A settled row tells the truth about Stripe: accepted usage is recorded
\* there, refused usage is not and cannot be any more.
VerdictSound ==
    \A d \in Delivery :
        /\ status[d] = "accepted" => stripe[d] = "recorded"
        /\ status[d] = "known_failure" => stripe[d] = "refused"

\* Definite answers of the ledger last: a caller told accepted or replayed, or
\* told of a rejection, finds the row so for ever after, and only the request
\* that claimed the row is ever told anything about it.  (finish_meter checks
\* the row count of both UPDATEs; checkout ignores one of them.)
AnswersStand ==
    \A d \in Delivery : \A a \in told[d] : a[2] # "invalid" =>
        /\ a[1] = claimant[d]
        /\ status[d] = IF a[2] = "rejected" THEN "known_failure" ELSE "accepted"

\* docs/plugin-card.md: "choosing retry for an unresolved Stripe ledger entry
\* remains fail-closed".  No step leaves an outcome, effect_unknown included.
OutcomeIsFinal ==
    [][\A d \in Delivery : status[d] \in Final => status'[d] = status[d]]_vars

\* docs/plugin-card.md: "A byte-equivalent replay returns the stored accepted
\* receipt".  It is never called invalid.
ReplayReturnsReceipt ==
    [][\A d \in Delivery :
          status[d] = "accepted" =>
              <<claimant[d], "invalid">> \notin told'[d] \ told[d]]_vars

\* The abstract promise of the checkout ledger, and this ledger as another
\* implementation of it: the receipt is the delivery id itself.
Outcomes ==
    [d \in Delivery |->
        CASE status[d] \in {"absent", "prepared"} -> "open"
          [] status[d] = "in_flight"              -> "pending"
          [] status[d] = "accepted"               -> "accepted"
          [] status[d] = "known_failure"          -> "failed"
          [] status[d] = "effect_unknown"         -> "unknown"]

OneShot == INSTANCE OneShotEffect WITH
    Effect  <- Delivery,
    Receipt <- Delivery,
    outcome <- Outcomes,
    sent    <- {d \in Delivery : posts[d] > 0},
    proof   <- [d \in Delivery |-> IF status[d] = "accepted" THEN d ELSE None]

ImplementsOneShot == OneShot!Spec

-----------------------------------------------------------------------------
(* Progress.                                                               *)

Fault == \E p \in Process :
            Crash(p) \/ Deactivate(p) \/ (up[p] /\ Drop(p) /\ ~Advance(p))

\* The caller repeats the request that claimed the row.
Retry(d) == \E p \in Process : claimant[d] # None /\ Publish(p, d, claimant[d])

\* A running process runs its invocation, a deactivated one ends it at the
\* next statement that needs the pool.
GoOn(p) == Advance(p) \/ (~up[p] /\ Drop(p))

\* The processes do not all stand still for ever, the host activates what is
\* down, time passes, and the caller of a delivery repeats it while it is taken.
RetrySpec ==
    /\ Spec
    /\ WF_vars(\E p \in Process : GoOn(p) \/ Activate(p))
    /\ WF_vars(Tick)
    /\ \A d \in Delivery : SF_vars(Retry(d))

InTime(d) == claimant[d] # None => window[ContentOf[claimant[d]]] = "open"

\* A dispatch does not stay in flight, once faults cease, for a caller who can
\* still repeat the request: after 35 days a retry no longer looks for it.
SettlesWhileInTime ==
    <>[][~Fault]_vars =>
        \A d \in Delivery :
            []InTime(d) => ((status[d] = "in_flight") ~> (status[d] # "in_flight"))
=============================================================================
