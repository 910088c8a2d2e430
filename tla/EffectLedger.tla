---------------------------- MODULE EffectLedger ----------------------------
(***************************************************************************)
(* The ledger of Stripe checkout and portal effects: stripe_effects in     *)
(* PostgreSQL, the invocations that claim a row, send the one POST and     *)
(* write its outcome (create_checkout, create_portal), the operator's      *)
(* resolve, and activation's recovery of stranded rows.                    *)
(*                                                                         *)
(* Every store call is one SQL statement on the pool, in a transaction of  *)
(* its own, so one statement is one action and everything else interleaves *)
(* between two statements.  An instance is one invocation slot of one      *)
(* plugin process (the admission of both capabilities runs one invocation  *)
(* at a time); processes share only the database and Stripe.               *)
(***************************************************************************)
EXTENDS Naturals, FiniteSets

CONSTANTS
    Instance,       \* invocation slots, each of a plugin process of its own
    Desk,           \* operators' invocations of resolve_unknown_effect
    Effect,         \* effect ids: caller x operation x idempotency key
    Request,        \* contents of a request, as told apart by request_hash
    Subject,        \* billing subjects
    Receipt,        \* session id, url and expiry of an accepted effect
    Code,           \* failure codes
    Operation,      \* Effect -> {"checkout", "portal"}
    SubjectOf,      \* Request -> Subject
    Issued,         \* Effect -> Receipt: the session Stripe creates for a key
    Uncertainty,    \* effect_uncertainty_seconds, in ticks
    HttpTimeout,    \* the bound HTTP Client's timeout, in ticks
    PromptStore,    \* TRUE: an invocation's own steps take less than a tick
    None

\* What an operator may ask for, once validate_resolution has passed it.
Verdict == [status : {"accepted"}, receipt : Receipt, code : {None}]
             \cup [status : {"known_failure"}, receipt : {None}, code : Code]

ASSUME EffectLedgerAssumption ==
    /\ Operation \in [Effect -> {"checkout", "portal"}]
    /\ SubjectOf \in [Request -> Subject]
    /\ Issued \in [Effect -> Receipt]
    /\ {"stripe_rejected", "already_subscribed"} \subseteq Code
    /\ None \notin Effect \cup Request \cup Receipt \cup Code \cup Verdict
    /\ "failed" \notin Receipt
    /\ Uncertainty \in Nat \ {0}
    /\ HttpTimeout \in Nat \ {0}
    /\ HttpTimeout < Uncertainty    \* the README's deployment rule
    /\ PromptStore \in BOOLEAN

VARIABLES
    status,         \* stripe_effects.status, "absent" before the INSERT
    fingerprint,    \* stripe_effects.request_hash
    receipt,        \* stripe_object_id, response_nonce, response_ciphertext
    code,           \* stripe_effects.failure_code
    age,            \* now - updated_at of an in_flight row, up to Uncertainty
    up,             \* the process holds a PreparedStripe with an open pool
    pc,             \* the next statement of the invocation in the slot
    target,         \* the effect the invocation is for
    request,        \* and the content it was called with
    inserted,       \* claim_effect's local `inserted`
    wait,           \* ticks since the POST left
    deskPc,         \* "idle", or "update" between resolve's two statements
    order,          \* the effect a desk resolves
    verdict,        \* and the resolution it asked for
    stripe,         \* the session of an effect id at Stripe
    subject,        \* the subject's subscription, as load_subject reads it
    posts,          \* ghost: POSTs sent for an effect
    manual,         \* ghost: effects settled by an operator
    told,           \* ghost: definite answers given to callers of an effect
    acked           \* ghost: resolutions acknowledged to operators

row   == <<status, fingerprint, receipt, code, age>>
call  == <<pc, target, request, inserted, wait>>
desk  == <<deskPc, order, verdict>>
ghost == <<posts, manual, told, acked>>
vars  == <<row, up, call, desk, stripe, subject, ghost>>

Status  == {"absent", "prepared", "in_flight", "accepted", "known_failure",
            "effect_unknown"}
Settled == {"accepted", "known_failure"}

\* The steps of an invocation that won the claim: it holds the dispatch.
BeforePost == {"check", "decline", "post"}
AfterPost  == {"posted", "accept", "reject", "mark"}
Holding    == BeforePost \cup AfterPost
Step       == {"idle", "lookup", "insert", "read", "recover", "claim",
               "reload"} \cup Holding

TypeOK ==
    /\ status \in [Effect -> Status]
    /\ fingerprint \in [Effect -> Request \cup {None}]
    /\ receipt \in [Effect -> Receipt \cup {None}]
    /\ code \in [Effect -> Code \cup {None}]
    /\ age \in [Effect -> 0 .. Uncertainty]
    /\ up \in [Instance -> BOOLEAN]
    /\ pc \in [Instance -> Step]
    /\ target \in [Instance -> Effect \cup {None}]
    /\ request \in [Instance -> Request \cup {None}]
    /\ inserted \in [Instance -> BOOLEAN]
    /\ wait \in [Instance -> 0 .. HttpTimeout]
    /\ deskPc \in [Desk -> {"idle", "update"}]
    /\ order \in [Desk -> Effect \cup {None}]
    /\ verdict \in [Desk -> Verdict \cup {None}]
    /\ stripe \in [Effect -> {"none", "wire", "created", "refused"}]
    /\ subject \in [Subject -> {"absent", "inactive", "active"}]
    /\ posts \in [Effect -> Nat]
    /\ manual \in SUBSET Effect
    /\ told \in [Effect -> SUBSET (Receipt \cup {"failed"})]
    /\ acked \in [Effect -> SUBSET Verdict]

Init ==
    /\ status = [e \in Effect |-> "absent"]
    /\ fingerprint = [e \in Effect |-> None]
    /\ receipt = [e \in Effect |-> None]
    /\ code = [e \in Effect |-> None]
    /\ age = [e \in Effect |-> 0]
    /\ up = [i \in Instance |-> FALSE]
    /\ pc = [i \in Instance |-> "idle"]
    /\ target = [i \in Instance |-> None]
    /\ request = [i \in Instance |-> None]
    /\ inserted = [i \in Instance |-> FALSE]
    /\ wait = [i \in Instance |-> 0]
    /\ deskPc = [d \in Desk |-> "idle"]
    /\ order = [d \in Desk |-> None]
    /\ verdict = [d \in Desk |-> None]
    /\ stripe = [e \in Effect |-> "none"]
    /\ subject \in [Subject -> {"absent", "inactive", "active"}]
    /\ posts = [e \in Effect |-> 0]
    /\ manual = {}
    /\ told = [e \in Effect |-> {}]
    /\ acked = [e \in Effect |-> {}]

-----------------------------------------------------------------------------
(* The ledger's statements.  Each UPDATE is guarded by the status it moves *)
(* from and stamps updated_at; a guard that fails touches nothing.         *)

SetStatus(e, s) ==
    /\ status' = [status EXCEPT ![e] = s]
    /\ age' = [age EXCEPT ![e] = 0]

\* Plausible bug: recovery takes any in_flight row for stranded.
AnyInFlight(e) == status[e] = "in_flight"

\* updated_at <= transaction_timestamp() - the uncertainty window.
Overdue(e) == status[e] = "in_flight" /\ age[e] >= Uncertainty

\* Plausible bugs: a status the column's CHECK and EffectStatus::parse do not
\* know; a lost dispatch put back for another attempt.
MarkMisspelt(e) ==
    /\ SetStatus(e, "unknown")
    /\ UNCHANGED <<fingerprint, receipt, code>>
MarkForRetry(e) ==
    /\ SetStatus(e, "prepared")
    /\ UNCHANGED <<fingerprint, receipt, code>>

\* mark_effect_unknown, and the recovery in claim_effect: no column but status.
MarkUnknown(e) ==
    /\ SetStatus(e, "effect_unknown")
    /\ UNCHANGED <<fingerprint, receipt, code>>

\* Every status a guarded UPDATE of an outcome may leave.
Outcome(e, s, r, c) ==
    /\ SetStatus(e, s)
    /\ receipt' = [receipt EXCEPT ![e] = r]
    /\ code' = [code EXCEPT ![e] = c]
    /\ UNCHANGED fingerprint

\* Plausible bug: the claim takes over a row that is already in flight.
ClaimTakesOver(e) == status[e] \in {"prepared", "in_flight"}

Claimable(e) == status[e] = "prepared"
Live(e)      == status[e] = "in_flight"
Unresolved(e) == status[e] = "effect_unknown"

-----------------------------------------------------------------------------
(* Invocations of create_checkout and create_portal.                       *)

\* A statement needs the pool of a process that has not deactivated.
Statement(i, s) == up[i] /\ pc[i] = s

\* The invocation goes on to step s, or ends with the answer it gives.
Goto(i, s) ==
    /\ pc' = [pc EXCEPT ![i] = s]
    /\ UNCHANGED <<target, request>>

End(i) ==
    /\ pc' = [pc EXCEPT ![i] = "idle"]
    /\ target' = [target EXCEPT ![i] = None]
    /\ request' = [request EXCEPT ![i] = None]
    /\ inserted' = [inserted EXCEPT ![i] = FALSE]
    /\ wait' = [wait EXCEPT ![i] = 0]

Tell(e, answers) == told' = [told EXCEPT ![e] = @ \cup answers]

\* checkout_existing and portal_existing: a settled row is answered as it is
\* stored, any other one as effect_unknown.
Stored(e) == CASE status[e] = "accepted"      -> {receipt[e]}
               [] status[e] = "known_failure" -> {"failed"}
               [] OTHER                       -> {}

\* Everything before the first statement only validates; a portal request
\* looks its subject up before it claims.
Begin(i, e, r) ==
    /\ up[i] /\ pc[i] = "idle"
    /\ pc' = [pc EXCEPT ![i] = IF Operation[e] = "portal" THEN "lookup"
                                                          ELSE "insert"]
    /\ target' = [target EXCEPT ![i] = e]
    /\ request' = [request EXCEPT ![i] = r]
    /\ UNCHANGED <<row, up, inserted, wait, desk, stripe, subject, ghost>>

\* create_portal: load_subject, or CustomerNotFound.
Lookup(i) ==
    /\ Statement(i, "lookup")
    /\ IF subject[SubjectOf[request[i]]] = "absent"
         THEN End(i)
         ELSE Goto(i, "insert") /\ UNCHANGED <<inserted, wait>>
    /\ UNCHANGED <<row, up, desk, stripe, subject, ghost>>

\* claim_effect: INSERT ... ON CONFLICT DO NOTHING RETURNING effect_id.
Insert(i) ==
    /\ Statement(i, "insert")
    /\ Goto(i, "read")
    /\ LET e == target[i] IN
       \/ /\ status[e] = "absent"
          /\ SetStatus(e, "prepared")
          /\ fingerprint' = [fingerprint EXCEPT ![e] = request[i]]
          /\ inserted' = [inserted EXCEPT ![i] = TRUE]
          /\ UNCHANGED <<receipt, code>>
       \/ /\ status[e] # "absent"
          /\ UNCHANGED <<row, inserted>>
    /\ UNCHANGED <<up, wait, desk, stripe, subject, ghost>>

\* Plausible bug: a reused key is not compared with the stored request.
KeyAlone(i) == TRUE
SameRequest(i) == fingerprint[target[i]] = request[i]

\* claim_effect: SELECT, then the branches on what it returned.  A reused key
\* with other content is IdempotencyConflict; an in_flight row of another
\* invocation may be stranded; a settled or unknown row is Existing.
Read(i) ==
    /\ Statement(i, "read")
    /\ LET e == target[i] IN
       \/ /\ ~SameRequest(i)
          /\ End(i) /\ UNCHANGED told
       \/ /\ SameRequest(i) /\ ~inserted[i] /\ status[e] = "in_flight"
          /\ Goto(i, "recover") /\ UNCHANGED <<inserted, wait, told>>
       \/ /\ SameRequest(i) /\ ~inserted[i]
          /\ status[e] \notin {"prepared", "in_flight"}
          /\ End(i) /\ Tell(e, Stored(e))
       \/ /\ SameRequest(i) /\ (inserted[i] \/ status[e] = "prepared")
          /\ Goto(i, "claim") /\ UNCHANGED <<inserted, wait, told>>
    /\ UNCHANGED <<row, up, desk, stripe, subject, posts, manual, acked>>

\* Plausible bug: stranded rows are looked for at activation only.
AnswerOnly(i) ==
    /\ Statement(i, "recover")
    /\ End(i)
    /\ UNCHANGED <<row, up, desk, stripe, subject, ghost>>

\* claim_effect: an overdue in_flight row becomes effect_unknown.  Whether or
\* not it was, the answer is effect_unknown.
RecoverOne(i) ==
    /\ Statement(i, "recover")
    /\ LET e == target[i] IN
       \/ Overdue(e) /\ MarkUnknown(e)
       \/ ~Overdue(e) /\ UNCHANGED row
    /\ End(i)
    /\ UNCHANGED <<up, desk, stripe, subject, ghost>>

\* claim_effect: the compare-and-swap from prepared to in_flight.
Claim(i) ==
    /\ Statement(i, "claim")
    /\ LET e == target[i] IN
       \/ /\ Claimable(e)
          /\ SetStatus(e, "in_flight")
          /\ Goto(i, IF Operation[e] = "checkout" THEN "check" ELSE "post")
          /\ UNCHANGED <<fingerprint, receipt, code>>
       \/ /\ ~Claimable(e)
          /\ Goto(i, "reload") /\ UNCHANGED row
    /\ UNCHANGED <<up, inserted, wait, desk, stripe, subject, ghost>>

\* claim_effect, the compare-and-swap lost: the row as load_effect finds it.
Reload(i) ==
    /\ Statement(i, "reload")
    /\ End(i) /\ Tell(target[i], Stored(target[i]))
    /\ UNCHANGED <<row, up, desk, stripe, subject, posts, manual, acked>>

\* create_checkout: load_subject once the row is claimed.
Check(i) ==
    /\ Statement(i, "check")
    /\ Goto(i, IF subject[SubjectOf[request[i]]] = "active"
               THEN "decline" ELSE "post")
    /\ UNCHANGED <<row, up, inserted, wait, desk, stripe, subject, ghost>>

\* fail_effect's UPDATE; whether it found the row in flight is not looked at
\* by either caller, which answers a definite failure.
FailEffect(i, c) ==
    /\ LET e == target[i] IN
       /\ \/ Live(e) /\ Outcome(e, "known_failure", receipt[e], c)
          \/ ~Live(e) /\ UNCHANGED row
       /\ Tell(e, {"failed"})
    /\ End(i)

Decline(i) ==
    /\ Statement(i, "decline")
    /\ FailEffect(i, "already_subscribed")
    /\ UNCHANGED <<up, desk, stripe, subject, posts, manual, acked>>

\* stripe_post: the effect id is Stripe's idempotency key.  It needs no pool.
Post(i) ==
    /\ pc[i] = "post"
    /\ Goto(i, "posted")
    /\ LET e == target[i] IN
       /\ stripe' = [stripe EXCEPT ![e] = IF @ = "none" THEN "wire" ELSE @]
       /\ posts' = [posts EXCEPT ![e] = @ + 1]
    /\ UNCHANGED <<row, up, inserted, wait, desk, subject, manual, told, acked>>

\* Plausible bug: 408, 409, 425 and 429 are taken for a final refusal.
AnyClientError(e) == stripe[e] \in {"wire", "refused"}
FinalRefusal(e)   == stripe[e] = "refused"

\* classify_http and parse_session.  A 2xx with a session in it, a final 4xx,
\* and everything else: a time-out, a lost connection, 408/409/425/429, 5xx,
\* an oversized or malformed body of a session that exists.
Receive(i) ==
    /\ pc[i] = "posted"
    /\ \/ stripe[target[i]] = "created" /\ Goto(i, "accept")
       \/ FinalRefusal(target[i]) /\ Goto(i, "reject")
       \/ Goto(i, "mark")
    /\ UNCHANGED <<row, up, inserted, wait, desk, stripe, subject, ghost>>

\* Plausible bug: the receipt is handed out whatever the UPDATE found.
ReceiptAnyway(e) == {Issued[e]}
ReceiptTold(e) == IF Live(e) THEN {Issued[e]} ELSE {}

\* finish_checkout and finish_portal: accept_effect, and the answer of the
\* UPDATE decides between the receipt and effect_unknown.
Accept(i) ==
    /\ Statement(i, "accept")
    /\ LET e == target[i] IN
       /\ \/ Live(e) /\ Outcome(e, "accepted", Issued[e], None)
          \/ ~Live(e) /\ UNCHANGED row
       /\ Tell(e, ReceiptTold(e))
    /\ End(i)
    /\ UNCHANGED <<up, desk, stripe, subject, posts, manual, acked>>

Reject(i) ==
    /\ Statement(i, "reject")
    /\ FailEffect(i, "stripe_rejected")
    /\ UNCHANGED <<up, desk, stripe, subject, posts, manual, acked>>

\* mark_unknown drops the store's error: the row may stay in flight.
Mark(i) ==
    /\ pc[i] = "mark"
    /\ \/ up[i] /\ Live(target[i]) /\ MarkUnknown(target[i])
       \/ UNCHANGED row
    /\ End(i)
    /\ UNCHANGED <<up, desk, stripe, subject, ghost>>

\* The store fails, or the invocation is cancelled, at any await.
Drop(i) ==
    /\ pc[i] # "idle"
    /\ End(i)
    /\ UNCHANGED <<row, up, desk, stripe, subject, ghost>>

-----------------------------------------------------------------------------
(* Processes.                                                              *)

\* activate: the secrets, the schema, then recover_stranded_effects; what
\* follows (the meter ledger's recovery) may still fail.
Activate(i) ==
    /\ ~up[i] /\ pc[i] = "idle"
    /\ status' = [e \in Effect |-> IF Overdue(e) THEN "effect_unknown"
                                               ELSE status[e]]
    /\ age' = [e \in Effect |-> IF Overdue(e) THEN 0 ELSE age[e]]
    /\ \E ok \in BOOLEAN : up' = [up EXCEPT ![i] = ok]
    /\ UNCHANGED <<fingerprint, receipt, code, call, desk, stripe, subject, ghost>>

\* deactivate closes the pool; an invocation under way keeps its clone of it.
Deactivate(i) ==
    /\ up[i]
    /\ up' = [up EXCEPT ![i] = FALSE]
    /\ UNCHANGED <<row, call, desk, stripe, subject, ghost>>

\* The process dies, and its invocation with it.
Crash(i) ==
    /\ up[i] /\ pc[i] # "idle"
    /\ up' = [up EXCEPT ![i] = FALSE]
    /\ End(i)
    /\ UNCHANGED <<row, desk, stripe, subject, ghost>>

-----------------------------------------------------------------------------
(* resolve: the operator's verdict on an unknown effect.                   *)

\* load_effect, validate_resolution, and the answers that need no UPDATE: a
\* verdict the row already holds is acknowledged, any other verdict on a row
\* that is not unknown is refused.
ResolveLoad(d, e, v) ==
    /\ deskPc[d] = "idle"
    /\ \/ /\ <<status[e], receipt[e], code[e]>> = <<v.status, v.receipt, v.code>>
          /\ acked' = [acked EXCEPT ![e] = @ \cup {v}]
          /\ UNCHANGED desk
       \/ /\ Unresolved(e)
          /\ deskPc' = [deskPc EXCEPT ![d] = "update"]
          /\ order' = [order EXCEPT ![d] = e]
          /\ verdict' = [verdict EXCEPT ![d] = v]
          /\ UNCHANGED acked
    /\ UNCHANGED <<row, up, call, stripe, subject, posts, manual, told>>

LeaveDesk(d) ==
    /\ deskPc' = [deskPc EXCEPT ![d] = "idle"]
    /\ order' = [order EXCEPT ![d] = None]
    /\ verdict' = [verdict EXCEPT ![d] = None]

\* Plausible bug: the UPDATE repeats no guard, the SELECT before it had one.
ResolveUnguarded(e) == TRUE
Resolvable(e) == Unresolved(e)

\* resolve_effect; NotUnknown when the row has moved since it was loaded.
ResolveUpdate(d) ==
    /\ deskPc[d] = "update"
    /\ LET e == order[d]
           v == verdict[d] IN
       \/ /\ Resolvable(e)
          /\ Outcome(e, v.status, v.receipt, v.code)
          /\ manual' = manual \cup {e}
          /\ acked' = [acked EXCEPT ![e] = @ \cup {v}]
       \/ /\ ~Resolvable(e)
          /\ UNCHANGED <<row, manual, acked>>
    /\ LeaveDesk(d)
    /\ UNCHANGED <<up, call, stripe, subject, posts, told>>

\* The operator's invocation is lost between its two statements.
ResolveLost(d) ==
    /\ deskPc[d] = "update"
    /\ LeaveDesk(d)
    /\ UNCHANGED <<row, up, call, stripe, subject, ghost>>

-----------------------------------------------------------------------------
(* The environment: Stripe, the subjects' projection, time.                *)

\* Stripe serves one idempotency key once, whenever the request arrives.
StripeDecides(e) ==
    /\ stripe[e] = "wire"
    /\ \E outcome \in {"created", "refused"} :
           stripe' = [stripe EXCEPT ![e] = outcome]
    /\ UNCHANGED <<row, up, call, desk, subject, ghost>>

\* Webhooks link a subject and reconciliation moves its subscription.
SubjectChanges(s) ==
    /\ \E now \in {"inactive", "active"} \ {subject[s]} :
           subject' = [subject EXCEPT ![s] = now]
    /\ UNCHANGED <<row, up, call, desk, stripe, ghost>>

\* A tick ages every in_flight row and every POST under way.  The HTTP Client
\* answers within its timeout; with PromptStore an invocation that holds a
\* row spends ticks on nothing else.
Tick ==
    /\ \A i \in Instance : pc[i] = "posted" => wait[i] < HttpTimeout
    /\ PromptStore => \A i \in Instance : pc[i] \in Holding => pc[i] = "posted"
    /\ \/ \E i \in Instance : pc[i] = "posted"
       \/ \E e \in Effect : Live(e) /\ age[e] < Uncertainty
    /\ age' = [e \in Effect |-> IF Live(e) /\ age[e] < Uncertainty
                               THEN age[e] + 1 ELSE age[e]]
    /\ wait' = [i \in Instance |-> IF pc[i] = "posted" THEN wait[i] + 1
                                                      ELSE wait[i]]
    /\ UNCHANGED <<status, fingerprint, receipt, code, up, pc, target, request,
                   inserted, desk, stripe, subject, ghost>>

-----------------------------------------------------------------------------

\* An invocation goes on by itself: every step of it but losing it.
Advance(i) ==
    \/ Lookup(i) \/ Insert(i) \/ Read(i) \/ RecoverOne(i) \/ Claim(i)
    \/ Reload(i) \/ Check(i) \/ Decline(i) \/ Post(i) \/ Receive(i)
    \/ Accept(i) \/ Reject(i) \/ Mark(i)

Invoke(i) == \E e \in Effect, r \in Request : Begin(i, e, r)

Operate(d) ==
    \/ \E e \in Effect, v \in Verdict : ResolveLoad(d, e, v)
    \/ ResolveUpdate(d)
    \/ ResolveLost(d)

Next ==
    \/ \E i \in Instance : \/ Invoke(i) \/ Advance(i) \/ Drop(i)
                           \/ Activate(i) \/ Deactivate(i) \/ Crash(i)
    \/ \E d \in Desk : Operate(d)
    \/ \E e \in Effect : StripeDecides(e)
    \/ \E s \in Subject : SubjectChanges(s)
    \/ Tick

Spec == Init /\ [][Next]_vars

-----------------------------------------------------------------------------
(* What must hold.                                                         *)

\* One key, one POST: however retries, instances, crashes and recoveries of
\* one effect interleave (claim_effect's compare-and-swap, and recovery that
\* never returns a row to "prepared").
AtMostOneDispatch == \A e \in Effect : posts[e] <= 1

\* The content that goes out under an idempotency key is the content whose
\* hash the row holds, even if the row was inserted by another invocation.
DispatchMatchesFingerprint ==
    \A i \in Instance : pc[i] \in Holding => fingerprint[target[i]] = request[i]

\* A row the plugin itself settled tells the truth about Stripe: accepted
\* only over a session that exists, with its receipt; known_failure only if
\* there is no session and no request that could still create one.
PluginVerdictSound ==
    \A e \in Effect \ manual :
        /\ status[e] = "accepted" => stripe[e] = "created" /\ receipt[e] = Issued[e]
        /\ status[e] = "known_failure" => stripe[e] \in {"none", "refused"}

\* A caller that was given a session finds that session in the ledger ever
\* after: nothing, an operator's resolve included, replaces it.
AcceptedAnswerIsDurable ==
    \A e \in Effect : \A r \in told[e] \cap Receipt :
        status[e] = "accepted" /\ receipt[e] = r

\* docs/plugin-card.md: "Exact retries return the durable state".  A definite
\* failure is an answer about a row that holds a failure.
DefiniteFailureIsDurable ==
    \A e \in Effect : "failed" \in told[e] => status[e] = "known_failure"

\* A resolution acknowledged to an operator is what the row holds from then
\* on: two operators are never both told that their verdict stands.
AcknowledgedVerdictStands ==
    \A e \in Effect : \A v \in acked[e] :
        /\ status[e] = v.status
        /\ receipt[e] = v.receipt
        /\ code[e] = v.code

\* docs/plugin-card.md: "only an in_flight row older than that window is
\* recovered after a process loss, so rolling activation cannot invalidate
\* another live dispatch".
LiveDispatchKept ==
    \A i \in Instance : pc[i] \in Holding => Live(target[i])

\* The abstract promise, and the ledger as an implementation of it.
Outcomes ==
    [e \in Effect |->
        CASE status[e] \in {"absent", "prepared"} -> "open"
          [] status[e] = "in_flight"              -> "pending"
          [] status[e] = "accepted"               -> "accepted"
          [] status[e] = "known_failure"          -> "failed"
          [] status[e] = "effect_unknown"         -> "unknown"]

OneShot == INSTANCE OneShotEffect WITH
    outcome <- Outcomes,
    sent    <- {x \in Effect : posts[x] > 0},
    proof   <- receipt

\* The ledger implements the one-shot effect.
ImplementsOneShot == OneShot!Spec

-----------------------------------------------------------------------------
(* Progress.                                                               *)

\* Losing an invocation or a process.  (Some steps of Advance end the call and
\* change nothing else, as Drop does: those are no faults.)
Fault == \E i \in Instance :
            Crash(i) \/ Deactivate(i) \/ (up[i] /\ Drop(i) /\ ~Advance(i))

\* A running process runs its invocation, a deactivated one fails it at the
\* next statement, the host activates a process that is down, time passes.
Fairness ==
    /\ \A i \in Instance : /\ WF_vars(Advance(i))
                          /\ WF_vars(~up[i] /\ Drop(i))
                          /\ WF_vars(Activate(i) /\ up'[i])
    /\ WF_vars(Tick)

\* And the caller of an effect sends its exact request again and again.
Retry(e) == \E i \in Instance : fingerprint[e] # None /\ Begin(i, e, fingerprint[e])

RetrySpec == Spec /\ Fairness /\ \A e \in Effect : SF_vars(Retry(e))

\* A dispatch does not stay in flight: the invocation settles it, or the loss
\* of the process is found out.
SettlesOnceFaultsCease ==
    <>[][~Fault]_vars =>
        \A e \in Effect : (status[e] = "in_flight") ~> (status[e] # "in_flight")
=============================================================================
