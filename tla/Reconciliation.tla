--------------------------- MODULE Reconciliation ---------------------------
(***************************************************************************)
(* Stripe's webhooks, the reconciliation rows they enqueue, and the        *)
(* workers that bring the billing projection and the entitlement grants    *)
(* of a person to what Stripe says now: ingest_webhook, reconcile_next,    *)
(* and the two services they talk to, Stripe and the Entitlements plugin.  *)
(*                                                                         *)
(* A worker is one invocation slot of reconcile_next; it holds a copy of   *)
(* what it read while every other actor moves on.  One SQL statement on    *)
(* the pool, one remote call, is one action.  record_webhook's transaction *)
(* is one action: it touches the subject before the row, and so does       *)
(* converge_reconciliation, whose ownership SELECT takes no lock and is an *)
(* action of its own.                                                      *)
(*                                                                         *)
(* A Checkout Session is opened without a customer, so Stripe makes a      *)
(* customer per subscription: customer and subscription id find the same   *)
(* billing subject, and stripe_customer_mismatch cannot occur.             *)
(***************************************************************************)
EXTENDS Naturals, FiniteSets

CONSTANTS
    Worker,         \* invocation slots of reconcile_next
    Sub,            \* subscription ids
    Person,         \* billing subjects: scope kind, scope id, subject
    Feature,        \* entitlement features
    Price,          \* Stripe price ids
    Catalog,        \* configured price -> its entitlements' features
    PersonOf,       \* Sub -> Person: the metadata of the Checkout Session
    PlanOf,         \* Sub -> configured price: its lenso_price_alias
    Snapshot,       \* [status, price] that Stripe may report after that
    MaxVersion,     \* bound: states a subscription goes through at Stripe
    Replies,        \* how a remote or store call may end, within AnyReply
    None

\* A call does its work and says so, does it and is not heard, or does nothing.
AnyReply == {"ok", "lost", "failed"}

Status == {"incomplete", "incomplete_expired", "trialing", "active",
           "past_due", "canceled", "unpaid", "paused", "unknown"}

ASSUME ReconciliationAssumption ==
    /\ DOMAIN Catalog \subseteq Price
    /\ Catalog \in [DOMAIN Catalog -> SUBSET Feature]
    /\ PersonOf \in [Sub -> Person]
    /\ PlanOf \in [Sub -> DOMAIN Catalog]
    /\ Snapshot \subseteq [status : Status, price : Price]
    /\ MaxVersion \in Nat \ {0}
    /\ Replies \subseteq AnyReply
    /\ "ok" \in Replies
    /\ None \notin Worker \cup Sub \cup Price \cup Feature

VARIABLES
    canon,          \* Stripe's subscription: its state, and how many it had
    seen,           \* stripe_webhook_events that name a subscription
    link,           \* stripe_billing_subjects.stripe_subscription_id
    proj,           \* its status, price_alias and entitlement_state
    state,          \* stripe_reconciliations.state, "absent" before INSERT
    holder,         \* whose lease_token_hash the row has
    expired,        \* lease_expires_at has passed
    older,          \* rows whose updated_at is before this row's
    basis,          \* history: the version a converged row was computed from
    bindings,       \* stripe_entitlement_bindings of the subscription
    grants,         \* grants that the Entitlements plugin holds
    work            \* what each worker is doing, and what it has read

rowVars == <<state, holder, expired, older, basis>>
vars == <<canon, seen, link, proj, rowVars, bindings, grants, work>>

\* customer.subscription.* and invoice.* events ("change") and
\* checkout.session.completed, of the state of the subscription they tell.
Event == {e \in [sub : Sub, version : 1..MaxVersion, kind : {"checkout", "change"}] :
              e.kind = "checkout" => e.version = 1}

Sent == {e \in Event : e.version <= canon[e.sub].version}

Unborn == [status |-> "none", price |-> None, version |-> 0]
NoRow  == [status |-> "none", alias |-> None, ent |-> "pending"]
Idle   == [pc |-> "idle", job |-> None, read |-> Unborn,
           drop |-> {}, put |-> {}, feature |-> None]

\* price_by_id and grant_enabled: what a canonical state entitles to.
Mapped(c)    == c.price \in DOMAIN Catalog
Entitling(c) == c.status \in {"trialing", "active"} /\ Mapped(c)
Desired(c)   == IF Entitling(c) THEN Catalog[c.price] ELSE {}

EntitlementState(c) ==
    IF ~Mapped(c) THEN "failed" ELSE IF Entitling(c) THEN "granted" ELSE "revoked"

Projection(c) ==
    [status |-> c.status, alias |-> IF Mapped(c) THEN c.price ELSE None,
     ent |-> EntitlementState(c)]

Init ==
    /\ canon = [s \in Sub |-> Unborn]
    /\ seen = {}
    /\ link = [p \in Person |-> None]
    /\ proj = [p \in Person |-> NoRow]
    /\ state = [s \in Sub |-> "absent"]
    /\ holder = [s \in Sub |-> None]
    /\ expired = [s \in Sub |-> FALSE]
    /\ older = [s \in Sub |-> {}]
    /\ basis = [s \in Sub |-> 0]
    /\ bindings = [s \in Sub |-> {}]
    /\ grants = [p \in Person |-> {}]
    /\ work = [w \in Worker |-> Idle]

(***************************************************************************)
(* Stripe.                                                                 *)
(***************************************************************************)
Subscribe(s) ==
    /\ canon[s].version = 0
    /\ \E st \in {"incomplete", "trialing", "active"} :
         /\ [status |-> st, price |-> PlanOf[s]] \in Snapshot
         /\ canon' = [canon EXCEPT ![s] =
                         [status |-> st, price |-> PlanOf[s], version |-> 1]]
    /\ UNCHANGED <<seen, link, proj, rowVars, bindings, grants, work>>

Change(s) ==
    /\ canon[s].version \in 1..(MaxVersion - 1)
    /\ canon[s].status \notin {"canceled", "incomplete_expired"}
    /\ \E c \in Snapshot :
         canon' = [canon EXCEPT ![s] = [status |-> c.status, price |-> c.price,
                                        version |-> @.version + 1]]
    /\ UNCHANGED <<seen, link, proj, rowVars, bindings, grants, work>>

(***************************************************************************)
(* ingest_webhook: the transaction of record_webhook.                      *)
(***************************************************************************)
\* updated_at = transaction_timestamp().
Touch(s) == older' = [t \in Sub |-> IF t = s THEN Sub \ {s} ELSE older[t] \ {s}]

\* Plausible bug: the upsert resets the state and leaves the lease columns.
EnqueueKeepsLease(s) ==
    /\ state' = [state EXCEPT ![s] = "pending"]
    /\ Touch(s)
    /\ UNCHANGED <<holder, expired, basis>>

\* The row's upsert.
Enqueue(s) ==
    /\ state' = [state EXCEPT ![s] = "pending"]
    /\ holder' = [holder EXCEPT ![s] = None]
    /\ expired' = [expired EXCEPT ![s] = FALSE]
    /\ Touch(s)
    /\ UNCHANGED basis

UpsertSubject(s) ==
    LET p == PersonOf[s] IN
    /\ link' = [link EXCEPT ![p] = s]
    /\ proj' = [proj EXCEPT ![p] =
                   [status |-> IF link[p] = None THEN "incomplete" ELSE @.status,
                    alias |-> PlanOf[s], ent |-> "pending"]]

\* Plausible bug: the event's INSERT has no conflict target.
AlwaysFresh(e) == TRUE

\* The INSERT found no event of this id.
Fresh(e) == e \notin seen

Ingest(e) ==
    /\ e \in Sent
    /\ Fresh(e)
    /\ seen' = seen \cup {e}
    /\ IF e.kind = "checkout" THEN UpsertSubject(e.sub) ELSE UNCHANGED <<link, proj>>
    /\ Enqueue(e.sub)
    /\ UNCHANGED <<canon, bindings, grants, work>>

\* Stripe delivers an event again: Duplicate, and a rollback.
Redeliver(e) ==
    /\ e \in seen
    /\ UNCHANGED vars

(***************************************************************************)
(* reconcile_next.                                                         *)
(***************************************************************************)
Claimable(s) == state[s] = "pending" \/ (state[s] = "running" /\ expired[s])

\* Plausible bug: no ORDER BY.
AnyClaimable(s) == Claimable(s)

\* ORDER BY updated_at LIMIT 1.
Candidate(s) == Claimable(s) /\ \A t \in older[s] : ~Claimable(t)

Claim(w) ==
    /\ work[w].pc = "idle"
    /\ \E s \in Sub :
         /\ Candidate(s)
         /\ state' = [state EXCEPT ![s] = "running"]
         /\ holder' = [holder EXCEPT ![s] = w]
         /\ expired' = [expired EXCEPT ![s] = FALSE]
         /\ Touch(s)
         /\ work' = [work EXCEPT ![w].pc = "fetch", ![w].job = s]
    /\ UNCHANGED <<canon, seen, link, proj, basis, bindings, grants>>

\* An error on the way: retry_result is next.
Failing(w) == [Idle EXCEPT !.pc = "retry", !.job = work[w].job]

\* GET /v1/subscriptions/{id}; an error or a bad status is for a retry.
Fetch(w) ==
    /\ work[w].pc = "fetch"
    /\ \E reply \in Replies :
         work' = [work EXCEPT ![w] =
                     IF reply = "ok"
                     THEN [@ EXCEPT !.pc = "find", !.read = canon[work[w].job]]
                     ELSE Failing(w)]
    /\ UNCHANGED <<canon, seen, link, proj, rowVars, bindings, grants>>

Linked(s) == link[PersonOf[s]] = s

\* load_subject_for_reconciliation; else billing_subject_not_linked.
FindSubject(w) ==
    /\ work[w].pc = "find"
    /\ work' = [work EXCEPT ![w] = IF Linked(work[w].job)
                                   THEN [@ EXCEPT !.pc = "load"]
                                   ELSE Failing(w)]
    /\ UNCHANGED <<canon, seen, link, proj, rowVars, bindings, grants>>

\* Where the loops of converge_entitlements are, with this much to do.
Stage(drop, put) ==
    IF drop # {} THEN "revoke" ELSE IF put # {} THEN "put" ELSE "check"

\* Plausible bug: what is bound is taken for granted.
LoadUnbound(w) ==
    /\ work[w].pc = "load"
    /\ LET want  == Desired(work[w].read)
           bound == bindings[work[w].job]
       IN  work' = [work EXCEPT ![w].pc = Stage(bound \ want, want \ bound),
                                ![w].drop = bound \ want, ![w].put = want \ bound]
    /\ UNCHANGED <<canon, seen, link, proj, rowVars, bindings, grants>>

\* load_bindings: what is bound and not wanted goes, all that is wanted is put.
LoadBindings(w) ==
    /\ work[w].pc = "load"
    /\ LET want == Desired(work[w].read)
           drop == bindings[work[w].job] \ want
       IN  work' = [work EXCEPT ![w].pc = Stage(drop, want),
                                ![w].drop = drop, ![w].put = want]
    /\ UNCHANGED <<canon, seen, link, proj, rowVars, bindings, grants>>

Applied(reply)  == reply \in {"ok", "lost"}

\* Plausible bug: a failed call is taken for a done one.
GoesOn(reply) == TRUE

\* What follows a call: the next step after "ok", retry_result otherwise.
Proceeds(reply) == reply = "ok"

\* revoke_grant, with NotFound as good as Ok.
RevokeGrant(w) ==
    /\ work[w].pc = "revoke"
    /\ \E f \in work[w].drop, reply \in Replies :
         /\ grants' = IF Applied(reply)
                      THEN [grants EXCEPT ![PersonOf[work[w].job]] = @ \ {f}]
                      ELSE grants
         /\ work' = [work EXCEPT ![w] = IF Proceeds(reply)
                                        THEN [@ EXCEPT !.pc = "unbind", !.feature = f]
                                        ELSE Failing(w)]
    /\ UNCHANGED <<canon, seen, link, proj, rowVars, bindings>>

DeleteBinding(w) ==
    /\ work[w].pc = "unbind"
    /\ \E reply \in Replies :
         LET f == work[w].feature
             left == work[w].drop \ {f}
         IN  /\ bindings' = IF Applied(reply)
                            THEN [bindings EXCEPT ![work[w].job] = @ \ {f}]
                            ELSE bindings
             /\ work' = [work EXCEPT ![w] =
                           IF Proceeds(reply)
                           THEN [@ EXCEPT !.pc = Stage(left, work[w].put), !.drop = left,
                                          !.feature = None]
                           ELSE Failing(w)]
    /\ UNCHANGED <<canon, seen, link, proj, rowVars, grants>>

PutGrant(w) ==
    /\ work[w].pc = "put"
    /\ \E f \in work[w].put, reply \in Replies :
         /\ grants' = IF Applied(reply)
                      THEN [grants EXCEPT ![PersonOf[work[w].job]] = @ \cup {f}]
                      ELSE grants
         /\ work' = [work EXCEPT ![w] = IF Proceeds(reply)
                                        THEN [@ EXCEPT !.pc = "bind", !.feature = f]
                                        ELSE Failing(w)]
    /\ UNCHANGED <<canon, seen, link, proj, rowVars, bindings>>

PutBinding(w) ==
    /\ work[w].pc = "bind"
    /\ \E reply \in Replies :
         LET f == work[w].feature
             left == work[w].put \ {f}
         IN  /\ bindings' = IF Applied(reply)
                            THEN [bindings EXCEPT ![work[w].job] = @ \cup {f}]
                            ELSE bindings
             /\ work' = [work EXCEPT ![w] =
                           IF Proceeds(reply)
                           THEN [@ EXCEPT !.pc = Stage({}, left), !.put = left,
                                          !.feature = None]
                           ELSE Failing(w)]
    /\ UNCHANGED <<canon, seen, link, proj, rowVars, grants>>

Holds(w, s) == state[s] = "running" /\ holder[s] = w

\* converge_reconciliation's SELECT EXISTS; without the lease, InvalidState.
CheckOwner(w) ==
    /\ work[w].pc = "check"
    /\ LET s == work[w].job IN
       work' = IF Holds(w, s) /\ ~expired[s]
               THEN [work EXCEPT ![w].pc = "write"]
               ELSE [work EXCEPT ![w] = Idle]
    /\ UNCHANGED <<canon, seen, link, proj, rowVars, bindings, grants>>

\* Plausible bug: the last UPDATE without the token.
ConvergeUnfenced(w, s) ==
    /\ state' = [state EXCEPT ![s] = "converged"]
    /\ holder' = [holder EXCEPT ![s] = None]
    /\ expired' = [expired EXCEPT ![s] = FALSE]
    /\ basis' = [basis EXCEPT ![s] = work[w].read.version]
    /\ Touch(s)

\* Its last UPDATE, of the row with this worker's token.
Converge(w, s) ==
    IF holder[s] = w
    THEN /\ state' = [state EXCEPT ![s] = "converged"]
         /\ holder' = [holder EXCEPT ![s] = None]
         /\ expired' = [expired EXCEPT ![s] = FALSE]
         /\ basis' = [basis EXCEPT ![s] = work[w].read.version]
         /\ Touch(s)
    ELSE UNCHANGED rowVars

\* Its UPDATE of the subject (none: a rollback), its last UPDATE, its COMMIT.
WriteConverged(w) ==
    /\ work[w].pc = "write"
    /\ LET s == work[w].job IN
       IF Linked(s)
       THEN /\ proj' = [proj EXCEPT ![PersonOf[s]] = Projection(work[w].read)]
            /\ Converge(w, s)
       ELSE UNCHANGED <<proj, rowVars>>
    /\ work' = [work EXCEPT ![w] = Idle]
    /\ UNCHANGED <<canon, seen, link, bindings, grants>>

\* Plausible bug: retry_reconciliation without the token.
RetryUnfenced(w) ==
    /\ work[w].pc = "retry"
    /\ Enqueue(work[w].job)
    /\ work' = [work EXCEPT ![w] = Idle]
    /\ UNCHANGED <<canon, seen, link, proj, bindings, grants>>

\* retry_reconciliation; a worker without the row changes nothing.
Retry(w) ==
    /\ work[w].pc = "retry"
    /\ LET s == work[w].job IN
       IF Holds(w, s) THEN Enqueue(s) ELSE UNCHANGED rowVars
    /\ work' = [work EXCEPT ![w] = Idle]
    /\ UNCHANGED <<canon, seen, link, proj, bindings, grants>>

\* The invocation is lost or a read of its own fails: the row stays running.
Abandon(w) ==
    /\ work[w].pc # "idle"
    /\ work' = [work EXCEPT ![w] = Idle]
    /\ UNCHANGED <<canon, seen, link, proj, rowVars, bindings, grants>>

Expire(s) ==
    /\ state[s] = "running"
    /\ ~expired[s]
    /\ expired' = [expired EXCEPT ![s] = TRUE]
    /\ UNCHANGED <<canon, seen, link, proj, state, holder, older, basis,
                   bindings, grants, work>>

Step(w) ==
    \/ Claim(w)
    \/ Fetch(w)
    \/ FindSubject(w)
    \/ LoadBindings(w)
    \/ RevokeGrant(w)
    \/ DeleteBinding(w)
    \/ PutGrant(w)
    \/ PutBinding(w)
    \/ CheckOwner(w)
    \/ WriteConverged(w)
    \/ Retry(w)

Next ==
    \/ \E s \in Sub : Subscribe(s) \/ Change(s) \/ Expire(s)
    \/ \E e \in Event : Ingest(e) \/ Redeliver(e)
    \/ \E w \in Worker : Step(w) \/ Abandon(w)

Spec == Init /\ [][Next]_vars

(***************************************************************************)
(* What must hold.                                                         *)
(***************************************************************************)
Work == [pc : {"idle", "fetch", "find", "load", "revoke", "unbind", "put",
               "bind", "check", "write", "retry"},
         job : Sub \cup {None},
         read : [status : Status \cup {"none"}, price : Price \cup {None}, version : Nat],
         drop : SUBSET Feature, put : SUBSET Feature, feature : Feature \cup {None}]

\* Every variable has its type, and the tables' CHECK constraints hold: a row
\* has a lease exactly while it is running (lease_shape_valid).
TypeOK ==
    /\ canon \in [Sub -> [status : Status \cup {"none"}, price : Price \cup {None},
                          version : 0..MaxVersion]]
    /\ seen \subseteq Event
    /\ link \in [Person -> Sub \cup {None}]
    /\ proj \in [Person -> [status : Status \cup {"none"},
                            alias : DOMAIN Catalog \cup {None},
                            ent : {"pending", "granted", "revoked", "failed"}]]
    /\ state \in [Sub -> {"absent", "pending", "running", "converged"}]
    /\ holder \in [Sub -> Worker \cup {None}]
    /\ expired \in [Sub -> BOOLEAN]
    /\ older \in [Sub -> SUBSET Sub]
    /\ basis \in [Sub -> Nat]
    /\ bindings \in [Sub -> SUBSET Feature]
    /\ grants \in [Person -> SUBSET Feature]
    /\ work \in [Worker -> Work]
    /\ \A s \in Sub : state[s] = "running" <=> holder[s] # None
    /\ \A s \in Sub : expired[s] => state[s] = "running"

\* No event is swallowed: a row that says converged was computed from a state
\* of the subscription at least as new as every event recorded for it, with
\* any number of workers, however the event fell between their steps.
\* (record_webhook's reset of the lease, and the token in every later UPDATE.)
NoEventSwallowed ==
    \A s \in Sub : state[s] = "converged" =>
        \A e \in seen : e.sub = s => e.version <= basis[s]

\* The rows as a mirror of Stripe's subscriptions.
Mirror == INSTANCE SubscriptionMirror WITH
    Kind     <- {"checkout", "change"},
    version  <- [s \in Sub |-> canon[s].version],
    told     <- {<<e.sub, e.version, e.kind>> : e \in seen},
    done     <- {s \in Sub : state[s] = "converged"},
    mirrored <- basis

\* With any number of workers, and whatever is lost, the rows are such a mirror:
\* besides, a worker that was overtaken never takes a row back to an older state
\* of the subscription, and a converged row is left alone until another event.
\* (The token of claim_reconciliation in every later UPDATE.)
ImplementsMirror == Mirror!Spec

\* A checkout that Stripe delivers again never takes a person back from the
\* subscription that replaced it (record_webhook's deduplication).
NoRelapse ==
    [][\A p \in Person : link'[p] # link[p] =>
          \A e \in seen : e.kind = "checkout" => e.sub # link'[p]]_vars

Settled(s) == {e \in Sent : e.sub = s} \subseteq seen

\* When every event of the subscription a person is linked to is recorded and
\* its row says converged, get_subscription answers with Stripe's own state,
\* every feature it entitles to is granted, and exactly those are bound.
\* (finish_reconciliation as a whole; true of one worker whatever fails.)
ConvergedGrants ==
    \A s \in Sub :
        state[s] = "converged" /\ Linked(s) /\ Settled(s) =>
            /\ proj[PersonOf[s]] = Projection(canon[s])
            /\ Desired(canon[s]) \subseteq grants[PersonOf[s]]
            /\ bindings[s] = Desired(canon[s])

\* And nothing else stays granted to a person with one subscription: "every
\* other status revokes them".
ConvergedRevokes ==
    \A s \in Sub :
        /\ state[s] = "converged" /\ Linked(s) /\ Settled(s)
        /\ \A t \in Sub : PersonOf[t] = PersonOf[s] => t = s
        => grants[PersonOf[s]] \subseteq Desired(canon[s])

\* No two invocations are at work for one person.
OneAtATime ==
    \A v, w \in Worker :
        v # w /\ work[v].pc # "idle" /\ work[w].pc # "idle"
            => PersonOf[work[v].job] # PersonOf[work[w].job]

\* With any number of workers the same holds as long as no two of them are at
\* work for one person.  (The lease does not see to that: an event takes the row
\* from a worker that goes on.)
SerialConverges == []OneAtATime => []ConvergedGrants

\* Of a step: a grant that was put is heard of, and what was put is bound.
PutsAreBound ==
    \A w \in Worker :
        LET s == work[w].job IN
        /\ work[w].pc = "put" /\ grants'[PersonOf[s]] # grants[PersonOf[s]]
              => work'[w].pc = "bind"
        /\ work[w].pc = "bind" /\ work'[w] # work[w]
              => work[w].feature \in bindings'[s]

\* The invocation that holds the row is gone.
Orphaned(s) == \A w \in Worker : holder[s] = w => work[w].job # s

\* A worker loses its row while at work: its lease runs out, or an event comes.
Overtaken == \/ \E s \in Sub : Expire(s) /\ ~Orphaned(s)
             \/ \E e \in Event : Ingest(e) /\ ~Orphaned(e.sub)

\* Faults: a call that fails, a lost invocation, one that outlives its lease.
Faulty == \/ \E w \in Worker : Abandon(w)
          \/ \E s \in Sub : Expire(s) /\ ~Orphaned(s)
          \/ \E w \in Worker : /\ work[w].pc \notin {"idle", "find", "retry"}
                               /\ work'[w].pc = "retry"

\* The caller of reconcile_next calls it again and again, the invocations go
\* on, and the lease of one that was lost runs out.
WorkerFairness == /\ \A w \in Worker : WF_vars(Step(w))
                  /\ \A s \in Sub : WF_vars(Expire(s) /\ Orphaned(s))

PollSpec == Spec /\ WorkerFairness

\* Once faults cease a linked subscription's row converges, or its person moves
\* on, although the row of an unlinked one is retried for ever: the claim takes
\* the row that has waited longest.
LinkedConverges ==
    <>[][~Faulty]_vars =>
        \A s \in Sub : (state[s] = "pending" /\ Linked(s))
                         ~> (state[s] = "converged" \/ ~Linked(s))

\* docs/plugin-card.md: "active and trialing grant configured features", and
\* Stripe "does not guarantee delivery order".  Once faults cease, a person who
\* is entitled for good by a subscription all of whose events are recorded is
\* granted its features, whatever was lost before and in whatever order the
\* events came.  (Kept by one worker for a person with one subscription.)
EntitledIsGranted ==
    <>[][~Faulty]_vars =>
        \A s \in Sub :
            <>[](Settled(s) /\ Desired(canon[s]) # {})
                => []<>(Desired(canon[s]) \subseteq grants[PersonOf[s]])
=============================================================================
