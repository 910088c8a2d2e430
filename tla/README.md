# Verification of the Lenso Stripe Subscription Plugin

TLA+ models of the plugin in `crates/lenso-stripe-subscription-plugin`, checked
by TLC on small instances and proved by TLAPS for every value of the constants.
File names and line numbers refer to `src/` of that crate.

## 1. The system

The plugin is a stateless request handler over PostgreSQL, Stripe and the
Entitlements plugin. Everything it must remember is in six tables; several
processes of it may run at once against the same tables. There are no
transactions around a remote call: every handler is a sequence of autocommitted
statements and remote calls, and any other actor may act between two of them.

| Component | State | Operations | Hard behaviour | Correct when | Modelled by |
|---|---|---|---|---|---|
| Effect ledger (`service.rs`, `storage.rs:94-270`) | `stripe_effects` | `create_checkout_session`, `create_portal_session` | two processes on one key; loss after the POST; late answers; a store that fails while an outcome is written | one POST per key, of the stored content; outcomes true and final | `EffectLedger` |
| Operator resolution (`service.rs:388-470`) | the same rows | `inspect_effect`, `resolve_unknown_effect` | SELECT, then UPDATE; two operators; an answer racing with a verdict | an acknowledged verdict stands | `EffectLedger` |
| Activation (`lib.rs:251-339`) | `prepared` | `activate`, `deactivate` | rolling activation beside live invocations; a pool closed under them; a secret read anew | recovers lost dispatches only | all three ledgers' modules |
| Webhook verification (`webhook.rs:47-133`) | none | `verify_and_parse` | boundary of the tolerance, several signatures, damaged requests, secret rotation | genuine bodies only; no genuine event refused for ever | `WebhookGate` |
| Webhook receipt (`storage.rs:490-574`) | `stripe_webhook_events`, the subject's link, the row | `ingest_webhook` | duplicates, any order, two gateways, arrival in the middle of a reconciliation | an event counts once, and success means recorded | `WebhookGate`, `Reconciliation` |
| Reconciliation (`service.rs:472-757`, `storage.rs:610-802`) | `stripe_reconciliations`, `stripe_entitlement_bindings`, `stripe_billing_subjects` | `reconcile_next` | leases, stale snapshots, half-done entitlement changes, lost workers | a converged row means Stripe's state is projected and granted | `Reconciliation` |
| Billing projection (`service.rs:312-340`) | the subject's row | `get_subscription` | reads during a reconciliation | never invents a state | `Reconciliation`, in part |
| Meter ledger (`meter.rs`, `storage.rs:316-471`) | `stripe_meter_effects` | `publish_meter_event` | as the effect ledger, plus two callers on one id, a customer that is relinked, a 35 day window | one POST per delivery; answers that last; a replay finds its receipt | `MeterLedger` |
| Configuration, authority (`config.rs`) | immutable | `validate`, `*_allowed`, lookups | overlapping lists and aliases | aliases unambiguous, callers separated | `Authority` |
| Stripe wire formats (`service.rs:942-1197`, `meter.rs:233-275`) | none | forms, JSON | classes of answers | a refusal is final | classes only |
| Receipt cipher; schema and operator set-up; generated contracts; tests, scripts, docs | - | - | - | - | not modelled, section 7 |

How they interact. A caller's checkout claims a row and POSTs to Stripe. Stripe
makes a customer and a subscription, and delivers signed events until it is told
of success; `ingest_webhook` verifies and records each once, links the person to
the subscription (`checkout.session.completed`) and enqueues one row per
subscription. `reconcile_next` claims the row that has waited longest, fetches
the subscription, changes grants through the Entitlements plugin, and writes the
projection, which later checkouts (is the person subscribed?), meter events (who
pays?) and `get_subscription` read.

## 2. Modules

| Module | What it is |
|---|---|
| `OneShotEffect` | abstract: one key is sent at most once and decided once |
| `EffectLedger` | checkout, portal, their ledger, recovery, operators |
| `EffectLedgerProofs` | types, the inductive invariant, five safety theorems |
| `EffectLedgerPromises` | refinement of `OneShotEffect`; prompt dispatches are kept, and then definite failures are durable |
| `MeterLedger` | metered usage and its ledger, implementing the same `OneShotEffect` |
| `MeterLedgerProofs` | types, inductive invariant, five safety theorems, refinement; replays in their time |
| `SubscriptionMirror` | abstract: a copy of each subscription that lags but never goes back, done only at or after all it was told of |
| `Reconciliation` | webhooks' effects, reconciliation workers, projection, grants |
| `ReconciliationProofs` | types, no event swallowed, no relapse |
| `MirrorProofs` | refinement of `SubscriptionMirror`, any number of workers |
| `ConvergenceProofs` | what converged means for grants, and under which conditions |
| `Authority` | `validate` and what the handlers look up in a configuration |
| `AuthorityProofs` | what validation guarantees to the lookups |
| `WebhookInbox` | abstract: an event is taken once, acknowledged once taken |
| `WebhookGate` | `ingest_webhook` between Stripe, the network, the tables and the secret store; it EXTENDS `Authority` and runs under a validated configuration |
| `WebhookGateProofs` | types, four safety theorems, refinement of `WebhookInbox` |
| `MC...` | instances for TLC |

A definition preceded by "Plausible bug" is a mutated form of the operator that
follows it; nothing uses it. It exists so that every checked property can be
seen to fail when the code has the mistake it is meant to catch.

### EffectLedger

One row per `Effect` (caller x operation x idempotency key). `Instance` is an
invocation slot of a process, `pc` the statement it will execute next.

| Action | Code |
|---|---|
| `Begin`, `Lookup` | the request's checks and `load_subject` (`service.rs:150-179`, `240-273`) |
| `Insert`, `Read`, `RecoverOne`, `Claim`, `Reload` | the five statements of `claim_effect` (`storage.rs:112-191`), in its order, each on its own |
| `Check`, `Decline`, `Post` | the second look at the subject, `already_subscribed`, `stripe_post` |
| `Receive` | `classify_http` (`service.rs:912-937`): 408, 409, 425 and 429 are no refusals |
| `Accept`, `Reject`, `Mark` | `finish_checkout`, `finish_portal`, `mark_unknown`, each with the answer its caller gets |
| `Activate`, `Deactivate` | recovery of stranded rows, then the prepared state; its loss |
| `Drop`, `Crash` | a store error or a dropped future; the process |
| `ResolveLoad`, `ResolveUpdate`, `ResolveLost` | the two statements of `resolve`, and losing it in between |
| `StripeDecides`, `SubjectChanges`, `Tick` | Stripe, reconciliation seen from here, time |

`posts`, `manual`, `told` and `acked` are history: how often a key was sent,
which rows an operator settled, what callers and operators were told.
`subject` is what the ledger needs to know of the projection, absent, inactive
or active; it changes at any time, which covers whatever `Reconciliation` makes
of it.

### MeterLedger

One row per `Delivery`, whose id any meter caller may choose: the caller is
compared and is no part of the key. A `Request` is a caller and a content.
`traffic`, chosen at the start from the constant `Traffic`, says which requests are
made and which customers checkouts link in this behaviour; it never changes.

| Action | Code |
|---|---|
| `Refuse`, `Publish` | `validate_request` (`meter.rs:117-139`): the occurrence is at most 35 days back and 5 minutes ahead |
| `Account` | `load_billing_customer`; the customer found here is the one charged, however late the POST |
| `Insert`, `Read`, `RecoverOne`, `Claim`, `Reload` | `claim_meter_effect`'s statements (`storage.rs:345-410`) |
| `Post`, `Receive` | the POST and `classify_response`, `parse_meter_reference` |
| `Accept`, `Reject`, `Mark` | `finish_meter`: the UPDATE's row count decides the answer |
| `Activate`, `Deactivate`, `Crash`, `Drop` | recovery and the pool; losses at any await |
| `StripeDecides`, `Link`, `Elapse`, `Tick` | Stripe; a checkout that links a customer; the occurrence's window; the uncertainty window |

Unlike the other ledger it looks at the row count of both outcomes, has no
operator, and a deactivated process closes the pool under an invocation that is
still at Stripe.

### Reconciliation

`canon` is Stripe's subscription with a count of its states; an event names a
subscription and the state it reports. A worker (`work`) carries what it read:
the snapshot, the features to drop and to put, the feature between a remote
call and the statement that records it.

| Action | Code |
|---|---|
| `Subscribe`, `Change` | Stripe (external) |
| `Ingest`, `Redeliver` | the transaction of `record_webhook`: INSERT, subject's upsert, row's upsert |
| `Claim` | `claim_reconciliation`, ORDER BY `updated_at` (`older`) |
| `Fetch`, `FindSubject`, `LoadBindings` | `fetch_subscription`, `load_subject_for_reconciliation`, `load_bindings` |
| `RevokeGrant`, `DeleteBinding`, `PutGrant`, `PutBinding` | the two loops of `converge_entitlements`, one call or statement at a time |
| `CheckOwner`, `WriteConverged` | `converge_reconciliation`: a SELECT that locks nothing, then the UPDATEs and COMMIT |
| `Retry`, `Abandon`, `Expire` | `retry_result`; a lost invocation or failed read, after which the row stays running; the lease |

`record_webhook` is one action because it and `converge_reconciliation` lock the
subject before the row: the second waits for the first. `FOR UPDATE SKIP LOCKED`
skips only rows a statement under way is moving to the back of the order, so
claiming the oldest committed row is the same. `basis` is history: the version
from which a converged row was computed.

Abstractions: the period end, `cancel_at_period_end`, revisions, limits and
failure codes are left out; features are handled in any order, a superset of the
code's two orders; a grant is a person and a feature, because
`docs/plugin-card.md` calls put and revoke "naturally repeatable"; a Checkout
Session is opened without a `customer`, so Stripe makes one per subscription,
customer and subscription find the same person, and `stripe_customer_mismatch`
does not arise. A remote effect does not take place after its caller is gone.
Events without a target, signatures and answers to Stripe are `WebhookGate`'s.

### WebhookGate and Authority

A gateway is an invocation slot of `ingest_webhook`; a MAC is the record of what
was signed with which secret, so a header verifies exactly if the raw body is
intact and some `v1` was made with the held secret over the stamp in the header.

| Action or operator | Code |
|---|---|
| `Send`, `Deliver`, `DeliverAmiss` | Stripe and the network: signed anew at each retry, delivered to several gateways, damaged in body or header, or again after its answer |
| `Verify`, `Verdict` | `ingest`'s and `verify_and_parse`'s checks, in their order (`service.rs:341-386`, `webhook.rs:47-133`) |
| `HeaderReadable`, `Fresh`, `Verifies` | `parse_signature_header`; `abs_diff` against the tolerance; any `v1` |
| `HasTarget`, `TargetReadable`, `TargetValid` | `reconciliation_target` and `ingest`'s checks of it |
| `Record`, `RecordFails` | `record_webhook`: the receipt, its comparison with a known one, subject and row in one transaction, which may commit although its caller is told it failed |
| `Answer`, `Abandon` | what Stripe is told, and the loss of it |
| `Activate`, `Deactivate`, `Crash` | the secret is read from the store at activation; the pool is closed under invocations |
| `Tick` | time: every request under way grows older (`age`); none is promised and none withheld |
| `Roll`, `StoreSecret`, `ExpireOld` | rotation of the endpoint's secret by Stripe and the operator (external) |
| `Authority!Valid` | `StripeSubscriptionConfig::validate` |
| `Authority!Price`, `PriceById`, `Meter`, `Allowed`, `RedirectAllowed` | the lookups of the handlers |

The content of an event (its size, mode, kind, whether its fields are complete
and well formed) is chosen at the start, and so is the configuration among
candidates of which `validate` keeps the valid ones; the plugin's clock is ahead
of Stripe's by `lag`, from the set `Lag`. There is no clock to run out: the times
of a request are counted from its signing, and the tolerance is compared with
`age + lag` (`Past`). A request that is too old stays as old as it is, since it can
only stay too old.

## 3. What TLC checks

| Run | Question | Verdict |
|---|---|---|
| `effect_concurrency` | two processes, right and wrong content on one checkout key, two operators, every failure: one POST, of the claimed content, true verdicts, durable answers, acknowledged resolutions that stand; `ImplementsOneShot` | holds |
| `effect_progress` | portal, prompt store, a caller that retries: live dispatches kept; every dispatch settles once faults cease | holds |
| `definite_failure` | is a caller told a failure only over a failed row? | violated |
| `meter_ledger` | two processes, two callers or two usages on one delivery id, a relinked subject, every failure: one POST of the claimed usage, charged to its subject's customer, true and final outcomes, answers that last; `ImplementsOneShot`; a dispatch settles while its caller may still repeat it | holds |
| `meter_replay` | is an accepted delivery's repeat always answered with its receipt? | violated |
| `recon_workers` | two workers, three states of one subscription, calls that fail, lost leases: no event is swallowed; the rows mirror Stripe and never go back (`ImplementsMirror`); converged means granted as long as the two are never at work for one person at once (`SerialConverges`) | holds |
| `recon_single` | one worker, upgrades, downgrades, an unknown price, missed payments, every way a call can end: converged means projected, bound and granted; once faults cease, whoever is entitled is granted | holds |
| `late_checkout` | the same promise, when a person cancels one subscription and begins another | violated |
| `recon_relink` | a person subscribes twice: no relapse to the first; the linked row converges beside one that never can | holds |
| `orphan_grant` | is a person who stopped paying left without grants? | violated |
| `stale_worker` | does converged mean granted with two workers? | violated |
| `webhook_gate` | two gateways, damage, repeats, failed transactions, restarts, a rotation, requests at both ends of the tolerance and beyond it while time goes on: genuine bodies only, effects once per receipt, an unambiguous configuration, success only for recorded events, at every moment a retry would pass, and every event the Instance can take acknowledged at last if the clocks leave a retry time for its way | holds |

Bounds, and why they are enough. One effect and one delivery: rows share nothing
but the recovery statement, which treats each by itself. Two instances: a holder
and a racer, which becomes the recoverer; two requests: the right and a wrong
one. `Uncertainty = 2` and `HttpTimeout = 1` are the least values with the timeout
before the window; in `MeterLedger` invocations may take any number of ticks, so
`Uncertainty = 1` suffices. The run has three casts (`Traffic`). In the first, two
callers publish the same content, so that they differ in the caller only, which is
the comparison the other ledger does not have. In the second, one caller publishes
two contents, of two subjects with a customer each, which tell whose usage is
charged. In the third, the subject has two customers and is linked from one to the
other and back at any point between the reading of the customer and the POST.
`MaxVersion` bounds
Stripe's changes: three states give a snapshot, a newer one that overtakes it and
one more; features and prices are two, so that plans differ by a feature, and a
third price is not configured. Two workers are a stale one and a fresh one.
`recon_relink` needs one state of each subscription, because the link and not the
status is in question; `late_checkout` needs two, to cancel one of them. In `webhook_gate`
only `age + lag` is compared with the tolerance, of 60 here. With `Lag` -60 and
ticks of 120 s a request is exactly 60 s in the future of the plugin's clock, then
exactly 60 s in its past, then stale: both boundaries and what is beyond, and a
delivery that was too slow is followed by a retry that must not be. `Transit` is
those 120 s, the most that any clock leaves under this tolerance. Of the four
candidate configurations `validate` keeps one; what `ActiveIsUnambiguous` shows in
the run is that the others are refused, and that no valid one is ambiguous is
`ValidIsUnambiguous`.
`MaxFaults = 2` pairs any two of damage, a repeat, a failed transaction, a
restart and a loss. One event is enough for its four bodies, since events meet
only in the sets of receipts and rows and in the subject, and `EffectsOnce` is
proved for any number of them. The safety properties do not rest on these bounds:
every invariant, action property and refinement of the passing runs, and
`SerialConverges`, is also proved (section 4).

Symmetry is used only for interchangeable instances and desks in a run without
liveness. Deadlock is checked in every run.

### Fairness

`RetrySpec` of `EffectLedger`: a running invocation goes on, a deactivated one
fails at its next statement, the host activates what is down, time passes, and
the caller repeats its exact request, strongly fair because slots may be busy.
The code schedules no recovery itself: without that retry, and with no activation
after the window, a lost dispatch stays in flight, and no operator can settle it.
`RetrySpec` of `MeterLedger`: the invocations do not all stand still for ever, nor
the host's activation with them; time passes; and the caller repeats its request,
strongly fair, while it passes the age check. `SettlesWhileInTime` claims nothing
beyond that.
`PollSpec` of `Reconciliation`: `reconcile_next` is called again and again
(`README.md:28-29` tells the operator so), an invocation goes on, and the lease
of a lost one runs out. Weak fairness of a worker's next step suffices, since at
each point one step is enabled until taken.
`RetrySpec` of `WebhookGate`: Stripe sends an unacknowledged event again, signed
anew, as its delivery contract says, time and again while a gateway is free; time and
again one of these requests is brought to a gateway by the configured webhook
Instance, and time and again one is verified, in each case at most `Transit` seconds
after its signing (strong fairness, because gateways may be busy and other requests
late); the invocations do not all stand still for ever; the host activates the
Instance. Nothing is assumed about ticks, which never stop. That a retry is verified
while it is fresh is an assumption about the network and the host, which no code of
the plugin can make true; without it, or with clocks that leave a retry no time
(`lag = 60`, where only the second of signing passes), every retry may be stale and
nothing is claimed: `EveryEventAcknowledged` has `ClocksAgree(Transit)`, that is
`-tolerance <= lag` and `lag + Transit <= tolerance`, as its premise. The old secret
expires only once the plugin holds the new one, which is the operator's side of a
rotation; that the plugin reads its secret at activation only is modelled. No fairness is
assumed of Stripe's decisions, of the delivery of events to `Reconciliation`, or of
success of a call. In the ledgers and `Reconciliation` progress is claimed once faults
cease: no invocation is lost, no call fails, none outlives its lease.

### What the violated runs show

- `definite_failure`: `fail_effect`'s answer is ignored by checkout and portal;
  the caller is told a definite failure, an exact retry is told unknown. It takes a
  live dispatch that was given up (`FailureIsDurable`), which a prompt store rules
  out (`PromptFailureIsDurable`).
- `meter_replay`: the age is checked before the ledger is asked, so the repeat of
  an accepted delivery after 35 days is `InvalidEvent`
  (`docs/plugin-card.md:75` promises the stored receipt). Nothing else answers a
  replay so (`ReplayInTime`).
- `orphan_grant`: `put_grant` precedes `put_binding`. Lost in between, followed by
  a cancellation, the retry finds nothing to revoke and converges to revoked. If
  every put is heard of and bound it cannot happen (`BoundMeansRevoked`).
- `late_checkout`: the link goes to the subscription of whichever checkout is
  recorded last. If the old one's is first delivered after the new one's, the
  person stays linked to the canceled subscription; the row of the active one
  fails with `billing_subject_not_linked` for ever and nothing is granted. The
  promise holds for a person with one subscription (`recon_single`), in every
  order of events and after every loss, because a retry puts again what is bound.
- `stale_worker`: an event takes the row away from a worker, which nevertheless
  goes on granting, revoking and binding from its old snapshot; the lease
  protects only the row's state. Being overtaken, by an event or by the end of its
  lease, is what it takes (`LeaseSeparates`).

For each of these but `late_checkout`, whose property is liveness, a theorem says
under which condition the promise holds, with nothing else restricted. The
condition is an assumption about the environment (how prompt the store is, whether
a worker is overtaken, whether a put is lost) and no property of the code.

The promise that rolling activation cannot invalidate a live dispatch
(`docs/plugin-card.md:69-71`) depends on more than the window being longer than
the HTTP timeout: the window runs from the claim, not from the POST, so it also
needs an invocation that does not stall before or after its POST. `PromptStore`
is that assumption, and `effect_progress` and `PromptDispatchIsKept` make it.

## 4. What is proved

`TLAPS`, for all sets of instances, desks, effects, deliveries, callers, requests,
workers, subscriptions, people, features, gateways, events and configurations,
and all windows, tolerances, clocks and bounds, from the named ASSUMEs of the
modules (types of the constants, the timeout below the window, the model value
`None` outside the sets it is told apart from).

**Effect ledger.** `TypeCorrect`, `OneDispatch`, `DispatchIsAsClaimed`,
`VerdictIsSound`, `AnswerIsDurable`, `ResolutionIsDurable`. None of the last five
is inductive: they say what a row and the world are like, and the next step
depends on what an invocation believes. `IInv` adds `RowShape` (which columns and
histories go with which status), `OneHolder` (of all instances at most one is
between claim and outcome of a row) and `HolderShape` (what that one knows: the
fingerprint, whether it has posted, what Stripe answered). The claim's
compare-and-swap establishes `OneHolder`; recovery keeps it because no row
returns to `prepared`. `LedgerImplementsOneShot`: under `IInv` every step maps to
a step or a stutter of `OneShotEffect`. `PromptDispatchIsKept`: with
`PromptStore`, the age of a held row is the time since its POST, at most the HTTP
timeout, hence below the window. `FailureIsDurable`: no statement's guard finds a
row in `known_failure` (`FailureStays`), and whoever is told of a failure is told by
a row that holds it or by the holder of a row in flight, which the UPDATE of
`fail_effect` then finds (`ToldFailure`). The hypothesis is `LiveDispatchKept`, a
state predicate the run `effect_progress` checks, so with a prompt store the two
theorems together give `PromptFailureIsDurable` without any hypothesis.

**Meter ledger.** `TypeCorrect`, `OneDispatch`, `UsageIsAsClaimed`, `VerdictIsSound`,
`AnswersAreDurable`, `OutcomesAreFinal`, `MeterImplementsOneShot`, along the same
argument: `IInv` is types, what a row's status says of its histories
(`LedgerInv`), `OneHolder` and `HolderShape`, which adds that the customer an
invocation carries belongs to the subject of its request. Relinking does not
disturb that, because a customer has one owner; all of it holds for any `Traffic`,
with all requests and all customers in one behaviour included. `ReplayInTime`: an answer of the
ledger is never `invalid`, and `InTime`, the hypothesis, is the one that
`SettlesWhileInTime` has.

**Reconciliation.** `TypeCorrect`; `EventsAreReconciled`: no event is swallowed.
The invariant adds `HeldSnapshotIsFresh`, that a worker that still holds its row
and has fetched has a snapshot as new as every recorded event: a later event
takes the row from it. So the token in the last UPDATE is what makes converged
true, and the earlier ownership SELECT is not needed for it.
`CheckoutsCountOnce`: the link follows only a checkout not yet recorded.

`RowsMirrorStripe` (`MirrorProofs`): every step of `Reconciliation` maps to a step or
a stutter of `SubscriptionMirror`, for any number of workers. Stripe's changes are
`Advance`, the first record of an event is `Tell`, `WriteConverged` by the worker that
holds the row is `Mirror`, all else stutters. That a row never goes back needs
`PastInv`: a snapshot is a state Stripe had (`SnapshotOf`), and the snapshot of a
worker that holds its row is as new as the one the row was last converged from
(`HeldSnapshotIsAhead`). The second is preserved because only the holder converges
the row, and whoever loses it can never write again, having lost the token.

`ConvergenceProofs` is about grants and bindings, which no token protects. All of it
holds for any number of workers under `OneAtATime`, that no two invocations are at
work for one person.

- `ConvergedMeansGranted`: `[]OneAtATime => []ConvergedGrants`. `ConvergedInv` says, of
  every slot, that nothing linked to the person whose grants it changes is converged
  meanwhile (`AloneIn`) and how far the two loops have come (`ProgressOf`), and of
  every row what converged means if it was computed from Stripe's present state
  (`RowMeans`). It needs no fence, because a worker that lost its row changes only
  what the next one sets again.
- `OneWorkerConverges`: a single worker meets the condition, so `ConvergedGrants` holds.
- `LeaseSeparates`: if each person has one subscription, any number of workers meets it
  until one is `Overtaken`. `LeaseInv`: a worker at work has its row's lease. Claims go
  to rows that are not running, so the lease keeps workers apart by itself.
- `BoundMeansRevoked`: if besides every put is heard of and bound (`PutsAreBound`),
  nothing else is granted to a person with one subscription. `BoundInv`: each grant is
  bound or about to be, and a feature that is about to be unbound is no longer granted.

No hypothesis is vacuous: the restricted behaviours include every order of events,
every failing call, every loss that is not named, and convergence itself.

**Configuration.** `RolesAreSeparate`, `ValidIsUnambiguous`: a configuration that
validates gives no Instance two roles, sells under an alias the price that
reconciliation finds for its Price ID, and gives no event to two meters. They
are stated of `Valid` itself, and `ActiveIsSound` carries them into the gate.

**Webhook gate.** `TypeCorrect`, `GenuineBodies`, `EffectsOnce`, `ActiveIsSound`,
`RetryPasses`, `GateImplementsInbox`. `IInv` is the types, the validity of the configuration,
`CallInv` (a call past its verdict carries an intact body of an event this
Instance may take; a success in hand is of a recorded event) and `LedgerInv`
(receipts are intact, of takeable events, one per event, with their effects; what
is acknowledged is recorded). `RetryPasses` is the part of `EveryEventAcknowledged`
that is not fairness: no state is reached in which an active Instance would refuse what
Stripe signs now, verified at once or `Transit` seconds later, provided the clocks
agree that far (`ClocksAgree(age)`). It needs `KeyInv`: what the
secret store and the plugin hold is a secret that Stripe still signs with, and when
the plugin holds the new one the store has no other to give it at the next
activation. `HeaderFields` shows that a signed header is read as signed, with a MAC
under every secret in use.

## 5. What is only model-checked

Liveness and everything about fairness: `SettlesOnceFaultsCease`,
`SettlesWhileInTime`, `LinkedConverges`, `EntitledIsGranted`, `EveryEventAcknowledged`. Liveness and
ENABLED are out of the prover's reach. So is induction over recursive
definitions, of which there are none here: lists are handled by quantifying over
their domain.

## 6. Plan

Done: the ledgers, reconciliation, the webhook gate and the configuration, with
their abstract specifications and proofs. Left:

1. A composition of effect ledger and reconciliation on the subject, with the
   `already_subscribed` check reading the projection that webhooks and workers
   write, in place of `SubjectChanges`. Nothing the repository promises depends
   on it: the check is a courtesy, made before the POST and not again, and two
   checkouts of one person may both complete. `SubjectChanges` allows more than
   the composition would.
2. A person's abandoned subscription, whose bindings stay after a relink
   (`service.rs:531`), and a caller that drives `reconcile_next` until it reports
   idle and never stops beside a row that cannot be linked. Both are listed as
   hazards without a property: the first is the lack of a link that
   `late_checkout` shows, the second is about a loop of a caller outside the plugin.
3. A history of Stripe's states, with which `get_subscription` never answering with a
   state Stripe did not have becomes an invariant and a theorem. Now it is known of
   converged rows only (`ConvergedMeansGranted`).

## 7. Not modelled

- The receipt cipher: an external algorithm; receipts are opaque.
- HMAC, hex, JSON and form layout: a MAC is what was signed, a body is readable or
  not. The texts of requests to Stripe and Entitlements and of responses.
- The period end, `cancel_at_period_end` and the revision of the projection, and
  the formatting of `get_subscription`'s response: hence "partly".
- Migrations, database roles and operator set-up: run by hand, once. The tables'
  CHECK constraints are in the type invariants.
- The generated capability crates, tests, scripts and workflows.
- An authentic event that this Instance cannot take (`service.rs:369`), for
  example a checkout that something else started in the Stripe account: it is
  refused each time it is delivered, and Stripe retries until it gives up.
  `Takeable` excludes it from `EveryEventAcknowledged`; the repository promises
  nothing about it.

PostgreSQL is taken to execute one statement, and one transaction of the kind
above, atomically at READ COMMITTED.

## 8. Running

    tlc -workers 2 -config recon_workers.cfg MCReconciliation
    tlc -workers 2 -config effect_concurrency.cfg MCEffectLedger
    tlc -workers 2 -config meter_ledger.cfg MCMeterLedger
    tlc -workers 2 -config webhook_gate.cfg MCWebhookGate
    tlapm EffectLedgerPromises.tla
    tlapm MeterLedgerProofs.tla
    tlapm ConvergenceProofs.tla
    tlapm WebhookGateProofs.tla

Each run takes from seconds to a few minutes. `PROJECT.json` lists the runs,
mutants, theorems, hazards and the source lines each definition models.
