----------------------------- MODULE WebhookGate -----------------------------
(***************************************************************************)
(* ingest_webhook from the signed request to Stripe's acknowledgement:     *)
(* Stripe signs and retries, the network damages and repeats, the plugin   *)
(* verifies (verify_and_parse), records (record_webhook) and answers, is   *)
(* deactivated, crashes and is activated again with what the secret store  *)
(* holds then, while its signing secret is rotated.                        *)
(*                                                                         *)
(* A gateway is one invocation slot.  Verification holds nothing and is    *)
(* one step; the transaction is one step; the answer is one step.  A MAC   *)
(* is the record of what was signed with which secret.  Times are in       *)
(* seconds.  Those of a request are counted from its signing and it        *)
(* carries its age, so time goes on for ever and no clock is needed; the   *)
(* plugin's clock is `lag' ahead of Stripe's.                              *)
(***************************************************************************)
EXTENDS Authority, FiniteSets

CONSTANTS
    Gateway,        \* invocation slots of ingest_webhook
    Event,          \* the events of one Stripe endpoint
    Scenario,       \* functions Event -> Contents: what the bodies may say
    Person,         \* billing subjects
    Sub,            \* subscription ids
    OldKey, NewKey, \* the endpoint's signing secret, before and after a roll
    Candidate,      \* configurations a host may be given; validate keeps some
    Lag,            \* how far ahead of Stripe's the plugin's clock may be
    Caller,         \* Instances that call ingest_webhook
    TickLength,     \* seconds that pass at a time
    Transit,        \* seconds in which a retry is verified time and again
    MaxFaults       \* bound: damage, failed transactions, restarts, losses

Key == {OldKey, NewKey}

\* The data.object as far as the code asks: `complete' says that the strings
\* its kind requires are there, `wellFormed' that ids and names have their form.
Contents ==
    [size : Nat, readable : BOOLEAN, live : BOOLEAN,
     kind : {"checkout", "subscription", "invoice", "other"},
     complete : BOOLEAN, wellFormed : BOOLEAN,
     sub : Sub, person : Person, alias : Name]

Rows == [event : Event, intact : BOOLEAN]

Answers == {"Forbidden", "NotActive", "BodyTooLarge", "InvalidSignature", "StaleSignature",
            "InvalidEvent", "Verified", "Accepted", "Ignored", "Duplicate", "Failed"}

ASSUME GateAssumption ==
    /\ Scenario \subseteq [Event -> Contents]
    /\ OldKey # NewKey
    /\ Lag \subseteq Int
    /\ TickLength \in Nat \ {0}
    /\ Transit \in Nat
    /\ MaxFaults \in Nat
    /\ None \notin Event \cup Key \cup Sub \cup Name \cup Answers
    /\ \A c \in Candidate : Lists(c)

VARIABLES
    content,    \* what the body of each event says
    config,     \* the Instance's immutable configuration
    lag,        \* the plugin's clock minus Stripe's
    signing,    \* the secrets Stripe signs with, the newest first
    stored,     \* what the secret store holds for webhook_signing_secret
    held,       \* PreparedStripe's copy of it; None while not active
    wire,       \* the request under way for an event, None before the first
    call,       \* what each gateway is doing
    receipts,   \* stripe_webhook_events
    subject,    \* stripe_billing_subjects: the subscription, and writes so far
    pending,    \* subscriptions with a pending row in stripe_reconciliations
    acked,      \* events Stripe has a success for
    faults      \* faults so far

env  == <<content, config, lag>>
db   == <<receipts, subject, pending>>
keys == <<signing, stored, held>>
vars == <<env, keys, wire, call, db, acked, faults>>

\* What is left of a request once it has its verdict.
Row(m) == [event |-> m.event, intact |-> m.intact]

Idle == [pc |-> "idle", caller |-> None, msg |-> None, answer |-> None]

After(pc, row, answer) == [pc |-> pc, caller |-> None, msg |-> row, answer |-> answer]

Init ==
    /\ content \in Scenario
    /\ config \in {c \in Candidate : Valid(c)}
    /\ lag \in Lag
    /\ signing = <<OldKey>>
    /\ stored = OldKey
    /\ held = None
    /\ wire = [e \in Event |-> None]
    /\ call = [g \in Gateway |-> Idle]
    /\ receipts = {}
    /\ subject = [p \in Person |-> [sub |-> None, writes |-> 0]]
    /\ pending = {}
    /\ acked = {}
    /\ faults = 0

Fault == faults < MaxFaults /\ faults' = faults + 1

(***************************************************************************)
(* Stripe and the network.                                                 *)
(***************************************************************************)
Field(name, value) == [name |-> name, value |-> value]

\* The time of signing, from which the times of a request are counted.
SignedAt == 0

\* t, one v1 per signing secret, and a v0 that nobody reads.
Header(e) ==
    <<Field("t", SignedAt)>>
    \o [i \in DOMAIN signing |->
           Field("v1", [key |-> signing[i], stamp |-> SignedAt, event |-> e])]
    \o <<Field("v0", None)>>

Signed(e) == [event |-> e, intact |-> TRUE, fields |-> Header(e), age |-> SignedAt]

\* A body re-encoded on its way, a header joined with its copy, one with a field
\* that has no "=", one without its t.
Damaged(m) ==
    {[m EXCEPT !.intact = FALSE],
     [m EXCEPT !.fields = @ \o @],
     [m EXCEPT !.fields = Append(@, Field("bare", None))],
     [m EXCEPT !.fields = Tail(@)]}

Send(e) ==
    /\ e \notin acked
    /\ wire' = [wire EXCEPT ![e] = Signed(e)]
    /\ UNCHANGED <<env, keys, call, db, acked, faults>>

Take(g, n, m) ==
    /\ call[g].pc = "idle"
    /\ call' = [call EXCEPT ![g] =
                   [pc |-> "verify", caller |-> n, msg |-> m, answer |-> None]]
    /\ UNCHANGED <<env, keys, wire, db, acked>>

\* The request reaches a gateway, and may reach another while it is unanswered.
Deliver(g, e, n) ==
    /\ wire[e] # None
    /\ e \notin acked
    /\ Take(g, n, wire[e])
    /\ UNCHANGED faults

\* It reaches one damaged, or again although it was answered.
DeliverAmiss(g, e, n) ==
    /\ wire[e] # None
    /\ Fault
    /\ \E m \in Damaged(wire[e]) \cup {wire[e]} : Take(g, n, m)

\* A request that is too old already stays so, and its age is as good as any.
Older(age) ==
    IF age + lag > config.signature_tolerance_seconds THEN age ELSE age + TickLength

\* Time passes for every request under way and not yet verified.
Tick ==
    /\ wire' = [e \in Event |->
                   IF wire[e] = None THEN None ELSE [wire[e] EXCEPT !.age = Older(@)]]
    /\ call' = [g \in Gateway |->
                   IF call[g].pc = "verify" THEN [call[g] EXCEPT !.msg.age = Older(@)]
                                            ELSE call[g]]
    /\ UNCHANGED <<env, keys, db, acked, faults>>

(***************************************************************************)
(* verify_and_parse.                                                       *)
(***************************************************************************)
Named(fields, name) == {i \in DOMAIN fields : fields[i].name = name}

\* parse_signature_header: every field has a "=", one t, a non-negative number,
\* and at least one v1.
HeaderReadable(fields) ==
    /\ Named(fields, "bare") = {}
    /\ \E i \in DOMAIN fields : /\ Named(fields, "t") = {i}
                                /\ fields[i].value \in Nat
    /\ Named(fields, "v1") # {}

Stamp(fields) == fields[CHOOSE i \in Named(fields, "t") : TRUE].value

\* How far the plugin's clock is past a request's t.
Past(m) == m.age + lag - Stamp(m.fields)

\* Plausible bug: strictly less than the tolerance.
StrictlyFresh(m) ==
    -config.signature_tolerance_seconds < Past(m) /\ Past(m) < config.signature_tolerance_seconds

\* abs_diff, at most the tolerance.
Fresh(m) ==
    -config.signature_tolerance_seconds <= Past(m) /\ Past(m) <= config.signature_tolerance_seconds

\* Plausible bug: the first v1 only.
FirstVerifies(m) ==
    /\ m.intact
    /\ m.fields[2].value = [key |-> held, stamp |-> Stamp(m.fields), event |-> m.event]

\* Plausible bug: the MAC of the parsed event, not of the raw body.
AnyBodyVerifies(m) ==
    \E i \in Named(m.fields, "v1") :
        m.fields[i].value = [key |-> held, stamp |-> Stamp(m.fields), event |-> m.event]

\* Any v1 is the MAC of timestamp and raw body under the held secret.
Verifies(m) ==
    /\ m.intact
    /\ \E i \in Named(m.fields, "v1") :
          m.fields[i].value = [key |-> held, stamp |-> Stamp(m.fields), event |-> m.event]

\* reconciliation_target: none, Some, or InvalidEvent.
HasTarget(x) ==
    x.kind \in {"checkout", "subscription"} \/ (x.kind = "invoice" /\ x.complete)

TargetReadable(x) == x.kind \in {"checkout", "subscription"} => x.complete

\* ingest's own checks of the target.
TargetValid(x) ==
    HasTarget(x) => /\ x.wellFormed
                    /\ x.kind = "checkout" => Price(config, x.alias) # None

\* The first check that fails, in the order of ingest and verify_and_parse;
\* a wrong mode is answered as a wrong signature (webhook_domain).
Verdict(caller, m) ==
    LET x == content[m.event] IN
    IF ~Allowed(config, "webhook", caller) THEN "Forbidden"
    ELSE IF held = None THEN "NotActive"
    ELSE IF x.size > config.max_webhook_body_bytes THEN "BodyTooLarge"
    ELSE IF ~HeaderReadable(m.fields) THEN "InvalidSignature"
    ELSE IF ~Fresh(m) THEN "StaleSignature"
    ELSE IF ~Verifies(m) THEN "InvalidSignature"
    ELSE IF ~x.readable THEN "InvalidEvent"
    ELSE IF x.live # config.livemode THEN "InvalidSignature"
    ELSE IF ~TargetReadable(x) \/ ~TargetValid(x) THEN "InvalidEvent"
    ELSE "Verified"

Verify(g) ==
    /\ call[g].pc = "verify"
    /\ LET verdict == Verdict(call[g].caller, call[g].msg) IN
       call' = [call EXCEPT ![g] =
                   After(IF verdict = "Verified" THEN "record" ELSE "answer",
                         Row(call[g].msg), verdict)]
    /\ UNCHANGED <<env, keys, wire, db, acked, faults>>

(***************************************************************************)
(* record_webhook.                                                         *)
(***************************************************************************)
\* Plausible bug: no unique event id.
NeverKnown(e) == FALSE

Known(e) == \E row \in receipts : row.event = e

\* Plausible bug: on a conflict the subscription is left out.
UpsertForgets(x) ==
    subject' = [subject EXCEPT ![x.person] = [sub |-> None, writes |-> @.writes + 1]]

UpsertSubject(x) ==
    subject' = [subject EXCEPT ![x.person] = [sub |-> x.sub, writes |-> @.writes + 1]]

\* The transaction's effects, when it commits.
Commit(row) ==
    LET x == content[row.event] IN
    IF Known(row.event)
    THEN UNCHANGED db
    ELSE /\ receipts' = receipts \cup {row}
         /\ IF x.kind = "checkout" THEN UpsertSubject(x) ELSE UNCHANGED subject
         /\ pending' = IF HasTarget(x) THEN pending \cup {x.sub} ELSE pending

\* Accepted or Ignored, Duplicate, or an Invariant error for other content.
Outcome(row) ==
    IF ~Known(row.event)
    THEN IF HasTarget(content[row.event]) THEN "Accepted" ELSE "Ignored"
    ELSE IF row \in receipts THEN "Duplicate" ELSE "Failed"

Record(g) ==
    /\ call[g].pc = "record"
    /\ Commit(call[g].msg)
    /\ call' = [call EXCEPT ![g] = After("answer", call[g].msg, Outcome(call[g].msg))]
    /\ UNCHANGED <<env, keys, wire, acked, faults>>

\* The database fails it, before or after the commit.
RecordFails(g) ==
    /\ call[g].pc = "record"
    /\ Fault
    /\ Commit(call[g].msg) \/ UNCHANGED db
    /\ call' = [call EXCEPT ![g] = After("answer", call[g].msg, "Failed")]
    /\ UNCHANGED <<env, keys, wire, acked>>

\* Plausible bug: a verified event is a success whatever the store says.
VerifiedIsSuccess(answer) == answer \in {"Accepted", "Ignored", "Duplicate", "Failed"}

Success(answer) == answer \in {"Accepted", "Ignored", "Duplicate"}

\* The gateway's caller answers Stripe.
Answer(g) ==
    /\ call[g].pc = "answer"
    /\ acked' = IF Success(call[g].answer) THEN acked \cup {call[g].msg.event} ELSE acked
    /\ call' = [call EXCEPT ![g] = Idle]
    /\ UNCHANGED <<env, keys, wire, db, faults>>

\* The invocation, or its answer, is lost.
Abandon(g) ==
    /\ call[g].pc # "idle"
    /\ Fault
    /\ call' = [call EXCEPT ![g] = Idle]
    /\ UNCHANGED <<env, keys, wire, db, acked>>

(***************************************************************************)
(* The Instance's life, and its signing secret's.                          *)
(***************************************************************************)
Activate ==
    /\ held = None
    /\ held' = stored
    /\ UNCHANGED <<env, signing, stored, wire, call, db, acked, faults>>

\* The pool is closed: a transaction that has not begun fails.
Deactivate ==
    /\ held # None
    /\ Fault
    /\ held' = None
    /\ call' = [g \in Gateway |->
                   IF call[g].pc = "record"
                   THEN After("answer", call[g].msg, "Failed")
                   ELSE call[g]]
    /\ UNCHANGED <<env, signing, stored, wire, db, acked>>

Crash ==
    /\ held # None
    /\ Fault
    /\ held' = None
    /\ call' = [g \in Gateway |-> Idle]
    /\ UNCHANGED <<env, signing, stored, wire, db, acked>>

\* Stripe rolls the secret and signs with both; the operator stores the new
\* one; the old one expires once the plugin has been seen to hold the new.
Roll ==
    /\ signing = <<OldKey>>
    /\ signing' = <<NewKey, OldKey>>
    /\ UNCHANGED <<env, stored, held, wire, call, db, acked, faults>>

StoreSecret ==
    /\ Len(signing) = 2
    /\ stored' = NewKey
    /\ UNCHANGED <<env, signing, held, wire, call, db, acked, faults>>

ExpireOld ==
    /\ Len(signing) = 2
    /\ held = NewKey
    /\ signing' = <<NewKey>>
    /\ UNCHANGED <<env, stored, held, wire, call, db, acked, faults>>

Next ==
    \/ \E e \in Event : Send(e)
    \/ \E g \in Gateway, e \in Event, n \in Caller :
          Deliver(g, e, n) \/ DeliverAmiss(g, e, n)
    \/ \E g \in Gateway : Verify(g) \/ Record(g) \/ RecordFails(g) \/ Answer(g) \/ Abandon(g)
    \/ Activate \/ Deactivate \/ Crash
    \/ Roll \/ StoreSecret \/ ExpireOld
    \/ Tick

Spec == Init /\ [][Next]_vars

\* Time and again a retry comes while a gateway is free, is brought to one by
\* the configured webhook Instance, and is verified, each within Transit
\* seconds of its signing; others may take any time.
RetryInTime(e) == (\E g \in Gateway : call[g].pc = "idle") /\ Send(e)

DeliverInTime(e) ==
    /\ wire[e] # None
    /\ wire[e].age <= Transit
    /\ \E g \in Gateway, n \in Caller : Allowed(config, "webhook", n) /\ Deliver(g, e, n)

VerifyInTime(e) ==
    \E g \in Gateway :
        /\ call[g].pc = "verify"
        /\ Allowed(config, "webhook", call[g].caller)
        /\ call[g].msg.event = e
        /\ call[g].msg.age <= Transit
        /\ Verify(g)

\* Besides, the invocations do not all stand still for ever, and the host
\* activates the Instance.  No tick is promised and none is withheld.
Fairness ==
    /\ \A e \in Event :
          SF_vars(RetryInTime(e)) /\ SF_vars(DeliverInTime(e)) /\ SF_vars(VerifyInTime(e))
    /\ WF_vars(\E g \in Gateway : Verify(g) \/ Record(g) \/ Answer(g))
    /\ WF_vars(Activate)

RetrySpec == Spec /\ Fairness

(***************************************************************************)
(* What must hold.                                                         *)
(***************************************************************************)
\* The events this Instance can take at all.
Takeable ==
    {e \in Event : LET x == content[e] IN
        /\ x.size <= config.max_webhook_body_bytes
        /\ x.readable
        /\ x.live = config.livemode
        /\ TargetReadable(x)
        /\ TargetValid(x)}

FieldType ==
    [name : {"t"}, value : Nat]
    \cup [name : {"v1"}, value : [key : Key, stamp : Nat, event : Event]]
    \cup [name : {"v0", "bare"}, value : {None}]

Message == [event : Event, intact : BOOLEAN, fields : Seq(FieldType), age : Nat]

\* Every variable has its type; a call has its request until its verdict and
\* the digest of it after, and a subject that was written has a subscription.
TypeOK ==
    /\ content \in Scenario
    /\ config \in Candidate
    /\ lag \in Lag
    /\ signing \in {<<OldKey>>, <<NewKey, OldKey>>, <<NewKey>>}
    /\ stored \in Key
    /\ held \in Key \cup {None}
    /\ wire \in [Event -> Message \cup {None}]
    /\ call \in [Gateway -> [pc : {"idle", "verify", "record", "answer"},
                             caller : Caller \cup {None}, msg : Message \cup Rows \cup {None},
                             answer : Answers \cup {None}]]
    /\ receipts \subseteq Rows
    /\ subject \in [Person -> [sub : Sub \cup {None}, writes : Nat]]
    /\ pending \subseteq Sub
    /\ acked \subseteq Event
    /\ faults \in 0..MaxFaults
    /\ \A e \in Event : wire[e] # None => wire[e].fields # <<>>
    /\ \A g \in Gateway : /\ call[g].pc = "verify" => call[g].msg \in Message
                          /\ call[g].pc \in {"record", "answer"} => call[g].msg \in Rows
    /\ \A p \in Person : subject[p].sub = None <=> subject[p].writes = 0

\* What the plugin records, and what it says of a body's content, is of a body
\* exactly as Stripe signed it ("the exact raw body").  (verify_and_parse:
\* every parse comes after the MAC.)
OnlyGenuineBodies ==
    /\ \A row \in receipts : row.intact
    /\ \A g \in Gateway :
          call[g].answer \in {"InvalidEvent", "Verified", "Accepted", "Ignored", "Duplicate"} =>
              call[g].msg.intact

RecordedCheckouts(p) ==
    {row \in receipts : /\ content[row.event].kind = "checkout"
                        /\ content[row.event].person = p}

\* An event has its effects once and together with its receipt, however often
\* and by however many gateways it is delivered: a subject was written once per
\* recorded checkout event of it, and the rows enqueued are those of the
\* recorded events.  (record_webhook's one transaction.)
EffectsOncePerReceipt ==
    /\ \A p \in Person : subject[p].writes = Cardinality(RecordedCheckouts(p))
    /\ pending = {content[row.event].sub :
                     row \in {r \in receipts : HasTarget(content[r.event])}}

\* An active Instance has one role for every caller, one mapping for every
\* price it sells, one event for every meter.  (validate.)
ActiveIsUnambiguous == held # None => Unambiguous(config)

\* The clocks are at most the tolerance apart for a request of age 0 to `age'.
ClocksAgree(age) ==
    /\ -config.signature_tolerance_seconds <= lag
    /\ lag + age <= config.signature_tolerance_seconds

\* At every point of a rotation and of the Instance's life: while it is active,
\* what Stripe signs at this moment of an event this Instance can take would be
\* verified, now and after Transit seconds on its way, if the clocks agree that
\* far.  So no event is refused for ever.  (The old secret expires after the new
\* one is held; any v1; at most the tolerance, either way.)
RetryWouldPass ==
    held # None =>
        \A e \in Takeable, n \in Caller, age \in {SignedAt, Transit} :
            Allowed(config, "webhook", n) /\ ClocksAgree(age) =>
                Verdict(n, [Signed(e) EXCEPT !.age = age]) = "Verified"

\* A success is told of recorded events only, an event is taken once, and never
\* one of the other mode, of an unconfigured price, or over the size.
Inbox == INSTANCE WebhookInbox WITH
    takeable <- Takeable,
    taken <- {row.event : row \in receipts}

ImplementsInbox == Inbox!Spec

\* An event Stripe has sent and this Instance can take is acknowledged at last,
\* if the clocks leave a retry Transit seconds for its way: through restarts, a
\* failed transaction, damaged and late requests and the rotation of the signing
\* secret at any point of it, while time goes on.  (Any v1; at most the
\* tolerance, either way; Duplicate is a success.)
EveryEventAcknowledged ==
    \A e \in Event :
        (wire[e] # None /\ e \in Takeable /\ ClocksAgree(Transit)) ~> (e \in acked)
==============================================================================
