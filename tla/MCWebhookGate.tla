---------------------------- MODULE MCWebhookGate ----------------------------
(* A small instance of WebhookGate for TLC.                                *)
EXTENDS WebhookGate, TLC

CONSTANTS g1, g2, e1, ann, s1, ingress, ui, cron, ops, pro, basic, price1, calls,
          app, home, ref1, ref2, ref3, ref4

\* A path of the app's, and its origin.
Origins == (app :> app) @@ (home :> app)

Lists5 == [role \in Role |-> CASE role = "webhook" -> <<ingress>>
                               [] role = "product" -> <<ui>>
                               [] role = "meter"   -> <<calls>>
                               [] role = "worker"  -> <<cron>>
                               [] OTHER            -> <<ops>>]

Plan(alias, id) == [alias |-> alias, price_id |-> id,
                    entitlements |-> <<[feature |-> calls, limit |-> 1]>>]

Sound == [schema |-> "s", database_url_secret |-> ref1, stripe_api_key_secret |-> ref2,
          webhook_signing_secret |-> ref3, receipt_encryption_secret |-> ref4,
          api_base_url |-> "api", livemode |-> TRUE,
          signature_tolerance_seconds |-> 60, max_webhook_body_bytes |-> 1024,
          reconciliation_lease_seconds |-> 5, effect_uncertainty_seconds |-> 30,
          redirect_origins |-> <<app>>,
          prices |-> <<Plan(pro, price1)>>,
          meters |-> <<[alias |-> calls, event_name |-> calls]>>,
          callers |-> Lists5]

\* One that lets the shop window call the webhook too, one that sells a price
\* under two aliases, one that keeps two secrets under one reference.
Candidates ==
    {Sound,
     [Sound EXCEPT !.callers["webhook"] = <<ingress, ui>>],
     [Sound EXCEPT !.prices = <<Plan(pro, price1), Plan(basic, price1)>>],
     [Sound EXCEPT !.receipt_encryption_secret = ref3]}

Checkout == [size |-> 1024, readable |-> TRUE, live |-> TRUE, kind |-> "checkout",
             complete |-> TRUE, wellFormed |-> TRUE, sub |-> s1, person |-> ann, alias |-> pro]

\* What this Instance takes, ignores, or refuses: its own host's checkout, an
\* invoice without a subscription, a checkout that somebody else started in the
\* account, and a test one.
Bodies == {Checkout,
           [Checkout EXCEPT !.kind = "invoice", !.complete = FALSE],
           [Checkout EXCEPT !.complete = FALSE],
           [Checkout EXCEPT !.live = FALSE]}
Scenarios == [{e1} -> Bodies]

\* The plugin behind by the tolerance of 60 s.  In ticks of 120 s a request is
\* then 60 s ahead of its clock, 60 s behind it, or stale.
Behind == {-60}
==============================================================================
