-------------------------- MODULE MCReconciliation -------------------------
(* Small instances of Reconciliation for TLC.                              *)
EXTENDS Reconciliation, TLC

CONSTANTS w1, w2, s1, s2, p1, p2, f1, f2, basic, plus, other

\* One plan's features include the other's; a third price is not configured.
TwoPlans == (basic :> {f1}) @@ (plus :> {f1, f2})
OnePlan  == (basic :> {f1})

SamePerson == [s \in Sub |-> p1]
AllBasic   == [s \in Sub |-> basic]
AllPlus    == [s \in Sub |-> plus]

\* Upgrades and downgrades, a missed payment, an unknown price, the end.
PlanChanges == {[status |-> "active", price |-> basic],
                [status |-> "active", price |-> plus],
                [status |-> "past_due", price |-> plus],
                [status |-> "active", price |-> other]}
Cancellation == {[status |-> "active", price |-> basic],
                 [status |-> "canceled", price |-> basic]}
PaymentOnly == {[status |-> "active", price |-> basic],
                [status |-> "past_due", price |-> basic]}
=============================================================================
