-------------------------- MODULE MCEffectLedger ---------------------------
(* Small instances of EffectLedger for TLC.                                *)
EXTENDS EffectLedger, TLC

CONSTANTS i1, i2, d1, d2, e1, r1, r2, s1, t1, t2

CheckoutOnly == [e \in Effect |-> "checkout"]
PortalOnly   == [e \in Effect |-> "portal"]
OneSubject   == [r \in Request |-> s1]
FirstReceipt == [e \in Effect |-> t1]
PluginCodes  == {"stripe_rejected", "already_subscribed"}

Interchangeable == Permutations(Instance) \cup Permutations(Desk)
=============================================================================
