--------------------------- MODULE AuthorityProofs ---------------------------
(* What every valid configuration guarantees, whatever it lists.           *)
EXTENDS Authority, TLAPS

\* A caller of a valid configuration has one role: the chain of the five lists
\* has no name twice (StripeSubscriptionConfig::validate, allowed).
THEOREM RolesAreSeparate == \A c : Valid(c) => OneRole(c)
<1> SUFFICES ASSUME NEW c, Valid(c),
                    NEW caller, NEW r \in Role, NEW s \in Role,
                    Allowed(c, r, caller), Allowed(c, s, caller)
             PROVE  r = s
  BY DEF OneRole
<1>1. PICK i \in DOMAIN c.callers[r] : c.callers[r][i] = caller
  BY DEF Allowed, Range
<1>2. PICK j \in DOMAIN c.callers[s] : c.callers[s][j] = caller
  BY DEF Allowed, Range
<1> QED
  BY <1>1, <1>2 DEF Valid, RolesApart

\* What find returns for an alias is an entry of that alias: with distinct
\* aliases there is no other to come first.
LEMMA PriceFound ==
    ASSUME NEW c, NEW alias, Lists(c), Valid(c), Price(c, alias) # None
    PROVE  \E i \in DOMAIN c.prices : /\ c.prices[i].alias = alias
                                      /\ Price(c, alias) = c.prices[i]
<1> DEFINE hits == {i \in DOMAIN c.prices : c.prices[i].alias = alias}
<1>1. PICK i \in hits : TRUE
  BY DEF Price, Find, Alias
<1>2. hits = {i}
  BY <1>1 DEF Valid, PricesValid, Distinct, Alias
<1>3. i \in Int
  BY <1>1 DEF Lists
<1> QED
  BY <1>1, <1>2, <1>3 DEF Price, Find, Alias

LEMMA IdFound ==
    ASSUME NEW c, Lists(c), Valid(c), NEW i \in DOMAIN c.prices
    PROVE  PriceById(c, c.prices[i].price_id) = c.prices[i]
<1> DEFINE hits == {j \in DOMAIN c.prices : c.prices[j].price_id = c.prices[i].price_id}
<1>1. hits = {i}
  BY DEF Valid, PricesValid, Distinct
<1>2. i \in Int
  BY DEF Lists
<1> QED
  BY <1>1, <1>2 DEF PriceById, Find

LEMMA MeterFound ==
    ASSUME NEW c, NEW alias, Lists(c), Valid(c), Meter(c, alias) # None
    PROVE  \E i \in DOMAIN c.meters : /\ c.meters[i].alias = alias
                                      /\ Meter(c, alias) = c.meters[i]
<1> DEFINE hits == {i \in DOMAIN c.meters : c.meters[i].alias = alias}
<1>1. PICK i \in hits : TRUE
  BY DEF Meter, Find, Alias
<1>2. hits = {i}
  BY <1>1 DEF Valid, MetersValid, Distinct, Alias
<1>3. i \in Int
  BY <1>1 DEF Lists
<1> QED
  BY <1>1, <1>2, <1>3 DEF Meter, Find, Alias

\* Of a valid configuration, whatever its lists: a caller has one role, the
\* price a checkout sells is the mapping whose features reconciliation grants,
\* and no two meters count into one Stripe event (validate, price, price_by_id,
\* meter, allowed).
THEOREM ValidIsUnambiguous == \A c : Lists(c) /\ Valid(c) => Unambiguous(c)
<1> SUFFICES ASSUME NEW c, Lists(c), Valid(c)
             PROVE  Unambiguous(c)
  OBVIOUS
<1>1. OneRole(c)
  BY RolesAreSeparate
<1>2. SoldIsGranted(c)
  BY PriceFound, IdFound DEF SoldIsGranted
<1>3. OwnEvent(c)
  <2> SUFFICES ASSUME NEW a, NEW b, Meter(c, a) # None, Meter(c, b) # None,
                      Meter(c, a).event_name = Meter(c, b).event_name
               PROVE  a = b
    BY DEF OwnEvent
  <2>1. PICK i \in DOMAIN c.meters : /\ c.meters[i].alias = a
                                     /\ Meter(c, a) = c.meters[i]
    BY MeterFound
  <2>2. PICK j \in DOMAIN c.meters : /\ c.meters[j].alias = b
                                     /\ Meter(c, b) = c.meters[j]
    BY MeterFound
  <2>3. i = j
    BY <2>1, <2>2 DEF Valid, MetersValid, Distinct
  <2> QED
    BY <2>1, <2>2, <2>3
<1> QED
  BY <1>1, <1>2, <1>3 DEF Unambiguous
==============================================================================
