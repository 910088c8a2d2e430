------------------------------ MODULE Authority ------------------------------
(***************************************************************************)
(* The immutable configuration of one Plugin Instance: what a host may     *)
(* activate (StripeSubscriptionConfig::validate), and what the handlers    *)
(* ask of it: who may call what, and which price, meter or redirect origin *)
(* an alias or a URL stands for.                                           *)
(*                                                                         *)
(* A configuration is a record with the fields of the struct; the five     *)
(* caller lists are one function from a role to its list.  The shape of a  *)
(* name, an id or a URL is membership in a constant set, and the parsing   *)
(* of a URL into its origin is a constant function.                        *)
(***************************************************************************)
EXTENDS Integers, Sequences, Functions

CONSTANTS
    Schema,             \* schema names that schema_plan accepts
    SecretReference,    \* what valid_secret_reference accepts
    StripeApi,          \* URLs that fixed_api_base accepts
    Name,               \* what valid_name accepts
    EventName,          \* the names of at most 100 bytes
    PriceId,            \* what valid_stripe_id(_, "price_") accepts
    RedirectOrigin,     \* https URL without credentials -> its origin
    None

Role == {"product", "meter", "webhook", "worker", "operator"}

(***************************************************************************)
(* validate.                                                               *)
(***************************************************************************)
\* The BTreeSet of the values is as large as their list.
Distinct(values, Key(_)) ==
    \A i, j \in DOMAIN values : Key(values[i]) = Key(values[j]) => i = j

Itself(value) == value
Alias(entry)  == entry.alias

SecretsValid(c) ==
    LET references == <<c.database_url_secret, c.stripe_api_key_secret,
                        c.webhook_signing_secret, c.receipt_encryption_secret>>
    IN  Range(references) \subseteq SecretReference /\ Distinct(references, Itself)

MaxWebhookBodyBytes == 1048576

BoundsValid(c) ==
    /\ c.signature_tolerance_seconds \in 60..900
    /\ c.max_webhook_body_bytes \in 1024..MaxWebhookBodyBytes
    /\ c.reconciliation_lease_seconds \in 5..3600
    /\ c.effect_uncertainty_seconds \in 30..3600

OriginsValid(values) ==
    /\ Len(values) \in 1..64
    /\ \A i \in DOMAIN values : /\ values[i] \in DOMAIN RedirectOrigin
                                /\ RedirectOrigin[values[i]] = values[i]
    /\ Distinct(values, Itself)

EntitlementsValid(values) ==
    /\ Len(values) \in 1..256
    /\ \A i \in DOMAIN values : /\ values[i].feature \in Name
                                /\ values[i].limit # None => values[i].limit > 0
    /\ Distinct(values, LAMBDA entry : entry.feature)

\* Plausible bug: the ids are not compared, only the aliases.
AliasesValid(values) ==
    /\ Len(values) \in 1..256
    /\ \A i \in DOMAIN values : /\ values[i].alias \in Name
                                /\ values[i].price_id \in PriceId
                                /\ EntitlementsValid(values[i].entitlements)
    /\ Distinct(values, Alias)

PricesValid(values) ==
    /\ Len(values) \in 1..256
    /\ \A i \in DOMAIN values : /\ values[i].alias \in Name
                                /\ values[i].price_id \in PriceId
                                /\ EntitlementsValid(values[i].entitlements)
    /\ Distinct(values, Alias)
    /\ Distinct(values, LAMBDA price : price.price_id)

MetersValid(values) ==
    /\ Len(values) \in 1..256
    /\ \A i \in DOMAIN values : /\ values[i].alias \in Name
                                /\ values[i].event_name \in EventName
    /\ Distinct(values, Alias)
    /\ Distinct(values, LAMBDA meter : meter.event_name)

\* validate_callers.
CallersValid(values) ==
    /\ values # <<>>
    /\ Range(values) \subseteq Name
    /\ Distinct(values, Itself)

\* Plausible bug: each list is checked by itself only.
EachListApart(callers) == \A role \in Role : CallersValid(callers[role])

\* No caller is twice in the chain of the five lists.
RolesApart(callers) ==
    \A r, s \in Role : \A i \in DOMAIN callers[r], j \in DOMAIN callers[s] :
        callers[r][i] = callers[s][j] => r = s /\ i = j

Valid(c) ==
    /\ c.schema \in Schema
    /\ SecretsValid(c)
    /\ c.api_base_url \in StripeApi
    /\ BoundsValid(c)
    /\ OriginsValid(c.redirect_origins)
    /\ PricesValid(c.prices)
    /\ MetersValid(c.meters)
    /\ \A role \in Role : CallersValid(c.callers[role])
    /\ RolesApart(c.callers)

(***************************************************************************)
(* What the handlers ask.                                                  *)
(***************************************************************************)
\* iter().find: the first entry with this key.
Find(values, Key(_), key) ==
    LET hits == {i \in DOMAIN values : Key(values[i]) = key}
    IN  IF hits = {} THEN None
        ELSE values[CHOOSE i \in hits : \A j \in hits : i <= j]

Price(c, alias)   == Find(c.prices, Alias, alias)
PriceById(c, id)  == Find(c.prices, LAMBDA price : price.price_id, id)
Meter(c, alias)   == Find(c.meters, Alias, alias)

RedirectAllowed(c, url) ==
    url \in DOMAIN RedirectOrigin /\ RedirectOrigin[url] \in Range(c.redirect_origins)

\* product_allowed, meter_allowed, ...; a call from no Instance has no caller.
Allowed(c, role, caller) == caller # None /\ caller \in Range(c.callers[role])

\* The Vec fields hold sequences.
Lists(c) == \A values \in {c.prices, c.meters} : values \in Seq(Range(values))

(***************************************************************************)
(* What a valid configuration guarantees to them.                          *)
(***************************************************************************)
\* No caller acts in two roles.
OneRole(c) ==
    \A caller \in Name, r \in Role :
        Allowed(c, r, caller) => \A s \in Role \ {r} : ~Allowed(c, s, caller)

\* The price a checkout sells under an alias is the mapping that reconciliation
\* finds for its Price ID, and grants the features of.
SoldIsGranted(c) ==
    \A alias \in Name :
        LET sold == Price(c, alias)
        IN  sold # None => PriceById(c, sold.price_id) = sold

\* A meter's events are no other meter's.
OwnEvent(c) ==
    \A a \in Name : Meter(c, a) # None =>
        \A b \in Name \ {a} :
            Meter(c, b) # None => Meter(c, a).event_name # Meter(c, b).event_name

Unambiguous(c) == OneRole(c) /\ SoldIsGranted(c) /\ OwnEvent(c)
==============================================================================
