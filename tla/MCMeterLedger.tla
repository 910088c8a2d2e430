--------------------------- MODULE MCMeterLedger ---------------------------
(* Small instances of MeterLedger for TLC.                                 *)
EXTENDS MeterLedger, TLC

CONSTANTS p1, p2, d1, r1, r2, r3, ann, bob, k1, k2, s1, s2, x1, y1, y2

\* Two callers with the same usage, and one of them with usage of another
\* subject.
TwoCallers  == (r1 :> ann) @@ (r2 :> bob) @@ (r3 :> ann)
TwoContents == (r1 :> k1) @@ (r2 :> k1) @@ (r3 :> k2)
TwoSubjects == (k1 :> s2) @@ (k2 :> s1)

\* The second subject came to two customers.
Customers == (x1 :> s1) @@ (y1 :> s2) @@ (y2 :> s2)

\* One delivery id meets two callers with the same usage; one caller with two
\* usages of two subjects; one caller whose subject is linked to one customer
\* and another in turn.
Casts == {[requests |-> {r1, r2}, customers |-> {y1}],
          [requests |-> {r1, r3}, customers |-> {x1, y1}],
          [requests |-> {r1},     customers |-> {y1, y2}]}
=============================================================================
