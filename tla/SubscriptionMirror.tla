------------------------- MODULE SubscriptionMirror -------------------------
(***************************************************************************)
(* What reconciliation promises of one table of rows, whatever the number  *)
(* of workers and losses: a copy of each subscription's state that lags    *)
(* behind Stripe, never goes back, is declared done only at or after every *)
(* state it was told of, and once done is left alone until told again.     *)
(***************************************************************************)
EXTENDS Naturals

CONSTANTS Sub, Kind

VARIABLES
    version,    \* states each subscription has had at Stripe
    told,       \* the news so far: of which subscription, state and kind
    done,       \* subscriptions with nothing left to do
    mirrored    \* the state each copy was made from, 0 before the first

vars == <<version, told, done, mirrored>>

Init ==
    /\ version = [s \in Sub |-> 0]
    /\ told = {}
    /\ done = {}
    /\ mirrored = [s \in Sub |-> 0]

Advance(s) ==
    /\ version' = [version EXCEPT ![s] = @ + 1]
    /\ UNCHANGED <<told, done, mirrored>>

\* News of any state so far, in any order, and each only once.
Tell(s) ==
    /\ \E n \in 1..version[s], k \in Kind :
         /\ <<s, n, k>> \notin told
         /\ told' = told \cup {<<s, n, k>>}
    /\ done' = done \ {s}
    /\ UNCHANGED <<version, mirrored>>

Mirror(s) ==
    /\ s \notin done
    /\ \E n \in mirrored[s]..version[s] :
         /\ \A m \in 1..version[s], k \in Kind : <<s, m, k>> \in told => m <= n
         /\ mirrored' = [mirrored EXCEPT ![s] = n]
    /\ done' = done \cup {s}
    /\ UNCHANGED <<version, told>>

Next == \E s \in Sub : Advance(s) \/ Tell(s) \/ Mirror(s)

Spec == Init /\ [][Next]_vars
=============================================================================
