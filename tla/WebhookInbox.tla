---------------------------- MODULE WebhookInbox ----------------------------
(***************************************************************************)
(* What ingest_webhook promises Stripe and its own Instance: an event is   *)
(* taken at most once, only if it is one this Instance may take, and Stripe *)
(* is told of success for events that have been taken and for no other.    *)
(***************************************************************************)
CONSTANT Event

VARIABLES
    takeable,   \* events this Instance may take, fixed
    taken,      \* events recorded
    acked       \* events Stripe has a success for, and delivers no more

vars == <<takeable, taken, acked>>

Init ==
    /\ takeable \in SUBSET Event
    /\ taken = {}
    /\ acked = {}

Take(e) ==
    /\ e \in takeable \ taken
    /\ taken' = taken \cup {e}
    /\ UNCHANGED <<takeable, acked>>

Acknowledge(e) ==
    /\ e \in taken
    /\ acked' = acked \cup {e}
    /\ UNCHANGED <<takeable, taken>>

Next == \E e \in Event : Take(e) \/ Acknowledge(e)

Spec == Init /\ [][Next]_vars
=============================================================================
