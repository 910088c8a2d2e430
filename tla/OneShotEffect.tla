--------------------------- MODULE OneShotEffect ----------------------------
(***************************************************************************)
(* What the effect ledger promises of one idempotency key, whatever the    *)
(* number of processes, retries and crashes: the external mutation is sent *)
(* at most once, it is decided at most once, an outcome claimed as success *)
(* was sent before, and only an operator settles an unknown outcome.       *)
(***************************************************************************)
CONSTANTS Effect, Receipt, None

VARIABLES
    outcome,    \* "open", "pending", "accepted", "failed" or "unknown"
    sent,       \* the effects whose request has left
    proof       \* the receipt an accepted effect carries

vars == <<outcome, sent, proof>>

TypeOK ==
    /\ outcome \in [Effect -> {"open", "pending", "accepted", "failed", "unknown"}]
    /\ sent \in SUBSET Effect
    /\ proof \in [Effect -> Receipt \cup {None}]

Init ==
    /\ outcome = [e \in Effect |-> "open"]
    /\ sent = {}
    /\ proof = [e \in Effect |-> None]

\* Effect e moves from one outcome to another.
Move(e, from, to) ==
    /\ outcome[e] = from
    /\ outcome' = [outcome EXCEPT ![e] = to]

Start(e) == Move(e, "open", "pending") /\ UNCHANGED <<sent, proof>>

\* The request leaves once, after the start.  The sender may be so late that
\* the outcome has been given up by then.
Send(e) ==
    /\ outcome[e] # "open"
    /\ e \notin sent
    /\ sent' = sent \cup {e}
    /\ UNCHANGED <<outcome, proof>>

Accept(e) ==
    /\ e \in sent
    /\ Move(e, "pending", "accepted")
    /\ \E r \in Receipt : proof' = [proof EXCEPT ![e] = r]
    /\ UNCHANGED sent

Fail(e) == Move(e, "pending", "failed") /\ UNCHANGED <<sent, proof>>

\* Activation gives up several pending effects with one statement.
GiveUp(lost) ==
    /\ lost # {}
    /\ \A e \in lost : outcome[e] = "pending"
    /\ outcome' = [e \in Effect |-> IF e \in lost THEN "unknown" ELSE outcome[e]]
    /\ UNCHANGED <<sent, proof>>

ResolveAccepted(e) ==
    /\ Move(e, "unknown", "accepted")
    /\ \E r \in Receipt : proof' = [proof EXCEPT ![e] = r]
    /\ UNCHANGED sent

ResolveFailed(e) == Move(e, "unknown", "failed") /\ UNCHANGED <<sent, proof>>

Next ==
    \/ \E e \in Effect : \/ Start(e) \/ Send(e) \/ Accept(e) \/ Fail(e)
                         \/ ResolveAccepted(e) \/ ResolveFailed(e)
    \/ \E lost \in SUBSET Effect : GiveUp(lost)

Spec == Init /\ [][Next]_vars
=============================================================================
