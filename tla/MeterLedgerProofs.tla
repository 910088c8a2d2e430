-------------------------- MODULE MeterLedgerProofs --------------------------
(***************************************************************************)
(* Machine-checked proofs about MeterLedger, for every set of processes,   *)
(* deliveries, requests, subjects and customers and every uncertainty      *)
(* window.                                                                 *)
(***************************************************************************)
EXTENDS MeterLedger, TLAPS

-----------------------------------------------------------------------------
(* Types, by group of variables.  The customer an invocation has found is   *)
(* always one of the subject it publishes for.                              *)

RowTypes ==
    /\ status \in [Delivery -> Status]
    /\ claimant \in [Delivery -> Request \cup {None}]
    /\ age \in [Delivery -> 0 .. Uncertainty]

CallTypes ==
    /\ pc \in [Process -> Step]
    /\ target \in [Process -> Delivery \cup {None}]
    /\ request \in [Process -> Request \cup {None}]
    /\ payer \in [Process -> Customer \cup {None}]
    /\ inserted \in [Process -> BOOLEAN]
    /\ \A p \in Process :
          /\ pc[p] # "idle" => target[p] \in Delivery /\ request[p] \in Request
          /\ pc[p] \notin {"idle", "account"} =>
                /\ payer[p] \in Customer
                /\ OwnerOf[payer[p]] = SubjectOf[ContentOf[request[p]]]

RestTypes ==
    /\ up \in [Process -> BOOLEAN]
    /\ account \in [Subject -> Customer \cup {None}]
    /\ \A s \in Subject : account[s] # None => OwnerOf[account[s]] = s
    /\ window \in [Content -> {"ahead", "open", "past"}]
    /\ traffic \in Traffic
    /\ stripe \in [Delivery -> {"none", "wire", "recorded", "refused"}]
    /\ usage \in [Delivery -> Usage \cup {None}]
    /\ posts \in [Delivery -> Nat]
    /\ told \in [Delivery -> SUBSET (Request \X Answer)]

TypeInv == RowTypes /\ CallTypes /\ RestTypes

LEMMA TypeInvTypes == TypeInv => TypeOK
  BY DEF TypeInv, RowTypes, CallTypes, RestTypes, TypeOK

\* Who arrives is one of the requests, who checks out one of the customers.
LEMMA CastFits ==
  TypeInv => traffic.requests \subseteq Request /\ traffic.customers \subseteq Customer
  BY MeterLedgerAssumption DEF TypeInv, RestTypes

LEMMA TypeInit == Init => TypeInv
  BY MeterLedgerAssumption
  DEF Init, TypeInv, RowTypes, CallTypes, RestTypes, Status, Step

(* The building blocks of the actions.                                     *)

LEMMA GotoTypes ==
  ASSUME CallTypes, NEW p \in Process, pc[p] \notin {"idle", "account"},
         NEW s \in Step, Goto(p, s), UNCHANGED payer, inserted' \in [Process -> BOOLEAN]
  PROVE  CallTypes'
  BY DEF CallTypes, Goto

LEMMA EndTypes ==
  ASSUME CallTypes, NEW p \in Process, End(p)
  PROVE  CallTypes'
  BY MeterLedgerAssumption DEF CallTypes, End, Step

LEMMA SetStatusTypes ==
  ASSUME RowTypes, NEW d \in Delivery, NEW s \in Status, SetStatus(d, s)
  PROVE  RowTypes'
  BY MeterLedgerAssumption DEF RowTypes, SetStatus

LEMMA TellTypes ==
  ASSUME RestTypes, NEW d \in Delivery, NEW r \in Request, NEW a \in SUBSET Answer,
         Tell(d, r, a)
  PROVE  told' \in [Delivery -> SUBSET (Request \X Answer)]
  BY DEF RestTypes, Tell

LEMMA StoredTypes ==
  ASSUME NEW d \in Delivery
  PROVE  Stored(d) \in SUBSET Answer
  BY DEF Stored, Answer

LEMMA MarkUnknownTypes ==
  ASSUME RowTypes, NEW d \in Delivery, MarkUnknown(d)
  PROVE  RowTypes'
  BY SetStatusTypes DEF MarkUnknown, Status

LEMMA SettleTypes ==
  ASSUME TypeInv, NEW p \in Process, pc[p] # "idle", NEW s \in Status, NEW a \in Answer,
         Settle(p, s, a)
  PROVE  TypeInv'
<1>1. target[p] \in Delivery /\ request[p] \in Request
  BY DEF TypeInv, CallTypes
<1>2. RowTypes'
  BY <1>1, SetStatusTypes DEF Settle, TypeInv, RowTypes, row
<1>3. CallTypes'
  BY EndTypes DEF Settle, TypeInv
<1>4. RestTypes'
  BY <1>1, TellTypes DEF Settle, AnswerIfWritten, TypeInv, RestTypes, world
<1> QED
  BY <1>2, <1>3, <1>4 DEF TypeInv

LEMMA RowKept == RowTypes /\ UNCHANGED row => RowTypes'
  BY DEF RowTypes, row

LEMMA CallKept == CallTypes /\ UNCHANGED call => CallTypes'
  BY DEF CallTypes, call

LEMMA RestKept == RestTypes /\ UNCHANGED <<up, world, ghost>> => RestTypes'
  BY DEF RestTypes, world, ghost

(* The actions.                                                            *)

LEMMA TypeNext == TypeInv /\ [Next]_vars => TypeInv'
<1> SUFFICES ASSUME TypeInv, [Next]_vars PROVE TypeInv'
  OBVIOUS
<1> USE DEF TypeInv
<1>1. ASSUME NEW p \in Process, NEW d \in Delivery, NEW r \in Request, Refuse(p, d, r)
      PROVE  TypeInv'
  <2>1. RowTypes'
    BY <1>1, RowKept DEF Refuse
  <2>2. CallTypes'
    BY <1>1, CallKept DEF Refuse
  <2>3. RestTypes'
    BY <1>1, TellTypes, RestKept DEF Refuse, Answer, RestTypes, world, ghost
  <2> QED
    BY <2>1, <2>2, <2>3
<1>2. ASSUME NEW p \in Process, NEW d \in Delivery, NEW r \in Request, Publish(p, d, r)
      PROVE  TypeInv'
  <2>1. RowTypes'
    BY <1>2, RowKept DEF Publish
  <2>2. CallTypes'
    BY <1>2, MeterLedgerAssumption DEF CallTypes, Step, Publish
  <2>3. RestTypes'
    BY <1>2, RestKept DEF Publish, world, ghost
  <2> QED
    BY <2>1, <2>2, <2>3
<1>3. ASSUME NEW p \in Process, Account(p)
      PROVE  TypeInv'
  <2>1. RowTypes'
    BY <1>3, RowKept DEF Account
  <2>2. CallTypes'
    BY <1>3, EndTypes, MeterLedgerAssumption
    DEF CallTypes, RestTypes, Account, Statement, Goto, BillingCustomer, Step
  <2>3. RestTypes'
    BY <1>3, RestKept DEF Account, world, ghost
  <2> QED
    BY <2>1, <2>2, <2>3
<1>4. ASSUME NEW p \in Process, Insert(p)
      PROVE  TypeInv'
  <2>1. RowTypes'
    BY <1>4, MeterLedgerAssumption
    DEF RowTypes, CallTypes, Status, row, Insert, Statement
  <2>2. CallTypes'
    BY <1>4, GotoTypes DEF Step, CallTypes, Insert, Statement
  <2>3. RestTypes'
    BY <1>4, RestKept DEF Insert, world, ghost
  <2> QED
    BY <2>1, <2>2, <2>3
<1>5. ASSUME NEW p \in Process, Read(p)
      PROVE  TypeInv'
  <2>1. RowTypes'
    BY <1>5, RowKept DEF Read
  <2>2. CallTypes'
    BY <1>5, EndTypes, GotoTypes DEF Step, CallTypes, Read, Statement
  <2>3. RestTypes'
    BY <1>5, TellTypes, StoredTypes DEF CallTypes, RestTypes, Read, Statement, world
  <2> QED
    BY <2>1, <2>2, <2>3
<1>6. ASSUME NEW p \in Process, RecoverOne(p)
      PROVE  TypeInv'
  <2>1. RowTypes'
    BY <1>6, MarkUnknownTypes, RowKept DEF CallTypes, RecoverOne, Statement
  <2>2. CallTypes'
    BY <1>6, EndTypes DEF RecoverOne, Statement
  <2>3. RestTypes'
    BY <1>6, RestKept DEF RecoverOne, world, ghost
  <2> QED
    BY <2>1, <2>2, <2>3
<1>7. ASSUME NEW p \in Process, Claim(p)
      PROVE  TypeInv'
  <2>1. RowTypes'
    BY <1>7, SetStatusTypes, RowKept DEF CallTypes, Status, Claim, Statement
  <2>2. CallTypes'
    BY <1>7, GotoTypes DEF Step, Holding, CallTypes, Claim, Statement
  <2>3. RestTypes'
    BY <1>7, RestKept DEF Claim, world, ghost
  <2> QED
    BY <2>1, <2>2, <2>3
<1>8. ASSUME NEW p \in Process, Reload(p)
      PROVE  TypeInv'
  <2>1. RowTypes'
    BY <1>8, RowKept DEF Reload
  <2>2. CallTypes'
    BY <1>8, EndTypes DEF Reload, Statement
  <2>3. RestTypes'
    BY <1>8, TellTypes, StoredTypes
    DEF CallTypes, RestTypes, Reload, Statement, world
  <2> QED
    BY <2>1, <2>2, <2>3
<1>9. ASSUME NEW p \in Process, Post(p)
      PROVE  TypeInv'
  <2>1. RowTypes'
    BY <1>9, RowKept DEF Post
  <2>2. CallTypes'
    BY <1>9, GotoTypes DEF Step, Holding, CallTypes, Post
  <2>3. RestTypes'
    BY <1>9 DEF RestTypes, CallTypes, Usage, Post
  <2> QED
    BY <2>1, <2>2, <2>3
<1>10. ASSUME NEW p \in Process, Receive(p)
      PROVE  TypeInv'
  <2>1. RowTypes'
    BY <1>10, RowKept DEF Receive
  <2>2. CallTypes'
    BY <1>10, GotoTypes DEF Step, Holding, CallTypes, Receive
  <2>3. RestTypes'
    BY <1>10, RestKept DEF Receive, world, ghost
  <2> QED
    BY <2>1, <2>2, <2>3
<1>11. ASSUME NEW p \in Process, Accept(p)
      PROVE  TypeInv'
  BY <1>11, SettleTypes DEF Accept, Statement, Status, Answer
<1>12. ASSUME NEW p \in Process, Reject(p)
      PROVE  TypeInv'
  BY <1>12, SettleTypes DEF Reject, Statement, Status, Answer
<1>13. ASSUME NEW p \in Process, Mark(p)
      PROVE  TypeInv'
  <2>1. RowTypes'
    BY <1>13, MarkUnknownTypes, RowKept DEF CallTypes, Mark
  <2>2. CallTypes'
    BY <1>13, EndTypes DEF Mark, Statement
  <2>3. RestTypes'
    BY <1>13, RestKept DEF Mark, world, ghost
  <2> QED
    BY <2>1, <2>2, <2>3
<1>14. ASSUME NEW p \in Process, Drop(p)
      PROVE  TypeInv'
  <2>1. RowTypes'
    BY <1>14, RowKept DEF Drop
  <2>2. CallTypes'
    BY <1>14, EndTypes DEF Drop, Statement
  <2>3. RestTypes'
    BY <1>14, RestKept DEF Drop, world, ghost
  <2> QED
    BY <2>1, <2>2, <2>3
<1>15. ASSUME NEW p \in Process, Activate(p)
      PROVE  TypeInv'
  <2>1. RowTypes'
    BY <1>15, MeterLedgerAssumption DEF RowTypes, Status, Activate, Live
  <2>2. CallTypes'
    BY <1>15, CallKept DEF Activate
  <2>3. RestTypes'
    BY <1>15, MeterLedgerAssumption DEF RestTypes, world, ghost, Activate
  <2> QED
    BY <2>1, <2>2, <2>3
<1>16. ASSUME NEW p \in Process, Deactivate(p)
      PROVE  TypeInv'
  <2>1. RowTypes'
    BY <1>16, RowKept DEF Deactivate
  <2>2. CallTypes'
    BY <1>16, CallKept DEF Deactivate
  <2>3. RestTypes'
    BY <1>16, MeterLedgerAssumption DEF RestTypes, world, ghost, Deactivate
  <2> QED
    BY <2>1, <2>2, <2>3
<1>17. ASSUME NEW p \in Process, Crash(p)
      PROVE  TypeInv'
  <2>1. RowTypes'
    BY <1>17, RowKept DEF Crash
  <2>2. CallTypes'
    BY <1>17, EndTypes DEF Crash, Statement
  <2>3. RestTypes'
    BY <1>17, MeterLedgerAssumption DEF RestTypes, world, ghost, Crash
  <2> QED
    BY <2>1, <2>2, <2>3
<1>18. ASSUME NEW d \in Delivery, StripeDecides(d)
      PROVE  TypeInv'
  <2>1. RowTypes'
    BY <1>18, RowKept DEF StripeDecides
  <2>2. CallTypes'
    BY <1>18, CallKept DEF StripeDecides
  <2>3. RestTypes'
    BY <1>18, MeterLedgerAssumption DEF RestTypes, world, ghost, StripeDecides
  <2> QED
    BY <2>1, <2>2, <2>3
<1>19. ASSUME NEW s \in Subject, Link(s)
      PROVE  TypeInv'
  <2>1. RowTypes'
    BY <1>19, RowKept DEF Link
  <2>2. CallTypes'
    BY <1>19, CallKept DEF Link
  <2>3. RestTypes'
    BY <1>19, CastFits, MeterLedgerAssumption DEF RestTypes, world, ghost, Link
  <2> QED
    BY <2>1, <2>2, <2>3
<1>20. ASSUME NEW k \in Content, Elapse(k)
      PROVE  TypeInv'
  <2>1. RowTypes'
    BY <1>20, RowKept DEF Elapse
  <2>2. CallTypes'
    BY <1>20, CallKept DEF Elapse
  <2>3. RestTypes'
    BY <1>20, MeterLedgerAssumption DEF RestTypes, world, ghost, Elapse
  <2> QED
    BY <2>1, <2>2, <2>3
<1>21. ASSUME Tick
      PROVE  TypeInv'
  <2>1. RowTypes'
    BY <1>21, MeterLedgerAssumption DEF RowTypes, Status, Tick, Live
  <2>2. CallTypes'
    BY <1>21, CallKept DEF Tick
  <2>3. RestTypes'
    BY <1>21, RestKept DEF Tick, world, ghost
  <2> QED
    BY <2>1, <2>2, <2>3
<1>22. ASSUME UNCHANGED vars
      PROVE  TypeInv'
  <2>1. RowTypes'
    BY <1>22, RowKept DEF vars
  <2>2. CallTypes'
    BY <1>22, CallKept DEF vars
  <2>3. RestTypes'
    BY <1>22, RestKept DEF vars, world, ghost
  <2> QED
    BY <2>1, <2>2, <2>3
<1> QED
  BY <1>1, <1>2, <1>3, <1>4, <1>5, <1>6, <1>7, <1>8, <1>9, <1>10, <1>11, <1>12,
     <1>13, <1>14, <1>15, <1>16, <1>17, <1>18, <1>19, <1>20, <1>21, <1>22, CastFits
  DEF Next, Advance

\* Every variable stays in its type.
THEOREM TypeCorrect == Spec => []TypeOK
  BY TypeInit, TypeNext, TypeInvTypes, PTL DEF Spec

-----------------------------------------------------------------------------
(* The inductive invariant: what is true of a delivery, and of the          *)
(* invocation that holds its dispatch.                                      *)

\* The named conjuncts are the invariants of the runs, one delivery at a time;
\* the others say how the row, the ghosts and Stripe hang together.
DeliveryOK(d) ==
    /\ claimant[d] = None <=> status[d] = "absent"
    /\ posts[d] > 0 => status[d] \notin {"absent", "prepared"}
    /\ posts[d] = 0 => stripe[d] = "none" /\ usage[d] = None
    /\ posts[d] <= 1
    /\ usage[d] # None =>
          /\ usage[d].request = claimant[d]
          /\ OwnerOf[usage[d].customer] = SubjectOf[ContentOf[claimant[d]]]
    /\ status[d] = "accepted" => stripe[d] = "recorded"
    /\ status[d] = "known_failure" => stripe[d] = "refused"
    /\ \A a \in told[d] : a[2] # "invalid" =>
          /\ a[1] = claimant[d]
          /\ status[d] = IF a[2] = "rejected" THEN "known_failure" ELSE "accepted"

\* At most one invocation holds the dispatch of a delivery.
OneHolder ==
    \A p, q \in Process :
        pc[p] \in Holding /\ pc[q] \in Holding /\ target[p] = target[q] => p = q

\* It alone settles the row, by what Stripe answered to its POST.
HolderShape ==
    \A p \in Process :
        /\ pc[p] \in Holding => status[target[p]] \in {"in_flight", "effect_unknown"}
        /\ pc[p] \in Holding \cup {"claim", "reload"} => claimant[target[p]] = request[p]
        /\ pc[p] = "read" => claimant[target[p]] # None
        /\ pc[p] = "post" => posts[target[p]] = 0
        /\ pc[p] \in Holding \ {"post"} => posts[target[p]] > 0
        /\ pc[p] = "accept" => stripe[target[p]] = "recorded"
        /\ pc[p] = "reject" => stripe[target[p]] = "refused"

LedgerInv == \A d \in Delivery : DeliveryOK(d)

IInv == TypeInv /\ LedgerInv /\ OneHolder /\ HolderShape

LEMMA IInvInit == Init => IInv
<1> SUFFICES ASSUME Init PROVE IInv
  OBVIOUS
<1>1. TypeInv
  BY TypeInit
<1>2. LedgerInv
  BY DEF Init, LedgerInv, DeliveryOK
<1>3. OneHolder /\ HolderShape
  BY DEF Init, OneHolder, HolderShape, Holding
<1> QED
  BY <1>1, <1>2, <1>3 DEF IInv

(* What depends only on variables a step leaves alone.                     *)

About(d) == <<status[d], claimant[d], posts[d], usage[d], stripe[d], told[d]>>

LEMMA DeliveryKept ==
  ASSUME NEW d \in Delivery, DeliveryOK(d), UNCHANGED About(d)
  PROVE  DeliveryOK(d)'
  BY DEF DeliveryOK, About

LEMMA LedgerKept == LedgerInv /\ UNCHANGED <<row, stripe, ghost>> => LedgerInv'
  BY DEF LedgerInv, DeliveryOK, row, ghost

\* The invocations that hold a row, or are about to claim one, go on as they
\* were; a row that is held is at most given up.
HolderFrame ==
    /\ \A q \in Process : pc'[q] \in Holding \cup {"claim", "reload"} =>
          /\ pc'[q] = pc[q] \/ (pc[q] = "claim" /\ pc'[q] = "reload")
          /\ target'[q] = target[q] /\ request'[q] = request[q]
    /\ \A q \in Process : pc'[q] = "read" =>
          (pc[q] = "read" /\ target'[q] = target[q]) \/ claimant'[target'[q]] # None
    /\ \A d \in Delivery : claimant[d] = None \/ claimant'[d] = claimant[d]
    /\ \A q \in Process : pc'[q] \in Holding =>
          LET d == target[q] IN
          /\ posts'[d] = posts[d]
          /\ stripe'[d] = stripe[d] \/ stripe[d] = "wire"
          /\ status'[d] \in {status[d], "effect_unknown"}

LEMMA HolderKept == IInv /\ HolderFrame => OneHolder' /\ HolderShape'
<1> SUFFICES ASSUME IInv, HolderFrame PROVE OneHolder' /\ HolderShape'
  OBVIOUS
<1>1. OneHolder'
  BY DEF IInv, HolderFrame, OneHolder, Holding
<1>2. ASSUME NEW p \in Process, pc'[p] \in Holding \cup {"claim", "reload"}
      PROVE  target[p] \in Delivery /\ request[p] # None /\ claimant[target[p]] # None
  BY <1>2, MeterLedgerAssumption
  DEF IInv, HolderFrame, HolderShape, TypeInv, CallTypes, Holding
<1>3. ASSUME NEW p \in Process, pc[p] = "read" PROVE target[p] \in Delivery
  BY <1>3 DEF IInv, TypeInv, CallTypes
<1>4. HolderShape'
  BY <1>2, <1>3 DEF IInv, HolderFrame, HolderShape, Holding
<1> QED
  BY <1>1, <1>4

\* Nothing definite has been said of a row without an outcome.
LEMMA NothingSaid ==
  ASSUME NEW d \in Delivery, DeliveryOK(d), status[d] \notin {"accepted", "known_failure"}
  PROVE  \A a \in told[d] : a[2] = "invalid"
  BY DEF DeliveryOK

\* The moves of a row, as the statements make them.
LEMMA MovesOn ==
  ASSUME NEW d \in Delivery, DeliveryOK(d), status[d] \in {"prepared", "in_flight"},
         status'[d] \in {"in_flight", "effect_unknown"},
         UNCHANGED <<claimant[d], posts[d], usage[d], stripe[d], told[d]>>
  PROVE  DeliveryOK(d)'
  BY NothingSaid DEF DeliveryOK

\* An answer that is read from the row adds nothing to it.
LEMMA Retold ==
  ASSUME TypeInv, NEW d \in Delivery, NEW r \in Request, DeliveryOK(d), claimant[d] = r,
         told'[d] = told[d] \cup ({r} \X Stored(d)),
         UNCHANGED <<status[d], claimant[d], posts[d], usage[d], stripe[d]>>
  PROVE  DeliveryOK(d)'
<1>1. ASSUME NEW a \in {r} \X Stored(d)
      PROVE  a[1] = r /\ status[d] = IF a[2] = "rejected" THEN "known_failure" ELSE "accepted"
  <2>1. CASE status[d] = "accepted"
    BY <1>1, <2>1 DEF Stored
  <2>2. CASE status[d] = "known_failure"
    BY <1>1, <2>2 DEF Stored
  <2>3. CASE status[d] \notin {"accepted", "known_failure"}
    BY <1>1, <2>3 DEF Stored
  <2> QED
    BY <2>1, <2>2, <2>3
<1> QED
  BY <1>1 DEF DeliveryOK

\* finish_meter's UPDATE and answer, by the invocation that holds the row.
LEMMA SettleKeeps ==
  ASSUME IInv, NEW p \in Process, pc[p] \in {"accept", "reject"},
         NEW s \in {"accepted", "known_failure"}, NEW a \in {"accepted", "rejected"},
         s = "accepted" => stripe[target[p]] = "recorded" /\ a = "accepted",
         s = "known_failure" => stripe[target[p]] = "refused" /\ a = "rejected",
         Settle(p, s, a)
  PROVE  LedgerInv' /\ OneHolder' /\ HolderShape'
<1>1. PICK d \in Delivery : d = target[p]
  BY DEF IInv, TypeInv, CallTypes
<1>2. claimant[d] = request[p] /\ request[p] \in Request
  BY <1>1 DEF IInv, HolderShape, Holding, TypeInv, CallTypes
<1>3. LedgerInv'
  <2> SUFFICES ASSUME NEW f \in Delivery, DeliveryOK(f) PROVE DeliveryOK(f)'
    BY DEF IInv, LedgerInv
  <2>1. CASE f # d
    BY <1>1, <2>1, DeliveryKept
    DEF About, Settle, SetStatus, Tell, IInv, TypeInv, RowTypes, RestTypes, row,
        world
  <2>2. CASE f = d /\ ~Live(d)
    BY <1>1, <2>2, DeliveryKept
    DEF About, Settle, AnswerIfWritten, Tell, IInv, TypeInv, RestTypes, row, world
  <2>3. CASE f = d /\ Live(d)
    <3>1. /\ status'[d] = s /\ claimant'[d] = claimant[d]
          /\ told'[d] = told[d] \cup ({request[p]} \X {a})
          /\ UNCHANGED <<posts, usage, stripe>>
      BY <1>1, <2>3
      DEF Settle, SetStatus, Tell, AnswerIfWritten, IInv, TypeInv, RowTypes,
          RestTypes, world
    <3>2. \A b \in told[d] : b[2] = "invalid"
      BY <2>3, NothingSaid DEF Live
    <3> QED
      BY <1>1, <1>2, <2>3, <3>1, <3>2, MeterLedgerAssumption DEF DeliveryOK, Live
  <2> QED
    BY <2>1, <2>2, <2>3
<1>4. HolderFrame
  BY <1>1
  DEF HolderFrame, Settle, SetStatus, End, IInv, OneHolder, HolderShape, TypeInv,
      RowTypes, CallTypes, Holding, row, world
<1> QED
  BY <1>3, <1>4, HolderKept

(* The actions.                                                            *)

LEMMA IInvNext == IInv /\ [Next]_vars => IInv'
<1> SUFFICES ASSUME IInv, [Next]_vars PROVE IInv'
  OBVIOUS
<1>0. TypeInv'
  BY TypeNext DEF IInv
<1> USE DEF IInv
<1>1. ASSUME NEW p \in Process, NEW d \in Delivery, NEW r \in Request, Refuse(p, d, r)
      PROVE  IInv'
  <2>1. LedgerInv'
    <3> SUFFICES ASSUME NEW f \in Delivery, DeliveryOK(f) PROVE DeliveryOK(f)'
      BY DEF LedgerInv
    <3>1. told'[f] \subseteq told[f] \cup (Request \X {"invalid"})
      BY <1>1 DEF Refuse, Tell, TypeInv, RestTypes
    <3> QED
      BY <1>1, <3>1 DEF Refuse, DeliveryOK, row, world
  <2>2. OneHolder' /\ HolderShape'
    BY <1>1, HolderKept
    DEF HolderFrame, Refuse, row, call, world, ghost, Holding, TypeInv, CallTypes,
        RowTypes
  <2> QED
    BY <1>0, <2>1, <2>2
<1>2. ASSUME NEW p \in Process, NEW d \in Delivery, NEW r \in Request, Publish(p, d, r)
      PROVE  IInv'
  <2>1. LedgerInv'
    BY <1>2, LedgerKept DEF Publish, world, ghost
  <2>2. OneHolder' /\ HolderShape'
    BY <1>2, HolderKept
    DEF HolderFrame, Publish, row, call, world, ghost, Holding, TypeInv, CallTypes,
        RowTypes
  <2> QED
    BY <1>0, <2>1, <2>2
<1>3. ASSUME NEW p \in Process, Account(p)
      PROVE  IInv'
  <2>1. LedgerInv'
    BY <1>3, LedgerKept DEF Account, world, ghost
  <2>2. OneHolder' /\ HolderShape'
    BY <1>3, HolderKept
    DEF HolderFrame, Account, Statement, Goto, End, row, call, world, ghost,
        Holding, TypeInv, CallTypes, RowTypes
  <2> QED
    BY <1>0, <2>1, <2>2
<1>4. ASSUME NEW p \in Process, Insert(p)
      PROVE  IInv'
  <2>1. LedgerInv'
    <3> SUFFICES ASSUME NEW f \in Delivery, DeliveryOK(f) PROVE DeliveryOK(f)'
      BY DEF LedgerInv
    <3>1. CASE f # target[p]
      BY <1>4, <3>1, DeliveryKept
      DEF About, Insert, Statement, TypeInv, RowTypes, row, world, ghost
    <3>2. CASE f = target[p]
      BY <1>4, <3>2, DeliveryKept, NothingSaid, MeterLedgerAssumption
      DEF About, Insert, Statement, DeliveryOK, TypeInv, RowTypes, CallTypes,
          RestTypes, row, world, ghost
    <3> QED
      BY <3>1, <3>2
  <2>2. OneHolder' /\ HolderShape'
    <3>1. target[p] \in Delivery /\ request[p] # None
      BY <1>4, MeterLedgerAssumption DEF Insert, Statement, TypeInv, CallTypes
    <3>2. /\ pc' = [pc EXCEPT ![p] = "read"]
          /\ UNCHANGED <<target, request, posts, stripe>>
      BY <1>4 DEF Insert, Goto, world, ghost
    <3>3. \/ status[target[p]] # "absent" /\ UNCHANGED <<status, claimant>>
          \/ /\ status[target[p]] = "absent"
             /\ status' = [status EXCEPT ![target[p]] = "prepared"]
             /\ claimant' = [claimant EXCEPT ![target[p]] = request[p]]
      BY <1>4 DEF Insert, row
    <3>4. claimant[target[p]] = None <=> status[target[p]] = "absent"
      BY <3>1 DEF LedgerInv, DeliveryOK
    <3>5. HolderFrame
      BY <3>1, <3>2, <3>3, <3>4
      DEF HolderFrame, HolderShape, Holding, TypeInv, RowTypes, CallTypes
    <3> QED
      BY <3>5, HolderKept
  <2> QED
    BY <1>0, <2>1, <2>2
<1>5. ASSUME NEW p \in Process, Read(p)
      PROVE  IInv'
  <2>1. LedgerInv'
    <3> SUFFICES ASSUME NEW f \in Delivery, DeliveryOK(f) PROVE DeliveryOK(f)'
      BY DEF LedgerInv
    <3>1. CASE told'[f] = told[f]
      BY <1>5, <3>1, DeliveryKept DEF About, Read, row, world
    <3>2. CASE told'[f] # told[f]
      <4>1. /\ f = target[p] /\ SameRequest(p) /\ request[p] \in Request /\ status[f] \in Final
            /\ told'[f] = told[f] \cup ({request[p]} \X Stored(f))
        BY <1>5, <3>2 DEF Read, Statement, Tell, TypeInv, CallTypes, RestTypes
      <4>2. claimant[f] = request[p]
        BY <4>1, MeterLedgerAssumption
        DEF SameRequest, DeliveryOK, Final, TypeInv, RowTypes
      <4> QED
        BY <1>5, <4>1, <4>2, Retold DEF Read, row, world
    <3> QED
      BY <3>1, <3>2
  <2>2. OneHolder' /\ HolderShape'
    <3>1. /\ \A q \in Process \ {p} : pc'[q] = pc[q] /\ target'[q] = target[q] /\ request'[q] = request[q]
          /\ UNCHANGED <<row, posts, stripe>>
      BY <1>5 DEF Read, End, Goto, world, TypeInv, CallTypes
    <3>2. pc'[p] \in {"idle", "recover", "claim"}
      BY <1>5 DEF Read, End, Goto, TypeInv, CallTypes
    <3>3. ASSUME pc'[p] = "claim" PROVE claimant'[target'[p]] = request'[p]
      <4>1. /\ target[p] \in Delivery /\ request[p] \in Request
            /\ (inserted[p] \/ status[target[p]] = "prepared")
            /\ SameRequest(p) /\ UNCHANGED <<target, request, claimant>>
        BY <1>5, <3>3 DEF Read, Statement, End, Goto, row, TypeInv, CallTypes
      <4>2. claimant[target[p]] \in Request
        BY <4>1, <1>5, <3>3 DEF HolderShape, Read, Statement, TypeInv, RowTypes
      <4> QED
        BY <4>1, <4>2, MeterLedgerAssumption DEF SameRequest
    <3> QED
      BY <3>1, <3>2, <3>3 DEF OneHolder, HolderShape, Holding, row
  <2> QED
    BY <1>0, <2>1, <2>2
<1>6. ASSUME NEW p \in Process, RecoverOne(p)
      PROVE  IInv'
  <2>1. LedgerInv'
    <3> SUFFICES ASSUME NEW f \in Delivery, DeliveryOK(f) PROVE DeliveryOK(f)'
      BY DEF LedgerInv
    <3>1. CASE f # target[p]
      BY <1>6, <3>1, DeliveryKept
      DEF About, RecoverOne, MarkUnknown, SetStatus, TypeInv, RowTypes, row, world,
          ghost
    <3>2. CASE f = target[p]
      BY <1>6, <3>2, MovesOn, DeliveryKept
      DEF About, RecoverOne, Overdue, Live, MarkUnknown, SetStatus, TypeInv,
          RowTypes, row, world, ghost
    <3> QED
      BY <3>1, <3>2
  <2>2. OneHolder' /\ HolderShape'
    BY <1>6, HolderKept
    DEF HolderFrame, RecoverOne, Statement, End, MarkUnknown, SetStatus, row, call,
        world, ghost, Holding, TypeInv, CallTypes, RowTypes
  <2> QED
    BY <1>0, <2>1, <2>2
<1>7. ASSUME NEW p \in Process, Claim(p)
      PROVE  IInv'
  <2>1. LedgerInv'
    <3> SUFFICES ASSUME NEW f \in Delivery, DeliveryOK(f) PROVE DeliveryOK(f)'
      BY DEF LedgerInv
    <3>1. CASE f # target[p]
      BY <1>7, <3>1, DeliveryKept
      DEF About, Claim, SetStatus, TypeInv, RowTypes, row, world, ghost
    <3>2. CASE f = target[p]
      BY <1>7, <3>2, MovesOn, DeliveryKept
      DEF About, Claim, Claimable, SetStatus, TypeInv, RowTypes, row, world, ghost
    <3> QED
      BY <3>1, <3>2
  <2>2. ASSUME ~Claimable(target[p]) PROVE OneHolder' /\ HolderShape'
    BY <1>7, <2>2, HolderKept
    DEF HolderFrame, Claim, Statement, Goto, row, call, world, ghost, Holding,
        TypeInv, CallTypes, RowTypes
  <2>3. ASSUME Claimable(target[p]) PROVE OneHolder' /\ HolderShape'
    <3>1. target[p] \in Delivery /\ posts[target[p]] = 0 /\ claimant[target[p]] = request[p]
      BY <1>7, <2>3
      DEF Claim, Statement, Claimable, LedgerInv, DeliveryOK, HolderShape, TypeInv,
          CallTypes, RestTypes
    <3>2. \A q \in Process : pc[q] \in Holding => target[q] # target[p]
      BY <2>3 DEF Claimable, HolderShape
    <3>3. /\ \A q \in Process \ {p} : pc'[q] = pc[q]
          /\ pc'[p] = "post"
          /\ UNCHANGED <<target, request, claimant, posts, stripe>>
      BY <1>7, <2>3 DEF Claim, Goto, SetStatus, world, ghost, TypeInv, CallTypes
    <3>4. /\ \A d \in Delivery \ {target[p]} : status'[d] = status[d]
          /\ status'[target[p]] = "in_flight"
      BY <1>7, <2>3, <3>1 DEF Claim, SetStatus, TypeInv, RowTypes
    <3>5. OneHolder'
      BY <3>2, <3>3 DEF OneHolder, Holding
    <3>6. HolderShape'
      BY <3>1, <3>2, <3>3, <3>4 DEF HolderShape, Holding, TypeInv, CallTypes
    <3> QED
      BY <3>5, <3>6
  <2> QED
    BY <1>0, <2>1, <2>2, <2>3
<1>8. ASSUME NEW p \in Process, Reload(p)
      PROVE  IInv'
  <2>1. LedgerInv'
    <3> SUFFICES ASSUME NEW f \in Delivery, DeliveryOK(f) PROVE DeliveryOK(f)'
      BY DEF LedgerInv
    <3>1. CASE f # target[p]
      BY <1>8, <3>1, DeliveryKept
      DEF About, Reload, Tell, TypeInv, RestTypes, row, world
    <3>2. CASE f = target[p]
      <4>1. request[p] \in Request /\ claimant[f] = request[p]
        BY <1>8, <3>2 DEF Reload, Statement, HolderShape, TypeInv, CallTypes
      <4> QED
        BY <1>8, <3>2, <4>1, Retold DEF Reload, Tell, TypeInv, RestTypes, row, world
    <3> QED
      BY <3>1, <3>2
  <2>2. OneHolder' /\ HolderShape'
    BY <1>8, HolderKept
    DEF HolderFrame, Reload, Statement, End, row, call, world, ghost, Holding,
        TypeInv, CallTypes, RowTypes
  <2> QED
    BY <1>0, <2>1, <2>2
<1>9. ASSUME NEW p \in Process, Post(p)
      PROVE  IInv'
  <2>1. LedgerInv'
    <3> SUFFICES ASSUME NEW f \in Delivery, DeliveryOK(f) PROVE DeliveryOK(f)'
      BY DEF LedgerInv
    <3>1. CASE f # target[p]
      BY <1>9, <3>1, DeliveryKept DEF About, Post, TypeInv, RestTypes, row
    <3>2. CASE f = target[p]
      BY <1>9, <3>2, MeterLedgerAssumption
      DEF Post, HolderShape, Holding, DeliveryOK, Usage, TypeInv, CallTypes,
          RestTypes, row
    <3> QED
      BY <3>1, <3>2
  <2>2. OneHolder' /\ HolderShape'
    <3>1. /\ pc[p] = "post" /\ target[p] \in Delivery
          /\ \A q \in Process \ {p} : pc'[q] = pc[q]
          /\ pc'[p] = "posted"
          /\ UNCHANGED <<row, target, request>>
      BY <1>9 DEF Post, Goto, TypeInv, CallTypes
    <3>2. /\ \A d \in Delivery \ {target[p]} : posts'[d] = posts[d] /\ stripe'[d] = stripe[d]
          /\ posts'[target[p]] > 0
      BY <1>9, <3>1 DEF Post, TypeInv, RestTypes
    <3>3. OneHolder'
      BY <3>1 DEF OneHolder, Holding
    <3>4. \A q \in Process \ {p} : pc[q] \in Holding => target[q] # target[p]
      BY <3>1 DEF OneHolder, Holding
    <3>5. HolderShape'
      BY <3>1, <3>2, <3>4 DEF HolderShape, Holding, row, TypeInv, CallTypes
    <3> QED
      BY <3>3, <3>5
  <2> QED
    BY <1>0, <2>1, <2>2
<1>10. ASSUME NEW p \in Process, Receive(p)
      PROVE  IInv'
  <2>1. LedgerInv'
    BY <1>10, LedgerKept DEF Receive, world, ghost
  <2>2. OneHolder' /\ HolderShape'
    BY <1>10, HolderKept
    DEF HolderFrame, Receive, Goto, FinalRefusal, OneHolder, HolderShape, row, call,
        world, ghost, Holding, TypeInv, CallTypes, RowTypes
  <2> QED
    BY <1>0, <2>1, <2>2
<1>11. ASSUME NEW p \in Process, Accept(p)
      PROVE  IInv'
  BY <1>0, <1>11, SettleKeeps DEF Accept, Statement, HolderShape
<1>12. ASSUME NEW p \in Process, Reject(p)
      PROVE  IInv'
  BY <1>0, <1>12, SettleKeeps DEF Reject, Statement, HolderShape
<1>13. ASSUME NEW p \in Process, Mark(p)
      PROVE  IInv'
  <2>1. LedgerInv'
    <3> SUFFICES ASSUME NEW f \in Delivery, DeliveryOK(f) PROVE DeliveryOK(f)'
      BY DEF LedgerInv
    <3>1. CASE f # target[p]
      BY <1>13, <3>1, DeliveryKept
      DEF About, Mark, MarkUnknown, SetStatus, TypeInv, RowTypes, row, world, ghost
    <3>2. CASE f = target[p]
      BY <1>13, <3>2, MovesOn, DeliveryKept
      DEF About, Mark, Overdue, Live, MarkUnknown, SetStatus, TypeInv, RowTypes,
          row, world, ghost
    <3> QED
      BY <3>1, <3>2
  <2>2. OneHolder' /\ HolderShape'
    BY <1>13, HolderKept
    DEF HolderFrame, Mark, End, MarkUnknown, SetStatus, row, call, world, ghost,
        Holding, TypeInv, CallTypes, RowTypes
  <2> QED
    BY <1>0, <2>1, <2>2
<1>14. ASSUME NEW p \in Process, Drop(p)
      PROVE  IInv'
  <2>1. LedgerInv'
    BY <1>14, LedgerKept DEF Drop, world, ghost
  <2>2. OneHolder' /\ HolderShape'
    BY <1>14, HolderKept
    DEF HolderFrame, Drop, End, row, call, world, ghost, Holding, TypeInv,
        CallTypes, RowTypes
  <2> QED
    BY <1>0, <2>1, <2>2
<1>15. ASSUME NEW p \in Process, Activate(p)
      PROVE  IInv'
  <2>1. LedgerInv'
    <3> SUFFICES ASSUME NEW f \in Delivery, DeliveryOK(f) PROVE DeliveryOK(f)'
      BY DEF LedgerInv
    <3>1. CASE Overdue(f)
      BY <1>15, <3>1, MovesOn DEF Activate, Overdue, world, ghost
    <3>2. CASE ~Overdue(f)
      BY <1>15, <3>2, DeliveryKept DEF About, Activate, world, ghost
    <3> QED
      BY <3>1, <3>2
  <2>2. OneHolder' /\ HolderShape'
    BY <1>15, HolderKept
    DEF HolderFrame, Activate, row, call, world, ghost, Holding, TypeInv, CallTypes,
        RowTypes
  <2> QED
    BY <1>0, <2>1, <2>2
<1>16. ASSUME NEW p \in Process, Deactivate(p)
      PROVE  IInv'
  <2>1. LedgerInv'
    BY <1>16, LedgerKept DEF Deactivate, world, ghost
  <2>2. OneHolder' /\ HolderShape'
    BY <1>16, HolderKept
    DEF HolderFrame, Deactivate, row, call, world, ghost, Holding, TypeInv,
        CallTypes, RowTypes
  <2> QED
    BY <1>0, <2>1, <2>2
<1>17. ASSUME NEW p \in Process, Crash(p)
      PROVE  IInv'
  <2>1. LedgerInv'
    BY <1>17, LedgerKept DEF Crash, world, ghost
  <2>2. OneHolder' /\ HolderShape'
    BY <1>17, HolderKept
    DEF HolderFrame, Crash, End, row, call, world, ghost, Holding, TypeInv,
        CallTypes, RowTypes
  <2> QED
    BY <1>0, <2>1, <2>2
<1>18. ASSUME NEW d \in Delivery, StripeDecides(d)
      PROVE  IInv'
  <2>1. LedgerInv'
    BY <1>18
    DEF StripeDecides, LedgerInv, DeliveryOK, TypeInv, RestTypes, row, ghost
  <2>2. OneHolder' /\ HolderShape'
    BY <1>18, HolderKept
    DEF HolderFrame, StripeDecides, RestTypes, row, call, world, ghost, Holding,
        TypeInv, CallTypes, RowTypes
  <2> QED
    BY <1>0, <2>1, <2>2
<1>19. ASSUME NEW s \in Subject, Link(s)
      PROVE  IInv'
  <2>1. LedgerInv'
    BY <1>19, LedgerKept DEF Link, world, ghost
  <2>2. OneHolder' /\ HolderShape'
    BY <1>19, HolderKept
    DEF HolderFrame, Link, row, call, world, ghost, Holding, TypeInv, CallTypes,
        RowTypes
  <2> QED
    BY <1>0, <2>1, <2>2
<1>20. ASSUME NEW k \in Content, Elapse(k)
      PROVE  IInv'
  <2>1. LedgerInv'
    BY <1>20, LedgerKept DEF Elapse, world, ghost
  <2>2. OneHolder' /\ HolderShape'
    BY <1>20, HolderKept
    DEF HolderFrame, Elapse, row, call, world, ghost, Holding, TypeInv, CallTypes,
        RowTypes
  <2> QED
    BY <1>0, <2>1, <2>2
<1>21. ASSUME Tick
      PROVE  IInv'
  <2>1. LedgerInv'
    BY <1>21, DeliveryKept DEF About, Tick, LedgerInv, world, ghost
  <2>2. OneHolder' /\ HolderShape'
    BY <1>21, HolderKept
    DEF HolderFrame, Tick, row, call, world, ghost, Holding, TypeInv, CallTypes,
        RowTypes
  <2> QED
    BY <1>0, <2>1, <2>2
<1>22. ASSUME UNCHANGED vars
      PROVE  IInv'
  <2>1. LedgerInv'
    BY <1>22, LedgerKept DEF vars, world, ghost
  <2>2. OneHolder' /\ HolderShape'
    BY <1>22, HolderKept
    DEF HolderFrame, vars, row, call, world, ghost, Holding, TypeInv, CallTypes,
        RowTypes
  <2> QED
    BY <1>0, <2>1, <2>2
<1> QED
  BY <1>1, <1>2, <1>3, <1>4, <1>5, <1>6, <1>7, <1>8, <1>9, <1>10, <1>11, <1>12,
     <1>13, <1>14, <1>15, <1>16, <1>17, <1>18, <1>19, <1>20, <1>21, <1>22, CastFits
  DEF Next, Advance

LEMMA Inductive == Spec => []IInv
  BY IInvInit, IInvNext, PTL DEF Spec


-----------------------------------------------------------------------------
(* The safety properties the runs check.                                   *)

\* However many callers, processes, retries, crashes and recoveries there are,
\* one delivery id is sent to Stripe at most once.
THEOREM OneDispatch == Spec => []AtMostOneDispatch
<1>1. IInv => AtMostOneDispatch
  BY DEF IInv, LedgerInv, DeliveryOK, AtMostOneDispatch
<1> QED
  BY Inductive, <1>1, PTL

\* What is sent is the request of the row, for a customer of its own subject.
THEOREM UsageIsAsClaimed == Spec => []UsageAsClaimed
<1>1. IInv => UsageAsClaimed
  BY DEF IInv, LedgerInv, DeliveryOK, UsageAsClaimed
<1> QED
  BY Inductive, <1>1, PTL

\* A settled row agrees with Stripe.
THEOREM VerdictIsSound == Spec => []VerdictSound
<1>1. IInv => VerdictSound
  BY DEF IInv, LedgerInv, DeliveryOK, VerdictSound
<1> QED
  BY Inductive, <1>1, PTL

\* A definite answer stays true of the row, and goes to the request that has it.
THEOREM AnswersAreDurable == Spec => []AnswersStand
<1>1. IInv => AnswersStand
  BY DEF IInv, LedgerInv, DeliveryOK, AnswersStand
<1> QED
  BY Inductive, <1>1, PTL

\* Rows move only out of prepared and in_flight.
LEMMA RowMoves ==
  ASSUME TypeInv, [Next]_vars, NEW d \in Delivery, status'[d] # status[d]
  PROVE  status[d] \notin Final
<1> USE DEF TypeInv, RowTypes
<1>1. ASSUME NEW p \in Process, Insert(p) PROVE status[d] \notin Final
  BY <1>1 DEF Insert, row, Final
<1>2. ASSUME NEW p \in Process, RecoverOne(p) PROVE status[d] \notin Final
  BY <1>2 DEF RecoverOne, Overdue, MarkUnknown, SetStatus, row, Final
<1>3. ASSUME NEW p \in Process, Claim(p) PROVE status[d] \notin Final
  BY <1>3 DEF Claim, Claimable, SetStatus, row, Final
<1>4. ASSUME NEW p \in Process, Accept(p) \/ Reject(p) PROVE status[d] \notin Final
  BY <1>4 DEF Accept, Reject, Settle, Live, SetStatus, row, Final
<1>5. ASSUME NEW p \in Process, Mark(p) PROVE status[d] \notin Final
  BY <1>5 DEF Mark, Live, MarkUnknown, SetStatus, row, Final
<1>6. ASSUME NEW p \in Process, Activate(p) PROVE status[d] \notin Final
  BY <1>6 DEF Activate, Overdue, Final
<1>7. ASSUME NEW p \in Process,
             \/ \E e \in Delivery, r \in Request : Refuse(p, e, r) \/ Publish(p, e, r)
             \/ Account(p) \/ Read(p) \/ Reload(p) \/ Post(p) \/ Receive(p)
             \/ Drop(p) \/ Deactivate(p) \/ Crash(p)
      PROVE  FALSE
  BY <1>7
  DEF Refuse, Publish, Account, Read, Reload, Post, Receive, Drop, Deactivate,
              Crash, row
<1>8. ASSUME \/ \E e \in Delivery : StripeDecides(e)
             \/ \E s \in Subject : Link(s)
             \/ \E k \in Content : Elapse(k)
             \/ Tick
             \/ UNCHANGED vars
      PROVE  FALSE
  BY <1>8 DEF StripeDecides, Link, Elapse, Tick, vars, row
<1> QED
  BY <1>1, <1>2, <1>3, <1>4, <1>5, <1>6, <1>7, <1>8, CastFits DEF Next, Advance

\* No step takes a row out of an outcome, effect_unknown included.
THEOREM OutcomesAreFinal == Spec => OutcomeIsFinal
<1>1. TypeInv /\ [Next]_vars =>
        [\A d \in Delivery : status[d] \in Final => status'[d] = status[d]]_vars
  BY RowMoves
<1> QED
  BY TypeInit, TypeNext, <1>1, PTL DEF Spec, OutcomeIsFinal

\* Nothing the ledger answers calls a request invalid; validate_request alone
\* does, of an occurrence out of its time.
LEMMA InvalidIsRefused ==
  ASSUME TypeInv, [Next]_vars, NEW d \in Delivery, NEW r \in Request,
         <<r, "invalid">> \in told'[d], <<r, "invalid">> \notin told[d]
  PROVE  window[ContentOf[r]] # "open"
<1> USE DEF TypeInv, RestTypes
<1>1. ASSUME NEW p \in Process, NEW e \in Delivery, NEW q \in Request, Refuse(p, e, q)
      PROVE  window[ContentOf[r]] # "open"
  <2>1. told' = [told EXCEPT ![e] = @ \cup ({q} \X {"invalid"})]
    BY <1>1 DEF Refuse, Tell
  <2>2. r = q
    BY <2>1
  <2> QED
    BY <1>1, <2>2 DEF Refuse
<1>2. ASSUME NEW p \in Process, Read(p) \/ Reload(p)
      PROVE  FALSE
  <2>1. "invalid" \notin Stored(target[p])
    BY DEF Stored
  <2> QED
    BY <1>2, <2>1 DEF Read, Reload, Tell
<1>3. ASSUME NEW p \in Process, Accept(p) \/ Reject(p)
      PROVE  FALSE
  <2>1. /\ "invalid" \notin AnswerIfWritten(target[p], "accepted")
        /\ "invalid" \notin AnswerIfWritten(target[p], "rejected")
    BY DEF AnswerIfWritten
  <2> QED
    BY <1>3, <2>1 DEF Accept, Reject, Settle, Tell
<1>4. ASSUME NEW p \in Process,
             \/ \E e \in Delivery, q \in Request : Publish(p, e, q)
             \/ Account(p) \/ Insert(p) \/ RecoverOne(p) \/ Claim(p) \/ Post(p)
             \/ Receive(p) \/ Mark(p) \/ Drop(p) \/ Activate(p) \/ Deactivate(p) \/ Crash(p)
      PROVE  FALSE
  BY <1>4 DEF Publish, Account, Insert, RecoverOne, Claim, Post, Receive, Mark, Drop,
              Activate, Deactivate, Crash, ghost
<1>5. ASSUME \/ \E e \in Delivery : StripeDecides(e)
             \/ \E s \in Subject : Link(s)
             \/ \E k \in Content : Elapse(k)
             \/ Tick
             \/ UNCHANGED vars
      PROVE  FALSE
  BY <1>5 DEF StripeDecides, Link, Elapse, Tick, ghost, vars
<1> QED
  BY <1>1, <1>2, <1>3, <1>4, <1>5, CastFits DEF Next, Advance

\* The documented promise of a replay holds as long as the occurrences of the
\* claimed deliveries are within their 35 days, whatever else happens: the age
\* check before the ledger is the one thing that breaks it.
THEOREM ReplayInTime == Spec /\ [](\A d \in Delivery : InTime(d)) => ReplayReturnsReceipt
<1>1. IInv /\ (\A d \in Delivery : InTime(d)) /\ [Next]_vars
        => [\A d \in Delivery :
              status[d] = "accepted" => <<claimant[d], "invalid">> \notin told'[d] \ told[d]]_vars
  <2> SUFFICES ASSUME IInv, \A d \in Delivery : InTime(d), [Next]_vars,
                      NEW d \in Delivery, status[d] = "accepted",
                      <<claimant[d], "invalid">> \in told'[d] \ told[d]
               PROVE  FALSE
    OBVIOUS
  <2>1. claimant[d] # None /\ claimant[d] \in Request
    BY DEF IInv, LedgerInv, DeliveryOK, TypeInv, RowTypes
  <2>2. window[ContentOf[claimant[d]]] = "open"
    BY <2>1 DEF InTime
  <2> QED
    BY <2>1, <2>2, InvalidIsRefused DEF IInv
<1> QED
  BY <1>1, Inductive, PTL DEF Spec, ReplayReturnsReceipt

-----------------------------------------------------------------------------
(* Refinement.                                                             *)

LEMMA OutcomeOf ==
  ASSUME TypeInv
  PROVE  /\ DOMAIN Outcomes = Delivery
         /\ \A d \in Delivery :
              /\ Outcomes[d] = "open" <=> status[d] \in {"absent", "prepared"}
              /\ Outcomes[d] = "pending" <=> status[d] = "in_flight"
              /\ Outcomes[d] = "accepted" <=> status[d] = "accepted"
              /\ Outcomes[d] = "failed" <=> status[d] = "known_failure"
              /\ Outcomes[d] = "unknown" <=> status[d] = "effect_unknown"
  BY DEF TypeInv, RowTypes, Outcomes, Status

Proof == [d \in Delivery |-> IF status[d] = "accepted" THEN d ELSE None]

\* A step that leaves the abstract state alone.
LEMMA Stutter ==
  ASSUME TypeInv, TypeInv', UNCHANGED posts,
         \A d \in Delivery : \/ status'[d] = status[d]
                             \/ {status[d], status'[d]} \subseteq {"absent", "prepared"}
  PROVE  UNCHANGED OneShot!vars
<1>1. Outcomes' = Outcomes
  BY DEF Outcomes, TypeInv, RowTypes, Status
<1>2. Proof' = Proof
  BY DEF Proof
<1> QED
  BY <1>1, <1>2 DEF OneShot!vars, Proof

\* A step that moves one row moves one abstract outcome.
LEMMA MapMove ==
  ASSUME TypeInv, TypeInv', NEW d \in Delivery, NEW s \in Status \ {"absent"},
         status' = [status EXCEPT ![d] = s]
  PROVE  Outcomes' = [Outcomes EXCEPT ![d] =
            CASE s = "prepared"       -> "open"
              [] s = "in_flight"      -> "pending"
              [] s = "accepted"       -> "accepted"
              [] s = "known_failure"  -> "failed"
              [] s = "effect_unknown" -> "unknown"]
  BY DEF Outcomes, TypeInv, RowTypes, Status

\* It gives it its proof when it is accepted, and only then.
LEMMA ProofMove ==
  ASSUME TypeInv, NEW d \in Delivery, NEW s \in Status,
         status' = [status EXCEPT ![d] = s], status[d] # "accepted"
  PROVE  Proof' = IF s = "accepted" THEN [Proof EXCEPT ![d] = d] ELSE Proof
  BY DEF Proof, TypeInv, RowTypes, Status

LEMMA GiveUpMaps ==
  ASSUME TypeInv, TypeInv', NEW d \in Delivery, Live(d), MarkUnknown(d), UNCHANGED posts
  PROVE  [OneShot!Next]_(OneShot!vars)
<1>1. status' = [status EXCEPT ![d] = "effect_unknown"]
  BY DEF MarkUnknown, SetStatus
<1>2. Outcomes' = [Outcomes EXCEPT ![d] = "unknown"]
  BY <1>1, MapMove DEF Status
<1>3. UNCHANGED Proof
  BY <1>1, ProofMove DEF Status, Live
<1>4. Outcomes[d] = "pending" /\ DOMAIN Outcomes = Delivery
  BY OutcomeOf DEF Live
<1>5. Outcomes' = [e \in Delivery |-> IF e \in {d} THEN "unknown" ELSE Outcomes[e]]
  BY <1>2, <1>4
<1>6. OneShot!GiveUp({d})
  BY <1>3, <1>4, <1>5 DEF OneShot!GiveUp, Proof
<1> QED
  BY <1>6 DEF OneShot!Next

LEMMA SettleMaps ==
  ASSUME IInv, TypeInv', NEW p \in Process, pc[p] \in {"accept", "reject"},
         NEW s \in {"accepted", "known_failure"}, NEW a \in Answer, Settle(p, s, a)
  PROVE  [OneShot!Next]_(OneShot!vars)
<1>0. TypeInv
  BY DEF IInv
<1>1. PICK d \in Delivery : d = target[p] /\ posts[d] > 0 /\ UNCHANGED posts
  BY DEF IInv, TypeInv, CallTypes, HolderShape, Holding, Settle
<1>2. CASE Live(d)
  <2>1. status' = [status EXCEPT ![d] = s]
    BY <1>1, <1>2 DEF Settle, SetStatus
  <2>2. Outcomes[d] = "pending"
    BY <1>0, <1>1, <1>2, OutcomeOf DEF Live
  <2>3. CASE s = "accepted"
    <3>1. Outcomes' = [Outcomes EXCEPT ![d] = "accepted"]
      BY <1>0, <1>1, <2>1, <2>3, MapMove DEF Status
    <3>2. Proof' = [Proof EXCEPT ![d] = d]
      BY <1>0, <1>1, <1>2, <2>1, <2>3, ProofMove DEF Status, Live
    <3>3. OneShot!Accept(d)
      BY <1>1, <2>2, <3>1, <3>2 DEF OneShot!Accept, OneShot!Move, Proof
    <3> QED
      BY <3>3 DEF OneShot!Next
  <2>4. CASE s = "known_failure"
    <3>1. Outcomes' = [Outcomes EXCEPT ![d] = "failed"]
      BY <1>0, <1>1, <2>1, <2>4, MapMove DEF Status
    <3>2. UNCHANGED Proof
      BY <1>0, <1>1, <1>2, <2>1, <2>4, ProofMove DEF Status, Live
    <3>3. OneShot!Fail(d)
      BY <1>1, <2>2, <3>1, <3>2 DEF OneShot!Fail, OneShot!Move, Proof
    <3> QED
      BY <3>3 DEF OneShot!Next
  <2> QED
    BY <2>3, <2>4
<1>3. CASE ~Live(d)
  BY <1>0, <1>1, <1>3, Stutter DEF Settle, row
<1> QED
  BY <1>2, <1>3

LEMMA InitMaps == Init => OneShot!Init
  BY DEF Init, OneShot!Init, Outcomes

LEMMA NextMaps == IInv /\ [Next]_vars => [OneShot!Next]_(OneShot!vars)
<1> SUFFICES ASSUME IInv, [Next]_vars PROVE [OneShot!Next]_(OneShot!vars)
  OBVIOUS
<1>0. TypeInv /\ TypeInv'
  BY TypeNext DEF IInv
<1>1. ASSUME NEW p \in Process,
             \/ \E d \in Delivery, r \in Request : Refuse(p, d, r) \/ Publish(p, d, r)
             \/ Account(p) \/ Read(p) \/ Reload(p) \/ Receive(p)
             \/ Drop(p) \/ Deactivate(p) \/ Crash(p)
      PROVE  [OneShot!Next]_(OneShot!vars)
  BY <1>0, <1>1, Stutter
  DEF Refuse, Publish, Account, Read, Reload, Receive, Drop, Deactivate, Crash, row,
      ghost
<1>2. ASSUME \/ \E d \in Delivery : StripeDecides(d)
             \/ \E s \in Subject : Link(s)
             \/ \E k \in Content : Elapse(k)
             \/ Tick
             \/ UNCHANGED vars
      PROVE  [OneShot!Next]_(OneShot!vars)
  BY <1>0, <1>2, Stutter DEF StripeDecides, Link, Elapse, Tick, vars, row, ghost
<1>3. ASSUME NEW p \in Process, Insert(p)
      PROVE  [OneShot!Next]_(OneShot!vars)
  <2>1. \A d \in Delivery : \/ status'[d] = status[d]
                            \/ {status[d], status'[d]} \subseteq {"absent", "prepared"}
    BY <1>0, <1>3 DEF Insert, row, TypeInv, RowTypes
  <2> QED
    BY <1>0, <1>3, <2>1, Stutter DEF Insert, ghost
<1>4. ASSUME NEW p \in Process, RecoverOne(p)
      PROVE  [OneShot!Next]_(OneShot!vars)
  <2>1. target[p] \in Delivery
    BY <1>0, <1>4 DEF RecoverOne, Statement, TypeInv, CallTypes
  <2>2. CASE Overdue(target[p])
    BY <1>0, <1>4, <2>1, <2>2, GiveUpMaps DEF RecoverOne, Overdue, Live, ghost
  <2>3. CASE ~Overdue(target[p])
    BY <1>0, <1>4, <2>3, Stutter DEF RecoverOne, row, ghost
  <2> QED
    BY <2>2, <2>3
<1>5. ASSUME NEW p \in Process, Claim(p)
      PROVE  [OneShot!Next]_(OneShot!vars)
  <2>1. target[p] \in Delivery
    BY <1>0, <1>5 DEF Claim, Statement, TypeInv, CallTypes
  <2>2. CASE Claimable(target[p])
    <3>1. /\ status' = [status EXCEPT ![target[p]] = "in_flight"]
          /\ UNCHANGED posts
      BY <1>5, <2>2 DEF Claim, SetStatus, ghost
    <3>2. Outcomes' = [Outcomes EXCEPT ![target[p]] = "pending"]
      BY <1>0, <2>1, <3>1, MapMove DEF Status
    <3>3. UNCHANGED Proof
      BY <1>0, <2>1, <2>2, <3>1, ProofMove DEF Status, Claimable
    <3>4. Outcomes[target[p]] = "open"
      BY <1>0, <2>1, <2>2, OutcomeOf DEF Claimable
    <3>5. OneShot!Start(target[p])
      BY <3>1, <3>2, <3>3, <3>4 DEF OneShot!Start, OneShot!Move, Proof
    <3> QED
      BY <2>1, <3>5 DEF OneShot!Next
  <2>3. CASE ~Claimable(target[p])
    BY <1>0, <1>5, <2>3, Stutter DEF Claim, row, ghost
  <2> QED
    BY <2>2, <2>3
<1>6. ASSUME NEW p \in Process, Post(p)
      PROVE  [OneShot!Next]_(OneShot!vars)
  <2>1. PICK d \in Delivery : d = target[p]
    BY <1>0, <1>6 DEF Post, TypeInv, CallTypes
  <2>2. posts[d] = 0 /\ status[d] \notin {"absent", "prepared"}
    BY <1>6, <2>1 DEF Post, IInv, HolderShape, Holding
  <2>3. posts' = [posts EXCEPT ![d] = 1] /\ UNCHANGED status
    BY <1>0, <1>6, <2>1, <2>2 DEF Post, row, TypeInv, RestTypes
  <2>4. UNCHANGED <<Outcomes, Proof>>
    BY <2>3 DEF Outcomes, Proof
  <2>5. Outcomes[d] # "open"
    BY <1>0, <2>2, OutcomeOf
  <2>6. OneShot!Send(d)
    BY <1>0, <2>2, <2>3, <2>4, <2>5 DEF OneShot!Send, TypeInv, RestTypes, Proof
  <2> QED
    BY <2>6 DEF OneShot!Next
<1>7. ASSUME NEW p \in Process, Accept(p) \/ Reject(p)
      PROVE  [OneShot!Next]_(OneShot!vars)
  BY <1>0, <1>7, SettleMaps DEF Accept, Reject, Statement, Answer
<1>8. ASSUME NEW p \in Process, Mark(p)
      PROVE  [OneShot!Next]_(OneShot!vars)
  <2>1. target[p] \in Delivery
    BY <1>0, <1>8 DEF Mark, TypeInv, CallTypes
  <2>2. CASE UNCHANGED row
    BY <1>0, <1>8, <2>2, Stutter DEF Mark, row, ghost
  <2>3. CASE Live(target[p]) /\ MarkUnknown(target[p])
    BY <1>0, <1>8, <2>1, <2>3, GiveUpMaps DEF Mark, ghost
  <2> QED
    BY <1>8, <2>2, <2>3 DEF Mark
<1>9. ASSUME NEW p \in Process, Activate(p)
      PROVE  [OneShot!Next]_(OneShot!vars)
  <2> DEFINE lost == {d \in Delivery : Overdue(d)}
  <2>1. /\ Outcomes' = [d \in Delivery |-> IF d \in lost THEN "unknown" ELSE Outcomes[d]]
        /\ UNCHANGED Proof
    BY <1>0, <1>9 DEF Activate, Outcomes, Proof, Overdue, TypeInv, RowTypes, Status
  <2>2. UNCHANGED posts
    BY <1>9 DEF Activate, ghost
  <2>3. CASE lost = {}
    BY <1>0, <1>9, <2>2, <2>3, Stutter DEF Activate, TypeInv, RowTypes
  <2>4. CASE lost # {}
    <3>1. \A d \in lost : Outcomes[d] = "pending"
      BY <1>0, OutcomeOf DEF Overdue
    <3>2. OneShot!GiveUp(lost)
      BY <2>1, <2>2, <2>4, <3>1 DEF OneShot!GiveUp, Proof
    <3>3. lost \in SUBSET Delivery
      OBVIOUS
    <3> QED
      BY <3>2, <3>3 DEF OneShot!Next
  <2> QED
    BY <2>3, <2>4
<1> QED
  BY <1>0, <1>1, <1>2, <1>3, <1>4, <1>5, <1>6, <1>7, <1>8, <1>9, CastFits DEF Next, Advance

\* The meter ledger, too, implements the one-shot effect.
THEOREM MeterImplementsOneShot == Spec => ImplementsOneShot
<1>1. Spec => OneShot!Init /\ [][OneShot!Next]_(OneShot!vars)
  BY InitMaps, NextMaps, Inductive, PTL DEF Spec
<1> QED
  BY <1>1 DEF ImplementsOneShot, OneShot!Spec
=============================================================================
