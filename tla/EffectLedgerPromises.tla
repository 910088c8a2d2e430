------------------------ MODULE EffectLedgerPromises ------------------------
(***************************************************************************)
(* Promises of the effect ledger that rest on its inductive invariant: it  *)
(* implements the one-shot effect; when the store is prompt, no live       *)
(* dispatch is ever taken for a stranded one; and as long as none is, a    *)
(* definite failure that a caller is told of is the row's for good.        *)
(***************************************************************************)
EXTENDS EffectLedgerProofs

-----------------------------------------------------------------------------
(* Refinement.                                                             *)

\* The abstract outcome as a function of the status.
LEMMA OutcomeOf ==
  ASSUME TypeInv
  PROVE  /\ DOMAIN Outcomes = Effect
         /\ \A e \in Effect :
              /\ Outcomes[e] = "open" <=> status[e] \in {"absent", "prepared"}
              /\ Outcomes[e] = "pending" <=> status[e] = "in_flight"
              /\ Outcomes[e] = "accepted" <=> status[e] = "accepted"
              /\ Outcomes[e] = "failed" <=> status[e] = "known_failure"
              /\ Outcomes[e] = "unknown" <=> status[e] = "effect_unknown"
  BY DEF TypeInv, RowTypes, Outcomes, Status

\* A step that leaves the abstract state alone.
LEMMA Stutter ==
  ASSUME TypeInv, TypeInv', UNCHANGED <<receipt, posts>>,
         \A e \in Effect : \/ status'[e] = status[e]
                           \/ {status[e], status'[e]} \subseteq {"absent", "prepared"}
  PROVE  UNCHANGED OneShot!vars
<1>1. Outcomes' = Outcomes
  BY DEF Outcomes, TypeInv, RowTypes, Status
<1> QED
  BY <1>1 DEF OneShot!vars

\* A step that moves one row moves one abstract outcome.
LEMMA MapMove ==
  ASSUME TypeInv, TypeInv', NEW e \in Effect, NEW s \in Status \ {"absent"},
         status' = [status EXCEPT ![e] = s]
  PROVE  Outcomes' = [Outcomes EXCEPT ![e] =
            CASE s = "prepared"       -> "open"
              [] s = "in_flight"      -> "pending"
              [] s = "accepted"       -> "accepted"
              [] s = "known_failure"  -> "failed"
              [] s = "effect_unknown" -> "unknown"]
  BY DEF Outcomes, TypeInv, RowTypes, Status

LEMMA GiveUpMaps ==
  ASSUME TypeInv, TypeInv', NEW e \in Effect, Live(e), MarkUnknown(e), UNCHANGED posts
  PROVE  OneShot!GiveUp({e})
<1>1. status' = [status EXCEPT ![e] = "effect_unknown"] /\ UNCHANGED receipt
  BY DEF MarkUnknown, SetStatus
<1>2. Outcomes' = [Outcomes EXCEPT ![e] = "unknown"]
  BY <1>1, MapMove DEF Status
<1>3. Outcomes[e] = "pending" /\ DOMAIN Outcomes = Effect
  BY OutcomeOf DEF Live
<1>4. Outcomes' = [f \in Effect |-> IF f \in {e} THEN "unknown" ELSE Outcomes[f]]
  BY <1>2, <1>3
<1> QED
  BY <1>1, <1>3, <1>4 DEF OneShot!GiveUp

\* fail_effect fails a pending effect or finds nothing to fail.
LEMMA FailMaps ==
  ASSUME TypeInv, TypeInv', NEW i \in Instance, NEW c \in Code, target[i] \in Effect,
         FailEffect(i, c), UNCHANGED posts
  PROVE  [OneShot!Next]_(OneShot!vars)
<1>1. CASE Live(target[i])
  <2>1. /\ status' = [status EXCEPT ![target[i]] = "known_failure"]
        /\ receipt' = [receipt EXCEPT ![target[i]] = receipt[target[i]]]
    BY <1>1 DEF FailEffect, Live, Outcome, SetStatus
  <2>2. UNCHANGED receipt
    BY <2>1 DEF TypeInv, RowTypes
  <2>3. Outcomes' = [Outcomes EXCEPT ![target[i]] = "failed"]
    BY <2>1, MapMove DEF Status
  <2>4. Outcomes[target[i]] = "pending"
    BY <1>1, OutcomeOf DEF Live
  <2>5. OneShot!Fail(target[i])
    BY <2>2, <2>3, <2>4 DEF OneShot!Fail, OneShot!Move
  <2> QED
    BY <2>5 DEF OneShot!Next
<1>2. CASE ~Live(target[i])
  BY <1>2, Stutter DEF FailEffect, row
<1> QED
  BY <1>1, <1>2

LEMMA InitMaps == Init => OneShot!Init
  BY DEF Init, OneShot!Init, Outcomes

LEMMA NextMaps == IInv /\ [Next]_vars => [OneShot!Next]_(OneShot!vars)
<1> SUFFICES ASSUME IInv, [Next]_vars PROVE [OneShot!Next]_(OneShot!vars)
  OBVIOUS
<1>0. TypeInv /\ TypeInv'
  BY TypeNext DEF IInv
<1>1. ASSUME NEW i \in Instance, NEW e \in Effect, NEW r \in Request, Begin(i, e, r)
      PROVE  [OneShot!Next]_(OneShot!vars)
  BY <1>0, <1>1, Stutter DEF Begin, row, ghost
<1>2. ASSUME NEW i \in Instance, Lookup(i)
      PROVE  [OneShot!Next]_(OneShot!vars)
  BY <1>0, <1>2, Stutter DEF Lookup, row, ghost
<1>3. ASSUME NEW i \in Instance, Insert(i)
      PROVE  [OneShot!Next]_(OneShot!vars)
  <2>1. target[i] \in Effect
    BY <1>0, <1>3 DEF Insert, Statement, TypeInv, CallTypes
  <2>2. CASE status[target[i]] = "absent"
    BY <1>0, <1>3, <2>1, <2>2, Stutter
    DEF Insert, SetStatus, ghost, row, TypeInv, RowTypes, Status
  <2>3. CASE status[target[i]] # "absent"
    BY <1>0, <1>3, <2>3, Stutter DEF Insert, ghost, row
  <2> QED
    BY <2>2, <2>3
<1>4. ASSUME NEW i \in Instance, Read(i)
      PROVE  [OneShot!Next]_(OneShot!vars)
  BY <1>0, <1>4, Stutter DEF Read, row, ghost
<1>5. ASSUME NEW i \in Instance, RecoverOne(i)
      PROVE  [OneShot!Next]_(OneShot!vars)
  <2>1. target[i] \in Effect
    BY <1>0, <1>5 DEF RecoverOne, Statement, TypeInv, CallTypes
  <2>2. CASE Overdue(target[i])
    BY <1>0, <1>5, <2>1, <2>2, GiveUpMaps DEF RecoverOne, Overdue, Live, ghost, OneShot!Next
  <2>3. CASE ~Overdue(target[i])
    BY <1>0, <1>5, <2>3, Stutter DEF RecoverOne, row, ghost
  <2> QED
    BY <2>2, <2>3
<1>6. ASSUME NEW i \in Instance, Claim(i)
      PROVE  [OneShot!Next]_(OneShot!vars)
  <2>1. target[i] \in Effect
    BY <1>0, <1>6 DEF Claim, Statement, TypeInv, CallTypes
  <2>2. CASE Claimable(target[i])
    <3>1. /\ status' = [status EXCEPT ![target[i]] = "in_flight"]
          /\ UNCHANGED <<receipt, posts>>
      BY <1>6, <2>2 DEF Claim, SetStatus, ghost
    <3>2. Outcomes' = [Outcomes EXCEPT ![target[i]] = "pending"]
      BY <1>0, <2>1, <3>1, MapMove DEF Status
    <3>3. Outcomes[target[i]] = "open"
      BY <1>0, <2>1, <2>2, OutcomeOf DEF Claimable
    <3>4. OneShot!Start(target[i])
      BY <3>1, <3>2, <3>3 DEF OneShot!Start, OneShot!Move
    <3> QED
      BY <2>1, <3>4 DEF OneShot!Next
  <2>3. CASE ~Claimable(target[i])
    BY <1>0, <1>6, <2>3, Stutter DEF Claim, row, ghost
  <2> QED
    BY <2>2, <2>3
<1>7. ASSUME NEW i \in Instance, Reload(i)
      PROVE  [OneShot!Next]_(OneShot!vars)
  BY <1>0, <1>7, Stutter DEF Reload, row, ghost
<1>8. ASSUME NEW i \in Instance, Check(i)
      PROVE  [OneShot!Next]_(OneShot!vars)
  BY <1>0, <1>8, Stutter DEF Check, row, ghost
<1>9. ASSUME NEW i \in Instance, Decline(i)
      PROVE  [OneShot!Next]_(OneShot!vars)
  <2>1. target[i] \in Effect
    BY <1>0, <1>9 DEF Decline, Statement, TypeInv, CallTypes
  <2> QED
    BY <1>0, <1>9, <2>1, FailMaps, EffectLedgerAssumption DEF Decline
<1>10. ASSUME NEW i \in Instance, Post(i)
      PROVE  [OneShot!Next]_(OneShot!vars)
  <2>1. PICK e \in Effect : e = target[i]
    BY <1>0, <1>10 DEF Post, TypeInv, CallTypes
  <2>2. posts[e] = 0 /\ status[e] \notin {"absent", "prepared"}
    BY <1>10, <2>1 DEF Post, IInv, HolderShape, Holding, BeforePost
  <2>3. posts' = [posts EXCEPT ![e] = 1] /\ UNCHANGED <<status, receipt>>
    BY <1>0, <1>10, <2>1, <2>2 DEF Post, row, TypeInv, RestTypes
  <2>4. UNCHANGED Outcomes
    BY <2>3 DEF Outcomes
  <2>5. Outcomes[e] # "open"
    BY <1>0, <2>2, OutcomeOf
  <2>6. OneShot!Send(e)
    BY <1>0, <2>2, <2>3, <2>4, <2>5 DEF OneShot!Send, TypeInv, RestTypes
  <2> QED
    BY <2>6 DEF OneShot!Next
<1>11. ASSUME NEW i \in Instance, Receive(i)
      PROVE  [OneShot!Next]_(OneShot!vars)
  BY <1>0, <1>11, Stutter DEF Receive, row, ghost
<1>12. ASSUME NEW i \in Instance, Accept(i)
      PROVE  [OneShot!Next]_(OneShot!vars)
  <2>1. target[i] \in Effect
    BY <1>0, <1>12 DEF Accept, Statement, TypeInv, CallTypes
  <2>2. CASE Live(target[i])
    <3>1. /\ status' = [status EXCEPT ![target[i]] = "accepted"]
          /\ receipt' = [receipt EXCEPT ![target[i]] = Issued[target[i]]]
          /\ UNCHANGED posts
      BY <1>12, <2>2 DEF Accept, Live, Outcome, SetStatus
    <3>2. Outcomes' = [Outcomes EXCEPT ![target[i]] = "accepted"]
      BY <1>0, <2>1, <3>1, MapMove DEF Status
    <3>3. Outcomes[target[i]] = "pending"
      BY <1>0, <2>1, <2>2, OutcomeOf DEF Live
    <3>4. posts[target[i]] > 0
      BY <1>12 DEF Accept, Statement, IInv, HolderShape, AfterPost
    <3>5. Issued[target[i]] \in Receipt
      BY <2>1, EffectLedgerAssumption
    <3>6. OneShot!Accept(target[i])
      BY <2>1, <3>1, <3>2, <3>3, <3>4, <3>5 DEF OneShot!Accept, OneShot!Move
    <3> QED
      BY <2>1, <3>6 DEF OneShot!Next
  <2>3. CASE ~Live(target[i])
    BY <1>0, <1>12, <2>3, Stutter DEF Accept, row
  <2> QED
    BY <2>2, <2>3
<1>13. ASSUME NEW i \in Instance, Reject(i)
      PROVE  [OneShot!Next]_(OneShot!vars)
  <2>1. target[i] \in Effect
    BY <1>0, <1>13 DEF Reject, Statement, TypeInv, CallTypes
  <2> QED
    BY <1>0, <1>13, <2>1, FailMaps, EffectLedgerAssumption DEF Reject
<1>14. ASSUME NEW i \in Instance, Mark(i)
      PROVE  [OneShot!Next]_(OneShot!vars)
  <2>1. target[i] \in Effect
    BY <1>0, <1>14 DEF Mark, TypeInv, CallTypes
  <2>2. CASE UNCHANGED row
    BY <1>0, <1>14, <2>2, Stutter DEF Mark, row, ghost
  <2>3. CASE Live(target[i]) /\ MarkUnknown(target[i])
    BY <1>0, <1>14, <2>1, <2>3, GiveUpMaps DEF Mark, ghost, OneShot!Next
  <2> QED
    BY <1>14, <2>2, <2>3 DEF Mark
<1>15. ASSUME NEW i \in Instance, Drop(i)
      PROVE  [OneShot!Next]_(OneShot!vars)
  BY <1>0, <1>15, Stutter DEF Drop, row, ghost
<1>16. ASSUME NEW i \in Instance, Activate(i)
      PROVE  [OneShot!Next]_(OneShot!vars)
  <2> DEFINE lost == {e \in Effect : Overdue(e)}
  <2>1. Outcomes' = [e \in Effect |-> IF e \in lost THEN "unknown" ELSE Outcomes[e]]
    BY <1>0, <1>16 DEF Activate, Outcomes, Overdue, TypeInv, RowTypes, Status
  <2>2. UNCHANGED <<receipt, posts>>
    BY <1>16 DEF Activate, ghost
  <2>3. CASE lost = {}
    BY <1>0, <1>16, <2>2, <2>3, Stutter DEF Activate, TypeInv, RowTypes
  <2>4. CASE lost # {}
    <3>1. \A e \in lost : Outcomes[e] = "pending"
      BY <1>0, OutcomeOf DEF Overdue
    <3>2. OneShot!GiveUp(lost)
      BY <2>1, <2>2, <2>4, <3>1 DEF OneShot!GiveUp
    <3>3. lost \in SUBSET Effect
      OBVIOUS
    <3> QED
      BY <3>2, <3>3 DEF OneShot!Next
  <2> QED
    BY <2>3, <2>4
<1>17. ASSUME NEW i \in Instance, Deactivate(i)
      PROVE  [OneShot!Next]_(OneShot!vars)
  BY <1>0, <1>17, Stutter DEF Deactivate, row, ghost
<1>18. ASSUME NEW i \in Instance, Crash(i)
      PROVE  [OneShot!Next]_(OneShot!vars)
  BY <1>0, <1>18, Stutter DEF Crash, row, ghost
<1>19. ASSUME NEW d \in Desk, NEW e \in Effect, NEW v \in Verdict, ResolveLoad(d, e, v)
      PROVE  [OneShot!Next]_(OneShot!vars)
  BY <1>0, <1>19, Stutter DEF ResolveLoad, row
<1>20. ASSUME NEW d \in Desk, ResolveUpdate(d)
      PROVE  [OneShot!Next]_(OneShot!vars)
  <2>1. order[d] \in Effect /\ verdict[d] \in Verdict
    BY <1>0, <1>20 DEF ResolveUpdate, TypeInv, DeskTypes
  <2>2. CASE Resolvable(order[d])
    <3> DEFINE e == order[d]
    <3>1. /\ status' = [status EXCEPT ![e] = verdict[d].status]
          /\ receipt' = [receipt EXCEPT ![e] = verdict[d].receipt]
          /\ UNCHANGED posts
      BY <1>20, <2>2 DEF ResolveUpdate, Outcome, SetStatus
    <3>2. Outcomes[e] = "unknown" /\ receipt[e] = None
      BY <1>0, <2>1, <2>2, OutcomeOf
      DEF Resolvable, Unresolved, IInv, LedgerInv, RowShape
    <3>3. CASE verdict[d].status = "accepted"
      <4>1. verdict[d].receipt \in Receipt
        BY <2>1, <3>3 DEF Verdict
      <4>2. Outcomes' = [Outcomes EXCEPT ![e] = "accepted"]
        BY <1>0, <2>1, <3>1, <3>3, MapMove DEF Status
      <4>3. OneShot!ResolveAccepted(e)
        BY <3>1, <3>2, <4>1, <4>2 DEF OneShot!ResolveAccepted, OneShot!Move
      <4> QED
        BY <2>1, <4>3 DEF OneShot!Next
    <3>4. CASE verdict[d].status = "known_failure"
      <4>1. verdict[d].receipt = None
        BY <2>1, <3>4 DEF Verdict
      <4>2. UNCHANGED receipt
        BY <1>0, <3>1, <3>2, <4>1 DEF TypeInv, RowTypes
      <4>3. Outcomes' = [Outcomes EXCEPT ![e] = "failed"]
        BY <1>0, <2>1, <3>1, <3>4, MapMove DEF Status
      <4>4. OneShot!ResolveFailed(e)
        BY <3>1, <3>2, <4>2, <4>3 DEF OneShot!ResolveFailed, OneShot!Move
      <4> QED
        BY <2>1, <4>4 DEF OneShot!Next
    <3> QED
      BY <2>1, <3>3, <3>4 DEF Verdict
  <2>3. CASE ~Resolvable(order[d])
    BY <1>0, <1>20, <2>3, Stutter DEF ResolveUpdate, row
  <2> QED
    BY <2>2, <2>3
<1>21. ASSUME NEW d \in Desk, ResolveLost(d)
      PROVE  [OneShot!Next]_(OneShot!vars)
  BY <1>0, <1>21, Stutter DEF ResolveLost, row, ghost
<1>22. ASSUME NEW e \in Effect, StripeDecides(e)
      PROVE  [OneShot!Next]_(OneShot!vars)
  BY <1>0, <1>22, Stutter DEF StripeDecides, row, ghost
<1>23. ASSUME NEW s \in Subject, SubjectChanges(s)
      PROVE  [OneShot!Next]_(OneShot!vars)
  BY <1>0, <1>23, Stutter DEF SubjectChanges, row, ghost
<1>24. ASSUME Tick
      PROVE  [OneShot!Next]_(OneShot!vars)
  BY <1>0, <1>24, Stutter DEF Tick, ghost
<1>25. ASSUME UNCHANGED vars
      PROVE  [OneShot!Next]_(OneShot!vars)
  BY <1>0, <1>25, Stutter DEF vars, row, ghost
<1>26. QED
  BY <1>1, <1>2, <1>3, <1>4, <1>5, <1>6, <1>7, <1>8, <1>9, <1>10, <1>11, <1>12, <1>13, <1>14, <1>15, <1>16, <1>17, <1>18, <1>19, <1>20, <1>21, <1>22, <1>23, <1>24, <1>25
  DEF Next, Invoke, Advance, Operate

\* The ledger implements the one-shot effect: what many processes, retries,
\* recoveries and operators do to a row is what one careful sender would do.
THEOREM LedgerImplementsOneShot == Spec => ImplementsOneShot
<1>1. Spec => OneShot!Init /\ [][OneShot!Next]_(OneShot!vars)
  BY InitMaps, NextMaps, Inductive, PTL DEF Spec
<1> QED
  BY <1>1 DEF ImplementsOneShot, OneShot!Spec

-----------------------------------------------------------------------------
(* A prompt store.                                                         *)

\* A row that is held is in flight and no older than its POST, so it is
\* younger than the uncertainty window.
HeldIsYoung ==
    \A i \in Instance : pc[i] \in Holding =>
        Live(target[i]) /\ age[target[i]] <= wait[i]

PInv == IInv /\ HeldIsYoung

LEMMA HeldIsNotOverdue ==
  ASSUME PInv, NEW i \in Instance, pc[i] \in Holding
  PROVE  target[i] \in Effect /\ ~Overdue(target[i]) /\ status[target[i]] = "in_flight"
<1>1. target[i] \in Effect /\ wait[i] \in 0 .. HttpTimeout
  BY DEF PInv, IInv, TypeInv, CallTypes, Holding, BeforePost, AfterPost
<1>2. age[target[i]] \in 0 .. Uncertainty /\ age[target[i]] <= wait[i]
  BY <1>1 DEF PInv, HeldIsYoung, IInv, TypeInv, RowTypes
<1> QED
  BY <1>1, <1>2, EffectLedgerAssumption DEF PInv, HeldIsYoung, Live, Overdue

\* A step keeps the invariant if whoever holds a row afterwards held it before
\* and nothing happened to that row.
LEMMA YoungKept ==
  ASSUME PInv, TypeInv',
         \A j \in Instance : pc'[j] \in Holding =>
            /\ pc[j] \in Holding /\ target'[j] = target[j] /\ wait'[j] = wait[j]
            /\ status'[target[j]] = status[target[j]]
            /\ age'[target[j]] = age[target[j]]
  PROVE  HeldIsYoung'
  BY DEF PInv, HeldIsYoung, Live

LEMMA YoungNext == PromptStore /\ PInv /\ [Next]_vars => HeldIsYoung'
<1> SUFFICES ASSUME PromptStore, PInv, [Next]_vars PROVE HeldIsYoung'
  OBVIOUS
<1>0. IInv /\ TypeInv /\ TypeInv'
  BY TypeNext DEF PInv, IInv
<1>h. \A j \in Instance : pc[j] \in Holding =>
        target[j] \in Effect /\ ~Overdue(target[j]) /\ status[target[j]] = "in_flight"
  BY HeldIsNotOverdue
<1>o. \A i, j \in Instance :
        pc[i] \in Holding /\ pc[j] \in Holding /\ i # j => target[i] # target[j]
  BY <1>0 DEF IInv, OneHolder
<1>1. ASSUME NEW i \in Instance, NEW e \in Effect, NEW r \in Request, Begin(i, e, r) PROVE HeldIsYoung'
  BY <1>0, <1>1, YoungKept
  DEF Begin, row, Holding, BeforePost, AfterPost, TypeInv, CallTypes, RowTypes
<1>2. ASSUME NEW i \in Instance, Lookup(i) PROVE HeldIsYoung'
  BY <1>0, <1>2, YoungKept
  DEF Lookup, Statement, Goto, End, row, Holding, BeforePost, AfterPost,
      TypeInv, CallTypes, RowTypes
<1>3. ASSUME NEW i \in Instance, Insert(i) PROVE HeldIsYoung'
  BY <1>0, <1>3, <1>h, YoungKept
  DEF Insert, Statement, Goto, SetStatus, row, Holding, BeforePost, AfterPost,
      TypeInv, CallTypes, RowTypes
<1>4. ASSUME NEW i \in Instance, Read(i) PROVE HeldIsYoung'
  BY <1>0, <1>4, YoungKept
  DEF Read, Statement, Goto, End, row, Holding, BeforePost, AfterPost, TypeInv,
      CallTypes, RowTypes
<1>5. ASSUME NEW i \in Instance, RecoverOne(i) PROVE HeldIsYoung'
  BY <1>0, <1>5, <1>h, YoungKept
  DEF RecoverOne, Statement, End, MarkUnknown, SetStatus, row, Holding,
      BeforePost, AfterPost, TypeInv, CallTypes, RowTypes
<1>6. ASSUME NEW i \in Instance, Claim(i) PROVE HeldIsYoung'
  <2>1. CASE ~Claimable(target[i])
    BY <1>0, <1>6, <2>1, YoungKept
    DEF Claim, Statement, Goto, row, Holding, BeforePost, AfterPost, TypeInv,
        CallTypes, RowTypes
  <2>2. CASE Claimable(target[i])
    <3>1. target[i] \in Effect
      BY <1>0, <1>6 DEF Claim, Statement, TypeInv, CallTypes
    <3>2. /\ status' = [status EXCEPT ![target[i]] = "in_flight"]
          /\ age' = [age EXCEPT ![target[i]] = 0]
          /\ UNCHANGED <<target, wait>>
      BY <1>6, <2>2 DEF Claim, SetStatus, Goto
    <3>3. \A j \in Instance \ {i} : pc'[j] = pc[j]
      BY <1>0, <1>6, <2>2 DEF Claim, Goto, TypeInv, CallTypes
    <3>4. \A j \in Instance : pc[j] \in Holding => target[j] # target[i]
      BY <1>h, <2>2 DEF Claimable
    <3>5. wait[i] >= 0
      BY <1>0 DEF TypeInv, CallTypes
    <3> QED
      BY <1>0, <1>h, <3>1, <3>2, <3>3, <3>4, <3>5
      DEF PInv, HeldIsYoung, Live, TypeInv, RowTypes, CallTypes
  <2> QED
    BY <2>1, <2>2
<1>7. ASSUME NEW i \in Instance, Reload(i) PROVE HeldIsYoung'
  BY <1>0, <1>7, YoungKept
  DEF Reload, Statement, End, row, Holding, BeforePost, AfterPost, TypeInv,
      CallTypes, RowTypes
<1>8. ASSUME NEW i \in Instance, Check(i) PROVE HeldIsYoung'
  BY <1>0, <1>8, YoungKept
  DEF Check, Statement, Goto, row, Holding, BeforePost, AfterPost, TypeInv,
      CallTypes, RowTypes
<1>9. ASSUME NEW i \in Instance, Decline(i) PROVE HeldIsYoung'
  BY <1>0, <1>9, <1>h, <1>o, YoungKept
  DEF Decline, FailEffect, Statement, Outcome, SetStatus, End, row, Holding,
      BeforePost, AfterPost, TypeInv, CallTypes, RowTypes
<1>10. ASSUME NEW i \in Instance, Post(i) PROVE HeldIsYoung'
  BY <1>0, <1>10, YoungKept
  DEF Post, Goto, row, Holding, BeforePost, AfterPost, TypeInv, CallTypes,
      RowTypes
<1>11. ASSUME NEW i \in Instance, Receive(i) PROVE HeldIsYoung'
  BY <1>0, <1>11, YoungKept
  DEF Receive, Goto, row, Holding, BeforePost, AfterPost, TypeInv, CallTypes,
      RowTypes
<1>12. ASSUME NEW i \in Instance, Accept(i) PROVE HeldIsYoung'
  BY <1>0, <1>12, <1>h, <1>o, YoungKept
  DEF Accept, Statement, Outcome, SetStatus, End, row, Holding, BeforePost,
      AfterPost, TypeInv, CallTypes, RowTypes
<1>13. ASSUME NEW i \in Instance, Reject(i) PROVE HeldIsYoung'
  BY <1>0, <1>13, <1>h, <1>o, YoungKept
  DEF Reject, FailEffect, Statement, Outcome, SetStatus, End, row, Holding,
      BeforePost, AfterPost, TypeInv, CallTypes, RowTypes
<1>14. ASSUME NEW i \in Instance, Mark(i) PROVE HeldIsYoung'
  BY <1>0, <1>14, <1>h, <1>o, YoungKept
  DEF Mark, MarkUnknown, SetStatus, End, row, Holding, BeforePost, AfterPost,
      TypeInv, CallTypes, RowTypes
<1>15. ASSUME NEW i \in Instance, Drop(i) PROVE HeldIsYoung'
  BY <1>0, <1>15, YoungKept
  DEF Drop, End, row, Holding, BeforePost, AfterPost, TypeInv, CallTypes,
      RowTypes
<1>16. ASSUME NEW i \in Instance, Activate(i) PROVE HeldIsYoung'
  BY <1>0, <1>16, <1>h, YoungKept
  DEF Activate, call, row, Holding, BeforePost, AfterPost, TypeInv, CallTypes,
      RowTypes
<1>17. ASSUME NEW i \in Instance, Deactivate(i) PROVE HeldIsYoung'
  BY <1>0, <1>17, YoungKept
  DEF Deactivate, call, row, Holding, BeforePost, AfterPost, TypeInv, CallTypes,
      RowTypes
<1>18. ASSUME NEW i \in Instance, Crash(i) PROVE HeldIsYoung'
  BY <1>0, <1>18, YoungKept
  DEF Crash, End, row, Holding, BeforePost, AfterPost, TypeInv, CallTypes,
      RowTypes
<1>19. ASSUME NEW d \in Desk, NEW e \in Effect, NEW v \in Verdict, ResolveLoad(d, e, v) PROVE HeldIsYoung'
  BY <1>0, <1>19, YoungKept DEF ResolveLoad, row, call
<1>20. ASSUME NEW d \in Desk, ResolveUpdate(d) PROVE HeldIsYoung'
  <2>1. order[d] \in Effect
    BY <1>0, <1>20 DEF ResolveUpdate, TypeInv, DeskTypes
  <2>2. \A j \in Instance : pc[j] \in Holding =>
          status'[target[j]] = status[target[j]] /\ age'[target[j]] = age[target[j]]
    BY <1>0, <1>h, <1>20, <2>1
   
    DEF ResolveUpdate, Resolvable, Unresolved, Outcome, SetStatus, row, TypeInv,
        RowTypes
  <2> QED
    BY <1>0, <1>20, <2>2, YoungKept DEF ResolveUpdate, call
<1>21. ASSUME NEW d \in Desk, ResolveLost(d) PROVE HeldIsYoung'
  BY <1>0, <1>21, YoungKept DEF ResolveLost, row, call
<1>22. ASSUME NEW e \in Effect, StripeDecides(e) PROVE HeldIsYoung'
  BY <1>0, <1>22, YoungKept DEF StripeDecides, row, call
<1>23. ASSUME NEW s \in Subject, SubjectChanges(s) PROVE HeldIsYoung'
  BY <1>0, <1>23, YoungKept DEF SubjectChanges, row, call
<1>24. ASSUME Tick PROVE HeldIsYoung'
  <2> SUFFICES ASSUME NEW j \in Instance, pc'[j] \in Holding
               PROVE  Live(target[j])' /\ age'[target'[j]] <= wait'[j]
    BY DEF HeldIsYoung
  <2>1. UNCHANGED <<pc, target, status>>
    BY <1>24 DEF Tick
  <2>2. pc[j] = "posted"
    BY <1>24, <2>1 DEF Tick
  <2>3. target[j] \in Effect /\ Live(target[j]) /\ age[target[j]] <= wait[j]
    BY <1>h, <2>1 DEF PInv, HeldIsYoung
  <2>4. wait'[j] = wait[j] + 1 /\ age'[target[j]] <= age[target[j]] + 1
    BY <1>0, <1>24, <2>2, <2>3 DEF Tick, TypeInv, RowTypes
  <2>5. age[target[j]] \in Nat /\ wait[j] \in Nat /\ age'[target[j]] \in Nat
    BY <1>0, <2>3, EffectLedgerAssumption DEF TypeInv, RowTypes, CallTypes
  <2> QED
    BY <2>1, <2>3, <2>4, <2>5 DEF Live
<1>25. ASSUME UNCHANGED vars PROVE HeldIsYoung'
  BY <1>0, <1>25, YoungKept DEF vars, row, call
<1>26. QED
  BY <1>1, <1>2, <1>3, <1>4, <1>5, <1>6, <1>7, <1>8, <1>9, <1>10, <1>11, <1>12, <1>13, <1>14, <1>15, <1>16, <1>17, <1>18, <1>19, <1>20, <1>21, <1>22, <1>23, <1>24, <1>25
  DEF PInv, Next, Invoke, Advance, Operate

\* Whenever invocations spend time on the POST alone, and the window exceeds the
\* HTTP Client's timeout, neither activation nor a retry takes a dispatch away
\* from an invocation that is still at work on it.
THEOREM PromptDispatchIsKept == PromptStore => (Spec => []LiveDispatchKept)
<1> SUFFICES ASSUME PromptStore PROVE Spec => []LiveDispatchKept
  OBVIOUS
<1>1. Init => PInv
  BY IInvInit DEF PInv, Init, HeldIsYoung, Holding, BeforePost, AfterPost
<1>2. PInv /\ [Next]_vars => PInv'
  BY IInvNext, YoungNext DEF PInv
<1>3. PInv => LiveDispatchKept
  BY DEF PInv, HeldIsYoung, LiveDispatchKept
<1> QED
  BY <1>1, <1>2, <1>3, PTL DEF Spec
-----------------------------------------------------------------------------
(* Definite failures.                                                      *)

\* A failure, once in the row, stays: no statement's guard finds such a row.
LEMMA FailureStays ==
  ASSUME TypeInv, [Next]_vars, NEW e \in Effect, status[e] = "known_failure"
  PROVE  status'[e] = "known_failure"
<1>1. ASSUME NEW i \in Instance, Invoke(i) \/ Advance(i) PROVE status'[e] = "known_failure"
  <2>1. CASE Invoke(i) \/ Lookup(i) \/ Read(i) \/ Reload(i) \/ Check(i) \/ Post(i) \/ Receive(i)
    BY <2>1 DEF Invoke, Begin, Lookup, Read, Reload, Check, Post, Receive, row
  <2>2. CASE Insert(i) \/ Claim(i)
    BY <2>2 DEF Insert, Claim, Claimable, SetStatus, row, TypeInv, RowTypes
  <2>3. CASE RecoverOne(i) \/ Mark(i)
    BY <2>3 DEF RecoverOne, Mark, Overdue, Live, MarkUnknown, SetStatus, row, TypeInv, RowTypes
  <2>4. CASE Decline(i) \/ Reject(i) \/ Accept(i)
    BY <2>4
    DEF Decline, Reject, Accept, FailEffect, Live, Outcome, SetStatus, row, TypeInv, RowTypes
  <2> QED
    BY <1>1, <2>1, <2>2, <2>3, <2>4 DEF Advance
<1>2. ASSUME NEW i \in Instance, Drop(i) \/ Activate(i) \/ Deactivate(i) \/ Crash(i)
      PROVE  status'[e] = "known_failure"
  BY <1>2 DEF Drop, Activate, Overdue, Deactivate, Crash, row
<1>3. ASSUME NEW d \in Desk, Operate(d) PROVE status'[e] = "known_failure"
  BY <1>3 DEF Operate, ResolveLoad, ResolveUpdate, Resolvable, Unresolved, ResolveLost,
              Outcome, SetStatus, row, TypeInv, RowTypes
<1>4. ASSUME \/ \E f \in Effect : StripeDecides(f)
             \/ \E s \in Subject : SubjectChanges(s)
             \/ Tick \/ UNCHANGED vars
      PROVE  status'[e] = "known_failure"
  BY <1>4 DEF StripeDecides, SubjectChanges, Tick, row, vars
<1> QED
  BY <1>1, <1>2, <1>3, <1>4 DEF Next

\* A caller is told of a failure that the row holds, or by an invocation that
\* fails its effect.
LEMMA ToldFailure ==
  ASSUME TypeInv, LiveDispatchKept, [Next]_vars,
         NEW e \in Effect, "failed" \in told'[e], "failed" \notin told[e]
  PROVE  status'[e] = "known_failure"
<1>1. PICK i \in Instance :
        Read(i) \/ Reload(i) \/ Accept(i) \/ Decline(i) \/ Reject(i)
  <2>1. ASSUME NEW i \in Instance,
               \/ Invoke(i) \/ Lookup(i) \/ Insert(i) \/ RecoverOne(i) \/ Claim(i) \/ Check(i)
               \/ Post(i) \/ Receive(i) \/ Mark(i) \/ Drop(i) \/ Activate(i)
               \/ Deactivate(i) \/ Crash(i)
        PROVE  UNCHANGED told
    BY <2>1 DEF Invoke, Begin, Lookup, Insert, RecoverOne, Claim, Check, Post, Receive, Mark,
                Drop, Activate, Deactivate, Crash, ghost
  <2>2. ASSUME \/ \E d \in Desk : Operate(d)
               \/ \E f \in Effect : StripeDecides(f)
               \/ \E s \in Subject : SubjectChanges(s)
               \/ Tick \/ UNCHANGED vars
        PROVE  UNCHANGED told
    BY <2>2 DEF Operate, ResolveLoad, ResolveUpdate, ResolveLost, StripeDecides,
                SubjectChanges, Tick, ghost, vars
  <2> QED
    BY <2>1, <2>2 DEF Next, Advance
<1>2. target[i] = e
  BY <1>1 DEF Read, Reload, Accept, Decline, Reject, FailEffect, Tell, TypeInv, RestTypes
<1>3. CASE Read(i) \/ Reload(i)
  <2>1. "failed" \in Stored(e) /\ UNCHANGED status
    BY <1>2, <1>3 DEF Read, Reload, Tell, TypeInv, RestTypes, row
  <2> QED
    BY <2>1, EffectLedgerAssumption DEF Stored, TypeInv, RowTypes
<1>4. CASE Accept(i)
  <2>1. "failed" \in ReceiptTold(e)
    BY <1>2, <1>4 DEF Accept, Tell, TypeInv, RestTypes
  <2> QED
    BY <2>1, EffectLedgerAssumption DEF ReceiptTold
<1>5. CASE Decline(i) \/ Reject(i)
  <2>1. pc[i] \in Holding
    BY <1>5 DEF Decline, Reject, Statement, Holding, BeforePost, AfterPost
  <2>2. Live(e)
    BY <1>2, <2>1 DEF LiveDispatchKept
  <2> QED
    BY <1>2, <1>5, <2>2 DEF Decline, Reject, FailEffect, Outcome, SetStatus, TypeInv, RowTypes
<1> QED
  BY <1>1, <1>3, <1>4, <1>5

\* A definite failure is told of a row that holds one for good, as long as no
\* invocation at work on a row finds it taken away: that is all it takes, and
\* fail_effect's callers rely on it without looking.  (fail_effect.)
THEOREM FailureIsDurable == Spec /\ []LiveDispatchKept => []DefiniteFailureIsDurable
<1>1. Init => DefiniteFailureIsDurable
  BY DEF Init, DefiniteFailureIsDurable
<1>2. /\ IInv /\ LiveDispatchKept /\ DefiniteFailureIsDurable
      /\ [Next]_vars
      => DefiniteFailureIsDurable'
  BY FailureStays, ToldFailure DEF IInv, DefiniteFailureIsDurable
<1> QED
  BY <1>1, <1>2, Inductive, PTL DEF Spec

\* So whenever the store is prompt the documented promise holds.
THEOREM PromptFailureIsDurable == PromptStore => (Spec => []DefiniteFailureIsDurable)
  BY FailureIsDurable, PromptDispatchIsKept, PTL
=============================================================================
