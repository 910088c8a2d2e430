------------------------- MODULE EffectLedgerProofs -------------------------
(***************************************************************************)
(* Machine-checked proofs about EffectLedger, for every set of instances,  *)
(* desks, effects and requests and every uncertainty window.               *)
(***************************************************************************)
EXTENDS EffectLedger, TLAPS

-----------------------------------------------------------------------------
(* Types, by group of variables: an action disturbs few of the groups.     *)

RowTypes ==
    /\ status \in [Effect -> Status]
    /\ fingerprint \in [Effect -> Request \cup {None}]
    /\ receipt \in [Effect -> Receipt \cup {None}]
    /\ code \in [Effect -> Code \cup {None}]
    /\ age \in [Effect -> 0 .. Uncertainty]
    /\ \A e \in Effect : status[e] = "accepted" => receipt[e] \in Receipt

CallTypes ==
    /\ pc \in [Instance -> Step]
    /\ target \in [Instance -> Effect \cup {None}]
    /\ request \in [Instance -> Request \cup {None}]
    /\ inserted \in [Instance -> BOOLEAN]
    /\ wait \in [Instance -> 0 .. HttpTimeout]
    /\ \A i \in Instance : pc[i] # "idle" => target[i] \in Effect /\ request[i] \in Request

DeskTypes ==
    /\ deskPc \in [Desk -> {"idle", "update"}]
    /\ order \in [Desk -> Effect \cup {None}]
    /\ verdict \in [Desk -> Verdict \cup {None}]
    /\ \A d \in Desk : deskPc[d] = "update" => order[d] \in Effect /\ verdict[d] \in Verdict

RestTypes ==
    /\ up \in [Instance -> BOOLEAN]
    /\ stripe \in [Effect -> {"none", "wire", "created", "refused"}]
    /\ subject \in [Subject -> {"absent", "inactive", "active"}]
    /\ posts \in [Effect -> Nat]
    /\ manual \in SUBSET Effect
    /\ told \in [Effect -> SUBSET (Receipt \cup {"failed"})]
    /\ acked \in [Effect -> SUBSET Verdict]

TypeInv == RowTypes /\ CallTypes /\ DeskTypes /\ RestTypes

LEMMA TypeInvTypes == TypeInv => TypeOK
  BY DEF TypeInv, RowTypes, CallTypes, DeskTypes, RestTypes, TypeOK

LEMMA TypeInit == Init => TypeInv
  BY EffectLedgerAssumption
  DEF Init, TypeInv, RowTypes, CallTypes, DeskTypes, RestTypes, Status, Step

(* The building blocks of the actions.                                     *)

LEMMA GotoTypes ==
  ASSUME CallTypes, NEW i \in Instance, pc[i] # "idle",
         NEW s \in Step, Goto(i, s), UNCHANGED <<inserted, wait>>
  PROVE  CallTypes'
  BY DEF CallTypes, Goto

LEMMA EndTypes ==
  ASSUME CallTypes, NEW i \in Instance, End(i)
  PROVE  CallTypes'
  BY EffectLedgerAssumption DEF CallTypes, End, Step

LEMMA SetStatusTypes ==
  ASSUME RowTypes, NEW e \in Effect, NEW s \in Status \ {"accepted"}, SetStatus(e, s),
         UNCHANGED <<receipt, code>>,
         UNCHANGED fingerprint \/ \E r \in Request : fingerprint' = [fingerprint EXCEPT ![e] = r]
  PROVE  RowTypes'
  BY EffectLedgerAssumption DEF RowTypes, SetStatus

LEMMA OutcomeTypes ==
  ASSUME RowTypes, NEW e \in Effect, NEW s \in Status, NEW r \in Receipt \cup {None},
         NEW c \in Code \cup {None}, Outcome(e, s, r, c), s = "accepted" => r \in Receipt
  PROVE  RowTypes'
  BY EffectLedgerAssumption DEF RowTypes, Outcome, SetStatus

LEMMA TellTypes ==
  ASSUME RestTypes, NEW e \in Effect, NEW a \in SUBSET (Receipt \cup {"failed"}), Tell(e, a)
  PROVE  told' \in [Effect -> SUBSET (Receipt \cup {"failed"})]
  BY DEF RestTypes, Tell

LEMMA StoredTypes ==
  ASSUME RowTypes, NEW e \in Effect
  PROVE  Stored(e) \in SUBSET (Receipt \cup {"failed"})
  BY DEF RowTypes, Stored

LEMMA MarkUnknownTypes ==
  ASSUME RowTypes, NEW e \in Effect, MarkUnknown(e)
  PROVE  RowTypes'
  BY SetStatusTypes DEF MarkUnknown, Status

LEMMA RowKept == RowTypes /\ UNCHANGED row => RowTypes'
  BY DEF RowTypes, row

LEMMA CallKept == CallTypes /\ UNCHANGED call => CallTypes'
  BY DEF CallTypes, call

LEMMA DeskKept == DeskTypes /\ UNCHANGED desk => DeskTypes'
  BY DEF DeskTypes, desk

LEMMA RestKept == RestTypes /\ UNCHANGED <<up, stripe, subject, ghost>> => RestTypes'
  BY DEF RestTypes, ghost

(* The actions.                                                            *)

LEMMA TypeNext == TypeInv /\ [Next]_vars => TypeInv'
<1> SUFFICES ASSUME TypeInv, [Next]_vars PROVE TypeInv'
  OBVIOUS
<1> USE DEF TypeInv
<1>1. ASSUME NEW i \in Instance, NEW e \in Effect, NEW r \in Request, Begin(i, e, r)
      PROVE  TypeInv'
  <2>1. RowTypes'
    BY <1>1, RowKept DEF Begin
  <2>2. CallTypes'
    BY <1>1 DEF CallTypes, Step, Begin
  <2>3. DeskTypes'
    BY <1>1, DeskKept DEF Begin
  <2>4. RestTypes'
    BY <1>1, RestKept DEF Begin, ghost
  <2> QED
    BY <2>1, <2>2, <2>3, <2>4
<1>2. ASSUME NEW i \in Instance, Lookup(i)
      PROVE  TypeInv'
  <2>1. RowTypes'
    BY <1>2, RowKept DEF Lookup
  <2>2. CallTypes'
    BY <1>2, EndTypes, GotoTypes DEF Step, Lookup, Statement
  <2>3. DeskTypes'
    BY <1>2, DeskKept DEF Lookup
  <2>4. RestTypes'
    BY <1>2, RestKept DEF Lookup, ghost
  <2> QED
    BY <2>1, <2>2, <2>3, <2>4
<1>3. ASSUME NEW i \in Instance, Insert(i)
      PROVE  TypeInv'
  <2>1. RowTypes'
    BY <1>3, SetStatusTypes DEF RowTypes, CallTypes, Status, row, Insert, Statement
  <2>2. CallTypes'
    BY <1>3 DEF CallTypes, Goto, Step, Insert, Statement
  <2>3. DeskTypes'
    BY <1>3, DeskKept DEF Insert
  <2>4. RestTypes'
    BY <1>3, RestKept DEF Insert, ghost
  <2> QED
    BY <2>1, <2>2, <2>3, <2>4
<1>4. ASSUME NEW i \in Instance, Read(i)
      PROVE  TypeInv'
  <2>1. RowTypes'
    BY <1>4, RowKept DEF Read
  <2>2. CallTypes'
    BY <1>4, EndTypes, GotoTypes DEF Step, Read, Statement
  <2>3. DeskTypes'
    BY <1>4, DeskKept DEF Read
  <2>4. RestTypes'
    BY <1>4, TellTypes, StoredTypes DEF CallTypes, RestTypes, Read, Statement
  <2> QED
    BY <2>1, <2>2, <2>3, <2>4
<1>5. ASSUME NEW i \in Instance, RecoverOne(i)
      PROVE  TypeInv'
  <2>1. RowTypes'
    BY <1>5, MarkUnknownTypes, RowKept DEF CallTypes, RecoverOne, Statement
  <2>2. CallTypes'
    BY <1>5, EndTypes DEF RecoverOne, Statement
  <2>3. DeskTypes'
    BY <1>5, DeskKept DEF RecoverOne
  <2>4. RestTypes'
    BY <1>5, RestKept DEF RecoverOne, ghost
  <2> QED
    BY <2>1, <2>2, <2>3, <2>4
<1>6. ASSUME NEW i \in Instance, Claim(i)
      PROVE  TypeInv'
  <2>1. RowTypes'
    BY <1>6, SetStatusTypes, RowKept DEF CallTypes, Status, Claim, Statement
  <2>2. CallTypes'
    BY <1>6, GotoTypes DEF Step, Holding, BeforePost, Claim, Statement
  <2>3. DeskTypes'
    BY <1>6, DeskKept DEF Claim
  <2>4. RestTypes'
    BY <1>6, RestKept DEF Claim, ghost
  <2> QED
    BY <2>1, <2>2, <2>3, <2>4
<1>7. ASSUME NEW i \in Instance, Reload(i)
      PROVE  TypeInv'
  <2>1. RowTypes'
    BY <1>7, RowKept DEF Reload
  <2>2. CallTypes'
    BY <1>7, EndTypes DEF Reload, Statement
  <2>3. DeskTypes'
    BY <1>7, DeskKept DEF Reload
  <2>4. RestTypes'
    BY <1>7, TellTypes, StoredTypes DEF CallTypes, RestTypes, Reload, Statement
  <2> QED
    BY <2>1, <2>2, <2>3, <2>4
<1>8. ASSUME NEW i \in Instance, Check(i)
      PROVE  TypeInv'
  <2>1. RowTypes'
    BY <1>8, RowKept DEF Check
  <2>2. CallTypes'
    BY <1>8, GotoTypes DEF Step, Holding, BeforePost, Check, Statement
  <2>3. DeskTypes'
    BY <1>8, DeskKept DEF Check
  <2>4. RestTypes'
    BY <1>8, RestKept DEF Check, ghost
  <2> QED
    BY <2>1, <2>2, <2>3, <2>4
<1>9. ASSUME NEW i \in Instance, Decline(i)
      PROVE  TypeInv'
  <2>1. RowTypes'
    BY <1>9, OutcomeTypes, RowKept, EffectLedgerAssumption
    DEF CallTypes, RowTypes, Status, Decline, Statement, FailEffect
  <2>2. CallTypes'
    BY <1>9, EndTypes DEF Decline, Statement, FailEffect
  <2>3. DeskTypes'
    BY <1>9, DeskKept DEF Decline
  <2>4. RestTypes'
    BY <1>9, TellTypes DEF CallTypes, RestTypes, Decline, Statement, FailEffect
  <2> QED
    BY <2>1, <2>2, <2>3, <2>4
<1>10. ASSUME NEW i \in Instance, Post(i)
      PROVE  TypeInv'
  <2>1. RowTypes'
    BY <1>10, RowKept DEF Post
  <2>2. CallTypes'
    BY <1>10, GotoTypes DEF Step, Holding, AfterPost, Post
  <2>3. DeskTypes'
    BY <1>10, DeskKept DEF Post
  <2>4. RestTypes'
    BY <1>10 DEF RestTypes, CallTypes, Post
  <2> QED
    BY <2>1, <2>2, <2>3, <2>4
<1>11. ASSUME NEW i \in Instance, Receive(i)
      PROVE  TypeInv'
  <2>1. RowTypes'
    BY <1>11, RowKept DEF Receive
  <2>2. CallTypes'
    BY <1>11, GotoTypes DEF Step, Holding, AfterPost, Receive
  <2>3. DeskTypes'
    BY <1>11, DeskKept DEF Receive
  <2>4. RestTypes'
    BY <1>11, RestKept DEF Receive, ghost
  <2> QED
    BY <2>1, <2>2, <2>3, <2>4
<1>12. ASSUME NEW i \in Instance, Accept(i)
      PROVE  TypeInv'
  <2>1. RowTypes'
    BY <1>12, OutcomeTypes, RowKept, EffectLedgerAssumption
    DEF CallTypes, RowTypes, Status, Accept, Statement
  <2>2. CallTypes'
    BY <1>12, EndTypes DEF Accept, Statement
  <2>3. DeskTypes'
    BY <1>12, DeskKept DEF Accept
  <2>4. RestTypes'
    BY <1>12, TellTypes, EffectLedgerAssumption
    DEF CallTypes, RestTypes, ReceiptTold, Accept, Statement
  <2> QED
    BY <2>1, <2>2, <2>3, <2>4
<1>13. ASSUME NEW i \in Instance, Reject(i)
      PROVE  TypeInv'
  <2>1. RowTypes'
    BY <1>13, OutcomeTypes, RowKept, EffectLedgerAssumption
    DEF CallTypes, RowTypes, Status, Reject, Statement, FailEffect
  <2>2. CallTypes'
    BY <1>13, EndTypes DEF Reject, Statement, FailEffect
  <2>3. DeskTypes'
    BY <1>13, DeskKept DEF Reject
  <2>4. RestTypes'
    BY <1>13, TellTypes DEF CallTypes, RestTypes, Reject, Statement, FailEffect
  <2> QED
    BY <2>1, <2>2, <2>3, <2>4
<1>14. ASSUME NEW i \in Instance, Mark(i)
      PROVE  TypeInv'
  <2>1. RowTypes'
    BY <1>14, MarkUnknownTypes, RowKept DEF CallTypes, Mark
  <2>2. CallTypes'
    BY <1>14, EndTypes DEF Mark
  <2>3. DeskTypes'
    BY <1>14, DeskKept DEF Mark
  <2>4. RestTypes'
    BY <1>14, RestKept DEF Mark, ghost
  <2> QED
    BY <2>1, <2>2, <2>3, <2>4
<1>15. ASSUME NEW i \in Instance, Drop(i)
      PROVE  TypeInv'
  <2>1. RowTypes'
    BY <1>15, RowKept DEF Drop
  <2>2. CallTypes'
    BY <1>15, EndTypes DEF Drop
  <2>3. DeskTypes'
    BY <1>15, DeskKept DEF Drop
  <2>4. RestTypes'
    BY <1>15, RestKept DEF Drop, ghost
  <2> QED
    BY <2>1, <2>2, <2>3, <2>4
<1>16. ASSUME NEW i \in Instance, Activate(i)
      PROVE  TypeInv'
  <2>1. RowTypes'
    BY <1>16, EffectLedgerAssumption DEF RowTypes, Status, Activate
  <2>2. CallTypes'
    BY <1>16, CallKept DEF Activate
  <2>3. DeskTypes'
    BY <1>16, DeskKept DEF Activate
  <2>4. RestTypes'
    BY <1>16 DEF RestTypes, ghost, Activate
  <2> QED
    BY <2>1, <2>2, <2>3, <2>4
<1>17. ASSUME NEW i \in Instance, Deactivate(i)
      PROVE  TypeInv'
  <2>1. RowTypes'
    BY <1>17, RowKept DEF Deactivate
  <2>2. CallTypes'
    BY <1>17, CallKept DEF Deactivate
  <2>3. DeskTypes'
    BY <1>17, DeskKept DEF Deactivate
  <2>4. RestTypes'
    BY <1>17 DEF RestTypes, ghost, Deactivate
  <2> QED
    BY <2>1, <2>2, <2>3, <2>4
<1>18. ASSUME NEW i \in Instance, Crash(i)
      PROVE  TypeInv'
  <2>1. RowTypes'
    BY <1>18, RowKept DEF Crash
  <2>2. CallTypes'
    BY <1>18, EndTypes DEF Crash
  <2>3. DeskTypes'
    BY <1>18, DeskKept DEF Crash
  <2>4. RestTypes'
    BY <1>18 DEF RestTypes, ghost, Crash
  <2> QED
    BY <2>1, <2>2, <2>3, <2>4
<1>19. ASSUME NEW d \in Desk, NEW e \in Effect, NEW v \in Verdict, ResolveLoad(d, e, v)
      PROVE  TypeInv'
  <2>1. RowTypes'
    BY <1>19, RowKept DEF ResolveLoad
  <2>2. CallTypes'
    BY <1>19, CallKept DEF ResolveLoad
  <2>3. DeskTypes'
    BY <1>19 DEF DeskTypes, desk, ResolveLoad
  <2>4. RestTypes'
    BY <1>19 DEF RestTypes, ResolveLoad
  <2> QED
    BY <2>1, <2>2, <2>3, <2>4
<1>20. ASSUME NEW d \in Desk, ResolveUpdate(d)
      PROVE  TypeInv'
  <2>1. RowTypes'
    <3>1. order[d] \in Effect /\ verdict[d] \in Verdict
      BY <1>20 DEF DeskTypes, ResolveUpdate
    <3>2. /\ verdict[d].status \in Status
          /\ verdict[d].receipt \in Receipt \cup {None}
          /\ verdict[d].code \in Code \cup {None}
          /\ verdict[d].status = "accepted" => verdict[d].receipt \in Receipt
      BY <3>1 DEF Verdict, Status
    <3>3. CASE Resolvable(order[d])
      BY <1>20, <3>1, <3>2, <3>3, OutcomeTypes DEF ResolveUpdate
    <3>4. CASE ~Resolvable(order[d])
      BY <1>20, <3>4, RowKept DEF ResolveUpdate
    <3> QED
      BY <3>3, <3>4
  <2>2. CallTypes'
    BY <1>20, CallKept DEF ResolveUpdate
  <2>3. DeskTypes'
    BY <1>20, EffectLedgerAssumption DEF DeskTypes, LeaveDesk, ResolveUpdate
  <2>4. RestTypes'
    BY <1>20 DEF RestTypes, DeskTypes, ResolveUpdate
  <2> QED
    BY <2>1, <2>2, <2>3, <2>4
<1>21. ASSUME NEW d \in Desk, ResolveLost(d)
      PROVE  TypeInv'
  <2>1. RowTypes'
    BY <1>21, RowKept DEF ResolveLost
  <2>2. CallTypes'
    BY <1>21, CallKept DEF ResolveLost
  <2>3. DeskTypes'
    BY <1>21 DEF DeskTypes, LeaveDesk, ResolveLost
  <2>4. RestTypes'
    BY <1>21, RestKept DEF ResolveLost, ghost
  <2> QED
    BY <2>1, <2>2, <2>3, <2>4
<1>22. ASSUME NEW e \in Effect, StripeDecides(e)
      PROVE  TypeInv'
  <2>1. RowTypes'
    BY <1>22, RowKept DEF StripeDecides
  <2>2. CallTypes'
    BY <1>22, CallKept DEF StripeDecides
  <2>3. DeskTypes'
    BY <1>22, DeskKept DEF StripeDecides
  <2>4. RestTypes'
    BY <1>22 DEF RestTypes, ghost, StripeDecides
  <2> QED
    BY <2>1, <2>2, <2>3, <2>4
<1>23. ASSUME NEW s \in Subject, SubjectChanges(s)
      PROVE  TypeInv'
  <2>1. RowTypes'
    BY <1>23, RowKept DEF SubjectChanges
  <2>2. CallTypes'
    BY <1>23, CallKept DEF SubjectChanges
  <2>3. DeskTypes'
    BY <1>23, DeskKept DEF SubjectChanges
  <2>4. RestTypes'
    BY <1>23 DEF RestTypes, ghost, SubjectChanges
  <2> QED
    BY <2>1, <2>2, <2>3, <2>4
<1>24. ASSUME Tick
      PROVE  TypeInv'
  <2>1. RowTypes'
    BY <1>24, EffectLedgerAssumption DEF RowTypes, Tick
  <2>2. CallTypes'
    BY <1>24, EffectLedgerAssumption DEF CallTypes, Tick
  <2>3. DeskTypes'
    BY <1>24, DeskKept DEF Tick
  <2>4. RestTypes'
    BY <1>24, RestKept DEF Tick, ghost
  <2> QED
    BY <2>1, <2>2, <2>3, <2>4
<1>25. ASSUME UNCHANGED vars
      PROVE  TypeInv'
  <2>1. RowTypes'
    BY <1>25, RowKept DEF vars
  <2>2. CallTypes'
    BY <1>25, CallKept DEF vars
  <2>3. DeskTypes'
    BY <1>25, DeskKept DEF vars
  <2>4. RestTypes'
    BY <1>25, RestKept DEF vars, ghost
  <2> QED
    BY <2>1, <2>2, <2>3, <2>4
<1>26. QED
  BY <1>1, <1>2, <1>3, <1>4, <1>5, <1>6, <1>7, <1>8, <1>9, <1>10, <1>11, <1>12, <1>13, <1>14, <1>15, <1>16, <1>17, <1>18, <1>19, <1>20, <1>21, <1>22, <1>23, <1>24, <1>25
  DEF Next, Invoke, Advance, Operate

\* Every variable stays in its type.
THEOREM TypeCorrect == Spec => []TypeOK
  BY TypeInit, TypeNext, TypeInvTypes, PTL DEF Spec

-----------------------------------------------------------------------------
(* The inductive invariant: what the rows say, and what is true of the     *)
(* invocation that holds the dispatch of a row.                            *)

\* What the row's columns, the ghosts and Stripe have to do with each other.
RowShape ==
    \A e \in Effect :
        /\ status[e] = "absent" => fingerprint[e] = None
        /\ receipt[e] # None => status[e] = "accepted"
        /\ posts[e] > 0 => status[e] \notin {"absent", "prepared"}
        /\ posts[e] = 0 => stripe[e] = "none"
        /\ e \in manual => status[e] \in Settled

LedgerInv ==
    /\ RowShape
    /\ AtMostOneDispatch
    /\ PluginVerdictSound
    /\ AcceptedAnswerIsDurable
    /\ AcknowledgedVerdictStands

\* At most one invocation holds the dispatch of an effect.
OneHolder ==
    \A i, j \in Instance :
        pc[i] \in Holding /\ pc[j] \in Holding /\ target[i] = target[j] => i = j

HolderShape ==
    \A i \in Instance :
        /\ pc[i] \in Holding =>
              /\ status[target[i]] \notin {"absent", "prepared"}
              /\ status[target[i]] \in Settled => target[i] \in manual
        /\ pc[i] \in Holding \cup {"claim"} => fingerprint[target[i]] = request[i]
        /\ pc[i] \in BeforePost => posts[target[i]] = 0
        /\ pc[i] \in AfterPost => posts[target[i]] > 0
        /\ pc[i] = "accept" => stripe[target[i]] = "created"
        /\ pc[i] = "reject" => stripe[target[i]] = "refused"

IInv == TypeInv /\ LedgerInv /\ OneHolder /\ HolderShape

LEMMA IInvInit == Init => IInv
<1> SUFFICES ASSUME Init PROVE IInv
  OBVIOUS
<1>1. TypeInv
  BY TypeInit
<1>2. LedgerInv
  BY DEF Init, LedgerInv, RowShape, AtMostOneDispatch, PluginVerdictSound,
         AcceptedAnswerIsDurable, AcknowledgedVerdictStands
<1>3. OneHolder /\ HolderShape
  BY DEF Init, OneHolder, HolderShape, Holding, BeforePost, AfterPost
<1> QED
  BY <1>1, <1>2, <1>3 DEF IInv

(* What depends only on variables a step leaves alone.                     *)

LEMMA LedgerKept == LedgerInv /\ UNCHANGED <<row, stripe, ghost>> => LedgerInv'
  BY DEF LedgerInv, RowShape, AtMostOneDispatch, PluginVerdictSound,
         AcceptedAnswerIsDurable, AcknowledgedVerdictStands, row, ghost

\* The invocations that hold a row, or are about to claim one, either go on as
\* they were or leave; the rows they hold move only as others may move them.
HolderFrame ==
    /\ \A j \in Instance : pc'[j] \in Holding \cup {"claim"} =>
          pc'[j] = pc[j] /\ target'[j] = target[j] /\ request'[j] = request[j]
    /\ \A e \in Effect : fingerprint[e] = None \/ fingerprint'[e] = fingerprint[e]
    /\ \A j \in Instance : pc'[j] \in Holding =>
          LET e == target[j] IN
          /\ posts'[e] = posts[e]
          /\ stripe'[e] = stripe[e] \/ stripe[e] = "wire"
          /\ e \in manual => e \in manual'
          /\ \/ status'[e] = status[e]
             \/ status'[e] = "effect_unknown"
             \/ status'[e] \in Settled /\ e \in manual'

LEMMA HolderKept == IInv /\ HolderFrame => OneHolder' /\ HolderShape'
<1> SUFFICES ASSUME IInv, HolderFrame PROVE OneHolder' /\ HolderShape'
  OBVIOUS
<1>1. OneHolder'
  BY DEF IInv, HolderFrame, OneHolder
<1>2. ASSUME NEW i \in Instance, pc'[i] \in Holding \cup {"claim"}
      PROVE  target[i] \in Effect /\ request[i] # None /\ fingerprint[target[i]] # None
  BY <1>2, EffectLedgerAssumption
  DEF IInv, HolderFrame, HolderShape, TypeInv, CallTypes, Holding, BeforePost, AfterPost
<1>3. HolderShape'
  BY <1>2, EffectLedgerAssumption
  DEF IInv, HolderFrame, HolderShape, Holding, BeforePost, AfterPost, Settled
<1> QED
  BY <1>1, <1>3

\* LedgerInv, one effect at a time.
EffectOK(e) ==
    /\ status[e] = "absent" => fingerprint[e] = None
    /\ receipt[e] # None => status[e] = "accepted"
    /\ posts[e] > 0 => status[e] \notin {"absent", "prepared"}
    /\ posts[e] = 0 => stripe[e] = "none"
    /\ e \in manual => status[e] \in Settled
    /\ posts[e] <= 1
    /\ e \notin manual =>
          /\ status[e] = "accepted" => stripe[e] = "created" /\ receipt[e] = Issued[e]
          /\ status[e] = "known_failure" => stripe[e] \in {"none", "refused"}
    /\ \A r \in told[e] \cap Receipt : status[e] = "accepted" /\ receipt[e] = r
    /\ \A v \in acked[e] :
          status[e] = v.status /\ receipt[e] = v.receipt /\ code[e] = v.code

LEMMA LedgerByEffect ==
  /\ LedgerInv => \A e \in Effect : EffectOK(e)
  /\ (\A e \in Effect : EffectOK(e)') => LedgerInv'
  BY DEF LedgerInv, RowShape, AtMostOneDispatch, PluginVerdictSound,
         AcceptedAnswerIsDurable, AcknowledgedVerdictStands, EffectOK

\* The columns, ghosts and session of effect e.
About(e) == <<status[e], fingerprint[e], receipt[e], code[e], posts[e], stripe[e],
              told[e], acked[e], e \in manual>>

LEMMA EffectKept ==
  ASSUME NEW e \in Effect, EffectOK(e), UNCHANGED About(e)
  PROVE  EffectOK(e)'
  BY DEF EffectOK, About

\* Nobody has been promised anything about a row that is not settled.
LEMMA NothingPromised ==
  ASSUME TypeInv, NEW e \in Effect, EffectOK(e), status[e] \notin Settled
  PROVE  /\ told[e] \cap Receipt = {}
         /\ acked[e] = {}
         /\ receipt[e] = None
         /\ e \notin manual
<1>1. acked[e] \subseteq Verdict
  BY DEF TypeInv, RestTypes
<1>2. \A v \in Verdict : v.status \in Settled
  BY DEF Verdict, Settled
<1> QED
  BY <1>1, <1>2 DEF EffectOK, Settled

\* The moves of a row, as the statements make them.
LEMMA MovesOn ==
  ASSUME TypeInv, NEW e \in Effect, EffectOK(e), status[e] \notin Settled,
         status'[e] \notin Settled \cup {"absent"},
         posts[e] > 0 => status'[e] # "prepared",
         UNCHANGED <<receipt[e], code[e], posts[e], stripe[e], told[e], acked[e], e \in manual>>
  PROVE  EffectOK(e)'
  BY NothingPromised DEF EffectOK, Settled

LEMMA SettledByPlugin ==
  ASSUME TypeInv, NEW e \in Effect, EffectOK(e), status[e] \notin Settled,
         \/ status'[e] = "accepted" /\ receipt'[e] = Issued[e] /\ stripe[e] = "created"
         \/ /\ status'[e] = "known_failure" /\ receipt'[e] = None
            /\ stripe[e] \in {"none", "refused"},
         \A r \in told'[e] \cap Receipt : status'[e] = "accepted" /\ r = receipt'[e],
         UNCHANGED <<posts[e], stripe[e], acked[e], e \in manual>>
  PROVE  EffectOK(e)'
  BY NothingPromised, EffectLedgerAssumption DEF EffectOK, Settled

\* An answer about a settled row that is read from the row changes nothing.
LEMMA Retold ==
  ASSUME NEW e \in Effect, EffectOK(e), told'[e] = told[e] \cup Stored(e),
         UNCHANGED <<status[e], fingerprint[e], receipt[e], code[e], posts[e], stripe[e],
                     acked[e], e \in manual>>
  PROVE  EffectOK(e)'
  BY EffectLedgerAssumption DEF EffectOK, Stored

\* fail_effect, by the holder of a row without a session at Stripe.
LEMMA FailSettles ==
  ASSUME TypeInv, NEW i \in Instance, NEW c \in Code, FailEffect(i, c),
         NEW e \in Effect, e = target[i], EffectOK(e),
         stripe[e] \in {"none", "refused"}, UNCHANGED <<stripe, posts, manual, acked>>
  PROVE  EffectOK(e)'
<1>1. told'[e] \cap Receipt = told[e] \cap Receipt
  BY EffectLedgerAssumption DEF FailEffect, Tell, TypeInv, RestTypes
<1>2. CASE Live(e)
  <2>1. /\ status[e] \notin Settled /\ status'[e] = "known_failure"
        /\ receipt'[e] = receipt[e]
    BY <1>2 DEF FailEffect, Live, Outcome, SetStatus, Settled, TypeInv, RowTypes
  <2> QED
    BY <1>1, <2>1, NothingPromised, SettledByPlugin
<1>3. CASE ~Live(e)
  <2>1. UNCHANGED row
    BY <1>3 DEF FailEffect
  <2> QED
    BY <1>1, <2>1 DEF EffectOK, row
<1> QED
  BY <1>2, <1>3

(* The actions.                                                            *)

LEMMA IInvNext == IInv /\ [Next]_vars => IInv'
<1> SUFFICES ASSUME IInv, [Next]_vars PROVE IInv'
  OBVIOUS
<1>0. TypeInv'
  BY TypeNext DEF IInv
<1> USE DEF IInv
<1>1. ASSUME NEW i \in Instance, NEW e \in Effect, NEW r \in Request, Begin(i, e, r)
      PROVE  IInv'
  <2>1. LedgerInv'
    BY <1>1, LedgerKept DEF Begin, ghost
  <2>2. OneHolder' /\ HolderShape'
    BY <1>1, HolderKept
    DEF HolderFrame, Begin, row, call, ghost, Holding, BeforePost, AfterPost,
        TypeInv, CallTypes, RowTypes
  <2> QED
    BY <1>0, <2>1, <2>2
<1>2. ASSUME NEW i \in Instance, Lookup(i)
      PROVE  IInv'
  <2>1. LedgerInv'
    BY <1>2, LedgerKept DEF Lookup, ghost
  <2>2. OneHolder' /\ HolderShape'
    BY <1>2, HolderKept
    DEF HolderFrame, Lookup, Statement, End, Goto, row, call, ghost, Holding,
        BeforePost, AfterPost, TypeInv, CallTypes, RowTypes
  <2> QED
    BY <1>0, <2>1, <2>2
<1>3. ASSUME NEW i \in Instance, Insert(i)
      PROVE  IInv'
  <2>1. LedgerInv'
    <3> SUFFICES ASSUME NEW f \in Effect, EffectOK(f) PROVE EffectOK(f)'
      BY LedgerByEffect
    <3>1. CASE f # target[i]
      BY <1>3, <3>1, EffectKept
      DEF About, Insert, Statement, SetStatus, TypeInv, RowTypes, row, ghost
    <3>2. CASE f = target[i]
      BY <1>3, <3>2, MovesOn, EffectKept
      DEF About, Insert, Statement, SetStatus, Settled, EffectOK, row, ghost,
          TypeInv, RowTypes, CallTypes, RestTypes
    <3> QED
      BY <3>1, <3>2
  <2>2. OneHolder' /\ HolderShape'
    BY <1>3, HolderKept
    DEF HolderFrame, Insert, Statement, Goto, SetStatus, OneHolder, HolderShape,
        LedgerInv, RowShape, row, call, ghost, Holding, BeforePost, AfterPost,
        TypeInv, CallTypes, RowTypes
  <2> QED
    BY <1>0, <2>1, <2>2
<1>4. ASSUME NEW i \in Instance, Read(i)
      PROVE  IInv'
  <2>1. LedgerInv'
    <3> SUFFICES ASSUME NEW f \in Effect, EffectOK(f) PROVE EffectOK(f)'
      BY LedgerByEffect
    <3>1. CASE f # target[i]
      BY <1>4, <3>1, EffectKept DEF About, Read, Tell, RestTypes, TypeInv, row
    <3>2. CASE f = target[i]
      BY <1>4, <3>2, Retold, EffectKept DEF About, Read, Tell, RestTypes, TypeInv, row
    <3> QED
      BY <3>1, <3>2
  <2>2. OneHolder' /\ HolderShape'
    BY <1>4, HolderKept
    DEF HolderFrame, Read, Statement, End, Goto, SameRequest, OneHolder,
        HolderShape, row, call, ghost, Holding, BeforePost, AfterPost, TypeInv,
        CallTypes, RowTypes
  <2> QED
    BY <1>0, <2>1, <2>2
<1>5. ASSUME NEW i \in Instance, RecoverOne(i)
      PROVE  IInv'
  <2>1. LedgerInv'
    <3> SUFFICES ASSUME NEW f \in Effect, EffectOK(f) PROVE EffectOK(f)'
      BY LedgerByEffect
    <3>1. CASE f # target[i]
      BY <1>5, <3>1, EffectKept
      DEF About, RecoverOne, MarkUnknown, SetStatus, RowTypes, TypeInv, row,
          ghost
    <3>2. CASE f = target[i]
      BY <1>5, <3>2, MovesOn, EffectKept
      DEF About, RecoverOne, Overdue, MarkUnknown, SetStatus, RowTypes, TypeInv,
          Settled, row, ghost
    <3> QED
      BY <3>1, <3>2
  <2>2. OneHolder' /\ HolderShape'
    BY <1>5, HolderKept
    DEF HolderFrame, RecoverOne, Statement, End, MarkUnknown, SetStatus, row,
        call, ghost, Holding, BeforePost, AfterPost, TypeInv, CallTypes, RowTypes
  <2> QED
    BY <1>0, <2>1, <2>2
<1>6. ASSUME NEW i \in Instance, Claim(i)
      PROVE  IInv'
  <2>1. LedgerInv'
    <3> SUFFICES ASSUME NEW f \in Effect, EffectOK(f) PROVE EffectOK(f)'
      BY LedgerByEffect
    <3>1. CASE f # target[i]
      BY <1>6, <3>1, EffectKept
      DEF About, Claim, SetStatus, RowTypes, TypeInv, row, ghost
    <3>2. CASE f = target[i]
      BY <1>6, <3>2, MovesOn, EffectKept
      DEF About, Claim, Claimable, SetStatus, RowTypes, TypeInv, Settled, row,
          ghost
    <3> QED
      BY <3>1, <3>2
  <2>2. ASSUME ~Claimable(target[i]) PROVE OneHolder' /\ HolderShape'
    BY <1>6, <2>2, HolderKept
    DEF HolderFrame, Claim, Statement, Goto, OneHolder, HolderShape, row, ghost,
        Holding, BeforePost, AfterPost, TypeInv, CallTypes
  <2>3. ASSUME Claimable(target[i]) PROVE OneHolder' /\ HolderShape'
    <3>1. target[i] \in Effect /\ posts[target[i]] = 0 /\ fingerprint[target[i]] = request[i]
      BY <1>6, <2>3
      DEF Claim, Statement, Claimable, LedgerInv, RowShape, HolderShape, TypeInv,
          CallTypes, RestTypes
    <3>2. \A j \in Instance : pc[j] \in Holding => target[j] # target[i]
      BY <2>3 DEF Claimable, HolderShape
    <3>3. /\ \A j \in Instance \ {i} : pc'[j] = pc[j]
          /\ pc'[i] \in {"check", "post"}
          /\ UNCHANGED <<target, request, fingerprint, posts, stripe, manual>>
      BY <1>6, <2>3 DEF Claim, Goto, ghost, TypeInv, CallTypes
    <3>4. /\ \A e \in Effect \ {target[i]} : status'[e] = status[e]
          /\ status'[target[i]] = "in_flight"
      BY <1>6, <2>3, <3>1 DEF Claim, SetStatus, TypeInv, RowTypes
    <3>5. OneHolder'
      BY <3>2, <3>3 DEF OneHolder, Holding, BeforePost, AfterPost
    <3>6. HolderShape'
      BY <3>1, <3>2, <3>3, <3>4
      DEF HolderShape, Holding, BeforePost, AfterPost, Settled, TypeInv, CallTypes
    <3> QED
      BY <3>5, <3>6
  <2>4. OneHolder' /\ HolderShape'
    BY <2>2, <2>3
  <2> QED
    BY <1>0, <2>1, <2>4
<1>7. ASSUME NEW i \in Instance, Reload(i)
      PROVE  IInv'
  <2>1. LedgerInv'
    <3> SUFFICES ASSUME NEW f \in Effect, EffectOK(f) PROVE EffectOK(f)'
      BY LedgerByEffect
    <3>1. CASE f # target[i]
      BY <1>7, <3>1, EffectKept DEF About, Reload, Tell, RestTypes, TypeInv, row
    <3>2. CASE f = target[i]
      BY <1>7, <3>2, Retold DEF Reload, Tell, RestTypes, TypeInv, row
    <3> QED
      BY <3>1, <3>2
  <2>2. OneHolder' /\ HolderShape'
    BY <1>7, HolderKept
    DEF HolderFrame, Reload, Statement, End, row, call, ghost, Holding,
        BeforePost, AfterPost, TypeInv, CallTypes, RowTypes
  <2> QED
    BY <1>0, <2>1, <2>2
<1>8. ASSUME NEW i \in Instance, Check(i)
      PROVE  IInv'
  <2>1. LedgerInv'
    BY <1>8, LedgerKept DEF Check, ghost
  <2>2. OneHolder' /\ HolderShape'
    BY <1>8, HolderKept
    DEF HolderFrame, Check, Statement, Goto, OneHolder, HolderShape, row, call,
        ghost, Holding, BeforePost, AfterPost, TypeInv, CallTypes, RowTypes
  <2> QED
    BY <1>0, <2>1, <2>2
<1>9. ASSUME NEW i \in Instance, Decline(i)
      PROVE  IInv'
  <2>1. LedgerInv'
    <3> SUFFICES ASSUME NEW f \in Effect, EffectOK(f) PROVE EffectOK(f)'
      BY LedgerByEffect
    <3>1. CASE f # target[i]
      BY <1>9, <3>1, EffectKept
      DEF About, Decline, FailEffect, Outcome, SetStatus, Tell, RowTypes,
          RestTypes, TypeInv, row
    <3>2. CASE f = target[i]
      <4>1. stripe[f] = "none"
        BY <1>9, <3>2 DEF Decline, Statement, HolderShape, BeforePost, EffectOK
      <4> QED
        BY <1>9, <3>2, <4>1, FailSettles, EffectLedgerAssumption DEF Decline
    <3> QED
      BY <3>1, <3>2
  <2>2. OneHolder' /\ HolderShape'
    BY <1>9, HolderKept
    DEF HolderFrame, Decline, FailEffect, Statement, End, Outcome, SetStatus,
        Tell, OneHolder, HolderShape, row, call, ghost, Holding, BeforePost,
        AfterPost, TypeInv, CallTypes, RowTypes
  <2> QED
    BY <1>0, <2>1, <2>2
<1>10. ASSUME NEW i \in Instance, Post(i)
      PROVE  IInv'
  <2>1. LedgerInv'
    <3> SUFFICES ASSUME NEW f \in Effect, EffectOK(f) PROVE EffectOK(f)'
      BY LedgerByEffect
    <3>1. CASE f # target[i]
      BY <1>10, <3>1, EffectKept DEF About, Post, RestTypes, TypeInv, row
    <3>2. CASE f = target[i]
      <4>1. status[f] \notin {"absent", "prepared"} /\ posts[f] = 0
        BY <1>10, <3>2 DEF Post, HolderShape, Holding, BeforePost
      <4>2. posts'[f] = 1 /\ stripe'[f] = "wire" /\ stripe[f] = "none"
        BY <1>10, <3>2, <4>1 DEF Post, EffectOK, RestTypes, TypeInv
      <4>3. status[f] \in Settled => f \in manual
        BY <1>10, <3>2 DEF Post, HolderShape, Holding, BeforePost
      <4> QED
        BY <1>10, <4>1, <4>2, <4>3 DEF Post, EffectOK, Settled, row
    <3> QED
      BY <3>1, <3>2
  <2>2. OneHolder' /\ HolderShape'
    <3>1. /\ pc[i] = "post" /\ target[i] \in Effect
          /\ \A j \in Instance \ {i} : pc'[j] = pc[j]
          /\ pc'[i] = "posted"
          /\ UNCHANGED <<row, target, request, manual>>
      BY <1>10 DEF Post, Goto, ghost, TypeInv, CallTypes
    <3>2. /\ \A e \in Effect \ {target[i]} : posts'[e] = posts[e] /\ stripe'[e] = stripe[e]
          /\ posts'[target[i]] > 0
      BY <1>10, <3>1 DEF Post, TypeInv, RestTypes
    <3>3. OneHolder'
      BY <3>1 DEF OneHolder, Holding, BeforePost, AfterPost
    <3>4. \A j \in Instance \ {i} : pc[j] \in Holding => target[j] # target[i]
      BY <3>1 DEF OneHolder, Holding, BeforePost
    <3>5. HolderShape'
      BY <3>1, <3>2, <3>4
      DEF HolderShape, Holding, BeforePost, AfterPost, row, TypeInv, CallTypes
    <3> QED
      BY <3>3, <3>5
  <2> QED
    BY <1>0, <2>1, <2>2
<1>11. ASSUME NEW i \in Instance, Receive(i)
      PROVE  IInv'
  <2>1. LedgerInv'
    BY <1>11, LedgerKept DEF Receive, ghost
  <2>2. OneHolder' /\ HolderShape'
    BY <1>11, HolderKept
    DEF HolderFrame, Receive, Goto, FinalRefusal, OneHolder, HolderShape, row,
        call, ghost, Holding, BeforePost, AfterPost, TypeInv, CallTypes, RowTypes
  <2> QED
    BY <1>0, <2>1, <2>2
<1>12. ASSUME NEW i \in Instance, Accept(i)
      PROVE  IInv'
  <2>1. LedgerInv'
    <3> SUFFICES ASSUME NEW f \in Effect, EffectOK(f) PROVE EffectOK(f)'
      BY LedgerByEffect
    <3>1. CASE f # target[i]
      BY <1>12, <3>1, EffectKept
      DEF About, Accept, Outcome, SetStatus, Tell, RowTypes, RestTypes, TypeInv,
          row
    <3>2. CASE f = target[i]
      BY <1>12, <3>2, SettledByPlugin, EffectKept, NothingPromised
      DEF About, Accept, Statement, Live, Outcome, SetStatus, Tell, ReceiptTold,
          HolderShape, Settled, RowTypes, RestTypes, TypeInv, row
    <3> QED
      BY <3>1, <3>2
  <2>2. OneHolder' /\ HolderShape'
    BY <1>12, HolderKept
    DEF HolderFrame, Accept, Statement, End, Outcome, SetStatus, Live,
        OneHolder, HolderShape, row, call, ghost, Holding, BeforePost, AfterPost,
        TypeInv, CallTypes, RowTypes
  <2> QED
    BY <1>0, <2>1, <2>2
<1>13. ASSUME NEW i \in Instance, Reject(i)
      PROVE  IInv'
  <2>1. LedgerInv'
    <3> SUFFICES ASSUME NEW f \in Effect, EffectOK(f) PROVE EffectOK(f)'
      BY LedgerByEffect
    <3>1. CASE f # target[i]
      BY <1>13, <3>1, EffectKept
      DEF About, Reject, FailEffect, Outcome, SetStatus, Tell, RowTypes,
          RestTypes, TypeInv, row
    <3>2. CASE f = target[i]
      <4>1. stripe[f] = "refused"
        BY <1>13, <3>2 DEF Reject, Statement, HolderShape
      <4> QED
        BY <1>13, <3>2, <4>1, FailSettles, EffectLedgerAssumption DEF Reject
    <3> QED
      BY <3>1, <3>2
  <2>2. OneHolder' /\ HolderShape'
    BY <1>13, HolderKept
    DEF HolderFrame, Reject, FailEffect, Statement, End, Outcome, SetStatus,
        OneHolder, HolderShape, row, call, ghost, Holding, BeforePost, AfterPost,
        TypeInv, CallTypes, RowTypes
  <2> QED
    BY <1>0, <2>1, <2>2
<1>14. ASSUME NEW i \in Instance, Mark(i)
      PROVE  IInv'
  <2>1. LedgerInv'
    <3> SUFFICES ASSUME NEW f \in Effect, EffectOK(f) PROVE EffectOK(f)'
      BY LedgerByEffect
    <3>1. CASE f # target[i]
      BY <1>14, <3>1, EffectKept
      DEF About, Mark, MarkUnknown, SetStatus, RowTypes, TypeInv, row, ghost
    <3>2. CASE f = target[i]
      BY <1>14, <3>2, MovesOn, EffectKept
      DEF About, Mark, Live, MarkUnknown, SetStatus, RowTypes, TypeInv, Settled,
          row, ghost
    <3> QED
      BY <3>1, <3>2
  <2>2. OneHolder' /\ HolderShape'
    BY <1>14, HolderKept
    DEF HolderFrame, Mark, End, MarkUnknown, SetStatus, row, call, ghost,
        Holding, BeforePost, AfterPost, TypeInv, CallTypes, RowTypes
  <2> QED
    BY <1>0, <2>1, <2>2
<1>15. ASSUME NEW i \in Instance, Drop(i)
      PROVE  IInv'
  <2>1. LedgerInv'
    BY <1>15, LedgerKept DEF Drop, ghost
  <2>2. OneHolder' /\ HolderShape'
    BY <1>15, HolderKept
    DEF HolderFrame, Drop, End, row, call, ghost, Holding, BeforePost,
        AfterPost, TypeInv, CallTypes, RowTypes
  <2> QED
    BY <1>0, <2>1, <2>2
<1>16. ASSUME NEW i \in Instance, Activate(i)
      PROVE  IInv'
  <2>1. LedgerInv'
    <3> SUFFICES ASSUME NEW f \in Effect, EffectOK(f) PROVE EffectOK(f)'
      BY LedgerByEffect
    <3>1. CASE Overdue(f)
      BY <1>16, <3>1, MovesOn DEF Activate, Overdue, Settled, ghost
    <3>2. CASE ~Overdue(f)
      BY <1>16, <3>2, EffectKept DEF About, Activate, ghost
    <3> QED
      BY <3>1, <3>2
  <2>2. OneHolder' /\ HolderShape'
    BY <1>16, HolderKept
    DEF HolderFrame, Activate, row, call, ghost, Holding, BeforePost, AfterPost,
        TypeInv, CallTypes, RowTypes
  <2> QED
    BY <1>0, <2>1, <2>2
<1>17. ASSUME NEW i \in Instance, Deactivate(i)
      PROVE  IInv'
  <2>1. LedgerInv'
    BY <1>17, LedgerKept DEF Deactivate, ghost
  <2>2. OneHolder' /\ HolderShape'
    BY <1>17, HolderKept
    DEF HolderFrame, Deactivate, row, call, ghost, Holding, BeforePost,
        AfterPost, TypeInv, CallTypes, RowTypes
  <2> QED
    BY <1>0, <2>1, <2>2
<1>18. ASSUME NEW i \in Instance, Crash(i)
      PROVE  IInv'
  <2>1. LedgerInv'
    BY <1>18, LedgerKept DEF Crash, ghost
  <2>2. OneHolder' /\ HolderShape'
    BY <1>18, HolderKept
    DEF HolderFrame, Crash, End, row, call, ghost, Holding, BeforePost,
        AfterPost, TypeInv, CallTypes, RowTypes
  <2> QED
    BY <1>0, <2>1, <2>2
<1>19. ASSUME NEW d \in Desk, NEW e \in Effect, NEW v \in Verdict, ResolveLoad(d, e, v)
      PROVE  IInv'
  <2>1. LedgerInv'
    BY <1>19, EffectLedgerAssumption
    DEF LedgerInv, RowShape, AtMostOneDispatch, PluginVerdictSound,
        AcceptedAnswerIsDurable, AcknowledgedVerdictStands, TypeInv, RowTypes,
        CallTypes, RestTypes, Settled, Status, ResolveLoad, Verdict, row
  <2>2. OneHolder' /\ HolderShape'
    BY <1>19, HolderKept
    DEF HolderFrame, ResolveLoad, row, call, ghost, Holding, BeforePost,
        AfterPost, TypeInv, CallTypes, RowTypes
  <2> QED
    BY <1>0, <2>1, <2>2
<1>20. ASSUME NEW d \in Desk, ResolveUpdate(d)
      PROVE  IInv'
  <2>1. LedgerInv'
    BY <1>20, EffectLedgerAssumption
    DEF LedgerInv, RowShape, AtMostOneDispatch, PluginVerdictSound,
        AcceptedAnswerIsDurable, AcknowledgedVerdictStands, TypeInv, RowTypes,
        CallTypes, RestTypes, Settled, Status, ResolveUpdate, Resolvable,
        Unresolved, Outcome, SetStatus, Verdict, DeskTypes, row
  <2>2. OneHolder' /\ HolderShape'
    BY <1>20, HolderKept
    DEF HolderFrame, ResolveUpdate, Resolvable, Unresolved, Outcome, SetStatus,
        DeskTypes, Verdict, Settled, row, call, ghost, Holding, BeforePost,
        AfterPost, TypeInv, CallTypes, RowTypes
  <2> QED
    BY <1>0, <2>1, <2>2
<1>21. ASSUME NEW d \in Desk, ResolveLost(d)
      PROVE  IInv'
  <2>1. LedgerInv'
    BY <1>21, LedgerKept DEF ResolveLost, ghost
  <2>2. OneHolder' /\ HolderShape'
    BY <1>21, HolderKept
    DEF HolderFrame, ResolveLost, row, call, ghost, Holding, BeforePost,
        AfterPost, TypeInv, CallTypes, RowTypes
  <2> QED
    BY <1>0, <2>1, <2>2
<1>22. ASSUME NEW e \in Effect, StripeDecides(e)
      PROVE  IInv'
  <2>1. LedgerInv'
    BY <1>22, EffectLedgerAssumption
    DEF LedgerInv, RowShape, AtMostOneDispatch, PluginVerdictSound,
        AcceptedAnswerIsDurable, AcknowledgedVerdictStands, TypeInv, RowTypes,
        CallTypes, RestTypes, Settled, Status, StripeDecides, row, ghost
  <2>2. OneHolder' /\ HolderShape'
    BY <1>22, HolderKept
    DEF HolderFrame, StripeDecides, RestTypes, row, call, ghost, Holding,
        BeforePost, AfterPost, TypeInv, CallTypes, RowTypes
  <2> QED
    BY <1>0, <2>1, <2>2
<1>23. ASSUME NEW s \in Subject, SubjectChanges(s)
      PROVE  IInv'
  <2>1. LedgerInv'
    BY <1>23, LedgerKept DEF SubjectChanges, ghost
  <2>2. OneHolder' /\ HolderShape'
    BY <1>23, HolderKept
    DEF HolderFrame, SubjectChanges, row, call, ghost, Holding, BeforePost,
        AfterPost, TypeInv, CallTypes, RowTypes
  <2> QED
    BY <1>0, <2>1, <2>2
<1>24. ASSUME Tick
      PROVE  IInv'
  <2>1. LedgerInv'
    BY <1>24, EffectLedgerAssumption
    DEF LedgerInv, RowShape, AtMostOneDispatch, PluginVerdictSound,
        AcceptedAnswerIsDurable, AcknowledgedVerdictStands, TypeInv, RowTypes,
        CallTypes, RestTypes, Settled, Status, Tick, ghost
  <2>2. OneHolder' /\ HolderShape'
    BY <1>24, HolderKept
    DEF HolderFrame, Tick, row, call, ghost, Holding, BeforePost, AfterPost,
        TypeInv, CallTypes, RowTypes
  <2> QED
    BY <1>0, <2>1, <2>2
<1>25. ASSUME UNCHANGED vars
      PROVE  IInv'
  <2>1. LedgerInv'
    BY <1>25, LedgerKept DEF vars, ghost
  <2>2. OneHolder' /\ HolderShape'
    BY <1>25, HolderKept
    DEF HolderFrame, vars, row, call, ghost, Holding, BeforePost, AfterPost,
        TypeInv, CallTypes, RowTypes
  <2> QED
    BY <1>0, <2>1, <2>2
<1>26. QED
  BY <1>1, <1>2, <1>3, <1>4, <1>5, <1>6, <1>7, <1>8, <1>9, <1>10, <1>11, <1>12, <1>13, <1>14, <1>15, <1>16, <1>17, <1>18, <1>19, <1>20, <1>21, <1>22, <1>23, <1>24, <1>25
  DEF Next, Invoke, Advance, Operate

LEMMA Inductive == Spec => []IInv
  BY IInvInit, IInvNext, PTL DEF Spec

-----------------------------------------------------------------------------
(* The safety invariants the runs check.                                   *)

\* However many processes, retries, crashes and recoveries there are, one
\* idempotency key is sent to Stripe at most once.
THEOREM OneDispatch == Spec => []AtMostOneDispatch
<1>1. IInv => AtMostOneDispatch
  BY DEF IInv, LedgerInv
<1> QED
  BY Inductive, <1>1, PTL

\* What is sent under a key is what the row's request_hash was computed from.
THEOREM DispatchIsAsClaimed == Spec => []DispatchMatchesFingerprint
<1>1. IInv => DispatchMatchesFingerprint
  BY DEF IInv, HolderShape, DispatchMatchesFingerprint
<1> QED
  BY Inductive, <1>1, PTL

\* A row the plugin settled by itself agrees with Stripe.
THEOREM VerdictIsSound == Spec => []PluginVerdictSound
<1>1. IInv => PluginVerdictSound
  BY DEF IInv, LedgerInv
<1> QED
  BY Inductive, <1>1, PTL

\* A session once answered stays in the ledger.
THEOREM AnswerIsDurable == Spec => []AcceptedAnswerIsDurable
<1>1. IInv => AcceptedAnswerIsDurable
  BY DEF IInv, LedgerInv
<1> QED
  BY Inductive, <1>1, PTL

\* A resolution once acknowledged stays in the ledger.
THEOREM ResolutionIsDurable == Spec => []AcknowledgedVerdictStands
<1>1. IInv => AcknowledgedVerdictStands
  BY DEF IInv, LedgerInv
<1> QED
  BY Inductive, <1>1, PTL
=============================================================================
