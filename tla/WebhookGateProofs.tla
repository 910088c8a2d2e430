-------------------------- MODULE WebhookGateProofs --------------------------
(***************************************************************************)
(* What holds of ingest_webhook for any number of gateways, events, sites  *)
(* and faults.  A verdict says something of a body's content only after    *)
(* the MAC, so what waits for the transaction is genuine and acceptable    *)
(* (CallInv); the transaction writes a receipt and its effects together    *)
(* (LedgerInv), so a success stands for a receipt.  And whatever the store *)
(* and the plugin hold, Stripe signs with it (KeyInv), so a retry passes.  *)
(***************************************************************************)
EXTENDS WebhookGate, AuthorityProofs, SequenceTheorems, FiniteSetTheorems

Genuine == {row \in Rows : row.intact /\ row.event \in Takeable}

CallInv ==
    \A g \in Gateway :
        /\ call[g].pc \in {"idle", "verify"} => call[g].answer = None
        /\ call[g].pc = "record" => call[g].msg \in Genuine
        /\ call[g].pc \in {"record", "answer"}
           /\ call[g].answer \in {"InvalidEvent", "Verified", "Accepted", "Ignored", "Duplicate"}
           => call[g].msg.intact
        /\ call[g].pc = "answer" /\ Success(call[g].answer) => call[g].msg \in receipts
        /\ call[g].pc = "record" => call[g].answer = "Verified"

LedgerInv ==
    /\ receipts \subseteq Genuine
    /\ IsFiniteSet(receipts)
    /\ acked \subseteq {row.event : row \in receipts}
    /\ EffectsOncePerReceipt

IInv == TypeOK /\ Valid(config) /\ CallInv /\ LedgerInv

(***************************************************************************)
(* The operators.                                                          *)
(***************************************************************************)
\* The fields of a signed header, the MACs between the first and the last.
Macs(e) ==
    [i \in DOMAIN signing |->
        Field("v1", [key |-> signing[i], stamp |-> SignedAt, event |-> e])]

LEMMA FieldsType ==
    ASSUME TypeOK, NEW e \in Event
    PROVE  /\ Field("t", SignedAt) \in FieldType /\ Field("v0", None) \in FieldType
           /\ Macs(e) \in Seq(FieldType)
           /\ DOMAIN signing = 1..Len(Macs(e))
<1>1. SignedAt \in Nat
  BY DEF SignedAt
<1>2. Field("t", SignedAt) \in FieldType /\ Field("v0", None) \in FieldType
  BY <1>1 DEF Field, FieldType
<1>3. \A i \in DOMAIN signing : Macs(e)[i] \in FieldType
  BY <1>1 DEF TypeOK, Field, FieldType, Key, Macs
<1>4. DOMAIN signing = 1..1 \/ DOMAIN signing = 1..2
  <2>1. CASE signing = <<OldKey>>
    BY <2>1
  <2>2. CASE signing = <<NewKey, OldKey>>
    BY <2>2
  <2>3. CASE signing = <<NewKey>>
    BY <2>3
  <2> QED
    BY <2>1, <2>2, <2>3 DEF TypeOK
<1>5. DOMAIN Macs(e) = DOMAIN signing /\ Macs(e) \in [DOMAIN signing -> FieldType]
  BY <1>3 DEF Macs
<1>6. \A S : \A n \in Nat : [1..n -> S] \subseteq Seq(S)
  OBVIOUS
<1> QED
  BY <1>2, <1>4, <1>5, <1>6

\* What Stripe sends is a request with a header.
LEMMA SignedType ==
    ASSUME TypeOK, NEW e \in Event
    PROVE  Signed(e) \in Message /\ Signed(e).fields # <<>>
<1>1. Header(e) = <<Field("t", SignedAt)>> \o Macs(e) \o <<Field("v0", None)>>
  BY DEF Header, Macs
<1>2. Header(e) \in Seq(FieldType) /\ Header(e) # <<>>
  BY <1>1, FieldsType
<1> QED
  BY <1>2 DEF Signed, Message, SignedAt

\* Time makes of an age an age.
LEMMA OlderType == ASSUME NEW age \in Nat PROVE Older(age) \in Nat
  BY GateAssumption DEF Older

\* What the network makes of it is still a request.
LEMMA DamagedType ==
    ASSUME NEW m \in Message, m.fields # <<>>
    PROVE  Damaged(m) \subseteq Message
<1>1. m.fields \o m.fields \in Seq(FieldType)
  BY DEF Message
<1>2. Append(m.fields, Field("bare", None)) \in Seq(FieldType)
  BY DEF Message, Field, FieldType
<1>3. Tail(m.fields) \in Seq(FieldType)
  BY DEF Message
<1> QED
  BY <1>1, <1>2, <1>3 DEF Damaged, Message

\* A valid size limit is a number.
LEMMA ValidSize == \A c : Valid(c) => c.max_webhook_body_bytes \in Nat
<1> SUFFICES ASSUME NEW c, Valid(c)
             PROVE  c.max_webhook_body_bytes \in Nat
  OBVIOUS
<1>1. BoundsValid(c)
  BY DEF Valid
<1>2. c.max_webhook_body_bytes \in 1024..MaxWebhookBodyBytes
  BY <1>1, SMT DEF BoundsValid
<1>3. MaxWebhookBodyBytes \in Int
  BY SMT DEF MaxWebhookBodyBytes
<1> QED
  BY <1>2, <1>3, SMT

\* Verification passes genuine requests of events that this Instance can take,
\* and calls an event invalid only of a body that Stripe signed.
LEMMA VerdictSound ==
    ASSUME TypeOK, Valid(config), NEW n, NEW m \in Message
    PROVE  /\ Verdict(n, m) \in Answers \ {"Accepted", "Ignored", "Duplicate", "Failed"}
           /\ Verdict(n, m) = "Verified" => Row(m) \in Genuine
           /\ Verdict(n, m) = "InvalidEvent" => m.intact
<1>1. Verdict(n, m) \in Answers \ {"Accepted", "Ignored", "Duplicate", "Failed"}
  BY DEF Verdict, Answers
<1>2. ASSUME Verdict(n, m) = "Verified"
      PROVE  Row(m) \in Genuine
  <2> DEFINE x == content[m.event]
  <2>1. ~(x.size > config.max_webhook_body_bytes) /\ Verifies(m) /\ x.readable
        /\ x.live = config.livemode /\ TargetReadable(x) /\ TargetValid(x)
    BY <1>2 DEF Verdict
  <2>2. x.size \in Nat
    BY GateAssumption, SMT DEF TypeOK, Contents, Message
  <2>3. config.max_webhook_body_bytes \in Nat
    BY ValidSize
  <2> QED
    BY <2>1, <2>2, <2>3, SMT DEF Genuine, Takeable, Verifies, Row, Rows, Message
<1>3. Verdict(n, m) = "InvalidEvent" => m.intact
  BY DEF Verdict, Verifies
<1> QED
  BY <1>1, <1>2, <1>3

LEMMA RowType == ASSUME NEW m \in Message PROVE Row(m) \in Rows
  BY DEF Message, Row, Rows

(***************************************************************************)
(* The transaction.                                                        *)
(***************************************************************************)
\* What can be taken does not change.
LEMMA SameGenuine ==
    ASSUME UNCHANGED env
    PROVE  Genuine' = Genuine /\ Takeable' = Takeable
  BY DEF env, Genuine, Takeable, TargetReadable, TargetValid, HasTarget, Price, Find

\* With nothing written the ledger is as it was.
LEMMA SameLedger ==
    ASSUME LedgerInv, UNCHANGED env, UNCHANGED db, UNCHANGED acked
    PROVE  LedgerInv'
  BY SameGenuine DEF LedgerInv, EffectsOncePerReceipt, RecordedCheckouts, HasTarget, env, db

\* The transaction of a genuine event leaves its receipt, and every effect once.
LEMMA CommitWhole ==
    ASSUME IInv, UNCHANGED env, UNCHANGED acked, NEW row \in Genuine, Commit(row)
    PROVE  /\ LedgerInv'
           /\ receipts \subseteq receipts'
           /\ subject' \in [Person -> [sub : Sub \cup {None}, writes : Nat]]
           /\ \A p \in Person : subject'[p].sub = None <=> subject'[p].writes = 0
           /\ pending' \subseteq Sub
           /\ Success(Outcome(row)) => row \in receipts'
           /\ {r.event : r \in receipts'} = {r.event : r \in receipts} \cup {row.event}
<1> DEFINE x == content[row.event]
<1>a. x \in Contents /\ row \in Rows /\ row.event \in Event
  BY GateAssumption, SMT DEF Genuine, Rows, IInv, TypeOK
<1>1. CASE Known(row.event)
  <2>1. UNCHANGED db
    BY <1>1 DEF Commit
  <2>2. LedgerInv'
    BY <2>1, SameLedger DEF IInv
  <2>3. Success(Outcome(row)) => row \in receipts
    BY <1>1 DEF Success, Outcome
  <2>4. row.event \in {r.event : r \in receipts}
    BY <1>1 DEF Known
  <2> QED
    BY <2>1, <2>2, <2>3, <2>4 DEF db, IInv, TypeOK
<1>2. CASE ~Known(row.event)
  <2>1. receipts' = receipts \cup {row} /\ row \notin receipts
    BY <1>2 DEF Commit, Known
  <2>2. receipts' \subseteq Genuine' /\ IsFiniteSet(receipts')
    BY <2>1, SameGenuine, FS_AddElement DEF IInv, LedgerInv
  <2>3. {r.event : r \in receipts'} = {r.event : r \in receipts} \cup {row.event}
    BY <2>1
  <2>4. pending' = {content[r.event].sub : r \in {q \in receipts' : HasTarget(content[q.event])}}
    BY <1>2, <2>1 DEF Commit, IInv, LedgerInv, EffectsOncePerReceipt, HasTarget
  <2>5. pending' \subseteq Sub
    BY <1>a, <1>2 DEF Commit, Contents, IInv, TypeOK
  <2>6. CASE x.kind = "checkout"
    <3>1. subject' = [subject EXCEPT ![x.person] = [sub |-> x.sub, writes |-> @.writes + 1]]
      BY <1>2, <2>6 DEF Commit, UpsertSubject
    <3>2. subject \in [Person -> [sub : Sub \cup {None}, writes : Nat]]
      BY DEF IInv, TypeOK
    <3>3. x.sub \in Sub /\ x.person \in Person
      BY <1>a DEF Contents
    <3>4. /\ subject' \in [Person -> [sub : Sub \cup {None}, writes : Nat]]
          /\ \A p \in Person : subject'[p].sub = None <=> subject'[p].writes = 0
      BY <3>1, <3>2, <3>3, GateAssumption DEF IInv, TypeOK
    <3>5. ASSUME NEW p \in Person
          PROVE  subject'[p].writes = Cardinality(RecordedCheckouts(p)')
      <4> DEFINE S == RecordedCheckouts(p)
      <4>1. IsFiniteSet(S)
        <5>1. S \subseteq receipts /\ IsFiniteSet(receipts)
          BY DEF RecordedCheckouts, IInv, LedgerInv
        <5> QED
          BY <5>1, FS_Subset
      <4>2. subject[p].writes = Cardinality(S)
        BY DEF IInv, LedgerInv, EffectsOncePerReceipt
      <4>3. CASE p = x.person
        <5>1. RecordedCheckouts(p)' = S \cup {row}
          BY <2>1, <2>6, <4>3 DEF RecordedCheckouts, env
        <5>2. row \notin S
          BY <2>1 DEF RecordedCheckouts
        <5>3. Cardinality(S \cup {row}) = Cardinality(S) + 1
          BY <4>1, <5>2, FS_AddElement
        <5>4. subject'[p].writes = subject[p].writes + 1
          BY <3>1, <3>2, <4>3
        <5> QED
          BY <5>1, <5>3, <5>4, <4>2
      <4>4. CASE p # x.person
        <5>1. RecordedCheckouts(p)' = S
          BY <2>1, <4>4 DEF RecordedCheckouts, env
        <5>2. subject'[p] = subject[p]
          BY <3>1, <3>2, <4>4
        <5> QED
          BY <5>1, <5>2, <4>2
      <4> QED
        BY <4>3, <4>4
    <3> QED
      BY <2>1, <2>2, <2>3, <2>4, <2>5, <3>4, <3>5
      DEF IInv, LedgerInv, EffectsOncePerReceipt, HasTarget, env
  <2>7. CASE x.kind # "checkout"
    <3>1. UNCHANGED subject
      BY <1>2, <2>7 DEF Commit
    <3>2. \A p \in Person : RecordedCheckouts(p)' = RecordedCheckouts(p)
      BY <2>1, <2>7 DEF RecordedCheckouts, env
    <3>3. \A p \in Person : subject'[p].writes = Cardinality(RecordedCheckouts(p)')
      BY <3>1, <3>2 DEF IInv, LedgerInv, EffectsOncePerReceipt
    <3> QED
      BY <2>1, <2>2, <2>3, <2>4, <2>5, <3>1, <3>3
      DEF IInv, TypeOK, LedgerInv, EffectsOncePerReceipt, HasTarget, env
  <2> QED
    BY <2>6, <2>7
<1> QED
  BY <1>1, <1>2

(***************************************************************************)
(* The invariant.                                                          *)
(***************************************************************************)
LEMMA InitInv == Init => IInv
<1> SUFFICES ASSUME Init
             PROVE  IInv
  OBVIOUS
<1>1. TypeOK
  BY GateAssumption, SMT DEF Init, TypeOK, Idle, Key
<1>2. Valid(config)
  BY DEF Init
<1>3. CallInv
  BY GateAssumption DEF Init, CallInv, Idle, Success, Answers
<1>4. LedgerInv
  <2>1. \A p \in Person : RecordedCheckouts(p) = {}
    BY DEF Init, RecordedCheckouts
  <2>2. EffectsOncePerReceipt
    BY <2>1, FS_EmptySet DEF Init, EffectsOncePerReceipt
  <2> QED
    BY <2>2, FS_EmptySet DEF Init, LedgerInv
<1> QED
  BY <1>1, <1>2, <1>3, <1>4 DEF IInv

\* A step that changes neither calls nor the ledger keeps what they say.
LEMMA QuietStep ==
    ASSUME IInv, UNCHANGED env, UNCHANGED call, UNCHANGED db, UNCHANGED acked
    PROVE  Valid(config)' /\ CallInv' /\ LedgerInv'
<1>1. Valid(config)'
  BY DEF IInv, env
<1>2. CallInv'
  BY SameGenuine DEF IInv, CallInv, db, Success
<1> QED
  BY <1>1, <1>2, SameLedger DEF IInv

LEMMA SendInv == ASSUME IInv, NEW e \in Event, Send(e) PROVE IInv'
<1>1. TypeOK'
  BY SignedType DEF IInv, TypeOK, Send, env, keys, db
<1> QED
  BY <1>1, QuietStep DEF IInv, Send, env, keys, db

LEMMA TakeInv ==
    ASSUME IInv, NEW g \in Gateway, NEW n \in Caller, NEW m \in Message, Take(g, n, m),
           faults' \in 0..MaxFaults
    PROVE  IInv'
<1>1. TypeOK'
  BY DEF IInv, TypeOK, Take, env, keys, db
<1>2. CallInv'
  BY SameGenuine, GateAssumption DEF IInv, TypeOK, CallInv, Take, db, Success, Answers
<1>3. Valid(config)' /\ LedgerInv'
  BY SameLedger DEF IInv, Take, env
<1> QED
  BY <1>1, <1>2, <1>3 DEF IInv

LEMMA FaultBound == ASSUME IInv, Fault PROVE faults' \in 0..MaxFaults
  BY GateAssumption DEF IInv, TypeOK, Fault

LEMMA DeliverInv ==
    ASSUME IInv, NEW g \in Gateway, NEW e \in Event, NEW n \in Caller,
           Deliver(g, e, n) \/ DeliverAmiss(g, e, n)
    PROVE  IInv'
<1>1. wire[e] \in Message /\ wire[e].fields # <<>>
  BY DEF IInv, TypeOK, Deliver, DeliverAmiss
<1>2. CASE Deliver(g, e, n)
  BY <1>1, <1>2, TakeInv DEF Deliver, IInv, TypeOK
<1>3. CASE DeliverAmiss(g, e, n)
  <2>1. PICK m \in Damaged(wire[e]) \cup {wire[e]} : Take(g, n, m)
    BY <1>3 DEF DeliverAmiss
  <2>2. m \in Message
    BY <1>1, <2>1, DamagedType
  <2> QED
    BY <1>3, <2>1, <2>2, TakeInv, FaultBound DEF DeliverAmiss
<1> QED
  BY <1>2, <1>3

LEMMA VerifyInv == ASSUME IInv, NEW g \in Gateway, Verify(g) PROVE IInv'
<1> DEFINE verdict == Verdict(call[g].caller, call[g].msg)
<1>1. call[g].msg \in Message
  BY DEF IInv, TypeOK, Verify
<1>2. /\ verdict \in Answers \ {"Accepted", "Ignored", "Duplicate", "Failed"}
      /\ verdict = "Verified" => Row(call[g].msg) \in Genuine
      /\ verdict = "InvalidEvent" => call[g].msg.intact
  BY <1>1, VerdictSound DEF IInv
<1>3. Row(call[g].msg) \in Rows
  BY <1>1, RowType
<1>4. call' = [call EXCEPT ![g] = After(IF verdict = "Verified" THEN "record" ELSE "answer",
                                        Row(call[g].msg), verdict)]
  BY DEF Verify
<1> HIDE DEF verdict
<1>5. TypeOK'
  BY <1>2, <1>3, <1>4 DEF IInv, TypeOK, Verify, After, env, keys, db
<1>6. CallInv'
  <2> SUFFICES ASSUME NEW h \in Gateway
               PROVE  CallInv!(h)'
    BY DEF CallInv
  <2> QED
    BY <1>2, <1>3, <1>4, SameGenuine
    DEF IInv, TypeOK, CallInv, Verify, After, Row, Genuine, db, Success
<1>7. Valid(config)' /\ LedgerInv'
  BY SameLedger DEF IInv, Verify, env
<1> QED
  BY <1>5, <1>6, <1>7 DEF IInv

\* A call at the transaction has a genuine row, and ends with an answer that is
\* no success without it.
LEMMA RecordingInv ==
    ASSUME IInv, NEW g \in Gateway, call[g].pc = "record",
           UNCHANGED <<env, keys, wire, acked>>, faults' \in 0..MaxFaults,
           Commit(call[g].msg) \/ UNCHANGED db,
           NEW answer \in Answers,
           call' = [call EXCEPT ![g] = After("answer", call[g].msg, answer)],
           Success(answer) => call[g].msg \in receipts'
    PROVE  IInv'
<1> DEFINE row == call[g].msg
<1>1. row \in Genuine
  BY DEF IInv, CallInv
<1>2. /\ LedgerInv'
      /\ receipts \subseteq receipts'
      /\ subject' \in [Person -> [sub : Sub \cup {None}, writes : Nat]]
      /\ \A p \in Person : subject'[p].sub = None <=> subject'[p].writes = 0
      /\ pending' \subseteq Sub
  <2>1. CASE Commit(row)
    BY <1>1, <2>1, CommitWhole
  <2>2. CASE UNCHANGED db
    BY <2>2, SameLedger DEF IInv, TypeOK, db
  <2> QED
    BY <2>1, <2>2
<1>3. receipts' \subseteq Rows
  BY <1>2, SameGenuine DEF LedgerInv, Genuine
<1>4. TypeOK'
  BY <1>1, <1>2, <1>3 DEF IInv, TypeOK, After, Genuine, env, keys
<1>5. CallInv'
  BY <1>1, <1>2, SameGenuine DEF IInv, TypeOK, CallInv, After, Genuine, Success
<1> QED
  BY <1>2, <1>4, <1>5 DEF IInv, env

LEMMA RecordInv ==
    ASSUME IInv, NEW g \in Gateway, Record(g) \/ RecordFails(g)
    PROVE  IInv'
<1>1. call[g].pc = "record" /\ call[g].msg \in Genuine
  BY DEF Record, RecordFails, IInv, CallInv
<1>2. CASE Record(g)
  <2>1. Success(Outcome(call[g].msg)) => call[g].msg \in receipts'
    BY <1>1, <1>2, CommitWhole DEF Record
  <2>2. Outcome(call[g].msg) \in Answers
    BY DEF Outcome, Answers
  <2>3. faults' \in 0..MaxFaults
    BY <1>2 DEF Record, IInv, TypeOK
  <2> QED
    BY <1>1, <1>2, <2>1, <2>2, <2>3, RecordingInv DEF Record
<1>3. CASE RecordFails(g)
  <2>1. "Failed" \in Answers /\ ~Success("Failed")
    BY DEF Answers, Success
  <2> QED
    BY <1>1, <1>3, <2>1, RecordingInv, FaultBound DEF RecordFails
<1> QED
  BY <1>2, <1>3

LEMMA AnswerInv == ASSUME IInv, NEW g \in Gateway, Answer(g) PROVE IInv'
<1>1. acked' \subseteq {row.event : row \in receipts}
  BY DEF IInv, LedgerInv, CallInv, Answer
<1>2. TypeOK'
  BY <1>1 DEF IInv, TypeOK, Answer, Idle, Rows, env, keys, db
<1>3. CallInv'
  BY SameGenuine, GateAssumption DEF IInv, TypeOK, CallInv, Answer, Idle, db, Success, Answers
<1>4. LedgerInv'
  BY <1>1, SameGenuine
  DEF IInv, LedgerInv, Answer, EffectsOncePerReceipt, RecordedCheckouts, HasTarget, env, db
<1> QED
  BY <1>2, <1>3, <1>4 DEF IInv, Answer, env

\* A call that is over, or fails where it stood.
LEMMA EndInv ==
    ASSUME IInv, UNCHANGED <<env, signing, stored, wire, db, acked>>,
           held' \in Key \cup {None}, faults' \in 0..MaxFaults,
           DOMAIN call' = Gateway, call' = [g \in Gateway |-> call'[g]],
           \A g \in Gateway : \/ call'[g] = call[g]
                              \/ call'[g] = Idle
                              \/ /\ call[g].pc = "record"
                                 /\ call'[g] = After("answer", call[g].msg, "Failed")
    PROVE  IInv'
<1>1. TypeOK'
  BY DEF IInv, TypeOK, Idle, After, env, db, Answers
<1>2. CallInv'
  BY SameGenuine, GateAssumption
  DEF IInv, TypeOK, CallInv, Idle, After, db, Success, Answers
<1> QED
  BY <1>1, <1>2, SameLedger DEF IInv, env

LEMMA AbandonInv == ASSUME IInv, NEW g \in Gateway, Abandon(g) PROVE IInv'
  BY FaultBound, EndInv DEF Abandon, IInv, TypeOK, keys

LEMMA LifeInv == ASSUME IInv, Activate \/ Deactivate \/ Crash PROVE IInv'
<1>1. CASE Activate
  <2>1. TypeOK'
    BY <1>1 DEF IInv, TypeOK, Activate, env, db
  <2> QED
    BY <1>1, <2>1, QuietStep DEF IInv, Activate, env, db
<1>2. CASE Deactivate
  BY <1>2, FaultBound, EndInv DEF Deactivate
<1>3. CASE Crash
  BY <1>3, FaultBound, EndInv DEF Crash
<1> QED
  BY <1>1, <1>2, <1>3

LEMMA RotationInv == ASSUME IInv, Roll \/ StoreSecret \/ ExpireOld PROVE IInv'
<1>1. TypeOK'
  BY GateAssumption DEF IInv, TypeOK, Roll, StoreSecret, ExpireOld, env, keys, db, Key
<1> QED
  BY <1>1, QuietStep DEF IInv, Roll, StoreSecret, ExpireOld, env, keys, db

LEMMA TickInv == ASSUME IInv, Tick PROVE IInv'
<1> DEFINE aged(m) == [m EXCEPT !.age = Older(@)]
<1>1. \A m \in Message : aged(m) \in Message /\ aged(m).fields = m.fields
  BY OlderType DEF Message
<1>2. wire' = [e \in Event |-> IF wire[e] = None THEN None ELSE aged(wire[e])]
  BY DEF Tick
<1>3. call' = [g \in Gateway |->
                 IF call[g].pc = "verify" THEN [call[g] EXCEPT !.msg = aged(@)] ELSE call[g]]
  BY DEF Tick
<1> HIDE DEF aged
<1>4. /\ wire' \in [Event -> Message \cup {None}]
      /\ \A e \in Event : wire'[e] # None => wire'[e].fields # <<>>
  BY <1>1, <1>2 DEF IInv, TypeOK
<1>5. ASSUME NEW g \in Gateway
      PROVE  /\ call'[g] \in [pc : {"idle", "verify", "record", "answer"},
                               caller : Caller \cup {None}, msg : Message \cup Rows \cup {None},
                               answer : Answers \cup {None}]
             /\ call'[g].pc = call[g].pc /\ call'[g].answer = call[g].answer
             /\ call[g].pc = "verify" => call'[g].msg \in Message
             /\ call[g].pc # "verify" => call'[g] = call[g]
  BY <1>1, <1>3 DEF IInv, TypeOK
<1>6. call' \in [Gateway -> [pc : {"idle", "verify", "record", "answer"},
                            caller : Caller \cup {None}, msg : Message \cup Rows \cup {None},
                            answer : Answers \cup {None}]]
  BY <1>3, <1>5
<1>7. TypeOK'
  BY <1>4, <1>5, <1>6 DEF IInv, TypeOK, Tick, env, keys, db
<1>8. CallInv'
  <2> SUFFICES ASSUME NEW g \in Gateway
               PROVE  CallInv!(g)'
    BY DEF CallInv
  <2> QED
    BY <1>5, SameGenuine DEF IInv, CallInv, Tick, db, Success
<1> QED
  BY <1>7, <1>8, SameLedger DEF IInv, Tick, env

LEMMA NextInv == IInv /\ [Next]_vars => IInv'
<1>1. ASSUME IInv, UNCHANGED vars
      PROVE  IInv'
  <2>1. TypeOK'
    BY <1>1 DEF IInv, TypeOK, vars, env, keys, db
  <2> QED
    BY <1>1, <2>1, QuietStep DEF IInv, vars, env, db
<1>2. ASSUME IInv, Next
      PROVE  IInv'
  BY <1>2, SendInv, DeliverInv, VerifyInv, RecordInv, AnswerInv, AbandonInv, LifeInv,
     RotationInv, TickInv DEF Next
<1> QED
  BY <1>1, <1>2

LEMMA Invariance == Spec => []IInv
  BY InitInv, NextInv, PTL DEF Spec

(***************************************************************************)
(* The theorems.                                                           *)
(***************************************************************************)
\* Every reachable state of the gate has its type.
THEOREM TypeCorrect == Spec => []TypeOK
  BY Invariance, PTL DEF IInv

\* Only bodies exactly as Stripe signed them are recorded, and nothing is said
\* of the content of any other (verify_and_parse).
THEOREM GenuineBodies == Spec => []OnlyGenuineBodies
<1>1. IInv => OnlyGenuineBodies
  <2> SUFFICES ASSUME IInv
               PROVE  OnlyGenuineBodies
    OBVIOUS
  <2>1. \A row \in receipts : row.intact
    BY DEF IInv, LedgerInv, Genuine
  <2>2. ASSUME NEW g \in Gateway,
               call[g].answer \in {"InvalidEvent", "Verified", "Accepted", "Ignored", "Duplicate"}
        PROVE  call[g].msg.intact
    <3>1. call[g].pc \in {"record", "answer"}
      BY <2>2, GateAssumption DEF IInv, TypeOK, CallInv, Answers
    <3> QED
      BY <2>2, <3>1 DEF IInv, CallInv
  <2> QED
    BY <2>1, <2>2 DEF OnlyGenuineBodies
<1> QED
  BY <1>1, Invariance, PTL

\* A recorded event has had its effects once, and nothing else had any
\* (record_webhook).
THEOREM EffectsOnce == Spec => []EffectsOncePerReceipt
  BY Invariance, PTL DEF IInv, LedgerInv

\* Whoever activates an Instance, its roles, prices and meters are unambiguous
\* (validate before activate).
THEOREM ActiveIsSound == Spec => []ActiveIsUnambiguous
<1>1. IInv => ActiveIsUnambiguous
  BY GateAssumption, ValidIsUnambiguous DEF IInv, TypeOK, ActiveIsUnambiguous
<1> QED
  BY <1>1, Invariance, PTL

\* ingest_webhook is the inbox: an event is taken at most once and only if this
\* Instance can take it, and no event is acknowledged that is not recorded.
THEOREM GateImplementsInbox == Spec => ImplementsInbox
<1>1. Init => Inbox!Init
  BY DEF Init, Inbox!Init, Takeable
<1>2. IInv /\ [Next]_vars => [Inbox!Next]_(Inbox!vars)
  <2> SUFFICES ASSUME IInv, [Next]_vars
               PROVE  [Inbox!Next]_(Inbox!vars)
    OBVIOUS
  <2> USE DEF Inbox!vars
  <2>1. ASSUME UNCHANGED env, UNCHANGED db, UNCHANGED acked
        PROVE  UNCHANGED Inbox!vars
    BY <2>1, SameGenuine DEF db
  <2>2. ASSUME NEW g \in Gateway, Record(g) \/ RecordFails(g)
        PROVE  [Inbox!Next]_(Inbox!vars)
    <3> DEFINE row == call[g].msg
    <3>1. row \in Genuine /\ UNCHANGED env /\ UNCHANGED acked
      BY <2>2 DEF Record, RecordFails, IInv, CallInv
    <3>2. CASE UNCHANGED db
      BY <2>1, <3>1, <3>2
    <3>3. CASE Commit(row)
      <4>1. {r.event : r \in receipts'} = {r.event : r \in receipts} \cup {row.event}
        BY <3>1, <3>3, CommitWhole
      <4>2. row.event \in Takeable /\ row.event \in Event
        BY <3>1 DEF Genuine, Rows
      <4>3. CASE row.event \in {r.event : r \in receipts}
        BY <3>1, <4>1, <4>3, SameGenuine
      <4>4. CASE row.event \notin {r.event : r \in receipts}
        <5>1. PICK e \in Event : e = row.event
          BY <4>2
        <5>2. Inbox!Take(e)
          BY <3>1, <4>1, <4>2, <4>4, <5>1, SameGenuine DEF Inbox!Take
        <5>3. Inbox!Next
          BY <5>2 DEF Inbox!Next
        <5> QED
          BY <5>3
      <4> QED
        BY <4>3, <4>4
    <3> QED
      BY <2>2, <3>2, <3>3 DEF Record, RecordFails
  <2>3. ASSUME NEW g \in Gateway, Answer(g)
        PROVE  [Inbox!Next]_(Inbox!vars)
    <3>1. UNCHANGED env /\ UNCHANGED db
      BY <2>3 DEF Answer
    <3>2. CASE ~Success(call[g].answer)
      BY <2>1, <2>3, <3>1, <3>2 DEF Answer
    <3>3. CASE Success(call[g].answer)
      <4> DEFINE e == call[g].msg.event
      <4>1. call[g].msg \in receipts /\ acked' = acked \cup {e}
        BY <2>3, <3>3 DEF Answer, IInv, CallInv
      <4>2. e \in Event /\ e \in {row.event : row \in receipts}
        BY <4>1 DEF IInv, TypeOK, Rows
      <4>3. Inbox!Acknowledge(e)
        BY <3>1, <4>1, <4>2, SameGenuine DEF Inbox!Acknowledge, db
      <4> QED
        BY <4>2, <4>3 DEF Inbox!Next
    <3> QED
      BY <3>2, <3>3
  <2>4. CASE Next
    <3>1. ASSUME NEW e \in Event, Send(e)
          PROVE  UNCHANGED Inbox!vars
      BY <2>1, <3>1 DEF Send
    <3>2. ASSUME NEW g \in Gateway, NEW e \in Event, NEW n \in Caller,
                 Deliver(g, e, n) \/ DeliverAmiss(g, e, n)
          PROVE  UNCHANGED Inbox!vars
      BY <2>1, <3>2 DEF Deliver, DeliverAmiss, Take
    <3>3. ASSUME NEW g \in Gateway, Verify(g) \/ Abandon(g)
          PROVE  UNCHANGED Inbox!vars
      BY <2>1, <3>3 DEF Verify, Abandon
    <3>4. ASSUME \/ Activate \/ Deactivate \/ Crash
                 \/ Roll \/ StoreSecret \/ ExpireOld \/ Tick
          PROVE  UNCHANGED Inbox!vars
      BY <2>1, <3>4 DEF Activate, Deactivate, Crash, Roll, StoreSecret, ExpireOld, Tick
    <3> QED
      BY <2>2, <2>3, <2>4, <3>1, <3>2, <3>3, <3>4 DEF Next
  <2>5. CASE UNCHANGED vars
    BY <2>1, <2>5 DEF vars
  <2> QED
    BY <2>4, <2>5
<1> QED
  BY <1>1, <1>2, Invariance, PTL DEF Spec, ImplementsInbox, Inbox!Spec

(***************************************************************************)
(* The signing secret.                                                     *)
(***************************************************************************)
\* Whatever the secret store and the plugin hold, Stripe signs with it: the old
\* secret expires only when the plugin holds the new one, and by then the store
\* has nothing else to give it.
KeyInv ==
    /\ stored \in Range(signing)
    /\ held # None => held \in Range(signing)
    /\ held = NewKey => stored = NewKey

\* The secrets Stripe may sign with.
LEMMA SigningRange ==
    ASSUME NEW S
    PROVE  /\ S = <<OldKey>> => Range(S) = {OldKey}
           /\ S = <<NewKey, OldKey>> => Range(S) = {OldKey, NewKey}
           /\ S = <<NewKey>> => Range(S) = {NewKey}
  BY DEF Range

LEMMA KeyInit == Init => KeyInv
  BY SigningRange, GateAssumption DEF Init, KeyInv, Key

LEMMA KeyNext == TypeOK /\ KeyInv /\ [Next]_vars => KeyInv'
<1> SUFFICES ASSUME TypeOK, KeyInv, [Next]_vars
             PROVE  KeyInv'
  OBVIOUS
<1>0. \/ signing = <<OldKey>> /\ Len(signing) = 1 /\ Range(signing) = {OldKey}
      \/ signing = <<NewKey, OldKey>> /\ Len(signing) = 2 /\ Range(signing) = {OldKey, NewKey}
      \/ signing = <<NewKey>> /\ Len(signing) = 1 /\ Range(signing) = {NewKey}
  BY SigningRange DEF TypeOK
<1>1. CASE UNCHANGED keys
  BY <1>1 DEF KeyInv, keys
<1>2. CASE Activate
  BY <1>2 DEF KeyInv, Activate
<1>3. CASE Deactivate \/ Crash
  BY <1>3, GateAssumption DEF KeyInv, Deactivate, Crash, Key
<1>4. CASE Roll
  <2>1. Range(signing') = {OldKey, NewKey}
    BY <1>4, SigningRange DEF Roll
  <2> QED
    BY <1>4, <2>1, GateAssumption DEF KeyInv, Roll, TypeOK, Key
<1>5. CASE StoreSecret
  BY <1>0, <1>5 DEF KeyInv, StoreSecret
<1>6. CASE ExpireOld
  <2>1. Range(signing') = {NewKey}
    BY <1>6, SigningRange DEF ExpireOld
  <2> QED
    BY <1>6, <2>1 DEF KeyInv, ExpireOld
<1>7. ASSUME \/ \E e \in Event : Send(e)
             \/ \E g \in Gateway, e \in Event, n \in Caller :
                   Deliver(g, e, n) \/ DeliverAmiss(g, e, n)
             \/ \E g \in Gateway :
                   Verify(g) \/ Record(g) \/ RecordFails(g) \/ Answer(g) \/ Abandon(g)
             \/ Tick
             \/ UNCHANGED vars
      PROVE  UNCHANGED keys
  BY <1>7 DEF Send, Deliver, DeliverAmiss, Take, Verify, Record, RecordFails, Answer,
              Abandon, Tick, vars
<1> QED
  BY <1>1, <1>2, <1>3, <1>4, <1>5, <1>6, <1>7 DEF Next

\* A signed header has the time of signing as its one t, no field without "=",
\* and a MAC under every secret Stripe signs with.
LEMMA HeaderFields ==
    ASSUME TypeOK, NEW e \in Event
    PROVE  /\ Named(Header(e), "bare") = {}
           /\ Named(Header(e), "t") = {1}
           /\ Header(e)[1].value = SignedAt
           /\ \A k \in Range(signing) : \E i \in Named(Header(e), "v1") :
                 Header(e)[i].value = [key |-> k, stamp |-> SignedAt, event |-> e]
<1> DEFINE h == Header(e)
           n == Len(Macs(e))
<1>1. h = <<Field("t", SignedAt)>> \o Macs(e) \o <<Field("v0", None)>>
  BY DEF Header, Macs
<1>2. n \in Nat /\ DOMAIN signing = 1..n
  BY FieldsType
<1> HIDE DEF h
<1>3. /\ DOMAIN h = 1..(n + 2)
      /\ h[1] = Field("t", SignedAt)
      /\ \A i \in 1..n : h[i + 1] = Macs(e)[i]
      /\ h[n + 2] = Field("v0", None)
  BY <1>1, FieldsType
<1>4. \A i \in 1..n :
        h[i + 1] = Field("v1", [key |-> signing[i], stamp |-> SignedAt, event |-> e])
  BY <1>2, <1>3 DEF Macs
<1>5. h[1].name = "t" /\ h[1].value = SignedAt /\ h[n + 2].name = "v0"
  BY <1>3 DEF Field
<1>6. \A i \in 1..n :
        /\ h[i + 1].name = "v1"
        /\ h[i + 1].value = [key |-> signing[i], stamp |-> SignedAt, event |-> e]
  <2>1. \A v : Field("v1", v).name = "v1" /\ Field("v1", v).value = v
    BY DEF Field
  <2> QED
    BY <1>4, <2>1
<1>7. \A i \in DOMAIN h : i = 1 \/ i = n + 2 \/ \E j \in 1..n : i = j + 1
  <2> SUFFICES ASSUME NEW i \in 1..(n + 2), i # 1, i # n + 2
               PROVE  i - 1 \in 1..n /\ i = (i - 1) + 1
    BY <1>3
  <2> QED
    BY <1>2
<1>8. Named(h, "bare") = {} /\ Named(h, "t") = {1}
  <2>1. \A i \in DOMAIN h : h[i].name # "bare" /\ (h[i].name = "t" => i = 1)
    BY <1>5, <1>6, <1>7
  <2>2. 1 \in DOMAIN h
    BY <1>2, <1>3
  <2> QED
    BY <1>5, <2>1, <2>2 DEF Named
<1>9. ASSUME NEW k \in Range(signing)
      PROVE  \E i \in Named(h, "v1") :
                h[i].value = [key |-> k, stamp |-> SignedAt, event |-> e]
  <2>1. PICK j \in 1..n : signing[j] = k
    BY <1>2 DEF Range
  <2>2. j + 1 \in DOMAIN h
    BY <1>2, <1>3
  <2>3. j + 1 \in Named(h, "v1")
    BY <1>6, <2>2 DEF Named
  <2> QED
    BY <1>6, <2>1, <2>3
<1> QED
  BY <1>5, <1>8, <1>9 DEF h

\* A valid tolerance is a number.
LEMMA ValidTolerance == \A c : Valid(c) => c.signature_tolerance_seconds \in Int
<1> SUFFICES ASSUME NEW c, Valid(c)
             PROVE  c.signature_tolerance_seconds \in Int
  OBVIOUS
<1>1. c.signature_tolerance_seconds \in 60..900
  BY SMT DEF Valid, BoundsValid
<1> QED
  BY <1>1, SMT

\* At any point of a rotation and of the Instance's life, what Stripe signs now
\* of an event this Instance can take is verified, at once and after Transit
\* seconds, if the clocks agree that far (verify_and_parse: any v1, the secret
\* held since activation, the whole tolerance).
THEOREM RetryPasses == Spec => []RetryWouldPass
<1>1. TypeOK /\ Valid(config) /\ KeyInv => RetryWouldPass
  <2> SUFFICES ASSUME TypeOK, Valid(config), KeyInv, held # None, NEW e \in Takeable,
                      NEW n \in Caller, Allowed(config, "webhook", n),
                      NEW age \in {SignedAt, Transit}, ClocksAgree(age)
               PROVE  Verdict(n, [Signed(e) EXCEPT !.age = age]) = "Verified"
    BY DEF RetryWouldPass
  <2> DEFINE x == content[e]
             m == [Signed(e) EXCEPT !.age = age]
  <2>1. e \in Event /\ x.size <= config.max_webhook_body_bytes /\ x.readable
        /\ x.live = config.livemode /\ TargetReadable(x) /\ TargetValid(x)
    BY DEF Takeable
  <2>2. m.event = e /\ m.intact /\ m.fields = Header(e) /\ m.age = age
    BY DEF Signed
  <2>3. /\ Named(m.fields, "bare") = {}
        /\ Named(m.fields, "t") = {1}
        /\ m.fields[1].value = SignedAt
        /\ \E i \in Named(m.fields, "v1") :
              m.fields[i].value = [key |-> held, stamp |-> SignedAt, event |-> e]
    BY <2>1, <2>2, HeaderFields DEF KeyInv
  <2> HIDE DEF m
  <2>4. Stamp(m.fields) = SignedAt
    BY <2>3 DEF Stamp
  <2>5. HeaderReadable(m.fields)
    BY <2>3 DEF HeaderReadable, Named, SignedAt
  <2>6. Verifies(m)
    BY <2>2, <2>3, <2>4 DEF Verifies
  <2>7. ~(x.size > config.max_webhook_body_bytes)
    BY <2>1, ValidSize, GateAssumption, SMT DEF TypeOK, Contents
  <2>8. Fresh(m)
    <3>1. age \in Nat /\ lag \in Int /\ config.signature_tolerance_seconds \in Int
      BY GateAssumption, ValidTolerance DEF TypeOK, SignedAt
    <3>2. Past(m) = age + lag - 0
      BY <2>2, <2>4 DEF Past, SignedAt
    <3> QED
      BY <3>1, <3>2, SMT DEF Fresh, ClocksAgree
  <2> QED
    BY <2>1, <2>2, <2>5, <2>6, <2>7, <2>8 DEF Verdict, m
<1>2. IInv => TypeOK /\ Valid(config)
  BY DEF IInv
<1> QED
  BY <1>1, <1>2, KeyInit, KeyNext, Invariance, PTL DEF Spec
==============================================================================
