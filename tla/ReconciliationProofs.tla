------------------------ MODULE ReconciliationProofs ------------------------
(***************************************************************************)
(* Machine-checked proofs about Reconciliation, for every set of workers,  *)
(* subscriptions, people and features and every way calls may end.         *)
(***************************************************************************)
EXTENDS Reconciliation, TLAPS

-----------------------------------------------------------------------------
(* Types, by group of variables.                                           *)

StripeTypes ==
    /\ canon \in [Sub -> [status : Status \cup {"none"}, price : Price \cup {None},
                          version : 0..MaxVersion]]
    /\ seen \subseteq Event

SubjectTypes ==
    /\ link \in [Person -> Sub \cup {None}]
    /\ proj \in [Person -> [status : Status \cup {"none"},
                            alias : DOMAIN Catalog \cup {None},
                            ent : {"pending", "granted", "revoked", "failed"}]]

RowTypes ==
    /\ state \in [Sub -> {"absent", "pending", "running", "converged"}]
    /\ holder \in [Sub -> Worker \cup {None}]
    /\ expired \in [Sub -> BOOLEAN]
    /\ older \in [Sub -> SUBSET Sub]
    /\ basis \in [Sub -> Nat]
    /\ \A s \in Sub : state[s] = "running" <=> holder[s] # None
    /\ \A s \in Sub : expired[s] => state[s] = "running"

GrantTypes ==
    /\ bindings \in [Sub -> SUBSET Feature]
    /\ grants \in [Person -> SUBSET Feature]

\* A worker that is not idle has a job, and one between a remote call and its
\* store call a feature.
Sensible(r) ==
    /\ r \in Work
    /\ r.pc # "idle" => r.job \in Sub
    /\ r.pc \in {"unbind", "bind"} => r.feature \in Feature

WorkTypes ==
    /\ work \in [Worker -> Work]
    /\ \A w \in Worker : Sensible(work[w])

TypeInv == StripeTypes /\ SubjectTypes /\ RowTypes /\ GrantTypes /\ WorkTypes

LEMMA TypeInvTypes == TypeInv => TypeOK
  BY DEF TypeInv, StripeTypes, SubjectTypes, RowTypes, GrantTypes, WorkTypes, TypeOK

LEMMA UnbornTypes == Unborn \in [status : Status \cup {"none"}, price : Price \cup {None},
                                 version : 0..MaxVersion]
  BY ReconciliationAssumption DEF Unborn

LEMMA IdleSensible == Sensible(Idle)
  BY UnbornTypes DEF Sensible, Idle, Work, Unborn

LEMMA TypeInit == Init => TypeInv
<1> SUFFICES ASSUME Init PROVE TypeInv
  OBVIOUS
<1>1. StripeTypes
  BY UnbornTypes DEF Init, StripeTypes
<1>2. SubjectTypes
  BY DEF Init, SubjectTypes, NoRow
<1>3. RowTypes
  BY DEF Init, RowTypes
<1>4. GrantTypes
  BY DEF Init, GrantTypes
<1>5. WorkTypes
  BY IdleSensible DEF Init, WorkTypes, Sensible
<1> QED
  BY <1>1, <1>2, <1>3, <1>4, <1>5 DEF TypeInv

(* The building blocks of the actions.                                     *)

LEMMA WorkUpdate ==
  ASSUME WorkTypes, NEW w \in Worker, NEW r, Sensible(r), work' = [work EXCEPT ![w] = r]
  PROVE  WorkTypes'
  BY DEF WorkTypes, Sensible

LEMMA IdleTypes ==
  ASSUME WorkTypes, NEW w \in Worker, work' = [work EXCEPT ![w] = Idle]
  PROVE  WorkTypes'
  BY IdleSensible, WorkUpdate

LEMMA FailingSensible ==
  ASSUME WorkTypes, NEW w \in Worker, work[w].pc # "idle"
  PROVE  Sensible(Failing(w))
  BY IdleSensible DEF WorkTypes, Sensible, Failing, Idle, Work

LEMMA DesiredTypes ==
  ASSUME NEW c
  PROVE  Desired(c) \subseteq Feature
  BY ReconciliationAssumption DEF Desired, Entitling, Mapped

LEMMA EnqueueTypes ==
  ASSUME RowTypes, NEW s \in Sub, Enqueue(s)
  PROVE  RowTypes'
  BY ReconciliationAssumption DEF RowTypes, Enqueue, Touch

LEMMA ConvergeTypes ==
  ASSUME RowTypes, WorkTypes, NEW w \in Worker, NEW s \in Sub, Converge(w, s)
  PROVE  RowTypes'
<1>1. CASE holder[s] = w
  <2>1. work[w].read.version \in Nat
    BY DEF WorkTypes, Work
  <2>2. basis' \in [Sub -> Nat]
    BY <1>1, <2>1 DEF RowTypes, Converge
  <2>3. /\ state' = [state EXCEPT ![s] = "converged"]
        /\ holder' = [holder EXCEPT ![s] = None]
        /\ expired' = [expired EXCEPT ![s] = FALSE]
        /\ Touch(s)
    BY <1>1 DEF Converge
  <2> QED
    BY <2>2, <2>3 DEF RowTypes, Touch
<1>2. CASE holder[s] # w
  BY <1>2 DEF RowTypes, Converge, rowVars
<1> QED
  BY <1>1, <1>2

LEMMA StripeKept == StripeTypes /\ UNCHANGED <<canon, seen>> => StripeTypes'
  BY DEF StripeTypes

LEMMA SubjectKept == SubjectTypes /\ UNCHANGED <<link, proj>> => SubjectTypes'
  BY DEF SubjectTypes

LEMMA RowKept == RowTypes /\ UNCHANGED rowVars => RowTypes'
  BY DEF RowTypes, rowVars

LEMMA GrantKept == GrantTypes /\ UNCHANGED <<bindings, grants>> => GrantTypes'
  BY DEF GrantTypes

LEMMA WorkKept == WorkTypes /\ UNCHANGED work => WorkTypes'
  BY DEF WorkTypes

\* What a worker's call leaves in its slot: on to the next step, or to a retry.
LEMMA CallTypes ==
  ASSUME WorkTypes, NEW w \in Worker, work[w].pc # "idle", NEW r, Sensible(r),
         NEW b \in BOOLEAN, work' = [work EXCEPT ![w] = IF b THEN r ELSE Failing(w)]
  PROVE  WorkTypes'
  BY FailingSensible, WorkUpdate

(* The actions.                                                            *)

LEMMA TypeNext == TypeInv /\ [Next]_vars => TypeInv'
<1> SUFFICES ASSUME TypeInv, [Next]_vars PROVE TypeInv'
  OBVIOUS
<1> USE DEF TypeInv
<1>1. ASSUME NEW s \in Sub, Subscribe(s)
      PROVE  TypeInv'
  <2>1. StripeTypes'
    BY <1>1, ReconciliationAssumption DEF StripeTypes, Subscribe, Status
  <2> QED
    BY <1>1, <2>1, SubjectKept, RowKept, GrantKept, WorkKept DEF Subscribe
<1>2. ASSUME NEW s \in Sub, Change(s)
      PROVE  TypeInv'
  <2>1. StripeTypes'
    BY <1>2, ReconciliationAssumption DEF StripeTypes, Change
  <2> QED
    BY <1>2, <2>1, SubjectKept, RowKept, GrantKept, WorkKept DEF Change
<1>3. ASSUME NEW s \in Sub, Expire(s)
      PROVE  TypeInv'
  <2>1. RowTypes'
    BY <1>3 DEF RowTypes, Expire
  <2> QED
    BY <1>3, <2>1, StripeKept, SubjectKept, GrantKept, WorkKept DEF Expire
<1>4. ASSUME NEW e \in Event, Ingest(e)
      PROVE  TypeInv'
  <2>1. e.sub \in Sub
    BY DEF Event
  <2>2. StripeTypes'
    BY <1>4 DEF StripeTypes, Ingest
  <2>3. SubjectTypes'
    <3>1. CASE e.kind = "checkout"
      <4>1. PersonOf[e.sub] \in Person /\ PlanOf[e.sub] \in DOMAIN Catalog
        BY <2>1, ReconciliationAssumption
      <4> QED
        BY <1>4, <2>1, <3>1, <4>1 DEF SubjectTypes, Ingest, UpsertSubject, Status
    <3>2. CASE e.kind # "checkout"
      BY <1>4, <3>2, SubjectKept DEF Ingest
    <3> QED
      BY <3>1, <3>2
  <2>4. RowTypes'
    BY <1>4, <2>1, EnqueueTypes DEF Ingest
  <2> QED
    BY <1>4, <2>2, <2>3, <2>4, GrantKept, WorkKept DEF Ingest
<1>5. ASSUME NEW e \in Event, Redeliver(e)
      PROVE  TypeInv'
  BY <1>5, StripeKept, SubjectKept, RowKept, GrantKept, WorkKept DEF Redeliver, vars
<1>6. ASSUME NEW w \in Worker, Claim(w)
      PROVE  TypeInv'
  <2>1. PICK s \in Sub : /\ state' = [state EXCEPT ![s] = "running"]
                         /\ holder' = [holder EXCEPT ![s] = w]
                         /\ expired' = [expired EXCEPT ![s] = FALSE]
                         /\ Touch(s)
                         /\ work' = [work EXCEPT ![w].pc = "fetch", ![w].job = s]
    BY <1>6 DEF Claim
  <2>2. RowTypes'
    BY <1>6, <2>1, ReconciliationAssumption DEF RowTypes, Claim, Touch
  <2>3. WorkTypes'
    <3> DEFINE r == [work[w] EXCEPT !.pc = "fetch", !.job = s]
    <3>1. work[w] \in Work
      BY DEF WorkTypes
    <3>2. Sensible(r)
      BY <3>1 DEF Sensible, Work
    <3>3. work' = [work EXCEPT ![w] = r]
      BY <2>1 DEF WorkTypes
    <3> QED
      BY <3>2, <3>3, WorkUpdate
  <2> QED
    BY <1>6, <2>2, <2>3, StripeKept, SubjectKept, GrantKept DEF Claim
<1>7. ASSUME NEW w \in Worker, Fetch(w)
      PROVE  TypeInv'
  <2> DEFINE r == [work[w] EXCEPT !.pc = "find", !.read = canon[work[w].job]]
  <2>1. Sensible(r)
    <3>1. work[w] \in Work /\ work[w].job \in Sub
      BY <1>7 DEF WorkTypes, Sensible, Fetch
    <3>2. canon[work[w].job] \in [status : Status \cup {"none"}, price : Price \cup {None},
                                  version : Nat]
      BY <3>1, ReconciliationAssumption DEF StripeTypes
    <3> QED
      BY <3>1, <3>2 DEF Sensible, Work
  <2>2. PICK reply \in Replies :
            work' = [work EXCEPT ![w] = IF reply = "ok" THEN r ELSE Failing(w)]
    BY <1>7 DEF Fetch, WorkTypes
  <2>3. WorkTypes'
    BY <1>7, <2>1, <2>2, CallTypes DEF Fetch
  <2> QED
    BY <1>7, <2>3, StripeKept, SubjectKept, RowKept, GrantKept DEF Fetch
<1>8. ASSUME NEW w \in Worker, FindSubject(w)
      PROVE  TypeInv'
  <2> DEFINE r == [work[w] EXCEPT !.pc = "load"]
  <2>1. Sensible(r)
    BY <1>8 DEF WorkTypes, Sensible, Work, FindSubject
  <2>2. work' = [work EXCEPT ![w] = IF Linked(work[w].job) THEN r ELSE Failing(w)]
    BY <1>8 DEF FindSubject, WorkTypes
  <2>3. WorkTypes'
    BY <1>8, <2>1, <2>2, CallTypes DEF FindSubject, Linked
  <2> QED
    BY <1>8, <2>3, StripeKept, SubjectKept, RowKept, GrantKept DEF FindSubject
<1>9. ASSUME NEW w \in Worker, LoadBindings(w)
      PROVE  TypeInv'
  <2> DEFINE want == Desired(work[w].read)
             drop == bindings[work[w].job] \ want
  <2>1. want \subseteq Feature /\ drop \subseteq Feature
    <3>1. work[w].job \in Sub
      BY <1>9 DEF LoadBindings, WorkTypes, Sensible
    <3> QED
      BY <3>1, DesiredTypes DEF GrantTypes
  <2>2. work' = [work EXCEPT ![w].pc = Stage(drop, want), ![w].drop = drop, ![w].put = want]
    BY <1>9 DEF LoadBindings
  <2>3. WorkTypes'
    <3> DEFINE stage == Stage(drop, want)
               r == [work[w] EXCEPT !.pc = stage, !.drop = drop, !.put = want]
    <3>1. work[w] \in Work /\ work[w].job \in Sub
      BY <1>9 DEF WorkTypes, Sensible, LoadBindings
    <3>2. stage \in {"revoke", "put", "check"}
      BY DEF Stage
    <3>3. work' = [work EXCEPT ![w] = r]
      BY <2>2 DEF WorkTypes
    <3> HIDE DEF want, drop, stage
    <3>4. Sensible(r)
      BY <2>1, <3>1, <3>2 DEF Sensible, Work
    <3> QED
      BY <3>3, <3>4, WorkUpdate
  <2> QED
    BY <1>9, <2>3, StripeKept, SubjectKept, RowKept, GrantKept DEF LoadBindings
<1>10. ASSUME NEW w \in Worker, RevokeGrant(w)
      PROVE  TypeInv'
  <2>1. PICK f \in work[w].drop, reply \in Replies :
          /\ grants' = IF Applied(reply)
                       THEN [grants EXCEPT ![PersonOf[work[w].job]] = @ \ {f}]
                       ELSE grants
          /\ work' = [work EXCEPT ![w] = IF Proceeds(reply)
                                         THEN [@ EXCEPT !.pc = "unbind", !.feature = f]
                                         ELSE Failing(w)]
    BY <1>10 DEF RevokeGrant
  <2>2. f \in Feature
    BY DEF WorkTypes, Work
  <2>3. GrantTypes'
    BY <1>10, <2>1, <2>2 DEF GrantTypes, RevokeGrant
  <2> DEFINE r == [work[w] EXCEPT !.pc = "unbind", !.feature = f]
  <2>4. Sensible(r)
    BY <1>10, <2>2 DEF WorkTypes, Sensible, Work, RevokeGrant
  <2>5. work' = [work EXCEPT ![w] = IF Proceeds(reply) THEN r ELSE Failing(w)]
    BY <2>1 DEF WorkTypes
  <2>6. WorkTypes'
    BY <1>10, <2>4, <2>5, CallTypes DEF RevokeGrant, Proceeds
  <2> QED
    BY <1>10, <2>3, <2>6, StripeKept, SubjectKept, RowKept DEF RevokeGrant
<1>11. ASSUME NEW w \in Worker, DeleteBinding(w)
      PROVE  TypeInv'
  <2> DEFINE left == work[w].drop \ {work[w].feature}
             stage == Stage(left, work[w].put)
             r == [work[w] EXCEPT !.pc = stage, !.drop = left, !.feature = None]
  <2>1. PICK reply \in Replies :
          /\ bindings' = IF Applied(reply)
                         THEN [bindings EXCEPT ![work[w].job] = @ \ {work[w].feature}]
                         ELSE bindings
          /\ work' = [work EXCEPT ![w] = IF Proceeds(reply) THEN r ELSE Failing(w)]
    BY <1>11 DEF DeleteBinding, WorkTypes
  <2>2. work[w].feature \in Feature
    BY <1>11 DEF WorkTypes, Sensible, DeleteBinding
  <2>3. GrantTypes'
    BY <1>11, <2>1, <2>2 DEF GrantTypes, DeleteBinding
  <2>4. Sensible(r)
    <3>1. work[w] \in Work /\ work[w].job \in Sub
      BY <1>11 DEF WorkTypes, Sensible, DeleteBinding
    <3>2. stage \in {"revoke", "put", "check"}
      BY DEF Stage
    <3>3. left \subseteq Feature
      BY <3>1 DEF Work
    <3> HIDE DEF stage, left
    <3> QED
      BY <3>1, <3>2, <3>3 DEF Sensible, Work
  <2>5. WorkTypes'
    BY <1>11, <2>1, <2>4, CallTypes DEF DeleteBinding, Proceeds
  <2> QED
    BY <1>11, <2>3, <2>5, StripeKept, SubjectKept, RowKept DEF DeleteBinding
<1>12. ASSUME NEW w \in Worker, PutGrant(w)
      PROVE  TypeInv'
  <2>1. PICK f \in work[w].put, reply \in Replies :
          /\ grants' = IF Applied(reply)
                       THEN [grants EXCEPT ![PersonOf[work[w].job]] = @ \cup {f}]
                       ELSE grants
          /\ work' = [work EXCEPT ![w] = IF Proceeds(reply)
                                         THEN [@ EXCEPT !.pc = "bind", !.feature = f]
                                         ELSE Failing(w)]
    BY <1>12 DEF PutGrant
  <2>2. f \in Feature
    BY DEF WorkTypes, Work
  <2>3. GrantTypes'
    BY <1>12, <2>1, <2>2 DEF GrantTypes, PutGrant
  <2> DEFINE r == [work[w] EXCEPT !.pc = "bind", !.feature = f]
  <2>4. Sensible(r)
    BY <1>12, <2>2 DEF WorkTypes, Sensible, Work, PutGrant
  <2>5. work' = [work EXCEPT ![w] = IF Proceeds(reply) THEN r ELSE Failing(w)]
    BY <2>1 DEF WorkTypes
  <2>6. WorkTypes'
    BY <1>12, <2>4, <2>5, CallTypes DEF PutGrant, Proceeds
  <2> QED
    BY <1>12, <2>3, <2>6, StripeKept, SubjectKept, RowKept DEF PutGrant
<1>13. ASSUME NEW w \in Worker, PutBinding(w)
      PROVE  TypeInv'
  <2> DEFINE left == work[w].put \ {work[w].feature}
             stage == Stage({}, left)
             r == [work[w] EXCEPT !.pc = stage, !.put = left, !.feature = None]
  <2>1. PICK reply \in Replies :
          /\ bindings' = IF Applied(reply)
                         THEN [bindings EXCEPT ![work[w].job] = @ \cup {work[w].feature}]
                         ELSE bindings
          /\ work' = [work EXCEPT ![w] = IF Proceeds(reply) THEN r ELSE Failing(w)]
    BY <1>13 DEF PutBinding, WorkTypes
  <2>2. work[w].feature \in Feature
    BY <1>13 DEF WorkTypes, Sensible, PutBinding
  <2>3. GrantTypes'
    BY <1>13, <2>1, <2>2 DEF GrantTypes, PutBinding
  <2>4. Sensible(r)
    <3>1. work[w] \in Work /\ work[w].job \in Sub
      BY <1>13 DEF WorkTypes, Sensible, PutBinding
    <3>2. stage \in {"revoke", "put", "check"}
      BY DEF Stage
    <3>3. left \subseteq Feature
      BY <3>1 DEF Work
    <3> HIDE DEF stage, left
    <3> QED
      BY <3>1, <3>2, <3>3 DEF Sensible, Work
  <2>5. WorkTypes'
    BY <1>13, <2>1, <2>4, CallTypes DEF PutBinding, Proceeds
  <2> QED
    BY <1>13, <2>3, <2>5, StripeKept, SubjectKept, RowKept DEF PutBinding
<1>14. ASSUME NEW w \in Worker, CheckOwner(w)
      PROVE  TypeInv'
  <2>1. WorkTypes'
    <3>1. CASE Holds(w, work[w].job) /\ ~expired[work[w].job]
      BY <1>14, <3>1 DEF WorkTypes, Sensible, Work, CheckOwner
    <3>2. CASE ~(Holds(w, work[w].job) /\ ~expired[work[w].job])
      BY <1>14, <3>2, IdleTypes DEF CheckOwner
    <3> QED
      BY <3>1, <3>2
  <2> QED
    BY <1>14, <2>1, StripeKept, SubjectKept, RowKept, GrantKept DEF CheckOwner
<1>15. ASSUME NEW w \in Worker, WriteConverged(w)
      PROVE  TypeInv'
  <2>1. work[w].job \in Sub
    BY <1>15 DEF WorkTypes, Sensible, WriteConverged
  <2>2. WorkTypes'
    BY <1>15, IdleTypes DEF WriteConverged
  <2>3. CASE Linked(work[w].job)
    <3>1. Projection(work[w].read) \in [status : Status \cup {"none"},
              alias : DOMAIN Catalog \cup {None},
              ent : {"pending", "granted", "revoked", "failed"}]
      BY DEF WorkTypes, Work, Projection, EntitlementState, Mapped
    <3>2. SubjectTypes'
      BY <1>15, <2>1, <2>3, <3>1, ReconciliationAssumption DEF SubjectTypes, WriteConverged
    <3>3. RowTypes'
      BY <1>15, <2>1, <2>3, ConvergeTypes DEF WriteConverged
    <3> QED
      BY <1>15, <2>2, <3>2, <3>3, StripeKept, GrantKept DEF WriteConverged
  <2>4. CASE ~Linked(work[w].job)
    BY <1>15, <2>2, <2>4, StripeKept, SubjectKept, RowKept, GrantKept DEF WriteConverged
  <2> QED
    BY <2>3, <2>4
<1>16. ASSUME NEW w \in Worker, Retry(w)
      PROVE  TypeInv'
  <2>1. work[w].job \in Sub
    BY <1>16 DEF WorkTypes, Sensible, Retry
  <2>2. RowTypes'
    BY <1>16, <2>1, EnqueueTypes, RowKept DEF Retry
  <2> QED
    BY <1>16, <2>2, IdleTypes, StripeKept, SubjectKept, GrantKept DEF Retry
<1>17. ASSUME NEW w \in Worker, Abandon(w)
      PROVE  TypeInv'
  BY <1>17, IdleTypes, StripeKept, SubjectKept, RowKept, GrantKept DEF Abandon
<1>18. CASE UNCHANGED vars
  BY <1>18, StripeKept, SubjectKept, RowKept, GrantKept, WorkKept DEF vars
<1> QED
  BY <1>1, <1>2, <1>3, <1>4, <1>5, <1>6, <1>7, <1>8, <1>9, <1>10, <1>11, <1>12,
     <1>13, <1>14, <1>15, <1>16, <1>17, <1>18
  DEF Next, Step

LEMMA TypeInvHolds == Spec => []TypeInv
  BY TypeInit, TypeNext, PTL DEF Spec

\* Every variable of Stripe, the tables, the Entitlements plugin and the
\* workers stays in its type, and a row has a lease exactly while it runs.
THEOREM TypeCorrect == Spec => []TypeOK
  BY TypeInvHolds, TypeInvTypes, PTL

-----------------------------------------------------------------------------
(* No event is swallowed.  The invariant adds why: the snapshot of a worker *)
(* that still holds its row is as new as every event recorded for it,       *)
(* because an event that comes later takes the row away.                    *)

Fetched == {"find", "load", "revoke", "unbind", "put", "bind", "check", "write"}

EventsTellThePast == \A e \in seen : e.version <= canon[e.sub].version

HeldSnapshotIsFresh ==
    \A w \in Worker, s \in Sub :
        holder[s] = w /\ work[w].job = s /\ work[w].pc \in Fetched =>
            \A e \in seen : e.sub = s => e.version <= work[w].read.version

FreshInv == EventsTellThePast /\ HeldSnapshotIsFresh /\ NoEventSwallowed

LEMMA FreshInit == Init => FreshInv
  BY DEF Init, FreshInv, EventsTellThePast, HeldSnapshotIsFresh, NoEventSwallowed

\* A worker that moves on with the snapshot it has, or stops.
LEMMA SnapshotKept ==
  ASSUME TypeInv, FreshInv, NEW w \in Worker, NEW r,
         work' = [work EXCEPT ![w] = r], UNCHANGED <<canon, seen, rowVars>>,
         r.pc \in Fetched => /\ work[w].pc \in Fetched
                             /\ r.job = work[w].job
                             /\ r.read = work[w].read
  PROVE  FreshInv'
<1>1. EventsTellThePast' /\ NoEventSwallowed'
  BY DEF FreshInv, EventsTellThePast, NoEventSwallowed, rowVars
<1>2. HeldSnapshotIsFresh'
  <2>1. \A v \in Worker : work'[v] = IF v = w THEN r ELSE work[v]
    BY DEF TypeInv, WorkTypes
  <2> QED
    BY <2>1 DEF FreshInv, HeldSnapshotIsFresh, rowVars
<1> QED
  BY <1>1, <1>2 DEF FreshInv

\* A row that leaves its holder, and a worker that stops.
LEMMA RowReleased ==
  ASSUME TypeInv, FreshInv, NEW w \in Worker, NEW s \in Sub,
         Enqueue(s), work' = [work EXCEPT ![w] = Idle], UNCHANGED <<canon, seen>>
  PROVE  FreshInv'
<1>1. EventsTellThePast'
  BY DEF FreshInv, EventsTellThePast
<1>2. NoEventSwallowed'
  BY DEF FreshInv, NoEventSwallowed, Enqueue, TypeInv, RowTypes
<1>3. HeldSnapshotIsFresh'
  <2>1. \A v \in Worker : work'[v] = IF v = w THEN Idle ELSE work[v]
    BY DEF TypeInv, WorkTypes
  <2>2. \A t \in Sub : holder'[t] = IF t = s THEN None ELSE holder[t]
    BY DEF Enqueue, TypeInv, RowTypes
  <2>3. None \notin Worker
    BY ReconciliationAssumption
  <2> QED
    BY <2>1, <2>2, <2>3 DEF FreshInv, HeldSnapshotIsFresh, Idle, Fetched
<1> QED
  BY <1>1, <1>2, <1>3 DEF FreshInv

LEMMA FreshNext == TypeInv /\ FreshInv /\ [Next]_vars => FreshInv'
<1> SUFFICES ASSUME TypeInv, FreshInv, [Next]_vars PROVE FreshInv'
  OBVIOUS
<1>1. ASSUME NEW s \in Sub, Subscribe(s) \/ Change(s)
      PROVE  FreshInv'
  <2>1. \A t \in Sub : canon'[t].version >= canon[t].version
    <3>1. \A t \in Sub : canon[t].version \in Nat
      BY ReconciliationAssumption DEF TypeInv, StripeTypes
    <3> QED
      BY <1>1, <3>1 DEF Subscribe, Change, TypeInv, StripeTypes
  <2>2. EventsTellThePast'
    <3>1. \A e \in seen : e.sub \in Sub /\ e.version \in Nat
      BY ReconciliationAssumption DEF TypeInv, StripeTypes, Event
    <3>2. \A t \in Sub : canon[t].version \in Nat /\ canon'[t].version \in Nat
      BY <1>1, ReconciliationAssumption DEF Subscribe, Change, TypeInv, StripeTypes
    <3>3. seen' = seen
      BY <1>1 DEF Subscribe, Change
    <3> QED
      BY <2>1, <3>1, <3>2, <3>3 DEF FreshInv, EventsTellThePast
  <2> QED
    BY <1>1, <2>2 DEF Subscribe, Change, rowVars, FreshInv, HeldSnapshotIsFresh,
                      NoEventSwallowed
<1>2. ASSUME NEW s \in Sub, Expire(s)
      PROVE  FreshInv'
  BY <1>2 DEF Expire, FreshInv, EventsTellThePast, HeldSnapshotIsFresh, NoEventSwallowed
<1>3. ASSUME NEW e \in Event, Ingest(e)
      PROVE  FreshInv'
  <2>1. e.sub \in Sub /\ None \notin Worker
    BY ReconciliationAssumption DEF Event
  <2>2. /\ \A t \in Sub : holder'[t] = IF t = e.sub THEN None ELSE holder[t]
        /\ \A t \in Sub : state'[t] = IF t = e.sub THEN "pending" ELSE state[t]
    BY <1>3, <2>1 DEF Ingest, Enqueue, TypeInv, RowTypes
  <2>3. seen' = seen \cup {e} /\ UNCHANGED <<canon, work, basis>>
    BY <1>3 DEF Ingest, Enqueue
  <2>4. EventsTellThePast'
    BY <1>3, <2>3 DEF Ingest, Sent, FreshInv, EventsTellThePast
  <2>5. HeldSnapshotIsFresh'
    BY <2>1, <2>2, <2>3 DEF FreshInv, HeldSnapshotIsFresh
  <2>6. NoEventSwallowed'
    BY <2>2, <2>3 DEF FreshInv, NoEventSwallowed
  <2> QED
    BY <2>4, <2>5, <2>6 DEF FreshInv
<1>4. ASSUME NEW e \in Event, Redeliver(e)
      PROVE  FreshInv'
  BY <1>4 DEF Redeliver, vars, rowVars, FreshInv, EventsTellThePast, HeldSnapshotIsFresh,
              NoEventSwallowed
<1>5. ASSUME NEW w \in Worker, Claim(w)
      PROVE  FreshInv'
  <2>1. PICK s \in Sub : /\ state' = [state EXCEPT ![s] = "running"]
                         /\ holder' = [holder EXCEPT ![s] = w]
                         /\ work' = [work EXCEPT ![w].pc = "fetch", ![w].job = s]
    BY <1>5 DEF Claim
  <2>2. UNCHANGED <<canon, seen, basis>>
    BY <1>5 DEF Claim
  <2>3. /\ \A t \in Sub : holder'[t] = IF t = s THEN w ELSE holder[t]
        /\ \A t \in Sub : state'[t] = IF t = s THEN "running" ELSE state[t]
    BY <2>1 DEF TypeInv, RowTypes
  <2>4. work'[w].pc = "fetch" /\ \A v \in Worker : v # w => work'[v] = work[v]
    BY <2>1 DEF TypeInv, WorkTypes, Work
  <2>5. EventsTellThePast' /\ NoEventSwallowed'
    BY <2>2, <2>3 DEF FreshInv, EventsTellThePast, NoEventSwallowed
  <2>6. HeldSnapshotIsFresh'
    BY <2>2, <2>3, <2>4 DEF FreshInv, HeldSnapshotIsFresh, Fetched
  <2> QED
    BY <2>5, <2>6 DEF FreshInv
<1>6. ASSUME NEW w \in Worker, Fetch(w)
      PROVE  FreshInv'
  <2> DEFINE r == [work[w] EXCEPT !.pc = "find", !.read = canon[work[w].job]]
  <2>1. PICK reply \in Replies :
            work' = [work EXCEPT ![w] = IF reply = "ok" THEN r ELSE Failing(w)]
    BY <1>6 DEF Fetch, TypeInv, WorkTypes
  <2>2. UNCHANGED <<canon, seen, rowVars>>
    BY <1>6 DEF Fetch
  <2>3. CASE reply = "ok"
    <3>1. EventsTellThePast' /\ NoEventSwallowed'
      BY <2>2 DEF FreshInv, EventsTellThePast, NoEventSwallowed, rowVars
    <3>2. /\ \A v \in Worker : v # w => work'[v] = work[v]
          /\ work'[w].job = work[w].job
          /\ work'[w].read = canon[work[w].job]
      BY <2>1, <2>3 DEF TypeInv, WorkTypes, Work
    <3>3. HeldSnapshotIsFresh'
      BY <2>2, <3>2 DEF FreshInv, HeldSnapshotIsFresh, EventsTellThePast, rowVars
    <3> QED
      BY <3>1, <3>3 DEF FreshInv
  <2>4. CASE reply # "ok"
    BY <2>1, <2>2, <2>4, SnapshotKept DEF Failing, Idle, Fetched
  <2> QED
    BY <2>3, <2>4
<1>7. ASSUME NEW w \in Worker, FindSubject(w)
      PROVE  FreshInv'
  <2> DEFINE r == [work[w] EXCEPT !.pc = "load"]
  <2>1. UNCHANGED <<canon, seen, rowVars>> /\ work[w] \in Work /\ work[w].pc = "find"
    BY <1>7 DEF FindSubject, TypeInv, WorkTypes
  <2>2. work' = [work EXCEPT ![w] = IF Linked(work[w].job) THEN r ELSE Failing(w)]
    BY <1>7 DEF FindSubject, TypeInv, WorkTypes
  <2>3. CASE Linked(work[w].job)
    BY <2>1, <2>2, <2>3, SnapshotKept DEF Work, Fetched
  <2>4. CASE ~Linked(work[w].job)
    BY <2>1, <2>2, <2>4, SnapshotKept DEF Failing, Idle, Fetched
  <2> QED
    BY <2>3, <2>4
<1>8. ASSUME NEW w \in Worker, LoadBindings(w)
      PROVE  FreshInv'
  <2> DEFINE want == Desired(work[w].read)
             drop == bindings[work[w].job] \ want
             r == [work[w] EXCEPT !.pc = Stage(drop, want), !.drop = drop, !.put = want]
  <2>1. UNCHANGED <<canon, seen, rowVars>> /\ work[w] \in Work /\ work[w].pc = "load"
    BY <1>8 DEF LoadBindings, TypeInv, WorkTypes
  <2>2. work' = [work EXCEPT ![w] = r]
    BY <1>8 DEF LoadBindings, TypeInv, WorkTypes
  <2>3. r.job = work[w].job /\ r.read = work[w].read
    BY <2>1 DEF Work
  <2> HIDE DEF r
  <2> QED
    BY <2>1, <2>2, <2>3, SnapshotKept DEF Fetched
<1>9. ASSUME NEW w \in Worker, RevokeGrant(w)
      PROVE  FreshInv'
  <2> DEFINE r(f) == [work[w] EXCEPT !.pc = "unbind", !.feature = f]
  <2>1. UNCHANGED <<canon, seen, rowVars>> /\ work[w] \in Work /\ work[w].pc = "revoke"
    BY <1>9 DEF RevokeGrant, TypeInv, WorkTypes
  <2>2. PICK f \in work[w].drop, reply \in Replies :
            work' = [work EXCEPT ![w] = IF Proceeds(reply) THEN r(f) ELSE Failing(w)]
    BY <1>9 DEF RevokeGrant, TypeInv, WorkTypes
  <2>3. CASE Proceeds(reply)
    <3>1. r(f).job = work[w].job /\ r(f).read = work[w].read
      BY <2>1 DEF Work
    <3> QED
      BY <2>1, <2>2, <2>3, <3>1, SnapshotKept DEF Fetched
  <2>4. CASE ~Proceeds(reply)
    BY <2>1, <2>2, <2>4, SnapshotKept DEF Failing, Idle, Fetched
  <2> QED
    BY <2>3, <2>4
<1>10. ASSUME NEW w \in Worker, DeleteBinding(w)
      PROVE  FreshInv'
  <2> DEFINE left == work[w].drop \ {work[w].feature}
             r == [work[w] EXCEPT !.pc = Stage(left, work[w].put), !.drop = left, !.feature = None]
  <2>1. UNCHANGED <<canon, seen, rowVars>> /\ work[w] \in Work /\ work[w].pc = "unbind"
    BY <1>10 DEF DeleteBinding, TypeInv, WorkTypes
  <2>2. PICK reply \in Replies :
            work' = [work EXCEPT ![w] = IF Proceeds(reply) THEN r ELSE Failing(w)]
    BY <1>10 DEF DeleteBinding, TypeInv, WorkTypes
  <2>3. CASE Proceeds(reply)
    <3>1. r.job = work[w].job /\ r.read = work[w].read
      BY <2>1 DEF Work
    <3> QED
      BY <2>1, <2>2, <2>3, <3>1, SnapshotKept DEF Fetched
  <2>4. CASE ~Proceeds(reply)
    BY <2>1, <2>2, <2>4, SnapshotKept DEF Failing, Idle, Fetched
  <2> QED
    BY <2>3, <2>4
<1>11. ASSUME NEW w \in Worker, PutGrant(w)
      PROVE  FreshInv'
  <2> DEFINE r(f) == [work[w] EXCEPT !.pc = "bind", !.feature = f]
  <2>1. UNCHANGED <<canon, seen, rowVars>> /\ work[w] \in Work /\ work[w].pc = "put"
    BY <1>11 DEF PutGrant, TypeInv, WorkTypes
  <2>2. PICK f \in work[w].put, reply \in Replies :
            work' = [work EXCEPT ![w] = IF Proceeds(reply) THEN r(f) ELSE Failing(w)]
    BY <1>11 DEF PutGrant, TypeInv, WorkTypes
  <2>3. CASE Proceeds(reply)
    <3>1. r(f).job = work[w].job /\ r(f).read = work[w].read
      BY <2>1 DEF Work
    <3> QED
      BY <2>1, <2>2, <2>3, <3>1, SnapshotKept DEF Fetched
  <2>4. CASE ~Proceeds(reply)
    BY <2>1, <2>2, <2>4, SnapshotKept DEF Failing, Idle, Fetched
  <2> QED
    BY <2>3, <2>4
<1>12. ASSUME NEW w \in Worker, PutBinding(w)
      PROVE  FreshInv'
  <2> DEFINE left == work[w].put \ {work[w].feature}
             r == [work[w] EXCEPT !.pc = Stage({}, left), !.put = left, !.feature = None]
  <2>1. UNCHANGED <<canon, seen, rowVars>> /\ work[w] \in Work /\ work[w].pc = "bind"
    BY <1>12 DEF PutBinding, TypeInv, WorkTypes
  <2>2. PICK reply \in Replies :
            work' = [work EXCEPT ![w] = IF Proceeds(reply) THEN r ELSE Failing(w)]
    BY <1>12 DEF PutBinding, TypeInv, WorkTypes
  <2>3. CASE Proceeds(reply)
    <3>1. r.job = work[w].job /\ r.read = work[w].read
      BY <2>1 DEF Work
    <3> QED
      BY <2>1, <2>2, <2>3, <3>1, SnapshotKept DEF Fetched
  <2>4. CASE ~Proceeds(reply)
    BY <2>1, <2>2, <2>4, SnapshotKept DEF Failing, Idle, Fetched
  <2> QED
    BY <2>3, <2>4
<1>13. ASSUME NEW w \in Worker, CheckOwner(w)
      PROVE  FreshInv'
  <2>1. UNCHANGED <<canon, seen, rowVars>> /\ work[w] \in Work /\ work[w].pc = "check"
    BY <1>13 DEF CheckOwner, TypeInv, WorkTypes
  <2>2. CASE Holds(w, work[w].job) /\ ~expired[work[w].job]
    <3> DEFINE r == [work[w] EXCEPT !.pc = "write"]
    <3>1. work' = [work EXCEPT ![w] = r]
      BY <1>13, <2>2 DEF CheckOwner, TypeInv, WorkTypes
    <3> QED
      BY <2>1, <3>1, SnapshotKept DEF Work, Fetched
  <2>3. CASE ~(Holds(w, work[w].job) /\ ~expired[work[w].job])
    BY <1>13, <2>1, <2>3, SnapshotKept DEF CheckOwner, Idle, Fetched
  <2> QED
    BY <2>2, <2>3
<1>14. ASSUME NEW w \in Worker, WriteConverged(w)
      PROVE  FreshInv'
  <2> DEFINE s == work[w].job
  <2>1. s \in Sub /\ work[w].pc = "write" /\ work' = [work EXCEPT ![w] = Idle]
        /\ UNCHANGED <<canon, seen>>
    BY <1>14 DEF WriteConverged, TypeInv, WorkTypes, Sensible
  <2>2. CASE Linked(s) /\ holder[s] = w
    <3>1. /\ \A t \in Sub : state'[t] = IF t = s THEN "converged" ELSE state[t]
          /\ \A t \in Sub : holder'[t] = IF t = s THEN None ELSE holder[t]
          /\ \A t \in Sub : basis'[t] = IF t = s THEN work[w].read.version ELSE basis[t]
      BY <1>14, <2>1, <2>2 DEF WriteConverged, Converge, TypeInv, RowTypes
    <3>2. \A e \in seen : e.sub = s => e.version <= work[w].read.version
      BY <2>1, <2>2 DEF FreshInv, HeldSnapshotIsFresh, Fetched
    <3>3. EventsTellThePast'
      BY <2>1 DEF FreshInv, EventsTellThePast
    <3>4. NoEventSwallowed'
      BY <2>1, <3>1, <3>2 DEF FreshInv, NoEventSwallowed
    <3>5. HeldSnapshotIsFresh'
      <4>1. \A v \in Worker : work'[v] = IF v = w THEN Idle ELSE work[v]
        BY <2>1 DEF TypeInv, WorkTypes
      <4>2. None \notin Worker
        BY ReconciliationAssumption
      <4> QED
        BY <2>1, <3>1, <4>1, <4>2 DEF FreshInv, HeldSnapshotIsFresh, Idle, Fetched
    <3> QED
      BY <3>3, <3>4, <3>5 DEF FreshInv
  <2>3. CASE ~(Linked(s) /\ holder[s] = w)
    <3>1. UNCHANGED rowVars
      BY <1>14, <2>3 DEF WriteConverged, Converge
    <3> QED
      BY <2>1, <3>1, SnapshotKept DEF Idle, Fetched
  <2> QED
    BY <2>2, <2>3
<1>15. ASSUME NEW w \in Worker, Retry(w)
      PROVE  FreshInv'
  <2>1. work[w].job \in Sub /\ work' = [work EXCEPT ![w] = Idle] /\ UNCHANGED <<canon, seen>>
    BY <1>15 DEF Retry, TypeInv, WorkTypes, Sensible
  <2>2. CASE Holds(w, work[w].job)
    BY <1>15, <2>1, <2>2, RowReleased DEF Retry
  <2>3. CASE ~Holds(w, work[w].job)
    <3>1. UNCHANGED rowVars
      BY <1>15, <2>3 DEF Retry
    <3> QED
      BY <2>1, <3>1, SnapshotKept DEF Idle, Fetched
  <2> QED
    BY <2>2, <2>3
<1>16. ASSUME NEW w \in Worker, Abandon(w)
      PROVE  FreshInv'
  BY <1>16, SnapshotKept DEF Abandon, Idle, Fetched
<1>17. CASE UNCHANGED vars
  BY <1>17 DEF vars, rowVars, FreshInv, EventsTellThePast, HeldSnapshotIsFresh,
               NoEventSwallowed
<1> QED
  BY <1>1, <1>2, <1>3, <1>4, <1>5, <1>6, <1>7, <1>8, <1>9, <1>10, <1>11, <1>12,
     <1>13, <1>14, <1>15, <1>16, <1>17
  DEF Next, Step

\* No event is swallowed, whatever the number of workers: a row that says
\* converged was computed from a state at least as new as every event recorded.
THEOREM EventsAreReconciled == Spec => []NoEventSwallowed
<1>1. Spec => []FreshInv
  BY TypeInvHolds, FreshInit, FreshNext, PTL DEF Spec
<1>2. FreshInv => NoEventSwallowed
  BY DEF FreshInv
<1> QED
  BY <1>1, <1>2, PTL

-----------------------------------------------------------------------------
(* A link changes only with a checkout that was not recorded before, and a  *)
(* subscription has one.                                                    *)

LEMMA OneCheckout ==
  ASSUME NEW e \in Event, NEW f \in Event, e.kind = "checkout", f.kind = "checkout",
         e.sub = f.sub
  PROVE  e = f
  BY DEF Event

\* A checkout that Stripe delivers again never takes a person back from the
\* subscription that replaced it.
THEOREM CheckoutsCountOnce == Spec => NoRelapse
<1> DEFINE Forward == \A p \in Person : link'[p] # link[p] =>
                        \A e \in seen : e.kind = "checkout" => e.sub # link'[p]
<1>1. TypeInv /\ [Next]_vars => Forward
  <2> SUFFICES ASSUME TypeInv, [Next]_vars, NEW p \in Person, link'[p] # link[p],
                      NEW f \in seen, f.kind = "checkout"
               PROVE  f.sub # link'[p]
    OBVIOUS
  <2>1. ASSUME NEW e \in Event, Ingest(e)
        PROVE  f.sub # link'[p]
    <3>1. e.kind = "checkout" /\ UpsertSubject(e.sub) /\ e \notin seen
      BY <2>1 DEF Ingest, Fresh
    <3>2. link'[p] = e.sub
      BY <3>1 DEF UpsertSubject, TypeInv, SubjectTypes
    <3>3. f \in Event
      BY DEF TypeInv, StripeTypes
    <3> QED
      BY <3>1, <3>2, <3>3, OneCheckout
  <2>2. CASE UNCHANGED link
    BY <2>2
  <2> QED
    BY <2>1, <2>2
    DEF Next, Step, vars, Subscribe, Change, Expire, Redeliver, Claim, Fetch, FindSubject,
        LoadBindings, RevokeGrant, DeleteBinding, PutGrant, PutBinding, CheckOwner,
        WriteConverged, Retry, Abandon
<1> QED
  BY <1>1, TypeInvHolds, PTL DEF Spec, NoRelapse

=============================================================================
