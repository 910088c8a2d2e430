---------------------------- MODULE MirrorProofs ----------------------------
(***************************************************************************)
(* Reconciliation implements SubscriptionMirror, for every number of       *)
(* workers and every loss.                                                 *)
(***************************************************************************)
EXTENDS ReconciliationProofs

\* A snapshot is a state that Stripe had, and if it has the latest number it is
\* Stripe's state.
SnapshotOf(r) ==
    r.pc \in Fetched =>
        /\ r.read.version <= canon[r.job].version
        /\ r.read.version = canon[r.job].version => r.read = canon[r.job]

\* A worker that still holds its row has a snapshot no older than the one the
\* row was last converged from.
HeldSnapshotIsAhead ==
    \A w \in Worker, s \in Sub :
        holder[s] = w /\ work[w].job = s /\ work[w].pc \in Fetched =>
            basis[s] <= work[w].read.version

PastInv ==
    /\ \A w \in Worker : SnapshotOf(work[w])
    /\ HeldSnapshotIsAhead
    /\ \A s \in Sub : basis[s] <= canon[s].version

LEMMA PastInit == Init => PastInv
  BY DEF Init, PastInv, SnapshotOf, HeldSnapshotIsAhead, Idle, Fetched, Unborn

-----------------------------------------------------------------------------
(* What a step does to a slot.                                             *)

Others(w) == \A v \in Worker \ {w} : work'[v] = work[v]

\* It goes on with the snapshot it has, if it goes on.
Onward(w) ==
    work'[w].pc \in Fetched => /\ work[w].pc \in Fetched
                               /\ work'[w].job = work[w].job
                               /\ work'[w].read = work[w].read

LEMMA SlotOnward ==
  ASSUME TypeInv, NEW w \in Worker, NEW r, work' = [work EXCEPT ![w] = r],
         r.pc \in Fetched => /\ work[w].pc \in Fetched
                             /\ r.job = work[w].job
                             /\ r.read = work[w].read
  PROVE  Others(w) /\ Onward(w)
  BY DEF TypeInv, WorkTypes, Others, Onward

LEMMA StopsOnward ==
  ASSUME TypeInv, NEW w \in Worker,
         \/ work' = [work EXCEPT ![w] = Idle]
         \/ work' = [work EXCEPT ![w] = Failing(w)]
  PROVE  Others(w) /\ Onward(w)
<1>1. Idle.pc \notin Fetched /\ Failing(w).pc \notin Fetched
  BY DEF Idle, Failing, Fetched
<1> QED
  BY <1>1, SlotOnward

\* Every step of a worker but Claim and Fetch.
Continues(w) ==
    \/ FindSubject(w) \/ LoadBindings(w) \/ RevokeGrant(w) \/ DeleteBinding(w)
    \/ PutGrant(w) \/ PutBinding(w) \/ CheckOwner(w) \/ WriteConverged(w)
    \/ Retry(w) \/ Abandon(w)

LEMMA ContinuesOnward ==
  ASSUME TypeInv, NEW w \in Worker, Continues(w)
  PROVE  Others(w) /\ Onward(w)
<1>0. work[w] \in Work
  BY DEF TypeInv, WorkTypes
<1>1. CASE FindSubject(w)
  <2> DEFINE r == [work[w] EXCEPT !.pc = "load"]
  <2>1. work' = [work EXCEPT ![w] = IF Linked(work[w].job) THEN r ELSE Failing(w)]
    BY <1>1 DEF FindSubject, TypeInv, WorkTypes
  <2>2. work[w].pc \in Fetched /\ r.job = work[w].job /\ r.read = work[w].read
    BY <1>0, <1>1 DEF FindSubject, Fetched, Work
  <2> HIDE DEF r
  <2>3. CASE Linked(work[w].job)
    BY <2>1, <2>2, <2>3, SlotOnward
  <2>4. CASE ~Linked(work[w].job)
    BY <2>1, <2>4, StopsOnward
  <2> QED
    BY <2>3, <2>4
<1>2. CASE LoadBindings(w)
  <2> DEFINE want == Desired(work[w].read)
             drop == bindings[work[w].job] \ want
             r == [work[w] EXCEPT !.pc = Stage(drop, want), !.drop = drop, !.put = want]
  <2>1. work' = [work EXCEPT ![w] = r]
    BY <1>2 DEF LoadBindings, TypeInv, WorkTypes
  <2>2. work[w].pc \in Fetched /\ r.job = work[w].job /\ r.read = work[w].read
    BY <1>0, <1>2 DEF LoadBindings, Fetched, Work
  <2> HIDE DEF r
  <2> QED
    BY <2>1, <2>2, SlotOnward
<1>3. CASE RevokeGrant(w)
  <2> DEFINE r(f) == [work[w] EXCEPT !.pc = "unbind", !.feature = f]
  <2>1. PICK f \in work[w].drop, reply \in Replies :
            work' = [work EXCEPT ![w] = IF Proceeds(reply) THEN r(f) ELSE Failing(w)]
    BY <1>3 DEF RevokeGrant, TypeInv, WorkTypes
  <2>2. work[w].pc \in Fetched /\ r(f).job = work[w].job /\ r(f).read = work[w].read
    BY <1>0, <1>3 DEF RevokeGrant, Fetched, Work
  <2> HIDE DEF r
  <2>3. CASE Proceeds(reply)
    BY <2>1, <2>2, <2>3, SlotOnward
  <2>4. CASE ~Proceeds(reply)
    BY <2>1, <2>4, StopsOnward
  <2> QED
    BY <2>3, <2>4
<1>4. CASE DeleteBinding(w)
  <2> DEFINE left == work[w].drop \ {work[w].feature}
             r == [work[w] EXCEPT !.pc = Stage(left, work[w].put), !.drop = left, !.feature = None]
  <2>1. PICK reply \in Replies :
            work' = [work EXCEPT ![w] = IF Proceeds(reply) THEN r ELSE Failing(w)]
    BY <1>4 DEF DeleteBinding, TypeInv, WorkTypes
  <2>2. work[w].pc \in Fetched /\ r.job = work[w].job /\ r.read = work[w].read
    BY <1>0, <1>4 DEF DeleteBinding, Fetched, Work
  <2> HIDE DEF r
  <2>3. CASE Proceeds(reply)
    BY <2>1, <2>2, <2>3, SlotOnward
  <2>4. CASE ~Proceeds(reply)
    BY <2>1, <2>4, StopsOnward
  <2> QED
    BY <2>3, <2>4
<1>5. CASE PutGrant(w)
  <2> DEFINE r(f) == [work[w] EXCEPT !.pc = "bind", !.feature = f]
  <2>1. PICK f \in work[w].put, reply \in Replies :
            work' = [work EXCEPT ![w] = IF Proceeds(reply) THEN r(f) ELSE Failing(w)]
    BY <1>5 DEF PutGrant, TypeInv, WorkTypes
  <2>2. work[w].pc \in Fetched /\ r(f).job = work[w].job /\ r(f).read = work[w].read
    BY <1>0, <1>5 DEF PutGrant, Fetched, Work
  <2> HIDE DEF r
  <2>3. CASE Proceeds(reply)
    BY <2>1, <2>2, <2>3, SlotOnward
  <2>4. CASE ~Proceeds(reply)
    BY <2>1, <2>4, StopsOnward
  <2> QED
    BY <2>3, <2>4
<1>6. CASE PutBinding(w)
  <2> DEFINE left == work[w].put \ {work[w].feature}
             r == [work[w] EXCEPT !.pc = Stage({}, left), !.put = left, !.feature = None]
  <2>1. PICK reply \in Replies :
            work' = [work EXCEPT ![w] = IF Proceeds(reply) THEN r ELSE Failing(w)]
    BY <1>6 DEF PutBinding, TypeInv, WorkTypes
  <2>2. work[w].pc \in Fetched /\ r.job = work[w].job /\ r.read = work[w].read
    BY <1>0, <1>6 DEF PutBinding, Fetched, Work
  <2> HIDE DEF r
  <2>3. CASE Proceeds(reply)
    BY <2>1, <2>2, <2>3, SlotOnward
  <2>4. CASE ~Proceeds(reply)
    BY <2>1, <2>4, StopsOnward
  <2> QED
    BY <2>3, <2>4
<1>7. CASE CheckOwner(w)
  <2> DEFINE r == [work[w] EXCEPT !.pc = "write"]
  <2>1. work[w].pc \in Fetched /\ r.job = work[w].job /\ r.read = work[w].read
    BY <1>0, <1>7 DEF CheckOwner, Fetched, Work
  <2>2. work' = [work EXCEPT ![w] = r] \/ work' = [work EXCEPT ![w] = Idle]
    BY <1>7 DEF CheckOwner, TypeInv, WorkTypes
  <2> HIDE DEF r
  <2> QED
    BY <2>1, <2>2, SlotOnward, StopsOnward
<1>8. CASE WriteConverged(w) \/ Retry(w) \/ Abandon(w)
  BY <1>8, StopsOnward DEF WriteConverged, Retry, Abandon
<1> QED
  BY <1>1, <1>2, <1>3, <1>4, <1>5, <1>6, <1>7, <1>8 DEF Continues

\* What it does to the rows: it may give one up, and writes a basis only to a row
\* it holds, giving it up.
LEMMA ContinuesRows ==
  ASSUME TypeInv, NEW w \in Worker, Continues(w)
  PROVE  /\ UNCHANGED <<canon, seen>>
         /\ \A t \in Sub : holder'[t] \in {holder[t], None}
         /\ \A t \in Sub : basis'[t] # basis[t] =>
               /\ holder[t] = w /\ work[w].job = t /\ work[w].pc \in Fetched
               /\ basis'[t] = work[w].read.version
               /\ holder'[t] = None
<1>1. CASE WriteConverged(w)
  <2> DEFINE s == work[w].job
  <2>1. s \in Sub /\ work[w].pc = "write" /\ UNCHANGED <<canon, seen>>
    BY <1>1 DEF WriteConverged, TypeInv, WorkTypes, Sensible
  <2>2. CASE Linked(s) /\ holder[s] = w
    BY <1>1, <2>1, <2>2 DEF WriteConverged, Converge, TypeInv, RowTypes, Fetched
  <2>3. CASE ~(Linked(s) /\ holder[s] = w)
    <3>1. UNCHANGED rowVars
      BY <1>1, <2>3 DEF WriteConverged, Converge
    <3> QED
      BY <2>1, <3>1 DEF rowVars
  <2> QED
    BY <2>2, <2>3
<1>2. CASE Retry(w)
  <2>1. work[w].job \in Sub
    BY <1>2 DEF Retry, TypeInv, WorkTypes, Sensible
  <2> QED
    BY <1>2, <2>1 DEF Retry, Enqueue, rowVars, TypeInv, RowTypes
<1>3. CASE UNCHANGED <<canon, seen, rowVars>>
  BY <1>3 DEF rowVars
<1> QED
  BY <1>1, <1>2, <1>3
  DEF Continues, FindSubject, LoadBindings, RevokeGrant, DeleteBinding, PutGrant,
      PutBinding, CheckOwner, Abandon

-----------------------------------------------------------------------------
(* The invariant.                                                          *)

LEMMA VersionTypes ==
  ASSUME TypeInv
  PROVE  /\ \A s \in Sub : canon[s].version \in Nat /\ basis[s] \in Nat
         /\ \A w \in Worker : work[w].read.version \in Nat
         /\ \A w \in Worker : work[w].pc \in Fetched => work[w].job \in Sub
  BY ReconciliationAssumption
  DEF TypeInv, StripeTypes, RowTypes, WorkTypes, Work, Sensible, Fetched

LEMMA PastNext == TypeInv /\ PastInv /\ [Next]_vars => PastInv'
<1> SUFFICES ASSUME TypeInv, PastInv, [Next]_vars PROVE PastInv'
  OBVIOUS
<1>0. None \notin Worker
  BY ReconciliationAssumption
<1>1. ASSUME NEW s \in Sub, Subscribe(s) \/ Change(s)
      PROVE  PastInv'
  <2>1. /\ UNCHANGED <<rowVars, work>>
        /\ \A t \in Sub : t # s => canon'[t] = canon[t]
        /\ canon'[s].version = canon[s].version + 1
    BY <1>1, VersionTypes DEF Subscribe, Change, TypeInv, StripeTypes
  <2>2. \A w \in Worker : SnapshotOf(work[w])'
    BY <2>1, VersionTypes DEF PastInv, SnapshotOf
  <2>3. HeldSnapshotIsAhead'
    BY <2>1 DEF PastInv, HeldSnapshotIsAhead, rowVars
  <2>4. \A t \in Sub : basis'[t] <= canon'[t].version
    BY <2>1, VersionTypes DEF PastInv, rowVars
  <2> QED
    BY <2>2, <2>3, <2>4 DEF PastInv
<1>2. ASSUME NEW s \in Sub, Expire(s)
      PROVE  PastInv'
  BY <1>2 DEF Expire, PastInv, SnapshotOf, HeldSnapshotIsAhead
<1>3. ASSUME NEW e \in Event, Ingest(e)
      PROVE  PastInv'
  <2>1. UNCHANGED <<canon, work, basis>> /\ \A t \in Sub : holder'[t] \in {holder[t], None}
    BY <1>3 DEF Ingest, Enqueue, Event, TypeInv, RowTypes
  <2> QED
    BY <1>0, <2>1 DEF PastInv, SnapshotOf, HeldSnapshotIsAhead
<1>4. ASSUME NEW e \in Event, Redeliver(e)
      PROVE  PastInv'
  BY <1>4 DEF Redeliver, vars, rowVars, PastInv, SnapshotOf, HeldSnapshotIsAhead
<1>5. ASSUME NEW w \in Worker, Claim(w)
      PROVE  PastInv'
  <2>1. PICK s \in Sub : /\ holder' = [holder EXCEPT ![s] = w]
                         /\ work' = [work EXCEPT ![w].pc = "fetch", ![w].job = s]
    BY <1>5 DEF Claim
  <2>2. UNCHANGED <<canon, basis>>
    BY <1>5 DEF Claim
  <2>3. \A t \in Sub : holder'[t] = IF t = s THEN w ELSE holder[t]
    BY <2>1 DEF TypeInv, RowTypes
  <2>4. work'[w].pc \notin Fetched /\ Others(w)
    BY <2>1 DEF TypeInv, WorkTypes, Work, Fetched, Others
  <2>5. \A v \in Worker : SnapshotOf(work[v])'
    BY <2>2, <2>4 DEF PastInv, SnapshotOf, Others
  <2>6. HeldSnapshotIsAhead'
    BY <2>2, <2>3, <2>4 DEF PastInv, HeldSnapshotIsAhead, Others
  <2> QED
    BY <2>2, <2>5, <2>6 DEF PastInv
<1>6. ASSUME NEW w \in Worker, Fetch(w)
      PROVE  PastInv'
  <2> DEFINE r == [work[w] EXCEPT !.pc = "find", !.read = canon[work[w].job]]
  <2>1. PICK reply \in Replies :
            work' = [work EXCEPT ![w] = IF reply = "ok" THEN r ELSE Failing(w)]
    BY <1>6 DEF Fetch, TypeInv, WorkTypes
  <2>2. UNCHANGED <<canon, rowVars>> /\ work[w].job \in Sub
    BY <1>6 DEF Fetch, TypeInv, WorkTypes, Sensible
  <2>3. /\ Others(w)
        /\ work'[w].pc \in Fetched => /\ work'[w].job = work[w].job
                                      /\ work'[w].read = canon[work[w].job]
    BY <2>1 DEF TypeInv, WorkTypes, Work, Others, Failing, Idle, Fetched
  <2>4. \A v \in Worker : SnapshotOf(work[v])'
    BY <2>2, <2>3, VersionTypes DEF PastInv, SnapshotOf, Others
  <2>5. HeldSnapshotIsAhead'
    BY <2>2, <2>3 DEF PastInv, HeldSnapshotIsAhead, Others, rowVars
  <2> QED
    BY <2>2, <2>4, <2>5 DEF PastInv, rowVars
<1>7. ASSUME NEW w \in Worker, Continues(w)
      PROVE  PastInv'
  <2>1. Others(w) /\ Onward(w)
    BY <1>7, ContinuesOnward
  <2>2. \A v \in Worker : SnapshotOf(work[v])'
    BY <1>7, <2>1, ContinuesRows DEF PastInv, SnapshotOf, Others, Onward
  <2>3. HeldSnapshotIsAhead'
    BY <1>0, <1>7, <2>1, ContinuesRows DEF PastInv, HeldSnapshotIsAhead, Others, Onward
  <2>4. \A t \in Sub : basis'[t] <= canon'[t].version
    BY <1>7, ContinuesRows DEF PastInv, SnapshotOf
  <2> QED
    BY <2>2, <2>3, <2>4 DEF PastInv
<1>8. CASE UNCHANGED vars
  BY <1>8 DEF vars, rowVars, PastInv, SnapshotOf, HeldSnapshotIsAhead
<1> QED
  BY <1>1, <1>2, <1>3, <1>4, <1>5, <1>6, <1>7, <1>8 DEF Next, Step, Continues

LEMMA PastInvHolds == Spec => []PastInv
  BY TypeInvHolds, PastInit, PastNext, PTL DEF Spec

-----------------------------------------------------------------------------
(* The refinement: every step is a step of the mirror, or leaves it alone. *)

\* What of the rows the mirror sees.
Done == {s \in Sub : state[s] = "converged"}

LEMMA MirrorInit == Init => Mirror!Init
  BY DEF Init, Mirror!Init, Unborn

LEMMA StripeAdvances ==
  ASSUME TypeInv, NEW s \in Sub, Subscribe(s) \/ Change(s)
  PROVE  Mirror!Advance(s)
<1>1. /\ \A t \in Sub : t # s => canon'[t] = canon[t]
      /\ canon'[s].version = canon[s].version + 1
      /\ UNCHANGED <<seen, state, basis>>
  BY VersionTypes DEF Subscribe, Change, TypeInv, StripeTypes, rowVars
<1>2. [t \in Sub |-> canon'[t].version]
        = [[t \in Sub |-> canon[t].version] EXCEPT ![s] = @ + 1]
  BY <1>1
<1> QED
  BY <1>1, <1>2 DEF Mirror!Advance

LEMMA EventTells ==
  ASSUME TypeInv, NEW e \in Event, Ingest(e)
  PROVE  Mirror!Tell(e.sub)
<1> DEFINE item(f) == <<f.sub, f.version, f.kind>>
           told == {item(f) : f \in seen}
<1>1. /\ e.sub \in Sub /\ e.kind \in {"checkout", "change"}
      /\ e.version \in 1..canon[e.sub].version
  BY VersionTypes, ReconciliationAssumption DEF Ingest, Sent, Event
<1>2. \A f \in Event : item(f) = item(e) => f = e
  BY DEF Event
<1>3. item(e) \notin told /\ {item(f) : f \in seen'} = told \cup {item(e)}
  BY <1>2 DEF Ingest, Fresh, TypeInv, StripeTypes
<1>4. /\ UNCHANGED <<canon, basis>>
      /\ {t \in Sub : state'[t] = "converged"} = Done \ {e.sub}
  BY <1>1 DEF Ingest, Enqueue, TypeInv, RowTypes, Done
<1>5. e.version \in 1..[s \in Sub |-> canon[s].version][e.sub]
  BY <1>1
<1> QED
  BY <1>1, <1>3, <1>4, <1>5 DEF Mirror!Tell, Done

LEMMA ConvergeMirrors ==
  ASSUME TypeInv, FreshInv, PastInv, NEW w \in Worker, WriteConverged(w),
         NEW s \in Sub, s = work[w].job, Linked(s), holder[s] = w
  PROVE  Mirror!Mirror(s)
<1> DEFINE n == work[w].read.version
<1>1. s \in Sub /\ work[w].pc \in Fetched
  BY DEF WriteConverged, Fetched, TypeInv, WorkTypes, Sensible
<1>2. state[s] # "converged"
  BY <1>1, ReconciliationAssumption DEF TypeInv, RowTypes
<1>3. /\ UNCHANGED <<canon, seen>>
      /\ basis' = [basis EXCEPT ![s] = n]
      /\ {t \in Sub : state'[t] = "converged"} = Done \cup {s}
  BY <1>1 DEF WriteConverged, Converge, TypeInv, RowTypes, Done
<1>4. n \in basis[s]..[t \in Sub |-> canon[t].version][s]
  BY <1>1, VersionTypes DEF PastInv, SnapshotOf, HeldSnapshotIsAhead
<1>5. \A m, k : <<s, m, k>> \in {<<e.sub, e.version, e.kind>> : e \in seen} => m <= n
  BY <1>1 DEF FreshInv, HeldSnapshotIsFresh
<1> QED
  BY <1>1, <1>2, <1>3, <1>4, <1>5 DEF Mirror!Mirror, Done

\* The worker's other steps, and the lease's end, are none of the mirror's.
LEMMA OtherStepsStutter ==
  ASSUME TypeInv, NEW w \in Worker,
         \/ Claim(w) \/ Fetch(w)
         \/ /\ Continues(w)
            /\ ~(WriteConverged(w) /\ Linked(work[w].job) /\ holder[work[w].job] = w)
  PROVE  UNCHANGED <<canon, seen, basis, Done>>
<1>1. CASE Claim(w)
  BY <1>1 DEF Claim, Candidate, Claimable, TypeInv, RowTypes, Done
<1>2. CASE Retry(w)
  BY <1>2 DEF Retry, Holds, Enqueue, rowVars, TypeInv, RowTypes, Done
<1>3. CASE UNCHANGED <<canon, seen, rowVars>>
  BY <1>3 DEF rowVars, Done
<1> QED
  BY <1>1, <1>2, <1>3
  DEF Continues, Fetch, FindSubject, LoadBindings, RevokeGrant, DeleteBinding, PutGrant,
      PutBinding, CheckOwner, WriteConverged, Converge, Abandon

LEMMA MirrorNext ==
  TypeInv /\ FreshInv /\ PastInv /\ [Next]_vars => [Mirror!Next]_(Mirror!vars)
<1> SUFFICES ASSUME TypeInv, FreshInv, PastInv, [Next]_vars
             PROVE  [Mirror!Next]_(Mirror!vars)
  OBVIOUS
<1>1. ASSUME NEW s \in Sub, Mirror!Advance(s) \/ Mirror!Tell(s) \/ Mirror!Mirror(s)
      PROVE  Mirror!Next
  BY <1>1 DEF Mirror!Next
<1>2. ASSUME UNCHANGED <<canon, seen, basis, Done>>
      PROVE  UNCHANGED Mirror!vars
  BY <1>2 DEF Mirror!vars, Done
<1>3. ASSUME NEW s \in Sub, Subscribe(s) \/ Change(s)
      PROVE  Mirror!Next
  BY <1>1, <1>3, StripeAdvances
<1>4. ASSUME NEW s \in Sub, Expire(s)
      PROVE  UNCHANGED Mirror!vars
  BY <1>2, <1>4 DEF Expire, Done
<1>5. ASSUME NEW e \in Event, Ingest(e)
      PROVE  Mirror!Next
  <2>1. e.sub \in Sub
    BY DEF Event
  <2> QED
    BY <1>1, <1>5, <2>1, EventTells
<1>6. ASSUME NEW e \in Event, Redeliver(e)
      PROVE  UNCHANGED Mirror!vars
  BY <1>2, <1>6 DEF Redeliver, vars, rowVars, Done
<1>7. ASSUME NEW w \in Worker, Step(w) \/ Abandon(w)
      PROVE  [Mirror!Next]_(Mirror!vars)
  <2>1. CASE WriteConverged(w) /\ Linked(work[w].job) /\ holder[work[w].job] = w
    <3>1. PICK s \in Sub : s = work[w].job
      BY <2>1 DEF WriteConverged, TypeInv, WorkTypes, Sensible
    <3>2. Mirror!Mirror(s)
      BY <2>1, <3>1, ConvergeMirrors
    <3> QED
      BY <1>1, <3>2
  <2>2. CASE ~(WriteConverged(w) /\ Linked(work[w].job) /\ holder[work[w].job] = w)
    <3>1. Claim(w) \/ Fetch(w) \/ Continues(w)
      BY <1>7 DEF Step, Continues
    <3> QED
      BY <1>2, <2>2, <3>1, OtherStepsStutter
  <2> QED
    BY <2>1, <2>2
<1>8. CASE UNCHANGED vars
  BY <1>2, <1>8 DEF vars, rowVars, Done
<1> QED
  BY <1>3, <1>4, <1>5, <1>6, <1>7, <1>8 DEF Next

\* The rows are a mirror of Stripe's subscriptions that lags but never goes back,
\* and is done only at or after all it was told of, whatever the number of workers.
THEOREM RowsMirrorStripe == Spec => ImplementsMirror
<1>1. Spec => []FreshInv
  BY TypeInvHolds, FreshInit, FreshNext, PTL DEF Spec
<1> QED
  BY <1>1, TypeInvHolds, PastInvHolds, MirrorInit, MirrorNext, PTL
  DEF Spec, ImplementsMirror, Mirror!Spec
=============================================================================
