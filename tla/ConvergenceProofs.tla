-------------------------- MODULE ConvergenceProofs --------------------------
(***************************************************************************)
(* What a converged row means, for every number of workers, people and     *)
(* subscriptions, whichever calls fail and whichever invocations and       *)
(* leases are lost, as long as no two workers are at work for one person:  *)
(* ConvergedGrants.  If besides no put is lost or left unbound, nothing    *)
(* else is granted: ConvergedRevokes.  (Without the first condition        *)
(* stale_worker shows what happens, without the second orphan_grant.)      *)
(***************************************************************************)
EXTENDS MirrorProofs

\* The steps after FindSubject, and those after LoadBindings.
Changing == {"revoke", "unbind", "put", "bind", "check", "write"}
Found    == {"load"} \cup Changing

\* A worker's row is not converged, nor is any that is linked to the same person
\* while it changes that person's grants.
AloneIn(r) ==
    /\ r.pc # "idle" => state[r.job] # "converged"
    /\ r.pc \in Found =>
          \A s \in Sub : PersonOf[s] = PersonOf[r.job] /\ Linked(s)
                            => state[s] # "converged"

\* How far the two loops are.
ProgressOf(r) ==
    r.pc \in Changing =>
        /\ bindings[r.job] \ Desired(r.read) = r.drop
        /\ r.put \subseteq Desired(r.read)
        /\ Desired(r.read) \ r.put \subseteq bindings[r.job]
        /\ Desired(r.read) \ r.put \subseteq grants[PersonOf[r.job]]
        /\ r.pc = "unbind" => r.feature \in r.drop
        /\ r.pc \notin {"revoke", "unbind"} => r.drop = {}
        /\ r.pc = "bind" => /\ r.feature \in Desired(r.read)
                            /\ r.feature \in grants[PersonOf[r.job]]
        /\ r.pc \in {"check", "write"} => r.put = {}

SlotInv(r) == AloneIn(r) /\ ProgressOf(r)

\* A converged row of a linked subscription, computed from Stripe's state.
RowMeans(s) ==
    state[s] = "converged" /\ Linked(s) /\ basis[s] = canon[s].version =>
        /\ proj[PersonOf[s]] = Projection(canon[s])
        /\ Desired(canon[s]) \subseteq grants[PersonOf[s]]
        /\ bindings[s] = Desired(canon[s])

ConvergedInv ==
    /\ \A w \in Worker : SlotInv(work[w])
    /\ \A s \in Sub : RowMeans(s)

LEMMA ConvergedInit == Init => ConvergedInv
  BY DEF Init, ConvergedInv, SlotInv, AloneIn, ProgressOf, RowMeans, Idle,
         Fetched, Found, Changing

-----------------------------------------------------------------------------
(* A worker's step.                                                        *)

\* It changes neither grants nor bindings, and converges no row.
Quiet ==
    /\ UNCHANGED <<canon, link, bindings, grants>>
    /\ \A s \in Sub : state'[s] = "converged" => state[s] = "converged"

\* It changes the grants of its person, and bindings and row of its subscription.
Local(w) ==
    /\ UNCHANGED <<canon, link>>
    /\ \A s \in Sub : s # work[w].job => bindings'[s] = bindings[s]
    /\ \A p \in Person : p # PersonOf[work[w].job] => grants'[p] = grants[p]
    /\ \A s \in Sub : state'[s] = "converged" => state[s] = "converged" \/ s = work[w].job

\* The slots of the others keep their invariant: their people are others.
LEMMA OtherSlots ==
  ASSUME OneAtATime, TypeInv, ConvergedInv, NEW w \in Worker, Others(w),
         Quiet \/ (work[w].pc # "idle" /\ Local(w)),
         NEW v \in Worker \ {w}
  PROVE  SlotInv(work[v])'
<1>1. work'[v] = work[v] /\ SlotInv(work[v])
  BY DEF Others, ConvergedInv
<1>2. work[v].pc # "idle" => work[v].job \in Sub /\ PersonOf[work[v].job] \in Person
  BY ReconciliationAssumption DEF TypeInv, WorkTypes, Sensible
<1>3. UNCHANGED <<canon, link>>
  BY DEF Quiet, Local
<1>4. CASE Quiet
  BY <1>1, <1>2, <1>4
  DEF Quiet, SlotInv, AloneIn, ProgressOf, Linked, Desired, Entitling, Mapped, Changing, Found
<1>5. CASE work[w].pc # "idle" /\ Local(w)
  <2>1. work[v].pc # "idle" => PersonOf[work[v].job] # PersonOf[work[w].job]
    BY <1>5 DEF OneAtATime
  <2>2. AloneIn(work[v])'
    BY <1>1, <1>2, <1>3, <1>5, <2>1 DEF Local, SlotInv, AloneIn, Linked, Found, Changing
  <2>3. ProgressOf(work[v])'
    BY <1>1, <1>2, <1>5, <2>1
    DEF Local, SlotInv, ProgressOf, Desired, Entitling, Mapped, Changing
  <2> QED
    BY <2>2, <2>3 DEF SlotInv
<1> QED
  BY <1>4, <1>5

\* Its own and theirs are all there are.
LEMMA OneSlot ==
  ASSUME OneAtATime, TypeInv, ConvergedInv, NEW w \in Worker, NEW r,
         work' = [work EXCEPT ![w] = r], SlotInv(work[w])',
         Quiet \/ (work[w].pc # "idle" /\ Local(w))
  PROVE  \A v \in Worker : SlotInv(work[v])'
<1>1. Others(w)
  BY DEF TypeInv, WorkTypes, Others
<1> QED
  BY <1>1, OtherSlots

LEMMA NewSlot ==
  ASSUME TypeInv, NEW w \in Worker, NEW r, work' = [work EXCEPT ![w] = r]
  PROVE  work'[w] = r
  BY DEF TypeInv, WorkTypes

\* It ends.
LEMMA IdleSlot ==
  ASSUME OneAtATime, TypeInv, ConvergedInv, NEW w \in Worker,
         work' = [work EXCEPT ![w] = Idle], Quiet \/ (work[w].pc # "idle" /\ Local(w))
  PROVE  \A v \in Worker : SlotInv(work[v])'
<1>1. work'[w] = Idle
  BY NewSlot
<1>2. SlotInv(work[w])'
  BY <1>1 DEF SlotInv, AloneIn, ProgressOf, Idle, Fetched, Found, Changing
<1> QED
  BY <1>2, OneSlot

\* It fails, and leaves the rows as they are.
LEMMA FailingSlot ==
  ASSUME OneAtATime, TypeInv, ConvergedInv, NEW w \in Worker, work[w].pc # "idle",
         work' = [work EXCEPT ![w] = Failing(w)], UNCHANGED state, Quiet \/ Local(w)
  PROVE  \A v \in Worker : SlotInv(work[v])'
<1>0. work'[w] = Failing(w)
  BY NewSlot
<1>1. work'[w].pc = "retry" /\ work'[w].job = work[w].job
  BY <1>0 DEF Failing, Idle
<1>2. state[work[w].job] # "converged"
  BY DEF ConvergedInv, SlotInv, AloneIn
<1>3. SlotInv(work[w])'
  BY <1>1, <1>2 DEF SlotInv, AloneIn, ProgressOf, Fetched, Found, Changing
<1> QED
  BY <1>3, OneSlot

\* What the worker's calls change is not a converged row's.
LEMMA OthersKeepMeaning ==
  ASSUME ConvergedInv, TypeInv, NEW w \in Worker, work[w].pc \in Changing,
         UNCHANGED <<canon, link, proj, rowVars>>,
         \A s \in Sub : s # work[w].job => bindings'[s] = bindings[s],
         \A p \in Person : p # PersonOf[work[w].job] => grants'[p] = grants[p]
  PROVE  \A s \in Sub : RowMeans(s)'
<1> SUFFICES ASSUME NEW s \in Sub PROVE RowMeans(s)'
  OBVIOUS
<1>1. PersonOf[s] \in Person
  BY ReconciliationAssumption
<1>2. work[w].job \in Sub /\ state[work[w].job] # "converged"
  BY DEF ConvergedInv, SlotInv, AloneIn, Changing, TypeInv, WorkTypes, Sensible
<1>3. Linked(s) /\ state[s] = "converged" => PersonOf[s] # PersonOf[work[w].job]
  BY DEF ConvergedInv, SlotInv, AloneIn, Found
<1>4. RowMeans(s)
  BY DEF ConvergedInv
<1> QED
  BY <1>1, <1>2, <1>3, <1>4 DEF RowMeans, Linked, rowVars

-----------------------------------------------------------------------------
(* The actions.                                                            *)

LEMMA StripeMoves ==
  ASSUME TypeInv, PastInv, ConvergedInv, NEW s \in Sub, Subscribe(s) \/ Change(s)
  PROVE  ConvergedInv'
<1>1. /\ UNCHANGED <<link, proj, rowVars, bindings, grants, work>>
      /\ \A t \in Sub : t # s => canon'[t] = canon[t]
      /\ canon'[s].version = canon[s].version + 1
      /\ \A t \in Sub : canon[t].version \in Nat
  BY ReconciliationAssumption DEF Subscribe, Change, TypeInv, StripeTypes
<1>2. \A v \in Worker : SlotInv(work[v])'
  <2> SUFFICES ASSUME NEW v \in Worker PROVE SlotInv(work[v])'
    OBVIOUS
  <2>1. SlotInv(work[v]) /\ work'[v] = work[v]
    BY <1>1 DEF ConvergedInv
  <2>2. AloneIn(work[v])'
    BY <1>1, <2>1 DEF SlotInv, AloneIn, Linked, rowVars
  <2>3. ProgressOf(work[v])'
    BY <1>1, <2>1 DEF SlotInv, ProgressOf, Desired, Entitling, Mapped
  <2> QED
    BY <2>2, <2>3 DEF SlotInv
<1>3. \A t \in Sub : RowMeans(t)'
  <2> SUFFICES ASSUME NEW t \in Sub PROVE RowMeans(t)'
    OBVIOUS
  <2>1. RowMeans(t) /\ basis[t] \in Nat /\ basis[t] <= canon[t].version
    BY DEF ConvergedInv, PastInv, TypeInv, RowTypes
  <2> QED
    BY <1>1, <2>1 DEF RowMeans, Linked, rowVars
<1> QED
  BY <1>2, <1>3 DEF ConvergedInv

LEMMA LeaseExpires ==
  ASSUME ConvergedInv, NEW s \in Sub, Expire(s)
  PROVE  ConvergedInv'
  BY DEF Expire, ConvergedInv, SlotInv, AloneIn, ProgressOf, RowMeans, Linked

LEMMA EventComes ==
  ASSUME TypeInv, ConvergedInv, NEW e \in Event, Ingest(e)
  PROVE  ConvergedInv'
<1>1. e.sub \in Sub /\ PersonOf[e.sub] \in Person
  BY ReconciliationAssumption DEF Event
<1>2. /\ UNCHANGED <<canon, bindings, grants, work, basis>>
      /\ \A t \in Sub : state'[t] = IF t = e.sub THEN "pending" ELSE state[t]
  BY <1>1 DEF Ingest, Enqueue, TypeInv, RowTypes
<1>3. \A p \in Person : \/ link'[p] = link[p] /\ proj'[p] = proj[p]
                        \/ link'[p] = e.sub
  BY <1>1 DEF Ingest, UpsertSubject, TypeInv, SubjectTypes
<1>4. \A t \in Sub : t # e.sub /\ Linked(t)' => /\ Linked(t)
                                                /\ proj'[PersonOf[t]] = proj[PersonOf[t]]
  BY <1>3, ReconciliationAssumption DEF Linked
<1>5. \A v \in Worker : SlotInv(work[v])'
  <2> SUFFICES ASSUME NEW v \in Worker PROVE SlotInv(work[v])'
    OBVIOUS
  <2>1. SlotInv(work[v]) /\ work'[v] = work[v]
    BY <1>2 DEF ConvergedInv
  <2>2. ProgressOf(work[v])'
    BY <1>2, <2>1 DEF SlotInv, ProgressOf
  <2>3. AloneIn(work[v])'
    <3>1. work[v].pc # "idle" => work[v].job \in Sub
      BY DEF TypeInv, WorkTypes, Sensible
    <3> QED
      BY <1>2, <1>4, <2>1, <3>1 DEF SlotInv, AloneIn
  <2> QED
    BY <2>2, <2>3 DEF SlotInv
<1>6. \A t \in Sub : RowMeans(t)'
  BY <1>2, <1>4 DEF ConvergedInv, RowMeans
<1> QED
  BY <1>5, <1>6 DEF ConvergedInv

LEMMA ClaimKeeps ==
  ASSUME OneAtATime, TypeInv, ConvergedInv, NEW w \in Worker, Claim(w)
  PROVE  ConvergedInv'
<1>1. PICK s \in Sub : /\ state' = [state EXCEPT ![s] = "running"]
                       /\ work' = [work EXCEPT ![w].pc = "fetch", ![w].job = s]
  BY DEF Claim
<1>2. /\ UNCHANGED <<canon, link, proj, basis, bindings, grants>>
      /\ \A t \in Sub : state'[t] = IF t = s THEN "running" ELSE state[t]
  BY <1>1 DEF Claim, TypeInv, RowTypes
<1> DEFINE r == [work[w] EXCEPT !.pc = "fetch", !.job = s]
<1>3. work' = [work EXCEPT ![w] = r] /\ r.pc = "fetch" /\ r.job = s
  BY <1>1 DEF TypeInv, WorkTypes, Work
<1>4. work'[w].pc = "fetch" /\ work'[w].job = s
  BY <1>3, NewSlot
<1>5. SlotInv(work[w])'
  BY <1>2, <1>4 DEF SlotInv, AloneIn, ProgressOf, Fetched, Found, Changing
<1>6. \A v \in Worker : SlotInv(work[v])'
  BY <1>2, <1>3, <1>5, OneSlot DEF Quiet
<1>7. \A t \in Sub : RowMeans(t)'
  BY <1>2 DEF ConvergedInv, RowMeans, Linked
<1> QED
  BY <1>6, <1>7 DEF ConvergedInv

LEMMA FetchKeeps ==
  ASSUME OneAtATime, TypeInv, ConvergedInv, NEW w \in Worker, Fetch(w)
  PROVE  ConvergedInv'
<1> DEFINE r == [work[w] EXCEPT !.pc = "find", !.read = canon[work[w].job]]
<1>1. PICK reply \in Replies :
          work' = [work EXCEPT ![w] = IF reply = "ok" THEN r ELSE Failing(w)]
  BY DEF Fetch, TypeInv, WorkTypes
<1>2. UNCHANGED <<canon, link, proj, rowVars, bindings, grants>> /\ work[w].pc = "fetch"
  BY DEF Fetch
<1>3. \A v \in Worker : SlotInv(work[v])'
  <2>1. CASE reply = "ok"
    <3>1. work'[w] = r
      BY <1>1, <2>1, NewSlot
    <3>2. r.pc = "find" /\ r.job = work[w].job /\ r.read = canon[work[w].job]
      BY DEF TypeInv, WorkTypes, Work
    <3>3. state[work[w].job] # "converged"
      BY <1>2 DEF ConvergedInv, SlotInv, AloneIn
    <3> HIDE DEF r
    <3>4. SlotInv(work[w])'
      BY <1>2, <3>1, <3>2, <3>3
      DEF SlotInv, AloneIn, ProgressOf, Fetched, Found, Changing, rowVars
    <3> QED
      BY <1>1, <1>2, <2>1, <3>4, OneSlot DEF Quiet, rowVars
  <2>2. CASE reply # "ok"
    BY <1>1, <1>2, <2>2, FailingSlot DEF Quiet, rowVars
  <2> QED
    BY <2>1, <2>2
<1>4. \A t \in Sub : RowMeans(t)'
  BY <1>2 DEF ConvergedInv, RowMeans, Linked, rowVars
<1> QED
  BY <1>3, <1>4 DEF ConvergedInv

LEMMA FindKeeps ==
  ASSUME OneAtATime, TypeInv, ConvergedInv, NEW w \in Worker, FindSubject(w)
  PROVE  ConvergedInv'
<1> DEFINE r == [work[w] EXCEPT !.pc = "load"]
<1>1. work' = [work EXCEPT ![w] = IF Linked(work[w].job) THEN r ELSE Failing(w)]
  BY DEF FindSubject, TypeInv, WorkTypes
<1>2. UNCHANGED <<canon, link, proj, rowVars, bindings, grants>> /\ work[w].pc = "find"
  BY DEF FindSubject
<1>3. \A v \in Worker : SlotInv(work[v])'
  <2>1. CASE Linked(work[w].job)
    <3>1. work'[w] = r
      BY <1>1, <2>1, NewSlot
    <3>2. r.pc = "load" /\ r.job = work[w].job /\ r.read = work[w].read
      BY DEF TypeInv, WorkTypes, Work
    <3>3. state[work[w].job] # "converged"
      BY <1>2 DEF ConvergedInv, SlotInv, AloneIn
    <3>4. \A s \in Sub : PersonOf[s] = PersonOf[work[w].job] /\ Linked(s)
                            => s = work[w].job
      BY <2>1 DEF Linked
    <3> HIDE DEF r
    <3>5. ProgressOf(work[w])'
      BY <3>1, <3>2 DEF ProgressOf, Changing
    <3>6. AloneIn(work[w])'
      BY <1>2, <3>1, <3>2, <3>3, <3>4 DEF AloneIn, Linked, rowVars
    <3> QED
      BY <1>1, <1>2, <2>1, <3>5, <3>6, OneSlot DEF SlotInv, Quiet, rowVars
  <2>2. CASE ~Linked(work[w].job)
    BY <1>1, <1>2, <2>2, FailingSlot DEF Quiet, rowVars
  <2> QED
    BY <2>1, <2>2
<1>4. \A t \in Sub : RowMeans(t)'
  BY <1>2 DEF ConvergedInv, RowMeans, Linked, rowVars
<1> QED
  BY <1>3, <1>4 DEF ConvergedInv

LEMMA LoadKeeps ==
  ASSUME OneAtATime, TypeInv, ConvergedInv, NEW w \in Worker, LoadBindings(w)
  PROVE  ConvergedInv'
<1> DEFINE want == Desired(work[w].read)
           drop == bindings[work[w].job] \ want
           stage == Stage(drop, want)
           r == [work[w] EXCEPT !.pc = stage, !.drop = drop, !.put = want]
<1>1. work' = [work EXCEPT ![w] = r]
  BY DEF LoadBindings, TypeInv, WorkTypes
<1>2. UNCHANGED <<canon, link, proj, rowVars, bindings, grants>> /\ work[w].pc = "load"
  BY DEF LoadBindings
<1>3. work'[w] = r
  BY <1>1, NewSlot
<1>4. /\ r.pc = stage /\ r.job = work[w].job /\ r.read = work[w].read
      /\ r.drop = drop /\ r.put = want
  BY DEF TypeInv, WorkTypes, Work
<1>5. /\ stage \in {"revoke", "put", "check"}
      /\ stage # "revoke" => drop = {}
      /\ stage = "check" => want = {}
  BY DEF Stage
<1>6. AloneIn(work[w])
  BY DEF ConvergedInv, SlotInv
<1> HIDE DEF r, stage
<1>7. AloneIn(work[w])'
  BY <1>2, <1>3, <1>4, <1>5, <1>6
  DEF AloneIn, Found, Changing, Linked, rowVars
<1>8. ProgressOf(work[w])'
  BY <1>2, <1>3, <1>4, <1>5 DEF ProgressOf, Changing, Desired, Entitling, Mapped
<1>9. \A v \in Worker : SlotInv(work[v])'
  BY <1>1, <1>2, <1>7, <1>8, OneSlot DEF SlotInv, Quiet, rowVars
<1>10. \A t \in Sub : RowMeans(t)'
  BY <1>2 DEF ConvergedInv, RowMeans, Linked, rowVars
<1> QED
  BY <1>9, <1>10 DEF ConvergedInv

\* A call that is over: the slot goes on as r, or is for a retry.
LEMMA CallKeeps ==
  ASSUME OneAtATime, TypeInv, ConvergedInv, NEW w \in Worker, work[w].pc \in Changing,
         NEW r, NEW b \in BOOLEAN,
         work' = [work EXCEPT ![w] = IF b THEN r ELSE Failing(w)],
         UNCHANGED <<canon, link, proj, rowVars>>,
         \A s \in Sub : s # work[w].job => bindings'[s] = bindings[s],
         \A p \in Person : p # PersonOf[work[w].job] => grants'[p] = grants[p],
         r.pc \in Changing, r.job = work[w].job, r.read = work[w].read,
         b /\ work'[w] = r => ProgressOf(work[w])'
  PROVE  ConvergedInv'
<1>0. work[w].pc # "idle" /\ Local(w)
  BY DEF Changing, Local, rowVars
<1>1. \A v \in Worker : SlotInv(work[v])'
  <2>1. CASE b
    <3>1. work' = [work EXCEPT ![w] = r]
      BY <2>1
    <3>2. work'[w] = r
      BY <3>1, NewSlot
    <3>3. AloneIn(work[w])
      BY DEF ConvergedInv, SlotInv
    <3>4. AloneIn(work[w])'
      BY <3>2, <3>3 DEF AloneIn, Found, Changing, Linked, rowVars
    <3> QED
      BY <1>0, <2>1, <3>1, <3>2, <3>4, OneSlot DEF SlotInv
  <2>2. CASE ~b
    BY <1>0, <2>2, FailingSlot DEF rowVars
  <2> QED
    BY <2>1, <2>2
<1>2. \A s \in Sub : RowMeans(s)'
  BY OthersKeepMeaning
<1> QED
  BY <1>1, <1>2 DEF ConvergedInv

LEMMA RevokeKeeps ==
  ASSUME OneAtATime, TypeInv, ConvergedInv, NEW w \in Worker, RevokeGrant(w)
  PROVE  ConvergedInv'
<1> DEFINE p == PersonOf[work[w].job]
           r(f) == [work[w] EXCEPT !.pc = "unbind", !.feature = f]
<1>1. PICK f \in work[w].drop, reply \in Replies :
        /\ grants' = IF Applied(reply) THEN [grants EXCEPT ![p] = @ \ {f}] ELSE grants
        /\ work' = [work EXCEPT ![w] = IF Proceeds(reply) THEN r(f) ELSE Failing(w)]
  BY DEF RevokeGrant, TypeInv, WorkTypes
<1>2. /\ UNCHANGED <<canon, link, proj, rowVars, bindings>>
      /\ work[w].pc = "revoke" /\ work[w] \in Work /\ work[w].job \in Sub /\ p \in Person
  BY ReconciliationAssumption DEF RevokeGrant, TypeInv, WorkTypes, Sensible
<1>3. /\ r(f).pc = "unbind" /\ r(f).job = work[w].job /\ r(f).read = work[w].read
      /\ r(f).drop = work[w].drop /\ r(f).put = work[w].put /\ r(f).feature = f
  BY <1>2 DEF Work
<1>4. /\ \A q \in Person : q # p => grants'[q] = grants[q]
      /\ grants[p] \ {f} \subseteq grants'[p]
  BY <1>1, <1>2 DEF TypeInv, GrantTypes
<1>5. ProgressOf(work[w])
  BY DEF ConvergedInv, SlotInv
<1>6. f \notin Desired(work[w].read)
  BY <1>1, <1>2, <1>5 DEF ProgressOf, Changing
<1>7. work'[w] = r(f) => ProgressOf(work[w])'
  <2> SUFFICES ASSUME work'[w] = r(f) PROVE ProgressOf(work[w])'
    OBVIOUS
  <2>1. /\ work'[w].pc = "unbind" /\ work'[w].job = work[w].job
        /\ work'[w].read = work[w].read /\ work'[w].drop = work[w].drop
        /\ work'[w].put = work[w].put /\ work'[w].feature = f
    BY <1>3
  <2>2. Desired(work[w].read)' = Desired(work[w].read)
    BY <2>1 DEF Desired, Entitling, Mapped
  <2> QED
    BY <1>1, <1>2, <1>4, <1>5, <1>6, <2>1, <2>2 DEF ProgressOf, Changing
<1> HIDE DEF r
<1>8. Proceeds(reply) \in BOOLEAN
  BY DEF Proceeds
<1> QED
  BY <1>1, <1>2, <1>3, <1>4, <1>7, <1>8, CallKeeps DEF Changing

LEMMA PutKeeps ==
  ASSUME OneAtATime, TypeInv, ConvergedInv, NEW w \in Worker, PutGrant(w)
  PROVE  ConvergedInv'
<1> DEFINE p == PersonOf[work[w].job]
           r(f) == [work[w] EXCEPT !.pc = "bind", !.feature = f]
<1>1. PICK f \in work[w].put, reply \in Replies :
        /\ grants' = IF Applied(reply) THEN [grants EXCEPT ![p] = @ \cup {f}] ELSE grants
        /\ work' = [work EXCEPT ![w] = IF Proceeds(reply) THEN r(f) ELSE Failing(w)]
  BY DEF PutGrant, TypeInv, WorkTypes
<1>2. /\ UNCHANGED <<canon, link, proj, rowVars, bindings>>
      /\ work[w].pc = "put" /\ work[w] \in Work /\ work[w].job \in Sub /\ p \in Person
  BY ReconciliationAssumption DEF PutGrant, TypeInv, WorkTypes, Sensible
<1>3. /\ r(f).pc = "bind" /\ r(f).job = work[w].job /\ r(f).read = work[w].read
      /\ r(f).drop = work[w].drop /\ r(f).put = work[w].put /\ r(f).feature = f
  BY <1>2 DEF Work
<1>4. /\ \A q \in Person : q # p => grants'[q] = grants[q]
      /\ grants[p] \subseteq grants'[p]
      /\ Proceeds(reply) => f \in grants'[p]
  BY <1>1, <1>2 DEF TypeInv, GrantTypes, Proceeds, Applied
<1>5. ProgressOf(work[w])
  BY DEF ConvergedInv, SlotInv
<1>6. Proceeds(reply) /\ work'[w] = r(f) => ProgressOf(work[w])'
  <2> SUFFICES ASSUME Proceeds(reply), work'[w] = r(f) PROVE ProgressOf(work[w])'
    OBVIOUS
  <2>1. /\ work'[w].pc = "bind" /\ work'[w].job = work[w].job
        /\ work'[w].read = work[w].read /\ work'[w].drop = work[w].drop
        /\ work'[w].put = work[w].put /\ work'[w].feature = f
    BY <1>3
  <2>2. Desired(work[w].read)' = Desired(work[w].read)
    BY <2>1 DEF Desired, Entitling, Mapped
  <2> QED
    BY <1>1, <1>2, <1>4, <1>5, <2>1, <2>2 DEF ProgressOf, Changing
<1> HIDE DEF r
<1>7. Proceeds(reply) \in BOOLEAN
  BY DEF Proceeds
<1> QED
  BY <1>1, <1>2, <1>3, <1>4, <1>6, <1>7, CallKeeps DEF Changing

LEMMA UnbindKeeps ==
  ASSUME OneAtATime, TypeInv, ConvergedInv, NEW w \in Worker, DeleteBinding(w)
  PROVE  ConvergedInv'
<1> DEFINE s == work[w].job
           f == work[w].feature
           left == work[w].drop \ {f}
           stage == Stage(left, work[w].put)
           r == [work[w] EXCEPT !.pc = stage, !.drop = left, !.feature = None]
<1>1. PICK reply \in Replies :
        /\ bindings' = IF Applied(reply) THEN [bindings EXCEPT ![s] = @ \ {f}] ELSE bindings
        /\ work' = [work EXCEPT ![w] = IF Proceeds(reply) THEN r ELSE Failing(w)]
  BY DEF DeleteBinding, TypeInv, WorkTypes
<1>2. /\ UNCHANGED <<canon, link, proj, rowVars, grants>>
      /\ work[w].pc = "unbind" /\ work[w] \in Work /\ s \in Sub
  BY DEF DeleteBinding, TypeInv, WorkTypes, Sensible
<1>3. /\ r.pc = stage /\ r.job = s /\ r.read = work[w].read
      /\ r.drop = left /\ r.put = work[w].put
  BY <1>2 DEF Work
<1>4. /\ stage \in {"revoke", "put", "check"}
      /\ stage # "revoke" => left = {}
      /\ stage = "check" => work[w].put = {}
  BY DEF Stage
<1>5. /\ \A t \in Sub : t # s => bindings'[t] = bindings[t]
      /\ Proceeds(reply) => bindings'[s] = bindings[s] \ {f}
  BY <1>1, <1>2 DEF TypeInv, GrantTypes, Proceeds, Applied
<1>6. ProgressOf(work[w])
  BY DEF ConvergedInv, SlotInv
<1>7. Proceeds(reply) /\ work'[w] = r => ProgressOf(work[w])'
  <2> SUFFICES ASSUME Proceeds(reply), work'[w] = r PROVE ProgressOf(work[w])'
    OBVIOUS
  <2>1. /\ work'[w].pc = stage /\ work'[w].job = s
        /\ work'[w].read = work[w].read /\ work'[w].drop = left
        /\ work'[w].put = work[w].put
    BY <1>3
  <2>2. Desired(work[w].read)' = Desired(work[w].read)
    BY <2>1 DEF Desired, Entitling, Mapped
  <2> HIDE DEF stage
  <2> QED
    BY <1>2, <1>4, <1>5, <1>6, <2>1, <2>2 DEF ProgressOf, Changing
<1>8. Proceeds(reply) \in BOOLEAN
  BY DEF Proceeds
<1> HIDE DEF r, stage
<1> QED
  BY <1>1, <1>2, <1>3, <1>4, <1>5, <1>7, <1>8, CallKeeps DEF Changing

LEMMA BindKeeps ==
  ASSUME OneAtATime, TypeInv, ConvergedInv, NEW w \in Worker, PutBinding(w)
  PROVE  ConvergedInv'
<1> DEFINE s == work[w].job
           f == work[w].feature
           left == work[w].put \ {f}
           stage == Stage({}, left)
           r == [work[w] EXCEPT !.pc = stage, !.put = left, !.feature = None]
<1>1. PICK reply \in Replies :
        /\ bindings' = IF Applied(reply) THEN [bindings EXCEPT ![s] = @ \cup {f}] ELSE bindings
        /\ work' = [work EXCEPT ![w] = IF Proceeds(reply) THEN r ELSE Failing(w)]
  BY DEF PutBinding, TypeInv, WorkTypes
<1>2. /\ UNCHANGED <<canon, link, proj, rowVars, grants>>
      /\ work[w].pc = "bind" /\ work[w] \in Work /\ s \in Sub
  BY DEF PutBinding, TypeInv, WorkTypes, Sensible
<1>3. /\ r.pc = stage /\ r.job = s /\ r.read = work[w].read
      /\ r.drop = work[w].drop /\ r.put = left
  BY <1>2 DEF Work
<1>4. stage \in {"put", "check"} /\ (stage = "check" => left = {})
  BY DEF Stage
<1>5. /\ \A t \in Sub : t # s => bindings'[t] = bindings[t]
      /\ Proceeds(reply) => bindings'[s] = bindings[s] \cup {f}
  BY <1>1, <1>2 DEF TypeInv, GrantTypes, Proceeds, Applied
<1>6. ProgressOf(work[w])
  BY DEF ConvergedInv, SlotInv
<1>7. Proceeds(reply) /\ work'[w] = r => ProgressOf(work[w])'
  <2> SUFFICES ASSUME Proceeds(reply), work'[w] = r PROVE ProgressOf(work[w])'
    OBVIOUS
  <2>1. /\ work'[w].pc = stage /\ work'[w].job = s
        /\ work'[w].read = work[w].read /\ work'[w].drop = work[w].drop
        /\ work'[w].put = left
    BY <1>3
  <2>2. Desired(work[w].read)' = Desired(work[w].read)
    BY <2>1 DEF Desired, Entitling, Mapped
  <2> HIDE DEF stage
  <2> QED
    BY <1>2, <1>4, <1>5, <1>6, <2>1, <2>2 DEF ProgressOf, Changing
<1>8. Proceeds(reply) \in BOOLEAN
  BY DEF Proceeds
<1> HIDE DEF r, stage
<1> QED
  BY <1>1, <1>2, <1>3, <1>4, <1>5, <1>7, <1>8, CallKeeps DEF Changing

LEMMA CheckKeeps ==
  ASSUME OneAtATime, TypeInv, ConvergedInv, NEW w \in Worker, CheckOwner(w)
  PROVE  ConvergedInv'
<1>1. UNCHANGED <<canon, link, proj, rowVars, bindings, grants>> /\ work[w].pc = "check"
  BY DEF CheckOwner
<1>2. CASE Holds(w, work[w].job) /\ ~expired[work[w].job]
  <2> DEFINE r == [work[w] EXCEPT !.pc = "write"]
  <2>1. work' = [work EXCEPT ![w] = r]
    BY <1>2 DEF CheckOwner, TypeInv, WorkTypes
  <2>2. /\ r.pc = "write" /\ r.job = work[w].job /\ r.read = work[w].read
        /\ r.drop = work[w].drop /\ r.put = work[w].put
    BY DEF TypeInv, WorkTypes, Work
  <2>3. ProgressOf(work[w])
    BY DEF ConvergedInv, SlotInv
  <2>4. work'[w] = r => ProgressOf(work[w])'
    BY <1>1, <2>2, <2>3 DEF ProgressOf, Changing, Desired, Entitling, Mapped
  <2> HIDE DEF r
  <2>5. work' = [work EXCEPT ![w] = IF TRUE THEN r ELSE Failing(w)]
    BY <2>1
  <2> QED
    BY <1>1, <2>2, <2>4, <2>5, CallKeeps DEF Changing
<1>3. CASE ~(Holds(w, work[w].job) /\ ~expired[work[w].job])
  <2>1. work' = [work EXCEPT ![w] = Idle]
    BY <1>3 DEF CheckOwner
  <2>2. \A t \in Sub : RowMeans(t)'
    BY <1>1 DEF ConvergedInv, RowMeans, Linked, rowVars
  <2> QED
    BY <1>1, <2>1, <2>2, IdleSlot DEF ConvergedInv, Quiet, rowVars
<1> QED
  BY <1>2, <1>3

LEMMA WriteKeeps ==
  ASSUME OneAtATime, TypeInv, PastInv, ConvergedInv, NEW w \in Worker, WriteConverged(w)
  PROVE  ConvergedInv'
<1> DEFINE s == work[w].job
<1>1. /\ UNCHANGED <<canon, link, bindings, grants>>
      /\ work[w].pc = "write" /\ work' = [work EXCEPT ![w] = Idle]
      /\ s \in Sub /\ PersonOf[s] \in Person
  BY ReconciliationAssumption DEF WriteConverged, TypeInv, WorkTypes, Sensible
<1>2. /\ AloneIn(work[w]) /\ ProgressOf(work[w])
      /\ \A t \in Sub : RowMeans(t)
  BY DEF ConvergedInv, SlotInv
<1>3. ASSUME NEW t \in Sub PROVE RowMeans(t)'
  <2>1. CASE ~Linked(s)
    BY <1>1, <1>2, <2>1 DEF WriteConverged, RowMeans, Linked, rowVars
  <2>2. CASE Linked(s) /\ t # s
    <3>1. state'[t] = state[t] /\ basis'[t] = basis[t]
      BY <1>1, <2>2 DEF WriteConverged, Converge, rowVars, TypeInv, RowTypes
    <3>2. proj' = [proj EXCEPT ![PersonOf[s]] = Projection(work[w].read)]
      BY <1>1, <2>2 DEF WriteConverged
    <3>3. PersonOf[t] \in Person /\ (Linked(t) => PersonOf[t] # PersonOf[s])
      BY <2>2, ReconciliationAssumption DEF Linked
    <3>4. Linked(t) => proj'[PersonOf[t]] = proj[PersonOf[t]]
      BY <3>2, <3>3 DEF TypeInv, SubjectTypes
    <3> QED
      BY <1>1, <1>2, <3>1, <3>4 DEF RowMeans, Linked
  <2>3. CASE Linked(s) /\ t = s /\ holder[s] = w
    <3>1. basis'[s] = work[w].read.version /\ proj'[PersonOf[s]] = Projection(work[w].read)
      BY <1>1, <2>3 DEF WriteConverged, Converge, TypeInv, RowTypes, SubjectTypes
    <3>2. /\ bindings[s] = Desired(work[w].read)
          /\ Desired(work[w].read) \subseteq grants[PersonOf[s]]
      BY <1>1, <1>2 DEF ProgressOf, Changing
    <3> QED
      BY <1>1, <1>2, <2>3, <3>1, <3>2 DEF PastInv, SnapshotOf, Fetched, RowMeans
  <2>4. CASE Linked(s) /\ t = s /\ holder[s] # w
    <3>1. state'[s] = state[s]
      BY <1>1, <2>4 DEF WriteConverged, Converge, rowVars
    <3> QED
      BY <1>1, <1>2, <2>4, <3>1 DEF AloneIn, RowMeans
  <2> QED
    BY <2>1, <2>2, <2>3, <2>4
<1>4. Local(w)
  BY <1>1 DEF WriteConverged, Converge, Local, rowVars, TypeInv, RowTypes
<1> QED
  BY <1>1, <1>3, <1>4, IdleSlot DEF ConvergedInv

LEMMA StopKeeps ==
  ASSUME OneAtATime, TypeInv, ConvergedInv, NEW w \in Worker, Retry(w) \/ Abandon(w)
  PROVE  ConvergedInv'
<1>1. /\ UNCHANGED <<canon, link, proj, bindings, grants>>
      /\ work' = [work EXCEPT ![w] = Idle]
  BY DEF Retry, Abandon
<1>2. /\ basis' = basis
      /\ \A t \in Sub : state'[t] = "converged" => state[t] = "converged"
  BY DEF Retry, Abandon, Enqueue, rowVars, TypeInv, RowTypes
<1>3. \A t \in Sub : RowMeans(t)'
  BY <1>1, <1>2 DEF ConvergedInv, RowMeans, Linked
<1> QED
  BY <1>1, <1>2, <1>3, IdleSlot DEF ConvergedInv, Quiet

LEMMA ConvergedNext ==
  OneAtATime /\ TypeInv /\ PastInv /\ ConvergedInv /\ [Next]_vars => ConvergedInv'
<1> SUFFICES ASSUME OneAtATime, TypeInv, PastInv, ConvergedInv, [Next]_vars PROVE ConvergedInv'
  OBVIOUS
<1>1. ASSUME UNCHANGED vars PROVE ConvergedInv'
  BY <1>1 DEF vars, rowVars, ConvergedInv, SlotInv, AloneIn, ProgressOf,
              RowMeans, Linked, Desired, Entitling, Mapped
<1>2. ASSUME NEW e \in Event, Redeliver(e) PROVE ConvergedInv'
  BY <1>1, <1>2 DEF Redeliver
<1> QED
  BY <1>1, <1>2, StripeMoves, LeaseExpires, EventComes, ClaimKeeps, FetchKeeps, FindKeeps,
     LoadKeeps, RevokeKeeps, PutKeeps, UnbindKeeps, BindKeeps, CheckKeeps, WriteKeeps,
     StopKeeps
  DEF Next, Step

-----------------------------------------------------------------------------

\* When all events of a subscription are recorded, the last of its states is:
\* the row's basis is no older than it, hence it.
LEMMA SettledIsLatest ==
  ASSUME TypeInv, FreshInv, PastInv, NEW s \in Sub, state[s] = "converged", Settled(s)
  PROVE  basis[s] = canon[s].version
<1>1. basis[s] \in Nat /\ canon[s].version \in 0..MaxVersion /\ MaxVersion \in Nat
  BY ReconciliationAssumption DEF TypeInv, RowTypes, StripeTypes
<1>2. basis[s] <= canon[s].version
  BY DEF PastInv
<1>3. CASE canon[s].version = 0
  BY <1>1, <1>2, <1>3
<1>4. CASE canon[s].version # 0
  <2> DEFINE e == [sub |-> s, version |-> canon[s].version, kind |-> "change"]
  <2>1. e \in Event
    BY <1>1, <1>4 DEF Event
  <2>2. e \in Sent
    BY <1>1, <2>1 DEF Sent
  <2>3. e \in seen
    BY <2>2 DEF Settled
  <2>4. canon[s].version <= basis[s]
    BY <2>3 DEF FreshInv, NoEventSwallowed
  <2> QED
    BY <1>1, <1>2, <2>4
<1> QED
  BY <1>3, <1>4

\* Whatever fails, and as long as no two workers are at work for one person: once
\* every event of the subscription a person is linked to is recorded and its row
\* says converged, the projection is Stripe's state, what it entitles to is
\* granted, and exactly that is bound.
THEOREM ConvergedMeansGranted == Spec => SerialConverges
<1>1. Spec /\ []OneAtATime => []ConvergedInv
  BY TypeInvHolds, PastInvHolds, ConvergedInit, ConvergedNext, PTL DEF Spec
<1>2. Spec => []FreshInv
  BY TypeInvHolds, FreshInit, FreshNext, PTL DEF Spec
<1>3. TypeInv /\ FreshInv /\ PastInv /\ ConvergedInv => ConvergedGrants
  <2> SUFFICES ASSUME TypeInv, FreshInv, PastInv, ConvergedInv, NEW s \in Sub,
                      state[s] = "converged", Linked(s), Settled(s)
               PROVE  /\ proj[PersonOf[s]] = Projection(canon[s])
                      /\ Desired(canon[s]) \subseteq grants[PersonOf[s]]
                      /\ bindings[s] = Desired(canon[s])
    BY DEF ConvergedGrants
  <2> QED
    BY SettledIsLatest DEF ConvergedInv, RowMeans
<1> QED
  BY <1>1, <1>2, <1>3, TypeInvHolds, PastInvHolds, PTL DEF SerialConverges

\* One worker is never two: it keeps all of ConvergedGrants.
THEOREM OneWorkerConverges == (\A v, w \in Worker : v = w) => (Spec => []ConvergedGrants)
<1> SUFFICES ASSUME \A v, w \in Worker : v = w PROVE Spec => []ConvergedGrants
  OBVIOUS
<1>1. OneAtATime
  BY DEF OneAtATime
<1> QED
  BY <1>1, ConvergedMeansGranted, PTL DEF SerialConverges

-----------------------------------------------------------------------------
(* What else stays granted.  A feature of a person with one subscription is *)
(* bound, or on its way from put_grant to put_binding.                      *)

Sole(s) == \A t \in Sub : PersonOf[t] = PersonOf[s] => t = s

OnItsWay(s, f) ==
    \E w \in Worker : work[w].pc = "bind" /\ work[w].job = s /\ work[w].feature = f

BoundInv ==
    \A s \in Sub : Sole(s) =>
        /\ \A f \in grants[PersonOf[s]] : f \in bindings[s] \/ OnItsWay(s, f)
        /\ \A w \in Worker : work[w].pc = "unbind" /\ work[w].job = s
                                => work[w].feature \notin grants[PersonOf[s]]

LEMMA BoundInit == Init => BoundInv
  BY ReconciliationAssumption DEF Init, BoundInv, Idle

\* A step that touches no grant and no binding, and does not give up a feature
\* between its two calls.
LEMMA BoundKept ==
  ASSUME BoundInv, NEW w \in Worker, Others(w), UNCHANGED <<grants, bindings>>,
         work'[w].pc # "unbind",
         work[w].pc = "bind" => work[w].feature \in bindings[work[w].job]
  PROVE  BoundInv'
  BY DEF BoundInv, OnItsWay, Others

LEMMA RevokeBound ==
  ASSUME TypeInv, BoundInv, NEW w \in Worker, RevokeGrant(w)
  PROVE  BoundInv'
<1> DEFINE p == PersonOf[work[w].job]
           r(f) == [work[w] EXCEPT !.pc = "unbind", !.feature = f]
<1>1. PICK f \in work[w].drop, reply \in Replies :
        /\ grants' = IF Applied(reply) THEN [grants EXCEPT ![p] = @ \ {f}] ELSE grants
        /\ work' = [work EXCEPT ![w] = IF Proceeds(reply) THEN r(f) ELSE Failing(w)]
  BY DEF RevokeGrant, TypeInv, WorkTypes
<1>2. /\ work[w].pc = "revoke" /\ work[w] \in Work /\ work[w].job \in Sub /\ p \in Person
      /\ UNCHANGED bindings
  BY ReconciliationAssumption DEF RevokeGrant, TypeInv, WorkTypes, Sensible
<1>3. Others(w)
  BY <1>1 DEF TypeInv, WorkTypes, Others
<1>4. /\ \A q \in Person : grants'[q] \subseteq grants[q]
      /\ Proceeds(reply) => f \notin grants'[p]
  BY <1>1, <1>2 DEF TypeInv, GrantTypes, Proceeds, Applied
<1>5. work'[w].pc = "unbind" => /\ Proceeds(reply)
                                /\ work'[w].job = work[w].job /\ work'[w].feature = f
  BY <1>1, <1>2 DEF TypeInv, WorkTypes, Work, Failing, Idle
<1>6. \A s \in Sub : PersonOf[s] \in Person
  BY ReconciliationAssumption
<1> QED
  BY <1>2, <1>3, <1>4, <1>5, <1>6 DEF BoundInv, OnItsWay, Others

LEMMA UnbindBound ==
  ASSUME TypeInv, BoundInv, NEW w \in Worker, DeleteBinding(w)
  PROVE  BoundInv'
<1> DEFINE s == work[w].job
           f == work[w].feature
           left == work[w].drop \ {f}
           stage == Stage(left, work[w].put)
           r == [work[w] EXCEPT !.pc = stage, !.drop = left, !.feature = None]
<1>1. PICK reply \in Replies :
        /\ bindings' = IF Applied(reply) THEN [bindings EXCEPT ![s] = @ \ {f}] ELSE bindings
        /\ work' = [work EXCEPT ![w] = IF Proceeds(reply) THEN r ELSE Failing(w)]
  BY DEF DeleteBinding, TypeInv, WorkTypes
<1>2. work[w].pc = "unbind" /\ work[w] \in Work /\ s \in Sub /\ UNCHANGED grants
  BY DEF DeleteBinding, TypeInv, WorkTypes, Sensible
<1>3. Others(w)
  BY <1>1 DEF TypeInv, WorkTypes, Others
<1>4. \A t \in Sub : bindings[t] \ bindings'[t] \subseteq (IF t = s THEN {f} ELSE {})
  BY <1>1, <1>2 DEF TypeInv, GrantTypes
<1>5. stage # "unbind" /\ r.pc = stage
  BY <1>2 DEF Stage, Work
<1>6. work'[w].pc # "unbind"
  BY <1>1, <1>5 DEF TypeInv, WorkTypes, Failing, Idle
<1> QED
  BY <1>2, <1>3, <1>4, <1>6 DEF BoundInv, OnItsWay, Others

LEMMA PutBound ==
  ASSUME OneAtATime, TypeInv, BoundInv, NEW w \in Worker, PutGrant(w), PutsAreBound
  PROVE  BoundInv'
<1> DEFINE p == PersonOf[work[w].job]
           r(f) == [work[w] EXCEPT !.pc = "bind", !.feature = f]
<1>1. PICK f \in work[w].put, reply \in Replies :
        /\ grants' = IF Applied(reply) THEN [grants EXCEPT ![p] = @ \cup {f}] ELSE grants
        /\ work' = [work EXCEPT ![w] = IF Proceeds(reply) THEN r(f) ELSE Failing(w)]
  BY DEF PutGrant, TypeInv, WorkTypes
<1>2. /\ work[w].pc = "put" /\ work[w] \in Work /\ work[w].job \in Sub /\ p \in Person
      /\ UNCHANGED bindings
  BY ReconciliationAssumption DEF PutGrant, TypeInv, WorkTypes, Sensible
<1>3. Others(w)
  BY <1>1 DEF TypeInv, WorkTypes, Others
<1>4. \A q \in Person : grants'[q] \ grants[q] \subseteq (IF q = p THEN {f} ELSE {})
  BY <1>1, <1>2 DEF TypeInv, GrantTypes
<1>5. /\ work'[w].pc # "unbind"
      /\ work'[w].pc = "bind" => work'[w].job = work[w].job /\ work'[w].feature = f
  BY <1>1, <1>2 DEF TypeInv, WorkTypes, Work, Failing, Idle
<1>6. grants'[p] # grants[p] => work'[w].pc = "bind"
  BY <1>2 DEF PutsAreBound
<1>7. \A v \in Worker \ {w} : work[v].pc = "unbind" => PersonOf[work[v].job] # p
  BY <1>2 DEF OneAtATime
<1> SUFFICES ASSUME NEW s \in Sub, Sole(s)
             PROVE  /\ \A g \in grants'[PersonOf[s]] : g \in bindings'[s] \/ OnItsWay(s, g)'
                    /\ \A v \in Worker : work'[v].pc = "unbind" /\ work'[v].job = s
                                          => work'[v].feature \notin grants'[PersonOf[s]]
  BY DEF BoundInv, Sole
<1>8. CASE PersonOf[s] # p
  <2>1. grants'[PersonOf[s]] \subseteq grants[PersonOf[s]]
    BY <1>4, <1>8, ReconciliationAssumption
  <2> QED
    BY <1>2, <1>3, <1>5, <2>1 DEF BoundInv, OnItsWay, Others
<1>9. CASE PersonOf[s] = p
  <2>1. s = work[w].job
    BY <1>2, <1>9 DEF Sole
  <2>2. ASSUME NEW g \in grants'[p]
        PROVE  g \in bindings'[s] \/ OnItsWay(s, g)'
    <3>1. CASE g \in grants[p]
      BY <1>2, <1>3, <1>9, <3>1 DEF BoundInv, OnItsWay, Others
    <3>2. CASE g \notin grants[p]
      BY <1>2, <1>4, <1>5, <1>6, <2>1, <3>2 DEF OnItsWay
    <3> QED
      BY <3>1, <3>2
  <2> QED
    BY <1>3, <1>5, <1>7, <1>9, <2>2 DEF Others
<1> QED
  BY <1>8, <1>9

LEMMA BindBound ==
  ASSUME TypeInv, BoundInv, NEW w \in Worker, PutBinding(w), PutsAreBound
  PROVE  BoundInv'
<1> DEFINE s == work[w].job
           f == work[w].feature
           left == work[w].put \ {f}
           stage == Stage({}, left)
           r == [work[w] EXCEPT !.pc = stage, !.put = left, !.feature = None]
<1>1. PICK reply \in Replies :
        /\ bindings' = IF Applied(reply) THEN [bindings EXCEPT ![s] = @ \cup {f}] ELSE bindings
        /\ work' = [work EXCEPT ![w] = IF Proceeds(reply) THEN r ELSE Failing(w)]
  BY DEF PutBinding, TypeInv, WorkTypes
<1>2. work[w].pc = "bind" /\ work[w] \in Work /\ s \in Sub /\ UNCHANGED grants
  BY DEF PutBinding, TypeInv, WorkTypes, Sensible
<1>3. Others(w)
  BY <1>1 DEF TypeInv, WorkTypes, Others
<1>4. \A t \in Sub : bindings[t] \subseteq bindings'[t]
  BY <1>1, <1>2 DEF TypeInv, GrantTypes
<1>5. stage \notin {"unbind", "bind"} /\ r.pc = stage
  BY <1>2 DEF Stage, Work
<1>6. work'[w].pc \notin {"unbind", "bind"}
  BY <1>1, <1>5 DEF TypeInv, WorkTypes, Failing, Idle
<1>7. f \in bindings'[s]
  BY <1>2, <1>6 DEF PutsAreBound
<1> QED
  BY <1>2, <1>3, <1>4, <1>6, <1>7 DEF BoundInv, OnItsWay, Others

LEMMA OtherStepsBound ==
  ASSUME TypeInv, BoundInv, NEW w \in Worker, PutsAreBound,
         \/ Claim(w) \/ Fetch(w) \/ FindSubject(w) \/ LoadBindings(w) \/ CheckOwner(w)
         \/ WriteConverged(w) \/ Retry(w) \/ Abandon(w)
  PROVE  BoundInv'
<1>1. UNCHANGED <<grants, bindings>>
  BY DEF Claim, Fetch, FindSubject, LoadBindings, CheckOwner, WriteConverged, Retry, Abandon
<1>2. PICK r : work' = [work EXCEPT ![w] = r] /\ r.pc \notin {"unbind", "bind"}
  <2>1. CASE Claim(w)
    <3>1. PICK s \in Sub : work' = [work EXCEPT ![w].pc = "fetch", ![w].job = s]
      BY <2>1 DEF Claim
    <3> DEFINE r == [work[w] EXCEPT !.pc = "fetch", !.job = s]
    <3>2. work' = [work EXCEPT ![w] = r] /\ r.pc = "fetch"
      BY <3>1 DEF TypeInv, WorkTypes, Work
    <3> QED
      BY <3>2
  <2>2. CASE Fetch(w)
    <3> DEFINE r == [work[w] EXCEPT !.pc = "find", !.read = canon[work[w].job]]
    <3>1. work' = [work EXCEPT ![w] = r] \/ work' = [work EXCEPT ![w] = Failing(w)]
      BY <2>2 DEF Fetch, TypeInv, WorkTypes
    <3>2. r.pc = "find" /\ Failing(w).pc = "retry"
      BY DEF TypeInv, WorkTypes, Work, Failing, Idle
    <3> QED
      BY <3>1, <3>2
  <2>3. CASE FindSubject(w)
    <3> DEFINE r == [work[w] EXCEPT !.pc = "load"]
    <3>1. work' = [work EXCEPT ![w] = r] \/ work' = [work EXCEPT ![w] = Failing(w)]
      BY <2>3 DEF FindSubject, TypeInv, WorkTypes
    <3>2. r.pc = "load" /\ Failing(w).pc = "retry"
      BY DEF TypeInv, WorkTypes, Work, Failing, Idle
    <3> QED
      BY <3>1, <3>2
  <2>4. CASE LoadBindings(w)
    <3> DEFINE want == Desired(work[w].read)
               drop == bindings[work[w].job] \ want
               stage == Stage(drop, want)
               r == [work[w] EXCEPT !.pc = stage, !.drop = drop, !.put = want]
    <3>1. work' = [work EXCEPT ![w] = r] /\ r.pc = stage
      BY <2>4 DEF LoadBindings, TypeInv, WorkTypes, Work
    <3>2. stage \in {"revoke", "put", "check"}
      BY DEF Stage
    <3> QED
      BY <3>1, <3>2
  <2>5. CASE CheckOwner(w)
    <3> DEFINE r == [work[w] EXCEPT !.pc = "write"]
    <3>1. work' = [work EXCEPT ![w] = r] \/ work' = [work EXCEPT ![w] = Idle]
      BY <2>5 DEF CheckOwner, TypeInv, WorkTypes
    <3>2. r.pc = "write" /\ Idle.pc = "idle"
      BY DEF TypeInv, WorkTypes, Work, Idle
    <3> QED
      BY <3>1, <3>2
  <2>6. CASE WriteConverged(w) \/ Retry(w) \/ Abandon(w)
    <3>1. Idle.pc = "idle" /\ work' = [work EXCEPT ![w] = Idle]
      BY <2>6 DEF WriteConverged, Retry, Abandon, Idle
    <3> QED
      BY <3>1
  <2> QED
    BY <2>1, <2>2, <2>3, <2>4, <2>5, <2>6
<1>3. Others(w) /\ work'[w] = r
  BY <1>2 DEF TypeInv, WorkTypes, Others
<1>4. work[w].pc = "bind" => work[w].feature \in bindings[work[w].job]
  BY <1>1, <1>2, <1>3 DEF PutsAreBound
<1> QED
  BY <1>1, <1>2, <1>3, <1>4, BoundKept

LEMMA BoundNext ==
  OneAtATime /\ TypeInv /\ BoundInv /\ [Next /\ PutsAreBound]_vars => BoundInv'
<1> SUFFICES ASSUME OneAtATime, TypeInv, BoundInv, [Next /\ PutsAreBound]_vars
             PROVE  BoundInv'
  OBVIOUS
<1>1. CASE UNCHANGED <<work, grants, bindings>>
  BY <1>1 DEF BoundInv, OnItsWay
<1>2. ASSUME NEW w \in Worker, Step(w) \/ Abandon(w), PutsAreBound
      PROVE  BoundInv'
  BY <1>2, RevokeBound, UnbindBound, PutBound, BindBound, OtherStepsBound DEF Step
<1> QED
  BY <1>1, <1>2 DEF Next, vars, Subscribe, Change, Expire, Ingest, Redeliver

\* As long as no two workers are at work for one person, and every put is heard
\* of and bound, converged also means that nothing else is granted to a person
\* with one subscription: what orphan_grant shows has no other cause.
THEOREM BoundMeansRevoked ==
  Spec /\ []OneAtATime /\ [][PutsAreBound]_vars => []ConvergedRevokes
<1>1. Spec /\ []OneAtATime /\ [][PutsAreBound]_vars => []BoundInv
  <2>1. [Next]_vars /\ [PutsAreBound]_vars => [Next /\ PutsAreBound]_vars
    OBVIOUS
  <2> QED
    BY <2>1, TypeInvHolds, BoundInit, BoundNext, PTL DEF Spec
<1>2. Spec /\ []OneAtATime => []ConvergedInv
  BY TypeInvHolds, PastInvHolds, ConvergedInit, ConvergedNext, PTL DEF Spec
<1>3. Spec => []FreshInv
  BY TypeInvHolds, FreshInit, FreshNext, PTL DEF Spec
<1>4. TypeInv /\ FreshInv /\ PastInv /\ ConvergedInv /\ BoundInv => ConvergedRevokes
  <2> SUFFICES ASSUME TypeInv, FreshInv, PastInv, ConvergedInv, BoundInv, NEW s \in Sub,
                      state[s] = "converged", Linked(s), Settled(s), Sole(s)
               PROVE  grants[PersonOf[s]] \subseteq Desired(canon[s])
    BY DEF ConvergedRevokes, Sole
  <2>1. bindings[s] = Desired(canon[s])
    BY SettledIsLatest DEF ConvergedInv, RowMeans
  <2>2. \A w \in Worker : work[w].pc = "bind" => work[w].job # s
    BY DEF ConvergedInv, SlotInv, AloneIn
  <2> QED
    BY <2>1, <2>2 DEF BoundInv, OnItsWay
<1> QED
  BY <1>1, <1>2, <1>3, <1>4, TypeInvHolds, PastInvHolds, PTL

-----------------------------------------------------------------------------
(* What the lease is worth.                                                *)

\* A worker at work has its row's lease.
LeaseInv ==
    \A w \in Worker : work[w].pc # "idle" =>
        holder[work[w].job] = w /\ ~expired[work[w].job]

LEMMA LeaseInit == Init => LeaseInv
  BY DEF Init, LeaseInv, Idle

\* A step that keeps its worker at its row, or ends with the rows of others as
\* they are.
LEMMA LeaseKept ==
  ASSUME TypeInv, LeaseInv, NEW w \in Worker, Others(w), work[w].pc # "idle",
         \/ /\ work'[w].job = work[w].job
            /\ UNCHANGED <<holder, expired>>
         \/ /\ work'[w].pc = "idle"
            /\ \A t \in Sub : t # work[w].job => /\ holder'[t] = holder[t]
                                                /\ expired'[t] = expired[t]
  PROVE  LeaseInv'
<1>1. \A v \in Worker : work[v].pc # "idle" => work[v].job \in Sub
  BY DEF TypeInv, WorkTypes, Sensible
<1>2. \A v \in Worker \ {w} : work[v].pc # "idle" => work[v].job # work[w].job
  BY DEF LeaseInv
<1> QED
  BY <1>1, <1>2 DEF LeaseInv, Others

LEMMA LeaseNext == TypeInv /\ LeaseInv /\ [Next /\ ~Overtaken]_vars => LeaseInv'
<1> SUFFICES ASSUME TypeInv, LeaseInv, [Next /\ ~Overtaken]_vars PROVE LeaseInv'
  OBVIOUS
<1>1. ASSUME NEW s \in Sub, Expire(s), Orphaned(s)
      PROVE  LeaseInv'
  BY <1>1 DEF Expire, Orphaned, LeaseInv, TypeInv, RowTypes
<1>2. ASSUME NEW e \in Event, Ingest(e), Orphaned(e.sub)
      PROVE  LeaseInv'
  <2>1. /\ UNCHANGED work
        /\ \A t \in Sub : t # e.sub => holder'[t] = holder[t] /\ expired'[t] = expired[t]
    BY <1>2 DEF Ingest, Enqueue, TypeInv, RowTypes
  <2>2. \A v \in Worker : work[v].pc # "idle" => /\ work[v].job \in Sub
                                                 /\ work[v].job # e.sub
    BY <1>2 DEF Orphaned, LeaseInv, TypeInv, WorkTypes, Sensible
  <2> QED
    BY <2>1, <2>2 DEF LeaseInv
<1>3. ASSUME NEW w \in Worker, Claim(w)
      PROVE  LeaseInv'
  <2>1. PICK s \in Sub : /\ Candidate(s)
                         /\ holder' = [holder EXCEPT ![s] = w]
                         /\ expired' = [expired EXCEPT ![s] = FALSE]
                         /\ work' = [work EXCEPT ![w].pc = "fetch", ![w].job = s]
    BY <1>3 DEF Claim
  <2>2. Others(w) /\ work'[w].job = s
    BY <2>1 DEF TypeInv, WorkTypes, Work, Others
  <2>3. \A v \in Worker : work[v].pc # "idle" => work[v].job \in Sub /\ work[v].job # s
    BY <2>1, ReconciliationAssumption
    DEF Candidate, Claimable, LeaseInv, TypeInv, RowTypes, WorkTypes, Sensible
  <2>4. /\ holder'[s] = w /\ ~expired'[s]
        /\ \A t \in Sub : t # s => holder'[t] = holder[t] /\ expired'[t] = expired[t]
    BY <2>1 DEF TypeInv, RowTypes
  <2> QED
    BY <2>2, <2>3, <2>4 DEF LeaseInv, Others
<1>4. ASSUME NEW w \in Worker, Fetch(w)
      PROVE  LeaseInv'
  <2>1. Others(w) /\ work'[w].job = work[w].job
    BY <1>4 DEF Fetch, Failing, Idle, TypeInv, WorkTypes, Work, Others
  <2> QED
    BY <1>4, <2>1, LeaseKept DEF Fetch, rowVars
<1>5. ASSUME NEW w \in Worker, WriteConverged(w) \/ Retry(w) \/ Abandon(w)
      PROVE  LeaseInv'
  <2>1. Others(w) /\ work'[w].pc = "idle"
    BY <1>5 DEF WriteConverged, Retry, Abandon, Idle, TypeInv, WorkTypes, Others
  <2>2. \A t \in Sub : t # work[w].job => holder'[t] = holder[t] /\ expired'[t] = expired[t]
    BY <1>5 DEF WriteConverged, Converge, Retry, Enqueue, Abandon, rowVars, TypeInv, RowTypes
  <2>3. work[w].pc # "idle"
    BY <1>5 DEF WriteConverged, Retry, Abandon
  <2> QED
    BY <2>1, <2>2, <2>3, LeaseKept
<1>6. ASSUME NEW w \in Worker, CheckOwner(w)
      PROVE  LeaseInv'
  <2>1. /\ Others(w)
        /\ work'[w].job = work[w].job \/ work'[w].pc = "idle"
    BY <1>6 DEF CheckOwner, Idle, TypeInv, WorkTypes, Work, Others
  <2> QED
    BY <1>6, <2>1, LeaseKept DEF CheckOwner, rowVars
<1>7. ASSUME NEW w \in Worker,
             \/ FindSubject(w) \/ LoadBindings(w) \/ RevokeGrant(w) \/ DeleteBinding(w)
             \/ PutGrant(w) \/ PutBinding(w)
      PROVE  LeaseInv'
  <2>1. Others(w)
    BY <1>7, ContinuesOnward DEF Continues
  <2>2. Failing(w).job = work[w].job /\ work[w] \in Work
    BY DEF Failing, Idle, TypeInv, WorkTypes
  <2>3. work'[w].job = work[w].job
    <3>1. CASE FindSubject(w)
      BY <2>2, <3>1 DEF FindSubject, TypeInv, WorkTypes, Work
    <3>2. CASE LoadBindings(w)
      BY <2>2, <3>2 DEF LoadBindings, TypeInv, WorkTypes, Work
    <3>3. CASE RevokeGrant(w)
      BY <2>2, <3>3 DEF RevokeGrant, TypeInv, WorkTypes, Work
    <3>4. CASE DeleteBinding(w)
      BY <2>2, <3>4 DEF DeleteBinding, TypeInv, WorkTypes, Work
    <3>5. CASE PutGrant(w)
      BY <2>2, <3>5 DEF PutGrant, TypeInv, WorkTypes, Work
    <3>6. CASE PutBinding(w)
      BY <2>2, <3>6 DEF PutBinding, TypeInv, WorkTypes, Work
    <3> QED
      BY <1>7, <3>1, <3>2, <3>3, <3>4, <3>5, <3>6
  <2> QED
    BY <1>7, <2>1, <2>3, LeaseKept
    DEF FindSubject, LoadBindings, RevokeGrant, DeleteBinding, PutGrant, PutBinding, rowVars
<1>8. CASE UNCHANGED <<holder, expired, work>>
  BY <1>8 DEF LeaseInv
<1> QED
  BY <1>1, <1>2, <1>3, <1>4, <1>5, <1>6, <1>7, <1>8
  DEF Next, Step, vars, rowVars, Overtaken, Subscribe, Change, Redeliver

\* The lease keeps workers apart until one of them is overtaken, and people that
\* have one subscription each apart with them.  So with any number of workers
\* stale_worker has no other cause than a lease that ran out, or an event that
\* came, while a worker was at work for the row.
THEOREM LeaseSeparates ==
  (\A s \in Sub : Sole(s)) => (Spec /\ [][~Overtaken]_vars => []ConvergedGrants)
<1> SUFFICES ASSUME \A s \in Sub : Sole(s)
             PROVE  Spec /\ [][~Overtaken]_vars => []ConvergedGrants
  OBVIOUS
<1>1. [Next]_vars /\ [~Overtaken]_vars => [Next /\ ~Overtaken]_vars
  OBVIOUS
<1>2. Spec /\ [][~Overtaken]_vars => []LeaseInv
  BY <1>1, TypeInvHolds, LeaseInit, LeaseNext, PTL DEF Spec
<1>3. TypeInv /\ LeaseInv => OneAtATime
  BY DEF LeaseInv, OneAtATime, Sole, TypeInv, WorkTypes, Sensible
<1> QED
  BY <1>2, <1>3, TypeInvHolds, ConvergedMeansGranted, PTL DEF SerialConverges
==============================================================================
