----------------------------- MODULE EngineOpsProofs -----------------------------
(* Facts about arbitration and the engine's operations, for every set of        *)
(* channels and names: what the proofs about the engine and about the riders    *)
(* that call into it rest on.                                                   *)
EXTENDS EngineOps, WellFoundedInduction, TLAPS

--------------------------------------------------------------------------------
(* Arbitration *)

\* A nonempty set of behaviors with distinct ids up to n, of any size.
Field(S, n) ==
  /\ S # {}
  /\ \A b \in S : b.ord \in Nat /\ b.ord <= n /\ b.cls \in StopClasses
  /\ \A a, b \in S : a.ord = b.ord => a = b

\* A nonempty set of natural numbers has a smallest one.
LEMMA NatSetHasMin ==
  ASSUME NEW T, T \in SUBSET Nat, T # {}
  PROVE  \E m \in T : \A k \in T : m <= k
<1>1. PICK m \in T : \A k \in T : <<k, m>> \notin OpToRel(<, Nat)
  BY WFMin, NatLessThanWellFounded, Zenon
<1>2. \A k \in T : ~(k < m)
  BY <1>1, Zenon DEF OpToRel
<1>3. \A k \in T : m <= k
  BY <1>2
<1> QED BY <1>3

\* The winner of `arbitrate` on a channel exists, and outranks every other
\* candidate: the code's max() over (priority, recency).
THEOREM BestOutranks ==
  ASSUME NEW S, NEW n \in Nat, Field(S, n)
  PROVE  Best(S) \in S /\ \A x \in S \ {Best(S)} : Outranks(Best(S), x)
<1> DEFINE P == {3 - Priority(b.cls) : b \in S}
<1>1. \A b \in S : Priority(b.cls) \in 0 .. 3
  BY DEF Field, Priority, StopClasses
<1>2. P \in SUBSET Nat /\ P # {}
  BY <1>1 DEF Field
<1>3. PICK p \in S : \A b \in S : Priority(b.cls) <= Priority(p.cls)
  <2>1. PICK m \in P : \A k \in P : m <= k
    BY <1>2, NatSetHasMin
  <2>2. PICK q \in S : m = 3 - Priority(q.cls)
    BY <2>1
  <2>3. \A b \in S : 3 - Priority(q.cls) <= 3 - Priority(b.cls)
    BY <2>1, <2>2
  <2> QED BY <1>1, <2>3
<1> DEFINE Top == {b \in S : Priority(b.cls) = Priority(p.cls)}
           R   == {n - b.ord : b \in Top}
<1>4. R \in SUBSET Nat /\ R # {}
  BY <1>3 DEF Field
<1>5. PICK r \in Top : \A b \in Top : b.ord <= r.ord
  <2>1. PICK m \in R : \A k \in R : m <= k
    BY <1>4, NatSetHasMin
  <2>2. PICK q \in Top : m = n - q.ord
    BY <2>1
  <2>3. \A b \in Top : n - q.ord <= n - b.ord
    BY <2>1, <2>2
  <2> QED BY <2>3 DEF Field
<1>6. r \in S /\ \A x \in S \ {r} : Outranks(r, x)
  <2> SUFFICES ASSUME NEW x \in S \ {r} PROVE Outranks(r, x)
    BY <1>5
  <2>1. CASE x \in Top
    <3>1. x.ord <= r.ord /\ x.ord # r.ord /\ Priority(x.cls) = Priority(r.cls)
      BY <1>5, <2>1 DEF Field
    <3> QED BY <3>1 DEF Outranks, Field
  <2>2. CASE x \notin Top
    BY <1>1, <1>3, <1>5, <2>2 DEF Outranks
  <2> QED BY <2>1, <2>2
<1> QED BY <1>6 DEF Best

--------------------------------------------------------------------------------
(* The engine *)

\* The engine's own invariant, by part: ids are unique and were handed out; a base
\* layer on the active set is on record in _base_ids, never expires and is passive,
\* so nothing but a removal by name or id can take it; there is one at most; and
\* the recorded cause accounts for its absence.
EngInv(e) ==
  /\ e \in Engines
  /\ \A a, b \in e.active : a.ord = b.ord => a = b
  /\ \A b \in e.active : b.ord <= e.seq
  /\ \A b \in e.active : b.base => b.ord \in e.baseIds /\ b.left = Forever /\ b.cls = "passive"
  /\ \A a, b \in e.active : a.base /\ b.base => a = b
  /\ IF e.seeded THEN BaseActive(e) <=> e.cause = "none"
                 ELSE ~BaseActive(e) /\ e.cause = "none"

--------------------------------------------------------------------------------
(* Each engine operation keeps the engine's invariant. *)

\* A new engine satisfies it.
LEMMA NewEngineInv == EngInv(NewEngine)
  BY DEF EngInv, NewEngine, Engines, BaseActive, NoOwner

\* Seeding keeps it when no base layer is active (_seed_base's callers check).
LEMMA SeedBaseInv ==
  ASSUME NEW e, EngInv(e), ~BaseActive(e)
  PROVE  EngInv(SeedBase(e)) /\ SeedBase(e).own = e.own
<1> DEFINE b0 == BaseBehavior(e.seq + 1)
           s  == SeedBase(e)
<1>1. b0 \in Behaviors /\ b0.base /\ b0.ord = e.seq + 1 /\ b0.left = Forever /\ b0.cls = "passive"
  BY BaseNameAssumption DEF BaseBehavior, Behaviors, StopClasses, EngInv, Engines
<1>2. /\ s.active = e.active \cup {b0} /\ s.seq = e.seq + 1
      /\ s.baseIds = e.baseIds \cup {e.seq + 1} /\ s.seeded /\ s.cause = "none" /\ s.own = e.own
  BY DEF SeedBase, EngInv, Engines
<1>5. s \in Engines
  <2>1. e.seq + 1 \in Nat \ {0} /\ e.active \cup {b0} \in SUBSET Behaviors
    BY <1>1 DEF EngInv, Engines
  <2> QED BY <2>1 DEF SeedBase, EngInv, Engines
<1>3. \A b \in e.active : b.ord \in Nat /\ b.ord <= e.seq /\ ~b.base
  BY DEF EngInv, Engines, Behaviors, BaseActive
<1>4. e.seq \in Nat
  BY DEF EngInv, Engines
<1> QED BY <1>1, <1>2, <1>3, <1>4, <1>5 DEF EngInv, BaseActive

\* _add_base keeps it: it checks for an active base layer before it seeds.
LEMMA AddBaseInv ==
  ASSUME NEW e, EngInv(e)
  PROVE  EngInv(AddBase(e))
  BY SeedBaseInv DEF AddBase

\* ensure_base keeps it.
LEMMA EnsureBaseInv ==
  ASSUME NEW e, EngInv(e)
  PROVE  EngInv(EnsureBase(e))
<1>1. CASE e.seeded /\ e.cause = "stop"
  <2>1. EnsureBase(e) = [e EXCEPT !.reported = TRUE]
    BY <1>1 DEF EnsureBase
  <2> QED BY <2>1 DEF EngInv, Engines, BaseActive
<1>2. CASE e.seeded /\ e.cause # "stop"
  BY <1>2, AddBaseInv DEF EnsureBase
<1>3. CASE ~e.seeded
  BY <1>3 DEF EnsureBase, EngInv, Engines
<1> QED BY <1>1, <1>2, <1>3 DEF EngInv, Engines

\* admit_behavior keeps it: a newcomer is never a base layer and never evicts one.
LEMMA AdmitInv ==
  ASSUME NEW e, EngInv(e), NEW b \in Behaviors, b.ord = e.seq + 1, ~b.base
  PROVE  EngInv(AdmitBehavior(e, b))
<1> DEFINE f == AdmitBehavior(e, b)
<1>1. /\ f.active = (e.active \ Evicted(b, e.active)) \cup {b} /\ f.seq = b.ord
      /\ f.baseIds = e.baseIds /\ f.seeded = e.seeded /\ f.cause = e.cause
  BY DEF AdmitBehavior, EngInv, Engines
<1>2. f \in Engines
  <2>1. (e.active \ Evicted(b, e.active)) \cup {b} \in SUBSET Behaviors /\ b.ord \in Nat
    BY DEF EngInv, Engines, Behaviors
  <2> QED BY <2>1 DEF AdmitBehavior, EngInv, Engines
<1>3. \A x \in e.active : x.base => x \in f.active
  BY <1>1 DEF Evicted, EngInv
<1>4. BaseActive(f) <=> BaseActive(e)
  BY <1>1, <1>3 DEF BaseActive
<1>5. e.seq \in Nat /\ \A x \in e.active : x.ord \in Nat /\ x.ord <= e.seq
  BY DEF EngInv, Engines, Behaviors
<1> QED BY <1>1, <1>2, <1>4, <1>5 DEF EngInv

\* Building and admitting keeps it, and so does add.
LEMMA EngineAddInv ==
  ASSUME NEW e, EngInv(e), NEW n \in Names, NEW cls \in StopClasses, NEW ch \in SUBSET Channels,
         NEW d \in Nat \cup {Forever}
  PROVE  /\ EngInv(EngineAdd(e, n, cls, ch, d))
         /\ EngInv(AdmitBehavior(e, Build(e, n, cls, ch, d)))
<1>1. e.seq + 1 \in Nat \ {0}
  BY DEF EngInv, Engines
<1>2. Build(e, n, cls, ch, d) \in Behaviors
  BY <1>1 DEF Build, Behaviors
<1>3. Build(e, n, cls, ch, d).ord = e.seq + 1 /\ ~Build(e, n, cls, ch, d).base
  BY DEF Build
<1>4. EngInv(AdmitBehavior(e, Build(e, n, cls, ch, d)))
  BY <1>2, <1>3, AdmitInv
<1> QED BY <1>4, AddBaseInv DEF EngineAdd

\* stop and evict keep it: whatever they remove, the cause is recorded with it.
LEMMA RemoveInv ==
  ASSUME NEW e, EngInv(e), NEW hits, hits \subseteq e.active, NEW why \in {"stop", "inhibition"}
  PROVE  EngInv(Remove(e, hits, why))
<1> DEFINE f == Remove(e, hits, why)
<1>1. /\ f.active = e.active \ hits /\ f.seq = e.seq /\ f.baseIds = e.baseIds
      /\ f.seeded = e.seeded
      /\ f.cause = IF \E b \in hits : b.base THEN why ELSE e.cause
  BY DEF Remove, EngInv, Engines
<1>2. f \in Engines
  BY DEF Remove, EngInv, Engines
<1>3. CASE \E b \in hits : b.base
  <2>1. ~BaseActive(f) /\ BaseActive(e) /\ f.cause = why
    BY <1>1, <1>3 DEF EngInv, BaseActive
  <2>2. f.seeded
    BY <1>1, <2>1 DEF EngInv
  <2>3. IF f.seeded THEN BaseActive(f) <=> f.cause = "none" ELSE ~BaseActive(f) /\ f.cause = "none"
    BY <2>1, <2>2
  <2> QED BY <1>1, <1>2, <2>3 DEF EngInv
<1>4. CASE ~\E b \in hits : b.base
  <2>1. (BaseActive(f) <=> BaseActive(e)) /\ f.cause = e.cause
    BY <1>1, <1>4 DEF BaseActive
  <2> QED BY <1>1, <1>2, <2>1 DEF EngInv
<1> QED BY <1>3, <1>4

\* Every owner `arbitrate` names is the id of a live behavior, or nobody.
LEMMA ArbitrateType ==
  ASSUME NEW e, EngInv(e), NEW live, live \subseteq e.active, NEW speaks
  PROVE  Arbitrate(live, speaks) \in [Channels -> Nat]
<1> SUFFICES ASSUME NEW c \in Channels PROVE Owner(Claimants(live, speaks, c)) \in Nat
  BY DEF Arbitrate
<1> DEFINE S == Claimants(live, speaks, c)
<1>1. CASE S = {}
  BY <1>1 DEF Owner, NoOwner
<1>2. CASE S # {}
  <2>1. Field(S, e.seq) /\ e.seq \in Nat
    BY <1>2 DEF Field, Claimants, EngInv, Engines, Behaviors
  <2>2. Best(S) \in S
    BY <2>1, BestOutranks
  <2> QED BY <1>2, <2>2, <2>1 DEF Owner, Field
<1> QED BY <1>1, <1>2

\* compose_tick keeps it: the base layer neither expires nor completes.
LEMMA ComposeInv ==
  ASSUME NEW e, EngInv(e), NEW done, NEW speaks, \A b \in e.active : b.base => b.ord \notin done
  PROVE  EngInv(Compose(e, done, speaks))
<1> DEFINE live == {b \in Live(e) : b.ord \notin done}
           f == Compose(e, done, speaks)
<1>1. /\ f.active = live /\ f.seq = e.seq /\ f.baseIds = e.baseIds
      /\ f.seeded = e.seeded /\ f.cause = e.cause
  BY DEF Compose, EngInv, Engines
<1>2. live \subseteq e.active
  BY DEF Live
<1>3. \A b \in e.active : b.base => b \in live
  BY DEF Live, EngInv, Forever
<1>4. f \in Engines
  <2>1. Arbitrate(live, speaks) \in [Channels -> Nat]
    BY <1>2, ArbitrateType
  <2>2. live \in SUBSET Behaviors
    BY <1>2 DEF EngInv, Engines
  <2>3. f = [e EXCEPT !.active = live, !.own = Arbitrate(live, speaks)]
    BY DEF Compose
  <2> HIDE DEF live, f
  <2> QED BY <2>1, <2>2, <2>3 DEF EngInv, Engines
<1>5. BaseActive(f) <=> BaseActive(e)
  BY <1>1, <1>2, <1>3 DEF BaseActive
<1> HIDE DEF live
<1> QED BY <1>1, <1>2, <1>4, <1>5 DEF EngInv

\* The passing of time keeps it.
LEMMA AgeInv ==
  ASSUME NEW e, EngInv(e), NEW d \in Nat
  PROVE  EngInv(Age(e, d))
<1> DEFINE f == Age(e, d)
<1>1. \A b \in e.active :
        /\ Older(b, d) \in Behaviors
        /\ Older(b, d).ord = b.ord /\ Older(b, d).base = b.base /\ Older(b, d).cls = b.cls
        /\ b.left = Forever => Older(b, d).left = Forever
  BY DEF Older, EngInv, Engines, Behaviors, Forever
<1>2. /\ f.active = {Older(b, d) : b \in e.active} /\ f.seq = e.seq /\ f.baseIds = e.baseIds
      /\ f.seeded = e.seeded /\ f.cause = e.cause
  BY DEF Age, EngInv, Engines
<1>3. f \in Engines
  BY <1>1 DEF Age, EngInv, Engines
<1>4. BaseActive(f) <=> BaseActive(e)
  BY <1>1, <1>2 DEF BaseActive
<1>5. \A x, y \in f.active : x.ord = y.ord \/ (x.base /\ y.base) => x = y
  BY <1>1, <1>2 DEF EngInv

<1> QED BY <1>1, <1>2, <1>3, <1>4, <1>5 DEF EngInv

--------------------------------------------------------------------------------
(* What each operation changes *)

\* A removal only shortens the active set and says why.
LEMMA RemoveEffect ==
  ASSUME NEW e \in Engines, NEW hits, NEW why
  PROVE  LET f == Remove(e, hits, why) IN
         /\ f.active = e.active \ hits /\ f.seq = e.seq /\ f.baseIds = e.baseIds
         /\ f.seeded = e.seeded /\ f.own = e.own
         /\ f.cause = IF \E b \in hits : b.base THEN why ELSE e.cause
  BY DEF Remove, Engines

\* An admission adds the newcomer, and nobody but the evicted leaves.
LEMMA AdmitEffect ==
  ASSUME NEW e \in Engines, NEW b
  PROVE  LET f == AdmitBehavior(e, b) IN
         /\ f.active = (e.active \ Evicted(b, e.active)) \cup {b} /\ f.seq = b.ord
         /\ f.baseIds = e.baseIds /\ f.seeded = e.seeded /\ f.own = e.own /\ f.cause = e.cause
  BY DEF AdmitBehavior, Engines

\* Time changes what is left of each behavior, and nothing else of it.
LEMMA AgeEffect ==
  ASSUME NEW e \in Engines, NEW d
  PROVE  LET f == Age(e, d) IN
         /\ f.active = {Older(b, d) : b \in e.active} /\ f.seq = e.seq
         /\ f.baseIds = e.baseIds /\ f.seeded = e.seeded /\ f.own = e.own /\ f.cause = e.cause
         /\ \A b \in e.active :
              /\ Older(b, d).ord = b.ord /\ Older(b, d).name = b.name /\ Older(b, d).cls = b.cls
              /\ Older(b, d).ch = b.ch /\ Older(b, d).base = b.base
              /\ Older(b, d).left = IF b.left = Forever THEN Forever
                                    ELSE IF b.left > d THEN b.left - d ELSE 0
  BY DEF Age, Older, Engines, Behaviors
==================================================================================
