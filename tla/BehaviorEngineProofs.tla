-------------------------- MODULE BehaviorEngineProofs --------------------------
(* Proofs about BehaviorEngine, for every set of channels, names, behaviors,    *)
(* durations and bounds.  EngInv, the engine's own invariant, and the lemmas    *)
(* about each of its operations are EngineOpsProofs'.  And about the loop that  *)
(* ticks it, for every pace and delay, and the process around it (TickLoop).    *)
EXTENDS BehaviorEngine, EngineOpsProofs, TickLoop, SequenceTheorems

\* Before the loop starts the engine is untouched, so the seed is the first one.
Core == TypeOK /\ EngInv(eng) /\ (phase = "boot" => eng = NewEngine)

\* Stillness that was asked for is on record, which is what ensure_base refuses on.
Stilled == still => eng.cause = "stop"

IInv == Core /\ Stilled

--------------------------------------------------------------------------------
(* The inductive invariant *)

\* Initially.
LEMMA InitCore == Init => Core
<1> SUFFICES ASSUME Init PROVE Core
  OBVIOUS
<1>1. EngInv(eng) /\ eng = NewEngine
  BY NewEngineInv DEF Init
<1>2. eng \in Engines
  BY <1>1 DEF EngInv
<1> QED BY <1>1, <1>2 DEF Init, Core, TypeOK, NothingTold, NoOwner

\* What may be added is what the engine's lemmas about adding ask for.
LEMMA CatalogAdds ==
  ASSUME NEW e, EngInv(e), NEW k \in Catalog, NEW d \in Durations
  PROVE  /\ EngInv(EngineAdd(e, k.name, k.cls, k.ch, d))
         /\ EngInv(AdmitBehavior(e, Build(e, k.name, k.cls, k.ch, d)))
<1>1. k.name \in Names /\ k.cls \in StopClasses /\ k.ch \in SUBSET Channels /\ d \in Nat \cup {Forever}
  BY CatalogAssumption, DurationsAssumption
<1> QED BY <1>1, EngineAddInv

\* Adds, whichever way they come in.
LEMMA AdmitAnyCore ==
  ASSUME Core, NEW k \in Catalog, NEW d \in Durations, NEW e2, EngInv(e2), AdmitAny(k, d, e2),
         phase # "boot", still' \in BOOLEAN
  PROVE  Core'
<1>1. k.ch \subseteq Channels /\ eng.seq + 1 \in Nat
  BY CatalogAssumption DEF Core, EngInv, Engines
<1>2. told' \in [ord : Nat, free : SUBSET Channels]
  BY <1>1 DEF AdmitAny, NothingTold, NoOwner, Build
<1>3. eng' = e2 /\ phase' = phase /\ contrib' = contrib
  BY DEF AdmitAny
<1> QED BY <1>2, <1>3 DEF Core, TypeOK, EngInv

\* Every step.
LEMMA NextCore == Core /\ [Next]_vars => Core'
<1> SUFFICES ASSUME Core, [Next]_vars PROVE Core'
  OBVIOUS
<1> USE DEF NothingTold, NoOwner
<1>0. still' \in BOOLEAN
  BY Zenon DEF Core, TypeOK, vars, Next, Boot, Operators, Riders, Tick, ApplyAdd, SeamAdmit,
               ApplyStopAll, ApplyStopNamed, ApplyStopId, SeamEvict, SeamEvictId, Named,
               SeamEnsureBase, SeamAddBase, ComposeTick, EndTick
<1>1. ASSUME NEW w \in BOOLEAN, Boot(w) PROVE Core'
  <2>1. EngInv(eng')
    <3>1. CASE w
      <4>1. ~BaseActive(eng)
        BY <1>0, <1>1 DEF Boot, Core, NewEngine, BaseActive
      <4> QED BY <1>0, <1>1, <3>1, <4>1, SeedBaseInv DEF Boot, Core
    <3>2. CASE ~w
      BY <1>0, <1>1, <3>2 DEF Boot, Core
    <3> QED BY <3>1, <3>2
  <2> QED BY <1>0, <1>1, <2>1 DEF Boot, Core, TypeOK, EngInv
<1>2. ASSUME NEW k \in Catalog, NEW d \in Durations, ApplyAdd(k, d) PROVE Core'
  BY <1>0, <1>2, CatalogAdds, AdmitAnyCore DEF ApplyAdd, Core
<1>3. ASSUME NEW k \in Catalog, NEW d \in Durations, SeamAdmit(k, d) PROVE Core'
  BY <1>0, <1>3, CatalogAdds, AdmitAnyCore DEF SeamAdmit, Core
<1>4. ASSUME NEW hits, hits \subseteq eng.active, NEW why \in {"stop", "inhibition"},
             Removal(Remove(eng, hits, why)),
             phase # "boot"
      PROVE  Core'
  BY <1>0, <1>4, RemoveInv DEF Removal, Core, TypeOK, EngInv
<1>5. CASE ApplyStopAll
  BY <1>0, <1>4, <1>5 DEF ApplyStopAll, StopAll, Removable
<1>6. ASSUME NEW n \in Names, ApplyStopNamed(n) \/ SeamEvict(n) PROVE Core'
  BY <1>0, <1>4, <1>6 DEF ApplyStopNamed, SeamEvict, Named, StopNamed, Evict, ByName
<1>7. ASSUME NEW i \in Ords, ApplyStopId(i) \/ SeamEvictId(i) PROVE Core'
  BY <1>0, <1>4, <1>7 DEF ApplyStopId, SeamEvictId, Named, StopId, EvictId, ById
<1>8. CASE SeamEnsureBase
  BY <1>0, <1>8, EnsureBaseInv DEF SeamEnsureBase, Core, TypeOK, EngInv
<1>9. CASE SeamAddBase
  BY <1>0, <1>9, AddBaseInv DEF SeamAddBase, Core, TypeOK, EngInv
<1>10. ASSUME NEW done \in SUBSET {b.ord : b \in Reactive}, NEW quiet, ComposeTick(done, quiet)
       PROVE  Core'
  <2>1. \A b \in eng.active : b.base => b.ord \notin done
    BY DEF Reactive, Live, Core, EngInv
  <2>2. EngInv(eng')
    BY <1>0, <1>10, <2>1, ComposeInv DEF ComposeTick, Core
  <2>3. contrib' \in SUBSET ((Nat \ {0}) \X Channels)
    <3>1. \A b \in Live(eng) : b.ord \in Nat \ {0} /\ b.ch \subseteq Channels
      BY DEF Live, Core, EngInv, Engines, Behaviors
    <3> QED BY <1>0, <1>10, <3>1 DEF ComposeTick, Pairs
  <2> QED BY <1>0, <1>10, <2>2, <2>3 DEF ComposeTick, Core, TypeOK, EngInv
<1>11. ASSUME NEW d \in 1 .. MaxStep, EndTick(d) PROVE Core'
  <2>1. d \in Nat
    BY BoundsAssumption
  <2> QED BY <1>0, <1>11, <2>1, AgeInv DEF EndTick, Core, TypeOK, EngInv
<1>12. CASE UNCHANGED vars
  BY <1>0, <1>12 DEF vars, Core, TypeOK
<1> QED
  BY <1>0, <1>1, <1>2, <1>3, <1>5, <1>6, <1>7, <1>8, <1>9, <1>10, <1>11, <1>12
  DEF Next, Operators, Riders, Tick

\* Stillness: a removal finds no base layer to blame anew, an admission records
\* no cause, ensure_base refuses; only the un-stop verb seeds, and it ends it.
LEMMA NextStilled == IInv /\ [Next]_vars => Stilled'
<1> SUFFICES ASSUME IInv, [Next]_vars, still' PROVE eng'.cause = "stop"
  BY DEF Stilled
<1> USE DEF IInv, Core, EngInv, Engines
<1>1. ASSUME NEW hits, NEW why, Removal(Remove(eng, hits, why))
      PROVE  /\ eng'.active = eng.active \ hits
             /\ (\E b \in hits : b.base) => eng'.cause = why
             /\ (~\E b \in hits : b.base) => eng'.cause = eng.cause
  BY <1>1 DEF Removal, Remove
<1>2. still => eng.cause = "stop" /\ eng.seeded /\ ~BaseActive(eng) /\ phase # "boot"
  BY DEF Stilled, NewEngine
<1>3. ASSUME still, NEW hits, hits \subseteq eng.active, NEW why, Removal(Remove(eng, hits, why))
      PROVE  eng'.cause = "stop"
  <2>1. (~\E b \in hits : b.base) => eng'.cause = eng.cause
    BY <1>1, <1>3
  <2>2. ~\E b \in hits : b.base
    BY <1>2, <1>3 DEF BaseActive
  <2> QED BY <1>2, <1>3, <2>1, <2>2
<1>4. ASSUME NEW hits, hits \subseteq eng.active, Named(Remove(eng, hits, "stop"))
      PROVE  eng'.cause = "stop"
  <2>1. Removal(Remove(eng, hits, "stop"))
    BY <1>4 DEF Named
  <2>2. CASE still
    BY <1>3, <1>4, <2>1, <2>2
  <2>3. CASE ~still
    <3>1. BaseActive(eng) /\ ~BaseActive(eng')
      BY <1>4, <2>1, <2>3 DEF Named, Removal
    <3> QED BY <1>1, <2>1, <3>1 DEF BaseActive
  <2> QED BY <2>2, <2>3
<1>5. CASE \E k \in Catalog, d \in Durations : ApplyAdd(k, d)
  <2>1. PICK k \in Catalog, d \in Durations : ApplyAdd(k, d)
    BY <1>5
  <2>2. still /\ ~(k.name = BaseName /\ d = Forever)
    BY <2>1 DEF ApplyAdd
  <2> QED BY <1>2, <2>1, <2>2 DEF ApplyAdd, AdmitAny, EngineAdd, AdmitBehavior
<1>6. CASE \E k \in Catalog, d \in Durations : SeamAdmit(k, d)
  BY <1>2, <1>6 DEF SeamAdmit, AdmitAny, AdmitBehavior
<1>7. CASE ApplyStopAll
  BY <1>3, <1>7 DEF ApplyStopAll, StopAll, Removable
<1>8. CASE \E n \in Names : ApplyStopNamed(n)
  BY <1>4, <1>8 DEF ApplyStopNamed, StopNamed, ByName
<1>9. CASE \E i \in Ords : ApplyStopId(i)
  BY <1>4, <1>9 DEF ApplyStopId, StopId, ById
<1>10. CASE \E n \in Names : SeamEvict(n)
  BY <1>3, <1>10 DEF SeamEvict, Evict, ByName
<1>11. CASE \E i \in Ords : SeamEvictId(i)
  BY <1>3, <1>11 DEF SeamEvictId, EvictId, ById
<1>12. CASE SeamEnsureBase
  <2>1. EnsureBase(eng) = [eng EXCEPT !.reported = TRUE]
    BY <1>2, <1>12 DEF SeamEnsureBase, EnsureBase
  <2> QED BY <1>2, <1>12, <2>1 DEF SeamEnsureBase
<1>13. CASE SeamAddBase
  BY <1>13 DEF SeamAddBase
<1>14. CASE Tick
  BY <1>2, <1>14 DEF Tick, ComposeTick, Compose, EndTick, Age
<1>15. CASE \E w \in BOOLEAN : Boot(w)
  BY <1>2, <1>15 DEF Boot
<1>16. CASE UNCHANGED vars
  BY <1>2, <1>16 DEF vars
<1> QED
  BY <1>5, <1>6, <1>7, <1>8, <1>9, <1>10, <1>11, <1>12, <1>13, <1>14, <1>15, <1>16
  DEF Next, Operators, Riders

\* The inductive invariant is an invariant.
THEOREM Inductive == Spec => []IInv
<1>1. Init => IInv
  BY InitCore DEF Init, IInv, Stilled
<1>2. IInv /\ [Next]_vars => IInv'
  BY NextCore, NextStilled DEF IInv
<1> QED BY <1>1, <1>2, PTL DEF Spec

\* Every variable keeps its type: in particular every owner the loop resolves is
\* a behavior's id or nobody (compose_tick).
THEOREM TypeCorrect == Spec => []TypeOK
<1>1. IInv => TypeOK
  BY DEF IInv, Core
<1> QED BY Inductive, <1>1, PTL

\* There is never a second base layer, whatever operators and riders call.
THEOREM OneBase == Spec => []AtMostOneBase
<1>1. IInv => AtMostOneBase
  BY DEF IInv, Core, EngInv, AtMostOneBase
<1> QED BY Inductive, <1>1, PTL

\* A seeded base layer is absent exactly when a removal is on record.
THEOREM CauseAccounts == Spec => []CauseAccountsForBase
<1>1. IInv => CauseAccountsForBase
  BY DEF IInv, Core, EngInv, CauseAccountsForBase
<1> QED BY Inductive, <1>1, PTL

\* The base layer's whole life cycle, as the run checks it on a small instance.
THEOREM BaseLayer == Spec => []BaseLayerSound
<1>1. IInv => BaseLayerSound
  BY DEF IInv, Core, Stilled, EngInv, AtMostOneBase, CauseAccountsForBase, StillnessHeld,
         BaseLayerSound
<1> QED BY Inductive, <1>1, PTL

\* "stop all" never removes a base layer.
THEOREM StopAllKeeps == Spec => StopAllKeepsBase
<1>1. IInv /\ [Next]_vars => [ApplyStopAll => (BaseActive(eng) => BaseActive(eng)')]_vars
  <2> SUFFICES ASSUME IInv, ApplyStopAll, BaseActive(eng) PROVE BaseActive(eng)'
    OBVIOUS
  <2>1. eng'.active = eng.active \ Removable(eng)
    BY DEF ApplyStopAll, Removal, StopAll, Remove, IInv, Core, EngInv, Engines
  <2>2. PICK b \in eng.active : b.base
    BY DEF BaseActive
  <2>3. b \in eng'.active
    BY <2>1, <2>2 DEF Removable, IInv, Core, EngInv
  <2> QED BY <2>2, <2>3 DEF BaseActive
<1> QED BY Inductive, <1>1, PTL DEF Spec, StopAllKeepsBase

\* A stop of the base layer by name or id holds until the un-stop verb: ensure_base
\* refuses, a removal finds no base layer to blame anew, an admission sets no cause.
THEOREM StillnessIsHeld == Spec => []StillnessHeld
<1>1. IInv => StillnessHeld
  BY DEF IInv, Core, Stilled, EngInv, StillnessHeld
<1> QED BY Inductive, <1>1, PTL

--------------------------------------------------------------------------------
(* Who drives a channel                                                         *)

\* The owner of a channel outranks whoever drove it at the last compose, though the
\* others abstained or were not there yet.
Ranked ==
  /\ \A p \in contrib : p[1] <= eng.seq
  /\ \A c \in Channels : eng.own[c] <= eng.seq
  /\ \A x, y \in eng.active, c \in Channels :
       eng.own[c] = x.ord /\ <<y.ord, c>> \in contrib /\ x # y => Outranks(x, y)

\* Whom an answer still binds outranks whoever claims a channel it was told is free.
Promised ==
  /\ told.ord <= eng.seq
  /\ \A x, y \in eng.active : \A c \in told.free :
       x.ord = told.ord /\ c \in y.ch /\ x # y => Outranks(x, y)
  /\ phase = "boot" => told = NothingTold

\* Nobody in T is new or has changed what counts.
Carried(S, T) == \A y \in T : \E x \in S : x.ord = y.ord /\ x.cls = y.cls /\ x.ch = y.ch

LEMMA CarriedRanked ==
  ASSUME Core, Core', Ranked, eng'.own = eng.own, contrib' = contrib, eng.seq <= eng'.seq,
         Carried(eng.active, {y \in eng'.active : y.ord <= eng.seq})
  PROVE  Ranked'
<1>1. /\ eng.seq \in Nat /\ eng'.seq \in Nat /\ contrib \in SUBSET ((Nat \ {0}) \X Channels)
      /\ eng.own \in [Channels -> Nat]
  BY DEF Core, TypeOK, EngInv, Engines
<1>2. (\A p \in contrib : p[1] <= eng'.seq) /\ (\A c \in Channels : eng.own[c] <= eng'.seq)
  BY <1>1 DEF Ranked
<1>3. ASSUME NEW x \in eng'.active, NEW y \in eng'.active, NEW c \in Channels,
             eng.own[c] = x.ord, <<y.ord, c>> \in contrib, x # y
      PROVE  Outranks(x, y)
  <2>1. x.ord <= eng.seq /\ y.ord <= eng.seq
    BY <1>3 DEF Ranked
  <2>2. PICK u \in eng.active : u.ord = x.ord /\ u.cls = x.cls
    BY <2>1 DEF Carried
  <2>3. PICK v \in eng.active : v.ord = y.ord /\ v.cls = y.cls
    BY <2>1 DEF Carried
  <2>4. x.ord # y.ord
    BY <1>3 DEF Core, EngInv
  <2>5. Outranks(u, v)
    BY <1>3, <2>2, <2>3, <2>4 DEF Ranked
  <2> QED BY <2>2, <2>3, <2>5 DEF Outranks
<1> QED BY <1>2, <1>3 DEF Ranked

LEMMA CarriedPromised ==
  ASSUME Core, Core', Promised, told' = told, eng'.seq = eng.seq, phase' # "boot" \/ phase' = phase,
         Carried(eng.active, eng'.active)
  PROVE  Promised'
<1>1. ASSUME NEW x \in eng'.active, NEW y \in eng'.active, NEW c \in told.free,
             x.ord = told.ord, c \in y.ch, x # y
      PROVE  Outranks(x, y)
  <2>1. PICK u \in eng.active : u.ord = x.ord /\ u.cls = x.cls
    BY DEF Carried
  <2>2. PICK v \in eng.active : v.ord = y.ord /\ v.cls = y.cls /\ v.ch = y.ch
    BY DEF Carried
  <2>3. x.ord # y.ord
    BY <1>1 DEF Core, EngInv
  <2>4. Outranks(u, v)
    BY <1>1, <2>1, <2>2, <2>3 DEF Promised
  <2> QED BY <2>1, <2>2, <2>4 DEF Outranks
<1> QED BY <1>1 DEF Promised

LEMMA NothingPromised ==
  ASSUME Core', told' = NothingTold
  PROVE  Promised'
<1>1. eng'.seq \in Nat
  BY DEF Core, EngInv, Engines
<1> QED BY <1>1 DEF Promised, NothingTold, NoOwner

\* The behavior that wins a channel among all who claim it is the one an answer was about.
LEMMA ToldTheTruth ==
  ASSUME NEW S, NEW n \in Nat, NEW new \in S, NEW c \in Channels, S # {} => Field(S, n),
         c \in new.ch, ClaimOwners(S)[c] = new.ord
  PROVE  \A y \in S : c \in y.ch /\ y # new => Outranks(new, y)
<1> DEFINE T == {b \in S : c \in b.ch}
<1>1. Field(T, n)
  BY DEF Field
<1>2. Best(T) \in T /\ \A x \in T \ {Best(T)} : Outranks(Best(T), x)
  BY <1>1, BestOutranks
<1>3. Best(T).ord = new.ord
  <2>1. ClaimOwners(S)[c] = Owner(T)
    BY DEF ClaimOwners
  <2>2. T # {}
    OBVIOUS
  <2> QED BY <2>1, <2>2 DEF Owner
<1>4. Best(T) = new
  BY <1>1, <1>2, <1>3 DEF Field
<1> QED BY <1>2, <1>4

\* An admission, whichever way it comes in.
LEMMA AdmitChannels ==
  ASSUME Core, Core', Ranked, NEW k \in Catalog, NEW d \in Durations, NEW e2, AdmitAny(k, d, e2),
         e2 \in {EngineAdd(eng, k.name, k.cls, k.ch, d),
                 AdmitBehavior(eng, Build(eng, k.name, k.cls, k.ch, d))}
  PROVE  Ranked' /\ Promised'
<1>1. PICK new : new = Build(eng, k.name, k.cls, k.ch, d)
  OBVIOUS
<1>2. /\ eng.seq \in Nat /\ eng \in Engines /\ eng' = e2 /\ contrib' = contrib /\ k.ch \subseteq Channels
      /\ new.ord = eng.seq + 1 /\ ~new.base /\ new.cls = k.cls /\ new.ch = k.ch
      /\ \A x \in eng.active : x.ord <= eng.seq /\ x.ord # new.ord
  BY <1>1, CatalogAssumption DEF AdmitAny, Core, EngInv, Engines, Behaviors, Build
<1>3. CASE eng' = AdmitBehavior(eng, new)
  <2>1. /\ eng'.active = (eng.active \ Evicted(new, eng.active)) \cup {new} /\ eng'.seq = new.ord
        /\ eng'.own = eng.own
    BY <1>2, <1>3, AdmitEffect
  <2>2. Carried(eng.active, {y \in eng'.active : y.ord <= eng.seq})
    BY <1>2, <2>1 DEF Carried
  <2>3. Ranked'
    BY <1>2, <2>1, <2>2, CarriedRanked
  <2>4. Promised'
    <3>1. CASE new.cls = "passive"
      <4>1. told' = NothingTold
        BY <1>1, <3>1 DEF AdmitAny
      <4> QED BY <4>1, NothingPromised
    <3>2. CASE new.cls # "passive"
      <4>1. told' = [ord |-> new.ord, free |-> new.ch \ Blocked(new, eng.active)]
        BY <1>1, <1>2, <2>1, <3>2 DEF AdmitAny
      <4>2. ASSUME NEW c \in new.ch \ Blocked(new, eng.active)
            PROVE  \A y \in eng'.active : c \in y.ch /\ y # new => Outranks(new, y)
        <5>1. Field(eng'.active, eng'.seq) /\ eng'.seq \in Nat /\ new \in eng'.active /\ c \in Channels
          BY <1>2, <2>1, <4>2 DEF Field, Core, EngInv, Engines, Behaviors
        <5>2. ClaimOwners(eng'.active)[c] = new.ord
          BY <2>1, <3>2, <4>2 DEF Blocked
        <5> QED BY <4>2, <5>1, <5>2, ToldTheTruth
      <4>3. \A x \in eng'.active : x.ord = new.ord => x = new
        BY <2>1 DEF Core, EngInv
      <4>4. phase' # "boot"
        <5>1. eng' # NewEngine
          BY <2>1 DEF NewEngine
        <5> QED BY <5>1 DEF Core
      <4>5. told'.ord <= eng'.seq
        BY <1>2, <2>1, <4>1
      <4> QED BY <4>1, <4>2, <4>3, <4>4, <4>5 DEF Promised
    <3> QED BY <3>1, <3>2
  <2> QED BY <2>3, <2>4
<1>4. CASE eng' = AddBase(eng)
  <2>1. /\ eng'.own = eng.own /\ eng.seq <= eng'.seq
        /\ eng'.active \subseteq eng.active \cup {BaseBehavior(eng.seq + 1)}
    BY <1>2, <1>4 DEF AddBase, SeedBase, Engines
  <2>2. BaseBehavior(eng.seq + 1).ord = eng.seq + 1 /\ BaseBehavior(eng.seq + 1).base
    BY DEF BaseBehavior
  <2>3. new \notin eng'.active
    BY <1>2, <2>1, <2>2
  <2>4. told' = NothingTold
    BY <1>1, <1>2, <2>3 DEF AdmitAny
  <2>5. Carried(eng.active, {y \in eng'.active : y.ord <= eng.seq})
    BY <1>2, <2>1, <2>2 DEF Carried
  <2> QED BY <1>2, <2>1, <2>4, <2>5, CarriedRanked, NothingPromised
<1> QED BY <1>1, <1>2, <1>3, <1>4 DEF EngineAdd

LEMMA RemovalChannels ==
  ASSUME Core, Core', Ranked, Promised, NEW hits, NEW why, Removal(Remove(eng, hits, why))
  PROVE  Ranked' /\ Promised'
<1>1. /\ eng'.active = eng.active \ hits /\ eng'.seq = eng.seq /\ eng'.own = eng.own
      /\ contrib' = contrib /\ told' = told /\ phase' = phase
  BY RemoveEffect DEF Removal, Core, EngInv
<1>2. Carried(eng.active, eng'.active) /\ Carried(eng.active, {y \in eng'.active : y.ord <= eng.seq})
  BY <1>1 DEF Carried
<1>3. eng.seq <= eng'.seq
  BY <1>1 DEF Core, EngInv, Engines
<1> QED BY <1>1, <1>2, <1>3, CarriedRanked, CarriedPromised

\* The base layer is seeded, or nothing happens.
LEMMA SeedChannels ==
  ASSUME Core, Core', Ranked, Promised, contrib' = contrib, phase' # "boot" \/ phase' = phase,
         \/ eng' = SeedBase(eng) /\ told' = NothingTold
         \/ eng'.active = eng.active /\ eng'.seq = eng.seq /\ eng'.own = eng.own /\ told' = told
  PROVE  Ranked' /\ Promised'
<1>1. eng.seq \in Nat /\ \A x \in eng.active : x.ord <= eng.seq
  BY DEF Core, EngInv, Engines
<1>2. CASE eng' = SeedBase(eng) /\ told' = NothingTold
  <2>1. /\ eng'.own = eng.own /\ eng'.seq = eng.seq + 1
        /\ eng'.active = eng.active \cup {BaseBehavior(eng.seq + 1)}
    BY <1>2 DEF SeedBase, Core, EngInv, Engines
  <2>2. BaseBehavior(eng.seq + 1).ord = eng.seq + 1
    BY DEF BaseBehavior
  <2>3. Carried(eng.active, {y \in eng'.active : y.ord <= eng.seq})
    BY <1>1, <2>1, <2>2 DEF Carried
  <2> QED BY <1>1, <1>2, <2>1, <2>3, CarriedRanked, NothingPromised
<1>3. CASE eng'.active = eng.active /\ eng'.seq = eng.seq /\ eng'.own = eng.own /\ told' = told
  <2>1. Carried(eng.active, eng'.active) /\ Carried(eng.active, {y \in eng'.active : y.ord <= eng.seq})
    BY <1>3 DEF Carried
  <2> QED BY <1>1, <1>3, <2>1, CarriedRanked, CarriedPromised
<1> QED BY <1>2, <1>3

\* The compose: what arbitrate resolves outranks all who drive.
LEMMA ComposeChannels ==
  ASSUME Core, Core', Promised, NEW done \in SUBSET {b.ord : b \in Reactive}, NEW quiet,
         ComposeTick(done, quiet)
  PROVE  /\ Ranked' /\ Promised'
         /\ \A c \in Channels : \A a \in eng'.active :
              <<a.ord, c>> \in contrib' =>
                \E b \in eng'.active : /\ eng'.own[c] = b.ord /\ c \in b.ch /\ c \in a.ch
                                       /\ a # b => Outranks(b, a)
         /\ \A p \in contrib' : \E b \in eng'.active : p[1] = b.ord /\ p[2] \in b.ch
<1>1. PICK composed : composed = {b \in Live(eng) : b.ord \notin done}
  OBVIOUS
<1>2. /\ eng'.active = composed /\ eng'.seq = eng.seq /\ eng'.own = Arbitrate(composed, contrib')
      /\ contrib' = Pairs(composed) \ quiet /\ phase' = "seam" /\ told' = told
  <2>1. /\ contrib' = Pairs(composed) \ quiet /\ phase' = "seam" /\ told' = told
        /\ eng' = Compose(eng, done, contrib') /\ eng \in Engines
    BY <1>1, Zenon DEF ComposeTick, Core, EngInv
  <2>2. PICK sp : sp = contrib'
    OBVIOUS
  <2>3. /\ Compose(eng, done, sp).active = {b \in Live(eng) : b.ord \notin done}
        /\ Compose(eng, done, sp).seq = eng.seq
        /\ Compose(eng, done, sp).own = Arbitrate({b \in Live(eng) : b.ord \notin done}, sp)
    <3>1. eng \in Engines
      BY <2>1
    <3> QED BY <3>1 DEF Compose, Engines
  <2> QED BY <1>1, <2>1, <2>2, <2>3, Zenon
<1>3. /\ composed \subseteq eng.active /\ eng.seq \in Nat
      /\ \A b \in composed : b.ord \in Nat \ {0} /\ b.ord <= eng.seq /\ b.cls \in StopClasses
      /\ \A a, b \in composed : a.ord = b.ord => a = b
  BY <1>1 DEF Live, Core, EngInv, Engines, Behaviors
<1>4. \A p \in contrib' : \E b \in composed : p[1] = b.ord /\ p[2] \in b.ch
  BY <1>2 DEF Pairs
<1>5. ASSUME NEW c \in Channels, Claimants(composed, contrib', c) # {}
      PROVE  \E b \in Claimants(composed, contrib', c) :
               /\ eng'.own[c] = b.ord
               /\ \A x \in Claimants(composed, contrib', c) \ {b} : Outranks(b, x)
  <2>1. Field(Claimants(composed, contrib', c), eng.seq)
    BY <1>3, <1>5 DEF Field, Claimants
  <2>2. eng'.own[c] = Best(Claimants(composed, contrib', c)).ord
    BY <1>2, <1>5 DEF Arbitrate, Owner
  <2> QED BY <1>3, <2>1, <2>2, BestOutranks
<1>6. ASSUME NEW c \in Channels, Claimants(composed, contrib', c) = {}
      PROVE  eng'.own[c] = 0
  BY <1>2, <1>6 DEF Arbitrate, Owner, NoOwner
<1>7. \A a \in composed, c \in Channels :
        <<a.ord, c>> \in contrib' => a \in Claimants(composed, contrib', c) /\ c \in a.ch
  <2> SUFFICES ASSUME NEW a \in composed, NEW c \in Channels, <<a.ord, c>> \in contrib'
               PROVE  c \in a.ch
    BY DEF Claimants
  <2>1. PICK b \in composed : a.ord = b.ord /\ c \in b.ch
    BY <1>4
  <2> QED BY <1>3, <2>1
<1>8. \A c \in Channels : \A a \in composed :
        <<a.ord, c>> \in contrib' =>
          \E b \in composed : /\ eng'.own[c] = b.ord /\ c \in b.ch /\ c \in a.ch
                              /\ a # b => Outranks(b, a)
  <2> SUFFICES ASSUME NEW c \in Channels, NEW a \in composed, <<a.ord, c>> \in contrib'
               PROVE  \E b \in composed : /\ eng'.own[c] = b.ord /\ c \in b.ch /\ c \in a.ch
                                          /\ a # b => Outranks(b, a)
    OBVIOUS
  <2>1. PICK b \in Claimants(composed, contrib', c) :
          eng'.own[c] = b.ord /\ \A x \in Claimants(composed, contrib', c) \ {b} : Outranks(b, x)
    BY <1>5, <1>7
  <2> QED BY <1>7, <2>1 DEF Claimants
<1>9. Ranked'
  <2>1. \A p \in contrib' : p[1] <= eng'.seq
    BY <1>2, <1>3, <1>4
  <2>2. \A c \in Channels : eng'.own[c] <= eng'.seq
    <3> SUFFICES ASSUME NEW c \in Channels PROVE eng'.own[c] <= eng'.seq
      OBVIOUS
    <3>1. CASE Claimants(composed, contrib', c) = {}
      <4>1. eng'.own[c] = 0 /\ eng'.seq = eng.seq /\ eng.seq \in Nat
        BY <1>2, <1>3, <1>6, <3>1
      <4> QED BY <4>1
    <3>2. CASE Claimants(composed, contrib', c) # {}
      <4>1. PICK b \in Claimants(composed, contrib', c) : eng'.own[c] = b.ord
        BY <1>5, <3>2
      <4>2. b \in composed
        BY <4>1 DEF Claimants
      <4>3. b.ord <= eng.seq
        BY <1>3, <4>2
      <4>4. eng'.seq = eng.seq
        BY <1>2
      <4> QED BY <4>1, <4>3, <4>4
    <3> QED BY <3>1, <3>2
  <2>3. ASSUME NEW x \in composed, NEW y \in composed, NEW c \in Channels,
               eng'.own[c] = x.ord, <<y.ord, c>> \in contrib', x # y
        PROVE  Outranks(x, y)
    BY <1>3, <1>8, <2>3
  <2> QED BY <1>2, <2>1, <2>2, <2>3 DEF Ranked
<1>10. Promised'
  <2>1. Carried(eng.active, eng'.active)
    BY <1>2, <1>3 DEF Carried
  <2> QED BY <1>2, <2>1, CarriedPromised
<1> QED BY <1>2, <1>4, <1>8, <1>9, <1>10

\* Time passes: who everybody is stays.
LEMMA AgeChannels ==
  ASSUME Core, Core', Ranked, Promised, NEW d, EndTick(d)
  PROVE  Ranked' /\ Promised'
<1>1. eng \in Engines /\ eng' = Age(eng, d) /\ phase' = "drain" /\ contrib' = contrib /\ told' = told
  BY DEF EndTick, Core, EngInv
<1>2. /\ eng'.active = {Older(b, d) : b \in eng.active} /\ eng'.seq = eng.seq /\ eng'.own = eng.own
      /\ \A b \in eng.active :
           Older(b, d).ord = b.ord /\ Older(b, d).cls = b.cls /\ Older(b, d).ch = b.ch
  BY <1>1 DEF Age, Older, Engines, Behaviors
<1>3. Carried(eng.active, eng'.active) /\ Carried(eng.active, {y \in eng'.active : y.ord <= eng.seq})
  BY <1>2 DEF Carried
<1>4. eng.seq <= eng'.seq
  BY <1>2 DEF Core, EngInv, Engines
<1> QED BY <1>1, <1>2, <1>3, <1>4, CarriedRanked, CarriedPromised

LEMMA InitChannels == Init => Ranked /\ Promised
BY DEF Init, Ranked, Promised, NewEngine, NothingTold, NoOwner

\* Every step.
LEMMA NextChannels == Core /\ Core' /\ Ranked /\ Promised /\ [Next]_vars => Ranked' /\ Promised'
<1> SUFFICES ASSUME Core, Core', Ranked, Promised, [Next]_vars PROVE Ranked' /\ Promised'
  OBVIOUS
<1>1. ASSUME NEW w \in BOOLEAN, Boot(w) PROVE Ranked' /\ Promised'
  <2>1. contrib' = contrib /\ told' = told /\ phase' # "boot" /\ told = NothingTold
    BY <1>1 DEF Boot, Promised
  <2>2. eng' = SeedBase(eng) \/ eng' = eng
    BY <1>1 DEF Boot
  <2> QED BY <2>1, <2>2, SeedChannels
<1>2. ASSUME NEW k \in Catalog, NEW d \in Durations, ApplyAdd(k, d) PROVE Ranked' /\ Promised'
  BY <1>2, AdmitChannels DEF ApplyAdd
<1>3. ASSUME NEW k \in Catalog, NEW d \in Durations, SeamAdmit(k, d) PROVE Ranked' /\ Promised'
  BY <1>3, AdmitChannels DEF SeamAdmit
<1>4. CASE ApplyStopAll
  BY <1>4, RemovalChannels DEF ApplyStopAll, StopAll
<1>5. ASSUME NEW n \in Names, ApplyStopNamed(n) \/ SeamEvict(n) PROVE Ranked' /\ Promised'
  BY <1>5, RemovalChannels DEF ApplyStopNamed, SeamEvict, Named, StopNamed, Evict
<1>6. ASSUME NEW i \in Ords, ApplyStopId(i) \/ SeamEvictId(i) PROVE Ranked' /\ Promised'
  BY <1>6, RemovalChannels DEF ApplyStopId, SeamEvictId, Named, StopId, EvictId
<1>7. eng.seq \in Nat /\ eng \in Engines /\ SeedBase(eng).seq = eng.seq + 1
  BY DEF Core, EngInv, Engines, SeedBase
<1>8. ASSUME contrib' = contrib, phase' = phase, told' = IF eng'.seq > eng.seq THEN NothingTold ELSE told,
             \/ eng' = SeedBase(eng)
             \/ eng' = eng
             \/ eng' = [eng EXCEPT !.reported = TRUE]
      PROVE  Ranked' /\ Promised'
  <2>1. CASE eng' = SeedBase(eng)
    BY <1>7, <1>8, <2>1, SeedChannels
  <2>2. CASE eng' = eng \/ eng' = [eng EXCEPT !.reported = TRUE]
    <3>1. eng'.active = eng.active /\ eng'.seq = eng.seq /\ eng'.own = eng.own
      BY <1>7, <2>2 DEF Engines
    <3> QED BY <1>7, <1>8, <3>1, SeedChannels
  <2> QED BY <1>8, <2>1, <2>2
<1>9. CASE SeamEnsureBase
  <2>1. eng' = SeedBase(eng) \/ eng' = eng \/ eng' = [eng EXCEPT !.reported = TRUE]
    BY <1>7, <1>9 DEF SeamEnsureBase, EnsureBase, AddBase
  <2> QED BY <1>8, <1>9, <2>1 DEF SeamEnsureBase
<1>10. CASE SeamAddBase
  <2>1. eng' = SeedBase(eng) \/ eng' = eng
    BY <1>10 DEF SeamAddBase, AddBase
  <2> QED BY <1>8, <1>10, <2>1 DEF SeamAddBase
<1>11. ASSUME NEW done \in SUBSET {b.ord : b \in Reactive}, NEW quiet, ComposeTick(done, quiet)
       PROVE  Ranked' /\ Promised'
  BY <1>11, ComposeChannels
<1>12. ASSUME NEW d \in 1 .. MaxStep, EndTick(d) PROVE Ranked' /\ Promised'
  BY <1>12, AgeChannels
<1>13. CASE UNCHANGED vars
  BY <1>13 DEF vars, Ranked, Promised
<1> QED
  BY <1>1, <1>2, <1>3, <1>4, <1>5, <1>6, <1>9, <1>10, <1>11, <1>12, <1>13
  DEF Next, Operators, Riders, Tick

\* Only a compose gives a channel to somebody else.
LEMMA OwnedByCompose ==
  ASSUME Core, [Next]_vars,
         ~\E done \in SUBSET {b.ord : b \in Reactive}, quiet \in SUBSET (Nat \X Channels) :
            ComposeTick(done, quiet)
  PROVE  eng'.own = eng.own /\ ~(phase = "drain" /\ phase' = "seam")
<1>1. eng \in Engines
  BY DEF Core, EngInv
<1>2. \A e2 \in {SeedBase(eng), AddBase(eng), EnsureBase(eng), eng} : e2.own = eng.own
  BY <1>1 DEF SeedBase, AddBase, EnsureBase, Engines
<1>3. \A b : AdmitBehavior(eng, b).own = eng.own
  BY <1>1 DEF AdmitBehavior, Engines
<1>4. \A hits, why : Remove(eng, hits, why).own = eng.own
  BY <1>1 DEF Remove, Engines
<1>5. \A d : Age(eng, d).own = eng.own
  BY <1>1 DEF Age, Engines
<1>6. CASE \E w \in BOOLEAN : Boot(w)
  BY <1>2, <1>6 DEF Boot
<1>7. CASE \E k \in Catalog, d \in Durations : ApplyAdd(k, d)
  BY <1>2, <1>3, <1>7 DEF ApplyAdd, AdmitAny, EngineAdd
<1>8. CASE \E k \in Catalog, d \in Durations : SeamAdmit(k, d)
  BY <1>3, <1>8 DEF SeamAdmit, AdmitAny
<1>9. CASE ApplyStopAll \/ (\E n \in Names : ApplyStopNamed(n)) \/ (\E i \in Ords : ApplyStopId(i))
  BY <1>4, <1>9 DEF ApplyStopAll, ApplyStopNamed, ApplyStopId, Named, Removal, StopAll, StopNamed, StopId
<1>10. CASE (\E n \in Names : SeamEvict(n)) \/ (\E i \in Ords : SeamEvictId(i))
  BY <1>4, <1>10 DEF SeamEvict, SeamEvictId, Removal, Evict, EvictId
<1>11. CASE SeamEnsureBase \/ SeamAddBase
  BY <1>2, <1>11 DEF SeamEnsureBase, SeamAddBase
<1>12. CASE \E d \in 1 .. MaxStep : EndTick(d)
  BY <1>5, <1>12 DEF EndTick
<1>13. CASE UNCHANGED vars
  BY <1>13 DEF vars
<1>14. ASSUME NEW done \in SUBSET {b.ord : b \in Reactive},
              NEW quiet \in SUBSET Pairs({b \in Reactive : b.ord \notin done}), ComposeTick(done, quiet)
       PROVE  FALSE
  <2>1. \A b \in Reactive : b.ord \in Nat /\ b.ch \subseteq Channels
    BY <1>1 DEF Reactive, Live, Engines, Behaviors
  <2>2. quiet \in SUBSET (Nat \X Channels)
    BY <2>1 DEF Pairs
  <2> QED BY <1>14, <2>2
<1> QED
  BY <1>6, <1>7, <1>8, <1>9, <1>10, <1>11, <1>12, <1>13, <1>14 DEF Next, Operators, Riders, Tick

\* A channel is never taken from a behavior that still drives it by one of a lower
\* class, nor by one that drove it at the tick before; and a channel that an add's
\* answer did not list as blocked is the newcomer's at the next compose, if it
\* drives it (arbitrate, admit).
THEOREM ChannelsHold == Spec => ChannelsSound
<1>1. Init => Core /\ Ranked /\ Promised
  BY InitCore, InitChannels
<1>2. ASSUME Core, Ranked, Promised, [Next]_vars
      PROVE  Core' /\ Ranked' /\ Promised'
  BY <1>2, NextCore, NextChannels
<1>3. ASSUME Core, Core', Ranked, Promised, [Next]_vars,
             NEW c \in Channels, NEW a \in eng'.active, NEW b \in eng'.active,
             eng.own[c] = a.ord, eng'.own[c] = b.ord, a # b, <<a.ord, c>> \in contrib'
      PROVE  Priority(b.cls) >= Priority(a.cls) /\ <<b.ord, c>> \notin contrib
  <2>1. a.ord # b.ord
    BY <1>3 DEF Core, EngInv
  <2>2. PICK done \in SUBSET {x.ord : x \in Reactive}, quiet \in SUBSET (Nat \X Channels) :
          ComposeTick(done, quiet)
    BY <1>3, <2>1, OwnedByCompose
  <2>3. Outranks(b, a)
    <3>1. PICK x \in eng'.active : eng'.own[c] = x.ord /\ (a # x => Outranks(x, a))
      BY <1>3, <2>2, ComposeChannels
    <3>2. x = b
      BY <1>3, <3>1 DEF Core, EngInv
    <3> QED BY <1>3, <3>1, <3>2
  <2>4. a \in eng.active /\ b \in eng.active
    <3>1. eng'.active \subseteq eng.active
      BY <2>2 DEF ComposeTick, Compose, Live, Core, EngInv, Engines
    <3> QED BY <3>1
  <2>5. /\ Priority(a.cls) \in Nat /\ Priority(b.cls) \in Nat /\ a.ord \in Nat /\ b.ord \in Nat
    <3>1. a \in Behaviors /\ b \in Behaviors
      BY <1>3, <2>4 DEF Core, EngInv, Engines
    <3> QED BY <3>1 DEF Behaviors, Priority, StopClasses
  <2>6. <<b.ord, c>> \notin contrib
    <3> SUFFICES ASSUME <<b.ord, c>> \in contrib PROVE FALSE
      OBVIOUS
    <3>1. Outranks(a, b)
      BY <1>3, <2>4 DEF Ranked
    <3> QED BY <2>3, <2>5, <3>1 DEF Outranks
  <2> QED BY <2>3, <2>5, <2>6 DEF Outranks
<1>4. ASSUME Core, Core', Ranked, Promised, [Next]_vars, phase = "drain", phase' = "seam",
             NEW c \in told.free, <<told.ord, c>> \in contrib'
      PROVE  eng'.own[c] = told.ord
  <2>1. PICK done \in SUBSET {x.ord : x \in Reactive}, quiet \in SUBSET (Nat \X Channels) :
          ComposeTick(done, quiet)
    BY <1>4, OwnedByCompose
  <2>2. c \in Channels
    BY <1>4 DEF Core, TypeOK
  <2>3. PICK a \in eng'.active : a.ord = told.ord
    BY <1>4, <2>1, ComposeChannels
  <2>4. PICK b \in eng'.active : /\ eng'.own[c] = b.ord /\ c \in b.ch /\ c \in a.ch
                                 /\ a # b => Outranks(b, a)
    BY <1>4, <2>1, <2>2, <2>3, ComposeChannels
  <2>5. a \in eng.active /\ b \in eng.active
    <3>1. eng'.active \subseteq eng.active
      BY <2>1 DEF ComposeTick, Compose, Live, Core, EngInv, Engines
    <3> QED BY <3>1
  <2>6. a = b
    <3> SUFFICES ASSUME a # b PROVE FALSE
      OBVIOUS
    <3>1. Outranks(a, b) /\ Outranks(b, a)
      BY <1>4, <2>3, <2>4, <2>5 DEF Promised
    <3>2. a \in Behaviors /\ b \in Behaviors
      BY <1>4, <2>5 DEF Core, EngInv, Engines
    <3> QED BY <3>1, <3>2 DEF Outranks, Behaviors, Priority, StopClasses
  <2> QED BY <2>3, <2>4, <2>6
<1>5. ASSUME Core, Core', Ranked, Promised, [Next]_vars
      PROVE  /\ [\A c \in Channels : \A a, b \in eng'.active :
                   /\ eng.own[c] = a.ord /\ eng'.own[c] = b.ord /\ a # b
                   /\ <<a.ord, c>> \in contrib'
                   => Priority(b.cls) >= Priority(a.cls) /\ <<b.ord, c>> \notin contrib]_vars
             /\ [phase = "drain" /\ phase' = "seam" =>
                   \A c \in told.free : <<told.ord, c>> \in contrib' => eng'.own[c] = told.ord]_vars
  BY <1>3, <1>4, <1>5
<1> QED
  BY <1>1, <1>2, <1>5, PTL DEF Spec, ChannelsSound, ClassProtectsChannel, UnblockedMeansOwned

--------------------------------------------------------------------------------
(* The loop                                                                     *)

\* The longest a tick may take, the late wake-up of its sleep included.
LongestTick == Period + MaxWork + MaxSeam + MaxOver

LoopTypeOK ==
  /\ doing \in {"off", "top", "sent", "seam", "pace"}
  /\ late \in Int /\ since \in Nat /\ age \in Int /\ age <= NoBeat
  /\ intervals[1] \in Nat /\ intervals[2] \in Nat /\ beat \in Nat
  /\ overruns \in Nat /\ reported \in Nat /\ streak \in Nat /\ falseLive \in Nat

\* How much of its time a tick has used.
Spent ==
  /\ doing = "top" => since = 0
  /\ doing \in {"sent", "seam"} => since <= MaxWork
  /\ doing = "pace" => since <= MaxWork + MaxSeam

\* A tick begins as late as late - since says, and never more than a period; what the
\* last two intervals lack of two periods is no more than the lateness they began with.
OnSchedule ==
  doing # "off" /\ ~(doing = "top" /\ stop) =>
    /\ since <= late /\ late <= since + Period
    /\ late - since <= intervals[2]
    /\ (late - since) + Period <= intervals[1] + intervals[2]

\* The file is no older than the ticks since it was written, and this one.
Unwritten == IF doing \in {"top", "sent"} THEN beat + 1 ELSE beat
KeptFresh ==
  /\ ~intruded
  /\ doing # "off" /\ published =>
       beat < Heartbeat /\ 0 <= age /\ age <= Unwritten * LongestTick + since

\* The time an absent engine was taken for a live one is time its file has aged.
Forgotten == falseLive = 0 \/ (doing = "off" /\ falseLive <= age + Skew)

LoopInv ==
  LoopTypeOK /\ Spent /\ OnSchedule /\ KeptFresh /\ Forgotten /\ OverrunsTold

LEMMA LoopBounds ==
  ASSUME LoopAssumption
  PROVE  /\ Period \in Nat /\ Period > 0 /\ Heartbeat \in Nat /\ Heartbeat > 0 /\ TTL \in Nat
         /\ CalmToClose \in Nat /\ Skew \in Nat /\ MaxWork \in Nat /\ MaxSeam \in Nat /\ MaxOver \in Nat
         /\ MaxUptime \in Nat /\ MaxOver <= Period
         /\ LongestTick \in Nat /\ (Heartbeat + 1) * LongestTick <= TTL
BY DEF LoopAssumption, LongestTick

LEMMA Times ==
  ASSUME NEW b \in Nat, NEW h \in Nat, NEW d \in Nat, b <= h
  PROVE  b * d \in Nat /\ b * d <= h * d /\ (b + 1) * d = b * d + d
<1>1. PICK k \in Nat : h = b + k
  <2>1. h - b \in Nat /\ h = b + (h - b)
    OBVIOUS
  <2> QED BY <2>1
<1>2. h * d = b * d + k * d
  BY <1>1
<1>3. b * d \in Nat /\ k * d \in Nat
  OBVIOUS
<1> QED BY <1>2, <1>3

\* An engine that has published is seen, however long its ticks may take.
LEMMA FreshIsSeen ==
  ASSUME LoopAssumption, LoopInv, doing # "off", published
  PROVE  EngineIsLive /\ age <= TTL - LongestTick + since
<1>1. /\ beat \in Nat /\ beat + 1 <= Heartbeat /\ 0 <= age /\ age \in Int /\ since \in Nat
      /\ age <= Unwritten * LongestTick + since /\ Unwritten \in Nat /\ Unwritten <= Heartbeat
  BY LoopBounds DEF LoopInv, LoopTypeOK, KeptFresh, Unwritten
<1>2. since <= LongestTick
  BY LoopBounds DEF LoopInv, LoopTypeOK, Spent, LongestTick
<1>3. /\ Unwritten * LongestTick \in Nat /\ Heartbeat * LongestTick \in Nat
      /\ Unwritten * LongestTick <= Heartbeat * LongestTick
      /\ (Heartbeat + 1) * LongestTick = Heartbeat * LongestTick + LongestTick
  BY <1>1, LoopBounds, Times
<1>4. age <= TTL - LongestTick + since
  BY <1>1, <1>3, LoopBounds
<1> QED BY <1>1, <1>2, <1>4, LoopBounds DEF EngineIsLive

LEMMA InitLoop ==
  ASSUME LoopAssumption, LoopInit
  PROVE  LoopInv
<1>1. intervals[1] = Period /\ intervals[2] = Period
  BY DEF LoopInit
<1> QED BY <1>1, LoopBounds
        DEF LoopInit, LoopInv, LoopTypeOK, Spent, OnSchedule, KeptFresh, Forgotten, OverrunsTold, NoBeat

LEMMA StartLoop ==
  ASSUME LoopAssumption, LoopInv, Start
  PROVE  LoopInv'
<1>1. intervals'[1] = Period /\ intervals'[2] = Period
  BY DEF Start
<1> QED BY <1>1, LoopBounds
        DEF Start, LoopInv, LoopTypeOK, Spent, OnSchedule, KeptFresh, Forgotten, OverrunsTold, NoBeat

\* However it ends.
LEMMA GoneLoop ==
  ASSUME LoopAssumption, LoopInv, Gone, doing # "off", age' \in Int, age' <= NoBeat,
         NEW n \in Nat, overruns' = n, reported' = n, streak' = 0
  PROVE  LoopInv'
<1>1. intervals'[1] = Period /\ intervals'[2] = Period
  BY DEF Gone
<1>2. falseLive = 0
  BY DEF LoopInv, Forgotten
<1>3. LoopTypeOK' /\ Spent' /\ OnSchedule'
  <2>1. doing' = "off" /\ late' = 0 /\ since' = 0 /\ beat' = 0 /\ falseLive' = 0
    BY <1>2 DEF Gone
  <2>2. LoopTypeOK'
    BY <1>1, <2>1, LoopBounds DEF LoopTypeOK, NoBeat
  <2> QED BY <2>1, <2>2 DEF Spent, OnSchedule
<1>4. KeptFresh'
  <2>1. ~intruded' /\ doing' = "off"
    BY DEF Gone, LoopInv, KeptFresh
  <2> QED BY <2>1 DEF KeptFresh
<1>5. Forgotten'
  BY <1>2 DEF Gone, Forgotten
<1>6. OverrunsTold'
  BY DEF OverrunsTold
<1> QED BY <1>3, <1>4, <1>5, <1>6 DEF LoopInv

LEMMA EndedLoop ==
  ASSUME LoopAssumption, LoopInv, Ended, doing # "off", age' \in Int, age' <= NoBeat
  PROVE  LoopInv'
<1>1. overruns \in Nat /\ overruns' = overruns /\ reported' = overruns /\ streak' = 0
  BY DEF Ended, ClosedEpisode, LoopInv, LoopTypeOK, OverrunsTold
<1> QED BY <1>1, GoneLoop DEF Ended

LEMMA WorkLoop ==
  ASSUME LoopAssumption, LoopInv, NEW w \in 0 .. MaxWork, NEW changed \in BOOLEAN, NEW ok \in BOOLEAN,
         Work(w, changed, ok)
  PROVE  LoopInv'
<1>1. w \in Nat /\ w <= MaxWork /\ age \in Int /\ age <= NoBeat
  BY LoopBounds DEF LoopInv, LoopTypeOK
<1>2. Capped(age + w) \in Int /\ Capped(age + w) <= NoBeat
  BY <1>1, LoopBounds DEF Capped, NoBeat
<1>3. doing = "top" /\ ~stop
  BY DEF Work
<1>4. CASE Ended /\ age' = Capped(age + w)
  BY <1>2, <1>3, <1>4, EndedLoop
<1>5. CASE /\ doing' = "sent" /\ Elapse(w) /\ UNCHANGED <<intervals, beat, stop, meter, ghosts>>
  <2>1. since = 0 /\ late \in Int /\ late' = late + w /\ since' = w /\ age' = Capped(age + w)
    BY <1>1, <1>3, <1>5 DEF Elapse, LoopInv, Spent, LoopTypeOK
  <2>2. LoopTypeOK'
    BY <1>1, <1>2, <1>5, <2>1 DEF LoopInv, LoopTypeOK, meter, ghosts, NoBeat
  <2>3. Spent'
    BY <1>1, <1>5, <2>1 DEF Spent
  <2>4. OnSchedule'
    BY <1>1, <1>3, <1>5, <2>1, LoopBounds DEF LoopInv, LoopTypeOK, OnSchedule
  <2>5. KeptFresh'
    <3>1. ~intruded' /\ published' = published
      BY <1>5, Zenon DEF ghosts, LoopInv, KeptFresh
    <3>2. CASE published
      <4>1. age <= TTL - LongestTick + since
        BY <1>3, <3>2, FreshIsSeen
      <4>2. age' = age + w
        BY <1>1, <2>1, <4>1, LoopBounds DEF Capped, NoBeat, LongestTick
      <4>3. beat' = beat /\ Unwritten' = Unwritten
        BY <1>3, <1>5 DEF Unwritten
      <4>4. beat < Heartbeat /\ 0 <= age /\ age <= Unwritten * LongestTick + since
        BY <1>3, <3>2 DEF LoopInv, KeptFresh
      <4>5. Unwritten * LongestTick \in Nat
        BY <1>3, LoopBounds, Times DEF Unwritten, LoopInv, LoopTypeOK
      <4>6. age' <= Unwritten * LongestTick + since'
        BY <1>1, <2>1, <4>2, <4>4, <4>5
      <4> QED BY <1>1, <3>1, <4>2, <4>3, <4>4, <4>6 DEF KeptFresh, LongestTick
    <3>3. CASE ~published
      BY <3>1, <3>3 DEF KeptFresh
    <3> QED BY <3>2, <3>3
  <2>6. Forgotten' /\ OverrunsTold'
    BY <1>3, <1>5 DEF LoopInv, Forgotten, OverrunsTold, ghosts, meter
  <2> QED BY <2>2, <2>3, <2>4, <2>5, <2>6 DEF LoopInv
<1> QED BY <1>4, <1>5 DEF Work

LEMMA PublishLoop ==
  ASSUME LoopAssumption, LoopInv, Publish
  PROVE  LoopInv'
<1>1. /\ doing = "sent" /\ doing' = "seam" /\ since' = since /\ late' = late /\ since \in Nat
      /\ UNCHANGED <<intervals, stop, overruns, reported, streak, falseLive, intruded>>
      /\ since <= MaxWork
  BY DEF Publish, meter, LoopInv, LoopTypeOK, Spent
<1>2. Spent' /\ OnSchedule' /\ Forgotten' /\ OverrunsTold'
  BY <1>1 DEF LoopInv, Spent, OnSchedule, Forgotten, OverrunsTold
<1>3. CASE BeatDue
  <2>1. age' = since /\ beat' = 0 /\ published'
    BY <1>3, Zenon DEF Publish
  <2>2. since <= TTL
    BY <1>1, LoopBounds, Times DEF LongestTick
  <2>3. LoopTypeOK'
    BY <1>1, <2>1, <2>2, LoopBounds DEF LoopInv, LoopTypeOK, NoBeat
  <2>4. KeptFresh'
    BY <1>1, <2>1, LoopBounds DEF LoopInv, KeptFresh, Unwritten
  <2> QED BY <1>2, <2>3, <2>4 DEF LoopInv
<1>4. CASE ~BeatDue
  <2>1. beat' = beat + 1 /\ age' = age /\ published' = published
    BY <1>4, Zenon DEF Publish
  <2>2. LoopTypeOK'
    BY <1>1, <2>1 DEF LoopInv, LoopTypeOK
  <2>3. beat + 1 < Heartbeat
    BY <1>4, LoopBounds DEF BeatDue, LoopInv, LoopTypeOK
  <2>4. Unwritten' = Unwritten
    BY <1>1, <2>1 DEF Unwritten
  <2>5. ~intruded' /\ (published' => 0 <= age /\ age <= Unwritten * LongestTick + since)
    <3>1. ~intruded' /\ (published => 0 <= age /\ age <= Unwritten * LongestTick + since)
      BY <1>1 DEF LoopInv, KeptFresh
    <3> QED BY <2>1, <3>1
  <2>6. KeptFresh'
    BY <1>1, <2>1, <2>3, <2>4, <2>5 DEF KeptFresh
  <2> QED BY <1>2, <2>2, <2>6 DEF LoopInv
<1> QED BY <1>3, <1>4

LEMMA SeamLoop ==
  ASSUME LoopAssumption, LoopInv, NEW s \in 0 .. MaxSeam, Seam(s)
  PROVE  LoopInv'
<1>1. /\ s \in Nat /\ s <= MaxSeam /\ age \in Int /\ age <= NoBeat /\ since \in Nat /\ since <= MaxWork
      /\ late \in Int /\ doing = "seam"
  BY LoopBounds DEF Seam, LoopInv, LoopTypeOK, Spent
<1>2. /\ doing' = "pace" /\ late' = late + s /\ since' = since + s /\ age' = Capped(age + s)
      /\ UNCHANGED <<intervals, beat, stop, falseLive, published, intruded>>
  BY DEF Seam, Elapse, ghosts
<1>3. Capped(age + s) \in Int /\ Capped(age + s) <= NoBeat
  BY <1>1, LoopBounds DEF Capped, NoBeat
<1>4. overruns' \in Nat /\ reported' \in Nat /\ streak' \in Nat /\ overruns' = reported' + streak'
  <2>1. overruns \in Nat /\ reported \in Nat /\ streak \in Nat /\ overruns = reported + streak
    BY DEF LoopInv, LoopTypeOK, OverrunsTold
  <2>2. CASE overruns' = overruns + 1 /\ streak' = streak + 1 /\ UNCHANGED reported
    BY <2>1, <2>2
  <2>3. CASE overruns' = overruns /\ reported' = reported + streak /\ streak' = 0
    BY <2>1, <2>3
  <2>4. CASE UNCHANGED <<overruns, reported, streak>>
    BY <2>1, <2>4
  <2> QED BY <2>2, <2>3, <2>4 DEF Seam, Counted, Calmed, ClosedEpisode
<1>5. LoopTypeOK'
  <2>1. late' \in Int /\ since' \in Nat /\ age' \in Int /\ age' <= NoBeat /\ doing' = "pace"
    BY <1>1, <1>2, <1>3
  <2>2. intervals'[1] \in Nat /\ intervals'[2] \in Nat /\ beat' \in Nat /\ falseLive' \in Nat
    BY <1>2 DEF LoopInv, LoopTypeOK
  <2> QED BY <1>4, <2>1, <2>2 DEF LoopTypeOK, NoBeat
<1>6. Spent' /\ OnSchedule'
  BY <1>1, <1>2, LoopBounds DEF LoopInv, LoopTypeOK, Spent, OnSchedule
<1>7. Forgotten' /\ OverrunsTold'
  BY <1>1, <1>2, <1>4 DEF LoopInv, Forgotten, OverrunsTold
<1>8. KeptFresh'
  <2>1. ~intruded' /\ published' = published
    BY <1>2 DEF LoopInv, KeptFresh
  <2>2. CASE published
    <3>1. /\ age <= TTL - LongestTick + since
      BY <1>1, <2>2, FreshIsSeen
    <3>2. age' = age + s
      BY <1>1, <1>2, <3>1, LoopBounds DEF Capped, NoBeat, LongestTick
    <3>3. beat' = beat /\ Unwritten' = Unwritten
      BY <1>1, <1>2 DEF Unwritten
    <3>4. beat < Heartbeat /\ 0 <= age /\ age <= Unwritten * LongestTick + since
      BY <1>1, <2>2 DEF LoopInv, KeptFresh
    <3>5. Unwritten * LongestTick \in Nat
      BY <1>1, LoopBounds, Times DEF Unwritten, LoopInv, LoopTypeOK
    <3>6. 0 <= age' /\ age' <= Unwritten * LongestTick + since'
      BY <1>1, <1>2, <3>2, <3>4, <3>5
    <3> QED BY <2>1, <3>3, <3>4, <3>6 DEF KeptFresh, LongestTick
  <2>3. CASE ~published
    BY <2>1, <2>3 DEF KeptFresh
  <2> QED BY <2>2, <2>3
<1> QED BY <1>5, <1>6, <1>7, <1>8 DEF LoopInv

LEMMA PaceLoop ==
  ASSUME LoopAssumption, LoopInv, NEW over \in 0 .. MaxOver, Pace(over)
  PROVE  LoopInv'
<1> DEFINE slept == IF late < Period /\ ~stop THEN Period - late + over ELSE 0
<1>1. /\ over \in Nat /\ over <= MaxOver /\ age \in Int /\ age <= NoBeat /\ doing = "pace"
      /\ since \in Nat /\ since <= MaxWork + MaxSeam /\ late \in Int
      /\ intervals[1] \in Nat /\ intervals[2] \in Nat
  BY LoopBounds DEF Pace, LoopInv, LoopTypeOK, Spent
<1>2. /\ since <= late /\ late <= since + Period /\ late - since <= intervals[2]
      /\ (late - since) + Period <= intervals[1] + intervals[2]
  BY <1>1 DEF LoopInv, OnSchedule
<1>3. PICK q : q = slept
  OBVIOUS
<1>4. /\ doing' = "top" /\ late' = Lateness(late) + q /\ since' = 0 /\ age' = Capped(age + q)
      /\ intervals'[1] = intervals[2] /\ intervals'[2] = since + q
      /\ UNCHANGED <<beat, stop, overruns, reported, streak, falseLive, published, intruded>>
  BY <1>3 DEF Pace, meter, ghosts
<1>5. /\ q \in Nat /\ q <= Period + MaxOver
      /\ late < Period /\ ~stop => q = Period - late + over
      /\ ~(late < Period /\ ~stop) => q = 0
  <2>1. CASE late < Period /\ ~stop
    BY <1>1, <1>2, <1>3, <2>1, LoopBounds
  <2>2. CASE ~(late < Period /\ ~stop)
    BY <1>3, <2>2, LoopBounds
  <2> QED BY <2>1, <2>2
<1> HIDE DEF slept
<1>6. LoopTypeOK'
  <2>1. Capped(age + q) \in Int /\ Capped(age + q) <= NoBeat
    BY <1>1, <1>5, LoopBounds DEF Capped, NoBeat
  <2>2. Lateness(late) \in Int
    BY <1>1, LoopBounds DEF Lateness
  <2> QED BY <1>1, <1>4, <1>5, <2>1, <2>2 DEF LoopInv, LoopTypeOK, NoBeat
<1>7. OnSchedule'
  <2> SUFFICES ASSUME ~stop
               PROVE  /\ 0 <= late' /\ late' <= Period /\ late' <= intervals'[2]
                      /\ late' + Period <= intervals'[1] + intervals'[2]
    <3>1. /\ since' = 0 /\ late' \in Int /\ stop' = stop /\ doing' = "top"
          /\ intervals'[1] \in Nat /\ intervals'[2] \in Nat
      BY <1>4, <1>6 DEF LoopTypeOK
    <3> QED BY <3>1, LoopBounds DEF OnSchedule
  <2>1. CASE late < Period
    <3>1. q = Period - late + over /\ late' = over
      BY <1>1, <1>4, <1>5, <2>1, LoopBounds DEF Lateness
    <3> QED BY <1>1, <1>2, <1>4, <3>1, LoopBounds
  <2>2. CASE Period <= late /\ late < 2 * Period
    <3>1. q = 0 /\ late' = late - Period
      BY <1>1, <1>4, <1>5, <2>2, LoopBounds DEF Lateness
    <3> QED BY <1>1, <1>2, <1>4, <2>2, <3>1, LoopBounds
  <2>3. CASE late >= 2 * Period
    <3>1. q = 0 /\ late' = 0
      BY <1>1, <1>4, <1>5, <2>3, LoopBounds DEF Lateness
    <3> QED BY <1>1, <1>2, <1>4, <2>3, <3>1, LoopBounds
  <2> QED BY <1>1, <2>1, <2>2, <2>3, LoopBounds
<1>8. Spent' /\ Forgotten' /\ OverrunsTold'
  BY <1>1, <1>4 DEF LoopInv, Spent, Forgotten, OverrunsTold
<1>9. KeptFresh'
  <2>1. ~intruded' /\ published' = published
    BY <1>4 DEF LoopInv, KeptFresh
  <2>2. CASE published
    <3>1. /\ age <= TTL - LongestTick + since
      BY <1>1, <2>2, FreshIsSeen
    <3>2. age' = age + q /\ since + q <= LongestTick
      BY <1>1, <1>4, <1>5, <3>1, LoopBounds DEF Capped, NoBeat, LongestTick
    <3>3. beat' = beat /\ Unwritten = beat /\ Unwritten' = beat + 1 /\ beat \in Nat
      BY <1>1, <1>4 DEF Unwritten, LoopInv, LoopTypeOK
    <3>4. beat < Heartbeat /\ 0 <= age /\ age <= beat * LongestTick + since
      BY <1>1, <2>2, <3>3 DEF LoopInv, KeptFresh
    <3>5. beat * LongestTick \in Nat /\ (beat + 1) * LongestTick = beat * LongestTick + LongestTick
      BY <3>3, LoopBounds, Times
    <3>6. 0 <= age' /\ age' <= (beat + 1) * LongestTick + since'
      BY <1>1, <1>4, <1>5, <3>2, <3>4, <3>5, LoopBounds
    <3>7. age' <= Unwritten' * LongestTick + since'
      BY <3>3, <3>6
    <3> QED BY <2>1, <3>3, <3>4, <3>6, <3>7 DEF KeptFresh, LongestTick
  <2>3. CASE ~published
    BY <2>1, <2>3 DEF KeptFresh
  <2> QED BY <2>2, <2>3
<1> QED BY <1>6, <1>7, <1>8, <1>9 DEF LoopInv

LEMMA AroundLoop ==
  ASSUME LoopAssumption, LoopInv, Stopped \/ Signal \/ Kill \/ Pass \/ Reboot \/ Enter
  PROVE  LoopInv'
<1>1. age \in Int /\ age <= NoBeat /\ falseLive \in Nat
  BY DEF LoopInv, LoopTypeOK
<1>2. CASE Stopped
  BY <1>1, <1>2, EndedLoop DEF Stopped
<1>3. CASE Kill
  BY <1>1, <1>3, GoneLoop DEF Kill
<1>4. CASE Signal
  <2>1. /\ doing # "off" /\ stop'
        /\ UNCHANGED <<doing, late, since, age, intervals, beat, overruns, reported, streak>>
        /\ UNCHANGED <<falseLive, published, intruded>> /\ ~stop
    BY <1>4 DEF Signal, clocks, meter, ghosts
  <2>2. LoopTypeOK' /\ Spent' /\ Forgotten' /\ OverrunsTold'
    BY <2>1 DEF LoopInv, LoopTypeOK, NoBeat, Spent, Forgotten, OverrunsTold
  <2>3. OnSchedule'
    BY <2>1 DEF LoopInv, OnSchedule
  <2>4. KeptFresh'
    BY <2>1 DEF LoopInv, KeptFresh, Unwritten, LongestTick
  <2> QED BY <2>2, <2>3, <2>4 DEF LoopInv
<1>5. CASE Enter
  <2>1. /\ ~EngineIsLive /\ intruded' = (intruded \/ (doing # "off" /\ published))
        /\ UNCHANGED <<doing, late, since, age, intervals, beat, stop, overruns, reported, streak>>
        /\ UNCHANGED <<falseLive, published>>
    BY <1>5 DEF Enter, clocks, meter
  <2>2. LoopTypeOK' /\ Spent' /\ OnSchedule' /\ Forgotten' /\ OverrunsTold'
    BY <2>1 DEF LoopInv, LoopTypeOK, NoBeat, Spent, OnSchedule, Forgotten, OverrunsTold
  <2>3. ~(doing # "off" /\ published)
    BY <2>1, FreshIsSeen
  <2>4. ~intruded'
    BY <2>1, <2>3 DEF LoopInv, KeptFresh
  <2>5. KeptFresh'
    BY <2>1, <2>3, <2>4 DEF KeptFresh
  <2> QED BY <2>2, <2>5 DEF LoopInv
<1>6. CASE Pass \/ Reboot
  <2>1. /\ doing = "off" /\ age' \in Int /\ age' <= NoBeat
        /\ falseLive' \in Nat /\ (falseLive' = 0 \/ falseLive' <= age' + Skew)
        /\ UNCHANGED <<doing, late, since, intervals, beat, stop, overruns, reported, streak>>
        /\ UNCHANGED <<published, intruded>>
    <3>1. CASE Pass
      <4>1. /\ doing = "off" /\ age < NoBeat /\ age' = age + 1
            /\ falseLive' = falseLive + (IF EngineIsLive THEN 1 ELSE 0)
            /\ UNCHANGED <<doing, late, since, intervals, beat, stop, overruns, reported, streak>>
            /\ UNCHANGED <<published, intruded>>
        BY <3>1 DEF Pass, meter
      <4>2. CASE EngineIsLive
        <5>1. age >= -Skew /\ falseLive' = falseLive + 1 /\ (falseLive = 0 \/ falseLive <= age + Skew)
          BY <1>1, <4>1, <4>2, LoopBounds DEF EngineIsLive, LoopInv, Forgotten
        <5> QED BY <1>1, <4>1, <5>1, LoopBounds DEF NoBeat
      <4>3. CASE ~EngineIsLive
        <5>1. falseLive' = falseLive /\ (falseLive = 0 \/ falseLive <= age + Skew)
          BY <1>1, <4>1, <4>3 DEF LoopInv, Forgotten
        <5> QED BY <1>1, <4>1, <5>1, LoopBounds DEF NoBeat
      <4> QED BY <4>2, <4>3
    <3>2. CASE Reboot
      <4>1. PICK uptime \in age .. MaxUptime : age' = age - uptime
        BY <3>2 DEF Reboot
      <4>2. /\ doing = "off" /\ falseLive' = 0
            /\ UNCHANGED <<doing, late, since, intervals, beat, stop, overruns, reported, streak>>
            /\ UNCHANGED <<published, intruded>>
        BY <3>2 DEF Reboot, meter
      <4> QED BY <1>1, <4>1, <4>2, LoopBounds DEF NoBeat
    <3> QED BY <1>6, <3>1, <3>2
  <2>2. LoopTypeOK'
    BY <2>1 DEF LoopInv, LoopTypeOK, NoBeat
  <2>3. Spent' /\ OnSchedule' /\ Forgotten' /\ OverrunsTold'
    BY <2>1 DEF LoopInv, Spent, OnSchedule, Forgotten, OverrunsTold
  <2>4. KeptFresh'
    BY <2>1 DEF LoopInv, KeptFresh
  <2> QED BY <2>2, <2>3, <2>4 DEF LoopInv
<1> QED BY <1>2, <1>3, <1>4, <1>5, <1>6

LEMMA LoopInvSound ==
  ASSUME LoopAssumption, LoopInv
  PROVE  LoopSound
<1>1. NeverBursts
  <2> SUFFICES ASSUME doing = "top", ~stop
               PROVE  intervals[1] + intervals[2] >= Period
    BY DEF NeverBursts
  <2> QED BY LoopBounds DEF LoopInv, LoopTypeOK, OnSchedule
<1>2. OwnerSeen
  BY FreshIsSeen DEF OwnerSeen, LoopInv, KeptFresh
<1>3. GoneIsSeen
  BY LoopBounds DEF GoneIsSeen, LoopInv, LoopTypeOK, Forgotten, NoBeat
<1> QED BY <1>1, <1>2, <1>3 DEF LoopSound, LoopInv

\* For any period, heartbeat, delays and number of errors in which no tick is so long that
\* the heartbeats lapse: stalls are never paid back in a burst, an engine that has
\* published is seen by every loop that asks, one that is gone is taken for live no longer
\* than its heartbeat counts, and every overrun is told (engine.py, liveness.py,
\* tick_metrics.py).
THEOREM LoopKeepsTime == LoopAssumption => (LoopSpec => []LoopSound)
<1> SUFFICES ASSUME LoopAssumption
             PROVE  LoopSpec => []LoopSound
  OBVIOUS
<1>1. LoopInit => LoopInv
  BY InitLoop
<1>2. LoopInv /\ [LoopNext]_loopVars => LoopInv'
  <2>1. ASSUME LoopInv, UNCHANGED loopVars
        PROVE  LoopInv'
    BY <2>1 DEF loopVars, clocks, meter, ghosts, LoopInv, LoopTypeOK, NoBeat, Spent, OnSchedule,
                KeptFresh, Unwritten, LongestTick, Forgotten, OverrunsTold
  <2> QED BY <2>1, StartLoop, WorkLoop, PublishLoop, SeamLoop, PaceLoop, AroundLoop DEF LoopNext
<1>3. LoopInv => LoopSound
  BY LoopInvSound
<1> QED BY <1>1, <1>2, <1>3, PTL DEF LoopSpec

--------------------------------------------------------------------------------
(* The parts of the process                                                     *)

StepType == [do : {"make", "start", "configure"},
             part : Parts \union {"pat", "face recognition", "intents"}]

\* The parts a list of steps makes.
MadeBy(s) == {p \in Parts : \E j \in DOMAIN s : s[j] = Make(p)}

\* Nothing is started before the frame has a name for it, but for the publisher, whose
\* name is bound next.
NamedFirst(s, before) ==
  \A i \in DOMAIN s : s[i].do = "start" =>
    /\ s[i].part \in Parts \ {"metrics"}
    /\ \/ s[i].part \in before
       \/ \E j \in DOMAIN s : j < i /\ s[j] = Make(s[i].part)
       \/ s[i].part = "publisher" /\ i + 1 \in DOMAIN s /\ s[i + 1] = Make("publisher")

LEMMA JoinedNamed ==
  ASSUME NEW s \in Seq(StepType), NEW t \in Seq(StepType), NEW before, NEW after,
         NamedFirst(s, before), NamedFirst(t, after), after \subseteq before \union MadeBy(s)
  PROVE  /\ s \o t \in Seq(StepType) /\ NamedFirst(s \o t, before)
         /\ MadeBy(s) \subseteq MadeBy(s \o t) /\ MadeBy(t) \subseteq MadeBy(s \o t)
<1> DEFINE u == s \o t
<1>1. /\ u \in Seq(StepType) /\ Len(s) \in Nat /\ Len(t) \in Nat
      /\ DOMAIN s = 1 .. Len(s) /\ DOMAIN t = 1 .. Len(t)
      /\ Len(u) = Len(s) + Len(t) /\ DOMAIN u = 1 .. Len(u)
      /\ \A i \in DOMAIN u : u[i] = IF i <= Len(s) THEN s[i] ELSE t[i - Len(s)]
  <2>1. /\ u \in Seq(StepType) /\ Len(u) = Len(s) + Len(t)
        /\ \A i \in 1 .. Len(s) + Len(t) : u[i] = IF i <= Len(s) THEN s[i] ELSE t[i - Len(s)]
    BY ConcatProperties
  <2> QED BY <2>1, LenProperties
<1> HIDE DEF u
<1>2. \A i \in DOMAIN s : i \in DOMAIN u /\ u[i] = s[i]
  BY <1>1
<1>3. \A i \in DOMAIN t : Len(s) + i \in DOMAIN u /\ u[Len(s) + i] = t[i]
  BY <1>1
<1>4. MadeBy(s) \subseteq MadeBy(u) /\ MadeBy(t) \subseteq MadeBy(u)
  BY <1>2, <1>3 DEF MadeBy
<1>5. ASSUME NEW i \in DOMAIN u, u[i].do = "start"
      PROVE  /\ u[i].part \in Parts \ {"metrics"}
             /\ \/ u[i].part \in before
                \/ \E j \in DOMAIN u : j < i /\ u[j] = Make(u[i].part)
                \/ u[i].part = "publisher" /\ i + 1 \in DOMAIN u /\ u[i + 1] = Make("publisher")
  <2>1. CASE i <= Len(s)
    <3>1. i \in DOMAIN s /\ u[i] = s[i]
      BY <1>1, <2>1
    <3> QED BY <1>2, <1>5, <3>1 DEF NamedFirst
  <2>2. CASE i > Len(s)
    <3>1. PICK k \in DOMAIN t : i = Len(s) + k /\ u[i] = t[k] /\ k \in Nat
      <4>1. i \in Nat /\ i - Len(s) \in DOMAIN t /\ i = Len(s) + (i - Len(s)) /\ i - Len(s) \in Nat
        BY <1>1, <2>2
      <4> QED BY <1>1, <2>2, <4>1
    <3>2. /\ t[k].part \in Parts \ {"metrics"}
          /\ \/ t[k].part \in before \union MadeBy(s)
             \/ \E j \in DOMAIN t : j < k /\ t[j] = Make(t[k].part)
             \/ t[k].part = "publisher" /\ k + 1 \in DOMAIN t /\ t[k + 1] = Make("publisher")
      BY <1>5, <3>1 DEF NamedFirst
    <3>3. CASE t[k].part \in MadeBy(s)
      <4>1. PICK j \in DOMAIN s : s[j] = Make(t[k].part)
        BY <3>3 DEF MadeBy
      <4>2. j \in DOMAIN u /\ u[j] = Make(u[i].part) /\ j < i
        BY <1>1, <1>2, <2>2, <3>1, <4>1
      <4> QED BY <3>1, <3>2, <4>2
    <3>4. CASE \E j \in DOMAIN t : j < k /\ t[j] = Make(t[k].part)
      <4>1. PICK j \in DOMAIN t : j < k /\ t[j] = Make(t[k].part)
        BY <3>4
      <4>2. Len(s) + j \in DOMAIN u /\ u[Len(s) + j] = Make(u[i].part) /\ Len(s) + j < i
        BY <1>1, <1>3, <3>1, <4>1
      <4> QED BY <3>1, <3>2, <4>2
    <3>5. CASE t[k].part = "publisher" /\ k + 1 \in DOMAIN t /\ t[k + 1] = Make("publisher")
      <4>1. Len(s) + (k + 1) = i + 1
        BY <1>1, <3>1
      <4> QED BY <1>3, <3>1, <3>2, <3>5, <4>1
    <3> QED BY <3>1, <3>2, <3>3, <3>4, <3>5
  <2> QED BY <1>1, <2>1, <2>2
<1>6. NamedFirst(u, before)
  BY <1>5 DEF NamedFirst
<1> QED BY <1>1, <1>4, <1>6 DEF u

LEMMA SensesNamed ==
  ASSUME NEW pat \in BOOLEAN
  PROVE  SensesFirst(pat) \in Seq(StepType) /\ NamedFirst(SensesFirst(pat), {})
<1>0. ASSUME NEW c,
             c = <<Make("media"), Make("pump"), Configure("face recognition"), Make("face"), Make("clip")>>
      PROVE  \A i \in DOMAIN c : c[i].do # "start"
  <2>1. DOMAIN <<Make("media"), Make("pump"), Configure("face recognition"), Make("face"), Make("clip")>> = 1 .. 5
    OBVIOUS
  <2>2. c[1].do = "make" /\ c[2].do = "make" /\ c[3].do = "configure" /\ c[4].do = "make" /\ c[5].do = "make"
    BY <1>0 DEF Make, Configure
  <2>3. DOMAIN c = 1 .. 5
    BY <1>0, <2>1, Zenon
  <2>4. \A i \in 1 .. 5 : i \in {1, 2, 3, 4, 5}
    OBVIOUS
  <2> QED BY <2>2, <2>3, <2>4
<1> DEFINE A == <<Make("speech"), Begin("speech")>>
           B == IF pat THEN <<Make("reader"), Configure("pat")>> ELSE <<>>
           C == <<Make("media"), Make("pump"), Configure("face recognition"), Make("face"), Make("clip")>>
           D == IF pat THEN <<Begin("reader")>> ELSE <<>>
           E == <<Begin("media"), Make("keeper"), Begin("keeper"), Begin("pump")>>
           reader == IF pat THEN {"reader"} ELSE {}
<1>1. A \in Seq(StepType) /\ NamedFirst(A, {})
  BY DEF NamedFirst, Make, Begin, StepType, Parts, Drivers
<1>2. B \in Seq(StepType) /\ NamedFirst(B, {}) /\ reader \subseteq MadeBy(B)
  <2>1. CASE pat
    <3>1. B = <<Make("reader"), Configure("pat")>> /\ reader = {"reader"}
      BY <2>1
    <3>2. LET b == <<Make("reader"), Configure("pat")>> IN b \in Seq(StepType) /\ NamedFirst(b, {})
      BY DEF NamedFirst, Make, Configure, StepType, Parts, Drivers
    <3>3. 1 \in DOMAIN B /\ B[1] = Make("reader")
      BY <3>1
    <3> QED BY <3>1, <3>2, <3>3 DEF MadeBy, Parts
  <2>2. CASE ~pat
    <3>1. B = <<>> /\ reader = {}
      BY <2>2
    <3> QED BY <3>1 DEF NamedFirst
  <2> QED BY <2>1, <2>2
<1>3. C \in Seq(StepType) /\ NamedFirst(C, {}) /\ {"media", "pump"} \subseteq MadeBy(C)
  <2>1. C \in Seq(StepType)
    BY DEF Make, Configure, StepType, Parts, Drivers
  <2>2. \A i \in DOMAIN C : C[i].do # "start"
    BY <1>0
  <2>3. 1 \in DOMAIN C /\ C[1] = Make("media") /\ 2 \in DOMAIN C /\ C[2] = Make("pump")
    OBVIOUS
  <2> HIDE DEF C
  <2> QED BY <2>1, <2>2, <2>3 DEF NamedFirst, MadeBy, Parts
<1>4. D \in Seq(StepType) /\ NamedFirst(D, reader)
  <2>1. CASE pat
    <3>1. D = <<Begin("reader")>> /\ reader = {"reader"}
      BY <2>1
    <3>2. LET d == <<Begin("reader")>> IN d \in Seq(StepType) /\ NamedFirst(d, {"reader"})
      BY DEF NamedFirst, Begin, StepType, Parts, Drivers
    <3> QED BY <3>1, <3>2
  <2>2. CASE ~pat
    <3>1. D = <<>> /\ reader = {}
      BY <2>2
    <3> QED BY <3>1 DEF NamedFirst
  <2> QED BY <2>1, <2>2
<1>5. E \in Seq(StepType) /\ NamedFirst(E, {"media", "pump"})
  BY DEF NamedFirst, Make, Begin, StepType, Parts, Drivers
<1>6. SensesFirst(pat) = A \o B \o C \o D \o E
  BY DEF SensesFirst
<1> HIDE DEF A, B, C, D, E, reader
<1>7. /\ A \o B \in Seq(StepType) /\ NamedFirst(A \o B, {}) /\ reader \subseteq MadeBy(A \o B)
  <2>1. {} \subseteq {} \union MadeBy(A)
    OBVIOUS
  <2> QED BY <1>1, <1>2, <2>1, JoinedNamed
<1>8. /\ A \o B \o C \in Seq(StepType) /\ NamedFirst(A \o B \o C, {})
      /\ reader \subseteq MadeBy(A \o B \o C) /\ {"media", "pump"} \subseteq MadeBy(A \o B \o C)
  <2>1. {} \subseteq {} \union MadeBy(A \o B)
    OBVIOUS
  <2> QED BY <1>3, <1>7, <2>1, JoinedNamed
<1>9. /\ A \o B \o C \o D \in Seq(StepType) /\ NamedFirst(A \o B \o C \o D, {})
      /\ {"media", "pump"} \subseteq MadeBy(A \o B \o C \o D)
  <2>1. reader \subseteq {} \union MadeBy(A \o B \o C)
    BY <1>8
  <2> QED BY <1>4, <1>8, <2>1, JoinedNamed
<1>10. A \o B \o C \o D \o E \in Seq(StepType) /\ NamedFirst(A \o B \o C \o D \o E, {})
  <2>1. {"media", "pump"} \subseteq {} \union MadeBy(A \o B \o C \o D)
    BY <1>9
  <2> QED BY <1>5, <1>9, <2>1, JoinedNamed
<1> QED BY <1>6, <1>10

LEMMA StepsNamed ==
  ASSUME NEW m \in Modes
  PROVE  Steps(m) \in Seq(StepType) /\ NamedFirst(Steps(m), {})
<1>1. ProbeSteps \in Seq(StepType) /\ NamedFirst(ProbeSteps, {})
  BY DEF ProbeSteps, NamedFirst, Make, Begin, StepType, Parts, Drivers
<1>2. HearingNext \in Seq(StepType) /\ NamedFirst(HearingNext, {})
  BY DEF HearingNext, NamedFirst, Make, Begin, StepType, Parts, Drivers
<1>3. DriversLast \in Seq(StepType) /\ NamedFirst(DriversLast, {})
  BY DEF DriversLast, NamedFirst, Make, Begin, Configure, StepType, Parts, Drivers
<1>4. ASSUME NEW s \in Seq(StepType), NEW t \in Seq(StepType), NamedFirst(s, {}), NamedFirst(t, {})
      PROVE  s \o t \in Seq(StepType) /\ NamedFirst(s \o t, {})
  <2>1. {} \subseteq {} \union MadeBy(s)
    OBVIOUS
  <2> QED BY <1>4, <2>1, JoinedNamed
<1>5. ASSUME NEW pat \in BOOLEAN
      PROVE  /\ SensesFirst(pat) \o HearingNext \o DriversLast \in Seq(StepType)
             /\ NamedFirst(SensesFirst(pat) \o HearingNext \o DriversLast, {})
  BY <1>2, <1>3, <1>4, SensesNamed
<1> QED BY <1>1, <1>5 DEF Steps, Modes

\* What runs has a name in the frame, but for the publisher until its name is bound;
\* closing, whoever comes earlier in the order was asked.
PartsTypeOK ==
  /\ mode \in Modes /\ stage \in {"composing", "running", "closing", "over"}
  /\ at \in Nat /\ live \in SUBSET (Parts \ {"metrics"}) /\ early = {}

WhileComposing ==
  stage = "composing" =>
    /\ asked = {} /\ at <= Len(Steps(mode))
    /\ \A j \in DOMAIN Steps(mode), p \in Parts : j <= at /\ Steps(mode)[j] = Make(p) => p \in made
    /\ \A p \in live : p \in made \/ (/\ p = "publisher" /\ at + 1 \in DOMAIN Steps(mode)
                                      /\ Steps(mode)[at + 1] = Make("publisher"))

WhileClosing ==
  /\ stage \in {"running", "closing"} => live \subseteq made
  /\ stage = "running" => asked = {}
  /\ stage = "closing" =>
       \A j \in DOMAIN CloseOrder : j <= at /\ CloseOrder[j] \in made => CloseOrder[j] \in asked
  /\ stage = "over" => cause = "interrupted" \/ live \subseteq asked

PartsInv == PartsTypeOK /\ WhileComposing /\ WhileClosing

LEMMA InitParts ==
  ASSUME PartsInit
  PROVE  PartsInv
<1>1. Len(Steps(mode)) \in Nat /\ DOMAIN Steps(mode) = 1 .. Len(Steps(mode))
  BY StepsNamed, LenProperties DEF PartsInit
<1>2. PartsTypeOK
  BY DEF PartsInit, PartsTypeOK
<1>3. WhileComposing
  <2>1. at = 0 /\ at <= Len(Steps(mode)) /\ \A j \in DOMAIN Steps(mode) : ~(j <= at)
    <3>1. at = 0
      BY DEF PartsInit
    <3> QED BY <1>1, <3>1
  <2> QED BY <2>1 DEF PartsInit, WhileComposing
<1>4. WhileClosing
  BY DEF PartsInit, WhileClosing
<1> QED BY <1>2, <1>3, <1>4 DEF PartsInv

LEMMA StepInv ==
  ASSUME PartsInv, Step
  PROVE  PartsInv'
<1>1. PICK s : s = Steps(mode)[at + 1]
  OBVIOUS
<1>2. /\ Steps(mode) \in Seq(StepType) /\ NamedFirst(Steps(mode), {})
      /\ Len(Steps(mode)) \in Nat /\ DOMAIN Steps(mode) = 1 .. Len(Steps(mode))
  BY StepsNamed, LenProperties DEF PartsInv, PartsTypeOK
<1>3. /\ stage = "composing" /\ at \in Nat /\ at < Len(Steps(mode)) /\ at + 1 \in DOMAIN Steps(mode)
      /\ UNCHANGED <<mode, stage, asked, early>> /\ at' = at + 1
      /\ made' = (IF s.do = "make" THEN made \union {s.part} ELSE made)
      /\ live' = (IF s.do = "start" THEN live \union {s.part} ELSE live)
  <2>1. /\ stage = "composing" /\ at \in Nat /\ at < Len(Steps(mode))
        /\ UNCHANGED <<mode, stage, asked, early>> /\ at' = at + 1
        /\ made' = (IF s.do = "make" THEN made \union {s.part} ELSE made)
        /\ live' = (IF s.do = "start" THEN live \union {s.part} ELSE live)
    BY <1>1 DEF Step, PartsInv, PartsTypeOK
  <2> QED BY <1>2, <2>1
<1>4. \A j \in DOMAIN Steps(mode), p \in Parts :
        j <= at + 1 /\ Steps(mode)[j] = Make(p) => p \in made'
  <2> SUFFICES ASSUME NEW j \in DOMAIN Steps(mode), NEW p \in Parts, j <= at + 1, Steps(mode)[j] = Make(p)
               PROVE  p \in made'
    OBVIOUS
  <2>1. CASE j <= at
    BY <1>3, <2>1 DEF PartsInv, WhileComposing
  <2>2. CASE j = at + 1
    BY <1>1, <1>3, <2>2 DEF Make
  <2> QED BY <1>2, <1>3, <2>1, <2>2
<1>5. s.do = "start" =>
        /\ s.part \in Parts \ {"metrics"}
        /\ \/ s.part \in made
           \/ s.part = "publisher" /\ at + 2 \in DOMAIN Steps(mode) /\ Steps(mode)[at + 2] = Make("publisher")
  <2> SUFFICES ASSUME s.do = "start"
               PROVE  /\ s.part \in Parts \ {"metrics"}
                      /\ \/ s.part \in made
                         \/ /\ s.part = "publisher" /\ at + 2 \in DOMAIN Steps(mode)
                            /\ Steps(mode)[at + 2] = Make("publisher")
    OBVIOUS
  <2>1. /\ s.part \in Parts \ {"metrics"}
        /\ \/ \E j \in DOMAIN Steps(mode) : j < at + 1 /\ Steps(mode)[j] = Make(s.part)
           \/ /\ s.part = "publisher" /\ (at + 1) + 1 \in DOMAIN Steps(mode)
              /\ Steps(mode)[(at + 1) + 1] = Make("publisher")
    BY <1>1, <1>2, <1>3 DEF NamedFirst
  <2>2. (at + 1) + 1 = at + 2
    BY <1>3
  <2>3. ASSUME NEW j \in DOMAIN Steps(mode), j < at + 1, Steps(mode)[j] = Make(s.part)
        PROVE  s.part \in made
    <3>1. j <= at
      BY <1>2, <1>3, <2>3
    <3> QED BY <1>3, <2>1, <2>3, <3>1 DEF PartsInv, WhileComposing
  <2> QED BY <2>1, <2>2, <2>3
<1>6. ASSUME NEW p \in live'
      PROVE  p \in made' \/ (/\ p = "publisher" /\ at + 2 \in DOMAIN Steps(mode)
                             /\ Steps(mode)[at + 2] = Make("publisher"))
  <2>1. CASE p \in live
    <3>1. CASE p \in made
      BY <1>3, <3>1
    <3>2. CASE p = "publisher" /\ Steps(mode)[at + 1] = Make("publisher")
      BY <1>1, <1>3, <3>2 DEF Make
    <3> QED BY <1>3, <2>1, <3>1, <3>2 DEF PartsInv, WhileComposing
  <2>2. CASE p \notin live
    BY <1>3, <1>5, <2>2
  <2> QED BY <2>1, <2>2
<1>7. PartsTypeOK'
  BY <1>3, <1>5 DEF PartsInv, PartsTypeOK
<1>8. WhileComposing'
  <2>1. at + 1 <= Len(Steps(mode)) /\ at' + 1 = at + 2
    BY <1>2, <1>3
  <2> QED BY <1>3, <1>4, <1>6, <2>1 DEF PartsInv, WhileComposing
<1>9. WhileClosing'
  BY <1>3 DEF WhileClosing
<1> QED BY <1>7, <1>8, <1>9 DEF PartsInv

\* Every part comes after all that use it in the order of the closes.
LEMMA UsersFirst ==
  ASSUME NEW i \in DOMAIN CloseOrder, NEW q \in Parts, CloseOrder[i] \in Uses[q]
  PROVE  \E j \in DOMAIN CloseOrder : j < i /\ CloseOrder[j] = q
  BY DEF CloseOrder, Uses, Parts, Drivers

LEMMA OrderIsWhole ==
  /\ Len(CloseOrder) = 13 /\ DOMAIN CloseOrder = 1 .. 13
  /\ \A p \in Parts : \E j \in DOMAIN CloseOrder : CloseOrder[j] = p
<1>1. Len(CloseOrder) = 13 /\ DOMAIN CloseOrder = 1 .. 13
  BY DEF CloseOrder
<1> QED BY <1>1 DEF CloseOrder, Parts, Drivers

LEMMA LeaveInv ==
  ASSUME PartsInv, Raise \/ Run \/ RunTick \/ Stop
  PROVE  PartsInv'
<1>1. CASE Raise
  <2>1. live \subseteq made \ {"metrics"}
    BY <1>1 DEF Raise, PartsInv, PartsTypeOK, WhileComposing
  <2> QED BY <1>1, <2>1 DEF Raise, Unwinds, PartsInv, PartsTypeOK, WhileComposing, WhileClosing
<1>2. CASE Run
  <2>1. Len(Steps(mode)) \in Nat /\ DOMAIN Steps(mode) = 1 .. Len(Steps(mode))
    BY StepsNamed, LenProperties DEF PartsInv, PartsTypeOK
  <2>2. live \subseteq made
    BY <1>2, <2>1 DEF Run, PartsInv, WhileComposing
  <2> QED BY <1>2, <2>2 DEF Run, PartsInv, PartsTypeOK, WhileComposing, WhileClosing
<1>3. CASE RunTick
  <2>1. Drivers \subseteq Parts \ {"metrics"}
    BY DEF Parts, Drivers
  <2> QED BY <1>3, <2>1 DEF RunTick, PartsInv, PartsTypeOK, WhileComposing, WhileClosing
<1>4. CASE Stop
  BY <1>4, OrderIsWhole DEF Stop, Unwinds, PartsInv, PartsTypeOK, WhileComposing, WhileClosing
<1> QED BY <1>1, <1>2, <1>3, <1>4

LEMMA CloseInv ==
  ASSUME PartsInv, Closed \/ Interrupt \/ \E joins \in BOOLEAN : Close(joins)
  PROVE  PartsInv'
<1>1. CASE Interrupt
  BY <1>1 DEF Interrupt, PartsInv, PartsTypeOK, WhileComposing, WhileClosing
<1>2. CASE Closed
  <2>1. live \subseteq asked
    BY <1>2, OrderIsWhole DEF Closed, PartsInv, PartsTypeOK, WhileClosing
  <2> QED BY <1>2, <2>1 DEF Closed, PartsInv, PartsTypeOK, WhileComposing, WhileClosing
<1>3. ASSUME NEW joins \in BOOLEAN, Close(joins)
      PROVE  PartsInv'
  <2>1. PICK p : p = CloseOrder[at + 1]
    OBVIOUS
  <2>2. /\ stage = "closing" /\ at \in Nat /\ at + 1 \in DOMAIN CloseOrder /\ at' = at + 1
        /\ UNCHANGED <<mode, stage, made, ticks, cause>>
    BY <1>3, OrderIsWhole DEF Close, PartsInv, PartsTypeOK
  <2>3. Depends(p) = {}
    <3> SUFFICES ASSUME NEW q \in live, q \notin asked, p \in Uses[q]
                 PROVE  FALSE
      BY DEF Depends
    <3>1. q \in Parts /\ q \in made
      BY <2>2 DEF PartsInv, PartsTypeOK, WhileClosing
    <3>2. PICK j \in DOMAIN CloseOrder : j < at + 1 /\ CloseOrder[j] = q
      BY <2>1, <2>2, <3>1, UsersFirst
    <3>3. j <= at
      BY <2>2, <3>2, OrderIsWhole
    <3> QED BY <2>2, <3>1, <3>2, <3>3 DEF PartsInv, WhileClosing
  <2>4. live' \subseteq live /\ early' = {} /\ asked' = IF p \in made THEN asked \union {p} ELSE asked
    BY <1>3, <2>1, <2>3 DEF Close, PartsInv, PartsTypeOK
  <2>5. \A j \in DOMAIN CloseOrder : j <= at + 1 /\ CloseOrder[j] \in made => CloseOrder[j] \in asked'
    <3> SUFFICES ASSUME NEW j \in DOMAIN CloseOrder, j <= at + 1, CloseOrder[j] \in made
                 PROVE  CloseOrder[j] \in asked'
      OBVIOUS
    <3>1. CASE j <= at
      BY <2>2, <2>4, <3>1 DEF PartsInv, WhileClosing
    <3>2. CASE j = at + 1
      BY <2>1, <2>4, <3>2
    <3> QED BY <2>2, <3>1, <3>2, OrderIsWhole
  <2> QED BY <2>2, <2>4, <2>5 DEF PartsInv, PartsTypeOK, WhileComposing, WhileClosing
<1> QED BY <1>1, <1>2, <1>3

\* For any number of ticks and in every mode: wherever the composition fails or the run ends,
\* all that had begun is told to end, unless a second Ctrl-C cuts that short, and nothing
\* is closed under a part still at work with it (cli/_commands/behavior.py).
THEOREM PartsAreReleased == PartsSpec => []PartsReleased
<1>1. PartsInit => PartsInv
  BY InitParts
<1>2. PartsInv /\ [PartsNext]_partsVars => PartsInv'
  <2>1. PartsInv /\ UNCHANGED partsVars => PartsInv'
    BY DEF partsVars, PartsInv, PartsTypeOK, WhileComposing, WhileClosing
  <2> QED BY <2>1, StepInv, LeaveInv, CloseInv DEF PartsNext
<1>3. PartsInv => PartsReleased
  BY DEF PartsInv, PartsTypeOK, WhileClosing, PartsReleased, AllReleased, DependentsFirst
<1> QED BY <1>1, <1>2, <1>3, PTL DEF PartsSpec

================================================================================
