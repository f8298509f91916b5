------------------------------ MODULE IntentsProofs ------------------------------
(* Proofs about Intents, for every library, LOCK_INHIBITS, set of goals and     *)
(* bounds: what the intents driver promises at the end of its turn; and, at the *)
(* end, about the rule engine, which ticks before it, for all configurations.   *)
EXTENDS Intents, RuleEngine, EngineOpsProofs

\* Ids: what the intents admitted was handed out, and the gaze's is no base layer's.
Issued ==
  /\ \A i \in intentIds : i <= intentEng.seq
  /\ lockId <= intentEng.seq
  /\ \A b \in intentEng.active : b.ord = lockId => ~b.base

\* A base layer has its name, was seeded at the start, and is never what a lock takes.
Rooted ==
  /\ intentEng.seeded
  /\ \A b \in intentEng.active : b.base => b.name = BaseName
  /\ claim.added \subseteq LockInhibits

\* While an inhibition is why the base layer is gone, its name is in the set as the
\* driver last enforced it, or somebody sent it away: so the edge will be seen.
Healing ==
  /\ TurnTaken => (BaseName \in prev <=> BaseName \in claim.inh)
  /\ intentEng.cause = "inhibition" => BaseName \in prev \/ dismissed

IntentsInv ==
  IntentTypeOK /\ EngInv(intentEng) /\ Issued /\ Rooted /\ Healing /\ NothingStranded
  /\ Withheld /\ GoalStands /\ HeldMeansGaze

--------------------------------------------------------------------------------
\* Initially the base layer is alone and nobody inhibits anything.
LEMMA InitIntents ==
  ASSUME IntentsAssumption, IntentInit
  PROVE  IntentsInv
<1>1. EngInv(intentEng)
  <2>1. EngInv(NewEngine) /\ ~BaseActive(NewEngine)
    BY NewEngineInv DEF NewEngine, BaseActive
  <2> QED BY <2>1, SeedBaseInv DEF IntentInit
<1>2. /\ intentEng.active = {BaseBehavior(1)} /\ intentEng.seq = 1 /\ intentEng.seeded
      /\ intentEng.cause = "none"
  BY DEF IntentInit, SeedBase, NewEngine
<1>3. IntentTypeOK
  BY <1>1 DEF IntentInit, IntentTypeOK, EngInv, NoOwner, Lock!NoClaim, Lock!Claims
<1>4. Issued /\ Rooted
  BY <1>2 DEF IntentInit, Issued, Rooted, BaseBehavior, NoOwner, Lock!NoClaim
<1>5. Healing /\ Withheld /\ GoalStands /\ HeldMeansGaze
  BY <1>2 DEF IntentInit, Healing, TurnTaken, Withheld, GoalStands, HeldMeansGaze
<1>6. NothingStranded
  BY DEF IntentInit, NothingStranded
<1> QED BY <1>1, <1>3, <1>4, <1>5, <1>6 DEF IntentsInv

--------------------------------------------------------------------------------
(* What an engine operation may do to the active set *)

\* Whoever acts on the engine makes one behavior at most, under a fresh id.
Moved(e, f) ==
  /\ EngInv(f) /\ f.seeded /\ f.seq \in {e.seq, e.seq + 1}
  /\ \A b \in f.active \ e.active :
       b.ord = e.seq + 1 /\ f.seq = e.seq + 1 /\ (b.base => b.name = BaseName)

\* Ids are fresh: who has an old one was there before.
LEMMA FreshIds ==
  ASSUME IntentsInv, Moved(intentEng, intentEng')
  PROVE  /\ intentEng.seq \in Nat /\ intentEng'.seq \in Nat /\ intentEng.seq <= intentEng'.seq
         /\ \A b \in intentEng.active \cup intentEng'.active : b.ord \in Nat
         /\ \A b \in intentEng.active : b.ord <= intentEng.seq
         /\ \A b \in intentEng'.active : b.ord <= intentEng.seq => b \in intentEng.active
         /\ \A b \in intentEng'.active \ intentEng.active : b.ord = intentEng.seq + 1
              /\ intentEng'.seq = intentEng.seq + 1
         /\ \A i \in intentIds : i \in Nat /\ i <= intentEng.seq
         /\ lockId \in Nat /\ lockId <= intentEng.seq
<1>1. intentEng \in Engines /\ intentEng' \in Engines
  BY DEF IntentsInv, EngInv, Moved
<1>2. intentEng.seq \in Nat /\ intentEng'.seq \in Nat /\ intentEng.seq <= intentEng'.seq
  BY <1>1 DEF Engines, Moved
<1>3. \A b \in intentEng.active \cup intentEng'.active : b.ord \in Nat
  BY <1>1 DEF Engines, Behaviors
<1>4. /\ \A b \in intentEng.active : b.ord <= intentEng.seq
      /\ \A b \in intentEng'.active \ intentEng.active : b.ord = intentEng.seq + 1
           /\ intentEng'.seq = intentEng.seq + 1
  BY DEF IntentsInv, EngInv, Moved
<1>5. /\ \A i \in intentIds : i \in Nat /\ i <= intentEng.seq
      /\ lockId \in Nat /\ lockId <= intentEng.seq
  BY DEF IntentsInv, IntentTypeOK, Issued
<1>6. \A b \in intentEng'.active : b.ord <= intentEng.seq => b \in intentEng.active
  BY <1>2, <1>4
<1> QED BY <1>2, <1>3, <1>4, <1>5, <1>6

\* Every removal is such an operation; it blames whoever took the base layer.
LEMMA RemoveMoves ==
  ASSUME NEW e, EngInv(e), e.seeded, NEW hits, hits \subseteq e.active,
         NEW why \in {"stop", "inhibition"}
  PROVE  /\ Moved(e, Remove(e, hits, why))
         /\ Remove(e, hits, why).active = e.active \ hits
         /\ Remove(e, hits, why).seq = e.seq
         /\ Remove(e, hits, why).cause = IF \E b \in hits : b.base THEN why ELSE e.cause
<1>1. EngInv(Remove(e, hits, why)) /\ e \in Engines
  BY RemoveInv DEF EngInv
<1> QED BY <1>1, RemoveEffect DEF Moved

\* An admission makes one behavior, and blames nobody.
LEMMA AdmitMoves ==
  ASSUME NEW e, EngInv(e), e.seeded, NEW b \in Behaviors, b.ord = e.seq + 1, ~b.base
  PROVE  /\ Moved(e, AdmitBehavior(e, b))
         /\ AdmitBehavior(e, b).seq = e.seq + 1 /\ AdmitBehavior(e, b).cause = e.cause
         /\ b \in AdmitBehavior(e, b).active
         /\ AdmitBehavior(e, b).active \subseteq e.active \cup {b}
<1>1. EngInv(AdmitBehavior(e, b)) /\ e \in Engines
  <2>1. EngInv(AdmitBehavior(e, b))
    BY AdmitInv
  <2> QED BY <2>1 DEF EngInv
<1>3. /\ AdmitBehavior(e, b).active = (e.active \ Evicted(b, e.active)) \cup {b}
      /\ AdmitBehavior(e, b).seq = b.ord
      /\ AdmitBehavior(e, b).seeded = e.seeded /\ AdmitBehavior(e, b).cause = e.cause
  BY <1>1, AdmitEffect
<1> QED BY <1>1, <1>3 DEF Moved

\* What is built from a library entry is a behavior, no base layer, under the next id.
LEMMA BuildMakes ==
  ASSUME NEW e, EngInv(e), NEW n \in Names, NEW cls \in StopClasses, NEW ch, ch \subseteq Channels,
         NEW d \in Nat \cup {Forever}
  PROVE  /\ Build(e, n, cls, ch, d) \in Behaviors
         /\ Build(e, n, cls, ch, d).ord = e.seq + 1 /\ Build(e, n, cls, ch, d).name = n
         /\ Build(e, n, cls, ch, d).left = d /\ ~Build(e, n, cls, ch, d).base
<1>1. e.seq + 1 \in Nat \ {0}
  BY DEF EngInv, Engines
<1> QED BY <1>1 DEF Build, Behaviors

\* _add_base makes a base layer under a fresh id, or does nothing; the base layer is
\* then there.
LEMMA AddBaseMoves ==
  ASSUME NEW e, EngInv(e), e.seeded
  PROVE  LET f == AddBase(e) IN
         /\ Moved(e, f) /\ f.cause = "none"
         /\ \A b \in f.active \ e.active : b.base
<1>1. EngInv(AddBase(e)) /\ e \in Engines
  BY AddBaseInv DEF EngInv
<1>2. CASE BaseActive(e)
  BY <1>1, <1>2 DEF AddBase, Moved, EngInv
<1>3. CASE ~BaseActive(e)
  BY <1>1, <1>3 DEF AddBase, Moved, SeedBase, BaseBehavior, Engines
<1> QED BY <1>2, <1>3
--------------------------------------------------------------------------------
(* Operators and rules *)

\* Whoever acts outside the intents driver's turn, and un-stop within it: one engine
\* operation, after which an inhibition is blamed only if it was before or the
\* record says who did it.
LEMMA OutsideIntents ==
  ASSUME IntentsAssumption, IntentsInv, Moved(intentEng, intentEng'),
         intentPhase \in {"main", "rules", "intents"},
         dismissed' \in BOOLEAN,
         intentEng'.cause = "inhibition" =>
           dismissed' \/ (intentEng.cause = "inhibition" /\ ~dismissed),
         UNCHANGED <<claim, lockId, goal, prev, intentPhase, intentIds>>
  PROVE  IntentsInv'
<1> USE DEF IntentsInv
<1>1. intentEng.seq \in Nat /\ intentEng'.seq \in Nat
  BY DEF EngInv, Engines, Moved
<1>2. IntentTypeOK' /\ EngInv(intentEng)'
  BY DEF IntentTypeOK, Moved, EngInv
<1>3. Issued'
  <2>1. \A i \in intentIds' : i \in Nat /\ i <= intentEng'.seq
    BY FreshIds
  <2>2. lockId \in Nat /\ lockId <= intentEng'.seq
    BY FreshIds
  <2>3. \A b \in intentEng'.active : b.ord = lockId => ~b.base
    <3> SUFFICES ASSUME NEW b \in intentEng'.active, b.ord = lockId PROVE ~b.base
      OBVIOUS
    <3>1. CASE b \in intentEng.active
      BY <3>1 DEF Issued
    <3>2. CASE b \notin intentEng.active
      <4>1. lockId = intentEng.seq + 1
        BY <3>2 DEF Moved
      <4> QED BY <1>1, <4>1 DEF Issued, IntentTypeOK
    <3> QED BY <3>1, <3>2
  <2> QED BY <2>1, <2>2, <2>3 DEF Issued
<1>4. Rooted'
  BY DEF Rooted, Moved
<1>5. Healing'
  BY DEF Healing, TurnTaken
<1>6. NothingStranded'
  <2> SUFFICES ASSUME NEW b \in intentEng'.active, b.ord \in intentIds, b.left = Forever
               PROVE  b.name = goal \/ (claim.held /\ b.ord = lockId)
    BY DEF NothingStranded
  <2>1. CASE b \in intentEng.active
    BY <2>1 DEF NothingStranded
  <2>2. CASE b \notin intentEng.active
    <3>1. intentEng.seq + 1 \in intentIds
      BY <2>2 DEF Moved
    <3> QED BY <1>1, <3>1 DEF Issued
  <2> QED BY <2>1, <2>2
<1>7. Withheld' /\ GoalStands' /\ HeldMeansGaze'
  BY DEF Withheld, TurnTaken, GoalStands, HeldMeansGaze
<1> QED BY <1>2, <1>3, <1>4, <1>5, <1>6, <1>7

\* Operators: an inhibition is never their doing.
LEMMA OperateIntents ==
  ASSUME IntentsAssumption, IntentsInv, NEW e2, Operate(e2), Moved(intentEng, e2),
         e2.cause = "inhibition" => intentEng.cause = "inhibition"
  PROVE  IntentsInv'
<1>1. dismissed \in BOOLEAN
  BY DEF IntentsInv, IntentTypeOK
<1>2. intentEng'.cause = "inhibition" => ~BaseActive(e2)
  BY DEF Operate, Moved, EngInv
<1>3. intentEng'.cause = "inhibition" => (dismissed' <=> dismissed)
  BY <1>2 DEF Operate, StillGone
<1>4. dismissed' \in BOOLEAN
  BY DEF Operate, StillGone
<1> QED BY <1>1, <1>3, <1>4, OutsideIntents DEF Operate

\* Rules: when they take the base layer, it is on record that they did.
LEMMA RuleIntents ==
  ASSUME IntentsAssumption, IntentsInv, NEW e2, Rule(e2), Moved(intentEng, e2),
         e2.cause = "inhibition" => intentEng.cause = "inhibition" \/ BaseActive(intentEng)
  PROVE  IntentsInv'
<1>1. dismissed \in BOOLEAN
  BY DEF IntentsInv, IntentTypeOK
<1>2. intentEng'.cause = "inhibition" => ~BaseActive(e2)
  BY DEF Rule, Moved, EngInv
<1>3. intentEng'.cause = "inhibition" =>
        dismissed' \/ (intentEng.cause = "inhibition" /\ ~dismissed)
  BY <1>2 DEF Rule, Dismissing
<1>4. dismissed' \in BOOLEAN
  BY DEF Rule, Dismissing
<1> QED BY <1>3, <1>4, OutsideIntents DEF Rule

\* One operation of an operator.
LEMMA OperatorsIntents ==
  ASSUME IntentsAssumption, IntentsInv, OperatorActs
  PROVE  IntentsInv'
<1> EngInv(intentEng) /\ intentEng.seeded
  BY DEF IntentsInv, Rooted
<1>1. ASSUME NEW n \in Runnable, NEW d \in IntentDurations \cup {Forever},
             NEW cls \in {Library[n].cls, "stopping"}, OperatorAdds(n, cls, d)
      PROVE  IntentsInv'
  <2>1. n \in Names /\ cls \in StopClasses /\ Library[n].ch \in SUBSET Channels
        /\ d \in Nat \cup {Forever}
    BY DEF IntentsAssumption, StopClasses
  <2>2. Operate(EngineAdd(intentEng, n, cls, Library[n].ch, d))
    BY <1>1 DEF OperatorAdds
  <2>3. CASE n = BaseName /\ d = Forever
    <3>1. EngineAdd(intentEng, n, cls, Library[n].ch, d) = AddBase(intentEng)
      BY <2>3 DEF EngineAdd
    <3> QED BY <2>2, <3>1, AddBaseMoves, OperateIntents
  <2>4. CASE ~(n = BaseName /\ d = Forever)
    <3>0. PICK b : b = Build(intentEng, n, cls, Library[n].ch, d)
      OBVIOUS
    <3>1. EngineAdd(intentEng, n, cls, Library[n].ch, d) = AdmitBehavior(intentEng, b)
      BY <2>4, <3>0 DEF EngineAdd
    <3>2. b \in Behaviors /\ b.ord = intentEng.seq + 1 /\ ~b.base
      BY <2>1, <3>0, BuildMakes
    <3>3. Moved(intentEng, AdmitBehavior(intentEng, b))
          /\ AdmitBehavior(intentEng, b).cause = intentEng.cause
      BY <3>2, AdmitMoves
    <3> QED BY <2>2, <3>1, <3>3, OperateIntents
  <2> QED BY <2>3, <2>4
<1>2. ASSUME NEW hits, hits \subseteq intentEng.active, Operate(Remove(intentEng, hits, "stop"))
      PROVE  IntentsInv'
  BY <1>2, RemoveMoves, OperateIntents
<1>3. ASSUME NEW n \in Names, OperatorStopsNamed(n) PROVE IntentsInv'
  BY <1>2, <1>3 DEF OperatorStopsNamed, StopNamed, ByName
<1>4. ASSUME NEW b \in intentEng.active, OperatorStopsId(b.ord) PROVE IntentsInv'
  BY <1>2, <1>4 DEF OperatorStopsId, StopId, ById
<1>5. ASSUME OperatorStopsAll PROVE IntentsInv'
  BY <1>2, <1>5 DEF OperatorStopsAll, StopAll, Removable
<1> QED BY <1>1, <1>3, <1>4, <1>5 DEF OperatorActs, IntentsAssumption

\* One operation of a rule.
LEMMA RulesIntents ==
  ASSUME IntentsAssumption, IntentsInv, Rules
  PROVE  IntentsInv'
<1> EngInv(intentEng) /\ intentEng.seeded
  BY DEF IntentsInv, Rooted
<1>1. ASSUME NEW n \in RuleNames, NEW d \in IntentDurations, RuleRuns(n, d) PROVE IntentsInv'
  <2> DEFINE cls == Library[n].cls
             ch  == Library[n].ch
  <2>1. n \in Names /\ cls \in StopClasses /\ ch \in SUBSET Channels /\ d \in Nat \cup {Forever}
    BY DEF IntentsAssumption
  <2>0. PICK b : b = Build(intentEng, n, cls, ch, d)
    OBVIOUS
  <2> HIDE DEF cls, ch
  <2>4. b \in Behaviors /\ b.ord = intentEng.seq + 1 /\ ~b.base
    BY <2>0, <2>1, BuildMakes
  <2>2. Moved(intentEng, AdmitBehavior(intentEng, b))
        /\ AdmitBehavior(intentEng, b).cause = intentEng.cause
    BY <2>4, AdmitMoves
  <2>3. Rule(AdmitBehavior(intentEng, b))
    BY <1>1, <2>0 DEF RuleRuns, New, cls, ch
  <2> QED BY <2>2, <2>3, RuleIntents
<1>2. ASSUME NEW n \in Names, RuleDisables(n) PROVE IntentsInv'
  <2> DEFINE hits == ByName(intentEng, n)
  <2>1. Rule(Remove(intentEng, hits, "inhibition")) /\ hits \subseteq intentEng.active
    BY <1>2 DEF RuleDisables, Evict, ByName
  <2>2. (\E b \in hits : b.base) => BaseActive(intentEng)
    BY DEF BaseActive, ByName
  <2> HIDE DEF hits
  <2> QED BY <2>1, <2>2, RemoveMoves, RuleIntents
<1> QED BY <1>1, <1>2 DEF Rules, IntentsAssumption

--------------------------------------------------------------------------------
(* Commands on the intents spool *)

\* run_behavior: what it makes ends by itself.
LEMMA RunIntents ==
  ASSUME IntentsAssumption, IntentsInv, NEW n \in Names, NEW d \in IntentDurations,
         RunBehavior(n, d)
  PROVE  IntentsInv'
<1> USE DEF IntentsInv
<1>1. PICK b : b = New(n, d)
  OBVIOUS
<1>2. b \in Behaviors /\ b.ord = intentEng.seq + 1 /\ ~b.base /\ b.left # Forever
  <2>1. /\ Library[n].cls \in StopClasses /\ Library[n].ch \subseteq Channels
        /\ d \in Nat \cup {Forever} /\ d # Forever
    BY DEF IntentsAssumption, Forever
  <2> QED BY <1>1, <2>1, BuildMakes DEF New
<1>3. /\ Moved(intentEng, intentEng') /\ intentEng'.cause = intentEng.cause
      /\ intentEng'.seq = intentEng.seq + 1
      /\ intentEng'.active \subseteq intentEng.active \cup {b}
  BY <1>1, <1>2, AdmitMoves DEF RunBehavior, Rooted
<1>4. /\ intentPhase = "intents" /\ intentIds' = intentIds \cup {intentEng.seq + 1}
      /\ UNCHANGED <<claim, lockId, goal, prev, intentPhase, dismissed>>
  BY DEF RunBehavior
<1>5. IntentTypeOK' /\ EngInv(intentEng)'
  <2>1. intentEng.seq + 1 \in Nat \ {0}
    BY <1>3, FreshIds
  <2>2. EngInv(intentEng') /\ intentEng' \in Engines
    BY <1>3 DEF Moved, EngInv
  <2> QED BY <1>4, <2>1, <2>2 DEF IntentTypeOK
<1>6. Issued'
  <2>1. \A i \in intentIds' : i <= intentEng'.seq
    BY <1>3, <1>4, FreshIds
  <2>2. lockId' <= intentEng'.seq
    BY <1>3, <1>4, FreshIds
  <2>3. \A x \in intentEng'.active : x.ord = lockId' => ~x.base
    BY <1>2, <1>3, <1>4 DEF Issued
  <2> QED BY <2>1, <2>2, <2>3 DEF Issued
<1>7. Rooted' /\ Healing'
  BY <1>3, <1>4 DEF Rooted, Healing, Moved, TurnTaken
<1>8. NothingStranded'
  <2> SUFFICES ASSUME NEW x \in intentEng'.active, x.ord \in intentIds', x.left = Forever
               PROVE  x.name = goal' \/ (claim'.held /\ x.ord = lockId')
    BY DEF NothingStranded
  <2>1. x \in intentEng.active /\ x.ord \in Nat /\ x.ord <= intentEng.seq
    BY <1>2, <1>3, FreshIds
  <2>2. x.ord \in intentIds
    BY <1>3, <1>4, <2>1, FreshIds
  <2> QED BY <1>4, <2>1, <2>2 DEF NothingStranded
<1>9. Withheld' /\ GoalStands' /\ HeldMeansGaze'
  BY <1>4 DEF Withheld, TurnTaken, GoalStands, HeldMeansGaze
<1> QED BY <1>5, <1>6, <1>7, <1>8, <1>9

\* _un_stop_base.
LEMMA UnStopIntents ==
  ASSUME IntentsAssumption, IntentsInv, UnStopBase
  PROVE  IntentsInv'
<1>1. EngInv(intentEng) /\ intentEng.seeded
  BY DEF IntentsInv, Rooted
<1>2. Moved(intentEng, intentEng') /\ intentEng'.cause = "none"
  BY <1>1, AddBaseMoves DEF UnStopBase
<1> QED BY <1>2, OutsideIntents DEF UnStopBase

\* declare_goal: the goal it replaces leaves nothing behind.
LEMMA DeclareIntents ==
  ASSUME IntentsAssumption, IntentsInv, NEW n \in GoalNames \cup {NoGoal}, NEW same \in BOOLEAN,
         DeclareGoal(n, same)
  PROVE  IntentsInv'
<1> USE DEF IntentsInv
<1> DEFINE hits == IF goal = NoGoal \/ (goal = n /\ same) THEN {} ELSE ByName(intentEng, goal)
<1>1. /\ intentPhase = "intents" /\ goal' = n /\ Dismissing(intentEng')
      /\ UNCHANGED <<claim, lockId, prev, intentPhase, intentIds>>
  BY DEF DeclareGoal
<1>2. hits \subseteq intentEng.active
  BY DEF ByName
<1>3. \/ intentEng' = intentEng /\ hits = {}
      \/ intentEng' = Remove(intentEng, hits, "inhibition")
  BY DEF DeclareGoal, GoalLeft, Evict
<1>4. /\ intentEng'.active = intentEng.active \ hits /\ intentEng'.seq = intentEng.seq
      /\ EngInv(intentEng') /\ intentEng'.seeded
      /\ intentEng'.cause = "inhibition" => intentEng.cause = "inhibition" \/ BaseActive(intentEng)
  <2>1. CASE intentEng' = intentEng /\ hits = {}
    BY <2>1 DEF Rooted
  <2>2. CASE intentEng' = Remove(intentEng, hits, "inhibition")
    <3>1. (\E b \in hits : b.base) => BaseActive(intentEng)
      BY <1>2 DEF BaseActive
    <3> HIDE DEF hits
    <3> QED BY <1>2, <2>2, <3>1, RemoveMoves DEF Rooted, Moved
  <2> QED BY <1>3, <2>1, <2>2
<1>5. dismissed' \in BOOLEAN /\ (intentEng'.cause = "inhibition" =>
                                   dismissed' \/ (intentEng.cause = "inhibition" /\ ~dismissed))
  <2>1. intentEng'.cause = "inhibition" => ~BaseActive(intentEng')
    BY <1>4 DEF EngInv
  <2> QED BY <1>1, <1>4, <2>1 DEF Dismissing
<1>6. IntentTypeOK' /\ EngInv(intentEng)'
  BY <1>1, <1>4, <1>5 DEF IntentTypeOK, EngInv
<1>7. Issued' /\ Rooted'
  BY <1>1, <1>4 DEF Issued, Rooted
<1>8. Healing' /\ Withheld' /\ GoalStands' /\ HeldMeansGaze'
  BY <1>1, <1>4, <1>5 DEF Healing, TurnTaken, Withheld, GoalStands, HeldMeansGaze
<1>9. NothingStranded'
  <2> SUFFICES ASSUME NEW x \in intentEng'.active, x.ord \in intentIds, x.left = Forever
               PROVE  x.name = n \/ (claim.held /\ x.ord = lockId)
    BY <1>1 DEF NothingStranded
  <2>1. x \in intentEng.active /\ x \notin hits
    BY <1>4
  <2>2. x.name = goal \/ (claim.held /\ x.ord = lockId)
    BY <2>1 DEF NothingStranded
  <2>3. CASE goal = n
    BY <2>2, <2>3
  <2>4. CASE goal # n
    <3>1. goal = NoGoal \/ x.name # goal
      BY <2>1, <2>4 DEF ByName
    <3>2. goal = NoGoal => x.name # goal
      <4>1. x.name \in Names
        BY <2>1 DEF EngInv, Engines, Behaviors
      <4> QED BY <4>1 DEF IntentsAssumption
    <3> QED BY <2>2, <3>1, <3>2
  <2> QED BY <2>3, <2>4
<1> QED BY <1>6, <1>7, <1>8, <1>9
\* set_inhibition: what a lock adds is of its own names.
LEMMA InhibitIntents ==
  ASSUME IntentsAssumption, IntentsInv, NEW new \in SUBSET Names, SetInhibition(new)
  PROVE  IntentsInv'
<1> USE DEF IntentsInv
<1>1. /\ claim'.held = claim.held /\ claim' \in Lock!Claims /\ claim'.added \subseteq LockInhibits
      /\ claim'.added # {} => claim'.held
  <2>1. claim \in Lock!Claims /\ claim.added \subseteq LockInhibits /\ LockInhibits \subseteq Names
    BY DEF IntentTypeOK, Rooted, IntentsAssumption
  <2> QED BY <2>1 DEF SetInhibition, Lock!Replaced, Lock!Claims
<1>2. intentPhase = "intents"
      /\ UNCHANGED <<intentEng, lockId, goal, prev, intentPhase, intentIds, dismissed>>
  BY DEF SetInhibition
<1>3. IntentTypeOK' /\ EngInv(intentEng)' /\ Issued' /\ Rooted'
  BY <1>1, <1>2 DEF IntentTypeOK, Issued, Rooted
<1>4. Healing' /\ NothingStranded' /\ Withheld' /\ GoalStands' /\ HeldMeansGaze'
  BY <1>1, <1>2 DEF Healing, TurnTaken, NothingStranded, Withheld, GoalStands, HeldMeansGaze
<1> QED BY <1>3, <1>4

\* lock_face: the gaze has no end, and the claim is on it.
LEMMA LockIntents ==
  ASSUME IntentsAssumption, IntentsInv, LockFace
  PROVE  IntentsInv'
<1> USE DEF IntentsInv
<1>1. PICK b : b = New(LockName, Forever)
  OBVIOUS
<1>2. b \in Behaviors /\ b.ord = intentEng.seq + 1 /\ ~b.base
  <2>1. /\ LockName \in Names /\ Library[LockName].cls \in StopClasses
        /\ Library[LockName].ch \subseteq Channels /\ Forever \in Nat \cup {Forever}
    BY DEF IntentsAssumption
  <2> DEFINE cls == Library[LockName].cls
             ch == Library[LockName].ch
  <2>2. b = Build(intentEng, LockName, cls, ch, Forever)
    BY <1>1, Zenon DEF New
  <2>3. cls \in StopClasses /\ ch \subseteq Channels
    BY <2>1
  <2> HIDE DEF cls, ch
  <2>4. EngInv(intentEng)
    OBVIOUS
  <2>5. /\ Build(intentEng, LockName, cls, ch, Forever) \in Behaviors
        /\ Build(intentEng, LockName, cls, ch, Forever).ord = intentEng.seq + 1
        /\ ~Build(intentEng, LockName, cls, ch, Forever).base
    <3> HIDE DEF IntentsInv
    <3>1. \A e, k, c, d : EngInv(e) /\ k \in StopClasses /\ c \subseteq Channels
                          /\ d \in Nat \cup {Forever} =>
            /\ Build(e, LockName, k, c, d) \in Behaviors
            /\ Build(e, LockName, k, c, d).ord = e.seq + 1
            /\ ~Build(e, LockName, k, c, d).base
      BY <2>1, BuildMakes
    <3> QED BY <2>1, <2>3, <2>4, <3>1, Zenon
  <2> QED BY <2>2, <2>5, Zenon
<1>3. /\ Moved(intentEng, intentEng') /\ intentEng'.cause = intentEng.cause
      /\ intentEng'.seq = intentEng.seq + 1
      /\ intentEng'.active \subseteq intentEng.active \cup {b}
  BY <1>1, <1>2, AdmitMoves DEF LockFace, Rooted
<1>4. /\ intentPhase = "intents" /\ intentIds' = intentIds \cup {intentEng.seq + 1}
      /\ lockId' = intentEng.seq + 1
      /\ ~claim.held /\ UNCHANGED <<goal, prev, intentPhase, dismissed>>
  BY DEF LockFace
<1>5. claim' \in Lock!Claims /\ claim'.held /\ claim'.added \subseteq LockInhibits
  <2>1. claim \in Lock!Claims /\ LockInhibits \subseteq Names
    BY DEF IntentTypeOK, IntentsAssumption
  <2> QED BY <2>1 DEF LockFace, Lock!Take, Lock!Claims
<1>6. IntentTypeOK' /\ EngInv(intentEng)'
  <2>1. intentEng.seq + 1 \in Nat \ {0}
    BY <1>3, FreshIds
  <2>2. EngInv(intentEng') /\ intentEng' \in Engines
    BY <1>3 DEF Moved, EngInv
  <2> QED BY <1>4, <1>5, <2>1, <2>2 DEF IntentTypeOK
<1>7. Issued'
  <2>1. \A i \in intentIds' : i <= intentEng'.seq
    BY <1>3, <1>4, FreshIds
  <2>2. lockId' <= intentEng'.seq
    BY <1>3, <1>4, FreshIds
  <2>3. \A x \in intentEng'.active : x.ord = lockId' => ~x.base
    <3> SUFFICES ASSUME NEW x \in intentEng'.active, x.ord = intentEng.seq + 1 PROVE ~x.base
      BY <1>4
    <3>1. x \notin intentEng.active
      BY <1>3, FreshIds
    <3> QED BY <1>2, <1>3, <3>1
  <2> QED BY <2>1, <2>2, <2>3 DEF Issued
<1>8. Rooted' /\ Healing'
  BY <1>3, <1>4, <1>5 DEF Rooted, Healing, Moved, TurnTaken
<1>9. NothingStranded'
  <2> SUFFICES ASSUME NEW x \in intentEng'.active, x.ord \in intentIds', x.left = Forever,
               x.ord # lockId'
               PROVE  x.name = goal'
    BY <1>5 DEF NothingStranded
  <2>1. x \in intentEng.active /\ x.ord \in intentIds
    BY <1>2, <1>3, <1>4
  <2> QED BY <1>4, <2>1 DEF NothingStranded
<1>10. Withheld' /\ GoalStands' /\ HeldMeansGaze'
  BY <1>4 DEF Withheld, TurnTaken, GoalStands, HeldMeansGaze
<1> QED BY <1>6, <1>7, <1>8, <1>9, <1>10

\* _release: it takes the gaze by its id, which is no base layer's, and gives back
\* only names of the lock's.
LEMMA ReleaseKeeps ==
  ASSUME IntentsAssumption, IntentsInv, Release, intentPhase \in {"intents", "lock"}
  PROVE  /\ EngInv(intentEng') /\ intentEng'.seq = intentEng.seq /\ intentEng'.seeded /\ intentEng'.cause = intentEng.cause
         /\ intentEng'.active = {b \in intentEng.active : b.ord # lockId}
         /\ lockId' = NoOwner /\ UNCHANGED <<goal, prev, intentIds, dismissed>>
         /\ claim' \in Lock!Claims /\ ~claim'.held /\ claim'.added = {}
         /\ claim'.inh \subseteq claim.inh /\ (BaseName \in claim'.inh <=> BaseName \in claim.inh)
<1> USE DEF IntentsInv
<1> DEFINE hits == ById(intentEng, lockId)
<1>1. hits \subseteq intentEng.active /\ ~\E b \in hits : b.base
  BY DEF ById, Issued
<1>2. intentEng' = Remove(intentEng, hits, "inhibition")
  BY DEF Release, Released, EvictId
<1>3. EngInv(intentEng') /\ intentEng'.seq = intentEng.seq /\ intentEng'.seeded
      /\ intentEng'.cause = intentEng.cause
      /\ intentEng'.active = intentEng.active \ hits
  <2> HIDE DEF hits
  <2> QED BY <1>1, <1>2, RemoveMoves DEF Rooted, Moved
<1>4. /\ claim' \in Lock!Claims /\ ~claim'.held /\ claim'.added = {}
      /\ claim'.inh \subseteq claim.inh /\ (BaseName \in claim'.inh <=> BaseName \in claim.inh)
  <2>1. claim \in Lock!Claims /\ BaseName \notin claim.added
    BY DEF IntentTypeOK, Rooted, IntentsAssumption
  <2> QED BY <2>1 DEF Release, Lock!GivenBack, Lock!Claims
<1> QED BY <1>3, <1>4 DEF Release, ById

\* A release in the intents' turn, or the lock's own: nothing of it is left.
LEMMA ReleaseIntents ==
  ASSUME IntentsAssumption, IntentsInv, Release,
         \/ intentPhase = "intents" /\ intentPhase' = "intents"
         \/ intentPhase = "lock" /\ intentPhase' = "end"
  PROVE  IntentsInv'
<1> USE DEF IntentsInv
<1>1. /\ EngInv(intentEng') /\ intentEng'.seq = intentEng.seq /\ intentEng'.seeded
      /\ intentEng'.cause = intentEng.cause
      /\ intentEng'.active = {b \in intentEng.active : b.ord # lockId}
      /\ lockId' = NoOwner /\ UNCHANGED <<goal, prev, intentIds, dismissed>>
      /\ claim' \in Lock!Claims /\ ~claim'.held /\ claim'.added = {}
      /\ claim'.inh \subseteq claim.inh /\ (BaseName \in claim'.inh <=> BaseName \in claim.inh)
  BY ReleaseKeeps
<1>2. IntentTypeOK' /\ EngInv(intentEng)'
  BY <1>1 DEF IntentTypeOK, EngInv, NoOwner
<1>3. Issued' /\ Rooted'
  <2>1. \A b \in intentEng'.active : b.ord # NoOwner
    BY <1>1 DEF EngInv, Engines, Behaviors, NoOwner
  <2>2. intentEng'.seq \in Nat
    BY <1>1 DEF EngInv, Engines
  <2> QED BY <1>1, <2>1, <2>2 DEF Issued, Rooted, NoOwner
<1>4. Healing'
  BY <1>1 DEF Healing, TurnTaken
<1>5. NothingStranded'
  BY <1>1 DEF NothingStranded
<1>6. Withheld' /\ GoalStands' /\ HeldMeansGaze'
  BY <1>1 DEF Withheld, TurnTaken, ActiveNames, GoalStands, HeldMeansGaze
<1> QED BY <1>2, <1>3, <1>4, <1>5, <1>6
--------------------------------------------------------------------------------
(* The driver's own work *)

\* _check_base_layer_edge: on the edge the base layer is put back, unless an operator
\* stopped it; off the edge nothing happens.
LEMMA EdgeMoves ==
  ASSUME IntentsInv
  PROVE  /\ Moved(intentEng, Edge(intentEng))
         /\ \A b \in Edge(intentEng).active \ intentEng.active : b.base
         /\ Edge(intentEng).cause = "inhibition" =>
              intentEng.cause = "inhibition" /\ (BaseName \in prev => BaseName \in claim.inh)
<1> USE DEF IntentsInv, Rooted
<1>1. intentEng.seeded /\ intentEng \in Engines
  BY DEF EngInv
<1>2. CASE ~(BaseName \in prev /\ BaseName \notin claim.inh)
  BY <1>1, <1>2 DEF Edge, Moved
<1>3. CASE BaseName \in prev /\ BaseName \notin claim.inh
  <2>1. Edge(intentEng) = EnsureBase(intentEng) /\ EngInv(EnsureBase(intentEng))
    BY <1>3, EnsureBaseInv DEF Edge
  <2>2. CASE intentEng.cause = "stop"
    <3>1. EnsureBase(intentEng) = [intentEng EXCEPT !.reported = TRUE]
      BY <1>1, <2>2 DEF EnsureBase
    <3> QED BY <1>1, <2>1, <2>2, <3>1 DEF Moved, Engines
  <2>3. CASE intentEng.cause # "stop"
    <3>1. EnsureBase(intentEng) = AddBase(intentEng)
      BY <1>1, <2>3 DEF EnsureBase
    <3> QED BY <1>1, <2>1, <3>1, AddBaseMoves
  <2> QED BY <2>2, <2>3
<1> QED BY <1>2, <1>3

\* What the enforcement leaves has none of the inhibited names, and lost the base
\* layer only to its own.
LEMMA EnforceMoves ==
  ASSUME IntentsInv, NEW e, e = Enforced(Edge(intentEng))
  PROVE  /\ EngInv(e) /\ e.seeded /\ e.seq \in Nat /\ intentEng.seq <= e.seq /\ intentEng.seq \in Nat
         /\ \A b \in e.active : b.base => b.name = BaseName
         /\ \A b \in e.active \ intentEng.active : b.base /\ b.ord = intentEng.seq + 1
         /\ \A b \in e.active : b.name \notin claim.inh
         /\ e.cause = "inhibition" =>
              \/ BaseName \in claim.inh
              \/ intentEng.cause = "inhibition" /\ BaseName \notin prev
<1> DEFINE f == Edge(intentEng)
           hits == {b \in f.active : b.name \in claim.inh}
<1>1. /\ EngInv(f) /\ f.seeded /\ f.seq \in {intentEng.seq, intentEng.seq + 1}
      /\ \A b \in f.active \ intentEng.active : b.base /\ b.ord = intentEng.seq + 1
           /\ b.name = BaseName
      /\ f.cause = "inhibition" =>
           intentEng.cause = "inhibition" /\ (BaseName \in prev => BaseName \in claim.inh)
  BY EdgeMoves DEF Moved
<1>2. e = Remove(f, hits, "inhibition") /\ hits \subseteq f.active
  BY DEF Enforced, EvictNames
<1>3. \A b \in f.active : b.base => b.name = BaseName
  BY <1>1 DEF IntentsInv, Rooted
<1>4. intentEng.seq \in Nat
  BY DEF IntentsInv, EngInv, Engines
<1>5. (\E b \in hits : b.base) => BaseName \in claim.inh
  BY <1>3
<1>6. \A b \in f.active \ hits : b.name \notin claim.inh
  OBVIOUS
<1> HIDE DEF f, hits
<1>7. /\ EngInv(e) /\ e.seeded /\ e.active = f.active \ hits /\ e.seq = f.seq
      /\ e.cause = IF \E b \in hits : b.base THEN "inhibition" ELSE f.cause
  BY <1>1, <1>2, RemoveMoves DEF Moved
<1> QED BY <1>1, <1>3, <1>4, <1>5, <1>6, <1>7

\* _sustain_goal: a goal that is due is admitted, and nothing else is made.
LEMMA SustainMoves ==
  ASSUME IntentsAssumption, IntentsInv, NEW e, EngInv(e), e.seeded
  PROVE  /\ EngInv(Sustained(e)) /\ Sustained(e).seeded /\ Sustained(e).cause = e.cause
         /\ Sustained(e).seq = IF GoalDue(e) THEN e.seq + 1 ELSE e.seq
         /\ \A b \in Sustained(e).active \ e.active :
              b.ord = e.seq + 1 /\ b.name = goal /\ ~b.base /\ GoalDue(e)
         /\ GoalDue(e) => goal \in ActiveNames(Sustained(e))
<1>1. CASE ~GoalDue(e)
  BY <1>1 DEF Sustained
<1>2. CASE GoalDue(e)
  <2>1. goal \in Names /\ Library[goal].cls \in StopClasses /\ Library[goal].ch \subseteq Channels
        /\ Forever \in Nat \cup {Forever}
    BY <1>2 DEF GoalDue, IntentsInv, IntentTypeOK, IntentsAssumption
  <2> DEFINE cls == Library[goal].cls
             ch  == Library[goal].ch
  <2>2. PICK b : b = Build(e, goal, cls, ch, Forever)
    OBVIOUS
  <2>3. b \in Behaviors /\ b.ord = e.seq + 1 /\ ~b.base /\ b.name = goal
    <3>0. PICK n, d : n = goal /\ d = Forever
      OBVIOUS
    <3>1. n \in Names /\ cls \in StopClasses /\ ch \subseteq Channels
          /\ d \in Nat \cup {Forever} /\ b = Build(e, n, cls, ch, d)
      BY <2>1, <2>2, <3>0
    <3> HIDE DEF cls, ch
    <3>2. b \in Behaviors /\ b.ord = e.seq + 1 /\ ~b.base /\ b.name = n
      BY <3>1, BuildMakes
    <3> QED BY <3>0, <3>2
  <2>4. /\ Moved(e, AdmitBehavior(e, b)) /\ AdmitBehavior(e, b).seq = e.seq + 1
        /\ AdmitBehavior(e, b).cause = e.cause /\ b \in AdmitBehavior(e, b).active
        /\ AdmitBehavior(e, b).active \subseteq e.active \cup {b}
    BY <2>3, AdmitMoves
  <2>5. Sustained(e) = AdmitBehavior(e, b)
    BY <1>2, <2>2 DEF Sustained
  <2> QED BY <1>2, <2>3, <2>4, <2>5 DEF Moved, ActiveNames
<1> QED BY <1>1, <1>2

\* The end of the intents' turn.
LEMMA EnforceIntents ==
  ASSUME IntentsAssumption, IntentsInv, EnforceAndSustain
  PROVE  IntentsInv'
<1> USE DEF IntentsInv
<1>1. PICK e : e = Enforced(Edge(intentEng))
  OBVIOUS
<1>2. /\ EngInv(e) /\ e.seeded /\ e.seq \in Nat /\ intentEng.seq <= e.seq /\ intentEng.seq \in Nat
      /\ \A b \in e.active : b.base => b.name = BaseName
      /\ \A b \in e.active \ intentEng.active : b.base /\ b.ord = intentEng.seq + 1
      /\ \A b \in e.active : b.name \notin claim.inh
      /\ e.cause = "inhibition" =>
           BaseName \in claim.inh \/ (intentEng.cause = "inhibition" /\ BaseName \notin prev)
  BY <1>1, EnforceMoves
<1>3. /\ intentEng' = Sustained(e) /\ intentPhase = "intents" /\ intentPhase' = "lock"
      /\ prev' = claim.inh
      /\ intentIds' = IF GoalDue(e) THEN intentIds \cup {e.seq + 1} ELSE intentIds
      /\ StillGone(intentEng') /\ UNCHANGED <<claim, lockId, goal>>
  BY <1>1 DEF EnforceAndSustain
<1>4. /\ EngInv(intentEng') /\ intentEng'.seeded /\ intentEng'.cause = e.cause
      /\ intentEng'.seq = IF GoalDue(e) THEN e.seq + 1 ELSE e.seq
      /\ \A b \in intentEng'.active \ e.active : b.ord = e.seq + 1 /\ b.name = goal /\ ~b.base
           /\ GoalDue(e)
      /\ GoalDue(e) => goal \in ActiveNames(intentEng')
  BY <1>2, <1>3, SustainMoves
<1>5. \A b \in intentEng.active : b.ord \in Nat /\ b.ord <= intentEng.seq
  BY DEF EngInv, Engines, Behaviors
<1>6. /\ \A b \in e.active : b.ord \in Nat /\ b.ord <= e.seq
      /\ \A b \in intentEng'.active : b.ord \in Nat
  BY <1>2, <1>4 DEF EngInv, Engines, Behaviors
<1>7. /\ lockId \in Nat /\ lockId <= intentEng.seq
      /\ \A i \in intentIds : i \in Nat /\ i <= intentEng.seq
  BY DEF IntentTypeOK, Issued
<1>8. IntentTypeOK' /\ EngInv(intentEng)'
  <2>1. dismissed' \in BOOLEAN /\ e.seq + 1 \in Nat \ {0} /\ claim.inh \in SUBSET Names
    BY <1>2, <1>3 DEF StillGone, IntentTypeOK, Lock!Claims
  <2>2. EngInv(intentEng') /\ intentEng' \in Engines
    BY <1>4 DEF EngInv
  <2> QED BY <1>3, <2>1, <2>2 DEF IntentTypeOK
<1>9. Issued'
  <2>1. \A i \in intentIds' : i <= intentEng'.seq
    BY <1>2, <1>3, <1>4, <1>7
  <2>2. lockId' <= intentEng'.seq
    BY <1>2, <1>3, <1>4, <1>7
  <2>3. \A b \in intentEng'.active : b.ord = lockId' => ~b.base
    <3> SUFFICES ASSUME NEW b \in intentEng'.active, b.ord = lockId, b.base PROVE FALSE
      BY <1>3
    <3>1. b \in e.active
      BY <1>4
    <3>2. b \in intentEng.active
      BY <1>2, <1>7, <3>1
    <3> QED BY <3>2 DEF Issued
  <2> QED BY <2>1, <2>2, <2>3 DEF Issued
<1>10. Rooted'
  <2>1. \A b \in intentEng'.active : b.base => b.name = BaseName
    BY <1>2, <1>4
  <2> QED BY <1>3, <1>4, <2>1 DEF Rooted
<1>11. Healing'
  <2>1. ASSUME intentEng'.cause = "inhibition", BaseName \notin claim.inh PROVE dismissed'
    <3>1. intentEng.cause = "inhibition" /\ BaseName \notin prev
      BY <1>2, <1>4, <2>1
    <3>2. dismissed
      BY <3>1 DEF Healing
    <3>3. ~BaseActive(intentEng')
      BY <1>4, <2>1 DEF EngInv
    <3> QED BY <1>3, <3>2, <3>3 DEF StillGone
  <2> QED BY <1>3, <2>1 DEF Healing
<1>12. NothingStranded'
  <2> SUFFICES ASSUME NEW b \in intentEng'.active, b.ord \in intentIds', b.left = Forever
               PROVE  b.name = goal \/ (claim.held /\ b.ord = lockId)
    BY <1>3 DEF NothingStranded
  <2>1. CASE b \notin e.active
    BY <1>4, <2>1
  <2>2. CASE b \in e.active
    <3>1. b.ord \in intentIds
      BY <1>3, <1>6, <2>2, <1>2
    <3>2. b \in intentEng.active
      BY <1>2, <1>7, <2>2, <3>1
    <3> QED BY <3>1, <3>2 DEF NothingStranded
  <2> QED BY <2>1, <2>2
<1>13. Withheld'
  <2>1. GoalDue(e) => goal \notin claim.inh
    BY DEF GoalDue
  <2>2. \A b \in intentEng'.active : b.name \notin claim.inh
    BY <1>2, <1>4, <2>1
  <2> QED BY <1>3, <2>2 DEF Withheld, ActiveNames
<1>14. GoalStands'
  <2>1. ASSUME goal # NoGoal, goal \notin claim.inh PROVE goal \in ActiveNames(intentEng')
    <3>1. CASE GoalDue(e)
      BY <1>4, <3>1
    <3>2. CASE ~GoalDue(e)
      BY <1>3, <2>1, <3>2 DEF GoalDue, Sustained
    <3> QED BY <3>1, <3>2
  <2> QED BY <1>3, <2>1 DEF GoalStands
<1>15. HeldMeansGaze'
  BY <1>3 DEF HeldMeansGaze
<1> QED BY <1>8, <1>9, <1>10, <1>11, <1>12, <1>13, <1>14, <1>15

--------------------------------------------------------------------------------
(* The rest of the tick *)

\* The lock's turn when there is nothing to end.
LEMMA QuietIntents ==
  ASSUME IntentsAssumption, IntentsInv, LockTurnQuiet
  PROVE  IntentsInv'
<1> USE DEF IntentsInv, LockTurnQuiet
<1>1. IntentTypeOK' /\ EngInv(intentEng)' /\ Issued' /\ Rooted'
  BY DEF IntentTypeOK, Issued, Rooted
<1>2. Healing' /\ NothingStranded' /\ Withheld' /\ GoalStands'
  BY DEF Healing, TurnTaken, NothingStranded, Withheld, GoalStands
<1>3. HeldMeansGaze'
  BY DEF WasEvicted, HeldMeansGaze
<1> QED BY <1>1, <1>2, <1>3

\* compose_tick: nobody's doing, and the base layer stays.
LEMMA ComposeIntents ==
  ASSUME IntentsAssumption, IntentsInv, NEW done, done \subseteq {b.ord : b \in Finite},
         IntentCompose(done)
  PROVE  IntentsInv'
<1> USE DEF IntentsInv
<1>1. PICK speaks : intentEng' = Compose(intentEng, done, speaks)
  BY DEF IntentCompose
<1>2. \A b \in intentEng.active : b.base => b.ord \notin done
  BY DEF Finite, EngInv
<1>3. EngInv(intentEng') /\ intentEng \in Engines
  <2>1. EngInv(intentEng')
    BY <1>1, <1>2, ComposeInv
  <2> QED BY <2>1 DEF EngInv
<1>4. intentEng'.active \subseteq intentEng.active /\ intentEng'.seq = intentEng.seq
      /\ intentEng'.seeded = intentEng.seeded
      /\ intentEng'.cause = intentEng.cause
  BY <1>1, <1>3 DEF Compose, Engines, Live
<1>5. intentPhase = "main" /\ intentPhase' = "rules"
      /\ UNCHANGED <<claim, lockId, goal, prev, intentIds, dismissed>>
  BY DEF IntentCompose
<1>6. IntentTypeOK' /\ EngInv(intentEng)'
  BY <1>3, <1>5 DEF IntentTypeOK, EngInv
<1>7. Issued' /\ Rooted' /\ Healing' /\ NothingStranded'
  BY <1>4, <1>5 DEF Issued, Rooted, Healing, TurnTaken, NothingStranded
<1>8. Withheld' /\ GoalStands' /\ HeldMeansGaze'
  BY <1>5 DEF Withheld, TurnTaken, GoalStands, HeldMeansGaze
<1> QED BY <1>6, <1>7, <1>8

\* The intents' turn begins.
LEMMA StartIntentsKeeps ==
  ASSUME IntentsInv, StartIntents
  PROVE  IntentsInv'
<1> USE DEF IntentsInv, StartIntents
<1>1. IntentTypeOK' /\ EngInv(intentEng)' /\ Issued' /\ Rooted'
  BY DEF IntentTypeOK, Issued, Rooted
<1>2. Healing' /\ NothingStranded' /\ Withheld' /\ GoalStands' /\ HeldMeansGaze'
  BY DEF Healing, TurnTaken, NothingStranded, Withheld, GoalStands, HeldMeansGaze
<1> QED BY <1>1, <1>2

\* Time passes: what had no end has none still.
LEMMA AgeIntents ==
  ASSUME IntentsAssumption, IntentsInv, IntentEndTick
  PROVE  IntentsInv'
<1> USE DEF IntentsInv
<1>1. /\ intentPhase = "end" /\ intentPhase' = "main" /\ intentEng' = Age(intentEng, 1)
      /\ UNCHANGED <<claim, lockId, goal, prev, intentIds, dismissed>>
  BY DEF IntentEndTick
<1>2. EngInv(intentEng') /\ intentEng \in Engines
  BY <1>1, AgeInv DEF EngInv
<1>3. /\ intentEng'.active = {Older(b, 1) : b \in intentEng.active}
      /\ intentEng'.seq = intentEng.seq /\ intentEng'.seeded = intentEng.seeded
      /\ intentEng'.cause = intentEng.cause
  BY <1>1, <1>2 DEF Age, Engines
<1>4. \A b \in intentEng.active :
        Older(b, 1).ord = b.ord /\ Older(b, 1).name = b.name /\ Older(b, 1).base = b.base
  BY DEF Older, EngInv, Engines, Behaviors
<1>5. \A b \in intentEng.active : Older(b, 1).left = Forever => b.left = Forever
  BY DEF Older, EngInv, Engines, Behaviors, Forever
<1>6. IntentTypeOK' /\ EngInv(intentEng)'
  BY <1>1, <1>2 DEF IntentTypeOK, EngInv
<1>7. Issued' /\ Rooted'
  <2>1. \A b \in intentEng'.active : b.ord = lockId => ~b.base
    BY <1>3, <1>4 DEF Issued
  <2>2. \A b \in intentEng'.active : b.base => b.name = BaseName
    BY <1>3, <1>4 DEF Rooted
  <2> QED BY <1>1, <1>3, <2>1, <2>2 DEF Issued, Rooted
<1>8. Healing' /\ Withheld' /\ GoalStands' /\ HeldMeansGaze'
  BY <1>1, <1>3 DEF Healing, TurnTaken, Withheld, GoalStands, HeldMeansGaze
<1>9. NothingStranded'
  BY <1>1, <1>3, <1>4, <1>5 DEF NothingStranded
<1> QED BY <1>6, <1>7, <1>8, <1>9

--------------------------------------------------------------------------------
(* The theorem *)

\* Every step keeps the invariant.
LEMMA NextIntents ==
  ASSUME IntentsAssumption, IntentsInv, [IntentNext]_intentVars
  PROVE  IntentsInv'
<1>1. CASE OperatorActs
  BY <1>1, OperatorsIntents
<1>2. CASE Rules
  BY <1>2, RulesIntents
<1>3. CASE Commands
  <2>1. ASSUME NEW n \in Commanded, NEW d \in IntentDurations, RunBehavior(n, d) PROVE IntentsInv'
    BY <2>1, RunIntents DEF IntentsAssumption
  <2>2. CASE UnStopBase
    BY <2>2, UnStopIntents
  <2>3. ASSUME NEW n \in GoalNames \cup {NoGoal}, NEW same \in BOOLEAN, DeclareGoal(n, same)
        PROVE  IntentsInv'
    BY <2>3, DeclareIntents
  <2>4. ASSUME NEW new \in SUBSET Commanded, SetInhibition(new) PROVE IntentsInv'
    BY <2>4, InhibitIntents DEF IntentsAssumption
  <2>5. CASE LockFace
    BY <2>5, LockIntents
  <2>6. CASE ReleaseFace
    BY <2>6, ReleaseIntents DEF ReleaseFace
  <2> QED BY <1>3, <2>1, <2>2, <2>3, <2>4, <2>5, <2>6 DEF Commands
<1>4. CASE IntentTick
  <2>1. ASSUME NEW done \in SUBSET {b.ord : b \in Finite}, IntentCompose(done) PROVE IntentsInv'
    BY <2>1, ComposeIntents
  <2>2. CASE StartIntents
    BY <2>2, StartIntentsKeeps
  <2>3. CASE EnforceAndSustain
    BY <2>3, EnforceIntents
  <2>4. CASE LockTurnQuiet
    BY <2>4, QuietIntents
  <2>5. CASE LockTurnReleases
    BY <2>5, ReleaseIntents DEF LockTurnReleases
  <2>6. CASE IntentEndTick
    BY <2>6, AgeIntents
  <2> QED BY <1>4, <2>1, <2>2, <2>3, <2>4, <2>5, <2>6 DEF IntentTick
<1>5. CASE UNCHANGED intentVars
  <2> USE <1>5 DEF intentVars, IntentsInv
  <2>1. IntentTypeOK' /\ EngInv(intentEng)' /\ Issued' /\ Rooted'
    BY DEF IntentTypeOK, Issued, Rooted
  <2>2. Healing' /\ NothingStranded' /\ Withheld' /\ GoalStands' /\ HeldMeansGaze'
    BY DEF Healing, TurnTaken, NothingStranded, Withheld, GoalStands, HeldMeansGaze
  <2> QED BY <2>1, <2>2
<1> QED BY <1>1, <1>2, <1>3, <1>4, <1>5 DEF IntentNext

\* What stands at the end of the intents' turn, whatever operators, rules, commands,
\* the lock, the clock and the sleep did before it and in whatever order: nothing
\* inhibited moves, the standing goal is there, nothing endless is left behind, a lock
\* that is held has a gaze, and a base layer lost to an inhibition comes back.
THEOREM IntentsHold == IntentsAssumption => (IntentSpec => []IntentsSound)
<1> SUFFICES ASSUME IntentsAssumption PROVE IntentSpec => []IntentsSound
  OBVIOUS
<1>1. IntentInit => IntentsInv
  BY InitIntents
<1>2. IntentsInv /\ [IntentNext]_intentVars => IntentsInv'
  BY NextIntents
<1>3. IntentsInv => IntentsSound
  BY DEF IntentsInv, IntentsSound, Healing, SelfHealing
<1> QED BY <1>1, <1>2, <1>3, PTL DEF IntentSpec

--------------------------------------------------------------------------------
(* The rules                                                                    *)

Ages == None .. AgeCap
Counts == 0 .. CountCap
Reasons == {"none", "inhibited", "rearming", "cooldown", "already-active"}
RuleStates == [last : Ages, false : Ages, armed : BOOLEAN, reason : Reasons, ticks : Counts]
Histories == [quiet : 0 .. AgeCap, rest : 0 .. AgeCap, still : Ages, held : Ages,
              owed : Counts, due : Counts]

\* What the engine keeps of a rule, k, against what has been seen of it, x.
Accounted(k, x, r) ==
  /\ k \in RuleStates /\ x \in Histories
  /\ k.false = x.still
  /\ k.armed => x.quiet >= r.hysteresis
  /\ r.hysteresis = 0 => k.armed
  /\ x.rest >= r.hysteresis
  /\ k.ticks = x.owed /\ (k.ticks = 0 <=> k.reason = "none")

\* What the last tick wrote of a rule, against what it owed.
ToldOf(lines, x) ==
  /\ {l \in lines : l.what = "summary"} = IF x.due = 0 THEN {} ELSE {Line("summary", x.due)}
  /\ x.owed = 1 => \E l \in lines : l.what \notin {"summary", "fired"}
LinesOf(s) == {s[n] : n \in DOMAIN s}

\* Since the condition of an inhibit rule began to hold it has fired once, and nothing
\* that it disables has been run by a rule since.
Evicts(i) ==
  LET r == config.rules[i]
      x == seen.rules[i] IN
  (r.hysteresis = 0 /\ x.held # None /\ rs[i].last # None /\ rs[i].last <= x.held
     /\ rs[i].last < AgeCap) =>
    \A b \in active : ~(b.ruled /\ b.name \in r.disable)

Clocks ==
  /\ absent \in [Fields -> 0 .. AgeCap] /\ started \in BOOLEAN
  /\ DOMAIN seen.gone = Fields /\ \A f \in Fields : seen.gone[f] \in 0 .. AgeCap
  /\ AbsenceSound

RulesInv ==
  /\ config \in Configs /\ activeMode \in config.modes \cup {NoMode}
  /\ active \subseteq [name : BehaviorNames, ruled : BOOLEAN]
  /\ sense \in Senses /\ parity \in 0 .. 1
  /\ DOMAIN rs = RuleIds /\ DOMAIN seen.rules = RuleIds
  /\ \A i \in RuleIds : Accounted(rs[i], seen.rules[i], config.rules[i])
  /\ \A i \in RuleIds : ToldOf(LinesOf(log[i]), seen.rules[i])
  /\ \A i \in InhibitsOf(config) : Evicts(i)
  /\ InhibitClears
  /\ Clocks

--------------------------------------------------------------------------------
\* A rule of a configuration.
RuleOf(r) ==
  /\ r.cooldown \in 0 .. AgeCap /\ r.hysteresis \in 0 .. AgeCap
  /\ r.run \in BehaviorNames \cup {NoName} /\ r.disable \subseteq BehaviorNames

LEMMA RulesAre ==
  ASSUME RulesAssumption, NEW cfg \in Configs, NEW i \in IdsOf(cfg)
  PROVE  RuleOf(cfg.rules[i])
BY DEF RulesAssumption, AgeAssumption, NameAssumption, RuleOf

LEMMA GrownIs ==
  ASSUME RulesAssumption, NEW a \in Ages, NEW d \in 1 .. MaxStep
  PROVE  /\ Grown(a, d) \in Ages /\ (Grown(a, d) = None <=> a = None)
         /\ a # None => Grown(a, d) \in 0 .. AgeCap
         /\ a # None /\ Grown(a, d) < AgeCap => Grown(a, d) = a + d
         /\ a # None => Grown(a, d) >= a
BY DEF RulesAssumption, AgeAssumption, Grown, Ages, None

LEMMA GrownMono ==
  ASSUME AgeCap \in Nat, NEW a \in 0 .. AgeCap, NEW b \in 0 .. AgeCap, a <= b, NEW d \in 1 .. MaxStep
  PROVE  Grown(a, d) <= Grown(b, d)
BY DEF Grown, None

\* A state whose ages have grown by the time of a tick.
AgedBy(k, d) == [k EXCEPT !.last = Grown(@, d), !.false = Grown(@, d)]

LEMMA AgedIs ==
  ASSUME NEW k \in RuleStates, NEW d
  PROVE  AgedBy(k, d) = [last |-> Grown(k.last, d), false |-> Grown(k.false, d), armed |-> k.armed,
                         reason |-> k.reason, ticks |-> k.ticks]
<1>1. k = [last |-> k.last, false |-> k.false, armed |-> k.armed, reason |-> k.reason, ticks |-> k.ticks]
  BY DEF RuleStates
<1> DEFINE l == Grown(k.last, d)
           f == Grown(k.false, d)
<1>2. AgedBy(k, d) = [k EXCEPT !.last = l, !.false = f]
  BY DEF AgedBy
<1> HIDE DEF l, f
<1>3. AgedBy(k, d) = [last |-> l, false |-> f, armed |-> k.armed, reason |-> k.reason, ticks |-> k.ticks]
  BY <1>1, <1>2
<1> QED BY <1>3 DEF l, f

\* What a tick makes of the state of one rule.
After(k, r, matched, fired, why) ==
  IF fired THEN Fired(EpisodeOver(k), r) ELSE IF matched THEN Suppressed(k, why) ELSE EpisodeOver(k)

LEMMA TickAccounts ==
  ASSUME RulesAssumption, NEW r, RuleOf(r), NEW d \in 1 .. MaxStep, NEW k, NEW x, Accounted(k, x, r),
         NEW m \in BOOLEAN, NEW f \in BOOLEAN, f => m,
         f => Stepped(AgedBy(k, d), r, m).armed,
         NEW why \in Reasons \ {"none"}
  PROVE  Accounted(After(Stepped(AgedBy(k, d), r, m), r, m, f, why), Seen(x, m, f, d), r)
<1> DEFINE a == AgedBy(k, d)
           s == Stepped(a, r, m)
           y == Seen(x, m, f, d)
           z == After(s, r, m, f, why)
<1>1. /\ AgeCap \in Nat /\ CountCap \in Nat \ {0, 1} /\ r.hysteresis \in 0 .. AgeCap
      /\ k \in RuleStates /\ x \in Histories
  BY DEF RulesAssumption, AgeAssumption, RuleOf, Accounted
<1>2. /\ a.last = Grown(k.last, d) /\ a.false = Grown(k.false, d) /\ a.armed = k.armed
      /\ a.reason = k.reason /\ a.ticks = k.ticks /\ a \in RuleStates
      /\ Grown(k.false, d) \in Ages /\ Grown(x.still, d) = Grown(k.false, d)
      /\ Grown(x.held, d) \in Ages
      /\ (Grown(k.false, d) = None <=> k.false = None)
  BY <1>1, GrownIs DEF AgedBy, RuleStates, Histories, Accounted
<1> HIDE DEF a
<1>3. /\ s \in RuleStates /\ s.last = a.last /\ s.reason = a.reason /\ s.ticks = a.ticks
      /\ m => s.false = None /\ s.armed = a.armed
      /\ ~m => s.false = (IF a.false = None THEN 0 ELSE a.false)
               /\ s.armed = (a.armed \/ s.false >= r.hysteresis)
  <2>1. /\ a.last \in Ages /\ a.false \in Ages /\ a.armed \in BOOLEAN /\ 0 \in Ages /\ None \in Ages
        /\ a = [last |-> a.last, false |-> a.false, armed |-> a.armed, reason |-> a.reason,
                ticks |-> a.ticks]
    BY <1>1, <1>2 DEF RuleStates, Ages, None
  <2>2. CASE m
    <3>1. s = [a EXCEPT !.false = None]
      BY <2>2 DEF Stepped
    <3> QED BY <1>2, <2>1, <2>2, <3>1 DEF RuleStates
  <2>3. CASE ~m
    <3> DEFINE g == IF a.false = None THEN 0 ELSE a.false
    <3>1. s = [a EXCEPT !.false = g, !.armed = @ \/ g >= r.hysteresis]
      BY <2>3 DEF Stepped
    <3>2. g \in Ages
      BY <2>1
    <3> HIDE DEF g
    <3>3. s = [last |-> a.last, false |-> g, armed |-> (a.armed \/ g >= r.hysteresis),
               reason |-> a.reason, ticks |-> a.ticks]
      BY <2>1, <3>1
    <3>4. (a.armed \/ g >= r.hysteresis) \in BOOLEAN
      OBVIOUS
    <3>5. /\ s.last = a.last /\ s.reason = a.reason /\ s.ticks = a.ticks /\ s.false = g
          /\ s.armed = (a.armed \/ g >= r.hysteresis)
      BY <3>3
    <3>6. s \in RuleStates
      BY <1>2, <2>1, <3>2, <3>3, <3>4 DEF RuleStates
    <3> QED BY <2>3, <3>5, <3>6 DEF g
  <2> QED BY <2>2, <2>3
<1> HIDE DEF s
<1>4. /\ y.still = (IF m THEN None ELSE IF x.still = None THEN 0 ELSE Grown(x.still, d))
      /\ y.quiet = (IF f THEN 0 ELSE IF y.still > x.quiet THEN y.still ELSE x.quiet)
      /\ y.rest = (IF f THEN x.quiet ELSE x.rest)
      /\ y.held = (IF ~m THEN None ELSE IF x.held = None THEN 0 ELSE Grown(x.held, d))
      /\ y.owed = (IF m /\ ~f THEN More(x.owed) ELSE 0)
      /\ y.due = (IF m /\ ~f THEN 0 ELSE x.owed)
      /\ y \in Histories
  <2>1. More(x.owed) \in Counts
    BY <1>1 DEF More, Histories, Counts
  <2> QED BY <1>1, <1>2, <2>1 DEF Seen, Histories, Ages, None, Counts
<1> HIDE DEF y
<1>5. s.false = y.still
  BY <1>2, <1>3, <1>4 DEF Accounted
<1>6. s.armed => y.quiet >= r.hysteresis \/ f
  <2>1. x.quiet \in 0 .. AgeCap /\ y.still \in Ages /\ (k.armed => x.quiet >= r.hysteresis)
    BY <1>1, <1>4 DEF Accounted, Histories
  <2>2. CASE m
    <3>1. y.still = None /\ (s.armed <=> k.armed)
      BY <1>2, <1>3, <1>4, <2>2
    <3>2. ~f => y.quiet = x.quiet
      BY <1>4, <2>1, <3>1 DEF None
    <3> QED BY <2>1, <3>1, <3>2
  <2>3. CASE ~m
    <3>1. ~f
      BY <2>3
    <3>2. y.quiet >= x.quiet /\ y.quiet >= y.still
      BY <1>1, <1>4, <2>1, <3>1 DEF Ages, None
    <3>3. y.quiet \in 0 .. AgeCap
      BY <1>4 DEF Histories
    <3>4. s.armed => k.armed \/ y.still >= r.hysteresis
      BY <1>2, <1>3, <1>5, <2>3
    <3> QED BY <1>1, <2>1, <3>2, <3>3, <3>4 DEF Ages, None
  <2> QED BY <2>2, <2>3
<1>7. /\ z \in RuleStates
      /\ z.false = (IF f /\ r.hysteresis > 0 THEN None ELSE s.false)
      /\ z.armed = (IF f THEN s.armed /\ r.hysteresis = 0 ELSE s.armed)
      /\ z.ticks = (IF m /\ ~f THEN More(s.ticks) ELSE 0)
      /\ z.reason = (IF m /\ ~f THEN why ELSE "none")
  <2>1. More(s.ticks) \in Counts
    BY <1>1, <1>3 DEF More, RuleStates, Counts
  <2>2. CASE f
    <3> DEFINE g == IF r.hysteresis > 0 THEN None ELSE s.false
               h == s.armed /\ r.hysteresis = 0
    <3>1. s.false \in Ages /\ 0 \in Ages /\ None \in Ages /\ "none" \in Reasons /\ 0 \in Counts
      BY <1>1, <1>3 DEF RuleStates, Ages, None, Counts, Reasons
    <3>2. g \in Ages
      BY <3>1
    <3>3. h \in BOOLEAN
      OBVIOUS
    <3>4. z = [last |-> 0, false |-> g, armed |-> h, reason |-> "none", ticks |-> 0]
      BY <1>3, <2>2 DEF After, Fired, EpisodeOver, RuleStates
    <3> HIDE DEF g, h
    <3>5. z.false = g /\ z.armed = h /\ z.ticks = 0 /\ z.reason = "none" /\ z \in RuleStates
      BY <3>1, <3>2, <3>3, <3>4 DEF RuleStates
    <3> QED BY <2>2, <3>5 DEF g, h
  <2>3. CASE ~f /\ m
    BY <1>1, <1>3, <2>1, <2>3 DEF After, Suppressed, RuleStates
  <2>4. CASE ~f /\ ~m
    <3>1. z = [s EXCEPT !.reason = "none", !.ticks = 0]
      BY <2>4 DEF After, EpisodeOver
    <3>2. "none" \in Reasons /\ 0 \in Counts
      BY <1>1 DEF Counts, Reasons
    <3> QED BY <1>3, <2>4, <3>1, <3>2 DEF RuleStates
  <2> QED BY <2>2, <2>3, <2>4
<1> HIDE DEF z
<1>8. z.false = y.still
  BY <1>3, <1>4, <1>5, <1>7
<1>9. z.armed => y.quiet >= r.hysteresis
  <2>1. CASE f
    <3>1. z.armed => r.hysteresis = 0
      BY <1>7, <2>1
    <3>2. y.quiet = 0
      BY <1>4, <2>1
    <3> QED BY <3>1, <3>2
  <2>2. CASE ~f
    BY <1>6, <1>7, <2>2
  <2> QED BY <2>1, <2>2
<1>10. r.hysteresis = 0 => z.armed
  BY <1>2, <1>3, <1>7 DEF Accounted, RuleStates
<1>11. y.rest >= r.hysteresis
  <2>1. f => s.armed /\ m
    BY DEF s, a
  <2>2. f => k.armed
    BY <1>2, <1>3, <2>1
  <2> QED BY <1>4, <2>2 DEF Accounted
<1>12. z.ticks = y.owed /\ (z.ticks = 0 <=> z.reason = "none")
  <2>1. z.ticks = y.owed
    BY <1>2, <1>3, <1>4, <1>7 DEF Accounted
  <2>2. More(s.ticks) # 0
    BY <1>1, <1>3 DEF More, RuleStates, Counts
  <2> QED BY <1>7, <2>1, <2>2
<1> QED BY <1>4, <1>7, <1>8, <1>9, <1>10, <1>11, <1>12 DEF Accounted, z, y, s, a

LEMMA LinesAre ==
  /\ LinesOf(<<>>) = {}
  /\ \A u : LinesOf(<<u>>) = {u} /\ LinesOf(<<>> \o <<u>>) = {u}
  /\ \A u, v : LinesOf(<<u>> \o <<v>>) = {u, v}
<1>1. LinesOf(<<>>) = {}
  BY DEF LinesOf
<1>2. ASSUME NEW u PROVE LinesOf(<<u>>) = {u} /\ LinesOf(<<>> \o <<u>>) = {u}
  <2>1. DOMAIN <<u>> = {1} /\ <<u>>[1] = u /\ <<>> \o <<u>> = <<u>>
    OBVIOUS
  <2> QED BY <2>1 DEF LinesOf
<1>3. ASSUME NEW u, NEW v PROVE LinesOf(<<u>> \o <<v>>) = {u, v}
  <2> DEFINE w == <<u>> \o <<v>>
  <2>1. <<u>> \in Seq({u, v}) /\ <<v>> \in Seq({u, v}) /\ Len(<<u>>) = 1 /\ Len(<<v>>) = 1
    OBVIOUS
  <2>2. w \in Seq({u, v}) /\ Len(w) = 2 /\ w[1] = <<u>>[1] /\ w[2] = <<v>>[1]
    BY <2>1
  <2> HIDE DEF w
  <2>3. DOMAIN w = {1, 2} /\ w[1] = u /\ w[2] = v
    BY <2>2
  <2>4. LinesOf(w) = {u, v}
    BY <2>3 DEF LinesOf
  <2> QED BY <2>4 DEF w
<1> QED BY <1>1, <1>2, <1>3

\* What a tick writes of one rule.
LinesAfter(k, matched, fired, why) ==
  IF fired THEN ReleaseLines(k) \o <<Line("fired", 0)>>
  ELSE IF matched THEN SuppressLines(k, why) ELSE ReleaseLines(k)

LEMMA TickTells ==
  ASSUME RulesAssumption, NEW k, NEW x, NEW m \in BOOLEAN, NEW f \in BOOLEAN, f => m, NEW d,
         NEW why \in Reasons \ {"none"},
         k.ticks = x.owed, x.owed \in Counts, k.ticks = 0 <=> k.reason = "none"
  PROVE  ToldOf(LinesOf(LinesAfter(k, m, f, why)), Seen(x, m, f, d))
<1> DEFINE y == Seen(x, m, f, d)
<1>1. /\ y.owed = (IF m /\ ~f THEN More(x.owed) ELSE 0)
      /\ y.due = (IF m /\ ~f THEN 0 ELSE x.owed)
  BY DEF Seen
<1> HIDE DEF y
<1>2. /\ Line("fired", 0).what = "fired" /\ Line("summary", k.ticks).what = "summary"
      /\ Line(why, 0).what = why /\ why \notin {"summary", "fired"}
  BY DEF Line, Reasons
<1>3. CASE f
  <2>1. y.owed = 0 /\ y.due = x.owed
    BY <1>1, <1>3
  <2>2. CASE k.reason = "none"
    <3>1. LinesOf(LinesAfter(k, m, f, why)) = {Line("fired", 0)}
      BY <1>3, <2>2, LinesAre DEF LinesAfter, ReleaseLines
    <3> QED BY <1>2, <2>1, <2>2, <3>1 DEF ToldOf, y
  <2>3. CASE k.reason # "none"
    <3>1. LinesOf(LinesAfter(k, m, f, why)) = {Line("summary", k.ticks), Line("fired", 0)}
      BY <1>3, <2>3, LinesAre DEF LinesAfter, ReleaseLines
    <3> QED BY <1>2, <2>1, <2>3, <3>1 DEF ToldOf, y
  <2> QED BY <2>2, <2>3
<1>4. CASE ~f /\ m
  <2>1. y.due = 0 /\ y.owed = More(x.owed)
    BY <1>1, <1>4
  <2>2. CASE k.reason = why
    <3>1. LinesOf(LinesAfter(k, m, f, why)) = {}
      BY <1>4, <2>2, LinesAre DEF LinesAfter, SuppressLines
    <3>2. y.owed # 1
      BY <2>1, <2>2 DEF More, RulesAssumption, AgeAssumption, Counts
    <3> QED BY <2>1, <3>1, <3>2 DEF ToldOf, y
  <2>3. CASE k.reason # why
    <3>1. LinesOf(LinesAfter(k, m, f, why)) = {Line(why, 0)}
      BY <1>4, <2>3, LinesAre DEF LinesAfter, SuppressLines
    <3> QED BY <1>2, <2>1, <3>1 DEF ToldOf, y
  <2> QED BY <2>2, <2>3
<1>5. CASE ~f /\ ~m
  <2>1. y.owed = 0 /\ y.due = x.owed
    BY <1>1, <1>5
  <2>2. CASE k.reason = "none"
    <3>1. LinesOf(LinesAfter(k, m, f, why)) = {}
      BY <1>5, <2>2, LinesAre DEF LinesAfter, ReleaseLines
    <3> QED BY <2>1, <2>2, <3>1 DEF ToldOf, y
  <2>3. CASE k.reason # "none"
    <3>1. LinesOf(LinesAfter(k, m, f, why)) = {Line("summary", k.ticks)}
      BY <1>5, <2>3, LinesAre DEF LinesAfter, ReleaseLines
    <3> QED BY <1>2, <2>1, <2>3, <3>1 DEF ToldOf, y
  <2> QED BY <2>2, <2>3
<1> QED BY <1>3, <1>4, <1>5


Verdicts == {"inhibited", "rearming", "cooldown", "already-active", "fired"}

LEMMA VerdictIs ==
  ASSUME NEW k, k.armed \in BOOLEAN, NEW r, NEW blocked, NEW running
  PROVE  LET v == Verdict(k, r, blocked, running) IN
         /\ v \in Verdicts
         /\ v = "fired" <=> r.run \notin blocked /\ k.armed /\ ~Cooling(k, r) /\ r.run \notin running
<1> DEFINE cool == Cooling(k, r)
<1>1. cool \in BOOLEAN
  BY DEF Cooling
<1> HIDE DEF cool
<1>2. CASE r.run \in blocked
  <2>1. Verdict(k, r, blocked, running) = "inhibited"
    BY <1>2 DEF Verdict
  <2> QED BY <1>2, <2>1 DEF Verdicts
<1>3. CASE r.run \notin blocked /\ ~k.armed
  <2>1. Verdict(k, r, blocked, running) = "rearming"
    BY <1>3 DEF Verdict
  <2> QED BY <1>3, <2>1 DEF Verdicts
<1>4. CASE r.run \notin blocked /\ k.armed /\ cool
  <2>1. Verdict(k, r, blocked, running) = "cooldown"
    BY <1>4 DEF Verdict, cool
  <2> QED BY <1>4, <2>1 DEF Verdicts, cool
<1>5. CASE r.run \notin blocked /\ k.armed /\ ~cool
  <2>1. Verdict(k, r, blocked, running) = IF r.run \in running THEN "already-active" ELSE "fired"
    BY <1>5 DEF Verdict, cool
  <2> QED BY <1>5, <2>1 DEF Verdicts, cool
<1> QED BY <1>1, <1>2, <1>3, <1>4, <1>5

\* What a tick does: which rules match and which of these fire, what becomes of each, and
\* what runs then: what ran and no inhibit rule evicted, and what a react rule ran.
Ticked(cfg, k, s, ab, matching, u) ==
  /\ u.match = matching /\ u.fires \subseteq matching
  /\ DOMAIN u.rs = IdsOf(cfg)
  /\ \A i \in IdsOf(cfg) : \E why \in Reasons \ {"none"} :
       /\ u.rs[i] = After(k[i], cfg.rules[i], i \in matching, i \in u.fires, why)
       /\ u.log[i] = LinesAfter(k[i], i \in matching, i \in u.fires, why)
  /\ \A i \in u.fires : /\ cfg.rules[i].run \notin Inhibited(cfg, s, ab)
                        /\ k[i].armed /\ ~Cooling(k[i], cfg.rules[i])
  /\ \A i \in matching \cap InhibitsOf(cfg) :
       k[i].armed /\ ~Cooling(k[i], cfg.rules[i]) => i \in u.fires
  /\ \A b \in u.active :
       \/ b \in active /\ \A i \in u.fires \cap InhibitsOf(cfg) : b.name \notin cfg.rules[i].disable
       \/ \E i \in u.fires \ InhibitsOf(cfg) : b = [name |-> cfg.rules[i].run, ruled |-> TRUE]

LEMMA OnTickIs ==
  ASSUME RulesAssumption, NEW cfg \in Configs, NEW k, NEW s, NEW ab,
         \A i \in IdsOf(cfg) : k[i].armed \in BOOLEAN,
         active \subseteq [name : BehaviorNames, ruled : BOOLEAN],
         NEW u, u = OnTick(cfg, k, s, ab),
         NEW matching, matching = {i \in IdsOf(cfg) : Holds(cfg.rules[i].when, s, ab)}
  PROVE  Ticked(cfg, k, s, ab, matching, u)
<1> DEFINE ids     == IdsOf(cfg)
           match   == {i \in ids : Holds(cfg.rules[i].when, s, ab)}
           blocked == Inhibited(cfg, s, ab)
           Why(i, running) == Verdict(k[i], cfg.rules[i], blocked, running)
           evicts  == {i \in match \cap InhibitsOf(cfg) : Why(i, {}) = "fired"}
           left    == {b \in active : \A i \in evicts : b.name \notin cfg.rules[i].disable}
           names   == {b.name : b \in left}
           Ran(i)  == {cfg.rules[j].run : j \in {n \in match \ InhibitsOf(cfg) :
                          cfg.rules[n].at < cfg.rules[i].at /\ Why(n, names) = "fired"}}
           why     == [i \in match |-> Why(i, names \cup Ran(i))]
           fires   == {i \in match : why[i] = "fired"}
           t       == OnTick(cfg, k, s, ab)
<1>1. /\ t.match = match /\ t.fires = fires
      /\ t.active = left \cup {[name |-> cfg.rules[i].run, ruled |-> TRUE] : i \in fires \ InhibitsOf(cfg)}
      /\ t.rs = [i \in ids |-> IF i \in fires THEN Fired(EpisodeOver(k[i]), cfg.rules[i])
                               ELSE IF i \in match THEN Suppressed(k[i], why[i])
                               ELSE EpisodeOver(k[i])]
      /\ t.log = [i \in ids |-> IF i \in fires THEN ReleaseLines(k[i]) \o <<Line("fired", 0)>>
                                ELSE IF i \in match THEN SuppressLines(k[i], why[i])
                                ELSE ReleaseLines(k[i])]
  BY DEF OnTick
<1> HIDE DEF t
<1>2. /\ \A i \in ids : cfg.rules[i].run \in BehaviorNames \cup {NoName} /\ k[i].armed \in BOOLEAN
      /\ NoName \notin BehaviorNames
      /\ \A i \in ids : i \in InhibitsOf(cfg) <=> cfg.rules[i].run = NoName
      /\ \A j \in ids : cfg.rules[j].disable \subseteq BehaviorNames
  BY DEF RulesAssumption, NameAssumption, InhibitsOf
<1>3. names \subseteq BehaviorNames
  OBVIOUS
<1>4. \A i : Ran(i) \subseteq BehaviorNames
  BY <1>2
<1>5. NoName \notin blocked
  BY <1>2 DEF Inhibited, InhibitsOf, IdsOf
<1>6. \A i \in ids : \A running :
        /\ Why(i, running) \in Verdicts
        /\ Why(i, running) = "fired" <=> /\ cfg.rules[i].run \notin blocked /\ k[i].armed
                                         /\ ~Cooling(k[i], cfg.rules[i]) /\ cfg.rules[i].run \notin running
  BY <1>2, VerdictIs
<1> HIDE DEF names, Ran, blocked, Why
<1>7. \A i \in match : why[i] = Why(i, names \cup Ran(i)) /\ why[i] \in Verdicts
  BY <1>6
<1> HIDE DEF why
<1>8. \A i \in match \cap InhibitsOf(cfg) : (i \in evicts <=> i \in fires)
        /\ (k[i].armed /\ ~Cooling(k[i], cfg.rules[i]) => i \in fires)
  <2> TAKE i \in match \cap InhibitsOf(cfg)
  <2>1. cfg.rules[i].run = NoName
    BY <1>2
  <2>2. NoName \notin names \cup Ran(i) /\ NoName \notin blocked
    BY <1>2, <1>3, <1>4, <1>5
  <2> QED BY <1>6, <1>7, <2>1, <2>2
<1>9. \A i \in fires : /\ cfg.rules[i].run \notin blocked /\ k[i].armed
                       /\ ~Cooling(k[i], cfg.rules[i])
  BY <1>6, <1>7
<1>10. ASSUME NEW i \in ids
       PROVE  \E w \in Reasons \ {"none"} :
                /\ t.rs[i] = After(k[i], cfg.rules[i], i \in match, i \in fires, w)
                /\ t.log[i] = LinesAfter(k[i], i \in match, i \in fires, w)
  <2> HIDE DEF match
  <2>1. CASE i \in match /\ i \notin fires
    <3>1. why[i] \in Reasons \ {"none"}
      BY <1>7, <2>1 DEF Verdicts, Reasons
    <3>2. /\ t.rs[i] = Suppressed(k[i], why[i])
          /\ t.log[i] = SuppressLines(k[i], why[i])
      BY <1>1, <2>1
    <3>3. /\ t.rs[i] = After(k[i], cfg.rules[i], i \in match, i \in fires, why[i])
          /\ t.log[i] = LinesAfter(k[i], i \in match, i \in fires, why[i])
      BY <2>1, <3>2 DEF After, LinesAfter
    <3> QED BY <3>1, <3>3
  <2>2. CASE i \in fires
    <3>1. /\ t.rs[i] = After(k[i], cfg.rules[i], i \in match, i \in fires, "rearming")
          /\ t.log[i] = LinesAfter(k[i], i \in match, i \in fires, "rearming")
      BY <1>1, <2>2 DEF After, LinesAfter
    <3> QED BY <3>1 DEF Reasons
  <2>3. CASE i \notin match
    <3>1. i \notin fires
      BY <2>3
    <3>2. /\ t.rs[i] = After(k[i], cfg.rules[i], i \in match, i \in fires, "rearming")
          /\ t.log[i] = LinesAfter(k[i], i \in match, i \in fires, "rearming")
      BY <1>1, <2>3, <3>1 DEF After, LinesAfter
    <3> QED BY <3>2 DEF Reasons
  <2> QED BY <2>1, <2>2, <2>3
<1>11. ASSUME NEW b \in t.active
       PROVE  \/ b \in active /\ \A i \in fires \cap InhibitsOf(cfg) : b.name \notin cfg.rules[i].disable
              \/ \E i \in fires \ InhibitsOf(cfg) : b = [name |-> cfg.rules[i].run, ruled |-> TRUE]
  <2>1. CASE b \in left
    BY <1>8, <2>1
  <2>2. CASE b \notin left
    BY <1>1, <1>11, <2>2
  <2> QED BY <2>1, <2>2
<1>12. DOMAIN t.rs = ids /\ fires \subseteq match
  BY <1>1
<1>13. u = t /\ matching = match
  BY DEF t
<1> HIDE DEF match, fires
<1>14. u.fires = fires /\ u.match = matching
  BY <1>1, <1>13
<1>15. \A i \in ids : \E w \in Reasons \ {"none"} :
         /\ u.rs[i] = After(k[i], cfg.rules[i], i \in matching, i \in u.fires, w)
         /\ u.log[i] = LinesAfter(k[i], i \in matching, i \in u.fires, w)
  BY <1>10, <1>13, <1>14, Zenon
<1>16. \A i \in u.fires : /\ cfg.rules[i].run \notin Inhibited(cfg, s, ab)
                          /\ k[i].armed /\ ~Cooling(k[i], cfg.rules[i])
  BY <1>9, <1>14, Zenon DEF blocked
<1>17. \A i \in matching \cap InhibitsOf(cfg) :
         k[i].armed /\ ~Cooling(k[i], cfg.rules[i]) => i \in u.fires
  BY <1>8, <1>13, <1>14, Zenon
<1>18. \A b \in u.active :
         \/ b \in active /\ \A i \in u.fires \cap InhibitsOf(cfg) : b.name \notin cfg.rules[i].disable
         \/ \E i \in u.fires \ InhibitsOf(cfg) : b = [name |-> cfg.rules[i].run, ruled |-> TRUE]
  BY <1>11, <1>13, <1>14, Zenon
<1>19. u.fires \subseteq matching /\ DOMAIN u.rs = IdsOf(cfg)
  BY <1>12, <1>13, <1>14, Zenon
<1> QED BY <1>14, <1>15, <1>16, <1>17, <1>18, <1>19, Zenon DEF Ticked

\* What a new engine holds of a rule accounts for all that was seen of it.
LEMMA FreshAccounts ==
  ASSUME RulesAssumption, NEW r, RuleOf(r)
  PROVE  Accounted(NewState, NewSeen, r) /\ \A d \in 1 .. MaxStep : AgedBy(NewState, d) = NewState
<1>1. AgeCap \in Nat /\ CountCap \in Nat /\ r.hysteresis \in 0 .. AgeCap
  BY DEF RulesAssumption, AgeAssumption, RuleOf
<1>2. NewState \in RuleStates
  BY <1>1 DEF NewState, RuleStates, Ages, Counts, Reasons, None
<1>3. NewSeen \in Histories
  BY <1>1 DEF NewSeen, Histories, Ages, Counts, None
<1>4. Accounted(NewState, NewSeen, r)
  BY <1>1, <1>2, <1>3 DEF Accounted, NewState, NewSeen
<1>5. \A d \in 1 .. MaxStep : AgedBy(NewState, d) = NewState
  BY DEF AgedBy, NewState, Grown
<1> QED BY <1>4, <1>5

\* One rule in one tick, t being what it does to all and base and hist what is kept and
\* known of them before.
LEMMA TickKeeps ==
  ASSUME RulesAssumption, RulesInv, Tick
  PROVE  RulesInv'
<1>1. PICK d \in 1 .. MaxStep, s \in Senses, found \in Configs \cup {NoReload} :
        LET reloaded == found # NoReload
            cfg  == IF reloaded THEN found ELSE config
            old  == IF reloaded THEN FreshStates(cfg)
                    ELSE [i \in DOMAIN rs |-> [rs[i] EXCEPT !.last = Grown(@, d),
                                                            !.false = Grown(@, d)]]
            hist == IF reloaded THEN FreshSeen(cfg) ELSE seen.rules
        IN \E ab \in {Tracked([f \in Fields |-> Grown(absent[f], d)], started /\ ~reloaded, s)} :
           \E k \in {Armed(cfg, old, s, ab)} : \E t \in {OnTick(cfg, k, s, ab)} :
           /\ config' = cfg /\ activeMode' = ModeAfter(found)
           /\ rs' = t.rs /\ absent' = ab /\ started' = TRUE
           /\ active' = t.active /\ log' = t.log /\ sense' = s
           /\ parity' = 1 - parity
           /\ seen' = [rules |-> [i \in IdsOf(cfg) |->
                                   Seen(hist[i], i \in t.match, i \in t.fires, d)],
                       gone  |-> [f \in Fields |-> IF Present(s, f) THEN 0
                                                   ELSE Grown(seen.gone[f], d)]]
  BY DEF Tick
<1> DEFINE reloaded == found # NoReload
           cfg  == IF reloaded THEN found ELSE config
           old  == IF reloaded THEN FreshStates(cfg)
                   ELSE [i \in DOMAIN rs |-> [rs[i] EXCEPT !.last = Grown(@, d),
                                                           !.false = Grown(@, d)]]
           base == IF reloaded THEN FreshStates(cfg) ELSE rs
           hist == IF reloaded THEN FreshSeen(cfg) ELSE seen.rules
           ab   == Tracked([f \in Fields |-> Grown(absent[f], d)], started /\ ~reloaded, s)
           k    == Armed(cfg, old, s, ab)
           t    == OnTick(cfg, k, s, ab)
           match == {i \in IdsOf(cfg) : Holds(cfg.rules[i].when, s, ab)}
           Holding(i) == Holds(cfg.rules[i].when, s, ab)
<1>2. /\ config' = cfg /\ activeMode' = ModeAfter(found)
      /\ rs' = t.rs /\ absent' = ab /\ started' = TRUE
      /\ active' = t.active /\ log' = t.log /\ sense' = s
      /\ parity' = 1 - parity
      /\ seen' = [rules |-> [i \in IdsOf(cfg) |->
                              Seen(hist[i], i \in t.match, i \in t.fires, d)],
                  gone  |-> [f \in Fields |-> IF Present(s, f) THEN 0
                                              ELSE Grown(seen.gone[f], d)]]
  <2>1. \E ab1 \in {ab} : \E k1 \in {Armed(cfg, old, s, ab1)} : \E t1 \in {OnTick(cfg, k1, s, ab1)} :
           /\ config' = cfg /\ activeMode' = ModeAfter(found)
           /\ rs' = t1.rs /\ absent' = ab1 /\ started' = TRUE
           /\ active' = t1.active /\ log' = t1.log /\ sense' = s
           /\ parity' = 1 - parity
           /\ seen' = [rules |-> [i \in IdsOf(cfg) |->
                                   Seen(hist[i], i \in t1.match, i \in t1.fires, d)],
                       gone  |-> [f \in Fields |-> IF Present(s, f) THEN 0
                                                   ELSE Grown(seen.gone[f], d)]]
    BY <1>1, Zenon
  <2> HIDE DEF cfg, old, hist, ab
  <2> QED BY <2>1, Zenon
<1>3. cfg \in Configs
  BY DEF RulesInv
<1>4. \A i \in IdsOf(cfg) : RuleOf(cfg.rules[i])
  BY <1>3, RulesAre
<1>5. \A i \in IdsOf(cfg) : old[i] = AgedBy(base[i], d) /\ Accounted(base[i], hist[i], cfg.rules[i])
  <2>1. CASE reloaded
    <3>1. \A i \in IdsOf(cfg) : old[i] = NewState /\ base[i] = NewState /\ hist[i] = NewSeen
      BY <2>1 DEF FreshStates, FreshSeen
    <3> QED BY <1>4, <3>1, FreshAccounts
  <2>2. CASE ~reloaded
    <3>1. cfg = config /\ base = rs /\ hist = seen.rules /\ DOMAIN rs = IdsOf(cfg)
      BY <2>2 DEF RulesInv, RuleIds
    <3>2. \A i \in IdsOf(cfg) : old[i] = AgedBy(base[i], d)
      BY <2>2, <3>1 DEF AgedBy
    <3> QED BY <3>1, <3>2 DEF RulesInv, RuleIds
  <2> QED BY <2>1, <2>2
<1>6. \A i \in InhibitsOf(cfg) :
        cfg.rules[i].hysteresis = 0 /\ hist[i].held # None /\ base[i].last # None
          /\ base[i].last <= hist[i].held /\ base[i].last < AgeCap =>
          \A b \in active : ~(b.ruled /\ b.name \in cfg.rules[i].disable)
  <2>1. CASE reloaded
    <3>1. \A i \in InhibitsOf(cfg) : hist[i].held = None
      BY <2>1 DEF FreshSeen, NewSeen, InhibitsOf
    <3> QED BY <3>1
  <2>2. CASE ~reloaded
    <3>1. cfg = config /\ base = rs /\ hist = seen.rules
      BY <2>2
    <3> QED BY <3>1 DEF RulesInv, Evicts
  <2> QED BY <2>1, <2>2
<1>7. \A i \in IdsOf(cfg) : k[i] = Stepped(AgedBy(base[i], d), cfg.rules[i], Holding(i))
  <2>1. \A i \in IdsOf(cfg) : k[i] = Stepped(old[i], cfg.rules[i], Holding(i))
    BY DEF Armed
  <2> QED BY <1>5, <2>1
<1> HIDE DEF old, base, hist, cfg
<1> HIDE DEF k
<1>8. \A i \in IdsOf(cfg) : k[i] = Stepped(AgedBy(base[i], d), cfg.rules[i], i \in match)
  <2> TAKE i \in IdsOf(cfg)
  <2>1. CASE Holding(i)
    <3>1. i \in match
      BY <2>1
    <3> QED BY <1>7, <2>1, <3>1 DEF Stepped
  <2>2. CASE ~Holding(i)
    <3>1. i \notin match
      BY <2>2
    <3> QED BY <1>7, <2>2, <3>1 DEF Stepped
  <2> QED BY <2>1, <2>2
<1> HIDE DEF match, Holding
<1>9. \A i \in IdsOf(cfg) : k[i].armed \in BOOLEAN /\ k[i].last = Grown(base[i].last, d)
        /\ k[i].ticks = base[i].ticks /\ k[i].reason = base[i].reason
        /\ (cfg.rules[i].hysteresis = 0 => k[i].armed)
  <2> TAKE i \in IdsOf(cfg)
  <2> DEFINE a == AgedBy(base[i], d)
  <2>1. base[i] \in RuleStates /\ (cfg.rules[i].hysteresis = 0 => base[i].armed)
    BY <1>5 DEF Accounted
  <2>2. /\ a.last = Grown(base[i].last, d) /\ a.armed = base[i].armed /\ a.armed \in BOOLEAN
        /\ a.ticks = base[i].ticks /\ a.reason = base[i].reason
        /\ a = [last |-> a.last, false |-> a.false, armed |-> a.armed, reason |-> a.reason,
                ticks |-> a.ticks]
    <3>1. base[i].last \in Ages /\ base[i].false \in Ages /\ base[i].armed \in BOOLEAN
      BY <2>1 DEF RuleStates
    <3>2. Grown(base[i].last, d) \in Ages /\ Grown(base[i].false, d) \in Ages
      BY <3>1, GrownIs
    <3>3. a = [last |-> Grown(base[i].last, d), false |-> Grown(base[i].false, d),
               armed |-> base[i].armed, reason |-> base[i].reason, ticks |-> base[i].ticks]
      BY <2>1, AgedIs
    <3> QED BY <3>1, <3>3
  <2> HIDE DEF a
  <2>3. CASE i \in match
    <3>1. k[i] = [a EXCEPT !.false = None]
      BY <1>8, <2>3 DEF Stepped, a
    <3> QED BY <2>1, <2>2, <3>1
  <2>4. CASE i \notin match
    <3> DEFINE g == IF a.false = None THEN 0 ELSE a.false
               h == a.armed \/ g >= cfg.rules[i].hysteresis
    <3>1. k[i] = [a EXCEPT !.false = g, !.armed = h]
      BY <1>8, <2>2, <2>4 DEF Stepped, a
    <3>2. h \in BOOLEAN /\ (a.armed => h)
      OBVIOUS
    <3> HIDE DEF g, h
    <3>3. k[i] = [last |-> a.last, false |-> g, armed |-> h, reason |-> a.reason, ticks |-> a.ticks]
      BY <2>2, <3>1
    <3> QED BY <2>1, <2>2, <3>2, <3>3
  <2> QED BY <2>3, <2>4
<1>10. active \subseteq [name : BehaviorNames, ruled : BOOLEAN]
  BY DEF RulesInv
<1> HIDE DEF t
<1>11. /\ t.match = match /\ t.fires \subseteq match
       /\ DOMAIN t.rs = IdsOf(cfg)
       /\ \A i \in IdsOf(cfg) : \E why \in Reasons \ {"none"} :
            /\ t.rs[i] = After(k[i], cfg.rules[i], i \in match, i \in t.fires, why)
            /\ t.log[i] = LinesAfter(k[i], i \in match, i \in t.fires, why)
       /\ \A i \in t.fires : /\ cfg.rules[i].run \notin Inhibited(cfg, s, ab)
                             /\ k[i].armed /\ ~Cooling(k[i], cfg.rules[i])
       /\ \A i \in match \cap InhibitsOf(cfg) :
            k[i].armed /\ ~Cooling(k[i], cfg.rules[i]) => i \in t.fires
       /\ \A b \in t.active :
            \/ b \in active /\ \A i \in t.fires \cap InhibitsOf(cfg) : b.name \notin cfg.rules[i].disable
            \/ \E i \in t.fires \ InhibitsOf(cfg) : b = [name |-> cfg.rules[i].run, ruled |-> TRUE]
  <2>1. \A i \in IdsOf(cfg) : k[i].armed \in BOOLEAN
    BY <1>9
  <2>2. t = OnTick(cfg, k, s, ab) /\ match = {i \in IdsOf(cfg) : Holds(cfg.rules[i].when, s, ab)}
    BY DEF t, match
  <2> HIDE DEF ab, match
  <2>3. Ticked(cfg, k, s, ab, match, t)
    BY <1>3, <1>10, <2>1, <2>2, OnTickIs
  <2> QED BY <2>3, Zenon DEF Ticked
<1>12. match \subseteq IdsOf(cfg) /\ IdsOf(cfg) = RuleIds' /\ InhibitsOf(cfg) = InhibitsOf(config)'
  BY <1>2 DEF match, RuleIds, InhibitsOf, IdsOf
<1>13. DOMAIN seen'.rules = IdsOf(cfg) /\ \A i \in IdsOf(cfg) :
         seen'.rules[i] = Seen(hist[i], i \in match, i \in t.fires, d)
  BY <1>2, <1>11
<1>14. ASSUME NEW i \in IdsOf(cfg)
       PROVE  /\ Accounted(rs'[i], seen'.rules[i], cfg.rules[i])
              /\ ToldOf(LinesOf(log'[i]), seen'.rules[i])
  <2>1. PICK why \in Reasons \ {"none"} :
            /\ t.rs[i] = After(k[i], cfg.rules[i], i \in match, i \in t.fires, why)
            /\ t.log[i] = LinesAfter(k[i], i \in match, i \in t.fires, why)
    BY <1>11
  <2>2. i \in t.fires => i \in match /\ k[i].armed
    BY <1>11
  <2>3. Accounted(After(k[i], cfg.rules[i], i \in match, i \in t.fires, why), seen'.rules[i], cfg.rules[i])
    <3> DEFINE m == i \in match
               f == i \in t.fires
    <3>1. m \in BOOLEAN /\ f \in BOOLEAN /\ (f => m) /\ k[i] = Stepped(AgedBy(base[i], d), cfg.rules[i], m)
          /\ (f => Stepped(AgedBy(base[i], d), cfg.rules[i], m).armed)
          /\ seen'.rules[i] = Seen(hist[i], m, f, d)
          /\ Accounted(base[i], hist[i], cfg.rules[i]) /\ RuleOf(cfg.rules[i])
      BY <1>4, <1>5, <1>8, <1>13, <2>2
    <3> HIDE DEF m, f
    <3>2. Accounted(After(k[i], cfg.rules[i], m, f, why), seen'.rules[i], cfg.rules[i])
      BY <3>1, TickAccounts
    <3> QED BY <3>2 DEF m, f
  <2>4. ToldOf(LinesOf(LinesAfter(k[i], i \in match, i \in t.fires, why)), seen'.rules[i])
    <3> DEFINE m == i \in match
               f == i \in t.fires
    <3>1. /\ m \in BOOLEAN /\ f \in BOOLEAN /\ (f => m) /\ seen'.rules[i] = Seen(hist[i], m, f, d)
          /\ k[i].ticks = hist[i].owed /\ hist[i].owed \in Counts
          /\ (k[i].ticks = 0 <=> k[i].reason = "none")
      BY <1>5, <1>9, <1>13, <2>2 DEF Accounted, Histories
    <3> HIDE DEF m, f
    <3>2. ToldOf(LinesOf(LinesAfter(k[i], m, f, why)), seen'.rules[i])
      BY <3>1, TickTells
    <3> QED BY <3>2 DEF m, f
  <2> QED BY <1>2, <2>1, <2>3, <2>4
<1>15. ASSUME NEW i \in InhibitsOf(cfg), cfg.rules[i].hysteresis = 0, i \in t.fires
       PROVE  \A b \in active' : ~(b.ruled /\ b.name \in cfg.rules[i].disable)
  <2>1. i \in match
    BY <1>11, <1>15
  <2>2. cfg.rules[i].disable \subseteq Inhibited(cfg, s, ab)
    BY <1>15, <2>1 DEF Inhibited, match
  <2>3. ASSUME NEW b \in t.active, b.name \in cfg.rules[i].disable PROVE FALSE
    <3>1. PICK j \in t.fires \ InhibitsOf(cfg) : b = [name |-> cfg.rules[j].run, ruled |-> TRUE]
      BY <1>11, <1>15, <2>3
    <3> QED BY <1>11, <2>2, <2>3, <3>1
  <2> QED BY <1>2, <2>3
<1>16. ASSUME NEW i \in InhibitsOf(cfg), i \in match,
              \A b \in active : ~(b.ruled /\ b.name \in cfg.rules[i].disable)
       PROVE  \A b \in active' : ~(b.ruled /\ b.name \in cfg.rules[i].disable)
  <2>1. cfg.rules[i].disable \subseteq Inhibited(cfg, s, ab)
    BY <1>16 DEF Inhibited, match
  <2>2. ASSUME NEW b \in t.active, b.ruled, b.name \in cfg.rules[i].disable PROVE FALSE
    <3>1. b \notin active
      BY <1>16, <2>2, Zenon
    <3>2. PICK j \in t.fires \ InhibitsOf(cfg) : b = [name |-> cfg.rules[j].run, ruled |-> TRUE]
      BY <1>11, <2>2, <3>1
    <3> QED BY <1>11, <2>1, <2>2, <3>2
  <2> QED BY <1>2, <2>2
<1>17. ASSUME NEW i \in InhibitsOf(cfg), cfg.rules[i].hysteresis = 0, seen'.rules[i].held # None
       PROVE  /\ i \in match /\ k[i].armed
              /\ i \notin t.fires => rs'[i].last = Grown(base[i].last, d)
              /\ seen'.rules[i].held = (IF hist[i].held = None THEN 0 ELSE Grown(hist[i].held, d))
              /\ base[i].last \in Ages /\ hist[i].held \in Ages
  <2>1. i \in IdsOf(cfg)
    BY <1>17 DEF InhibitsOf
  <2>2. seen'.rules[i].held = (IF i \notin match THEN None ELSE IF hist[i].held = None THEN 0
                               ELSE Grown(hist[i].held, d))
    <3> DEFINE m == i \in match
               f == i \in t.fires
    <3>1. seen'.rules[i] = Seen(hist[i], m, f, d)
      BY <1>13, <2>1
    <3> HIDE DEF f
    <3>2. CASE m
      <4>1. i \in match
        BY <3>2
      <4> HIDE DEF m
      <4> QED BY <3>1, <3>2, <4>1 DEF Seen
    <3>3. CASE ~m
      <4>1. i \notin match
        BY <3>3
      <4> HIDE DEF m
      <4> QED BY <3>1, <3>3, <4>1 DEF Seen
    <3> QED BY <3>2, <3>3
  <2>3. i \in match
    BY <1>17, <2>2
  <2>4. base[i] \in RuleStates /\ hist[i] \in Histories
    BY <1>5, <2>1 DEF Accounted
  <2>5. ASSUME i \notin t.fires PROVE rs'[i].last = Grown(base[i].last, d)
    <3>1. PICK why \in Reasons : t.rs[i] = After(k[i], cfg.rules[i], TRUE, FALSE, why)
      BY <1>11, <2>1, <2>3, <2>5 DEF After
    <3>2. t.rs[i] = Suppressed(k[i], why)
      BY <3>1 DEF After
    <3>3. t.rs[i].last = k[i].last
      BY <3>2 DEF Suppressed
    <3> QED BY <1>2, <1>9, <2>1, <3>3
  <2> QED BY <1>9, <1>17, <2>1, <2>2, <2>3, <2>4, <2>5 DEF RuleStates, Histories
<1>18. ASSUME NEW i \in InhibitsOf(cfg), cfg.rules[i].hysteresis = 0, seen'.rules[i].held # None,
              rs'[i].last # None, rs'[i].last <= seen'.rules[i].held, rs'[i].last < AgeCap
       PROVE  \A b \in active' : ~(b.ruled /\ b.name \in cfg.rules[i].disable)
  <2>1. CASE i \in t.fires
    BY <1>15, <1>18, <2>1
  <2>2. CASE i \notin t.fires
    <3> DEFINE l == base[i].last
               h == hist[i].held
    <3>1. /\ rs'[i].last = Grown(l, d) /\ seen'.rules[i].held = (IF h = None THEN 0 ELSE Grown(h, d))
          /\ l \in Ages /\ h \in Ages /\ i \in match
      BY <1>17, <1>18, <2>2
    <3> HIDE DEF l, h
    <3>2. /\ l # None /\ Grown(l, d) = l + d /\ l + d < AgeCap
          /\ AgeCap \in Nat /\ d \in Nat /\ d >= 1 /\ l \in 0 .. AgeCap
      <4>1. AgeCap \in Nat /\ d \in Nat /\ d >= 1
        BY DEF RulesAssumption, AgeAssumption
      <4>2. l # None
        BY <1>18, <3>1 DEF Grown
      <4> QED BY <1>18, <3>1, <4>1, <4>2, GrownIs DEF Ages, None
    <3>3. h # None
      BY <1>18, <3>1, <3>2
    <3>4. l <= h
      BY <1>18, <3>1, <3>2, <3>3 DEF Grown, Ages, None
    <3>5. \A b \in active : ~(b.ruled /\ b.name \in cfg.rules[i].disable)
      BY <1>6, <1>18, <3>2, <3>3, <3>4 DEF l, h
    <3> QED BY <1>16, <3>1, <3>5
  <2> QED BY <2>1, <2>2
<1>19. ASSUME NEW i \in InhibitsOf(cfg), cfg.rules[i].hysteresis = 0,
              seen'.rules[i].held >= cfg.rules[i].cooldown
       PROVE  \A b \in active' : ~(b.ruled /\ b.name \in cfg.rules[i].disable)
  <2>1. i \in IdsOf(cfg)
    BY DEF InhibitsOf
  <2>2. cfg.rules[i].cooldown \in 0 .. AgeCap /\ AgeCap \in Nat /\ seen'.rules[i] \in Histories
    BY <1>4, <1>14, <2>1 DEF RuleOf, RulesAssumption, AgeAssumption, Accounted
  <2>3. seen'.rules[i].held # None
    BY <1>19, <2>2 DEF None
  <2>4. CASE i \in t.fires
    BY <1>15, <1>19, <2>4
  <2>5. CASE i \notin t.fires
    <3>1. Cooling(k[i], cfg.rules[i])
      BY <1>11, <1>17, <1>19, <2>3, <2>5
    <3>2. rs'[i].last # None /\ rs'[i].last < cfg.rules[i].cooldown
      BY <1>9, <1>17, <1>19, <2>1, <2>3, <2>5, <3>1 DEF Cooling
    <3>3. rs'[i] \in RuleStates
      BY <1>14, <2>1 DEF Accounted
    <3>4. rs'[i].last <= seen'.rules[i].held /\ rs'[i].last < AgeCap
      BY <1>19, <2>2, <3>2, <3>3 DEF RuleStates, Histories, Ages, None
    <3> QED BY <1>18, <1>19, <2>3, <3>2, <3>4
  <2> QED BY <2>4, <2>5
<1>20. Clocks'
  <2>1. /\ AgeCap \in Nat /\ absent \in [Fields -> 0 .. AgeCap] /\ started \in BOOLEAN
        /\ \A f \in Fields : seen.gone[f] \in 0 .. AgeCap
        /\ started => \A f \in Fields : absent[f] <= seen.gone[f]
    BY DEF RulesInv, Clocks, AbsenceSound, RulesAssumption, AgeAssumption
  <2>2. \A f \in Fields : Grown(absent[f], d) \in 0 .. AgeCap /\ Grown(seen.gone[f], d) \in 0 .. AgeCap
    <3>1. \A a \in 0 .. AgeCap : a \in Ages /\ a # None
      BY <2>1 DEF Ages, None
    <3>2. \A a \in 0 .. AgeCap : Grown(a, d) \in 0 .. AgeCap
      BY <3>1, GrownIs
    <3> QED BY <2>1, <3>2
  <2>3. started => \A f \in Fields : Grown(absent[f], d) <= Grown(seen.gone[f], d)
    <3>1. \A a, b \in 0 .. AgeCap : a <= b => Grown(a, d) <= Grown(b, d)
      BY <2>1, GrownMono
    <3> QED BY <2>1, <3>1
  <2>4. /\ absent' \in [Fields -> 0 .. AgeCap]
        /\ \A f \in Fields : absent'[f] = 0 \/ (~Present(s, f) /\ started /\ absent'[f] = Grown(absent[f], d))
    <3>1. absent' = [f \in Fields |-> IF Present(s, f) \/ ~(started /\ ~reloaded) THEN 0
                                      ELSE Grown(absent[f], d)]
      BY <1>2 DEF Tracked
    <3> QED BY <2>1, <2>2, <3>1
  <2>5. /\ DOMAIN seen'.gone = Fields
        /\ \A f \in Fields : seen'.gone[f] = IF Present(s, f) THEN 0 ELSE Grown(seen.gone[f], d)
    BY <1>2
  <2>6. \A f \in Fields : seen'.gone[f] \in 0 .. AgeCap /\ absent'[f] <= seen'.gone[f]
    BY <2>1, <2>2, <2>3, <2>4, <2>5
  <2> QED BY <1>2, <2>4, <2>5, <2>6 DEF Clocks, AbsenceSound
<1>21. active' \subseteq [name : BehaviorNames, ruled : BOOLEAN]
  <2>1. ASSUME NEW b \in t.active PROVE b \in [name : BehaviorNames, ruled : BOOLEAN]
    <3>1. CASE b \in active
      BY <1>10, <3>1
    <3>2. CASE b \notin active
      <4>1. PICK i \in t.fires \ InhibitsOf(cfg) : b = [name |-> cfg.rules[i].run, ruled |-> TRUE]
        BY <1>11, <3>2
      <4>2. i \in IdsOf(cfg)
        BY <1>11, <1>12
      <4>3. cfg.rules[i].run \in BehaviorNames
        BY <1>4, <4>2 DEF RuleOf, InhibitsOf
      <4> QED BY <4>1, <4>3
    <3> QED BY <3>1, <3>2
  <2> QED BY <1>2, <2>1
<1>22. activeMode' \in config'.modes \cup {NoMode} /\ sense' \in Senses /\ parity' \in 0 .. 1
  <2>1. config'.modes = cfg.modes /\ (found = NoReload => cfg = config) /\ (found # NoReload => cfg = found)
    BY <1>2 DEF cfg
  <2> QED BY <1>2, <1>3, <2>1 DEF ModeAfter, RulesAssumption, ModeAssumption, RulesInv
<1> QED
  <2>1. DOMAIN rs' = RuleIds' /\ DOMAIN seen'.rules = RuleIds' /\ config' = cfg
    BY <1>2, <1>11, <1>12, <1>13
  <2>2. \A i \in RuleIds' : Accounted(rs'[i], seen'.rules[i], config'.rules[i])
                            /\ ToldOf(LinesOf(log'[i]), seen'.rules[i])
    BY <1>12, <1>14, <2>1
  <2>3. \A i \in InhibitsOf(config)' : Evicts(i)'
    BY <1>12, <1>18, <2>1 DEF Evicts
  <2>4. InhibitClears'
    BY <1>12, <1>19, <2>1 DEF InhibitClears
  <2>5. \A i \in RuleIds' : Accounted(rs[i], seen.rules[i], config.rules[i])'
                            /\ ToldOf(LinesOf(log[i]), seen.rules[i])'
    BY <2>2 DEF Accounted, ToldOf, LinesOf
  <2> QED BY <1>3, <1>20, <1>21, <1>22, <2>1, <2>3, <2>4, <2>5 DEF RulesInv

LEMMA InitRules ==
  ASSUME RulesAssumption, RulesInit
  PROVE  RulesInv
<1>1. config \in Configs /\ AgeCap \in Nat
  BY DEF RulesInit, RulesAssumption, AgeAssumption
<1>2. \A i \in RuleIds : rs[i] = NewState /\ seen.rules[i] = NewSeen /\ log[i] = <<>>
  BY DEF RulesInit, RuleIds, FreshStates, FreshSeen
<1>3. \A i \in RuleIds : Accounted(rs[i], seen.rules[i], config.rules[i])
  BY <1>1, <1>2, RulesAre, FreshAccounts DEF RuleIds
<1>4. \A i \in RuleIds : ToldOf(LinesOf(log[i]), seen.rules[i])
  BY <1>2, LinesAre DEF ToldOf, NewSeen
<1>5. InhibitsOf(config) \subseteq RuleIds
  BY DEF InhibitsOf, RuleIds
<1>6. \A i \in InhibitsOf(config) : Evicts(i)
  BY <1>2, <1>5 DEF Evicts, NewSeen
<1>7. InhibitClears
  BY <1>1, <1>2, <1>5, RulesAre DEF InhibitClears, NewSeen, RuleIds, RuleOf, None, RulesInit
<1>8. Clocks
  <2>1. absent = [f \in Fields |-> 0] /\ started = FALSE /\ seen.gone = [f \in Fields |-> 0]
    BY DEF RulesInit
  <2>2. 0 \in 0 .. AgeCap
    BY <1>1
  <2>3. AbsenceSound /\ started \in BOOLEAN
    BY <2>1, Zenon DEF AbsenceSound
  <2>4. /\ absent \in [Fields -> 0 .. AgeCap] /\ DOMAIN seen.gone = Fields
        /\ \A f \in Fields : seen.gone[f] \in 0 .. AgeCap
    BY <2>1, <2>2
  <2> QED BY <2>3, <2>4 DEF Clocks
<1> QED BY <1>1, <1>3, <1>4, <1>6, <1>7, <1>8
        DEF RulesInv, RulesInit, RuleIds, FreshStates, FreshSeen, RulesAssumption, ModeAssumption

\* Between the ticks only the mode and the behaviors that run change, and no rule runs one.
LEMMA BetweenTicks ==
  ASSUME RulesAssumption, RulesInv, SetActiveMode \/ Ends \/ Added \/ UNCHANGED rulesVars
  PROVE  RulesInv'
<1>1. /\ UNCHANGED <<config, rs, absent, started, sense, log, parity, seen>>
      /\ activeMode' \in config.modes \cup {NoMode}
      /\ \A b \in active' : b \in active \/ (~b.ruled /\ b \in [name : BehaviorNames, ruled : BOOLEAN])
  <2>1. CASE SetActiveMode
    BY <2>1 DEF SetActiveMode
  <2>2. CASE Ends
    BY <2>2 DEF Ends, RulesInv
  <2>3. CASE Added
    <3>1. PICK n \in Foreign : active' = active \cup {[name |-> n, ruled |-> FALSE]}
      BY <2>3 DEF Added
    <3>2. n \in BehaviorNames
      BY DEF RulesAssumption, NameAssumption
    <3> DEFINE a == [name |-> n, ruled |-> FALSE]
    <3>3. a \in [name : BehaviorNames, ruled : BOOLEAN] /\ a.ruled = FALSE
      BY <3>2
    <3> HIDE DEF a
    <3>4. \A b \in active' : b \in active \/ b = a
      BY <3>1 DEF a
    <3>5. \A b \in active' : b \in active \/ (~b.ruled /\ b \in [name : BehaviorNames, ruled : BOOLEAN])
      BY <3>3, <3>4, Zenon
    <3> QED BY <2>3, <3>5 DEF Added, RulesInv
  <2>4. CASE UNCHANGED rulesVars
    BY <2>4 DEF rulesVars, RulesInv
  <2> QED BY <2>1, <2>2, <2>3, <2>4
<1>2. RuleIds' = RuleIds /\ InhibitsOf(config)' = InhibitsOf(config)
  BY <1>1 DEF RuleIds, InhibitsOf, IdsOf
<1>3. \A i \in RuleIds : Accounted(rs[i], seen.rules[i], config.rules[i])'
                          /\ ToldOf(LinesOf(log[i]), seen.rules[i])'
  BY <1>1 DEF RulesInv, Accounted, ToldOf, LinesOf
<1>4. \A i \in InhibitsOf(config) : Evicts(i)'
  BY <1>1 DEF RulesInv, Evicts
<1>5. InhibitClears'
  BY <1>1, <1>2 DEF RulesInv, InhibitClears
<1>6. Clocks'
  BY <1>1 DEF RulesInv, Clocks, AbsenceSound
<1> QED BY <1>1, <1>2, <1>3, <1>4, <1>5, <1>6 DEF RulesInv

\* A rule does not fire again before its condition was false for its hysteresis, each
\* suppression is told with its reason and length, what an inhibit rule disables does not
\* run, and an absence is measured from what was seen: for every configuration and every
\* overlay that may be loaded in its place (rule_engine.py, reload_driver.py).
THEOREM RulesHold == ASSUME RulesAssumption PROVE RulesSpec => []RulesSound
<1>1. RulesInit => RulesInv
  BY InitRules
<1>2. RulesInv /\ [RulesNext]_rulesVars => RulesInv'
  BY TickKeeps, BetweenTicks DEF RulesNext
<1>3. RulesInv => RulesSound
  <2> SUFFICES ASSUME RulesInv PROVE RulesSound
    OBVIOUS
  <2>1. \A i \in RuleIds : rs[i] \in RuleStates /\ seen.rules[i].rest >= config.rules[i].hysteresis
                            /\ (rs[i].ticks = 0 <=> rs[i].reason = "none")
    BY DEF RulesInv, Accounted
  <2>2. Rearmed
    BY <2>1 DEF Rearmed
  <2>3. EpisodesTold
    BY DEF RulesInv, EpisodesTold, ToldOf, LinesOf
  <2>4. RulesTypeOK
    BY <2>1 DEF RulesInv, RulesTypeOK, Clocks, RuleStates, Ages, Counts
  <2> QED BY <2>2, <2>3, <2>4 DEF RulesSound, RulesInv, Clocks
<1> QED BY <1>1, <1>2, <1>3, PTL DEF RulesSpec
==================================================================================
