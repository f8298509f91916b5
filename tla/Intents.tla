--------------------------------- MODULE Intents ---------------------------------
(***************************************************************************)
(* Sustained intents on the engine tick (reachy/behavior/intents.py,       *)
(* IntentDriver) composed with the engine and with the face lock's claim   *)
(* (reachy/behavior/face_lock.py).  A tick is: operators' commands on the  *)
(* main spool ("main"), compose, the rules ("rules"), the intents spool    *)
(* ("intents") and the driver's enforcement, the lock's turn ("lock"),     *)
(* the sleep ("end").  The lock's clocks are FaceLock's: here its          *)
(* watchdogs may end it at any turn.                                       *)
(***************************************************************************)
EXTENDS EngineOps

CONSTANTS Library,         \* library entries: name -> [cls, ch]
          LockName,        \* FACE_LOCK_BEHAVIOR, LIFECYCLE_OWNED's one name
          LockInhibits,    \* LOCK_INHIBITS
          Runnable,        \* names an operator adds from the main spool
          GoalNames,       \* names a goal is declared for
          RuleNames,       \* names the rules file runs
          Commanded,       \* bound: names the commands and the rules give
          IntentDurations,       \* bounded lifetimes
          MaxActive        \* bound: behaviors active when one is added by hand

Lock == INSTANCE LockOps

NoGoal == ""

IntentsAssumption ==
  /\ NoGoal \notin Names
  /\ BaseName \in Names /\ LockName \in Names \ {BaseName}
  /\ Library \in [Names -> [cls : StopClasses, ch : SUBSET Channels]]
  /\ LockInhibits \subseteq Names \ {LockName, BaseName}
  /\ Runnable \cup Commanded \subseteq Names
  /\ GoalNames \cup RuleNames \subseteq Names \ {LockName}
  /\ IntentDurations \subseteq Nat \ {0} /\ MaxActive \in Nat

VARIABLES intentEng,        \* the Engine
          claim,      \* the inhibited set and the lock's claim on it (LockOps)
          lockId,     \* FaceLockDriver._behavior_id, or NoOwner
          goal,       \* the standing goal's name, or NoGoal
          prev,       \* _previous_inhibitions
          intentPhase,      \* where the loop is in the tick
          intentIds,  \* ghost: ids of what intents admitted
          dismissed   \* ghost: the base layer is gone because a rule's disable or a
                      \* goal's end evicted it, not because it was inhibited

intentVars == <<intentEng, claim, lockId, goal, prev, intentPhase, intentIds, dismissed>>

IntentTypeOK ==
  /\ intentEng \in Engines
  /\ claim \in Lock!Claims /\ (claim.added # {} => claim.held)
  /\ lockId \in Nat
  /\ goal \in GoalNames \cup {NoGoal}
  /\ prev \in SUBSET Names
  /\ intentPhase \in {"main", "rules", "intents", "lock", "end"}
  /\ intentIds \in SUBSET (Nat \ {0})
  /\ dismissed \in BOOLEAN

IntentInit ==
  /\ intentEng = SeedBase(NewEngine)
  /\ claim = Lock!NoClaim
  /\ lockId = NoOwner /\ goal = NoGoal /\ prev = {} /\ intentPhase = "main"
  /\ intentIds = {} /\ dismissed = FALSE

New(n, d) == Build(intentEng, n, Library[n].cls, Library[n].ch, d)

--------------------------------------------------------------------------------
(* The main spool: operators *)

StillGone(e2) == dismissed' = (dismissed /\ ~BaseActive(e2))

\* ctx.evict says "inhibition" whoever calls it.
Dismissing(e2) == dismissed' = ((dismissed \/ BaseActive(intentEng)) /\ ~BaseActive(e2))

Operate(e2) == /\ intentPhase = "main"
               /\ intentEng' = e2
               /\ StillGone(e2)
               /\ UNCHANGED <<claim, lockId, goal, prev, intentPhase, intentIds>>

\* `behavior run`, from which any name may come, the lock's too, with any class and
\* lifetime.
OperatorAdds(n, cls, d) ==
  /\ Cardinality(intentEng.active) < MaxActive
  /\ Operate(EngineAdd(intentEng, n, cls, Library[n].ch, d))

OperatorStopsNamed(n) == Operate(StopNamed(intentEng, n))
OperatorStopsId(i)    == Operate(StopId(intentEng, i))
OperatorStopsAll      == Operate(StopAll(intentEng))

\* What is neither the base layer nor the lock's gaze may say it is done.
Finite == {b \in intentEng.active : ~b.base /\ b.name # LockName}

IntentCompose(done) ==
  /\ intentPhase = "main"
  /\ intentPhase' = "rules"
  /\ intentEng' = Compose(intentEng, done, UNION {{b.ord} \X b.ch : b \in intentEng.active})
  /\ UNCHANGED <<claim, lockId, goal, prev, intentIds, dismissed>>

--------------------------------------------------------------------------------
(* The rules driver's turn, of which this module keeps the effect on the set *)

Rule(e2) == /\ intentPhase = "rules"
            /\ intentEng' = e2
            /\ Dismissing(e2)
            /\ UNCHANGED <<claim, lockId, goal, prev, intentPhase, intentIds>>

RuleRuns(n, d) == /\ Cardinality(intentEng.active) < MaxActive
                  /\ n \notin ActiveNames(intentEng)
                  /\ Rule(AdmitBehavior(intentEng, New(n, d)))

RuleDisables(n) == Rule(Evict(intentEng, n))

StartIntents ==
  /\ intentPhase = "rules"
  /\ intentPhase' = "intents"
  /\ UNCHANGED <<intentEng, claim, lockId, goal, prev, intentIds, dismissed>>

--------------------------------------------------------------------------------
(* The intents spool: a command that is refused changes nothing *)

\* The general admission surface, after its refusals.
Admissible(n) == n # LockName /\ n \notin claim.inh

\* run_behavior, whose resulting lifetime must be bounded.
RunBehavior(n, d) ==
  /\ intentPhase = "intents" /\ Admissible(n)
  /\ Cardinality(intentEng.active) < MaxActive
  /\ intentEng' = AdmitBehavior(intentEng, New(n, d))
  /\ intentIds' = intentIds \cup {intentEng.seq + 1}
  /\ UNCHANGED <<claim, lockId, goal, prev, intentPhase, dismissed>>

\* _un_stop_base: an unbounded run_behavior of the base name.
UnStopBase ==
  /\ intentPhase = "intents" /\ Admissible(BaseName)
  /\ intentEng' = AddBase(intentEng)
  /\ dismissed' = FALSE
  /\ UNCHANGED <<claim, lockId, goal, prev, intentPhase, intentIds>>

\* The previous goal's behavior goes, unless the declaration repeats it.
GoalLeft(e, n, same) ==
  IF goal = NoGoal \/ (goal = n /\ same) THEN e ELSE Evict(e, goal)

\* declare_goal: another name, or other parameters, or none at all.
DeclareGoal(n, same) ==
  /\ intentPhase = "intents"
  /\ goal' = n
  /\ intentEng' = GoalLeft(intentEng, n, same)
  /\ Dismissing(intentEng')
  /\ UNCHANGED <<claim, lockId, prev, intentPhase, intentIds>>

SetInhibition(new) ==
  /\ intentPhase = "intents"
  /\ claim' = Lock!Replaced(claim, new)
  /\ UNCHANGED <<intentEng, lockId, goal, prev, intentPhase, intentIds, dismissed>>

\* lock_face, with a fresh face in the sense.
LockFace ==
  /\ intentPhase = "intents" /\ ~claim.held
  /\ intentEng' = AdmitBehavior(intentEng, New(LockName, Forever))
  /\ lockId' = intentEng.seq + 1
  /\ claim' = Lock!Take(claim)
  /\ intentIds' = intentIds \cup {intentEng.seq + 1}
  /\ UNCHANGED <<goal, prev, intentPhase, dismissed>>

\* _release: evict by id; the claim is given back.
Released(e) == EvictId(e, lockId)

Release ==
  /\ intentEng' = Released(intentEng)
  /\ lockId' = NoOwner
  /\ claim' = Lock!GivenBack(claim)
  /\ UNCHANGED <<goal, prev, intentIds, dismissed>>

ReleaseFace == intentPhase = "intents" /\ claim.held /\ Release /\ UNCHANGED intentPhase

--------------------------------------------------------------------------------
(* The driver's own work, once the spool is drained *)

\* _check_base_layer_edge: the tick the base layer's name leaves the set.
Edge(e) == IF BaseName \in prev /\ BaseName \notin claim.inh THEN EnsureBase(e) ELSE e

Enforced(e) == EvictNames(e, claim.inh)

\* Faulty: what was inhibited a tick ago still withholds the goal.
GoalDueStale(e) == goal # NoGoal /\ goal \notin prev /\ goal \notin ActiveNames(e)

\* _sustain_goal: admitted again, for ever, whenever it is missing and may run.
GoalDue(e) == goal # NoGoal /\ goal \notin claim.inh /\ goal \notin ActiveNames(e)

Sustained(e) ==
  IF GoalDue(e)
  THEN AdmitBehavior(e, Build(e, goal, Library[goal].cls, Library[goal].ch, Forever))
  ELSE e

EnforceAndSustain ==
  LET e == Enforced(Edge(intentEng)) IN
  /\ intentPhase = "intents"
  /\ intentPhase' = "lock"
  /\ intentEng' = Sustained(e)
  /\ prev' = claim.inh
  /\ intentIds' = IF GoalDue(e) THEN intentIds \cup {e.seq + 1} ELSE intentIds
  /\ StillGone(intentEng')
  /\ UNCHANGED <<claim, lockId, goal>>

--------------------------------------------------------------------------------
(* The lock's turn and the end of the tick *)

\* Faulty: the watchdog looks at its own flag only.
WasEvictedNever == FALSE

\* _was_evicted: by name.
WasEvicted == LockName \notin ActiveNames(intentEng)

\* Not held, or held and neither evicted nor ended by a watchdog.
LockTurnQuiet ==
  /\ intentPhase = "lock" /\ ~(claim.held /\ WasEvicted)
  /\ intentPhase' = "end"
  /\ UNCHANGED <<intentEng, claim, lockId, goal, prev, intentIds, dismissed>>

\* Evicted, or the mind is gone, or held too long.
LockTurnReleases ==
  /\ intentPhase = "lock" /\ claim.held
  /\ intentPhase' = "end"
  /\ Release

IntentEndTick ==
  /\ intentPhase = "end"
  /\ intentPhase' = "main"
  /\ intentEng' = Age(intentEng, 1)
  /\ UNCHANGED <<claim, lockId, goal, prev, intentIds, dismissed>>

OperatorActs ==
  \/ \E n \in Runnable, d \in IntentDurations \cup {Forever} :
       \E cls \in {Library[n].cls, "stopping"} : OperatorAdds(n, cls, d)
  \/ \E n \in Commanded : OperatorStopsNamed(n)
  \/ \E b \in intentEng.active : OperatorStopsId(b.ord)
  \/ OperatorStopsAll

Rules ==
  \/ \E n \in RuleNames, d \in IntentDurations : RuleRuns(n, d)
  \/ \E n \in Commanded : RuleDisables(n)

Commands ==
  \/ \E n \in Commanded, d \in IntentDurations : RunBehavior(n, d)
  \/ UnStopBase
  \/ \E n \in GoalNames \cup {NoGoal}, same \in BOOLEAN : DeclareGoal(n, same)
  \/ \E new \in SUBSET Commanded : SetInhibition(new)
  \/ LockFace
  \/ ReleaseFace

IntentTick ==
  \/ \E done \in SUBSET {b.ord : b \in Finite} : IntentCompose(done)
  \/ StartIntents
  \/ EnforceAndSustain
  \/ LockTurnQuiet
  \/ LockTurnReleases
  \/ IntentEndTick

IntentNext == OperatorActs \/ Rules \/ Commands \/ IntentTick

IntentSpec == IntentInit /\ [][IntentNext]_intentVars

--------------------------------------------------------------------------------
(* Properties *)

TurnTaken == intentPhase \in {"lock", "end"}

\* Whoever admitted it, in whatever order of commands, nothing inhibited is still
\* active once the intents driver has had its turn.
Withheld == TurnTaken => ActiveNames(intentEng) \cap claim.inh = {}

\* A standing goal survives stops, expiry, rules, inhibitions that have cleared and
\* locks that have been released: it is back by the end of the driver's turn.
GoalStands == intentPhase = "lock" /\ goal # NoGoal /\ goal \notin claim.inh
=> goal \in ActiveNames(intentEng)

\* The intents never strand a hold: what they admitted without an end is the
\* current goal's or the held lock's.
NothingStranded ==
  \A b \in intentEng.active :
    b.ord \in intentIds /\ b.left = Forever => b.name = goal \/ (claim.held /\ b.ord = lockId)

\* A lock that is held has a gaze of its name once it has had its turn.
HeldMeansGaze == intentPhase = "end" /\ claim.held => LockName \in ActiveNames(intentEng)

\* "This driver is the ONLY admitter of face-lock, so the name is unambiguous"
\* (face_lock.py, _was_evicted): the gaze that is there is the held lock's own.
LockHasItsGaze == intentPhase = "end" /\ claim.held => ById(intentEng, lockId) # {}

\* Eviction by inhibition heals itself: by the end of the turn in which the base
\* layer's name left the set, an inhibition is no longer why it is gone, though the
\* record says so of what a rule or the end of a goal evicted.
SelfHealing ==
  TurnTaken /\ intentEng.cause = "inhibition" => BaseName \in claim.inh \/ dismissed

\* What stands at the end of the intents' turn, in whatever order commands, rules, the
\* lock and expiries came before it (intents.py).
IntentsSound == Withheld /\ GoalStands /\ NothingStranded /\ HeldMeansGaze /\ SelfHealing
================================================================================
