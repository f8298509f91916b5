----------------------------- MODULE BehaviorEngine -----------------------------
(***************************************************************************)
(* The behavior engine's tick (reachy/behavior/engine.py: run, _drive):    *)
(* drain the command spool, compose and stream, then run the tick seam,    *)
(* whose riders (rules, intents, goto lane) call back into the engine      *)
(* through TickContext.  Operators and riders are the environment here;    *)
(* the modules Intents, GotoLane and RuleEngine supply the real riders.    *)
(***************************************************************************)
EXTENDS EngineOps

CONSTANTS Catalog,     \* what may be added: [name, cls, ch] records
          Durations,   \* lifetimes an add may ask for
          MaxAdmit,    \* bound: ids handed out
          MaxStep      \* bound: clock units between two ticks

ASSUME CatalogAssumption == Catalog \subseteq [name : Names, cls : StopClasses, ch : SUBSET Channels]
ASSUME DurationsAssumption == Durations \subseteq Nat \cup {Forever}
ASSUME BoundsAssumption == MaxAdmit \in Nat /\ MaxStep \in Nat \ {0}

VARIABLES eng,         \* the Engine
          phase,       \* where the loop is in the tick
          contrib,     \* the last tick's contributions, <<ord, channel>> pairs
          told,        \* the last add's outcome while it still binds: its id and
                       \* the channels it was not told it is blocked on
          still        \* ghost: somebody stopped the base layer by name or id, and
                       \* nobody has asked for it back since

vars == <<eng, phase, contrib, told, still>>

NothingTold == [ord |-> NoOwner, free |-> {}]

Pairs(S) == UNION {{b.ord} \X b.ch : b \in S}

TypeOK ==
  /\ eng \in Engines
  /\ phase \in {"boot", "drain", "seam"}
  /\ contrib \in SUBSET ((Nat \ {0}) \X Channels)
  /\ told \in [ord : Nat, free : SUBSET Channels]
  /\ still \in BOOLEAN

Init ==
  /\ eng = NewEngine
  /\ phase = "boot"
  /\ contrib = {}
  /\ told = NothingTold
  /\ still = FALSE

--------------------------------------------------------------------------------
\* run: the base layer is seeded once, unless configured off.
Boot(withBase) ==
  /\ phase = "boot"
  /\ phase' = "drain"
  /\ eng' = IF withBase THEN SeedBase(eng) ELSE eng
  /\ UNCHANGED <<contrib, told, still>>

\* Both a spool "add" (drain) and a rider's ctx.admit (seam) end in admit_behavior.
AdmitAny(k, d, e2) ==
  LET new == Build(eng, k.name, k.cls, k.ch, d) IN
  /\ eng.seq < MaxAdmit
  /\ eng' = e2
  /\ told' = IF new \in e2.active /\ new.cls # "passive"
             THEN [ord |-> new.ord, free |-> new.ch \ Blocked(new, eng.active)]
             ELSE NothingTold
  /\ UNCHANGED <<phase, contrib>>

ApplyAdd(k, d) == /\ phase = "drain"
                  /\ AdmitAny(k, d, EngineAdd(eng, k.name, k.cls, k.ch, d))
                  /\ still' = (still /\ ~(k.name = BaseName /\ d = Forever))

SeamAdmit(k, d) == /\ phase = "seam"
                   /\ AdmitAny(k, d, AdmitBehavior(eng, Build(eng, k.name, k.cls, k.ch, d)))
                   /\ UNCHANGED still

Removal(e2) == eng' = e2 /\ UNCHANGED <<phase, contrib, told>>

\* A stop that names its target, as opposed to "stop all".
Named(e2) == Removal(e2) /\ still' = (still \/ (BaseActive(eng) /\ ~BaseActive(e2)))

ApplyStopAll      == phase = "drain" /\ Removal(StopAll(eng)) /\ UNCHANGED still
ApplyStopNamed(n) == phase = "drain" /\ Named(StopNamed(eng, n))
ApplyStopId(i)    == phase = "drain" /\ Named(StopId(eng, i))
SeamEvict(n)      == phase = "seam" /\ Removal(Evict(eng, n)) /\ UNCHANGED still
SeamEvictId(i)    == phase = "seam" /\ Removal(EvictId(eng, i)) /\ UNCHANGED still

\* A rider re-seeds on the clearing edge of an inhibition (ctx.ensure_base).
SeamEnsureBase ==
  /\ phase = "seam"
  /\ eng.seq < MaxAdmit
  /\ eng' = EnsureBase(eng)
  /\ told' = IF eng'.seq > eng.seq THEN NothingTold ELSE told
  /\ UNCHANGED <<phase, contrib, still>>

\* A rider un-stops the base layer (ctx.add_base).
SeamAddBase ==
  /\ phase = "seam"
  /\ eng.seq < MaxAdmit
  /\ eng' = AddBase(eng)
  /\ told' = IF eng'.seq > eng.seq THEN NothingTold ELSE told
  /\ still' = FALSE
  /\ UNCHANGED <<phase, contrib>>

\* compose_tick, stream, publish: the tick's own work.  Any reactive behavior may
\* be done or abstain; the base layer always drives every channel.
Reactive == {b \in Live(eng) : ~b.base}

ComposeTick(done, quiet) ==
  LET composed == {b \in Live(eng) : b.ord \notin done} IN
  /\ phase = "drain"
  /\ contrib' = Pairs(composed) \ quiet
  /\ eng' = Compose(eng, done, contrib')
  /\ phase' = "seam"
  /\ UNCHANGED <<told, still>>

\* The seam returns, the loop sleeps out the period, the clock has moved by d.
EndTick(d) ==
  /\ phase = "seam"
  /\ phase' = "drain"
  /\ eng' = Age(eng, d)
  /\ UNCHANGED <<contrib, told, still>>

Ords == {b.ord : b \in eng.active}

Operators ==
  \/ \E k \in Catalog, d \in Durations : ApplyAdd(k, d)
  \/ ApplyStopAll
  \/ \E n \in Names : ApplyStopNamed(n)
  \/ \E i \in Ords : ApplyStopId(i)

Riders ==
  \/ \E k \in Catalog, d \in Durations : SeamAdmit(k, d)
  \/ \E n \in Names : SeamEvict(n)
  \/ \E i \in Ords : SeamEvictId(i)
  \/ SeamEnsureBase
  \/ SeamAddBase

Tick ==
  \/ \E done \in SUBSET {b.ord : b \in Reactive} :
       \E quiet \in SUBSET Pairs({b \in Reactive : b.ord \notin done}) :
         ComposeTick(done, quiet)
  \/ \E d \in 1 .. MaxStep : EndTick(d)

Next ==
  \/ \E withBase \in BOOLEAN : Boot(withBase)
  \/ Operators
  \/ Riders
  \/ Tick

Spec == Init /\ [][Next]_vars

--------------------------------------------------------------------------------
(* Properties *)

\* Never a second base layer: neither the un-stop verb nor the clearing edge may
\* add one beside an active one (ensure_base, _add_base).
AtMostOneBase == \A a, b \in eng.active : a.base /\ b.base => a = b

\* The recorded cause accounts for the base layer at every moment: a seeded base
\* layer is absent exactly when somebody is on record for having removed it, so
\* no expiry, completion or eviction by a stopping newcomer loses it silently.
CauseAccountsForBase ==
  IF eng.seeded THEN BaseActive(eng) <=> eng.cause = "none"
                ELSE ~BaseActive(eng) /\ eng.cause = "none"

\* "stop all" keeps whatever base layer is active, first seed or re-seed.
StopAllKeepsBase == [][ApplyStopAll => (BaseActive(eng) => BaseActive(eng)')]_vars

\* A stop of the base layer by name or id holds until the un-stop verb: whatever
\* is admitted, evicted, inhibited and cleared meanwhile, the robot stays still.
StillnessHeld == still => ~BaseActive(eng)

\* A channel is never taken from a behavior that still drives it by one of a
\* lower class, nor by one that was already driving it at the tick before.
ClassProtectsChannel ==
  [][\A c \in Channels : \A a, b \in eng'.active :
       /\ eng.own[c] = a.ord /\ eng'.own[c] = b.ord /\ a # b
       /\ <<a.ord, c>> \in contrib'
       => Priority(b.cls) >= Priority(a.cls) /\ <<b.ord, c>> \notin contrib]_vars

\* An add's outcome can be relied on: a channel it did not list as blocked is
\* the newcomer's at the next compose, if it drives it, unless something else
\* is admitted in between.
UnblockedMeansOwned ==
  [][phase = "drain" /\ phase' = "seam" =>
       \A c \in told.free : <<told.ord, c>> \in contrib' => eng'.own[c] = told.ord]_vars

\* The base layer and its cause through every order of spool commands and riders'
\* calls: one at most, its absence always accounted for, stillness kept.
BaseLayerSound == TypeOK /\ AtMostOneBase /\ CauseAccountsForBase /\ StillnessHeld

\* A channel is driven by whom the stop classes and the answers to the callers say
\* (arbitrate, admit).
ChannelsSound == ClassProtectsChannel /\ UnblockedMeansOwned
================================================================================
