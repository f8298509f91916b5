------------------------------- MODULE EngineOps -------------------------------
(***************************************************************************)
(* Arbitration and admission (reachy/behavior/arbitration.py, model.py),   *)
(* and the operations of reachy/behavior/engine.py's Engine as functions   *)
(* on its state, so that a handler that makes several engine calls in one  *)
(* tick composes them.                                                     *)
(*                                                                         *)
(* A behavior is a record [ord, name, cls, ch, left, base].  The code's    *)
(* list of live behaviors is only ever appended to and filtered, so its    *)
(* order is the order of admission: `ord` is that position, and it also    *)
(* stands for the behavior's unique id.  An engine is a record             *)
(*   active    the active set                                              *)
(*   seq       ids handed out so far                                       *)
(*   baseIds   _base_ids: every id ever given to a base layer              *)
(*   seeded    _base_seeded                                                *)
(*   cause     _base_stopped_by: "none" | "stop" | "inhibition"            *)
(*   reported  _base_stop_reported                                         *)
(*   own       _last_ownership                                             *)
(***************************************************************************)
EXTENDS Integers, FiniteSets

CONSTANTS Channels,    \* CHANNELS: the groups of joints resolved as a unit
          Names,       \* names of the behavior library
          BaseName     \* BASE_LAYER_NAME, the passive "feel-alive"

ASSUME BaseNameAssumption == BaseName \in Names
ASSUME ChannelsAssumption == Channels # {}

--------------------------------------------------------------------------------
(* Arbitration *)

StopClasses == {"passive", "stoppable", "stopping", "unstoppable"}

Priority(cls) == CASE cls = "passive"     -> 0
                   [] cls = "stoppable"   -> 1
                   [] cls = "stopping"    -> 2
                   [] cls = "unstoppable" -> 3

\* The sort key of `arbitrate`: priority first, then recency.
Outranks(a, b) == \/ Priority(a.cls) > Priority(b.cls)
                  \/ Priority(a.cls) = Priority(b.cls) /\ a.ord > b.ord

NoOwner == 0           \* None; ids start at 1

Best(S) == CHOOSE b \in S : \A x \in S \ {b} : Outranks(b, x)

Owner(S) == IF S = {} THEN NoOwner ELSE Best(S).ord

\* `speaks` is the set of <<ord, channel>> for which the tick's contribution is
\* not None: a claimant that abstains lets the channel fall through.
Claimants(live, speaks, c) == {b \in live : c \in b.ch /\ <<b.ord, c>> \in speaks}

Arbitrate(live, speaks) == [c \in Channels |-> Owner(Claimants(live, speaks, c))]

\* `arbitrate` without contributions: purely claim-based.
ClaimOwners(live) == [c \in Channels |-> Owner({b \in live : c \in b.ch})]

\* What admitting `new` removes: only a stopping newcomer removes anything.
Evicted(new, live) ==
  IF new.cls = "stopping"
  THEN {b \in live : b.cls = "stoppable" /\ b.ch \cap new.ch # {}}
  ELSE {}

\* Faulty: only unstoppable incumbents are reported as blocking.
BlockedByUnstoppableOnly(new, live) ==
  {c \in new.ch : \E b \in live : c \in b.ch /\ b.cls = "unstoppable"}

\* The channels `new` is told it must wait for; a passive newcomer is told none.
Blocked(new, live) ==
  IF new.cls = "passive" THEN {}
  ELSE {c \in new.ch : ClaimOwners((live \ Evicted(new, live)) \cup {new})[c] # new.ord}

--------------------------------------------------------------------------------
(* The engine *)

Forever == -1          \* lifetime.duration is None

(* `left` is what remains of the duration: 0 means t_local >= duration. *)
Behaviors == [ord : Nat \ {0}, name : Names, cls : StopClasses,
              ch : SUBSET Channels, left : Nat \cup {Forever}, base : BOOLEAN]

Engines == [active : SUBSET Behaviors, seq : Nat, baseIds : SUBSET (Nat \ {0}),
            seeded : BOOLEAN, cause : {"none", "stop", "inhibition"},
            reported : BOOLEAN, own : [Channels -> Nat]]

NewEngine == [active |-> {}, seq |-> 0, baseIds |-> {}, seeded |-> FALSE,
              cause |-> "none", reported |-> FALSE,
              own |-> [c \in Channels |-> NoOwner]]

BaseActive(e) == \E b \in e.active : b.base

ActiveNames(e) == {b.name : b \in e.active}

ByName(e, n) == {b \in e.active : b.name = n}

ById(e, i) == {b \in e.active : b.ord = i}

--------------------------------------------------------------------------------
(* Building and admitting *)

BaseBehavior(i) == [ord |-> i, name |-> BaseName, cls |-> "passive",
                    ch |-> Channels, left |-> Forever, base |-> TRUE]

\* _seed_base: the one path that makes a base id.
SeedBase(e) ==
  [e EXCEPT !.active   = @ \cup {BaseBehavior(e.seq + 1)},
            !.seq      = @ + 1,
            !.baseIds  = @ \cup {e.seq + 1},
            !.seeded   = TRUE,
            !.cause    = "none",
            !.reported = FALSE]

\* _add_base: the un-stop verb; a no-op while a base layer is active.
AddBase(e) == IF BaseActive(e) THEN e ELSE SeedBase(e)

\* Faulty: the cause of the removal is not looked at.
EnsureBaseAnyCause(e) == IF e.seeded THEN AddBase(e) ELSE e

\* ensure_base: refuses when never seeded or stopped by name (reported once).
EnsureBase(e) ==
  CASE ~e.seeded                          -> e
    [] e.seeded /\ e.cause = "stop"       -> [e EXCEPT !.reported = TRUE]
    [] e.seeded /\ e.cause # "stop"       -> AddBase(e)

Build(e, n, cls, ch, dur) ==
  [ord |-> e.seq + 1, name |-> n, cls |-> cls, ch |-> ch, left |-> dur, base |-> FALSE]

\* admit_behavior: admit, evict, append.
AdmitBehavior(e, b) ==
  [e EXCEPT !.active = (@ \ Evicted(b, @)) \cup {b}, !.seq = b.ord]

\* add: an unbounded looping add of the base name re-seeds the base layer.
EngineAdd(e, n, cls, ch, dur) ==
  IF n = BaseName /\ dur = Forever THEN AddBase(e)
  ELSE AdmitBehavior(e, Build(e, n, cls, ch, dur))

--------------------------------------------------------------------------------
(* Removing *)

Removable(e) == {b \in e.active : b.ord \notin e.baseIds}

\* _remove: drop `hits`, and record why when the base layer is among them.
Remove(e, hits, why) ==
  [e EXCEPT !.active   = @ \ hits,
            !.cause    = IF \E b \in hits : b.base THEN why ELSE @,
            !.reported = IF \E b \in hits : b.base THEN FALSE ELSE @]

StopNamed(e, n) == Remove(e, ByName(e, n), "stop")
StopId(e, i)    == Remove(e, ById(e, i), "stop")
StopAll(e)      == Remove(e, Removable(e), "stop")

\* ctx.evict is bound to Engine.evict, the removal attributed to an inhibition.
Evict(e, n)     == Remove(e, ByName(e, n), "inhibition")
EvictId(e, i)   == Remove(e, ById(e, i), "inhibition")
EvictNames(e, S) == Remove(e, {b \in e.active : b.name \in S}, "inhibition")

--------------------------------------------------------------------------------
(* The tick *)

Live(e) == {b \in e.active : b.left # 0}

\* compose_tick: drop the expired, then those whose contribution is done, then
\* resolve the channels among what is left.
Compose(e, done, speaks) ==
  LET live == {b \in Live(e) : b.ord \notin done} IN
  [e EXCEPT !.active = live, !.own = Arbitrate(live, speaks)]

\* Time d passes between two ticks.
Older(b, d) ==
  [b EXCEPT !.left = IF @ = Forever THEN Forever ELSE IF @ > d THEN @ - d ELSE 0]

Age(e, d) == [e EXCEPT !.active = {Older(b, d) : b \in @}]
================================================================================
