------------------------------ MODULE RuleEngine ------------------------------
(***************************************************************************)
(* reachy/behavior/rule_engine.py (RuleEngine) behind reload_driver.py     *)
(* (ReloadDriver) and rules.py (RulesLoader): the first rider of the tick. *)
(* A tick drains the reload spool, then runs the inhibit rules and the     *)
(* react rules on the tick's sense reading, each gated by its cooldown and *)
(* its hysteresis, and reports every suppression streak as one episode.    *)
(* Times are ages (now - t), saturated at AgeCap, which no threshold       *)
(* exceeds; counts are saturated at CountCap.                              *)
(***************************************************************************)
EXTENDS Integers, Sequences

CONSTANTS
  Fields,      \* sense fields the rules look at
  Senses,      \* the readings a tick may have: "none", "low" or "high" each
  BehaviorNames,   \* behavior names
  Foreign,     \* those that commands and intents add
  ModeNames,   \* mode names
  Shipped,     \* the shipped layer's configuration
  Overlays,    \* what a valid overlay file makes of it
  MaxStep,     \* largest time between two ticks
  AgeCap, CountCap

NoName == "no behavior"
NoMode == "no mode"
\* No reload command waits, or the overlay it makes the loader read is malformed.
NoReload == [rules |-> <<>>, modes |-> {}, mode |-> "no reload"]
None == -1                       \* last_fire_t and false_since before any

Configs == Overlays \cup {Shipped}

IdsOf(cfg) == DOMAIN cfg.rules   \* a rule is found by its id
InhibitsOf(cfg) == {i \in IdsOf(cfg) : cfg.rules[i].run = NoName}

AgeAssumption ==
  /\ AgeCap \in Nat /\ CountCap \in Nat \ {0, 1} /\ MaxStep \in Nat \ {0}
  /\ \A cfg \in Configs : \A i \in IdsOf(cfg) :
       LET r == cfg.rules[i] IN
       r.cooldown \in 0 .. AgeCap /\ r.hysteresis \in 0 .. AgeCap /\ r.when.value <= AgeCap
SenseAssumption == Senses \subseteq [Fields -> {"none", "low", "high"}]
ModeAssumption ==
  \A cfg \in Configs : cfg.modes \subseteq ModeNames /\ cfg.mode \in cfg.modes \cup {NoMode}
NameAssumption ==
  /\ Foreign \subseteq BehaviorNames /\ NoName \notin BehaviorNames
  /\ \A cfg \in Configs : \A i \in IdsOf(cfg) :
       cfg.rules[i].run \in BehaviorNames \cup {NoName} /\ cfg.rules[i].disable \subseteq BehaviorNames
RulesAssumption == AgeAssumption /\ SenseAssumption /\ ModeAssumption /\ NameAssumption

VARIABLES
  config,      \* _config of the live engine, which is loader.current
  activeMode,  \* its active_mode
  rs,          \* _state: what the engine keeps for each rule
  absent,      \* now - _last_present, for each field
  started,     \* _started: the presence clocks are seeded
  active,      \* behaviors running: their names, and whether a rule ran them
  sense,       \* the last tick's reading
  log,         \* what the last tick emitted, for each rule
  parity,      \* the parity of the tick number
  seen         \* history: see the properties

rulesVars == <<config, activeMode, rs, absent, started, active, sense, log, parity, seen>>

Grown(a, d) == IF a = None THEN None ELSE IF a + d > AgeCap THEN AgeCap ELSE a + d
More(n) == IF n = CountCap THEN n ELSE n + 1

NewState == [last |-> None, false |-> None, armed |-> TRUE,
             reason |-> "none", ticks |-> 0]
FreshStates(cfg) == [i \in IdsOf(cfg) |-> NewState]

NewSeen == [quiet |-> AgeCap, rest |-> AgeCap, still |-> None, held |-> None,
            owed |-> 0, due |-> 0]
FreshSeen(cfg) == [i \in IdsOf(cfg) |-> NewSeen]

\* The boot loads the overlay, and falls back to the shipped layer.
RulesInit ==
  /\ config \in Configs
  /\ activeMode = config.mode
  /\ rs = FreshStates(config) /\ log = [i \in IdsOf(config) |-> <<>>]
  /\ absent = [f \in Fields |-> 0] /\ started = FALSE
  /\ active = {}
  /\ sense \in Senses /\ parity = 0
  /\ seen = [rules |-> FreshSeen(config), gone |-> [f \in Fields |-> 0]]

--------------------------------------------------------------------------------
(* Predicates *)

Present(s, f) == s[f] # "none"

\* _track_presence, `ab` being the ages at this tick.
Tracked(ab, seeded, s) ==
  [f \in Fields |-> IF Present(s, f) \/ ~seeded THEN 0 ELSE ab[f]]

\* _eval: a field without a reading fails every comparison.
Holds(p, s, ab) ==
  CASE p.op = "absent_for" -> ab[p.field] >= p.value
    [] p.op = "is_true"    -> Present(s, p.field)
    [] p.op = "is_false"   -> ~Present(s, p.field)
    [] p.op = "gt"         -> s[p.field] = "high"

\* _current_inhibited: independent of the rules' cooldowns.
Inhibited(cfg, s, ab) ==
  UNION {cfg.rules[i].disable :
           i \in {j \in InhibitsOf(cfg) : Holds(cfg.rules[j].when, s, ab)}}

--------------------------------------------------------------------------------
(* Arming *)

\* Faulty: a match does not break the continuity of False.
SteppedThroughMatch(k, r, matched) ==
  LET f == IF k.false = None /\ ~matched THEN 0 ELSE k.false IN
  [k EXCEPT !.false = f, !.armed = @ \/ (~matched /\ f >= r.hysteresis)]

\* _step_arming
Stepped(k, r, matched) ==
  IF matched THEN [k EXCEPT !.false = None]
  ELSE LET f == IF k.false = None THEN 0 ELSE k.false IN
       [k EXCEPT !.false = f, !.armed = @ \/ f >= r.hysteresis]

Cooling(k, r) == k.last # None /\ k.last < r.cooldown

\* _mark_fired
Fired(k, r) ==
  [k EXCEPT !.last = 0, !.armed = @ /\ r.hysteresis = 0,
            !.false = IF r.hysteresis > 0 THEN None ELSE @]

\* Why a matching rule may not fire now, in the order the code asks; an
\* inhibit rule runs no behavior and is never inhibited or already active.
Verdict(k, r, blocked, running) ==
  CASE r.run \in blocked                                 -> "inhibited"
    [] r.run \notin blocked /\ ~k.armed                  -> "rearming"
    [] r.run \notin blocked /\ k.armed /\ Cooling(k, r)  -> "cooldown"
    [] r.run \notin blocked /\ k.armed /\ ~Cooling(k, r) ->
         IF r.run \in running THEN "already-active" ELSE "fired"

--------------------------------------------------------------------------------
(* Suppression episodes *)

Line(why, n) == [what |-> why, ticks |-> n]

\* _suppress: a line when the reason changes, else a count.
Suppressed(k, why) ==
  [k EXCEPT !.ticks = More(@), !.reason = why]
SuppressLines(k, why) ==
  IF k.reason = why THEN <<>> ELSE <<Line(why, 0)>>

\* _release_suppression: one summary closes the episode.
EpisodeOver(k) == [k EXCEPT !.reason = "none", !.ticks = 0]
ReleaseLines(k) ==
  IF k.reason = "none" THEN <<>> ELSE <<Line("summary", k.ticks)>>

--------------------------------------------------------------------------------
(* One tick *)

\* _step_arming of every rule, before any of them may fire.
Armed(cfg, states, s, ab) ==
  [i \in IdsOf(cfg) |-> Stepped(states[i], cfg.rules[i], Holds(cfg.rules[i].when, s, ab))]

\* on_tick, k being what _step_arming left.  The inhibit rules, which touch
\* nothing of one another, evict what they disable; the react rules then take
\* their turns, and one that follows a rule which just ran the same behavior
\* finds it active.
OnTick(cfg, k, s, ab) ==
  LET ids     == IdsOf(cfg)
      match   == {i \in ids : Holds(cfg.rules[i].when, s, ab)}
      blocked == Inhibited(cfg, s, ab)
      Why(i, running) == Verdict(k[i], cfg.rules[i], blocked, running)
      evicts  == {i \in match \cap InhibitsOf(cfg) : Why(i, {}) = "fired"}
      left    == {b \in active : \A i \in evicts : b.name \notin cfg.rules[i].disable}
      names   == {b.name : b \in left}
      Ran(i)  == {cfg.rules[j].run : j \in {n \in match \ InhibitsOf(cfg) :
                     cfg.rules[n].at < cfg.rules[i].at /\ Why(n, names) = "fired"}}
      why     == [i \in match |-> Why(i, names \cup Ran(i))]
      fires   == {i \in match : why[i] = "fired"}
  IN [match  |-> match, fires |-> fires,
      active |-> left \cup {[name |-> cfg.rules[i].run, ruled |-> TRUE] :
                               i \in fires \ InhibitsOf(cfg)},
      rs  |-> [i \in ids |-> IF i \in fires THEN Fired(EpisodeOver(k[i]), cfg.rules[i])
                             ELSE IF i \in match THEN Suppressed(k[i], why[i])
                             ELSE EpisodeOver(k[i])],
      log |-> [i \in ids |-> IF i \in fires
                             THEN ReleaseLines(k[i]) \o <<Line("fired", 0)>>
                             ELSE IF i \in match THEN SuppressLines(k[i], why[i])
                             ELSE ReleaseLines(k[i])]]

\* History of a rule.  still: how long it has not matched, without a match in
\* between; quiet: the longest such time since it last fired, and rest: what
\* quiet was when it did; held: how long it has matched; owed: ticks of the
\* suppression streak it is in, and due: of the streak that ended in this tick.
Seen(x, matched, fired, d) ==
  LET still == IF matched THEN None
               ELSE IF x.still = None THEN 0 ELSE Grown(x.still, d)
      waits == matched /\ ~fired IN
  [still |-> still,
   quiet |-> IF fired THEN 0 ELSE IF still > x.quiet THEN still ELSE x.quiet,
   rest  |-> IF fired THEN x.quiet ELSE x.rest,
   held  |-> IF ~matched THEN None ELSE IF x.held = None THEN 0 ELSE Grown(x.held, d),
   owed  |-> IF waits THEN More(x.owed) ELSE 0,
   due   |-> IF waits THEN 0 ELSE x.owed]

\* A reload's own active_mode wins.
ModeAfter(found) == IF found # NoReload THEN found.mode ELSE activeMode

\* ReloadDriver.__call__ drains the reload spool, `found` being what the file
\* then holds: a valid file makes a new engine, with new timing state and
\* unseeded clocks; a malformed one leaves the last good.
Tick ==
  \E d \in 1..MaxStep, s \in Senses, found \in Configs \cup {NoReload} :
    LET reloaded == found # NoReload
        cfg  == IF reloaded THEN found ELSE config
        old  == IF reloaded THEN FreshStates(cfg)
                ELSE [i \in DOMAIN rs |-> [rs[i] EXCEPT !.last = Grown(@, d),
                                                        !.false = Grown(@, d)]]
        hist == IF reloaded THEN FreshSeen(cfg) ELSE seen.rules
    IN \E ab \in {Tracked([f \in Fields |-> Grown(absent[f], d)], started /\ ~reloaded, s)} :
       \E k \in {Armed(cfg, old, s, ab)} : \E t \in {OnTick(cfg, k, s, ab)} :
       /\ config' = cfg /\ activeMode' = ModeAfter(found)
       /\ rs' = t.rs /\ absent' = ab /\ started' = TRUE
       /\ active' = t.active /\ log' = t.log /\ sense' = s
       /\ parity' = 1 - parity
       /\ seen' = [rules |-> [i \in IdsOf(cfg) |->
                               Seen(hist[i], i \in t.match, i \in t.fires, d)],
                   gone  |-> [f \in Fields |-> IF Present(s, f) THEN 0
                                               ELSE Grown(seen.gone[f], d)]]

--------------------------------------------------------------------------------
(* Between the ticks *)

\* set_active_mode: an unknown mode is refused.
SetActiveMode ==
  /\ activeMode' \in (config.modes \cup {NoMode}) \ {activeMode}
  /\ UNCHANGED <<config, rs, absent, started, active, sense, log, parity, seen>>

\* A behavior expires, is stopped, or loses to another admission.
Ends ==
  /\ \E b \in active : active' = active \ {b}
  /\ UNCHANGED <<config, activeMode, rs, absent, started, sense, log, parity, seen>>

\* A behavior is added by a command or an intent.
Added ==
  /\ \E n \in Foreign : /\ [name |-> n, ruled |-> FALSE] \notin active
                      /\ active' = active \cup {[name |-> n, ruled |-> FALSE]}
  /\ UNCHANGED <<config, activeMode, rs, absent, started, sense, log, parity, seen>>

RulesNext == Tick \/ SetActiveMode \/ Ends \/ Added

\* The engine thread ticks on while the runtime is up: Tick, which is always
\* enabled and alone changes the parity, is taken again and again.
Ticks == parity' = 1 - parity
RulesSpec == RulesInit /\ [][RulesNext]_rulesVars /\ WF_parity(Ticks)

--------------------------------------------------------------------------------
(* What should hold *)

RuleIds == IdsOf(config)

\* The types.  The timing state is that of the rules now in force, an open
\* episode has a count, and the active mode is one the configuration has: what
\* set_mode sets must not survive a reload that drops the mode
\* (RuleEngine.set_active_mode, ReloadDriver.set_active_mode).
RulesTypeOK ==
  /\ config \in Configs /\ activeMode \in config.modes \cup {NoMode}
  /\ DOMAIN rs = RuleIds
  /\ \A i \in RuleIds :
       /\ rs[i].last \in None..AgeCap /\ rs[i].false \in None..AgeCap
       /\ rs[i].armed \in BOOLEAN /\ rs[i].ticks \in 0..CountCap
       /\ (rs[i].ticks = 0) = (rs[i].reason = "none")
  /\ absent \in [Fields -> 0..AgeCap] /\ started \in BOOLEAN
  /\ active \subseteq [name : BehaviorNames, ruled : BOOLEAN]
  /\ sense \in Senses /\ parity \in 0..1

\* Between two firings of a rule its predicate was False for `hysteresis`
\* seconds without a break, however matches, suppressions and gaps between the
\* ticks interleave (_step_arming; docs/operating-reachy.md:1901).
Rearmed == \A i \in RuleIds : seen.rules[i].rest >= config.rules[i].hysteresis

\* A suppression streak opens with a line that names its reason, and the tick
\* that ends it closes it with one summary that counts its ticks: the streak is
\* told from the readings, whatever the ledger holds (_suppress,
\* _release_suppression).
EpisodesTold ==
  \A i \in RuleIds :
    LET lines == {log[i][n] : n \in DOMAIN log[i]}
        x == seen.rules[i] IN
    /\ {l \in lines : l.what = "summary"} =
         IF x.due = 0 THEN {} ELSE {Line("summary", x.due)}
    /\ x.owed = 1 => \E l \in lines : l.what \notin {"summary", "fired"}

\* Once an inhibit rule without hysteresis has matched for its cooldown, nothing
\* a rule ran of what it disables is running: neither a behavior from before the
\* match nor one admitted between two of its evictions (_current_inhibited,
\* _fire_inhibit_rule).
InhibitClears ==
  \A i \in InhibitsOf(config) :
    LET r == config.rules[i] IN
    (r.hysteresis = 0 /\ seen.rules[i].held >= r.cooldown) =>
      \A b \in active : ~(b.ruled /\ b.name \in r.disable)

\* An absence is never overstated: `absent_for` counts from the last reading or
\* from the start of the engine, also across reloads, which start the clocks
\* again (_track_presence).
AbsenceSound == started => \A f \in Fields : absent[f] <= seen.gone[f]

\* What each tick leaves behind, whatever reloads, modes, commands and expiries come in
\* between: the parts above (rule_engine.py).
RulesSound == RulesTypeOK /\ Rearmed /\ EpisodesTold /\ InhibitClears /\ AbsenceSound

\* A react rule without hysteresis whose predicate holds on and on, whose
\* behavior nothing blocks and which is not running, fires: neither its own
\* suppressions nor reloads can hold it back for ever (_fire_reason).
Starved(i) ==
  /\ i \in RuleIds
  /\ LET r == config.rules[i] IN
     /\ r.run # NoName /\ r.hysteresis = 0
     /\ Holds(r.when, sense, absent)
     /\ r.run \notin Inhibited(config, sense, absent)
     /\ ~\E b \in active : b.name = r.run
NoStarvation == \A i \in UNION {IdsOf(c) : c \in Configs} : ~<>[]Starved(i)
================================================================================
