------------------------------ MODULE Orienting ------------------------------
(* Turning toward a sound: the loudness of the room relative to itself, deaf   *)
(* while the robot's own motors run; the gate that asks for energy and a       *)
(* bearing that holds still; the turn, its hold and the drift home.  The loop  *)
(* is closed: a turn is motor noise, heard with a lag, from anywhere.          *)
(* One step is one tick; a duration is a number of ticks.                      *)
EXTENDS Integers, FiniteSets, Sequences

CONSTANTS
  Bearings,                \* where a sound may come from
  Window, EpisodeHold, EpisodeMax,   \* of the background estimate
  MotionTail,                    \* for how long after a motion it counts as moving
  Lag,                     \* for how long after a motion the motors are heard
  Attack, ReleaseAfter,         \* of the noise envelope
  Dwell, Sustain, LatchAfter,
  Turn, Hold, RecenterAfter,
  MaxChanges, MaxWords     \* bounds: how often the room changes, words heard

OrientAssumption ==
  /\ {Window, EpisodeHold, EpisodeMax, Attack, ReleaseAfter, Turn, RecenterAfter} \subseteq Nat \ {0}
  /\ {MotionTail, Lag, Dwell, Sustain, LatchAfter, Hold, MaxChanges, MaxWords} \subseteq Nat
  /\ Lag <= MotionTail

VARIABLES
  outside,    \* what sounds in the room: a bearing, or "none"
  changes, words,
  window,     \* the background's samples, oldest first: [age, loud]
  hot, hotLeft,            \* the open episode: its age (-1: none), what is left of its hold
  moving, sinceMotion,     \* the latch of self_moving; ticks since the last motion
  ref, held,               \* the bearing that is holding still, and for how long
  streak, open, quiet, sustained,    \* the noise envelope
  last, same,              \* the bit-identical bearing and for how long
  head, lean,              \* targets of the head and of the antennas: a bearing or "home"
  easing, hold, calm,      \* ticks of motion left; of the hold; ticks since a live tier
  from, steady,   \* ghost: where sound or words have come from, and for how long
  earned      \* ghost: the last turn of the head had cause

room == <<outside, changes, words>>
background == <<window, hot, hotLeft>>
gate == <<ref, held, streak, open, quiet, sustained, last, same>>
body == <<moving, sinceMotion, head, lean, easing, hold, calm>>
vars == <<room, background, gate, body, from, steady, earned>>

Init ==
  /\ outside = "none" /\ changes = 0 /\ words = 0
  /\ window = <<>> /\ hot = -1 /\ hotLeft = 0
  /\ moving = FALSE /\ sinceMotion = MotionTail + 1
  /\ ref = "none" /\ held = 0
  /\ streak = 0 /\ open = FALSE /\ quiet = -1 /\ sustained = 0
  /\ last = "none" /\ same = 0
  /\ head = "home" /\ lean = "home" /\ easing = 0 /\ hold = 0 /\ calm = -1
  /\ from = "none" /\ steady = 0 /\ earned = TRUE

Cap(n, most) == IF n > most THEN most ELSE n
Less(n) == IF n > 0 THEN n - 1 ELSE 0

(* ------------------------- what is heard ---------------------------------- *)
Heard == outside # "none" \/ sinceMotion <= Lag
Reading == ~moving /\ Heard        \* a floor of infinity: nothing while it moves

Median(w) == Cardinality({i \in DOMAIN w : w[i].loud}) * 2 > Len(w)
Above(w) == w # <<>> /\ Reading /\ ~Median(w)

Aged(w) == [i \in DOMAIN w |-> [w[i] EXCEPT !.age = Cap(@ + 1, Window + 1)]]
Evicted(w) == SelectSeq(w, LAMBDA s : s.age <= Window)

(* A loud sample opens an episode or prolongs it; while one is open, and not   *)
(* for longer than its limit, nothing is learned and nothing forgotten.        *)
HotNow == IF hot = -1 \/ hotLeft <= 1 THEN -1 ELSE Cap(hot + 1, EpisodeMax)
Frozen(h) == h # -1 /\ h < EpisodeMax

Listen ==
  LET before == Frozen(HotNow)
      kept == IF moving \/ before THEN Aged(window) ELSE Evicted(Aged(window))
      up == Above(kept)
      after == IF up /\ HotNow = -1 THEN 0 ELSE HotNow
      left == IF up THEN EpisodeHold ELSE Less(hotLeft)
  IN /\ hot' = after /\ hotLeft' = left
     /\ window' = IF moving \/ Frozen(after) THEN kept
                  ELSE Append(kept, [age |-> 0, loud |-> Reading])

Present == Above(IF moving \/ Frozen(HotNow) THEN Aged(window) ELSE Evicted(Aged(window)))

(* --------------------------- the gate -------------------------------------- *)
FaultyStays(angle) == ref # "none"     \* any bearing keeps the count going
Stays(angle) == ref = angle
HeldFor(angle) == IF Stays(angle) THEN Cap(held + 1, Dwell + 1) ELSE 0

Identical(angle, exact) == exact /\ angle # "none" /\ angle = last
Latched(angle, exact) == Identical(angle, exact) /\ same + 1 >= LatchAfter
Track(angle, exact) ==
  /\ last' = angle
  /\ same' = IF Identical(angle, exact) THEN Cap(same + 1, LatchAfter) ELSE 0

QuietEnvelope ==
  LET q == IF quiet = -1 THEN 0 ELSE Cap(quiet + 1, ReleaseAfter) IN
  /\ streak' = 0
  /\ IF open /\ q < ReleaseAfter
       THEN open' = TRUE /\ quiet' = q /\ sustained' = Cap(sustained + 1, Sustain)
       ELSE open' = FALSE /\ quiet' = -1 /\ sustained' = 0
OpensAt == IF open THEN Attack ELSE Cap(streak + 1, Attack)
LoudEnvelope(force) ==
  LET opens == open \/ force \/ OpensAt >= Attack IN
  /\ quiet' = -1 /\ open' = opens
  /\ streak' = IF force THEN 0 ELSE OpensAt
  /\ sustained' = IF open THEN Cap(sustained + 1, Sustain) ELSE 0

Promoted(loud) == loud \/ (open /\ sustained + 1 >= Sustain) \/ Sustain = 0

(* The verdict of a tick on the bearing "angle", the daemon's speech flag, a   *)
(* transcript, and whether what is above the background is far above it.       *)
Tier(angle, speech, word, loud) ==
  CASE angle = "none"     -> IF open' THEN "noise" ELSE "none"
    [] angle # "none" /\ word -> "engaged"
    [] angle # "none" /\ ~word /\ ~Present -> IF open' THEN "noise" ELSE "none"
    [] OTHER -> IF speech /\ HeldFor(angle) >= Dwell /\ Promoted(loud) THEN "speech"
                ELSE IF open' THEN "noise" ELSE "none"

Judge(angle, exact, speech, word, loud) ==
  /\ Track(angle, exact)
  /\ IF angle = "none" \/ (~word /\ ~Present)
       THEN ref' = "none" /\ held' = 0 /\ QuietEnvelope
       ELSE /\ held' = HeldFor(angle) /\ ref' = angle
            /\ LoudEnvelope(word \/ (speech /\ HeldFor(angle) >= Dwell /\ Promoted(loud)))

(* --------------------------- the turn -------------------------------------- *)
(* Off its heading: a nudge of the speech tier leaves it short of the bearing, *)
(* so a tick may find the head off a heading it has already been sent to.      *)
Commit(tier, angle, off) ==
  CASE tier \in {"engaged", "speech"} /\ off ->
         /\ head' = angle /\ lean' = angle
         /\ easing' = IF head = angle /\ lean = angle THEN Less(easing) ELSE Turn
         /\ hold' = Turn + Hold
    [] OTHER ->
         /\ lean' = angle /\ easing' = IF lean = angle THEN Less(easing) ELSE Turn
         /\ hold' = Less(hold) /\ UNCHANGED head

Recenter ==
  /\ head' = "home" /\ lean' = "home" /\ hold' = 0
  /\ easing' = IF head = "home" /\ lean = "home" THEN Less(easing) ELSE Turn

Rest == easing' = Less(easing) /\ hold' = Less(hold) /\ UNCHANGED <<head, lean>>

(* The rider that watches the commanded pose sees what the tick composed.      *)
SelfMotion ==
  /\ sinceMotion' = IF easing > 0 THEN 0 ELSE Cap(sinceMotion + 1, MotionTail + 1)
  /\ moving' = (easing > 0 \/ (moving /\ sinceMotion' < MotionTail))

Act(tier, angle, off) ==
  /\ calm' = IF tier # "none" THEN 0 ELSE IF calm = -1 THEN -1 ELSE Cap(calm + 1, RecenterAfter)
  /\ IF tier # "none" /\ hold <= 1 /\ angle # "none" THEN Commit(tier, angle, off)
     ELSE IF tier = "none" /\ calm' >= RecenterAfter THEN Recenter
     ELSE Rest
  /\ SelfMotion

(* The daemon's angle: where the room sounds from, or, when only the motors    *)
(* are heard or nothing is, anything.                                          *)
Angles == IF outside # "none" THEN {outside} ELSE Bearings \union {"none"}

Tick(angle, exact, speech, word, loud, off) ==
  /\ angle \in Angles
  /\ off \/ head = angle
  /\ speech \/ loud => Present /\ ~word /\ angle # "none"      \* else neither is asked for
  /\ word => words < MaxWords
  /\ words' = words + (IF word THEN 1 ELSE 0)
  /\ Listen
  /\ Judge(angle, exact, speech, word, loud)
  /\ from' = IF outside # "none" THEN outside ELSE IF word THEN angle ELSE "none"
  /\ steady' = IF from' = "none" THEN 0 ELSE IF from' = from THEN Cap(steady + 1, Dwell + 1) ELSE 1
  /\ LET tier == IF Latched(angle, exact) THEN "none" ELSE Tier(angle, speech, word, loud)
     IN /\ Act(tier, angle, off)
        /\ earned' = (head' \in {head, "home"} \/ word \/ (from' = head' /\ steady' > Dwell))
  /\ UNCHANGED <<outside, changes>>

Change ==
  /\ changes < MaxChanges /\ changes' = changes + 1
  /\ \E o \in (Bearings \union {"none"}) \ {outside} : outside' = o
  /\ UNCHANGED <<words, background, gate, body, from, steady, earned>>

Ticks == \E angle \in Bearings \union {"none"}, exact, speech, word, loud, off \in BOOLEAN :
           Tick(angle, exact, speech, word, loud, off)
Next == Ticks \/ Change
Spec == Init /\ [][Next]_vars /\ WF_vars(Ticks)

-----------------------------------------------------------------------------
(* The head turns only to words, or to a sound of the room that has held its   *)
(* place for the whole dwell: never to the noise of its own motors.            *)
TurnsEarned == earned

(* In a room that stays as it is, silent or with a noise that never ends, the  *)
(* head comes home and stays: what does not change becomes the background.     *)
Settles == <>[](head = "home")
=============================================================================
