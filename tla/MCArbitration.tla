---------------------------- MODULE MCArbitration ----------------------------
(* Who moves the robot, on four small instances.  The engine: two channels,   *)
(* the base layer, a behavior of each class that may stand beside it, and     *)
(* lives that end or do not.  Intents: the base layer, the name a lock        *)
(* inhibits, one more behavior, and the lock's own, which an operator may run *)
(* too.  The goto lane: a goto of one channel and one of two, against a rival *)
(* that evicts, one of the same class and one that outranks.  The turn        *)
(* towards a sound: a room with two bearings.  The machines share no state: a *)
(* behavior is of one of them, and the initial state says which.              *)
EXTENDS BehaviorEngine, Intents, GotoLane

(* The library: the engine's behaviors and the intents' are some of it each;    *)
(* whoever adds one may give it another class, as the goto's rivals have.       *)
MCNames == {"feel-alive", "nod", "goto", "orient-to-sound", "face-lock"}

MCCatalog == {[name |-> "feel-alive", cls |-> "passive", ch |-> Channels],
              [name |-> "nod", cls |-> "stoppable", ch |-> {"head"}],
              [name |-> "goto", cls |-> "stopping", ch |-> Channels]}

MCDurations == {2, Forever}

IntentNames == {"feel-alive", "orient-to-sound", "nod", "face-lock"}
MCLibrary == [n \in MCNames |-> [cls |-> IF n = "feel-alive" THEN "passive" ELSE "stoppable",
                                 ch |-> {"head"}]]
MCRunnable == IntentNames \ {"nod"}

MCSpecs == {[ch |-> {"head"}, dur |-> 2], [ch |-> {"head", "antennas"}, dur |-> 1]}
MCRivals == {[name |-> "orient-to-sound", cls |-> "stopping", ch |-> {"head"}],
             [name |-> "nod", cls |-> "stoppable", ch |-> {"head"}],
             [name |-> "face-lock", cls |-> "unstoppable", ch |-> {"antennas"}]}
MCRivalTimes == {1, Forever}

VARIABLES
  part,  \* which of the machines runs
  orient_outside, orient_changes, orient_words, orient_window, orient_hot,
  orient_hotLeft, orient_moving, orient_sinceMotion, orient_ref, orient_held,
  orient_streak, orient_open, orient_quiet, orient_sustained, orient_last,
  orient_same, orient_head, orient_lean, orient_easing, orient_hold, orient_calm,
  orient_from, orient_steady, orient_earned

Orient == INSTANCE Orienting WITH
  Bearings <- {"left", "right"}, Window <- 3, EpisodeHold <- 2, EpisodeMax <- 4,
  MotionTail <- 1, Lag <- 1, Attack <- 2, ReleaseAfter <- 1, Dwell <- 2,
  Sustain <- 2, LatchAfter <- 6, Turn <- 1, Hold <- 1, RecenterAfter <- 2,
  MaxChanges <- 2, MaxWords <- 1, outside <- orient_outside,
  changes <- orient_changes, words <- orient_words, window <- orient_window,
  hot <- orient_hot, hotLeft <- orient_hotLeft, moving <- orient_moving,
  sinceMotion <- orient_sinceMotion, ref <- orient_ref, held <- orient_held,
  streak <- orient_streak, open <- orient_open, quiet <- orient_quiet,
  sustained <- orient_sustained, last <- orient_last, same <- orient_same,
  head <- orient_head, lean <- orient_lean, easing <- orient_easing,
  hold <- orient_hold, calm <- orient_calm, from <- orient_from,
  steady <- orient_steady, earned <- orient_earned

OrientVars ==
  <<orient_outside, orient_changes, orient_words, orient_window, orient_hot,
    orient_hotLeft, orient_moving, orient_sinceMotion, orient_ref, orient_held,
    orient_streak, orient_open, orient_quiet, orient_sustained, orient_last,
    orient_same, orient_head, orient_lean, orient_easing, orient_hold, orient_calm,
    orient_from, orient_steady, orient_earned>>

ASSUME IntentsAssumption
ASSUME LaneAssumption
ASSUME Orient!OrientAssumption

(* A machine that was not chosen is off, or stays as it begins.              *)
IntsOff == IntentInit
LaneOff == LaneInit
OrientOff == Orient!Init

MCInit ==
  \/ /\ part = "engine" /\ Init
     /\ IntsOff /\ LaneOff /\ OrientOff
  \/ /\ part = "intents" /\ IntentInit
     /\ Init /\ LaneOff /\ OrientOff
  \/ /\ part = "lane" /\ LaneInit
     /\ Init /\ IntsOff /\ OrientOff
  \/ /\ part = "orient" /\ Orient!Init
     /\ Init /\ IntsOff /\ LaneOff

EngineStep == part = "engine" /\ Next
  /\ UNCHANGED <<part, intentVars, laneVars, OrientVars>>
IntsStep == part = "intents" /\ IntentNext
  /\ UNCHANGED <<part, vars, laneVars, OrientVars>>
LaneStep == part = "lane" /\ LaneNext
  /\ UNCHANGED <<part, vars, intentVars, OrientVars>>
OrientStep == part = "orient" /\ Orient!Next
  /\ UNCHANGED <<part, vars, intentVars, laneVars>>

MCNext == EngineStep \/ IntsStep \/ LaneStep \/ OrientStep

MCvars == <<part, vars, intentVars, laneVars, OrientVars>>

(* The fairness of each machine, as its module states it.                    *)
MCSpec ==
  /\ MCInit /\ [][MCNext]_MCvars
  /\ WF_(laneVars)(part = "lane" /\ Loop)
  /\ WF_(OrientVars)(part = "orient" /\ Orient!Ticks)

-----------------------------------------------------------------------------
(* The head turns to words or to a sound that held its place for the whole   *)
(* dwell, never to its own motors, and in a room that stays as it is it      *)
(* comes home and stays (orient.py, rms_background.py).                      *)
OrientSound ==
  /\ [](part = "orient" => Orient!TurnsEarned)
  /\ Orient!Settles

(* Ids are told apart by order only, and only while they are active; of the    *)
(* previous set the driver asks whether the base layer was in it.              *)
Active == intentEng.active
Rank(o) == Cardinality({b \in Active : b.ord <= o})
RankOrGone(o) ==
  IF o = 0 THEN 0 ELSE IF \E b \in Active : b.ord = o THEN Rank(o) ELSE -1
IntentsView ==
  <<{[b EXCEPT !.ord = Rank(b.ord)] : b \in Active}, intentEng.seeded, intentEng.cause,
    intentEng.reported, claim, RankOrGone(lockId), goal,
    "feel-alive" \in prev, intentPhase,
    {Rank(b.ord) : b \in {x \in Active : x.ord \in intentIds}}, dismissed>>
View == <<part, CASE part = "engine"  -> vars
                  [] part = "intents" -> IntentsView
                  [] part = "lane"    -> laneVars
                  [] part = "orient"  -> OrientVars>>

=============================================================================
