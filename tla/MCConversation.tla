--------------------------- MODULE MCConversation ---------------------------
(* A spoken conversation: the floor of the speech session, the record of     *)
(* what was heard of a reply, the mind that takes turns in it, and the mouth *)
(* that a new onset cuts, and the tools the mind calls; on one small         *)
(* instance each.  The machines share no state: the initial state says which *)
(* runs.                                                                     *)
EXTENDS DuplexMouth, EmbodyTools

SplitTexts == {<<"a", " ", "b">>, <<"a", "b", "a", " ", "b">>, <<" ", "a", " ", " ", "b">>}

VARIABLES
  part,  \* which of the machines runs
  floor_step, floor_closed, floor_gateway, floor_created, floor_itemsOk,
  floor_oneShot, floor_armPending, floor_items, floor_source, floor_cuts,
  floor_session, floor_floor,
  split_seen, split_arriving, split_audio, split_stale, split_playback, split_mouth,
  split_current, split_ledgers, split_heard, split_said,
  mind_warm, mind_rest, mind_spent, mind_triggers, mind_context, mind_scopes,
  mind_spoken, mind_wanted, mind_reply, mind_cutter, mind_turn, mind_reader,
  mind_layer, mind_ages, mind_roused, mind_events

Floor == INSTANCE DuplexFloor WITH
  ItemMax <- 1, DrainMax <- 1, ReadMax <- 1, SourceMax <- 2, MaxSessions <- 2,
  MaxCuts <- 2, MaxAsks <- 2, Texts <- SplitTexts, MaxReplies <- 2, MaxUnits <- 3,
  MaxLedgers <- 1, step <- floor_step, closed <- floor_closed,
  gateway <- floor_gateway, created <- floor_created, itemsOk <- floor_itemsOk,
  oneShot <- floor_oneShot, armPending <- floor_armPending, items <- floor_items,
  source <- floor_source, cuts <- floor_cuts, session <- floor_session,
  floor <- floor_floor, seen <- split_seen, arriving <- split_arriving,
  audio <- split_audio, stale <- split_stale, playback <- split_playback,
  mouth <- split_mouth, current <- split_current, ledgers <- split_ledgers,
  heard <- split_heard, said <- split_said

Mind == INSTANCE EmbodiedMind WITH
  Facts <- {"f"}, Sources <- {"peer"}, Replies <- {"r1", "r2"}, Proactive <- FALSE,
  Window <- 1, AlertInterval <- 2, RateWindow <- 1, MaxPending <- 2,
  MaxContext <- 1, MaxScopes <- 1, MaxSpoken <- 2, MaxWanted <- 1,
  MaxPerWindow <- 1, MaxRounds <- 1, Life <- 1, MaxWords <- 2, MaxEvents <- 2,
  warm <- mind_warm, rest <- mind_rest, spent <- mind_spent,
  triggers <- mind_triggers, context <- mind_context, scopes <- mind_scopes,
  spoken <- mind_spoken, wanted <- mind_wanted, reply <- mind_reply,
  cutter <- mind_cutter, turn <- mind_turn, reader <- mind_reader,
  layer <- mind_layer, ages <- mind_ages, roused <- mind_roused,
  events <- mind_events

FloorVars ==
  <<floor_step, floor_closed, floor_gateway, floor_created, floor_itemsOk,
    floor_oneShot, floor_armPending, floor_items, floor_source, floor_cuts,
    floor_session, floor_floor>>
RecordVars ==
  <<split_seen, split_arriving, split_audio, split_stale, split_playback,
    split_mouth, split_current, split_ledgers, split_heard, split_said>>
MindVars ==
  <<mind_warm, mind_rest, mind_spent, mind_triggers, mind_context, mind_scopes,
    mind_spoken, mind_wanted, mind_reply, mind_cutter, mind_turn, mind_reader,
    mind_layer, mind_ages, mind_roused, mind_events>>

ASSUME Floor!FloorAssumption
ASSUME Floor!SplitAssumption
ASSUME Mind!MindAssumption
ASSUME ToolsAssumption

(* A machine that was not chosen stays as it begins.                         *)
MCInit ==
  /\ part \in {"floor", "split", "mind", "mouth", "hands"}
  /\ Floor!FloorInit
  /\ Floor!SplitInit /\ (part # "split" => ~split_arriving /\ split_seen = 0)
  /\ Mind!Init
  /\ Init
  /\ HandsInit /\ (part # "hands" => engine = Down /\ policy.auth = "off" /\ ~policy.route)

FloorStep == part = "floor" /\ Floor!FloorNext
  /\ UNCHANGED <<part, RecordVars, MindVars, vars, handsVars>>
RecordStep == part = "split" /\ Floor!SplitNext
  /\ UNCHANGED <<part, FloorVars, MindVars, vars, handsVars>>
MindStep == part = "mind" /\ Mind!Next
  /\ UNCHANGED <<part, FloorVars, RecordVars, vars, handsVars>>
VoiceStep == part = "mouth" /\ Next
  /\ UNCHANGED <<part, FloorVars, RecordVars, MindVars, handsVars>>
HandsStep == part = "hands" /\ HandsNext
  /\ UNCHANGED <<part, FloorVars, RecordVars, MindVars, vars>>

MCNext == FloorStep \/ RecordStep \/ MindStep \/ VoiceStep \/ HandsStep

MCvars == <<part, FloorVars, RecordVars, MindVars, vars, handsVars>>

(* The fairness of each machine, as its module states it.                    *)
MCSpec ==
  /\ MCInit /\ [][MCNext]_MCvars
  /\ WF_(FloorVars)(part = "floor" /\ Floor!Pump)
  /\ WF_(MindVars)(part = "mind" /\ Mind!Turn)
  /\ WF_(MindVars)(part = "mind" /\ Mind!CutStep)
  /\ WF_(MindVars)(part = "mind" /\ Mind!Tick)

-----------------------------------------------------------------------------
(* Nothing is asked of a session that did not order it or cannot know what   *)
(* it is about, no audio of an earlier session is sent to a new one, and the *)
(* pump never falls mute (speech/realtime_duplex.py). Of a reply that was    *)
(* cut, no more counts as said than was heard, and said and unsaid together  *)
(* are the reply (speech/realtime_duplex.py, cli/_commands/agent.py).        *)
FloorSound ==
  /\ [](part = "floor" => Floor!FloorTypeOK)
  /\ [](part = "floor" => Floor!FloorKnows)
  /\ [](part = "floor" => Floor!AskedOnly)
  /\ [](part = "floor" => Floor!CleanStart)
  /\ [](part = "floor" => Floor!FreshAudio)
  /\ [][part = "floor" => Floor!ItemsFirstStep]_(FloorVars)
  /\ Floor!NeverMute
  /\ [](part = "split" => Floor!SplitTypeOK)
  /\ [](part = "split" => Floor!Partition)
  /\ [](part = "split" => Floor!NotMoreThanHeard)
  /\ [](part = "split" => Floor!Exact)
  /\ [][part = "split" => Floor!SaidGrowsStep]_(RecordVars)

(* The robot never wakes itself, no source interjects beyond its budget, and *)
(* no later turn is told that a reply somebody cut was said in full; a       *)
(* trigger that waits gets a turn unless the layer stops or dies             *)
(* (embody/engine.py).                                                       *)
MindSound ==
  /\ [](part = "mind" => Mind!WithinBudget)
  /\ [](part = "mind" => Mind!CutIsHeard)
  /\ [][part = "mind" => Mind!NoSelfWakeStep]_(MindVars)
  /\ Mind!TriggersTurn

=============================================================================
