------------------------------ MODULE MCStreams ------------------------------
(* The embodied mind's process, turn and memory, and what goes from one      *)
(* thread or process to another in queues, rings, files and streams:         *)
(* utterances, audio, state and events; on one small instance each.  The     *)
(* machines share no state: the initial state says which one runs.           *)
EXTENDS Microphone, EmbodyTurns

VARIABLES
  part,  \* which of the machines runs
  hearing_now, hearing_muteUntil, hearing_gate, hearing_utterances, hearing_pending,
  hearing_ready, hearing_judging, hearing_warmUntil, hearing_engagedUntil,
  hearing_latch, hearing_heard, hearing_latched, hearing_last,
  shared_value, shared_engine, shared_file, shared_at, shared_ticks, shared_beat,
  shared_step, shared_held, shared_faults, shared_clean, shared_lost, shared_seen,
  shared_alive,
  presence_vendor, presence_pc, presence_client, presence_pubOff, presence_started,
  presence_disabled, presence_stopped, presence_drops, presence_wanted,
  presence_handler, presence_will, presence_session, presence_sessions,
  presence_said, presence_wire, presence_handling, presence_online, presence_late,
  feed_sense, feed_tick, feed_lastScrub, feed_fed, feed_pipe, feed_broken,
  feed_online, feed_onBus, feed_agent, feed_forge, feed_buffer, feed_lines,
  feed_turns, feed_announced, feed_evicted, feed_skill

Hear == INSTANCE Hearing WITH
  UtteranceMax <- 2, PendingMax <- 1, ReadyMax <- 1, MaxTakes <- 2, Window <- 2,
  MaxTime <- 3, MaxHeard <- 3, now <- hearing_now, muteUntil <- hearing_muteUntil,
  gate <- hearing_gate, utterances <- hearing_utterances,
  pending <- hearing_pending, ready <- hearing_ready, judging <- hearing_judging,
  warmUntil <- hearing_warmUntil, engagedUntil <- hearing_engagedUntil,
  latch <- hearing_latch, heard <- hearing_heard, latched <- hearing_latched,
  last <- hearing_last

Shared == INSTANCE SharedState WITH
  Heartbeat <- 2, MaxTicks <- 3, MaxChanges <- 1, MaxFaults <- 1,
  Vendors <- {"absent", "raises", "publishes", "refuses", "full"}, MaxSaid <- 3,
  MaxSessions <- 2, value <- shared_value, engine <- shared_engine,
  file <- shared_file, at <- shared_at, ticks <- shared_ticks, beat <- shared_beat,
  step <- shared_step, held <- shared_held, faults <- shared_faults,
  clean <- shared_clean, lost <- shared_lost, seen <- shared_seen,
  alive <- shared_alive, vendor <- presence_vendor, pc <- presence_pc,
  client <- presence_client, pubOff <- presence_pubOff, started <- presence_started,
  disabled <- presence_disabled, stopped <- presence_stopped,
  drops <- presence_drops, wanted <- presence_wanted, handler <- presence_handler,
  will <- presence_will, session <- presence_session, sessions <- presence_sessions,
  said <- presence_said, wire <- presence_wire, handling <- presence_handling,
  online <- presence_online, late <- presence_late

Feed == INSTANCE AttachedFeed WITH
  Faces <- {"nobody", "ann"}, PipeMax <- 1, BufferMax <- 1, MaxEvents <- 2,
  MaxForged <- 1, MaxTurns <- 1, MaxLines <- 2, sense <- feed_sense,
  tick <- feed_tick, lastScrub <- feed_lastScrub, fed <- feed_fed,
  pipe <- feed_pipe, broken <- feed_broken, online <- feed_online,
  onBus <- feed_onBus, agent <- feed_agent, forge <- feed_forge,
  buffer <- feed_buffer, lines <- feed_lines, turns <- feed_turns,
  announced <- feed_announced, evicted <- feed_evicted, skill <- feed_skill

HearVars ==
  <<hearing_now, hearing_muteUntil, hearing_gate, hearing_utterances,
    hearing_pending, hearing_ready, hearing_judging, hearing_warmUntil,
    hearing_engagedUntil, hearing_latch, hearing_heard, hearing_latched,
    hearing_last>>
SharedVars ==
  <<shared_value, shared_engine, shared_file, shared_at, shared_ticks, shared_beat,
    shared_step, shared_held, shared_faults, shared_clean, shared_lost, shared_seen,
    shared_alive>>
PresVars ==
  <<presence_vendor, presence_pc, presence_client, presence_pubOff,
    presence_started, presence_disabled, presence_stopped, presence_drops,
    presence_wanted, presence_handler, presence_will, presence_session,
    presence_sessions, presence_said, presence_wire, presence_handling,
    presence_online, presence_late>>
FeedVars ==
  <<feed_sense, feed_tick, feed_lastScrub, feed_fed, feed_pipe, feed_broken,
    feed_online, feed_onBus, feed_agent, feed_forge, feed_buffer, feed_lines,
    feed_turns, feed_announced, feed_evicted, feed_skill>>

ASSUME Hear!HearingAssumption
ASSUME TeeAssumption
ASSUME WorkersAssumption
ASSUME Shared!SharedAssumption
ASSUME Shared!PresenceAssumption
ASSUME Feed!FeedAssumption
ASSUME MediaAssumption
ASSUME LayerAssumption
ASSUME ToolAssumption

(* A machine that was not chosen is off, or stays as it begins.              *)
HearOff ==
  hearing_now = "off" /\ hearing_muteUntil = "off" /\ hearing_gate = "off" /\
  hearing_utterances = "off" /\ hearing_pending = "off" /\ hearing_ready = "off" /\
  hearing_judging = "off" /\ hearing_warmUntil = "off" /\ hearing_engagedUntil = "off" /\
  hearing_latch = "off" /\ hearing_heard = "off" /\ hearing_latched = "off" /\
  hearing_last = "off"
TeeOff == TeeInit /\ path = NoFile
MemoryOff == MemoryInit
SharedOff ==
  shared_value = "off" /\ shared_engine = "off" /\ shared_file = "off" /\
  shared_at = "off" /\ shared_ticks = "off" /\ shared_beat = "off" /\ shared_step = "off" /\
  shared_held = "off" /\ shared_faults = "off" /\ shared_clean = "off" /\
  shared_lost = "off" /\ shared_seen = "off" /\ shared_alive = "off"
PresOff == Shared!PresenceInit /\ presence_vendor = "full"
FeedOff == Feed!Init /\ feed_online = TRUE
EarsOff == EarsInit /\ profile = "bench" /\ ~listening
LayerOff == LayerInit /\ feed = 0
ToolOff == ToolInit /\ who = "mind"

MCInit ==
  \/ /\ part = "hearing" /\ Hear!Init
     /\ TeeOff /\ MemoryOff /\ SharedOff /\ PresOff /\ FeedOff /\ EarsOff /\ LayerOff /\ ToolOff
  \/ /\ part = "tee" /\ TeeInit
     /\ HearOff /\ MemoryOff /\ SharedOff /\ PresOff /\ FeedOff /\ EarsOff /\ LayerOff /\ ToolOff
  \/ /\ part = "memory" /\ MemoryInit
     /\ HearOff /\ TeeOff /\ SharedOff /\ PresOff /\ FeedOff /\ EarsOff /\ LayerOff /\ ToolOff
  \/ /\ part = "shared" /\ Shared!StateInit
     /\ HearOff /\ TeeOff /\ MemoryOff /\ PresOff /\ FeedOff /\ EarsOff /\ LayerOff /\ ToolOff
  \/ /\ part = "presence" /\ Shared!PresenceInit
     /\ HearOff /\ TeeOff /\ MemoryOff /\ SharedOff /\ FeedOff /\ EarsOff /\ LayerOff /\ ToolOff
  \/ /\ part = "feed" /\ Feed!Init
     /\ HearOff /\ TeeOff /\ MemoryOff /\ SharedOff /\ PresOff /\ EarsOff /\ LayerOff /\ ToolOff
  \/ /\ part = "media" /\ EarsInit
     /\ HearOff /\ TeeOff /\ MemoryOff /\ SharedOff /\ PresOff /\ FeedOff /\ LayerOff /\ ToolOff
  \/ /\ part = "layer" /\ LayerInit
     /\ HearOff /\ TeeOff /\ MemoryOff /\ SharedOff /\ PresOff /\ FeedOff /\ EarsOff /\ ToolOff
  \/ /\ part = "turn" /\ ToolInit
     /\ HearOff /\ TeeOff /\ MemoryOff /\ SharedOff /\ PresOff /\ FeedOff /\ EarsOff /\ LayerOff

HearStep == part = "hearing" /\ Hear!Next
  /\ UNCHANGED <<part, teeVars, memoryVars, SharedVars, PresVars, FeedVars, earsVars, layerVars,
     toolVars>>
TeeStep == part = "tee" /\ TeeNext
  /\ UNCHANGED <<part, HearVars, memoryVars, SharedVars, PresVars, FeedVars, earsVars, layerVars,
     toolVars>>
MemoryStep == part = "memory" /\ MemoryNext
  /\ UNCHANGED <<part, HearVars, teeVars, SharedVars, PresVars, FeedVars, earsVars, layerVars,
     toolVars>>
SharedStep == part = "shared" /\ Shared!StateNext
  /\ UNCHANGED <<part, HearVars, teeVars, memoryVars, PresVars, FeedVars, earsVars, layerVars,
     toolVars>>
PresStep == part = "presence" /\ Shared!PresenceNext
  /\ UNCHANGED <<part, HearVars, teeVars, memoryVars, SharedVars, FeedVars, earsVars, layerVars,
     toolVars>>
FeedStep == part = "feed" /\ Feed!Next
  /\ UNCHANGED <<part, HearVars, teeVars, memoryVars, SharedVars, PresVars, earsVars, layerVars,
     toolVars>>
EarsStep == part = "media" /\ EarsNext
  /\ UNCHANGED <<part, HearVars, teeVars, memoryVars, SharedVars, PresVars, FeedVars, layerVars,
     toolVars>>
LayerStep == part = "layer" /\ LayerNext
  /\ UNCHANGED <<part, HearVars, teeVars, memoryVars, SharedVars, PresVars, FeedVars, earsVars,
     toolVars>>
ToolStep == part = "turn" /\ ToolNext
  /\ UNCHANGED <<part, HearVars, teeVars, memoryVars, SharedVars, PresVars, FeedVars, earsVars,
     layerVars>>

MCNext == HearStep \/ TeeStep \/ MemoryStep \/ SharedStep \/ PresStep \/ FeedStep \/ EarsStep \/ LayerStep \/ ToolStep

MCvars == <<part, HearVars, teeVars, memoryVars, SharedVars, PresVars, FeedVars, earsVars, layerVars, toolVars>>

(* The fairness of each machine, as its module states it.                    *)
MCSpec ==
  /\ MCInit /\ [][MCNext]_MCvars
  /\ WF_(PresVars)(part = "presence" /\ Shared!Take)
  /\ WF_(PresVars)(part = "presence" /\ Shared!Handle)
  /\ WF_(FeedVars)(part = "feed" /\ Feed!Feeding)
  /\ WF_(FeedVars)(part = "feed" /\ Feed!Turning)
  /\ WF_(earsVars)(part = "media" /\ Take)
  /\ WF_(earsVars)(part = "media" /\ EarsTick)
  /\ WF_(layerVars)(part = "layer" /\ Main)
  /\ SF_(layerVars)(part = "layer" /\ Turn)
  /\ WF_(layerVars)(part = "layer" /\ FeedEnds)

-----------------------------------------------------------------------------
(* The rules see an utterance at most once and in order, and the robot       *)
(* engages only with its name or within the window of what it engaged with   *)
(* before (transcript_sense.py, engagement.py). Whatever the bytes are cut   *)
(* into, the mind hears whole samples, in order, at the rate their own       *)
(* connection announced, and hears again after a fault (embody/media.py).    *)
EarsSound ==
  /\ [](part = "hearing" => Hear!HeardOnce)
  /\ [][part = "hearing" => Hear!NamedFirstStep]_(HearVars)
  /\ [](part = "media" => EarsTypeOK)
  /\ [](part = "media" => SamplesWhole)
  /\ [](part = "media" => OwnRate)
  /\ [][part = "media" => InOrderStep]_(earsVars)
  /\ HearsAgain

(* No rider writes back what another has replaced in state.json, and a tick  *)
(* without a fault ends with every block in it (intents.py,                  *)
(* sense_availability.py, clip_rider.py). What the runtime takes the mind's  *)
(* retained presence to be only moves forward, is frozen when it stops and   *)
(* ends as the mind's last word; who cannot hear it has said why             *)
(* (mind_presence.py). The feed's last word is what the robot senses, the    *)
(* attached agent thinks once of every face it was told of and kept, and     *)
(* whatever that agent does no tick waits for it for good                    *)
(* (export/runtime.py, cli/_commands/agent.py).                              *)
StateAgrees ==
  /\ [](part = "shared" => Shared!NeverBack)
  /\ [](part = "shared" => Shared!WholeAgain)
  /\ [](part = "presence" => Shared!PresenceTypeOK)
  /\ [](part = "presence" => Shared!NeverSilent)
  /\ [](part = "presence" => Shared!WillBeforeSession)
  /\ [](part = "presence" => Shared!FrozenByStop)
  /\ [][part = "presence" => Shared!ReadingsForwardStep]_(PresVars)
  /\ Shared!HearsTheMind
  /\ [](part = "feed" => Feed!TypeOK)
  /\ [](part = "feed" => Feed!FeedCurrent)
  /\ [](part = "feed" => Feed!EveryCueOnce)
  /\ Feed!TicksEnd

=============================================================================
