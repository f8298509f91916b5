# reachy-mini-cli: specification

`reachy-mini-cli` drives a Reachy Mini robot. Its centre is the *behavior
runtime*: one process with a 50 Hz loop that composes the robot's active
behaviors into one pose, fed by files that other processes drop into spool
directories, by sense threads, and by *riders* called once in every tick. Around
it are the cognition processes (turn-based and realtime minds), the speech
stack, the discovery of robots on the network, and the supervisors that keep
the processes alive.

This directory models that system in TLA+, checks the models with TLC, and
proves some of the results with the TLA+ proof system. Paths below are relative
to `src/reachy/`, module names to this directory.

1. The system - 2. The modules - 3. The runs - 4. Properties that are not in a
run - 5. What is proved - 6. Where the code and its words differ - 7. What is not
modelled - 8. Plan

## 1. The system

### 1.1 The behavior runtime

| Component | Code | State it keeps | Operations |
|---|---|---|---|
| Engine | `behavior/engine.py` | active set, id sequence, base-layer bookkeeping (`_base_ids`, `_base_seeded`, `_base_stopped_by`, `_base_stop_reported`), last ownership | `seed_base_layer`, `add`, `admit_behavior`, `stop`, `evict`, `ensure_base`, `apply`, `compose_tick` |
| Arbitration | `behavior/arbitration.py`, `model.py` | none (pure) | `arbitrate`, `admit` |
| Tick loop | `engine.py` `run`, `_drive`, `_apply_commands`, `_invoke_seam`; `tick_metrics.py`, `liveness.py` | deadline, consecutive errors, stop flag, overrun episode | drain, compose, send, seam, publish, sleep |
| Spool | `behavior/control.py` | one directory per spool: command files, result files | `submit`, `drain`, `write_result`, `await_result`, `reset` |
| State file | `behavior/control.py`, the riders that merge into it | `state.json` | heartbeat, read-merge-replace, read |
| Rule engine | `behavior/rules.py`, `rule_engine.py`, `reload_driver.py` | the merged table; per rule: last fire, presence, rearm, suppression episode | load, merge, `on_tick`, hot reload |
| Intents | `behavior/intents.py` | inhibition set, standing goal, mode | `run_behavior`, `declare_goal`, `set_inhibition`, `set_mode`, `lock_face`, `release_face`, sustain, enforce |
| Face lock | `behavior/face_lock.py` | held lock (behavior id, deadline), the names it added, timers; the gaze's target, command and ring of past commands | take, release, `inhibition_replaced`, `on_tick`, the gaze's update |
| Goto lane | `behavior/goto_lane.py`, `goto_intent.py` | FIFO of pending gotos, the goto in flight | `submit`, `on_tick` |
| Clip rider | `behavior/clip_rider.py` | frame inbox, ring, latched descriptor, the clip file | offer, encode, publish, close |
| Sense riders | `behavior/{transcript_sense,rms_sense,rms_background,face_sense,pat_sense,pet_reaction,orient}.py` | latest reading and its age, worker threads, bounded queues | poll in the tick, publish from a thread |
| Audio pump and tee | `behavior/audio_pump.py`, `audio_tee.py` | one reader of the microphone; bounded outboxes, sockets | fan out, drop, reconnect |
| Speech actuator | `behavior/speech_act.py`, `mute_intent.py` | queue of utterances, failure latch, mute, the window in which the microphone is ignored | say, mute, unmute, close |
| Composition root | `cli/_commands/behavior.py` | the parts in the order they were made; who holds the SDK session (`_HolderKeeper`) | make, start, run, close |

One engine thread runs, in every tick: drain the main spool and apply its
commands; sense; `compose_tick`; send the pose; publish `state.json` when
something changed or a heartbeat is due; call the seam, which runs every rider
in a fixed order; sleep until the deadline. The riders are the tick's last
writers: what they admit or evict drives the robot from the next tick on, and
they merge their own blocks into `state.json` after the engine's snapshot has
dropped them. Riders reach the engine only through the tick's context (`admit`,
`evict`, `ensure_base`, `active`, `ownership`). Other processes reach it only
through spool files, other threads only through lock-guarded queues.

### 1.2 Around the runtime

| Component | Code | State and operations |
|---|---|---|
| CLI commands | `cli/` | one noun per module: parse, write a spool command, wait for its result |
| Attached agent | `cli/_commands/agent.py`, `speech/agent_turn.py`, `speech/tools.py` | reads the event feed, runs tool-use turns, writes intents |
| Embodied mind | `embody/` | attention states, cue queue, turns, interjection gate, rolling summary, clips, tools, the microphone's stream |
| Realtime speech | `speech/realtime.py`, `realtime_duplex.py`, `realtime_wire.py` | sessions with a gateway, the floor, playback, records of what was heard of a reply |
| Speech services | `speech/{engagement,tts,playback,llm}.py` | whom an utterance is for, synthesis in pieces, playback over two routes, streamed completions |
| Event export | `export/` | JSONL exporter, MQTT publisher with its ledger, mind-presence subscription |
| Robot transports | `robot/` | HTTP and SDK transports, held media client, pose reader |
| Discovery | `discover/` | probe, sweep, unit registry, managed block of the hosts file, ssh |
| Motion queue | `motion/` | queue with one executor; producers `listen`, `pat`, `sleep`, `expression` |
| Sleep | `sleep/`, `cli/_commands/sleep.py` | ALERT, DROWSY, ASLEEP; stimuli; pat wake; wake word; flag file |
| Vision | `vision/` | light, motion, face detectors, face store, scene description |
| Forge | `forge/` | staged, active and rejected skills; validator; live registry |
| Stash | `stash/` | stored behavior records and their embeddings |
| Services and processes | `service/`, `demo_service.py`, `procsup.py`, `daemon.py`, `alive.py`, `*/supervisor.py` | systemd units with a single presence owner; pid files |
| Explanations and logs | `explain/`, logging | static text |

### 1.3 How the parts interact

- *Files.* A client writes a command under a temporary name, renames it into
  the spool and polls for a result file; the engine lists, reads and deletes
  commands and writes results. Nothing is locked and either side may die between
  two steps. `state.json`, the rolling clip, the rules file, pid files,
  `units.json`, the hosts file and the forge's folders are shared in the same way.
- *Calls inside a tick.* Rules, intents, goto lane and face lock share one
  active set, one inhibited set and one base layer. Each re-enforces in every
  tick what it owns, in the fixed rider order, on the set the others left.
- *Threads with and without locks.* The goto lane's FIFO, the mouth's queue and
  cut generation, the records of replies and the publisher's ledger are guarded,
  but read under a lock and acted on after it; the media client and the mind's
  record of what it said are shared with no lock at all.
- *Remote ends that come and go.* The broker session, the speech sessions, the
  media client, the audio socket, the robots of a network: each may be lost
  between any two calls, and is noticed late, by polling, by an error, or never.
- *Pipes.* The runtime's events go down a pipe to the attached agent, whose turns
  come back as commands in the spool.

### 1.4 What is hard, and what makes each part correct

| Part | Hard behaviour | What must hold |
|---|---|---|
| Engine | the base layer is removed and re-added by five callers through four flags | never two base layers, never one lost without a recorded cause, a stop by name is final; classes protect channels |
| Intents, rules, lock on one engine | every driver undoes what the others did, once a tick | inhibited names stay down, goals come back, nothing holds a channel without a record |
| Face lock and gaze | shared inhibited set, five ways to end; detections with latency against a moving head | gives back exactly what it took; each reason it gives is true; it ends; it moves once per detection and never past a face |
| Goto lane | losing the channel, being evicted, ending and being replaced in one tick | each goto ends once, and "done" is only said of one that drove throughout |
| Tick loop | overruns, send failures, heartbeats against readers | no bursts, a live engine is seen, an absent one is not, every overrun told |
| Spool | crash, restart, deadline, deletion before application | at most once, in order, nothing stale, nothing lost but by a crash or a reset |
| State file | three writers in a tick, readers at any time | nobody writes back what another replaced; each block is back by the tick's end |
| Rules and their file | cooldown, hysteresis, suppression and reload interleave; three authors of one file | re-arms only after an unbroken absence, no rule starves; no author's rules are lost |
| Senses | own motion and own voice look like the world | the robot reacts to what was there, never to itself, and to what is as old as it says |
| Media session, pose clients | three threads on an unlocked client | no session is orphaned, read after its end, or never warmed again |
| Speech sessions | refusals, losses, renegotiation, cuts, close | outages told once, no dialling without a pause, nothing asked of a session that cannot know what it is about |
| Mouth and its records | worker, mouth and cutters over one queue | a cut silences what it overtook, no hole inside a reply, no more counts as said than was heard |
| Mind | turns against cuts, budgets, cooldowns, late answers | triggers get their turn, no self-wake, what it is told was done was done |
| Publisher and presence | failing publishes, sessions lost unseen, a broker that forgets | the ledger records only what is retained; topics converge; readings only move forward |
| Processes, services, sleep, forge | crashes, reused pids, reboots between two calls | one process per noun, one presence, a wake kept, an announced skill kept |
| Discovery | addresses that change hands, deadlines, concurrent commands | a name is the unit that bears it; localhost stays resolvable |

`PROJECT.json` lists 40 hazards at their lines, each with the properties for it.

## 2. The modules

Most machines share no state with each other, because the components meet only
over files, pipes and calls, which each module has at its own end. Those that do
share state are composed in TLA+: `Intents` is engine, rules, intents and lock on
one engine record; `GotoLane` is the lane on the engine against its rivals;
`SenseRiders`, `Orienting` and `FaceGaze` close the loop from what is sensed to how
the robot moves and back; `DuplexMouth` has the taps of the agent with the session.

```
EngineOps --> BehaviorEngine       GotoContract
    |   \                              ^ refined by
    |    +--------> GotoLane -----------+
    |
    +--> Intents <-- LockOps --> FaceLock ..... FaceGaze
```

Every other module stands alone, over the standard and community modules. Some hold
two or three machines of one component that share no state. Each of these has its
own `VARIABLES`, `Init`, `Next` and specification, under a name of its own
(`FloorSpec` and `SplitSpec` in `DuplexFloor`, for instance): a run takes each by
itself, and so does a theorem.

### 2.1 Who moves the robot

| Module | Code | State and actions |
|---|---|---|
| `EngineOps` | `behavior/arbitration.py`, `model.py`, `engine.py` | Pure: who wins a channel by class, then by id, and what an admission evicts or is blocked by. Every operation of the engine as a function from engine record to engine record (`Admit`, `Remove`, `EnsureBase`, `Compose`, ...), so that each composing module uses the same definitions. Behaviors carry an order number for their id, and the time they have left. |
| `BehaviorEngine` | `engine.py` commands, seam and compose | The engine alone. A tick is two phases: any number of spool commands (`ApplyAdd`, `ApplyStopNamed`, `ApplyStopAll`, ...), then `Compose`, then any number of rider calls through the tick's context. |
| `GotoContract` | what `goto_lane.py` promises a client | Abstract: one *fate* for each goto (queued, running, done, cancelled), at most one running, ends are final, submission order kept. |
| `GotoLane` | `goto_lane.py`, `goto_intent.py`, on `EngineOps` | What a submission is validated against, the FIFO, the goto in flight, and per tick the whole of `on_tick` (settle the goto in flight, withdraw, admit the next) against rivals that take the channels. Implements `GotoContract` under the mapping of its variable `fate`. |
| `LockOps` | `behavior/face_lock.py`, set arithmetic | The claim a lock makes on the inhibited set as a record (`held`, `inh`, `added`) and what take, release and a replacement do to it. |
| `FaceLock` | `face_lock.py` | The lock's watchdogs against time, face, mind, a gaze evicted by others and a behavior of its name that others run. |
| `FaceGaze` | `face_lock.py` `FaceLockGaze` | One axis: detections with latency against a ring of past commands, damping, slew, the guard against winding up, relaxing when the face is gone. |
| `Intents` | `intents.py`, composed with `EngineOps` and `LockOps` | One engine with operators (who may run any name, the lock's too), rules and every intent; the driver's `on_tick` (drain, sustain, enforce) and then the lock's turn. |
| `TickLoop`, `LoopSpec` | `engine.py` `run`, `_drive`; `tick_metrics.py`, `liveness.py` | One action per part of a tick: work, heartbeat, seam, sleep until the deadline; send failures and back-off; the gate by which other motion loops ask whether an engine drives. |
| `TickLoop`, `PartsSpec` | `cli/_commands/behavior.py` `engine run` | The parts in the order they are made and started, any step of which may raise; ticks; the order of closing. |

### 2.2 What the runtime is told, and tells

| Module | Code | State and actions |
|---|---|---|
| `CommandSpool` | `control.py`, `engine.py` `run`, `cli/_commands/behavior.py`, `procsup.py` | One file operation per step of client and engine; the engine may die at any of them. One module for both spools: the main one (reset at start) and the intents one (kept). |
| `SharedState`, `StateSpec` | `engine.py` publish, `intents.py`, `sense_availability.py`, `clip_rider.py` | The heartbeat's write and each rider's read and replace are steps of their own; a read or write may fail; readers come at any time. |
| `RuleEngine` | `rule_engine.py`, `rules.py`, `reload_driver.py` | One action for a whole `on_tick`: presence, arming, due rules, inhibition, suppression episodes; reload and mode switch; behaviors that come and go. |
| `Learning`, `FileSpec` | `rules.py`, `reload_driver.py`, `embody/tools.py` | The overlay between the operator, `create_rule` and the engine that merges it at boot and reload. |
| `NervousPublisher` | `export/mqtt.py`, `export/events_client.py` | Start or refusal to start, the tick's snapshots and events, outages, the ledger, stop. One step per section under the lock, read of `connected`, or call into the client. |
| `SharedState`, `PresenceSpec` | `export/mind_presence.py`, `mqtt.py` start and stop, `events_client.py` | The vendor's client, its will and subscription over sessions, and the tick's reading of whether the mind is up. |
| `AttachedFeed` | `export/runtime.py`, `exporter.py`, `cli/_commands/agent.py`, `forge/activate.py` | What is news among the readings of the senses; its way through a pipe of bounded size to cues and turns of the attached agent, which may hold forged skills back until its client is attached. |
| `ClipRider` | `behavior/clip_rider.py` | Tick thread, encoding worker, the clip file, its descriptor; kill and restart. |

### 2.3 What it senses and says

| Module | Code | State and actions |
|---|---|---|
| `Hearing` | `transcript_sense.py`, `speech/engagement.py` | Three bounded queues between session, tick and judging worker; the tick's own classification. |
| `Orienting` | `rms_sense.py`, `rms_background.py`, `self_motion.py`, `orient.py` | Loudness against its own background, the gate, the turn, its hold and the way home. |
| `SenseRiders`, `PatSpec` | `pat_sense.py`, `motion/pat.py`, `pet_reaction.py` | Presses seen as a difference of poses, pairing, levels, cooldowns, and the reaction that blinds the sense. |
| `SenseRiders`, `FaceSpec` | `face_sense.py` | Frame, one-place slot, detecting worker, position with an age, the silent stream. |
| `HeldMedia` | `robot/media_client.py`, `audio_pump.py`, `_HolderKeeper` | Pump, tick and keeper on one unlocked client whose session the daemon lends once. |
| `RobotClients` | `robot/state_reader.py`, `sdk_transport.py` | The pose reader between tick and keeper; clients made for a call, a stream of targets or a recording. |
| `Microphone`, `TeeSpec` | `audio_tee.py` | A start in its five steps (look, probe, unlink, bind, listen), close and kill over one path; the offers, one outbox per consumer, partial sends, drops and their reports. |
| `Speaking`, `VoiceSpec` | `speech_act.py`, `mute_intent.py` | Queue, worker, failure latch, mute, the deaf window. |
| `Speaking`, `SaySpec` | `speech/tts.py`, `playback.py`, `cli/_commands/say.py` | Cleaning and splitting a text, synthesis piece by piece with retries, playback over the SDK or the daemon's file. |
| `Speaking`, `StreamSpec` | `speech/llm.py` `stream_sentences` | The cutting of a stream into sentences, for every way the stream may be cut. |

### 2.4 The conversation

| Module | Code | State and actions |
|---|---|---|
| `RealtimeSession` | `speech/realtime.py` | Worker (dial, refusal, backoff, pump, teardown), tick thread (`submit_audio`, `set_sample_rate`), closer. |
| `DuplexFloor`, `FloorSpec` | `speech/realtime_duplex.py`, taps of `agent.py` | Capabilities, arming, conversation items, reseeding, source audio, over sessions. |
| `DuplexMouth` | `realtime_duplex.py`, taps of `agent.py`, record of `embody/engine.py` | Worker, mouth and two cutters over the playback queue. |
| `DuplexFloor`, `SplitSpec` | `realtime_duplex.py` (`_PlaybackLedger`, `SpokenSplit`, `estimate_spoken_prefix`) | One record per reply, few of which are kept; a cut text split where its audio was. |
| `EmbodiedMind` | `embody/engine.py`, `attention.py`, `interjection.py` | Triggers and context from several threads, the turn loop, the gate and its budgets, what was said; its corrections, found by text and written by index while the turn pops. |
| `EmbodyTurns`, `MemorySpec` | `embody/summary.py`, `vision_worker.py`, clip asker of `agent.py` | The history that leaves the window, the rolling summary, what was seen in clips. |
| `EmbodyTurns`, `LayerSpec` | `agent.py` `embody`, `embody/engine.py` run and stop | Making, running and taking down one process of the mind. |
| `Microphone`, `EarsSpec` | `embody/media.py` | Header and samples out of a stream cut anywhere; reconnects; the bench microphone and speaker. |
| `EmbodyTools` | `embody/tools.py`, handlers of `intents.py`, `interjection.py` | Five tools: dispatch, preflight, spool, the engine's own verdict, proposals, rules. |
| `EmbodyTurns`, `ToolSpec` | `speech/llm.py`, `embody/engine.py`, `speech/agent_turn.py` | The stream of an answer with tool calls, their answers, rounds, mutes. |

### 2.5 What an operator starts and stops

| Module | Code | State and actions |
|---|---|---|
| `Processes`, `ProcsSpec` | `procsup.py`, `*/supervisor.py`, `daemon.py`, `alive.py` | One system call or file operation per step; pids are reused, processes die, Ctrl-C. |
| `Processes`, `ServSpec` | `service/manager.py`, `demo_service.py` | One systemctl call per step, the look of `disable` and demo-mode's own enable among them; failures and reboots. |
| `Sleeping` | `cli/_commands/sleep.py`, `sleep/`, `motion/queue.py`, `server.py`, `sleep.py`, `sleep_signal.py` | Loop and executor over the coalescing queue, the flag file. |
| `Learning`, `ForgeSpec` | `forge/` | Overlapping requests for one name through staged and active folders to the registry; restarts. |
| `Discovery`, `UnitsSpec` | `discover/{probe,sweep,registry,resolve}.py`, `cli/_commands/wireless.py` | Commands that sweep, ask, remember and forget, while units change address. |
| `Discovery`, `PinSpec` | `discover/hosts.py` | The marked block in a file of others: pin, unpin, concurrent commands, faults. |

`MC*` modules hold instances only (names, catalogs, views, and the composition of
a run, see 3). `*Proofs` modules hold theorems (section 5). Code outside the
repository is modelled from its use: rename, list and unlink, pids and signals,
systemd, the broker and its client, the SDK's client, the gateway, the speaker.

Variables that exist only to be observed are called ghost or history where they
are declared; no guard reads them. An operator whose comment begins with
`Faulty` or `Defect` is a plausible bug in the operator after it. Nothing uses
it: it is there to be put in the other's place, to see that a property really
depends on that code.

## 3. The runs

Each run is `tlc -config <cfg> <module>`. Sizes are distinct states.

| Run | Module, configuration | Size | Question |
|---|---|---|---|
| `arbitration` | `MCArbitration`, `Arbitration.cfg` | 348,772 | who moves the robot: the engine, all intents on one engine, turns to a sound, the goto lane against its contract |
| `operator` | `MCOperator`, `Operator.cfg` | 1,376,111 | what an operator starts, stops, edits and looks for: processes, services, sleep, forge, rules file, robots; and the clips others read |
| `streams` | `MCStreams`, `Streams.cfg` | 870,476 | the embodied mind's process, turn and memory, and what goes between threads and processes in queues, rings, files and streams |
| `conversation` | `MCConversation`, `Conversation.cfg` | 1,522,191 | a spoken conversation: the floor, the mind that takes turns, the mouth, and the tools the mind calls |
| `senses` | `MCSenses`, `Senses.cfg` | 269,143 | the session, media, voice, touch, face and lock against clocks, faults and threads |
| `records` | `MCRecords`, `Records.cfg` | 308,611 | the runtime's loop and its parts, spools against an engine that dies, rules under reloads, retained topics over lost sessions |
| `mouth_one_record` | `DuplexMouth`, `DuplexMouthOneRecord.cfg` | violated | a second onset over the same reply |
| `mqtt_refused` | `NervousPublisher`, `NervousRefused.cfg` | violated | a message refused in a live session |
| `mind_raises` | `EmbodiedMind`, `MindRaises.cfg` | violated | a cut over a record that a turn is draining |
| `gaze_arrives` | `FaceGaze`, `GazeArrives.cfg` | violated | a lock taken with the head turned |
| `lock_own_gaze` | `MCArbitration`, `LockOwnGaze.cfg` | violated | the lock's watchdog against a behavior of the lock's name |
| `tools_refuse` | `EmbodyTools`, `EmbodyToolsPreflight.cfg` | violated | the mind's preflight against the engine |

### 3.1 How a run is composed

A passing run asks one question of machines that belong together. Where those
machines share no state (2), their product would only multiply their states, so
the MC module is a *choice* of them: a variable `part` that no step changes is set by
`Init` and says which machine's `Next` applies; the variables of the others rest in an
initial state (pinned to one of them where there are many) or, if instances, are off.

The MC modules `EXTEND` the components whose theorems section 5 lists, so the properties
of the runs are the components' own definitions, the very ones the theorems name:
`MCArbitration` those of `BehaviorEngine`, `Intents` and `GotoLane`, `MCOperator` of
`Processes`, `Learning`, `Discovery` and `ClipRider`, `MCStreams` of `EmbodyTurns` and `Microphone`,
`MCConversation` of `DuplexMouth` and `EmbodyTools`, `MCSenses` of `FaceLock`,
`MCRecords` of `TickLoop`. The names of machines that meet in one MC module are told
apart by a prefix (`LaneInit`, `IntentNext`, `ForgeSpec`, `HandsSpec`). Every other
machine is an `INSTANCE` of its module with the constants of its small instance; the
invariants and action properties of an instance are guarded by `part`, and where several
machines keep one promise the run's property, named for it, is the conjunction of theirs,
as 3.2 says, their type invariants included.

A machine at rest is in an initial state and takes no step. Its invariants hold there or
the run would fail, its action properties say nothing, and its liveness properties, which
are not guarded, are all of the form "again and again" and true of a state in which
nothing has happened yet. So a run has a single liveness formula, without a tableau, and
each part of it is decided by the behaviors of the machine it speaks of. Fairness is
restricted to the machine that runs. `ContractHeld` is the refinement of
`GotoContract!Spec`.

### 3.2 What the passing runs show

*arbitration.* `BaseLayerSound` (`BehaviorEngine`): never two base layers; a
seeded one is absent exactly when a removal is on record, so expiry, completion
or an eviction never loses it; a stop of an active base layer by name or id ends
only by the un-stop verb. `ChannelsSound`: a channel is not taken from a behavior
that still drives it by a lower class, nor by one that drove it before already;
an `add` may rely on the blocked list it was told. `IntentsSound` (`Intents`): at
the end of the driver's turn nothing inhibited is active (`Withheld`), a goal that
is not inhibited is active (`GoalStands`), what intents admitted without an end is
the goal's or the lock's (`NothingStranded`), at the end of the tick a held lock has
a gaze of its name (`HeldMeansGaze`), and once an inhibition is gone it is not why the
base layer is absent, unless a rule or the end of a goal sent that away
(`SelfHealing`). That the gaze is the lock's own is false; `lock_own_gaze` shows it.
`OrientSound`
(`Orienting`): the head turns to words or to a sound that held its place for the
whole dwell, never to its own motors, and in a room that stays as it is it comes home
and stays. `LaneSound` (`GotoLane`): a goto once reported as ended never drives
again, even when its blocker leaves early, and losing one channel for one tick is a cancellation, not
"done". `EveryGotoEnds`: also behind a behavior that blocks for good. It is stated as "again
and again, not queued and not running"; since an end is final (`ContractHeld`) that says
that each goto ends, and it needs no tableau.

*operator.* `ProcessesSound`: no command signals a program it does not supervise,
and after the commands are over there is one process per noun, the one its pid
file names. `PresenceSound`: however enables, disables and demo-mode's commands
interleave, fail and are cut off by reboots, two presences are left enabled only where a
call that was to part them was lost, or demo-mode's own enable came last, and the next
call that takes one away ends it; with one command after the other, there is a presence
to boot into from the first enable until a disable is typed. `SleepSound`
(`Sleeping`): a wake gesture waits or has reached the robot exactly once, behind
poses that are coalesced away under the executor; the flag file says what the
robot does; left alone, it falls asleep. `ForgeSound`: a skill announced as
learned is what runs and what a boot finds; requests that overlap on its name, or an
activation cut short, put that in doubt, and the next one that runs alone and is learned
settles it. A request that ran alone is told one outcome, and none is announced that was
not activated. `OverlaySound` (`Learning`): no author's rules are lost
to another's rewrite, a rule told live is in the running table, and that table is
one whole file over the shipped ones. `DiscoverySound` (`Discovery`):
a name resolves to the unit that bears it although addresses change hands, what is
remembered was seen, a command on the hosts file loses no line outside its block
and never leaves localhost unresolved. `ClipSound` (`ClipRider`): whoever reads the
clip block and then opens the file finds a whole clip, no older than it was told.
`ClientsSound` (`RobotClients`): every client that is up is somebody's who will close it,
whatever raises, or would not go; the pose reader has one at a time; a session's
microphone is stopped before its client goes.

*streams.* `TeeSound` (`Microphone`): a consumer gets whole chunks, every loss is
told in the place it happened (one consumer's, or the tee's own while nobody listens),
one line per stretch without a consumer. A tee whose start met no other, and that left no
probe without an answer, keeps its path; tees that started at the same time may take it
from each other, and until one of them ends somebody is there.
`MemorySound` (`EmbodyTurns`): of the past turns the mind is silently shown nothing of,
each left the window after the last folded pass began, or had fallen out of the history
or of the reach of a pass when the next one was folded: a pass that comes late costs the turns it
came too late for and no others. What it is shown as seen was seen lately. `LayerSafe` (`EmbodyTurns`): a layer that ends
because its feed was read has thought about all of it; whatever was begun is told to end,
the media not before the session; no tap finds a slot empty. `EndsWithItsFeed`: a feed
that ends ends the layer unless somebody speaks. `TurnSound` (`EmbodyTurns`): every call
in the history has its answer, nothing is done on half of a call's arguments, speech is
given up for failures in a row and nothing else. `EarsSound` (`Hearing`, `Microphone`):
the rules see an utterance at most once and in order; the robot engages only with its
name or within the window of an engagement; whatever the bytes are cut into, the mind
hears whole samples, in order, at the rate their own connection announced, and hears
again after a fault. `StateAgrees` (`SharedState`, `AttachedFeed`): no rider writes back
what another replaced, a tick without a fault ends with every block in the file; readings
of the mind only move forward, freeze when the runtime stops, end as the mind's last
word, and who cannot hear it has said why; the feed's last word is what the robot senses,
every cue kept is thought about once, and whatever the agent does no tick waits for it
for good.

*conversation.* `FloorSound` (`DuplexFloor`): nothing is asked of a
session that did not order it or cannot know what it is about, no audio of an
earlier session is sent to a new one, the pump never falls mute; of a cut reply
no more counts as said than was heard, what counts only grows, and said and unsaid
are the reply. `MindSound` (`EmbodiedMind`): the
robot never wakes itself, no source interjects beyond its budget, no later turn is told
that a reply somebody cut was said in full, though the correction is written by index while
the turn pops, and a waiting trigger gets a turn unless the layer stops or dies. `ToolsSound` (`EmbodyTools`): what the mind is told was done was done once,
what it is told was refused never happens, then or later, and no behavior outside its
catalog runs for it. `MouthAccounts` (`DuplexMouth`): the
counter behind `playback_pending` covers every chunk a cut could withhold
(`PendingCovers`), and each unit of audio is in exactly one place
(`LedgerBalances`), so that the split divides by the right number. `CutSilences`:
no chunk of a reply born before a cut begins after it. `NoHole`: what precedes a
chunk in its reply was played or withheld by a cut.

*senses.* `SessionSound` (`RealtimeSession`): every outage told once, no dialling
without a backoff after a refusal or a drop. `MediaSound` (`HeldMedia`): no session
is orphaned, a keeper that ended in time leaves nothing behind the close, no chunk of a
time before is latched. `VoiceSound` (`Speaking`): while the voice sounds the
microphone is ignored, every accepted utterance has one fate. `SensesSound`
(`Speaking`, `SenseRiders`, `FaceGaze`): a
long text is cut between words and said whole and in order or not at all; the
sentences of a completion do not depend on how its stream is cut; contact is only what was seen, cooldowns are whole, only
presses on one side of a gap pair into a pat, the robot's own motion is no touch; a face
position is as old as it claims, no frame of a moving head is looked
at; the gaze moves once per detection and never past a
still face, a false face does not march it to its limit.
`LockSound` (`FaceLock`): a held lock keeps its names inhibited, gives back exactly
what it took under every order of takes, releases and `set_inhibition`, and outlives
the tick in which its gaze went only beside another behavior of its name: the watchdog
looks for the name, so an operator's `behavior run face-lock` passes for the gaze
(`lock_own_gaze` shows it on the whole engine). `WatchdogsHonest`: "mind offline" follows a whole grace period
of offline readings; one face-lost report per disappearance. `NothingHangs`: after a
close the session's worker leaves and no session stays open, a dropped media client is
warmed again, the voice's queue drains and no say hangs, a silent camera client is
dropped, a gaze that lost its face relaxes, a lock ends.

*records.* `LoopSound` (`TickLoop`): no bursts, a live engine is seen, an absent one not
for longer than its heartbeat counts, every overrun is told. `PartsReleased` (`TickLoop`):
wherever making the parts fails, what had begun is told to end, and nothing is closed
under a part still at work with it. `SpoolSound`: at most once, in order (a command does
not overtake one its scan found there that had landed before it was named), nothing stale (an
engine does not act on what was in the main spool before it started), and only a reset
or a crash takes a command.
`RulesSound`: an unbroken hysteresis period between two firings, each suppression
streak opened by one reason and closed by one correct count, an inhibit rule that
matched for its cooldown has cleared what rules run, `absent_for` is never
overstated, across reloads too.
`AllGetsThrough` (`CommandSpool`, `RuleEngine`, `NervousPublisher`): while an engine runs
every command is served; a predicate that holds on and on fires; between two publishes
in a session believed in, the ledger says only what the topic holds; once changes,
failures and outages are over, topics come to agree with `state.json` for good; a moving
time stamp alone sends nothing; a stopped runtime reads offline.

### 3.3 Bounds, and why they are enough

*arbitration.*
- engine: two channels (one contested, one not), the three classes, behaviors of
  two time units and unlimited ones, three admissions beside the base layer
  (a winner, a blocked one, a newcomer), steps of one or two units so that a tick
  may meet an expiry or not.
- intents: every behavior claims one channel, since ownership is the engine's question;
  the base layer (a goal may bear its name), the name the lock inhibits, one more, which
  only rules run, and the lock's own, which an operator may run; what commands and rules
  may name is the bound `Commanded`; two active behaviors when one is added by hand. The
  view compares ids by order only.
- orienting: two bearings, a dwell of two, a lag of one tick, two changes of the room.
- lane: two gotos (one runs while one waits, or is submitted after it) and two
  rivals admitted out of an evictor, an equal and a superior, so that one may take
  the channel from the other; three and three hold the lane's properties too.

*operator.*
- processes: two nouns and two pids, so that a pid may be reused by the other noun
  or a stranger; two concurrent commands. services: two operators, two failures.
- clients: three clients, so that a third dials while one lets go and one warms, and three
  calls that raise.
- sleep: the thresholds 1 and 2, two stimuli, one failed send, two runs (the
  second finds what a killed first left).
- forge: two requests for one name of three qualities, three boots: doubt that a cut left is
  settled by the second request; doubt from an overlap needs a third, which the theorem has.
- rules file: one edit, up to two rules for each author, one crash; overlays that
  disable, replace, and break a rule.
- discovery: two units that contend for one address, two commands, three moves: one goes,
  the other takes its address, and the first is asked for. Hosts file: five shapes of
  file, two commands, one edit, one fault.
- clip: a ring of three, two processes, one failed encode.

*streams.*
- hearing: queues of two, one and one, three utterances: each overflows.
- tee: two runtimes on one path, fresh or stale, so that both may find it unserved;
  two consumers, three chunks offered, of which
  one waits for the loop, against an outbox of two, so that one is half sent while
  another is dropped.
- mind's memory: eight turns against a history of five, a backlog of two, two clips.
- state file: three ticks, one change of what a rider says, one fault.
- presence: each kind of vendor package; three announcements, two sessions.
- feed: a pipe and a buffer of one, two events of a face and the touch sense, one
  turn, one forged skill called in it.
- microphone: a header of two bytes, reads of three, five bytes, two connections.
- layer: two lines of feed, one thing heard, two pending.
- turn: two calls, two rounds, two turns against a latch of two.

*conversation.*
- floor: two sessions, two cuts, two asks, lists of one: each list overflows.
- split: two replies of three units, one record kept, so that an evicted record is
  made anew; texts with leading and double spaces.
- mind: two facts or utterances, one peer, two replies of one or two words, so that two may
  say the same and a cut may hear none or one; a record of two, a budget of one.
- hands: two calls, two changes of the world (engine, authorization, route, room).
- mouth: two replies of up to two units, chunks of one and two, a queue of one (so
  that the worker blocks), one cut (two meet in `mouth_one_record`, and the theorems are
  for any number), a sink that may fail and a session that may be lost.

*senses.*
- session: a queue of one, two faults, attempts counted to two.
- media: three sessions, two chunks standing, two faults.
- speech: a queue of two, three utterances, two mutes, a latch of two failures.
- say: a limit of three characters; the splitter is compared with its specification
  on every text of up to five characters. stream: four deltas out of nine.
- touch: three disturbances within the cooldown of three, grace periods of two and
  four, a contact budget of twenty. face: two dead streams.
- gaze: a face within reach and one beyond it, a false one, three starts of the
  head, angles in steps of the convergence limit, latency of one tick.
- lock: time up to 5 with the limits 2, 3 and 5 apart, so that each watchdog can be
  the first, and steps of two.

*records.*
- loop: a heartbeat of two units and a lifetime of fifteen against an uptime of
  eighteen, so that a stale state file does lapse; two overruns, two errors.
- composition: every step may raise; one tick. Two things are left out (section 6).
- spool: two clients and three engine lives, so that a command may meet an engine,
  its death and its successor.
- rules: a shipped configuration of three rules (inhibit, react with cooldown, react
  on absence with hysteresis) and an overlay that reuses one id for another rule.
  Ages and counts saturate at 2, the largest limit of the configurations. Modes are
  switched in the overlay's configuration, the one that has any; of the senses' readings
  a touch comes with a sound.
- publisher: one key of the engine and one of a rider, two values, one change, two
  sessions, one failure. The client has no callback (`Threads = {"tick"}`): that is
  the one the runtime is given; an outage outlasts a poll (`ShortOutages = FALSE`).
  Section 6 says what happens otherwise.

Deadlock is checked in `arbitration`, where every machine runs for good. The machines of
the other runs stop when their bounded environments are used up, and these runs say
`CHECK_DEADLOCK FALSE`.

### 3.4 Fairness

Fairness is stated of the program's own threads only: a loop that waits for nobody
goes on, a step that is under way is finished. Nothing forces a client, an operator,
a broker, a network, a fault, or the end of a run.

- `GotoLane`, `FaceLock`, `Orienting`, `FaceGaze`: weak fairness of the tick.
- `RuleEngine`: `WF_parity(Ticks)`. Each tick flips `parity`, so this is weak fairness
  of the tick, in a form that does not expand it.
- `CommandSpool`: the steps of an engine that lives. Starting and dying are never
  forced, nor is a client.
- `NervousPublisher`: each step of the publisher and of the cache that feeds it, and
  `SF` of the riders' write: the riders run in every tick after the engine's own
  write, so their write is possible again and again, never continuously.
- `EmbodiedMind`: the turn loop, the session worker's cut, the tick of its clock.
- `EmbodyTurns` (layer): main thread, the feed's end, and `SF` of the turn, which is disabled
  while nothing waits.
- `DuplexFloor`, `RealtimeSession`: the worker's pump. `Microphone` (ears): reads
  and the backoff's clock. `Speaking` (voice): the worker's rendering; (say): each
  caller goes on.
- `HeldMedia`: each thread's next step, the end of the backoff, and that the other
  consumer returns what it borrowed: without that nobody could warm a client.
- `SenseRiders` (face): ticks and the keeper's re-warming.
- `Sleeping`: the loop's look, its undisturbed tick, and the executor's steps to its end.
- `SharedState` (presence): the vendor delivers and the handler runs. `AttachedFeed`: the feeding
  thread and the turning thread of the agent go on.
- All others: safety only.

## 4. Properties that are not in a run

`StopAllKeepsBase` (`BehaviorEngine`) is proved and not run under that name. The
following are false of the code and stand in their modules for the reader who changes
that code; section 6 describes each: `UnconfirmedStays`
(`CommandSpool`), `CutIsRecorded` (`DuplexMouth`), `WordBoundary` and `SeededFirst`
(`DuplexFloor`), `RightRate` and `InOrder` (`RealtimeSession`), `NotUnderOurselves` and
`CameraPerClient` (`HeldMedia`), `AtMostOne` (`RobotClients`), `NeverNarrowed`
(`EmbodyTurns`), `OwnMotionIsNoTouch` (`Sleeping`), `SurvivesRestart` (`Learning`),
`StreamReturns` (`SenseRiders`), `OwnVoice` (`Speaking`).

## 5. What is proved

The TLA+ proof system checks these for every value of the constants, under the
assumptions named in the modules and no others.

| Module | Theorem | Says |
|---|---|---|
| `EngineOpsProofs` | `BestOutranks` | on every channel with a candidate the winner exists and outranks all others, for any number of behaviors |
| `BehaviorEngineProofs` | `Inductive`, `BaseLayer`, `StopAllKeeps` | `BaseLayerSound` (its parts in `TypeCorrect`, `OneBase`, `CauseAccounts`, `StillnessIsHeld`), `StopAllKeepsBase` |
| | `ChannelsHold` | `ChannelsSound` |
| | `LoopKeepsTime` | `LoopSound` |
| | `PartsAreReleased` | `PartsReleased` |
| `GotoLaneProofs` | `LaneIsSound` | `LaneSound` |
| | `LaneImplements` | `ContractHeld`: `GotoLane` implements `GotoContract` |
| | `SpoolKeepsItsWord` | `SpoolSound` |
| `IntentsProofs` | `IntentsHold` | `IntentsSound` |
| | `RulesHold` | `RulesSound` |
| `FaceLockProofs` | `Inductive`, `LockIsSound` | `LockSound` (its parts in `InhibitionsHeld`, `LeavesNothing`, `PriorClaim`, `Orphanless`) |
| | `MediaHolds` | `MediaSound` |
| | `VoiceHolds` | `VoiceSound` |
| | `HonestWatchdogs` | `WatchdogsHonest` (its parts in `OfflineIsOffline`, `LostIsLost`) |
| `DuplexMouthProofs` | `Inductive`, `CountCovers`, `CutsSilence` | `PendingCovers`, `CutSilences` |
| | `MouthIsAccounted` | `MouthAccounts` |
| | `NothingIsSkipped` | `NoHole` |
| | `ToldTruly` | `ToolsSound` |
| `OperatorProofs` | `OnePerNoun`, `OnePresence` | `ProcessesSound`, `PresenceSound` |
| | `RobotsFound` | `DiscoverySound` |
| | `ClipHolds` | `ClipSound` |
| | `ClientsAreKept` | `ClientsSound` |
| `MemoryProofs` | `MindRemembers` | `MemorySound` |
| | `LearnedStays` | `ForgeSound` |
| | `TurnAnswers`, `LayerStandsAndFalls` | `TurnSound`, `LayerSafe` |
| | `TeeServes` | `TeeSound` |
| | `RulesAreKept` | `OverlaySound` |

A property of a run is seldom inductive. Each module names the invariant it rests on
and has one lemma per action, or group of actions that disturb the same part of it.

- *Engine* (`EngInv`, `Core`, `Stilled`). That a second base layer cannot appear, and
  that none is lost without a cause, needs the rest of `EngInv`: ids are distinct and
  not above the count, and a base behavior has an id in `_base_ids`, no end and class
  `passive`, so `stop all`, expiry and newcomers pass it by. `Core` adds that nothing
  has happened before the loop starts. `StillnessHeld` needs `Stilled`: stillness asked
  for is on record as the cause `stop`, which is what `ensure_base` refuses on. The
  lemmas of `EngineOpsProofs`, one per operation of `engine.py`, carry `EngInv` into the
  goto lane and the intents, which use the same operations.
- *Channels* (`Ranked`, `Promised`). Whoever owns a channel outranks all others that
  contributed to it at the last compose and are still active; whom an answer binds, since
  it was told that channels are free, outranks whoever claims these.
- *Loop* (`LoopInv`). A tick begins late by no more than a period, and what the last two
  intervals lack of two periods is no more than the lateness they began with
  (`OnSchedule`); the file is no older than the ticks since it was written (`Spent`,
  `KeptFresh`); the time an absent engine was taken for a live one is time its file has
  aged (`Forgotten`). The assumption that the ticks between two heartbeats fit in the
  lifetime of the file is one on the environment (behaviors and riders that do not hold
  up the tick): the code asserts nothing of it, and without it the file does lapse.
- *Parts* (`PartsInv`). What runs has a name in the frame, but for the publisher until its
  name is bound (`WhileComposing`, from the lemma `NamedFirst` on each list of steps);
  closing, whoever comes earlier in the order was asked (`WhileClosing`).
- *Goto lane* (`LaneInv`). Every goto behavior in the active set is the one in flight, with
  the same time left (`Flight`); the queue holds the queued gotos, each once, in the order
  of submission, and the one running is the one in flight (`Fifo`); a goto that has lost a
  channel is one the lane is about to cancel, or has (`Driving`). The refinement maps
  through `fate`: each step changes fates as one step of the contract, or not at all.
- *Intents* (`IntentsInv`). Ids the intents hold were issued by the engine (`Issued`); a
  base layer has its name and is never what a lock takes (`Rooted`); while an inhibition
  is why the base layer is gone, its name is in the set as last enforced, so that the
  clearing edge will be seen, or somebody sent it away (`Healing`). `NothingStranded`,
  `Withheld`, `GoalStands` and `HeldMeansGaze` are inductive next to these.
- *Spool* (`SpoolInv`). A command is in one place, and there once (`InOnePlace`); only what
  has landed is in the spool or was, and it does not land again (`LandedOnce`); what the
  engine holds follows from the step it is at (`InHand`). Order: a name is taken once and
  after those of all that had landed (`Numbered`), and what was read is in the order of the
  names, before all that is to be read (`InNameOrder`). Past the reset of the main spool
  nothing is left of what was there before (`Swept`). The two action properties follow from
  these.
- *Rules* (`RulesInv`). What the engine keeps of each rule agrees with the history of its
  condition (`Accounted`): an armed rule has seen its hysteresis through, the ticks of an
  open streak are those the history counts. `InhibitClears` needs to know when the rule
  fired last: once its cooldown has passed with the condition true it has fired since
  the condition began to hold, and nothing that it disables was run by a rule after that
  (`Evicts`). The log of a tick tells what the history owes (`ToldOf`), and the absence
  clocks are behind what was absent (`Clocks`). The theorem assumes that cooldowns and
  hysteresis are within the cap on ages and that a streak is counted to two at least: below
  these caps the model could not tell a long wait from a longer one, nor a streak's first
  tick from its second.
- *Face lock.* `Ownership`: what the lock added is among its own names, the rest of the
  inhibited set is what was asked for, and a prior claim is never among what was added.
  `Watchdogs`: the driver's clocks against the observed time. `NoOrphan` is inductive
  next to them.
- *Mouth.* The types of what the threads hold (`Places`), that there is a reply whenever
  one is worked on (`AtWork`), that the worker does nothing else while it cuts
  (`Cutting`), and that every chunk, queued, in the worker's hands or in the mouth,
  carries the generation its reply was born with (`Stamped`).
  The books (`BooksInv`): for each reply, what was queued is what was played, is
  being played, was skipped, and is still queued or held (`Balanced`). The order
  (`SeqInv`): the units in the queue follow each other without a gap (`Follows`), the
  first of them follows what went through the speaker or was withheld (`Reached`,
  `Left`), and older replies come first (`InOrder`, `Older`).
  Both speak of sums over a queue. Where one would use induction on its length, the
  proof takes the *first* position at which the claim would fail and refutes that
  (`SmallestNat`; `SumsAgree`, `UnitsAppend`, `UnitsTail`).
- *Processes* (`ProcsInv`). The stage of a command says what it holds (`Staged`); while a
  stop holds a pid, nothing but its own program has run under it (`OwnPid`); of a noun
  whose commands did not overlap, one command is at work at most (`Alone`), and it or the
  pid file knows every process (`Grasped`, `Recorded`, `Downed`).
- *Services* (`ServInv`). Of the calls an operator has still to make, the one that enables
  a presence is the last, or the last but the one that disables its siblings (`Ordered`,
  `Exclusive`); with both enabled somebody is about to disable one, or was and the call
  was lost (`BothPending`, over the ghost `torn`); while commands come one at a time, some
  presence is enabled that no pending call takes away (`Secure`).
- *Discovery* (`UnitsInv`, `PinInv`). What each command holds between its steps was
  answered by the unit it names (`Sound`), and so was what the registry holds
  (`Attested`). The hosts file: each writer's copy agrees with what it has read outside
  the managed block (`WorkSound`, `OutsideKept`), and a file that is not safe and was not
  hurt from outside is in the hands of one who verifies or restores it.
- *Clip* (`ClipInv`). What is encoded is a window of frames none older than its stamp
  allows, the temporary file is empty or whole, and neither the clip nor the work is newer
  than what the worker still has before it (`NotBefore`).
- *Clients* (`ClientsInv`). Nobody holds a client another holds (`HeldOnce`); whom the
  reader has, or a thread adopts or dismisses, is up (`Up`), and whom a thread is done with
  is gone or would not go (`Stubborn`). While the keeper makes a client the reader has none
  (`Attended`): without that an adopted client could push another out of the reader's hands.
- *Media* (`MediaInv`). The same of the media client (`Apart`, `Shut`). That nothing is
  heard from before a session rests on the pump having read since the last one was lost
  (`Caught`), which the keeper's dial takes longer than, unless it meets a release.
- *Voice* (`VoiceInv`). An utterance is in the queue once or in the worker's hands, and
  there exactly as long as it has no other fate (`Once`, `Awaited`); only a queue that was
  closed holds the stop mark (`Marked`), which is why what `close` pushes out to make room
  is an utterance. The microphone's window reaches the end of all the player has taken but the clip it
  has just taken, which the return of the call adds (`Covered`).
- *Memory of the mind* (`MemoryInv`). A turn that had left the window when the last folded
  pass began is in the summary or fell out of reach between two passes (`Summed`), and so
  it is for the pass under way once it is folded (`PassGathers`). That a pass takes the last `MaxBacklog` turns and still
  misses none within its reach rests on a count (`RecentReaches`). What the mind is told it sees is as old as it
  says (`EyesOpen`).
- *Forge* (`ForgeInv`). A request that has met nobody else's files is alone at work, and
  one that has met some leaves what is active in doubt (`NobodyElse`); how far it has come tells what the folders hold of it (`Staged`);
  nothing is announced that was not activated (`Activated`); between activations, what was
  learned last is what runs and what a boot finds (`LastStays`).
- *Turn, layer, tools* (`TurnInv`, `LayerInv`, `HandsInv`). All rounds of a turn but the
  last have their answers, and the last is owed exactly the calls not dispatched yet
  (`Owing`); what exists and what was told to end follows the steps of the stage
  (`StepsTaken`); what the spool, the results and the call under way hold agrees with
  what each call was told (`InSpool`, `InResults`, `UnderWay`, `Honest`).
- *Tee* (`TeeInv`). A path that is a tee's leads to one that has bound it (`PathLeads`); two
  that are starting are rivals (`StartsMeet`); until a rival ends, whoever lost the path was
  one, and so is who has it then or is about to (`Robbed`). A stretch
  without a consumer whose line is not written has one left (`LineLeft`). Nothing is torn
  because each outbox holds whole chunks in the order of the offers, none before the last
  one sent, and first the one its consumer is owed the rest of (`InTurn`, `Boxed`), and
  what waits for the loop comes after all of it (`Waiting`). That a whole burst of chunks
  can be put into an outbox, keeping this, is again proved at the first chunk where it
  would fail (`PushesExist`, `PushAllKeeps`).
- *Rules file* (`FilesInv`). What the mind taught and nobody took away stands in a block
  that can be read back (`TaughtStands`); a file nobody saved since a call wrote it loads,
  with what was written (`StillLoads`), and is live once the reload the call was told of
  has happened (`AppliedIsLive`); until then it stands in the file as the call read it
  (`ToldStands`). What the overlay merged over the shipped rules says (`MergeSays`: what is
  on in the overlay, and what is on in the base and not named by the overlay) has to be
  followed through a filter and a stable sort. Both are given by ranks, the n-th chosen
  place and the place a rule moves to, so that no induction is needed: that each rule
  gets a place is the fact that an injection between finite sets of one cardinality is
  onto (`Placed`, `PickedHas`, `SortedHas`).

Every invariant of the passing runs is stated by one of these theorems.
*Only model-checked*:

- Liveness under fairness (`EveryGotoEnds`, `NothingHangs`, `EndsWithItsFeed` and the liveness
  parts of the others) and everything with `ENABLED`: outside this prover.
- The splitters of `Speaking` recurse over texts; they are compared with their
  specification on every text up to a length.
- Temporal properties that bundle safety with liveness or concern several machines at
  once, the safety parts included: `FloorSound`, `MindSound`, `EarsSound`, `StateAgrees`,
  `SessionSound`, `SensesSound`, `OrientSound`, `SleepSound`, and of `AllGetsThrough` what it says of the broker.

No module declares a RECURSIVE operator.

## 6. Where the code and its words differ

### 6.1 With a run

1. `mouth_one_record`. A chunk is counted after it was queued
   (`speech/realtime_duplex.py:2549`); begun in between, it leaves the counter one
   too high, and each later onset cuts and records the reply again, against
   `cli/_commands/agent.py:1683-1690`.
2. `mqtt_refused`. `export/mqtt.py:619-621` says a refused message must not be
   recorded; the adapter answers a refusal by returning
   (`export/events_client.py:198`), so it is.
3. `mind_raises`. `embody/engine.py:1675-1676` says that `note_interrupted_reply`
   never raises. The walk of `_correct_spoken` over a deque that the turn thread pops
   raises `RuntimeError`, which its `IndexError` arm does not catch (1719).
4. `gaze_arrives`. `behavior/face_lock.py:257-258` says that convergence is
   unaffected. A lock starts with its command at 0 and no record of where the head
   was; with the head turned towards the face, the first frame shows a small offset,
   which becomes the one to shrink from, and the guard refuses every later aim.
5. `lock_own_gaze`. `behavior/face_lock.py:915-917` says that the lock's driver is the
   only admitter of `face-lock`. `behavior run face-lock` is an `add` like any other
   (`engine.py:438`), in the class its caller asks for; it evicts the lock's gaze, and
   the watchdog, which looks for the name, takes the operator's behavior for its own:
   the lock stays held, with its inhibitions and without a gaze.
6. `tools_refuse`. `embody/tools.py:43-44` says that the same code refuses in both
   places. The preflight's context has neither senses nor a base layer, so
   `look-at-sound`, `look-at-face` and the un-stop of the base layer are refused in
   every state of the engine.

### 6.2 Without a run

Met while modelling. A property or constant in brackets reproduces it.

*Runtime.*
- docs/operating-reachy.md:2581-2584 says that `behavior stop feel-alive` holds and
  the clearing edge of an inhibition never undoes it. When the inhibition has already
  evicted the base layer, the stop finds nothing to remove (`behavior/engine.py:409`),
  the cause stays `inhibition`, and the edge re-seeds it.
- A goal named after the base layer: replacing it, or a rule that disables the name,
  evicts the base layer with the cause `inhibition` although nothing is inhibited, and
  no clearing edge follows (`intents.py:511`; docs/operating-reachy.md:2612-2614).
  `Intents` keeps account of this (`dismissed`) and `SelfHealing` leaves it out. A goal
  declared again with other parameters is accepted and not admitted again
  (`intents.py:626`). `intents.py:43-54` describes an older driver.
- `behavior run` auto-starts the engine and submits after a fixed grace; `run()`
  resets the spool on its way up (`engine.py:789`) and may delete the command it was
  started for. `reset` also unlinks a client's half-written file (`control.py:228`).
- The message of an unconfirmed goto says that the command is still on disk
  (`cli/_commands/behavior.py:450-451`); `drain` unlinks before the engine applies
  (`control.py:250`) and a crash in between takes it. [`UnconfirmedStays`]
- `_admit_next` pops the queue's head before the pose provider and builder are asked
  (`goto_lane.py:447`); one that raises loses that goto. `GotoLane` assumes they do not.
- `liveness.py:96-99` takes the heartbeat for 25 Hz; it is twice a second.
- A failed read of `state.json` counts as an empty file, and the rider merges into
  that (`intents.py:661`).
- A rules file that is not UTF-8 raises `UnicodeDecodeError`, which `load_rules` does
  not catch (`rules.py:1046-1052`).
- `export/exporter.py:7` says it must never block; a full pipe blocks the tick until
  the reader reads. `StateAgrees` says that it does not wait for good.
- docs/operating-reachy.md (2443, 2491) gives 1.5 s as the greatest age of a face; the
  code has `MAX_FACE_AGE_S = 3.0`.
- The operating guide (~1590-1601) says that a silent camera client is re-warmed with
  no restart; one that goes silent before its first frame is judged by the age of
  another's, once (`face_sense.py:1113-1128`). [`StreamReturns`]

*Media and robot.*
- Two runtimes that start on one stale path both find it unserved, and the second unlinks
  the socket the first has bound (`audio_tee.py:728-745`); a tee whose backlog is full fails
  the probe and is taken for dead (755-). Both serve then, one of them at no path, and its
  `close` unlinks the other's file (507 says "Only ever OUR socket file"). [`KeepsPath`
  without `rivals`]
- `media_client.py:701-708` says the subsystem is never pulled out from under
  ourselves, and 724 that the camera is resolved once per client; a drop that overlaps
  the keeper's dial does either. [`NotUnderOurselves`, `CameraPerClient`] So does the
  pose reader with a second client (`state_reader.py`). [`AtMostOne`] A dial that overlaps
  the pump's own drop leaves the pump live, and it latches what the new session had
  standing (`audio_pump.py:28` says that a consumer never reads the past). [`NoPast`
  without `~raced`]
- Errors of the `ReachyMini()` constructor, and `http.client.IncompleteRead` in the
  HTTP transport and in `tts.synthesize`, are not mapped, though both say that every
  failure is.
- Two users of the daemon's one upload name may play each other's audio
  (`speech/playback.py`, `_UPLOAD_FILENAME`). [`OwnVoice`]
- A piece answered with nothing in all its attempts is left out of the audio without a
  word (`speech/tts.py:493`).

*Speech sessions.*
- A cut while the mouth holds a chunk taken and not begun drains nothing and is
  attributed to another reply (`realtime_duplex.py:1898-1899` against 2584); the cut of
  a complete reply by a reconnect is not recorded at all. [`CutIsRecorded`]
- An operator's cut drains whatever is queued; a reply born after its bump may lose
  its first chunk (2391-2393 says that cutting a sentence must not mute the answer).
  For this `NoHole` counts what the operator has drained.
- The split "ends on a word boundary" and is "never past it": `max(1, ...)` may exceed
  the share, and a text without a boundary is cut inside a word. [`WordBoundary`] A
  record that was evicted and made anew leaves a complete reply without a split.
- 2316-2325 says that seeding before arming is structural; an arm left by the last
  session may be sent before this one's items (2188-2191, 2091-2133). [`SeededFirst`,
  `MaxCuts` 1] Two `arm_once` calls may buy one reply; "one latched line per session"
  of `send_item` is one per streak of sessions that do not support it.
- A rate set while the worker dials may be overwritten by the dial's own reset of the
  flag: the session goes on at the old rate (`realtime.py:1338` against 50-52 and
  1239-1244). [`RightRate`] Audio kept over a discard is put back behind newer chunks
  (1364-1379). [`InOrder`]

*Mind.*
- `summary.py:46` says the window is never narrowed; while a fold fails it is (172,
  257). [`NeverNarrowed`]
- A rule kept although the reload raised is answered as a tool error; a budget is
  spent though the publish raised; a late refusal by the engine carries no "refusal"
  in its name. A command that was told "not confirmed" may still run.
- `_correct_spoken` finds the entry of a cut reply by its text and then writes or deletes
  by index (`embody/engine.py:1719-1729`; 1711-1717 says that the correction is "declined
  rather than misapplied"). Between the two the turn may pop, and the entry of another
  reply is narrowed or deleted. An earlier reply of the same words is narrowed instead of
  the one that was cut. What was heard of that other reply is then missing from the record.
- `_drain_spoken` asks whether there is an entry and then pops it (2529-2530); a correction
  that deletes the last one in between makes the pop raise `IndexError` out of the turn,
  and the layer ends.
- `create_rule` loses what the operator saves between its read and its replace
  (`embody/tools.py:738-741`); with the END line missing it turns rules of the tail
  into managed ones and drops the tail's `inhibit` tables (401-438 against 210-211).
- A tool call whose arguments had not begun when the stream broke off is made with
  none (`speech/llm.py:726-736`). A turn that fails after acting leaves no reply in
  the history.
- An `int(Infinity)` of a header's rate raises `OverflowError` (`embody/media.py:681`).
  A source read after its close opens its socket again; a bench microphone that failed
  to open is not tried again.
- A forged skill reported as timed out may act later, through `run_behavior`. A skill
  being replaced is removed before the new one is moved in (`forge/lifecycle.py:157-159`);
  a crash in between loses what docs/operating-reachy.md (~1657) says survives.
  [`SurvivesRestart`]

*Publishing.*
- With a client that offers `set_on_connect` (`Threads = {"tick", "client"}`) a cached
  snapshot may be sent after a newer one, or after the stop: `Mirrors`,
  `RecordedMeansRetained` and `OfflineAfterStop` fail. The client the runtime is given
  offers none. With `ShortOutages`, an outage between two polls is never noticed. An
  availability message whose publish raises is not retried. `active` carries the local
  time of each behavior, so in practice that key changes with each heartbeat.
- A subscription made before the connection is silently lost
  (`events_client.py:115-119`, 232-254). While the bus is down the mind reads "offline",
  which a face lock takes for an absence. One message may be applied after `stop`.

*Operators.*
- `start` takes any live pid for ours; two concurrent starters may both spawn
  (`supervisor.py:195`); a SIGKILL is not checked again.
- `enable` promises "at most one enabled, ever" (`service/manager.py:263`); a `disable` of a
  sibling that fails, or a reboot before it, leaves two, and so does demo-mode's own
  enable, which knows no sibling. [`AtMostOneOwner` without `torn`]
- `_build_pat_wake` says that sleep's own motion is not read as a press; the executor
  may still be moving when the window is over (`cli/_commands/sleep.py:238-252`, 663-677).
  [`OwnMotionIsNoTouch`: `PatOnly`, `DrowsyAfter` 1, `AsleepAfter` 2, `PoseEvery` 10,
  `MoveTime` 11, `PatWindow` 15, no stimuli or failures, one run]
- `resolve`'s re-pin after a long sweep writes back the address it had read and undoes a
  concurrent forget (`discover/resolve.py:183-199`, 261-264); a sweep cut by its deadline
  with one unit found takes it for the only one (336-346).
- A second Ctrl-C during the closing of the engine process skips what is left to close;
  `PartsReleased` leaves that out, and an exception between a publisher's start and its
  being bound.

## 7. What is not modelled

Every component is listed in `PROJECT.json` with what is modelled of it. Left out for
good: text and JSON formatting, argument parsing and exit codes (`cli/` beyond what is
named above), `explain/`, trajectories and signal processing, image processing and
embeddings (`vision/`, `stash/`), adapters around remote services, single HTTP requests,
`discover/ssh.py` (one command that is given the terminal), the payloads of published
events.

Of what is modelled, data are dropped where no property looks at them: poses,
parameters of behaviors, texts, the content of files, numbers a rule compares beyond
low and high. Clocks are whole units; a clock that steps backwards is not an input.
Some models are narrower than their code:

- `FaceGaze` has one axis, and no clamp on the tick's length, no parameters that change
  under a lock, no faces that move.
- `SharedState` takes it that the vendor subscribes again in each session it opens.
- `Microphone` takes it that `bind` fails only where there is a file, and `listen` never.
- `EmbodiedMind` tells texts apart by their number of words.
- `Speaking` knows one kind of quote and of dash.
- `AttachedFeed` has sense events only (a face and the touch sense), and one skill call
  per turn.
- `DuplexFloor` lets one reply arrive at a time and makes each locked section one step;
  what lies between the sections is `DuplexMouth`'s.
- `EmbodyTools` makes one call at a time; a budget's window is a count that the world
  resets.
- `GotoLane` takes it that the pose provider and the builder do not raise.
- `RealtimeSession` counts attempts to two; `NervousPublisher` has one key of each kind.

## 8. Plan

Done: every component with state of its own is modelled, each listed hazard has a
property, and the theorems of section 5. Next, in this order:

1. Proofs: the safety parts of the temporal properties. `AttachedFeed` (what is news is
   said once), `SharedState` (`NeverBack`, `NeverSilent`, `ReadingsForward`),
   `NervousPublisher`'s ledger, the lists of `DuplexFloor`, the three queues of `Hearing`.
2. Compositions across files: client, spool and intents driver as one system, so that
   what the mind's tools were told is checked against the whole engine; the feed with
   the publisher.
3. Larger instances where time allows: three gotos against three rivals beside the
   other machines, three sessions of the floor.
