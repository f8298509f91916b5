---------------------------- MODULE AttachedFeed ----------------------------
(* The runtime's feed and the agent attached to it: a tick publishes what the  *)
(* robot senses when it changed (export/runtime.py, SenseSnapshotDriver), to a *)
(* pipe (export/exporter.py) and to the bus (export/mqtt.py); the agent reads  *)
(* the pipe, makes cues of its lines and takes a turn for each that has some   *)
(* (cli/_commands/agent.py), in which it may call skills it forged             *)
(* (forge/activate.py).  Of the feed's four kinds of events this is the one    *)
(* that is compared with the last; of what a tick senses it has the face, a    *)
(* cue when somebody is seen, and the touch sense's state, never a cue.        *)
EXTENDS Naturals, Sequences, SequencesExt

CONSTANTS Faces,        \* who may be seen; "nobody" is no cue
          PipeMax,      \* lines a pipe holds before its writer waits
          BufferMax,    \* maxlen of the cue buffer
          MaxEvents,    \* bound: sense events
          MaxForged,    \* bound: skills announced while the agent runs
          MaxTurns, MaxLines      \* --max-turns, --max-events

FeedAssumption ==
  /\ "nobody" \in Faces
  /\ {PipeMax, BufferMax, MaxTurns, MaxLines} \subseteq Nat \ {0}
  /\ {MaxEvents, MaxForged} \subseteq Nat

VARIABLES
  sense,      \* what this tick's senses read
  tick,       \* where the tick thread is: "sense" | "stdout" | "bus"
  lastScrub,  \* _last_scrub, or None
  fed,        \* every sense event emitted, in order
  pipe,       \* the numbers of the lines written and not read
  broken,     \* the exporter's _broken
  online,     \* whether the publisher has a session
  onBus,      \* the number of the last event the session took
  agent,      \* "starts" | "reads" | "turns" | "thinks" | "waits" (for a skill) | "left"
  forge,      \* "none" (not installed) | "held" (no client) | "active"
  buffer,     \* the cues: numbers of events, 0 for a forged skill
  lines,      \* events read
  turns,      \* what each turn was given
  announced,  \* skills announced to the buffer
  evicted,    \* ghost: cues that fell off the buffer
  skill       \* the worker of this turn's call: "none" | "runs" | "done"

vars == <<sense, tick, lastScrub, fed, pipe, broken, online, onBus, agent, forge, buffer, lines,
          turns, announced, evicted, skill>>

runtime == <<sense, tick, lastScrub, fed, online, onBus>>
mind == <<agent, forge, buffer, lines, turns, announced, evicted, skill>>

None == [none |-> TRUE]
Reasons == {"stillness", "clock-gap"}

(* Sense, with the touch sense's state: a reason that says why it is blocked   *)
(* and a clock that moves without anything having happened.                    *)
Readings == [face : Faces, availability : {"available", "blocked"}, reason : Reasons, clock : 0 .. 1]

(* _pat_state_payload: outside "blocked" a reason means nothing.               *)
Payload(s) == [s EXCEPT !.reason = IF s.availability = "blocked" THEN s.reason ELSE "none"]

(* _scrub_sense_payload: what is compared has no clock readings in it.         *)
Scrub(p) == [p EXCEPT !.clock = 0]

Init ==
  /\ sense = [face |-> "nobody", availability |-> "available", reason |-> "stillness", clock |-> 0]
  /\ tick = "sense" /\ lastScrub = None /\ fed = <<>>
  /\ pipe = <<>> /\ broken = FALSE /\ online \in BOOLEAN /\ onBus = 0
  /\ agent = "starts" /\ forge = "none" /\ buffer = <<>> /\ lines = 0 /\ turns = <<>> /\ announced = 0
  /\ evicted = {} /\ skill = "none"

-----------------------------------------------------------------------------
(* The tick thread *)
Tick ==
  /\ tick = "sense" /\ Len(fed) < MaxEvents
  /\ sense' \in Readings
  /\ IF Scrub(Payload(sense')) = lastScrub THEN UNCHANGED <<tick, lastScrub, fed>>
     ELSE /\ lastScrub' = Scrub(Payload(sense'))
          /\ fed' = Append(fed, Payload(sense'))
          /\ tick' = "stdout"
  /\ UNCHANGED <<pipe, broken, online, onBus, mind>>

(* JsonlExporter.emit: the first line nobody can read any more is the last     *)
(* one tried; a full pipe makes the tick wait.                                 *)
WriteLine ==
  /\ tick = "stdout" /\ tick' = "bus"
  /\ \/ broken /\ UNCHANGED <<pipe, broken>>
     \/ ~broken /\ agent = "left" /\ broken' = TRUE /\ UNCHANGED pipe
     \/ ~broken /\ agent # "left" /\ Len(pipe) < PipeMax
        /\ pipe' = Append(pipe, Len(fed)) /\ UNCHANGED broken
  /\ UNCHANGED <<sense, lastScrub, fed, online, onBus, mind>>

(* NervousPublisher.emit: nothing is kept for a broker that is not there.      *)
PublishEvent ==
  /\ tick = "bus" /\ tick' = "sense"
  /\ onBus' = IF online THEN Len(fed) ELSE onBus
  /\ UNCHANGED <<sense, lastScrub, fed, pipe, broken, online, mind>>

Link == online' = ~online /\ UNCHANGED <<sense, tick, lastScrub, fed, onBus, pipe, broken, mind>>

-----------------------------------------------------------------------------
(* The agent *)

(* _activate_forge: the skills of earlier runs are registered, then the client *)
(* is made; what fails on the way is swallowed there.                          *)
Activations == {"held", "active"}

(* _build_default_engine: without the forge installed there is no such tool;   *)
(* with it, the agent attaches whatever became of its client.                  *)
Attach ==
  /\ agent = "starts" /\ agent' = "reads"
  /\ forge' \in {"none"} \union Activations
  /\ UNCHANGED <<runtime, pipe, broken, buffer, lines, turns, announced, evicted, skill>>

(* A deque with a maxlen *)
Kept(s) == IF Len(s) > BufferMax THEN Tail(s) ELSE s
Fallen(s) == IF Len(s) > BufferMax THEN {Head(s)} ELSE {}

(* sense_cues: an event is a cue for what it says, whatever changed in it.     *)
HasCue(n) == fed[n].face # "nobody"

(* _run_attach_loop *)
ReadLine ==
  /\ agent = "reads" /\ pipe # <<>>
  /\ pipe' = Tail(pipe)
  /\ IF lines >= MaxLines THEN agent' = "left" /\ UNCHANGED <<buffer, lines, evicted>>
     ELSE LET n == Head(pipe) IN
          /\ lines' = lines + 1
          /\ buffer' = IF HasCue(n) THEN Kept(Append(buffer, n)) ELSE buffer
          /\ evicted' = IF HasCue(n) THEN evicted \union Fallen(Append(buffer, n)) ELSE evicted
          /\ agent' = IF HasCue(n) THEN "turns" ELSE "reads"
  /\ UNCHANGED <<runtime, broken, forge, turns, announced, skill>>

(* run_turn drains the buffer first: never empty here, since the loop has just *)
(* put a cue in it.  A worker an earlier turn did not wait for is nobody's now. *)
BeginTurn ==
  /\ agent = "turns" /\ agent' = "thinks"
  /\ turns' = Append(turns, buffer) /\ buffer' = <<>>
  /\ skill' = "none"
  /\ UNCHANGED <<runtime, pipe, broken, forge, lines, announced, evicted>>

EndTurn ==
  /\ agent = "thinks"
  /\ agent' = IF Len(turns) >= MaxTurns THEN "left" ELSE "reads"
  /\ UNCHANGED <<runtime, pipe, broken, forge, buffer, lines, turns, announced, evicted, skill>>

(* The forge's thread announces a skill (feed_forge); it waits for a cue of    *)
(* the feed to be told of.                                                     *)
Announce ==
  /\ agent # "left" /\ forge = "active" /\ announced < MaxForged /\ announced' = announced + 1
  /\ buffer' = Kept(Append(buffer, 0))
  /\ evicted' = evicted \union Fallen(Append(buffer, 0))
  /\ UNCHANGED <<runtime, pipe, broken, agent, forge, lines, turns, skill>>

(* wrap_executor: a forged skill, of this run or of an earlier one, runs on a  *)
(* thread of its own, waited for so long.  A turn's rounds bound its calls;    *)
(* here to one.                                                                *)
CallSkill ==
  /\ agent = "thinks" /\ forge # "none" /\ skill = "none"
  /\ agent' = "waits" /\ skill' = "runs"
  /\ UNCHANGED <<runtime, pipe, broken, forge, buffer, lines, turns, announced, evicted>>

SkillEnds ==
  /\ skill = "runs" /\ skill' = "done"
  /\ UNCHANGED <<runtime, pipe, broken, agent, forge, buffer, lines, turns, announced, evicted>>

(* join(timeout): ended, or still at it when the time is up.                   *)
WaitedEnough == skill \in {"runs", "done"}

SkillAnswered ==
  /\ agent = "waits" /\ WaitedEnough
  /\ agent' = "thinks"
  /\ UNCHANGED <<runtime, pipe, broken, forge, buffer, lines, turns, announced, evicted, skill>>

(* The operator ends the agent, or a turn's request fails: the loop catches    *)
(* nothing, and the skills' threads die with the process.                      *)
Leave ==
  /\ agent # "left" /\ agent' = "left"
  /\ UNCHANGED <<runtime, pipe, broken, forge, buffer, lines, turns, announced, evicted, skill>>

Turning == Attach \/ ReadLine \/ BeginTurn \/ EndTurn \/ SkillAnswered
Feeding == WriteLine \/ PublishEvent

Next == Tick \/ Feeding \/ Link \/ Turning \/ Announce \/ CallSkill \/ SkillEnds \/ Leave
Spec == Init /\ [][Next]_vars
FairSpec == Spec /\ WF_vars(Feeding) /\ WF_vars(Turning)

-----------------------------------------------------------------------------
TypeOK ==
  /\ sense \in Readings /\ Len(pipe) <= PipeMax /\ Len(buffer) <= BufferMax
  /\ lines <= MaxLines /\ Len(turns) <= MaxTurns /\ onBus <= Len(fed)
  /\ agent \in {"starts", "reads", "turns", "thinks", "waits", "left"}
  /\ forge \in {"none", "held", "active"} /\ skill \in {"none", "runs", "done"}

(* What somebody who reads the feed can tell of a reading                      *)
Told(r) == <<r.face, r.availability, r.availability = "blocked" /\ r.reason = "stillness">>

(* Between two ticks the last thing the feed said is what the robot senses,    *)
(* and nothing is said twice in a row: moving clocks are no news.              *)
FeedCurrent ==
  /\ tick = "sense" /\ fed # <<>> => Told(fed[Len(fed)]) = Told(sense)
  /\ \A i \in 1 .. Len(fed) - 1 : Told(fed[i]) # Told(fed[i + 1])

(* Every face that a line told of is thought about, in order and once, unless  *)
(* newer cues pushed it out.                                                   *)
Thought == FlattenSeq(turns) \o buffer
EveryCueOnce ==
  /\ \A n \in 1 .. lines : fed[n].face # "nobody" => n \in evicted \/ Contains(Thought, n)
  /\ LET told == SelectSeq(Thought, LAMBDA c : c # 0)
     IN \A i \in 1 .. Len(told) - 1 : told[i] < told[i + 1]

(* Whatever the agent does, leaves or calls, a tick ends.                      *)
TicksEnd == []<>(tick = "sense")

=============================================================================
