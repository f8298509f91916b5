----------------------------- MODULE EmbodyTurns -----------------------------
(* One process of the embodied mind: `agent embody` (cli/_commands/agent.py)   *)
(* makes its parts, starts their threads, runs turns until it is told to stop  *)
(* or its feed is read and thought about, and takes everything down again.     *)
(* What a turn does is EmbodiedMind; what the parts do is in their modules.    *)

(* One turn of a model that acts: its answer streams in (speech/llm.py), the   *)
(* tool calls in it are dispatched in order and answered, and it is asked      *)
(* again (embody/engine.py: the mind; speech/agent_turn.py: the attached       *)
(* agent).  A call is its index, its tool and how much of its arguments came.  *)

(***************************************************************************)
(* The embodied mind's memory and eyes: embody/summary.py folds the turns  *)
(* that left the foreground window into one rolling summary, the clip      *)
(* asker of cli/_commands/agent.py asks the vision lane about each clip    *)
(* the runtime publishes, and embody/engine.py shows both to its lanes.    *)
(*                                                                         *)
(* Three threads.  A worker's call to its lane takes time, in which the    *)
(* turn loop goes on; it may fail, and what it answers may be refused.     *)
(***************************************************************************)
EXTENDS Sequences, SequencesExt, Integers

-----------------------------------------------------------------------------
(* The layer                                                                 *)

CONSTANTS MaxLines,     \* bound: lines of the feed
          MaxTurns,     \* --max-turns; 0: no bound
          MaxPending,   \* what the engine's queue of triggers holds
          MaxHeard      \* bound: utterances the session hears

LayerAssumption == MaxPending \in Nat \ {0} /\ {MaxLines, MaxTurns, MaxHeard} \subseteq Nat

(* _compose_embody_seam: the engine and the session fill the slots their       *)
(* earlier-made clients look them up in.                                       *)
Composing == <<"media", "policy", "registry", "engine", "session", "reader", "asker", "summary">>
Starting == <<"session", "reader", "asker", "summary">>
Closing == <<"reader", "asker", "summary", "session", "media">>

VARIABLES
  stage,      \* "composing", "starting", "running", "closing", "down", "failed"
  at,         \* steps of the stage taken
  made, live, \* parts that exist; whose thread runs
  asked,      \* parts told to end
  stop,       \* the layer's _stop
  main,       \* the turn loop: "first look", "second look", "turn"
  done,       \* the reader's done, and
  saw,        \* what the turn loop found at its first look
  feed, heard,   \* lines not yet read; utterances so far
  pending,    \* triggers waiting in the engine
  ran,        \* turns
  why,        \* ghost: why the run ended
  lateTap,    \* ghost: a tap ran before the slot it looks in was filled
  early       \* ghost: the media were closed before the session was asked to end

layerVars == <<stage, at, made, live, asked, stop, main, done, saw, feed, heard, pending, ran,
          why, lateTap, early>>

LayerInit ==
  /\ stage = "composing" /\ at = 0 /\ made = {} /\ live = {} /\ asked = {}
  /\ stop = FALSE /\ main = "first look" /\ done = FALSE /\ saw = FALSE
  /\ feed \in 0 .. MaxLines /\ heard = 0 /\ pending = 0 /\ ran = 0
  /\ why = "" /\ lateTap = FALSE /\ early = FALSE

Offer(n) == IF n < MaxPending THEN n + 1 ELSE n

-----------------------------------------------------------------------------
(* Composing and starting.  A constructor or an unreadable feed raises, and    *)
(* nothing runs yet; a session that cannot start leaves the layer deaf.        *)
Make ==
  /\ stage = "composing" /\ at < Len(Composing)
  /\ \/ made' = made \union {Composing[at + 1]} /\ at' = at + 1 /\ stage' = stage
     \/ stage' = "failed" /\ UNCHANGED <<made, at>>
  /\ UNCHANGED <<live, asked, stop, main, done, saw, feed, heard, pending, ran, why, lateTap, early>>

Composed ==
  /\ stage = "composing" /\ at = Len(Composing)
  /\ stage' = "starting" /\ at' = 0
  /\ UNCHANGED <<made, live, asked, stop, main, done, saw, feed, heard, pending, ran, why, lateTap, early>>

Start ==
  /\ stage = "starting" /\ at < Len(Starting)
  /\ LET p == Starting[at + 1]
     IN live' \in {live \union {p}} \union IF p = "session" THEN {live} ELSE {}
  /\ at' = at + 1
  /\ UNCHANGED <<stage, made, asked, stop, main, done, saw, feed, heard, pending, ran, why, lateTap, early>>

Started ==
  /\ stage = "starting" /\ at = Len(Starting)
  /\ stage' = "running"
  /\ UNCHANGED <<at, made, live, asked, stop, main, done, saw, feed, heard, pending, ran, why, lateTap, early>>

-----------------------------------------------------------------------------
(* The threads *)

(* _CueReader._run: a line that is a cue for the mind, or one that is not.     *)
ReadLine ==
  /\ "reader" \in live /\ ~done /\ feed > 0
  /\ feed' = feed - 1
  /\ IF "reader" \in asked THEN done' = TRUE /\ UNCHANGED pending
     ELSE pending' \in {pending, Offer(pending)} /\ UNCHANGED done
  /\ UNCHANGED <<stage, at, made, live, asked, stop, main, saw, heard, ran, why, lateTap, early>>

(* The last line, --max-events, or a source that raises.                       *)
FeedEnds ==
  /\ "reader" \in live /\ ~done
  /\ done' = TRUE
  /\ UNCHANGED <<stage, at, made, live, asked, stop, main, saw, feed, heard, pending, ran, why, lateTap, early>>

(* The session's worker: an utterance for the engine, an arm for the session.  *)
Utterance ==
  /\ "session" \in live /\ heard < MaxHeard
  /\ heard' = heard + 1 /\ pending' = Offer(pending)
  /\ lateTap' = (lateTap \/ ~({"engine", "session"} \subseteq made))
  /\ UNCHANGED <<stage, at, made, live, asked, stop, main, done, saw, feed, ran, why, early>>

(* A thread ends once it was told to, whatever it was in the middle of.        *)
ThreadEnds(p) ==
  /\ p \in live \intersect asked /\ live' = live \ {p}
  /\ done' = (done \/ p = "reader")
  /\ UNCHANGED <<stage, at, made, asked, stop, main, saw, feed, heard, pending, ran, why, lateTap, early>>

-----------------------------------------------------------------------------
(* engine.run: should_stop, then the bound, then a turn. *)
Leave(reason) == stage' = "closing" /\ at' = 0 /\ why' = reason

(* Two looks, and a reader between them: what it has done, what is waiting.    *)
FaultyOver == [reader |-> done /\ feed = 0, queue |-> pending = 0]
Over == [reader |-> done, queue |-> pending = 0]
FaultyLooks == <<"queue", "reader">>
Looks == <<"reader", "queue">>

LookFirst ==
  /\ stage = "running" /\ main = "first look"
  /\ IF stop THEN Leave("stopped") /\ UNCHANGED <<main, saw>>
     ELSE saw' = Over[Looks[1]] /\ main' = "second look" /\ UNCHANGED <<stage, at, why>>
  /\ UNCHANGED <<made, live, asked, stop, done, feed, heard, pending, ran, lateTap, early>>

LookAgain ==
  /\ stage = "running" /\ main = "second look"
  /\ IF saw /\ Over[Looks[2]] THEN Leave("read") /\ UNCHANGED main
     ELSE IF MaxTurns > 0 /\ ran = MaxTurns THEN Leave("turns") /\ UNCHANGED main
     ELSE main' = "turn" /\ UNCHANGED <<stage, at, why>>
  /\ UNCHANGED <<made, live, asked, stop, done, saw, feed, heard, pending, ran, lateTap, early>>

(* The pause, and run_turn: nothing waits, or alerts wait for their interval,  *)
(* or one turn takes all there is.                                             *)
Turn ==
  /\ stage = "running" /\ main = "turn" /\ main' = "first look"
  /\ pending' = 0
  /\ ran' = IF pending > 0 /\ MaxTurns > 0 THEN ran + 1 ELSE ran
  /\ UNCHANGED <<stage, at, made, live, asked, stop, done, saw, feed, heard, why, lateTap, early>>

Deferred ==
  /\ stage = "running" /\ main = "turn" /\ pending > 0 /\ main' = "first look"
  /\ UNCHANGED <<stage, at, made, live, asked, stop, done, saw, feed, heard, pending, ran, why, lateTap, early>>

(* Ctrl-C, wherever the main thread is once the layer starts: `finally`.       *)
Interrupt ==
  /\ stage \in {"starting", "running"}
  /\ stop' = TRUE /\ Leave("interrupted")
  /\ UNCHANGED <<made, live, asked, main, done, saw, feed, heard, pending, ran, lateTap, early>>

(* _EmbodyLayer.close: flags for three threads, then the two that must close,  *)
(* neither keeping the other from its turn.                                    *)
Close ==
  /\ stage = "closing" /\ at < Len(Closing)
  /\ at' = at + 1 /\ stop' = TRUE
  /\ asked' = asked \union {Closing[at + 1]}
  /\ early' = (early \/ (Closing[at + 1] = "media" /\ "session" \in live \ asked))
  /\ UNCHANGED <<stage, made, live, main, done, saw, feed, heard, pending, ran, why, lateTap>>

Closed ==
  /\ stage = "closing" /\ at = Len(Closing) /\ stage' = "down"
  /\ UNCHANGED <<at, made, live, asked, stop, main, done, saw, feed, heard, pending, ran, why, lateTap, early>>

Main == Make \/ Composed \/ Start \/ Started \/ LookFirst \/ LookAgain \/ Turn \/ Close \/ Closed
Threads == ReadLine \/ FeedEnds \/ \E p \in {"session", "reader", "asker", "summary"} : ThreadEnds(p)
LayerNext == Main \/ Threads \/ Utterance \/ Deferred \/ Interrupt

LayerSpec == LayerInit /\ [][LayerNext]_layerVars

(* The main thread runs, alerts are not deferred for ever, and the feed ends.  *)
LayerFairSpec == LayerSpec /\ WF_layerVars(Main) /\ SF_layerVars(Turn) /\ WF_layerVars(FeedEnds)

-----------------------------------------------------------------------------
(* A layer that ends because its feed was read has thought about all of it:    *)
(* the reader's last cue does not slip in between the two looks.               *)
ThoughtAbout == why = "read" /\ heard = 0 => pending = 0

(* However the run ended - interrupted while it started, too - whatever runs   *)
(* was told to end, the session before the media it reads and plays through.   *)
TakenDown == (stage = "down" => live \subseteq asked /\ "media" \in asked) /\ ~early

(* No tap looks in a slot that is not filled yet, and a composition that       *)
(* failed left nothing running.                                                *)
NothingEarly == ~lateTap /\ (stage = "failed" => live = {})

(* What the layer never leaves behind, however it starts, runs and ends.       *)
LayerSafe == ThoughtAbout /\ TakenDown /\ NothingEarly

(* A feed that ends ends the layer, unless somebody goes on speaking to it.    *)
EndsWithItsFeed == []<>(done => stage = "down" \/ heard > 0)

-----------------------------------------------------------------------------
(* One turn                                                                  *)

CONSTANTS MaxCalls,     \* calls in one answer
          Whole,        \* pieces the arguments of a call come in
          MaxRounds,    \* max_tool_rounds
          MuteAfter,    \* DEFAULT_AUDIO_MUTE_THRESHOLD
          HistoryMax,   \* turns remembered
          MaxToolTurns      \* bound

ToolAssumption ==
  /\ {MaxRounds, MuteAfter, Whole} \subseteq Nat \ {0}
  /\ {MaxCalls, HistoryMax, MaxToolTurns} \subseteq Nat

VARIABLES
  who,        \* "mind", "agent" (speech required), "agent, speech optional"
  turn,       \* "idle", "streaming", "dispatching", "raised"
  round, turns,
  acc,        \* _TurnState: calls in the order their indices were first seen
  text,       \* whether the answer has any text or reasoning
  calls,      \* calls of this answer not dispatched yet
  conv,       \* messages after the user's: a set of calls asked for, or one answered
  history,    \* replies of past turns: text, or none
  streak, muted,
  acted,      \* ghost: pieces of arguments each effect was done with
  lastHeard   \* ghost: failures of the audio tools since one last worked

toolVars == <<who, turn, round, turns, acc, text, calls, conv, history, streak, muted,
          acted, lastHeard>>

Tools == {"audio", "other"}

ToolInit ==
  /\ who \in {"mind", "agent", "agent, speech optional"}
  /\ turn = "idle" /\ round = 0 /\ turns = 0
  /\ acc = <<>> /\ text = FALSE /\ calls = <<>> /\ conv = <<>> /\ history = <<>>
  /\ streak = 0 /\ muted = FALSE /\ acted = {} /\ lastHeard = 0

-----------------------------------------------------------------------------
(* run_turn, once cues wait: a conversation of the history and what is new.    *)
Ask ==
  /\ turn = "idle" /\ turns < MaxToolTurns
  /\ turn' = "streaming" /\ turns' = turns + 1 /\ round' = 1
  /\ conv' = <<>> /\ acc' = <<>> /\ text' = FALSE
  /\ UNCHANGED <<who, calls, history, streak, muted, acted, lastHeard>>

(* _fold_turn_chunk: text, a first delta of a call, or a piece of one's        *)
(* arguments, by its index; a chunk that is no JSON is skipped.                *)
Text ==
  /\ turn = "streaming" /\ ~text
  /\ text' = TRUE
  /\ UNCHANGED <<who, turn, round, turns, acc, calls, conv, history, streak, muted, acted, lastHeard>>

Delta ==
  /\ turn = "streaming"
  /\ \E i \in 1 .. MaxCalls, t \in Tools :
       LET seen == {n \in DOMAIN acc : acc[n].index = i} IN
       \/ seen = {} /\ acc' = Append(acc, [index |-> i, tool |-> t, pieces |-> 0])
       \/ \E n \in seen : acc[n].pieces < Whole /\ acc' = [acc EXCEPT ![n].pieces = @ + 1]
  /\ UNCHANGED <<who, turn, round, turns, text, calls, conv, history, streak, muted, acted, lastHeard>>

(* The turn is over: the mind's reply is kept, even the one that failed.       *)
AnswerOver(reply) ==
  /\ turn' = "idle" /\ calls' = <<>>
  /\ history' = IF Len(history) < HistoryMax THEN Append(history, reply)
                ELSE IF HistoryMax = 0 THEN <<>> ELSE Append(Tail(history), reply)

(* [DONE], the end of the connection wherever it is in a call, or the cancel   *)
(* flag seen at the next chunk: what has come is the answer.                   *)
EndOfAnswer ==
  /\ turn = "streaming"
  /\ IF acc = <<>> THEN AnswerOver(text) /\ UNCHANGED conv
     ELSE /\ turn' = "dispatching" /\ calls' = acc
          /\ conv' = Append(conv, [asked |-> {acc[n].index : n \in DOMAIN acc}, answered |-> {}])
          /\ UNCHANGED history
  /\ acc' = <<>>
  /\ UNCHANGED <<who, round, turns, text, streak, muted, acted, lastHeard>>

(* Idle for too long, refused, or broken off by an exception: the mind drops   *)
(* the turn by name; the attached agent's exception leaves the turn.           *)
StreamFails ==
  /\ turn = "streaming"
  /\ IF who = "mind" THEN AnswerOver(FALSE) ELSE turn' = "raised" /\ UNCHANGED <<calls, history>>
  /\ UNCHANGED <<who, round, turns, acc, text, conv, streak, muted, acted, lastHeard>>

-----------------------------------------------------------------------------
(* dispatch: no arguments stand for {}, and what is no JSON object is refused. *)
Readable(n) == n \in {0, Whole}

Answered ==
  conv' = [conv EXCEPT ![Len(conv)].answered = @ \union {Head(calls).index}]

(* The next round, or no more of them. *)
Then ==
  IF Len(calls) > 1 THEN calls' = Tail(calls) /\ UNCHANGED <<turn, round, text, history>>
  ELSE IF round = MaxRounds THEN AnswerOver(text) /\ UNCHANGED <<round, text>>
  ELSE /\ calls' = <<>> /\ turn' = "streaming" /\ round' = round + 1
       /\ text' = FALSE /\ UNCHANGED history

Gated == who # "mind" /\ Head(calls).tool = "audio"

(* Refused by name, unknown, or failed in its handler: answered all the same.  *)
Refuse ==
  /\ turn = "dispatching" /\ ~Gated
  /\ Answered /\ Then
  /\ UNCHANGED <<who, turns, acc, streak, muted, acted, lastHeard>>

(* Checked against the catalog and its parameters, then handed to the engine   *)
(* through the spool, whether or not it confirms in time; or proposed, or done *)
(* here.                                                                       *)
Do ==
  /\ turn = "dispatching" /\ ~Gated /\ Readable(Head(calls).pieces)
  /\ acted' = acted \union {Head(calls).pieces}
  /\ Answered /\ Then
  /\ UNCHANGED <<who, turns, acc, streak, muted, lastHeard>>

(* _dispatch_audio: muted ones are answered without being tried.               *)
AudioMuted ==
  /\ turn = "dispatching" /\ Gated /\ muted
  /\ Answered /\ Then
  /\ UNCHANGED <<who, turns, acc, streak, muted, acted, lastHeard>>

FaultyWorked == streak
Worked == 0

AudioWorks ==
  /\ turn = "dispatching" /\ Gated /\ ~muted /\ Readable(Head(calls).pieces)
  /\ acted' = acted \union {Head(calls).pieces}
  /\ streak' = Worked /\ lastHeard' = 0
  /\ Answered /\ Then
  /\ UNCHANGED <<who, turns, acc, muted>>

AudioFails ==
  /\ turn = "dispatching" /\ Gated /\ ~muted
  /\ IF who = "agent" THEN turn' = "raised" /\ UNCHANGED <<round, text, calls, conv, history, streak, muted, lastHeard>>
     ELSE /\ streak' = streak + 1 /\ lastHeard' = lastHeard + 1
          /\ muted' = (streak + 1 >= MuteAfter)
          /\ Answered /\ Then
  /\ UNCHANGED <<who, turns, acc, acted>>

ToolNext ==
  \/ Ask \/ Text \/ Delta \/ EndOfAnswer \/ StreamFails
  \/ Refuse \/ Do \/ AudioMuted \/ AudioWorks \/ AudioFails

ToolSpec == ToolInit /\ [][ToolNext]_toolVars

-----------------------------------------------------------------------------
(* The endpoint is never asked again while a call it made has no answer.       *)
AllAnswered ==
  turn = "streaming" => \A n \in DOMAIN conv :
    conv[n].answered = conv[n].asked

(* Nothing is done on part of the arguments a call was going to have, wherever *)
(* its stream broke off.                                                       *)
NotOnHalf == acted \subseteq {0, Whole}

(* Speech is given up exactly after MuteAfter failures in a row.               *)
MutedForCause == muted <=> lastHeard >= MuteAfter

(* What a turn owes the endpoint, the world and the one who listens.           *)
TurnSound == AllAnswered /\ NotOnHalf /\ MutedForCause

-----------------------------------------------------------------------------
(* What is remembered between turns                                          *)

CONSTANTS KeptTurns,       \* n: turns the shared history holds
          SensesMax,       \* m: turns the foreground window replays
          MinNewTurns, MaxBacklog,      \* when a pass runs, and how many turns it folds
          StaleAfter,      \* age at which a clip, and what was seen in it, is dropped
          MaxRemembered, MaxClips  \* bounds: turns and clips in a behavior

VARIABLES past,       \* turns counted; the last one may not be in the history yet
          recorded,   \* turns put into the history
          summary,    \* the turns the summary covers
          stale,      \* the summary's marker
          lastTurn,   \* the producer: turns when its last pass began
          pass,       \* the producer's pass
          clip,       \* the clip block the runtime publishes: number and age
          question,   \* the last clip asked about, or dropped as too old
          ask,        \* the question under way
          percept,    \* the perception slot: the clip's number and age
          \* for the properties only
          since,      \* turns in the history when the last folded pass began
          outrun,     \* turns that fell out of reach between two folded passes
          trueAge     \* age of what the slot shows

memory == <<past, recorded, summary, stale, lastTurn, pass, since, outrun>>
eyes == <<clip, question, ask, percept, trueAge>>
memoryVars == <<memory, eyes>>

\* Limits.__post_init__ refuses a window wider than the history.
WorkersAssumption ==
    /\ {KeptTurns, SensesMax, StaleAfter, MaxRemembered, MaxClips} \subseteq Nat
    /\ {MinNewTurns, MaxBacklog} \subseteq Nat \ {0}
    /\ SensesMax <= KeptTurns

NoClip == [id |-> 0, age |-> 0]
NoPass == [step |-> "idle", folds |-> {}, upto |-> 0]

MemoryInit ==
    /\ past = 0 /\ recorded = 0
    /\ summary = {} /\ stale = FALSE /\ lastTurn = 0 /\ pass = NoPass
    /\ clip = NoClip /\ question = 0 /\ ask = NoClip /\ percept = NoClip
    /\ since = 0 /\ outrun = {} /\ trueAge = 0

-----------------------------------------------------------------------------
(* The turn loop's history *)

\* The last k of n turns.
LastOf(n, k) == {t \in 1..n : t > n - k}
History == LastOf(recorded, KeptTurns)
Window == LastOf(recorded, SensesMax)

\* backlog: the whole history where there is no window.
Backlog == IF SensesMax = 0 THEN History ELSE History \ Window

\* A turn is counted when it begins and joins the history when its tool loop is over.
TurnBegins ==
    /\ past = recorded /\ past < MaxRemembered
    /\ past' = past + 1
    /\ UNCHANGED <<recorded, summary, stale, lastTurn, pass, since, outrun, eyes>>

TurnEnds ==
    /\ past > recorded
    /\ recorded' = past
    /\ UNCHANGED <<past, summary, stale, lastTurn, pass, since, outrun, eyes>>

-----------------------------------------------------------------------------
(* The summary producer *)

FaultyRecent(backlog) == {t \in backlog : \A u \in backlog : t <= u}
\* build_summary_prompt: the most recent part of the backlog.
Recent(backlog) == {t \in backlog : Cardinality({u \in backlog : u > t}) < MaxBacklog}

\* poll_once: enough new turns and something to fold.  The count is taken before the
\* attempt, so that a failed pass is not tried again before as many turns more.
Poll ==
    /\ pass = NoPass
    /\ Backlog # {} /\ past - lastTurn >= MinNewTurns
    /\ lastTurn' = past
    /\ pass' = [step |-> "asking", folds |-> summary \cup Recent(Backlog), upto |-> recorded]
    /\ UNCHANGED <<past, recorded, summary, stale, since, outrun, eyes>>

\* Turns that left the window after the last folded pass began, and that are out of the
\* history, or have MaxBacklog turns of the backlog after them, when the next one does.
OutOfReach ==
    {t \in 1..pass.upto : /\ t > since - SensesMax
                          /\ \/ t <= pass.upto - KeptTurns
                             \/ t <= pass.upto - SensesMax - MaxBacklog}

\* The worker lane answers and update_summary takes it.
Folded ==
    /\ pass.step = "asking"
    /\ summary' = pass.folds /\ stale' = FALSE
    /\ since' = pass.upto
    /\ outrun' = outrun \cup OutOfReach
    /\ pass' = NoPass
    /\ UNCHANGED <<past, recorded, lastTurn, eyes>>

\* No answer, an empty one, or one too long: the summary stands, marked.
PassFails ==
    /\ pass.step = "asking"
    /\ stale' = TRUE
    /\ pass' = NoPass
    /\ UNCHANGED <<past, recorded, summary, lastTurn, since, outrun, eyes>>

-----------------------------------------------------------------------------
(* The clip asker *)

\* The runtime publishes a clip.
Capture ==
    /\ clip.id < MaxClips
    /\ clip' = [id |-> clip.id + 1, age |-> 0]
    /\ UNCHANGED <<memory, question, ask, percept, trueAge>>

\* One question for each clip, and none about a stale one.
PollClip ==
    /\ ask = NoClip
    /\ clip # NoClip /\ clip.id # question
    /\ question' = clip.id
    /\ ask' = IF clip.age > StaleAfter THEN NoClip ELSE clip
    /\ UNCHANGED <<memory, clip, percept, trueAge>>

\* The answer is as old as the clip it is about, however long it took.
Captured == ask.age

\* submit_perception: the newest answer takes the slot.
ClipAnswered ==
    /\ ask # NoClip
    /\ percept' = [id |-> ask.id, age |-> Captured]
    /\ trueAge' = ask.age
    /\ ask' = NoClip
    /\ UNCHANGED <<memory, clip, question>>

\* An unreadable clip, a failed or an empty answer.
AskFails ==
    /\ ask # NoClip
    /\ ask' = NoClip
    /\ UNCHANGED <<memory, clip, question, percept, trueAge>>

\* _live_perception, as a turn reads it: a stale slot goes.
Stale == percept # NoClip /\ percept.age > StaleAfter
Evict ==
    /\ Stale
    /\ percept' = NoClip
    /\ UNCHANGED <<memory, clip, question, ask, trueAge>>

\* Ages count up to the first one that is stale.
Older(seen) == [seen EXCEPT !.age = IF seen # NoClip /\ @ <= StaleAfter THEN @ + 1 ELSE @]
Tick ==
    /\ clip' = Older(clip) /\ ask' = Older(ask) /\ percept' = Older(percept)
    /\ trueAge' = IF trueAge <= StaleAfter THEN trueAge + 1 ELSE trueAge
    /\ UNCHANGED <<memory, question>>

Producer == Poll \/ Folded \/ PassFails
Asker == PollClip \/ ClipAnswered \/ AskFails
MemoryNext == TurnBegins \/ TurnEnds \/ Producer \/ Capture \/ Asker \/ Evict \/ Tick

MemorySpec == MemoryInit /\ [][MemoryNext]_memoryVars

-----------------------------------------------------------------------------
(* Properties *)

Shown == Window \cup summary
Forgotten == (1..recorded) \ Shown

Recently(t) == t > since - SensesMax

\* With no marker, what the foreground voice is shown neither in full nor in the summary
\* left the window after the last folded pass began, or is one of those that fell out of
\* reach between two folded passes: one late pass costs the turns it came too late for
\* and no other turn, ever (poll_once, build_summary_prompt).
MemoryKept == ~stale => \A t \in Forgotten : Recently(t) \/ t \in outrun

\* "The memory is never silently narrowed", and "older turns are already covered by the
\* previous summary": the same, also when passes failed or were slow in between.
NeverNarrowed == ~stale => \A t \in Forgotten : Recently(t)

\* What a turn is told the camera shows was captured at most StaleAfter ago, however
\* long the vision lane took to say it.
SeenLately == percept # NoClip /\ ~Stale => trueAge <= StaleAfter

\* The mind's memory and its eyes: no silent gap, and nothing old taken for new.
MemorySound == MemoryKept /\ SeenLately
=============================================================================
