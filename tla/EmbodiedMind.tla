----------------------------- MODULE EmbodiedMind -----------------------------
(***************************************************************************)
(* The embodiment layer's mind: embody/engine.py takes triggers (addressed *)
(* utterances, alerts) and context from several threads and turns them     *)
(* into turns of one loop; attention.py decides who addresses it,          *)
(* interjection.py who else may speak up, and the taps of                  *)
(* cli/_commands/agent.py tell it what of each reply the room heard.       *)
(*                                                                         *)
(* Threads: the session's worker (hearing, replies, cuts), the cue reader  *)
(* and the turn loop.  A step is one locked section, or one operation on a *)
(* deque that no lock guards: a test, a read and the write it leads to are *)
(* steps of their own.  Time passes in units; turns are counted by what is *)
(* left of a life, not by a number.  A text is the number of its words:    *)
(* all replies begin alike, so one can be another's text, or its start.    *)
(***************************************************************************)
EXTENDS Integers, Sequences, SequencesExt, FiniteSets

CONSTANTS Facts,          \* context cues the feed may bring
          Sources,        \* who may interject over the feed; "worker" is the mind itself
          Replies,        \* replies of the voice; each is spoken once
          Proactive,      \* may a source interject when nobody is in conversation?
          Window, AlertInterval, RateWindow,      \* durations, in units
          MaxPending, MaxContext, MaxScopes, MaxSpoken, MaxWanted,
          MaxPerWindow, MaxRounds, Life,          \* Life: turns a scope or remainder lives
          MaxWords,                               \* bound: words of a reply
          MaxEvents                               \* bound: lines of the feed and utterances

VARIABLES warm,       \* time left of the attention window
          rest,       \* time until alerts alone may take a turn
          spent,      \* per source: the ages of its last admitted interjections
          triggers, context,   \* the two lanes into the next turn
          scopes,     \* per source: turns its scope has left
          spoken,     \* what the next turn is told was said: texts
          wanted,     \* remainders of cut replies, with the turns they have left
          reply,      \* per reply: its text, and what was heard of it if it was cut
          cutter,     \* the session's worker inside note_interrupted_reply
          turn,       \* the turn loop
          reader,     \* is the cue reader still reading?
          layer,      \* "up", "stopping" or "down", or "dead" of an exception
          \* for the properties and bounds only
          ages,       \* per source: the ages of all interjections admitted
          roused,     \* something from outside asked for a turn since the last one
          events

lanes == <<triggers, context, scopes>>
record == <<spoken, wanted, reply, cutter>>
rates == <<spent, ages>>
vars == <<warm, rest, rates, lanes, record, turn, reader, layer, roused, events>>

Everyone == Sources \cup {"worker"}
MindAssumption ==
    /\ "worker" \notin Sources /\ Proactive \in BOOLEAN
    /\ {Window, AlertInterval, RateWindow, MaxRounds, Life, MaxWords, MaxEvents} \subseteq Nat
    /\ {MaxPending, MaxContext, MaxScopes, MaxSpoken, MaxWanted, MaxPerWindow} \subseteq Nat \ {0}

Resting == [step |-> "resting", round |-> 0]
Listening == [step |-> "listening", reply |-> "none", at |-> 1, moved |-> FALSE]

Init ==
    /\ warm = 0 /\ rest = 0
    /\ spent = [s \in Everyone |-> <<>>]
    /\ triggers = <<>> /\ context = {}
    /\ scopes = [s \in Everyone |-> 0]
    /\ spoken = <<>> /\ wanted = <<>>
    /\ reply = [r \in Replies |-> [fate |-> "open", text |-> 0, heard |-> 0]]
    /\ cutter = Listening
    /\ turn = Resting
    /\ reader = TRUE
    /\ layer = "up"
    /\ ages = spent /\ roused = FALSE /\ events = 0

Up == layer = "up"
Bounded == events < MaxEvents /\ events' = events + 1

\* A deque with a maximum length.
Keep(queue, item, max) ==
    LET longer == Append(queue, item)
    IN SubSeq(longer, IF Len(longer) > max THEN 2 ELSE 1, Len(longer))

-----------------------------------------------------------------------------
(* The two lanes *)

\* A full queue drops what comes, never what waits.
OfferTrigger(kind) ==
    triggers' = IF Len(triggers) < MaxPending THEN Append(triggers, kind) ELSE triggers

OfferContext(fact) ==
    context' = IF Cardinality(context \cup {fact}) <= MaxContext
               THEN context \cup {fact} ELSE context

\* A scope of the same goal replaces itself; a new one needs room among the live.
OfferScope(s) ==
    scopes' = IF scopes[s] > 0 \/ Cardinality({t \in Everyone : scopes[t] > 0}) < MaxScopes
              THEN [scopes EXCEPT ![s] = Life + 1] ELSE scopes

-----------------------------------------------------------------------------
(* Attention *)

\* note_spoken extends a live window and never opens one.
Extend == IF warm > 0 THEN Window ELSE warm

\* decide: by name, or within the window.
Addressed(named) == named \/ warm > 0

\* An utterance; one that does not address the robot leaves no trace.
Hear(named) ==
    /\ Up /\ cutter.step = "listening" /\ Bounded
    /\ IF Addressed(named)
       THEN /\ warm' = Window
            /\ OfferTrigger("utterance")
            /\ roused' = TRUE
       ELSE UNCHANGED <<warm, triggers, roused>>
    /\ UNCHANGED <<rest, rates, context, scopes, record, turn, reader, layer>>

-----------------------------------------------------------------------------
(* The cue reader, and interjections *)

\* A rule that fired is an alert; every other line is context.
Alert ==
    /\ Up /\ reader /\ Bounded
    /\ OfferTrigger("alert")
    /\ roused' = TRUE
    /\ UNCHANGED <<warm, rest, rates, context, scopes, record, turn, reader, layer>>

Fact ==
    /\ Up /\ reader /\ Bounded
    /\ \E fact \in Facts : OfferContext(fact)
    /\ UNCHANGED <<warm, rest, rates, triggers, scopes, record, turn, reader, layer, roused>>

\* The oldest of the last MaxPerWindow admissions is still inside the rate window.
Exhausted(s) == Len(spent[s]) = MaxPerWindow /\ Head(spent[s]) < RateWindow

\* admit: cold rooms and spent budgets refuse; only an admission costs budget.
Admitted(s) == (warm > 0 \/ Proactive) /\ ~Exhausted(s)
Spend(s) == /\ spent' = [spent EXCEPT ![s] = Keep(@, 0, MaxPerWindow)]
            /\ ages' = [ages EXCEPT ![s] = Append(@, 0)]

\* An interjection over the feed: a scope for the voice and an alert for the mind.
Interject(s) ==
    /\ Up /\ reader /\ Bounded
    /\ IF Admitted(s)
       THEN Spend(s) /\ OfferScope(s) /\ OfferTrigger("alert") /\ roused' = TRUE
       ELSE UNCHANGED <<rates, scopes, triggers, roused>>
    /\ UNCHANGED <<warm, rest, context, record, turn, reader, layer>>

\* The feed ends, or its source fails.
FeedEnds ==
    /\ Up /\ reader
    /\ reader' = FALSE
    /\ UNCHANGED <<warm, rest, rates, lanes, record, turn, layer, roused, events>>

-----------------------------------------------------------------------------
(* What of a reply was heard: the session's worker *)

\* A blank text leaves no record.
NoteSpoken(text) == IF text > 0
                    THEN spoken' = Keep(spoken, text, MaxSpoken) /\ warm' = Extend
                    ELSE UNCHANGED <<spoken, warm>>

\* response.done of a reply nobody has cut: recorded whole.
Spoke(r) ==
    /\ Up /\ cutter.step = "listening" /\ reply[r].fate = "open"
    /\ \E text \in 1 .. MaxWords :
          /\ reply' = [reply EXCEPT ![r] = [fate |-> "whole", text |-> text, heard |-> text]]
          /\ NoteSpoken(text)
    /\ UNCHANGED <<rest, rates, lanes, wanted, cutter, turn, reader, layer, roused, events>>

\* A cut: told with response.done, or over the tail of a reply recorded whole.
Cut(r) ==
    /\ Up /\ cutter.step = "listening" /\ reply[r].fate # "cut"
    /\ \E text \in (IF reply[r].fate = "open" THEN 1 .. MaxWords ELSE {reply[r].text}) :
       \E heard \in 0 .. text - 1 :
          reply' = [reply EXCEPT ![r] = [fate |-> "cut", text |-> text, heard |-> heard]]
    /\ cutter' = [step |-> "scanning", reply |-> r, at |-> 1, moved |-> FALSE]
    /\ UNCHANGED <<warm, rest, rates, lanes, spoken, wanted, turn, reader, layer, roused, events>>

FaultyOwnEntry(i) == i = Len(spoken) /\ spoken[i] = reply[cutter.reply].text
\* The walk knows an entry by its text.
OwnEntry(i) == spoken[i] = reply[cutter.reply].text

\* One step of the walk over the deque: past the end, over another entry, or at one
\* with the reply's text.  It cannot go on when the turn loop has popped since it began.
Scan ==
    /\ cutter.step = "scanning"
    /\ cutter' = IF cutter.moved THEN [cutter EXCEPT !.step = "raised"]
                 ELSE IF cutter.at > Len(spoken) THEN [cutter EXCEPT !.step = "missed"]
                 ELSE IF OwnEntry(cutter.at) THEN [cutter EXCEPT !.step = "found"]
                 ELSE [cutter EXCEPT !.at = @ + 1]
    /\ UNCHANGED <<warm, rest, rates, lanes, spoken, wanted, reply, turn, reader, layer, roused, events>>

\* The write, by index: whatever is there by now is narrowed to what was heard, or
\* dropped if that is nothing.  Past the end (IndexError) the correction is declined.
Correct ==
    /\ cutter.step = "found"
    /\ IF cutter.at > Len(spoken)
       THEN cutter' = [cutter EXCEPT !.step = "missed"] /\ UNCHANGED spoken
       ELSE /\ cutter' = [cutter EXCEPT !.step = "corrected"]
            /\ spoken' = IF reply[cutter.reply].heard > 0
                         THEN [spoken EXCEPT ![cutter.at] = reply[cutter.reply].heard]
                         ELSE RemoveAt(spoken, cutter.at)
    /\ UNCHANGED <<warm, rest, rates, lanes, wanted, reply, turn, reader, layer, roused, events>>

\* Nothing was corrected: what was heard is recorded, if anything was.
RecordSaid ==
    /\ cutter.step = "missed"
    /\ NoteSpoken(reply[cutter.reply].heard)
    /\ cutter' = [cutter EXCEPT !.step = "corrected"]
    /\ UNCHANGED <<rest, rates, lanes, wanted, reply, turn, reader, layer, roused, events>>

\* The remainder is kept for a few turns and parked as context, never as a trigger.
KeepUnsaid(r) ==
    /\ wanted' = Keep(wanted, [reply |-> r, left |-> Life + 1], MaxWanted)
    /\ OfferContext(r)
    /\ UNCHANGED triggers

\* With a remainder, without one, or with one that is refused as too long.
Remainder ==
    /\ cutter.step = "corrected"
    /\ KeepUnsaid(cutter.reply) \/ UNCHANGED <<wanted, context, triggers>>
    /\ cutter' = Listening
    /\ UNCHANGED <<warm, rest, rates, scopes, spoken, reply, turn, reader, layer, roused, events>>

\* The exception leaves the tap; the worker's session goes on to its next event.
Raised ==
    /\ cutter.step = "raised"
    /\ cutter' = Listening
    /\ UNCHANGED <<warm, rest, rates, lanes, spoken, wanted, reply, turn, reader, layer, roused, events>>

-----------------------------------------------------------------------------
(* The turn loop *)

\* Alerts alone wait for their interval; an utterance does not.
Deferred == rest > 0 /\ \A i \in DOMAIN triggers : triggers[i] # "utterance"
\* Holding alerts back does not start their interval again.
Cooling == rest - 1

Shorter(n) == IF n = 0 THEN 0 ELSE n - 1

\* run_turn takes all triggers; the turn counts, and lives shorten by one.
TakeTriggers ==
    /\ Up /\ turn.step = "resting"
    /\ triggers # <<>> /\ ~Deferred
    /\ turn' = [Resting EXCEPT !.step = "context"]
    /\ triggers' = <<>>
    /\ rest' = IF "alert" \in ToSet(triggers) THEN AlertInterval ELSE rest
    /\ scopes' = [s \in Everyone |-> Shorter(scopes[s])]
    /\ wanted' = LET aged == [i \in DOMAIN wanted |-> [wanted[i] EXCEPT !.left = Shorter(@)]]
                 IN SelectSeq(aged, LAMBDA w : w.left > 0)
    /\ roused' = FALSE
    /\ UNCHANGED <<warm, rates, context, spoken, reply, cutter, reader, layer, events>>

TakeContext ==
    /\ turn.step = "context"
    /\ context' = {}
    /\ turn' = [turn EXCEPT !.step = "spoken"]
    /\ UNCHANGED <<warm, rest, rates, triggers, scopes, record, reader, layer, roused, events>>

\* _drain_spoken: while there is an entry, pop the first; under no lock, so the
\* entry it saw may be gone, and the IndexError ends the loop and the layer.
SeeSpoken ==
    /\ turn.step = "spoken" /\ spoken # <<>>
    /\ turn' = [turn EXCEPT !.step = "popping"]
    /\ UNCHANGED <<warm, rest, rates, lanes, record, reader, layer, roused, events>>

PopSpoken ==
    /\ turn.step = "popping"
    /\ IF spoken # <<>>
       THEN /\ spoken' = Tail(spoken)
            /\ cutter' = [cutter EXCEPT !.moved = (cutter.step = "scanning")]
            /\ turn' = [turn EXCEPT !.step = "spoken"]
            /\ UNCHANGED layer
       ELSE turn' = Resting /\ layer' = "dead" /\ UNCHANGED <<spoken, cutter>>
    /\ UNCHANGED <<warm, rest, rates, lanes, wanted, reply, reader, roused, events>>

Prompted ==
    /\ turn.step = "spoken" /\ spoken = <<>>
    /\ turn' = [turn EXCEPT !.step = "round"]
    /\ UNCHANGED <<warm, rest, rates, lanes, record, reader, layer, roused, events>>

\* One round of the tool loop: the stream fails or the model calls no tool, and the
\* turn is over; or it calls tools and the next round follows, up to the bound.  The
\* voice tools propose through the same policy, as a scope and never as an alert.
Round ==
    /\ turn.step = "round"
    /\ \/ turn' = Resting /\ UNCHANGED <<rates, scopes>>
       \/ /\ \/ Admitted("worker") /\ Spend("worker") /\ OfferScope("worker")
             \/ UNCHANGED <<rates, scopes>>
          /\ turn' = IF turn.round + 1 < MaxRounds THEN [turn EXCEPT !.round = @ + 1] ELSE Resting
    /\ UNCHANGED <<warm, rest, triggers, context, record, reader, layer, roused, events>>

-----------------------------------------------------------------------------
(* The layer's end, and time *)

\* should_stop: asked to, or the feed is over and no trigger waits.
Stop ==
    /\ Up /\ turn.step = "resting"
    /\ \/ ~reader /\ triggers = <<>> /\ layer' = "down"
       \/ layer' = "stopping"
    /\ UNCHANGED <<warm, rest, rates, lanes, record, turn, reader, roused, events>>

\* Ages stop counting at the width of the rate window.
Older(queue) == [i \in DOMAIN queue |-> IF queue[i] < RateWindow THEN queue[i] + 1 ELSE queue[i]]

Tick ==
    /\ warm' = Shorter(warm)
    /\ rest' = IF rest = 0 THEN 0 ELSE Cooling
    /\ spent' = [s \in Everyone |-> Older(spent[s])]
    /\ ages' = [s \in Everyone |-> SelectSeq(Older(ages[s]), LAMBDA a : a < RateWindow)]
    /\ UNCHANGED <<lanes, record, turn, reader, layer, roused, events>>

Turn == TakeTriggers \/ TakeContext \/ SeeSpoken \/ PopSpoken \/ Prompted \/ Round
CutStep == Scan \/ Correct \/ RecordSaid \/ Remainder \/ Raised

Next ==
    \/ \E named \in BOOLEAN : Hear(named)
    \/ Alert \/ Fact \/ FeedEnds \/ (\E s \in Sources : Interject(s))
    \/ (\E r \in Replies : Spoke(r) \/ Cut(r)) \/ CutStep
    \/ Turn \/ Stop \/ Tick

Fairness == WF_vars(Turn) /\ WF_vars(CutStep) /\ WF_vars(Tick)

Spec == Init /\ [][Next]_vars /\ Fairness

-----------------------------------------------------------------------------
(* Properties *)

\* The robot never wakes itself: every turn goes back to a person who addressed it, a
\* rule or an authorised source, never to its own speech, its proposals or the
\* remainder of a cut reply; and its own speech never opens the attention window.
NoSelfWakeStep ==
  /\ turn.step = "resting" /\ turn'.step = "context" => roused
  /\ warm = 0 /\ warm' > 0 => Hear(TRUE)
NoSelfWake == [][NoSelfWakeStep]_vars

\* No source gets more than its budget into any stretch of the rate window's length,
\* whatever was refused in between.
WithinBudget == \A s \in Everyone : Len(ages[s]) <= MaxPerWindow

\* A reply somebody cut is not told to a later turn as said in full.  Once the cut has
\* been dealt with, and outside the drain of a turn, the record holds no text more often
\* than the room heard it: a reply to its end, or a cut one up to there.
Told(text) == {i \in DOMAIN spoken : spoken[i] = text}
HeardAs(text) == {r \in Replies : reply[r].fate # "open" /\ reply[r].heard = text}
Draining == turn.step \in {"spoken", "popping"}
CutIsHeard ==
    cutter.step = "listening" /\ ~Draining =>
        \A text \in 1 .. MaxWords : Cardinality(Told(text)) <= Cardinality(HeardAs(text))

\* note_interrupted_reply "never raises".
NeverRaises == cutter.step # "raised"

\* A trigger that was taken in gets its turn, however alerts are held back, unless the
\* layer is asked to stop, or dies of a drain that a cut came between; the end of the
\* feed alone leaves none behind (should_stop).
TriggersTurn == []<>(triggers = <<>> \/ layer \in {"stopping", "dead"})
=============================================================================
