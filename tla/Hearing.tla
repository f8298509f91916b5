-------------------------------- MODULE Hearing --------------------------------
(***************************************************************************)
(* From the transcriber to the rules: behavior/transcript_sense.py takes   *)
(* utterances from the session, a worker judges whether they are meant for *)
(* the robot (speech/engagement.py), and the tick latches what it engages  *)
(* with for one tick.                                                      *)
(*                                                                         *)
(* The session's worker, the engine's tick and the judging worker share    *)
(* three bounded queues: the first and the last drop their oldest entry    *)
(* when full, the middle one refuses.                                      *)
(***************************************************************************)
EXTENDS Naturals, Sequences, SequencesExt

CONSTANTS UtteranceMax, PendingMax, ReadyMax,     \* the queues' sizes
          MaxTakes,           \* utterances a tick takes
          Window,             \* how long a conversation stays warm
          MaxTime, MaxHeard   \* bounds: the clock, and utterances in a behavior

VARIABLES now,
          muteUntil,          \* end of the robot's own speech
          gate,               \* is there a classifier, or the heuristic alone?
          utterances, pending, ready,      \* the queues
          judging,            \* the worker's utterance, or none
          warmUntil,          \* ConversationGate._warm_until
          engagedUntil,       \* the driver's own window, for the heuristic
          latch,              \* what the rules see in this tick
          \* for the properties only
          heard,              \* utterances so far
          latched,            \* the utterances latched, in order
          last                \* arrival of the last utterance engaged with; 0 before one

vars == <<now, muteUntil, gate, utterances, pending, ready, judging, warmUntil,
          engagedUntil, latch, heard, latched, last>>

HearingAssumption ==
    /\ {UtteranceMax, PendingMax, ReadyMax, MaxTakes} \subseteq Nat \ {0}
    /\ {Window, MaxTime, MaxHeard} \subseteq Nat

Nothing == [id |-> 0]

\* Time starts after every window's initial end.
Init ==
    /\ now = 1 /\ muteUntil = 0
    /\ gate \in BOOLEAN
    /\ utterances = <<>> /\ pending = <<>> /\ ready = <<>>
    /\ judging = Nothing
    /\ warmUntil = 0 /\ engagedUntil = 0
    /\ latch = Nothing
    /\ heard = 0 /\ latched = <<>> /\ last = 0

-----------------------------------------------------------------------------
(* The session's side *)

\* A queue that gives up its oldest entry.
Evicting(queue, item, max) == Append(IF Len(queue) < max THEN queue ELSE Tail(queue), item)

\* _publish: named as the robot is called, named as a transcriber mishears it, or not at
\* all; long enough to mean something or not.
Publish ==
    /\ heard < MaxHeard
    /\ heard' = heard + 1
    /\ \E name \in {"exact", "misheard", "none"}, wordy \in BOOLEAN :
        utterances' = Evicting(utterances,
            [id |-> heard', name |-> name, wordy |-> wordy, t |-> now], UtteranceMax)
    /\ UNCHANGED <<now, muteUntil, gate, pending, ready, judging, warmUntil, engagedUntil,
                   latch, latched, last>>

-----------------------------------------------------------------------------
(* The tick *)

\* The latch holds for one tick: it is emptied first, then takes the oldest engaged one.
Adopt == latch' = (IF ready = <<>> THEN Nothing ELSE Head(ready))

\* _heard: dropped in the robot's own speech, or refused by a full queue.
Muted(u) == u.t < muteUntil
Taken == SubSeq(utterances, 1, IF Len(utterances) < MaxTakes THEN Len(utterances) ELSE MaxTakes)
Queue(queue, u) == IF Muted(u) \/ Len(queue) = PendingMax THEN queue ELSE Append(queue, u)

Tick ==
    /\ Adopt
    /\ latched' = IF latch' = Nothing THEN latched ELSE Append(latched, latch'.id)
    /\ ready' = IF ready = <<>> THEN ready ELSE Tail(ready)
    /\ pending' = FoldLeft(Queue, pending, Taken)
    /\ utterances' = SubSeq(utterances, Len(Taken) + 1, Len(utterances))
    /\ UNCHANGED <<now, muteUntil, gate, judging, warmUntil, engagedUntil, heard, last>>

-----------------------------------------------------------------------------
(* The judging worker *)

Judge ==
    /\ judging = Nothing /\ pending # <<>>
    /\ judging' = Head(pending)
    /\ pending' = Tail(pending)
    /\ UNCHANGED <<now, muteUntil, gate, utterances, ready, warmUntil, engagedUntil, latch,
                   heard, latched, last>>

\* _should_engage: the exact name, or enough words within the driver's own window.
Heuristic(u) == u.name = "exact" \/ (u.wordy /\ u.t < engagedUntil)

\* What reaches the classifier at all: a name needs none, a short or a cold one is dropped.
Gated(u) == u.name # "none" \/ (u.wordy /\ u.t < warmUntil)

\* The classifier is asked over the network, with the conversation so far. Its answer is a
\* YES or anything else; a call that fails, an answer that is no text and a gate without a
\* classifier are DEGRADE, and the heuristic decides in its place.
Classified(u, engaged) ==
    \E answer \in {"yes", "no", "degrade"} :
        engaged = (answer = "yes" \/ (answer = "degrade" /\ Heuristic(u)))

\* _decide: a gate engages with a name at once, exact or misheard, and asks about the rest.
Verdict(u, engaged) ==
    IF ~gate THEN engaged = Heuristic(u)
    ELSE IF ~Gated(u) THEN engaged = FALSE
    ELSE IF u.name # "none" THEN engaged = TRUE
    ELSE Classified(u, engaged)

\* note_engaged opens or extends the window from the utterance's arrival.
Extended(u) == u.t + Window

Judged(engaged) ==
    /\ judging # Nothing
    /\ Verdict(judging, engaged)
    /\ IF engaged
       THEN /\ ready' = Evicting(ready, judging, ReadyMax)
            /\ engagedUntil' = Extended(judging)
            /\ warmUntil' = IF gate THEN Extended(judging) ELSE warmUntil
            /\ last' = judging.t
       ELSE UNCHANGED <<ready, engagedUntil, warmUntil, last>>
    /\ judging' = Nothing
    /\ UNCHANGED <<now, muteUntil, gate, utterances, pending, latch, heard, latched>>

-----------------------------------------------------------------------------
(* Time, and the robot's speech *)

Clock ==
    /\ now < MaxTime
    /\ now' = now + 1
    /\ UNCHANGED <<muteUntil, gate, utterances, pending, ready, judging, warmUntil,
                   engagedUntil, latch, heard, latched, last>>

Speak ==
    /\ now < MaxTime
    /\ muteUntil' = now + 1
    /\ UNCHANGED <<now, gate, utterances, pending, ready, judging, warmUntil, engagedUntil,
                   latch, heard, latched, last>>

Next == Publish \/ Tick \/ Judge \/ (\E engaged \in BOOLEAN : Judged(engaged)) \/ Clock \/ Speak

Spec == Init /\ [][Next]_vars

-----------------------------------------------------------------------------
(* Properties *)

\* "A warm window, opened only by a name": whatever is engaged with either names the robot
\* or arrived within the window of something engaged with before it, back to a name,
\* however long the queues and the classifier took and whichever of them decided.
NamedFirstStep ==
  \A engaged \in {TRUE} : Judged(engaged) =>
      \/ judging.name # "none"
      \/ last # 0 /\ judging.t < last + Window
NamedFirst == [][NamedFirstStep]_vars

\* The rules see every utterance at most once, for one tick, and in the order in which
\* they arrived, whatever the full queues dropped.
HeardOnce == \A i, j \in DOMAIN latched : i < j => latched[i] < latched[j]
=============================================================================
