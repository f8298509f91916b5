---------------------------- MODULE DuplexMouth ----------------------------
(***************************************************************************)
(* How the realtime duplex session speaks and how it is cut off            *)
(* (speech/realtime_duplex.py), and what the embodied mind records of a    *)
(* reply (cli/_commands/agent.py, embody/engine.py).                       *)
(*                                                                         *)
(* Three threads meet at one bounded queue, one lock and one cut           *)
(* generation.  The session worker takes a reply off the wire, hands its   *)
(* audio to the queue chunk by chunk and runs the taps; the mouth takes a  *)
(* chunk, decides under the lock whether a cut overtook it, and plays it;  *)
(* an operator may cut from a thread of its own (cancel_playback is said   *)
(* to be safe from any thread; the layer's taps call it from the worker).  *)
(* Every step below is one section under the lock, one queue operation, or *)
(* what the worker does between two of them.                               *)
(*                                                                         *)
(* Audio is counted in units.  The session has a speaker; one reply        *)
(* arrives at a time, replies have distinct, non-blank texts, and audio    *)
(* over max_response_bytes is dropped as it comes (MaxUnits); a prefix of  *)
(* a text is blank exactly when none of its audio was played.  Ledgers are *)
(* not evicted and no turn drains the spoken buffer.  close only lets the  *)
(* threads end: a behavior may stop anywhere.                              *)
(***************************************************************************)
EXTENDS Integers, Sequences, FiniteSets

CONSTANTS MaxReplies,   \* replies the server sends
          MaxUnits,     \* units of audio in a reply, at most (max_response_bytes)
          FirstChunk,   \* units in the first chunk of a reply
          Chunk,        \* units in every later one
          Capacity,     \* chunks the mouth's queue holds
          MaxCuts,      \* cuts of every kind together
          SinkFails,    \* may the speaker raise?
          OperatorCuts, \* does a second thread cut?
          Reconnects    \* is the session ever lost?

ASSUME MouthAssumption ==
    /\ {MaxReplies, MaxUnits, FirstChunk, Chunk, Capacity, MaxCuts} \subseteq Nat \ {0}
    /\ {SinkFails, OperatorCuts, Reconnects} \subseteq BOOLEAN

VARIABLES generation,    \* _generation: bumped by every cut
          playback,      \* _playback: chunks queued for the mouth
          withholdable,  \* _withholdable: what playback_pending reads
          ledgers,       \* _ledgers: per reply, and the anonymous one
          current,       \* _current_response_id
          pending,       \* _pending: what has arrived of each reply
          seen,          \* replies created so far
          arriving,      \* is the last of them still arriving?
          worker,        \* where the session worker is
          cuts,          \* where each thread that may cut is in _skip_remaining
          mouth,         \* where the mouth is
          spoken         \* the mind's record: entries per reply, whole or part

vars == <<generation, playback, withholdable, ledgers, current, pending, seen,
          arriving, worker, cuts, mouth, spoken>>

None == 0
Replies == 1 .. MaxReplies
Keys == {None} \cup Replies
Cutters == {"worker", "operator"}

Chunks == [reply : Keys, generation : Nat, at : Nat, size : Nat]
NoChunk == [reply |-> None, generation |-> 0, at |-> 0, size |-> 0]

Ledgers == [queued : Nat, played : Nat, inflight : Nat, skipped : Nat,
            cancelled : BOOLEAN, complete : BOOLEAN, total : Nat]
NewLedger == [queued |-> 0, played |-> 0, inflight |-> 0, skipped |-> 0,
              cancelled |-> FALSE, complete |-> FALSE, total |-> 0]

Pendings == [generation : Nat, audio : Nat, flushed : Nat, truncated : BOOLEAN]
NewPending(g) == [generation |-> g, audio |-> 0, flushed |-> 0, truncated |-> FALSE]

WorkerSteps == {"idle", "check", "put", "count", "seal", "cutting", "tap"}
Errands == {"delta", "done", "interrupted", "onset", "reconnect"}
Idle == [step |-> "idle", doing |-> "delta", about |-> None, chunk |-> NoChunk]
NoCut == [phase |-> "none", key |-> None, drained |-> <<>>]

Init ==
    /\ generation = 0
    /\ playback = <<>>
    /\ withholdable = 0
    /\ ledgers = [k \in Keys |-> NewLedger]
    /\ current = None
    /\ pending = [r \in Replies |-> NewPending(0)]
    /\ seen = 0
    /\ arriving = FALSE
    /\ worker = Idle
    /\ cuts = [c \in Cutters |-> NoCut]
    /\ mouth = [state |-> "idle", chunk |-> NoChunk]
    /\ spoken = [r \in Replies |-> [whole |-> 0, part |-> 0]]

-----------------------------------------------------------------------------
(* The worker: a reply arrives and is handed to the mouth *)

\* How the counter goes down: max(0, _withholdable - n).
Released(n) == IF withholdable > n THEN withholdable - n ELSE 0

\* response.created: the reply is stamped with the generation of its birth.
ResponseCreated ==
    /\ worker.step = "idle" /\ ~arriving /\ seen < MaxReplies
    /\ seen' = seen + 1
    /\ arriving' = TRUE
    /\ pending' = [pending EXCEPT ![seen + 1] = NewPending(generation)]
    /\ UNCHANGED <<generation, playback, withholdable, ledgers, current, worker,
                   cuts, mouth, spoken>>

\* response.audio.delta: one more unit, then whatever chunks that completes.
AudioDelta ==
    /\ worker.step = "idle" /\ arriving /\ pending[seen].audio < MaxUnits
    /\ pending' = [pending EXCEPT ![seen].audio = @ + 1]
    /\ worker' = [Idle EXCEPT !.step = "check"]
    /\ UNCHANGED <<generation, playback, withholdable, ledgers, current, seen,
                   arriving, cuts, mouth, spoken>>

\* response.done: the tail is flushed before the record is sealed.
ResponseDone ==
    /\ worker.step = "idle" /\ arriving
    /\ worker' = [Idle EXCEPT !.step = "check", !.doing = "done", !.about = seen]
    /\ UNCHANGED <<generation, playback, withholdable, ledgers, current, pending,
                   seen, arriving, cuts, mouth, spoken>>

\* response.interrupted: sealed as it is, and then cut.
ResponseInterrupted ==
    /\ worker.step = "idle" /\ arriving /\ generation < MaxCuts
    /\ worker' = [Idle EXCEPT !.step = "seal", !.doing = "interrupted", !.about = seen]
    /\ UNCHANGED <<generation, playback, withholdable, ledgers, current, pending,
                   seen, arriving, cuts, mouth, spoken>>

\* The size of the next chunk of p; 0 when there is none to hand over yet.
NextSize(p, final) ==
    LET available == p.audio - p.flushed
        target == IF p.flushed = 0 THEN FirstChunk ELSE Chunk
    IN  IF available >= target THEN target ELSE IF final THEN available ELSE 0

AfterFlush == IF worker.doing = "done" THEN [worker EXCEPT !.step = "seal"] ELSE Idle

FaultyStillSpeaks(p) == TRUE
\* The check under the lock in _offer_chunk: was the reply cut since its birth?
StillSpeaks(p) == p.generation = generation

\* _flush_chunks and the head of _offer_chunk: the next chunk, stamped.
CheckGeneration ==
    /\ worker.step = "check"
    /\ LET p == pending[seen]
           n == NextSize(p, worker.doing = "done")
       IN worker' = IF ~p.truncated /\ n > 0 /\ StillSpeaks(p)
                    THEN [worker EXCEPT !.step = "put",
                             !.chunk = [reply |-> seen, generation |-> generation,
                                        at |-> p.flushed, size |-> n]]
                    ELSE AfterFlush
    /\ UNCHANGED <<generation, playback, withholdable, ledgers, current, pending,
                   seen, arriving, cuts, mouth, spoken>>

FaultyRefuse(p) == [p EXCEPT !.flushed = @ + worker.chunk.size]
\* A full queue refuses the rest of the reply, not one chunk of its middle.
Refuse(p) == [p EXCEPT !.truncated = TRUE]

\* put_nowait, outside the lock.
PutChunk ==
    /\ worker.step = "put"
    /\ IF Len(playback) < Capacity
       THEN /\ playback' = Append(playback, worker.chunk)
            /\ worker' = [worker EXCEPT !.step = "count"]
            /\ UNCHANGED pending
       ELSE /\ pending' = [pending EXCEPT ![seen] = Refuse(@)]
            /\ worker' = AfterFlush
            /\ UNCHANGED playback
    /\ UNCHANGED <<generation, withholdable, ledgers, current, seen, arriving, cuts,
                   mouth, spoken>>

\* The second section under the lock: only now is the chunk counted.
CountChunk ==
    /\ worker.step = "count"
    /\ withholdable' = withholdable + 1
    /\ ledgers' = [ledgers EXCEPT ![seen].queued = @ + worker.chunk.size]
    /\ pending' = [pending EXCEPT ![seen].flushed = @ + worker.chunk.size]
    /\ worker' = [worker EXCEPT !.step = "check", !.chunk = NoChunk]
    /\ UNCHANGED <<generation, playback, current, seen, arriving, cuts, mouth, spoken>>

\* _finish_response: text and total become final; an interrupted reply is cut next.
\* The response always finds room in its own queue: when that is full the oldest is
\* evicted, and nobody but the worker takes from it.
Seal ==
    /\ worker.step = "seal"
    /\ arriving' = FALSE
    /\ ledgers' = [ledgers EXCEPT ![seen].complete = TRUE, ![seen].total = pending[seen].audio]
    /\ IF worker.doing = "interrupted"
       THEN /\ worker' = [worker EXCEPT !.step = "cutting"]
            /\ cuts' = [cuts EXCEPT !["worker"] = [NoCut EXCEPT !.phase = "bump", !.key = seen]]
       ELSE /\ worker' = [worker EXCEPT !.step = "tap"]
            /\ UNCHANGED cuts
    /\ UNCHANGED <<generation, playback, withholdable, current, pending, seen, mouth, spoken>>

-----------------------------------------------------------------------------
(* Cuts: _skip_remaining, by the worker or by an operator *)

\* input_audio_buffer.speech_started: cut only when a cut would withhold audio.
SpeechStarted ==
    /\ worker.step = "idle" /\ withholdable > 0 /\ generation < MaxCuts
    /\ worker' = [Idle EXCEPT !.step = "cutting", !.doing = "onset"]
    /\ cuts' = [cuts EXCEPT !["worker"] = [NoCut EXCEPT !.phase = "bump"]]
    /\ UNCHANGED <<generation, playback, withholdable, ledgers, current, pending,
                   seen, arriving, mouth, spoken>>

\* _connect after a lost session: what was arriving is dead, and so is its tail.
Reconnect ==
    /\ Reconnects /\ worker.step = "idle" /\ generation < MaxCuts
    /\ arriving' = FALSE
    /\ worker' = [Idle EXCEPT !.step = "cutting", !.doing = "reconnect"]
    /\ cuts' = [cuts EXCEPT !["worker"] = [NoCut EXCEPT !.phase = "bump"]]
    /\ UNCHANGED <<generation, playback, withholdable, ledgers, current, pending,
                   seen, mouth, spoken>>

\* cancel_playback from another thread.
OperatorCut ==
    /\ OperatorCuts /\ cuts["operator"].phase = "none" /\ generation < MaxCuts
    /\ cuts' = [cuts EXCEPT !["operator"] = [NoCut EXCEPT !.phase = "bump"]]
    /\ UNCHANGED <<generation, playback, withholdable, ledgers, current, pending,
                   seen, arriving, worker, mouth, spoken>>

Bump(c) ==
    /\ cuts[c].phase = "bump"
    /\ generation' = generation + 1
    /\ cuts' = [cuts EXCEPT ![c].phase = "drain"]
    /\ UNCHANGED <<playback, withholdable, ledgers, current, pending, seen, arriving,
                   worker, mouth, spoken>>

\* get_nowait, one chunk at a time and outside the lock, until the queue is empty.
DrainOne(c) ==
    /\ cuts[c].phase = "drain"
    /\ IF playback = <<>>
       THEN /\ cuts' = [cuts EXCEPT ![c].phase = "account"]
            /\ UNCHANGED playback
       ELSE /\ cuts' = [cuts EXCEPT ![c].drained = Append(@, Head(playback))]
            /\ playback' = Tail(playback)
    /\ UNCHANGED <<generation, withholdable, ledgers, current, pending, seen, arriving,
                   worker, mouth, spoken>>

\* Units of reply k among the chunks of a sequence.
UnitsOf(k, chunks) ==
    LET size[i \in 0 .. Len(chunks)] ==
            IF i = 0 THEN 0
            ELSE size[i - 1] + (IF chunks[i].reply = k THEN chunks[i].size ELSE 0)
    IN  size[Len(chunks)]

\* The reply a cut reports on: the one it was told, else the next one that would
\* have been spoken, else the one last in the speaker.
Reported(cut) ==
    IF cut.key # None THEN cut.key
    ELSE IF cut.drained # <<>> THEN cut.drained[1].reply ELSE current

\* What a cut writes into the ledger of reply k.
Skipped(k, cut) ==
    LET lost == UnitsOf(k, cut.drained)
    IN  [ledgers[k] EXCEPT !.skipped = @ + lost,
                           !.cancelled = @ \/ lost > 0 \/ k = Reported(cut)]

\* The last section under the lock, and where the cutting thread goes from there.
Account(c) ==
    /\ cuts[c].phase = "account"
    /\ withholdable' = Released(Len(cuts[c].drained))
    /\ ledgers' = [k \in Keys |-> Skipped(k, cuts[c])]
    /\ cuts' = [cuts EXCEPT ![c] = NoCut]
    /\ IF c = "worker"
       THEN worker' = IF worker.doing \in {"interrupted", "onset"}
                      THEN [worker EXCEPT !.step = "tap", !.about = Reported(cuts[c])]
                      ELSE Idle
       ELSE UNCHANGED worker
    /\ UNCHANGED <<generation, playback, current, pending, seen, arriving, mouth, spoken>>

-----------------------------------------------------------------------------
(* The mouth *)

FaultyTake ==
    /\ mouth.state = "idle" /\ playback # <<>>
    /\ mouth' = [state |-> "taken", chunk |-> Head(playback)]
    /\ playback' = Tail(playback)
    /\ withholdable' = Released(1)
    /\ UNCHANGED <<generation, ledgers, current, pending, seen, arriving, worker, cuts,
                   spoken>>

\* The mouth's get: the chunk is out of the queue and can still be withheld.
Take ==
    /\ mouth.state = "idle" /\ playback # <<>>
    /\ mouth' = [state |-> "taken", chunk |-> Head(playback)]
    /\ playback' = Tail(playback)
    /\ UNCHANGED <<generation, withholdable, ledgers, current, pending, seen, arriving,
                   worker, cuts, spoken>>

\* _begin_chunk: adopted, or skipped because a cut overtook it.
Adopt ==
    /\ mouth.state = "taken" /\ mouth.chunk.generation = generation
    /\ withholdable' = Released(1)
    /\ current' = mouth.chunk.reply
    /\ ledgers' = [ledgers EXCEPT ![mouth.chunk.reply].inflight = mouth.chunk.size]
    /\ mouth' = [mouth EXCEPT !.state = "playing"]
    /\ UNCHANGED <<generation, playback, pending, seen, arriving, worker, cuts, spoken>>

SkipStale ==
    /\ mouth.state = "taken" /\ mouth.chunk.generation # generation
    /\ withholdable' = Released(1)
    /\ ledgers' = [ledgers EXCEPT ![mouth.chunk.reply].skipped = @ + mouth.chunk.size,
                                  ![mouth.chunk.reply].cancelled = TRUE]
    /\ mouth' = [state |-> "idle", chunk |-> NoChunk]
    /\ UNCHANGED <<generation, playback, current, pending, seen, arriving, worker, cuts, spoken>>

\* play returned, or raised: a chunk that failed is never counted as spoken.
PlayReturns(ok) ==
    /\ mouth.state = "playing"
    /\ ok \/ SinkFails
    /\ LET r == mouth.chunk.reply
           n == mouth.chunk.size
       IN ledgers' = IF ok
                     THEN [ledgers EXCEPT ![r].inflight = 0, ![r].played = @ + n]
                     ELSE [ledgers EXCEPT ![r].inflight = 0, ![r].skipped = @ + n]
    /\ mouth' = [state |-> "idle", chunk |-> NoChunk]
    /\ UNCHANGED <<generation, playback, withholdable, current, pending, seen, arriving,
                   worker, cuts, spoken>>

-----------------------------------------------------------------------------
(* What the mind records *)

\* note_interrupted_reply: an entry for the whole reply is narrowed to what was
\* said, or goes; without one, what was said is added.
RecordCut(r) ==
    LET l == ledgers[r]
        said == IF l.played = 0 THEN "nothing"
                ELSE IF l.played >= l.total THEN "whole" ELSE "part"
        kept == IF spoken[r].whole > 0 THEN [spoken[r] EXCEPT !.whole = @ - 1] ELSE spoken[r]
    IN  [spoken EXCEPT ![r] = [whole |-> kept.whole + (IF said = "whole" THEN 1 ELSE 0),
                               part  |-> kept.part + (IF said = "part" THEN 1 ELSE 0)]]

\* The response tap and the tail of the speech-started tap: a complete reply that
\* was cut is recorded as cut, one that was not as said whole.
Tap ==
    /\ worker.step = "tap"
    /\ LET r == worker.about
       IN spoken' =
            IF r # None /\ ledgers[r].complete /\ ledgers[r].cancelled THEN RecordCut(r)
            ELSE IF worker.doing = "done" THEN [spoken EXCEPT ![r].whole = @ + 1]
            ELSE spoken
    /\ worker' = Idle
    /\ UNCHANGED <<generation, playback, withholdable, ledgers, current, pending, seen,
                   arriving, cuts, mouth>>

-----------------------------------------------------------------------------
Wire == \/ ResponseCreated \/ AudioDelta \/ ResponseDone \/ ResponseInterrupted
        \/ SpeechStarted \/ Reconnect
Hand == CheckGeneration \/ PutChunk \/ CountChunk \/ Seal \/ Tap
Cut(c) == Bump(c) \/ DrainOne(c) \/ Account(c)
Mouth == Take \/ Adopt \/ SkipStale \/ \E ok \in BOOLEAN : PlayReturns(ok)

Next == Wire \/ Hand \/ Mouth \/ OperatorCut \/ \E c \in Cutters : Cut(c)

Spec == Init /\ [][Next]_vars

-----------------------------------------------------------------------------
(* Properties *)

\* Every variable stays in its range (the state of RealtimeDuplexSession).
TypeOK ==
    /\ generation \in Nat /\ withholdable \in Nat
    /\ playback \in Seq(Chunks) /\ Len(playback) <= Capacity
    /\ ledgers \in [Keys -> Ledgers]
    /\ current \in Keys
    /\ pending \in [Replies -> Pendings]
    /\ seen \in 0 .. MaxReplies /\ arriving \in BOOLEAN /\ (arriving => seen > 0)
    /\ worker \in [step : WorkerSteps, doing : Errands, about : Keys, chunk : Chunks]
    /\ cuts \in [Cutters -> [phase : {"none", "bump", "drain", "account"}, key : Keys,
                             drained : Seq(Chunks)]]
    /\ mouth \in [state : {"idle", "taken", "playing"}, chunk : Chunks]
    /\ spoken \in [Replies -> [whole : Nat, part : Nat]]

Uncounted == IF worker.step = "count" THEN 1 ELSE 0
Taken == IF mouth.state = "taken" THEN 1 ELSE 0
InHands == Len(cuts["worker"].drained) + Len(cuts["operator"].drained)

\* playback_pending never misses a cut that could be made: what the counter says
\* covers every chunk that is queued, taken and not begun, or being drained.
PendingCovers == withholdable + Uncounted >= Len(playback) + Taken + InHands

InFlight(k) == IF mouth.state = "playing" /\ mouth.chunk.reply = k THEN mouth.chunk.size ELSE 0

\* The measurement a split divides by: every unit handed to the mouth is in exactly
\* one place, spoken, in the speaker, skipped, queued, taken, or in a cut's hands.
LedgerBalances ==
    \A r \in Replies :
        LET l == ledgers[r]
        IN  /\ l.inflight = InFlight(r)
            /\ l.queued + (IF worker.step = "count" /\ seen = r THEN worker.chunk.size ELSE 0)
                 = l.played + l.inflight + l.skipped + UnitsOf(r, playback)
                   + (IF mouth.state = "taken" /\ mouth.chunk.reply = r
                      THEN mouth.chunk.size ELSE 0)
                   + UnitsOf(r, cuts["worker"].drained) + UnitsOf(r, cuts["operator"].drained)

Begins(c) == mouth.state = "taken" /\ mouth.chunk = c /\ mouth'.state = "playing"

\* Once a cut has bumped the generation, no chunk of a reply born before it begins
\* to play, wherever the chunk was and whenever it arrives (cancel_playback).
CutSilences ==
    [][\A r \in Replies : (mouth.chunk.reply = r /\ Begins(mouth.chunk))
                             => pending[r].generation = generation]_vars

\* Speech stops early but audio never goes missing in the middle, and replies never
\* swap: when a chunk begins, all that precedes it in its reply went through the
\* speaker or was withheld by a cut, and no later reply has begun (_offer_chunk's
\* refusal of the rest of a reply).
NoHole ==
    [][Begins(mouth.chunk)
          => LET r == mouth.chunk.reply
                 l == ledgers[r]
             IN  /\ mouth.chunk.at <= l.played + l.skipped + UnitsOf(r, cuts["operator"].drained)
                 /\ current <= r]_vars

\* Said of the taps (cli/_commands/agent.py): a second onset over a reply withholds
\* nothing, and "one entry replaced, never a second one added".
OneRecord == \A r \in Replies : spoken[r].whole + spoken[r].part <= 1

AtRest == worker.step = "idle" /\ mouth.state = "idle" /\ playback = <<>>
          /\ \A c \in Cutters : cuts[c].phase = "none"

\* Said of cancel_playback (realtime_duplex.py): what it returns "describes the
\* reply that was cut", so a complete reply of which a cut withheld audio does not
\* stay recorded as spoken whole.
CutIsRecorded ==
    AtRest => \A r \in Replies :
                 ledgers[r].complete /\ ledgers[r].skipped > 0 => spoken[r].whole = 0

\* What the counters and ledgers of the mouth say is what became of the audio
\* (_offer_chunk, _begin_chunk, cancel_playback).
MouthAccounts == TypeOK /\ PendingCovers /\ LedgerBalances
=============================================================================
