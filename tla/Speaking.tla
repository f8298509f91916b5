------------------------------ MODULE Speaking ------------------------------
(***************************************************************************)
(* The robot's voice: behavior/speech_act.py and the mute and unmute       *)
(* commands of behavior/mute_intent.py. The tick thread says, mutes and    *)
(* closes; one worker synthesizes and plays, and stamps the window in      *)
(* which the microphone is to be ignored.                                  *)
(*                                                                         *)
(* Time is counted in ticks. A clip sounds Duration ticks from when the    *)
(* player takes it, and the call may return then or when it has ended.     *)
(***************************************************************************)

(* A text on its way to the speaker: cleaned and split for the speech server,  *)
(* each piece asked for until an answer is long enough (speech/tts.py), and    *)
(* the audio streamed to the SDK or left with the daemon as a file to play     *)
(* (speech/playback.py).  The callers are `say run` and whoever else plays     *)
(* audio over the daemon (cli/_commands/say.py).                               *)

(* A completion read as it is generated and given on sentence by sentence      *)
(* (speech/llm.py, stream_sentences): the deltas cut the text anywhere, and a  *)
(* sentence goes out as soon as its end can be told, so that it can be spoken  *)
(* before the next one exists.                                                 *)
EXTENDS Sequences, Integers, SequencesExt

-----------------------------------------------------------------------------
(* The speech actuator                                                       *)

CONSTANTS MaxQueue, FailureLatch, RetryAfter, Margin, Duration,
          MaxSays, MaxMutes, MaxTime       \* bounds

VARIABLES queue,                   \* utterances and, last, the worker's stop mark
          worker,                  \* "new" (not started), "idle", "synth", "play", "after",
                                   \* or "gone"
          rendering,               \* the utterance it renders, or NoOne
          inflight,                \* what join_idle waits for
          voiceMuted, mutedDrops, mutedTold,
          consecutive, latchedUntil, muteUntil,
          voiceClosed, now,
          \* for the properties and bounds only
          soundsUntil,             \* the speaker is silent from then on
          fate,                    \* what became of each utterance so far, newest last
          quiet,                   \* utterances this mute has swallowed
          mutes

Stop == 0
NoOne == 0
gate == <<voiceMuted, mutedDrops, mutedTold, quiet, mutes>>
sink == <<consecutive, latchedUntil, muteUntil, soundsUntil>>
voiceVars == <<queue, worker, rendering, inflight, gate, sink, voiceClosed, now, fate>>

SpeechAssumption ==
    /\ {MaxQueue, FailureLatch, Duration} \subseteq Nat \ {0}
    /\ {RetryAfter, Margin, MaxSays, MaxMutes, MaxTime} \subseteq Nat

Said == Len(fate)
Later(a, b) == IF a < b THEN b ELSE a
Latched == now < latchedUntil
Become(u, what) == fate' = [fate EXCEPT ![u] = what]

VoiceInit ==
    /\ queue = <<>> /\ worker = "new" /\ rendering = NoOne /\ inflight = 0
    /\ voiceMuted = FALSE /\ mutedDrops = 0 /\ mutedTold = FALSE
    /\ consecutive = 0 /\ latchedUntil = 0 /\ muteUntil = 0
    /\ voiceClosed = FALSE /\ now = 0
    /\ soundsUntil = 0 /\ fate = <<>> /\ quiet = 0 /\ mutes = 0

-----------------------------------------------------------------------------
(* The tick thread *)

\* say: the gates in their order, then the queue. A worker is started by the first
\* utterance that passes them.
Say ==
    /\ Said < MaxSays
    /\ LET swallowed == voiceMuted /\ ~voiceClosed
           dropped == voiceClosed \/ voiceMuted \/ Latched \/ Len(queue) = MaxQueue
       IN /\ fate' = Append(fate, IF swallowed THEN "muted" ELSE IF dropped THEN "dropped"
                                  ELSE "queued")
          /\ queue' = IF dropped THEN queue ELSE Append(queue, Said + 1)
          /\ inflight' = IF dropped THEN inflight ELSE inflight + 1
          /\ worker' = IF worker = "new" /\ ~(voiceClosed \/ voiceMuted \/ Latched) THEN "idle"
                       ELSE worker
          /\ mutedDrops' = IF swallowed THEN mutedDrops + 1 ELSE mutedDrops
          /\ mutedTold' = (mutedTold \/ swallowed)
          /\ quiet' = IF swallowed THEN quiet + 1 ELSE quiet
    /\ UNCHANGED <<rendering, voiceMuted, mutes, sink, voiceClosed, now>>

\* A mute that is already on keeps its count; one that is new starts it.
Mute ==
    /\ ~voiceClosed /\ mutes < MaxMutes /\ mutes' = mutes + 1
    /\ voiceMuted' = TRUE
    /\ IF voiceMuted THEN UNCHANGED <<mutedDrops, mutedTold, quiet>>
       ELSE mutedDrops' = 0 /\ mutedTold' = FALSE /\ quiet' = 0
    /\ UNCHANGED <<queue, worker, rendering, inflight, sink, voiceClosed, now, fate>>
Unmute ==
    /\ voiceMuted /\ ~voiceClosed
    /\ voiceMuted' = FALSE
    /\ UNCHANGED <<queue, worker, rendering, inflight, mutedDrops, mutedTold, quiet, mutes, sink,
                   voiceClosed, now, fate>>

\* close: the stop mark goes in, if need be at the cost of the oldest utterance.
CloseVoice ==
    /\ ~voiceClosed /\ voiceClosed' = TRUE
    /\ IF worker = "new" THEN UNCHANGED <<queue, fate>>
       ELSE IF Len(queue) < MaxQueue THEN queue' = Append(queue, Stop) /\ UNCHANGED fate
       ELSE queue' = Append(Tail(queue), Stop) /\ Become(Head(queue), "given up")
    /\ UNCHANGED <<worker, rendering, inflight, gate, sink, now>>

-----------------------------------------------------------------------------
(* The worker *)

Finish(u, what) ==
    /\ Become(u, what)
    /\ inflight' = inflight - 1
    /\ worker' = "idle" /\ rendering' = NoOne

Get ==
    /\ worker = "idle" /\ queue # <<>>
    /\ queue' = Tail(queue)
    /\ IF Head(queue) = Stop
       THEN worker' = "gone" /\ UNCHANGED <<rendering, inflight, fate>>
       ELSE IF Latched THEN Finish(Head(queue), "dropped")
       ELSE worker' = "synth" /\ rendering' = Head(queue) /\ UNCHANGED <<inflight, fate>>
    /\ UNCHANGED <<gate, sink, voiceClosed, now>>

\* The failures in a row shut the sink for a while, and are then counted anew.
Failed ==
    /\ IF consecutive + 1 >= FailureLatch
       THEN consecutive' = 0 /\ latchedUntil' = now + RetryAfter
       ELSE consecutive' = consecutive + 1 /\ UNCHANGED latchedUntil
    /\ Finish(rendering, "failed")

\* Nothing to sound is no failure. Sound opens the window before it is played.
Synthesized ==
    /\ worker = "synth"
    /\ \/ Failed /\ UNCHANGED muteUntil
       \/ Finish(rendering, "silent") /\ consecutive' = 0 /\ UNCHANGED <<latchedUntil, muteUntil>>
       \/ /\ muteUntil' = Later(muteUntil, now + Duration + Margin)
          /\ worker' = "play"
          /\ UNCHANGED <<rendering, inflight, fate, consecutive, latchedUntil>>
    /\ UNCHANGED <<queue, gate, soundsUntil, voiceClosed, now>>

\* The player takes the clip, at once or after a while, and sounds it from then on,
\* whatever it sounds already ...
FaultyStamped == muteUntil
Stamped == Later(muteUntil, now + Duration + Margin)
Played ==
    /\ worker = "play"
    /\ \/ Failed /\ UNCHANGED <<muteUntil, soundsUntil>>
       \/ /\ worker' = "after"
          /\ soundsUntil' = Later(soundsUntil, now + Duration)
          /\ UNCHANGED <<rendering, inflight, fate, consecutive, latchedUntil, muteUntil>>
    /\ UNCHANGED <<queue, gate, voiceClosed, now>>

\* ... and the window is moved to where the sound is.
Returned ==
    /\ worker = "after"
    /\ muteUntil' = Stamped
    /\ consecutive' = 0
    /\ Finish(rendering, "spoken")
    /\ UNCHANGED <<queue, gate, latchedUntil, soundsUntil, voiceClosed, now>>

\* Between the player's taking a clip and the call's return there is no time that counts:
\* what the daemon's route leaves to be played, it has been sent.
Tick ==
    /\ now < MaxTime /\ now' = now + 1
    /\ worker # "after"
    /\ UNCHANGED <<queue, worker, rendering, inflight, gate, sink, voiceClosed, fate>>

Renders == Get \/ Synthesized \/ Played \/ Returned
VoiceNext == Say \/ Mute \/ Unmute \/ CloseVoice \/ Renders \/ Tick
VoiceSpec == VoiceInit /\ [][VoiceNext]_voiceVars /\ WF_voiceVars(Renders)

-----------------------------------------------------------------------------
(* What is to hold *)

\* While the robot's voice sounds, the window in which it ignores the microphone is open
\* (speech_act.py:649, "the window has to be open before the sound is").
DeafWhileSpeaking == now < soundsUntil /\ worker # "after" => now < muteUntil

\* Every utterance that was taken has one fate, join_idle waits for exactly those that
\* have none, and unmute tells how many the mute it ends has swallowed.
NoneForgotten ==
    /\ \A u \in 1..Said : fate[u] = "queued" <=>
           u = rendering \/ \E i \in DOMAIN queue : queue[i] = u
    /\ ~voiceClosed => inflight = Len(queue) + (IF rendering = NoOne THEN 0 ELSE 1)
    /\ mutedDrops = quiet

\* What holds of the voice, whatever is said, muted and refused (speech_act.py).
VoiceSound == DeafWhileSpeaking /\ NoneForgotten

\* Whatever is taken is rendered or given up, and a closed worker ends.
Rendered == \A u \in 1..MaxSays : []<>(u <= Said => fate[u] # "queued")
WorkerEnds == []<>(voiceClosed => worker \in {"new", "gone"})
Drains == Rendered /\ WorkerEnds

-----------------------------------------------------------------------------
(* A text to say                                                             *)

CONSTANTS Callers,
          Texts,      \* Texts[c]: what a caller may be told to say
          MaxChars,   \* _MAX_CLEAN_CHARS
          Short,      \* a piece of at most so many is never found truncated
          Enough,     \* the length of an answer that is not
          Attempts,   \* _SYNTH_ATTEMPTS
          MaxText     \* bound: length of the texts the splitter is checked on

SayAssumption ==
  /\ DOMAIN Texts = Callers
  /\ MaxChars \in Nat \ {0} /\ Attempts \in Nat \ {0} /\ {Short, Enough, MaxText} \subseteq Nat

VARIABLES
  at,      \* at[c]: "idle" | "synth" | "start" | "push" | "upload" | "play" | "done" | "failed"
  pieces,  \* the pieces of its text
  nth,     \* the piece being asked for, or the one being pushed
  got,     \* the lengths of the answers to it, in order
  audio,   \* the pieces rendered: their numbers and the lengths kept
  heard,   \* ghost: for each piece asked for, the longest answer
  path,    \* the name the daemon gave its file
  files,   \* the daemon's: name |-> whose audio is in it
  sounded  \* what sounded, in order: whose audio, and which part of it (0: all)

sayVars == <<at, pieces, nth, got, audio, heard, path, files, sounded>>

(* Characters, as far as the cleaning and the splitting tell them apart         *)
Chars == {"w", ",", " ", "*", "dash"}

SpacesOnly(s) == \A i \in 1 .. Len(s) : s[i] = " "

(* Its spaces collapsed, and none at its ends                                  *)
Normal(s) ==
  LET one(acc, c) == IF c = " " /\ (acc = <<>> \/ Last(acc) = " ") THEN acc ELSE Append(acc, c)
      r == FoldLeft(one, <<>>, s)
  IN IF r # <<>> /\ Last(r) = " " THEN Front(r) ELSE r

(* clean_for_tts *)
Clean(s) ==
  LET one(acc, c) == CASE c = "*" -> acc [] c = "dash" -> acc \o <<",", " ">> [] OTHER -> Append(acc, c)
  IN Normal(FoldLeft(one, <<>>, s))

(* The last index of the piece that begins at i: after the last ", " that fits, *)
(* else after the last space, else where the limit is.                         *)
CutAt(t, i) ==
  LET pauses == {j \in i + 1 .. i + MaxChars - 2 : t[j] = "," /\ t[j + 1] = " "}
      spaces == {j \in i + 1 .. i + MaxChars - 1 : t[j] = " "}
  IN IF pauses # {} THEN Max(pauses) + 1
     ELSE IF spaces # {} THEN Max(spaces) ELSE i + MaxChars - 1

(* split_for_tts *)
Split(t) ==
  LET n == Len(t)
      skip[i \in 1 .. n + 1] == IF i <= n /\ t[i] = " " THEN skip[i + 1] ELSE i
      from[i \in 1 .. n + 1] ==
        IF i > n THEN <<>>
        ELSE IF n - i + 1 <= MaxChars THEN <<SubSeq(t, i, n)>>
        ELSE <<Normal(SubSeq(t, i, CutAt(t, i)))>> \o from[skip[CutAt(t, i) + 1]]
  IN from[1]

SayInit ==
  /\ at = [c \in Callers |-> "idle"] /\ pieces = [c \in Callers |-> <<>>] /\ nth = [c \in Callers |-> 1]
  /\ got = [c \in Callers |-> <<>>] /\ audio = [c \in Callers |-> <<>>]
  /\ heard = [c \in Callers |-> <<>>] /\ path = [c \in Callers |-> ""]
  /\ files = [f \in {"tts_synth.wav"} \union Callers |-> ""] /\ sounded = <<>>

-----------------------------------------------------------------------------
(* synthesize; a text that is nothing but noise says nothing.                  *)
Begin(c, t) ==
  /\ at[c] = "idle"
  /\ pieces' = [pieces EXCEPT ![c] = IF Clean(t) = <<>> THEN <<>> ELSE Split(Clean(t))]
  /\ at' = [at EXCEPT ![c] = IF Clean(t) = <<>> THEN "done" ELSE "synth"]
  /\ UNCHANGED <<nth, got, audio, heard, path, files, sounded>>

Longest(s) == Max({0} \union Range(s))

(* _is_truncated *)
Truncated(p, n) == Len(p) > Short /\ n < Enough

FaultyKept(answers) == Last(answers)
Kept(answers) == Longest(answers)

(* _post_synth: an answer that is not truncated ends it, as does the last try;  *)
(* a piece that was answered with nothing is left out.                         *)
Answer(c, n) ==
  /\ at[c] = "synth"
  /\ LET p == pieces[c][nth[c]]
         answers == Append(got[c], n)
         over == ~Truncated(p, n) \/ Len(answers) = Attempts
         kept == Kept(answers)
         all == IF kept > 0 THEN Append(audio[c], <<nth[c], kept>>) ELSE audio[c]
     IN IF ~over THEN got' = [got EXCEPT ![c] = answers] /\ UNCHANGED <<at, nth, audio, heard>>
        ELSE /\ got' = [got EXCEPT ![c] = <<>>]
             /\ audio' = [audio EXCEPT ![c] = all]
             /\ heard' = [heard EXCEPT ![c] = Append(@, Longest(answers))]
             /\ IF nth[c] < Len(pieces[c]) THEN nth' = [nth EXCEPT ![c] = @ + 1] /\ UNCHANGED at
                ELSE /\ nth' = [nth EXCEPT ![c] = 1]
                     /\ at' = [at EXCEPT ![c] = IF all = <<>> THEN "done" ELSE "start"]
  /\ UNCHANGED <<pieces, path, files, sounded>>

(* play_audio: which way, is configuration.                                    *)
Start(c) ==
  /\ at[c] = "start" /\ \E way \in {"push", "upload"} : at' = [at EXCEPT ![c] = way]
  /\ UNCHANGED <<pieces, nth, got, audio, heard, path, files, sounded>>

(* _play_sdk pushes chunk by chunk, all of a piece before any of the next.     *)
Push(c) ==
  /\ at[c] = "push"
  /\ sounded' = Append(sounded, <<c, audio[c][nth[c]][1]>>)
  /\ IF nth[c] < Len(audio[c]) THEN nth' = [nth EXCEPT ![c] = @ + 1] /\ UNCHANGED at
     ELSE at' = [at EXCEPT ![c] = "done"] /\ UNCHANGED nth
  /\ UNCHANGED <<pieces, got, audio, heard, path, files>>

(* _play_http uploads to one name; what the daemon saves it as, it answers.     *)
Upload(c, name) ==
  /\ at[c] = "upload" /\ at' = [at EXCEPT ![c] = "play"]
  /\ files' = [files EXCEPT ![name] = c] /\ path' = [path EXCEPT ![c] = name]
  /\ UNCHANGED <<pieces, nth, got, audio, heard, sounded>>

PlayFile(c) ==
  /\ at[c] = "play" /\ at' = [at EXCEPT ![c] = "done"]
  /\ sounded' = Append(sounded, <<files[path[c]], 0>>)
  /\ UNCHANGED <<pieces, nth, got, audio, heard, path, files>>

(* A server, the daemon or the SDK fails: the command ends with an error.       *)
SayFails(c) ==
  /\ at[c] \in {"synth", "push", "upload", "play"} /\ at' = [at EXCEPT ![c] = "failed"]
  /\ UNCHANGED <<pieces, nth, got, audio, heard, path, files, sounded>>

(* cmd_say_run: all of the text is rendered, and then played.                  *)
Proceed(c) ==
  \/ \E n \in 0 .. Enough : Answer(c, n)
  \/ Start(c) \/ Push(c) \/ PlayFile(c) \/ \E name \in {"tts_synth.wav", c} : Upload(c, name)

SayNext == \E c \in Callers : (\E t \in Texts[c] : Begin(c, t)) \/ Proceed(c) \/ SayFails(c)
SaySpec == SayInit /\ [][SayNext]_sayVars
SayFairSpec == SaySpec /\ \A c \in Callers : WF_sayVars(Proceed(c))

-----------------------------------------------------------------------------
SayTypeOK ==
  /\ \A c \in Callers : nth[c] \in 1 .. Len(pieces[c]) + 1 /\ Len(got[c]) < Attempts
  /\ \A c \in Callers : at[c] \in {"idle", "synth", "start", "push", "upload", "play", "done", "failed"}

(* The splitter, for every text: pieces fit, say the whole text in order, and   *)
(* no word that fits is cut.                                                   *)
Words(s) == {w \in (1 .. Len(s)) \X (1 .. Len(s)) :
               /\ w[1] <= w[2] /\ \A m \in w[1] .. w[2] : s[m] # " "
               /\ (w[1] = 1 \/ s[w[1] - 1] = " ") /\ (w[2] = Len(s) \/ s[w[2] + 1] = " ")}
Unspaced(s) == SelectSeq(s, LAMBDA c : c # " ")
AllTexts == UNION {[1 .. n -> Chars] : n \in 1 .. MaxText}
SplitSound ==
  \A s \in {Clean(t) : t \in AllTexts} \ {<<>>} :
    /\ \A p \in Range(Split(s)) : p # <<>> /\ Len(p) <= MaxChars
    /\ Unspaced(FlattenSeq(Split(s))) = Unspaced(s)
    /\ \A w \in Words(s) : w[2] - w[1] < MaxChars =>
         \E p \in Range(Split(s)), v \in (1 .. Len(s)) \X (1 .. Len(s)) :
           v \in Words(p) /\ SubSeq(p, v[1], v[2]) = SubSeq(s, w[1], w[2])

(* Of each piece the longest answer is kept, only a piece answered with nothing *)
(* is missing, and the pieces are in order.                                    *)
LongestKept ==
  \A c \in Callers :
    LET said == {j \in 1 .. Len(heard[c]) : heard[c][j] > 0}
    IN /\ {a[1] : a \in Range(audio[c])} = said
       /\ \A j \in 1 .. Len(audio[c]) : audio[c][j][2] = heard[c][audio[c][j][1]]
       /\ \A j \in 1 .. Len(audio[c]) - 1 : audio[c][j][1] < audio[c][j + 1][1]

(* Nobody is heard before all of the text is rendered, and never out of order.  *)
AllOrNothing ==
  \A c \in Callers :
    LET mine == SelectSeq(sounded, LAMBDA s : s[1] = c /\ s[2] # 0)
    IN /\ (\E s \in Range(sounded) : s[1] = c) => Len(heard[c]) = Len(pieces[c])
       /\ \A j \in 1 .. Len(mine) : mine[j][2] = audio[c][j][1]

(* Whatever the servers answer, a command ends.                                *)
EverySayEnds == \A c \in Callers : []<>(at[c] \in {"idle", "done", "failed"})

(* A caller hears its own text; two that use the daemon at once need not.       *)
OwnVoice == [][\A c \in Callers : PlayFile(c) => sounded'[Len(sounded')][1] = c]_sayVars

-----------------------------------------------------------------------------
(* A stream of sentences                                                     *)

CONSTANTS Deltas,       \* what a delta may add
          LooseAbove,   \* _MAX_BUFFER_BEFORE_LOOSE
          MaxDeltas     \* bound: deltas that carry text

SentencesAssumption == {LooseAbove, MaxDeltas} \subseteq Nat

VARIABLES deltas,  \* how many there were
          text,    \* everything received
          buffer,  \* what no sentence given out has in it
          out,     \* the sentences given out, in order
          stream,  \* "open" | "cancelled" (heeded at the next delta) | "ended" | "broken"
          loose    \* ghost: whether the loose splitter was used

streamVars == <<deltas, text, buffer, out, stream, loose>>

(* Characters: a letter, a capital, a full stop, markdown, an ASCII quote, ...  *)

LeftStrip(s) ==
  LET n[i \in 1 .. Len(s) + 1] == IF i <= Len(s) /\ s[i] = " " THEN n[i + 1] ELSE i
  IN SubSeq(s, n[1], Len(s))
Strip(s) == Reverse(LeftStrip(Reverse(LeftStrip(s))))

(* _update_nesting, folded over the text up to i                               *)
Nested(t, i) ==
  LET one(n, c) == CASE c = "quote" -> [n EXCEPT !.open = ~@]
                     [] c = "(" -> [n EXCEPT !.depth = @ + 1]
                     [] c = ")" -> [n EXCEPT !.depth = IF @ > 0 THEN @ - 1 ELSE 0]
                     [] OTHER -> n
      here == FoldLeft(one, [depth |-> 0, open |-> FALSE], SubSeq(t, 1, i))
  IN here.depth > 0 \/ here.open

(* _ends_sentence: a full stop, or what closes after one                       *)
EndsSentence(t, i) ==
  \/ t[i] = "."
  \/ /\ t[i] \in {"quote", ")"}
     /\ \E n \in 1 .. i - 1 : t[n] = "." /\ \A j \in n + 1 .. i - 1 : t[j] \in {"quote", ")"}

(* The first index from i on whose character is none of C                      *)
Past(t, i, C) == Min({j \in i .. Len(t) + 1 : j > Len(t) \/ t[j] \notin C})

(* _next_sentence_start: white space, then a capital, markdown apart; or 0     *)
StartAfter(t, i) ==
  LET s == Past(t, i + 1, {"*"})
      n == Past(t, s, {" "})
      c == Past(t, n, {"*"})
  IN IF n > s /\ c <= Len(t) /\ t[c] = "A" THEN n ELSE 0

(* _find_sentence_breaks *)
Breaks(t) == {StartAfter(t, i) : i \in {j \in 1 .. Len(t) : ~Nested(t, j) /\ EndsSentence(t, j)}} \ {0}

NonEmpty(s) == SelectSeq(s, LAMBDA x : x # <<>>)

(* _split_buffer: the sentences before the breaks, and the rest                *)
Pieces(t, B) ==
  LET b == <<1>> \o SetToSortSeq(B, LAMBDA x, y : x < y)
  IN [i \in 1 .. Cardinality(B) |-> Strip(SubSeq(t, b[i], b[i + 1] - 1))]
SplitStrict(t) == <<NonEmpty(Pieces(t, Breaks(t))), IF Breaks(t) = {} THEN t ELSE SubSeq(t, Max(Breaks(t)), Len(t))>>

(* Where a match of _SENTENCE_RE_LOOSE that begins at i ends, or 0              *)
LooseEnd(t, i) ==
  LET d == Past(t, i, {" "}) IN
  IF t[i] # " " THEN 0
  ELSE IF i > 1 /\ t[i - 1] = "." THEN d
  ELSE IF d < Len(t) /\ t[d] = "-" /\ t[d + 1] = " " THEN Past(t, d + 1, {" "}) ELSE 0

SplitLoose(t) ==
  LET from[i \in 1 .. Len(t) + 1] ==     \* <<parts after this one, this one's rest>>
        IF i > Len(t) THEN <<<<>>, <<>>>>
        ELSE IF LooseEnd(t, i) > 0
             THEN LET r == from[LooseEnd(t, i)] IN <<<<r[2]>> \o r[1], <<>>>>
             ELSE LET r == from[i + 1] IN <<r[1], <<t[i]>> \o r[2]>>
      parts == <<from[1][2]>> \o from[1][1]
  IN <<NonEmpty([i \in 1 .. Len(parts) - 1 |-> Strip(parts[i])]), Last(parts)>>

SplitBuffer(t) == IF Len(t) > LooseAbove THEN SplitLoose(t) ELSE SplitStrict(t)

StreamInit == deltas = 0 /\ text = <<>> /\ buffer = <<>> /\ out = <<>> /\ stream = "open" /\ loose = FALSE

(* One content delta of the stream; lines that carry none change nothing.       *)
Delta(d) ==
  /\ stream = "open" /\ deltas < MaxDeltas /\ deltas' = deltas + 1
  /\ text' = text \o d
  /\ out' = out \o SplitBuffer(buffer \o d)[1]
  /\ buffer' = SplitBuffer(buffer \o d)[2]
  /\ loose' = (loose \/ Len(buffer \o d) > LooseAbove)
  /\ UNCHANGED stream

(* What is left is a sentence, however it ends; a cancelled stream reads one    *)
(* delta more and drops it.                                                    *)
End ==
  /\ stream \in {"open", "cancelled"} /\ stream' = "ended"
  /\ out' = IF Strip(buffer) = <<>> THEN out ELSE Append(out, Strip(buffer))
  /\ buffer' = <<>> /\ UNCHANGED <<deltas, text, loose>>

Cancel == stream = "open" /\ stream' = "cancelled" /\ UNCHANGED <<deltas, text, buffer, out, loose>>

(* The connection breaks: the caller gets the error, not the rest.             *)
Break == stream \in {"open", "cancelled"} /\ stream' = "broken" /\ UNCHANGED <<deltas, text, buffer, out, loose>>

StreamNext ==
  \/ \E d \in Deltas : Delta(d)
  \/ End \/ Cancel \/ Break
StreamSpec == StreamInit /\ [][StreamNext]_streamVars

-----------------------------------------------------------------------------
StreamTypeOK == stream \in {"open", "cancelled", "ended", "broken"} /\ Len(buffer) <= Len(text) /\ loose \in BOOLEAN

(* However the deltas cut it, a text is given out in the sentences it has as a  *)
(* whole, as long as the loose splitter is not needed.                         *)
SameSentences ==
  ~loose => LET whole == SplitStrict(text)
                rest == IF stream = "ended" /\ Strip(whole[2]) # <<>> THEN <<Strip(whole[2])>> ELSE <<>>
            IN out = whole[1] \o rest

(* Nothing is lost, said twice or out of order; only the loose splitter drops   *)
(* anything, the dashes it splits at.                                          *)
Bare(s) == SelectSeq(s, LAMBDA c : c \notin (IF loose THEN {" ", "-"} ELSE {" "}))
NothingLost == Bare(FlattenSeq(out) \o buffer) = Bare(text)
=============================================================================
