---------------------------- MODULE RealtimeSession ----------------------------
(***************************************************************************)
(* The speech session of speech/realtime.py: one worker dials the gateway, *)
(* pumps audio out and events in, backs off and dials again; the engine's  *)
(* tick thread submits audio and, once it knows the microphone, sets the   *)
(* sample rate, which rides the URL; somebody closes it all.               *)
(*                                                                         *)
(* A step is one section under a lock, one queue operation, or one wait.   *)
(* The gateway may refuse a session or drop it at any time.                *)
(***************************************************************************)
EXTENDS Naturals, Sequences

CONSTANTS Rates, DefaultRate,      \* sample rates; the one the client is built with
          MaxQueue,                \* chunks the audio queue holds
          MaxAttempts,             \* bound: attempts counted, where the backoff stops growing
          MaxChunks, MaxFaults     \* bounds: chunks submitted, refusals and losses

VARIABLES rate, reconfigure,      \* what the client wants, and that it must dial again
          setter,                 \* the tick thread inside set_sample_rate
          worker,                 \* the session worker: its step and the rate it dials
          attempts, wake,         \* failed attempts in a row; the backoff's event
          sock,                   \* the open session's rate, or NoSock
          stable,                 \* has that session lived long enough?
          up, told,               \* connected, and the latch of the outage's two lines
          closed, closer,         \* close, and where it is
          audio, kept,            \* the queue; the chunks _discard_stale_audio holds
          \* for the properties and bounds only
          lines,                  \* session-down lines since the last session came up
          outage,                 \* a session failed or was lost, unasked, since then
          paused,                 \* has the worker waited since the last failure?
          sent, chunks, faults

line == <<rate, reconfigure, setter>>
state == <<up, told, lines, outage>>
ends == <<closed, closer>>
queues == <<audio, kept, sent, chunks>>
vars == <<line, worker, attempts, wake, sock, stable, state, ends, queues, paused, faults>>

NoSock == 0
SessionAssumption ==
    /\ Rates \subseteq Nat \ {NoSock} /\ DefaultRate \in Rates
    /\ {MaxQueue, MaxAttempts} \subseteq Nat \ {0} /\ {MaxChunks, MaxFaults} \subseteq Nat

Init ==
    /\ rate = DefaultRate /\ reconfigure = FALSE /\ setter = "out"
    /\ worker = [step |-> "loop", dials |-> DefaultRate]
    /\ attempts = 0 /\ wake = FALSE
    /\ sock = NoSock /\ stable = FALSE
    /\ up = FALSE /\ told = FALSE
    /\ closed = FALSE /\ closer = "out"
    /\ audio = <<>> /\ kept = <<>>
    /\ lines = 0 /\ outage = FALSE /\ paused = FALSE
    /\ sent = <<>> /\ chunks = 0 /\ faults = 0

-----------------------------------------------------------------------------
(* The tick thread *)

\* submit_audio: one put, or a drop when the queue is full.
Submit ==
    /\ ~closed /\ chunks < MaxChunks
    /\ chunks' = chunks + 1
    /\ audio' = IF Len(audio) < MaxQueue THEN Append(audio, chunks') ELSE audio
    /\ UNCHANGED <<line, worker, attempts, wake, sock, stable, state, ends, kept, sent,
                   paused, faults>>

\* set_sample_rate, before its flag and after it.
SetRate(r) ==
    /\ setter = "out" /\ r # rate
    /\ rate' = r
    /\ setter' = "in"
    /\ UNCHANGED <<reconfigure, worker, attempts, wake, sock, stable, state, ends, queues,
                   paused, faults>>
SetFlag ==
    /\ setter = "in"
    /\ reconfigure' = TRUE /\ wake' = TRUE
    /\ setter' = "out"
    /\ UNCHANGED <<rate, worker, attempts, sock, stable, state, ends, queues, paused, faults>>

-----------------------------------------------------------------------------
(* The latch of an outage *)

MarkUp == up' = TRUE /\ told' = FALSE

\* The cause and the state are told once, and not by a client that is closing.
MarkDown ==
    /\ up' = FALSE
    /\ told' = (told \/ ~closed)
    /\ lines' = IF closed \/ told THEN lines ELSE lines + 1
    /\ outage' = (outage \/ ~closed)

-----------------------------------------------------------------------------
(* The worker *)

At(step) == worker.step = step
Go(step) == worker' = [worker EXCEPT !.step = step]
CloseSocket == sock' = NoSock
More(n) == IF n < MaxAttempts THEN n + 1 ELSE n

\* The head of the loop: leave, pump, back off, or dial.
Loop ==
    /\ At("loop")
    /\ Go(IF closed THEN "leave" ELSE IF sock # NoSock THEN "pump"
          ELSE IF attempts > 0 THEN "backoff" ELSE "dial")
    /\ UNCHANGED <<line, attempts, wake, sock, stable, state, ends, queues, paused, faults>>

\* The wait ends by its time or its event.
Backoff ==
    /\ At("backoff")
    /\ IF closed THEN Go("leave") /\ UNCHANGED wake ELSE Go("dial") /\ wake' = FALSE
    /\ paused' = TRUE
    /\ UNCHANGED <<line, attempts, sock, stable, state, ends, queues, faults>>

\* connect_url reads the rate; the handshake takes its time.
Dial ==
    /\ At("dial")
    /\ worker' = [step |-> "dialing", dials |-> rate]
    /\ UNCHANGED <<line, attempts, wake, sock, stable, state, ends, queues, paused, faults>>

\* Refused, or unreachable: one attempt more.
Refused ==
    /\ At("dialing") /\ faults < MaxFaults
    /\ MarkDown
    /\ attempts' = More(attempts) /\ paused' = FALSE
    /\ faults' = faults + 1
    /\ Go("loop")
    /\ UNCHANGED <<line, wake, sock, stable, ends, queues>>

Accepted ==
    /\ At("dialing")
    /\ sock' = worker.dials /\ stable' = FALSE
    /\ Go("adopt")
    /\ UNCHANGED <<line, attempts, wake, state, ends, queues, paused, faults>>

\* The flag goes, whoever set it and when.
Adopt ==
    /\ At("adopt")
    /\ reconfigure' = FALSE
    /\ Go("empty")
    /\ UNCHANGED <<rate, setter, attempts, wake, sock, stable, state, ends, queues, paused, faults>>

\* _discard_stale_audio: everything is taken out, what is fresh goes back, and a full
\* queue ends that.
Empty ==
    /\ At("empty")
    /\ IF audio = <<>>
       THEN Go("refill") /\ UNCHANGED <<audio, kept>>
       ELSE /\ audio' = Tail(audio)
            /\ \/ kept' = Append(kept, Head(audio))
               \/ UNCHANGED kept
            /\ UNCHANGED worker
    /\ UNCHANGED <<line, attempts, wake, sock, stable, state, ends, sent, chunks, paused, faults>>

Refill ==
    /\ At("refill")
    /\ IF kept # <<>> /\ Len(audio) < MaxQueue
       THEN /\ audio' = Append(audio, Head(kept)) /\ kept' = Tail(kept)
            /\ UNCHANGED <<worker, attempts, state>>
       ELSE /\ kept' = <<>> /\ UNCHANGED audio
            /\ MarkUp /\ lines' = 0 /\ outage' = FALSE
            /\ attempts' = 0
            /\ Go("loop")
    /\ UNCHANGED <<line, wake, sock, stable, ends, sent, chunks, paused, faults>>

\* A rate to renegotiate is no fault: no line, no backoff.
Renegotiate ==
    /\ At("pump") /\ reconfigure
    /\ reconfigure' = FALSE
    /\ CloseSocket /\ up' = FALSE /\ attempts' = 0
    /\ Go("loop")
    /\ UNCHANGED <<rate, setter, wake, stable, told, lines, outage, ends, queues, paused, faults>>

Pump ==
    /\ At("pump") /\ ~reconfigure /\ sock # NoSock
    /\ \/ audio # <<>> /\ sent' = Append(sent, Head(audio)) /\ audio' = Tail(audio)
       \/ UNCHANGED <<audio, sent>>
    /\ Go("loop")
    /\ UNCHANGED <<line, attempts, wake, sock, stable, state, ends, kept, chunks, paused, faults>>

FaultyAfterLoss == 0
\* A session that had been stable for long enough costs nothing.
AfterLoss == IF stable THEN 0 ELSE More(attempts)

\* The gateway hangs up, or close has shut the socket down.
Lost ==
    /\ At("pump") /\ ~reconfigure
    /\ \/ closed \/ sock = NoSock
       \/ faults < MaxFaults
    /\ faults' = IF closed \/ sock = NoSock THEN faults ELSE faults + 1
    /\ CloseSocket /\ MarkDown
    /\ attempts' = AfterLoss /\ paused' = stable
    /\ Go("loop")
    /\ UNCHANGED <<line, wake, stable, ends, queues>>

\* The last teardown is the worker's own: close may have been too early.
LastTeardown == CloseSocket

Leave ==
    /\ At("leave")
    /\ LastTeardown /\ up' = FALSE
    /\ Go("left")
    /\ UNCHANGED <<line, attempts, wake, stable, told, lines, outage, ends, queues, paused, faults>>

-----------------------------------------------------------------------------
(* close *)

Close ==
    /\ ~closed
    /\ closed' = TRUE /\ wake' = TRUE
    /\ closer' = "joining"
    /\ UNCHANGED <<line, worker, attempts, sock, stable, state, queues, paused, faults>>

\* The worker has left, or the join has run out; then close's own teardown.
Joined ==
    /\ closer = "joining"
    /\ CloseSocket /\ up' = FALSE
    /\ closer' = "done"
    /\ UNCHANGED <<line, worker, attempts, wake, stable, told, lines, outage, closed, queues,
                   paused, faults>>

\* A session lives on and counts as stable.
Settle ==
    /\ sock # NoSock /\ ~stable
    /\ stable' = TRUE
    /\ UNCHANGED <<line, worker, attempts, wake, sock, state, ends, queues, paused, faults>>

Worker == Loop \/ Backoff \/ Dial \/ Refused \/ Accepted \/ Adopt \/ Empty \/ Refill
          \/ Renegotiate \/ Pump \/ Lost \/ Leave
Caller == Submit \/ (\E r \in Rates : SetRate(r)) \/ SetFlag \/ Close \/ Joined
Next == Worker \/ Caller \/ Settle

Spec == Init /\ [][Next]_vars /\ WF_vars(Worker)

-----------------------------------------------------------------------------
(* Properties *)

\* Every outage is told, and told once: a session that is missing because it was refused
\* or lost, and not because somebody asked, has its one pair of lines, however many
\* attempts fail (mark_down, mark_up).
OutagesTold == outage => lines = 1

\* A gateway that refuses, or drops what it has just accepted, is not dialled again
\* without a backoff in between.
PacedStep ==
  At("dial") /\ ~At("dial")' /\ outage => paused
Paced == [][PacedStep]_vars

\* After a close the worker leaves and no session stays open, also one whose handshake
\* was under way when close tore down and gave up waiting.
CloseReleases == <>[](closed => worker.step = "left" /\ sock = NoSock)

\* "Re-negotiates the session when the real mic rate turns out to differ": a session in
\* use, that no flag is about to end, was dialled at the rate the client has.
RightRate == At("pump") /\ setter = "out" /\ ~reconfigure /\ sock # NoSock => sock = rate

\* "Fresh chunks queued during the handshake survive", and in their order.
InOrder == \A i, j \in DOMAIN sent : i < j => sent[i] < sent[j]
=============================================================================
