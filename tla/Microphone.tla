----------------------------- MODULE Microphone -----------------------------
(***************************************************************************)
(* The audio tee of behavior/audio_tee.py: the tick thread offers what it  *)
(* took from the pump, one worker drains the offers and serves every       *)
(* consumer of a Unix socket through a bounded outbox of its own. Other    *)
(* runtimes may try to serve the same path, step by step and at the same   *)
(* time, and a runtime may be killed.                                      *)
(*                                                                         *)
(* A chunk is two halves on the wire, so that a send can stop inside one.  *)
(***************************************************************************)

(* The ears and the mouth of the embodied mind: embody/media.py.  In the robot *)
(* profile the ears are a client of the runtime's audio tee (the tee above is  *)
(* the other end of its socket): a stream of bytes that begins with a header line  *)
(* and may stop, and begin anew, at any byte.  In the bench profile they are a *)
(* microphone opened at the first read, the mouth a speaker opened for each    *)
(* utterance.                                                                  *)
EXTENDS Naturals, Sequences, SequencesExt

-----------------------------------------------------------------------------
(* The tee in the runtime                                                    *)

CONSTANTS Tees,                    \* runtimes that may serve the path
          Ours,                    \* the one whose tick thread and worker are followed
          Consumers,
          MaxChunks, MaxOutbox,    \* chunks the tee, and one consumer's outbox, hold
          MaxOffers, MaxAttached   \* bounds: chunks offered, consumers accepted

VARIABLES path,                    \* the socket file: NoFile, StaleFile or the tee that bound it
          tee,                     \* per tee, how far its start has come and how it ended
          offered, run,            \* offers the worker has not drained; those lost unreported
          attached, known,         \* consumers served; _has_consumers, the flag offer reads
          discarded, reported,     \* an offer met nobody; this episode's line is written
          out,                     \* per consumer: outbox, partial and its unreported losses
          sweep,                   \* where the worker is
          \* for the properties and bounds only
          rivals,                  \* tees whose starts overlapped, or that did not answer a
                                   \* start in time, and that start's tee
          owing, torn,             \* the half a consumer waits for; it got another chunk's
          last,                    \* the newest chunk each consumer has had
          dropped, named,          \* chunks lost in each place, and those of them reported
          lonely, lines,           \* episodes without consumer, lines about them
          offers, served

NoFile == "none"
StaleFile == "stale"

files == <<path, tee, rivals>>
offering == <<offered, run, discarded, offers>>
ledger == <<dropped, named>>
episode == <<reported, lonely, lines>>
wire == <<owing, torn, last>>
teeVars == <<files, offering, attached, known, episode, out, sweep, wire, ledger, served>>

\* Chunks are lost where they wait: in the tee's own queue, in each consumer's outbox.
Self == "tee"
Places == Consumers \cup {Self}
Unnamed(p) == IF p = Self THEN run ELSE out[p].lost

TeeAssumption ==
    /\ Ours \in Tees /\ {NoFile, StaleFile} \cap Tees = {} /\ Self \notin Consumers
    /\ {MaxChunks, MaxOutbox} \subseteq Nat \ {0}
    /\ {MaxOffers, MaxAttached} \subseteq Nat

WholeChunk(n) == [id |-> n, halves |-> 2]
EmptyBox == [queue |-> <<>>, partial |-> FALSE, lost |-> 0]
Active == tee[Ours] = "up"

\* A start found the path taken ("found") and nobody there ("vacant"), has a clear way
\* ("clear"), has bound the path ("bound"), and then listens ("up").
UnderWay == {"found", "vacant", "clear", "bound"}
Ended == {"refused", "left", "closed"}
TeeStates == {"down", "up"} \cup UnderWay \cup Ended

TeeInit ==
    /\ path \in {NoFile, StaleFile} /\ tee = [t \in Tees |-> "down"] /\ rivals = {}
    /\ offered = <<>> /\ run = 0
    /\ attached = {} /\ known = FALSE
    /\ discarded = FALSE /\ reported = FALSE
    /\ out = [c \in Consumers |-> EmptyBox]
    /\ sweep = "poll"
    /\ owing = [c \in Consumers |-> 0] /\ torn = FALSE /\ last = [c \in Consumers |-> 0]
    /\ dropped = [p \in Places |-> 0] /\ named = [p \in Places |-> 0]
    /\ lonely = 1 /\ lines = 0
    /\ offers = 0 /\ served = 0

-----------------------------------------------------------------------------
(* The path: a start in its five steps, close, and a runtime that is killed *)

ourVars == <<offering, attached, known, episode, out, wire, ledger>>
TeeGoes(t, state) == tee' = [tee EXCEPT ![t] = state]
TeeAt(t, state) == tee[t] = state /\ UNCHANGED <<ourVars, sweep, served>>

\* Those whose starts a start that begins now overlaps with.
Overlapping(t) == {u \in Tees \ {t} : tee[u] \in UnderWay}

\* path.exists
LookTee(t) ==
    /\ TeeAt(t, "down")
    /\ TeeGoes(t, IF path = NoFile THEN "clear" ELSE "found")
    /\ rivals' = IF Overlapping(t) = {} THEN rivals ELSE rivals \cup Overlapping(t) \cup {t}
    /\ UNCHANGED path

\* _path_is_served: a connect that succeeds is proof of another tee. One that fails is
\* proof of nothing: a stale file, one bound but not listened on yet, or a tee whose
\* backlog is full.
Answers == path \in Tees /\ tee[path] = "up"
ProbeTee(t, answered) ==
    /\ TeeAt(t, "found") /\ (answered => Answers)
    /\ TeeGoes(t, IF answered THEN "refused" ELSE "vacant")
    /\ rivals' = IF Answers /\ ~answered THEN rivals \cup {t, path} ELSE rivals
    /\ UNCHANGED path

\* The file that nobody answered at is unlinked, whosever it is by now.
UnlinkTee(t) ==
    /\ TeeAt(t, "vacant")
    /\ TeeGoes(t, IF path = NoFile THEN "refused" ELSE "clear")
    /\ path' = NoFile
    /\ UNCHANGED rivals

\* bind creates the file, and fails where there is one.
BindTee(t) ==
    /\ TeeAt(t, "clear")
    /\ TeeGoes(t, IF path = NoFile THEN "bound" ELSE "refused")
    /\ path' = IF path = NoFile THEN t ELSE path
    /\ UNCHANGED rivals

\* listen; from here on the tee owns the path, as far as it knows.
ListenTee(t) == TeeAt(t, "bound") /\ TeeGoes(t, "up") /\ UNCHANGED <<path, rivals>>

\* The worker has ended, and everybody is let go.
LetGo ==
    /\ attached' = {} /\ known' = FALSE /\ out' = [c \in Consumers |-> EmptyBox]
    /\ owing' = [c \in Consumers |-> 0]
    /\ offered' = <<>> /\ run' = 0 /\ discarded' = FALSE /\ reported' = FALSE
    /\ named' = dropped /\ lonely' = lonely + 1
    /\ UNCHANGED <<torn, last, dropped, lines, offers>>
TeeEnds(t) ==
    /\ IF t = Ours /\ tee[t] = "up" THEN sweep = "poll" /\ LetGo ELSE UNCHANGED ourVars
    /\ UNCHANGED <<rivals, sweep, served>>

\* close unlinks the path of a tee that owns it, without asking whose file it is by now.
Unlinked(t) == IF tee[t] = "up" THEN NoFile ELSE path
CloseTee(t) ==
    /\ tee[t] \in {"up", "refused"}
    /\ path' = Unlinked(t)
    /\ TeeGoes(t, IF tee[t] = "up" THEN "closed" ELSE "left")
    /\ TeeEnds(t)

\* Killed: the file stays, and nobody answers there.
Kill(t) ==
    /\ tee[t] \in UnderWay \cup {"up"}
    /\ path' = IF path = t THEN StaleFile ELSE path
    /\ TeeGoes(t, "closed")
    /\ TeeEnds(t)

-----------------------------------------------------------------------------
(* The tick thread *)

\* A chunk nobody can hear costs a flag; the others wait, the oldest making room.
OfferChunk ==
    /\ Active /\ offers < MaxOffers
    /\ offers' = offers + 1
    /\ IF ~known
       THEN discarded' = TRUE /\ UNCHANGED <<offered, run, dropped>>
       ELSE /\ offered' = Append(IF Len(offered) = MaxChunks THEN Tail(offered) ELSE offered,
                                 offers')
            /\ run' = IF Len(offered) = MaxChunks THEN run + 1 ELSE run
            /\ dropped' = [dropped EXCEPT ![Self] = @ + Len(offered) + 1 - Len(offered')]
            /\ UNCHANGED discarded
    /\ UNCHANGED <<files, attached, known, episode, out, sweep, wire, named, served>>

-----------------------------------------------------------------------------
(* The worker: one sweep is poll, report, drain and fan out, flush, report *)

At(step) == Active /\ sweep = step

\* _detach: its unreported losses are reported.
Detached(c) ==
    /\ attached' = attached \ {c}
    /\ known' = (attached' # {})
    /\ out' = [out EXCEPT ![c] = EmptyBox]
    /\ owing' = [owing EXCEPT ![c] = 0]
    /\ named' = [named EXCEPT ![c] = @ + out[c].lost]
    /\ lonely' = IF attached' = {} THEN lonely + 1 ELSE lonely

Accept(c) ==
    /\ At("poll") /\ c \notin attached /\ served < MaxAttached
    /\ attached' = attached \cup {c} /\ known' = TRUE
    /\ reported' = FALSE
    /\ served' = served + 1
    /\ last' = [last EXCEPT ![c] = 0]
    /\ UNCHANGED <<files, offering, lonely, lines, out, sweep, owing, torn, ledger>>

Reap(c) ==
    /\ At("poll") /\ c \in attached
    /\ Detached(c)
    /\ UNCHANGED <<files, offering, reported, lines, sweep, torn, last, dropped, served>>

\* _report_discarded: one line an episode, read off the flag the tick thread sets.
MayReport == discarded /\ ~known /\ ~reported
Report ==
    /\ At("poll")
    /\ discarded' = FALSE
    /\ reported' = (reported \/ MayReport)
    /\ lines' = IF MayReport THEN lines + 1 ELSE lines
    /\ sweep' = "drain"
    /\ UNCHANGED <<files, offered, run, offers, attached, known, lonely, out, wire, ledger, served>>

\* _ChunkQueue.push: the oldest goes, but never a head the wire has half of.
FaultyRoom(o) == IF Len(o.queue) < MaxOutbox THEN o.queue ELSE Tail(o.queue)
Room(o) ==
    IF Len(o.queue) < MaxOutbox THEN o.queue
    ELSE IF ~o.partial THEN Tail(o.queue)
    ELSE IF Len(o.queue) > 1 THEN <<o.queue[1]>> \o SubSeq(o.queue, 3, Len(o.queue))
    ELSE o.queue
\* A one-chunk outbox in the middle of its chunk takes nothing.
Pushed(o, n) ==
    IF Len(Room(o)) = MaxOutbox
    THEN [o EXCEPT !.lost = @ + 1]
    ELSE [o EXCEPT !.queue = Append(Room(o), WholeChunk(n)),
                   !.lost = @ + (Len(o.queue) - Len(Room(o)))]
PushAll(o, chunks) ==
    LET q[i \in 0..Len(chunks)] == IF i = 0 THEN o ELSE Pushed(q[i - 1], chunks[i])
    IN q[Len(chunks)]

Drain ==
    /\ At("drain")
    /\ offered' = <<>>
    /\ discarded' = (discarded \/ (offered # <<>> /\ attached = {}))
    /\ out' = [c \in Consumers |-> IF c \in attached THEN PushAll(out[c], offered) ELSE out[c]]
    /\ dropped' = [p \in Places |->
                     IF p \in attached
                     THEN dropped[p] + Len(out[p].queue) + Len(offered) - Len(out'[p].queue)
                     ELSE dropped[p]]
    /\ sweep' = "flush"
    /\ UNCHANGED <<files, run, offers, attached, known, episode, wire, named, served>>

\* One send: the kernel takes the head, half of it, or nothing and the consumer is left.
Send(c) ==
    /\ At("flush") /\ c \in attached /\ out[c].queue # <<>>
    /\ LET head == Head(out[c].queue)
       IN \E halves \in 1..head.halves :
              /\ torn' = (torn \/ owing[c] \notin {0, head.id} \/ head.id < last[c])
              /\ last' = [last EXCEPT ![c] = head.id]
              /\ IF halves = head.halves
                 THEN /\ out' = [out EXCEPT ![c].queue = Tail(@), ![c].partial = FALSE]
                      /\ owing' = [owing EXCEPT ![c] = 0]
                 ELSE /\ out' = [out EXCEPT ![c].queue[1].halves = 1, ![c].partial = TRUE]
                      /\ owing' = [owing EXCEPT ![c] = head.id]
    /\ UNCHANGED <<files, offering, attached, known, episode, sweep, ledger, served>>
Broken(c) ==
    /\ At("flush") /\ c \in attached
    /\ Detached(c)
    /\ UNCHANGED <<files, offering, reported, lines, sweep, torn, last, dropped, served>>

\* What was lost is reported, consumer by consumer and for the tee itself.
Settle ==
    /\ At("flush")
    /\ named' = [p \in Places |-> named[p] + Unnamed(p)]
    /\ run' = 0
    /\ out' = [c \in Consumers |-> [out[c] EXCEPT !.lost = 0]]
    /\ sweep' = "poll"
    /\ UNCHANGED <<files, offered, discarded, offers, attached, known, episode, wire, dropped, served>>

StartTee(t) == \/ LookTee(t)
            \/ \E answered \in BOOLEAN : ProbeTee(t, answered)
            \/ UnlinkTee(t)
            \/ BindTee(t)
            \/ ListenTee(t)
Paths == \E t \in Tees : StartTee(t) \/ CloseTee(t) \/ Kill(t)
Serves == \/ Report \/ Drain \/ Settle
          \/ \E c \in Consumers : Accept(c) \/ Reap(c) \/ Send(c) \/ Broken(c)
TeeNext == Paths \/ OfferChunk \/ Serves
TeeSpec == TeeInit /\ [][TeeNext]_teeVars

-----------------------------------------------------------------------------
(* What is to hold *)

\* A consumer gets whole chunks, oldest first: however slow it is, what makes room is
\* never the chunk its stream is in the middle of (audio_tee.py:252, protect_head).
NeverTorn == ~torn

\* Every chunk that was lost, wherever, is reported or on its way into a report.
LossTold == \A p \in Places : dropped[p] = named[p] + Unnamed(p)

StreamsWhole == NeverTorn /\ LossTold

\* At most one line for each stretch without a consumer, however many chunks were offered.
ToldOncePerEpisode == lines <= lonely

\* A tee whose start met no other start, and that never left one without an answer, keeps
\* its path until it ends, whatever the others do. What can take it is a tee that was
\* robbed of its path by a start that overlapped with its own: it unlinks on its way out
\* what it takes for its own file.
RivalEnded == \E u \in rivals : tee[u] = "closed"
KeepsPath == \A t \in Tees : tee[t] = "up" => path = t \/ t \in rivals \/ RivalEnded

\* And rivals rob one another, but until the first of them ends, somebody is there, or
\* just about to be.
SomebodyThere ==
  (\E t \in Tees : tee[t] = "up")
    => path \in Tees \/ (\E t \in Tees : tee[t] = "clear") \/ RivalEnded

PathStays == KeepsPath /\ SomebodyThere

\* The tee keeps what it promises, whatever the threads do: whole chunks, all losses told,
\* one line a stretch without consumers, and the path its own unless starts collided
\* (audio_tee.py).
TeeSound == StreamsWhole /\ ToldOncePerEpisode /\ PathStays

-----------------------------------------------------------------------------
(* The ears and the mouth in the mind                                        *)

CONSTANTS Rates, Configured,  \* what a header may announce; native_sample_rate
          Backoff,            \* _ROBOT_RETRY_BACKOFF, in clock units
          HeaderMax,          \* MAX_HEADER_BYTES
          RecvMax,            \* bytes one recv hands over
          MaxBytes, MaxConns  \* bounds: audio bytes of a connection, connections

VARIABLES
  profile,   \* "robot" or "bench"
  listening, \* somebody listens on the tee's path
  server,    \* the far end of the connection: what its header is, what is on its
             \* way to us, the audio bytes it sent, and whether it hung up
  conn,      \* which connection this is: 0, none yet
  sock,      \* _sock is not None
  buf,       \* _header_buf's length
  seen,      \* _header_seen
  rate,      \* _stream_rate
  half,   \* _pending: half a sample
  wait,      \* until _next_attempt_t
  down, fault,   \* _reported_down; _header_fault

  lastRead,     \* ghost: the samples of the last read, and the rate they were given
  bench      \* the bench backends: the microphone, and _BENCH_WARNED

readerVars == <<sock, buf, seen, rate, half, wait, down, fault>>
earsVars == <<profile, listening, server, conn, readerVars, lastRead, bench>>

MediaAssumption ==
  /\ Rates \subseteq Nat \ {0} /\ Configured \in Nat \ {0}
  /\ {Backoff, HeaderMax, RecvMax} \subseteq Nat \ {0} /\ {MaxBytes, MaxConns} \subseteq Nat

(* A header line: one this reader takes, with a rate or (0) without one; one   *)
(* of another stream, version, format or channel count; one that is no JSON    *)
(* object; and no line at all.                                                 *)
Good(r) == [kind |-> "good", rate |-> r]
Headers == {Good(r) : r \in Rates \cup {0}}
             \cup {[kind |-> k, rate |-> 0] : k \in {"foreign", "invalid", "endless"}}
HeaderByte == 0
Terminator == MaxBytes + 1    \* what is between them are bytes of audio
Nothing == [samples |-> <<>>, rate |-> 0]
NoServer == [header |-> Good(0), wire |-> <<>>, bytes |-> 0, hung |-> TRUE]

EarsInit ==
  /\ profile \in {"robot", "bench"}
  /\ listening \in BOOLEAN /\ server = NoServer /\ conn = 0
  /\ sock = FALSE /\ buf = 0 /\ seen = FALSE /\ rate = Configured /\ half = <<>>
  /\ wait = 0 /\ down = FALSE /\ fault = "none"
  /\ lastRead = Nothing
  /\ bench = [mic |-> "unopened", warned |-> FALSE]

-----------------------------------------------------------------------------
(* The tee: it comes and goes with the runtime, and with it its connections.   *)
Listen ==
  /\ listening' = ~listening
  /\ server' = [server EXCEPT !.hung = @ \/ listening]
  /\ UNCHANGED <<profile, conn, readerVars, lastRead, bench>>

(* An audio byte is known by its connection and its place in it.               *)
SendByte ==
  /\ ~server.hung /\ server.bytes < MaxBytes
  /\ server' = [server EXCEPT !.bytes = @ + 1, !.wire = Append(@, server.bytes + 1)]
  /\ UNCHANGED <<profile, listening, conn, readerVars, lastRead, bench>>

HangUp ==
  /\ ~server.hung /\ server' = [server EXCEPT !.hung = TRUE]
  /\ UNCHANGED <<profile, listening, conn, readerVars, lastRead, bench>>

EarsTick ==
  /\ wait > 0 /\ wait' = wait - 1
  /\ UNCHANGED <<profile, listening, server, conn, sock, buf, seen, rate, half, down, fault, lastRead,
                 bench>>

-----------------------------------------------------------------------------
(* _reset_stream_state: what is kept of the stream so far.                     *)
FaultyKept == [buf |-> 0, seen |-> FALSE, rate |-> Configured, pending |-> half]
Kept == [buf |-> 0, seen |-> FALSE, rate |-> Configured, pending |-> <<>>]
ResetStream == /\ buf' = Kept.buf /\ seen' = Kept.seen
               /\ rate' = Kept.rate /\ half' = Kept.pending

(* _ensure_connected fails: nobody listens.                                    *)
ConnectRefused ==
  /\ profile = "robot" /\ ~sock /\ wait = 0 /\ ~listening
  /\ wait' = Backoff /\ down' = TRUE
  /\ lastRead' = Nothing
  /\ UNCHANGED <<profile, listening, server, conn, sock, buf, seen, rate, half, fault, bench>>

(* A header is one byte and its terminator here; an endless one has no  *)
(* terminator.                                                                 *)
Line(h) == IF h.kind = "endless" THEN [i \in 1 .. HeaderMax + 1 |-> HeaderByte]
           ELSE <<HeaderByte, Terminator>>

(* _ensure_connected succeeds; the same read then waits for bytes.             *)
Connect ==
  /\ profile = "robot" /\ ~sock /\ wait = 0 /\ listening /\ conn < MaxConns
  /\ \E h \in Headers : server' = [header |-> h, wire |-> Line(h), bytes |-> 0, hung |-> FALSE]
  /\ conn' = conn + 1 /\ sock' = TRUE /\ down' = FALSE
  /\ ResetStream
  /\ lastRead' = Nothing
  /\ UNCHANGED <<profile, listening, wait, fault, bench>>

(* _drop: the connection failed or its far end closed it, and all it sent is   *)
(* read; or recv failed with bytes still on their way.                         *)
Drop ==
  /\ profile = "robot" /\ sock /\ server.hung
  /\ sock' = FALSE /\ wait' = Backoff /\ ResetStream
  /\ server' = [server EXCEPT !.wire = <<>>]
  /\ lastRead' = Nothing
  /\ UNCHANGED <<profile, listening, conn, down, fault, bench>>

(* _resolve_stream_rate.                                                       *)
Announced(h) == IF h.rate = 0 THEN Configured ELSE h.rate

(* _decode: whole samples, and what is left over.                              *)
Halves(bytes) == half \o [i \in DOMAIN bytes |-> <<conn, bytes[i]>>]
Decode(bytes, r) ==
  LET all == Halves(bytes)
      n == Len(all) \div 2
  IN /\ lastRead' = [samples |-> [i \in 1 .. n |-> <<all[2 * i - 1], all[2 * i]>>],
                  rate |-> IF n = 0 THEN 0 ELSE r]
     /\ half' = SubSeq(all, 2 * n + 1, Len(all))

Received(n) == SubSeq(server.wire, 1, n)
Read(n) == /\ profile = "robot" /\ sock
           /\ n \in 1 .. RecvMax /\ n <= Len(server.wire)
           /\ server' = [server EXCEPT !.wire = SubSeq(@, n + 1, Len(@))]
           /\ UNCHANGED <<profile, listening, conn, down, bench>>

ReadAudio(n) ==
  /\ Read(n) /\ seen
  /\ Decode(Received(n), rate)
  /\ UNCHANGED <<sock, buf, seen, rate, wait, fault>>

(* _consume_header: no terminator yet.                                         *)
ReadHeader(n) ==
  /\ Read(n) /\ ~seen /\ ~Contains(Received(n), Terminator) /\ buf + n <= HeaderMax
  /\ buf' = buf + n /\ lastRead' = Nothing
  /\ UNCHANGED <<sock, seen, rate, half, wait, fault>>

AcceptHeader(n) ==
  /\ Read(n) /\ ~seen /\ Contains(Received(n), Terminator)
  /\ server.header.kind = "good"
  /\ LET found == CHOOSE i \in 1 .. n : Received(n)[i] = Terminator
     IN Decode(SubSeq(Received(n), found + 1, n), Announced(server.header))
  /\ buf' = 0 /\ seen' = TRUE /\ rate' = Announced(server.header) /\ fault' = "none"
  /\ UNCHANGED <<sock, wait>>

(* _refuse_header: the stream is not ours, or there is no header in it.        *)
RefuseHeader(n) ==
  /\ Read(n) /\ ~seen
  /\ \/ /\ Contains(Received(n), Terminator) /\ server.header.kind # "good"
        /\ fault' = server.header.kind
     \/ ~Contains(Received(n), Terminator) /\ buf + n > HeaderMax /\ fault' = "invalid"
  /\ sock' = FALSE /\ wait' = Backoff /\ ResetStream
  /\ lastRead' = Nothing

(* A read that finds nothing: backing off, or nothing there within the         *)
(* timeout.  What is kept of the stream stays.                                 *)
ReadNothing ==
  /\ profile = "robot" /\ lastRead # Nothing
  /\ \/ wait > 0 /\ ~sock
     \/ sock /\ server.wire = <<>> /\ ~server.hung
  /\ lastRead' = Nothing
  /\ UNCHANGED <<profile, listening, server, conn, readerVars, bench>>

(* close: nothing but the socket; a later read connects again.                 *)
CloseEars ==
  /\ profile = "robot" /\ sock /\ sock' = FALSE
  /\ server' = [server EXCEPT !.hung = TRUE, !.wire = <<>>]
  /\ UNCHANGED <<profile, listening, conn, buf, seen, rate, half, wait, down, fault, lastRead,
                 bench>>

-----------------------------------------------------------------------------
(* The bench: a microphone that cannot be opened is not tried again; the       *)
(* speaker is tried for each utterance.                                        *)
BenchOpen ==
  /\ profile = "bench" /\ bench.mic = "unopened"
  /\ \/ bench' = [bench EXCEPT !.mic = "open"]
     \/ bench' = [mic |-> "unavailable", warned |-> TRUE]
  /\ UNCHANGED <<profile, listening, server, conn, readerVars, lastRead>>

BenchPlay ==
  /\ profile = "bench" /\ bench' \in {bench, [bench EXCEPT !.warned = TRUE]}
  /\ UNCHANGED <<profile, listening, server, conn, readerVars, lastRead>>

BenchClose ==
  /\ profile = "bench" /\ bench.mic = "open"
  /\ bench' = [bench EXCEPT !.mic = "unopened"]
  /\ UNCHANGED <<profile, listening, server, conn, readerVars, lastRead>>

Take == \/ ConnectRefused \/ Connect \/ Drop
        \/ \E n \in 1 .. RecvMax : ReadAudio(n) \/ ReadHeader(n) \/ AcceptHeader(n) \/ RefuseHeader(n)

EarsNext == Take \/ ReadNothing \/ EarsTick \/ Listen \/ SendByte \/ HangUp \/ CloseEars
        \/ BenchOpen \/ BenchPlay \/ BenchClose

EarsSpec == EarsInit /\ [][EarsNext]_earsVars

(* The session's worker reads in a loop.                                       *)
EarsFairSpec == EarsSpec /\ WF_earsVars(Take) /\ WF_earsVars(EarsTick)

-----------------------------------------------------------------------------
Bytes == {<<c, b>> : c \in 1 .. MaxConns, b \in 1 .. MaxBytes}

EarsTypeOK ==
  /\ {listening, sock, seen, down} \subseteq BOOLEAN
  /\ server.header \in Headers /\ server.bytes \in 0 .. MaxBytes
  /\ conn \in 0 .. MaxConns /\ buf \in 0 .. HeaderMax
  /\ rate \in Rates \cup {Configured} /\ half \in {<<>>} \cup {<<b>> : b \in Bytes}
  /\ wait \in 0 .. Backoff /\ fault \in {"none", "foreign", "invalid"}
  /\ bench \in [mic : {"unopened", "open", "unavailable"}, warned : BOOLEAN]

(* A sample that is heard is a whole one, of this connection, low byte first,  *)
(* wherever the reads fell and wherever the last connection broke off.         *)
SamplesWhole ==
  \A i \in DOMAIN lastRead.samples :
    LET s == lastRead.samples[i] IN
    /\ s[1][1] = conn /\ s[2][1] = conn
    /\ s[1][2] % 2 = 1 /\ s[2][2] = s[1][2] + 1

(* Nothing is heard of a stream whose header was not taken, and what is heard  *)
(* is heard at the rate its own header announced.                              *)
OwnRate ==
  lastRead.samples # <<>>
    => /\ server.header.kind = "good"
       /\ lastRead.rate = Announced(server.header)

(* No sample is heard twice, and none is left out: what a read takes of the    *)
(* audio is heard at once, in order, but for half a sample it keeps.           *)
Audio(w) == SelectSeq(w, LAMBDA b : b \in 1 .. MaxBytes)
InOrderStep ==
  sock' /\ seen' /\ Len(server'.wire) < Len(server.wire)
    => /\ Len(Audio(server.wire)) + Len(half)
             = Len(Audio(server'.wire)) + Len(half') + 2 * Len(lastRead'.samples)
       /\ \A i \in 2 .. Len(lastRead'.samples) :
            lastRead'.samples[i][1][2] = lastRead'.samples[i - 1][2][2] + 1
InOrder == [][InOrderStep]_earsVars

(* The mind hears again: while somebody listens, and connections are taken and *)
(* not refused, the reader is connected, and reads what there is.              *)
HearsAgain ==
  /\ []<>(profile = "robot" /\ listening /\ conn < MaxConns => sock)
  /\ []<>(sock => server.wire = <<>>)
=============================================================================
