------------------------- MODULE DuplexMouthProofs -------------------------
(***************************************************************************)
(* What the mouth promises, for every number of replies, chunk size, queue *)
(* bound and number of cuts: its counter covers everything a cut could     *)
(* still withhold, a cut silences what it overtook, every unit of audio is *)
(* in exactly one place, and none goes missing in the middle of a reply.   *)
(*                                                                         *)
(* None of it follows from the types.  The counter is covered because the  *)
(* chunk being queued, the one taken and those in a cut's hands are all    *)
(* weighed; the silence holds because every chunk on its way carries the   *)
(* generation its reply was born in (Stamped).  The ledgers balance        *)
(* because of where each unit is (BooksInv); nothing is missing because    *)
(* each chunk follows what left the queue before it, or another chunk of   *)
(* its reply in front of it (SeqInv).  Units are a sum over a sequence:    *)
(* what is said of such a sum is shown by looking at the first place where *)
(* it would fail (SmallestNat).  The last section is of the tools the mind *)
(* that speaks calls (EmbodyTools): what it is told they did, they did.    *)
(***************************************************************************)
EXTENDS DuplexMouth, EmbodyTools, WellFoundedInduction, SequenceTheorems, TLAPS

Phases == {"none", "bump", "drain", "account"}
Workers == [step : WorkerSteps, doing : Errands, about : Keys, chunk : Chunks]
CutStates == [phase : Phases, key : Keys, drained : Seq(Chunks)]
Mouths == [state : {"idle", "taken", "playing"}, chunk : Chunks]

Places ==
    /\ generation \in Nat /\ withholdable \in Nat
    /\ playback \in Seq(Chunks)
    /\ current \in Keys
    /\ pending \in [Replies -> Pendings]
    /\ seen \in 0 .. MaxReplies /\ arriving \in BOOLEAN
    /\ worker \in Workers
    /\ cuts \in [Cutters -> CutStates]
    /\ mouth \in Mouths

\* There is a reply whenever one is being worked on.
AtWork == arriving \/ worker.step \in {"check", "put", "count", "seal"} => seen \in Replies

\* The worker does nothing else while it cuts.
Cutting == cuts["worker"].phase # "none" => worker.step = "cutting"

\* A chunk of a reply that exists, stamped with the generation of its birth.
Genuine(x) == x.reply \in 1 .. seen /\ x.generation = pending[x.reply].generation

Stamped ==
    /\ \A i \in 1 .. Len(playback) : Genuine(playback[i])
    /\ worker.step \in {"put", "count"} => Genuine(worker.chunk)
    /\ mouth.state # "idle" => Genuine(mouth.chunk)

IInv == Places /\ AtWork /\ Cutting /\ Stamped /\ PendingCovers

-----------------------------------------------------------------------------
(* Helpers *)

\* The counter goes down by at most what is asked, and never below zero.
LEMMA ReleasedBounds ==
    ASSUME NEW n \in Nat, withholdable \in Nat
    PROVE  /\ Released(n) \in Nat
           /\ Released(n) >= withholdable - n
BY DEF Released

\* Taking a chunk off the queue leaves the others in place.
LEMMA TailOf ==
    ASSUME NEW S, NEW s \in Seq(S), s # <<>>
    PROVE  /\ Tail(s) \in Seq(S) /\ Head(s) \in S /\ Head(s) = s[1]
           /\ Len(s) \in Nat /\ Len(Tail(s)) = Len(s) - 1
           /\ \A i \in 1 .. Len(Tail(s)) : Tail(s)[i] = s[i + 1]
OBVIOUS

LEMMA AppendOf ==
    ASSUME NEW S, NEW s \in Seq(S), NEW x \in S
    PROVE  /\ Append(s, x) \in Seq(S) /\ Len(Append(s, x)) = Len(s) + 1
           /\ \A i \in 1 .. Len(Append(s, x)) : Append(s, x)[i] = IF i = Len(s) + 1 THEN x ELSE s[i]
OBVIOUS

LEMMA NoneIsAKey == None \in Keys /\ Replies \subseteq Keys
BY DEF Keys

LEMMA Initially == Init => IInv
<1> SUFFICES ASSUME Init PROVE IInv
  OBVIOUS
<1>1. Places
  <2>1. NoChunk \in Chunks
    BY NoneIsAKey DEF NoChunk, Chunks
  <2>2. worker \in Workers
    BY <2>1, NoneIsAKey DEF Init, Idle, Workers, WorkerSteps, Errands
  <2>3. NoCut \in CutStates
    BY NoneIsAKey DEF NoCut, CutStates, Phases
  <2>4. mouth \in Mouths
    BY <2>1 DEF Init, Mouths
  <2>5. NewPending(0) \in Pendings
    BY DEF NewPending, Pendings
  <2>6. seen \in 0 .. MaxReplies
    BY MouthAssumption DEF Init
  <2>7. cuts \in [Cutters -> CutStates] /\ pending \in [Replies -> Pendings]
    BY <2>3, <2>5 DEF Init
  <2>8. playback \in Seq(Chunks) /\ current \in Keys
    BY NoneIsAKey DEF Init
  <2>9. generation \in Nat /\ withholdable \in Nat /\ arriving \in BOOLEAN
    BY DEF Init
  <2> QED BY <2>2, <2>4, <2>6, <2>7, <2>8, <2>9 DEF Places
<1>2. AtWork
  BY DEF Init, AtWork, Idle
<1>5. Cutting
  BY DEF Init, Cutting, NoCut, Cutters
<1>3. Stamped
  BY DEF Init, Stamped, Idle
<1>4. PendingCovers
  BY DEF Init, PendingCovers, Uncounted, Taken, InHands, NoCut, Cutters, Idle
<1> QED BY <1>1, <1>2, <1>3, <1>4, <1>5 DEF IInv

-----------------------------------------------------------------------------
(* The worker's side *)

\* Where the worker is weighs at most one chunk; nobody else moves with these.
LEMMA ResponseCreatedInv == IInv /\ ResponseCreated => IInv'
<1> SUFFICES ASSUME IInv, ResponseCreated PROVE IInv'
  OBVIOUS
<1> USE DEF IInv
<1>1. seen' = seen + 1 /\ seen' \in Replies /\ seen' \in 0 .. MaxReplies
  BY MouthAssumption DEF ResponseCreated, Places, Replies
<1>2. NewPending(generation) \in Pendings
  BY DEF NewPending, Pendings, Places
<1>3. Places'
  <2>1. pending' \in [Replies -> Pendings]
    BY <1>1, <1>2 DEF ResponseCreated, Places
  <2> QED BY <2>1, <1>1 DEF ResponseCreated, Places
<1>4. AtWork' /\ Cutting'
  BY <1>1 DEF ResponseCreated, AtWork, Cutting
<1>5. \A r \in 1 .. seen : pending'[r] = pending[r] /\ r \in 1 .. seen'
  BY <1>1 DEF ResponseCreated, Places, Replies
<1>6. Stamped'
  BY <1>5 DEF ResponseCreated, Stamped, Genuine
<1>7. PendingCovers'
  BY DEF ResponseCreated, PendingCovers, Uncounted, Taken, InHands
<1> QED BY <1>3, <1>4, <1>6, <1>7

\* What is arriving changes in nothing but its counts.
LEMMA CountsKeepStamps ==
    ASSUME IInv, NEW r \in Replies, NEW p \in Pendings,
           p.generation = pending[r].generation,
           pending' = [pending EXCEPT ![r] = p]
    PROVE  /\ pending' \in [Replies -> Pendings]
           /\ \A q \in 1 .. seen : pending'[q].generation = pending[q].generation
<1>1. pending \in [Replies -> Pendings] /\ 1 .. seen \subseteq Replies
  BY MouthAssumption DEF IInv, Places, Replies
<1> QED BY <1>1

\* What may be changed in such a record without leaving its type or its birth.
LEMMA PendingEdits ==
    ASSUME NEW q \in Pendings, NEW n \in Nat
    PROVE  /\ [q EXCEPT !.audio = @ + 1] \in Pendings
           /\ [q EXCEPT !.audio = @ + 1].generation = q.generation
           /\ [q EXCEPT !.flushed = @ + n] \in Pendings
           /\ [q EXCEPT !.flushed = @ + n].generation = q.generation
           /\ [q EXCEPT !.truncated = TRUE] \in Pendings
           /\ [q EXCEPT !.truncated = TRUE].generation = q.generation
<1>1. q.generation \in Nat /\ q.audio \in Nat /\ q.flushed \in Nat /\ q.truncated \in BOOLEAN
  BY DEF Pendings
<1>2. q = [generation |-> q.generation, audio |-> q.audio, flushed |-> q.flushed,
           truncated |-> q.truncated]
  BY DEF Pendings
<1>3. [q EXCEPT !.audio = @ + 1] = [generation |-> q.generation, audio |-> q.audio + 1,
                                    flushed |-> q.flushed, truncated |-> q.truncated]
  BY <1>2
<1>4. [q EXCEPT !.flushed = @ + n] = [generation |-> q.generation, audio |-> q.audio,
                                      flushed |-> q.flushed + n, truncated |-> q.truncated]
  BY <1>2
<1>5. [q EXCEPT !.truncated = TRUE] \in Pendings
  BY DEF Pendings
<1>7. [q EXCEPT !.truncated = TRUE].generation = q.generation
  BY DEF Pendings
<1>6. q.audio + 1 \in Nat /\ q.flushed + n \in Nat
  BY <1>1
<1> QED BY <1>1, <1>3, <1>4, <1>5, <1>6, <1>7 DEF Pendings

LEMMA AudioDeltaInv == IInv /\ AudioDelta => IInv'
<1> SUFFICES ASSUME IInv, AudioDelta PROVE IInv'
  OBVIOUS
<1> USE DEF IInv
<1> DEFINE p == [pending[seen] EXCEPT !.audio = @ + 1]
<1>1. seen \in Replies
  BY DEF AudioDelta, AtWork
<1>2. p \in Pendings /\ p.generation = pending[seen].generation
  BY <1>1, PendingEdits DEF Places
<1>3. pending' = [pending EXCEPT ![seen] = p]
  BY <1>1 DEF AudioDelta, Places
<1> HIDE DEF p
<1>4. /\ pending' \in [Replies -> Pendings]
      /\ \A q \in 1 .. seen : pending'[q].generation = pending[q].generation
  BY <1>1, <1>2, <1>3, CountsKeepStamps
<1>5. worker' \in Workers /\ worker'.step = "check"
  <2>1. NoChunk \in Chunks
    BY NoneIsAKey DEF NoChunk, Chunks
  <2> QED BY <2>1, NoneIsAKey DEF AudioDelta, Idle, Workers, WorkerSteps, Errands
<1>6. Places'
  BY <1>4, <1>5 DEF AudioDelta, Places
<1>7. AtWork' /\ Cutting' /\ PendingCovers'
  BY <1>1, <1>5 DEF AudioDelta, AtWork, Cutting, PendingCovers, Uncounted, Taken, InHands
<1>8. Stamped'
  BY <1>4, <1>5 DEF AudioDelta, Stamped, Genuine
<1> QED BY <1>6, <1>7, <1>8

\* Only where the worker is, and whether a cut is under way, changes.
LEMMA WorkerMoves ==
    ASSUME IInv, worker' \in Workers,
           worker'.step \in {"check", "seal"} => seen \in Replies,
           worker'.step \in {"put", "count"} => seen \in Replies /\ Genuine(worker'.chunk),
           worker'.step = "count" <=> worker.step = "count",
           arriving' \in BOOLEAN, arriving' => seen \in Replies,
           cuts' \in [Cutters -> CutStates],
           cuts'["worker"].phase # "none" => worker'.step = "cutting",
           \A c \in Cutters : Len(cuts'[c].drained) <= Len(cuts[c].drained),
           UNCHANGED <<generation, playback, withholdable, current, pending, seen, mouth>>
    PROVE  IInv'
<1> USE DEF IInv
<1>1. Places'
  BY DEF Places
<1>2. AtWork' /\ Cutting'
  BY DEF AtWork, Cutting
<1>3. Stamped'
  BY DEF Stamped, Genuine
<1>4. InHands' <= InHands /\ InHands \in Nat /\ InHands' \in Nat
  <2>1. \A c \in Cutters : Len(cuts[c].drained) \in Nat /\ Len(cuts'[c].drained) \in Nat
    <3>1. \A c \in Cutters : cuts[c].drained \in Seq(Chunks) /\ cuts'[c].drained \in Seq(Chunks)
      BY DEF Places, CutStates
    <3> QED BY <3>1
  <2>2. "worker" \in Cutters /\ "operator" \in Cutters
    BY DEF Cutters
  <2>3. /\ Len(cuts["worker"].drained) \in Nat /\ Len(cuts'["worker"].drained) \in Nat
        /\ Len(cuts["operator"].drained) \in Nat /\ Len(cuts'["operator"].drained) \in Nat
        /\ Len(cuts'["worker"].drained) <= Len(cuts["worker"].drained)
        /\ Len(cuts'["operator"].drained) <= Len(cuts["operator"].drained)
    BY <2>1, <2>2
  <2> DEFINE w == Len(cuts["worker"].drained)
             o == Len(cuts["operator"].drained)
             v == Len(cuts'["worker"].drained)
             p == Len(cuts'["operator"].drained)
  <2>4. InHands = w + o /\ InHands' = v + p
    BY DEF InHands
  <2>5. w \in Nat /\ o \in Nat /\ v \in Nat /\ p \in Nat /\ v <= w /\ p <= o
    BY <2>3
  <2> HIDE DEF w, o, v, p
  <2> QED BY <2>4, <2>5
<1>5. PendingCovers'
  BY <1>4 DEF PendingCovers, Uncounted, Taken, Places
<1> QED BY <1>1, <1>2, <1>3, <1>5

LEMMA InHandsNat ==
    ASSUME IInv
    PROVE  /\ \A c \in Cutters : cuts[c].drained \in Seq(Chunks) /\ Len(cuts[c].drained) \in Nat
           /\ InHands \in Nat
<1>1. \A c \in Cutters : cuts[c].drained \in Seq(Chunks)
  BY DEF IInv, Places, CutStates
<1>2. \A c \in Cutters : Len(cuts[c].drained) \in Nat
  BY <1>1
<1>3. "worker" \in Cutters /\ "operator" \in Cutters
  BY DEF Cutters
<1>4. Len(cuts["worker"].drained) \in Nat /\ Len(cuts["operator"].drained) \in Nat
  BY <1>2, <1>3
<1> DEFINE w == Len(cuts["worker"].drained)
           o == Len(cuts["operator"].drained)
<1>5. InHands = w + o
  BY DEF InHands
<1>6. w \in Nat /\ o \in Nat
  BY <1>4
<1>7. InHands \in Nat
  <2> HIDE DEF w, o
  <2> QED BY <1>5, <1>6
<1> QED BY <1>1, <1>2, <1>7

LEMMA IdleIsAWorker == Idle \in Workers /\ NoChunk \in Chunks
<1>1. NoChunk \in Chunks
  BY NoneIsAKey DEF NoChunk, Chunks
<1> QED BY <1>1, NoneIsAKey DEF Idle, Workers, WorkerSteps, Errands

\* A cut about nothing or about one reply, with nothing in its hands yet.
LEMMA NewCut ==
    ASSUME NEW k \in Keys
    PROVE  /\ [NoCut EXCEPT !.phase = "bump"] \in CutStates
           /\ [NoCut EXCEPT !.phase = "bump"].drained = <<>>
           /\ [NoCut EXCEPT !.phase = "bump", !.key = k] \in CutStates
           /\ [NoCut EXCEPT !.phase = "bump", !.key = k].drained = <<>>
<1>1. NoCut \in CutStates /\ NoCut.drained = <<>>
  BY NoneIsAKey DEF NoCut, CutStates, Phases
<1>2. [NoCut EXCEPT !.phase = "bump"] \in CutStates
  BY <1>1 DEF CutStates, Phases
<1>3. [NoCut EXCEPT !.phase = "bump"].drained = <<>>
  BY <1>1 DEF CutStates
<1>4. [NoCut EXCEPT !.phase = "bump", !.key = k] \in CutStates
  BY <1>1 DEF CutStates, Phases
<1>5. [NoCut EXCEPT !.phase = "bump", !.key = k].drained = <<>>
  BY <1>1 DEF CutStates
<1> QED BY <1>2, <1>3, <1>4, <1>5

LEMMA CutStarts ==
    ASSUME IInv, NEW c \in Cutters, NEW s \in CutStates, s.drained = <<>>,
           cuts' = [cuts EXCEPT ![c] = s]
    PROVE  /\ cuts' \in [Cutters -> CutStates]
           /\ \A d \in Cutters : Len(cuts'[d].drained) <= Len(cuts[d].drained)
           /\ c = "operator" => cuts'["worker"] = cuts["worker"]
<1>1. cuts \in [Cutters -> CutStates]
  BY DEF IInv, Places
<1>4. \A d \in Cutters : cuts[d].drained \in Seq(Chunks) /\ Len(cuts[d].drained) \in Nat
  <2>1. \A d \in Cutters : cuts[d].drained \in Seq(Chunks)
    BY <1>1 DEF CutStates
  <2> QED BY <2>1
<1>5. cuts' \in [Cutters -> CutStates]
  BY <1>1
<1>6. ASSUME NEW d \in Cutters PROVE Len(cuts'[d].drained) <= Len(cuts[d].drained)
  <2>1. CASE d = c
    <3>1. cuts'[d].drained = <<>>
      BY <1>1, <2>1
    <3>2. Len(<<>>) = 0
      OBVIOUS
    <3> QED BY <3>1, <3>2, <1>4
  <2>2. CASE d # c
    BY <1>1, <1>4, <2>2
  <2> QED BY <2>1, <2>2
<1>7. c = "operator" => cuts'["worker"] = cuts["worker"]
  BY <1>1 DEF Cutters
<1> QED BY <1>5, <1>6, <1>7

LEMMA CutsStay ==
    ASSUME IInv, UNCHANGED cuts
    PROVE  /\ cuts' \in [Cutters -> CutStates]
           /\ \A d \in Cutters : Len(cuts'[d].drained) <= Len(cuts[d].drained)
<1>1. \A d \in Cutters : cuts[d].drained \in Seq(Chunks)
  BY DEF IInv, Places, CutStates
<1>2. \A d \in Cutters : Len(cuts[d].drained) \in Nat
  BY <1>1
<1> QED BY <1>2 DEF IInv, Places

LEMMA WireInv == IInv /\ Wire => IInv'
<1> SUFFICES ASSUME IInv, Wire PROVE IInv'
  OBVIOUS
<1>1. CASE ResponseCreated
  BY <1>1, ResponseCreatedInv
<1>2. CASE AudioDelta
  BY <1>2, AudioDeltaInv
<1>3. CASE ResponseDone
  <2>1. seen \in Replies /\ seen \in Keys /\ arriving \in BOOLEAN
    BY <1>3, NoneIsAKey DEF ResponseDone, IInv, AtWork, Places
  <2>2. worker' \in Workers /\ worker'.step = "check" /\ worker.step = "idle"
    BY <1>3, <2>1, IdleIsAWorker DEF ResponseDone, Idle, Workers, WorkerSteps, Errands
  <2> QED BY <1>3, <2>1, <2>2, CutsStay, WorkerMoves DEF ResponseDone, IInv, Cutting
<1>4. CASE ResponseInterrupted
  <2>1. seen \in Replies /\ seen \in Keys /\ arriving \in BOOLEAN
    BY <1>4, NoneIsAKey DEF ResponseInterrupted, IInv, AtWork, Places
  <2>2. worker' \in Workers /\ worker'.step = "seal" /\ worker.step = "idle"
    BY <1>4, <2>1, IdleIsAWorker DEF ResponseInterrupted, Idle, Workers, WorkerSteps, Errands
  <2> QED BY <1>4, <2>1, <2>2, CutsStay, WorkerMoves DEF ResponseInterrupted, IInv, Cutting
<1>5. CASE SpeechStarted
  <2>1. worker' \in Workers /\ worker'.step = "cutting" /\ worker.step = "idle"
    BY <1>5, IdleIsAWorker DEF SpeechStarted, Idle, Workers, WorkerSteps, Errands
  <2>2. cuts' = [cuts EXCEPT !["worker"] = [NoCut EXCEPT !.phase = "bump"]]
    BY <1>5 DEF SpeechStarted
  <2>3. /\ cuts' \in [Cutters -> CutStates]
        /\ \A d \in Cutters : Len(cuts'[d].drained) <= Len(cuts[d].drained)
    BY <2>2, NoneIsAKey, NewCut, CutStarts DEF Cutters
  <2>4. arriving' \in BOOLEAN /\ (arriving' => seen \in Replies)
    BY <1>5, Zenon DEF SpeechStarted, IInv, Places, AtWork
  <2> QED BY <1>5, <2>1, <2>3, <2>4, WorkerMoves DEF SpeechStarted
<1>6. CASE Reconnect
  <2>1. worker' \in Workers /\ worker'.step = "cutting" /\ worker.step = "idle"
    BY <1>6, IdleIsAWorker DEF Reconnect, Idle, Workers, WorkerSteps, Errands
  <2>2. cuts' = [cuts EXCEPT !["worker"] = [NoCut EXCEPT !.phase = "bump"]]
    BY <1>6 DEF Reconnect
  <2>3. /\ cuts' \in [Cutters -> CutStates]
        /\ \A d \in Cutters : Len(cuts'[d].drained) <= Len(cuts[d].drained)
    BY <2>2, NoneIsAKey, NewCut, CutStarts DEF Cutters
  <2> QED BY <1>6, <2>1, <2>3, WorkerMoves DEF Reconnect
<1> QED BY <1>1, <1>2, <1>3, <1>4, <1>5, <1>6 DEF Wire

\* Where the worker goes when it has no further chunk to hand over.
LEMMA AfterFlushGoes ==
    ASSUME IInv, worker.step \in {"check", "put"}
    PROVE  AfterFlush \in Workers /\ AfterFlush.step \in {"seal", "idle"} /\ seen \in Replies
<1>1. worker \in Workers /\ seen \in Replies
  BY DEF IInv, Places, AtWork
<1>2. [worker EXCEPT !.step = "seal"] \in Workers /\ [worker EXCEPT !.step = "seal"].step = "seal"
  BY <1>1 DEF Workers, WorkerSteps
<1>3. Idle.step = "idle"
  BY DEF Idle
<1> QED BY <1>1, <1>2, <1>3, IdleIsAWorker DEF AfterFlush

LEMMA CheckGenerationInv == IInv /\ CheckGeneration => IInv'
<1> SUFFICES ASSUME IInv, CheckGeneration PROVE IInv'
  OBVIOUS
<1> DEFINE q == pending[seen]
           n == NextSize(q, worker.doing = "done")
           x == [reply |-> seen, generation |-> generation, at |-> q.flushed, size |-> n]
<1>1. /\ worker.step = "check" /\ seen \in Replies /\ worker \in Workers
      /\ AfterFlush \in Workers /\ AfterFlush.step \in {"seal", "idle"}
  BY AfterFlushGoes DEF CheckGeneration, IInv, Places
<1>2. generation \in Nat /\ q \in Pendings /\ seen \in Keys
  BY <1>1, NoneIsAKey DEF IInv, Places
<1>3. n \in Int
  BY <1>2, MouthAssumption DEF NextSize, Pendings
<1>4. ASSUME n > 0, StillSpeaks(q)
      PROVE  x \in Chunks /\ Genuine(x)
  <2>1. x \in Chunks
    BY <1>2, <1>3, <1>4 DEF Chunks, Pendings
  <2>2. seen \in 1 .. seen
    BY <1>1, MouthAssumption DEF Replies
  <2> QED BY <2>1, <2>2, <1>4 DEF Genuine, StillSpeaks
<1>5. CASE worker' = AfterFlush
  BY <1>1, <1>5, CutsStay, WorkerMoves DEF CheckGeneration, IInv, Places, AtWork, Cutting
<1>6. CASE worker' = [worker EXCEPT !.step = "put", !.chunk = x] /\ n > 0 /\ StillSpeaks(q)
  <2>1. worker' \in Workers
    BY <1>1, <1>4, <1>6 DEF Workers, WorkerSteps
  <2>2. worker'.step = "put" /\ worker'.chunk = x
    BY <1>1, <1>6 DEF Workers
  <2>3. Genuine(worker'.chunk)
    BY <2>2, <1>4, <1>6
  <2> QED BY <1>1, <2>1, <2>2, <2>3, CutsStay, WorkerMoves DEF CheckGeneration, IInv, Places, AtWork, Cutting
<1> QED BY <1>5, <1>6 DEF CheckGeneration

LEMMA PutChunkInv == IInv /\ PutChunk => IInv'
<1> SUFFICES ASSUME IInv, PutChunk PROVE IInv'
  OBVIOUS
<1>1. /\ worker.step = "put" /\ seen \in Replies /\ worker \in Workers /\ worker.chunk \in Chunks
      /\ AfterFlush \in Workers /\ AfterFlush.step \in {"seal", "idle"}
      /\ Genuine(worker.chunk) /\ playback \in Seq(Chunks) /\ Len(playback) \in Nat
  BY AfterFlushGoes DEF PutChunk, IInv, Places, Workers, Stamped
<1>2. CASE Len(playback) < Capacity
  <2>1. playback' = Append(playback, worker.chunk) /\ worker' = [worker EXCEPT !.step = "count"]
    BY <1>2 DEF PutChunk
  <2>2. worker' \in Workers /\ worker'.step = "count" /\ worker'.chunk = worker.chunk
    BY <1>1, <2>1 DEF Workers, WorkerSteps
  <2>3. /\ playback' \in Seq(Chunks) /\ Len(playback') = Len(playback) + 1
        /\ \A i \in 1 .. Len(playback') :
             playback'[i] = IF i = Len(playback) + 1 THEN worker.chunk ELSE playback[i]
    BY <1>1, <2>1, AppendOf
  <2>4. Places'
    BY <1>2, <2>2, <2>3 DEF PutChunk, IInv, Places
  <2>5. AtWork' /\ Cutting'
    BY <1>1, <1>2 DEF PutChunk, IInv, AtWork, Cutting
  <2>6. Stamped'
    <3>1. \A i \in 1 .. Len(playback') : Genuine(playback'[i])
      BY <1>1, <2>3 DEF IInv, Stamped
    <3> QED BY <1>1, <1>2, <2>2, <3>1 DEF PutChunk, IInv, Stamped, Genuine
  <2>7. PendingCovers'
    <3>1. InHands' = InHands /\ Taken' = Taken /\ Uncounted = 0 /\ Uncounted' = 1
      BY <1>1, <1>2, <2>2 DEF PutChunk, InHands, Taken, Uncounted
    <3>2. InHands \in Int /\ Taken \in Int /\ withholdable \in Nat
      BY InHandsNat DEF Taken, IInv, Places
    <3> QED BY <1>1, <2>3, <3>1, <3>2 DEF PutChunk, IInv, PendingCovers
  <2> QED BY <2>4, <2>5, <2>6, <2>7 DEF IInv
<1>3. CASE ~(Len(playback) < Capacity)
  <2>1. pending' = [pending EXCEPT ![seen] = Refuse(pending[seen])] /\ worker' = AfterFlush
    BY <1>3, <1>1 DEF PutChunk, IInv, Places
  <2>2. /\ pending' \in [Replies -> Pendings]
        /\ \A r \in 1 .. seen : pending'[r].generation = pending[r].generation
    <3>1. pending[seen] \in Pendings
      BY <1>1 DEF IInv, Places
    <3>2. /\ Refuse(pending[seen]) \in Pendings
          /\ Refuse(pending[seen]).generation = pending[seen].generation
      BY <3>1, PendingEdits DEF Refuse
    <3> QED BY <1>1, <2>1, <3>2, CountsKeepStamps
  <2>3. Places'
    BY <1>1, <1>3, <2>1, <2>2 DEF PutChunk, IInv, Places
  <2>4. AtWork' /\ Cutting'
    BY <1>1, <1>3 DEF PutChunk, IInv, AtWork, Cutting
  <2>5. Stamped'
    BY <1>1, <1>3, <2>1, <2>2 DEF PutChunk, IInv, Stamped, Genuine
  <2>6. PendingCovers'
    BY <1>1, <1>3, <2>1 DEF PutChunk, IInv, PendingCovers, Uncounted, Taken, InHands
  <2> QED BY <2>3, <2>4, <2>5, <2>6 DEF IInv
<1> QED BY <1>2, <1>3

LEMMA CountChunkInv == IInv /\ CountChunk => IInv'
<1> SUFFICES ASSUME IInv, CountChunk PROVE IInv'
  OBVIOUS
<1> DEFINE q == pending[seen]
<1>1. /\ worker.step = "count" /\ seen \in Replies /\ worker \in Workers
      /\ worker.chunk.size \in Nat /\ q \in Pendings /\ withholdable \in Nat
  BY DEF CountChunk, IInv, AtWork, Places, Workers, Chunks
<1>2. /\ pending' \in [Replies -> Pendings]
      /\ \A r \in 1 .. seen : pending'[r].generation = pending[r].generation
  <2>1. pending' = [pending EXCEPT ![seen] = [q EXCEPT !.flushed = @ + worker.chunk.size]]
    BY <1>1 DEF CountChunk, IInv, Places
  <2>2. /\ [q EXCEPT !.flushed = @ + worker.chunk.size] \in Pendings
        /\ [q EXCEPT !.flushed = @ + worker.chunk.size].generation = q.generation
    BY <1>1, PendingEdits
  <2> QED BY <1>1, <2>1, <2>2, CountsKeepStamps
<1>3. worker' \in Workers /\ worker'.step = "check"
  BY <1>1, IdleIsAWorker DEF CountChunk, Workers, WorkerSteps
<1>4. Places'
  BY <1>1, <1>2, <1>3 DEF CountChunk, IInv, Places
<1>5. AtWork' /\ Cutting'
  BY <1>1 DEF CountChunk, IInv, AtWork, Cutting
<1>6. Stamped'
  BY <1>2, <1>3 DEF CountChunk, IInv, Stamped, Genuine
<1>7. PendingCovers'
  <2>1. InHands' = InHands /\ Taken' = Taken /\ Uncounted = 1 /\ Uncounted' = 0
    BY <1>1, <1>3 DEF CountChunk, InHands, Taken, Uncounted
  <2>2. InHands \in Int /\ Taken \in Int /\ Len(playback) \in Int
    BY InHandsNat DEF Taken, IInv, Places
  <2> QED BY <1>1, <2>1, <2>2 DEF CountChunk, IInv, PendingCovers
<1> QED BY <1>4, <1>5, <1>6, <1>7 DEF IInv

LEMMA HandInv == IInv /\ Hand => IInv'
<1> SUFFICES ASSUME IInv, Hand PROVE IInv'
  OBVIOUS
<1>1. CASE Seal
  <2>1. worker \in Workers /\ worker.step = "seal" /\ seen \in Replies /\ seen \in Keys
    BY <1>1, NoneIsAKey DEF Seal, IInv, Places, AtWork
  <2>2. worker' \in Workers /\ worker'.step \in {"cutting", "tap"}
    BY <1>1, <2>1 DEF Seal, Workers, WorkerSteps
  <2>3. /\ cuts' \in [Cutters -> CutStates]
        /\ \A d \in Cutters : Len(cuts'[d].drained) <= Len(cuts[d].drained)
    <3>2. CASE cuts' = [cuts EXCEPT !["worker"] = [NoCut EXCEPT !.phase = "bump", !.key = seen]]
      BY <2>1, <3>2, NewCut, CutStarts DEF Cutters
    <3>3. CASE UNCHANGED cuts
      BY <3>3, CutsStay
    <3> QED BY <1>1, <3>2, <3>3 DEF Seal
  <2>4. cuts'["worker"].phase # "none" => worker'.step = "cutting"
    <3>1. [worker EXCEPT !.step = "cutting"].step = "cutting"
      BY <2>1 DEF Workers
    <3> QED BY <1>1, <2>1, <3>1 DEF Seal, IInv, Cutting
  <2> QED BY <1>1, <2>1, <2>2, <2>3, <2>4, WorkerMoves DEF Seal
<1>2. CASE Tap
  <2>1. worker' = Idle /\ worker.step = "tap" /\ arriving \in BOOLEAN /\ (arriving => seen \in Replies)
    BY <1>2, Zenon DEF Tap, IInv, Places, AtWork
  <2>2. Idle.step = "idle"
    BY DEF Idle
  <2> QED BY <1>2, <2>1, <2>2, IdleIsAWorker, CutsStay, WorkerMoves DEF Tap, IInv, Cutting
<1> QED BY <1>1, <1>2, CheckGenerationInv, PutChunkInv, CountChunkInv DEF Hand

-----------------------------------------------------------------------------
(* Cuts *)

\* The operator's cut begins wherever the worker is.
LEMMA OperatorCutInv == IInv /\ OperatorCut => IInv'
<1> SUFFICES ASSUME IInv, OperatorCut PROVE IInv'
  OBVIOUS
<1>2. cuts' = [cuts EXCEPT !["operator"] = [NoCut EXCEPT !.phase = "bump"]]
  BY DEF OperatorCut
<1>3. /\ cuts' \in [Cutters -> CutStates]
      /\ \A d \in Cutters : Len(cuts'[d].drained) <= Len(cuts[d].drained)
      /\ cuts'["worker"] = cuts["worker"]
  BY <1>2, NoneIsAKey, NewCut, CutStarts DEF Cutters
<1>4. /\ worker \in Workers /\ arriving \in BOOLEAN /\ (arriving => seen \in Replies)
  BY Zenon DEF IInv, Places, AtWork
<1>5. /\ worker.step \in {"check", "seal"} => seen \in Replies
      /\ worker.step \in {"put", "count"} => seen \in Replies /\ Genuine(worker.chunk)
  BY DEF IInv, AtWork, Stamped
<1> QED BY <1>3, <1>4, <1>5, WorkerMoves DEF OperatorCut, IInv, Cutting

LEMMA BumpInv == ASSUME NEW c \in Cutters PROVE IInv /\ Bump(c) => IInv'
<1> SUFFICES ASSUME IInv, Bump(c) PROVE IInv'
  OBVIOUS
<1>1. cuts \in [Cutters -> CutStates] /\ generation' \in Nat
  BY DEF Bump, IInv, Places
<1>2. \A d \in Cutters : cuts'[d] \in CutStates /\ cuts'[d].drained = cuts[d].drained
  BY <1>1 DEF Bump, CutStates, Phases
<1>3. cuts' \in [Cutters -> CutStates]
  BY <1>1, <1>2 DEF Bump
<1>4. Places'
  BY <1>1, <1>3 DEF Bump, IInv, Places
<1>7. Cutting'
  BY <1>1 DEF Bump, IInv, Cutting, Cutters, CutStates, Phases
<1>5. AtWork' /\ Stamped'
  BY DEF Bump, IInv, AtWork, Stamped, Genuine
<1>6. PendingCovers'
  BY <1>2 DEF Bump, IInv, PendingCovers, Uncounted, Taken, InHands, Cutters
<1> QED BY <1>4, <1>5, <1>6, <1>7 DEF IInv

LEMMA DrainOneInv == ASSUME NEW c \in Cutters PROVE IInv /\ DrainOne(c) => IInv'
<1> SUFFICES ASSUME IInv, DrainOne(c) PROVE IInv'
  OBVIOUS
<1>1. /\ cuts \in [Cutters -> CutStates] /\ playback \in Seq(Chunks)
      /\ cuts[c].drained \in Seq(Chunks)
  BY InHandsNat DEF IInv, Places
<1>2. CASE playback = <<>>
  <2>1. cuts' = [cuts EXCEPT ![c].phase = "account"] /\ UNCHANGED playback
    BY <1>2 DEF DrainOne
  <2>2. \A d \in Cutters : cuts'[d] \in CutStates /\ cuts'[d].drained = cuts[d].drained
    BY <1>1, <2>1 DEF CutStates, Phases
  <2>3. cuts' \in [Cutters -> CutStates]
    BY <1>1, <2>1, <2>2
  <2>4. Places'
    BY <2>1, <2>3 DEF DrainOne, IInv, Places
  <2>7. Cutting'
    BY <1>1, <2>1 DEF DrainOne, IInv, Cutting, Cutters, CutStates, Phases
  <2>5. AtWork' /\ Stamped'
    BY <2>1 DEF DrainOne, IInv, AtWork, Stamped, Genuine
  <2>6. PendingCovers'
    BY <2>1, <2>2 DEF DrainOne, IInv, PendingCovers, Uncounted, Taken, InHands, Cutters
  <2> QED BY <2>4, <2>5, <2>6, <2>7 DEF IInv
<1>3. CASE playback # <<>>
  <2> DEFINE d == Append(cuts[c].drained, Head(playback))
  <2>1. cuts' = [cuts EXCEPT ![c].drained = d] /\ playback' = Tail(playback)
    BY <1>1, <1>3 DEF DrainOne
  <2>2. /\ Tail(playback) \in Seq(Chunks) /\ Head(playback) \in Chunks
        /\ Len(playback) \in Nat /\ Len(Tail(playback)) = Len(playback) - 1
        /\ \A i \in 1 .. Len(Tail(playback)) : Tail(playback)[i] = playback[i + 1]
    BY <1>1, <1>3, TailOf
  <2>3. d \in Seq(Chunks) /\ Len(d) = Len(cuts[c].drained) + 1
    BY <1>1, <2>2, AppendOf
  <2> HIDE DEF d
  <2>4. \A e \in Cutters : /\ cuts'[e] \in CutStates
                           /\ cuts'[e].drained = IF e = c THEN d ELSE cuts[e].drained
    BY <1>1, <2>1, <2>3 DEF CutStates
  <2>5. cuts' \in [Cutters -> CutStates]
    BY <1>1, <2>1, <2>4
  <2>6. Places'
    BY <2>1, <2>2, <2>5 DEF DrainOne, IInv, Places
  <2>7. Stamped'
    <3>1. \A i \in 1 .. Len(playback') : Genuine(playback'[i])
      BY <2>1, <2>2 DEF IInv, Stamped
    <3> QED BY <3>1 DEF DrainOne, IInv, Stamped, Genuine
  <2>8. AtWork' /\ Cutting'
    BY <1>1, <2>1 DEF DrainOne, IInv, AtWork, Cutting, Cutters, CutStates, Phases
  <2>9. PendingCovers'
    <3>1. InHands' = InHands + 1
      <4>1. /\ Len(cuts["worker"].drained) \in Nat /\ Len(cuts["operator"].drained) \in Nat
            /\ c = "worker" \/ c = "operator"
        BY InHandsNat DEF Cutters
      <4> DEFINE w == Len(cuts["worker"].drained)
                 o == Len(cuts["operator"].drained)
                 v == Len(cuts'["worker"].drained)
                 p == Len(cuts'["operator"].drained)
      <4>2. InHands = w + o /\ InHands' = v + p
        BY DEF InHands
      <4>3. (v = w + 1 /\ p = o) \/ (v = w /\ p = o + 1)
        BY <2>3, <2>4, <4>1 DEF Cutters
      <4>4. w \in Nat /\ o \in Nat
        BY <4>1
      <4> HIDE DEF w, o, v, p
      <4> QED BY <4>2, <4>3, <4>4
    <3>2. Len(playback') = Len(playback) - 1
      BY <2>1, <2>2
    <3>3. InHands \in Int /\ Taken \in Int /\ Uncounted \in Int /\ withholdable \in Int
      BY InHandsNat DEF Taken, Uncounted, IInv, Places
    <3>4. UNCHANGED <<withholdable, Taken, Uncounted>>
      BY DEF DrainOne, Taken, Uncounted
    <3> QED BY <2>2, <3>1, <3>2, <3>3, <3>4 DEF IInv, PendingCovers
  <2> QED BY <2>6, <2>7, <2>8, <2>9 DEF IInv
<1> QED BY <1>2, <1>3

LEMMA AccountInv == ASSUME NEW c \in Cutters PROVE IInv /\ Account(c) => IInv'
<1> SUFFICES ASSUME IInv, Account(c) PROVE IInv'
  OBVIOUS
<1> DEFINE n == Len(cuts[c].drained)
<1>1. /\ cuts \in [Cutters -> CutStates] /\ cuts[c].drained \in Seq(Chunks) /\ n \in Nat
      /\ withholdable \in Nat /\ worker \in Workers /\ current \in Keys
  BY InHandsNat DEF IInv, Places
<1>2. withholdable' \in Nat /\ withholdable' >= withholdable - n
  BY <1>1, ReleasedBounds DEF Account
<1>3. NoCut \in CutStates /\ NoCut.drained = <<>>
  BY NoneIsAKey DEF NoCut, CutStates, Phases
<1>4. cuts' = [cuts EXCEPT ![c] = NoCut]
  BY DEF Account
<1>5. cuts' \in [Cutters -> CutStates]
  BY <1>1, <1>3, <1>4
<1>6. Reported(cuts[c]) \in Keys
  <2>1. cuts[c].key \in Keys
    BY <1>1 DEF CutStates
  <2>2. cuts[c].drained # <<>> => cuts[c].drained[1] \in Chunks
    BY <1>1
  <2>3. cuts[c].drained # <<>> => cuts[c].drained[1].reply \in Keys
    BY <2>2 DEF Chunks
  <2> QED BY <1>1, <2>1, <2>3 DEF Reported
<1>7. worker' \in Workers /\ (worker' = worker \/ worker'.step \in {"tap", "idle"})
  <2>1. Idle.step = "idle"
    BY DEF Idle
  <2>2. [worker EXCEPT !.step = "tap", !.about = Reported(cuts[c])] \in Workers
    BY <1>1, <1>6 DEF Workers, WorkerSteps
  <2>3. [worker EXCEPT !.step = "tap", !.about = Reported(cuts[c])].step = "tap"
    BY <1>1 DEF Workers
  <2> QED BY <1>1, <2>1, <2>2, <2>3, IdleIsAWorker DEF Account
<1>8. worker' = worker \/ worker.step = "cutting"
  <2>1. CASE c = "worker"
    BY <2>1, Zenon DEF Account, IInv, Cutting
  <2>2. CASE c # "worker"
    BY <2>2 DEF Account
  <2> QED BY <2>1, <2>2
<1>9. Places'
  BY <1>2, <1>5, <1>7 DEF Account, IInv, Places
<1>10. AtWork' /\ Stamped'
  BY <1>7 DEF Account, IInv, AtWork, Stamped, Genuine
<1>11. Cutting'
  BY <1>1, <1>3, <1>4 DEF Account, IInv, Cutting, Cutters, NoCut
<1>12. PendingCovers'
  <2>1. InHands' = InHands - n
    <3> DEFINE w == Len(cuts["worker"].drained)
               o == Len(cuts["operator"].drained)
               v == Len(cuts'["worker"].drained)
               p == Len(cuts'["operator"].drained)
    <3>1. InHands = w + o /\ InHands' = v + p
      BY DEF InHands
    <3>2. Len(<<>>) = 0
      OBVIOUS
    <3>3. (n = w /\ v = 0 /\ p = o) \/ (n = o /\ v = w /\ p = 0)
      BY <1>1, <1>3, <1>4, <3>2 DEF Cutters
    <3>4. w \in Nat /\ o \in Nat
      BY InHandsNat DEF Cutters
    <3> HIDE DEF w, o, v, p, n
    <3> QED BY <3>1, <3>3, <3>4
  <2>2. Uncounted' = Uncounted /\ Taken' = Taken /\ Uncounted \in Int /\ Taken \in Int
    BY <1>7, <1>8 DEF Account, Uncounted, Taken
  <2>3. InHands \in Int /\ Len(playback) \in Int /\ withholdable' \in Int
    BY InHandsNat, <1>2 DEF IInv, Places
  <2>4. UNCHANGED playback
    BY DEF Account
  <2> HIDE DEF n
  <2> QED BY <1>1, <1>2, <2>1, <2>2, <2>3, <2>4 DEF IInv, PendingCovers
<1> QED BY <1>9, <1>10, <1>11, <1>12 DEF IInv

-----------------------------------------------------------------------------
(* The mouth *)

LEMMA TakeInv == IInv /\ Take => IInv'
<1> SUFFICES ASSUME IInv, Take PROVE IInv'
  OBVIOUS
<1>1. /\ playback \in Seq(Chunks) /\ playback # <<>> /\ mouth.state = "idle"
      /\ mouth' = [state |-> "taken", chunk |-> Head(playback)] /\ playback' = Tail(playback)
  BY DEF Take, IInv, Places
<1>2. /\ Tail(playback) \in Seq(Chunks) /\ Head(playback) \in Chunks /\ Head(playback) = playback[1]
      /\ Len(playback) \in Nat /\ Len(Tail(playback)) = Len(playback) - 1
      /\ \A i \in 1 .. Len(Tail(playback)) : Tail(playback)[i] = playback[i + 1]
  BY <1>1, TailOf
<1>3. mouth' \in Mouths
  BY <1>1, <1>2 DEF Mouths
<1>4. Places'
  BY <1>1, <1>2, <1>3 DEF Take, IInv, Places
<1>5. AtWork' /\ Cutting'
  BY DEF Take, IInv, AtWork, Cutting
<1>6. Stamped'
  <2>1. \A i \in 1 .. Len(playback') : Genuine(playback'[i])
    BY <1>1, <1>2 DEF IInv, Stamped
  <2>2. 1 \in 1 .. Len(playback)
    <3>1. Len(playback) # 0
      BY <1>1
    <3> QED BY <1>2, <3>1
  <2>3. Genuine(mouth'.chunk)
    BY <1>1, <1>2, <2>2 DEF IInv, Stamped
  <2> QED BY <2>1, <2>3 DEF Take, IInv, Stamped, Genuine
<1>7. PendingCovers'
  <2>1. Taken = 0 /\ Taken' = 1 /\ Uncounted' = Uncounted /\ InHands' = InHands
    BY <1>1 DEF Take, Taken, Uncounted, InHands
  <2>2. Uncounted \in Int /\ InHands \in Int /\ withholdable \in Int
    BY InHandsNat DEF Uncounted, IInv, Places
  <2> QED BY <1>1, <1>2, <2>1, <2>2 DEF Take, IInv, PendingCovers
<1> QED BY <1>4, <1>5, <1>6, <1>7 DEF IInv

\* A chunk taken leaves the count whether it is adopted or skipped.
LEMMA BeginInv == IInv /\ (Adopt \/ SkipStale) => IInv'
<1> SUFFICES ASSUME IInv, Adopt \/ SkipStale PROVE IInv'
  OBVIOUS
<1>1. /\ mouth \in Mouths /\ mouth.chunk \in Chunks /\ mouth.chunk.reply \in Keys
      /\ mouth.state = "taken" /\ withholdable \in Nat
  BY DEF Adopt, SkipStale, IInv, Places, Mouths, Chunks
<1>2. withholdable' \in Nat /\ withholdable' >= withholdable - 1
  BY <1>1, ReleasedBounds DEF Adopt, SkipStale
<1>3. /\ mouth' \in Mouths /\ mouth'.state # "taken"
      /\ mouth'.state # "idle" => mouth'.chunk = mouth.chunk
  BY <1>1, IdleIsAWorker DEF Adopt, SkipStale, Mouths
<1>4. Places'
  BY <1>1, <1>2, <1>3 DEF Adopt, SkipStale, IInv, Places
<1>5. AtWork' /\ Cutting' /\ Stamped'
  BY <1>1, <1>3 DEF Adopt, SkipStale, IInv, AtWork, Cutting, Stamped, Genuine
<1>6. PendingCovers'
  <2>1. /\ Taken = 1 /\ Taken' = 0 /\ Uncounted' = Uncounted /\ InHands' = InHands
        /\ playback' = playback
    BY <1>1, <1>3 DEF Adopt, SkipStale, Taken, Uncounted, InHands
  <2>2. Uncounted \in Int /\ InHands \in Int /\ Len(playback) \in Int
    BY InHandsNat DEF Uncounted, IInv, Places
  <2> QED BY <1>1, <1>2, <2>1, <2>2 DEF IInv, PendingCovers
<1> QED BY <1>4, <1>5, <1>6 DEF IInv

LEMMA PlayReturnsInv == ASSUME NEW ok \in BOOLEAN PROVE IInv /\ PlayReturns(ok) => IInv'
<1> SUFFICES ASSUME IInv, PlayReturns(ok) PROVE IInv'
  OBVIOUS
<1>1. mouth' \in Mouths /\ mouth'.state = "idle" /\ mouth.state = "playing"
  BY IdleIsAWorker DEF PlayReturns, Mouths
<1>2. Places'
  BY <1>1 DEF PlayReturns, IInv, Places
<1>3. AtWork' /\ Cutting' /\ Stamped'
  BY <1>1 DEF PlayReturns, IInv, AtWork, Cutting, Stamped, Genuine
<1>4. PendingCovers'
  BY <1>1 DEF PlayReturns, IInv, PendingCovers, Uncounted, Taken, InHands
<1> QED BY <1>2, <1>3, <1>4 DEF IInv

-----------------------------------------------------------------------------
(* Theorems *)

LEMMA Stutters == IInv /\ UNCHANGED vars => IInv'
<1> SUFFICES ASSUME IInv, UNCHANGED vars PROVE IInv'
  OBVIOUS
<1>1. Places'
  BY DEF vars, IInv, Places
<1>2. AtWork' /\ Cutting'
  BY DEF vars, IInv, AtWork, Cutting
<1>3. Stamped'
  BY DEF vars, IInv, Stamped, Genuine
<1>4. PendingCovers'
  BY DEF vars, IInv, PendingCovers, Uncounted, Taken, InHands
<1> QED BY <1>1, <1>2, <1>3, <1>4 DEF IInv

\* The invariant behind both theorems: where every chunk may be and which
\* generation it carries (the queue, the worker's hands, the mouth's).
THEOREM Inductive == Spec => []IInv
<1>1. IInv /\ [Next]_vars => IInv'
  <2> SUFFICES ASSUME IInv, [Next]_vars PROVE IInv'
    OBVIOUS
  <2>1. CASE Wire
    BY <2>1, WireInv
  <2>2. CASE Hand
    BY <2>2, HandInv
  <2>3. CASE Mouth
    BY <2>3, TakeInv, BeginInv, PlayReturnsInv DEF Mouth
  <2>4. CASE OperatorCut
    BY <2>4, OperatorCutInv
  <2>5. CASE \E c \in Cutters : Cut(c)
    BY <2>5, BumpInv, DrainOneInv, AccountInv DEF Cut
  <2>6. CASE UNCHANGED vars
    BY <2>6, Stutters
  <2> QED BY <2>1, <2>2, <2>3, <2>4, <2>5, <2>6 DEF Next
<1> QED BY Initially, <1>1, PTL DEF Spec

\* playback_pending covers everything a cut could withhold, in every interleaving of
\* worker, mouth and cutters and for every queue bound (_withholdable).
THEOREM CountCovers == Spec => []PendingCovers
<1>1. IInv => PendingCovers
  BY DEF IInv
<1> QED BY Inductive, <1>1, PTL

\* No chunk of a reply born before a cut begins to play after it, however many cuts
\* there are and wherever the chunk was (_begin_chunk against cancel_playback).
THEOREM CutsSilence == Spec => CutSilences
<1>1. IInv /\ [Next]_vars =>
        [\A r \in Replies : (mouth.chunk.reply = r /\ Begins(mouth.chunk))
                                => pending[r].generation = generation]_vars
  <2> SUFFICES ASSUME IInv, Next, NEW r \in Replies, mouth.chunk.reply = r, Begins(mouth.chunk)
               PROVE  pending[r].generation = generation
    BY DEF Begins
  <2>1. mouth.state = "taken" /\ mouth'.state = "playing"
    BY DEF Begins
  <2>2. mouth.chunk.generation = pending[r].generation
    BY <2>1 DEF IInv, Stamped, Genuine
  <2>3. CASE Adopt
    BY <2>2, <2>3 DEF Adopt
  <2>4. CASE Take \/ SkipStale \/ \E ok \in BOOLEAN : PlayReturns(ok)
    BY <2>1, <2>4 DEF Take, SkipStale, PlayReturns
  <2>5. CASE Wire \/ Hand \/ OperatorCut \/ \E c \in Cutters : Cut(c)
    <3>1. UNCHANGED mouth
      BY <2>5 DEF Wire, Hand, Cut, ResponseCreated, AudioDelta, ResponseDone, ResponseInterrupted,
         SpeechStarted, Reconnect, CheckGeneration, PutChunk, CountChunk, Seal, Tap, OperatorCut,
         Bump, DrainOne, Account
    <3> QED BY <2>1, <3>1
  <2> QED BY <2>3, <2>4, <2>5 DEF Next, Mouth
<1> QED BY Inductive, <1>1, PTL DEF Spec, CutSilences

-----------------------------------------------------------------------------
(* Sums over a sequence *)

\* A nonempty set of natural numbers has a smallest one: what is said of every
\* position of a sequence is shown by looking at the first where it would fail.
LEMMA SmallestNat ==
    ASSUME NEW T, T \in SUBSET Nat, T # {}
    PROVE  \E m \in T : \A k \in T : m <= k
<1>1. PICK m \in T : \A k \in T : <<k, m>> \notin OpToRel(<, Nat)
  BY WFMin, NatLessThanWellFounded, Zenon
<1>2. \A k \in T : ~(k < m)
  BY <1>1, Zenon DEF OpToRel
<1>3. \A k \in T : m <= k
  BY <1>2
<1> QED BY <1>3

Weight(k, x) == IF x.reply = k THEN x.size ELSE 0

\* The running sums of reply k over the first n chunks of s.
Sums(f, k, s, n) ==
    f = [i \in 0 .. n |-> IF i = 0 THEN 0 ELSE f[i - 1] + Weight(k, s[i])]

LEMMA SumsExist ==
    ASSUME NEW k, NEW s, NEW n \in Nat
    PROVE  \E f : Sums(f, k, s, n)
<1> DEFINE Bad == {m \in Nat : ~\E f : Sums(f, k, s, m)}
<1> SUFFICES ASSUME Bad # {} PROVE FALSE
  OBVIOUS
<1>1. PICK m \in Bad : \A j \in Bad : m <= j
  <2>1. Bad \in SUBSET Nat
    OBVIOUS
  <2> HIDE DEF Bad
  <2> QED BY <2>1, SmallestNat
<1>2. m \in Nat /\ ~\E f : Sums(f, k, s, m)
  BY <1>1
<1>3. CASE m = 0
  <2>1. Sums([i \in 0 .. 0 |-> 0], k, s, m)
    BY <1>3 DEF Sums
  <2> QED BY <1>2, <2>1
<1>4. CASE m # 0
  <2>1. m - 1 \in Nat /\ m - 1 \notin Bad
    BY <1>1, <1>2, <1>4
  <2>2. PICK f : Sums(f, k, s, m - 1)
    BY <2>1
  <2>3. \A i \in 0 .. m - 1 : f[i] = IF i = 0 THEN 0 ELSE f[i - 1] + Weight(k, s[i])
    BY <2>2 DEF Sums
  <2> DEFINE g == [i \in 0 .. m |-> IF i = m THEN f[m - 1] + Weight(k, s[m]) ELSE f[i]]
  <2>4. \A i \in 0 .. m : g[i] = IF i = 0 THEN 0 ELSE g[i - 1] + Weight(k, s[i])
    <3> SUFFICES ASSUME NEW i \in 0 .. m
                 PROVE  g[i] = IF i = 0 THEN 0 ELSE g[i - 1] + Weight(k, s[i])
      OBVIOUS
    <3>1. CASE i = m
      <4>1. i - 1 \in 0 .. m /\ i - 1 # m /\ i # 0
        BY <1>2, <1>4, <3>1
      <4>2. g[i - 1] = f[m - 1]
        BY <3>1, <4>1
      <4> QED BY <3>1, <4>1, <4>2
    <3>2. CASE i # m /\ i # 0
      <4>1. i - 1 \in 0 .. m /\ i - 1 # m /\ i \in 0 .. m - 1
        BY <1>2, <3>2
      <4>2. g[i - 1] = f[i - 1] /\ g[i] = f[i]
        BY <3>2, <4>1
      <4> QED BY <2>3, <3>2, <4>1, <4>2
    <3>3. CASE i = 0 /\ i # m
      <4>1. i \in 0 .. m - 1
        BY <1>2, <3>3
      <4> QED BY <2>3, <3>3, <4>1
    <3> QED BY <1>4, <3>1, <3>2, <3>3
  <2>5. DOMAIN g = 0 .. m /\ g = [i \in 0 .. m |-> g[i]]
    OBVIOUS
  <2>6. PICK h : h = g
    OBVIOUS
  <2>7. Sums(h, k, s, m)
    <3> HIDE DEF g
    <3> QED BY <2>4, <2>5, <2>6 DEF Sums
  <2> QED BY <1>2, <2>7
<1> QED BY <1>3, <1>4

\* UnitsOf is the last of the running sums.
LEMMA UnitsAreSums ==
    ASSUME NEW k, NEW s, Len(s) \in Nat
    PROVE  \E f : Sums(f, k, s, Len(s)) /\ UnitsOf(k, s) = f[Len(s)]
<1> DEFINE c == CHOOSE f : f = [i \in 0 .. Len(s) |-> IF i = 0 THEN 0 ELSE f[i - 1] + (IF s[i].reply = k THEN s[i].size ELSE 0)]
<1>1. PICK f : Sums(f, k, s, Len(s))
  BY SumsExist
<1>2. \E h : h = [i \in 0 .. Len(s) |-> IF i = 0 THEN 0 ELSE h[i - 1] + (IF s[i].reply = k THEN s[i].size ELSE 0)]
  BY <1>1, Zenon DEF Sums, Weight
<1>3. Sums(c, k, s, Len(s))
  BY <1>2, Zenon DEF Sums, Weight
<1>4. UnitsOf(k, s) = c[Len(s)]
  BY DEF UnitsOf
<1> HIDE DEF c
<1> QED BY <1>3, <1>4

LEMMA SumsNat ==
    ASSUME NEW k, NEW s, NEW n \in Nat, NEW f, Sums(f, k, s, n), \A i \in 1 .. n : Weight(k, s[i]) \in Nat
    PROVE  \A i \in 0 .. n : f[i] \in Nat
<1> DEFINE Bad == {i \in 0 .. n : f[i] \notin Nat}
<1> SUFFICES ASSUME Bad # {} PROVE FALSE
  OBVIOUS
<1>1. PICK m \in Bad : \A j \in Bad : m <= j
  <2>1. Bad \in SUBSET Nat
    OBVIOUS
  <2> HIDE DEF Bad
  <2> QED BY <2>1, SmallestNat
<1>2. m \in 0 .. n /\ f[m] \notin Nat
  BY <1>1
<1>3. f[m] = IF m = 0 THEN 0 ELSE f[m - 1] + Weight(k, s[m])
  BY <1>2, Zenon DEF Sums
<1>4. m # 0 /\ m - 1 \in 0 .. n /\ m \in 1 .. n
  BY <1>2, <1>3
<1>5. m - 1 \notin Bad
  BY <1>1, <1>4
<1>6. f[m - 1] \in Nat /\ Weight(k, s[m]) \in Nat
  BY <1>4, <1>5
<1> QED BY <1>2, <1>3, <1>4, <1>6

\* Sums of the same weights run alike, wherever in their sequences these begin.
Alike(f, g, k, s, t, n, m, o) ==
    /\ n \in Nat /\ m \in Nat /\ o \in Nat /\ n + o <= m
    /\ Sums(f, k, s, n) /\ Sums(g, k, t, m)
    /\ \A i \in 1 .. n : Weight(k, t[i + o]) = Weight(k, s[i]) /\ Weight(k, s[i]) \in Nat
    /\ g[o] \in Nat /\ \A i \in 0 .. n : f[i] \in Nat

LEMMA SumsAgree ==
    ASSUME NEW f, NEW g, NEW k, NEW s, NEW t, NEW n, NEW m, NEW o, Alike(f, g, k, s, t, n, m, o)
    PROVE  \A i \in 0 .. n : g[i + o] = g[o] + f[i]
<1> USE DEF Alike
<1> DEFINE Bad == {i \in 0 .. n : g[i + o] # g[o] + f[i]}
<1> SUFFICES ASSUME Bad # {} PROVE FALSE
  OBVIOUS
<1>1. PICK j \in Bad : \A i \in Bad : j <= i
  <2>1. Bad \in SUBSET Nat
    OBVIOUS
  <2> HIDE DEF Bad
  <2> QED BY <2>1, SmallestNat
<1>2. j \in 0 .. n /\ g[j + o] # g[o] + f[j]
  BY <1>1
<1>3. f[0] = 0
  <2>1. 0 \in 0 .. n
    OBVIOUS
  <2> QED BY <2>1, Zenon DEF Sums
<1>4. j # 0
  BY <1>2, <1>3
<1>5. /\ j - 1 \in 0 .. n /\ j \in 1 .. n
      /\ j + o \in 0 .. m /\ j + o # 0 /\ (j - 1) + o = (j + o) - 1
  BY <1>2, <1>4
<1>6. g[(j - 1) + o] = g[o] + f[j - 1]
  <2>1. j - 1 \notin Bad
    BY <1>1, <1>5
  <2> QED BY <1>5, <2>1
<1>7. f[j] = f[j - 1] + Weight(k, s[j])
  BY <1>4, <1>5, Zenon DEF Sums
<1>8. g[j + o] = g[(j + o) - 1] + Weight(k, t[j + o])
  BY <1>5, Zenon DEF Sums
<1>9. Weight(k, t[j + o]) = Weight(k, s[j]) /\ Weight(k, s[j]) \in Nat /\ f[j - 1] \in Nat
  BY <1>5
<1> QED BY <1>2, <1>5, <1>6, <1>7, <1>8, <1>9

\* What a sum over one chunk, no chunk, and one chunk more comes to.
LEMMA WeightNat == ASSUME NEW k, NEW x \in Chunks PROVE Weight(k, x) \in Nat
BY DEF Weight, Chunks

LEMMA ChunkWeights ==
    ASSUME NEW k, NEW s \in Seq(Chunks)
    PROVE  Len(s) \in Nat /\ \A i \in 1 .. Len(s) : Weight(k, s[i]) \in Nat
<1>1. Len(s) \in Nat /\ \A i \in 1 .. Len(s) : s[i] \in Chunks
  OBVIOUS
<1> QED BY <1>1, WeightNat

LEMMA UnitsNat == ASSUME NEW k, NEW s \in Seq(Chunks) PROVE UnitsOf(k, s) \in Nat
<1>1. Len(s) \in Nat /\ Len(s) \in 0 .. Len(s)
  BY ChunkWeights
<1> QED BY <1>1, ChunkWeights, UnitsAreSums, SumsNat

LEMMA UnitsOfNone == \A k : UnitsOf(k, <<>>) = 0
<1> SUFFICES ASSUME NEW k PROVE UnitsOf(k, <<>>) = 0
  OBVIOUS
<1>1. Len(<<>>) = 0 /\ 0 \in 0 .. 0
  OBVIOUS
<1>2. PICK f : Sums(f, k, <<>>, 0) /\ UnitsOf(k, <<>>) = f[0]
  BY <1>1, UnitsAreSums
<1> QED BY <1>1, <1>2, Zenon DEF Sums

LEMMA UnitsAppend ==
    ASSUME NEW k, NEW s \in Seq(Chunks), NEW x \in Chunks
    PROVE  UnitsOf(k, Append(s, x)) = UnitsOf(k, s) + Weight(k, x)
<1> DEFINE n == Len(s)
<1>1. PICK t : t = Append(s, x)
  OBVIOUS
<1>2. /\ n \in Nat /\ t \in Seq(Chunks) /\ Len(t) = n + 1 /\ t[n + 1] = x
      /\ \A i \in 1 .. n : t[i] = s[i]
  BY <1>1, AppendProperties
<1>3. PICK f : Sums(f, k, s, n) /\ UnitsOf(k, s) = f[n]
  BY <1>2, UnitsAreSums
<1>4. PICK g : Sums(g, k, t, n + 1) /\ UnitsOf(k, t) = g[n + 1]
  <2>1. Len(t) \in Nat
    BY <1>2
  <2>2. \E g : Sums(g, k, t, Len(t)) /\ UnitsOf(k, t) = g[Len(t)]
    BY <2>1, UnitsAreSums
  <2> QED BY <1>2, <2>2
<1> HIDE DEF n
<1>5. /\ \A i \in 1 .. n : Weight(k, s[i]) \in Nat
      /\ \A i \in 0 .. n : f[i] \in Nat
  <2>1. \A i \in 1 .. n : Weight(k, s[i]) \in Nat
    BY ChunkWeights DEF n
  <2> QED BY <1>2, <1>3, <2>1, SumsNat
<1>6. g[0] = 0
  <2>1. 0 \in 0 .. n + 1
    BY <1>2
  <2> QED BY <1>4, <2>1, Zenon DEF Sums
<1>7. \A i \in 0 .. n : g[i + 0] = g[0] + f[i]
  <2>1. \A i \in 1 .. n : i + 0 = i
    BY <1>2
  <2>2. \A i \in 1 .. n : Weight(k, t[i + 0]) = Weight(k, s[i]) /\ Weight(k, s[i]) \in Nat
    BY <1>2, <1>5, <2>1
  <2>3. n + 0 <= n + 1 /\ 0 \in Nat /\ n + 1 \in Nat /\ g[0] \in Nat
    BY <1>2, <1>6
  <2>4. Alike(f, g, k, s, t, n, n + 1, 0)
    BY <1>2, <1>3, <1>4, <1>5, <2>2, <2>3 DEF Alike
  <2> QED BY <2>4, SumsAgree
<1>8. g[n] = f[n] /\ f[n] \in Nat
  <2>1. n \in 0 .. n /\ n + 0 = n
    BY <1>2
  <2>2. g[n + 0] = g[0] + f[n] /\ f[n] \in Nat
    BY <1>5, <1>7, <2>1
  <2> QED BY <1>6, <2>1, <2>2
<1>9. g[n + 1] = g[n] + Weight(k, t[n + 1])
  <2>1. n + 1 \in 0 .. n + 1 /\ n + 1 # 0 /\ (n + 1) - 1 = n
    BY <1>2
  <2> QED BY <1>4, <2>1, Zenon DEF Sums
<1> QED BY <1>1, <1>2, <1>3, <1>4, <1>8, <1>9

LEMMA UnitsTail ==
    ASSUME NEW k, NEW s \in Seq(Chunks), s # <<>>
    PROVE  UnitsOf(k, s) = Weight(k, Head(s)) + UnitsOf(k, Tail(s))
<1> DEFINE n == Len(Tail(s))
<1>1. PICK t : t = Tail(s)
  OBVIOUS
<1>2. /\ n \in Nat /\ t \in Seq(Chunks) /\ Len(t) = n /\ Len(s) = n + 1 /\ s[1] = Head(s)
      /\ \A i \in 1 .. n : s[i + 1] = t[i]
  <2>1. /\ t \in Seq(Chunks) /\ Len(t) = Len(s) - 1 /\ Len(t) \in Nat /\ Len(s) \in Nat
        /\ \A i \in 1 .. Len(t) : t[i] = s[i + 1]
    BY <1>1, HeadTailProperties
  <2> QED BY <1>1, <2>1
<1>3. PICK f : Sums(f, k, t, n) /\ UnitsOf(k, t) = f[n]
  BY <1>2, UnitsAreSums
<1>4. PICK g : Sums(g, k, s, n + 1) /\ UnitsOf(k, s) = g[n + 1]
  <2>1. Len(s) \in Nat
    OBVIOUS
  <2>2. \E g : Sums(g, k, s, Len(s)) /\ UnitsOf(k, s) = g[Len(s)]
    BY <2>1, UnitsAreSums
  <2> QED BY <1>2, <2>2
<1> HIDE DEF n
<1>5. /\ \A i \in 1 .. n : Weight(k, t[i]) \in Nat
      /\ \A i \in 0 .. n : f[i] \in Nat
  <2>1. \A i \in 1 .. n : Weight(k, t[i]) \in Nat
    BY <1>2, ChunkWeights
  <2> QED BY <1>2, <1>3, <2>1, SumsNat
<1>6. g[1] = Weight(k, Head(s)) /\ Weight(k, Head(s)) \in Nat
  <2>1. 0 \in 0 .. n + 1 /\ 1 \in 0 .. n + 1 /\ 1 - 1 = 0 /\ 1 # 0
    BY <1>2
  <2>2. g[0] = 0 /\ g[1] = g[1 - 1] + Weight(k, s[1])
    BY <1>4, <2>1, Zenon DEF Sums
  <2>3. Weight(k, s[1]) \in Nat
    <3>1. 1 \in 1 .. Len(s)
      BY <1>2
    <3> QED BY <3>1, ChunkWeights
  <2> QED BY <1>2, <2>2, <2>3
<1>7. \A i \in 0 .. n : g[i + 1] = g[1] + f[i]
  <2>2. \A i \in 1 .. n : Weight(k, s[i + 1]) = Weight(k, t[i]) /\ Weight(k, t[i]) \in Nat
    BY <1>2, <1>5
  <2>3. n + 1 <= n + 1 /\ 1 \in Nat /\ n + 1 \in Nat /\ g[1] \in Nat
    BY <1>2, <1>6
  <2>4. Alike(f, g, k, t, s, n, n + 1, 1)
    BY <1>2, <1>3, <1>4, <1>5, <2>2, <2>3 DEF Alike
  <2> QED BY <2>4, SumsAgree
<1>8. n \in 0 .. n
  BY <1>2
<1> QED BY <1>1, <1>3, <1>4, <1>6, <1>7, <1>8

-----------------------------------------------------------------------------
(* The ledgers *)

\* What of reply r is queued and not counted yet, taken and not begun, in a cut's hands.
Counting(r) == IF worker.step = "count" /\ seen = r THEN worker.chunk.size ELSE 0
Held(r) == IF mouth.state = "taken" /\ mouth.chunk.reply = r THEN mouth.chunk.size ELSE 0
Drained(r) == UnitsOf(r, cuts["worker"].drained) + UnitsOf(r, cuts["operator"].drained)

\* What of reply r has left the queue.
Gone(r) == ledgers[r].played + ledgers[r].inflight + ledgers[r].skipped + Held(r) + Drained(r)

Balanced(r) ==
    /\ ledgers[r].inflight = InFlight(r)
    /\ ledgers[r].queued + Counting(r) = Gone(r) + UnitsOf(r, playback)

\* What the worker has in hand is the next of the reply that is arriving.
AtHand ==
    worker.step \in {"put", "count"}
        => worker.chunk.reply = seen /\ worker.chunk.at = pending[seen].flushed

Ledgered ==
    /\ ledgers \in [Keys -> Ledgers]
    /\ spoken \in [Replies -> [whole : Nat, part : Nat]]
    /\ Len(playback) <= Capacity

\* A cut has something in its hands only between its bump and its account.
Emptied == \A c \in Cutters : cuts[c].phase \notin {"drain", "account"} => cuts[c].drained = <<>>

BooksInv == Ledgered /\ AtHand /\ Emptied /\ \A r \in Replies : Balanced(r)

LEMMA Numbers ==
    ASSUME IInv, ledgers \in [Keys -> Ledgers], NEW r \in Keys
    PROVE  /\ ledgers[r] \in Ledgers
           /\ ledgers[r].queued \in Nat /\ ledgers[r].played \in Nat
           /\ ledgers[r].inflight \in Nat /\ ledgers[r].skipped \in Nat
           /\ Counting(r) \in Nat /\ Held(r) \in Nat /\ InFlight(r) \in Nat
           /\ UnitsOf(r, playback) \in Nat
           /\ UnitsOf(r, cuts["worker"].drained) \in Nat
           /\ UnitsOf(r, cuts["operator"].drained) \in Nat
           /\ Drained(r) \in Nat /\ Gone(r) \in Nat
<1>1. ledgers[r] \in Ledgers
  OBVIOUS
<1>2. /\ ledgers[r].queued \in Nat /\ ledgers[r].played \in Nat
      /\ ledgers[r].inflight \in Nat /\ ledgers[r].skipped \in Nat
  BY <1>1 DEF Ledgers
<1>3. Counting(r) \in Nat /\ Held(r) \in Nat /\ InFlight(r) \in Nat
  BY DEF IInv, Places, Workers, Mouths, Chunks, Counting, Held, InFlight
<1>4. UnitsOf(r, playback) \in Nat
  BY UnitsNat DEF IInv, Places
<1>5. "worker" \in Cutters /\ "operator" \in Cutters
  BY DEF Cutters
<1>6. UnitsOf(r, cuts["worker"].drained) \in Nat /\ UnitsOf(r, cuts["operator"].drained) \in Nat
  BY <1>5, InHandsNat, UnitsNat
<1>7. Drained(r) \in Nat
  BY <1>6 DEF Drained
<1>8. Gone(r) \in Nat
  BY <1>2, <1>3, <1>7 DEF Gone
<1> QED BY <1>1, <1>2, <1>3, <1>4, <1>6, <1>7, <1>8

\* Steps that move no audio.
LEMMA BooksStay ==
    ASSUME IInv, BooksInv, ledgers' \in [Keys -> Ledgers],
           \A r \in Replies : /\ ledgers'[r].queued = ledgers[r].queued
                              /\ ledgers'[r].played = ledgers[r].played
                              /\ ledgers'[r].inflight = ledgers[r].inflight
                              /\ ledgers'[r].skipped = ledgers[r].skipped,
           \A c \in Cutters : cuts'[c].drained = cuts[c].drained,
           UNCHANGED <<playback, mouth>>,
           (worker.step # "count" /\ worker'.step # "count") \/ UNCHANGED <<worker, seen>>
    PROVE  \A r \in Replies : Balanced(r)' /\ Gone(r)' = Gone(r)
<1> SUFFICES ASSUME NEW r \in Replies PROVE Balanced(r)' /\ Gone(r)' = Gone(r)
  OBVIOUS
<1>1. Counting(r)' = Counting(r)
  BY DEF Counting
<1>2. Held(r)' = Held(r) /\ InFlight(r)' = InFlight(r)
  BY DEF Held, InFlight
<1>3. Drained(r)' = Drained(r)
  BY DEF Drained, Cutters
<1>4. Gone(r)' = Gone(r)
  BY <1>2, <1>3 DEF Gone
<1> QED BY <1>1, <1>2, <1>4 DEF Balanced, BooksInv

LEMMA PutChunkBooks ==
    ASSUME IInv, IInv', BooksInv, PutChunk, Len(playback) < Capacity
    PROVE  \A r \in Replies : Balanced(r)' /\ Gone(r)' = Gone(r)
<1> SUFFICES ASSUME NEW r \in Replies PROVE Balanced(r)' /\ Gone(r)' = Gone(r)
  OBVIOUS
<1>1. /\ worker.step = "put" /\ worker \in Workers /\ worker.chunk \in Chunks /\ worker.chunk.reply = seen
      /\ playback \in Seq(Chunks) /\ playback' = Append(playback, worker.chunk)
      /\ worker' = [worker EXCEPT !.step = "count"] /\ seen' = seen
      /\ UNCHANGED <<ledgers, cuts, mouth>>
  BY DEF PutChunk, IInv, Places, Workers, BooksInv, AtHand
<1>2. Counting(r) = 0 /\ Counting(r)' = Weight(r, worker.chunk)
  BY <1>1 DEF Counting, Weight, Workers
<1>3. UnitsOf(r, playback') = UnitsOf(r, playback) + Weight(r, worker.chunk)
  BY <1>1, UnitsAppend
<1>4. Gone(r)' = Gone(r) /\ InFlight(r)' = InFlight(r)
  BY <1>1 DEF Gone, Held, Drained, InFlight
<1>5. /\ ledgers[r].queued + Counting(r) = Gone(r) + UnitsOf(r, playback)
      /\ ledgers[r].inflight = InFlight(r)
  BY DEF BooksInv, Balanced
<1>6. /\ Gone(r) \in Nat /\ UnitsOf(r, playback) \in Nat /\ ledgers[r].queued \in Nat
      /\ Weight(r, worker.chunk) \in Nat
  BY <1>1, NoneIsAKey, Numbers, WeightNat DEF BooksInv, Ledgered
<1>7. ledgers[r].queued + Weight(r, worker.chunk)
        = Gone(r) + (UnitsOf(r, playback) + Weight(r, worker.chunk))
  BY <1>2, <1>5, <1>6
<1> QED BY <1>1, <1>2, <1>3, <1>4, <1>5, <1>7 DEF Balanced

LEMMA CountChunkBooks ==
    ASSUME IInv, BooksInv, CountChunk
    PROVE  /\ \A r \in Replies : Balanced(r)' /\ Gone(r)' = Gone(r)
           /\ ledgers' \in [Keys -> Ledgers]
<1>1. /\ worker.step = "count" /\ worker \in Workers /\ worker.chunk.size \in Nat
      /\ worker' = [worker EXCEPT !.step = "check", !.chunk = NoChunk] /\ seen' = seen
      /\ UNCHANGED <<playback, cuts, mouth>> /\ seen \in Keys
      /\ ledgers \in [Keys -> Ledgers]
      /\ ledgers' = [ledgers EXCEPT ![seen].queued = @ + worker.chunk.size]
  BY NoneIsAKey DEF CountChunk, IInv, Places, AtWork, Workers, Chunks, BooksInv, Ledgered
<1>2. ledgers' \in [Keys -> Ledgers]
  BY <1>1 DEF Ledgers
<1>3. ASSUME NEW r \in Replies PROVE Balanced(r)' /\ Gone(r)' = Gone(r)
  <2>1. r \in Keys /\ worker'.step = "check"
    BY <1>1, NoneIsAKey DEF Workers
  <2>2. /\ ledgers'[r].queued = ledgers[r].queued + Counting(r)
        /\ ledgers'[r].played = ledgers[r].played /\ ledgers'[r].inflight = ledgers[r].inflight
        /\ ledgers'[r].skipped = ledgers[r].skipped
    <3>1. ledgers[r].queued \in Nat
      BY <1>1, <2>1 DEF Ledgers
    <3> QED BY <1>1, <2>1, <3>1 DEF Ledgers, Counting
  <2>3. Counting(r)' = 0
    BY <2>1 DEF Counting
  <2>4. Gone(r)' = Gone(r) /\ InFlight(r)' = InFlight(r)
    BY <1>1, <2>2 DEF Gone, Held, Drained, InFlight
  <2>5. /\ ledgers[r].queued + Counting(r) = Gone(r) + UnitsOf(r, playback)
        /\ ledgers[r].inflight = InFlight(r)
    BY DEF BooksInv, Balanced
  <2>6. ledgers[r].queued \in Nat /\ Counting(r) \in Nat
    BY <1>1, <2>1, Numbers
  <2>7. ledgers'[r].queued + 0 = Gone(r) + UnitsOf(r, playback)
    BY <2>2, <2>5, <2>6
  <2> QED BY <1>1, <2>2, <2>3, <2>4, <2>5, <2>7 DEF Balanced
<1> QED BY <1>2, <1>3

\* The head of the queue goes to the mouth, or into a cut's hands.
LEMMA OutOfQueue ==
    ASSUME IInv, BooksInv, playback # <<>>, playback' = Tail(playback),
           UNCHANGED <<ledgers, worker, seen>>,
           \A r \in Replies : /\ InFlight(r)' = InFlight(r)
                              /\ Held(r)' + Drained(r)' = Held(r) + Drained(r) + Weight(r, Head(playback)),
           \A r \in Replies : Held(r)' \in Nat /\ Drained(r)' \in Nat
    PROVE  \A r \in Replies : Balanced(r)' /\ Gone(r)' = Gone(r) + Weight(r, Head(playback))
<1> SUFFICES ASSUME NEW r \in Replies
             PROVE  Balanced(r)' /\ Gone(r)' = Gone(r) + Weight(r, Head(playback))
  OBVIOUS
<1>1. PICK h, d : h = Held(r)' /\ d = Drained(r)'
  OBVIOUS
<1>2. /\ h \in Nat /\ d \in Nat /\ h + d = Held(r) + Drained(r) + Weight(r, Head(playback))
  BY <1>1
<1>3. /\ ledgers[r].queued \in Nat /\ ledgers[r].played \in Nat /\ ledgers[r].inflight \in Nat
      /\ ledgers[r].skipped \in Nat /\ Held(r) \in Nat /\ Drained(r) \in Nat /\ Gone(r) \in Nat
      /\ Counting(r) \in Nat
  BY NoneIsAKey, Numbers DEF BooksInv, Ledgered
<1>4. /\ playback \in Seq(Chunks) /\ Head(playback) \in Chunks /\ Tail(playback) \in Seq(Chunks)
  BY TailOf DEF IInv, Places
<1>5. /\ UnitsOf(r, playback) = Weight(r, Head(playback)) + UnitsOf(r, Tail(playback))
      /\ Weight(r, Head(playback)) \in Nat /\ UnitsOf(r, Tail(playback)) \in Nat
  BY <1>4, UnitsTail, UnitsNat, WeightNat
<1>6. Gone(r)' = ledgers[r].played + ledgers[r].inflight + ledgers[r].skipped + h + d
  BY <1>1 DEF Gone
<1>7. Gone(r)' = Gone(r) + Weight(r, Head(playback))
  <2>1. PICK p, i, s, w, a, b :
            /\ p = ledgers[r].played /\ i = ledgers[r].inflight /\ s = ledgers[r].skipped
            /\ w = Weight(r, Head(playback)) /\ a = Held(r) /\ b = Drained(r)
    OBVIOUS
  <2>2. Gone(r) = p + i + s + a + b /\ Gone(r)' = p + i + s + h + d
    BY <1>6, <2>1 DEF Gone
  <2>3. p \in Nat /\ i \in Nat /\ s \in Nat /\ w \in Nat /\ a \in Nat /\ b \in Nat /\ h + d = a + b + w
    BY <1>2, <1>3, <1>5, <2>1
  <2>4. p + i + s + h + d = (p + i + s + a + b) + w
    BY <1>2, <2>3
  <2> QED BY <2>1, <2>2, <2>4
<1>8. Counting(r)' = Counting(r)
  BY DEF Counting
<1>9. /\ ledgers[r].queued + Counting(r) = Gone(r) + UnitsOf(r, playback)
      /\ ledgers[r].inflight = InFlight(r)
  BY DEF BooksInv, Balanced
<1>10. ledgers[r].queued + Counting(r) = (Gone(r) + Weight(r, Head(playback))) + UnitsOf(r, Tail(playback))
  BY <1>3, <1>5, <1>9
<1> QED BY <1>7, <1>8, <1>9, <1>10 DEF Balanced

LEMMA TakeBooks ==
    ASSUME IInv, IInv', BooksInv, Take
    PROVE  \A r \in Replies : Balanced(r)' /\ Gone(r)' = Gone(r) + Weight(r, Head(playback))
<1>1. /\ playback # <<>> /\ playback' = Tail(playback) /\ mouth.state = "idle"
      /\ mouth' = [state |-> "taken", chunk |-> Head(playback)]
      /\ UNCHANGED <<ledgers, worker, seen, cuts>> /\ Head(playback) \in Chunks
  BY TailOf DEF Take, IInv, Places
<1>2. ASSUME NEW r \in Replies
      PROVE  /\ InFlight(r)' = InFlight(r)
             /\ Held(r)' + Drained(r)' = Held(r) + Drained(r) + Weight(r, Head(playback))
             /\ Held(r)' \in Nat /\ Drained(r)' \in Nat
  <2>1. InFlight(r) = 0 /\ InFlight(r)' = 0 /\ Held(r) = 0 /\ Held(r)' = Weight(r, Head(playback))
    BY <1>1 DEF InFlight, Held, Weight
  <2>2. Drained(r)' = Drained(r) /\ Drained(r) \in Nat /\ Weight(r, Head(playback)) \in Nat
    BY <1>1, NoneIsAKey, Numbers, WeightNat DEF Drained, BooksInv, Ledgered
  <2> QED BY <2>1, <2>2
<1> QED BY <1>1, <1>2, OutOfQueue

LEMMA DrainOneBooks ==
    ASSUME IInv, BooksInv, NEW c \in Cutters, DrainOne(c), playback # <<>>
    PROVE  \A r \in Replies : Balanced(r)' /\ Gone(r)' = Gone(r) + Weight(r, Head(playback))
<1>1. /\ playback' = Tail(playback) /\ UNCHANGED <<ledgers, worker, seen, mouth>>
      /\ Head(playback) \in Chunks /\ cuts \in [Cutters -> CutStates]
      /\ cuts' = [cuts EXCEPT ![c].drained = Append(@, Head(playback))]
      /\ \A e \in Cutters : cuts[e].drained \in Seq(Chunks)
  BY TailOf, InHandsNat DEF DrainOne, IInv, Places
<1>2. \A e \in Cutters : cuts'[e].drained = IF e = c THEN Append(cuts[c].drained, Head(playback)) ELSE cuts[e].drained
  BY <1>1 DEF CutStates
<1>3. ASSUME NEW r \in Replies
      PROVE  /\ InFlight(r)' = InFlight(r)
             /\ Held(r)' + Drained(r)' = Held(r) + Drained(r) + Weight(r, Head(playback))
             /\ Held(r)' \in Nat /\ Drained(r)' \in Nat
  <2>1. InFlight(r)' = InFlight(r) /\ Held(r)' = Held(r)
    BY <1>1 DEF InFlight, Held
  <2>2. /\ Drained(r) \in Nat /\ Held(r) \in Nat /\ Weight(r, Head(playback)) \in Nat
        /\ UnitsOf(r, cuts["worker"].drained) \in Nat /\ UnitsOf(r, cuts["operator"].drained) \in Nat
    BY <1>1, NoneIsAKey, Numbers, WeightNat DEF BooksInv, Ledgered
  <2>3. UnitsOf(r, Append(cuts[c].drained, Head(playback)))
          = UnitsOf(r, cuts[c].drained) + Weight(r, Head(playback))
    BY <1>1, UnitsAppend
  <2>4. Drained(r)' = Drained(r) + Weight(r, Head(playback))
    <3>1. Drained(r)' = UnitsOf(r, cuts'["worker"].drained) + UnitsOf(r, cuts'["operator"].drained)
      BY DEF Drained
    <3>2. CASE c = "worker"
      <4>1. /\ cuts'["worker"].drained = Append(cuts[c].drained, Head(playback))
            /\ cuts'["operator"].drained = cuts["operator"].drained
        BY <1>2, <3>2 DEF Cutters
      <4> QED BY <2>2, <2>3, <3>1, <3>2, <4>1 DEF Drained
    <3>3. CASE c = "operator"
      <4>1. /\ cuts'["operator"].drained = Append(cuts[c].drained, Head(playback))
            /\ cuts'["worker"].drained = cuts["worker"].drained
        BY <1>2, <3>3 DEF Cutters
      <4> QED BY <2>2, <2>3, <3>1, <3>3, <4>1 DEF Drained
    <3> QED BY <3>2, <3>3 DEF Cutters
  <2>5. PICK d : d = Drained(r) + Weight(r, Head(playback))
    OBVIOUS
  <2> QED BY <2>1, <2>2, <2>4, <2>5
<1> QED BY <1>1, <1>3, OutOfQueue

\* A cut enters what it has in its hands as skipped, and lets go of it.
LEMMA AccountBooks ==
    ASSUME IInv, BooksInv, NEW c \in Cutters, Account(c)
    PROVE  /\ \A r \in Replies : Balanced(r)' /\ Gone(r)' = Gone(r)
           /\ ledgers' \in [Keys -> Ledgers]
<1>1. /\ ledgers \in [Keys -> Ledgers] /\ cuts \in [Cutters -> CutStates]
      /\ ledgers' = [k \in Keys |-> Skipped(k, cuts[c])]
      /\ cuts' = [cuts EXCEPT ![c] = NoCut]
      /\ UNCHANGED <<playback, mouth, seen>>
      /\ \A e \in Cutters : cuts[e].drained \in Seq(Chunks)
  BY InHandsNat DEF Account, IInv, Places, BooksInv, Ledgered
<1>2. ASSUME NEW k \in Keys
      PROVE  /\ ledgers'[k] \in Ledgers
             /\ ledgers'[k].queued = ledgers[k].queued /\ ledgers'[k].played = ledgers[k].played
             /\ ledgers'[k].inflight = ledgers[k].inflight
             /\ ledgers'[k].skipped = ledgers[k].skipped + UnitsOf(k, cuts[c].drained)
  <2>1. PICK lost : lost = UnitsOf(k, cuts[c].drained)
    OBVIOUS
  <2>2. lost \in Nat /\ ledgers[k] \in Ledgers
    BY <1>1, <2>1, UnitsNat
  <2>3. PICK b : b = (ledgers[k].cancelled \/ lost > 0 \/ k = Reported(cuts[c]))
    OBVIOUS
  <2>4. b \in BOOLEAN
    BY <2>3
  <2>5. ledgers'[k] = [ledgers[k] EXCEPT !.skipped = @ + lost, !.cancelled = b]
    BY <1>1, <2>1, <2>3, Zenon DEF Skipped
  <2>6. PICK l, v : l = ledgers[k] /\ v = ledgers[k].skipped + lost
    OBVIOUS
  <2>7. v \in Nat
    BY <2>2, <2>6 DEF Ledgers
  <2>8. ledgers'[k] = [l EXCEPT !.skipped = v, !.cancelled = b]
    BY <2>5, <2>6
  <2>9. /\ ledgers'[k] \in Ledgers /\ ledgers'[k].queued = l.queued /\ ledgers'[k].played = l.played
        /\ ledgers'[k].inflight = l.inflight /\ ledgers'[k].skipped = v
    <3>1. ledgers'[k] \in Ledgers
      BY <2>2, <2>4, <2>6, <2>7, <2>8 DEF Ledgers
    <3>2. /\ ledgers'[k].queued = l.queued /\ ledgers'[k].played = l.played
          /\ ledgers'[k].inflight = l.inflight /\ ledgers'[k].skipped = v
      BY <2>2, <2>6, <2>8 DEF Ledgers
    <3> QED BY <3>1, <3>2
  <2> QED BY <2>1, <2>6, <2>9
<1>3. ledgers' \in [Keys -> Ledgers]
  BY <1>1, <1>2
<1>4. ASSUME NEW r \in Replies PROVE Balanced(r)' /\ Gone(r)' = Gone(r)
  <2>1. r \in Keys
    BY NoneIsAKey
  <2>2. Counting(r)' = Counting(r)
    <3>1. CASE c = "worker"
      <4>1. worker.step = "cutting"
        BY <3>1, Zenon DEF Account, IInv, Cutting
      <4>2. worker'.step \in {"tap", "idle"}
        <5>1. worker \in Workers
          BY DEF IInv, Places
        <5>2. PICK k : k = Reported(cuts[c])
          OBVIOUS
        <5>3. worker' = [worker EXCEPT !.step = "tap", !.about = k] \/ worker' = Idle
          BY <3>1, <5>2 DEF Account
        <5>4. [worker EXCEPT !.step = "tap", !.about = k].step = "tap" /\ Idle.step = "idle"
          BY <5>1 DEF Workers, Idle
        <5> QED BY <5>3, <5>4
      <4> QED BY <4>1, <4>2 DEF Counting
    <3>2. CASE c # "worker"
      BY <1>1, <3>2 DEF Account, Counting
    <3> QED BY <3>1, <3>2
  <2>3. Held(r)' = Held(r) /\ InFlight(r)' = InFlight(r) /\ UnitsOf(r, playback)' = UnitsOf(r, playback)
    BY <1>1 DEF Held, InFlight
  <2>4. PICK w, o : w = UnitsOf(r, cuts["worker"].drained) /\ o = UnitsOf(r, cuts["operator"].drained)
    OBVIOUS
  <2>5. w \in Nat /\ o \in Nat /\ Drained(r) = w + o
    BY <1>1, <2>1, <2>4, Numbers DEF Drained
  <2>6. PICK lost : lost = UnitsOf(r, cuts[c].drained)
    OBVIOUS
  <2>7. lost \in Nat /\ Drained(r)' = (w + o) - lost /\ lost <= w + o
    <3>1. NoCut.drained = <<>>
      BY DEF NoCut
    <3>2. CASE c = "worker"
      <4>1. cuts'["worker"].drained = <<>> /\ cuts'["operator"] = cuts["operator"]
        BY <1>1, <3>1, <3>2 DEF Cutters
      <4>2. Drained(r)' = 0 + o
        BY <2>4, <4>1, UnitsOfNone DEF Drained
      <4> QED BY <2>4, <2>5, <2>6, <3>2, <4>2
    <3>3. CASE c = "operator"
      <4>1. cuts'["operator"].drained = <<>> /\ cuts'["worker"] = cuts["worker"]
        BY <1>1, <3>1, <3>3 DEF Cutters
      <4>2. Drained(r)' = w + 0
        BY <2>4, <4>1, UnitsOfNone DEF Drained
      <4> QED BY <2>4, <2>5, <2>6, <3>3, <4>2
    <3> QED BY <3>2, <3>3 DEF Cutters
  <2>8. PICK p, i, s, h : /\ p = ledgers[r].played /\ i = ledgers[r].inflight /\ s = ledgers[r].skipped
                          /\ h = Held(r)
    OBVIOUS
  <2>9. p \in Nat /\ i \in Nat /\ s \in Nat /\ h \in Nat
    BY <1>1, <2>1, <2>8, Numbers
  <2>10. Gone(r) = p + i + s + h + (w + o) /\ Gone(r)' = p + i + (s + lost) + h + ((w + o) - lost)
    BY <1>2, <2>1, <2>3, <2>5, <2>6, <2>7, <2>8 DEF Gone
  <2>11. Gone(r)' = Gone(r)
    BY <2>5, <2>7, <2>9, <2>10
  <2> QED BY <1>2, <2>1, <2>2, <2>3, <2>11 DEF Balanced, BooksInv
<1> QED BY <1>3, <1>4

\* What the mouth had taken goes to the speaker, or is skipped; what was in the
\* speaker is spoken, or failed.
LEMMA MouthBooks ==
    ASSUME IInv, BooksInv, Adopt \/ SkipStale \/ \E ok \in BOOLEAN : PlayReturns(ok)
    PROVE  /\ \A r \in Replies : Balanced(r)' /\ Gone(r)' = Gone(r)
           /\ ledgers' \in [Keys -> Ledgers]
<1> DEFINE r == mouth.chunk.reply
           n == mouth.chunk.size
<1>1. /\ mouth \in Mouths /\ r \in Keys /\ n \in Nat /\ ledgers \in [Keys -> Ledgers]
      /\ ledgers[r] \in Ledgers
      /\ UNCHANGED <<playback, seen, worker, cuts>>
  BY DEF Adopt, SkipStale, PlayReturns, IInv, Places, Mouths, Chunks, BooksInv, Ledgered
<1>2. PICK l \in Ledgers : /\ ledgers' = [ledgers EXCEPT ![r] = l]
                           /\ l.queued = ledgers[r].queued
                           /\ \/ /\ mouth.state = "taken" /\ mouth'.state = "playing" /\ mouth'.chunk = mouth.chunk
                                 /\ l.inflight = n /\ l.played = ledgers[r].played /\ l.skipped = ledgers[r].skipped
                              \/ /\ mouth.state = "taken" /\ mouth'.state = "idle"
                                 /\ l.inflight = ledgers[r].inflight /\ l.played = ledgers[r].played
                                 /\ l.skipped = ledgers[r].skipped + n
                              \/ /\ mouth.state = "playing" /\ mouth'.state = "idle" /\ l.inflight = 0
                                 /\ \/ l.played = ledgers[r].played + n /\ l.skipped = ledgers[r].skipped
                                    \/ l.played = ledgers[r].played /\ l.skipped = ledgers[r].skipped + n
  <2> HIDE DEF r, n
  <2>1. PICK x, p, s : x = ledgers[r] /\ p = ledgers[r].played + n /\ s = ledgers[r].skipped + n
    OBVIOUS
  <2>2. x \in Ledgers /\ p \in Nat /\ s \in Nat /\ TRUE \in BOOLEAN
    BY <1>1, <2>1 DEF Ledgers
  <2>3. CASE Adopt
    <3>1. PICK l : l = [x EXCEPT !.inflight = n]
      OBVIOUS
    <3>2. /\ l \in Ledgers /\ l.queued = x.queued /\ l.inflight = n
          /\ l.played = x.played /\ l.skipped = x.skipped
      <4>1. l \in Ledgers
        BY <1>1, <2>2, <3>1 DEF Ledgers
      <4>2. /\ l.queued = x.queued /\ l.inflight = n /\ l.played = x.played /\ l.skipped = x.skipped
        BY <2>2, <3>1 DEF Ledgers
      <4> QED BY <4>1, <4>2
    <3>3. ledgers' = [ledgers EXCEPT ![r] = l] /\ mouth.state = "taken"
      BY <1>1, <2>1, <2>3, <3>1 DEF Adopt, r, n
    <3>4. mouth'.state = "playing" /\ mouth'.chunk = mouth.chunk
      BY <1>1, <2>3 DEF Adopt, Mouths
    <3> QED BY <2>1, <3>2, <3>3, <3>4
  <2>4. CASE SkipStale
    <3>1. PICK l : l = [x EXCEPT !.skipped = s, !.cancelled = TRUE]
      OBVIOUS
    <3>2. /\ l \in Ledgers /\ l.queued = x.queued /\ l.inflight = x.inflight
          /\ l.played = x.played /\ l.skipped = s
      <4>1. l \in Ledgers
        BY <2>2, <3>1 DEF Ledgers
      <4>2. /\ l.queued = x.queued /\ l.inflight = x.inflight /\ l.played = x.played /\ l.skipped = s
        BY <2>2, <3>1 DEF Ledgers
      <4> QED BY <4>1, <4>2
    <3>3. ledgers' = [ledgers EXCEPT ![r] = l] /\ mouth.state = "taken" /\ mouth'.state = "idle"
      BY <1>1, <2>1, <2>4, <3>1 DEF SkipStale, r, n
    <3> QED BY <2>1, <3>2, <3>3
  <2>5. CASE \E ok \in BOOLEAN : PlayReturns(ok)
    <3>1. PICK ok \in BOOLEAN : PlayReturns(ok)
      BY <2>5
    <3>2. mouth.state = "playing" /\ mouth'.state = "idle"
      BY <3>1 DEF PlayReturns
    <3>3. CASE ok
      <4>1. PICK l : l = [x EXCEPT !.inflight = 0, !.played = p]
        OBVIOUS
      <4>2. /\ l \in Ledgers /\ l.queued = x.queued /\ l.played = p /\ l.inflight = 0
            /\ l.skipped = x.skipped
        <5>1. l \in Ledgers
          BY <2>2, <4>1 DEF Ledgers
        <5>2. l.queued = x.queued /\ l.inflight = 0
          BY <2>2, <4>1 DEF Ledgers
        <5>3. l.played = p /\ l.skipped = x.skipped
          BY <2>2, <4>1 DEF Ledgers
        <5> QED BY <5>1, <5>2, <5>3
      <4>3. ledgers' = [ledgers EXCEPT ![r] = l]
        BY <1>1, <2>1, <3>1, <3>3, <4>1 DEF PlayReturns, r, n
      <4> QED BY <2>1, <3>2, <4>2, <4>3
    <3>4. CASE ~ok
      <4>1. PICK l : l = [x EXCEPT !.inflight = 0, !.skipped = s]
        OBVIOUS
      <4>2. /\ l \in Ledgers /\ l.queued = x.queued /\ l.played = x.played /\ l.inflight = 0
            /\ l.skipped = s
        <5>1. l \in Ledgers
          BY <2>2, <4>1 DEF Ledgers
        <5>2. l.queued = x.queued /\ l.inflight = 0
          BY <2>2, <4>1 DEF Ledgers
        <5>3. l.played = x.played /\ l.skipped = s
          BY <2>2, <4>1 DEF Ledgers
        <5> QED BY <5>1, <5>2, <5>3
      <4>3. ledgers' = [ledgers EXCEPT ![r] = l]
        BY <1>1, <2>1, <3>1, <3>4, <4>1 DEF PlayReturns, r, n
      <4> QED BY <2>1, <3>2, <4>2, <4>3
    <3> QED BY <3>3, <3>4
  <2> QED BY <2>3, <2>4, <2>5
<1>3. ledgers' \in [Keys -> Ledgers] /\ ledgers'[r] = l /\ \A k \in Keys : k # r => ledgers'[k] = ledgers[k]
  BY <1>1, <1>2
<1>4. ASSUME NEW q \in Replies PROVE Balanced(q)' /\ Gone(q)' = Gone(q)
  <2>1. q \in Keys /\ ledgers[q].inflight = InFlight(q)
    BY NoneIsAKey DEF BooksInv, Balanced
  <2>2. Counting(q)' = Counting(q) /\ Drained(q)' = Drained(q) /\ UnitsOf(q, playback)' = UnitsOf(q, playback)
    BY <1>1 DEF Counting, Drained
  <2>3. PICK p, i, s, h, d, m : /\ p = ledgers[q].played /\ i = ledgers[q].inflight /\ s = ledgers[q].skipped
                             /\ h = Held(q) /\ d = Drained(q) /\ m = n
    OBVIOUS
  <2>4. p \in Nat /\ i \in Nat /\ s \in Nat /\ h \in Nat /\ d \in Nat /\ m \in Nat /\ Gone(q) = p + i + s + h + d
    BY <1>1, <2>1, <2>3, Numbers DEF Gone
  <2>5. Gone(q)' = ledgers'[q].played + ledgers'[q].inflight + ledgers'[q].skipped + Held(q)' + d
    BY <2>2, <2>3 DEF Gone
  <2>6. Gone(q)' = Gone(q) /\ ledgers'[q].inflight = InFlight(q)' /\ ledgers'[q].queued = ledgers[q].queued
    <3>1. CASE q # r
      <4>1. ledgers'[q] = ledgers[q] /\ i = 0 /\ InFlight(q) = 0
        BY <1>3, <2>1, <2>3, <3>1 DEF InFlight
      <4>2. h = 0 /\ Held(q)' = 0 /\ InFlight(q)' = 0
        BY <1>2, <2>3, <3>1 DEF Held, InFlight
      <4> QED BY <2>1, <2>3, <2>4, <2>5, <4>1, <4>2
    <3>2. CASE q = r
      <4>1. ledgers'[q] = l
        BY <1>3, <3>2
      <4>2. CASE mouth.state = "taken" /\ mouth'.state = "playing"
        <5>1. /\ i = 0 /\ h = m /\ Held(q)' = 0 /\ InFlight(q)' = m
          BY <1>2, <2>1, <2>3, <3>2, <4>2 DEF InFlight, Held
        <5>2. l.inflight = m /\ l.played = p /\ l.skipped = s /\ l.queued = ledgers[q].queued
          BY <1>2, <2>3, <3>2, <4>2
        <5>3. p + 0 + s + m + d = p + m + s + 0 + d
          BY <2>4
        <5> QED BY <2>4, <2>5, <4>1, <5>1, <5>2, <5>3
      <4>3. CASE mouth.state = "taken" /\ mouth'.state = "idle"
        <5>1. /\ i = 0 /\ h = m /\ Held(q)' = 0 /\ InFlight(q)' = 0
          BY <1>2, <2>1, <2>3, <3>2, <4>3 DEF InFlight, Held
        <5>2. l.inflight = i /\ l.played = p /\ l.skipped = s + m /\ l.queued = ledgers[q].queued
          BY <1>2, <2>3, <3>2, <4>3
        <5>3. p + 0 + s + m + d = p + 0 + (s + m) + 0 + d
          BY <2>4
        <5> QED BY <2>4, <2>5, <4>1, <5>1, <5>2, <5>3
      <4>4. CASE mouth.state = "playing" /\ mouth'.state = "idle"
        <5>1. /\ i = m /\ h = 0 /\ Held(q)' = 0 /\ InFlight(q)' = 0
          BY <1>2, <2>1, <2>3, <3>2, <4>4 DEF InFlight, Held
        <5>2. /\ l.inflight = 0 /\ l.queued = ledgers[q].queued
              /\ (l.played = p + m /\ l.skipped = s) \/ (l.played = p /\ l.skipped = s + m)
          BY <1>2, <2>3, <3>2, <4>4
        <5>3. p + m + s + 0 + d = (p + m) + 0 + s + 0 + d /\ p + m + s + 0 + d = p + 0 + (s + m) + 0 + d
          BY <2>4
        <5> QED BY <2>4, <2>5, <4>1, <5>1, <5>2, <5>3
      <4> QED BY <1>2, <4>2, <4>3, <4>4
    <3> QED BY <3>1, <3>2
  <2> QED BY <1>1, <2>2, <2>6 DEF Balanced, BooksInv
<1> QED BY <1>3, <1>4

LEMMA BooksInitially == Init => BooksInv
<1> SUFFICES ASSUME Init PROVE BooksInv
  OBVIOUS
<1>1. NewLedger \in Ledgers
  BY DEF NewLedger, Ledgers
<1>2. ledgers \in [Keys -> Ledgers] /\ \A k \in Keys : ledgers[k] = NewLedger
  BY <1>1 DEF Init
<1>3. spoken \in [Replies -> [whole : Nat, part : Nat]]
  BY DEF Init
<1>4. Len(playback) <= Capacity
  <2>1. Len(<<>>) = 0
    OBVIOUS
  <2>2. Capacity \in Nat
    BY MouthAssumption
  <2> QED BY <2>1, <2>2 DEF Init
<1>5. AtHand /\ Emptied
  BY DEF Init, AtHand, Emptied, Idle, NoCut
<1>6. ASSUME NEW r \in Replies PROVE Balanced(r)
  <2>1. /\ ledgers[r].queued = 0 /\ ledgers[r].played = 0 /\ ledgers[r].inflight = 0
        /\ ledgers[r].skipped = 0
    BY <1>2, NoneIsAKey DEF NewLedger
  <2>2. Counting(r) = 0 /\ Held(r) = 0 /\ InFlight(r) = 0
    BY DEF Init, Counting, Held, InFlight, Idle
  <2>3. UnitsOf(r, playback) = 0 /\ Drained(r) = 0
    BY UnitsOfNone DEF Init, Drained, NoCut, Cutters
  <2> QED BY <2>1, <2>2, <2>3 DEF Balanced, Gone
<1> QED BY <1>2, <1>3, <1>4, <1>5, <1>6 DEF BooksInv, Ledgered

\* What the worker has in hand stays the next of its reply, or is not there.
LEMMA HandsKeep ==
    ASSUME IInv, BooksInv, Next, ~CheckGeneration, ~PutChunk
    PROVE  AtHand'
<1>1. CASE UNCHANGED <<worker, seen, pending>>
  BY <1>1 DEF BooksInv, AtHand
<1>2. CASE worker'.step \notin {"put", "count"}
  BY <1>2 DEF AtHand
<1>3. CASE Wire
  <2>1. Idle.step = "idle" /\ worker \in Workers
    BY DEF Idle, IInv, Places
  <2>2. CASE ResponseCreated
    BY <2>2 DEF ResponseCreated, AtHand
  <2>3. CASE ~ResponseCreated
    <3>1. \/ worker' = [Idle EXCEPT !.step = "check"]
          \/ worker' = [Idle EXCEPT !.step = "check", !.doing = "done", !.about = seen]
          \/ worker' = [Idle EXCEPT !.step = "seal", !.doing = "interrupted", !.about = seen]
          \/ worker' = [Idle EXCEPT !.step = "cutting", !.doing = "onset"]
          \/ worker' = [Idle EXCEPT !.step = "cutting", !.doing = "reconnect"]
      BY <1>3, <2>3 DEF Wire, AudioDelta, ResponseDone, ResponseInterrupted, SpeechStarted, Reconnect
    <3> QED BY <1>2, <3>1 DEF Idle
  <2> QED BY <2>2, <2>3
<1>4. CASE Hand
  <2>1. worker \in Workers
    BY DEF IInv, Places
  <2>2. CASE CountChunk
    <3>1. worker' = [worker EXCEPT !.step = "check", !.chunk = NoChunk]
      BY <2>2 DEF CountChunk
    <3>2. worker'.step = "check"
      BY <2>1, <3>1 DEF Workers
    <3> QED BY <1>2, <3>2
  <2>3. CASE Seal
    <3>1. worker' = [worker EXCEPT !.step = "cutting"] \/ worker' = [worker EXCEPT !.step = "tap"]
      BY <2>3 DEF Seal
    <3>2. worker'.step \in {"cutting", "tap"}
      BY <2>1, <3>1 DEF Workers
    <3> QED BY <1>2, <3>2
  <2>4. CASE Tap
    BY <1>2, <2>4 DEF Tap, Idle
  <2> QED BY <1>4, <2>2, <2>3, <2>4 DEF Hand
<1>5. CASE Mouth \/ OperatorCut
  BY <1>1, <1>5 DEF Mouth, Take, Adopt, SkipStale, PlayReturns, OperatorCut
<1>6. CASE \E c \in Cutters : Cut(c)
  <2> PICK c \in Cutters : Cut(c)
    BY <1>6
  <2>1. CASE Bump(c) \/ DrainOne(c)
    BY <1>1, <2>1 DEF Bump, DrainOne
  <2>2. CASE Account(c)
    <3>1. worker \in Workers
      BY DEF IInv, Places
    <3>2. PICK k : k = Reported(cuts[c])
      OBVIOUS
    <3>3. \/ worker' = [worker EXCEPT !.step = "tap", !.about = k] \/ worker' = Idle
          \/ UNCHANGED <<worker, seen, pending>>
      BY <2>2, <3>2 DEF Account
    <3>4. [worker EXCEPT !.step = "tap", !.about = k].step = "tap" /\ Idle.step = "idle"
      BY <3>1 DEF Workers, Idle
    <3> QED BY <1>1, <1>2, <3>3, <3>4
  <2> QED BY <2>1, <2>2 DEF Cut
<1> QED BY <1>3, <1>4, <1>5, <1>6 DEF Next

\* The mind's record stays a record: entries go up by one, or a whole one goes.
LEMMA TapRecords ==
    ASSUME Tap, spoken \in [Replies -> [whole : Nat, part : Nat]]
    PROVE  spoken' \in [Replies -> [whole : Nat, part : Nat]]
<1> DEFINE r == worker.about
           S == [whole : Nat, part : Nat]
<1>1. \/ spoken' = RecordCut(r)
      \/ spoken' = [spoken EXCEPT ![r].whole = @ + 1]
      \/ spoken' = spoken
  BY DEF Tap
<1>2. CASE r \notin Replies
  BY <1>1, <1>2 DEF RecordCut
<1>3. CASE r \in Replies
  <2>1. PICK o \in S : o = spoken[r]
    BY <1>3
  <2>2. [o EXCEPT !.whole = @ + 1] \in S
    OBVIOUS
  <2>3. CASE spoken' = [spoken EXCEPT ![r].whole = @ + 1]
    <3>1. spoken' = [spoken EXCEPT ![r] = [o EXCEPT !.whole = @ + 1]]
      BY <2>1, <2>3
    <3> QED BY <1>3, <2>2, <3>1
  <2>4. CASE spoken' = RecordCut(r)
    <3>1. PICK said : spoken' = LET kept == IF o.whole > 0 THEN [o EXCEPT !.whole = @ - 1] ELSE o
                                IN  [spoken EXCEPT ![r] = [whole |-> kept.whole + (IF said = "whole" THEN 1 ELSE 0),
                                                           part |-> kept.part + (IF said = "part" THEN 1 ELSE 0)]]
      BY <2>1, <2>4 DEF RecordCut
    <3>2. PICK kept : kept = IF o.whole > 0 THEN [o EXCEPT !.whole = @ - 1] ELSE o
      OBVIOUS
    <3>3. kept.whole \in Nat /\ kept.part \in Nat
      BY <3>2
    <3>4. PICK n : n = [whole |-> kept.whole + (IF said = "whole" THEN 1 ELSE 0),
                        part |-> kept.part + (IF said = "part" THEN 1 ELSE 0)]
      OBVIOUS
    <3>5. n \in S
      BY <3>3, <3>4
    <3>6. spoken' = [spoken EXCEPT ![r] = n]
      BY <3>1, <3>2, <3>4
    <3> QED BY <1>3, <3>5, <3>6
  <2> QED BY <1>1, <2>3, <2>4
<1> QED BY <1>2, <1>3

LEMMA SealBooks ==
    ASSUME IInv, BooksInv, Seal
    PROVE  /\ \A r \in Replies : Balanced(r)' /\ Gone(r)' = Gone(r)
           /\ ledgers' \in [Keys -> Ledgers]
<1>1. /\ worker.step = "seal" /\ worker \in Workers /\ cuts \in [Cutters -> CutStates]
      /\ ledgers \in [Keys -> Ledgers] /\ seen \in Keys /\ pending[seen].audio \in Nat
      /\ UNCHANGED <<playback, mouth, seen>>
  BY NoneIsAKey DEF Seal, IInv, AtWork, Places, Pendings, BooksInv, Ledgered
<1>2. PICK l : l = [ledgers[seen] EXCEPT !.complete = TRUE, !.total = pending[seen].audio]
  OBVIOUS
<1>3. ledgers' = [ledgers EXCEPT ![seen] = l]
  BY <1>1, <1>2 DEF Seal
<1>4. ledgers[seen] \in Ledgers
  BY <1>1
<1>5. l \in Ledgers
  BY <1>1, <1>2, <1>4 DEF Ledgers
<1>6. /\ l.queued = ledgers[seen].queued /\ l.played = ledgers[seen].played
  BY <1>2, <1>4 DEF Ledgers
<1>7. l.inflight = ledgers[seen].inflight /\ l.skipped = ledgers[seen].skipped
  BY <1>2, <1>4 DEF Ledgers
<1>8. ledgers' \in [Keys -> Ledgers]
  BY <1>1, <1>3, <1>5
<1>9. \A r \in Replies : /\ ledgers'[r].queued = ledgers[r].queued
                         /\ ledgers'[r].played = ledgers[r].played
                         /\ ledgers'[r].inflight = ledgers[r].inflight
                         /\ ledgers'[r].skipped = ledgers[r].skipped
  BY <1>1, <1>3, <1>6, <1>7, NoneIsAKey
<1>10. worker'.step # "count"
  <2>1. worker' = [worker EXCEPT !.step = "cutting"] \/ worker' = [worker EXCEPT !.step = "tap"]
    BY DEF Seal
  <2> QED BY <1>1, <2>1 DEF Workers
<1>11. \A c \in Cutters : cuts'[c].drained = cuts[c].drained
  <2>1. CASE UNCHANGED cuts
    BY <2>1
  <2>2. CASE worker.doing = "interrupted"
    <3>1. cuts["worker"].phase = "none"
      BY <1>1, Zenon DEF IInv, Cutting
    <3>2. cuts' = [cuts EXCEPT !["worker"] = [NoCut EXCEPT !.phase = "bump", !.key = seen]]
      BY <2>2 DEF Seal
    <3>3. cuts["worker"].drained = <<>> /\ cuts'["worker"].drained = <<>>
      BY <1>1, <3>1, <3>2, NewCut DEF BooksInv, Emptied, Cutters
    <3>4. \A c \in Cutters : c # "worker" => cuts'[c] = cuts[c]
      BY <1>1, <3>2
    <3> QED BY <3>3, <3>4
  <2> QED BY <2>1, <2>2 DEF Seal
<1> QED BY <1>1, <1>8, <1>9, <1>10, <1>11, BooksStay

\* A cut that begins has nothing in its hands, as before it.
LEMMA NewCutBooks ==
    ASSUME IInv, BooksInv, NEW c \in Cutters, cuts[c].phase = "none", NEW s,
           s = [NoCut EXCEPT !.phase = "bump"] \/ \E k \in Keys : s = [NoCut EXCEPT !.phase = "bump", !.key = k],
           cuts' = [cuts EXCEPT ![c] = s]
    PROVE  Emptied' /\ \A d \in Cutters : cuts'[d].drained = cuts[d].drained
<1>1. cuts \in [Cutters -> CutStates] /\ cuts[c].drained = <<>> /\ s.drained = <<>>
  BY NewCut, NoneIsAKey DEF IInv, Places, BooksInv, Emptied
<1>2. \A d \in Cutters : cuts'[d].drained = cuts[d].drained
  BY <1>1
<1>3. Emptied'
  BY <1>1 DEF BooksInv, Emptied
<1> QED BY <1>2, <1>3

LEMMA EmptiedKeep ==
    ASSUME IInv, BooksInv, Next
    PROVE  Emptied'
<1>0. cuts \in [Cutters -> CutStates]
  BY DEF IInv, Places
<1>1. CASE UNCHANGED cuts
  BY <1>1 DEF BooksInv, Emptied
<1>2. CASE SpeechStarted \/ Reconnect \/ ResponseInterrupted \/ Seal
  <2>1. cuts["worker"].phase = "none" /\ "worker" \in Cutters
    BY <1>2, Zenon DEF SpeechStarted, Reconnect, ResponseInterrupted, Seal, IInv, Cutting, Cutters
  <2>2. seen \in Keys
    BY NoneIsAKey, MouthAssumption DEF IInv, Places, Keys, Replies, None
  <2>3. \/ UNCHANGED cuts
        \/ cuts' = [cuts EXCEPT !["worker"] = [NoCut EXCEPT !.phase = "bump"]]
        \/ cuts' = [cuts EXCEPT !["worker"] = [NoCut EXCEPT !.phase = "bump", !.key = seen]]
    BY <1>2 DEF SpeechStarted, Reconnect, ResponseInterrupted, Seal
  <2> QED BY <1>1, <2>1, <2>2, <2>3, NewCutBooks
<1>3. CASE OperatorCut
  BY <1>3, NewCutBooks DEF OperatorCut, Cutters
<1>4. CASE \E c \in Cutters : Cut(c)
  <2> PICK c \in Cutters : Cut(c)
    BY <1>4
  <2>1. \A d \in Cutters : d # c => cuts'[d] = cuts[d]
    BY <1>0 DEF Cut, Bump, DrainOne, Account
  <2>2. cuts'[c].phase \notin {"drain", "account"} => cuts'[c].drained = <<>>
    BY <1>0 DEF Cut, Bump, DrainOne, Account, CutStates, NoCut
  <2> QED BY <2>1, <2>2 DEF BooksInv, Emptied
<1>5. CASE ResponseCreated \/ AudioDelta \/ ResponseDone \/ CheckGeneration \/ PutChunk \/ CountChunk \/ Tap \/ Mouth
  <2>1. UNCHANGED cuts
    BY <1>5 DEF ResponseCreated, AudioDelta, ResponseDone, CheckGeneration, PutChunk, CountChunk, Tap,
       Mouth, Take, Adopt, SkipStale, PlayReturns
  <2> QED BY <1>1, <2>1
<1> QED BY <1>2, <1>3, <1>4, <1>5 DEF Next, Wire, Hand

\* Every step keeps the books, and no unit that left the queue comes back to it.
Kept == /\ ledgers' \in [Keys -> Ledgers] /\ Len(playback') <= Capacity
        /\ \A r \in Replies : Balanced(r)' /\ Gone(r)' \in Nat /\ Gone(r)' >= Gone(r)

LEMMA QuietBooks ==
    ASSUME IInv, BooksInv, UNCHANGED <<ledgers, playback, mouth>>,
           \A c \in Cutters : cuts'[c].drained = cuts[c].drained,
           (worker.step # "count" /\ worker'.step # "count") \/ UNCHANGED <<worker, seen>>
    PROVE  /\ \A r \in Replies : Balanced(r)' /\ Gone(r)' = Gone(r)
           /\ Kept
<1>1. ledgers \in [Keys -> Ledgers] /\ Len(playback) <= Capacity
  BY DEF BooksInv, Ledgered
<1>2. \A r \in Replies : Balanced(r)' /\ Gone(r)' = Gone(r)
  BY <1>1, BooksStay
<1>3. \A r \in Replies : Gone(r) \in Nat
  BY <1>1, NoneIsAKey, Numbers
<1>4. \A r \in Replies : Gone(r)' \in Nat /\ Gone(r)' >= Gone(r)
  BY <1>2, <1>3
<1> QED BY <1>1, <1>2, <1>4 DEF Kept

\* The worker's and the cutters' steps that move no audio.
Quiet == \/ Wire \/ CheckGeneration \/ (PutChunk /\ Len(playback) >= Capacity) \/ Tap \/ OperatorCut
         \/ \E c \in Cutters : Bump(c) \/ (DrainOne(c) /\ playback = <<>>)

LEMMA QuietIsQuiet ==
    ASSUME IInv, BooksInv, Quiet
    PROVE  /\ UNCHANGED <<ledgers, playback, mouth>>
           /\ \A c \in Cutters : cuts'[c].drained = cuts[c].drained
           /\ (worker.step # "count" /\ worker'.step # "count") \/ UNCHANGED <<worker, seen>>
<1>0. /\ cuts \in [Cutters -> CutStates] /\ worker \in Workers /\ Idle.step = "idle"
      /\ Len(playback) \in Nat /\ Capacity \in Nat
  BY MouthAssumption DEF IInv, Places, Idle
<1>1. CASE ResponseCreated \/ AudioDelta \/ ResponseDone \/ ResponseInterrupted
  <2>1. UNCHANGED <<ledgers, playback, mouth, cuts>> /\ worker.step = "idle"
    BY <1>1 DEF ResponseCreated, AudioDelta, ResponseDone, ResponseInterrupted
  <2>2. worker'.step # "count"
    BY <1>1 DEF ResponseCreated, AudioDelta, ResponseDone, ResponseInterrupted, Idle
  <2> QED BY <2>1, <2>2
<1>2. CASE SpeechStarted \/ Reconnect
  <2>1. /\ UNCHANGED <<ledgers, playback, mouth>> /\ worker.step = "idle"
        /\ cuts' = [cuts EXCEPT !["worker"] = [NoCut EXCEPT !.phase = "bump"]]
    BY <1>2 DEF SpeechStarted, Reconnect
  <2>2. worker'.step # "count"
    BY <1>2 DEF SpeechStarted, Reconnect, Idle
  <2>3. cuts["worker"].phase = "none" /\ "worker" \in Cutters
    BY <2>1, Zenon DEF IInv, Cutting, Cutters
  <2> QED BY <2>1, <2>2, <2>3, NewCutBooks
<1>3. CASE CheckGeneration
  <2>1. UNCHANGED <<ledgers, playback, mouth, cuts>> /\ worker.step = "check"
    BY <1>3 DEF CheckGeneration
  <2>2. worker'.step # "count"
    <3>1. PICK ch : worker' = [worker EXCEPT !.step = "put", !.chunk = ch] \/ worker' = AfterFlush
      BY <1>3 DEF CheckGeneration
    <3>2. AfterFlush.step \in {"seal", "idle"}
      BY <1>0 DEF AfterFlush, Workers
    <3> QED BY <1>0, <3>1, <3>2 DEF Workers
  <2> QED BY <2>1, <2>2
<1>4. CASE PutChunk /\ Len(playback) >= Capacity
  <2>1. UNCHANGED <<ledgers, playback, mouth, cuts>> /\ worker.step = "put" /\ worker' = AfterFlush
    BY <1>0, <1>4 DEF PutChunk
  <2>2. AfterFlush.step \in {"seal", "idle"}
    BY <1>0 DEF AfterFlush, Workers
  <2> QED BY <2>1, <2>2
<1>5. CASE Tap
  BY <1>0, <1>5 DEF Tap
<1>6. CASE OperatorCut
  BY <1>6, NewCutBooks DEF OperatorCut, Cutters
<1>7. CASE \E c \in Cutters : Bump(c) \/ (DrainOne(c) /\ playback = <<>>)
  <2> PICK c \in Cutters : Bump(c) \/ (DrainOne(c) /\ playback = <<>>)
    BY <1>7
  <2>1. UNCHANGED <<ledgers, playback, mouth, worker, seen>>
    BY DEF Bump, DrainOne
  <2>2. PICK p : cuts' = [cuts EXCEPT ![c].phase = p]
    BY DEF Bump, DrainOne
  <2>3. \A d \in Cutters : cuts'[d].drained = cuts[d].drained
    BY <1>0, <2>2 DEF CutStates
  <2> QED BY <2>1, <2>3
<1> QED BY <1>1, <1>2, <1>3, <1>4, <1>5, <1>6, <1>7 DEF Quiet, Wire

LEMMA HandsTake ==
    ASSUME IInv, BooksInv, CheckGeneration \/ PutChunk
    PROVE  AtHand'
<1>1. worker \in Workers /\ AfterFlush.step \in {"seal", "idle"} /\ UNCHANGED seen
  BY DEF IInv, Places, AfterFlush, Workers, Idle, CheckGeneration, PutChunk
<1>2. CASE worker' = AfterFlush
  BY <1>1, <1>2 DEF AtHand
<1>3. CASE CheckGeneration /\ worker' # AfterFlush
  <2>1. PICK n, x : /\ x = [reply |-> seen, generation |-> generation, at |-> pending[seen].flushed, size |-> n]
                    /\ worker' = [worker EXCEPT !.step = "put", !.chunk = x]
    BY <1>3 DEF CheckGeneration
  <2>2. worker'.chunk = x
    BY <1>1, <2>1 DEF Workers
  <2>3. UNCHANGED pending
    BY <1>3 DEF CheckGeneration
  <2> QED BY <1>1, <2>1, <2>2, <2>3 DEF AtHand
<1>4. CASE PutChunk /\ worker' # AfterFlush
  <2>1. worker.step = "put" /\ worker' = [worker EXCEPT !.step = "count"] /\ UNCHANGED pending
    BY <1>4 DEF PutChunk
  <2>2. worker'.chunk = worker.chunk
    BY <1>1, <2>1 DEF Workers
  <2> QED BY <1>1, <2>1, <2>2 DEF BooksInv, AtHand
<1> QED BY <1>2, <1>3, <1>4

LEMMA BooksKept ==
    ASSUME IInv, IInv', BooksInv, Next
    PROVE  Kept
<1>1. /\ ledgers \in [Keys -> Ledgers] /\ Len(playback) <= Capacity /\ playback \in Seq(Chunks)
      /\ Len(playback) \in Nat /\ Capacity \in Nat
  BY MouthAssumption DEF IInv, Places, BooksInv, Ledgered
<1>2. \A r \in Replies : Gone(r) \in Nat
  BY <1>1, NoneIsAKey, Numbers
<1>3. CASE Quiet
  BY <1>3, QuietIsQuiet, QuietBooks
<1>4. CASE PutChunk /\ Len(playback) < Capacity
  <2>1. \A r \in Replies : Balanced(r)' /\ Gone(r)' = Gone(r)
    BY <1>4, PutChunkBooks
  <2>2. playback' = Append(playback, worker.chunk) /\ worker.chunk \in Chunks /\ UNCHANGED ledgers
    BY <1>4 DEF PutChunk, IInv, Places, Workers
  <2>3. Len(playback') = Len(playback) + 1
    BY <1>1, <2>2, AppendProperties
  <2>4. Len(playback') <= Capacity
    BY <1>1, <1>4, <2>3
  <2>5. \A r \in Replies : Gone(r)' \in Nat /\ Gone(r)' >= Gone(r)
    BY <1>2, <2>1
  <2> QED BY <1>1, <2>1, <2>2, <2>4, <2>5 DEF Kept
<1>5. CASE CountChunk \/ Seal \/ (\E c \in Cutters : Account(c)) \/ Adopt \/ SkipStale \/ \E ok \in BOOLEAN : PlayReturns(ok)
  <2>1. /\ \A r \in Replies : Balanced(r)' /\ Gone(r)' = Gone(r)
        /\ ledgers' \in [Keys -> Ledgers]
    BY <1>5, CountChunkBooks, SealBooks, AccountBooks, MouthBooks
  <2>2. UNCHANGED playback
    BY <1>5 DEF CountChunk, Seal, Account, Adopt, SkipStale, PlayReturns
  <2>3. \A r \in Replies : Gone(r)' \in Nat /\ Gone(r)' >= Gone(r)
    BY <1>2, <2>1
  <2> QED BY <1>1, <2>1, <2>2, <2>3 DEF Kept
<1>6. CASE Take \/ \E c \in Cutters : DrainOne(c) /\ playback # <<>>
  <2>1. /\ \A r \in Replies : Balanced(r)' /\ Gone(r)' = Gone(r) + Weight(r, Head(playback))
        /\ playback # <<>> /\ playback' = Tail(playback) /\ UNCHANGED ledgers
    <3>1. CASE Take
      BY <3>1, TakeBooks DEF Take
    <3>2. CASE \E c \in Cutters : DrainOne(c) /\ playback # <<>>
      BY <3>2, DrainOneBooks DEF DrainOne
    <3> QED BY <1>6, <3>1, <3>2
  <2>2. Len(playback') = Len(playback) - 1 /\ Head(playback) \in Chunks
    BY <1>1, <2>1, TailOf
  <2>3. Len(playback') <= Capacity
    BY <1>1, <2>2
  <2>4. \A r \in Replies : Weight(r, Head(playback)) \in Nat
    BY <2>2, WeightNat
  <2>5. \A r \in Replies : Gone(r)' \in Nat /\ Gone(r)' >= Gone(r)
    BY <1>2, <2>1, <2>4
  <2> QED BY <1>1, <2>1, <2>3, <2>5 DEF Kept
<1>7. Len(playback) < Capacity \/ Len(playback) >= Capacity
  BY <1>1
<1> QED BY <1>3, <1>4, <1>5, <1>6, <1>7 DEF Next, Hand, Mouth, Cut, Quiet

LEMMA BooksStep ==
    ASSUME IInv, IInv', BooksInv, [Next]_vars
    PROVE  BooksInv'
<1>1. CASE Next
  <2>1. Kept /\ Emptied' /\ AtHand'
    BY <1>1, BooksKept, EmptiedKeep, HandsKeep, HandsTake
  <2>2. spoken' \in [Replies -> [whole : Nat, part : Nat]]
    <3>1. CASE Tap
      BY <3>1, TapRecords DEF BooksInv, Ledgered
    <3>2. CASE ~Tap
      <4>1. UNCHANGED spoken
        BY <1>1, <3>2 DEF Next, Wire, Hand, Mouth, Cut, ResponseCreated, AudioDelta, ResponseDone,
           ResponseInterrupted, SpeechStarted, Reconnect, CheckGeneration, PutChunk, CountChunk, Seal,
           Take, Adopt, SkipStale, PlayReturns, OperatorCut, Bump, DrainOne, Account
      <4> QED BY <4>1 DEF BooksInv, Ledgered
    <3> QED BY <3>1, <3>2
  <2> QED BY <2>1, <2>2 DEF Kept, BooksInv, Ledgered
<1>2. CASE UNCHANGED vars
  <2>1. \A r \in Replies : Balanced(r)'
    BY <1>2, BooksStay DEF vars, BooksInv, Ledgered
  <2>2. AtHand' /\ Emptied' /\ Ledgered'
    BY <1>2 DEF vars, BooksInv, AtHand, Emptied, Ledgered
  <2> QED BY <2>1, <2>2 DEF BooksInv
<1> QED BY <1>1, <1>2

LEMMA BooksHold == Spec => [](IInv /\ BooksInv)
<1>1. IInv /\ BooksInv /\ [Next]_vars /\ IInv' => BooksInv'
  BY BooksStep
<1> QED BY Inductive, BooksInitially, <1>1, PTL DEF Spec

\* Every unit of every reply is in exactly one place, spoken, in the speaker, skipped,
\* queued, taken or in a cut's hands, and the counter covers what a cut could still
\* withhold (_offer_chunk, _begin_chunk, cancel_playback).
THEOREM MouthIsAccounted == Spec => []MouthAccounts
<1>1. IInv /\ BooksInv => MouthAccounts
  <2> SUFFICES ASSUME IInv, BooksInv PROVE MouthAccounts
    OBVIOUS
  <2>1. TypeOK
    <3>1. arriving => seen > 0
      BY DEF IInv, AtWork, Places, Replies
    <3> QED BY <3>1, Zenon DEF IInv, Places, Workers, CutStates, Mouths, Phases, BooksInv, Ledgered, TypeOK
  <2>2. PendingCovers
    BY DEF IInv
  <2>3. LedgerBalances
    <3> SUFFICES ASSUME NEW r \in Replies
                 PROVE  /\ ledgers[r].inflight = InFlight(r)
                        /\ ledgers[r].queued + Counting(r)
                             = ledgers[r].played + ledgers[r].inflight + ledgers[r].skipped
                               + UnitsOf(r, playback) + Held(r)
                               + UnitsOf(r, cuts["worker"].drained) + UnitsOf(r, cuts["operator"].drained)
      BY Zenon DEF LedgerBalances, Counting, Held
    <3>1. PICK p, i, s, u, h, a, b :
             /\ p = ledgers[r].played /\ i = ledgers[r].inflight /\ s = ledgers[r].skipped
             /\ u = UnitsOf(r, playback) /\ h = Held(r)
             /\ a = UnitsOf(r, cuts["worker"].drained) /\ b = UnitsOf(r, cuts["operator"].drained)
      OBVIOUS
    <3>2. p \in Nat /\ i \in Nat /\ s \in Nat /\ u \in Nat /\ h \in Nat /\ a \in Nat /\ b \in Nat
      BY <3>1, NoneIsAKey, Numbers DEF BooksInv, Ledgered
    <3>3. ledgers[r].inflight = InFlight(r) /\ ledgers[r].queued + Counting(r) = p + i + s + h + (a + b) + u
      BY <3>1 DEF BooksInv, Balanced, Gone, Drained
    <3>4. p + i + s + h + (a + b) + u = p + i + s + u + h + a + b
      BY <3>2
    <3> QED BY <3>1, <3>3, <3>4
  <2> QED BY <2>1, <2>2, <2>3 DEF MouthAccounts
<1> QED BY BooksHold, <1>1, PTL

-----------------------------------------------------------------------------
(* The order of the audio *)

\* All of reply r up to its n-th unit left the queue, or is among its first i chunks.
Reaches(n, r, i) ==
    n <= Gone(r) \/ \E j \in 1 .. i : playback[j].reply = r /\ n <= playback[j].at + playback[j].size

\* A chunk comes after all that precedes it in its reply; the next comes after them all.
Follows == \A j \in 1 .. Len(playback) : Reaches(playback[j].at, playback[j].reply, j - 1)
Reached == seen \in Replies => Reaches(pending[seen].flushed + Counting(seen), seen, Len(playback))

\* What the mouth took left the queue, and all that precedes it in its reply before it.
Left == mouth.state = "taken" => mouth.chunk.at + mouth.chunk.size <= Gone(mouth.chunk.reply)

\* The replies are in the order of their creation: the one last in the speaker, the
\* mouth's, those of the queue.
InOrder ==
    /\ current <= seen
    /\ mouth.state # "idle" => current <= mouth.chunk.reply
    /\ \A i \in 1 .. Len(playback) :
          /\ current <= playback[i].reply
          /\ mouth.state # "idle" => mouth.chunk.reply <= playback[i].reply
          /\ \A j \in i .. Len(playback) : playback[i].reply <= playback[j].reply

\* No reply is younger than the last cut, and while the worker cuts every one is older.
Older ==
    \A q \in 1 .. seen :
        /\ pending[q].generation <= generation
        /\ cuts["worker"].phase \in {"drain", "account"} => pending[q].generation < generation

SeqInv == Follows /\ Reached /\ Left /\ InOrder /\ Older

LEMMA SeqInitially == Init => SeqInv
<1> SUFFICES ASSUME Init PROVE SeqInv
  OBVIOUS
<1>1. Len(playback) = 0 /\ seen = 0 /\ current = 0 /\ mouth.state = "idle"
  <2>1. Len(<<>>) = 0
    OBVIOUS
  <2> QED BY <2>1 DEF Init, None
<1> QED BY <1>1 DEF SeqInv, Follows, Reached, Left, InOrder, Older, Replies

LEMMA Indexed ==
    ASSUME IInv
    PROVE  /\ Len(playback) \in Nat
           /\ \A i \in 1 .. Len(playback) : /\ playback[i] \in Chunks /\ playback[i].reply \in 1 .. seen
                                            /\ playback[i].reply \in Replies /\ playback[i].at \in Nat
                                            /\ playback[i].size \in Nat
           /\ seen \in Nat /\ current \in Nat /\ MaxReplies \in Nat /\ seen <= MaxReplies
<1>1. playback \in Seq(Chunks) /\ seen \in 0 .. MaxReplies /\ MaxReplies \in Nat /\ current \in Keys
  BY MouthAssumption DEF IInv, Places
<1>2. Len(playback) \in Nat /\ \A i \in 1 .. Len(playback) : playback[i] \in Chunks
  BY <1>1
<1>3. current \in Nat
  BY <1>1 DEF Keys, Replies, None
<1>4. \A i \in 1 .. Len(playback) : playback[i].reply \in 1 .. seen
  BY DEF IInv, Stamped, Genuine
<1>5. \A i \in 1 .. Len(playback) : playback[i].reply \in Replies
  BY <1>1, <1>4 DEF Replies
<1> QED BY <1>1, <1>2, <1>3, <1>4, <1>5 DEF Chunks

\* What left the queue stays out of it.
LEMMA ReachesStays ==
    ASSUME NEW n \in Nat, NEW r, NEW i \in Nat, Gone(r) \in Nat, Gone(r)' \in Nat, Gone(r)' >= Gone(r),
           \A j \in 1 .. i : playback'[j] = playback[j], Reaches(n, r, i)
    PROVE  Reaches(n, r, i)'
<1>1. CASE n <= Gone(r)
  <2>1. PICK g, h : g = Gone(r) /\ h = Gone(r)'
    OBVIOUS
  <2>2. n <= h
    BY <1>1, <2>1
  <2> QED BY <2>1, <2>2 DEF Reaches
<1>2. CASE \E j \in 1 .. i : playback[j].reply = r /\ n <= playback[j].at + playback[j].size
  BY <1>2 DEF Reaches
<1> QED BY <1>1, <1>2 DEF Reaches

LEMMA FollowsStays ==
    ASSUME IInv, Follows, Kept, UNCHANGED playback, \A r \in Replies : Gone(r) \in Nat
    PROVE  Follows'
<1> SUFFICES ASSUME NEW j \in 1 .. Len(playback) PROVE Reaches(playback[j].at, playback[j].reply, j - 1)'
  BY DEF Follows
<1>1. PICK n, r : n = playback[j].at /\ r = playback[j].reply
  OBVIOUS
<1>2. n \in Nat /\ r \in Replies /\ j - 1 \in Nat /\ Reaches(n, r, j - 1)
  BY <1>1, Indexed DEF Follows
<1>3. Gone(r) \in Nat /\ Gone(r)' \in Nat /\ Gone(r)' >= Gone(r)
  BY <1>2 DEF Kept
<1>4. Reaches(n, r, j - 1)'
  BY <1>2, <1>3, ReachesStays
<1> QED BY <1>1, <1>4 DEF Reaches

LEMMA ReachedStays ==
    ASSUME IInv, Reached, Kept, UNCHANGED <<playback, seen>>, \A r \in Replies : Gone(r) \in Nat,
           NEW n \in Nat, n = pending[seen].flushed + Counting(seen),
           n = pending'[seen].flushed + Counting(seen)'
    PROVE  Reached'
<1> SUFFICES ASSUME seen \in Replies PROVE Reaches(n, seen, Len(playback))'
  BY DEF Reached, Reaches
<1>1. Len(playback) \in Nat /\ Reaches(n, seen, Len(playback))
  BY Indexed DEF Reached
<1>2. PICK r \in Replies : r = seen
  OBVIOUS
<1>3. Gone(r) \in Nat /\ Gone(r)' \in Nat /\ Gone(r)' >= Gone(r)
  BY DEF Kept
<1>4. Reaches(n, r, Len(playback))'
  <2>1. PICK m \in Nat : m = Len(playback)
    BY <1>1
  <2>2. Reaches(n, r, m)'
    BY <1>1, <1>2, <1>3, <2>1, ReachesStays
  <2> QED BY <2>1, <2>2 DEF Reaches
<1> QED BY <1>2, <1>4 DEF Reaches

LEMMA LeftStays ==
    ASSUME IInv, Left, Kept, UNCHANGED mouth, \A r \in Replies : Gone(r) \in Nat
    PROVE  Left'
<1> SUFFICES ASSUME mouth.state = "taken" PROVE mouth.chunk.at + mouth.chunk.size <= Gone(mouth.chunk.reply)'
  BY DEF Left
<1>1. PICK n, r : n = mouth.chunk.at + mouth.chunk.size /\ r = mouth.chunk.reply
  OBVIOUS
<1>2. n \in Nat /\ r \in Replies
  <2>1. mouth.chunk \in Chunks /\ mouth.chunk.reply \in 1 .. seen
    BY DEF IInv, Places, Mouths, Stamped, Genuine
  <2> QED BY <1>1, <2>1, Indexed DEF Chunks, Replies
<1>3. PICK g, h : g = Gone(r) /\ h = Gone(r)'
  OBVIOUS
<1>4. g \in Nat /\ h \in Nat /\ h >= g /\ n <= g
  BY <1>1, <1>2, <1>3 DEF Kept, Left
<1> QED BY <1>1, <1>2, <1>3, <1>4 DEF Gone, Held, Drained

\* Nobody makes a reply younger, and only a bump makes a cut overtake one.
LEMMA OlderStays ==
    ASSUME IInv, IInv', Older, Next
    PROVE  Older'
<1>0. /\ cuts \in [Cutters -> CutStates] /\ pending \in [Replies -> Pendings] /\ 1 .. seen \subseteq Replies
      /\ generation \in Nat /\ seen \in 0 .. MaxReplies /\ MaxReplies \in Nat
      /\ \A q \in Replies : pending[q].generation \in Nat /\ pending[q] \in Pendings
      /\ "worker" \in Cutters /\ worker \in Workers
  <2>1. /\ cuts \in [Cutters -> CutStates] /\ pending \in [Replies -> Pendings]
        /\ generation \in Nat /\ seen \in 0 .. MaxReplies /\ worker \in Workers
    BY DEF IInv, Places
  <2>2. MaxReplies \in Nat
    BY MouthAssumption
  <2>3. 1 .. seen \subseteq Replies
    BY <2>1, <2>2 DEF Replies
  <2>4. \A q \in Replies : pending[q].generation \in Nat /\ pending[q] \in Pendings
    BY <2>1 DEF Pendings
  <2> QED BY <2>1, <2>2, <2>3, <2>4 DEF Cutters
<1>1. ASSUME UNCHANGED <<seen, generation>>, \A q \in 1 .. seen : pending'[q].generation = pending[q].generation,
             cuts'["worker"].phase \in {"drain", "account"} => cuts["worker"].phase \in {"drain", "account"}
      PROVE  Older'
  BY <1>1 DEF Older
<1>2. CASE ResponseCreated
  <2>1. cuts["worker"].phase = "none" /\ UNCHANGED <<cuts, generation>> /\ seen' = seen + 1 /\ seen + 1 \in Replies
    <3>1. cuts["worker"].phase = "none"
      BY <1>2, Zenon DEF ResponseCreated, IInv, Cutting
    <3>2. UNCHANGED <<cuts, generation>> /\ seen' = seen + 1 /\ seen < MaxReplies
      BY <1>2 DEF ResponseCreated
    <3> QED BY <1>0, <3>1, <3>2 DEF Replies
  <2> QED
    <3>1. \A q \in 1 .. seen' : pending'[q].generation <= generation
      <4>1. \A q \in 1 .. seen : pending'[q] = pending[q]
        BY <1>0, <1>2 DEF ResponseCreated
      <4>2. pending'[seen + 1].generation = generation
        BY <1>0, <1>2, <2>1 DEF ResponseCreated, NewPending
      <4> QED BY <1>0, <2>1, <4>1, <4>2 DEF Older
    <3> QED BY <2>1, <3>1 DEF Older
<1>3. CASE \E c \in Cutters : Bump(c)
  <2> PICK c \in Cutters : Bump(c)
    BY <1>3
  <2>1. generation' = generation + 1 /\ UNCHANGED <<pending, seen>>
    BY DEF Bump
  <2>2. \A q \in 1 .. seen : pending[q].generation < generation + 1 /\ pending[q].generation <= generation + 1
    BY <1>0 DEF Older
  <2> QED BY <2>1, <2>2 DEF Older
<1>4. CASE AudioDelta \/ PutChunk \/ CountChunk
  <2>1. UNCHANGED <<seen, generation, cuts>>
    BY <1>4 DEF AudioDelta, PutChunk, CountChunk
  <2>2. seen \in Replies /\ worker.chunk.size \in Nat
    BY <1>0, <1>4 DEF AudioDelta, PutChunk, CountChunk, IInv, AtWork, Workers, Chunks
  <2>3. PICK p : /\ pending' = [pending EXCEPT ![seen] = p] /\ p \in Pendings
                 /\ p.generation = pending[seen].generation
    <3>1. CASE AudioDelta
      <4>1. PICK q, n : q = pending[seen] /\ n = worker.chunk.size
        OBVIOUS
      <4>2. PICK p : p = [q EXCEPT !.audio = @ + 1]
        OBVIOUS
      <4>3. q \in Pendings /\ n \in Nat
        BY <1>0, <2>2, <4>1
      <4>4. p \in Pendings /\ p.generation = q.generation
        BY <4>2, <4>3, PendingEdits
      <4>5. pending' = [pending EXCEPT ![seen] = p]
        BY <3>1, <4>1, <4>2 DEF AudioDelta
      <4> QED BY <4>1, <4>4, <4>5
    <3>2. CASE CountChunk
      <4>1. PICK q, n : q = pending[seen] /\ n = worker.chunk.size
        OBVIOUS
      <4>2. PICK p : p = [q EXCEPT !.flushed = @ + n]
        OBVIOUS
      <4>3. q \in Pendings /\ n \in Nat
        BY <1>0, <2>2, <4>1
      <4>4. p \in Pendings /\ p.generation = q.generation
        BY <4>2, <4>3, PendingEdits
      <4>5. pending' = [pending EXCEPT ![seen] = p]
        BY <3>2, <4>1, <4>2 DEF CountChunk
      <4> QED BY <4>1, <4>4, <4>5
    <3>3. CASE PutChunk
      <4>1. PICK p : p = [pending[seen] EXCEPT !.truncated = TRUE]
        OBVIOUS
      <4>2. CASE pending' = [pending EXCEPT ![seen] = Refuse(@)]
        BY <1>0, <2>2, <4>1, <4>2, PendingEdits DEF Refuse
      <4>3. CASE UNCHANGED pending
        BY <1>0, <2>2, <4>3
      <4> QED BY <3>3, <4>2, <4>3 DEF PutChunk
    <3> QED BY <1>4, <3>1, <3>2, <3>3
  <2> QED BY <1>1, <2>1, <2>2, <2>3, CountsKeepStamps
<1>5. CASE SpeechStarted \/ Reconnect \/ Seal \/ OperatorCut
  <2>1. UNCHANGED <<seen, generation, pending>>
    BY <1>5 DEF SpeechStarted, Reconnect, Seal, OperatorCut
  <2>2. NoCut \in CutStates
    BY NoneIsAKey DEF NoCut, CutStates, Phases
  <2>3. PICK c \in Cutters, k \in {seen} :
           \/ UNCHANGED cuts
           \/ cuts' = [cuts EXCEPT ![c] = [NoCut EXCEPT !.phase = "bump"]]
           \/ cuts' = [cuts EXCEPT ![c] = [NoCut EXCEPT !.phase = "bump", !.key = k]]
    BY <1>5 DEF SpeechStarted, Reconnect, Seal, OperatorCut, Cutters
  <2>4. [NoCut EXCEPT !.phase = "bump"].phase = "bump" /\ [NoCut EXCEPT !.phase = "bump", !.key = k].phase = "bump"
    BY DEF NoCut
  <2>5. cuts'["worker"].phase \in {"drain", "account"} => cuts["worker"].phase \in {"drain", "account"}
    BY <1>0, <2>3, <2>4
  <2> QED BY <1>1, <2>1, <2>5
<1>6. CASE \E c \in Cutters : DrainOne(c) \/ Account(c)
  <2> PICK c \in Cutters : DrainOne(c) \/ Account(c)
    BY <1>6
  <2>1. UNCHANGED <<seen, generation, pending>>
    BY DEF DrainOne, Account
  <2>2. cuts'["worker"].phase \in {"drain", "account"} => cuts["worker"].phase \in {"drain", "account"}
    BY <1>0 DEF DrainOne, Account, NoCut, CutStates
  <2> QED BY <1>1, <2>1, <2>2
<1>7. CASE ResponseDone \/ ResponseInterrupted \/ CheckGeneration \/ Tap \/ Mouth
  <2>1. UNCHANGED <<seen, generation, pending, cuts>>
    BY <1>7 DEF ResponseDone, ResponseInterrupted, CheckGeneration, Tap, Mouth, Take, Adopt, SkipStale,
       PlayReturns
  <2> QED BY <1>1, <2>1
<1> QED BY <1>2, <1>3, <1>4, <1>5, <1>6, <1>7 DEF Next, Wire, Hand, Cut

LEMMA InOrderStays ==
    ASSUME IInv, IInv', InOrder, Next, UNCHANGED playback
    PROVE  InOrder'
<1>1. /\ seen \in Nat /\ current \in Nat /\ mouth \in Mouths
      /\ mouth.state # "idle" => mouth.chunk.reply \in 1 .. seen
      /\ Len(playback) \in Nat /\ \A i \in 1 .. Len(playback) : playback[i].reply \in Nat
  BY Indexed DEF IInv, Places, Stamped, Genuine
<1>2. CASE Adopt
  <2>1. /\ current' = mouth.chunk.reply /\ seen' = seen /\ mouth'.state = "playing"
        /\ mouth'.chunk = mouth.chunk /\ mouth.state = "taken"
    BY <1>1, <1>2 DEF Adopt, Mouths
  <2> QED BY <1>1, <2>1 DEF InOrder
<1>3. CASE SkipStale \/ \E ok \in BOOLEAN : PlayReturns(ok)
  <2>1. mouth'.state = "idle" /\ UNCHANGED <<seen, current>>
    BY <1>3 DEF SkipStale, PlayReturns
  <2> QED BY <2>1 DEF InOrder
<1>4. CASE Wire \/ Hand \/ OperatorCut \/ \E c \in Cutters : Cut(c)
  <2>1. UNCHANGED <<mouth, current>> /\ seen' \in {seen, seen + 1}
    BY <1>4 DEF Wire, Hand, Cut, ResponseCreated, AudioDelta, ResponseDone, ResponseInterrupted,
       SpeechStarted, Reconnect, CheckGeneration, PutChunk, CountChunk, Seal, Tap, OperatorCut,
       Bump, DrainOne, Account
  <2>2. current <= seen'
    BY <1>1, <2>1 DEF InOrder
  <2> QED BY <2>1, <2>2 DEF InOrder
<1>5. CASE Take
  <2>1. Len(Tail(playback)) = Len(playback) - 1 /\ playback' = Tail(playback)
    BY <1>5, TailOf DEF Take, IInv, Places
  <2>2. PICK n : n = Len(playback)
    OBVIOUS
  <2>3. n \in Nat /\ n = n - 1
    BY <1>1, <2>1, <2>2
  <2> QED BY <2>3
<1> QED BY <1>2, <1>3, <1>4, <1>5 DEF Next, Mouth

\* The chunk that joins the queue is the next of the youngest reply.
LEMMA PutInOrder ==
    ASSUME IInv, BooksInv, Kept, SeqInv, PutChunk, Len(playback) < Capacity
    PROVE  Follows' /\ Reached' /\ InOrder'
<1> DEFINE N == Len(playback)
           x == worker.chunk
<1>1. /\ worker.step = "put" /\ worker \in Workers /\ x \in Chunks /\ x.reply = seen /\ seen \in Replies
      /\ x.at = pending[seen].flushed /\ x.at \in Nat /\ x.size \in Nat
      /\ playback \in Seq(Chunks) /\ playback' = Append(playback, x)
      /\ worker' = [worker EXCEPT !.step = "count"]
      /\ UNCHANGED <<pending, seen, current, mouth, ledgers, cuts>>
  BY DEF PutChunk, IInv, Places, AtWork, Workers, Chunks, BooksInv, AtHand
<1>2. /\ N \in Nat /\ Len(playback') = N + 1 /\ playback'[N + 1] = x
      /\ \A i \in 1 .. N : playback'[i] = playback[i]
  BY <1>1, AppendProperties
<1> HIDE DEF N, x
<1>3. \A r \in Replies : Gone(r) \in Nat /\ Gone(r)' \in Nat /\ Gone(r)' >= Gone(r)
  BY NoneIsAKey, Numbers DEF Kept, BooksInv, Ledgered
<1>4. Counting(seen) = 0 /\ Counting(seen)' = x.size
  BY <1>1 DEF Counting, Workers, x
<1>6. Follows'
  <2> SUFFICES ASSUME NEW j \in 1 .. N + 1
               PROVE  Reaches(playback[j].at, playback[j].reply, j - 1)'
    BY <1>2 DEF Follows
  <2>1. CASE j = N + 1
    <3>1. playback'[j] = x /\ x.reply = seen /\ j - 1 = N /\ x' = x /\ seen' = seen
      BY <1>1, <1>2, <2>1 DEF x, Workers
    <3>2. N' = N + 1
      BY <1>2 DEF N
    <3>3. PICK n, r, m : n = x.at /\ r = seen /\ m = N
      OBVIOUS
    <3>4. Reaches(n, r, m)'
      <4>1. Reaches(n, r, m)
        <5>1. pending[seen].flushed + Counting(seen) = x.at
          BY <1>1, <1>4
        <5> QED BY <1>1, <3>3, <5>1 DEF SeqInv, Reached, N
      <4> QED BY <1>1, <1>2, <1>3, <3>3, <4>1, ReachesStays
    <3> QED BY <3>1, <3>3, <3>4 DEF Reaches
  <2>2. CASE j # N + 1
    <3>1. j \in 1 .. N /\ playback'[j] = playback[j] /\ j - 1 \in Nat
      BY <1>2, <2>2
    <3>2. PICK n, r : n = playback[j].at /\ r = playback[j].reply
      OBVIOUS
    <3>3. n \in Nat /\ r \in Replies /\ Reaches(n, r, j - 1)
      BY <3>1, <3>2, Indexed DEF SeqInv, Follows, N
    <3>4. \A i \in 1 .. j - 1 : playback'[i] = playback[i]
      BY <1>2, <3>1
    <3>5. Reaches(n, r, j - 1)'
      BY <1>3, <3>1, <3>3, <3>4, ReachesStays
    <3> QED BY <3>1, <3>2, <3>5 DEF Reaches
  <2> QED BY <2>1, <2>2
<1>7. Reached'
  <2>1. pending'[seen].flushed + Counting(seen)' = x.at + x.size
    BY <1>1, <1>4
  <2>2. PICK m : m = N + 1
    OBVIOUS
  <2>3. m \in 1 .. m /\ playback'[m].reply = seen /\ x.at + x.size <= playback'[m].at + playback'[m].size
    BY <1>1, <1>2, <2>2
  <2>4. Len(playback') = m
    BY <1>2, <2>2
  <2> QED BY <1>1, <2>1, <2>3, <2>4 DEF Reached, Reaches
<1>8. InOrder'
  <2>1. \A i \in 1 .. N + 1 : playback'[i].reply = IF i = N + 1 THEN seen ELSE playback[i].reply
    BY <1>1, <1>2
  <2>2. /\ current \in Nat /\ seen \in Nat
        /\ \A i \in 1 .. N : playback[i].reply \in 1 .. seen
        /\ mouth.state # "idle" => mouth.chunk.reply \in 1 .. seen
    BY Indexed DEF IInv, Stamped, Genuine, N
  <2>3. /\ current <= seen
        /\ mouth.state # "idle" => current <= mouth.chunk.reply
        /\ \A i \in 1 .. N : /\ current <= playback[i].reply
                             /\ mouth.state # "idle" => mouth.chunk.reply <= playback[i].reply
                             /\ \A j \in i .. N : playback[i].reply <= playback[j].reply
    BY DEF SeqInv, InOrder, N
  <2>4. ASSUME NEW i \in 1 .. N + 1
        PROVE  /\ current <= playback'[i].reply
               /\ mouth.state # "idle" => mouth.chunk.reply <= playback'[i].reply
               /\ \A j \in i .. N + 1 : playback'[i].reply <= playback'[j].reply
    <3>1. CASE i = N + 1
      BY <1>2, <2>1, <2>2, <2>3, <3>1
    <3>2. CASE i # N + 1
      <4>1. i \in 1 .. N /\ playback'[i].reply = playback[i].reply
        BY <1>2, <2>1, <3>2
      <4>2. ASSUME NEW j \in i .. N + 1 PROVE playback[i].reply <= playback'[j].reply
        <5>1. j \in 1 .. N + 1
          BY <1>2, <4>1
        <5>2. CASE j = N + 1
          BY <1>2, <2>1, <2>2, <4>1, <5>1, <5>2
        <5>3. CASE j # N + 1
          <6>1. j \in i .. N
            BY <1>2, <4>1, <5>3
          <6> QED BY <2>1, <2>3, <4>1, <5>1, <5>3, <6>1
        <5> QED BY <5>2, <5>3
      <4> QED BY <2>3, <4>1, <4>2
    <3> QED BY <3>1, <3>2
  <2> QED BY <1>1, <1>2, <2>3, <2>4 DEF InOrder
<1> QED BY <1>6, <1>7, <1>8

\* The head of the queue leaves it, for the mouth or a cut's hands; what comes after
\* it still comes after all that precedes it, for what was first in the queue has
\* left it.
LEMMA HeadLeaves ==
    ASSUME IInv, SeqInv, \A r \in Replies : Gone(r) \in Nat,
           playback # <<>>, playback' = Tail(playback),
           \A r \in Replies : Gone(r)' = Gone(r) + Weight(r, Head(playback)),
           NEW n \in Nat, NEW r \in Replies, NEW i \in 1 .. Len(playback), Reaches(n, r, i)
    PROVE  Reaches(n, r, i - 1)'
<1> DEFINE h == Head(playback)
<1>1. /\ Len(playback') = Len(playback) - 1 /\ h = playback[1] /\ 1 \in 1 .. Len(playback)
      /\ Len(playback) \in Nat
      /\ \A j \in 1 .. Len(playback) - 1 : playback'[j] = playback[j + 1]
  <2>1. /\ Len(Tail(playback)) = Len(playback) - 1 /\ h = playback[1] /\ Len(playback) \in Nat
        /\ \A j \in 1 .. Len(Tail(playback)) : Tail(playback)[j] = playback[j + 1]
    BY TailOf DEF IInv, Places
  <2>2. Len(playback) # 0
    BY DEF IInv, Places
  <2> QED BY <2>1, <2>2
<1>2. /\ h \in Chunks /\ h.reply \in Replies /\ h.at \in Nat /\ h.size \in Nat
  BY <1>1, Indexed
<1>3. h.at <= Gone(h.reply)
  <2>1. Reaches(h.at, h.reply, 1 - 1)
    BY <1>1 DEF SeqInv, Follows
  <2> QED BY <2>1 DEF Reaches
<1>4. PICK g, w : g = Gone(r) /\ w = Weight(r, h)
  OBVIOUS
<1>5. g \in Nat /\ w \in Nat /\ Gone(r)' = g + w
  BY <1>2, <1>4, WeightNat
<1>6. CASE n <= Gone(r)
  <2>1. n <= g + w
    BY <1>4, <1>5, <1>6
  <2> QED BY <1>5, <2>1 DEF Reaches
<1>7. CASE n > Gone(r)
  <2>1. PICK j \in 1 .. i : playback[j].reply = r /\ n <= playback[j].at + playback[j].size
    <3>1. ~(n <= Gone(r))
      BY <1>4, <1>5, <1>7
    <3> QED BY <3>1 DEF Reaches
  <2>2. CASE j = 1
    <3>1. h.reply = r /\ n <= h.at + h.size /\ w = h.size /\ h.at <= g
      BY <1>1, <1>3, <1>4, <2>1, <2>2 DEF Weight
    <3>2. n <= g + w
      BY <1>2, <1>5, <3>1
    <3> QED BY <1>5, <3>2 DEF Reaches
  <2>3. CASE j # 1
    <3>1. j - 1 \in 1 .. i - 1 /\ j - 1 \in 1 .. Len(playback) - 1 /\ (j - 1) + 1 = j
      BY <1>1, <2>1, <2>3
    <3>2. playback'[j - 1] = playback[j]
      BY <1>1, <3>1
    <3> QED BY <2>1, <3>1, <3>2 DEF Reaches
  <2> QED BY <2>2, <2>3
<1> QED BY <1>4, <1>5, <1>6, <1>7

LEMMA TailInOrder ==
    ASSUME IInv, SeqInv, \A r \in Replies : Gone(r) \in Nat,
           playback # <<>>, playback' = Tail(playback),
           \A r \in Replies : Gone(r)' = Gone(r) + Weight(r, Head(playback)),
           UNCHANGED <<pending, seen, worker, current>>,
           mouth' = mouth \/ (mouth'.state # "idle" /\ mouth'.chunk = Head(playback))
    PROVE  Follows' /\ Reached' /\ InOrder'
<1> DEFINE N == Len(playback)
<1>1. /\ Len(playback') = N - 1 /\ Head(playback) = playback[1] /\ N \in Nat /\ N # 0
      /\ \A j \in 1 .. N - 1 : playback'[j] = playback[j + 1]
  <2>1. /\ Len(Tail(playback)) = N - 1 /\ Head(playback) = playback[1] /\ N \in Nat
        /\ \A j \in 1 .. Len(Tail(playback)) : Tail(playback)[j] = playback[j + 1]
    BY TailOf DEF IInv, Places
  <2>2. N # 0
    BY DEF IInv, Places
  <2> QED BY <2>1, <2>2
<1>2. Follows'
  <2> SUFFICES ASSUME NEW j \in 1 .. N - 1
               PROVE  Reaches(playback[j].at, playback[j].reply, j - 1)'
    BY <1>1 DEF Follows
  <2>1. j + 1 \in 1 .. N /\ playback'[j] = playback[j + 1] /\ j \in 1 .. N /\ (j + 1) - 1 = j
    BY <1>1
  <2>2. PICK n, r : n = playback[j + 1].at /\ r = playback[j + 1].reply
    OBVIOUS
  <2>3. n \in Nat /\ r \in Replies /\ Reaches(n, r, j)
    BY <2>1, <2>2, Indexed DEF SeqInv, Follows
  <2>4. Reaches(n, r, j - 1)'
    BY <2>1, <2>3, HeadLeaves
  <2> QED BY <2>1, <2>2, <2>4 DEF Reaches
<1>3. Reached'
  <2> SUFFICES ASSUME seen \in Replies
               PROVE  Reaches(pending[seen].flushed + Counting(seen), seen, Len(playback))'
    BY DEF Reached
  <2>1. PICK n, r, m : n = pending[seen].flushed + Counting(seen) /\ r = seen /\ m = N
    OBVIOUS
  <2>2. n \in Nat
    <3>1. pending \in [Replies -> Pendings] /\ worker \in Workers
      BY DEF IInv, Places
    <3>2. pending[seen].flushed \in Nat
      BY <3>1 DEF Pendings
    <3>3. Counting(seen) \in Nat
      BY <3>1 DEF Workers, Chunks, Counting
    <3> QED BY <2>1, <3>2, <3>3
  <2>3. r \in Replies /\ m \in 1 .. Len(playback) /\ Reaches(n, r, m)
    BY <1>1, <2>1 DEF SeqInv, Reached
  <2>4. Reaches(n, r, m - 1)'
    BY <2>2, <2>3, HeadLeaves
  <2>5. n = pending'[seen].flushed + Counting(seen)'
    BY <2>1 DEF Counting
  <2> QED BY <1>1, <2>1, <2>4, <2>5 DEF Reaches
<1>4. InOrder'
  <2>1. /\ current <= seen
        /\ mouth.state # "idle" => current <= mouth.chunk.reply
        /\ \A i \in 1 .. N : /\ current <= playback[i].reply
                             /\ mouth.state # "idle" => mouth.chunk.reply <= playback[i].reply
                             /\ \A j \in i .. N : playback[i].reply <= playback[j].reply
    BY DEF SeqInv, InOrder
  <2>2. mouth'.state # "idle" => current <= mouth'.chunk.reply
    <3>1. 1 \in 1 .. N
      BY <1>1
    <3> QED BY <1>1, <2>1, <3>1
  <2>3. ASSUME NEW i \in 1 .. N - 1
        PROVE  /\ current <= playback'[i].reply
               /\ mouth'.state # "idle" => mouth'.chunk.reply <= playback'[i].reply
               /\ \A j \in i .. N - 1 : playback'[i].reply <= playback'[j].reply
    <3>1. i + 1 \in 1 .. N /\ playback'[i] = playback[i + 1] /\ 1 \in 1 .. N /\ i + 1 \in 1 .. N
      BY <1>1
    <3>2. mouth'.state # "idle" => mouth'.chunk.reply <= playback'[i].reply
      BY <1>1, <2>1, <3>1
    <3>3. ASSUME NEW j \in i .. N - 1 PROVE playback'[i].reply <= playback'[j].reply
      <4>1. j \in 1 .. N - 1 /\ j + 1 \in i + 1 .. N
        BY <1>1
      <4>2. playback'[j] = playback[j + 1]
        BY <1>1, <4>1
      <4> QED BY <2>1, <3>1, <4>1, <4>2
    <3> QED BY <2>1, <3>1, <3>2, <3>3
  <2> QED BY <1>1, <2>1, <2>2, <2>3 DEF InOrder
<1> QED BY <1>2, <1>3, <1>4

\* What was handed over of the reply that is arriving does not depend on when it is counted.
LEMMA CursorKeeps ==
    ASSUME IInv, IInv', BooksInv, Next, UNCHANGED <<playback, seen>>, seen \in Replies
    PROVE  /\ pending[seen].flushed + Counting(seen) \in Nat
           /\ pending'[seen].flushed + Counting(seen)' = pending[seen].flushed + Counting(seen)
<1>0. /\ worker \in Workers /\ worker.chunk.size \in Nat /\ pending \in [Replies -> Pendings]
      /\ pending[seen] \in Pendings /\ pending[seen].flushed \in Nat
      /\ Idle.step = "idle" /\ Len(playback) \in Nat /\ Capacity \in Nat
  <2>1. worker \in Workers /\ pending \in [Replies -> Pendings] /\ playback \in Seq(Chunks)
    BY DEF IInv, Places
  <2>2. pending[seen] \in Pendings
    BY <2>1
  <2> QED BY <2>1, <2>2, MouthAssumption DEF Workers, Chunks, Pendings, Idle
<1>1. pending[seen].flushed + Counting(seen) \in Nat
  BY <1>0 DEF Counting
<1>2. CASE pending'[seen].flushed = pending[seen].flushed
           /\ ((worker.step # "count" /\ worker'.step # "count") \/ UNCHANGED worker)
  BY <1>1, <1>2 DEF Counting
<1>3. CASE CountChunk
  <2>1. /\ worker.step = "count" /\ worker' = [worker EXCEPT !.step = "check", !.chunk = NoChunk]
        /\ pending' = [pending EXCEPT ![seen].flushed = @ + worker.chunk.size]
    BY <1>3 DEF CountChunk
  <2>2. worker'.step = "check"
    BY <1>0, <2>1 DEF Workers
  <2>3. PICK f, z : f = pending[seen].flushed /\ z = worker.chunk.size
    OBVIOUS
  <2>4. pending'[seen].flushed = f + z
    <3>1. PICK p : p = [pending[seen] EXCEPT !.flushed = f + z]
      OBVIOUS
    <3>2. pending'[seen] = p
      BY <1>0, <2>1, <2>3, <3>1
    <3>3. p.flushed = f + z
      BY <1>0, <3>1 DEF Pendings
    <3> QED BY <3>2, <3>3
  <2>5. Counting(seen) = z /\ Counting(seen)' = 0
    BY <2>1, <2>2, <2>3 DEF Counting
  <2> QED BY <1>0, <1>1, <2>3, <2>4, <2>5
<1>4. CASE Quiet
  <2>1. (worker.step # "count" /\ worker'.step # "count") \/ UNCHANGED worker
    BY <1>4, QuietIsQuiet
  <2>2. pending'[seen].flushed = pending[seen].flushed
    <3>1. CASE UNCHANGED pending
      BY <3>1
    <3>2. CASE AudioDelta
      BY <1>0, <3>2 DEF AudioDelta, Pendings
    <3>3. CASE PutChunk
      <4>1. CASE pending' = [pending EXCEPT ![seen] = Refuse(@)]
        BY <1>0, <4>1 DEF Refuse, Pendings
      <4> QED BY <3>1, <3>3, <4>1 DEF PutChunk
    <3>4. CASE ResponseCreated
      <4>1. seen' = seen + 1 /\ seen \in Nat
        BY <3>4 DEF ResponseCreated, IInv, Places
      <4> QED BY <4>1
    <3> QED BY <1>4, <3>1, <3>2, <3>3, <3>4 DEF Quiet, Wire, ResponseDone, ResponseInterrupted, SpeechStarted,
               Reconnect, CheckGeneration, Tap, OperatorCut, Bump, DrainOne
  <2> QED BY <1>2, <2>1, <2>2
<1>5. CASE PutChunk /\ Len(playback) < Capacity
  <2>1. playback' = Append(playback, worker.chunk) /\ worker.chunk \in Chunks /\ playback \in Seq(Chunks)
    BY <1>0, <1>5 DEF PutChunk, Workers, IInv, Places
  <2>2. Len(playback') = Len(playback) + 1
    BY <2>1, AppendProperties
  <2>3. PICK n : n = Len(playback)
    OBVIOUS
  <2>4. n \in Nat /\ n = n + 1
    BY <1>0, <2>2, <2>3
  <2> QED BY <2>4
<1>6. CASE Seal \/ (\E c \in Cutters : Account(c)) \/ Mouth \/ \E c \in Cutters : DrainOne(c)
  <2>1. UNCHANGED pending
    BY <1>6 DEF Seal, Account, Mouth, Take, Adopt, SkipStale, PlayReturns, DrainOne
  <2>2. (worker.step # "count" /\ worker'.step # "count") \/ UNCHANGED worker
    <3>1. CASE Seal
      <4>1. worker' = [worker EXCEPT !.step = "cutting"] \/ worker' = [worker EXCEPT !.step = "tap"]
        BY <3>1 DEF Seal
      <4> QED BY <1>0, <3>1, <4>1 DEF Seal, Workers
    <3>2. CASE \E c \in Cutters : Account(c)
      <4> PICK c \in Cutters : Account(c)
        BY <3>2
      <4>1. CASE c = "worker"
        <5>1. worker.step = "cutting"
          BY <4>1, Zenon DEF Account, IInv, Cutting
        <5>2. PICK k : worker' = [worker EXCEPT !.step = "tap", !.about = k] \/ worker' = Idle
          BY <4>1 DEF Account
        <5>3. [worker EXCEPT !.step = "tap", !.about = k].step = "tap"
          BY <1>0 DEF Workers
        <5> QED BY <1>0, <5>1, <5>2, <5>3
      <4>2. CASE c # "worker"
        BY <4>2 DEF Account
      <4> QED BY <4>1, <4>2
    <3>3. CASE Mouth \/ \E c \in Cutters : DrainOne(c)
      BY <3>3 DEF Mouth, Take, Adopt, SkipStale, PlayReturns, DrainOne
    <3> QED BY <1>6, <3>1, <3>2, <3>3
  <2> QED BY <1>2, <2>1, <2>2
<1>7. Len(playback) < Capacity \/ Len(playback) >= Capacity
  BY <1>0
<1> QED BY <1>1, <1>3, <1>4, <1>5, <1>6, <1>7 DEF Next, Hand, Cut, Quiet

LEMMA SameQueue ==
    ASSUME IInv, IInv', BooksInv, SeqInv, Next, UNCHANGED playback
    PROVE  SeqInv'
<1>1. Kept /\ \A r \in Replies : Gone(r) \in Nat
  BY BooksKept, NoneIsAKey, Numbers DEF BooksInv, Ledgered
<1>2. Follows' /\ InOrder' /\ Older'
  BY <1>1, FollowsStays, InOrderStays, OlderStays DEF SeqInv
<1>3. Left'
  <2>1. CASE UNCHANGED mouth
    BY <1>1, <2>1, LeftStays DEF SeqInv
  <2>2. CASE mouth'.state # "taken"
    BY <2>2 DEF Left
  <2>3. CASE Adopt \/ SkipStale \/ \E ok \in BOOLEAN : PlayReturns(ok)
    <3>1. mouth \in Mouths
      BY DEF IInv, Places
    <3> QED BY <2>2, <2>3, <3>1 DEF Adopt, SkipStale, PlayReturns, Mouths
  <2>4. CASE Take
    <3>1. Len(Tail(playback)) = Len(playback) - 1 /\ playback' = Tail(playback) /\ Len(playback) \in Nat
      BY <2>4, TailOf DEF Take, IInv, Places
    <3>2. PICK n : n = Len(playback)
      OBVIOUS
    <3>3. n \in Nat /\ n = n - 1
      BY <3>1, <3>2
    <3> QED BY <3>3
  <2>5. CASE Wire \/ Hand \/ OperatorCut \/ \E c \in Cutters : Cut(c)
    BY <2>1, <2>5 DEF Wire, Hand, Cut, ResponseCreated, AudioDelta, ResponseDone, ResponseInterrupted,
       SpeechStarted, Reconnect, CheckGeneration, PutChunk, CountChunk, Seal, Tap, OperatorCut,
       Bump, DrainOne, Account
  <2> QED BY <2>3, <2>4, <2>5 DEF Next, Mouth
<1>4. Reached'
  <2>1. CASE UNCHANGED seen
    <3>1. CASE seen \in Replies
      <4>1. PICK n \in Nat : n = pending[seen].flushed + Counting(seen)
        BY <2>1, <3>1, CursorKeeps
      <4>2. n = pending'[seen].flushed + Counting(seen)'
        BY <2>1, <3>1, <4>1, CursorKeeps
      <4> QED BY <1>1, <2>1, <4>1, <4>2, ReachedStays DEF SeqInv
    <3>2. CASE seen \notin Replies
      BY <2>1, <3>2 DEF Reached
    <3> QED BY <3>1, <3>2
  <2>2. CASE ResponseCreated
    <3>1. seen' = seen + 1 /\ worker' = worker /\ worker.step = "idle" /\ seen' \in Replies
          /\ pending' = [pending EXCEPT ![seen + 1] = NewPending(generation)]
          /\ pending \in [Replies -> Pendings]
      BY <2>2, MouthAssumption DEF ResponseCreated, IInv, Places, Replies
    <3>2. PICK s : s = seen + 1
      OBVIOUS
    <3>3. s \in Replies /\ pending'[s].flushed = 0 /\ Counting(s)' = 0 /\ Gone(s)' \in Nat
      BY <1>1, <3>1, <3>2 DEF NewPending, Counting, Kept
    <3>4. PICK g : g = Gone(s)'
      OBVIOUS
    <3>5. 0 + 0 <= g
      BY <3>3, <3>4
    <3> QED BY <3>1, <3>2, <3>3, <3>4, <3>5 DEF Reached, Reaches, Gone, Held, Drained, Counting
  <2> QED BY <2>1, <2>2 DEF Next, Wire, Hand, Mouth, Cut, AudioDelta, ResponseDone, ResponseInterrupted,
             SpeechStarted, Reconnect, CheckGeneration, PutChunk, CountChunk, Seal, Tap, OperatorCut,
             Bump, DrainOne, Account, Take, Adopt, SkipStale, PlayReturns
<1> QED BY <1>2, <1>3, <1>4 DEF SeqInv

LEMMA SeqStep ==
    ASSUME IInv, IInv', BooksInv, SeqInv, [Next]_vars
    PROVE  SeqInv'
<1>1. \A r \in Replies : Gone(r) \in Nat
  BY NoneIsAKey, Numbers DEF BooksInv, Ledgered
<1>2. CASE PutChunk /\ Len(playback) < Capacity
  <2>1. Kept /\ Next
    BY <1>2, BooksKept DEF Next, Hand
  <2>2. UNCHANGED mouth
    BY <1>2 DEF PutChunk
  <2> QED BY <1>1, <1>2, <2>1, <2>2, PutInOrder, LeftStays, OlderStays DEF SeqInv
<1>3. CASE Take
  <2>1. /\ playback # <<>> /\ playback' = Tail(playback) /\ playback \in Seq(Chunks)
        /\ mouth' = [state |-> "taken", chunk |-> Head(playback)]
        /\ UNCHANGED <<pending, seen, worker, current>>
    BY <1>3 DEF Take, IInv, Places
  <2>2. \A r \in Replies : Gone(r)' = Gone(r) + Weight(r, Head(playback))
    BY <1>3, TakeBooks
  <2>3. Follows' /\ Reached' /\ InOrder' /\ Older'
    BY <1>1, <1>3, <2>1, <2>2, TailInOrder, OlderStays DEF SeqInv, Next, Mouth
  <2>4. Left'
    <3> DEFINE h == Head(playback)
    <3>1. h = playback[1] /\ 1 \in 1 .. Len(playback)
      <4>1. Len(playback) # 0 /\ Len(playback) \in Nat
        BY <2>1
      <4> QED BY <2>1, <4>1, TailOf
    <3>2. h \in Chunks /\ h.reply \in Replies /\ h.at \in Nat /\ h.size \in Nat
      BY <3>1, Indexed
    <3>3. h.at <= Gone(h.reply)
      <4>1. Reaches(h.at, h.reply, 1 - 1)
        BY <3>1 DEF SeqInv, Follows
      <4> QED BY <4>1 DEF Reaches
    <3>4. PICK r, n, s, g : r = h.reply /\ n = h.at /\ s = h.size /\ g = Gone(h.reply)
      OBVIOUS
    <3>5. r \in Replies /\ g = Gone(r) /\ g \in Nat /\ n \in Nat /\ s \in Nat /\ n <= g
      BY <1>1, <3>2, <3>3, <3>4
    <3>6. Gone(r)' = g + s
      BY <2>2, <3>4, <3>5 DEF Weight
    <3>7. n + s <= g + s
      BY <3>5
    <3>8. mouth'.chunk.reply = r /\ mouth'.chunk.at = n /\ mouth'.chunk.size = s
      BY <2>1, <3>4
    <3> QED BY <3>6, <3>7, <3>8 DEF Left, Gone, Held, Drained
  <2> QED BY <2>3, <2>4 DEF SeqInv
<1>4. CASE \E c \in Cutters : DrainOne(c) /\ playback # <<>>
  <2> PICK c \in Cutters : DrainOne(c) /\ playback # <<>>
    BY <1>4
  <2>1. /\ playback' = Tail(playback)
        /\ UNCHANGED <<pending, seen, worker, current, mouth>>
    BY DEF DrainOne
  <2>2. \A r \in Replies : Gone(r)' = Gone(r) + Weight(r, Head(playback))
    BY DrainOneBooks
  <2>3. Next
    BY DEF Next, Cut
  <2>4. Kept
    BY <2>3, BooksKept
  <2> QED BY <1>1, <2>1, <2>2, <2>3, <2>4, TailInOrder, LeftStays, OlderStays DEF SeqInv
<1>5. CASE Next /\ UNCHANGED playback
  BY <1>5, SameQueue
<1>6. CASE UNCHANGED vars
  <2>1. Follows' /\ Reached' /\ Left'
    BY <1>6 DEF vars, SeqInv, Follows, Reached, Left, Reaches, Gone, Held, Drained, Counting
  <2>2. InOrder' /\ Older'
    BY <1>6 DEF vars, SeqInv, InOrder, Older
  <2> QED BY <2>1, <2>2 DEF SeqInv
<1>7. ASSUME Next
      PROVE  \/ PutChunk /\ Len(playback) < Capacity
             \/ Take
             \/ \E c \in Cutters : DrainOne(c) /\ playback # <<>>
             \/ UNCHANGED playback
  BY <1>7 DEF Next, Wire, Hand, Mouth, Cut, ResponseCreated, AudioDelta, ResponseDone, ResponseInterrupted,
     SpeechStarted, Reconnect, CheckGeneration, PutChunk, CountChunk, Seal, Tap, OperatorCut,
     Bump, DrainOne, Account, Adopt, SkipStale, PlayReturns
<1> QED BY <1>2, <1>3, <1>4, <1>5, <1>6, <1>7

\* Where every chunk is, what was counted of it, and what it follows.
LEMMA OrderHolds == Spec => [](IInv /\ BooksInv /\ SeqInv)
<1>1. IInv /\ BooksInv /\ SeqInv /\ [Next]_vars /\ IInv' => SeqInv'
  BY SeqStep
<1> QED BY BooksHold, SeqInitially, <1>1, PTL DEF Spec

\* No audio goes missing in the middle of a reply and no reply overtakes another,
\* however worker, mouth and cutters interleave (_offer_chunk, _begin_chunk).
THEOREM NothingIsSkipped == Spec => NoHole
<1>1. IInv /\ BooksInv /\ SeqInv /\ [Next]_vars =>
        [Begins(mouth.chunk)
          => LET r == mouth.chunk.reply
                 l == ledgers[r]
             IN  /\ mouth.chunk.at <= l.played + l.skipped + UnitsOf(r, cuts["operator"].drained)
                 /\ current <= r]_vars
  <2> SUFFICES ASSUME IInv, BooksInv, SeqInv, Next, Begins(mouth.chunk)
               PROVE  /\ mouth.chunk.at <= ledgers[mouth.chunk.reply].played + ledgers[mouth.chunk.reply].skipped
                                             + UnitsOf(mouth.chunk.reply, cuts["operator"].drained)
                      /\ current <= mouth.chunk.reply
    BY DEF Begins
  <2>1. mouth.state = "taken" /\ mouth'.state = "playing"
    BY DEF Begins
  <2>2. Adopt
    <3>1. CASE Take \/ SkipStale \/ \E ok \in BOOLEAN : PlayReturns(ok)
      BY <2>1, <3>1 DEF Take, SkipStale, PlayReturns
    <3>2. CASE Wire \/ Hand \/ OperatorCut \/ \E c \in Cutters : Cut(c)
      <4>1. UNCHANGED mouth
        BY <3>2 DEF Wire, Hand, Cut, ResponseCreated, AudioDelta, ResponseDone, ResponseInterrupted,
           SpeechStarted, Reconnect, CheckGeneration, PutChunk, CountChunk, Seal, Tap, OperatorCut,
           Bump, DrainOne, Account
      <4> QED BY <2>1, <4>1
    <3> QED BY <3>1, <3>2 DEF Next, Mouth
  <2>3. current <= mouth.chunk.reply
    BY <2>1 DEF SeqInv, InOrder
  <2>4. /\ mouth.chunk \in Chunks /\ mouth.chunk.reply \in 1 .. seen
        /\ mouth.chunk.generation = pending[mouth.chunk.reply].generation
        /\ mouth.chunk.generation = generation /\ generation \in Nat
    BY <2>1, <2>2 DEF Adopt, IInv, Places, Mouths, Stamped, Genuine
  <2>5. cuts["worker"].drained = <<>>
    <3>1. cuts["worker"].phase \notin {"drain", "account"}
      <4>1. PICK q \in 1 .. seen : q = mouth.chunk.reply
        BY <2>4
      <4>2. pending[q].generation = generation
        BY <2>4, <4>1
      <4>3. cuts["worker"].phase \in {"drain", "account"} => pending[q].generation < generation
        BY DEF SeqInv, Older
      <4> QED BY <2>4, <4>2, <4>3
    <3> QED BY <3>1 DEF BooksInv, Emptied, Cutters
  <2>6. PICK r, a, n : r = mouth.chunk.reply /\ a = mouth.chunk.at /\ n = mouth.chunk.size
    OBVIOUS
  <2>7. a \in Nat /\ n \in Nat /\ r \in Replies
    BY <2>4, <2>6, Indexed DEF Chunks, Replies
  <2>8. PICK p, s, o : /\ p = ledgers[r].played /\ s = ledgers[r].skipped
                       /\ o = UnitsOf(r, cuts["operator"].drained)
    OBVIOUS
  <2>9. p \in Nat /\ s \in Nat /\ o \in Nat
    BY <2>7, <2>8, NoneIsAKey, Numbers DEF BooksInv, Ledgered
  <2>10. Gone(r) = p + 0 + s + n + (0 + o)
    <3>1. ledgers[r].inflight = 0
      BY <2>1, <2>7 DEF BooksInv, Balanced, InFlight
    <3>2. Held(r) = n
      BY <2>1, <2>6 DEF Held
    <3>3. Drained(r) = 0 + o
      BY <2>5, <2>8, UnitsOfNone DEF Drained
    <3> QED BY <2>8, <3>1, <3>2, <3>3 DEF Gone
  <2>11. a + n <= Gone(r)
    BY <2>1, <2>6 DEF SeqInv, Left
  <2>12. a <= p + s + o
    BY <2>7, <2>9, <2>10, <2>11
  <2> QED BY <2>3, <2>6, <2>8, <2>12
<1> QED BY OrderHolds, <1>1, PTL DEF Spec, NoHole

--------------------------------------------------------------------------------
(* The tools                                                                    *)

ToolCall == [kind : Kinds, answer : Answers, acted : Nat]

\* A call whose answer says what was done says so of its effects.
Honest(c) ==
  /\ c.acted <= 1
  /\ c.answer = "ok" => c.acted = 1
  /\ c.answer \in {"refused", "late"} => c.acted = 0
  /\ c.kind = "outside" => c.acted = 0
  /\ c.answer = "late" => Preflight(c.kind) /\ c.kind # "outside"

\* What was handed to the engine passed the catalog and the preflight.
Vetted(n) ==
  /\ n \in DOMAIN calls
  /\ Commands(calls[n].kind) /\ InCatalog(calls[n].kind) /\ Preflight(calls[n].kind)

\* What waits in the spool waits there once and has neither a result nor an effect; a
\* result says what the engine did.
Waits(n) ==
  /\ Vetted(n) /\ calls[n].acted = 0 /\ calls[n].answer \in {"none", "unconfirmed"}
  /\ \A r \in results : r.id # n
InSpool ==
  /\ spool \in Seq(Nat)
  /\ \A i \in DOMAIN spool : Waits(spool[i])
  /\ \A i, j \in DOMAIN spool : i # j => spool[i] # spool[j]

InResults ==
  /\ results \subseteq [id : Nat, ok : BOOLEAN]
  /\ \A r \in results : Vetted(r.id) /\ calls[r.id].acted = IF r.ok THEN 1 ELSE 0

\* The call under way: nothing of it is anywhere until it is submitted.
Untouched(n) == (\A i \in DOMAIN spool : spool[i] # n) /\ (\A r \in results : r.id # n)
UnderWay ==
  /\ at \in {"idle", "handler", "waiting", "admitted", "reload"}
  /\ at # "idle" => calls # <<>> /\ calls[Latest].answer = "none"
  /\ at \in {"handler", "admitted"} => calls[Latest].acted = 0 /\ Untouched(Latest)
  /\ at = "admitted" => calls[Latest].kind = "words"
  /\ at = "reload" => /\ calls[Latest].kind = "rule" /\ calls[Latest].acted = 1
                           /\ Untouched(Latest)

HandsInv ==
  /\ calls \in Seq(ToolCall)
  /\ \A n \in DOMAIN calls : Honest(calls[n])
  /\ InSpool /\ InResults /\ UnderWay

LEMMA InitHands ==
  ASSUME HandsInit
  PROVE  HandsInv
<1>1. calls = <<>> /\ spool = <<>> /\ results = {} /\ at = "idle"
  BY DEF HandsInit
<1>2. calls \in Seq(ToolCall) /\ spool \in Seq(Nat) /\ DOMAIN calls = {} /\ DOMAIN spool = {}
  BY <1>1
<1> QED BY <1>1, <1>2 DEF HandsInv, InSpool, Waits, InResults, UnderWay

\* One more call, or one call changed in its answer or its effects.
LEMMA ChangedCall ==
  ASSUME calls \in Seq(ToolCall), NEW n \in DOMAIN calls, NEW c \in ToolCall,
         calls' = [calls EXCEPT ![n] = c]
  PROVE  /\ calls' \in Seq(ToolCall) /\ Len(calls') = Len(calls) /\ DOMAIN calls' = DOMAIN calls
         /\ calls'[n] = c /\ \A m \in DOMAIN calls : m # n => calls'[m] = calls[m]
<1>1. DOMAIN calls = 1 .. Len(calls)
  BY LenProperties
<1>2. /\ [calls EXCEPT ![n] = c] \in Seq(ToolCall) /\ Len([calls EXCEPT ![n] = c]) = Len(calls)
      /\ \A j \in 1 .. Len(calls) : [calls EXCEPT ![n] = c][j] = IF j = n THEN c ELSE calls[j]
  BY <1>1, ExceptSeq
<1> QED BY <1>1, <1>2

LEMMA LatestIs ==
  ASSUME HandsInv, calls # <<>>
  PROVE  /\ Latest \in DOMAIN calls /\ calls[Latest] \in ToolCall
         /\ Kind = calls[Latest].kind /\ Latest \in Nat \ {0}
<1>1. calls \in Seq(ToolCall)
  BY DEF HandsInv
<1>2. Len(calls) \in Nat \ {0} /\ DOMAIN calls = 1 .. Len(calls)
  BY <1>1, EmptySeq, LenProperties
<1>3. calls[Len(calls)] \in ToolCall
  BY <1>1, <1>2, ElementOfSeq
<1> QED BY <1>2, <1>3 DEF Latest, Kind

\* The call under way is answered, with at most one effect of its own, and what is said
\* of it is so.
LEMMA AnswerStep ==
  ASSUME HandsInv, calls # <<>>, NEW c \in ToolCall,
         calls' = [calls EXCEPT ![Latest] = c], c.kind = Kind, Honest(c),
         \/ c.acted = calls[Latest].acted /\ c.answer \in {"none", "unconfirmed"}
         \/ c.acted = calls[Latest].acted /\ \A i \in DOMAIN spool : spool[i] # Latest
         \/ Untouched(Latest),
         UNCHANGED spool, results' \subseteq results
  PROVE  calls' \in Seq(ToolCall) /\ (\A n \in DOMAIN calls' : Honest(calls'[n])) /\ InSpool' /\ InResults'
<1>1. /\ Latest \in DOMAIN calls /\ calls[Latest] \in ToolCall
      /\ Kind = calls[Latest].kind
  BY LatestIs
<1>2. /\ calls' \in Seq(ToolCall) /\ DOMAIN calls' = DOMAIN calls
      /\ calls'[Latest] = c /\ \A m \in DOMAIN calls : m # Latest => calls'[m] = calls[m]
  BY <1>1, ChangedCall DEF HandsInv
<1>3. \A n \in DOMAIN calls' : Honest(calls'[n])
  BY <1>2 DEF HandsInv
<1>4. \A n \in DOMAIN calls : calls'[n].kind = calls[n].kind
  BY <1>1, <1>2
<1>5. \A n : Vetted(n) => Vetted(n)'
  BY <1>2, <1>4 DEF Vetted
<1>6. InSpool'
  BY <1>1, <1>2, <1>5 DEF HandsInv, InSpool, Waits, Untouched, Vetted
<1>7. InResults'
  BY <1>1, <1>2, <1>5 DEF HandsInv, InResults, Untouched, Vetted
<1> QED BY <1>2, <1>3, <1>6, <1>7

LEMMA DispatchStep ==
  ASSUME HandsInv, Dispatch
  PROVE  HandsInv'
<1>1. PICK c \in ToolCall : calls' = Append(calls, c) /\ c.answer = "none" /\ c.acted = 0
  <2>1. PICK kind \in Kinds : calls' = Append(calls, [kind |-> kind, answer |-> "none", acted |-> 0])
    BY DEF Dispatch
  <2>2. [kind |-> kind, answer |-> "none", acted |-> 0] \in ToolCall
    BY DEF ToolCall, Answers
  <2> QED BY <2>1, <2>2
<1>2. /\ calls \in Seq(ToolCall) /\ Len(calls) \in Nat /\ DOMAIN calls = 1 .. Len(calls)
      /\ calls' \in Seq(ToolCall) /\ calls' # <<>> /\ Len(calls') = Len(calls) + 1
      /\ DOMAIN calls' = 1 .. Len(calls')
      /\ \A n \in DOMAIN calls : calls'[n] = calls[n]
      /\ calls'[Len(calls) + 1] = c
  <2>1. calls \in Seq(ToolCall) /\ Len(calls) \in Nat /\ DOMAIN calls = 1 .. Len(calls)
    BY LenProperties DEF HandsInv
  <2>2. /\ calls' \in Seq(ToolCall) /\ calls' # <<>> /\ Len(calls') = Len(calls) + 1
        /\ \A n \in 1 .. Len(calls) : calls'[n] = calls[n]
        /\ calls'[Len(calls) + 1] = c
    BY <1>1, <2>1, AppendProperties
  <2> QED BY <2>1, <2>2, LenProperties
<1>3. Latest' = Len(calls') /\ Latest' \notin DOMAIN calls /\ calls'[Latest'] = c
  BY <1>2 DEF Latest
<1>4. \A n \in DOMAIN calls' : Honest(calls'[n])
  <2>1. Honest(c)
    BY <1>1 DEF Honest
  <2>2. \A n \in DOMAIN calls' : n \in DOMAIN calls \/ n = Len(calls) + 1
    BY <1>2
  <2> QED BY <1>2, <2>1, <2>2 DEF HandsInv
<1>5. UNCHANGED <<spool, results>> /\ at' = "handler"
  BY DEF Dispatch
<1>6. \A n : Vetted(n) => Vetted(n)' /\ calls'[n] = calls[n] /\ n \in DOMAIN calls
  BY <1>2 DEF Vetted
<1>7. InSpool'
  BY <1>5, <1>6 DEF HandsInv, InSpool, Waits
<1>8. InResults'
  BY <1>5, <1>6 DEF HandsInv, InResults
<1>9. Untouched(Latest)'
  BY <1>3, <1>5, <1>6 DEF HandsInv, InSpool, Waits, InResults, Untouched
<1>10. UnderWay'
  BY <1>1, <1>2, <1>3, <1>5, <1>9 DEF UnderWay
<1> QED BY <1>2, <1>4, <1>7, <1>8, <1>10 DEF HandsInv

\* Every way in which the call under way gets its answer at once, or none after all.
LEMMA AnsweredStep ==
  ASSUME HandsInv, RefuseCall \/ Confirmed \/ Unconfirmed \/ Publish
                   \/ WriteRule \/ Reload \/ (Submit /\ UNCHANGED spool)
  PROVE  HandsInv'
<1> DEFINE n == Latest
           Saying(a) == [calls[n] EXCEPT !.answer = a]
<1>1. calls # <<>> /\ at # "idle" /\ calls[n].answer = "none"
  BY DEF HandsInv, UnderWay, RefuseCall, Confirmed, Unconfirmed, Publish,
         WriteRule, Reload, Submit
<1>2. n \in DOMAIN calls /\ calls[n] \in ToolCall /\ Kind = calls[n].kind /\ Honest(calls[n])
  BY <1>1, LatestIs DEF HandsInv
<1>3. ASSUME NEW a \in Answers
      PROVE  /\ Saying(a) \in ToolCall /\ Saying(a).answer = a /\ Saying(a).acted = calls[n].acted
             /\ Saying(a).kind = calls[n].kind
  BY <1>2 DEF ToolCall
<1>4. {"ok", "refused", "late", "unconfirmed", "tool-error"} \subseteq Answers
  BY DEF Answers
<1> HIDE DEF Saying
<1>5. CASE RefuseCall
  <2>1. calls' = [calls EXCEPT ![n] = Saying("refused")] /\ at' = "idle" /\ UNCHANGED <<spool, results>>
    BY <1>5 DEF RefuseCall, Answer, Saying
  <2>2. calls[n].acted = 0 /\ Untouched(n)
    BY <1>5 DEF RefuseCall, HandsInv, UnderWay
  <2>3. Honest(Saying("refused"))
    BY <1>2, <1>3, <1>4, <2>2 DEF Honest
  <2> QED BY <1>1, <1>2, <1>3, <1>4, <2>1, <2>2, <2>3, AnswerStep DEF HandsInv, UnderWay
<1>6. CASE Confirmed
  <2>1. PICK r \in results :
          /\ r.id = n /\ results' = results \ {r} /\ at' = "idle" /\ UNCHANGED spool
          /\ calls' = [calls EXCEPT ![n] = Saying(IF r.ok THEN "ok" ELSE "late")]
    BY <1>6 DEF Confirmed, Answer, Saying
  <2>2. /\ \A i \in DOMAIN spool : spool[i] # n
        /\ calls[n].acted = (IF r.ok THEN 1 ELSE 0) /\ Vetted(n)
    BY <2>1 DEF HandsInv, InSpool, Waits, InResults
  <2>3. Honest(Saying(IF r.ok THEN "ok" ELSE "late"))
    BY <1>2, <1>3, <1>4, <2>2 DEF Honest, Vetted, InCatalog
  <2> QED BY <1>1, <1>2, <1>3, <1>4, <2>1, <2>2, <2>3, AnswerStep DEF HandsInv, UnderWay
<1>7. CASE Unconfirmed
  <2>1. /\ calls' = [calls EXCEPT ![n] = Saying("unconfirmed")] /\ at' = "idle"
        /\ UNCHANGED <<spool, results>>
    BY <1>7 DEF Unconfirmed, Answer, Saying
  <2>2. Honest(Saying("unconfirmed"))
    BY <1>2, <1>3, <1>4 DEF Honest
  <2> QED BY <1>1, <1>2, <1>3, <1>4, <2>1, <2>2, AnswerStep DEF HandsInv, UnderWay
<1>8. CASE Submit /\ UNCHANGED spool
  <2>1. /\ calls' = [calls EXCEPT ![n] = Saying("tool-error")] /\ at' = "idle"
        /\ UNCHANGED <<spool, results>> /\ at = "handler"
    BY <1>1, <1>8 DEF Submit, Answer, Saying
  <2>2. Honest(Saying("tool-error")) /\ Untouched(n)
    BY <1>2, <1>3, <1>4, <2>1 DEF Honest, HandsInv, UnderWay
  <2> QED BY <1>1, <1>2, <1>3, <1>4, <2>1, <2>2, AnswerStep DEF HandsInv, UnderWay
<1>9. CASE Publish
  <2>1. /\ at = "admitted" /\ at' = "idle" /\ UNCHANGED <<spool, results>>
        /\ \/ calls' = [calls EXCEPT ![n] = [calls[n] EXCEPT !.answer = "ok", !.acted = 1]]
           \/ calls' = [calls EXCEPT ![n] = Saying("tool-error")]
    BY <1>9 DEF Publish, Saying
  <2>2. Untouched(n) /\ calls[n].kind = "words"
    BY <2>1 DEF HandsInv, UnderWay
  <2> DEFINE said == [calls[n] EXCEPT !.answer = "ok", !.acted = 1]
  <2>3. said \in ToolCall /\ said.kind = calls[n].kind /\ Honest(said)
    <3>1. /\ said \in ToolCall /\ said.kind = calls[n].kind
          /\ said.answer = "ok" /\ said.acted = 1
      BY <1>2, <1>4 DEF ToolCall
    <3> HIDE DEF said
    <3> QED BY <2>2, <3>1 DEF Honest
  <2>4. Honest(Saying("tool-error"))
    BY <1>2, <1>3, <1>4 DEF Honest
  <2> QED BY <1>1, <1>2, <1>3, <1>4, <2>1, <2>2, <2>3, <2>4, AnswerStep DEF HandsInv, UnderWay
<1>10. CASE WriteRule
  <2> DEFINE wrote == [calls[n] EXCEPT !.acted = @ + 1]
  <2>1. /\ at = "handler" /\ at' = "reload" /\ UNCHANGED <<spool, results>>
        /\ calls' = [calls EXCEPT ![n] = wrote] /\ calls[n].kind = "rule"
    BY <1>2, <1>10 DEF WriteRule, Done
  <2>2. Untouched(n) /\ calls[n].acted = 0
    BY <2>1 DEF HandsInv, UnderWay
  <2>3. /\ wrote \in ToolCall /\ wrote.kind = calls[n].kind /\ wrote.answer = "none"
        /\ wrote.acted = 1 /\ Honest(wrote)
    <3>0. wrote = [calls[n] EXCEPT !.acted = 1]
      BY <2>2
    <3> HIDE DEF wrote
    <3>1. wrote \in ToolCall
      BY <1>2, <3>0 DEF ToolCall
    <3>2. wrote.kind = calls[n].kind /\ wrote.answer = "none" /\ wrote.acted = 1
      BY <1>1, <1>2, <3>0 DEF ToolCall
    <3>3. Honest(wrote)
      BY <2>1, <3>2 DEF Honest
    <3> QED BY <3>1, <3>2, <3>3
  <2> HIDE DEF wrote
  <2>4. calls' \in Seq(ToolCall) /\ (\A m \in DOMAIN calls' : Honest(calls'[m])) /\ InSpool' /\ InResults'
    BY <1>1, <1>2, <2>1, <2>2, <2>3, AnswerStep
  <2>5. Len(calls') = Len(calls) /\ calls'[n] = wrote /\ DOMAIN calls' = DOMAIN calls
    BY <1>2, <2>1, <2>3, ChangedCall DEF HandsInv
  <2>6. Latest' = n /\ calls' # <<>>
    BY <1>2, <2>5 DEF Latest
  <2>7. UnderWay'
    BY <2>1, <2>2, <2>3, <2>5, <2>6 DEF UnderWay, Untouched
  <2> QED BY <2>4, <2>7 DEF HandsInv
<1>11. CASE Reload
  <2>1. PICK a \in {"ok", "tool-error"} :
          calls' = [calls EXCEPT ![n] = Saying(a)] /\ at' = "idle" /\ UNCHANGED <<spool, results>>
    BY <1>11 DEF Reload, Answer, Saying
  <2>2. calls[n].acted = 1 /\ Untouched(n)
    BY <1>11 DEF Reload, HandsInv, UnderWay
  <2>3. Honest(Saying(a))
    BY <1>2, <1>3, <1>4, <2>2 DEF Honest
  <2> QED BY <1>1, <1>2, <1>3, <1>4, <2>1, <2>2, <2>3, AnswerStep DEF HandsInv, UnderWay
<1> QED BY <1>5, <1>6, <1>7, <1>8, <1>9, <1>10, <1>11

\* The rest of the call under way, up to the spool or the admission.
LEMMA HandedStep ==
  ASSUME HandsInv, Submit, spool' # spool
  PROVE  HandsInv'
<1>0. PICK n : n = Latest
  OBVIOUS
<1>1. /\ at = "handler" /\ Commands(Kind) /\ InCatalog(Kind)
      /\ Preflight(Kind) /\ at' = "waiting" /\ spool' = Append(spool, n)
      /\ UNCHANGED <<calls, results>>
  BY <1>0 DEF Submit
<1>2. calls # <<>> /\ calls[n].answer = "none" /\ calls[n].acted = 0 /\ Untouched(n)
  BY <1>0, <1>1 DEF HandsInv, UnderWay
<1>3. n \in Nat /\ Vetted(n)
  BY <1>0, <1>1, <1>2, LatestIs DEF Vetted
<1>4. spool \in Seq(Nat) /\ DOMAIN spool = 1 .. Len(spool) /\ Len(spool) \in Nat
  BY LenProperties DEF HandsInv, InSpool
<1>5. /\ spool' \in Seq(Nat) /\ Len(spool') = Len(spool) + 1
      /\ \A i \in 1 .. Len(spool) : spool'[i] = spool[i]
      /\ spool'[Len(spool) + 1] = n
  <2>1. spool' = Append(spool, n)
    BY <1>1
  <2>2. spool \in Seq(Nat) /\ n \in Nat
    BY <1>3, <1>4
  <2>3. /\ Append(spool, n) \in Seq(Nat) /\ Len(Append(spool, n)) = Len(spool) + 1
        /\ \A i \in 1 .. Len(spool) : Append(spool, n)[i] = spool[i]
        /\ Append(spool, n)[Len(spool) + 1] = n
    BY <2>2, AppendProperties
  <2> QED BY <2>1, <2>3
<1>6. DOMAIN spool' = 1 .. Len(spool) + 1
  BY <1>5, LenProperties
<1>7. \A i \in DOMAIN spool' : i \in DOMAIN spool \/ i = Len(spool) + 1
  BY <1>4, <1>6
<1>8. \A m : Vetted(m) => Vetted(m)'
  BY <1>1 DEF Vetted
<1>9. \A i \in DOMAIN spool' : Waits(spool'[i])
  <2> SUFFICES ASSUME NEW i \in DOMAIN spool'
               PROVE  Waits(spool'[i])
    OBVIOUS
  <2>1. CASE i \in DOMAIN spool
    <3>1. Waits(spool[i]) /\ spool'[i] = spool[i]
      BY <1>4, <1>5, <2>1 DEF HandsInv, InSpool
    <3> QED BY <3>1
  <2>2. CASE i = Len(spool) + 1
    <3>1. Waits(n) /\ spool'[i] = n
      BY <1>2, <1>3, <1>5, <2>2 DEF Waits, Untouched
    <3> QED BY <3>1
  <2> QED BY <1>7, <2>1, <2>2
<1>10. ASSUME NEW i \in DOMAIN spool', NEW j \in DOMAIN spool', i # j
       PROVE  spool'[i] # spool'[j]
  <2>1. \A k \in DOMAIN spool : spool'[k] = spool[k] /\ spool[k] # n
    BY <1>2, <1>4, <1>5 DEF Untouched
  <2>2. CASE i \in DOMAIN spool /\ j \in DOMAIN spool
    BY <1>10, <2>1, <2>2 DEF HandsInv, InSpool
  <2>3. CASE i = Len(spool) + 1 /\ j \in DOMAIN spool
    BY <1>5, <2>1, <2>3
  <2>4. CASE j = Len(spool) + 1 /\ i \in DOMAIN spool
    BY <1>5, <2>1, <2>4
  <2> QED BY <1>7, <1>10, <2>2, <2>3, <2>4
<1>11. InSpool'
  <2>1. \A i \in DOMAIN spool' : Waits(spool[i])'
    BY <1>1, <1>9 DEF Waits, Vetted
  <2> QED BY <1>5, <1>10, <2>1 DEF InSpool
<1>12. InResults' /\ UnderWay'
  BY <1>1, <1>2, <1>8 DEF HandsInv, InResults, UnderWay, Latest
<1> QED BY <1>1, <1>11, <1>12 DEF HandsInv

LEMMA AdmitStep ==
  ASSUME HandsInv, Admit \/ World
  PROVE  HandsInv'
<1>1. UNCHANGED <<calls, spool, results>>
  BY DEF Admit, World
<1>2. calls # <<>> => Kind = calls[Latest].kind
  BY DEF Kind
<1>3. UnderWay'
  BY <1>1, <1>2 DEF HandsInv, UnderWay, Untouched, Latest, Admit, World
<1> QED BY <1>1, <1>3 DEF HandsInv, InSpool, InResults, Waits, Vetted

\* The engine takes the oldest command of the spool, does it or not, says so or not.
LEMMA TakenStep ==
  ASSUME HandsInv, spool # <<>>, spool' = Tail(spool), NEW ok \in BOOLEAN,
         calls' = IF ok THEN [calls EXCEPT ![Head(spool)].acted = @ + 1] ELSE calls,
         results' \in {results, results \cup {[id |-> Head(spool), ok |-> ok]}},
         UNCHANGED at
  PROVE  HandsInv'
<1>0. PICK n, c : n = Head(spool) /\ c = IF ok THEN [calls[n] EXCEPT !.acted = @ + 1] ELSE calls[n]
  OBVIOUS
<1>1. /\ spool \in Seq(Nat) /\ Len(spool) \in Nat \ {0} /\ DOMAIN spool = 1 .. Len(spool)
      /\ n \in Nat /\ n = spool[1] /\ spool' \in Seq(Nat) /\ Len(spool') = Len(spool) - 1
      /\ DOMAIN spool' = 1 .. Len(spool')
      /\ \A i \in 1 .. Len(spool') : spool'[i] = spool[i + 1]
  <2>1. spool \in Seq(Nat)
    BY DEF HandsInv, InSpool
  <2>2. /\ n \in Nat /\ spool' \in Seq(Nat) /\ Len(spool') = Len(spool) - 1
        /\ \A i \in 1 .. Len(spool') : spool'[i] = spool[i + 1]
    BY <1>0, <2>1, HeadTailProperties
  <2>3. Len(spool) \in Nat \ {0} /\ DOMAIN spool = 1 .. Len(spool) /\ DOMAIN spool' = 1 .. Len(spool')
    BY <2>1, <2>2, EmptySeq, LenProperties
  <2>4. n = spool[1]
    BY <1>0, <2>1
  <2> QED BY <2>1, <2>2, <2>3, <2>4
<1>2. /\ Vetted(n) /\ n \in DOMAIN calls /\ calls[n].acted = 0
      /\ calls[n].answer \in {"none", "unconfirmed"} /\ \A r \in results : r.id # n
  <2>1. 1 \in DOMAIN spool
    BY <1>1
  <2> QED BY <1>1, <2>1 DEF HandsInv, InSpool, Waits, Vetted
<1>3. calls \in Seq(ToolCall) /\ calls[n] \in ToolCall /\ Honest(calls[n])
  <2>1. calls \in Seq(ToolCall) /\ DOMAIN calls = 1 .. Len(calls)
    BY LenProperties DEF HandsInv
  <2> QED BY <1>2, <2>1, ElementOfSeq DEF HandsInv
<1>4. /\ c \in ToolCall /\ c.kind = calls[n].kind /\ c.answer = calls[n].answer
      /\ c.acted = IF ok THEN 1 ELSE 0
  <2>1. CASE ok
    <3>1. c = [calls[n] EXCEPT !.acted = 1]
      BY <1>0, <1>2, <2>1
    <3> QED BY <1>3, <2>1, <3>1 DEF ToolCall
  <2>2. CASE ~ok
    BY <1>0, <1>2, <1>3, <2>2
  <2> QED BY <2>1, <2>2
<1>5. Honest(c)
  BY <1>2, <1>3, <1>4 DEF Honest, Vetted, InCatalog
<1>6. /\ calls' \in Seq(ToolCall) /\ DOMAIN calls' = DOMAIN calls /\ Len(calls') = Len(calls)
      /\ calls'[n] = c /\ \A m \in DOMAIN calls : m # n => calls'[m] = calls[m]
  <2>1. CASE ok
    <3>1. calls' = [calls EXCEPT ![n] = c]
      BY <1>0, <2>1
    <3> QED BY <1>2, <1>3, <1>4, <3>1, ChangedCall
  <2>2. CASE ~ok
    BY <1>0, <1>2, <1>3, <2>2
  <2> QED BY <2>1, <2>2
<1>7. \A m \in DOMAIN calls' : Honest(calls'[m])
  BY <1>5, <1>6 DEF HandsInv
<1>8. \A m : Vetted(m) => Vetted(m)'
  BY <1>2, <1>4, <1>6 DEF Vetted
<1>9. \A r \in results' : r \in results \/ r = [id |-> n, ok |-> ok]
  BY <1>0
<1>10. ASSUME NEW i \in DOMAIN spool'
       PROVE  i + 1 \in DOMAIN spool /\ spool'[i] = spool[i + 1] /\ spool'[i] # n
  <2>0. i \in Nat \ {0} /\ i <= Len(spool')
    BY <1>1
  <2>1. i + 1 \in 1 .. Len(spool) /\ 1 \in 1 .. Len(spool) /\ i + 1 # 1
    BY <1>1, <2>0
  <2>2. spool[i + 1] # spool[1]
    BY <1>1, <2>1 DEF HandsInv, InSpool
  <2> QED BY <1>1, <2>1, <2>2
<1>11. InSpool'
  <2>0. \A m : Waits(m) /\ m # n => Waits(m)'
    <3> SUFFICES ASSUME NEW m, Waits(m), m # n
                 PROVE  Waits(m)'
      OBVIOUS
    <3>1. Vetted(m)' /\ calls'[m] = calls[m]
      BY <1>6, <1>8 DEF Waits, Vetted
    <3>2. \A r \in results' : r.id # m
      BY <1>9 DEF Waits
    <3> QED BY <3>1, <3>2 DEF Waits
  <2>1. \A i \in DOMAIN spool' : Waits(spool[i])'
    <3>1. \A i \in DOMAIN spool' : \E m : m = spool'[i] /\ Waits(m) /\ m # n
      BY <1>10 DEF HandsInv, InSpool
    <3> QED BY <2>0, <3>1 DEF Waits, Vetted
  <2>2. ASSUME NEW i \in DOMAIN spool', NEW j \in DOMAIN spool', i # j
        PROVE  spool'[i] # spool'[j]
    <3>1. i \in Int /\ j \in Int /\ i + 1 # j + 1
      BY <1>1, <2>2
    <3> QED BY <1>10, <3>1 DEF HandsInv, InSpool
  <2> QED BY <1>1, <2>1, <2>2 DEF InSpool
<1>12. InResults'
  <2>1. results' \subseteq [id : Nat, ok : BOOLEAN]
    BY <1>1, <1>9 DEF HandsInv, InResults
  <2>2. ASSUME NEW r \in results'
        PROVE  Vetted(r.id)' /\ calls'[r.id].acted = IF r.ok THEN 1 ELSE 0
    <3>1. CASE r \in results
      BY <1>2, <1>6, <1>8, <3>1 DEF HandsInv, InResults, Vetted
    <3>2. CASE r = [id |-> n, ok |-> ok]
      BY <1>2, <1>4, <1>6, <1>8, <3>2
    <3> QED BY <1>9, <3>1, <3>2
  <2> QED BY <2>1, <2>2 DEF InResults
<1>13. UnderWay'
  <2>1. Latest' = Latest /\ (calls' = <<>> <=> calls = <<>>)
    BY <1>3, <1>6 DEF Latest
  <2>2. CASE at = "idle"
    BY <2>2 DEF UnderWay
  <2>3. CASE at # "idle"
    <3>1. calls # <<>> /\ calls[Latest].answer = "none" /\ Latest \in DOMAIN calls
      BY <2>3, LatestIs DEF HandsInv, UnderWay
    <3>2. calls'[Latest].answer = "none"
      BY <1>4, <1>6, <3>1
    <3>3. ASSUME Untouched(Latest)
          PROVE  Untouched(Latest)' /\ calls'[Latest] = calls[Latest]
      <4>1. Latest # n
        BY <1>1, <3>3 DEF Untouched
      <4> QED BY <1>6, <1>9, <1>10, <2>1, <3>1, <3>3, <4>1 DEF Untouched
    <3> QED BY <2>1, <2>3, <3>1, <3>2, <3>3 DEF HandsInv, UnderWay
  <2> QED BY <2>2, <2>3
<1> QED BY <1>6, <1>7, <1>11, <1>12, <1>13 DEF HandsInv

LEMMA HandsStep ==
  ASSUME HandsInv, HandsNext
  PROVE  HandsInv'
<1>1. CASE Dispatch \/ Admit \/ World
  BY <1>1, DispatchStep, AdmitStep
<1>2. CASE \/ RefuseCall \/ Confirmed \/ Unconfirmed \/ Publish
           \/ WriteRule \/ Reload \/ Submit
  BY <1>2, AnsweredStep, HandedStep
<1>3. CASE Drain
  <2>1. PICK ok \in BOOLEAN : ok = Accepts(calls[Head(spool)].kind, engine)
    BY Zenon DEF Accepts
  <2>2. /\ spool # <<>> /\ spool' = Tail(spool) /\ UNCHANGED at
        /\ results' = results \cup {[id |-> Head(spool), ok |-> ok]}
        /\ calls' = IF ok THEN [calls EXCEPT ![Head(spool)].acted = @ + 1] ELSE calls
    BY <1>3, <2>1 DEF Drain, Done
  <2> QED BY <2>2, TakenStep
<1>4. CASE Dies
  <2>1. UNCHANGED <<at, results>>
    BY <1>4 DEF Dies
  <2>2. CASE UNCHANGED <<spool, calls>>
    BY <2>1, <2>2 DEF HandsInv, InSpool, InResults, UnderWay, Waits, Vetted, Untouched, Latest
  <2>3. CASE spool # <<>> /\ spool' = Tail(spool) /\ UNCHANGED calls
    BY <2>1, <2>3, TakenStep
  <2>4. CASE /\ spool # <<>> /\ spool' = Tail(spool)
             /\ calls' = [calls EXCEPT ![Head(spool)].acted = @ + 1]
    BY <2>1, <2>4, TakenStep
  <2> QED BY <1>4, <2>2, <2>3, <2>4 DEF Dies, Done
<1> QED BY <1>1, <1>2, <1>3, <1>4 DEF HandsNext

LEMMA HandsInvSound ==
  ASSUME HandsInv
  PROVE  ToolsSound
<1>1. ToldAsItIs
  BY DEF HandsInv, Honest, ToldAsItIs
<1>2. CatalogBinds
  BY DEF HandsInv, Honest, CatalogBinds
<1>3. LateForState
  <2> DEFINE context == [inhibited |-> {}, target |-> TRUE, base |-> TRUE]
  <2>1. context \in Live
    BY DEF Live, Contexts
  <2> SUFFICES ASSUME NEW n \in DOMAIN calls, calls[n].answer = "late"
               PROVE  Accepts(calls[n].kind, context)
    BY <2>1 DEF LateForState
  <2>2. Preflight(calls[n].kind)
    BY DEF HandsInv, Honest
  <2> QED BY <2>2 DEF Preflight, Accepts, Inert
<1> QED BY <1>1, <1>2, <1>3 DEF ToolsSound

\* For any calls, policy, engine and number of its deaths: what the mind is told was done
\* was done once, what it is told was refused never happens, nothing outside its catalog
\* runs for it, and an engine refuses late only for what can change (embody/tools.py).
THEOREM ToldTruly == HandsSpec => []ToolsSound
<1>1. HandsInit => HandsInv
  BY InitHands
<1>2. HandsInv /\ [HandsNext]_handsVars => HandsInv'
  <2>1. HandsInv /\ UNCHANGED handsVars => HandsInv'
    BY DEF handsVars, HandsInv, InSpool, InResults, UnderWay, Waits, Vetted, Untouched, Latest
  <2> QED BY <2>1, HandsStep
<1>3. HandsInv => ToolsSound
  BY HandsInvSound
<1> QED BY <1>1, <1>2, <1>3, PTL DEF HandsSpec
================================================================================
