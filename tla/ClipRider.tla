------------------------------ MODULE ClipRider ------------------------------
(* behavior/clip_rider.py: the tick thread offers camera frames to a bounded *)
(* inbox and publishes where the rolling clip is; a worker keeps the last    *)
(* ClipSeconds of frames in a ring and, every EncodeEvery, encodes them to a *)
(* temporary file, renames it over the one clip file and latches a           *)
(* descriptor.  The engine's heartbeat rewrites state.json without the       *)
(* rider's key; a process may end in order, with the worker still encoding,  *)
(* or be killed, and a new one finds the files the old one left.             *)
EXTENDS Naturals, Sequences, FiniteSetsExt, SequencesExt

CONSTANTS
  ClipSeconds, EncodeEvery,
  InboxSize, RingMax,  \* the two bounds in frames
  MaxTime,             \* bound: the clock
  MaxRuns, MaxBadEncodes \* bounds: processes; encodes and renames that fail

ClipAssumption ==
  /\ {ClipSeconds, EncodeEvery, InboxSize, RingMax} \subseteq Nat \ {0}
  /\ {MaxTime, MaxRuns, MaxBadEncodes} \subseteq Nat

VARIABLES
  now, runs, badEncodes,
  phase,    \* "up", "closed" (joined), "outlived" (the join timed out), "gone"
  inbox,    \* the times of frames offered and not yet drained
  ring,     \* the worker's ring
  lastAt,   \* _last_encode_at
  worker,   \* "idle", "encoding", "encoded", "replaced"
  work,     \* the frames being encoded, and when
  tmp,      \* clip.tmp.mp4: "none", "part" or the frames it holds
  clip,     \* clip.mp4, likewise
  latest,   \* the descriptor latched: "none" or [ts, frames]
  published \* the clip key of state.json: "absent", "no-clip-yet" or a descriptor

clipVars == <<now, runs, badEncodes, phase, inbox, ring, lastAt, worker, work, tmp, clip,
          latest, published>>

Never == MaxTime + EncodeEvery + 1  \* no encode yet

ClipInit ==
  /\ now = 0 /\ runs = 1 /\ badEncodes = 0 /\ phase = "up"
  /\ inbox = <<>> /\ ring = <<>> /\ lastAt = Never /\ worker = "idle"
  /\ work = [ts |-> 0, frames |-> <<>>]
  /\ tmp = <<"none">> /\ clip = <<"none">> /\ latest = <<"none">> /\ published = <<"absent">>

Alive == phase \in {"up", "outlived"}
NewestOf(s, n) == IF Len(s) <= n THEN s ELSE SubSeq(s, Len(s) - n + 1, Len(s))

-----------------------------------------------------------------------------
(* The tick thread: offer, the heartbeat's rewrite, and _publish.            *)
Offer ==
  /\ phase = "up" /\ inbox' = NewestOf(Append(inbox, now), InboxSize)
  /\ UNCHANGED <<now, runs, badEncodes, phase, ring, lastAt, worker, work, tmp, clip, latest, published>>

Heartbeat ==
  /\ phase = "up" /\ published' = <<"absent">>
  /\ UNCHANGED <<now, runs, badEncodes, phase, inbox, ring, lastAt, worker, work, tmp, clip, latest>>

ClipBlock == IF latest = <<"none">> THEN <<"no-clip-yet">> ELSE latest

Publish ==
  /\ phase = "up" /\ published' = ClipBlock
  /\ UNCHANGED <<now, runs, badEncodes, phase, inbox, ring, lastAt, worker, work, tmp, clip, latest>>

Time ==
  /\ now < MaxTime /\ now' = now + 1
  /\ UNCHANGED <<runs, badEncodes, phase, inbox, ring, lastAt, worker, work, tmp, clip, latest, published>>

-----------------------------------------------------------------------------
(* _worker_tick: drain, evict by count and by age, and start an encode when  *)
(* one is due and there are two frames.                                      *)
(* Defect for a mutant: the eviction by age is lost.                         *)
FaultyKept(frames) == frames
Kept(frames) ==
  LET fresh == {i \in DOMAIN frames : frames[i] + ClipSeconds >= now}
  IN IF fresh = {} THEN <<>> ELSE SubSeq(frames, Min(fresh), Len(frames))
Ring == Kept(NewestOf(ring \o inbox, RingMax))
Due == lastAt = Never \/ now >= lastAt + EncodeEvery

StartEncode ==
  /\ phase = "up" /\ worker = "idle"
  /\ ring' = Ring /\ inbox' = <<>>
  /\ IF Due /\ Len(Ring) >= 2
     THEN /\ worker' = "encoding" /\ work' = [ts |-> now, frames |-> Ring]
          /\ lastAt' = now /\ tmp' = <<"part">>
     ELSE UNCHANGED <<worker, work, lastAt, tmp>>
  /\ UNCHANGED <<now, runs, badEncodes, phase, clip, latest, published>>

(* _encode_and_publish: the encode, the rename, the latch; a failure of      *)
(* either removes the temporary file.  The rename fails when close has       *)
(* removed the file under a worker it stopped waiting for.                   *)
Encoded ==
  /\ Alive /\ worker = "encoding" /\ worker' = "encoded"
  /\ tmp' = IF tmp = <<"none">> THEN tmp ELSE work.frames
  /\ UNCHANGED <<now, runs, badEncodes, phase, inbox, ring, lastAt, work, clip, latest, published>>

Failed ==
  /\ Alive /\ worker \in {"encoding", "encoded"} /\ badEncodes < MaxBadEncodes
  /\ worker' = "idle" /\ tmp' = <<"none">> /\ badEncodes' = badEncodes + 1
  /\ UNCHANGED <<now, runs, phase, inbox, ring, lastAt, work, clip, latest, published>>

RenameClip ==
  /\ Alive /\ worker = "encoded"
  /\ IF tmp = <<"none">>
     THEN worker' = "idle" /\ UNCHANGED <<tmp, clip>>
     ELSE worker' = "replaced" /\ clip' = tmp /\ tmp' = <<"none">>
  /\ UNCHANGED <<now, runs, badEncodes, phase, inbox, ring, lastAt, work, latest, published>>

Latch ==
  /\ Alive /\ worker = "replaced" /\ worker' = "idle" /\ latest' = <<work.ts, work.frames>>
  /\ UNCHANGED <<now, runs, badEncodes, phase, inbox, ring, lastAt, work, tmp, clip, published>>

-----------------------------------------------------------------------------
(* close: stop, wait a bounded time for the worker, remove the temporary     *)
(* file.  The end of the process ends a worker that outlived it.             *)
Close ==
  /\ phase = "up"
  /\ \/ worker = "idle" /\ phase' = "closed"
     \/ worker # "idle" /\ phase' = "outlived"
  /\ tmp' = <<"none">>
  /\ UNCHANGED <<now, runs, badEncodes, inbox, ring, lastAt, worker, work, clip, latest, published>>

ProcessEnds == /\ phase # "gone" /\ phase' = "gone"
        /\ UNCHANGED <<now, runs, badEncodes, inbox, ring, lastAt, worker, work, tmp, clip, latest, published>>

Restart ==
  /\ phase = "gone" /\ runs < MaxRuns /\ runs' = runs + 1 /\ phase' = "up"
  /\ inbox' = <<>> /\ ring' = <<>> /\ lastAt' = Never /\ worker' = "idle"
  /\ work' = [ts |-> 0, frames |-> <<>>] /\ latest' = <<"none">>
  /\ UNCHANGED <<now, badEncodes, tmp, clip, published>>

ClipNext ==
  \/ Offer \/ Heartbeat \/ Publish \/ Time \/ StartEncode \/ Encoded \/ Failed \/ RenameClip \/ Latch
  \/ Close \/ ProcessEnds \/ Restart

ClipSpec == ClipInit /\ [][ClipNext]_clipVars

-----------------------------------------------------------------------------
(* Whoever reads state.json and then opens the clip finds what it was told:  *)
(* a whole file, at least as recent as the timestamp, and no frame older     *)
(* than ClipSeconds before the encode - whatever the worker is doing, after  *)
(* failed encodes, a close under a busy worker, and a kill.                  *)
IsClip(f) == f \notin {<<"none">>, <<"part">>}
ClipSound ==
  Len(published) = 2 =>
    /\ IsClip(clip)
    /\ Last(clip) >= Last(published[2])
    /\ Head(published[2]) + ClipSeconds >= published[1]
=============================================================================
