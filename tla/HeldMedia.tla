------------------------------- MODULE HeldMedia -------------------------------
(***************************************************************************)
(* The one media client of the runtime (robot/media_client.py) and the     *)
(* three threads on it: the audio pump (behavior/audio_pump.py) reads      *)
(* sound, the tick thread reads frames and drops a silent client, the      *)
(* holder keeper of cli/_commands/behavior.py dials whenever it sees none. *)
(* The daemon lends its media subsystem to one consumer at a time.         *)
(*                                                                         *)
(* The client is not locked. A step is a run of attribute writes between   *)
(* two calls that leave the process (SDK or HTTP).                         *)
(***************************************************************************)
EXTENDS Naturals, FiniteSets

CONSTANTS MaxSessions,             \* bound: SDK clients constructed
          MaxStanding,             \* bound: chunks that stand in the SDK's queue
          MaxFaults                \* bound: raising reads, deliberate drops, failed dials

VARIABLES client, acquired,        \* the holder: its SDK session, and "we took the media"
          backoff,                 \* the next attempt lies in the future
          camera,                  \* the session the camera was resolved against, or Unresolved
          closed,
          held,                    \* the daemon's media: "free", "ours" or "theirs"
          open,                    \* SDK sessions that are up
          hand,                    \* per thread: its step and the session in its hands
          keeping, outlived,       \* the keeper runs; its join ran out of time
          pump, standing,          \* the pump's state; chunks in the SDK's queue
          \* for the properties and bounds only
          caught,                  \* the pump has met this session's queue empty
          past,                    \* a chunk from before that was latched
          noticed,                 \* the pump has read since the last session was lost
          raced,                   \* a dial began while a reader was still letting go
          made, faults

None == 0
Unresolved == MaxSessions + 1
Sessions == 1..MaxSessions
Readers == {"pump", "tick"}
Threads == Readers \cup {"keeper", "closer"}

holder == <<client, acquired, backoff, camera, closed>>
sound == <<pump, standing, caught, past>>
seen == <<noticed, raced>>
bounds == <<made, faults>>
mediaVars == <<holder, held, open, hand, keeping, outlived, sound, seen, bounds>>

MediaAssumption ==
    /\ MaxSessions \in Nat \ {0}
    /\ {MaxStanding, MaxFaults} \subseteq Nat

Idle == [step |-> "idle", with |-> None]

MediaInit ==
    /\ client = None /\ acquired = FALSE /\ backoff = FALSE
    /\ camera = Unresolved /\ closed = FALSE
    /\ held = "free" /\ open = {}
    /\ hand = [t \in Threads |-> Idle]
    /\ keeping = TRUE /\ outlived = FALSE
    /\ pump = "draining" /\ standing = 0
    /\ caught = FALSE /\ past = FALSE /\ noticed = TRUE /\ raced = FALSE
    /\ made = 0 /\ faults = 0

At(t, step) == hand[t].step = step
Go(t, step) == hand' = [hand EXCEPT ![t].step = step]
Hold(t, step, s) == hand' = [hand EXCEPT ![t] = [step |-> step, with |-> s]]
Fault == faults < MaxFaults /\ faults' = faults + 1

-----------------------------------------------------------------------------
(* Letting go, by any thread: _release_client, then what comes after it *)

\* The client is taken out first; its session still runs.
LetGo(t) ==
    /\ client' = None /\ camera' = Unresolved
    /\ Hold(t, "close", client)
    /\ noticed' = FALSE
    /\ UNCHANGED <<acquired, backoff, raced>>

\* stop_recording and close: the daemon lets go of its media with its last consumer.
Close(t) ==
    /\ At(t, "close")
    /\ open' = open \ {hand[t].with}
    /\ held' = IF held = "ours" /\ open' = {} THEN "free" ELSE held
    /\ Go(t, "clear")
    /\ UNCHANGED <<holder, keeping, outlived, sound, seen, bounds>>

\* _release_media: the flag first, then the request.
Clear(t) ==
    /\ At(t, "clear")
    /\ acquired' = FALSE
    /\ Go(t, IF acquired THEN "release" ELSE "arm")
    /\ UNCHANGED <<client, backoff, camera, closed, held, open, keeping, outlived, sound,
                   seen, bounds>>
ReleaseMedia(t) ==
    /\ At(t, "release")
    /\ held' = "free"
    /\ Go(t, "arm")
    /\ UNCHANGED <<holder, open, keeping, outlived, sound, seen, bounds>>

\* What an empty read tells the pump.
OnEmpty ==
    /\ noticed' = TRUE
    /\ pump' = IF client = None THEN "lost" ELSE IF pump = "draining" THEN "live" ELSE pump
    /\ caught' = (client # None /\ (caught \/ pump = "draining"))
    /\ UNCHANGED <<standing, past, raced>>

\* The backoff is armed last; close has none to arm. The pump's read was an empty one.
Arm(t) ==
    /\ At(t, "arm")
    /\ backoff' = (backoff \/ t # "closer")
    /\ Hold(t, IF t = "closer" THEN "done" ELSE "idle", None)
    /\ IF t = "pump" THEN OnEmpty ELSE UNCHANGED <<sound, seen>>
    /\ UNCHANGED <<client, acquired, camera, closed, held, open, keeping, outlived, bounds>>

-----------------------------------------------------------------------------
(* The readers *)

\* A pump that is not live drains: it latches nothing until it has met the queue empty.
FaultyAfterChunk == "live"
AfterChunk == IF pump = "live" THEN pump ELSE "draining"

\* A read of the pump: nothing without a client, a chunk, or an empty queue. A chunk is
\* latched by a live pump only; an empty read makes it live or tells it the client is gone.
Read ==
    /\ At("pump", "idle") /\ ~closed
    /\ IF client # None /\ standing > 0
       THEN /\ standing' = standing - 1
            /\ pump' = AfterChunk
            /\ past' = (past \/ (pump = "live" /\ ~caught))
            /\ noticed' = TRUE
            /\ UNCHANGED <<caught, raced>>
       ELSE OnEmpty
    /\ UNCHANGED <<holder, held, open, hand, keeping, outlived, bounds>>

\* A raising read of either thread, or the tick thread's deliberate drop. The pump's read
\* counts as empty, and the pump asks who is there once the client is gone.
Drop(t) ==
    /\ At(t, "idle") /\ client # None /\ ~closed /\ Fault
    /\ LetGo(t)
    /\ UNCHANGED <<closed, held, open, keeping, outlived, sound, made>>

\* A raising read of a session that the other reader is letting go: the same path.
LateDrop(t) ==
    /\ At(t, "idle") /\ client = None /\ ~closed /\ Fault
    /\ \E u \in Readers : hand[u].step \in {"close", "clear", "release", "arm"}
    /\ LetGo(t)
    /\ UNCHANGED <<closed, held, open, keeping, outlived, sound, made>>

\* _ensure_camera: what it finds is kept, whatever client it found it on.
Look ==
    /\ At("tick", "idle") /\ client # None /\ camera = Unresolved /\ ~closed
    /\ Go("tick", "look")
    /\ UNCHANGED <<holder, held, open, keeping, outlived, sound, seen, bounds>>
Latch ==
    /\ At("tick", "look")
    /\ camera' = client
    /\ Go("tick", "idle")
    /\ UNCHANGED <<client, acquired, backoff, closed, held, open, keeping, outlived, sound,
                   seen, bounds>>

-----------------------------------------------------------------------------
(* The keeper: _HolderKeeper.poll_once, warm_up, _ensure_client *)

\* It looks for a client, a closed holder and the backoff; media already ours are not
\* asked for again.
Poll ==
    /\ At("keeper", "idle") /\ keeping /\ client = None /\ ~closed /\ ~backoff
    /\ Go("keeper", IF acquired THEN "dial" ELSE "gate")
    /\ raced' = (raced \/ \E t \in Readers : hand[t].step \in {"close", "clear", "release", "arm"})
    /\ UNCHANGED <<holder, held, open, keeping, outlived, sound, noticed, bounds>>

\* _run_media_gate: what another consumer holds is left alone; free media are acquired. A
\* daemon that gives no answer, or refuses, is dialled all the same.
Gate ==
    /\ At("keeper", "gate")
    /\ \/ held # "free" /\ backoff' = TRUE /\ Go("keeper", "idle") /\ UNCHANGED <<acquired, held>>
       \/ held = "free" /\ acquired' = TRUE /\ held' = "ours" /\ Go("keeper", "dial")
          /\ UNCHANGED backoff
       \/ Go("keeper", "dial") /\ UNCHANGED <<acquired, backoff, held>>
    /\ UNCHANGED <<client, camera, closed, open, keeping, outlived, sound, seen, bounds>>

\* The SDK session comes up ...
Dial ==
    /\ At("keeper", "dial") /\ made < MaxSessions
    /\ made' = made + 1 /\ open' = open \cup {made'}
    /\ Hold("keeper", "record", made')
    /\ UNCHANGED <<holder, held, keeping, outlived, sound, seen, faults>>

\* ... and records, and is the client, no sooner than the next beat of a pump that is not
\* busy letting go; or it fails, is closed and everything handed back.
Adopt ==
    /\ At("keeper", "record") /\ (noticed \/ ~At("pump", "idle"))
    /\ client' = hand["keeper"].with
    /\ backoff' = FALSE
    /\ standing' \in 0..MaxStanding /\ caught' = FALSE
    /\ Hold("keeper", "idle", None)
    /\ UNCHANGED <<acquired, camera, closed, held, open, keeping, outlived, pump, past, seen,
                   bounds>>
GiveUp ==
    /\ At("keeper", "record") /\ Fault
    /\ Go("keeper", "close")
    /\ UNCHANGED <<holder, held, open, keeping, outlived, sound, seen, made>>
Fail ==
    /\ At("keeper", "dial") /\ Fault
    /\ Go("keeper", "clear")
    /\ UNCHANGED <<holder, held, open, keeping, outlived, sound, seen, made>>

-----------------------------------------------------------------------------
(* _RuntimeResources.close, on the tick thread: the keeper, the pump, then the holder *)

\* stop waits for a sweep that has begun, as long as its join does.
StopKeeper ==
    /\ keeping /\ At("tick", "idle")
    /\ keeping' = FALSE
    /\ UNCHANGED <<holder, held, open, hand, outlived, sound, seen, bounds>>
CloseHolder ==
    /\ ~keeping /\ ~closed /\ At("tick", "idle") /\ At("pump", "idle")
    /\ outlived' = ~At("keeper", "idle")
    /\ closed' = TRUE
    /\ LetGo("closer")
    /\ UNCHANGED <<held, open, keeping, sound, bounds>>

-----------------------------------------------------------------------------
(* Time, the microphone and the other consumer *)

Wait ==
    /\ backoff /\ backoff' = FALSE
    /\ UNCHANGED <<client, acquired, camera, closed, held, open, hand, keeping, outlived, sound,
                   seen, bounds>>
Speak ==
    /\ client # None /\ caught /\ standing < MaxStanding
    /\ standing' = standing + 1
    /\ UNCHANGED <<holder, held, open, hand, keeping, outlived, pump, caught, past, seen,
                   bounds>>
Lend ==
    /\ held = "free" /\ Fault /\ held' = "theirs"
    /\ UNCHANGED <<holder, open, hand, keeping, outlived, sound, seen, made>>
Return ==
    /\ held = "theirs" /\ held' = "free"
    /\ UNCHANGED <<holder, open, hand, keeping, outlived, sound, seen, bounds>>

Reads == \/ Read \/ Look \/ Latch
         \/ \E t \in Readers : Drop(t) \/ LateDrop(t)
LettingGo(t) == Close(t) \/ Clear(t) \/ ReleaseMedia(t) \/ Arm(t)
Keeps == Poll \/ Gate \/ Dial \/ Adopt \/ GiveUp \/ Fail
MediaNext ==
    \/ Reads \/ Keeps
    \/ \E t \in Threads : LettingGo(t)
    \/ StopKeeper \/ CloseHolder
    \/ Wait \/ Speak \/ Lend \/ Return

\* Every thread runs on, the backoff ends and another consumer returns what it borrowed.
Fairness ==
    /\ WF_mediaVars(Read) /\ WF_mediaVars(Latch) /\ WF_mediaVars(Wait) /\ WF_mediaVars(Return)
    /\ WF_mediaVars(Poll) /\ WF_mediaVars(Gate) /\ WF_mediaVars(Dial)
    /\ WF_mediaVars(Adopt \/ GiveUp \/ Fail)
    /\ \A t \in Threads : WF_mediaVars(LettingGo(t))

MediaSpec == MediaInit /\ [][MediaNext]_mediaVars /\ Fairness

-----------------------------------------------------------------------------
(* What is to hold *)

Steps == {"idle", "close", "clear", "release", "arm", "done", "look", "gate", "dial", "record"}
MediaTypeOK ==
    /\ client \in 0..MaxSessions /\ camera \in 0..Unresolved /\ open \subseteq 1..made
    /\ {acquired, backoff, closed, keeping, outlived, caught, past, noticed, raced}
         \subseteq BOOLEAN
    /\ held \in {"free", "ours", "theirs"} /\ pump \in {"draining", "live", "lost"}
    /\ hand \in [Threads -> [step : Steps, with : 0..MaxSessions]]
    /\ standing \in 0..MaxStanding /\ made \in 0..MaxSessions /\ faults \in 0..MaxFaults

Hands == {hand[t].with : t \in {u \in Threads : hand[u].step \in {"close", "record"}}}

\* No SDK session is orphaned: each one that is up is the client or in the hands of the
\* thread that is bringing it up or down (media_client.py:776, "an unclosed client hangs
\* the process at interpreter exit").
NoSessionOrphaned == open \subseteq Hands \cup {client}

\* A keeper that stopped in time leaves nothing behind close: no session, no client and
\* no media held in our name.
ReleasedAtExit ==
    At("closer", "done") /\ ~outlived => open = {} /\ client = None /\ ~acquired

\* The pump latches no chunk a new session had standing when it came up: "a consumer
\* polling at any rate never reads the past" (audio_pump.py:28). A keeper that dials while
\* a reader is still letting go may have the new session up before the pump asks whether
\* it is connected, and the pump stays live: such runs are left out.
NoPast == ~raced => ~past

\* What holds of the sessions and of what is heard of them, however the three threads
\* interleave (media_client.py, audio_pump.py).
MediaSound == MediaTypeOK /\ NoSessionOrphaned /\ ReleasedAtExit /\ NoPast

\* A lost client comes back while there are sessions to be had: this holds again and
\* again, whatever becomes of the client meanwhile.
WarmAgain == client # None \/ ~keeping \/ made = MaxSessions

\* Refuted. "so we never pull the subsystem out from under ourselves" (media_client.py:701):
\* a client that came up with the media we took still has them.
NotUnderOurselves ==
    [][\A t \in Threads : At(t, "release") /\ held' = "free" => client = None]_mediaVars

\* Refuted. "Resolve the camera once per client" (media_client.py:724).
CameraPerClient == client # None /\ camera # Unresolved => camera = client
================================================================================
