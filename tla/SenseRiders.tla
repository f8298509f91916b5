----------------------------- MODULE SenseRiders -----------------------------
(***************************************************************************)
(* Being patted: the pat sense (behavior/pat_sense.py over the detector of *)
(* motion/pat.py) and the reaction a pat starts (behavior/pet_reaction.py),*)
(* in the loop they form. A press shows as a difference between the        *)
(* commanded and the actual pose, so the sense is blind while the robot    *)
(* moves, and what it senses makes the robot move.                         *)
(*                                                                         *)
(* A step is a tick of the engine: the reaction reads last tick's state    *)
(* and moves or holds, the sense looks, and a rule may admit a reaction.   *)
(* Ages and budgets are ticks. The detector's own timeouts (its window,    *)
(* its cooldowns, the jittered second level) expire at any tick.           *)
(***************************************************************************)

(* behavior/face_sense.py: the tick thread reads a camera frame, hands it to *)
(* a worker through a one-place slot, drains the worker's observation into a *)
(* face position with an age and a name announced at most once per cooldown, *)
(* and watches for a stream that has gone silent under a client that still   *)
(* says it is connected: it then drops the client, which the keeper dials    *)
(* again.  The worker detects only while the head is still, or while a face  *)
(* lock is held.  Time is kept as ages, in frame intervals.                  *)
EXTENDS Integers

-----------------------------------------------------------------------------
(* Touch                                                                     *)

CONSTANTS StillHold, ReleaseAfter, ContentmentAfter, WarningAfter, EnoughMax, Cooldown,
          MinPresses,
          Slew,                    \* ticks the reaction needs to reach a pose
          BlockedGrace, LossGrace, MaxContact, Gesture,
          MaxDisturbances          \* bound: foreign moves, late ticks and failed reads

VARIABLES pat,                     \* PatState and the sense's bookkeeping
          detector,                \* presses counted and the interaction's level
          latch,                   \* the one-tick event
          reaction,
          admitted,                \* a reaction begins with the next tick
          \* for the properties and bounds only
          cooling,                 \* observations still owed before a new contact
          touched,                 \* presses seen since the last gap or event
          watched,                 \* observations since the contact began
          disturbed,               \* something else moved, slept or failed since admission
          disturbances

patVars == <<pat, detector, latch, reaction, admitted, cooling, touched, watched, disturbed,
          disturbances>>

Never == -1
Larger(a, b) == IF a < b THEN b ELSE a
Older(age) == IF age = Never THEN Never ELSE age + 1
Capped(age, top) == IF age > top THEN top ELSE age

TouchAssumption ==
    /\ {StillHold, ReleaseAfter, ContentmentAfter, Cooldown, MinPresses, Slew, LossGrace,
        MaxContact, Gesture} \subseteq Nat \ {0}
    /\ ContentmentAfter <= WarningAfter /\ WarningAfter <= EnoughMax
    /\ {BlockedGrace, MaxDisturbances} \subseteq Nat

NoReaction == [on |-> FALSE, age |-> 0, loss |-> Never, pose |-> 0, slew |-> 0,
               finish |-> Never, reason |-> "none"]
Deaf == [presses |-> 0, level |-> "idle"]

PatInit ==
    /\ pat = [availability |-> "unavailable", contact |-> FALSE, phase |-> "idle",
              gap |-> FALSE, gapAge |-> Never, noFresh |-> Never, active |-> 0,
              enoughAfter |-> EnoughMax, lastSeen |-> Never, remaining |-> Never,
              motion |-> Never, owner |-> "base", blocked |-> FALSE]
    /\ detector = Deaf /\ latch = "none"
    /\ reaction = NoReaction /\ admitted = FALSE
    /\ cooling = 0 /\ touched = 0 /\ watched = 0
    /\ disturbed = FALSE /\ disturbances = 0

-----------------------------------------------------------------------------
(* The reaction: PetReaction.__call__ *)

Rank(phase) == IF phase \in {"contentment", "warning"}
               THEN IF phase = "warning" THEN 3 ELSE 2
               ELSE 1
Finish(r, reason) == IF r.finish = Never THEN [r EXCEPT !.finish = 0, !.reason = reason] ELSE r

\* The grace covers the hold and the way to a pose.
Grace == IF pat.availability = "blocked" THEN BlockedGrace ELSE LossGrace

\* _observe: a sense that answers ends the reaction or feeds it; one that does not is
\* given its grace, the longer one when it is the robot's own motion that blinds it.
Observed(r) ==
    IF r.finish # Never THEN r
    ELSE IF pat.availability # "available"
    THEN IF r.loss = Never THEN [r EXCEPT !.loss = 0]
         ELSE IF r.loss >= Grace THEN Finish(r, "sensing_lost") ELSE r
    ELSE LET s == [r EXCEPT !.loss = Never]
         IN IF pat.phase = "cooldown" THEN NoReaction
            ELSE IF pat.phase = "enough" THEN Finish(s, "enough")
            ELSE IF ~pat.contact THEN Finish(s, "observed_release")
            ELSE [s EXCEPT !.pose = Larger(s.pose, Rank(pat.phase)),
                           !.slew = IF Rank(pat.phase) > s.pose THEN Slew ELSE s.slew]

\* Its next pose, on the way to a contact's or within the gesture that ends it.
Reacted(r) ==
    LET aged == [r EXCEPT !.age = @ + 1, !.loss = Older(@), !.finish = Older(@)]
        seen == Observed(aged)
        kept == IF seen.on /\ seen.age >= MaxContact THEN Finish(seen, "safety_backstop") ELSE seen
    IN IF ~r.on THEN r
       ELSE IF kept.finish >= Gesture THEN NoReaction
       ELSE [kept EXCEPT !.slew = IF @ > 0 THEN @ - 1 ELSE 0]
Moves(before, r) ==
    r.on /\ (r.finish # Never \/ before.slew > 0 \/ r.slew > 0 \/ r.pose # before.pose)

-----------------------------------------------------------------------------
(* The sense: gaps *)

FaultyCleared(p) == IF p.contact THEN detector ELSE Deaf
Cleared(p) == Deaf

\* _end_interaction: an interaction that has had enough leaves a cooldown behind.
Ended(p, availability) ==
    [p EXCEPT !.remaining = IF p.phase = "enough" /\ @ = Never THEN Cooldown ELSE @,
              !.availability = availability, !.contact = FALSE, !.phase = "idle",
              !.active = 0, !.lastSeen = Never, !.noFresh = Never]

\* _begin_gap: a contact is suspended, with its ladder, anything else ended.
Suspends(p) == p.contact /\ p.phase # "enough"
Gap(p, availability) ==
    IF Suspends(p)
    THEN [p EXCEPT !.availability = availability, !.lastSeen = Never, !.gap = TRUE,
                   !.gapAge = IF p.gap THEN @ ELSE 0]
    ELSE IF ~p.gap THEN [Ended(p, availability) EXCEPT !.gap = TRUE]
    ELSE [p EXCEPT !.availability = availability, !.phase = "idle", !.lastSeen = Never,
                   !.noFresh = Never]

\* A clock gap or a new owner of the body: blind, and the hold begins anew.
Edge(p) == [Gap(p, "blocked") EXCEPT !.motion = Never]

\* _stillness_open: the whole command has not moved for the hold.
StillFor(p, moved) == IF p.motion = Never \/ moved THEN 0 ELSE Capped(p.motion + 1, StillHold)

-----------------------------------------------------------------------------
(* The sense: an observation *)

\* _advance_policy_clock: cooldown is counted in observations, and starts over with each
\* interaction that has had enough.
Clocked(p) ==
    IF p.phase = "enough"
    THEN [p EXCEPT !.remaining = Cooldown, !.contact = FALSE, !.phase = "cooldown",
                   !.active = 0, !.lastSeen = 0, !.noFresh = Never]
    ELSE IF p.remaining = Never THEN p
    ELSE IF p.phase # "cooldown" THEN [p EXCEPT !.phase = "cooldown", !.lastSeen = 0]
    ELSE LET left == p.remaining - (IF p.lastSeen = Never THEN 0 ELSE p.lastSeen)
         IN IF left <= 0 THEN [p EXCEPT !.remaining = Never, !.phase = "idle", !.lastSeen = 0]
            ELSE [p EXCEPT !.remaining = left, !.lastSeen = 0]

\* _adopt_fresh_press and _advance_contact_phase.
Adopted(p, enough) ==
    [p EXCEPT !.noFresh = 0, !.contact = TRUE,
              !.active = IF p.phase \in {"idle", "released"} THEN 0 ELSE @,
              !.enoughAfter = IF p.phase \in {"idle", "released"} THEN enough ELSE @,
              !.phase = IF @ \in {"idle", "released"} THEN "receptive" ELSE @]
Laddered(p, dt) ==
    LET active == p.active + dt
    IN [p EXCEPT !.active = Capped(active, EnoughMax),
                 !.phase = IF active >= p.enoughAfter THEN "enough"
                           ELSE IF active >= WarningAfter THEN "warning"
                           ELSE IF active >= ContentmentAfter /\ @ = "receptive" THEN "contentment"
                           ELSE @]
\* _update_pat_state: adopt, then release, or climb.
Time(p) == IF p.lastSeen = Never THEN 0 ELSE p.lastSeen
Updated(p, press, enough) ==
    LET q == [(IF press THEN Adopted(p, enough) ELSE p) EXCEPT !.lastSeen = 0]
        r == [q EXCEPT !.noFresh = IF @ = Never /\ q.contact THEN 0 ELSE @]
    IN IF ~q.contact THEN q
       ELSE IF r.noFresh >= ReleaseAfter THEN [r EXCEPT !.contact = FALSE, !.phase = "released"]
       ELSE Laddered(r, Time(p))

\* What opens with a gap behind it charges the blind time to the release.
Recovered(p) ==
    [p EXCEPT !.gap = FALSE, !.availability = "available", !.blocked = FALSE,
              !.noFresh = IF p.gap /\ p.contact /\ p.gapAge # Never THEN Larger(@, p.gapAge) ELSE @,
              !.gapAge = IF p.gap THEN @ ELSE Never]

\* PatDetector.update: presses pair into an event, and an event into a longer one.
Detected(press) ==
    LET presses == detector.presses + (IF press THEN 1 ELSE 0)
    IN \/ /\ detector.level = "idle"
          /\ IF presses >= MinPresses
             THEN detector' = [presses |-> 0, level |-> "level1"] /\ latch' = "level1"
             ELSE detector' = [detector EXCEPT !.presses = presses] /\ latch' = "none"
       \/ detector.level = "level1" /\ press
          /\ detector' = [presses |-> 0, level |-> "cooling"] /\ latch' = "level2"
       \/ detector.level # "idle" /\ UNCHANGED detector /\ latch' = "none"
       \/ detector' = Deaf /\ latch' = "none"      \* a timeout: window, gap, cooldown

-----------------------------------------------------------------------------
(* A tick *)

\* _process, given what the body did.
Sense(owner, moved, late, reads, press, enough) ==
    LET aged == [pat EXCEPT !.gapAge = Capped(Older(@), ReleaseAfter), !.lastSeen = Older(@),
                            !.noFresh = Capped(Older(@), ReleaseAfter)]
        edged == [(IF late \/ owner # pat.owner THEN Edge(aged) ELSE aged) EXCEPT !.owner = owner]
        still == StillFor(edged, moved)
        armed == [edged EXCEPT !.motion = still]
        seen == Clocked(Recovered(armed))
        gapped == late \/ owner # pat.owner \/ still < StillHold \/ ~reads
    IN IF still < StillHold
       THEN pat' = [Gap(armed, "blocked") EXCEPT !.blocked = TRUE]
            /\ detector' = Cleared(pat) /\ latch' = "none"
       ELSE IF ~reads
       THEN pat' = Gap(armed, "unavailable") /\ detector' = Cleared(pat) /\ latch' = "none"
       ELSE IF seen.phase = "cooldown"
       THEN /\ pat' = [seen EXCEPT !.lastSeen = 0]
            /\ detector' = (IF gapped \/ pat.phase = "enough" THEN Deaf ELSE detector)
            /\ latch' = "none"
       ELSE pat' = Updated(seen, press, enough) /\ Detected(press)

\* What the properties watch.
Watch(foreign) ==
    /\ cooling' = IF pat'.phase = "enough" THEN Cooldown
                  ELSE IF /\ cooling > 0 /\ pat.phase # "enough"
                          /\ pat.availability = "available" /\ pat'.availability = "available"
                       THEN cooling - 1
                  ELSE cooling
    /\ watched' = IF ~pat'.contact THEN 0
                  ELSE IF pat'.availability = "available" THEN Capped(watched + 1, EnoughMax)
                  ELSE watched
    /\ disturbances' = disturbances + foreign
    /\ disturbed' = IF admitted THEN foreign > 0 ELSE disturbed \/ foreign > 0

Tick ==
    \E moved, late, press, admit \in BOOLEAN, reads \in BOOLEAN, enough \in {WarningAfter, EnoughMax} :
      LET foreign == (IF moved THEN 1 ELSE 0) + (IF late THEN 1 ELSE 0) + (IF reads THEN 0 ELSE 1)
          begun == IF admitted /\ ~reaction.on THEN [NoReaction EXCEPT !.on = TRUE] ELSE reaction
          r == Reacted(begun)
          owner == IF r.on THEN "reaction" ELSE "base"
      IN /\ disturbances + foreign <= MaxDisturbances
         /\ reaction' = r
         /\ Sense(owner, moved \/ Moves(reaction, r), late, reads, press, enough)
         /\ admit => latch # "none"
         /\ admitted' = admit
         /\ touched' = IF pat'.availability # "available" \/ latch' # "none" THEN 0
                       ELSE IF press THEN Capped(touched + 1, MinPresses) ELSE touched
         /\ Watch(foreign)

PatNext == Tick
PatSpec == PatInit /\ [][PatNext]_patVars

-----------------------------------------------------------------------------
(* What is to hold *)

\* Who has had enough is left alone for a whole cooldown of observations, whatever blinds
\* the sense in between (pat_sense.py:838, "pausing across gaps").
FullCooldown == pat.contact /\ pat.phase # "enough" => cooling = 0

\* Only presses seen on one side of a gap pair into a pat, and contact is never longer
\* than what was seen of it: "blind time is never banked as contact time"
\* (pat_sense.py:740).
PairedInSightStep ==
  latch' = "level1" => touched + 1 >= MinPresses
PairedInSight == [][PairedInSightStep]_patVars
OnlySeenCounts == pat.contact => pat.active <= watched

\* The reaction is not ended as lost by the blindness its own motion causes: the grace
\* covers the way to its pose and the hold after it (pet_reaction.py:107).
NotItsOwnDoing == reaction.reason = "sensing_lost" => disturbed

-----------------------------------------------------------------------------
(* Faces                                                                     *)

CONSTANTS
  StreamStale,  \* stream_stale_s
  PositionTtl,  \* face_bbox_ttl_s
  NameCooldown,     \* reannounce_cooldown
  Settle,       \* still_settle_s
  Lag,          \* ticks between a frame's exposure and its read (the camera's buffer)
  Warmup,       \* ticks a new client needs before its first frame
  MaxDeaths     \* bound: streams that go silent

FaceSenseAssumption ==
  /\ {StreamStale, PositionTtl, NameCooldown, Settle, Warmup} \subseteq Nat \ {0}
  /\ {Lag, MaxDeaths} \subseteq Nat /\ Lag < Settle /\ Warmup < StreamStale

VARIABLES
  client,    \* the held client: up, silent, how long dialed, not yet seen by the latch
  frameAge,  \* since the last usable frame; Never before the first
  latched,   \* _stream_ended_logged
  still,     \* how long the worker has seen the head still
  slot,      \* the input slot: fresh, the frame's age, exposed with the head still
  job,       \* the frame being detected: [none], or its real age and its claimed age
  out,       \* the output slot, likewise, with who was seen
  position,  \* the face position: real and claimed age
  lastSaid,  \* since the name was last announced; Never
  face,      \* the name cue of this tick
  deaths

faceVars == <<client, frameAge, latched, still, slot, job, out, position, lastSaid, face, deaths>>

LargerAge(a, b) == IF a >= b THEN a ELSE b
Cap == LargerAge(StreamStale, LargerAge(PositionTtl + 1, NameCooldown))  \* ages saturate here
NeverSeen == Cap + 1
OlderBy(n) == IF n >= Cap THEN n ELSE n + 1
Nothing == [on |-> FALSE, age |-> 0, claimed |-> 0, flowing |-> TRUE, named |-> FALSE]
Nowhere == [on |-> FALSE, age |-> 0, claimed |-> 0, flowing |-> TRUE]

NoJob == [on |-> FALSE, age |-> 0, claimed |-> 0, held |-> FALSE, flowing |-> TRUE, still |-> TRUE]

FaceInit ==
  /\ client = [up |-> TRUE, silent |-> FALSE, dialed |-> 0, new |-> TRUE]
  /\ frameAge = NeverSeen /\ latched = FALSE /\ still = Settle
  /\ slot = [fresh |-> FALSE, age |-> 0, still |-> TRUE]
  /\ job = NoJob
  /\ out = Nothing /\ position = Nowhere
  /\ lastSaid = NeverSeen /\ face = FALSE /\ deaths = 0

-----------------------------------------------------------------------------
(* _update_frame and _check_stream_staleness.  A new client re-arms the      *)
(* once-per-episode latch; the age it is judged by is that of the last frame *)
(* of any client.                                                            *)
Arrives == client.up /\ ~client.silent /\ client.dialed >= Warmup

(* Defect for a mutant: the latch of an earlier client is kept.              *)
Spent == latched /\ ~(client.up /\ client.new)

StreamEnded == client.up /\ ~Arrives /\ ~Spent /\ frameAge # NeverSeen /\ OlderBy(frameAge) >= StreamStale

Read ==
  /\ frameAge' = IF Arrives THEN 0 ELSE OlderBy(frameAge)
  /\ latched' = (~Arrives /\ (StreamEnded \/ Spent))
  /\ client' = [up |-> client.up /\ ~StreamEnded, silent |-> client.silent /\ ~StreamEnded,
                dialed |-> IF client.up THEN OlderBy(client.dialed) ELSE 0,
                new |-> client.new /\ (~client.up \/ Arrives)]

(* _drain_match, then _age_position: a position is anchored on the claimed   *)
(* capture time and cleared past its time to live; a name is a cue once per  *)
(* cooldown.                                                                 *)
(* Defect for a mutant: anchored on the tick that drains it.                 *)
FaultyAnchored(o) == [on |-> TRUE, age |-> OlderBy(o.age), claimed |-> 0, flowing |-> o.flowing]
Anchored(o) == [on |-> TRUE, age |-> OlderBy(o.age), claimed |-> OlderBy(o.claimed), flowing |-> o.flowing]

Expired(p) == p.claimed > PositionTtl
Silenced == lastSaid # NeverSeen /\ OlderBy(lastSaid) < NameCooldown

Drain ==
  LET p == IF out.on THEN Anchored(out)
           ELSE [position EXCEPT !.age = OlderBy(@), !.claimed = OlderBy(@)]
  IN /\ position' = IF p.on /\ ~Expired(p) THEN p ELSE Nowhere
     /\ face' = (out.on /\ out.named /\ ~Silenced)
     /\ lastSaid' = IF face' THEN 0 ELSE OlderBy(lastSaid)
     /\ out' = Nothing

FaceTick(moving) ==
  /\ Read /\ Drain
  /\ still' = IF moving THEN 0 ELSE IF still < Settle THEN still + 1 ELSE Settle
  /\ slot' = IF Arrives THEN [fresh |-> TRUE, age |-> 0, still |-> still' > Lag]
             ELSE [slot EXCEPT !.age = OlderBy(@)]
  /\ job' = [job EXCEPT !.age = IF job.on THEN OlderBy(@) ELSE 0,
                        !.claimed = IF job.on THEN OlderBy(@) ELSE 0]
  /\ UNCHANGED deaths

-----------------------------------------------------------------------------
(* The worker: take a frame when the gate allows, stamping it with the clock *)
(* of that moment; publish what was found.                                   *)
(* Defect for a mutant: the head counts as still as soon as it stops.        *)
Open(held) == held \/ still >= Settle

Take(held) ==
  /\ ~job.on /\ slot.fresh /\ Open(held)
  /\ slot' = [slot EXCEPT !.fresh = FALSE]
  /\ job' = [on |-> TRUE, age |-> slot.age, claimed |-> 0, held |-> held,
             flowing |-> slot.age = 0, still |-> slot.still]
  /\ UNCHANGED <<client, frameAge, latched, still, out, position, lastSaid, face, deaths>>

Observe ==
  /\ job.on
  /\ job' = NoJob
  /\ \/ UNCHANGED out
     \/ \E named \in BOOLEAN :
          out' = [on |-> TRUE, age |-> job.age, claimed |-> job.claimed,
                  flowing |-> job.flowing, named |-> named]
  /\ UNCHANGED <<client, frameAge, latched, still, slot, position, lastSaid, face, deaths>>

(* The stream goes silent; the keeper dials a dropped client again.          *)
GoSilent ==
  /\ client.up /\ ~client.silent /\ deaths < MaxDeaths
  /\ client' = [client EXCEPT !.silent = TRUE] /\ deaths' = deaths + 1
  /\ UNCHANGED <<frameAge, latched, still, slot, job, out, position, lastSaid, face>>

Rewarm ==
  /\ ~client.up /\ client' = [up |-> TRUE, silent |-> FALSE, dialed |-> 0, new |-> TRUE]
  /\ UNCHANGED <<frameAge, latched, still, slot, job, out, position, lastSaid, face, deaths>>

FaceNext == \/ \E b \in BOOLEAN : FaceTick(b) \/ Take(b)
        \/ Observe \/ GoSilent \/ Rewarm

FaceSpec == FaceInit /\ [][FaceNext]_faceVars

(* The engine ticks and the keeper sweeps for as long as the process runs.   *)
FaceFairSpec == FaceSpec /\ WF_faceVars(\E b \in BOOLEAN : FaceTick(b)) /\ WF_faceVars(Rewarm)

-----------------------------------------------------------------------------
(* What is published of a face is honest while frames flow: a position is    *)
(* shown only within its time to live, at an age that counts the detection   *)
(* and the wait for the tick, and no frame exposed while the head moved is  *)
(* looked at unless a lock asked for it.  (A frame that waited in the slot   *)
(* after the stream ended is claimed younger than it is; not claimed here.)  *)
FaceHonest ==
  /\ position.on => position.claimed <= PositionTtl
  /\ position.on /\ position.flowing => position.age = position.claimed
  /\ job.on /\ ~job.held /\ job.flowing => job.still

(* A client whose stream has gone silent after frames had arrived does not   *)
(* stay: it is dropped, also when it went silent before its own first frame. *)
SilentIsDropped == []<>(client.silent => frameAge = NeverSeen)

(* operating-reachy.md: the client drops itself and the keeper re-warms it   *)
(* "the moment its own unchanged connected == False poll notices [...] no    *)
(* process restart": once streams have stopped dying, frames come back.      *)
StreamReturns == []<>(frameAge \in {0, NeverSeen})
=============================================================================
