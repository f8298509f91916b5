-------------------------------- MODULE FaceLock --------------------------------
(***************************************************************************)
(* The life of a face lock (reachy/behavior/face_lock.py, FaceLockDriver): *)
(* taken and released by intents, ended by its own watchdogs, its claim on *)
(* the inhibited set contended by whoever calls set_inhibition, its name   *)
(* open to whoever runs a behavior of that name.                           *)
(*                                                                         *)
(* A tick is: operators act on the active set ("drain"); the intents spool *)
(* is drained ("intents"); inhibitions are enforced and the lock has its   *)
(* turn; time passes.  Times are counted from their start, up to the limit *)
(* they are compared with.                                                 *)
(***************************************************************************)
EXTENDS LockOps, Integers

CONSTANTS LockName,     \* FACE_LOCK_BEHAVIOR
          FaceLostAfter, MindGrace, MaxHold,   \* the three limits
          MaxStep       \* bound: clock units between two ticks

ASSUME LimitsAssumption ==
  /\ LockName \in Names
  /\ FaceLostAfter \in Nat \ {0} /\ MindGrace \in Nat \ {0} /\ MaxHold \in Nat \ {0}
  /\ MaxStep \in Nat \ {0}

VARIABLES k,          \* the claim (LockOps)
          active,     \* the lock's own behavior is on the active set
          namesake,   \* a behavior of its name that others admitted is, too
          phase,      \* "drain", "intents", "end"
          face,       \* this tick's sense holds a fresh face
          heldFor,    \* now - _locked_at
          unseen,     \* now - _face_seen_at
          reported,   \* _face_lost_reported
          offline,    \* now - _mind_offline_since, or Never
          wanted,     \* ghost: the set the last set_inhibition asked for
          kept,       \* ghost: lock names in every set asked for since before the lock
          calm,       \* ghost: time since the mind last read anything but offline
          blind,      \* ghost: time since a fresh face, or the take
          reports,    \* ghost: face-lost reports since then
          reason      \* ghost: why the last lock ended

lockVars  == <<heldFor, unseen, reported, offline>>
ghostVars == <<wanted, kept, calm, blind, reports, reason>>
vars == <<k, active, namesake, phase, face, lockVars, ghostVars>>

Never == -1
Reasons == {"none", "requested", "evicted", "mind-offline", "max-hold"}
Minds == {"online", "offline", "unknown"}

TypeOK ==
  /\ k \in Claims
  /\ active \in BOOLEAN /\ namesake \in BOOLEAN
  /\ face \in BOOLEAN /\ reported \in BOOLEAN
  /\ phase \in {"drain", "intents", "end"}
  /\ heldFor \in 0 .. MaxHold
  /\ unseen \in 0 .. FaceLostAfter
  /\ offline \in {Never} \cup 0 .. MindGrace
  /\ wanted \in SUBSET Names /\ kept \in SUBSET Names
  /\ calm \in 0 .. MindGrace /\ blind \in 0 .. FaceLostAfter
  /\ reports \in Nat
  /\ reason \in Reasons

Init ==
  /\ k = NoClaim
  /\ active = FALSE /\ namesake = FALSE /\ phase = "drain" /\ face = FALSE
  /\ heldFor = 0 /\ unseen = 0 /\ reported = FALSE /\ offline = Never
  /\ wanted = {} /\ kept = {} /\ calm = 0 /\ blind = 0 /\ reports = 0 /\ reason = "none"

--------------------------------------------------------------------------------
\* A stop by id, or a stopping add, from any surface that acts before the lock's
\* turn takes the behavior away; a stop by name takes those of its name with it.
Evicted(byName) ==
  /\ phase # "end" /\ active
  /\ active' = FALSE
  /\ namesake' = (namesake /\ ~byName)
  /\ UNCHANGED <<k, phase, face, lockVars, ghostVars>>

\* `behavior run face-lock` is an add like any other: of the stopping class it
\* evicts the lock's gaze, of another it runs beside it.
NamesakeRuns(stopping) ==
  /\ phase # "end" /\ ~namesake
  /\ namesake' = TRUE
  /\ active' = (active /\ ~stopping)
  /\ UNCHANGED <<k, phase, face, lockVars, ghostVars>>

\* It ends: stopped by id, evicted or over.
NamesakeEnds ==
  /\ phase # "end" /\ namesake
  /\ namesake' = FALSE
  /\ UNCHANGED <<k, active, phase, face, lockVars, ghostVars>>

\* The tick's one sense is computed before the seam runs.
StartSeam(f) ==
  /\ phase = "drain"
  /\ phase' = "intents"
  /\ face' = f
  /\ UNCHANGED <<k, active, namesake, lockVars, ghostVars>>

\* lock_face, refused without a fresh face; every timer starts at this moment.
LockFace ==
  /\ phase = "intents" /\ ~k.held /\ face
  /\ k' = Take(k)
  /\ active' = TRUE
  /\ heldFor' = 0 /\ unseen' = 0 /\ reported' = FALSE /\ offline' = Never
  /\ calm' = 0 /\ blind' = 0 /\ reports' = 0
  /\ UNCHANGED <<namesake, phase, face, wanted, kept, reason>>

\* Faulty: asking again starts the clock again.
LockAgainRestarts == heldFor' = 0 /\ UNCHANGED <<unseen, reported, offline>>

\* "already locked"
LockAgain == UNCHANGED lockVars

LockFaceAgain ==
  /\ phase = "intents" /\ k.held
  /\ LockAgain
  /\ UNCHANGED <<k, active, namesake, phase, face, ghostVars>>

SetInhibition(new) ==
  /\ phase = "intents"
  /\ k' = Replaced(k, new)
  /\ wanted' = new
  /\ kept' = (IF k.held THEN kept \cap new ELSE LockInhibits \cap new)
  /\ UNCHANGED <<active, namesake, phase, face, lockVars, calm, blind, reports, reason>>

\* _release: one path, whatever asked for it; it evicts the lock's own id.
Release(why) ==
  /\ k' = GivenBack(k)
  /\ active' = FALSE
  /\ heldFor' = 0 /\ unseen' = 0 /\ reported' = FALSE /\ offline' = Never
  /\ reason' = why

ReleaseFace ==
  /\ phase = "intents" /\ k.held
  /\ Release("requested")
  /\ UNCHANGED <<namesake, phase, face, wanted, kept, calm, blind, reports>>

--------------------------------------------------------------------------------
(* The lock's turn, after the inhibitions of this tick were enforced *)

\* _enforce_inhibitions evicts every active behavior whose name is inhibited.
StillActive   == active /\ LockName \notin k.inh
NamesakeStays == namesake /\ LockName \notin k.inh

\* Whether no behavior of the lock's name is active: the name is what is checked,
\* so one of its name that others admitted passes for the lock's own.
WasEvicted == ~(StillActive \/ NamesakeStays)

\* _watch_face: how long the face has been gone, and whether that is due a report.
Watched == [unseen |-> IF face THEN 0 ELSE unseen,
            report |-> ~face /\ unseen >= FaceLostAfter /\ ~reported]

\* One report per disappearance, re-armed by a fresh face.
Reported == ~face /\ (reported \/ Watched.report)

\* Faulty: an unknown reading leaves the count running.
OfflineSinceSticky(mind) ==
  IF mind = "online" THEN Never ELSE IF mind = "unknown" \/ offline # Never THEN offline ELSE 0

\* _mind_offline_since after a reading: anything but offline clears it.
OfflineSince(mind) ==
  IF mind # "offline" THEN Never ELSE IF offline = Never THEN 0 ELSE offline

\* _mind_is_gone, on a reading that was offline before this one too.
MindIsGone(mind) == mind = "offline" /\ offline # Never /\ offline >= MindGrace

HeldTooLong == heldFor >= MaxHold

\* What the mind's reading means for `calm` before this tick decides.
CalmAfter(mind) == IF mind = "offline" THEN calm ELSE 0

TurnIdle ==
  /\ phase = "intents" /\ ~k.held
  /\ phase' = "end"
  /\ offline' = Never
  /\ active' = StillActive /\ namesake' = NamesakeStays
  /\ UNCHANGED <<k, face, heldFor, unseen, reported, ghostVars>>

TurnEvicted ==
  /\ phase = "intents" /\ k.held /\ WasEvicted
  /\ phase' = "end"
  /\ Release("evicted") /\ namesake' = NamesakeStays
  /\ UNCHANGED <<face, wanted, kept, calm, blind, reports>>

TurnWatch(mind) ==
  /\ phase = "intents" /\ k.held /\ ~WasEvicted
  /\ phase' = "end" /\ namesake' = NamesakeStays
  /\ blind' = (IF face THEN 0 ELSE blind)
  /\ reports' = (IF face THEN 0 ELSE reports) + (IF Watched.report THEN 1 ELSE 0)
  /\ calm' = CalmAfter(mind)
  /\ IF MindIsGone(mind) THEN Release("mind-offline")
     ELSE IF HeldTooLong THEN Release("max-hold")
     ELSE /\ active' = StillActive
          /\ unseen' = Watched.unseen
          /\ reported' = Reported
          /\ offline' = OfflineSince(mind)
          /\ UNCHANGED <<k, heldFor, reason>>
  /\ UNCHANGED <<face, wanted, kept>>

\* Times beyond the limit they are compared with are alike.
Upto(limit, t) == IF t > limit THEN limit ELSE t

EndTick(d) ==
  /\ phase = "end"
  /\ phase' = "drain"
  /\ heldFor' = (IF k.held THEN Upto(MaxHold, heldFor + d) ELSE 0)
  /\ unseen'  = (IF k.held THEN Upto(FaceLostAfter, unseen + d) ELSE 0)
  /\ offline' = (IF offline = Never THEN Never ELSE Upto(MindGrace, offline + d))
  /\ calm'    = Upto(MindGrace, calm + d)
  /\ blind'   = Upto(FaceLostAfter, blind + d)
  /\ UNCHANGED <<k, active, namesake, face, reported, wanted, kept, reports, reason>>

Loop == \/ \E f \in BOOLEAN : StartSeam(f)
        \/ TurnIdle
        \/ TurnEvicted
        \/ \E mind \in Minds : TurnWatch(mind)
        \/ \E d \in 1 .. MaxStep : EndTick(d)

Others == \/ \E byName \in BOOLEAN : Evicted(byName)
          \/ \E stopping \in BOOLEAN : NamesakeRuns(stopping)
          \/ NamesakeEnds
          \/ LockFace
          \/ LockFaceAgain
          \/ ReleaseFace
          \/ \E new \in SUBSET Names : SetInhibition(new)

Next == Loop \/ Others

Spec == Init /\ [][Next]_vars

\* One thread runs the loop; draining a spool is finite.
FairSpec == Spec /\ WF_vars(Loop)

--------------------------------------------------------------------------------
(* Properties *)

\* No replacement of the inhibited set, in whatever order it arrives around the
\* lock, lets a head-moving behavior run under a held lock.
LockKeepsItsInhibitions == k.held => LockInhibits \subseteq k.inh

\* Nor does a lock leave anything inhibited that nobody asked for, or free a name
\* that is not its own to free, however it ended.
NothingLeftBehind == ~k.held => /\ k.inh \subseteq wanted
                                /\ wanted \ LockInhibits \subseteq k.inh

\* A name somebody inhibited before the lock was taken, and has kept in every
\* set written since, is not the lock's: it stays inhibited after the release.
PriorClaimSurvives == kept \subseteq k.inh \ k.added

\* Nothing but a held lock has the gaze active. The converse is weaker: once the
\* lock has had its turn it outlives its gaze only beside a behavior of its name that
\* others admitted, which the watchdog takes for the gaze.
NoOrphan == /\ active => k.held
            /\ phase = "end" /\ k.held => active \/ namesake

\* "mind-offline" is only ever said after a whole grace period of readings, all
\* within this lock, that were offline: an unknown or online one starts it anew.
OfflineMeansOffline ==
  [][k.held /\ ~k.held' /\ reason' = "mind-offline" => calm' >= MindGrace]_vars

\* One face-lost report per disappearance, and none before its time.
FaceLostOnce ==
  [][/\ reports' <= 1
     /\ reports' > reports => blind >= FaceLostAfter]_vars

\* A lock is bounded even when nobody ever releases it and asks for it for ever.
LockEnds == []<>~k.held

\* What a lock inhibits and what it leaves, whoever writes the inhibited set meanwhile
\* and however the lock ends (face_lock.py, intents.py).
LockSound == LockKeepsItsInhibitions /\ NothingLeftBehind /\ PriorClaimSurvives /\ NoOrphan

\* The watchdogs of a lock fire when they should, neither early nor twice.
WatchdogsHonest == OfflineMeansOffline /\ FaceLostOnce
================================================================================
