----------------------------- MODULE FaceLockProofs -----------------------------
(* Proofs about the lock on a face, for every library, every LOCK_INHIBITS and  *)
(* every choice of the three limits, about the media client and its three       *)
(* threads, for every number of sessions, and about the voice, for every queue, *)
(* latch, margin and length of a clip.                                          *)
EXTENDS FaceLock, HeldMedia, Speaking, TLAPS

\* Who owns what in the inhibited set: the lock only ever owns names of its own,
\* and none while it is not held; without them the set is what the last caller
\* asked for, lock names aside.
Ownership ==
  /\ k.added \subseteq LockInhibits
  /\ ~k.held => k.added = {}
  /\ k.held => LockInhibits \subseteq k.inh
  /\ k.inh \ k.added \subseteq wanted
  /\ wanted \ LockInhibits \subseteq k.inh
  /\ kept \subseteq k.inh \ k.added

\* The watchdogs' counts never run ahead of the time that has really passed.
Watchdogs ==
  /\ k.held => unseen = blind
  /\ offline # Never => calm >= offline
  /\ reports <= 1
  /\ k.held /\ ~reported => reports = 0

IInv == TypeOK /\ Ownership /\ NoOrphan /\ Watchdogs

--------------------------------------------------------------------------------
\* Taking a lock keeps the claim well-typed and its ownership straight.
LEMMA TakeOwns ==
  ASSUME k \in Claims, Ownership, ~k.held, kept' = kept, wanted' = wanted, k' = Take(k)
  PROVE  k' \in Claims /\ Ownership' /\ k'.held
  BY LockInhibitsAssumption DEF Claims, Ownership, Take

\* So does a replacement of the set, held or not.
LEMMA ReplacedOwns ==
  ASSUME k \in Claims, kept \subseteq Names, Ownership, NEW new \in SUBSET Names,
         wanted' = new, k' = Replaced(k, new),
         kept' = IF k.held THEN kept \cap new ELSE LockInhibits \cap new
  PROVE  k' \in Claims /\ Ownership' /\ k'.held = k.held
<1>1. CASE k.held
  <2>1. /\ k'.held
        /\ k'.inh = new \cup LockInhibits
        /\ k'.added = (LockInhibits \ new) \cup
                      (IF k.added # {} /\ k.added \subseteq new THEN k.added ELSE {})
        /\ k' \in Claims
    BY <1>1, LockInhibitsAssumption DEF Claims, Replaced, Ownership
  <2> QED BY <1>1, <2>1 DEF Ownership
<1>2. CASE ~k.held
  <2>1. ~k'.held /\ k'.inh = new /\ k'.added = {} /\ k' \in Claims
    BY <1>2 DEF Claims, Replaced
  <2> QED BY <1>2, <2>1 DEF Ownership, Claims
<1> QED BY <1>1, <1>2

\* So does a release.
LEMMA GivenBackOwns ==
  ASSUME k \in Claims, Ownership, kept' = kept, wanted' = wanted, k' = GivenBack(k)
  PROVE  k' \in Claims /\ Ownership' /\ ~k'.held
  BY LockInhibitsAssumption DEF Claims, Ownership, GivenBack

\* A count stays within the limit it is compared with.
LEMMA UptoRange ==
  ASSUME NEW limit \in Nat, NEW t \in 0 .. limit, NEW d \in 1 .. MaxStep
  PROVE  Upto(limit, t + d) \in 0 .. limit
  BY LimitsAssumption DEF Upto

\* After a release the watchdogs are at rest, which is in every range.
LEMMA ReleaseIInv ==
  ASSUME IInv, NEW why \in Reasons, Release(why), UNCHANGED <<face, wanted, kept>>,
         phase' \in {"drain", "intents", "end"}, calm' \in 0 .. MindGrace,
         blind' \in 0 .. FaceLostAfter, reports' \in Nat, reports' <= 1,
         namesake' \in BOOLEAN
  PROVE  IInv'
<1>1. k' \in Claims /\ Ownership' /\ ~k'.held
  BY GivenBackOwns DEF Release, IInv, TypeOK
<1>2. heldFor' \in 0 .. MaxHold /\ unseen' \in 0 .. FaceLostAfter
  BY LimitsAssumption DEF Release
<1>4. active' \in BOOLEAN /\ face' \in BOOLEAN /\ reported' \in BOOLEAN
  BY DEF Release, IInv, TypeOK
<1>5. wanted' \in SUBSET Names /\ kept' \in SUBSET Names /\ reason' \in Reasons
  BY DEF Release, IInv, TypeOK
<1>6. offline' \in {Never} \cup 0 .. MindGrace
  BY DEF Release
<1>7. TypeOK'
  BY <1>1, <1>2, <1>4, <1>5, <1>6 DEF TypeOK
<1>3. NoOrphan' /\ Watchdogs'
  BY <1>1 DEF Release, NoOrphan, Watchdogs, Never
<1> QED BY <1>1, <1>3, <1>7 DEF IInv

--------------------------------------------------------------------------------
\* Initially.
LEMMA InitIInv == Init => IInv
<1> SUFFICES ASSUME Init PROVE IInv
  OBVIOUS
<1>1. k \in Claims /\ Ownership
  BY DEF Init, Claims, NoClaim, Ownership
<1>2. /\ heldFor \in 0 .. MaxHold /\ unseen \in 0 .. FaceLostAfter
      /\ calm \in 0 .. MindGrace /\ blind \in 0 .. FaceLostAfter
  BY LimitsAssumption DEF Init
<1>3. /\ active \in BOOLEAN /\ namesake \in BOOLEAN /\ face \in BOOLEAN /\ reported \in BOOLEAN
      /\ wanted \in SUBSET Names /\ kept \in SUBSET Names
      /\ phase \in {"drain", "intents", "end"} /\ reason \in Reasons
  BY DEF Init, Reasons
<1>4. offline \in {Never} \cup 0 .. MindGrace /\ reports \in Nat
  BY DEF Init
<1>5. NoOrphan /\ Watchdogs
  BY DEF Init, NoOrphan, Watchdogs, NoClaim
<1> QED BY <1>1, <1>2, <1>3, <1>4, <1>5 DEF IInv, TypeOK

\* Every step.
LEMMA NextIInv == IInv /\ [Next]_vars => IInv'
<1> SUFFICES ASSUME IInv, [Next]_vars PROVE IInv'
  OBVIOUS
<1> USE LimitsAssumption DEF lockVars, ghostVars, Reasons, Never
<1>0. k \in Claims /\ Ownership /\ kept \subseteq Names /\ wanted \subseteq Names
  BY DEF IInv, TypeOK
<1>1. CASE \/ \E b \in BOOLEAN : Evicted(b) \/ NamesakeRuns(b)
           \/ NamesakeEnds \/ LockFaceAgain \/ UNCHANGED vars
           \/ \E f \in BOOLEAN : StartSeam(f)
  <2>1. UNCHANGED <<k, lockVars, ghostVars>>
    BY <1>1 DEF Evicted, NamesakeRuns, NamesakeEnds, LockFaceAgain, LockAgain, StartSeam, vars
  <2>2. /\ active' \in BOOLEAN /\ namesake' \in BOOLEAN /\ face' \in BOOLEAN
        /\ phase' \in {"drain", "intents", "end"}
        /\ NoOrphan'
    <3>1. CASE \E b \in BOOLEAN : Evicted(b)
      BY <3>1 DEF Evicted, IInv, TypeOK, NoOrphan
    <3>2. CASE LockFaceAgain
      BY <3>2 DEF LockFaceAgain, IInv, TypeOK, NoOrphan
    <3>3. CASE \E f \in BOOLEAN : StartSeam(f)
      BY <3>3 DEF StartSeam, IInv, TypeOK, NoOrphan
    <3>4. CASE UNCHANGED vars
      BY <3>4 DEF vars, IInv, TypeOK, NoOrphan
    <3>5. CASE \E b \in BOOLEAN : NamesakeRuns(b)
      BY <3>5 DEF NamesakeRuns, IInv, TypeOK, NoOrphan
    <3>6. CASE NamesakeEnds
      BY <3>6 DEF NamesakeEnds, IInv, TypeOK, NoOrphan
    <3> QED BY <1>1, <3>1, <3>2, <3>3, <3>4, <3>5, <3>6
  <2>3. Ownership' /\ Watchdogs'
    BY <2>1 DEF IInv, Ownership, Watchdogs
  <2>4. TypeOK'
    BY <2>1, <2>2 DEF IInv, TypeOK
  <2> QED BY <2>2, <2>3, <2>4 DEF IInv
<1>2. CASE LockFace
  <2>1. k' \in Claims /\ Ownership' /\ k'.held
    BY <1>0, <1>2, TakeOwns DEF LockFace
  <2>2. /\ heldFor' \in 0 .. MaxHold /\ unseen' \in 0 .. FaceLostAfter
        /\ calm' \in 0 .. MindGrace /\ blind' \in 0 .. FaceLostAfter
    BY <1>2 DEF LockFace
  <2>3. offline' \in {Never} \cup 0 .. MindGrace /\ reports' \in Nat
    BY <1>2 DEF LockFace
  <2>4. TypeOK'
    BY <1>2, <2>1, <2>2, <2>3 DEF LockFace, IInv, TypeOK
  <2>5. NoOrphan' /\ Watchdogs'
    BY <1>2, <2>1 DEF LockFace, NoOrphan, Watchdogs
  <2> QED BY <2>1, <2>4, <2>5 DEF IInv
<1>3. ASSUME NEW new \in SUBSET Names, SetInhibition(new) PROVE IInv'
  <2>1. k' \in Claims /\ Ownership' /\ k'.held = k.held
    BY <1>0, <1>3, ReplacedOwns DEF SetInhibition
  <2>2. kept' \in SUBSET Names /\ wanted' \in SUBSET Names
    BY <1>0, <1>3, LockInhibitsAssumption DEF SetInhibition
  <2>3. TypeOK'
    BY <1>3, <2>1, <2>2 DEF SetInhibition, IInv, TypeOK
  <2>4. NoOrphan' /\ Watchdogs'
    BY <1>3, <2>1 DEF SetInhibition, IInv, NoOrphan, Watchdogs
  <2> QED BY <2>1, <2>3, <2>4 DEF IInv
<1>4. CASE ReleaseFace \/ TurnEvicted
  <2>1. /\ calm' \in 0 .. MindGrace /\ blind' \in 0 .. FaceLostAfter
        /\ reports' \in Nat /\ reports' <= 1
        /\ UNCHANGED <<face, wanted, kept>> /\ phase' \in {"drain", "intents", "end"}
    BY <1>4 DEF ReleaseFace, TurnEvicted, IInv, TypeOK, Watchdogs
  <2>3. namesake' \in BOOLEAN
    BY <1>4 DEF ReleaseFace, TurnEvicted, NamesakeStays, IInv, TypeOK
  <2>2. PICK why \in Reasons : Release(why)
    BY <1>4 DEF ReleaseFace, TurnEvicted
  <2> QED BY <2>1, <2>2, <2>3, ReleaseIInv
<1>5. CASE TurnIdle
  BY <1>5 DEF TurnIdle, StillActive, NamesakeStays, IInv, TypeOK, Ownership, NoOrphan, Watchdogs
<1>6. ASSUME NEW mind \in Minds, TurnWatch(mind) PROVE IInv'
  <2>1. /\ blind' \in 0 .. FaceLostAfter /\ calm' \in 0 .. MindGrace
        /\ reports' \in Nat /\ reports' <= 1
        /\ phase' = "end" /\ face' = face /\ wanted' = wanted /\ kept' = kept
    BY <1>6 DEF TurnWatch, IInv, TypeOK, Watchdogs, Watched, CalmAfter
  <2>4. namesake' = NamesakeStays /\ namesake' \in BOOLEAN
    BY <1>6 DEF TurnWatch, NamesakeStays, IInv, TypeOK
  <2>2. ASSUME NEW why \in {"mind-offline", "max-hold"}, Release(why) PROVE IInv'
    BY <2>1, <2>2, <2>4, ReleaseIInv
  <2>3. CASE ~MindIsGone(mind) /\ ~HeldTooLong
    <3>1. /\ active' = StillActive /\ unseen' = Watched.unseen /\ reported' = Reported
          /\ offline' = OfflineSince(mind) /\ k' = k /\ heldFor' = heldFor /\ reason' = reason
      BY <1>6, <2>3 DEF TurnWatch
    <3>2. offline' \in {Never} \cup 0 .. MindGrace /\ (offline' # Never => calm' >= offline')
      BY <1>6, <3>1 DEF OfflineSince, TurnWatch, CalmAfter, IInv, TypeOK, Watchdogs
    <3>3. (active' \/ namesake') /\ k.held
      BY <1>6, <2>4, <3>1 DEF TurnWatch, WasEvicted
    <3>4. unseen' = blind' /\ (~reported' => reports' = 0) /\ reported' \in BOOLEAN
      BY <1>6, <3>1 DEF TurnWatch, Watched, Reported, IInv, TypeOK, Watchdogs
    <3> QED BY <2>1, <2>4, <3>1, <3>2, <3>3, <3>4
            DEF IInv, TypeOK, Ownership, NoOrphan, Watchdogs, StillActive
  <2> QED BY <1>6, <2>2, <2>3 DEF TurnWatch
<1>7. ASSUME NEW d \in 1 .. MaxStep, EndTick(d) PROVE IInv'
  <2>1. /\ heldFor' \in 0 .. MaxHold /\ unseen' \in 0 .. FaceLostAfter
        /\ offline' \in {Never} \cup 0 .. MindGrace
        /\ calm' \in 0 .. MindGrace /\ blind' \in 0 .. FaceLostAfter
    <3>1. ASSUME k.held
          PROVE  heldFor' \in 0 .. MaxHold /\ unseen' \in 0 .. FaceLostAfter
      <4>1. heldFor' = Upto(MaxHold, heldFor + d) /\ unseen' = Upto(FaceLostAfter, unseen + d)
        BY <1>7, <3>1 DEF EndTick
      <4> QED BY <4>1, UptoRange DEF IInv, TypeOK
    <3>2. ASSUME ~k.held
          PROVE  heldFor' \in 0 .. MaxHold /\ unseen' \in 0 .. FaceLostAfter
      BY <1>7, <3>2 DEF EndTick
    <3>3. offline' \in {Never} \cup 0 .. MindGrace
      BY <1>7, UptoRange DEF EndTick, IInv, TypeOK
    <3>4. calm' \in 0 .. MindGrace /\ blind' \in 0 .. FaceLostAfter
      BY <1>7, UptoRange DEF EndTick, IInv, TypeOK
    <3> QED BY <3>1, <3>2, <3>3, <3>4
  <2>2. (k.held => unseen' = blind') /\ (offline' # Never => calm' >= offline')
    BY <1>7 DEF EndTick, Upto, IInv, TypeOK, Watchdogs
  <2> QED BY <1>7, <2>1, <2>2 DEF EndTick, IInv, TypeOK, Ownership, NoOrphan, Watchdogs
<1> QED BY <1>1, <1>2, <1>3, <1>4, <1>5, <1>6, <1>7 DEF Next, Loop, Others

\* The inductive invariant is an invariant.
THEOREM Inductive == Spec => []IInv
  BY InitIInv, NextIInv, PTL DEF Spec

\* Under a held lock the head-moving behaviors stay inhibited, whatever callers of
\* set_inhibition write and in whatever order (notice_inhibition_replaced).
THEOREM InhibitionsHeld == Spec => []LockKeepsItsInhibitions
<1>1. IInv => LockKeepsItsInhibitions
  BY DEF IInv, Ownership, LockKeepsItsInhibitions
<1> QED BY Inductive, <1>1, PTL

\* A lock leaves nothing inhibited behind it that nobody asked for, and frees no
\* name that is not its own (_restore_inhibitions).
THEOREM LeavesNothing == Spec => []NothingLeftBehind
<1>1. IInv => NothingLeftBehind
  BY DEF IInv, Ownership, NothingLeftBehind
<1> QED BY Inductive, <1>1, PTL

\* A name inhibited since before the lock outlives it (_take_inhibitions).
THEOREM PriorClaim == Spec => []PriorClaimSurvives
<1>1. IInv => PriorClaimSurvives
  BY DEF IInv, Ownership, PriorClaimSurvives
<1> QED BY Inductive, <1>1, PTL

\* A lock outlasts the tick in which its behavior went only beside another behavior
\* of its name (_was_evicted).
THEOREM Orphanless == Spec => []NoOrphan
<1>1. IInv => NoOrphan
  BY DEF IInv
<1> QED BY Inductive, <1>1, PTL

\* What a lock inhibits and what it leaves, as the run checks it.
THEOREM LockIsSound == Spec => []LockSound
<1>1. IInv => LockSound
  BY DEF IInv, Ownership, LockKeepsItsInhibitions, NothingLeftBehind, PriorClaimSurvives,
         LockSound
<1> QED BY Inductive, <1>1, PTL

\* "mind-offline" follows a whole grace period of offline readings (_mind_is_gone).
THEOREM OfflineIsOffline == Spec => OfflineMeansOffline
<1>1. IInv /\ [Next]_vars =>
        [k.held /\ ~k.held' /\ reason' = "mind-offline" => calm' >= MindGrace]_vars
  <2> SUFFICES ASSUME IInv, Next, k.held, ~k.held', reason' = "mind-offline"
               PROVE  calm' >= MindGrace
    OBVIOUS
  <2> USE DEF lockVars, ghostVars
  <2>1. PICK mind \in Minds : TurnWatch(mind) /\ MindIsGone(mind)
    <3>1. ~((\E b \in BOOLEAN : Evicted(b) \/ NamesakeRuns(b)) \/ NamesakeEnds
            \/ LockFaceAgain \/ \E f \in BOOLEAN : StartSeam(f))
      BY DEF Evicted, NamesakeRuns, NamesakeEnds, LockFaceAgain, StartSeam
    <3>2. ~(LockFace \/ TurnIdle \/ \E d \in 1 .. MaxStep : EndTick(d))
      BY DEF LockFace, TurnIdle, EndTick
    <3>3. ~(ReleaseFace \/ TurnEvicted)
      BY DEF ReleaseFace, TurnEvicted, Release
    <3>4. ~\E new \in SUBSET Names : SetInhibition(new)
      BY ReplacedOwns DEF SetInhibition, IInv, TypeOK
    <3>5. PICK mind \in Minds : TurnWatch(mind)
      BY <3>1, <3>2, <3>3, <3>4 DEF Next, Loop, Others
    <3> QED BY <3>5 DEF TurnWatch, Release
  <2> QED BY <2>1, LimitsAssumption
          DEF TurnWatch, MindIsGone, CalmAfter, IInv, TypeOK, Watchdogs
<1> QED BY Inductive, <1>1, PTL DEF Spec, OfflineMeansOffline

\* One report per disappearance, and none before its time (_watch_face).
THEOREM LostIsLost == Spec => FaceLostOnce
<1>1. IInv /\ [Next]_vars =>
        [reports' <= 1 /\ (reports' > reports => blind >= FaceLostAfter)]_vars
  <2> SUFFICES ASSUME IInv, Next
               PROVE  reports' <= 1 /\ (reports' > reports => blind >= FaceLostAfter)
    OBVIOUS
  <2>1. reports' <= 1
    BY NextIInv DEF IInv, Watchdogs
  <2>2. ASSUME reports' > reports PROVE blind >= FaceLostAfter
    <3>1. reports \in Nat
      BY DEF IInv, TypeOK
    <3>2. PICK mind \in Minds : TurnWatch(mind)
      <4>1. reports' # reports /\ reports' # 0
        BY <2>2, <3>1
      <4>2. ~((\E b \in BOOLEAN : Evicted(b) \/ NamesakeRuns(b)) \/ NamesakeEnds \/ LockFace
            \/ LockFaceAgain \/ ReleaseFace)
        BY <4>1 DEF Evicted, NamesakeRuns, NamesakeEnds, LockFace, LockFaceAgain, ReleaseFace,
                    ghostVars
      <4>3. ~\E new \in SUBSET Names : SetInhibition(new)
        BY <4>1 DEF SetInhibition
      <4>4. /\ ~(TurnIdle \/ TurnEvicted \/ \E f \in BOOLEAN : StartSeam(f))
            /\ ~\E d \in 1 .. MaxStep : EndTick(d)
        BY <4>1 DEF StartSeam, TurnIdle, TurnEvicted, EndTick, ghostVars
      <4> QED BY <4>2, <4>3, <4>4 DEF Next, Loop, Others
    <3>3. unseen >= FaceLostAfter /\ k.held
      <4>1. /\ k.held
            /\ reports' = (IF face THEN 0 ELSE reports) + (IF Watched.report THEN 1 ELSE 0)
        BY <3>2 DEF TurnWatch
      <4>2. Watched.report
        BY <2>2, <3>1, <4>1
      <4> QED BY <4>1, <4>2 DEF Watched
    <3> QED BY <3>3 DEF IInv, Watchdogs
  <2> QED BY <2>1, <2>2
<1> QED BY Inductive, <1>1, PTL DEF Spec, FaceLostOnce

\* The watchdogs say what happened, and once (_mind_is_gone, _watch_face).
THEOREM HonestWatchdogs == Spec => WatchdogsHonest
  BY OfflineIsOffline, LostIsLost DEF WatchdogsHonest

--------------------------------------------------------------------------------
(* The media client                                                              *)

\* What is a flag, and what is of another type.
Flags ==
  {acquired, backoff, closed, keeping, outlived, caught, past, noticed, raced} \subseteq BOOLEAN
Sizes ==
  /\ client \in 0 .. MaxSessions /\ camera \in 0 .. Unresolved /\ open \subseteq 1 .. made
  /\ held \in {"free", "ours", "theirs"} /\ pump \in {"draining", "live", "lost"}
  /\ hand \in [Threads -> [step : Steps, with : 0 .. MaxSessions]]
  /\ standing \in 0 .. MaxStanding /\ made \in 0 .. MaxSessions /\ faults \in 0 .. MaxFaults

\* Where each thread may be.
Dismissing == {"close", "clear", "release", "arm"}
Dialling == {"gate", "dial", "record"}
Placed ==
  /\ hand["pump"].step \in {"idle"} \cup Dismissing
  /\ hand["tick"].step \in {"idle", "look"} \cup Dismissing
  /\ hand["keeper"].step \in {"idle"} \cup Dialling \cup Dismissing
  /\ hand["closer"].step \in {"idle", "done"} \cup Dismissing

\* The keeper dials when nobody is the client, and, but for a race, nobody is while a reader
\* lets go, nor does the keeper dial then.
Apart ==
  /\ hand["keeper"].step \in Dialling => client = None
  /\ ~raced => \A t \in Readers : hand[t].step \in Dismissing =>
                 client = None /\ hand["keeper"].step \notin Dialling

\* The holder is closed with nobody at work but, past its join, the keeper; one that ended
\* in time leaves no client, nor, once the closer let them go, the media.
Shut ==
  /\ closed <=> hand["closer"].step # "idle"
  /\ closed => ~keeping /\ hand["pump"].step = "idle" /\ hand["tick"].step = "idle"
  /\ closed /\ ~outlived => client = None /\ hand["keeper"].step = "idle"
  /\ closed /\ ~outlived /\ hand["closer"].step \notin {"close", "clear"} => ~acquired

\* A pump that read since the client was lost is not live; a live one has met the queue empty.
Caught ==
  /\ noticed /\ client = None => pump # "live"
  /\ ~raced /\ pump = "live" /\ client # None => caught

Ordered == Placed /\ Apart /\ Shut /\ Caught /\ NoSessionOrphaned /\ NoPast
MediaInv == Flags /\ Sizes /\ Ordered

--------------------------------------------------------------------------------
LEMMA InitMedia == ASSUME MediaAssumption, MediaInit PROVE MediaInv
<1>1. Flags
  BY Zenon DEF MediaInit, Flags
<1>2. Sizes
  BY DEF MediaInit, MediaAssumption, Sizes, Steps, Idle, None, Unresolved
<1>3. Placed /\ Apart /\ Shut /\ Caught /\ NoPast
  BY DEF MediaInit, Placed, Apart, Shut, Caught, NoPast, Idle, Threads, Readers, None, Dismissing, Dialling
<1>4. NoSessionOrphaned
  BY DEF MediaInit, NoSessionOrphaned
<1> QED BY <1>1, <1>2, <1>3, <1>4 DEF MediaInv, Ordered

LEMMA MediaInvSays == ASSUME MediaAssumption, MediaInv PROVE MediaSound
<1>1. MediaTypeOK
  BY DEF MediaInv, MediaTypeOK, Flags, Sizes
<1>2. ReleasedAtExit
  <2> SUFFICES ASSUME At("closer", "done"), ~outlived PROVE open = {} /\ client = None /\ ~acquired
    BY DEF ReleasedAtExit
  <2>1. /\ hand["closer"].step = "done" /\ hand["keeper"].step = "idle" /\ hand["pump"].step = "idle"
        /\ hand["tick"].step = "idle" /\ client = None /\ ~acquired
    BY DEF At, MediaInv, Ordered, Shut
  <2>2. Hands = {}
    BY <2>1 DEF Hands, Threads, Readers
  <2>3. None \notin open
    BY DEF MediaInv, Sizes, None
  <2> QED BY <2>1, <2>2, <2>3 DEF MediaInv, Ordered, NoSessionOrphaned
<1> QED BY <1>1, <1>2 DEF MediaInv, Ordered, MediaSound

--------------------------------------------------------------------------------
\* What is a flag remains one.
LEMMA FlagsKeep == ASSUME Flags, MediaNext PROVE Flags'
<1>1. CASE Read
  BY <1>1, Zenon DEF Read, OnEmpty, Flags, holder, bounds
<1>2. CASE Look \/ Latch
  BY <1>2, Zenon DEF Look, Latch, Flags, holder, bounds, sound, seen
<1>3. CASE \E t \in Readers : Drop(t) \/ LateDrop(t)
  BY <1>3, Zenon DEF Drop, LateDrop, LetGo, Flags, holder, bounds, sound, seen
<1>4. CASE Poll
  BY <1>4, Zenon DEF Poll, Flags, holder, bounds, sound, seen
<1>5. CASE Gate
  BY <1>5, Zenon DEF Gate, Flags, holder, bounds, sound, seen
<1>6. CASE Dial \/ GiveUp \/ Fail
  BY <1>6, Zenon DEF Dial, GiveUp, Fail, Flags, holder, bounds, sound, seen
<1>7. CASE Adopt
  BY <1>7, Zenon DEF Adopt, Flags, holder, bounds, sound, seen
<1>8. CASE \E t \in Threads : Close(t) \/ Clear(t) \/ ReleaseMedia(t)
  BY <1>8, Zenon DEF Close, Clear, ReleaseMedia, Flags, holder, bounds, sound, seen
<1>9. CASE \E t \in Threads : Arm(t)
  BY <1>9, Zenon DEF Arm, OnEmpty, Flags, holder, bounds, sound, seen
<1>10. CASE StopKeeper
  BY <1>10, Zenon DEF StopKeeper, Flags, holder, bounds, sound, seen
<1>11. CASE CloseHolder
  BY <1>11, Zenon DEF CloseHolder, LetGo, At, Flags, holder, bounds, sound, seen
<1>12. CASE Wait \/ Speak
  BY <1>12, Zenon DEF Wait, Speak, Flags, holder, bounds, sound, seen
<1>13. CASE Lend \/ Return
  BY <1>13, Zenon DEF Lend, Return, Flags, holder, bounds, sound, seen
<1> QED BY <1>1, <1>2, <1>3, <1>4, <1>5, <1>6, <1>7, <1>8, <1>9, <1>10, <1>11, <1>12, <1>13
        DEF MediaNext, Reads, Keeps, LettingGo

\* And what is a session, a step or a count.
LEMMA SizesKeep == ASSUME MediaAssumption, Sizes, MediaNext PROVE Sizes'
<1> USE DEF Sizes, MediaAssumption, Steps, Unresolved, None, Go, Hold, At, Threads, Readers
<1>1. CASE Read
  BY <1>1 DEF Read, OnEmpty, AfterChunk, holder, bounds
<1>2. CASE Look \/ Latch
  BY <1>2 DEF Look, Latch, holder, bounds, sound, seen
<1>3. CASE \E t \in Readers : Drop(t) \/ LateDrop(t)
  <2>1. PICK t \in Readers : Drop(t) \/ LateDrop(t)
    BY <1>3
  <2>2. client' = None /\ camera' = Unresolved /\ hand' = [hand EXCEPT ![t] = [step |-> "close", with |-> client]]
        /\ faults' = faults + 1 /\ faults < MaxFaults
        /\ UNCHANGED <<open, held, pump, standing, made>>
    BY <2>1 DEF Drop, LateDrop, LetGo, Fault, sound
  <2>3. hand' \in [Threads -> [step : Steps, with : 0 .. MaxSessions]]
    BY <2>2
  <2> QED BY <2>2, <2>3
<1>4. CASE Poll
  BY <1>4 DEF Poll, holder, bounds, sound, seen
<1>5. CASE Gate
  BY <1>5 DEF Gate, holder, bounds, sound, seen
<1>6. CASE Dial
  BY <1>6 DEF Dial, holder, bounds, sound, seen
<1>6a. CASE GiveUp \/ Fail
  BY <1>6a DEF GiveUp, Fail, Fault, holder, bounds, sound, seen
<1>7. CASE Adopt
  BY <1>7 DEF Adopt, holder, bounds, sound, seen
<1>8. CASE \E t \in Threads : Close(t)
  BY <1>8 DEF Close, holder, bounds, sound, seen
<1>8a. CASE \E t \in Threads : Clear(t) \/ ReleaseMedia(t)
  BY <1>8a DEF Clear, ReleaseMedia, holder, bounds, sound, seen
<1>9. CASE \E t \in Threads : Arm(t)
  BY <1>9 DEF Arm, OnEmpty, holder, bounds, sound, seen
<1>10. CASE StopKeeper
  BY <1>10 DEF StopKeeper, holder, bounds, sound, seen
<1>11. CASE CloseHolder
  BY <1>11 DEF CloseHolder, LetGo, holder, bounds, sound, seen
<1>12. CASE Wait
  BY <1>12 DEF Wait, holder, bounds, sound, seen
<1>12a. CASE Speak
  BY <1>12a DEF Speak, holder, bounds, sound, seen
<1>13. CASE Lend
  BY <1>13 DEF Lend, Fault, holder, bounds, sound, seen
<1>13a. CASE Return
  BY <1>13a DEF Return, holder, bounds, sound, seen
<1> QED BY <1>1, <1>2, <1>3, <1>4, <1>5, <1>6, <1>6a, <1>7, <1>8, <1>8a, <1>9, <1>10, <1>11, <1>12, <1>12a, <1>13, <1>13a
        DEF MediaNext, Reads, Keeps, LettingGo

--------------------------------------------------------------------------------
\* What no thread takes a step for.
LEMMA QuietOrdered ==
  ASSUME MediaInv, StopKeeper \/ Wait \/ Speak \/ Lend \/ Return
  PROVE  Ordered'
<1>1. /\ UNCHANGED <<client, hand, open, pump, past>>
      /\ (closed' <=> closed) /\ (outlived' <=> outlived) /\ (acquired' <=> acquired)
      /\ (noticed' <=> noticed) /\ (raced' <=> raced) /\ (caught' <=> caught)
      /\ keeping' => keeping
  BY DEF StopKeeper, Wait, Speak, Lend, Return, holder, sound, seen, bounds
<1>2. Placed' /\ Apart' /\ NoSessionOrphaned' /\ NoPast'
  BY <1>1 DEF MediaInv, Ordered, Placed, Apart, NoSessionOrphaned, Hands, NoPast
<1>3. Shut' /\ Caught'
  BY <1>1 DEF MediaInv, Ordered, Shut, Caught
<1> QED BY <1>2, <1>3 DEF Ordered

\* A read of the pump: what it latches it has met the queue empty for.
LEMMA ReadOrdered == ASSUME MediaInv, Read PROVE Ordered'
<1>1. /\ UNCHANGED <<client, hand, open>>
      /\ (closed' <=> closed) /\ (outlived' <=> outlived) /\ (acquired' <=> acquired)
      /\ (raced' <=> raced) /\ (keeping' <=> keeping)
  BY DEF Read, OnEmpty, holder, bounds
<1>2. Placed' /\ Apart' /\ NoSessionOrphaned' /\ Shut'
  BY <1>1 DEF MediaInv, Ordered, Placed, Apart, NoSessionOrphaned, Hands, Shut
<1>3. CASE client # None /\ standing > 0
  <2>1. /\ pump' = AfterChunk /\ (caught' <=> caught)
        /\ past' <=> (past \/ (pump = "live" /\ ~caught))
    BY <1>3 DEF Read
  <2> QED BY <1>1, <1>2, <1>3, <2>1 DEF MediaInv, Ordered, Caught, NoPast, AfterChunk
<1>4. CASE ~(client # None /\ standing > 0)
  <2>1. /\ pump' = (IF client = None THEN "lost" ELSE IF pump = "draining" THEN "live" ELSE pump)
        /\ caught' <=> (client # None /\ (caught \/ pump = "draining"))
        /\ past' <=> past
    BY <1>4 DEF Read, OnEmpty
  <2> QED BY <1>1, <1>2, <2>1 DEF MediaInv, Ordered, Caught, NoPast
<1> QED BY <1>3, <1>4

\* A look at the camera.
LEMMA LookOrdered == ASSUME MediaInv, Look \/ Latch PROVE Ordered'
<1>1. /\ hand["tick"].step \in {"idle", "look"} /\ hand'["tick"].step \in {"idle", "look"}
      /\ \A t \in Threads : t # "tick" => hand'[t] = hand[t]
      /\ Look => hand["tick"].step = "idle" /\ ~closed
      /\ Latch => hand["tick"].step = "look" /\ hand'["tick"].step = "idle"
  BY DEF Look, Latch, At, Go, MediaInv, Sizes, Threads, Readers
<1>2. /\ UNCHANGED <<client, open, pump>>
      /\ (closed' <=> closed) /\ (outlived' <=> outlived) /\ (acquired' <=> acquired)
      /\ (noticed' <=> noticed) /\ (raced' <=> raced) /\ (caught' <=> caught)
      /\ (keeping' <=> keeping) /\ (past' <=> past)
  BY DEF Look, Latch, holder, sound, seen, bounds
<1>3. Placed' /\ Apart' /\ Shut'
  BY <1>1, <1>2 DEF MediaInv, Ordered, Placed, Apart, Shut, Threads, Readers, Dismissing
<1>4. Caught' /\ NoPast'
  BY <1>2 DEF MediaInv, Ordered, Caught, NoPast
<1>5. Hands \subseteq Hands'
  BY <1>1 DEF Hands
<1> QED BY <1>2, <1>3, <1>4, <1>5 DEF Ordered, MediaInv, NoSessionOrphaned

\* The client goes into the hands of the one that lets it go.
LEMMA LetGoOrdered ==
  ASSUME MediaInv, NEW t \in Threads,
         \/ t \in Readers /\ (Drop(t) \/ LateDrop(t))
         \/ t = "closer" /\ CloseHolder
  PROVE  Ordered'
<1>1. /\ hand[t].step = "idle" /\ ~closed
      /\ hand'[t] = [step |-> "close", with |-> client]
      /\ \A u \in Threads : u # t => hand'[u] = hand[u]
      /\ client' = None /\ ~noticed' /\ UNCHANGED <<open, pump>>
      /\ (acquired' <=> acquired) /\ (raced' <=> raced) /\ (caught' <=> caught)
      /\ (keeping' <=> keeping) /\ (past' <=> past)
  <2>1. LetGo(t) /\ ~closed /\ UNCHANGED <<open, keeping, sound>>
    BY DEF Drop, LateDrop, CloseHolder
  <2>2. hand[t].step = "idle"
    BY <2>1 DEF Drop, LateDrop, CloseHolder, At, MediaInv, Ordered, Shut
  <2> QED BY <2>1, <2>2 DEF LetGo, Hold, sound, MediaInv, Sizes
<1>2. /\ t \in Readers => (closed' <=> closed) /\ (outlived' <=> outlived)
      /\ t = "closer" => /\ closed' /\ ~keeping /\ (outlived' <=> hand["keeper"].step # "idle")
                         /\ hand["tick"].step = "idle" /\ hand["pump"].step = "idle"
  <2>1. CASE t \in Readers /\ (Drop(t) \/ LateDrop(t))
    BY <2>1 DEF Drop, LateDrop, Readers
  <2>2. CASE t = "closer" /\ CloseHolder
    <3>1. outlived' <=> hand["keeper"].step # "idle"
      BY <2>2, Zenon DEF CloseHolder, At
    <3> QED BY <2>2, <3>1 DEF CloseHolder, At, Readers
  <2> QED BY <2>1, <2>2
<1>3. t \in Readers /\ ~raced => hand["keeper"].step \notin Dialling
  <2>1. CASE client # None
    BY <2>1 DEF MediaInv, Ordered, Apart
  <2>2. CASE client = None
    <3>1. t \in Readers => \E u \in Readers : hand[u].step \in Dismissing
      BY <2>2 DEF Drop, LateDrop, Dismissing, Readers
    <3> QED BY <3>1 DEF MediaInv, Ordered, Apart
  <2> QED BY <2>1, <2>2
<1>4. Placed' /\ Apart'
  BY <1>1, <1>2, <1>3 DEF MediaInv, Ordered, Placed, Apart, Threads, Readers, Dismissing
<1>5. Shut'
  BY <1>1, <1>2 DEF MediaInv, Ordered, Shut, Threads, Readers
<1>6. Caught' /\ NoPast'
  BY <1>1 DEF MediaInv, Ordered, Caught, NoPast
<1>7. Hands \cup {client} \subseteq Hands'
  BY <1>1 DEF Hands
<1> QED BY <1>1, <1>4, <1>5, <1>6, <1>7 DEF Ordered, MediaInv, NoSessionOrphaned

\* On its way out the session is closed, and then the media are handed back.
LEMMA CloseOrdered ==
  ASSUME MediaInv, NEW t \in Threads, Close(t) \/ Clear(t) \/ ReleaseMedia(t)
  PROVE  Ordered'
<1>1. /\ hand[t].step \in {"close", "clear", "release"}
      /\ hand'[t].with = hand[t].with /\ hand'[t].step \in {"clear", "release", "arm"}
      /\ \A u \in Threads : u # t => hand'[u] = hand[u]
      /\ hand[t].step = "close" <=> hand'[t].step = "clear"
      /\ hand[t].step = "close" => open' = open \ {hand[t].with}
      /\ hand[t].step # "close" => open' = open
      /\ hand[t].step = "clear" => ~acquired'
      /\ hand[t].step # "clear" => (acquired' <=> acquired)
  BY DEF Close, Clear, ReleaseMedia, At, Go, MediaInv, Sizes, holder
<1>2. /\ UNCHANGED <<client, pump>>
      /\ (closed' <=> closed) /\ (outlived' <=> outlived)
      /\ (noticed' <=> noticed) /\ (raced' <=> raced) /\ (caught' <=> caught)
      /\ (keeping' <=> keeping) /\ (past' <=> past)
  BY DEF Close, Clear, ReleaseMedia, holder, sound, seen, bounds
<1>3. Placed' /\ Apart'
  BY <1>1, <1>2 DEF MediaInv, Ordered, Placed, Apart, Threads, Readers, Dismissing, Dialling
<1>4. Shut'
  BY <1>1, <1>2 DEF MediaInv, Ordered, Shut, Placed, Threads, Readers, Dismissing, Dialling
<1>5. Caught' /\ NoPast'
  BY <1>2 DEF MediaInv, Ordered, Caught, NoPast
<1>6. Hands \subseteq Hands' \cup {x \in {hand[t].with} : hand[t].step = "close"}
  BY <1>1 DEF Hands
<1>7. NoSessionOrphaned'
  BY <1>1, <1>2, <1>6 DEF MediaInv, Ordered, NoSessionOrphaned
<1> QED BY <1>3, <1>4, <1>5, <1>7 DEF Ordered

\* Last the backoff; the pump takes its read for an empty one.
LEMMA ArmOrdered == ASSUME MediaInv, NEW t \in Threads, Arm(t) PROVE Ordered'
<1>1. /\ hand[t].step = "arm" /\ hand'[t].step = (IF t = "closer" THEN "done" ELSE "idle")
      /\ \A u \in Threads : u # t => hand'[u] = hand[u]
  BY DEF Arm, At, Hold, MediaInv, Sizes
<1>2. /\ UNCHANGED <<client, open>>
      /\ (closed' <=> closed) /\ (outlived' <=> outlived) /\ (acquired' <=> acquired)
      /\ (raced' <=> raced) /\ (keeping' <=> keeping) /\ (past' <=> past)
  BY DEF Arm, OnEmpty, sound, seen, bounds
<1>3. Placed' /\ Apart'
  BY <1>1, <1>2 DEF MediaInv, Ordered, Placed, Apart, Threads, Readers, Dismissing, Dialling
<1>4. Shut'
  BY <1>1, <1>2 DEF MediaInv, Ordered, Shut, Threads, Readers
<1>5. NoPast'
  BY <1>2 DEF MediaInv, Ordered, NoPast
<1>6. Caught'
  <2>1. CASE t = "pump"
    <3>1. /\ pump' = (IF client = None THEN "lost" ELSE IF pump = "draining" THEN "live" ELSE pump)
          /\ caught' <=> (client # None /\ (caught \/ pump = "draining"))
      BY <2>1 DEF Arm, OnEmpty
    <3> QED BY <1>2, <3>1 DEF MediaInv, Ordered, Caught
  <2>2. CASE t # "pump"
    <3>1. pump' = pump /\ (caught' <=> caught) /\ (noticed' <=> noticed)
      BY <2>2 DEF Arm, sound, seen
    <3> QED BY <1>2, <3>1 DEF MediaInv, Ordered, Caught
  <2> QED BY <2>1, <2>2
<1>7. Hands \subseteq Hands'
  BY <1>1 DEF Hands
<1> QED BY <1>2, <1>3, <1>4, <1>5, <1>6, <1>7 DEF Ordered, MediaInv, NoSessionOrphaned

\* The keeper looks, asks for the media, and constructs, for an open holder.
LEMMA PollOrdered == ASSUME MediaInv, Poll \/ Gate PROVE Ordered'
<1>1. /\ hand["keeper"].step \in {"idle", "gate"} /\ hand'["keeper"].step \in {"idle", "gate", "dial"}
      /\ \A u \in Threads : u # "keeper" => hand'[u] = hand[u]
      /\ client = None
      /\ Poll => hand["keeper"].step = "idle" /\ keeping /\ ~closed
      /\ Gate => hand["keeper"].step = "gate"
  BY DEF Poll, Gate, At, Go, MediaInv, Sizes, Ordered, Apart, Dialling, Threads
<1>2. /\ UNCHANGED <<client, open, pump>>
      /\ (closed' <=> closed) /\ (outlived' <=> outlived)
      /\ (noticed' <=> noticed) /\ (caught' <=> caught)
      /\ (keeping' <=> keeping) /\ (past' <=> past)
      /\ Poll => (acquired' <=> acquired)
  BY DEF Poll, Gate, holder, sound, seen, bounds
<1>3. /\ raced => raced'
      /\ Poll /\ ~raced' => \A t \in Readers : hand[t].step \notin Dismissing
      /\ Gate => (raced' <=> raced)
  <2>1. Poll => (raced' <=> raced \/ \E t \in Readers : hand[t].step \in Dismissing)
    BY Zenon DEF Poll, Dismissing
  <2>2. Gate => (raced' <=> raced)
    BY DEF Gate, seen
  <2> QED BY <2>1, <2>2
<1>4. Placed'
  BY <1>1 DEF MediaInv, Ordered, Placed, Threads, Readers, Dialling
<1>5. Apart'
  BY <1>1, <1>2, <1>3 DEF MediaInv, Ordered, Apart, Threads, Readers, Dialling
<1>6. Shut'
  BY <1>1, <1>2 DEF MediaInv, Ordered, Shut, Threads, Readers
<1>7. Caught' /\ NoPast'
  BY <1>2, <1>3 DEF MediaInv, Ordered, Caught, NoPast
<1>8. Hands \subseteq Hands'
  BY <1>1 DEF Hands
<1> QED BY <1>2, <1>4, <1>5, <1>6, <1>7, <1>8 DEF Ordered, MediaInv, NoSessionOrphaned

LEMMA DialOrdered == ASSUME MediaInv, Dial \/ GiveUp \/ Fail PROVE Ordered'
<1>1. /\ hand["keeper"].step \in {"dial", "record"} /\ client = None
      /\ hand'["keeper"].step \in {"record", "close", "clear"}
      /\ hand'["keeper"].step = "clear" => hand["keeper"].step = "dial"
      /\ \A u \in Threads : u # "keeper" => hand'[u] = hand[u]
      /\ \/ hand'["keeper"].with = hand["keeper"].with /\ open' = open
         \/ hand'["keeper"].step = "record" /\ open' = open \cup {hand'["keeper"].with}
            /\ hand["keeper"].step = "dial"
  BY DEF Dial, GiveUp, Fail, At, Go, Hold, MediaInv, Sizes, Ordered, Apart, Dialling, Threads
<1>2. /\ UNCHANGED <<client, pump>>
      /\ (closed' <=> closed) /\ (outlived' <=> outlived) /\ (acquired' <=> acquired)
      /\ (noticed' <=> noticed) /\ (caught' <=> caught) /\ (raced' <=> raced)
      /\ (keeping' <=> keeping) /\ (past' <=> past)
  BY DEF Dial, GiveUp, Fail, holder, sound, seen, bounds
<1>3. Placed' /\ Apart'
  BY <1>1, <1>2 DEF MediaInv, Ordered, Placed, Apart, Threads, Readers, Dialling, Dismissing
<1>4. Shut'
  BY <1>1, <1>2 DEF MediaInv, Ordered, Shut, Threads, Readers
<1>5. Caught' /\ NoPast'
  BY <1>2 DEF MediaInv, Ordered, Caught, NoPast
<1>6. Hands \subseteq Hands' /\ open' \subseteq open \cup Hands'
  BY <1>1 DEF Hands, Threads
<1> QED BY <1>2, <1>3, <1>4, <1>5, <1>6 DEF Ordered, MediaInv, NoSessionOrphaned

\* A pump that is not live drains what the new client has standing.
LEMMA AdoptOrdered == ASSUME MediaInv, Adopt PROVE Ordered'
<1>1. /\ hand["keeper"].step = "record" /\ hand'["keeper"].step = "idle" /\ client = None
      /\ client' = hand["keeper"].with
      /\ \A u \in Threads : u # "keeper" => hand'[u] = hand[u]
      /\ noticed \/ hand["pump"].step # "idle"
  BY DEF Adopt, At, Hold, MediaInv, Sizes, Ordered, Apart, Dialling, Threads
<1>2. /\ UNCHANGED <<open, pump>>
      /\ (closed' <=> closed) /\ (outlived' <=> outlived) /\ (acquired' <=> acquired)
      /\ (noticed' <=> noticed) /\ (raced' <=> raced)
      /\ (keeping' <=> keeping) /\ (past' <=> past)
  BY DEF Adopt, seen, bounds
<1>3. Placed'
  BY <1>1 DEF MediaInv, Ordered, Placed, Threads, Readers, Dialling
<1>4. ~raced => \A t \in Readers : hand[t].step \notin Dismissing
  BY <1>1 DEF MediaInv, Ordered, Apart, Dialling
<1>5. Apart'
  BY <1>1, <1>2, <1>4 DEF Apart, Threads, Readers, Dialling
<1>6. Shut'
  BY <1>1, <1>2 DEF MediaInv, Ordered, Shut, Threads, Readers
<1>7. Caught'
  <2>1. ~raced => pump # "live"
    BY <1>1, <1>4 DEF MediaInv, Ordered, Placed, Caught, Readers
  <2>2. client' # None \/ pump # "live" \/ ~noticed
    BY <1>1 DEF MediaInv, Ordered, Caught
  <2> QED BY <1>2, <2>1, <2>2 DEF Caught
<1>8. NoPast'
  BY <1>2 DEF MediaInv, Ordered, NoPast
<1>9. Hands \cup {client} \subseteq Hands' \cup {client', None}
  BY <1>1 DEF Hands
<1>10. NoSessionOrphaned'
  <2>1. None \notin open
    BY DEF MediaInv, Sizes, None
  <2> QED BY <1>2, <1>9, <2>1 DEF MediaInv, Ordered, NoSessionOrphaned
<1> QED BY <1>3, <1>5, <1>6, <1>7, <1>8, <1>10 DEF Ordered

\* However the three threads interleave, each session is somebody's, a run that ends in time
\* leaves none and no media, and nothing is heard from before a session was there
\* (media_client.py, audio_pump.py).
THEOREM MediaHolds ==
  ASSUME MediaAssumption
  PROVE  MediaSpec => []MediaSound
<1>1. MediaInit => MediaInv
  BY InitMedia
<1>2. MediaInv /\ [MediaNext]_mediaVars => MediaInv'
  <2> SUFFICES ASSUME MediaInv, [MediaNext]_mediaVars PROVE MediaInv'
    OBVIOUS
  <2>1. CASE UNCHANGED mediaVars
    <3>1. Flags' /\ Sizes'
      BY <2>1 DEF mediaVars, holder, sound, seen, bounds, MediaInv, Flags, Sizes
    <3>2. Placed' /\ Apart' /\ Shut' /\ Caught' /\ NoSessionOrphaned' /\ NoPast'
      BY <2>1 DEF mediaVars, holder, sound, seen, bounds, MediaInv, Ordered, Placed, Apart, Shut, Caught,
         NoSessionOrphaned, Hands, NoPast
    <3> QED BY <3>1, <3>2 DEF MediaInv, Ordered
  <2>2. CASE MediaNext
    <3>1. Flags' /\ Sizes'
      BY <2>2, FlagsKeep, SizesKeep DEF MediaInv
    <3>2. Ordered'
      <4>1. CASE StopKeeper \/ Wait \/ Speak \/ Lend \/ Return
        BY <4>1, QuietOrdered
      <4>2. CASE Reads
        <5>1. {"pump", "tick"} \subseteq Threads
          BY DEF Threads, Readers
        <5> QED BY <4>2, <5>1, ReadOrdered, LookOrdered, LetGoOrdered DEF Reads, Readers
      <4>3. CASE Keeps
        BY <4>3, PollOrdered, DialOrdered, AdoptOrdered DEF Keeps
      <4>4. CASE \E t \in Threads : LettingGo(t)
        BY <4>4, CloseOrdered, ArmOrdered DEF LettingGo
      <4>5. CASE CloseHolder
        <5>1. "closer" \in Threads
          BY DEF Threads
        <5> QED BY <4>5, <5>1, LetGoOrdered
      <4> QED BY <2>2, <4>1, <4>2, <4>3, <4>4, <4>5 DEF MediaNext
    <3> QED BY <3>1, <3>2 DEF MediaInv
  <2> QED BY <2>1, <2>2
<1>3. MediaInv => MediaSound
  BY MediaInvSays
<1> QED BY <1>1, <1>2, <1>3, PTL DEF MediaSpec

--------------------------------------------------------------------------------
(* The voice                                                                     *)

Fates == {"queued", "muted", "dropped", "given up", "failed", "silent", "spoken"}
VoiceTyped ==
  /\ queue \in Seq(Nat) /\ fate \in Seq(Fates) /\ rendering \in Nat /\ inflight \in Int
  /\ worker \in {"new", "idle", "synth", "play", "after", "gone"}
  /\ {consecutive, latchedUntil, muteUntil, soundsUntil, now, mutedDrops, quiet} \subseteq Nat

\* While nothing has been taken by the player since, the window is open until the speaker is
\* silent; what it has just taken sounds from now on.
Covered == soundsUntil <= IF worker = "after" THEN Later(muteUntil, now + Duration) ELSE muteUntil

\* Each utterance is queued once or in the worker's hands.
Once ==
  /\ \A i \in DOMAIN queue : queue[i] <= Said
  /\ \A i, j \in DOMAIN queue : queue[i] = queue[j] => i = j
  /\ rendering <= Said /\ \A i \in DOMAIN queue : queue[i] = rendering => rendering = NoOne
  /\ worker \in {"synth", "play", "after"} <=> rendering # NoOne
  /\ worker = "new" => queue = <<>>
  /\ Len(queue) <= MaxQueue

\* The stop mark is in no queue but that of a voice that was closed.
Marked == voiceClosed \/ \A i \in DOMAIN queue : queue[i] # Stop

VoiceInv == VoiceTyped /\ Covered /\ Once /\ Marked /\ NoneForgotten

Awaited(u) == u = rendering \/ \E i \in DOMAIN queue : queue[i] = u

--------------------------------------------------------------------------------
\* What the ends of a queue are, and how a fate is set.
LEMMA QueuePut ==
  ASSUME NEW S, NEW s \in Seq(S), NEW e \in S
  PROVE  /\ Append(s, e) \in Seq(S) /\ Len(s) \in Nat /\ Len(Append(s, e)) = Len(s) + 1
         /\ DOMAIN s = 1 .. Len(s) /\ DOMAIN Append(s, e) = 1 .. Len(s) + 1
         /\ Append(s, e)[Len(s) + 1] = e /\ \A i \in 1 .. Len(s) : Append(s, e)[i] = s[i]
  OBVIOUS

LEMMA QueueTake ==
  ASSUME NEW S, NEW s \in Seq(S), s # <<>>
  PROVE  /\ Len(s) \in Nat \ {0} /\ DOMAIN s = 1 .. Len(s) /\ Head(s) = s[1] /\ s[1] \in S
         /\ Tail(s) \in Seq(S) /\ Len(Tail(s)) = Len(s) - 1 /\ DOMAIN Tail(s) = 1 .. Len(s) - 1
         /\ \A i \in 1 .. Len(s) - 1 : Tail(s)[i] = s[i + 1]
  OBVIOUS

LEMMA FateSet ==
  ASSUME NEW s \in Seq(Fates), NEW u \in 1 .. Len(s), NEW what \in Fates
  PROVE  LET r == [s EXCEPT ![u] = what]
         IN r \in Seq(Fates) /\ Len(r) = Len(s) /\ r[u] = what /\ \A v \in 1 .. Len(s) : v # u => r[v] = s[v]
  OBVIOUS

\* The invariant's parts about the queue, in the form the steps use.
LEMMA VoiceFacts ==
  ASSUME VoiceInv
  PROVE  /\ queue \in Seq(Nat) /\ fate \in Seq(Fates) /\ Said \in Nat /\ Said = Len(fate)
         /\ Len(queue) \in Nat /\ DOMAIN queue = 1 .. Len(queue) /\ rendering \in 0 .. Said /\ inflight \in Int
         /\ \A i \in 1 .. Len(queue) : queue[i] \in 0 .. Said
         /\ \A u \in 1 .. Said : fate[u] = "queued" <=> Awaited(u)
<1>1. /\ queue \in Seq(Nat) /\ fate \in Seq(Fates) /\ Said = Len(fate) /\ inflight \in Int /\ rendering \in Nat
      /\ rendering <= Said /\ \A i \in DOMAIN queue : queue[i] <= Said
  BY DEF VoiceInv, VoiceTyped, Once, Said
<1>2. \A u \in 1 .. Said : fate[u] = "queued" <=> Awaited(u)
  BY DEF VoiceInv, NoneForgotten, Awaited
<1> HIDE DEF Said
<1>3. Said \in Nat /\ Len(queue) \in Nat /\ DOMAIN queue = 1 .. Len(queue)
  BY <1>1
<1> QED BY <1>1, <1>2, <1>3

LEMMA VoiceTimes ==
  ASSUME SpeechAssumption, VoiceInv
  PROVE  {muteUntil, soundsUntil, now, consecutive, latchedUntil, Duration, Margin, RetryAfter} \subseteq Nat
  BY DEF SpeechAssumption, VoiceInv, VoiceTyped

LEMMA InitVoice == ASSUME SpeechAssumption, VoiceInit PROVE VoiceInv
<1>1. VoiceTyped /\ Covered
  BY DEF VoiceInit, VoiceTyped, Covered, NoOne, Later
<1>2. Once /\ Marked
  BY DEF VoiceInit, Once, Marked, NoOne, Stop, Said, SpeechAssumption
<1>3. NoneForgotten
  BY DEF VoiceInit, NoneForgotten, NoOne, Said
<1> QED BY <1>1, <1>2, <1>3 DEF VoiceInv

LEMMA VoiceInvSays == ASSUME SpeechAssumption, VoiceInv PROVE VoiceSound
<1>1. DeafWhileSpeaking
  BY DEF VoiceInv, VoiceTyped, Covered, DeafWhileSpeaking
<1> QED BY <1>1 DEF VoiceInv, VoiceSound

\* What the worker finishes with has a fate, and nothing else changes its own.
LEMMA FinishSays ==
  ASSUME VoiceInv, NEW u \in 1 .. Said, NEW what \in Fates \ {"queued"}, Become(u, what)
  PROVE  /\ fate' \in Seq(Fates) /\ Said' = Said /\ fate'[u] # "queued"
         /\ \A v \in 1 .. Said : v # u => fate'[v] = fate[v]
<1>1. fate \in Seq(Fates) /\ u \in 1 .. Len(fate) /\ fate' = [fate EXCEPT ![u] = what]
  BY DEF VoiceInv, VoiceTyped, Said, Become
<1> QED BY <1>1, FateSet DEF Said

\* The worker is done with what it renders.
LEMMA DoneKeeps ==
  ASSUME SpeechAssumption, VoiceInv, NEW what \in Fates \ {"queued"}, rendering # NoOne,
         Finish(rendering, what), UNCHANGED <<queue, gate, voiceClosed>>
  PROVE  Once' /\ Marked' /\ NoneForgotten' /\ fate' \in Seq(Fates) /\ worker' = "idle" /\ rendering' = NoOne
         /\ inflight' \in Int
<1>1. rendering \in 1 .. Said /\ Said \in Nat
  BY VoiceFacts DEF NoOne
<1>2. /\ fate' \in Seq(Fates) /\ Said' = Said /\ fate'[rendering] # "queued"
      /\ \A v \in 1 .. Said : v # rendering => fate'[v] = fate[v]
  BY <1>1, FinishSays DEF Finish
<1>3. /\ inflight' = inflight - 1 /\ worker' = "idle" /\ rendering' = NoOne
      /\ queue' = queue /\ mutedDrops' = mutedDrops /\ quiet' = quiet
  BY DEF gate, Finish
<1>4. worker # "new"
  BY DEF VoiceInv, Once
<1>5. Once'
  <2>1. NoOne <= Said
    BY <1>1 DEF NoOne
  <2> QED BY <1>2, <1>3, <2>1 DEF VoiceInv, Once
<1>6. NoneForgotten'
  <2>1. \A u \in 1 .. Said' : fate'[u] = "queued" <=> Awaited(u)'
    <3> SUFFICES ASSUME NEW u \in 1 .. Said PROVE fate'[u] = "queued" <=> Awaited(u)'
      BY <1>2
    <3>1. u # NoOne
      BY <1>1 DEF NoOne
    <3>2. CASE u = rendering
      <4>1. \A i \in DOMAIN queue : queue[i] # u
        BY <3>2 DEF VoiceInv, Once
      <4> QED BY <1>2, <1>3, <3>1, <3>2, <4>1 DEF Awaited
    <3>3. CASE u # rendering
      BY <1>2, <1>3, <3>1, <3>3, VoiceFacts DEF Awaited
    <3> QED BY <3>2, <3>3
  <2>2. voiceClosed' \/ inflight' = Len(queue') + (IF rendering' = NoOne THEN 0 ELSE 1)
    <3>1. CASE voiceClosed
      BY <3>1
    <3>2. CASE ~voiceClosed
      <4>1. inflight = Len(queue) + 1
        BY <3>2 DEF VoiceInv, NoneForgotten
      <4>2. inflight' = Len(queue')
        BY <1>3, <4>1, VoiceFacts
      <4>3. Len(queue') = Len(queue') + (IF rendering' = NoOne THEN 0 ELSE 1)
        BY <1>3, VoiceFacts
      <4> QED BY <4>2, <4>3
    <3> QED BY <3>1, <3>2
  <2>3. mutedDrops' = quiet'
    BY <1>3 DEF VoiceInv, NoneForgotten
  <2> QED BY <2>1, <2>2, <2>3 DEF NoneForgotten, Awaited
<1>7. Marked'
  BY <1>3 DEF VoiceInv, Marked
<1>8. inflight' \in Int
  BY <1>3, VoiceFacts
<1> QED BY <1>2, <1>3, <1>5, <1>6, <1>7, <1>8

\* The gate of the mute, and time.
LEMMA MuteKeeps == ASSUME SpeechAssumption, VoiceInv, Mute \/ Unmute \/ Tick PROVE VoiceInv'
<1>1. /\ UNCHANGED <<queue, worker, rendering, inflight, sink, fate>>
      /\ (voiceClosed' <=> voiceClosed)
      /\ now' = now \/ (now' = now + 1 /\ worker # "after")
      /\ (mutedDrops' = mutedDrops /\ quiet' = quiet) \/ (mutedDrops' = 0 /\ quiet' = 0)
  BY DEF Mute, Unmute, Tick, gate
<1>2. VoiceTyped'
  BY <1>1 DEF VoiceInv, VoiceTyped, sink
<1>3. Covered'
  BY <1>1 DEF VoiceInv, VoiceTyped, Covered, sink
<1>4. Once' /\ Marked'
  BY <1>1 DEF VoiceInv, Once, Marked, Said
<1>5. NoneForgotten'
  BY <1>1 DEF VoiceInv, VoiceTyped, NoneForgotten, Said
<1> QED BY <1>2, <1>3, <1>4, <1>5 DEF VoiceInv

\* An utterance that passes the gates is the newest in the queue.
LEMMA SayKeeps == ASSUME SpeechAssumption, VoiceInv, Say PROVE VoiceInv'
<1> DEFINE swallowed == voiceMuted /\ ~voiceClosed
           dropped == voiceClosed \/ voiceMuted \/ Latched \/ Len(queue) = MaxQueue
           what == IF swallowed THEN "muted" ELSE IF dropped THEN "dropped" ELSE "queued"
<1>1. /\ fate' = Append(fate, what) /\ UNCHANGED <<rendering, sink, now>>
      /\ dropped => queue' = queue /\ inflight' = inflight
      /\ ~dropped => queue' = Append(queue, Said + 1) /\ inflight' = inflight + 1
      /\ worker' = worker \/ (worker = "new" /\ worker' = "idle")
      /\ ~dropped => worker' # "new"
      /\ \/ mutedDrops' = mutedDrops + 1 /\ quiet' = quiet + 1
         \/ mutedDrops' = mutedDrops /\ quiet' = quiet
  BY DEF Say
<1>2. /\ (voiceClosed' <=> voiceClosed) /\ what \in Fates /\ (what = "queued" <=> ~dropped)
      /\ ~dropped => ~voiceClosed /\ Len(queue) # MaxQueue
  BY DEF Say, Fates
<1> HIDE DEF what, dropped, swallowed
<1>3. /\ Said \in Nat /\ Said' = Said + 1 /\ fate' \in Seq(Fates)
      /\ fate'[Said + 1] = what /\ \A u \in 1 .. Said : fate'[u] = fate[u]
  BY <1>1, <1>2, QueuePut DEF VoiceInv, VoiceTyped, Said
<1>4. /\ Len(queue) \in Nat /\ DOMAIN queue = 1 .. Len(queue) /\ rendering \in 0 .. Said
      /\ \A i \in 1 .. Len(queue) : queue[i] \in 0 .. Said
  BY VoiceFacts
<1>5. mutedDrops' = quiet'
  BY <1>1 DEF VoiceInv, NoneForgotten
<1>6. \A u \in 1 .. Said' : u \in 1 .. Said \/ u = Said + 1
  BY <1>3
<1>7. Said + 1 # rendering /\ \A i \in 1 .. Len(queue) : queue[i] # Said + 1
  BY <1>3, <1>4
<1>8. CASE dropped
  <2>1. VoiceTyped' /\ Covered'
    BY <1>1, <1>3, <1>8 DEF VoiceInv, VoiceTyped, Covered, sink
  <2>2. Once'
    <3>1. (\A i \in DOMAIN queue : queue[i] <= Said + 1) /\ rendering <= Said + 1
      BY <1>3, <1>4
    <3> QED BY <1>1, <1>3, <1>8, <3>1 DEF VoiceInv, Once
  <2>3. Marked'
    BY <1>1, <1>2, <1>8 DEF VoiceInv, Marked
  <2>4. \A u \in 1 .. Said' : fate'[u] = "queued" <=> Awaited(u)'
    <3> SUFFICES ASSUME NEW u \in 1 .. Said' PROVE fate'[u] = "queued" <=> Awaited(u)'
      OBVIOUS
    <3>1. Awaited(u)' <=> Awaited(u)
      BY <1>1, <1>8 DEF Awaited
    <3>2. CASE u \in 1 .. Said
      BY <1>3, <3>1, <3>2, VoiceFacts
    <3>3. CASE u = Said + 1
      BY <1>2, <1>3, <1>4, <1>7, <1>8, <3>1, <3>3 DEF Awaited
    <3> QED BY <1>6, <3>2, <3>3
  <2>5. voiceClosed' \/ inflight' = Len(queue') + (IF rendering' = NoOne THEN 0 ELSE 1)
    BY <1>1, <1>2, <1>8 DEF VoiceInv, NoneForgotten
  <2>6. NoneForgotten'
    BY <1>5, <2>4, <2>5 DEF NoneForgotten, Awaited
  <2> QED BY <2>1, <2>2, <2>3, <2>6 DEF VoiceInv
<1>9. CASE ~dropped
  <2> DEFINE q == Append(queue, Said + 1)
  <2>1. /\ q \in Seq(Nat) /\ Len(q) = Len(queue) + 1 /\ DOMAIN q = 1 .. Len(queue) + 1
        /\ q[Len(queue) + 1] = Said + 1 /\ \A i \in 1 .. Len(queue) : q[i] = queue[i]
    BY <1>3, QueuePut DEF VoiceInv, VoiceTyped
  <2>2. queue' = q /\ inflight' = inflight + 1
    BY <1>1, <1>9
  <2> HIDE DEF q
  <2>3. VoiceTyped' /\ Covered'
    BY <1>1, <1>3, <2>1, <2>2 DEF VoiceInv, VoiceTyped, Covered, sink
  <2>4. \A i \in DOMAIN q : i \in 1 .. Len(queue) \/ i = Len(queue) + 1
    BY <1>4, <2>1
  <2>5. Once'
    <3>1. ASSUME NEW i \in DOMAIN q PROVE q[i] <= Said'
      <4>1. CASE i \in 1 .. Len(queue)
        BY <1>3, <1>4, <2>1, <4>1
      <4>2. CASE i = Len(queue) + 1
        BY <1>3, <2>1, <4>2
      <4> QED BY <2>4, <4>1, <4>2
    <3>2. \A i, j \in DOMAIN q : q[i] = q[j] => i = j
      BY <1>3, <1>4, <2>1, <2>4 DEF VoiceInv, Once
    <3>3. rendering <= Said' /\ \A i \in DOMAIN q : q[i] = rendering => rendering = NoOne
      BY <1>3, <1>4, <2>1, <2>4 DEF VoiceInv, Once
    <3>4. Len(q) <= MaxQueue
      BY <1>2, <1>4, <1>9, <2>1 DEF VoiceInv, Once, SpeechAssumption
    <3>5. worker' # "new" /\ (worker' \in {"synth", "play", "after"} <=> rendering' # NoOne)
      BY <1>1, <1>9 DEF VoiceInv, Once
    <3> QED BY <1>1, <2>2, <3>1, <3>2, <3>3, <3>4, <3>5 DEF Once
  <2>6. Marked'
    <3>1. \A i \in DOMAIN q : q[i] # Stop
      BY <1>2, <1>3, <1>4, <1>9, <2>1, <2>4 DEF VoiceInv, Marked, Stop
    <3> QED BY <2>2, <3>1 DEF Marked
  <2>7. \A u \in 1 .. Said' : fate'[u] = "queued" <=> Awaited(u)'
    <3> SUFFICES ASSUME NEW u \in 1 .. Said' PROVE fate'[u] = "queued" <=> Awaited(u)'
      OBVIOUS
    <3>1. CASE u \in 1 .. Said
      <4>1. u # Said + 1
        BY <1>3, <3>1
      <4>2. \A i \in DOMAIN queue : i \in DOMAIN q
        BY <1>4, <2>1
      <4>3. (\E i \in DOMAIN q : q[i] = u) <=> \E i \in DOMAIN queue : queue[i] = u
        BY <1>4, <2>1, <2>4, <4>1, <4>2
      <4>4. Awaited(u)' <=> Awaited(u)
        BY <1>1, <2>2, <4>3 DEF Awaited
      <4> QED BY <1>3, <3>1, <4>4, VoiceFacts
    <3>2. CASE u = Said + 1
      <4>1. Len(queue) + 1 \in DOMAIN q
        BY <1>4, <2>1
      <4> QED BY <1>2, <1>3, <1>9, <2>1, <2>2, <3>2, <4>1 DEF Awaited
    <3> QED BY <1>6, <3>1, <3>2
  <2>8. voiceClosed' \/ inflight' = Len(queue') + (IF rendering' = NoOne THEN 0 ELSE 1)
    <3>1. inflight = Len(queue) + (IF rendering = NoOne THEN 0 ELSE 1)
      BY <1>2, <1>9 DEF VoiceInv, NoneForgotten
    <3>2. Len(queue') = Len(queue) + 1 /\ inflight' = inflight + 1 /\ rendering' = rendering
      BY <1>1, <2>1, <2>2
    <3>3. CASE rendering = NoOne
      <4>1. inflight' = Len(queue')
        BY <1>4, <3>1, <3>2, <3>3
      <4>2. Len(queue') = Len(queue') + 0
        BY <1>4, <3>2
      <4> QED BY <3>2, <3>3, <4>1, <4>2
    <3>4. CASE rendering # NoOne
      <4>1. inflight' = Len(queue') + 1
        BY <1>4, <3>1, <3>2, <3>4
      <4> QED BY <3>2, <3>4, <4>1
    <3> QED BY <3>3, <3>4
  <2>9. NoneForgotten'
    BY <1>5, <2>7, <2>8 DEF NoneForgotten, Awaited
  <2> QED BY <2>3, <2>5, <2>6, <2>9 DEF VoiceInv
<1> QED BY <1>8, <1>9

\* What is left when the oldest entry is taken.
LEMMA TakeSays ==
  ASSUME VoiceInv, queue # <<>>
  PROVE  /\ queue[1] \in 0 .. Said /\ Head(queue) = queue[1] /\ 1 \in DOMAIN queue /\ Len(queue) \in Nat \ {0}
         /\ Tail(queue) \in Seq(Nat) /\ Len(Tail(queue)) = Len(queue) - 1
         /\ DOMAIN Tail(queue) = 1 .. Len(queue) - 1
         /\ \A i \in DOMAIN Tail(queue) : Tail(queue)[i] \in 0 .. Said /\ Tail(queue)[i] # queue[1]
         /\ \A i, j \in DOMAIN Tail(queue) : Tail(queue)[i] = Tail(queue)[j] => i = j
         /\ \A u \in Nat : u # queue[1] =>
              ((\E i \in DOMAIN Tail(queue) : Tail(queue)[i] = u) <=> \E i \in DOMAIN queue : queue[i] = u)
<1> DEFINE q == Tail(queue)
<1>1. /\ Len(queue) \in Nat \ {0} /\ DOMAIN queue = 1 .. Len(queue) /\ Head(queue) = queue[1]
      /\ q \in Seq(Nat) /\ Len(q) = Len(queue) - 1 /\ DOMAIN q = 1 .. Len(queue) - 1
      /\ \A i \in 1 .. Len(queue) - 1 : q[i] = queue[i + 1]
  BY QueueTake DEF VoiceInv, VoiceTyped
<1> HIDE DEF q
<1>2. 1 \in DOMAIN queue /\ \A i \in DOMAIN q : i \in Int /\ i + 1 \in DOMAIN queue /\ i + 1 # 1 /\ q[i] = queue[i + 1]
  BY <1>1
<1>3. \A i \in DOMAIN queue : queue[i] \in 0 .. Said
  BY <1>1, VoiceFacts
<1>4. \A i, j \in DOMAIN queue : queue[i] = queue[j] => i = j
  BY DEF VoiceInv, Once
<1>5. \A i \in DOMAIN q : q[i] \in 0 .. Said /\ q[i] # queue[1]
  BY <1>2, <1>3, <1>4
<1>6. ASSUME NEW i \in DOMAIN q, NEW j \in DOMAIN q, q[i] = q[j] PROVE i = j
  <2>1. i + 1 = j + 1
    BY <1>2, <1>4, <1>6
  <2> QED BY <1>2, <2>1
<1>7. ASSUME NEW u \in Nat, u # queue[1] PROVE (\E i \in DOMAIN q : q[i] = u) <=> \E i \in DOMAIN queue : queue[i] = u
  <2>1. ASSUME NEW i \in DOMAIN q, q[i] = u PROVE \E j \in DOMAIN queue : queue[j] = u
    BY <1>2, <2>1
  <2>2. ASSUME NEW j \in DOMAIN queue, queue[j] = u PROVE \E i \in DOMAIN q : q[i] = u
    <3>1. j # 1
      BY <1>7, <2>2
    <3>2. j - 1 \in DOMAIN q /\ (j - 1) + 1 = j
      BY <1>1, <3>1
    <3> QED BY <1>2, <2>2, <3>2
  <2> QED BY <2>1, <2>2
<1> QED BY <1>1, <1>2, <1>3, <1>5, <1>6, <1>7 DEF q

\* The stop mark may take the place of the oldest utterance.
LEMMA CloseVoiceKeeps == ASSUME SpeechAssumption, VoiceInv, CloseVoice PROVE VoiceInv'
<1>1. /\ ~voiceClosed /\ voiceClosed' /\ UNCHANGED <<worker, rendering, inflight, sink, now>>
      /\ mutedDrops' = mutedDrops /\ quiet' = quiet
  BY DEF CloseVoice, gate
<1>2. /\ Len(queue) \in Nat /\ DOMAIN queue = 1 .. Len(queue) /\ rendering \in 0 .. Said /\ Said \in Nat
      /\ \A i \in 1 .. Len(queue) : queue[i] \in 0 .. Said
  BY VoiceFacts
<1>3. \A i \in DOMAIN queue : queue[i] # Stop
  BY <1>1 DEF VoiceInv, Marked
<1>4. \A u \in 1 .. Said : u # Stop /\ u # NoOne /\ u \in Nat
  BY <1>2 DEF Stop, NoOne
<1>5. Marked' /\ mutedDrops' = quiet'
  BY <1>1 DEF VoiceInv, Marked, NoneForgotten
<1>6. CASE UNCHANGED <<queue, fate>>
  <2>1. VoiceTyped' /\ Covered'
    BY <1>1, <1>6 DEF VoiceInv, VoiceTyped, Covered, sink
  <2>2. Once'
    BY <1>1, <1>6 DEF VoiceInv, Once, Said
  <2>3. NoneForgotten'
    BY <1>1, <1>5, <1>6 DEF VoiceInv, NoneForgotten, Said
  <2> QED BY <1>5, <2>1, <2>2, <2>3 DEF VoiceInv
<1>7. CASE worker # "new" /\ Len(queue) < MaxQueue /\ queue' = Append(queue, Stop) /\ UNCHANGED fate
  <2>1. /\ queue' \in Seq(Nat) /\ Len(queue') = Len(queue) + 1 /\ DOMAIN queue' = 1 .. Len(queue) + 1
        /\ queue'[Len(queue) + 1] = Stop /\ \A i \in 1 .. Len(queue) : queue'[i] = queue[i]
    <3>1. Stop \in Nat
      BY DEF Stop
    <3> QED BY <1>7, <3>1, QueuePut DEF VoiceInv, VoiceTyped
  <2>2. \A i \in DOMAIN queue' : i \in 1 .. Len(queue) \/ i = Len(queue) + 1
    BY <1>2, <2>1
  <2>3. VoiceTyped' /\ Covered'
    BY <1>1, <1>7, <2>1 DEF VoiceInv, VoiceTyped, Covered, sink
  <2>4. Said' = Said
    BY <1>7 DEF Said
  <2>5. Once'
    <3>1. \A i \in DOMAIN queue' : queue'[i] <= Said'
      BY <1>2, <2>1, <2>2, <2>4 DEF Stop
    <3>2. \A i, j \in DOMAIN queue' : queue'[i] = queue'[j] => i = j
      BY <1>2, <1>3, <2>1, <2>2 DEF VoiceInv, Once
    <3>3. rendering' <= Said' /\ \A i \in DOMAIN queue' : queue'[i] = rendering' => rendering' = NoOne
      BY <1>1, <1>2, <2>1, <2>2, <2>4 DEF VoiceInv, Once, Stop, NoOne
    <3>4. Len(queue') <= MaxQueue
      BY <1>2, <1>7, <2>1 DEF SpeechAssumption
    <3>5. worker' # "new" /\ (worker' \in {"synth", "play", "after"} <=> rendering' # NoOne)
      BY <1>1, <1>7 DEF VoiceInv, Once
    <3> QED BY <3>1, <3>2, <3>3, <3>4, <3>5 DEF Once
  <2>6. \A u \in 1 .. Said' : fate'[u] = "queued" <=> Awaited(u)'
    <3> SUFFICES ASSUME NEW u \in 1 .. Said PROVE fate'[u] = "queued" <=> Awaited(u)'
      BY <2>4
    <3>1. \A i \in DOMAIN queue : i \in DOMAIN queue'
      BY <1>2, <2>1
    <3>2. (\E i \in DOMAIN queue' : queue'[i] = u) <=> \E i \in DOMAIN queue : queue[i] = u
      BY <1>2, <1>4, <2>1, <2>2, <3>1
    <3>3. Awaited(u)' <=> Awaited(u)
      BY <1>1, <3>2 DEF Awaited
    <3> QED BY <1>7, <3>3, VoiceFacts
  <2>7. NoneForgotten'
    BY <1>1, <1>5, <2>6 DEF NoneForgotten, Awaited
  <2> QED BY <1>5, <2>3, <2>5, <2>7 DEF VoiceInv
<1>8. CASE worker # "new" /\ ~(Len(queue) < MaxQueue) /\ queue' = Append(Tail(queue), Stop)
           /\ Become(Head(queue), "given up")
  <2> DEFINE q == Tail(queue)
  <2>1. queue # <<>>
    <3>1. MaxQueue \in Nat \ {0}
      BY DEF SpeechAssumption
    <3>2. ~(Len(queue) < MaxQueue)
      BY <1>8
    <3>3. Len(queue) # 0
      BY <1>2, <3>1, <3>2
    <3> QED BY <3>3
  <2>2. /\ queue[1] \in 0 .. Said /\ Head(queue) = queue[1] /\ 1 \in DOMAIN queue /\ Len(queue) \in Nat \ {0}
        /\ q \in Seq(Nat) /\ Len(q) = Len(queue) - 1 /\ DOMAIN q = 1 .. Len(queue) - 1
        /\ \A i \in DOMAIN q : q[i] \in 0 .. Said /\ q[i] # queue[1]
        /\ \A i, j \in DOMAIN q : q[i] = q[j] => i = j
        /\ \A u \in Nat : u # queue[1] =>
              ((\E i \in DOMAIN q : q[i] = u) <=> \E i \in DOMAIN queue : queue[i] = u)
    BY <2>1, TakeSays
  <2>3. /\ queue' \in Seq(Nat) /\ Len(queue') = Len(q) + 1 /\ DOMAIN queue' = 1 .. Len(q) + 1
        /\ queue'[Len(q) + 1] = Stop /\ \A i \in 1 .. Len(q) : queue'[i] = q[i]
    <3>1. Stop \in Nat /\ q \in Seq(Nat) /\ queue' = Append(q, Stop)
      BY <1>8, <2>2 DEF Stop
    <3> HIDE DEF q
    <3> QED BY <3>1, QueuePut
  <2>4. queue[1] \in 1 .. Said
    BY <1>2, <1>3, <2>2 DEF Stop
  <2>5. /\ fate' \in Seq(Fates) /\ Said' = Said /\ fate'[queue[1]] # "queued"
        /\ \A v \in 1 .. Said : v # queue[1] => fate'[v] = fate[v]
    <3>1. "given up" \in Fates \ {"queued"}
      BY DEF Fates
    <3>2. Become(queue[1], "given up")
      BY <1>8, <2>2 DEF Become
    <3> QED BY <2>4, <3>1, <3>2, FinishSays
  <2> HIDE DEF q
  <2>6. \A i \in DOMAIN q : q[i] # Stop /\ q[i] # rendering
    <3>1. ASSUME NEW i \in DOMAIN q PROVE \E j \in DOMAIN queue : queue[j] = q[i]
      <4>1. q[i] \in Nat /\ q[i] # queue[1]
        BY <1>2, <2>2, <3>1
      <4> QED BY <2>2, <3>1, <4>1
    <3>2. \A j \in DOMAIN queue : queue[j] # Stop /\ queue[j] # rendering
      BY <1>3 DEF VoiceInv, Once, Stop, NoOne
    <3> QED BY <3>1, <3>2
  <2>7. Len(q) \in Nat /\ Len(q) + 1 = Len(queue) /\ DOMAIN q = 1 .. Len(q)
    BY <2>2
  <2>8. \A i \in DOMAIN queue' : i \in 1 .. Len(q) \/ i = Len(q) + 1
    BY <2>3, <2>7
  <2>9. VoiceTyped' /\ Covered'
    BY <1>1, <2>3, <2>5 DEF VoiceInv, VoiceTyped, Covered, sink
  <2>10. Once'
    <3>1. ASSUME NEW i \in DOMAIN queue' PROVE queue'[i] <= Said'
      <4>1. CASE i \in 1 .. Len(q)
        <5>1. i \in DOMAIN q /\ queue'[i] = q[i]
          BY <2>3, <2>7, <4>1
        <5> QED BY <1>2, <2>2, <2>5, <5>1
      <4>2. CASE i = Len(q) + 1
        BY <1>2, <2>3, <2>5, <4>2 DEF Stop
      <4> QED BY <2>8, <4>1, <4>2
    <3>2. ASSUME NEW i \in DOMAIN queue', NEW j \in DOMAIN queue', queue'[i] = queue'[j] PROVE i = j
      <4>1. ASSUME NEW m \in 1 .. Len(q) PROVE m \in DOMAIN q /\ queue'[m] = q[m] /\ queue'[m] # Stop
        BY <2>3, <2>6, <2>7
      <4>2. CASE i = Len(q) + 1 \/ j = Len(q) + 1
        BY <2>3, <2>8, <3>2, <4>1, <4>2
      <4>3. CASE i \in 1 .. Len(q) /\ j \in 1 .. Len(q)
        BY <2>2, <3>2, <4>1, <4>3
      <4> QED BY <2>8, <4>2, <4>3
    <3>3. rendering' <= Said' /\ \A i \in DOMAIN queue' : queue'[i] = rendering' => rendering' = NoOne
      BY <1>1, <1>2, <2>3, <2>5, <2>6, <2>7, <2>8 DEF Stop, NoOne
    <3>4. Len(queue') <= MaxQueue
      BY <2>3, <2>7 DEF VoiceInv, Once
    <3>5. worker' # "new" /\ (worker' \in {"synth", "play", "after"} <=> rendering' # NoOne)
      BY <1>1, <1>8 DEF VoiceInv, Once
    <3> QED BY <3>1, <3>2, <3>3, <3>4, <3>5 DEF Once
  <2>11. \A u \in 1 .. Said' : fate'[u] = "queued" <=> Awaited(u)'
    <3> SUFFICES ASSUME NEW u \in 1 .. Said PROVE fate'[u] = "queued" <=> Awaited(u)'
      BY <2>5
    <3>1. \A i \in DOMAIN q : i \in DOMAIN queue'
      BY <2>3, <2>7
    <3>2. (\E i \in DOMAIN queue' : queue'[i] = u) <=> \E i \in DOMAIN q : q[i] = u
      BY <1>4, <2>3, <2>7, <2>8, <3>1
    <3>3. CASE u = queue[1]
      <4>1. u # rendering
        BY <1>4, <2>2, <3>3 DEF VoiceInv, Once
      <4>2. ~Awaited(u)'
        BY <1>1, <2>2, <3>2, <3>3, <4>1 DEF Awaited
      <4> QED BY <2>5, <3>3, <4>2
    <3>4. CASE u # queue[1]
      <4>1. (\E i \in DOMAIN q : q[i] = u) <=> \E i \in DOMAIN queue : queue[i] = u
        BY <1>4, <2>2, <3>4
      <4>2. Awaited(u)' <=> Awaited(u)
        BY <1>1, <3>2, <4>1 DEF Awaited
      <4> QED BY <2>5, <3>4, <4>2, VoiceFacts
    <3> QED BY <3>3, <3>4
  <2>12. NoneForgotten'
    BY <1>1, <1>5, <2>11 DEF NoneForgotten, Awaited
  <2> QED BY <1>5, <2>9, <2>10, <2>12 DEF VoiceInv
<1> QED BY <1>6, <1>7, <1>8 DEF CloseVoice

\* The worker takes the oldest entry: the stop mark, an utterance to drop or one to render.
LEMMA GetKeeps == ASSUME SpeechAssumption, VoiceInv, Get PROVE VoiceInv'
<1> DEFINE q == Tail(queue)
           h == queue[1]
<1>1. /\ worker = "idle" /\ queue # <<>> /\ UNCHANGED <<sink, now>> /\ queue' = q
      /\ mutedDrops' = mutedDrops /\ quiet' = quiet /\ (voiceClosed' <=> voiceClosed)
  BY DEF Get, gate
<1>2. /\ h \in 0 .. Said /\ Head(queue) = h /\ 1 \in DOMAIN queue /\ Len(queue) \in Nat \ {0}
      /\ q \in Seq(Nat) /\ Len(q) = Len(queue) - 1 /\ DOMAIN q = 1 .. Len(queue) - 1
      /\ \A i \in DOMAIN q : q[i] \in 0 .. Said /\ q[i] # h
      /\ \A i, j \in DOMAIN q : q[i] = q[j] => i = j
      /\ \A u \in Nat : u # h =>
            ((\E i \in DOMAIN q : q[i] = u) <=> \E i \in DOMAIN queue : queue[i] = u)
  BY <1>1, TakeSays
<1>3. h = Stop => voiceClosed
  BY <1>2 DEF VoiceInv, Marked
<1> HIDE DEF q, h
<1>4. Said \in Nat /\ rendering = NoOne /\ inflight \in Int
  BY <1>1, VoiceFacts DEF VoiceInv, Once
<1>5. \A u \in 1 .. Said : u # NoOne /\ u # Stop /\ u \in Nat
  BY <1>4 DEF NoOne, Stop
<1>6. Marked' /\ mutedDrops' = quiet'
  <2>1. CASE voiceClosed
    BY <1>1, <2>1 DEF VoiceInv, Marked, NoneForgotten
  <2>2. CASE ~voiceClosed
    <3>1. \A i \in DOMAIN q : \E j \in DOMAIN queue : queue[j] = q[i]
      BY <1>2
    <3>2. \A i \in DOMAIN q : q[i] # Stop
      BY <2>2, <3>1 DEF VoiceInv, Marked
    <3> QED BY <1>1, <3>2 DEF VoiceInv, Marked, NoneForgotten
  <2> QED BY <2>1, <2>2
<1>7. ~voiceClosed => inflight = Len(q) + 1
  <2>1. ~voiceClosed => inflight = Len(queue)
    <3>1. ~voiceClosed => inflight = Len(queue) + 0
      BY <1>4 DEF VoiceInv, NoneForgotten
    <3> QED BY <1>2, <3>1
  <2> QED BY <1>2, <2>1
<1>8. Len(q) <= MaxQueue
  BY <1>2 DEF VoiceInv, Once, SpeechAssumption
<1>9. Covered' <=> soundsUntil <= IF worker' = "after" THEN Later(muteUntil, now + Duration) ELSE muteUntil
  BY <1>1 DEF Covered, sink, Later
<1>10. soundsUntil <= muteUntil
  BY <1>1 DEF VoiceInv, Covered
<1>11. CASE h = Stop /\ worker' = "gone" /\ UNCHANGED <<rendering, inflight, fate>>
  <2>1. VoiceTyped' /\ Covered'
    BY <1>1, <1>2, <1>9, <1>10, <1>11 DEF VoiceInv, VoiceTyped, sink
  <2>2. Said' = Said /\ rendering' = rendering
    BY <1>11 DEF Said
  <2>3. Once'
    <3>1. \A i \in DOMAIN q : q[i] <= Said /\ q[i] # rendering
      BY <1>2, <1>4, <1>11 DEF NoOne, Stop
    <3>2. rendering <= Said
      BY <1>4 DEF NoOne
    <3> QED BY <1>1, <1>2, <1>4, <1>8, <1>11, <2>2, <3>1, <3>2 DEF Once
  <2>4. \A u \in 1 .. Said' : fate'[u] = "queued" <=> Awaited(u)'
    <3> SUFFICES ASSUME NEW u \in 1 .. Said PROVE fate'[u] = "queued" <=> Awaited(u)'
      BY <2>2
    <3>1. (\E i \in DOMAIN q : q[i] = u) <=> \E i \in DOMAIN queue : queue[i] = u
      BY <1>2, <1>5, <1>11
    <3>2. Awaited(u)' <=> Awaited(u)
      BY <1>1, <1>11, <3>1 DEF Awaited
    <3> QED BY <1>11, <3>2, VoiceFacts
  <2>5. NoneForgotten'
    BY <1>1, <1>3, <1>6, <1>11, <2>4 DEF NoneForgotten, Awaited
  <2> QED BY <1>6, <2>1, <2>3, <2>5 DEF VoiceInv
<1>12. CASE h # Stop /\ Latched /\ Finish(h, "dropped")
  <2>1. h \in 1 .. Said
    BY <1>2, <1>4, <1>12 DEF Stop
  <2>2. /\ fate' \in Seq(Fates) /\ Said' = Said /\ fate'[h] # "queued"
        /\ \A v \in 1 .. Said : v # h => fate'[v] = fate[v]
    <3>1. "dropped" \in Fates \ {"queued"}
      BY DEF Fates
    <3>2. Become(h, "dropped")
      BY <1>12 DEF Finish
    <3> QED BY <2>1, <3>1, <3>2, FinishSays
  <2>3. inflight' = inflight - 1 /\ worker' = "idle" /\ rendering' = NoOne
    BY <1>12 DEF Finish
  <2>4. VoiceTyped' /\ Covered'
    <3>1. rendering' \in Nat /\ inflight' \in Int
      BY <1>4, <2>3 DEF NoOne
    <3> QED BY <1>1, <1>2, <1>9, <1>10, <2>2, <2>3, <3>1 DEF VoiceInv, VoiceTyped, sink
  <2>5. Once'
    <3>1. \A i \in DOMAIN q : q[i] <= Said
      BY <1>2, <1>4
    <3>2. NoOne <= Said
      BY <1>4 DEF NoOne
    <3> QED BY <1>1, <1>2, <1>4, <1>8, <2>2, <2>3, <3>1, <3>2 DEF Once
  <2>6. \A u \in 1 .. Said' : fate'[u] = "queued" <=> Awaited(u)'
    <3> SUFFICES ASSUME NEW u \in 1 .. Said PROVE fate'[u] = "queued" <=> Awaited(u)'
      BY <2>2
    <3>1. CASE u = h
      BY <1>1, <1>2, <1>5, <2>2, <2>3, <3>1 DEF Awaited
    <3>2. CASE u # h
      <4>1. (\E i \in DOMAIN q : q[i] = u) <=> \E i \in DOMAIN queue : queue[i] = u
        BY <1>2, <1>5, <3>2
      <4>2. Awaited(u)' <=> Awaited(u)
        BY <1>1, <1>4, <2>3, <4>1 DEF Awaited
      <4> QED BY <2>2, <3>2, <4>2, VoiceFacts
    <3> QED BY <3>1, <3>2
  <2>7. ~voiceClosed' => inflight' = Len(queue') + (IF rendering' = NoOne THEN 0 ELSE 1)
    <3>1. ~voiceClosed => inflight' = Len(q)
      BY <1>2, <1>7, <2>3
    <3>2. Len(q) = Len(q) + 0
      BY <1>2
    <3> QED BY <1>1, <2>3, <3>1, <3>2
  <2>8. NoneForgotten'
    BY <1>6, <2>6, <2>7 DEF NoneForgotten, Awaited
  <2> QED BY <1>6, <2>4, <2>5, <2>8 DEF VoiceInv
<1>13. CASE h # Stop /\ worker' = "synth" /\ rendering' = h /\ UNCHANGED <<inflight, fate>>
  <2>1. VoiceTyped' /\ Covered'
    <3>1. rendering' \in Nat
      BY <1>2, <1>4, <1>13
    <3> QED BY <1>1, <1>2, <1>9, <1>10, <1>13, <3>1 DEF VoiceInv, VoiceTyped, sink
  <2>2. Said' = Said /\ h # NoOne
    BY <1>13 DEF Said, NoOne, Stop
  <2>3. Once'
    <3>1. (\A i \in DOMAIN q : q[i] <= Said) /\ h <= Said
      BY <1>2, <1>4
    <3> QED BY <1>1, <1>2, <1>8, <1>13, <2>2, <3>1 DEF Once
  <2>4. \A u \in 1 .. Said' : fate'[u] = "queued" <=> Awaited(u)'
    <3> SUFFICES ASSUME NEW u \in 1 .. Said PROVE fate'[u] = "queued" <=> Awaited(u)'
      BY <2>2
    <3>1. Awaited(u)' <=> Awaited(u)
      <4>1. CASE u = h
        <5>1. Awaited(u)
          BY <1>2, <4>1 DEF Awaited, h
        <5> QED BY <1>13, <4>1, <5>1 DEF Awaited
      <4>2. CASE u # h
        <5>1. (\E i \in DOMAIN q : q[i] = u) <=> \E i \in DOMAIN queue : queue[i] = u
          BY <1>2, <1>5, <4>2
        <5> QED BY <1>1, <1>4, <1>5, <1>13, <4>2, <5>1 DEF Awaited
      <4> QED BY <4>1, <4>2
    <3> QED BY <1>13, <3>1, VoiceFacts
  <2>5. ~voiceClosed' => inflight' = Len(queue') + (IF rendering' = NoOne THEN 0 ELSE 1)
    BY <1>1, <1>7, <1>13, <2>2
  <2>6. NoneForgotten'
    BY <1>6, <2>4, <2>5 DEF NoneForgotten, Awaited
  <2> QED BY <1>6, <2>1, <2>3, <2>6 DEF VoiceInv
<1> QED BY <1>2, <1>11, <1>12, <1>13 DEF Get

\* What the worker renders fails or is done with ...
LEMMA FailedKeeps ==
  ASSUME SpeechAssumption, VoiceInv, worker \in {"synth", "play"}, Failed,
         UNCHANGED <<queue, gate, muteUntil, soundsUntil, voiceClosed, now>>
  PROVE  VoiceInv'
<1>1. rendering # NoOne /\ worker # "after"
  BY DEF VoiceInv, Once
<1>2. "failed" \in Fates \ {"queued"} /\ Finish(rendering, "failed")
  BY DEF Failed, Fates
<1>3. /\ Once' /\ Marked' /\ NoneForgotten' /\ fate' \in Seq(Fates) /\ worker' = "idle" /\ rendering' = NoOne
      /\ inflight' \in Int
  BY <1>1, <1>2, DoneKeeps
<1>4. consecutive' \in Nat /\ latchedUntil' \in Nat
  <2>1. \/ consecutive' = 0 /\ latchedUntil' = now + RetryAfter
        \/ consecutive' = consecutive + 1 /\ latchedUntil' = latchedUntil
    BY DEF Failed
  <2> QED BY <2>1, VoiceTimes
<1>5. VoiceTyped'
  BY <1>3, <1>4 DEF VoiceInv, VoiceTyped, gate, NoOne
<1>6. Covered'
  BY <1>1, <1>3 DEF VoiceInv, Covered
<1> QED BY <1>3, <1>5, <1>6 DEF VoiceInv

\* ... or is on its way to the speaker.
LEMMA StaysKeeps ==
  ASSUME VoiceInv, worker \in {"synth", "play"}, worker' \in {"play", "after"},
         UNCHANGED <<rendering, inflight, fate, queue, gate, voiceClosed>>
  PROVE  Once' /\ Marked' /\ NoneForgotten'
<1>1. Once'
  BY DEF VoiceInv, Once, Said
<1>2. Marked' /\ NoneForgotten'
  BY DEF VoiceInv, Marked, NoneForgotten, Said, gate
<1> QED BY <1>1, <1>2

LEMMA SynthesizedKeeps == ASSUME SpeechAssumption, VoiceInv, Synthesized PROVE VoiceInv'
<1>1. worker = "synth" /\ UNCHANGED <<queue, gate, soundsUntil, voiceClosed, now>>
  BY DEF Synthesized
<1>2. CASE Failed /\ UNCHANGED muteUntil
  BY <1>1, <1>2, FailedKeeps
<1>3. CASE Finish(rendering, "silent") /\ consecutive' = 0 /\ UNCHANGED <<latchedUntil, muteUntil>>
  <2>1. rendering # NoOne
    BY <1>1 DEF VoiceInv, Once
  <2>2. "silent" \in Fates \ {"queued"}
    BY DEF Fates
  <2>3. /\ Once' /\ Marked' /\ NoneForgotten' /\ fate' \in Seq(Fates) /\ worker' = "idle"
        /\ rendering' = NoOne /\ inflight' \in Int
    BY <1>1, <1>3, <2>1, <2>2, DoneKeeps
  <2>4. VoiceTyped' /\ Covered'
    BY <1>1, <1>3, <2>3 DEF VoiceInv, VoiceTyped, Covered, gate, NoOne
  <2> QED BY <2>3, <2>4 DEF VoiceInv
<1>4. CASE /\ muteUntil' = Later(muteUntil, now + Duration + Margin) /\ worker' = "play"
           /\ UNCHANGED <<rendering, inflight, fate, consecutive, latchedUntil>>
  <2>1. Once' /\ Marked' /\ NoneForgotten'
    BY <1>1, <1>4, StaysKeeps
  <2>2. muteUntil' \in Nat /\ muteUntil <= muteUntil'
    <3>1. muteUntil' = Later(muteUntil, now + Duration + Margin)
      BY <1>4
    <3> QED BY <3>1, VoiceTimes DEF Later
  <2>3. VoiceTyped'
    BY <1>1, <1>4, <2>2 DEF VoiceInv, VoiceTyped, gate
  <2>4. Covered'
    BY <1>1, <1>4, <2>2 DEF VoiceInv, VoiceTyped, Covered
  <2> QED BY <2>1, <2>3, <2>4 DEF VoiceInv
<1> QED BY <1>2, <1>3, <1>4 DEF Synthesized

LEMMA PlayedKeeps == ASSUME SpeechAssumption, VoiceInv, Played PROVE VoiceInv'
<1>1. worker = "play" /\ UNCHANGED <<queue, gate, voiceClosed, now>>
  BY DEF Played
<1>2. CASE Failed /\ UNCHANGED <<muteUntil, soundsUntil>>
  BY <1>1, <1>2, FailedKeeps
<1>3. CASE /\ worker' = "after" /\ soundsUntil' = Later(soundsUntil, now + Duration)
           /\ UNCHANGED <<rendering, inflight, fate, consecutive, latchedUntil, muteUntil>>
  <2>1. Once' /\ Marked' /\ NoneForgotten'
    BY <1>1, <1>3, StaysKeeps
  <2>2. soundsUntil' \in Nat /\ soundsUntil' <= Later(muteUntil, now + Duration)
    BY <1>1, <1>3 DEF VoiceInv, VoiceTyped, Covered, Later, SpeechAssumption
  <2>3. VoiceTyped'
    BY <1>1, <1>3, <2>2 DEF VoiceInv, VoiceTyped, gate
  <2>4. Covered'
    BY <1>1, <1>3, <2>2 DEF Covered, Later
  <2> QED BY <2>1, <2>3, <2>4 DEF VoiceInv
<1> QED BY <1>2, <1>3 DEF Played

\* Here the window reaches the end of what the player has taken.
LEMMA ReturnedKeeps == ASSUME SpeechAssumption, VoiceInv, Returned PROVE VoiceInv'
<1>1. /\ worker = "after" /\ muteUntil' = Later(muteUntil, now + Duration + Margin) /\ consecutive' = 0
      /\ Finish(rendering, "spoken") /\ UNCHANGED <<queue, gate, latchedUntil, soundsUntil, voiceClosed, now>>
  BY DEF Returned, Stamped
<1>2. rendering # NoOne
  BY <1>1 DEF VoiceInv, Once
<1>3. "spoken" \in Fates \ {"queued"}
  BY DEF Fates
<1>4. /\ Once' /\ Marked' /\ NoneForgotten' /\ fate' \in Seq(Fates) /\ worker' = "idle"
      /\ rendering' = NoOne /\ inflight' \in Int
  BY <1>1, <1>2, <1>3, DoneKeeps
<1>5. muteUntil' \in Nat /\ soundsUntil <= muteUntil'
  <2>1. soundsUntil <= Later(muteUntil, now + Duration)
    BY <1>1 DEF VoiceInv, Covered
  <2> QED BY <1>1, <2>1, VoiceTimes DEF Later
<1>6. VoiceTyped'
  BY <1>1, <1>4, <1>5 DEF VoiceInv, VoiceTyped, gate, NoOne
<1>7. Covered'
  BY <1>1, <1>4, <1>5 DEF Covered
<1> QED BY <1>4, <1>6, <1>7 DEF VoiceInv

\* While the voice sounds its window is open, every utterance has a fate or is awaited, and
\* unmute counts what the mute swallowed, whatever is said, muted, refused and closed
\* (speech_act.py).
THEOREM VoiceHolds == SpeechAssumption /\ VoiceSpec => []VoiceSound
<1> SUFFICES ASSUME SpeechAssumption PROVE VoiceSpec => []VoiceSound
  OBVIOUS
<1>1. VoiceInit => VoiceInv
  BY InitVoice
<1>2. VoiceInv /\ [VoiceNext]_voiceVars => VoiceInv'
  <2> SUFFICES ASSUME VoiceInv, [VoiceNext]_voiceVars PROVE VoiceInv'
    OBVIOUS
  <2>1. CASE UNCHANGED voiceVars
    <3>1. VoiceTyped' /\ Covered' /\ Once'
      BY <2>1 DEF voiceVars, gate, sink, VoiceInv, VoiceTyped, Covered, Once, Said
    <3>2. Marked' /\ NoneForgotten'
      BY <2>1 DEF voiceVars, gate, sink, VoiceInv, Marked, NoneForgotten, Said
    <3> QED BY <3>1, <3>2 DEF VoiceInv
  <2>2. CASE Mute \/ Unmute \/ Tick
    BY <2>2, MuteKeeps
  <2>3. CASE Say \/ CloseVoice
    BY <2>3, SayKeeps, CloseVoiceKeeps
  <2>4. CASE Renders
    BY <2>4, GetKeeps, SynthesizedKeeps, PlayedKeeps, ReturnedKeeps DEF Renders
  <2> QED BY <2>1, <2>2, <2>3, <2>4 DEF VoiceNext
<1>3. VoiceInv => VoiceSound
  BY VoiceInvSays
<1> QED BY <1>1, <1>2, <1>3, PTL DEF VoiceSpec
================================================================================
