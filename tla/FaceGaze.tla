------------------------------ MODULE FaceGaze ------------------------------
(* How a locked face is looked at (behavior/face_lock.py, FaceLockGaze): each  *)
(* detection is an error measured against the angle commanded when its frame   *)
(* was taken; the target moves by a share of it, once, and the command slews   *)
(* after the target.  One axis, yaw; angles are in steps, time in ticks of     *)
(* Tick units.  The face stands still for a run, or is a false one that stays  *)
(* in one place of the picture wherever the head turns.  A lock has a gaze of  *)
(* its own, whose clock never runs back, and every detection tells its age.    *)
EXTENDS Integers, Sequences

CONSTANTS StillAt,      \* the bearings a face may have
          FixedAt,      \* where in the picture a false one may be
          Starts,       \* where the head may be when the lock is taken
          Fov,          \* HFOV_DEG
          DampNum, DampDen,   \* DAMPING
          MaxYaw, Slew, \* MAX_YAW_DEG, SLEW_DEG_S per tick
          ConvergeEps,  \* CONVERGE_EPS, as an angle
          MaxAge,       \* MAX_FACE_AGE_S, in ticks
          RecoverAfter, RecoverRate,
          Latency       \* bound: how many ticks old a new detection may be

GazeAssumption ==
  /\ StillAt \union FixedAt \union Starts \subseteq Int
  /\ {Fov, DampNum, MaxYaw, Slew, ConvergeEps, MaxAge, RecoverAfter, RecoverRate, Latency} \subseteq Nat
  /\ DampDen \in Nat \ {0} /\ DampNum <= DampDen /\ Latency <= MaxAge

VARIABLES
  face,       \* the world: what there is to see
  hist,       \* where the head was commanded to be, newest first
  n,          \* how many of hist are samples of this gaze: its ring
  target,     \* _target_yaw
  reading,    \* the bbox the sense carries: its error and the age of its frame, or None
  lastCap,    \* how long ago _last_capture is, or Unset
  lastBox,    \* _last_bbox
  lastOffset, \* _last_offset, or Unset
  unseen,     \* calls since _last_seen_t, up to RecoverAfter + 1, or Unset
  used,       \* ghost: how often the detection in reading moved the target
  aim,        \* ghost: the last aim at a frame of this lock: where the head was, and the target
  reach       \* ghost: how far out the first aim since an absence went, or Unset

vars == <<face, hist, n, target, reading, lastCap, lastBox, lastOffset, unseen, used, aim, reach>>

None == [none |-> TRUE]
Unset == 1000
Tick == 6
NewEps == 2             \* _NEW_OBSERVATION_EPS_S
Jitter == {-1, 0, 1}    \* between the clock of the sense and the engine's
Memory == MaxAge + 2

Abs(x) == IF x < 0 THEN -x ELSE x
Sign(x) == IF x < 0 THEN -1 ELSE 1
Clamp(x) == IF Abs(x) > MaxYaw THEN Sign(x) * MaxYaw ELSE x
Approach(x, to, step) == IF Abs(to - x) <= step THEN to ELSE x + Sign(to - x) * step
Share(err) == Sign(err) * ((Abs(err) * DampNum) \div DampDen)
Yaw == IF n = 0 THEN 0 ELSE hist[1]

Init ==
  /\ face \in [kind : {"still"}, at : StillAt] \union [kind : {"fixed"}, at : FixedAt]
  /\ \E s \in Starts : hist = [i \in 1 .. Memory |-> s]
  /\ n = 0 /\ target = 0
  /\ reading = None /\ lastCap = Unset /\ lastBox = Unset /\ lastOffset = Unset /\ unseen = Unset
  /\ used = 0 /\ aim = None /\ reach = Unset

-----------------------------------------------------------------------------
(* The face sense *)
ErrorAt(head) == IF face.kind = "still" THEN face.at - head ELSE face.at
Visible(head) == 2 * Abs(ErrorAt(head)) <= Fov

(* A detection of a frame taken a whole number of ticks and a half ago; one    *)
(* that is held, a tick older; or nothing any more.                            *)
Detections ==
  {[err |-> ErrorAt(hist[a + 1]), age |-> a] :
     a \in {a \in 0 .. Latency : Visible(hist[a + 1]) /\ (reading # None => a <= reading.age)}}
Held == IF reading # None /\ reading.age <= MaxAge THEN {[reading EXCEPT !.age = @ + 1]} ELSE {}

-----------------------------------------------------------------------------
(* One call *)
Derived(r, j) == r.age * Tick + Tick \div 2 + j       \* face_age_s, as the gaze reads it
Fresh(r, j) == r # None /\ Derived(r, j) <= MaxAge * Tick

(* _is_new_observation: the capture time advanced, and not by mere jitter.     *)
IsNew(r, d) ==
  IF lastCap = Unset THEN TRUE
  ELSE LET advance == lastCap + Tick - d IN advance > 0 /\ (advance > NewEps \/ r.err # lastBox)

(* _base_at: the command in force when the frame was taken, or the oldest.     *)
BaseAt(d) ==
  LET old == {i \in 1 .. n : i * Tick >= d}
  IN IF n = 0 THEN Yaw
     ELSE IF old = {} THEN hist[n] ELSE hist[CHOOSE i \in old : \A k \in old : i <= k]

(* _admit_target: outward only while the offset shrinks; what counts as nearer *)
(* to neutral (_RECOVER_ANGLE_EPS) is less than a step.                        *)
Admits(new, err) ==
  \/ lastOffset = Unset \/ lastCap = Unset
  \/ Abs(new) < Abs(target)
  \/ Abs(err) < lastOffset - ConvergeEps

Aimed(r, d) == Clamp(BaseAt(d) + Share(r.err))

Recovering == unseen # Unset /\ unseen + 1 > RecoverAfter

Later(count, limit) == IF count = Unset \/ count = limit THEN count ELSE count + 1

(* What was taken before this gaze was asked says nothing of where it looked.  *)
Took(r, new) ==
  /\ aim' = IF r.age + 1 <= n THEN [from |-> hist[r.age + 1], to |-> new] ELSE None
  /\ reach' = IF reach = Unset THEN Abs(new) ELSE reach

Look(r, j) ==
  LET d == Derived(r, j) IN
  /\ Fresh(r, j)
  /\ unseen' = 0
  /\ IF IsNew(r, d)
     THEN /\ lastCap' = d /\ lastBox' = r.err /\ lastOffset' = Abs(r.err)
          /\ used' = IF r \in Held THEN used + 1 ELSE 1
          /\ IF Admits(Aimed(r, d), r.err)
             THEN target' = Aimed(r, d) /\ Took(r, Aimed(r, d))
             ELSE UNCHANGED <<target, aim, reach>>
     ELSE /\ lastCap' = IF lastCap = Unset THEN Unset ELSE lastCap + Tick
          /\ used' = IF r \in Held THEN used ELSE 0
          /\ UNCHANGED <<target, lastBox, lastOffset, aim, reach>>

(* No fresh face: what is aimed at is held, and let go of after a while.       *)
Miss(r, j) ==
  /\ ~Fresh(r, j)
  /\ target' = IF Recovering THEN Approach(target, 0, IF n = 0 THEN 0 ELSE RecoverRate) ELSE target
  /\ lastOffset' = Unset /\ reach' = Unset /\ aim' = None
  /\ unseen' = Later(unseen, RecoverAfter + 1)
  /\ lastCap' = IF lastCap = Unset \/ lastCap >= Memory * Tick THEN lastCap ELSE lastCap + Tick
  /\ used' = IF r # None /\ r \in Held THEN used ELSE 0
  /\ UNCHANGED lastBox

(* __call__, once a tick *)
Call ==
  /\ \E r \in {None} \union Detections \union Held, j \in Jitter :
       reading' = r /\ (Look(r, j) \/ Miss(r, j))
  /\ hist' = <<Approach(Yaw, target', IF n = 0 THEN 0 ELSE Slew)>> \o SubSeq(hist, 1, Memory - 1)
  /\ n' = IF n < Memory THEN n + 1 ELSE n
  /\ UNCHANGED face

Next == Call
Spec == Init /\ [][Next]_vars
FairSpec == Spec /\ WF_vars(Call)

-----------------------------------------------------------------------------
TypeOK ==
  /\ hist \in [1 .. Memory -> -100 .. 100] /\ n \in 0 .. Memory
  /\ Abs(Yaw) <= MaxYaw /\ Abs(target) <= MaxYaw
  /\ used \in Nat

(* A detection is published again at every tick until the next one; it moves   *)
(* the target at most once.                                                    *)
OncePerDetection == used <= 1

(* The gaze never aims past a still face: from where the head was when the     *)
(* picture was taken, the target lies on the way to the face.                  *)
NeverPast ==
  face.kind = "still" /\ aim # None =>
    \/ aim.from <= aim.to /\ aim.to <= face.at
    \/ face.at <= aim.to /\ aim.to <= aim.from

(* A face that stays in one place of the picture does not march the head to    *)
(* its limit: until it is lost, the gaze goes no further than its first aim.   *)
NoMarch == face.kind = "fixed" /\ reach # Unset => Abs(target) <= reach

(* A lock that lost its face for good does not stare at a wall.                *)
Relaxes == <>[](reading = None) => <>[](Yaw = 0)

(* A still face that keeps being detected is looked at (CONVERGE_EPS: "a       *)
(* working lock's offset shrinks", "Convergence itself is unaffected").        *)
Arrives ==
  face.kind = "still" /\ Abs(face.at) <= MaxYaw =>
    (([]<>(reading # None /\ reading.age = 0) /\ <>[](reading # None /\ reading.age < MaxAge))
       => <>(Abs(face.at - Yaw) <= 2 * ConvergeEps))
=============================================================================
