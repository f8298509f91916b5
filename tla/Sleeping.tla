------------------------------ MODULE Sleeping ------------------------------
(* `sleep run`: the loop that drifts off when nothing disturbs it            *)
(* (sleep/state.py, cli/_commands/sleep.py run_sleep_arc), the producer that *)
(* turns its state into poses (motion/sleep.py), the coalescing queue they   *)
(* go through (motion/queue.py), the executor thread that hands them to the  *)
(* robot (motion/server.py, _MotionExecutor) and the flag file `sleep        *)
(* status` reads (motion/sleep_signal.py).  The loop and the executor run    *)
(* freely against each other; a signal ends the run in order, a kill does    *)
(* not.                                                                      *)
EXTENDS Naturals, Sequences, FiniteSets, SequencesExt

CONSTANTS
  PatOnly,      \* --no-audio-wake: only a touch wakes, read off the head pose
  DrowsyAfter,  \* idle ticks before DROWSY (idle_timeout / 2)
  AsleepAfter,  \* idle ticks before ASLEEP (idle_timeout)
  PoseEvery,    \* ticks between two poses of the producer
  MoveTime,     \* ticks one move keeps the executor busy (duration + settle)
  PatWindow,    \* ticks two presses may lie apart to make a pat
  MaxStimuli,   \* bound: sounds or presses of a hand
  MaxFailures,  \* bound: moves the transport refuses
  MaxRuns       \* bound: starts of the process

SleepingAssumption ==
  /\ PatOnly \in BOOLEAN
  /\ {DrowsyAfter, AsleepAfter, PoseEvery, MoveTime, PatWindow} \subseteq Nat \ {0}
  /\ DrowsyAfter < AsleepAfter
  /\ {MaxStimuli, MaxFailures, MaxRuns} \subseteq Nat

VARIABLES
  up,       \* the process: "down", "tick" or "look" (its loop), "leaving", "draining"
  machine,  \* SleepStateMachine and the producer's pacing
  queue,    \* MotionQueue._pending
  sending,  \* what the executor peeked and is sending, {} or a singleton
  busy,     \* ticks until the executor's busy_until
  head,     \* where the head is, where it was sent, what the loop believes it was told
  pats,     \* PatDetector: in a press; the ages of the presses it counts
  flag,     \* sleep_active.flag
  flagUp,   \* the loop's own flag_up
  wakes,    \* wake gestures: submitted and handed to the robot, this run
  env,      \* what the environment has used up, and what has gone wrong
  woke      \* what last disturbed the robot: "none", "sound", "hand" or "itself"

vars == <<up, machine, queue, sending, busy, head, pats, flag, flagUp, wakes, env, woke>>

NoPress == [pressed |-> FALSE, ages |-> <<>>]
Rested  == [state |-> "ALERT", idle |-> 0, since |-> PoseEvery, asleep |-> 0]
Level   == [actual |-> "level", target |-> "level", believed |-> "level"]

Init ==
  /\ up = "down" /\ machine = Rested /\ queue = <<>> /\ sending = {} /\ busy = 0
  /\ head = Level /\ pats = NoPress /\ flag = FALSE /\ flagUp = FALSE
  /\ wakes = [submitted |-> 0, sent |-> 0]
  /\ env = [stimuli |-> 0, failures |-> 0, runs |-> 0,
            overrun |-> FALSE, cut |-> FALSE, inherited |-> FALSE]
  /\ woke = "none"

-----------------------------------------------------------------------------
(* MotionQueue: a keyed action evicts the pending ones of its key; only the  *)
(* very action that was sent is removed.  Ids stand for object identity.     *)
Submitted(q, a) ==
  Append(IF a.key = "none" THEN q ELSE SelectSeq(q, LAMBDA b : b.key # a.key), a)

(* Defect for a mutant: a bare pop.                                         *)
FaultyPopIf(q, a) == IF q = <<>> THEN q ELSE Tail(q)
PopIf(q, a) == IF q # <<>> /\ Head(q) = a THEN Tail(q) ELSE q

FreshId(q) ==
  LET used == {b.id : b \in ToSet(q) \cup sending}
  IN  CHOOSE n \in 0..Cardinality(used) : n \notin used

(* SleepStateMachine.update: monotone in the idle time, ALERT on a reset.    *)
StateAt(idle) ==
  IF idle >= AsleepAfter THEN "ASLEEP" ELSE IF idle >= DrowsyAfter THEN "DROWSY" ELSE "ALERT"

(* Defect for a mutant: drowsiness measured from its own start.              *)
Idled == IF machine.idle < AsleepAfter THEN machine.idle + 1 ELSE AsleepAfter

(* SleepProducer: the gesture of a wake, and the pose of each state; asleep, *)
(* the head droops once the ramp is under way.                               *)
WakeGesture(q) == [id |-> FreshId(q), key |-> "none", head |-> "level"]
Pose(q, state, asleep) ==
  [id   |-> FreshId(q),
   key  |-> IF state = "ALERT" THEN "idle" ELSE "sleep_idle",
   head |-> IF state = "ASLEEP" /\ asleep > 0 THEN "nodding" ELSE "level"]

(* PatWakeSource.poll over PatDetector: a press is an edge of "lower than    *)
(* the pose believed commanded"; two presses within the window are a pat     *)
(* (the two seconds of cooldown after a pat are left out).                   *)
Low(touched) == touched \/ (head.actual = "nodding" /\ head.believed = "level")
Aged == SelectSeq([i \in DOMAIN pats.ages |-> pats.ages[i] + 1], LAMBDA n : n < PatWindow)
Presses(touched) == IF Low(touched) /\ ~pats.pressed THEN Append(Aged, 0) ELSE Aged
Pat(touched) == Len(Presses(touched)) >= 2
Polled(touched) ==
  [pressed |-> Low(touched), ages |-> IF Pat(touched) THEN <<>> ELSE Presses(touched)]

(* _process_tick up to the producer: is_stimulus, then _advance.  A stimulus *)
(* resets the machine and submits the wake gesture; a pose follows when one  *)
(* is due.                                                                   *)
Stimulated(noise) == IF PatOnly THEN Pat(noise) ELSE noise

Tick(noise) ==
  LET stim  == Stimulated(noise)
      idle  == IF stim THEN 0 ELSE Idled
      state == StateAt(idle)
      q     == IF stim THEN Submitted(queue, WakeGesture(queue)) ELSE queue
      due   == stim \/ machine.since + 1 >= PoseEvery
      again == IF stim \/ state # "ASLEEP" THEN 0 ELSE machine.asleep
  IN /\ up = "tick"
     /\ noise => env.stimuli < MaxStimuli
     /\ up' = "look"
     /\ queue' = IF due THEN Submitted(q, Pose(q, state, again)) ELSE q
     /\ machine' = [state |-> state, idle |-> idle,
                    since |-> IF due THEN 0 ELSE machine.since + 1,
                    asleep |-> IF due /\ state = "ASLEEP" THEN 1 ELSE again]
     /\ pats' = IF PatOnly THEN Polled(noise) ELSE pats
     /\ busy' = IF busy > 0 THEN busy - 1 ELSE 0
     /\ head' = [head EXCEPT !.actual = IF busy <= 1 THEN head.target ELSE @]
     /\ wakes' = IF stim THEN [wakes EXCEPT !.submitted = @ + 1] ELSE wakes
     /\ env' = IF noise THEN [env EXCEPT !.stimuli = @ + 1] ELSE env
     /\ woke' = IF ~stim THEN woke
                ELSE IF ~PatOnly THEN "sound"
                ELSE IF env'.stimuli > 0 THEN "hand" ELSE "itself"
     /\ UNCHANGED <<sending, flag, flagUp>>

(* The rest of the tick: _commanded_head_pose takes the newest pending head  *)
(* for what the robot was told, neutral when none is pending; then           *)
(* _sync_sleep_flag.                                                         *)
Commanded(q) == IF q = <<>> THEN "level" ELSE Last(q).head

Look ==
  /\ up = "look" /\ up' = "tick"
  /\ head' = [head EXCEPT !.believed = Commanded(queue)]
  /\ LET asleep == machine.state = "ASLEEP"
     IN /\ flag' = IF asleep /\ ~flagUp THEN TRUE ELSE IF flagUp /\ ~asleep THEN FALSE ELSE flag
        /\ flagUp' = asleep
  /\ UNCHANGED <<machine, queue, sending, busy, pats, wakes, env, woke>>

-----------------------------------------------------------------------------
(* The executor thread (_service_queue): peek, send, remove if still there.  *)
Peek ==
  /\ up \in {"tick", "look", "leaving"} /\ sending = {} /\ busy = 0 /\ queue # <<>>
  /\ sending' = {Head(queue)}
  /\ UNCHANGED <<up, machine, queue, busy, head, pats, flag, flagUp, wakes, env, woke>>

Told(a) == /\ head' = [head EXCEPT !.target = a.head]
           /\ wakes' = IF a.key = "none" THEN [wakes EXCEPT !.sent = @ + 1] ELSE wakes

Send ==
  \E a \in sending :
    /\ Told(a) /\ busy' = MoveTime /\ sending' = {} /\ queue' = PopIf(queue, a)
    /\ UNCHANGED <<up, machine, pats, flag, flagUp, env, woke>>

Refused ==
  /\ sending # {} /\ env.failures < MaxFailures
  /\ sending' = {} /\ env' = [env EXCEPT !.failures = @ + 1]
  /\ UNCHANGED <<up, machine, queue, busy, head, pats, flag, flagUp, wakes, woke>>

-----------------------------------------------------------------------------
(* Start, the signal, the kill.  run_sleep_arc clears any flag on its way    *)
(* out, its own or not; _MotionExecutor.stop waits five seconds for the      *)
(* thread and then sends what is left itself.                                *)
Start ==
  /\ up = "down" /\ sending = {} /\ env.runs < MaxRuns /\ up' = "tick"
  /\ machine' = Rested /\ queue' = <<>> /\ busy' = 0 /\ pats' = NoPress
  /\ head' = [head EXCEPT !.believed = "level"]
  /\ flagUp' = FALSE /\ wakes' = [submitted |-> 0, sent |-> 0]
  /\ env' = [env EXCEPT !.runs = @ + 1, !.overrun = FALSE, !.cut = FALSE, !.inherited = flag]
  /\ UNCHANGED <<sending, flag, woke>>

(* Defect for a mutant: only the run's own flag is cleared.                  *)
ClearedFlag == FALSE

Leave ==
  /\ up \in {"tick", "look"} /\ up' = "leaving"
  /\ flag' = ClearedFlag
  /\ UNCHANGED <<machine, queue, sending, busy, head, pats, flagUp, wakes, env, woke>>

Join ==
  /\ up = "leaving" /\ up' = "draining"
  /\ env' = [env EXCEPT !.overrun = sending # {}]
  /\ UNCHANGED <<machine, queue, sending, busy, head, pats, flag, flagUp, wakes, woke>>

Drain ==
  /\ up = "draining"
  /\ \/ queue = <<>> /\ up' = "down" /\ UNCHANGED <<queue, head, wakes, env>>
     \/ queue # <<>> /\ Told(Head(queue)) /\ queue' = Tail(queue) /\ UNCHANGED <<up, env>>
     \/ /\ queue # <<>> /\ env.failures < MaxFailures /\ up' = "down" /\ queue' = <<>>
        /\ env' = [env EXCEPT !.failures = @ + 1, !.cut = TRUE] /\ UNCHANGED <<head, wakes>>
  /\ UNCHANGED <<machine, sending, busy, pats, flag, flagUp, woke>>

Kill ==
  /\ up # "down" /\ up' = "down" /\ sending' = {} /\ queue' = <<>>
  /\ env' = [env EXCEPT !.cut = TRUE]
  /\ UNCHANGED <<machine, busy, head, pats, flag, flagUp, wakes, woke>>

Next ==
  \/ Start \/ Leave \/ Join \/ Drain \/ Kill \/ Look \/ Peek \/ Send \/ Refused
  \/ \E noise \in BOOLEAN : Tick(noise)

Spec == Init /\ [][Next]_vars

(* The loop runs every 50 ms and the transport answers: both threads go on.  *)
FairSpec == Spec /\ WF_vars(Look) /\ WF_vars(Tick(FALSE)) /\ WF_vars(Peek) /\ WF_vars(Send)
            /\ WF_vars(Drain) /\ WF_vars(Join)

-----------------------------------------------------------------------------
(* Every wake gesture is still queued or has reached the robot exactly once, *)
(* at every moment of a run and after an orderly end: a pose that coalesces  *)
(* away while it is being sent never costs the gesture behind it, a refused  *)
(* move is kept and retried.  (Not claimed after a kill, a drain that fails  *)
(* or an executor that outlives its five seconds.)                           *)
Waiting == Len(SelectSeq(queue, LAMBDA a : a.key = "none"))
WakeKept ==
  ~env.cut /\ ~env.overrun => wakes.submitted = wakes.sent + Waiting

(* Between two ticks a robot that is asleep is shown as asleep, one that is  *)
(* awake is not unless the flag was left by a run that was killed, and an    *)
(* orderly end takes any flag down, an inherited one included.               *)
FlagHonest ==
  /\ up = "tick" /\ machine.state = "ASLEEP" => flag
  /\ up = "tick" /\ machine.state # "ASLEEP" /\ flag => env.inherited
  /\ up \in {"leaving", "draining"} => ~flag

(* A robot nobody disturbs any more falls asleep and stays asleep.           *)
FallsAsleep == <>[](up \in {"tick", "look"} => machine.state = "ASLEEP")

(* _build_pat_wake: "so the robot's own sleep-breathe motion is not read as  *)
(* a press".                                                                 *)
OwnMotionIsNoTouch == woke # "itself"
=============================================================================
