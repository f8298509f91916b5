-------------------------------- MODULE GotoLane --------------------------------
(***************************************************************************)
(* The goto lane (reachy/behavior/goto_lane.py) riding the behavior        *)
(* engine's tick: producers submit gotos from any thread, operators and    *)
(* other riders admit and remove rival behaviors around it.                *)
(*                                                                         *)
(* The engine's clock and the lane's are the same reading of one tick, so  *)
(* both a behavior's remaining lifetime and the lane's own end_time are    *)
(* kept as the time left.                                                  *)
(***************************************************************************)
EXTENDS EngineOps, Sequences

CONSTANTS Specs,       \* what may be submitted: [ch, dur] records (GotoSpec)
          Rivals,      \* [name, cls, ch] of the other behaviors
          RivalTimes,  \* their lifetimes
          MaxGotos,    \* bound: gotos submitted
          MaxRivals,   \* bound: rivals admitted
          MaxLaneStep      \* bound: clock units between two ticks

GotoName == "goto"

\* What the goto intent's handler (goto_intent.py) lets through: the whole payload is checked
\* before anything is submitted, and names at least one channel and a duration above zero.
Validated == [ch : (SUBSET Channels) \ {{}}, dur : Nat \ {0}]

LaneAssumption ==
  /\ Specs \subseteq Validated
  /\ Rivals \subseteq [name : Names \ {GotoName, BaseName}, cls : StopClasses, ch : SUBSET Channels]
  /\ RivalTimes \subseteq Nat \cup {Forever}
  /\ GotoName \in Names /\ GotoName # BaseName
  /\ MaxGotos \in Nat /\ MaxRivals \in Nat /\ MaxLaneStep \in Nat \ {0}

VARIABLES laneEng,         \* the Engine
          lanePhase,       \* "drain", "seam" (before the lane's turn), "late" (after it)
          queue,       \* _queue: pending gotos, oldest first
          inflight,    \* _inflight, or NoGoto
          fate,        \* ghost: what the emitted events say of each goto
          drove        \* ghost: whether each admitted goto owned all it claims at
                       \* every compose since

laneVars == <<laneEng, lanePhase, queue, inflight, fate, drove>>

Gotos == 1 .. MaxGotos
NoGoto == [gid |-> 0, ord |-> NoOwner, ch |-> {}, left |-> 0]
Contract == INSTANCE GotoContract WITH fate <- fate

LaneTypeOK ==
  /\ laneEng \in Engines
  /\ lanePhase \in {"drain", "seam", "late"}
  /\ queue \in Seq([gid : Gotos, ch : SUBSET Channels, dur : Nat])
  /\ inflight \in [gid : Gotos \cup {0}, ord : Nat, ch : SUBSET Channels, left : Nat]
  /\ fate \in [Gotos -> Contract!Fates]
  /\ drove \in [Gotos -> BOOLEAN]

LaneInit ==
  /\ laneEng = SeedBase(NewEngine)
  /\ lanePhase = "drain"
  /\ queue = <<>>
  /\ inflight = NoGoto
  /\ fate = [g \in Gotos |-> "unsubmitted"]
  /\ drove = [g \in Gotos |-> TRUE]

Submitted == {g \in Gotos : fate[g] # "unsubmitted"}

--------------------------------------------------------------------------------
\* submit: any thread, at any point of the tick (the queue is lock-guarded).
Submit(s) ==
  LET g == Cardinality(Submitted) + 1 IN
  /\ g \in Gotos
  /\ queue' = Append(queue, [gid |-> g, ch |-> s.ch, dur |-> s.dur])
  /\ fate' = [fate EXCEPT ![g] = "queued"]
  /\ UNCHANGED <<laneEng, lanePhase, inflight, drove>>

\* Every id but the base layer's went to a goto that started or to a rival.
RivalsAdmitted == laneEng.seq - 1 - Cardinality({g \in Submitted : fate[g] # "queued"})

\* Operators (drain) and the riders before and after the lane in the seam.
Rival(k, d) ==
  /\ RivalsAdmitted < MaxRivals
  /\ laneEng' = EngineAdd(laneEng, k.name, k.cls, k.ch, d)
  /\ UNCHANGED <<lanePhase, queue, inflight, fate, drove>>

StopGoto ==
  /\ lanePhase = "drain"
  /\ laneEng' \in {StopAll(laneEng), StopNamed(laneEng, GotoName)}
  /\ UNCHANGED <<lanePhase, queue, inflight, fate, drove>>

StopRival(k) ==
  /\ laneEng' = Evict(laneEng, k.name)
  /\ UNCHANGED <<lanePhase, queue, inflight, fate, drove>>

\* compose_tick: a goto contributes to all it claims; a rival may abstain.
Compose2(quiet) ==
  LET speaks == UNION {{b.ord} \X b.ch : b \in {x \in Live(laneEng) : x.name \notin quiet}} IN
  /\ lanePhase = "drain"
  /\ laneEng' = Compose(laneEng, {}, speaks)
  /\ lanePhase' = "seam"
  /\ drove' = [g \in Gotos |->
       IF g = inflight.gid /\ inflight.left > 0
       THEN drove[g] /\ \A c \in inflight.ch : laneEng'.own[c] = inflight.ord
       ELSE drove[g]]
  /\ UNCHANGED <<queue, inflight, fate>>

\* Faulty: a goto counts as preempted only once it has left the active set.
LostByRemovalOnly == {c \in inflight.ch : ById(laneEng, inflight.ord) = {}}

\* The claimed channels another behavior, or nobody, owns in this tick.
Lost == {c \in inflight.ch : laneEng.own[c] # inflight.ord}

\* _evaluate_inflight: natural completion is looked at first.
Verdict ==
  IF inflight = NoGoto THEN "idle"
  ELSE IF inflight.left = 0 THEN "done"
  ELSE IF Lost # {} THEN "cancelled"
  ELSE "running"

\* A cancelled goto is evicted, so that it can never resume half-way.
AfterVerdict == IF Verdict = "cancelled" THEN EvictId(laneEng, inflight.ord) ELSE laneEng

\* Faulty: only a cancellation is announced.
ClosedWhenCancelled(f) == IF Verdict = "cancelled" THEN [f EXCEPT ![inflight.gid] = Verdict] ELSE f

Closed(f) == IF Verdict \in {"done", "cancelled"} THEN [f EXCEPT ![inflight.gid] = Verdict] ELSE f

\* Faulty: the newest goto is taken first.
NextUpNewest == queue[Len(queue)]

NextUp == Head(queue)

\* on_tick with the lane free and a goto pending: it is admitted.
LaneAdmits ==
  LET p == NextUp
      b == Build(AfterVerdict, GotoName, "stoppable", p.ch, p.dur)
  IN /\ lanePhase = "seam"
     /\ Verdict # "running"
     /\ queue # <<>>
     /\ lanePhase' = "late"
     /\ laneEng' = AdmitBehavior(AfterVerdict, b)
     /\ queue' = Tail(queue)
     /\ inflight' = [gid |-> p.gid, ord |-> b.ord, ch |-> p.ch, left |-> p.dur]
     /\ fate' = [Closed(fate) EXCEPT ![p.gid] = "running"]
     /\ UNCHANGED drove

\* on_tick otherwise: the goto in flight goes on, or ends with nothing behind it.
LaneRests ==
  /\ lanePhase = "seam"
  /\ Verdict = "running" \/ queue = <<>>
  /\ lanePhase' = "late"
  /\ laneEng' = AfterVerdict
  /\ inflight' = IF Verdict \in {"done", "cancelled"} THEN NoGoto ELSE inflight
  /\ fate' = Closed(fate)
  /\ UNCHANGED <<queue, drove>>

Elapse(t, d) == IF t > d THEN t - d ELSE 0

LaneClock(d) == [inflight EXCEPT !.left = Elapse(@, d)]

LaneEndTick(d) ==
  /\ lanePhase = "late"
  /\ lanePhase' = "drain"
  /\ laneEng' = Age(laneEng, d)
  /\ inflight' = LaneClock(d)
  /\ UNCHANGED <<queue, fate, drove>>

Loop == \/ \E quiet \in SUBSET {k.name : k \in Rivals} : Compose2(quiet)
        \/ LaneAdmits
        \/ LaneRests
        \/ \E d \in 1 .. MaxLaneStep : LaneEndTick(d)

Others == \/ \E s \in Specs : Submit(s)
          \/ \E k \in Rivals, d \in RivalTimes : Rival(k, d)
          \/ \E k \in Rivals : StopRival(k)
          \/ StopGoto

LaneNext == Loop \/ Others

LaneSpec == LaneInit /\ [][LaneNext]_laneVars

\* One thread runs the loop, and no step of it waits for anybody.
LaneFairSpec == LaneSpec /\ WF_laneVars(Loop)

--------------------------------------------------------------------------------
(* Properties *)

\* One move at a time, and no resume: a goto on the active set is the one in
\* flight, so a goto the lane has reported as ended can never drive the robot
\* again, even when its blocker is gone before its duration is up.
OnlyInflightIsLive ==
  \A b \in laneEng.active : b.name = GotoName => inflight.ord = b.ord

\* "goto.done" is only said of a goto that drove every channel it claims at every
\* tick from its admission to its end: losing one of them even for one tick, to a
\* removal or to a rival, is a cancellation.
DoneMeansDrove == \A g \in Gotos : fate[g] = "done" => drove[g]

\* The lane's FIFO and events are an implementation of the contract.
ContractHeld == Contract!Spec

\* Every goto submitted ends, even behind a behavior that blocks it for good: none
\* is pending for ever (a fate, once an end, stays: ContractHeld).
EveryGotoEnds == \A g \in Gotos : []<>(fate[g] \notin {"queued", "running"})

\* One move at a time, and "done" only of a move that was made (goto_lane.py).
LaneSound == OnlyInflightIsLive /\ DoneMeansDrove
================================================================================
