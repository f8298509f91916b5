----------------------------- MODULE GotoLaneProofs -----------------------------
(* Proofs about GotoLane, for every set of channels, gotos, rivals, lifetimes   *)
(* and bounds: the lane's own safety, and that it implements GotoContract; and, *)
(* at the end, about the spool that commands come by, for any number of clients *)
(* and of engines that die.                                                     *)
EXTENDS GotoLane, CommandSpool, EngineOpsProofs, FiniteSetTheorems, SequenceTheorems

\* What may stand in the queue.
Pendings == [gid : Gotos, ch : SUBSET Channels, dur : Nat]

\* The move in flight is what the active set and the clock know of it: every goto
\* there is this one, with the same time left, and past a compose it has some left.
Flight ==
  /\ inflight # NoGoto => inflight.gid \in Gotos /\ inflight.ord \in 1 .. laneEng.seq
  /\ \A b \in laneEng.active : b.name = GotoName => b.ord = inflight.ord /\ b.left = inflight.left
  /\ lanePhase = "seam" => \A b \in laneEng.active : b.name = GotoName => b.left # 0

\* The queue holds the queued gotos, each once, in the order of submission; gotos
\* are numbered in that order; and the one running is the one in flight.
Fifo ==
  /\ \A i \in 1 .. Len(queue) : fate[queue[i].gid] = "queued"
  /\ \A i, j \in 1 .. Len(queue) : i < j => queue[i].gid < queue[j].gid
  /\ \A g \in Gotos : fate[g] = "queued" => \E i \in 1 .. Len(queue) : queue[i].gid = g
  /\ \A g \in Gotos : fate[g] = "running" <=> inflight.gid = g
  /\ \E n \in 0 .. MaxGotos : Submitted = 1 .. n

\* A goto that has lost a channel is one the lane is about to cancel, or has.
Driving ==
  /\ \A g \in Gotos : fate[g] \in {"unsubmitted", "queued", "done"} => drove[g]
  /\ \A g \in Gotos : fate[g] = "running" =>
       drove[g] \/ (lanePhase = "seam" /\ inflight.left > 0 /\ Lost # {})

LaneInv == LaneTypeOK /\ EngInv(laneEng) /\ Flight /\ Fifo /\ Driving

--------------------------------------------------------------------------------
\* Initially nothing was submitted and the base layer is alone.
LEMMA InitLane ==
  ASSUME LaneAssumption, LaneInit
  PROVE  LaneInv
<1>1. EngInv(laneEng)
  <2>1. EngInv(NewEngine) /\ ~BaseActive(NewEngine)
    BY NewEngineInv DEF NewEngine, BaseActive
  <2> QED BY <2>1, SeedBaseInv DEF LaneInit
<1>2. laneEng.active = {BaseBehavior(1)}
  BY DEF LaneInit, SeedBase, NewEngine
<1>3. \A b \in laneEng.active : b.name # GotoName
  BY <1>2 DEF BaseBehavior, LaneAssumption
<1>4. LaneTypeOK
  BY <1>1 DEF LaneInit, LaneTypeOK, EngInv, NoGoto, NoOwner, Contract!Fates
<1>5. Flight
  BY <1>3 DEF LaneInit, Flight
<1>6. Submitted = 1 .. 0 /\ 0 \in 0 .. MaxGotos
  BY DEF LaneInit, Submitted, Gotos, LaneAssumption
<1>7. Fifo
  BY <1>6 DEF LaneInit, Fifo, NoGoto, Gotos
<1>8. Driving
  BY DEF LaneInit, Driving
<1> QED BY <1>1, <1>4, <1>5, <1>7, <1>8 DEF LaneInv

--------------------------------------------------------------------------------
(* Each action *)

\* The queue's elements are pending gotos, and its indices are numbers.
LEMMA QueueElements ==
  ASSUME LaneInv
  PROVE  /\ queue \in Seq(Pendings) /\ Len(queue) \in Nat
         /\ \A i \in 1 .. Len(queue) : queue[i] \in Pendings /\ queue[i].gid \in Gotos
<1>1. queue \in Seq(Pendings)
  BY DEF LaneInv, LaneTypeOK, Pendings
<1>2. \A i \in 1 .. Len(queue) : queue[i] \in Pendings
  BY <1>1, ElementOfSeq
<1> QED BY <1>1, <1>2, LenProperties DEF Pendings

\* The next goto's number is the first one free.
LEMMA NextNumber ==
  ASSUME LaneAssumption, NEW n \in 0 .. MaxGotos, Submitted = 1 .. n
  PROVE  Cardinality(Submitted) + 1 = n + 1
<1>1. n \in Int /\ Cardinality(1 .. n) = n
  BY FS_Interval DEF LaneAssumption
<1> QED BY <1>1

\* submit: the newcomer goes behind all others, and is not in flight.
LEMMA SubmitLane ==
  ASSUME LaneAssumption, LaneInv, NEW s \in Specs, Submit(s)
  PROVE  LaneInv'
<1> USE DEF LaneInv
<1>1. PICK n \in 0 .. MaxGotos : Submitted = 1 .. n
  BY DEF Fifo
<1> DEFINE g == n + 1
           p == [gid |-> g, ch |-> s.ch, dur |-> s.dur]
<1>2. /\ g \in Gotos /\ queue' = Append(queue, p) /\ fate' = [fate EXCEPT ![g] = "queued"]
      /\ UNCHANGED <<laneEng, lanePhase, inflight, drove>>
  BY <1>1, NextNumber DEF Submit
<1>3. fate[g] = "unsubmitted" /\ \A h \in Gotos : fate[h] # "unsubmitted" <=> h < g
  BY <1>1, <1>2 DEF Submitted, Gotos, LaneAssumption
<1>4. p \in Pendings /\ p.gid = g /\ queue \in Seq(Pendings)
  BY <1>2 DEF LaneAssumption, Validated, Pendings, LaneTypeOK
<1> HIDE DEF p
<1>7. /\ Len(queue') = Len(queue) + 1 /\ queue'[Len(queue) + 1] = p /\ Len(queue) \in Nat
      /\ queue' \in Seq(Pendings)
      /\ \A i \in 1 .. Len(queue) : queue'[i] = queue[i] /\ queue[i].gid \in Gotos
  <2>1. \A i \in 1 .. Len(queue) : queue[i] \in Pendings
    BY <1>4, ElementOfSeq
  <2> QED BY <1>2, <1>4, <2>1, AppendProperties, LenProperties DEF Pendings
<1>5. LaneTypeOK'
  BY <1>2, <1>7 DEF LaneTypeOK, Contract!Fates, Pendings
<1>6. Flight' /\ EngInv(laneEng)'
  BY <1>2 DEF Flight
<1>8. Fifo'
  <2>1. \A i \in 1 .. Len(queue') : fate'[queue'[i].gid] = "queued"
    <3> SUFFICES ASSUME NEW i \in 1 .. Len(queue) + 1 PROVE fate'[queue'[i].gid] = "queued"
      BY <1>7
    <3>1. fate'[g] = "queued" /\ \A h \in Gotos : fate[h] = "queued" => fate'[h] = "queued"
      BY <1>2 DEF LaneTypeOK
    <3>2. CASE i = Len(queue) + 1
      BY <1>4, <1>7, <3>1, <3>2
    <3>3. CASE i \in 1 .. Len(queue)
      BY <1>7, <3>1, <3>3 DEF Fifo
    <3> QED BY <1>7, <3>2, <3>3
  <2>2. \A i \in 1 .. Len(queue) : queue[i].gid < g
    BY <1>3, <1>7 DEF Fifo
  <2>3. \A i, j \in 1 .. Len(queue') : i < j => queue'[i].gid < queue'[j].gid
    <3> SUFFICES ASSUME NEW i \in 1 .. Len(queue) + 1, NEW j \in 1 .. Len(queue) + 1, i < j
                 PROVE  queue'[i].gid < queue'[j].gid
      BY <1>7
    <3>1. i \in 1 .. Len(queue) /\ queue'[i] = queue[i]
      BY <1>7
    <3>2. CASE j = Len(queue) + 1
      BY <1>4, <1>7, <2>2, <3>1, <3>2
    <3>3. CASE j \in 1 .. Len(queue)
      BY <1>7, <3>1, <3>3 DEF Fifo
    <3> QED BY <1>7, <3>2, <3>3
  <2>4. \A h \in Gotos : fate'[h] = "queued" => \E i \in 1 .. Len(queue') : queue'[i].gid = h
    <3> SUFFICES ASSUME NEW h \in Gotos, fate'[h] = "queued"
                 PROVE  \E i \in 1 .. Len(queue') : queue'[i].gid = h
      OBVIOUS
    <3>1. CASE h = g
      BY <1>4, <1>7, <3>1
    <3>2. CASE h # g
      <4>1. PICK i \in 1 .. Len(queue) : queue[i].gid = h
        BY <1>2, <3>2 DEF Fifo, LaneTypeOK
      <4> QED BY <1>7, <4>1
    <3> QED BY <3>1, <3>2
  <2>5. \A h \in Gotos : fate'[h] = "running" <=> inflight'.gid = h
    BY <1>2, <1>3 DEF Fifo, LaneTypeOK
  <2>6. Submitted' = 1 .. g /\ g \in 0 .. MaxGotos
    BY <1>1, <1>2, <1>3 DEF Submitted, Gotos, LaneTypeOK, LaneAssumption
  <2> QED BY <2>1, <2>3, <2>4, <2>5, <2>6 DEF Fifo
<1>9. Driving'
  BY <1>2, <1>3 DEF Driving, LaneTypeOK, Lost
<1> QED BY <1>5, <1>6, <1>8, <1>9

\* What the lane asks of whoever else touches the active set: nobody makes a goto,
\* the ids go up, and only a compose resolves channels.
LEMMA OthersLane ==
  ASSUME LaneInv, EngInv(laneEng'), laneEng'.seq >= laneEng.seq, laneEng'.own = laneEng.own,
         \A b \in laneEng'.active : b.name = GotoName => b \in laneEng.active,
         UNCHANGED <<lanePhase, queue, inflight, fate, drove>>
  PROVE  LaneInv'
<1>1. laneEng.seq \in Nat /\ laneEng'.seq \in Nat
  BY DEF LaneInv, EngInv, Engines
<1>2. LaneTypeOK'
  BY DEF LaneTypeOK, EngInv, LaneInv
<1>3. Flight'
  BY <1>1 DEF LaneInv, Flight
<1>4. Fifo'
  BY DEF LaneInv, Fifo, Submitted
<1>5. Driving'
  BY DEF LaneInv, Driving, Lost
<1> QED BY <1>2, <1>3, <1>4, <1>5 DEF LaneInv

LEMMA RivalLane ==
  ASSUME LaneAssumption, LaneInv, NEW k \in Rivals, NEW d \in RivalTimes, Rival(k, d)
  PROVE  LaneInv'
<1> DEFINE b == Build(laneEng, k.name, k.cls, k.ch, d)
<1>1. /\ k.name \in Names /\ k.name # GotoName /\ k.name # BaseName /\ k.cls \in StopClasses
      /\ k.ch \in SUBSET Channels /\ d \in Nat \cup {Forever}
  BY DEF LaneAssumption
<1>2. laneEng' = AdmitBehavior(laneEng, b)
  BY <1>1 DEF Rival, EngineAdd
<1>3. EngInv(laneEng')
  BY <1>1, <1>2, EngineAddInv DEF LaneInv
<1>4. b.ord = laneEng.seq + 1 /\ b.name = k.name /\ laneEng.seq \in Nat /\ laneEng \in Engines
  <2>1. laneEng \in Engines /\ laneEng.seq \in Nat
    BY DEF LaneInv, EngInv, Engines
  <2> QED BY <2>1 DEF Build
<1> HIDE DEF b
<1>5. laneEng'.active \subseteq laneEng.active \cup {b} /\ laneEng'.seq = b.ord
      /\ laneEng'.own = laneEng.own
  BY <1>2, <1>4, AdmitEffect
<1> QED BY <1>1, <1>3, <1>4, <1>5, OthersLane DEF Rival

\* Operators' stops and inhibitions: whatever they remove.
LEMMA RemoveLane ==
  ASSUME LaneInv, NEW hits, hits \subseteq laneEng.active, NEW why \in {"stop", "inhibition"},
         laneEng' = Remove(laneEng, hits, why), UNCHANGED <<lanePhase, queue, inflight, fate,
         drove>>
  PROVE  LaneInv'
<1>1. EngInv(laneEng') /\ laneEng \in Engines /\ laneEng.seq \in Nat
  BY RemoveInv DEF LaneInv, EngInv, Engines
<1>2. laneEng'.active \subseteq laneEng.active /\ laneEng'.seq = laneEng.seq
      /\ laneEng'.own = laneEng.own
  BY <1>1, RemoveEffect
<1> QED BY <1>1, <1>2, OthersLane

\* compose_tick: what has expired is gone, and a channel lost now is looked at in
\* the lane's turn of the same tick.
LEMMA ComposeLane ==
  ASSUME LaneInv, NEW quiet, Compose2(quiet)
  PROVE  LaneInv'
<1> PICK speaks : /\ laneEng' = Compose(laneEng, {}, speaks)
                  /\ lanePhase = "drain" /\ lanePhase' = "seam"
                  /\ UNCHANGED <<queue, inflight, fate>>
  BY DEF Compose2
<1>1. EngInv(laneEng') /\ laneEng \in Engines
  BY ComposeInv DEF LaneInv, EngInv
<1>2. laneEng'.active = Live(laneEng) /\ laneEng'.seq = laneEng.seq
  <2>1. laneEng'.active = {b \in Live(laneEng) : b.ord \notin {}} /\ laneEng'.seq = laneEng.seq
    BY <1>1 DEF Compose, Engines
  <2> QED BY <2>1
<1>3. drove' = [g \in Gotos |->
                 IF g = inflight.gid /\ inflight.left > 0
                 THEN drove[g] /\ \A c \in inflight.ch : laneEng'.own[c] = inflight.ord
                 ELSE drove[g]]
  BY DEF Compose2
<1>4. LaneTypeOK'
  BY <1>1, <1>3 DEF LaneTypeOK, LaneInv, EngInv
<1>5. Flight'
  BY <1>2 DEF Flight, LaneInv, Live
<1>6. Fifo'
  BY DEF LaneInv, Fifo, Submitted
<1>7. Driving'
  <2>1. \A g \in Gotos : fate[g] \in {"unsubmitted", "queued", "done"} => g # inflight.gid
    BY DEF LaneInv, Fifo
  <2>2. \A g \in Gotos : fate[g] = "running" => g = inflight.gid /\ drove[g]
    BY DEF LaneInv, Fifo, Driving
  <2>3. ASSUME NEW g \in Gotos, fate'[g] = "running", ~drove'[g]
        PROVE inflight'.left > 0 /\ Lost' # {}
    BY <1>3, <2>2, <2>3 DEF Lost
  <2>4. \A g \in Gotos : fate'[g] \in {"unsubmitted", "queued", "done"} => drove'[g]
    BY <1>3, <2>1 DEF LaneInv, Driving
  <2> QED BY <2>3, <2>4 DEF Driving
<1> QED BY <1>1, <1>4, <1>5, <1>6, <1>7 DEF LaneInv

\* The clock moves the move in flight and its behavior alike.
LEMMA EndTickLane ==
  ASSUME LaneAssumption, LaneInv, NEW d \in 1 .. MaxLaneStep, LaneEndTick(d)
  PROVE  LaneInv'
<1>1. /\ laneEng' = Age(laneEng, d) /\ inflight' = LaneClock(d) /\ lanePhase = "late"
      /\ lanePhase' = "drain"
      /\ UNCHANGED <<queue, fate, drove>> /\ d \in Nat
  BY DEF LaneEndTick, LaneAssumption
<1>2. EngInv(laneEng') /\ laneEng \in Engines
  BY <1>1, AgeInv DEF LaneInv, EngInv
<1>3. /\ inflight' \in [gid : Gotos \cup {0}, ord : Nat, ch : SUBSET Channels, left : Nat]
      /\ inflight'.gid = inflight.gid /\ inflight'.ord = inflight.ord /\ inflight'.ch = inflight.ch
      /\ inflight'.left = IF inflight.left > d THEN inflight.left - d ELSE 0
      /\ inflight = NoGoto => inflight' = NoGoto
  <2>1. inflight \in [gid : Gotos \cup {0}, ord : Nat, ch : SUBSET Channels, left : Nat]
    BY DEF LaneInv, LaneTypeOK
  <2>2. inflight' = [inflight EXCEPT !.left = IF inflight.left > d THEN inflight.left - d ELSE 0]
    BY <1>1 DEF LaneClock, Elapse
  <2>3. (IF inflight.left > d THEN inflight.left - d ELSE 0) \in Nat
    BY <1>1, <2>1
  <2>4. inflight = NoGoto => inflight' = NoGoto
    <3>1. inflight = NoGoto => inflight.left = 0 /\ ~(0 > d)
      BY <1>1 DEF NoGoto
    <3>2. inflight = NoGoto => inflight' = [inflight EXCEPT !.left = 0]
      BY <2>2, <3>1
    <3> QED BY <3>2 DEF NoGoto
  <2> QED BY <2>1, <2>2, <2>3, <2>4
<1>4. LaneTypeOK'
  BY <1>1, <1>2, <1>3 DEF LaneInv, LaneTypeOK, EngInv
<1>5. Flight'
  <2>1. laneEng'.seq = laneEng.seq /\ laneEng'.active = {Older(b, d) : b \in laneEng.active}
    BY <1>1, <1>2, AgeEffect
  <2>2. inflight.left # Forever
    BY DEF LaneInv, LaneTypeOK, Forever
  <2>3. ASSUME NEW b \in laneEng.active, Older(b, d).name = GotoName
        PROVE  Older(b, d).ord = inflight'.ord /\ Older(b, d).left = inflight'.left
    BY <1>1, <1>2, <1>3, <2>2, <2>3, AgeEffect DEF LaneInv, Flight
  <2> QED BY <1>1, <1>3, <2>1, <2>3 DEF LaneInv, Flight
<1>6. Fifo'
  BY <1>1, <1>3 DEF LaneInv, Fifo, Submitted
<1>7. Driving'
  BY <1>1 DEF LaneInv, Driving
<1> QED BY <1>2, <1>4, <1>5, <1>6, <1>7 DEF LaneInv

\* The end of the lane's verdict on the move in flight, common to both of its turns:
\* what it cancels leaves the active set, so that no goto is left once it is over.
LEMMA VerdictLane ==
  ASSUME LaneInv, lanePhase = "seam"
  PROVE  /\ EngInv(AfterVerdict)
         /\ AfterVerdict.active \subseteq laneEng.active
         /\ AfterVerdict.seq = laneEng.seq /\ AfterVerdict.own = laneEng.own
         /\ Verdict # "running" => \A b \in AfterVerdict.active : b.name # GotoName
         /\ Verdict = "running" => AfterVerdict = laneEng /\ inflight # NoGoto /\ Lost = {}
              /\ inflight.left > 0
         /\ Verdict = "done" => drove[inflight.gid]
         /\ Verdict = "idle" <=> inflight = NoGoto
         /\ Verdict \in {"idle", "done", "cancelled", "running"}
<1>1. laneEng \in Engines /\ inflight.left \in Nat /\ inflight.ord \in Nat
  BY DEF LaneInv, EngInv, LaneTypeOK
<1>2. CASE inflight = NoGoto
  <2>1. Verdict = "idle" /\ AfterVerdict = laneEng
    BY <1>2 DEF Verdict, AfterVerdict
  <2>2. \A b \in laneEng.active : b.ord # inflight.ord
    BY <1>1, <1>2 DEF NoGoto, NoOwner, Engines, Behaviors
  <2> QED BY <1>2, <2>1, <2>2 DEF LaneInv, Flight
<1>3. CASE inflight # NoGoto /\ inflight.left = 0
  <2>1. Verdict = "done" /\ AfterVerdict = laneEng
    BY <1>3 DEF Verdict, AfterVerdict
  <2>2. drove[inflight.gid]
    BY <1>3 DEF LaneInv, Flight, Fifo, Driving
  <2> QED BY <1>3, <2>1, <2>2 DEF LaneInv, Flight
<1>4. CASE inflight # NoGoto /\ inflight.left # 0 /\ Lost # {}
  <2>1. Verdict = "cancelled"
        /\ AfterVerdict = Remove(laneEng, ById(laneEng, inflight.ord), "inhibition")
    BY <1>4 DEF Verdict, AfterVerdict, EvictId
  <2>2. /\ AfterVerdict.active = laneEng.active \ ById(laneEng, inflight.ord)
        /\ AfterVerdict.seq = laneEng.seq /\ AfterVerdict.own = laneEng.own
    BY <1>1, <2>1, RemoveEffect
  <2>3. EngInv(AfterVerdict)
    BY <2>1, RemoveInv DEF LaneInv, ById
  <2> QED BY <1>4, <2>1, <2>2, <2>3 DEF LaneInv, Flight, ById
<1>5. CASE inflight # NoGoto /\ inflight.left # 0 /\ Lost = {}
  <2>1. Verdict = "running" /\ AfterVerdict = laneEng
    BY <1>5 DEF Verdict, AfterVerdict
  <2> QED BY <1>1, <1>5, <2>1 DEF LaneInv
<1> QED BY <1>2, <1>3, <1>4, <1>5

\* What the verdict does to the fates: the move in flight, if it is over, ends.
LEMMA ClosedLane ==
  ASSUME LaneInv
  PROVE  /\ Closed(fate) \in [Gotos -> Contract!Fates]
         /\ \A g \in Gotos : fate[g] # "running" => Closed(fate)[g] = fate[g]
         /\ Verdict \in {"done", "cancelled"} => \A g \in Gotos : fate[g] = "running"
              => Closed(fate)[g] = Verdict
         /\ Verdict \notin {"done", "cancelled"} => Closed(fate) = fate
<1>1. /\ fate \in [Gotos -> Contract!Fates]
      /\ \A g \in Gotos : fate[g] = "running" <=> inflight.gid = g
  BY DEF LaneInv, LaneTypeOK, Fifo
<1>2. CASE Verdict \in {"done", "cancelled"}
  <2>1. Closed(fate) = [fate EXCEPT ![inflight.gid] = Verdict]
    BY <1>2 DEF Closed
  <2>2. Verdict \in Contract!Fates
    BY <1>2 DEF Contract!Fates
  <2> QED BY <1>1, <1>2, <2>1, <2>2
<1>3. CASE Verdict \notin {"done", "cancelled"}
  BY <1>1, <1>3 DEF Closed
<1> QED BY <1>2, <1>3

\* The lane's turn with nothing to admit: the move goes on or is over.
LEMMA RestsLane ==
  ASSUME LaneInv, LaneRests
  PROVE  LaneInv'
<1>1. /\ lanePhase = "seam" /\ lanePhase' = "late" /\ laneEng' = AfterVerdict
      /\ inflight' = IF Verdict \in {"done", "cancelled"} THEN NoGoto ELSE inflight
      /\ fate' = Closed(fate) /\ UNCHANGED <<queue, drove>>
  BY DEF LaneRests
<1>2. /\ EngInv(laneEng') /\ laneEng'.active \subseteq laneEng.active /\ laneEng'.seq = laneEng.seq
      /\ Verdict \in {"done", "cancelled"} => \A b \in laneEng'.active : b.name # GotoName
  BY <1>1, VerdictLane
<1>3. NoGoto \in [gid : Gotos \cup {0}, ord : Nat, ch : SUBSET Channels, left : Nat]
  BY DEF NoGoto, NoOwner
<1>4. LaneTypeOK'
  BY <1>1, <1>2, <1>3, ClosedLane DEF LaneInv, LaneTypeOK, EngInv
<1>5. Flight'
  BY <1>1, <1>2 DEF LaneInv, Flight
<1>6. /\ \A g \in Gotos : fate[g] # "running" => fate'[g] = fate[g]
      /\ \A g \in Gotos : fate[g] = "running" => fate'[g] \notin {"unsubmitted", "queued"}
      /\ \A g \in Gotos : fate'[g] = "running" <=> inflight'.gid = g
  <2>1. \A g \in Gotos : fate[g] = "running" <=> inflight.gid = g
    BY DEF LaneInv, Fifo
  <2>2. \A g \in Gotos : g # NoGoto.gid
    BY DEF NoGoto, Gotos
  <2>3. CASE Verdict \in {"done", "cancelled"}
    BY <1>1, <2>1, <2>2, <2>3, ClosedLane
  <2>4. CASE Verdict \notin {"done", "cancelled"}
    BY <1>1, <2>1, <2>4, ClosedLane
  <2> QED BY <2>3, <2>4
<1>7. Fifo'
  <2>1. \A g \in Gotos : fate'[g] # "unsubmitted" <=> fate[g] # "unsubmitted"
    BY <1>6
  <2>2. Submitted' = Submitted
    BY <2>1 DEF Submitted
  <2>3. \A i \in 1 .. Len(queue) : queue[i].gid \in Gotos
    BY QueueElements
  <2>4. \A i \in 1 .. Len(queue) : fate'[queue[i].gid] = "queued"
    BY <1>6, <2>3 DEF LaneInv, Fifo
  <2>5. \A g \in Gotos : fate'[g] = "queued" => fate[g] = "queued"
    BY <1>6
  <2> QED BY <1>1, <1>6, <2>2, <2>4, <2>5 DEF LaneInv, Fifo
<1>8. Driving'
  <2>1. ASSUME NEW g \in Gotos, fate'[g] = "running" PROVE drove[g]
    <3>1. Verdict \notin {"done", "cancelled"} /\ fate[g] = "running" /\ inflight.gid = g
      BY <1>1, <1>6, <2>1, ClosedLane DEF LaneInv, Fifo
    <3>2. Verdict = "running"
      BY <1>1, <2>1, <3>1, VerdictLane DEF NoGoto, Gotos
    <3> QED BY <1>1, <3>1, <3>2, VerdictLane DEF LaneInv, Driving
  <2>2. ASSUME NEW g \in Gotos, fate'[g] \in {"unsubmitted", "queued", "done"} PROVE drove[g]
    <3>1. CASE fate[g] = "running"
      <4>1. Verdict = "done" /\ inflight.gid = g
        BY <1>1, <1>6, <2>2, <3>1, ClosedLane DEF LaneInv, Fifo
      <4> QED BY <1>1, <4>1, VerdictLane
    <3>2. CASE fate[g] # "running"
      <4>1. fate[g] \in {"unsubmitted", "queued", "done"}
        BY <1>6, <2>2, <3>2
      <4> QED BY <4>1 DEF LaneInv, Driving
    <3> QED BY <3>1, <3>2
  <2> QED BY <1>1, <2>1, <2>2 DEF Driving
<1> QED BY <1>2, <1>4, <1>5, <1>7, <1>8 DEF LaneInv

\* The head of the queue is the oldest goto that is still queued.
LEMMA OldestLane ==
  ASSUME LaneInv, queue # <<>>
  PROVE  /\ NextUp \in Pendings /\ NextUp.gid \in Gotos /\ fate[NextUp.gid] = "queued"
         /\ \A g \in Gotos : fate[g] = "queued" => g >= NextUp.gid
<1>1. Len(queue) \in Nat \ {0} /\ NextUp = queue[1] /\ NextUp \in Pendings /\ NextUp.gid \in Gotos
  BY QueueElements, EmptySeq DEF NextUp
<1>2. 1 \in 1 .. Len(queue) /\ \A i \in 1 .. Len(queue) : i = 1 \/ 1 < i
  BY <1>1
<1>3. \A i \in 1 .. Len(queue) : i = 1 \/ NextUp.gid < queue[i].gid
  BY <1>1, <1>2 DEF LaneInv, Fifo
<1>4. ASSUME NEW g \in Gotos, fate[g] = "queued" PROVE g >= NextUp.gid
  <2>1. PICK i \in 1 .. Len(queue) : queue[i].gid = g
    BY <1>4 DEF LaneInv, Fifo
  <2> QED BY <1>1, <1>3, <2>1 DEF Gotos
<1> QED BY <1>1, <1>2, <1>4 DEF LaneInv, Fifo

\* The lane's turn that admits the oldest goto of the queue.
LEMMA AdmitsLane ==
  ASSUME LaneAssumption, LaneInv, LaneAdmits
  PROVE  LaneInv'
<1> DEFINE p == NextUp
           b == Build(AfterVerdict, GotoName, "stoppable", p.ch, p.dur)
<1>1. /\ lanePhase = "seam" /\ lanePhase' = "late" /\ Verdict # "running" /\ queue # <<>>
      /\ laneEng' = AdmitBehavior(AfterVerdict, b) /\ queue' = Tail(queue)
      /\ inflight' = [gid |-> p.gid, ord |-> b.ord, ch |-> p.ch, left |-> p.dur]
      /\ fate' = [Closed(fate) EXCEPT ![p.gid] = "running"] /\ UNCHANGED drove
  BY DEF LaneAdmits
<1>2. /\ Len(queue) \in Nat \ {0} /\ p = queue[1] /\ p \in Pendings /\ p.gid \in Gotos
      /\ queue' \in Seq(Pendings) /\ Len(queue') = Len(queue) - 1
      /\ \A i \in 1 .. Len(queue') : queue'[i] = queue[i + 1]
  BY <1>1, QueueElements, HeadTailProperties, EmptySeq DEF NextUp
<1>3. /\ EngInv(AfterVerdict) /\ AfterVerdict \in Engines /\ AfterVerdict.seq \in Nat
      /\ \A x \in AfterVerdict.active : x.name # GotoName
  BY <1>1, VerdictLane DEF EngInv, Engines
<1>4. /\ p.ch \in SUBSET Channels /\ p.dur \in Nat
      /\ b.ord = AfterVerdict.seq + 1 /\ b.name = GotoName /\ b.left = p.dur
  BY <1>2 DEF Pendings, Build
<1> HIDE DEF b, p
<1>5. EngInv(laneEng')
  <2>1. GotoName \in Names /\ "stoppable" \in StopClasses /\ p.dur \in Nat \cup {Forever}
    BY <1>4 DEF LaneAssumption, StopClasses
  <2> QED BY <1>1, <1>3, <1>4, <2>1, EngineAddInv DEF b
<1>6. laneEng'.seq = b.ord /\ laneEng'.active \subseteq AfterVerdict.active \cup {b}
  BY <1>1, <1>3, AdmitEffect
<1>7. fate[p.gid] = "queued"
  BY <1>1, OldestLane DEF p
<1>8. /\ fate'[p.gid] = "running"
      /\ \A g \in Gotos \ {p.gid} : fate[g] # "running" => fate'[g] = fate[g]
      /\ \A g \in Gotos \ {p.gid} : fate[g] = "running" => fate'[g] = Verdict
           /\ Verdict \in {"done", "cancelled"}
  <2>1. /\ Closed(fate) \in [Gotos -> Contract!Fates]
        /\ \A g \in Gotos : fate[g] # "running" => Closed(fate)[g] = fate[g]
    BY ClosedLane
  <2>2. ASSUME NEW g \in Gotos, fate[g] = "running"
        PROVE  Closed(fate)[g] = Verdict /\ Verdict \in {"done", "cancelled"}
    <3>1. inflight # NoGoto
      BY <2>2 DEF LaneInv, Fifo, NoGoto, Gotos
    <3>2. Verdict \in {"done", "cancelled"}
      BY <1>1, <3>1, VerdictLane
    <3> QED BY <2>2, <3>2, ClosedLane
  <2> QED BY <1>1, <1>2, <2>1, <2>2
<1>9. LaneTypeOK'
  <2>1. inflight' \in [gid : Gotos \cup {0}, ord : Nat, ch : SUBSET Channels, left : Nat]
    BY <1>1, <1>2, <1>3, <1>4
  <2>2. fate' \in [Gotos -> Contract!Fates]
    BY <1>1, ClosedLane DEF Contract!Fates
  <2> QED BY <1>1, <1>2, <1>5, <2>1, <2>2 DEF LaneInv, LaneTypeOK, EngInv, Pendings
<1>10. Flight'
  <2>1. inflight'.gid \in Gotos /\ inflight'.ord \in 1 .. laneEng'.seq
    BY <1>1, <1>2, <1>3, <1>4, <1>6
  <2>2. \A x \in laneEng'.active : x.name = GotoName => x.ord = inflight'.ord
        /\ x.left = inflight'.left
    BY <1>1, <1>3, <1>4, <1>6
  <2> QED BY <1>1, <2>1, <2>2 DEF Flight
<1>11. Fifo'
  <2>1. ASSUME NEW i \in 1 .. Len(queue')
        PROVE i + 1 \in 1 .. Len(queue) /\ queue'[i] = queue[i + 1]
    BY <1>2
  <2>2. ASSUME NEW i \in 1 .. Len(queue') PROVE queue'[i].gid > p.gid /\ queue'[i].gid \in Gotos
    <3>1. 1 \in 1 .. Len(queue) /\ 1 < i + 1
      BY <1>2
    <3> QED BY <1>2, <2>1, <3>1, QueueElements DEF LaneInv, Fifo, Gotos
  <2>3. ASSUME NEW i \in 1 .. Len(queue') PROVE fate'[queue'[i].gid] = "queued"
    <3>1. fate[queue'[i].gid] = "queued"
      BY <2>1 DEF LaneInv, Fifo
    <3>2. queue'[i].gid \in Gotos \ {p.gid}
      BY <1>2, <2>2 DEF Gotos
    <3> QED BY <1>8, <3>1, <3>2
  <2>4. ASSUME NEW i \in 1 .. Len(queue'), NEW j \in 1 .. Len(queue'), i < j
        PROVE  queue'[i].gid < queue'[j].gid
    <3>1. i + 1 < j + 1
      BY <2>4
    <3> QED BY <2>1, <3>1 DEF LaneInv, Fifo
  <2>5. ASSUME NEW g \in Gotos, fate'[g] = "queued"
        PROVE \E i \in 1 .. Len(queue') : queue'[i].gid = g
    <3>1. fate[g] = "queued" /\ g # p.gid
      BY <1>8, <2>5
    <3>2. PICK i \in 1 .. Len(queue) : queue[i].gid = g
      BY <3>1 DEF LaneInv, Fifo
    <3>3. i # 1
      BY <1>2, <3>1, <3>2
    <3>4. i - 1 \in 1 .. Len(queue') /\ queue'[i - 1] = queue[i]
      BY <1>2, <3>2, <3>3
    <3> QED BY <3>2, <3>4
  <2>6. \A g \in Gotos : fate'[g] = "running" <=> inflight'.gid = g
    BY <1>1, <1>8
  <2>7. Submitted' = Submitted
    <3>1. \A g \in Gotos : fate'[g] # "unsubmitted" <=> fate[g] # "unsubmitted"
      BY <1>7, <1>8
    <3> QED BY <3>1 DEF Submitted
  <2> QED BY <2>3, <2>4, <2>5, <2>6, <2>7 DEF LaneInv, Fifo
<1>12. Driving'
  <2>1. ASSUME NEW g \in Gotos, fate'[g] = "running" PROVE drove[g]
    BY <1>7, <1>8, <2>1 DEF LaneInv, Driving
  <2>2. ASSUME NEW g \in Gotos, fate'[g] \in {"unsubmitted", "queued", "done"} PROVE drove[g]
    <3>1. CASE fate[g] = "running"
      <4>1. Verdict = "done" /\ inflight.gid = g
        BY <1>8, <2>2, <3>1 DEF LaneInv, Fifo
      <4> QED BY <1>1, <4>1, VerdictLane
    <3>2. CASE fate[g] # "running"
      <4>1. fate[g] \in {"unsubmitted", "queued", "done"}
        BY <1>8, <2>2, <3>2
      <4> QED BY <4>1 DEF LaneInv, Driving
    <3> QED BY <3>1, <3>2
  <2> QED BY <1>1, <2>1, <2>2 DEF Driving
<1> QED BY <1>5, <1>9, <1>10, <1>11, <1>12 DEF LaneInv

--------------------------------------------------------------------------------
(* The theorems *)

LEMMA NextLane ==
  ASSUME LaneAssumption, LaneInv, [LaneNext]_laneVars
  PROVE  LaneInv'
<1>1. ASSUME NEW k \in Rivals, StopRival(k) PROVE LaneInv'
  BY <1>1, RemoveLane DEF StopRival, Evict, ByName
<1>2. CASE StopGoto
  <2>1. \/ laneEng' = Remove(laneEng, Removable(laneEng), "stop")
        \/ laneEng' = Remove(laneEng, ByName(laneEng, GotoName), "stop")
    BY <1>2 DEF StopGoto, StopAll, StopNamed
  <2> QED BY <1>2, <2>1, RemoveLane DEF StopGoto, Removable, ByName
<1>3. CASE UNCHANGED laneVars
  <2>1. LaneInv' = LaneInv
    BY <1>3 DEF laneVars, LaneInv, LaneTypeOK, Flight, Fifo, Driving, Submitted, Lost
  <2> QED BY <2>1
<1> QED
  BY <1>1, <1>2, <1>3, SubmitLane, RivalLane, ComposeLane, AdmitsLane, RestsLane, EndTickLane
  DEF LaneNext, Loop, Others

\* One move at a time, no resume, and "done" only of a move that drove all it claims.
THEOREM LaneIsSound == LaneAssumption => (LaneSpec => []LaneSound)
<1> SUFFICES ASSUME LaneAssumption PROVE LaneSpec => []LaneSound
  OBVIOUS
<1>1. LaneInit => LaneInv
  BY InitLane
<1>2. LaneInv /\ [LaneNext]_laneVars => LaneInv'
  BY NextLane
<1>3. LaneInv => LaneSound
  BY DEF LaneInv, Flight, Driving, LaneSound, OnlyInflightIsLive, DoneMeansDrove
<1> QED BY <1>1, <1>2, <1>3, PTL DEF LaneSpec

\* Every turn of the lane starts the oldest goto of the queue, after ending the one
\* that runs, or ends that one, or says nothing.
LEMMA StepContract ==
  ASSUME LaneAssumption, LaneInv, [LaneNext]_laneVars
  PROVE  [Contract!Next]_fate
<1>1. Contract!Gotos = Gotos
  BY DEF Contract!Gotos, Gotos
<1>2. ASSUME NEW s \in Specs, Submit(s) PROVE Contract!Next
  <2>1. PICK n \in 0 .. MaxGotos : Submitted = 1 .. n
    BY DEF LaneInv, Fifo
  <2>2. n + 1 \in Gotos /\ fate' = [fate EXCEPT ![n + 1] = "queued"]
    BY <1>2, <2>1, NextNumber DEF Submit
  <2>3. fate[n + 1] = "unsubmitted" /\ \A h \in Gotos : h < n + 1 => fate[h] # "unsubmitted"
    BY <2>1, <2>2 DEF Submitted, Gotos, LaneAssumption
  <2>4. Contract!Submit(n + 1)
    BY <1>1, <2>2, <2>3 DEF Contract!Submit
  <2> QED BY <1>1, <2>2, <2>4 DEF Contract!Next
<1>3. ASSUME NEW g \in Gotos, fate[g] = "running", Verdict \in {"done", "cancelled"},
             fate' = Closed(fate)
      PROVE  Contract!Next
  <2>1. inflight.gid = g
    BY <1>3 DEF LaneInv, Fifo
  <2>2. Contract!End(g, Verdict)
    BY <1>3, <2>1 DEF Contract!End, Closed
  <2> QED BY <1>1, <1>3, <2>2 DEF Contract!Next
<1>4. CASE LaneRests
  <2>1. fate' = Closed(fate) /\ lanePhase = "seam"
    BY <1>4 DEF LaneRests
  <2>2. CASE Verdict \in {"done", "cancelled"}
    <3>1. inflight.gid \in Gotos /\ fate[inflight.gid] = "running"
      BY <2>1, <2>2, VerdictLane DEF LaneInv, Flight, Fifo
    <3> QED BY <1>3, <2>1, <2>2, <3>1
  <2>3. CASE Verdict \notin {"done", "cancelled"}
    BY <2>1, <2>3, ClosedLane
  <2> QED BY <2>2, <2>3
<1>5. CASE LaneAdmits
  <2> DEFINE p == NextUp
  <2>1. /\ lanePhase = "seam" /\ Verdict # "running" /\ queue # <<>>
        /\ fate' = [Closed(fate) EXCEPT ![p.gid] = "running"]
    BY <1>5 DEF LaneAdmits
  <2>2. p.gid \in Gotos /\ fate[p.gid] = "queued" /\ \A g \in Gotos : fate[g] = "queued"
        => g >= p.gid
    BY <2>1, OldestLane
  <2> HIDE DEF p
  <2>3. \A h \in Gotos : h < p.gid => fate[h] = "running" \/ Contract!Ended(h)
    <3>1. PICK n \in 0 .. MaxGotos : Submitted = 1 .. n
      BY DEF LaneInv, Fifo
    <3>2. \A h \in Gotos : h < p.gid => fate[h] # "unsubmitted"
      BY <2>2, <3>1 DEF Submitted, Gotos, LaneAssumption
    <3>3. \A h \in Gotos : fate[h] \in Contract!Fates
      BY DEF LaneInv, LaneTypeOK
    <3>4. \A h \in Gotos : h < p.gid => fate[h] # "queued"
      BY <2>2 DEF Gotos
    <3> QED BY <3>2, <3>3, <3>4 DEF Contract!Ended, Contract!Fates
  <2> DEFINE how == IF Verdict \in {"done", "cancelled"} THEN Verdict ELSE "done"
  <2>4. fate' = [h \in Gotos |-> IF h = p.gid THEN "running"
                                ELSE IF fate[h] = "running" THEN how ELSE fate[h]]
    <3>1. /\ Closed(fate) \in [Gotos -> Contract!Fates]
          /\ \A g \in Gotos : fate[g] # "running" => Closed(fate)[g] = fate[g]
      BY ClosedLane
    <3>2. ASSUME NEW g \in Gotos, fate[g] = "running" PROVE Closed(fate)[g] = how
      <4>1. inflight # NoGoto
        BY <3>2 DEF LaneInv, Fifo, NoGoto, Gotos
      <4>2. Verdict \in {"done", "cancelled"}
        BY <2>1, <4>1, VerdictLane
      <4> QED BY <3>2, <4>2, ClosedLane
    <3> QED BY <2>1, <2>2, <3>1, <3>2
  <2>5. how \in {"done", "cancelled"}
    OBVIOUS
  <2> HIDE DEF how
  <2>6. Contract!Start(p.gid, how)
    BY <1>1, <2>2, <2>3, <2>4 DEF Contract!Start
  <2> QED BY <1>1, <2>2, <2>5, <2>6 DEF Contract!Next
<1>6. ASSUME fate' = fate PROVE [Contract!Next]_fate
  BY <1>6
<1>7. ASSUME \/ \E quiet \in SUBSET {k.name : k \in Rivals} : Compose2(quiet)
             \/ \E d \in 1 .. MaxLaneStep : LaneEndTick(d)
             \/ \E k \in Rivals, d \in RivalTimes : Rival(k, d)
             \/ \E k \in Rivals : StopRival(k)
             \/ StopGoto
             \/ UNCHANGED laneVars
      PROVE  fate' = fate
  BY <1>7 DEF Compose2, LaneEndTick, Rival, StopRival, StopGoto, laneVars
<1> QED BY <1>2, <1>4, <1>5, <1>6, <1>7 DEF LaneNext, Loop, Others

\* The lane implements the contract: each goto is started at most once, alone, in
\* the order of submission, and ends in exactly one way.
THEOREM LaneImplements == LaneAssumption => (LaneSpec => ContractHeld)
<1> SUFFICES ASSUME LaneAssumption PROVE LaneSpec => ContractHeld
  OBVIOUS
<1>1. LaneInit => LaneInv /\ Contract!Init
  <2>1. LaneInit => Contract!Init
    BY DEF LaneInit, Contract!Init, Gotos, Contract!Gotos
  <2> QED BY <2>1, InitLane
<1>2. LaneInv /\ [LaneNext]_laneVars => LaneInv' /\ [Contract!Next]_fate
  BY NextLane, StepContract
<1> QED BY <1>1, <1>2, PTL DEF LaneSpec, ContractHeld, Contract!Spec

--------------------------------------------------------------------------------
(* The command spool                                                            *)

\* A command is in one place at a time, and there once.
InOnePlace ==
  /\ \A c \in files : c \notin Members(batch) /\ c \notin Members(applied)
  /\ \A c \in Members(batch) : c \notin Members(applied)
  /\ \A i, j \in DOMAIN batch : batch[i] = batch[j] => i = j
  /\ AtMostOnce

\* Only what has landed is in the spool or was, and it does not land again.
Landed == {"waiting", "unconfirmed", "answered"}
LandedOnce ==
  /\ \A c \in Clients :
       c \in files \/ c \in Members(batch) \/ c \in Members(applied) \/ c \in stale
         => st[c] \in Landed
  /\ \A c \in tmps : st[c] = "written"

\* What the engine holds at each of its steps.
Draining == {"read", "apply", "answer"}
InHand ==
  /\ engine # "read" => todo = {}
  /\ engine \notin Draining => batch = <<>>
  /\ engine = "scan" => present \subseteq files
  /\ engine \in Draining => present \subseteq todo \cup Members(batch) \cup Members(applied)
  /\ engine = "answer" => applied # <<>>

\* Each client takes one name; what had landed by then was named before.
Numbered ==
  /\ \A i, j \in DOMAIN named : named[i] = named[j] => i = j
  /\ \A c \in Clients : c \in Members(named) <=> st[c] \notin {"idle", "sure"}
  /\ \A c \in Clients : \A x \in prior[c] : Earlier(x, c)

\* What was read is in the order of the names, before what is to be read.
InNameOrder ==
  /\ \A a \in Members(batch), b \in todo : Earlier(a, b)
  /\ \A i, j \in DOMAIN batch : i < j => Earlier(batch[i], batch[j])

\* Past the reset nothing is left that was there before this engine.
Swept ==
  resets /\ engine \notin {"down", "boot"} =>
    \A c \in stale : c \notin files /\ c \notin Members(batch)

SpoolInv == /\ SpoolTypeOK /\ InOnePlace /\ LandedOnce /\ InHand /\ Numbered /\ InNameOrder
            /\ Swept /\ NothingVanishes

--------------------------------------------------------------------------------
\* The members of a sequence to which one is added, and of one that begins with its head.
LEMMA MembersAppend ==
  ASSUME NEW S, NEW s \in Seq(S), NEW x \in S
  PROVE  Members(Append(s, x)) = Members(s) \cup {x}
<1>1. Len(s) \in Nat /\ DOMAIN s = 1 .. Len(s)
  OBVIOUS
<1>2. DOMAIN Append(s, x) = 1 .. (Len(s) + 1) /\ Append(s, x)[Len(s) + 1] = x
  OBVIOUS
<1>3. \A i \in 1 .. Len(s) : Append(s, x)[i] = s[i]
  OBVIOUS
<1> HIDE DEF Members
<1>4. ASSUME NEW y \in Members(Append(s, x)) PROVE y \in Members(s) \cup {x}
  <2>1. PICK i \in 1 .. (Len(s) + 1) : Append(s, x)[i] = y
    BY <1>2, <1>4 DEF Members
  <2>2. CASE i = Len(s) + 1
    BY <1>2, <2>1, <2>2
  <2>3. CASE i # Len(s) + 1
    <3>1. i \in 1 .. Len(s)
      BY <1>1, <2>1, <2>3
    <3> QED BY <1>1, <1>3, <2>1, <3>1 DEF Members
  <2> QED BY <2>2, <2>3
<1>5. ASSUME NEW y \in Members(s) \cup {x} PROVE y \in Members(Append(s, x))
  <2>1. CASE y = x
    <3>1. Len(s) + 1 \in DOMAIN Append(s, x)
      BY <1>1, <1>2
    <3> QED BY <1>2, <2>1, <3>1 DEF Members
  <2>2. CASE y \in Members(s)
    <3>1. PICK i \in 1 .. Len(s) : s[i] = y
      BY <1>1, <2>2 DEF Members
    <3>2. i \in DOMAIN Append(s, x)
      BY <1>1, <1>2
    <3> QED BY <1>3, <3>1, <3>2 DEF Members
  <2> QED BY <1>5, <2>1, <2>2
<1> QED BY <1>4, <1>5

LEMMA MembersTail ==
  ASSUME NEW S, NEW s \in Seq(S), s # <<>>
  PROVE  /\ Head(s) \in Members(s) /\ Head(s) = s[1] /\ Head(s) \in S
         /\ Tail(s) \in Seq(S) /\ Len(Tail(s)) = Len(s) - 1 /\ Len(s) \in Nat \ {0}
         /\ \A i \in DOMAIN Tail(s) : Tail(s)[i] = s[i + 1] /\ i + 1 \in DOMAIN s
         /\ Members(Tail(s)) \subseteq Members(s)
         /\ \A y \in Members(s) : y = Head(s) \/ y \in Members(Tail(s))
<1>1. Len(s) \in Nat \ {0} /\ DOMAIN s = 1 .. Len(s) /\ Head(s) = s[1] /\ s[1] \in S
  OBVIOUS
<1>2. Tail(s) \in Seq(S) /\ Len(Tail(s)) = Len(s) - 1 /\ DOMAIN Tail(s) = 1 .. (Len(s) - 1)
  OBVIOUS
<1>3. \A i \in 1 .. (Len(s) - 1) : Tail(s)[i] = s[i + 1]
  OBVIOUS
<1>4. \A i \in 1 .. (Len(s) - 1) : i + 1 \in 1 .. Len(s)
  BY <1>1
<1>5. Members(Tail(s)) \subseteq Members(s)
  BY <1>1, <1>2, <1>3, <1>4 DEF Members
<1>6. Head(s) \in Members(s)
  BY <1>1 DEF Members
<1>7. ASSUME NEW y \in Members(s), y # Head(s) PROVE y \in Members(Tail(s))
  <2>1. PICK i \in 1 .. Len(s) : s[i] = y
    BY <1>1 DEF Members
  <2>2. i - 1 \in 1 .. (Len(s) - 1) /\ (i - 1) + 1 = i
    BY <1>1, <1>7, <2>1
  <2>3. Tail(s)[i - 1] = y
    BY <1>3, <2>1, <2>2
  <2> QED BY <1>2, <2>2, <2>3 DEF Members
<1> QED BY <1>1, <1>2, <1>3, <1>4, <1>5, <1>6, <1>7

\* sorted() has a first among the commands that have names.
LEMMA FirstIs ==
  ASSUME named \in Seq(Clients), Numbered, NEW T, T # {}, T \subseteq Members(named)
  PROVE  First(T) \in T /\ \A x \in T \ {First(T)} : Earlier(First(T), x)
<1> DEFINE I == {i \in Nat : i \in DOMAIN named /\ named[i] \in T}
<1>1. DOMAIN named = 1 .. Len(named) /\ Len(named) \in Nat
  OBVIOUS
<1>2. I # {}
  BY <1>1 DEF Members
<1>3. PICK i \in I : \A j \in I : i <= j
  <2> HIDE DEF I
  <2>1. I \subseteq Nat
    BY DEF I
  <2> QED BY <1>2, <2>1, NatSetHasMin
<1>4. \A x \in T \ {named[i]} : Earlier(named[i], x)
  <2> TAKE x \in T \ {named[i]}
  <2>1. PICK j \in DOMAIN named : named[j] = x
    BY DEF Members
  <2>2. j \in I
    BY <1>1, <2>1
  <2>3. i <= j /\ i # j /\ i \in Nat /\ j \in Nat
    BY <1>3, <2>1, <2>2
  <2> QED BY <2>1, <2>3, <1>3 DEF Earlier
<1>5. named[i] \in T
  BY <1>3
<1> QED BY <1>4, <1>5 DEF First

\* Nothing is named before itself, nor each of two before the other.
LEMMA OneWay ==
  ASSUME named \in Seq(Clients), Numbered, NEW a, NEW b, Earlier(a, b), Earlier(b, a)
  PROVE  FALSE
<1>1. PICK i, j \in DOMAIN named : i < j /\ named[i] = a /\ named[j] = b
  BY DEF Earlier
<1>2. PICK k, l \in DOMAIN named : k < l /\ named[k] = b /\ named[l] = a
  BY DEF Earlier
<1>3. i = l /\ j = k
  BY <1>1, <1>2 DEF Numbered
<1>4. i \in Nat /\ j \in Nat
  OBVIOUS
<1> QED BY <1>1, <1>2, <1>3, <1>4

--------------------------------------------------------------------------------
LEMMA InitSpool ==
  ASSUME SpoolAssumption, SpoolInit
  PROVE  SpoolInv
BY DEF SpoolAssumption, SpoolInit, SpoolInv, SpoolTypeOK, InOnePlace, AtMostOnce, LandedOnce, InHand,
       Numbered, InNameOrder, Swept, NothingVanishes, Members, Landed, Draining, Earlier, Outcomes

\* A client that takes a step other than naming, landing or starting an engine.
ClientWaits ==
  \E c \in Clients : WriteTemp(c) \/ GetResult(c) \/ TimeOut(c)

LEMMA WaitsKeeps ==
  ASSUME SpoolInv, ClientWaits
  PROVE  SpoolInv'
<1>1. PICK c \in Clients : WriteTemp(c) \/ GetResult(c) \/ TimeOut(c)
  BY DEF ClientWaits
<1>2. /\ UNCHANGED <<resets, files, named, engineVars, ghostVars>>
      /\ \E u \in {"written", "answered", "unconfirmed"} :
           /\ st' = [st EXCEPT ![c] = u]
           /\ u = "written" => st[c] = "named" /\ tmps' = tmps \cup {c}
           /\ u # "written" => st[c] = "waiting" /\ tmps' = tmps
      /\ results' \in SUBSET Clients
  BY <1>1 DEF WriteTemp, GetResult, TimeOut, Client, diskVars, SpoolInv, SpoolTypeOK
<1> USE DEF engineVars, ghostVars
<1>3. PICK u \in {"written", "answered", "unconfirmed"} :
           /\ st' = [st EXCEPT ![c] = u]
           /\ u = "written" => st[c] = "named" /\ tmps' = tmps \cup {c}
           /\ u # "written" => st[c] = "waiting" /\ tmps' = tmps
  BY <1>2
<1>4. st \in [Clients -> {"idle", "sure", "named", "written", "waiting"} \cup Outcomes]
  BY DEF SpoolInv, SpoolTypeOK
<1>5. c \notin files \/ st[c] = "waiting"
  BY <1>3 DEF SpoolInv, LandedOnce, Landed
<1>6. SpoolTypeOK'
  BY <1>2, <1>3, <1>4, <1>5 DEF SpoolInv, SpoolTypeOK, Outcomes
<1>7. InOnePlace'
  BY <1>2 DEF SpoolInv, InOnePlace, AtMostOnce, Members
<1>8. LandedOnce'
  BY <1>2, <1>3, <1>4 DEF SpoolInv, LandedOnce, Members, Landed
<1>9. InHand' /\ Swept'
  BY <1>2 DEF SpoolInv, InHand, Swept, Members
<1>10. Numbered'
  BY <1>2, <1>3, <1>4 DEF SpoolInv, Numbered, Members, Earlier
<1>11. InNameOrder'
  BY <1>2 DEF SpoolInv, InNameOrder, Members, Earlier
<1>12. NothingVanishes'
  BY <1>2, <1>3, <1>4 DEF SpoolInv, NothingVanishes, Members
<1> QED BY <1>6, <1>7, <1>8, <1>9, <1>10, <1>11, <1>12 DEF SpoolInv

LEMMA NameKeeps ==
  ASSUME SpoolInv, NEW c \in Clients, Name(c)
  PROVE  SpoolInv'
<1>1. /\ st' = [st EXCEPT ![c] = "named"] /\ st[c] \in {"idle", "sure"}
      /\ named' = Append(named, c) /\ prior' = [prior EXCEPT ![c] = files]
      /\ UNCHANGED <<diskVars, engineVars, applied, wiped, crashed, stale>>
  BY DEF Name, Client
<1> USE DEF engineVars, diskVars
<1>2. /\ st \in [Clients -> {"idle", "sure", "named", "written", "waiting"} \cup Outcomes]
      /\ named \in Seq(Clients) /\ prior \in [Clients -> SUBSET Clients] /\ files \subseteq Clients
  BY DEF SpoolInv, SpoolTypeOK
<1>3. Members(Append(named, c)) = Members(named) \cup {c}
  BY <1>2, MembersAppend
<1>4. /\ DOMAIN named = 1 .. Len(named) /\ Len(named) \in Nat
      /\ DOMAIN Append(named, c) = 1 .. (Len(named) + 1)
      /\ \A i \in 1 .. Len(named) : Append(named, c)[i] = named[i]
      /\ Append(named, c)[Len(named) + 1] = c
  BY <1>2
<1>5. \A i \in DOMAIN named : named[i] # c
  BY <1>1, <1>2 DEF SpoolInv, Numbered, Members
<1>6. \A a, b \in Clients : Earlier(a, b) => Earlier(a, b)'
  <2> TAKE a, b \in Clients
  <2> HAVE Earlier(a, b)
  <2>1. PICK i, j \in DOMAIN named : i < j /\ named[i] = a /\ named[j] = b
    BY DEF Earlier
  <2>2. i \in DOMAIN named' /\ j \in DOMAIN named' /\ named'[i] = a /\ named'[j] = b
    BY <1>1, <1>4, <2>1
  <2> QED BY <2>1, <2>2 DEF Earlier
<1>7. \A a \in Members(named) : Earlier(a, c)'
  <2> TAKE a \in Members(named)
  <2>1. PICK i \in DOMAIN named : named[i] = a
    BY DEF Members
  <2>2. i \in DOMAIN named' /\ Len(named) + 1 \in DOMAIN named' /\ i < Len(named) + 1
        /\ named'[i] = a /\ named'[Len(named) + 1] = c
    BY <1>1, <1>4, <2>1
  <2> QED BY <2>2 DEF Earlier
<1>8. files \subseteq Members(named)
  BY <1>2 DEF SpoolInv, LandedOnce, Numbered, Landed
<1>9. SpoolTypeOK'
  <2>1. named' \in Seq(Clients)
    BY <1>1, <1>2
  <2>2. st' \in [Clients -> {"idle", "sure", "named", "written", "waiting"} \cup Outcomes]
    BY <1>1, <1>2
  <2> QED BY <1>1, <1>2, <2>1, <2>2 DEF SpoolInv, SpoolTypeOK
<1>10. InOnePlace'
  BY <1>1 DEF SpoolInv, InOnePlace, AtMostOnce, Members
<1>11. LandedOnce'
  BY <1>1, <1>2 DEF SpoolInv, LandedOnce, Members, Landed
<1>12. InHand' /\ Swept'
  BY <1>1 DEF SpoolInv, InHand, Swept, Members
<1>13. Numbered'
  <2>1. \A i, j \in DOMAIN named' : named'[i] = named'[j] => i = j
    BY <1>1, <1>4, <1>5 DEF SpoolInv, Numbered
  <2>2. \A d \in Clients : d \in Members(named') <=> st'[d] \notin {"idle", "sure"}
    BY <1>1, <1>2, <1>3 DEF SpoolInv, Numbered
  <2>3. ASSUME NEW d \in Clients, NEW x \in prior'[d] PROVE Earlier(x, d)'
    <3>1. CASE d = c
      <4>1. x \in files
        BY <1>1, <1>2, <2>3, <3>1
      <4> QED BY <1>7, <1>8, <3>1, <4>1
    <3>2. CASE d # c
      <4>1. x \in prior[d] /\ x \in Clients
        BY <1>1, <1>2, <2>3, <3>2
      <4>2. Earlier(x, d)
        BY <4>1 DEF SpoolInv, Numbered
      <4> QED BY <1>6, <4>1, <4>2
    <3> QED BY <3>1, <3>2
  <2>4. \A d \in Clients : d \in Members(named)' <=> st'[d] \notin {"idle", "sure"}
    BY <2>2 DEF Members
  <2> QED BY <2>1, <2>3, <2>4 DEF Numbered
<1>14. InNameOrder'
  <2>1. batch \in Seq(Clients) /\ todo \subseteq Clients
    BY DEF SpoolInv, SpoolTypeOK
  <2>2. Members(batch) \subseteq Clients /\ \A i \in DOMAIN batch : batch[i] \in Clients
    BY <2>1 DEF Members
  <2>3. \A a \in Members(batch), b \in todo : Earlier(a, b)'
    BY <1>6, <2>1, <2>2 DEF SpoolInv, InNameOrder
  <2>4. \A i, j \in DOMAIN batch : i < j => Earlier(batch[i], batch[j])'
    BY <1>1, <1>6, <2>2 DEF SpoolInv, InNameOrder, Earlier
  <2>5. batch' = batch /\ todo' = todo /\ Members(batch)' = Members(batch)
    BY <1>1 DEF Members
  <2> QED BY <2>3, <2>4, <2>5 DEF InNameOrder, Earlier
<1>15. NothingVanishes'
  BY <1>1, <1>2 DEF SpoolInv, NothingVanishes, Members
<1> QED BY <1>9, <1>10, <1>11, <1>12, <1>13, <1>14, <1>15 DEF SpoolInv

LEMMA LandKeeps ==
  ASSUME SpoolInv, NEW c \in Clients, Land(c)
  PROVE  SpoolInv'
<1>1. st \in [Clients -> {"idle", "sure", "named", "written", "waiting"} \cup Outcomes]
  BY DEF SpoolInv, SpoolTypeOK
<1>2. /\ st[c] = "written" /\ tmps' = tmps \ {c}
      /\ UNCHANGED <<resets, results, named, engineVars, ghostVars>>
      /\ \/ files' = files \cup {c} /\ st' = [st EXCEPT ![c] = "waiting"]
         \/ files' = files /\ st' = [st EXCEPT ![c] = "failed"]
  BY DEF Land, Client, Moved
<1> USE DEF engineVars, ghostVars
<1>3. c \notin files /\ c \notin Members(batch) /\ c \notin Members(applied) /\ c \notin stale
  BY <1>2 DEF SpoolInv, LandedOnce, Landed
<1>4. SpoolTypeOK'
  <2>1. st' \in [Clients -> {"idle", "sure", "named", "written", "waiting"} \cup Outcomes]
    BY <1>1, <1>2 DEF Outcomes
  <2> QED BY <1>2, <2>1 DEF SpoolInv, SpoolTypeOK
<1>5. InOnePlace'
  BY <1>2, <1>3 DEF SpoolInv, InOnePlace, AtMostOnce, Members
<1>6. LandedOnce'
  <2>1. Members(batch)' = Members(batch) /\ Members(applied)' = Members(applied)
    BY <1>2 DEF Members
  <2>2. /\ \A d \in Clients : d # c => st'[d] = st[d] /\ (d \in files' <=> d \in files)
        /\ c \in files' => st'[c] \in Landed
        /\ tmps \subseteq Clients
    BY <1>1, <1>2, <1>3 DEF Landed, SpoolInv, SpoolTypeOK
  <2> QED BY <1>2, <1>3, <2>1, <2>2 DEF SpoolInv, LandedOnce
<1>7. InHand'
  BY <1>2 DEF SpoolInv, InHand, Members
<1>8. Swept'
  BY <1>2, <1>3 DEF SpoolInv, Swept, Members
<1>9. Numbered'
  BY <1>1, <1>2 DEF SpoolInv, Numbered, Members, Earlier
<1>10. InNameOrder'
  BY <1>2 DEF SpoolInv, InNameOrder, Members, Earlier
<1>11. NothingVanishes'
  BY <1>1, <1>2 DEF SpoolInv, NothingVanishes, Members
<1> QED BY <1>4, <1>5, <1>6, <1>7, <1>8, <1>9, <1>10, <1>11 DEF SpoolInv

\* An engine is started, by a command that finds none or by hand.
LEMMA SpawnKeeps ==
  ASSUME SpoolAssumption, SpoolInv, StartEngine \/ \E c \in Clients : EnsureRunning(c)
  PROVE  SpoolInv'
<1>1. st \in [Clients -> {"idle", "sure", "named", "written", "waiting"} \cup Outcomes]
  BY DEF SpoolInv, SpoolTypeOK
<1>2. /\ UNCHANGED <<diskVars, named, present, todo, batch, applied, wiped, crashed, prior>>
      /\ \/ Spawn
         \/ UNCHANGED <<engine, lives, stale>>
      /\ \/ st' = st
         \/ \E c \in Clients : st[c] = "idle" /\ st' = [st EXCEPT ![c] = "sure"]
  BY DEF StartEngine, EnsureRunning, Client
<1> USE DEF diskVars
<1>3. /\ \A c \in Clients : st'[c] \in Landed <=> st[c] \in Landed
      /\ \A c \in Clients : st'[c] = "written" <=> st[c] = "written"
      /\ \A c \in Clients : st'[c] \in {"waiting", "unconfirmed"} <=> st[c] \in {"waiting", "unconfirmed"}
      /\ \A c \in Clients : st'[c] \notin {"idle", "sure"} <=> st[c] \notin {"idle", "sure"}
      /\ st' \in [Clients -> {"idle", "sure", "named", "written", "waiting"} \cup Outcomes]
  BY <1>1, <1>2 DEF Landed
<1>4. SpoolTypeOK'
  BY <1>2, <1>3 DEF SpoolInv, SpoolTypeOK, Spawn, SpoolAssumption
<1>5. InOnePlace'
  BY <1>2 DEF SpoolInv, InOnePlace, AtMostOnce, Members
<1>6. LandedOnce'
  <2>1. tmps \subseteq Clients
    BY DEF SpoolInv, SpoolTypeOK
  <2>2. Members(batch)' = Members(batch) /\ Members(applied)' = Members(applied)
    BY <1>2 DEF Members
  <2>3. stale' = stale \/ stale' = files
    BY <1>2 DEF Spawn
  <2> QED BY <1>2, <1>3, <2>1, <2>2, <2>3 DEF SpoolInv, LandedOnce
<1>7. InHand' /\ Swept'
  BY <1>2 DEF SpoolInv, InHand, Swept, Members, Spawn, Draining
<1>8. Numbered'
  BY <1>2, <1>3 DEF SpoolInv, Numbered, Members, Earlier
<1>9. InNameOrder'
  BY <1>2 DEF SpoolInv, InNameOrder, Members, Earlier
<1>10. NothingVanishes'
  BY <1>2, <1>3 DEF SpoolInv, NothingVanishes, Members
<1> QED BY <1>4, <1>5, <1>6, <1>7, <1>8, <1>9, <1>10 DEF SpoolInv

\* The engine, but for what it reads and applies.
LEMMA CrashKeeps ==
  ASSUME SpoolInv, Crash
  PROVE  SpoolInv'
<1>1. batch' = <<>> /\ Members(<<>>) = {} /\ Members(batch)' = {}
  BY DEF Crash, Members
<1>2. Members(batch) \subseteq Clients
  BY DEF SpoolInv, SpoolTypeOK, Members
<1>3. Members(applied)' = Members(applied)
  BY DEF Crash, Members
<1> USE DEF Crash, diskVars
<1>4. SpoolTypeOK'
  BY <1>2 DEF SpoolInv, SpoolTypeOK
<1>5. InOnePlace'
  BY <1>1, <1>3 DEF SpoolInv, InOnePlace, AtMostOnce
<1>6. LandedOnce'
  BY <1>1, <1>3 DEF SpoolInv, LandedOnce
<1>7. InHand' /\ Swept'
  BY DEF SpoolInv, InHand, Swept, Draining
<1>8. Numbered'
  BY DEF SpoolInv, Numbered, Members, Earlier
<1>9. InNameOrder'
  BY <1>1 DEF InNameOrder
<1>10. NothingVanishes'
  BY <1>1, <1>3 DEF SpoolInv, NothingVanishes
<1> QED BY <1>4, <1>5, <1>6, <1>7, <1>8, <1>9, <1>10 DEF SpoolInv

LEMMA ResetKeeps ==
  ASSUME SpoolInv, ResetCommands \/ ResetResults
  PROVE  SpoolInv'
<1>1. /\ UNCHANGED <<resets, st, named, present, todo, batch, lives, applied, crashed, prior, stale>>
      /\ \/ /\ engine = "boot" /\ engine' = "resetting" /\ results' = results
            /\ files' = (IF resets THEN {} ELSE files) /\ wiped' = wiped \cup (files \ files')
            /\ tmps' \subseteq tmps
         \/ /\ engine = "resetting" /\ engine' = "rest" /\ results' \subseteq results
            /\ files' = files /\ wiped' = wiped /\ tmps' = tmps
  BY DEF ResetCommands, ResetResults, AfterReset, ghostVars
<1>2. todo = {} /\ batch = <<>> /\ Members(batch) = {} /\ files' \subseteq files
  BY <1>1 DEF SpoolInv, InHand, Draining, Members
<1>3. Members(batch)' = {} /\ Members(applied)' = Members(applied)
  BY <1>1, <1>2 DEF Members
<1>4. SpoolTypeOK'
  BY <1>1, <1>2 DEF SpoolInv, SpoolTypeOK, Running
<1>5. InOnePlace'
  BY <1>1, <1>2, <1>3 DEF SpoolInv, InOnePlace, AtMostOnce
<1>6. LandedOnce'
  BY <1>1, <1>2, <1>3 DEF SpoolInv, LandedOnce
<1>7. InHand'
  BY <1>1, <1>2 DEF InHand, Draining
<1>8. Swept'
  BY <1>1, <1>2, <1>3 DEF SpoolInv, Swept
<1>9. Numbered'
  BY <1>1 DEF SpoolInv, Numbered, Members, Earlier
<1>10. InNameOrder'
  BY <1>1, <1>2, <1>3 DEF InNameOrder
<1>11. NothingVanishes'
  BY <1>1, <1>2, <1>3 DEF SpoolInv, NothingVanishes
<1> QED BY <1>4, <1>5, <1>6, <1>7, <1>8, <1>9, <1>10, <1>11 DEF SpoolInv

LEMMA ScanKeeps ==
  ASSUME SpoolInv, ScanBegins \/ ScanEnds \/ Drained \/ TickEnds
  PROVE  SpoolInv'
<1>1. /\ UNCHANGED <<diskVars, st, named, batch, lives, ghostVars>>
      /\ \/ engine = "rest" /\ engine' = "scan" /\ present' = files /\ todo' = todo
         \/ engine = "scan" /\ engine' = "read" /\ present' = present /\ present \subseteq todo'
            /\ todo' \subseteq files
         \/ engine = "read" /\ todo = {} /\ engine' = "apply" /\ present' = present /\ todo' = todo
         \/ engine = "apply" /\ batch = <<>> /\ engine' = "rest" /\ present' = present /\ todo' = todo
  BY DEF ScanBegins, ScanEnds, Drained, TickEnds, SpoolInv, InHand
<1> USE DEF diskVars, ghostVars
<1>2. Members(batch)' = Members(batch) /\ Members(applied)' = Members(applied)
  BY <1>1 DEF Members
<1>3. SpoolTypeOK'
  BY <1>1 DEF SpoolInv, SpoolTypeOK, Running
<1>4. InOnePlace'
  BY <1>1, <1>2 DEF SpoolInv, InOnePlace, AtMostOnce
<1>5. LandedOnce'
  BY <1>1, <1>2 DEF SpoolInv, LandedOnce
<1>6. InHand'
  BY <1>1, <1>2 DEF SpoolInv, InHand, Draining
<1>7. Swept'
  BY <1>1, <1>2 DEF SpoolInv, Swept
<1>8. Numbered'
  BY <1>1 DEF SpoolInv, Numbered, Members, Earlier
<1>9. InNameOrder'
  <2>1. Members(<<>>) = {}
    BY DEF Members
  <2>2. batch = <<>> \/ todo' = todo
    BY <1>1 DEF SpoolInv, InHand, Draining
  <2> QED BY <1>1, <1>2, <2>1, <2>2 DEF SpoolInv, InNameOrder, Earlier
<1>10. NothingVanishes'
  BY <1>1, <1>2 DEF SpoolInv, NothingVanishes
<1> QED BY <1>3, <1>4, <1>5, <1>6, <1>7, <1>8, <1>9, <1>10 DEF SpoolInv

\* A command is read by name and its file unlinked.
LEMMA ReadKeeps ==
  ASSUME SpoolInv, Read
  PROVE  SpoolInv'
<1> DEFINE m == First(todo)
<1>1. /\ engine = "read" /\ todo # {} /\ todo' = todo \ {m} /\ files' = files \ {m}
      /\ batch' = Append(batch, m)
      /\ UNCHANGED <<resets, tmps, results, st, named, engine, present, lives, ghostVars>>
  BY DEF Read, Unlinked
<1>2. /\ batch \in Seq(Clients) /\ applied \in Seq(Clients) /\ files \subseteq Clients
      /\ todo \subseteq files /\ named \in Seq(Clients) /\ SpoolTypeOK /\ Numbered
  BY DEF SpoolInv, SpoolTypeOK
<1>3. m \in todo /\ \A x \in todo \ {m} : Earlier(m, x)
  <2>1. todo \subseteq Members(named)
    BY <1>2 DEF SpoolInv, LandedOnce, Numbered, Landed
  <2> QED BY <1>1, <1>2, <2>1, FirstIs
<1> HIDE DEF m
<1> USE DEF ghostVars
<1>4. m \in Clients /\ m \in files /\ m \notin Members(batch) /\ m \notin Members(applied)
  BY <1>2, <1>3 DEF SpoolInv, InOnePlace
<1>5. Members(batch)' = Members(batch) \cup {m} /\ Members(applied)' = Members(applied)
  <2>1. Members(Append(batch, m)) = Members(batch) \cup {m}
    BY <1>2, <1>4, MembersAppend
  <2> QED BY <1>1, <2>1 DEF Members
<1>6. /\ DOMAIN batch = 1 .. Len(batch) /\ Len(batch) \in Nat
      /\ DOMAIN batch' = 1 .. (Len(batch) + 1)
      /\ \A i \in 1 .. Len(batch) : batch'[i] = batch[i] /\ batch'[i] \in Members(batch)
      /\ batch'[Len(batch) + 1] = m
  <2>1. /\ DOMAIN Append(batch, m) = 1 .. (Len(batch) + 1)
        /\ \A i \in 1 .. Len(batch) : Append(batch, m)[i] = batch[i]
        /\ Append(batch, m)[Len(batch) + 1] = m
    BY <1>2
  <2> QED BY <1>1, <1>2, <2>1 DEF Members
<1>7. SpoolTypeOK'
  <2>1. batch' \in Seq(Clients)
    BY <1>1, <1>2, <1>4
  <2> QED BY <1>1, <1>2, <2>1 DEF SpoolTypeOK
<1>8. InOnePlace'
  <2>1. \A i, j \in DOMAIN batch' : batch'[i] = batch'[j] => i = j
    BY <1>4, <1>6 DEF SpoolInv, InOnePlace
  <2>2. \A c \in files' : c \notin Members(batch)' /\ c \notin Members(applied)'
    BY <1>1, <1>4, <1>5 DEF SpoolInv, InOnePlace
  <2>3. \A c \in Members(batch)' : c \notin Members(applied)'
    BY <1>4, <1>5 DEF SpoolInv, InOnePlace
  <2>4. AtMostOnce'
    BY <1>1 DEF SpoolInv, InOnePlace, AtMostOnce
  <2> QED BY <2>1, <2>2, <2>3, <2>4 DEF InOnePlace
<1>9. LandedOnce'
  BY <1>1, <1>4, <1>5 DEF SpoolInv, LandedOnce
<1>10. InHand'
  BY <1>1, <1>5 DEF SpoolInv, InHand, Draining
<1>11. Swept'
  BY <1>1, <1>4, <1>5 DEF SpoolInv, Swept
<1>12. Numbered'
  BY <1>1 DEF SpoolInv, Numbered, Members, Earlier
<1>13. InNameOrder'
  <2>1. \A a, b : Earlier(a, b)' <=> Earlier(a, b)
    BY <1>1 DEF Earlier
  <2>2. \A a \in Members(batch)', b \in todo' : Earlier(a, b)
    BY <1>1, <1>3, <1>5 DEF SpoolInv, InNameOrder
  <2>3. ASSUME NEW i \in DOMAIN batch', NEW j \in DOMAIN batch', i < j
        PROVE  Earlier(batch'[i], batch'[j])
    <3>1. CASE j = Len(batch) + 1
      <4>1. i \in 1 .. Len(batch)
        BY <1>6, <2>3, <3>1
      <4>2. batch'[i] \in Members(batch) /\ batch'[j] = m
        BY <1>6, <3>1, <4>1
      <4> QED BY <1>3, <4>2 DEF SpoolInv, InNameOrder
    <3>2. CASE j # Len(batch) + 1
      <4>1. i \in DOMAIN batch /\ j \in DOMAIN batch
        BY <1>6, <2>3, <3>2
      <4>2. Earlier(batch[i], batch[j])
        BY <2>3, <4>1 DEF SpoolInv, InNameOrder
      <4> QED BY <1>6, <4>1, <4>2
    <3> QED BY <3>1, <3>2
  <2> QED BY <2>1, <2>2, <2>3 DEF InNameOrder
<1>14. NothingVanishes'
  BY <1>1, <1>5 DEF SpoolInv, NothingVanishes
<1> QED BY <1>7, <1>8, <1>9, <1>10, <1>11, <1>12, <1>13, <1>14 DEF SpoolInv

\* A command is applied, or answered.
LEMMA ApplyKeeps ==
  ASSUME SpoolInv, Apply
  PROVE  SpoolInv' /\ InOrderStep /\ NothingStaleStep
<1> DEFINE m == Head(batch)
<1>1. /\ engine = "apply" /\ batch # <<>> /\ engine' = "answer"
      /\ applied' = Append(applied, m) /\ batch' = Tail(batch)
      /\ UNCHANGED <<diskVars, st, named, present, todo, lives, wiped, crashed, prior, stale>>
  BY DEF Apply, RestOfBatch
<1>2. /\ batch \in Seq(Clients) /\ applied \in Seq(Clients) /\ SpoolTypeOK /\ todo = {}
      /\ named \in Seq(Clients) /\ Numbered
  BY <1>1 DEF SpoolInv, SpoolTypeOK, InHand
<1>3. /\ m \in Members(batch) /\ m = batch[1] /\ m \in Clients
      /\ Tail(batch) \in Seq(Clients) /\ Len(Tail(batch)) = Len(batch) - 1 /\ Len(batch) \in Nat \ {0}
      /\ \A i \in DOMAIN Tail(batch) : Tail(batch)[i] = batch[i + 1] /\ i + 1 \in DOMAIN batch
      /\ Members(Tail(batch)) \subseteq Members(batch)
      /\ \A y \in Members(batch) : y = m \/ y \in Members(Tail(batch))
  BY <1>1, <1>2, MembersTail
<1>4. DOMAIN batch = 1 .. Len(batch) /\ DOMAIN Tail(batch) \subseteq Nat \ {0}
  BY <1>2, <1>3
<1> HIDE DEF m
<1> USE DEF diskVars
<1>5. m \notin Members(Tail(batch))
  BY <1>3, <1>4 DEF SpoolInv, InOnePlace, Members
<1>6. Members(batch)' = Members(Tail(batch))
  BY <1>1 DEF Members
<1>7. Members(applied)' = Members(applied) \cup {m} /\ Members(applied') = Members(applied) \cup {m}
  <2>1. Members(Append(applied, m)) = Members(applied) \cup {m}
    BY <1>2, <1>3, MembersAppend
  <2> QED BY <1>1, <2>1 DEF Members
<1>8. m \notin files /\ m \notin Members(applied)
  BY <1>3 DEF SpoolInv, InOnePlace
<1>9. SpoolTypeOK'
  <2>1. applied' \in Seq(Clients) /\ batch' \in Seq(Clients)
    BY <1>1, <1>2, <1>3
  <2> QED BY <1>1, <1>2, <2>1 DEF SpoolTypeOK, Running
<1>10. InOnePlace'
  <2>1. \A i, j \in DOMAIN batch' : batch'[i] = batch'[j] => i = j
    BY <1>1, <1>3, <1>4 DEF SpoolInv, InOnePlace
  <2>2. AtMostOnce'
    <3>1. /\ DOMAIN applied = 1 .. Len(applied) /\ Len(applied) \in Nat
          /\ DOMAIN applied' = 1 .. (Len(applied) + 1)
          /\ \A i \in 1 .. Len(applied) : applied'[i] = applied[i] /\ applied'[i] \in Members(applied)
          /\ applied'[Len(applied) + 1] = m
      <4>1. /\ DOMAIN Append(applied, m) = 1 .. (Len(applied) + 1)
            /\ \A i \in 1 .. Len(applied) : Append(applied, m)[i] = applied[i]
            /\ Append(applied, m)[Len(applied) + 1] = m
        BY <1>2
      <4> QED BY <1>1, <1>2, <4>1 DEF Members
    <3> QED BY <1>8, <3>1 DEF SpoolInv, InOnePlace, AtMostOnce
  <2>3. \A c \in files' : c \notin Members(batch)' /\ c \notin Members(applied)'
    BY <1>1, <1>3, <1>6, <1>7, <1>8 DEF SpoolInv, InOnePlace
  <2>4. \A c \in Members(batch)' : c \notin Members(applied)'
    BY <1>3, <1>5, <1>6, <1>7 DEF SpoolInv, InOnePlace
  <2> QED BY <2>1, <2>2, <2>3, <2>4 DEF InOnePlace
<1>11. LandedOnce'
  BY <1>1, <1>3, <1>6, <1>7 DEF SpoolInv, LandedOnce
<1>12. InHand'
  <2>1. applied' # <<>>
    BY <1>1, <1>2, <1>3
  <2> QED BY <1>1, <1>2, <1>3, <1>6, <1>7, <2>1 DEF SpoolInv, InHand, Draining
<1>13. Swept'
  BY <1>1, <1>3, <1>6 DEF SpoolInv, Swept
<1>14. Numbered'
  BY <1>1 DEF SpoolInv, Numbered, Members, Earlier
<1>15. InNameOrder'
  <2>1. \A a, b : Earlier(a, b)' <=> Earlier(a, b)
    BY <1>1 DEF Earlier
  <2>2. \A a \in Members(batch)', b \in todo' : Earlier(a, b)
    BY <1>1, <1>2
  <2>3. \A i, j \in DOMAIN batch' : i < j => Earlier(batch'[i], batch'[j])
    BY <1>1, <1>3, <1>4 DEF SpoolInv, InNameOrder
  <2> QED BY <2>1, <2>2, <2>3 DEF InNameOrder
<1>16. NothingVanishes'
  BY <1>1, <1>3, <1>6, <1>7 DEF SpoolInv, NothingVanishes
<1>17. InOrderStep
  <2> SUFFICES ASSUME NEW x \in prior[m] \cap present PROVE x \in Members(applied')
    BY <1>7 DEF InOrderStep
  <2>1. Earlier(x, m)
    BY <1>2, <1>3 DEF Numbered
  <2>2. CASE x \in Members(Tail(batch))
    <3>1. PICK i \in DOMAIN Tail(batch) : Tail(batch)[i] = x
      BY <2>2 DEF Members
    <3>2. batch[i + 1] = x /\ i + 1 \in DOMAIN batch /\ 1 \in DOMAIN batch /\ 1 < i + 1
      BY <1>3, <1>4, <3>1
    <3>3. Earlier(m, x)
      BY <1>3, <3>2 DEF SpoolInv, InNameOrder
    <3> QED BY <1>2, <2>1, <3>3, OneWay
  <2>3. x \in Members(batch) \cup Members(applied)
    BY <1>1, <1>2 DEF SpoolInv, InHand, Draining
  <2> QED BY <1>3, <1>7, <2>2, <2>3
<1>18. NothingStaleStep
  BY <1>1, <1>3, <1>7 DEF NothingStaleStep, SpoolInv, Swept
<1> QED BY <1>9, <1>10, <1>11, <1>12, <1>13, <1>14, <1>15, <1>16, <1>17, <1>18 DEF SpoolInv

LEMMA AnswerKeeps ==
  ASSUME SpoolInv, WriteResult
  PROVE  SpoolInv'
<1>1. applied \in Seq(Clients) /\ applied # <<>>
  BY DEF SpoolInv, SpoolTypeOK, InHand, WriteResult
<1>2. applied[Len(applied)] \in Clients
  BY <1>1
<1>3. /\ UNCHANGED <<resets, files, tmps, st, named, present, todo, batch, lives, ghostVars>>
      /\ engine = "answer" /\ engine' = "apply" /\ results' \subseteq Clients
  BY <1>2 DEF WriteResult, ToAnswer, SpoolInv, SpoolTypeOK
<1> USE DEF ghostVars
<1>4. Members(batch)' = Members(batch) /\ Members(applied)' = Members(applied)
  BY <1>3 DEF Members
<1>5. SpoolTypeOK'
  BY <1>3 DEF SpoolInv, SpoolTypeOK, Running
<1>6. InOnePlace' /\ LandedOnce' /\ NothingVanishes'
  BY <1>3, <1>4 DEF SpoolInv, InOnePlace, AtMostOnce, LandedOnce, NothingVanishes
<1>7. InHand' /\ Swept'
  BY <1>3, <1>4 DEF SpoolInv, InHand, Swept, Draining
<1>8. Numbered' /\ InNameOrder'
  BY <1>3 DEF SpoolInv, Numbered, InNameOrder, Members, Earlier
<1> QED BY <1>5, <1>6, <1>7, <1>8 DEF SpoolInv

--------------------------------------------------------------------------------
\* However engines die and come back and clients come and give up: no command is applied
\* twice or acted on after a reset should have swept it, none vanishes untold, and none
\* overtakes one that had landed before it was named (control.py: submit, drain, reset).
THEOREM SpoolKeepsItsWord == ASSUME SpoolAssumption PROVE SpoolSpec => SpoolSound
<1>1. SpoolInit => SpoolInv
  BY InitSpool
<1>2. SpoolInv /\ [SpoolNext]_spoolVars => SpoolInv' /\ (InOrderStep \/ UNCHANGED spoolVars)
                                           /\ (NothingStaleStep \/ UNCHANGED spoolVars)
  <2> SUFFICES ASSUME SpoolInv, [SpoolNext]_spoolVars
               PROVE  SpoolInv' /\ (InOrderStep \/ UNCHANGED spoolVars)
                                /\ (NothingStaleStep \/ UNCHANGED spoolVars)
    OBVIOUS
  <2>1. CASE UNCHANGED spoolVars
    BY <2>1 DEF SpoolInv, SpoolTypeOK, InOnePlace, AtMostOnce, LandedOnce, InHand, Numbered, InNameOrder,
       Swept, NothingVanishes, Members, Earlier, spoolVars, diskVars, engineVars, ghostVars
  <2>2. CASE Apply
    BY <2>2, ApplyKeeps
  <2>3. ASSUME applied' = applied PROVE InOrderStep /\ NothingStaleStep
    BY <2>3 DEF InOrderStep, NothingStaleStep, Members
  <2>4. CASE ResetCommands \/ ResetResults
    BY <2>3, <2>4, ResetKeeps DEF ResetCommands, ResetResults, ghostVars
  <2>5. CASE ScanBegins \/ ScanEnds \/ Drained \/ TickEnds
    BY <2>3, <2>5, ScanKeeps DEF ScanBegins, ScanEnds, Drained, TickEnds, ghostVars
  <2>6. CASE Read
    BY <2>3, <2>6, ReadKeeps DEF Read, ghostVars
  <2>7. CASE WriteResult
    BY <2>3, <2>7, AnswerKeeps DEF WriteResult, ghostVars
  <2>8. CASE Crash
    BY <2>3, <2>8, CrashKeeps DEF Crash
  <2>9. CASE StartEngine \/ \E c \in Clients : EnsureRunning(c)
    BY <2>3, <2>9, SpawnKeeps DEF StartEngine, EnsureRunning
  <2>10. CASE ClientWaits
    BY <2>3, <2>10, WaitsKeeps DEF ClientWaits, WriteTemp, GetResult, TimeOut, ghostVars
  <2>11. ASSUME NEW c \in Clients, Name(c) PROVE SpoolInv' /\ InOrderStep /\ NothingStaleStep
    BY <2>3, <2>11, NameKeeps DEF Name
  <2>12. ASSUME NEW c \in Clients, Land(c) PROVE SpoolInv' /\ InOrderStep /\ NothingStaleStep
    BY <2>3, <2>12, LandKeeps DEF Land, ghostVars
  <2> QED BY <2>1, <2>2, <2>4, <2>5, <2>6, <2>7, <2>8, <2>9, <2>10, <2>11, <2>12
          DEF SpoolNext, Engine, ClientWaits
<1>3. SpoolInv => SpoolTypeOK /\ AtMostOnce /\ NothingVanishes
  BY DEF SpoolInv, InOnePlace
<1> QED BY <1>1, <1>2, <1>3, PTL DEF SpoolSpec, SpoolSound, InOrder, NothingStale
================================================================================
