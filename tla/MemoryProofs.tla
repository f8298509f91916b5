------------------------------ MODULE MemoryProofs ------------------------------
(* The embodied mind, for every bound: what it keeps between turns, its memory  *)
(* and its eyes, one turn of it and the process around it (EmbodyTurns), the    *)
(* behaviors the forge has learned and the rules it writes (Learning), and the  *)
(* audio tee through which it hears (Microphone).                               *)
EXTENDS EmbodyTurns, Learning, Microphone, FiniteSetTheorems, SequenceTheorems,
        WellFoundedInduction, TLAPS

--------------------------------------------------------------------------------
(* The mind's memory                                                            *)

\* What the variables of the summary and of the eyes may hold.
MemoryTypeOK ==
  /\ past \in Nat /\ recorded \in Nat /\ past \in {recorded, recorded + 1}
  /\ summary \in SUBSET Nat /\ stale \in BOOLEAN /\ lastTurn \in Nat
  /\ pass \in [step : {"idle", "asking"}, folds : SUBSET Nat, upto : Nat]
  /\ since \in Nat /\ outrun \in SUBSET Nat /\ since <= recorded

\* A turn that had left the window when the last folded pass began is in the summary,
\* unless it fell out of reach before the pass that should have folded it.
Summed ==
  \A t \in 1 .. recorded : t <= since - SensesMax => t \in summary \/ t \in outrun

\* The same of the pass under way, once it is folded.
Gathers(t) ==
  \/ t \in pass.folds \/ t \in outrun
  \/ /\ t > since - SensesMax
     /\ t <= pass.upto - KeptTurns \/ t <= pass.upto - SensesMax - MaxBacklog

PassGathers ==
  pass.step = "asking" =>
    /\ since <= pass.upto /\ pass.upto <= recorded
    /\ \A t \in 1 .. recorded : t <= pass.upto - SensesMax => Gathers(t)

\* What the mind is told it sees is as old as it says, as long as that matters.
EyesOpen ==
  /\ clip \in [id : Nat, age : Nat] /\ ask \in [id : Nat, age : Nat]
  /\ percept \in [id : Nat, age : Nat] /\ trueAge \in Nat
  /\ percept # NoClip => trueAge = percept.age

MemoryInv == MemoryTypeOK /\ Summed /\ PassGathers /\ EyesOpen

\* Of the turns before the last n, no more than n - 1 - t come after turn t: the ones
\* a pass takes reach back to any turn with fewer than MaxBacklog after it.
LEMMA RecentReaches ==
  ASSUME NEW S \in SUBSET Nat, NEW n \in Int, NEW t \in S, WorkersAssumption,
         \A u \in S : u <= n, n - t < MaxBacklog
  PROVE  t \in Recent(S)
<1> DEFINE after == {u \in S : u > t}
<1>1. after \in SUBSET ((t + 1) .. n)
  <2> SUFFICES ASSUME NEW u \in S, u > t PROVE u \in (t + 1) .. n
    OBVIOUS
  <2>1. u \in Nat /\ t \in Nat /\ u <= n
    OBVIOUS
  <2> QED BY <2>1
<1>2. t + 1 \in Int
  OBVIOUS
<1>3. /\ IsFiniteSet((t + 1) .. n)
      /\ Cardinality((t + 1) .. n) = IF t + 1 > n THEN 0 ELSE n - (t + 1) + 1
  BY <1>2, FS_Interval
<1>4. IsFiniteSet(after) /\ Cardinality(after) <= Cardinality((t + 1) .. n)
  BY <1>1, <1>3, FS_Subset
<1>5. Cardinality(after) \in Nat
  BY <1>4, FS_CardinalityType
<1>6. t <= n /\ MaxBacklog \in Nat \ {0}
  BY DEF WorkersAssumption
<1>7. Cardinality(after) < MaxBacklog
  BY <1>3, <1>4, <1>5, <1>6
<1> QED BY <1>7 DEF Recent

LEMMA InitMemory ==
  ASSUME WorkersAssumption, MemoryInit
  PROVE  MemoryInv
<1>1. MemoryTypeOK
  <2>1. NoPass \in [step : {"idle", "asking"}, folds : SUBSET Nat, upto : Nat]
    BY DEF NoPass
  <2>2. stale \in BOOLEAN /\ outrun \in SUBSET Nat
    BY DEF MemoryInit
  <2> QED BY <2>1, <2>2 DEF MemoryInit, MemoryTypeOK
<1>2. Summed /\ PassGathers
  BY DEF MemoryInit, Summed, PassGathers, NoPass
<1>3. EyesOpen
  BY DEF MemoryInit, EyesOpen, NoClip
<1> QED BY <1>1, <1>2, <1>3 DEF MemoryInv

\* A pass that begins takes everything that left the window since the last one, when
\* that is no more than it may take.
LEMMA PollGathers ==
  ASSUME WorkersAssumption, MemoryInv, Poll
  PROVE  MemoryInv'
<1> USE DEF WorkersAssumption
<1>1. /\ lastTurn' = past /\ pass' = [step |-> "asking", folds |-> summary \cup Recent(Backlog), upto |-> recorded]
      /\ UNCHANGED <<past, recorded, summary, stale, since, outrun, eyes>>
  BY DEF Poll
<1>2. pass'.step = "asking" /\ pass'.folds = summary \cup Recent(Backlog) /\ pass'.upto = recorded
  BY <1>1
<1>3. Backlog \in SUBSET Nat /\ \A t \in Backlog : t <= recorded - SensesMax /\ t <= recorded
  BY DEF Backlog, History, Window, LastOf, MemoryInv, MemoryTypeOK
<1>4. Recent(Backlog) \in SUBSET Nat
  BY <1>3 DEF Recent
<1>5. MemoryTypeOK'
  BY <1>1, <1>4 DEF MemoryInv, MemoryTypeOK
<1>6. ASSUME NEW t \in 1 .. recorded, t <= recorded - SensesMax
      PROVE  Gathers(t)'
  <2>1. CASE t <= since - SensesMax
    BY <1>1, <1>2, <1>6, <2>1 DEF Gathers, MemoryInv, Summed
  <2>2. CASE /\ t > since - SensesMax
             /\ t > recorded - KeptTurns /\ t > recorded - SensesMax - MaxBacklog
    <3>1. recorded \in Nat /\ since \in Nat /\ SensesMax \in Nat /\ KeptTurns \in Nat /\ MaxBacklog \in Nat
      BY DEF MemoryInv, MemoryTypeOK
    <3>2. t > recorded - KeptTurns
      BY <2>2
    <3>3. t \in Backlog
      BY <1>6, <3>1, <3>2 DEF Backlog, History, Window, LastOf
    <3>4. (recorded - SensesMax) - t < MaxBacklog
      BY <2>2, <3>1
    <3>5. recorded - SensesMax \in Int
      BY <3>1
    <3>6. t \in Recent(Backlog)
      BY <1>3, <3>3, <3>4, <3>5, RecentReaches
    <3> QED BY <1>2, <3>6 DEF Gathers
  <2>3. CASE /\ t > since - SensesMax
             /\ t <= recorded - KeptTurns \/ t <= recorded - SensesMax - MaxBacklog
    BY <1>1, <1>2, <2>3 DEF Gathers
  <2>4. t \in Nat /\ {recorded, since, SensesMax, KeptTurns, MaxBacklog} \subseteq Nat
    BY DEF MemoryInv, MemoryTypeOK
  <2> QED BY <2>1, <2>2, <2>3, <2>4
<1>7. PassGathers'
  BY <1>1, <1>2, <1>6 DEF PassGathers, MemoryInv, MemoryTypeOK
<1> QED BY <1>1, <1>5, <1>7 DEF MemoryInv, Summed, EyesOpen, eyes

LEMMA FoldedKeeps ==
  ASSUME WorkersAssumption, MemoryInv, Folded
  PROVE  MemoryInv'
<1> USE DEF WorkersAssumption
<1>1. /\ pass.step = "asking" /\ summary' = pass.folds /\ stale' = FALSE /\ since' = pass.upto
      /\ outrun' = outrun \cup OutOfReach
      /\ pass' = NoPass /\ UNCHANGED <<past, recorded, lastTurn, eyes>>
  BY DEF Folded
<1>2. /\ pass.folds \in SUBSET Nat /\ pass.upto \in Nat /\ pass.upto <= recorded /\ since <= pass.upto
      /\ NoPass \in [step : {"idle", "asking"}, folds : SUBSET Nat, upto : Nat]
  BY <1>1 DEF MemoryInv, MemoryTypeOK, PassGathers, NoPass
<1>3. MemoryTypeOK'
  <2>1. stale' \in BOOLEAN
    BY <1>1
  <2>2. OutOfReach \in SUBSET Nat
    BY <1>2 DEF OutOfReach
  <2>3. outrun' \in SUBSET Nat
    BY <1>1, <2>2 DEF MemoryInv, MemoryTypeOK
  <2> QED BY <1>1, <1>2, <2>1, <2>3 DEF MemoryInv, MemoryTypeOK
<1>4. ASSUME NEW t \in 1 .. recorded, t <= pass.upto - SensesMax
      PROVE  t \in pass.folds \/ t \in outrun'
  <2>1. Gathers(t)
    BY <1>1, <1>4 DEF MemoryInv, PassGathers
  <2>2. t \in 1 .. pass.upto
    BY <1>2, <1>4
  <2> QED BY <1>1, <2>1, <2>2 DEF Gathers, OutOfReach
<1>5. Summed'
  BY <1>1, <1>4 DEF Summed
<1> QED BY <1>1, <1>3, <1>5 DEF MemoryInv, PassGathers, NoPass, EyesOpen, eyes

\* A turn that joins the history is above everything a pass was begun for.
LEMMA TurnsKeep ==
  ASSUME WorkersAssumption, MemoryInv, TurnBegins \/ TurnEnds \/ PassFails
  PROVE  MemoryInv'
<1> USE DEF WorkersAssumption
<1>1. CASE TurnBegins
  BY <1>1 DEF TurnBegins, MemoryInv, MemoryTypeOK, Summed, PassGathers, Gathers, EyesOpen, eyes
<1>2. CASE TurnEnds
  <2>1. recorded' = past /\ past = recorded + 1 /\ UNCHANGED <<past, summary, stale, lastTurn, pass, since, outrun, eyes>>
    BY <1>2 DEF TurnEnds, MemoryInv, MemoryTypeOK
  <2>2. MemoryTypeOK'
    BY <2>1 DEF MemoryInv, MemoryTypeOK
  <2>3. Summed'
    BY <2>1 DEF MemoryInv, MemoryTypeOK, Summed
  <2>4. PassGathers'
    BY <2>1 DEF MemoryInv, MemoryTypeOK, PassGathers, Gathers
  <2> QED BY <2>1, <2>2, <2>3, <2>4 DEF MemoryInv, EyesOpen, eyes
<1>3. CASE PassFails
  BY <1>3 DEF PassFails, NoPass, MemoryInv, MemoryTypeOK, Summed, PassGathers, EyesOpen, eyes
<1> QED BY <1>1, <1>2, <1>3

\* The eyes: an answer carries the age of the clip it is about, and ages with it.
LEMMA OlderType ==
  ASSUME WorkersAssumption, NEW c \in [id : Nat, age : Nat]
  PROVE  /\ Older(c) \in [id : Nat, age : Nat]
         /\ c = NoClip => Older(c) = NoClip
         /\ c # NoClip => Older(c).age = IF c.age <= StaleAfter THEN c.age + 1 ELSE c.age
         /\ Older(c) # NoClip => c # NoClip
BY DEF WorkersAssumption, Older, NoClip

LEMMA EyesKeep ==
  ASSUME WorkersAssumption, MemoryInv, Capture \/ Asker \/ Evict \/ Tick
  PROVE  MemoryInv'
<1> USE DEF WorkersAssumption
<1>1. UNCHANGED memory
  BY DEF Capture, Asker, PollClip, ClipAnswered, AskFails, Evict, Tick
<1>2. NoClip \in [id : Nat, age : Nat]
  BY DEF NoClip
<1>3. EyesOpen'
  <2>1. CASE Capture
    BY <2>1 DEF Capture, MemoryInv, EyesOpen
  <2>2. CASE PollClip
    BY <1>2, <2>2 DEF PollClip, MemoryInv, EyesOpen
  <2>3. CASE ClipAnswered
    BY <1>2, <2>3 DEF ClipAnswered, Captured, MemoryInv, EyesOpen
  <2>4. CASE AskFails
    BY <1>2, <2>4 DEF AskFails, MemoryInv, EyesOpen
  <2>5. CASE Evict
    BY <1>2, <2>5 DEF Evict, MemoryInv, EyesOpen
  <2>6. CASE Tick
    <3>1. /\ clip' = Older(clip) /\ ask' = Older(ask) /\ percept' = Older(percept)
          /\ trueAge' = IF trueAge <= StaleAfter THEN trueAge + 1 ELSE trueAge
      BY <2>6 DEF Tick
    <3>2. /\ clip' \in [id : Nat, age : Nat] /\ ask' \in [id : Nat, age : Nat]
          /\ percept' \in [id : Nat, age : Nat] /\ trueAge' \in Nat
      BY <3>1, OlderType DEF MemoryInv, EyesOpen
    <3>3. percept' # NoClip => trueAge' = percept'.age
      BY <3>1, OlderType DEF MemoryInv, EyesOpen
    <3> QED BY <3>2, <3>3 DEF EyesOpen, NoClip
  <2> QED BY <2>1, <2>2, <2>3, <2>4, <2>5, <2>6 DEF Asker
<1> QED BY <1>1, <1>3 DEF MemoryInv, MemoryTypeOK, Summed, PassGathers, Gathers, memory

LEMMA MemoryIsKept ==
  ASSUME WorkersAssumption, MemoryInv
  PROVE  MemorySound
<1>1. MemoryKept
  BY DEF MemoryInv, MemoryTypeOK, Summed, MemoryKept, Forgotten, Shown, Recently, WorkersAssumption
<1>2. SeenLately
  BY DEF MemoryInv, EyesOpen, SeenLately, Stale, WorkersAssumption
<1> QED BY <1>1, <1>2 DEF MemorySound

\* For any history, window and backlog, and however passes and questions fail or come
\* late: a turn the mind is shown neither in full nor in an unmarked summary left the
\* window after the last folded pass began, or had fallen out of the history or of a
\* pass's reach before a pass was folded that could take it (a late pass loses those
\* turns, unmarked, and no others); and what the mind is shown as seen was seen at most
\* StaleAfter ago (embody/summary.py, cli/_commands/agent.py).
THEOREM MindRemembers == WorkersAssumption => (MemorySpec => []MemorySound)
<1> SUFFICES ASSUME WorkersAssumption PROVE MemorySpec => []MemorySound
  OBVIOUS
<1>1. MemoryInit => MemoryInv
  BY InitMemory
<1>2. MemoryInv /\ [MemoryNext]_memoryVars => MemoryInv'
  <2> SUFFICES ASSUME MemoryInv, [MemoryNext]_memoryVars PROVE MemoryInv'
    OBVIOUS
  <2>1. CASE MemoryNext
    BY <2>1, PollGathers, FoldedKeeps, TurnsKeep, EyesKeep DEF MemoryNext, Producer
  <2>2. CASE UNCHANGED memoryVars
    BY <2>2 DEF memoryVars, memory, eyes, MemoryInv, MemoryTypeOK, Summed, PassGathers, Gathers, EyesOpen
  <2> QED BY <2>1, <2>2
<1>3. MemoryInv => MemorySound
  BY MemoryIsKept
<1> QED BY <1>1, <1>2, <1>3, PTL DEF MemorySpec

--------------------------------------------------------------------------------
(* What the forge has learned                                                   *)

Steps == {"new", "asked", "described", "written", "staged", "cleared", "moved", "checked", "done"}
Events == {"rejected", "staged", "activated"}

ForgeTypeOK ==
  /\ pc \in [Requests -> Steps]
  /\ quality \in [Requests -> {"good", "refused", "raises"}]
  /\ staged \in Folders \cup {Nobody} /\ active \in Folders \cup {Nobody}
  /\ outcomes \in [Requests -> SUBSET Events]
  /\ announced \in SUBSET Requests
  /\ boots.up \in BOOLEAN /\ DOMAIN boots = {"up", "n"}
  /\ ghosts \in [met : SUBSET Requests, doubt : BOOLEAN, last : Requests \cup {Nobody}]

\* The text and the code of one reply.
Own(r) == [md |-> r, ex |-> r]

\* Who has met nobody's files is alone at work, and who has met some leaves active/ in
\* doubt.
NobodyElse ==
  /\ \A r \in Requests : pc[r] = "new" => r \notin ghosts.met
  /\ \A r \in Forging : IF r \in ghosts.met THEN ghosts.doubt ELSE Forging = {r}

\* How far a request that has met nobody has come: what the folders hold of it and
\* what it was told.
Stage(r) ==
  /\ pc[r] \in {"new", "asked", "described", "written"} => outcomes[r] = {}
  /\ pc[r] = "described" => staged # Nobody /\ staged.md = r
  /\ pc[r] \in {"written", "staged", "cleared"} => staged = Own(r)
  /\ pc[r] \in {"staged", "cleared", "moved", "checked"} => quality[r] # "refused"
  /\ pc[r] \in {"staged", "cleared"} => outcomes[r] = {"staged"}
  /\ pc[r] = "cleared" => active = Nobody
  /\ pc[r] \in {"moved", "checked"} => active = Own(r) /\ outcomes[r] = {"staged", "activated"}
  /\ pc[r] = "done" => outcomes[r] \in {{"rejected"}, {"staged", "activated"}}

Staged == \A r \in Requests \ ghosts.met : Stage(r)

\* Nothing is announced, or about to be, that was not activated.
Activated ==
  \A r \in Requests :
    r \in announced \/ pc[r] \in {"moved", "checked"} => "activated" \in outcomes[r]

\* Between activations, what was learned last is what runs and what a boot finds.
Activating == \E r \in Requests : pc[r] \in {"cleared", "moved", "checked"}

LastStays ==
  ~ghosts.doubt /\ ghosts.last # Nobody =>
    /\ pc[ghosts.last] = "done" /\ quality[ghosts.last] = "good"
    /\ ~Activating => active = Own(ghosts.last) /\ (boots.up => registered = active)

ForgeInv == ForgeTypeOK /\ NobodyElse /\ Staged /\ Activated /\ LastStays

LEMMA InitForge ==
  ASSUME ForgeAssumption, ForgeInit
  PROVE  ForgeInv
<1>1. ForgeTypeOK
  BY DEF ForgeInit, ForgeTypeOK, Steps, Events
<1>2. NobodyElse /\ Staged /\ Activated /\ LastStays
  BY DEF ForgeInit, NobodyElse, Forging, Staged, Stage, Activated, LastStays
<1> QED BY <1>1, <1>2 DEF ForgeInv

\* While a request is at work, every other that has met nobody rests.
LEMMA OthersRest ==
  ASSUME ForgeInv, NEW r \in Requests, pc[r] \notin {"new", "done"},
         NEW q \in Requests, q # r, q \notin ghosts.met
  PROVE  pc[q] \in {"new", "done"}
BY DEF ForgeInv, NobodyElse, Forging

\* A folder of one request's text and code is a folder, passes unless the validator
\* refuses it, and is imported if it is good.
LEMMA OwnFolder ==
  ASSUME ForgeAssumption, NEW r \in Requests
  PROVE  /\ Own(r) \in Folders /\ Own(r) # Nobody /\ r # Nobody
         /\ Own(r).md = r /\ Own(r).ex = r
         /\ Passes(Own(r)) <=> quality[r] # "refused"
         /\ Imports(Own(r)) <=> quality[r] = "good"
<1>1. Own(r) \in Folders /\ r # Nobody
  BY DEF Own, Folders, ForgeAssumption
<1>2. Own(r) # Nobody /\ Own(r).md = r /\ Own(r).ex = r
  BY <1>1 DEF Own, ForgeAssumption
<1> QED BY <1>1, <1>2 DEF Passes, Imports

\* A step of a request at work that stays at work, or ends, keeps others where they are:
\* what is left to show is about this request and about what was learned last.
LEMMA StepOfOne ==
  ASSUME ForgeAssumption, ForgeInv, NEW r \in Requests, pc[r] \notin {"new", "done"},
         ForgeTypeOK', NEW step \in Steps \ {"new"}, To(r, step),
         \A q \in Requests : q # r => outcomes'[q] = outcomes[q] /\ quality'[q] = quality[q],
         ghosts'.met = ghosts.met, r \in ghosts.met => ghosts'.doubt = ghosts.doubt
  PROVE  /\ NobodyElse'
         /\ r \notin ghosts.met /\ Stage(r)' => Staged'
         /\ r \in ghosts.met => Staged'
<1>1. pc' = [pc EXCEPT ![r] = step]
  BY DEF To
<1>2. \A q \in Requests : q # r => pc'[q] = pc[q]
  BY <1>1 DEF ForgeInv, ForgeTypeOK
<1>3. Forging' \subseteq Forging
  BY <1>2 DEF Forging
<1>4. NobodyElse'
  <2>1. \A q \in Requests : pc'[q] = "new" => pc[q] = "new"
    BY <1>1, <1>2 DEF ForgeInv, ForgeTypeOK
  <2>2. CASE r \in ghosts.met
    BY <1>3, <2>1, <2>2 DEF NobodyElse, ForgeInv
  <2>3. CASE r \notin ghosts.met
    <3>1. Forging = {r}
      BY <2>3 DEF Forging, NobodyElse, ForgeInv
    <3> QED BY <1>3, <2>1, <2>3, <3>1 DEF NobodyElse, ForgeInv
  <2> QED BY <2>2, <2>3
<1>5. ASSUME NEW q \in Requests \ ghosts.met, q # r PROVE Stage(q)'
  <2>1. pc[q] \in {"new", "done"} /\ pc'[q] = pc[q] /\ outcomes'[q] = outcomes[q]
    BY <1>2, <1>5, OthersRest
  <2>2. Stage(q)
    BY DEF ForgeInv, Staged
  <2> QED BY <2>1, <2>2 DEF Stage
<1> QED BY <1>4, <1>5 DEF Staged

\* Before it clears active/, a request leaves what was learned last alone.
LEMMA QuietStep ==
  ASSUME ForgeInv, NEW r \in Requests, pc[r] \in {"asked", "described", "written"},
         NEW step \in Steps \ {"new", "cleared", "moved", "checked"}, To(r, step),
         \A q \in Requests : q # r => quality'[q] = quality[q],
         UNCHANGED <<active, registered, boots, ghosts>>
  PROVE  LastStays'
<1> SUFFICES ASSUME ~ghosts.doubt, ghosts.last # Nobody
             PROVE  /\ pc'[ghosts.last] = "done" /\ quality'[ghosts.last] = "good"
                    /\ ~Activating' => active = Own(ghosts.last) /\ (boots.up => registered = active)
  BY DEF LastStays
<1>1. pc' = [pc EXCEPT ![r] = step] /\ ghosts.last \in Requests /\ pc \in [Requests -> Steps]
  BY DEF To, ForgeInv, ForgeTypeOK
<1>2. /\ pc[ghosts.last] = "done" /\ quality[ghosts.last] = "good"
      /\ ~Activating => active = Own(ghosts.last) /\ (boots.up => registered = active)
  BY DEF ForgeInv, LastStays
<1>3. ghosts.last # r /\ pc'[ghosts.last] = "done" /\ quality'[ghosts.last] = "good"
  BY <1>1, <1>2
<1>4. Activating => Activating'
  BY <1>1 DEF Activating
<1> QED BY <1>2, <1>3, <1>4

\* From there on, nothing is claimed of it until the activation is over.
LEMMA LoudStep ==
  ASSUME ForgeInv, NEW r \in Requests, pc[r] \notin {"new", "done"},
         NEW step \in {"cleared", "moved", "checked"}, To(r, step),
         UNCHANGED <<quality, ghosts>>
  PROVE  LastStays'
<1> SUFFICES ASSUME ~ghosts.doubt, ghosts.last # Nobody
             PROVE  /\ pc'[ghosts.last] = "done" /\ quality'[ghosts.last] = "good"
                    /\ Activating'
  BY DEF LastStays
<1>1. pc' = [pc EXCEPT ![r] = step] /\ ghosts.last \in Requests /\ pc \in [Requests -> Steps]
  BY DEF To, ForgeInv, ForgeTypeOK
<1>2. pc[ghosts.last] = "done" /\ quality[ghosts.last] = "good"
  BY DEF ForgeInv, LastStays
<1>3. pc'[r] = step
  BY <1>1
<1> QED BY <1>1, <1>2, <1>3 DEF Activating

LEMMA NoReplyInv ==
  ASSUME ForgeAssumption, ForgeInv, NEW r \in Requests, NoReply(r)
  PROVE  ForgeInv'
<1>1. /\ pc[r] = "asked" /\ To(r, "done") /\ outcomes' = [outcomes EXCEPT ![r] = @ \cup {"rejected"}]
      /\ UNCHANGED <<quality, staged, active, registered, announced, boots, ghosts>>
  BY DEF NoReply, Goes, Tells
<1>2. pc' = [pc EXCEPT ![r] = "done"]
  BY <1>1 DEF To
<1>3. ForgeTypeOK'
  BY <1>1, <1>2 DEF ForgeInv, ForgeTypeOK, Steps, Events
<1>4. ASSUME r \notin ghosts.met PROVE Stage(r)'
  BY <1>1, <1>2, <1>4 DEF ForgeInv, ForgeTypeOK, Staged, Stage
<1>5. \A q \in Requests : q # r => outcomes'[q] = outcomes[q] /\ quality'[q] = quality[q]
  BY <1>1 DEF ForgeInv, ForgeTypeOK
<1>6. "done" \in Steps \ {"new", "cleared", "moved", "checked"}
  BY DEF Steps
<1>7. NobodyElse' /\ Staged'
  BY <1>1, <1>3, <1>4, <1>5, <1>6, StepOfOne
<1>8. LastStays'
  BY <1>1, <1>5, <1>6, QuietStep
<1>9. Activated'
  BY <1>1, <1>2 DEF ForgeInv, ForgeTypeOK, Activated
<1> QED BY <1>3, <1>7, <1>8, <1>9 DEF ForgeInv

LEMMA DescribeInv ==
  ASSUME ForgeAssumption, ForgeInv, NEW r \in Requests, Describe(r)
  PROVE  ForgeInv'
<1>1. /\ pc[r] = "asked" /\ To(r, "described")
      /\ UNCHANGED <<active, registered, outcomes, announced, boots, ghosts>>
  BY DEF Describe, Goes
<1>2. pc' = [pc EXCEPT ![r] = "described"]
  BY <1>1 DEF To
<1>3. PICK how \in Qualities : quality' = [quality EXCEPT ![r] = how]
  BY DEF Describe
<1>4. staged' \in Folders /\ staged'.md = r
  <2>1. staged' = [(IF staged = Nobody THEN Empty ELSE staged) EXCEPT !.md = r]
    BY DEF Describe
  <2>2. (IF staged = Nobody THEN Empty ELSE staged) \in Folders
    BY DEF ForgeInv, ForgeTypeOK, Empty, Folders
  <2> QED BY <2>1, <2>2 DEF Folders
<1>5. ForgeTypeOK'
  BY <1>1, <1>2, <1>3, <1>4 DEF ForgeInv, ForgeTypeOK, Steps, ForgeAssumption
<1>6. ASSUME r \notin ghosts.met PROVE Stage(r)'
  BY <1>1, <1>2, <1>4, <1>6 DEF ForgeInv, ForgeTypeOK, Staged, Stage, ForgeAssumption
<1>7. \A q \in Requests : q # r => outcomes'[q] = outcomes[q] /\ quality'[q] = quality[q]
  BY <1>1, <1>3 DEF ForgeInv, ForgeTypeOK
<1>8. "described" \in Steps \ {"new", "cleared", "moved", "checked"}
  BY DEF Steps
<1>9. NobodyElse' /\ Staged'
  BY <1>1, <1>5, <1>6, <1>7, <1>8, StepOfOne
<1>10. LastStays'
  BY <1>1, <1>7, <1>8, QuietStep
<1>11. Activated'
  BY <1>1, <1>2 DEF ForgeInv, ForgeTypeOK, Activated
<1> QED BY <1>5, <1>9, <1>10, <1>11 DEF ForgeInv

LEMMA WriteInv ==
  ASSUME ForgeAssumption, ForgeInv, NEW r \in Requests, Write(r)
  PROVE  ForgeInv'
<1>1. /\ pc[r] = "described" /\ UNCHANGED <<quality, active, registered, announced, boots, ghosts>>
  BY DEF Write, Goes
<1>2. PICK step \in {"done", "written"} : To(r, step)
  BY DEF Write
<1>3. pc' = [pc EXCEPT ![r] = step] /\ step \in Steps \ {"new", "cleared", "moved", "checked"}
  BY <1>2 DEF To, Steps
<1>4. ForgeTypeOK'
  <2>1. CASE staged = Nobody
    <3>1. outcomes' = [outcomes EXCEPT ![r] = @ \cup {"rejected"}] /\ staged' = staged
      BY <2>1 DEF Write, Tells
    <3> QED BY <1>1, <1>3, <3>1 DEF ForgeInv, ForgeTypeOK, Steps, Events
  <2>2. CASE staged # Nobody
    <3>1. staged' = [staged EXCEPT !.ex = r] /\ outcomes' = outcomes /\ staged \in Folders
      BY <2>2 DEF Write, ForgeInv, ForgeTypeOK
    <3>2. staged' \in Folders
      BY <3>1 DEF Folders
    <3> QED BY <1>1, <1>3, <3>1, <3>2 DEF ForgeInv, ForgeTypeOK, Steps
  <2> QED BY <2>1, <2>2
<1>5. ASSUME r \notin ghosts.met PROVE Stage(r)'
  <2>1. staged # Nobody /\ staged.md = r /\ outcomes[r] = {}
    BY <1>1, <1>5 DEF ForgeInv, Staged, Stage
  <2>2. staged' = [staged EXCEPT !.ex = r] /\ outcomes' = outcomes /\ To(r, "written")
    BY <2>1 DEF Write
  <2>3. staged' = Own(r) /\ pc'[r] = "written"
    BY <2>1, <2>2 DEF Own, To, Folders, ForgeInv, ForgeTypeOK
  <2> QED BY <2>1, <2>2, <2>3 DEF Stage
<1>6. \A q \in Requests : q # r => outcomes'[q] = outcomes[q] /\ quality'[q] = quality[q]
  BY <1>1 DEF Write, Tells, ForgeInv, ForgeTypeOK
<1>7. NobodyElse' /\ Staged'
  BY <1>1, <1>2, <1>3, <1>4, <1>5, <1>6, StepOfOne
<1>8. LastStays'
  BY <1>1, <1>2, <1>3, <1>6, QuietStep
<1>9. Activated'
  <2>1. \A q \in Requests : outcomes[q] \subseteq outcomes'[q]
    BY DEF Write, Tells, ForgeInv, ForgeTypeOK
  <2> QED BY <1>1, <1>3, <2>1 DEF ForgeInv, ForgeTypeOK, Activated
<1> QED BY <1>4, <1>7, <1>8, <1>9 DEF ForgeInv

LEMMA ValidateInv ==
  ASSUME ForgeAssumption, ForgeInv, NEW r \in Requests, Validate(r)
  PROVE  ForgeInv'
<1>1. /\ pc[r] = "written" /\ UNCHANGED <<quality, active, registered, announced, boots, ghosts>>
  BY DEF Validate, Goes
<1>2. PICK step \in {"done", "staged"} : To(r, step)
  BY DEF Validate
<1>3. pc' = [pc EXCEPT ![r] = step] /\ step \in Steps \ {"new", "cleared", "moved", "checked"}
  BY <1>2 DEF To, Steps
<1>4. PICK said \in {"staged", "rejected"} : outcomes' = [outcomes EXCEPT ![r] = @ \cup {said}]
  BY DEF Validate, Tells
<1>5. ForgeTypeOK'
  <2>1. staged' \in Folders \cup {Nobody}
    BY DEF Validate, ForgeInv, ForgeTypeOK
  <2> QED BY <1>1, <1>3, <1>4, <2>1 DEF ForgeInv, ForgeTypeOK, Steps, Events
<1>6. ASSUME r \notin ghosts.met PROVE Stage(r)'
  <2>1. outcomes[r] = {} /\ staged = Own(r)
    BY <1>1, <1>6 DEF ForgeInv, Staged, Stage
  <2>2. CASE Passes(staged)
    <3>1. outcomes' = [outcomes EXCEPT ![r] = @ \cup {"staged"}] /\ staged' = staged /\ To(r, "staged")
      BY <2>2 DEF Validate, Tells
    <3>2. pc'[r] = "staged" /\ outcomes'[r] = {"staged"}
      BY <2>1, <3>1 DEF To, ForgeInv, ForgeTypeOK
    <3>3. quality'[r] # "refused"
      BY <1>1, <2>1, <2>2, OwnFolder
    <3> QED BY <2>1, <3>1, <3>2, <3>3 DEF Stage, Own
  <2>3. CASE ~Passes(staged)
    <3>1. outcomes' = [outcomes EXCEPT ![r] = @ \cup {"rejected"}] /\ To(r, "done")
      BY <2>3 DEF Validate, Tells
    <3>2. pc'[r] = "done" /\ outcomes'[r] = {"rejected"}
      BY <2>1, <3>1 DEF To, ForgeInv, ForgeTypeOK
    <3> QED BY <3>2 DEF Stage
  <2> QED BY <2>2, <2>3
<1>7. \A q \in Requests : q # r => outcomes'[q] = outcomes[q] /\ quality'[q] = quality[q]
  BY <1>1, <1>4 DEF ForgeInv, ForgeTypeOK
<1>8. NobodyElse' /\ Staged'
  BY <1>1, <1>2, <1>3, <1>5, <1>6, <1>7, StepOfOne
<1>9. LastStays'
  BY <1>1, <1>2, <1>3, <1>7, QuietStep
<1>10. Activated'
  <2>1. \A q \in Requests : outcomes[q] \subseteq outcomes'[q]
    BY <1>4 DEF ForgeInv, ForgeTypeOK
  <2> QED BY <1>1, <1>3, <2>1 DEF ForgeInv, ForgeTypeOK, Activated
<1> QED BY <1>5, <1>8, <1>9, <1>10 DEF ForgeInv

LEMMA ClearInv ==
  ASSUME ForgeAssumption, ForgeInv, NEW r \in Requests, ClearOld(r)
  PROVE  ForgeInv'
<1>1. /\ pc[r] = "staged" /\ To(r, "cleared") /\ active' = Nobody
      /\ UNCHANGED <<quality, staged, registered, outcomes, announced, boots, ghosts>>
  BY DEF ClearOld, Goes, Removed
<1>2. pc' = [pc EXCEPT ![r] = "cleared"]
  BY <1>1 DEF To
<1>3. ForgeTypeOK'
  BY <1>1, <1>2 DEF ForgeInv, ForgeTypeOK, Steps
<1>4. ASSUME r \notin ghosts.met PROVE Stage(r)'
  BY <1>1, <1>2, <1>4 DEF ForgeInv, ForgeTypeOK, Staged, Stage, Own
<1>5. "cleared" \in Steps \ {"new"}
  BY DEF Steps
<1>6. NobodyElse' /\ Staged'
  BY <1>1, <1>3, <1>4, <1>5, StepOfOne
<1>7. LastStays'
  BY <1>1, LoudStep
<1>8. Activated'
  BY <1>1, <1>2 DEF ForgeInv, ForgeTypeOK, Activated
<1> QED BY <1>3, <1>6, <1>7, <1>8 DEF ForgeInv

\* Who met nobody finds its folder where it staged it.
LEMMA MoveInv ==
  ASSUME ForgeAssumption, ForgeInv, NEW r \in Requests, MoveIn(r)
  PROVE  ForgeInv'
<1>1. pc[r] = "cleared" /\ UNCHANGED <<quality, registered, announced, boots, ghosts>>
  BY DEF MoveIn, Goes
<1>2. CASE staged = Nobody
  <2>1. To(r, "done") /\ UNCHANGED <<staged, active, outcomes>> /\ pc' = [pc EXCEPT ![r] = "done"]
    BY <1>2 DEF MoveIn, To
  <2>2. r \in ghosts.met
    BY <1>1, <1>2, OwnFolder DEF ForgeInv, Staged, Stage
  <2>3. ForgeTypeOK'
    BY <1>1, <2>1 DEF ForgeInv, ForgeTypeOK, Steps
  <2>4. "done" \in Steps \ {"new"}
    BY DEF Steps
  <2>5. NobodyElse' /\ Staged'
    BY <1>1, <2>1, <2>2, <2>3, <2>4, StepOfOne
  <2>6. LastStays'
    BY <1>1, <2>2 DEF LastStays, ForgeInv, NobodyElse, Forging
  <2>7. Activated'
    BY <1>1, <2>1 DEF ForgeInv, ForgeTypeOK, Activated
  <2> QED BY <2>3, <2>5, <2>6, <2>7 DEF ForgeInv
<1>3. CASE staged # Nobody
  <2>1. /\ To(r, "moved") /\ outcomes' = [outcomes EXCEPT ![r] = @ \cup {"activated"}] /\ staged' = Nobody
        /\ active' = IF active = Nobody THEN staged ELSE active
    BY <1>3 DEF MoveIn, Tells
  <2>2. pc' = [pc EXCEPT ![r] = "moved"]
    BY <2>1 DEF To
  <2>3. ForgeTypeOK'
    BY <1>1, <2>1, <2>2 DEF ForgeInv, ForgeTypeOK, Steps, Events
  <2>4. ASSUME r \notin ghosts.met PROVE Stage(r)'
    <3>1. staged = Own(r) /\ active = Nobody /\ quality[r] # "refused" /\ outcomes[r] = {"staged"}
      BY <1>1, <2>4 DEF ForgeInv, Staged, Stage
    <3>2. active' = Own(r) /\ outcomes'[r] = {"staged", "activated"} /\ pc'[r] = "moved"
      BY <2>1, <2>2, <3>1 DEF ForgeInv, ForgeTypeOK
    <3> QED BY <1>1, <3>1, <3>2 DEF Stage, Own
  <2>5. \A q \in Requests : q # r => outcomes'[q] = outcomes[q]
    BY <2>1 DEF ForgeInv, ForgeTypeOK
  <2>6. "moved" \in Steps \ {"new"}
    BY DEF Steps
  <2>7. NobodyElse' /\ Staged'
    BY <1>1, <2>1, <2>3, <2>4, <2>5, <2>6, StepOfOne
  <2>8. LastStays'
    BY <1>1, <2>1, LoudStep
  <2>9. Activated'
    BY <1>1, <2>1, <2>2 DEF ForgeInv, ForgeTypeOK, Activated
  <2> QED BY <2>3, <2>7, <2>8, <2>9 DEF ForgeInv
<1> QED BY <1>2, <1>3

LEMMA RecheckInv ==
  ASSUME ForgeAssumption, ForgeInv, NEW r \in Requests, Recheck(r)
  PROVE  ForgeInv'
<1>1. /\ pc[r] = "moved" /\ To(r, IF Passes(active) THEN "checked" ELSE "done")
      /\ UNCHANGED <<quality, staged, active, registered, outcomes, announced, boots, ghosts>>
  BY DEF Recheck, Goes
<1>2. PICK step \in {"checked", "done"} : To(r, step) /\ (Passes(active) => step = "checked")
  BY <1>1
<1>3. pc' = [pc EXCEPT ![r] = step] /\ step \in Steps \ {"new"}
  BY <1>2 DEF To, Steps
<1>4. ForgeTypeOK'
  BY <1>1, <1>3 DEF ForgeInv, ForgeTypeOK, Steps
<1>5. ASSUME r \notin ghosts.met PROVE step = "checked" /\ Stage(r)'
  <2>1. active = Own(r) /\ quality[r] # "refused" /\ outcomes[r] = {"staged", "activated"}
    BY <1>1, <1>5 DEF ForgeInv, Staged, Stage
  <2>2. step = "checked"
    BY <1>2, <2>1, OwnFolder
  <2>3. pc'[r] = "checked"
    BY <1>3, <2>2 DEF ForgeInv, ForgeTypeOK
  <2> QED BY <1>1, <2>1, <2>2, <2>3 DEF Stage, Own
<1>6. NobodyElse' /\ Staged'
  BY <1>1, <1>2, <1>3, <1>4, <1>5, StepOfOne
<1>7. LastStays'
  <2>1. CASE r \in ghosts.met
    BY <1>1, <2>1 DEF LastStays, ForgeInv, NobodyElse, Forging
  <2>2. CASE r \notin ghosts.met
    BY <1>1, <1>2, <1>5, <2>2, LoudStep
  <2> QED BY <2>1, <2>2
<1>8. Activated'
  BY <1>1, <1>3 DEF ForgeInv, ForgeTypeOK, Activated
<1> QED BY <1>4, <1>6, <1>7, <1>8 DEF ForgeInv

LEMMA RegisterInv ==
  ASSUME ForgeAssumption, ForgeInv, NEW r \in Requests, Register(r)
  PROVE  ForgeInv'
<1>1. /\ pc[r] = "checked" /\ To(r, "done") /\ boots.up
      /\ UNCHANGED <<quality, staged, active, outcomes, boots>>
  BY DEF Register, Goes
<1>2. pc' = [pc EXCEPT ![r] = "done"]
  BY <1>1 DEF To
<1>3. /\ ghosts'.met = ghosts.met
      /\ r \in ghosts.met => ghosts.doubt /\ ghosts'.doubt = ghosts.doubt
  <2>1. r \in ghosts.met => ghosts.doubt
    BY <1>1 DEF ForgeInv, NobodyElse, Forging
  <2>2. CASE Imports(active)
    <3>1. ghosts' = [ghosts EXCEPT !.last = r, !.doubt = @ /\ r \in ghosts.met]
      BY <2>2 DEF Register
    <3> QED BY <2>1, <3>1 DEF ForgeInv, ForgeTypeOK
  <2>3. CASE ~Imports(active)
    <3>1. ghosts' = [ghosts EXCEPT !.doubt = TRUE]
      BY <2>3 DEF Register
    <3> QED BY <2>1, <3>1 DEF ForgeInv, ForgeTypeOK
  <2> QED BY <2>2, <2>3
<1>4. ForgeTypeOK'
  <2>1. CASE Imports(active)
    <3>1. ghosts' = [ghosts EXCEPT !.last = r, !.doubt = @ /\ r \in ghosts.met]
      BY <2>1 DEF Register
    <3>2. (ghosts.doubt /\ r \in ghosts.met) \in BOOLEAN
      OBVIOUS
    <3>3. ghosts' \in [met : SUBSET Requests, doubt : BOOLEAN, last : Requests \cup {Nobody}]
      BY <3>1, <3>2 DEF ForgeInv, ForgeTypeOK
    <3> QED BY <1>1, <1>2, <2>1, <3>3 DEF Register, ForgeInv, ForgeTypeOK, Steps
  <2>2. CASE ~Imports(active)
    BY <1>1, <1>2, <2>2 DEF Register, ForgeInv, ForgeTypeOK, Steps
  <2> QED BY <2>1, <2>2
<1>5. ASSUME r \notin ghosts.met PROVE Stage(r)'
  BY <1>1, <1>2, <1>5 DEF ForgeInv, ForgeTypeOK, Staged, Stage
<1>6. "done" \in Steps \ {"new"}
  BY DEF Steps
<1>7. NobodyElse' /\ Staged'
  BY <1>1, <1>3, <1>4, <1>5, <1>6, StepOfOne
<1>8. LastStays'
  <2> SUFFICES ASSUME ~ghosts'.doubt, ghosts'.last # Nobody
               PROVE  /\ pc'[ghosts'.last] = "done" /\ quality'[ghosts'.last] = "good"
                      /\ active' = Own(ghosts'.last) /\ registered' = active'
    BY DEF LastStays
  <2>1. Imports(active) /\ r \notin ghosts.met
    BY <1>3 DEF Register, ForgeInv, ForgeTypeOK
  <2>2. registered' = active /\ ghosts'.last = r
    BY <2>1 DEF Register, ForgeInv, ForgeTypeOK
  <2>3. active = Own(r)
    BY <1>1, <2>1 DEF ForgeInv, Staged, Stage
  <2>4. quality[r] = "good"
    BY <2>1, <2>3, OwnFolder
  <2> QED BY <1>1, <1>2, <2>2, <2>3, <2>4 DEF ForgeInv, ForgeTypeOK
<1>9. Activated'
  <2>1. announced' \subseteq announced \cup {r}
    BY DEF Register
  <2> QED BY <1>1, <1>2, <2>1 DEF ForgeInv, ForgeTypeOK, Activated
<1> QED BY <1>4, <1>7, <1>8, <1>9 DEF ForgeInv

\* A request that begins while others are at work has met them, and they it.
LEMMA DispatchInv ==
  ASSUME ForgeAssumption, ForgeInv, NEW r \in Requests, Dispatch(r)
  PROVE  ForgeInv'
<1>1. /\ pc[r] = "new" /\ pc' = [pc EXCEPT ![r] = "asked"]
      /\ UNCHANGED <<quality, staged, active, registered, outcomes, announced, boots>>
  BY DEF Dispatch, Goes, To
<1>2. PICK more \in SUBSET Requests :
        /\ ghosts' = [ghosts EXCEPT !.met = @ \cup more, !.doubt = @ \/ ~Alone(r)]
        /\ more = {} => Alone(r)
        /\ more # {} => ~Alone(r) /\ more = Forging \cup {r}
  <2>1. CASE Alone(r)
    <3>1. ghosts' = [ghosts EXCEPT !.met = @ \cup {}, !.doubt = @ \/ ~Alone(r)]
      BY <2>1, Zenon DEF Dispatch
    <3> QED BY <2>1, <3>1
  <2>2. CASE ~Alone(r)
    <3>1. ghosts' = [ghosts EXCEPT !.met = @ \cup (Forging \cup {r}), !.doubt = @ \/ ~Alone(r)]
      BY <2>2, Zenon DEF Dispatch
    <3>2. Forging \cup {r} \in SUBSET Requests
      BY DEF Forging
    <3> QED BY <2>2, <3>1, <3>2
  <2> QED BY <2>1, <2>2
<1>3. /\ ghosts'.met = ghosts.met \cup more /\ ghosts'.last = ghosts.last
      /\ ghosts.doubt \/ ~Alone(r) => ghosts'.doubt
  BY <1>2 DEF ForgeInv, ForgeTypeOK
<1>4. ForgeTypeOK'
  BY <1>1, <1>2 DEF ForgeInv, ForgeTypeOK, Steps
<1>5. /\ pc'[r] = "asked" /\ \A q \in Requests : q # r => pc'[q] = pc[q]
      /\ Forging' = Forging \cup {r} /\ r \notin Forging
  BY <1>1 DEF ForgeInv, ForgeTypeOK, Forging
<1>6. NobodyElse'
  <2>1. CASE more = {}
    BY <1>1, <1>2, <1>3, <1>5, <2>1 DEF ForgeInv, NobodyElse, Alone
  <2>2. CASE more # {}
    <3>1. ghosts'.doubt /\ \A q \in Forging' : q \in ghosts'.met
      BY <1>2, <1>3, <1>5, <2>2
    <3>2. more \subseteq Forging \cup {r}
      BY <1>2, <2>2
    <3>3. ASSUME NEW q \in Requests, pc'[q] = "new" PROVE q \notin ghosts'.met
      <4>1. q # r /\ pc[q] = "new"
        BY <1>5, <3>3
      <4> QED BY <1>3, <3>2, <4>1 DEF ForgeInv, NobodyElse, Forging
    <3> QED BY <3>1, <3>3 DEF NobodyElse
  <2> QED BY <2>1, <2>2
<1>7. Staged'
  <2> SUFFICES ASSUME NEW q \in Requests, q \notin ghosts.met PROVE Stage(q)'
    BY <1>3 DEF Staged
  <2>1. Stage(q)
    BY DEF ForgeInv, Staged
  <2>2. CASE q = r
    BY <1>1, <1>5, <2>1, <2>2 DEF Stage
  <2>3. CASE q # r
    BY <1>1, <1>5, <2>1, <2>3 DEF Stage
  <2> QED BY <2>2, <2>3
<1>8. LastStays'
  <2>1. Activating <=> Activating'
    BY <1>1, <1>5 DEF Activating
  <2> QED BY <1>1, <1>3, <1>5, <2>1 DEF ForgeInv, ForgeTypeOK, LastStays
<1>9. Activated'
  BY <1>1, <1>5 DEF ForgeInv, Activated
<1> QED BY <1>4, <1>6, <1>7, <1>8, <1>9 DEF ForgeInv

LEMMA DieInv ==
  ASSUME ForgeAssumption, ForgeInv, ForgeDies
  PROVE  ForgeInv'
<1>1. /\ registered' = Nobody /\ boots' = [boots EXCEPT !.up = FALSE]
      /\ UNCHANGED <<quality, staged, active, outcomes, announced>>
  BY DEF ForgeDies
<1>2. \A r \in Requests : pc'[r] = IF r \in Forging THEN "done" ELSE pc[r]
  BY DEF ForgeDies
<1>3. /\ ghosts'.met = ghosts.met \cup Forging /\ ghosts'.last = ghosts.last
      /\ ghosts.doubt => ghosts'.doubt
      /\ Activating => ghosts'.doubt
  BY DEF ForgeDies, ForgeInv, ForgeTypeOK, Forging, Activating
<1>4. ForgeTypeOK'
  <2>1. pc' \in [Requests -> Steps]
    BY DEF ForgeDies, ForgeInv, ForgeTypeOK, Steps
  <2>2. ghosts' \in [met : SUBSET Requests, doubt : BOOLEAN, last : Requests \cup {Nobody}]
    BY DEF ForgeDies, ForgeInv, ForgeTypeOK, Forging
  <2> QED BY <1>1, <2>1, <2>2 DEF ForgeInv, ForgeTypeOK
<1>5. Forging' = {}
  BY <1>2 DEF Forging
<1>6. Staged'
  <2> SUFFICES ASSUME NEW q \in Requests, q \notin ghosts.met, q \notin Forging PROVE Stage(q)'
    BY <1>3 DEF Staged
  <2>1. Stage(q) /\ pc'[q] = pc[q] /\ pc[q] \in {"new", "done"}
    BY <1>2 DEF ForgeInv, Staged, Forging
  <2> QED BY <1>1, <2>1 DEF Stage
<1>7. LastStays'
  <2> SUFFICES ASSUME ~ghosts'.doubt, ghosts'.last # Nobody
               PROVE  LastStays'
    BY DEF LastStays
  <2>1. ~Activating /\ ~ghosts.doubt /\ ghosts.last # Nobody /\ ghosts.last \in Requests
    BY <1>3 DEF ForgeInv, ForgeTypeOK
  <2>2. pc[ghosts.last] = "done" /\ pc'[ghosts.last] = "done" /\ active = Own(ghosts.last)
    BY <1>2, <2>1 DEF ForgeInv, LastStays, Forging
  <2>3. ~boots'.up
    BY <1>1 DEF ForgeInv, ForgeTypeOK
  <2> QED BY <1>1, <1>3, <2>1, <2>2, <2>3 DEF ForgeInv, ForgeTypeOK, LastStays
<1>8. Activated'
  BY <1>1, <1>2 DEF ForgeInv, Activated, Forging
<1>9. NobodyElse'
  BY <1>2, <1>3, <1>5 DEF ForgeInv, NobodyElse, Forging
<1> QED BY <1>4, <1>6, <1>7, <1>8, <1>9 DEF ForgeInv

LEMMA BootInv ==
  ASSUME ForgeAssumption, ForgeInv, Boot
  PROVE  ForgeInv'
<1>1. /\ boots' = [up |-> TRUE, n |-> boots.n + 1]
      /\ registered' = IF Passes(active) /\ Imports(active) THEN active ELSE Nobody
      /\ UNCHANGED <<pc, quality, staged, active, outcomes, announced, ghosts>>
  BY DEF Boot
<1>2. ForgeTypeOK'
  BY <1>1 DEF ForgeInv, ForgeTypeOK
<1>3. NobodyElse' /\ Staged' /\ Activated'
  BY <1>1 DEF ForgeInv, NobodyElse, Forging, Staged, Stage, Own, Activated
<1>4. LastStays'
  <2> SUFFICES ASSUME ~ghosts.doubt, ghosts.last # Nobody
               PROVE  LastStays'
    BY <1>1 DEF LastStays
  <2>1. /\ pc[ghosts.last] = "done" /\ quality[ghosts.last] = "good" /\ ghosts.last \in Requests
        /\ ~Activating => active = Own(ghosts.last)
    BY DEF ForgeInv, ForgeTypeOK, LastStays
  <2>2. ~Activating => registered' = active
    BY <1>1, <2>1, OwnFolder
  <2> QED BY <1>1, <2>1, <2>2 DEF LastStays, Activating
<1> QED BY <1>2, <1>3, <1>4 DEF ForgeInv

LEMMA ForgeInvSound ==
  ASSUME ForgeAssumption, ForgeInv
  PROVE  ForgeSound
<1>1. Learned
  <2> SUFFICES ASSUME boots.up, Forging = {}, ~ghosts.doubt, ghosts.last # Nobody
               PROVE  registered = Own(ghosts.last) /\ active = registered
    BY DEF Learned, Own
  <2>1. ~Activating
    BY DEF Activating, Forging
  <2> QED BY <2>1 DEF ForgeInv, LastStays
<1>2. OutcomeTold
  BY DEF ForgeInv, Staged, Stage, Activated, OutcomeTold
<1> QED BY <1>1, <1>2 DEF ForgeSound

\* For any requests, replies, starts and deaths: once a request that ran alone is learned,
\* and until two overlap on the name or an activation is cut short or fails to import
\* after the old folder is gone, what was announced last is what the live registry calls
\* and what the next boot finds, text and code of one reply; every request that ran alone
\* to its end was told one outcome, and none is announced that was not activated
\* (forge/client.py, lifecycle.py, activate.py).
THEOREM LearnedStays == ForgeAssumption => (ForgeSpec => []ForgeSound)
<1> SUFFICES ASSUME ForgeAssumption PROVE ForgeSpec => []ForgeSound
  OBVIOUS
<1>1. ForgeInit => ForgeInv
  BY InitForge
<1>2. ForgeInv /\ [ForgeNext]_forgeVars => ForgeInv'
  <2> SUFFICES ASSUME ForgeInv, [ForgeNext]_forgeVars PROVE ForgeInv'
    OBVIOUS
  <2>1. CASE UNCHANGED forgeVars
    BY <2>1 DEF forgeVars, ForgeInv, ForgeTypeOK, NobodyElse, Forging, Staged, Stage, Own,
                Activated, LastStays, Activating
  <2>2. CASE ForgeDies \/ Boot
    BY <2>2, DieInv, BootInv
  <2>3. ASSUME NEW r \in Requests, Dispatch(r) \/ NoReply(r) \/ Describe(r) \/ Write(r)
        PROVE  ForgeInv'
    BY <2>3, DispatchInv, NoReplyInv, DescribeInv, WriteInv
  <2>4. ASSUME NEW r \in Requests, Validate(r) \/ ClearOld(r) \/ MoveIn(r) \/ Recheck(r) \/ Register(r)
        PROVE  ForgeInv'
    BY <2>4, ValidateInv, ClearInv, MoveInv, RecheckInv, RegisterInv
  <2> QED BY <2>1, <2>2, <2>3, <2>4 DEF ForgeNext
<1>3. ForgeInv => ForgeSound
  BY ForgeInvSound
<1> QED BY <1>1, <1>2, <1>3, PTL DEF ForgeSpec

--------------------------------------------------------------------------------
(* One turn of a model that acts                                               *)

Call == [index : Nat, tool : Tools, pieces : Int]
Messages == [asked : SUBSET Nat, answered : SUBSET Nat]

TurnTypeOK ==
  /\ turn \in {"idle", "streaming", "dispatching", "raised"}
  /\ acc \in Seq(Call) /\ calls \in Seq(Call) /\ conv \in Seq(Messages)
  /\ streak \in Nat /\ lastHeard \in Nat /\ muted \in BOOLEAN

\* All rounds of the turn but the last have their answers, and the last one is owed
\* exactly the calls that are not dispatched yet.
Complete(n) == conv[n].answered = conv[n].asked
Owed == {calls[i].index : i \in DOMAIN calls}
Owing ==
  /\ calls # <<>> /\ conv # <<>>
  /\ \A n \in 1 .. Len(conv) - 1 : Complete(n)
  /\ conv[Len(conv)].asked = conv[Len(conv)].answered \cup Owed

Conversing ==
  /\ turn = "streaming" => \A n \in DOMAIN conv : Complete(n)
  /\ turn = "dispatching" => Owing

TurnInv ==
  /\ TurnTypeOK /\ Conversing /\ NotOnHalf
  /\ streak = lastHeard /\ (muted <=> streak >= MuteAfter)

LEMMA InitTurn ==
  ASSUME ToolAssumption, ToolInit
  PROVE  TurnInv
<1>1. ~(streak >= MuteAfter)
  <2>1. MuteAfter \in Nat \ {0}
    BY DEF ToolAssumption
  <2>2. streak = 0
    BY Zenon DEF ToolInit
  <2> QED BY <2>1, <2>2
<1>2. muted \in BOOLEAN /\ (muted <=> streak >= MuteAfter)
  BY Zenon, <1>1 DEF ToolInit
<1>3. <<>> \in Seq(Call) /\ <<>> \in Seq(Messages)
  BY EmptySeq
<1> QED BY <1>2, <1>3 DEF ToolInit, TurnInv, TurnTypeOK, Conversing, NotOnHalf

\* An answer to the first call that waits, and what follows it.
LEMMA AnswerKeeps ==
  ASSUME ToolAssumption, TurnInv, turn = "dispatching", Answered, Then
  PROVE  /\ turn' \in {"idle", "streaming", "dispatching", "raised"}
         /\ calls' \in Seq(Call) /\ conv' \in Seq(Messages)
         /\ Conversing'
<1> DEFINE newest == Len(conv)
           head == Head(calls).index
<1>1. /\ calls \in Seq(Call) /\ calls # <<>> /\ conv \in Seq(Messages) /\ conv # <<>>
      /\ \A n \in 1 .. newest - 1 : Complete(n)
      /\ conv[newest].asked = conv[newest].answered \cup Owed
  BY DEF TurnInv, TurnTypeOK, Conversing, Owing
<1>2. /\ newest \in Nat \ {0} /\ DOMAIN conv = 1 .. newest
      /\ head \in Nat /\ conv[newest] \in Messages
      /\ Tail(calls) \in Seq(Call) /\ Len(Tail(calls)) = Len(calls) - 1
      /\ \A i \in 1 .. Len(Tail(calls)) : Tail(calls)[i] = calls[i + 1]
      /\ DOMAIN Tail(calls) = 1 .. Len(Tail(calls))
      /\ DOMAIN calls = 1 .. Len(calls) /\ Len(calls) \in Nat \ {0}
  <2>1. newest \in Nat \ {0} /\ Len(calls) \in Nat \ {0}
    BY <1>1, EmptySeq
  <2>2. DOMAIN conv = 1 .. newest /\ DOMAIN calls = 1 .. Len(calls)
    BY <1>1, LenProperties
  <2>3. conv[newest] \in Messages
    BY <1>1, <2>1, ElementOfSeq
  <2>4. /\ Head(calls) \in Call /\ Tail(calls) \in Seq(Call) /\ Len(Tail(calls)) = Len(calls) - 1
        /\ \A i \in 1 .. Len(Tail(calls)) : Tail(calls)[i] = calls[i + 1]
    BY <1>1, HeadTailProperties
  <2>5. DOMAIN Tail(calls) = 1 .. Len(Tail(calls))
    BY <2>4, LenProperties
  <2>6. head \in Nat
    BY <2>4 DEF Call
  <2> QED BY <2>1, <2>2, <2>3, <2>4, <2>5, <2>6
<1> DEFINE message == [conv[newest] EXCEPT !.answered = @ \cup {head}]
<1>3. conv' = [conv EXCEPT ![newest] = message]
  BY DEF Answered
<1>4. /\ message \in Messages
      /\ message.asked = conv[newest].asked /\ message.answered = conv[newest].answered \cup {head}
  BY <1>2 DEF Messages
<1>5. /\ conv' \in Seq(Messages) /\ Len(conv') = newest /\ conv' # <<>>
      /\ \A n \in 1 .. newest - 1 : conv'[n] = conv[n]
      /\ conv'[newest].asked = conv[newest].asked
      /\ conv'[newest].answered = conv[newest].answered \cup {head}
  <2> HIDE DEF message
  <2>1. /\ conv' \in Seq(Messages) /\ Len(conv') = newest
        /\ \A j \in 1 .. newest : conv'[j] = IF j = newest THEN message ELSE conv[j]
    BY <1>1, <1>2, <1>3, <1>4, ExceptSeq
  <2>2. conv' # <<>>
    BY <1>2, <2>1, EmptySeq
  <2>3. newest \in 1 .. newest /\ \A j \in 1 .. newest - 1 : j \in 1 .. newest /\ j # newest
    <3>1. newest \in Nat \ {0}
      BY <1>2
    <3> HIDE DEF newest
    <3> QED BY <3>1
  <2> QED BY <1>4, <2>1, <2>2, <2>3
<1>6. Owed = {head} \cup {Tail(calls)[i].index : i \in DOMAIN Tail(calls)}
  <2>1. Head(calls) = calls[1]
    BY <1>1
  <2>2. ASSUME NEW i \in 1 .. Len(calls), i # 1
        PROVE  i - 1 \in DOMAIN Tail(calls) /\ calls[i] = Tail(calls)[i - 1]
    <3>1. i - 1 \in 1 .. Len(calls) - 1 /\ (i - 1) + 1 = i
      BY <1>2, <2>2
    <3> QED BY <1>2, <3>1
  <2>3. ASSUME NEW i \in 1 .. Len(Tail(calls))
        PROVE  i + 1 \in DOMAIN calls /\ calls[i + 1] = Tail(calls)[i]
    <3>1. i \in 1 .. Len(calls) - 1 /\ i + 1 \in 1 .. Len(calls)
      BY <1>2, <2>3
    <3> QED BY <1>2, <3>1
  <2>4. 1 \in DOMAIN calls
    BY <1>2
  <2>5. Owed \subseteq {head} \cup {Tail(calls)[i].index : i \in DOMAIN Tail(calls)}
    <3> SUFFICES ASSUME NEW i \in 1 .. Len(calls)
                 PROVE  calls[i].index \in {head} \cup {Tail(calls)[j].index : j \in DOMAIN Tail(calls)}
      BY <1>2 DEF Owed
    <3> QED BY <2>1, <2>2
  <2>6. {head} \cup {Tail(calls)[i].index : i \in DOMAIN Tail(calls)} \subseteq Owed
    <3>1. head \in Owed
      BY <2>1, <2>4 DEF Owed
    <3>2. ASSUME NEW i \in DOMAIN Tail(calls) PROVE Tail(calls)[i].index \in Owed
      <4>1. i \in 1 .. Len(Tail(calls))
        BY <1>2
      <4> QED BY <2>3, <4>1 DEF Owed
    <3> QED BY <3>1, <3>2
  <2> QED BY <2>5, <2>6
<1>7. CASE Len(calls) > 1
  <2>1. calls' = Tail(calls) /\ turn' = "dispatching"
    BY <1>7 DEF Then
  <2>2. calls' \in Seq(Call) /\ calls' # <<>>
    <3>1. Len(calls') = Len(calls) - 1 /\ Len(calls') # 0
      BY <1>2, <1>7, <2>1
    <3>2. Len(<<>>) = 0
      OBVIOUS
    <3> QED BY <1>2, <2>1, <3>1, <3>2
  <2>3. Owed' = {Tail(calls)[i].index : i \in DOMAIN Tail(calls)}
    BY <2>1 DEF Owed
  <2>4. conv'[Len(conv')].asked = conv'[Len(conv')].answered \cup Owed'
    BY <1>1, <1>5, <1>6, <2>3
  <2>5. \A n \in 1 .. Len(conv') - 1 : Complete(n)'
    BY <1>1, <1>5 DEF Complete
  <2>6. Owing'
    BY <1>5, <2>2, <2>4, <2>5 DEF Owing
  <2> QED BY <1>5, <2>1, <2>2, <2>6 DEF Conversing
<1>8. CASE ~(Len(calls) > 1)
  <2>1. Owed = {head}
    BY <1>2, <1>6, <1>8
  <2>2. \A n \in DOMAIN conv' : Complete(n)'
    <3>1. DOMAIN conv' = 1 .. newest
      BY <1>5, LenProperties
    <3>2. Complete(newest)'
      BY <1>1, <1>5, <2>1 DEF Complete
    <3>3. \A n \in 1 .. newest - 1 : Complete(n)'
      BY <1>1, <1>5 DEF Complete
    <3> QED BY <1>2, <3>1, <3>2, <3>3
  <2>3. calls' = <<>> /\ turn' \in {"idle", "streaming"}
    BY <1>8 DEF Then, AnswerOver
  <2> QED BY <1>5, <2>2, <2>3 DEF Conversing
<1> QED BY <1>7, <1>8

LEMMA TurnStep ==
  ASSUME ToolAssumption, TurnInv, ToolNext
  PROVE  TurnInv'
<1> USE DEF ToolAssumption
<1>1. CASE Ask
  BY <1>1 DEF Ask, TurnInv, TurnTypeOK, Conversing, NotOnHalf
<1>2. CASE Text
  BY <1>2 DEF Text, TurnInv, TurnTypeOK, Conversing, Complete, NotOnHalf
<1>3. CASE Delta
  <2>1. PICK i \in 1 .. MaxCalls, t \in Tools :
          LET same == {n \in DOMAIN acc : acc[n].index = i} IN
          \/ acc' = Append(acc, [index |-> i, tool |-> t, pieces |-> 0])
          \/ \E n \in same : acc' = [acc EXCEPT ![n].pieces = @ + 1]
    BY <1>3 DEF Delta
  <2>2. acc \in Seq(Call) /\ [index |-> i, tool |-> t, pieces |-> 0] \in Call
    BY DEF TurnInv, TurnTypeOK, Call
  <2>3. CASE acc' = Append(acc, [index |-> i, tool |-> t, pieces |-> 0])
    <3>1. acc' \in Seq(Call)
      BY <2>2, <2>3
    <3> QED BY <1>3, <3>1 DEF Delta, TurnInv, TurnTypeOK, Conversing, Complete, NotOnHalf
  <2>4. ASSUME NEW n \in DOMAIN acc, acc' = [acc EXCEPT ![n].pieces = @ + 1]
        PROVE  TurnInv'
    <3>1. acc[n] \in Call
      BY <2>2
    <3>2. [acc[n] EXCEPT !.pieces = @ + 1] \in Call
      BY <3>1 DEF Call
    <3>3. acc' \in Seq(Call)
      BY <2>2, <2>4, <3>2
    <3> QED BY <1>3, <3>3 DEF Delta, TurnInv, TurnTypeOK, Conversing, Complete, NotOnHalf
  <2> QED BY <2>1, <2>3, <2>4
<1>4. CASE EndOfAnswer
  <2>1. CASE acc = <<>>
    BY <1>4, <2>1 DEF EndOfAnswer, AnswerOver, TurnInv, TurnTypeOK, Conversing, NotOnHalf
  <2>2. CASE acc # <<>>
    <3> DEFINE message == [asked |-> {acc[n].index : n \in DOMAIN acc}, answered |-> {}]
    <3>1. /\ turn = "streaming" /\ turn' = "dispatching" /\ calls' = acc /\ acc' = <<>>
          /\ conv' = Append(conv, message)
          /\ UNCHANGED <<streak, muted, acted, lastHeard>>
      BY <1>4, <2>2 DEF EndOfAnswer
    <3>2. acc \in Seq(Call) /\ conv \in Seq(Messages)
      BY DEF TurnInv, TurnTypeOK
    <3>3. message \in Messages
      <4>1. \A n \in DOMAIN acc : acc[n] \in Call
        BY <3>2
      <4> QED BY <4>1 DEF Messages, Call
    <3>4. /\ conv' \in Seq(Messages) /\ conv' # <<>> /\ Len(conv') = Len(conv) + 1
          /\ \A n \in 1 .. Len(conv) : conv'[n] = conv[n]
          /\ conv'[Len(conv) + 1] = message
      BY <3>1, <3>2, <3>3, AppendProperties
    <3>5. \A n \in 1 .. Len(conv') - 1 : Complete(n)'
      BY <3>1, <3>2, <3>4 DEF TurnInv, Conversing, Complete
    <3>6. Owing'
      BY <2>2, <3>1, <3>2, <3>4, <3>5 DEF Owing, Owed
    <3> QED BY <3>1, <3>2, <3>4, <3>6 DEF TurnInv, TurnTypeOK, Conversing, NotOnHalf
  <2> QED BY <2>1, <2>2
<1>5. CASE StreamFails
  <2>1. /\ turn' \in {"idle", "raised"} /\ calls' \in {<<>>, calls}
        /\ UNCHANGED <<acc, conv, streak, muted, acted, lastHeard>>
    BY <1>5 DEF StreamFails, AnswerOver
  <2>2. <<>> \in Seq(Call)
    BY EmptySeq
  <2> QED BY <2>1, <2>2 DEF TurnInv, TurnTypeOK, Conversing, NotOnHalf
<1>6. CASE Refuse \/ AudioMuted
  <2>1. turn = "dispatching" /\ Answered /\ Then /\ UNCHANGED <<acc, streak, muted, acted, lastHeard>>
    BY <1>6 DEF Refuse, AudioMuted
  <2> QED BY <2>1, AnswerKeeps DEF TurnInv, TurnTypeOK, NotOnHalf
<1>7. CASE Do
  <2>1. /\ turn = "dispatching" /\ Answered /\ Then /\ UNCHANGED <<acc, streak, muted, lastHeard>>
        /\ Head(calls).pieces \in {0, Whole} /\ acted' = acted \cup {Head(calls).pieces}
    BY <1>7 DEF Do, Readable
  <2> QED BY <2>1, AnswerKeeps DEF TurnInv, TurnTypeOK, NotOnHalf
<1>8. CASE AudioWorks
  <2>1. /\ turn = "dispatching" /\ Answered /\ Then /\ ~muted /\ streak' = 0 /\ lastHeard' = 0
        /\ Head(calls).pieces \in {0, Whole} /\ acted' = acted \cup {Head(calls).pieces}
        /\ UNCHANGED <<acc, muted>>
    BY <1>8 DEF AudioWorks, Readable, Worked
  <2>2. muted' \in BOOLEAN /\ ~muted'
    BY Zenon, <2>1 DEF TurnInv, TurnTypeOK
  <2>3. ~(streak' >= MuteAfter)
    BY <2>1
  <2>4. NotOnHalf'
    BY <2>1 DEF TurnInv, NotOnHalf
  <2>5. muted' <=> streak' >= MuteAfter
    BY Zenon, <2>2, <2>3
  <2>6. TurnTypeOK'
    BY <2>1, <2>2, AnswerKeeps DEF TurnInv, TurnTypeOK
  <2> QED BY <2>1, <2>4, <2>5, <2>6, AnswerKeeps DEF TurnInv
<1>9. CASE AudioFails
  <2>1. CASE who = "agent"
    BY <1>9, <2>1 DEF AudioFails, TurnInv, TurnTypeOK, Conversing, NotOnHalf
  <2>2. CASE who # "agent"
    <3>1. /\ turn = "dispatching" /\ Answered /\ Then /\ streak' = streak + 1
          /\ lastHeard' = lastHeard + 1 /\ muted' = (streak + 1 >= MuteAfter)
          /\ UNCHANGED <<acc, acted>>
      BY <1>9, <2>2 DEF AudioFails
    <3>2. muted' = (streak' >= MuteAfter) /\ streak' \in Nat /\ streak' = lastHeard'
      BY <3>1 DEF TurnInv, TurnTypeOK
    <3>3. muted' \in BOOLEAN
      <4>1. (streak' >= MuteAfter) \in BOOLEAN
        OBVIOUS
      <4> QED BY Zenon, <3>2, <4>1
    <3>4. muted' <=> streak' >= MuteAfter
      BY Zenon, <3>2
    <3> QED BY <3>1, <3>2, <3>3, <3>4, AnswerKeeps DEF TurnInv, TurnTypeOK, NotOnHalf
  <2> QED BY <2>1, <2>2
<1> QED BY <1>1, <1>2, <1>3, <1>4, <1>5, <1>6, <1>7, <1>8, <1>9 DEF ToolNext

\* For any number of calls, pieces, rounds, failures and turns: the endpoint is never asked
\* again while a call it made has no answer, nothing is done on part of a call's
\* arguments, and speech is given up exactly after MuteAfter failures in a row
\* (speech/llm.py, embody/engine.py, speech/agent_turn.py).
THEOREM TurnAnswers == ToolAssumption => (ToolSpec => []TurnSound)
<1> SUFFICES ASSUME ToolAssumption PROVE ToolSpec => []TurnSound
  OBVIOUS
<1>1. ToolInit => TurnInv
  BY InitTurn
<1>2. TurnInv /\ [ToolNext]_toolVars => TurnInv'
  <2>1. TurnInv /\ UNCHANGED toolVars => TurnInv'
    BY DEF toolVars, TurnInv, TurnTypeOK, Conversing, Complete, Owing, Owed, NotOnHalf
  <2> QED BY <2>1, TurnStep
<1>3. TurnInv => TurnSound
  BY DEF TurnInv, Conversing, Complete, TurnSound, AllAnswered, NotOnHalf, MutedForCause
<1> QED BY <1>1, <1>2, <1>3, PTL DEF ToolSpec

--------------------------------------------------------------------------------
(* The layer                                                                    *)

LayerParts == {"session", "reader", "asker", "summary"}

\* What exists and what was told to end follows the steps of the stage; a thread lives
\* only once all are made.
StepsTaken ==
  /\ at \in Nat
  /\ live \subseteq LayerParts
  /\ stage = "composing" => \A i \in 1 .. at : Composing[i] \in made
  /\ stage \in {"composing", "failed"} => live = {}
  /\ stage \notin {"composing", "failed"} => {"engine", "session"} \subseteq made
  /\ stage = "closing" => \A i \in 1 .. at : Closing[i] \in asked
  /\ stage = "down" => \A i \in 1 .. Len(Closing) : Closing[i] \in asked

\* Whoever found the reader done at the first look, or ended for it, was right: no line
\* is read after that.
ReadToTheEnd ==
  /\ stage \in {"composing", "starting"} => main = "first look"
  /\ stage = "running" /\ main = "second look" /\ saw => done
  /\ why = "read" => done

LayerInv ==
  /\ pending \in Nat /\ heard \in Nat
  /\ done \in BOOLEAN /\ saw \in BOOLEAN
  /\ StepsTaken /\ ReadToTheEnd /\ ThoughtAbout /\ ~early /\ ~lateTap

LEMMA InitLayer ==
  ASSUME LayerAssumption, LayerInit
  PROVE  LayerInv
<1>1. StepsTaken
  <2>1. stage = "composing" /\ at = 0 /\ live = {}
    BY DEF LayerInit
  <2>2. 1 .. at = {}
    BY <2>1
  <2> QED BY <2>1, <2>2 DEF StepsTaken
<1>2. ReadToTheEnd
  BY DEF LayerInit, ReadToTheEnd
<1>3. ThoughtAbout
  BY DEF LayerInit, ThoughtAbout
<1>4. ~early /\ ~lateTap
  BY DEF LayerInit
<1>5. pending \in Nat /\ heard \in Nat /\ done \in BOOLEAN /\ saw \in BOOLEAN
  BY DEF LayerInit
<1> QED BY <1>1, <1>2, <1>3, <1>4, <1>5 DEF LayerInv

LEMMA OfferType == ASSUME NEW n \in Nat PROVE Offer(n) \in Nat
BY DEF Offer

\* What the steps and the threads do to the parts.
LEMMA StepsTakenStep ==
  ASSUME LayerInv, LayerNext
  PROVE  StepsTaken' /\ ~early' /\ ~lateTap'
<1>1. StepsTaken /\ ~early /\ ~lateTap
  BY DEF LayerInv
<1>2. CASE Make
  BY <1>1, <1>2 DEF Make, StepsTaken
<1>3. CASE Composed
  <2>1. Composing[4] = "engine" /\ Composing[5] = "session" /\ Len(Composing) = 8
    BY DEF Composing
  <2>2. {"engine", "session"} \subseteq made
    BY <1>1, <1>3, <2>1 DEF Composed, StepsTaken
  <2> QED BY <1>1, <1>3, <2>2 DEF Composed, StepsTaken
<1>4. CASE Start
  <2>1. /\ Len(Starting) = 4 /\ Starting[1] = "session" /\ Starting[2] = "reader"
        /\ Starting[3] = "asker" /\ Starting[4] = "summary"
    BY DEF Starting
  <2>2. at \in 0 .. 3 /\ stage = "starting" /\ at' = at + 1
    BY <1>1, <1>4, <2>1 DEF Start, StepsTaken
  <2>3. Starting[at + 1] \in LayerParts
    BY <2>1, <2>2 DEF LayerParts
  <2>4. /\ live' \subseteq live \cup {Starting[at + 1]}
        /\ UNCHANGED <<stage, made, asked, lateTap, early>>
    BY <1>4 DEF Start
  <2> QED BY <1>1, <2>2, <2>3, <2>4 DEF StepsTaken
<1>5. CASE Started
  BY <1>1, <1>5 DEF Started, StepsTaken
<1>6. CASE ReadLine \/ FeedEnds \/ Turn \/ Deferred
  <2>1. UNCHANGED <<stage, at, made, live, asked, early, lateTap>>
    BY <1>6 DEF ReadLine, FeedEnds, Turn, Deferred
  <2> QED BY <1>1, <2>1 DEF StepsTaken
<1>7. CASE Utterance
  <2>1. "session" \in live /\ UNCHANGED <<stage, at, made, live, asked, early>>
        /\ lateTap' = (lateTap \/ ~({"engine", "session"} \subseteq made))
    BY <1>7 DEF Utterance
  <2>2. {"engine", "session"} \subseteq made
    BY <1>1, <2>1 DEF StepsTaken
  <2>3. ~lateTap'
    BY <1>1, <2>1, <2>2
  <2> QED BY <1>1, <2>1, <2>3 DEF StepsTaken
<1>8. ASSUME NEW p \in LayerParts, ThreadEnds(p)
      PROVE  StepsTaken' /\ ~early' /\ ~lateTap'
  <2>1. live' \subseteq live /\ UNCHANGED <<stage, at, made, asked, early, lateTap>>
    BY <1>8 DEF ThreadEnds
  <2> QED BY <1>1, <2>1 DEF StepsTaken
<1>9. CASE LookFirst \/ LookAgain \/ Interrupt
  <2>1. /\ stage \in {"starting", "running"} /\ UNCHANGED <<made, live, asked, early, lateTap>>
        /\ \/ stage' = "closing" /\ at' = 0
           \/ UNCHANGED <<stage, at>>
    BY <1>9 DEF LookFirst, LookAgain, Interrupt, Leave
  <2>2. at' = 0 => 1 .. at' = {}
    OBVIOUS
  <2> QED BY <1>1, <2>1, <2>2 DEF StepsTaken
<1>10. CASE Close
  <2>1. Len(Closing) = 5 /\ Closing[1] = "reader" /\ Closing[2] = "asker" /\ Closing[3] = "summary"
        /\ Closing[4] = "session" /\ Closing[5] = "media"
    BY DEF Closing
  <2>2. /\ at \in 0 .. 4 /\ stage = "closing" /\ at' = at + 1
        /\ asked' = asked \union {Closing[at + 1]}
        /\ early' = (early \/ (Closing[at + 1] = "media" /\ "session" \in live \ asked))
        /\ UNCHANGED <<stage, made, live, lateTap>>
    BY <1>1, <1>10, <2>1 DEF Close, StepsTaken
  <2>3. Closing[at + 1] = "media" => "session" \in asked
    BY <1>1, <2>1, <2>2 DEF StepsTaken
  <2>4. ~early'
    BY <1>1, <2>2, <2>3
  <2> QED BY <1>1, <2>2, <2>4 DEF StepsTaken
<1>11. CASE Closed
  BY <1>1, <1>11 DEF Closed, StepsTaken
<1> QED BY <1>2, <1>3, <1>4, <1>5, <1>6, <1>7, <1>8, <1>9, <1>10, <1>11, LayerNext
        DEF LayerNext, Main, Threads, LayerParts

\* What the turn loop has seen of the reader, and what is left for it.
LEMMA LooksStep ==
  ASSUME LayerInv, LayerNext
  PROVE  /\ pending' \in Nat /\ heard' \in Nat /\ done' \in BOOLEAN /\ saw' \in BOOLEAN
         /\ ReadToTheEnd' /\ ThoughtAbout'
<1>1. pending \in Nat /\ heard \in Nat /\ done \in BOOLEAN /\ saw \in BOOLEAN /\ Offer(pending) \in Nat
  BY OfferType DEF LayerInv
<1>2. ReadToTheEnd /\ ThoughtAbout
  BY DEF LayerInv
<1>3. CASE Make \/ Composed \/ Start \/ Started \/ Close \/ Closed
  <2>1. /\ UNCHANGED <<main, done, saw, heard, pending, why>>
        /\ \/ stage' \notin {"composing", "starting", "running"}
           \/ stage \in {"composing", "starting"}
    BY <1>3 DEF Make, Composed, Start, Started, Close, Closed
  <2> QED BY <1>1, <1>2, <2>1 DEF ReadToTheEnd, ThoughtAbout
<1>4. CASE ReadLine
  <2>1. ~done /\ UNCHANGED <<stage, main, saw, heard, why>>
    BY <1>4 DEF ReadLine
  <2>2. pending' \in {pending, Offer(pending)} /\ done' \in {TRUE, done}
    BY Zenon, <1>4 DEF ReadLine
  <2>3. why' # "read"
    BY <1>2, <2>1 DEF ReadToTheEnd
  <2>4. ReadToTheEnd'
    BY <1>1, <1>2, <2>1, <2>2 DEF ReadToTheEnd
  <2>5. ThoughtAbout'
    BY <2>3 DEF ThoughtAbout
  <2> QED BY <1>1, <2>1, <2>2, <2>4, <2>5
<1>5. CASE FeedEnds
  BY <1>1, <1>2, <1>5 DEF FeedEnds, ReadToTheEnd, ThoughtAbout
<1>6. CASE Utterance
  <2>1. heard' = heard + 1 /\ pending' = Offer(pending) /\ UNCHANGED <<stage, main, done, saw, why>>
    BY <1>6 DEF Utterance
  <2>2. heard' \in Nat /\ heard' # 0 /\ pending' \in Nat
    BY <1>1, <2>1
  <2>3. ThoughtAbout'
    BY <2>2 DEF ThoughtAbout
  <2>4. ReadToTheEnd'
    BY <1>2, <2>1 DEF ReadToTheEnd
  <2> QED BY <1>1, <2>1, <2>2, <2>3, <2>4
<1>7. ASSUME NEW p \in LayerParts, ThreadEnds(p)
      PROVE  /\ pending' \in Nat /\ heard' \in Nat /\ done' \in BOOLEAN /\ saw' \in BOOLEAN
             /\ ReadToTheEnd' /\ ThoughtAbout'
  <2>1. done' \in {TRUE, done} /\ UNCHANGED <<stage, main, saw, heard, pending, why>>
    BY <1>1, <1>7 DEF ThreadEnds
  <2> QED BY <1>1, <1>2, <2>1 DEF ReadToTheEnd, ThoughtAbout
<1>8. CASE LookFirst
  <2>1. /\ stage = "running" /\ UNCHANGED <<done, heard, pending>>
        /\ \/ stage' = "closing" /\ why' = "stopped" /\ saw' = saw
           \/ stage' = stage /\ why' = why /\ saw' = done
    BY <1>8 DEF LookFirst, Leave, Over, Looks
  <2>2. ReadToTheEnd'
    <3>1. CASE saw' = saw /\ stage' = "closing" /\ why' = "stopped"
      BY <3>1 DEF ReadToTheEnd
    <3>2. CASE stage' = stage /\ why' = why /\ saw' = done
      <4>1. saw' => done'
        BY Zenon, <2>1, <3>2
      <4>2. why' = "read" => done'
        BY Zenon, <1>2, <2>1, <3>2 DEF ReadToTheEnd
      <4> QED BY <2>1, <3>2, <4>1, <4>2 DEF ReadToTheEnd
    <3> QED BY <2>1, <3>1, <3>2
  <2>3. ThoughtAbout'
    BY <1>2, <2>1 DEF ThoughtAbout
  <2>4. saw' \in BOOLEAN
    BY <1>1, <2>1
  <2> QED BY <1>1, <2>1, <2>2, <2>3, <2>4
<1>9. CASE LookAgain
  <2>1. /\ stage = "running" /\ main = "second look" /\ UNCHANGED <<done, saw, heard, pending>>
        /\ \/ stage' = "closing" /\ why' = "read" /\ saw /\ pending = 0
           \/ stage' = "closing" /\ why' = "turns"
           \/ stage' = stage /\ why' = why /\ main' = "turn"
    BY <1>9 DEF LookAgain, Leave, Over, Looks
  <2> QED BY <1>1, <1>2, <2>1 DEF ReadToTheEnd, ThoughtAbout
<1>10. CASE Turn \/ Deferred
  <2>1. /\ pending' \in {0, pending} /\ main' = "first look" /\ UNCHANGED <<stage, done, saw, heard, why>>
    BY <1>10 DEF Turn, Deferred
  <2>2. ReadToTheEnd'
    BY <1>2, <2>1 DEF ReadToTheEnd
  <2>3. ThoughtAbout'
    BY <1>2, <2>1 DEF ThoughtAbout
  <2>4. pending' = 0 \/ pending' = pending
    BY <2>1
  <2>5. pending' \in Nat
    BY <1>1, <2>4
  <2>6. heard' \in Nat /\ done' \in BOOLEAN /\ saw' \in BOOLEAN
    BY Zenon, <1>1, <2>1
  <2> QED BY <2>2, <2>3, <2>5, <2>6
<1>11. CASE Interrupt
  <2>1. stage' = "closing" /\ why' = "interrupted" /\ UNCHANGED <<done, saw, heard, pending>>
    BY <1>11 DEF Interrupt, Leave
  <2> QED BY <1>1, <1>2, <2>1 DEF ReadToTheEnd, ThoughtAbout
<1> QED BY <1>3, <1>4, <1>5, <1>6, <1>7, <1>8, <1>9, <1>10, <1>11, LayerNext
        DEF LayerNext, Main, Threads, LayerParts

\* For any feed, queue and utterances, and wherever the layer is interrupted: a layer that
\* ends because its feed was read has thought about all of it, whatever runs was told to
\* end, the session before its media, and no tap finds a slot empty
\* (cli/_commands/agent.py).
THEOREM LayerStandsAndFalls == LayerAssumption => (LayerSpec => []LayerSafe)
<1> SUFFICES ASSUME LayerAssumption PROVE LayerSpec => []LayerSafe
  OBVIOUS
<1>1. LayerInit => LayerInv
  BY InitLayer
<1>2. LayerInv /\ [LayerNext]_layerVars => LayerInv'
  <2>1. LayerInv /\ UNCHANGED layerVars => LayerInv'
    <3> SUFFICES ASSUME LayerInv, UNCHANGED layerVars PROVE LayerInv'
      OBVIOUS
    <3>1. UNCHANGED <<stage, at, made, live, asked, main, done, saw, heard, pending, why, lateTap, early>>
      BY DEF layerVars
    <3>2. StepsTaken' /\ ReadToTheEnd' /\ ThoughtAbout'
      BY <3>1 DEF LayerInv, StepsTaken, ReadToTheEnd, ThoughtAbout
    <3> QED BY <3>1, <3>2 DEF LayerInv
  <2>2. LayerInv /\ LayerNext => LayerInv'
    BY StepsTakenStep, LooksStep DEF LayerInv
  <2> QED BY <2>1, <2>2
<1>3. LayerInv => LayerSafe
  <2> SUFFICES ASSUME LayerInv PROVE LayerSafe
    OBVIOUS
  <2>1. stage = "down" => LayerParts \cup {"media"} \subseteq asked
    <3>1. /\ Len(Closing) = 5 /\ Closing[1] = "reader" /\ Closing[2] = "asker" /\ Closing[3] = "summary"
          /\ Closing[4] = "session" /\ Closing[5] = "media"
      BY DEF Closing
    <3> QED BY <3>1 DEF LayerInv, StepsTaken, LayerParts
  <2> QED BY <2>1 DEF LayerInv, StepsTaken, LayerSafe, ThoughtAbout, TakenDown, NothingEarly
<1> QED BY <1>1, <1>2, <1>3, PTL DEF LayerSpec

--------------------------------------------------------------------------------
(* The audio tee of the runtime                                                 *)

Chunks == [id : Nat, halves : Nat]
Outboxes == [queue : Seq(Chunks), partial : BOOLEAN, lost : Nat]

\* What the variables of the tee may hold.
TeeTypeOK ==
  /\ offered \in Seq(Nat) /\ offers \in Nat /\ run \in Nat
  /\ attached \in SUBSET Consumers /\ known \in BOOLEAN /\ reported \in BOOLEAN
  /\ out \in [Consumers -> Outboxes]
  /\ owing \in [Consumers -> Nat] /\ last \in [Consumers -> Nat]
  /\ dropped \in [Places -> Nat] /\ named \in [Places -> Nat]
  /\ lonely \in Nat /\ lines \in Nat

\* Tees that have bound the path, and those whose start has passed the probe.
Bound == {t \in Tees : tee[t] \in {"bound", "up"}}
Past == {t \in Tees : tee[t] \in {"vacant", "clear", "bound"}}

\* A path that is a tee's leads to one that has bound it.
PathLeads == path \in Tees => path \in Bound

\* Two that are starting are rivals.
StartsMeet ==
  \A t, u \in Tees : t # u /\ tee[t] \in UnderWay /\ tee[u] \in UnderWay => t \in rivals

\* Until a rival has ended: whoever lost the path was a rival, and so is who has it then
\* or is about to; a start that is past its probe is a rival of all that have bound the
\* path; and a stale path has robbed nobody.
Robbed ==
  /\ \A v \in Bound : path = v \/ v \in rivals
  /\ \A v \in Bound : path = v \/ path \in rivals \/ \E w \in rivals : tee[w] = "clear"
  /\ \A t \in Past, v \in Bound : t = v \/ {t, v} \subseteq rivals
  /\ path = StaleFile => Bound = {}

PathInv ==
  /\ path \in Tees \cup {NoFile, StaleFile} /\ tee \in [Tees -> TeeStates] /\ rivals \in SUBSET Tees
  /\ PathLeads /\ StartsMeet /\ (RivalEnded \/ Robbed)

\* The flag that offers read says whether anybody listens, and a stretch without a
\* consumer whose line is not written yet has one left.
LineLeft == known = (attached # {}) /\ (attached = {} /\ ~reported => lines < lonely)

\* What o holds for a consumer that is owed the rest of chunk w, and had chunk l last:
\* whole chunks in the order of the offers, none before l, and first the one it is owed.
InTurn(o, w, l) ==
  /\ Len(o.queue) <= MaxOutbox
  /\ \A i, j \in 1 .. Len(o.queue) : i < j => o.queue[i].id < o.queue[j].id
  /\ \A i \in 1 .. Len(o.queue) : l <= o.queue[i].id
  /\ o.partial => Len(o.queue) > 0 /\ o.queue[1].id = w
  /\ ~o.partial => w = 0

\* Nothing in o comes as late as chunk n.
Earlier(o, n) == \A i \in 1 .. Len(o.queue) : o.queue[i].id < n

\* Chunks wait in the order they were offered in, and before any consumer's were offered.
Waiting ==
  /\ \A i, j \in 1 .. Len(offered) : i < j => offered[i] < offered[j]
  /\ \A i \in 1 .. Len(offered) : 0 < offered[i] /\ offered[i] <= offers
  /\ \A c \in Consumers : \A i \in 1 .. Len(offered) :
       last[c] < offered[i] /\ Earlier(out[c], offered[i])

Boxed ==
  /\ \A c \in Consumers : InTurn(out[c], owing[c], last[c])
  /\ \A c \in Consumers : last[c] <= offers /\ Earlier(out[c], offers + 1)
  /\ \A c \in Consumers \ attached : out[c] = EmptyBox /\ owing[c] = 0

TeeInv == TeeTypeOK /\ PathInv /\ LineLeft /\ Waiting /\ Boxed /\ TeeSound

LEMMA SmallestNat ==
  ASSUME NEW T, T \in SUBSET Nat, T # {}
  PROVE  \E m \in T : \A k \in T : m <= k
<1>1. PICK m \in T : \A k \in T : <<k, m>> \notin OpToRel(<, Nat)
  BY WFMin, NatLessThanWellFounded, Zenon
<1>2. \A k \in T : ~(k < m)
  BY <1>1, Zenon DEF OpToRel
<1>3. \A k \in T : m <= k
  BY <1>2
<1> QED BY <1>3

\* What makes room in an outbox is one chunk at most, and not the one a consumer has
\* half of.
LEMMA RoomSkips ==
  ASSUME TeeAssumption, NEW o \in Outboxes, Len(o.queue) <= MaxOutbox,
         o.partial => Len(o.queue) > 0
  PROVE  \E skip \in 1 .. Len(o.queue) + 1 :
           /\ o.partial => skip # 1
           /\ Room(o) \in Seq(Chunks)
           /\ Len(Room(o)) = IF skip = Len(o.queue) + 1 THEN Len(o.queue) ELSE Len(o.queue) - 1
           /\ \A i \in 1 .. Len(Room(o)) : Room(o)[i] = o.queue[IF i < skip THEN i ELSE i + 1]
<1> DEFINE q == o.queue
<1>1. q \in Seq(Chunks) /\ Len(q) \in Nat /\ MaxOutbox \in Nat \ {0} /\ o.partial \in BOOLEAN
  BY DEF Outboxes, TeeAssumption
<1>2. CASE Len(q) < MaxOutbox
  <2>1. Room(o) = q
    BY <1>2 DEF Room
  <2> WITNESS Len(q) + 1 \in 1 .. Len(q) + 1
  <2> QED BY <1>1, <2>1
<1>3. CASE Len(q) = MaxOutbox /\ ~o.partial
  <2>1. Room(o) = Tail(q)
    BY <1>1, <1>3 DEF Room
  <2>2. q # <<>> /\ 1 \in 1 .. Len(q) + 1
    BY <1>1, <1>3
  <2>3. /\ Tail(q) \in Seq(Chunks) /\ Len(Tail(q)) = Len(q) - 1
        /\ \A i \in 1 .. Len(Tail(q)) : Tail(q)[i] = q[i + 1]
    BY <1>1, <2>2
  <2> WITNESS 1 \in 1 .. Len(q) + 1
  <2> QED BY <1>1, <1>3, <2>1, <2>3
<1>4. CASE Len(q) = MaxOutbox /\ o.partial /\ Len(q) > 1
  <2> DEFINE rest == SubSeq(q, 3, Len(q))
  <2>1. Room(o) = <<q[1]>> \o rest
    BY <1>1, <1>4 DEF Room
  <2>2. q[1] \in Chunks /\ 2 \in 1 .. Len(q) + 1
    BY <1>1, <1>4
  <2>3. /\ rest \in Seq(Chunks) /\ Len(rest) = Len(q) - 2
        /\ \A i \in 1 .. Len(rest) : rest[i] = q[i + 2]
    BY <1>1, <1>4, SubSeqProperties
  <2>4. /\ Room(o) \in Seq(Chunks) /\ Len(Room(o)) = Len(q) - 1
        /\ \A i \in 1 .. Len(Room(o)) : Room(o)[i] = IF i = 1 THEN q[1] ELSE rest[i - 1]
    <3> HIDE DEF rest, q
    <3> QED BY <1>1, <1>4, <2>1, <2>2, <2>3
  <2>5. \A i \in 1 .. Len(Room(o)) : Room(o)[i] = q[IF i < 2 THEN i ELSE i + 1]
    <3> HIDE DEF rest, q
    <3> SUFFICES ASSUME NEW i \in 1 .. Len(Room(o)), i # 1
                 PROVE  Room(o)[i] = q[i + 1]
      BY <2>4
    <3>1. i - 1 \in 1 .. Len(rest) /\ (i - 1) + 2 = i + 1
      BY <1>1, <2>3, <2>4
    <3> QED BY <2>3, <2>4, <3>1
  <2> WITNESS 2 \in 1 .. Len(q) + 1
  <2> QED BY <1>1, <1>4, <2>4, <2>5
<1>5. CASE Len(q) = MaxOutbox /\ o.partial /\ ~(Len(q) > 1)
  <2>1. Room(o) = q
    BY <1>1, <1>5 DEF Room
  <2> WITNESS Len(q) + 1 \in 1 .. Len(q) + 1
  <2> QED BY <1>1, <1>5, <2>1
<1> QED BY <1>1, <1>2, <1>3, <1>4, <1>5

\* Whatever is pushed after what is there already, the outbox stays in order and counts
\* what it loses.
LEMMA PushedKeeps ==
  ASSUME TeeAssumption, NEW o \in Outboxes, NEW w \in Nat, NEW l \in Nat, NEW n \in Nat,
         InTurn(o, w, l), l < n, Earlier(o, n)
  PROVE  /\ Pushed(o, n) \in Outboxes
         /\ InTurn(Pushed(o, n), w, l)
         /\ Earlier(Pushed(o, n), n + 1)
         /\ Len(Pushed(o, n).queue) + Pushed(o, n).lost = Len(o.queue) + o.lost + 1
<1> DEFINE q == o.queue
           r == Room(o)
           p == Pushed(o, n)
<1>1. /\ q \in Seq(Chunks) /\ Len(q) \in Nat /\ MaxOutbox \in Nat \ {0}
      /\ o.partial \in BOOLEAN /\ o.lost \in Nat
      /\ o = [queue |-> q, partial |-> o.partial, lost |-> o.lost]
  BY DEF Outboxes, TeeAssumption
<1>2. \A i \in 1 .. Len(q) : q[i].id \in Nat
  <2>1. \A i \in 1 .. Len(q) : q[i] \in Chunks
    <3> HIDE DEF q
    <3> QED BY <1>1
  <2> QED BY <2>1 DEF Chunks
<1>3. /\ Len(q) <= MaxOutbox /\ (o.partial => Len(q) > 0 /\ q[1].id = w) /\ (~o.partial => w = 0)
      /\ \A i, j \in 1 .. Len(q) : i < j => q[i].id < q[j].id
      /\ \A i \in 1 .. Len(q) : l <= q[i].id /\ q[i].id < n
  BY DEF InTurn, Earlier
<1>4. PICK skip \in 1 .. Len(q) + 1 :
        /\ o.partial => skip # 1
        /\ r \in Seq(Chunks)
        /\ Len(r) = IF skip = Len(q) + 1 THEN Len(q) ELSE Len(q) - 1
        /\ \A i \in 1 .. Len(r) : r[i] = q[IF i < skip THEN i ELSE i + 1]
  BY <1>3, RoomSkips
<1>5. Len(r) \in Nat /\ Len(r) <= Len(q)
  BY <1>1, <1>4
<1> DEFINE pos(i) == IF i < skip THEN i ELSE i + 1
<1>6. \A i \in 1 .. Len(r) : pos(i) \in 1 .. Len(q) /\ r[i] = q[pos(i)]
  BY <1>1, <1>4
<1>7. /\ \A i, j \in 1 .. Len(r) : i < j => r[i].id < r[j].id
      /\ \A i \in 1 .. Len(r) : l <= r[i].id /\ r[i].id < n /\ r[i].id \in Nat
      /\ o.partial => Len(r) > 0 /\ r[1] = q[1]
  <2>1. \A i, j \in 1 .. Len(r) : i < j => pos(i) < pos(j)
    BY <1>1, <1>4
  <2>2. \A i, j \in 1 .. Len(r) : i < j => r[i].id < r[j].id
    <3> HIDE DEF pos, q, r
    <3> QED BY <1>3, <1>6, <2>1
  <2>3. \A i \in 1 .. Len(r) : l <= r[i].id /\ r[i].id < n /\ r[i].id \in Nat
    <3> HIDE DEF pos, q, r
    <3> QED BY <1>2, <1>3, <1>6
  <2>4. o.partial => Len(r) > 0 /\ r[1] = q[1]
    <3> SUFFICES ASSUME o.partial PROVE Len(r) > 0 /\ r[1] = q[1]
      OBVIOUS
    <3>1. skip # 1 /\ Len(q) > 0
      BY <1>3, <1>4
    <3>2. Len(r) > 0
      BY <1>1, <1>4, <3>1
    <3>3. 1 \in 1 .. Len(r) /\ pos(1) = 1
      BY <1>4, <1>5, <3>1, <3>2
    <3> HIDE DEF pos, q, r
    <3> QED BY <1>6, <3>2, <3>3
  <2> QED BY <2>2, <2>3, <2>4
<1>8. CASE Len(r) = MaxOutbox
  <2>1. Len(r) = Len(q) /\ \A i \in 1 .. Len(q) : q[i] = r[i]
    <3>1. skip = Len(q) + 1
      BY <1>1, <1>3, <1>4, <1>8
    <3> QED BY <1>1, <1>4, <3>1
  <2>2. p = [o EXCEPT !.lost = @ + 1]
    BY <1>8 DEF Pushed
  <2>3. p.queue = q /\ p.partial = o.partial /\ p.lost = o.lost + 1 /\ p \in Outboxes
    BY <1>1, <2>2 DEF Outboxes
  <2>4. InTurn(p, w, l) /\ Earlier(p, n + 1)
    <3> HIDE DEF p, q
    <3> QED BY <1>2, <1>3, <2>3 DEF InTurn, Earlier
  <2> HIDE DEF p, q
  <2>5. Len(p.queue) + p.lost = Len(q) + o.lost + 1
    BY <1>1, <2>3
  <2> QED BY <2>3, <2>4, <2>5 DEF p, q
<1>9. CASE Len(r) # MaxOutbox
  <2> DEFINE s == Append(r, WholeChunk(n))
  <2>1. p = [o EXCEPT !.queue = s, !.lost = @ + (Len(q) - Len(r))]
    BY <1>9 DEF Pushed
  <2>2. WholeChunk(n) \in Chunks /\ WholeChunk(n).id = n
    BY DEF WholeChunk, Chunks
  <2>3. /\ s \in Seq(Chunks) /\ Len(s) = Len(r) + 1
        /\ \A i \in 1 .. Len(r) : s[i] = r[i]
        /\ s[Len(r) + 1] = WholeChunk(n)
    <3> HIDE DEF r
    <3> QED BY <1>4, <2>2
  <2>4. /\ p.queue = s /\ p.partial = o.partial /\ p.lost = o.lost + (Len(q) - Len(r))
        /\ p \in Outboxes
    <3>1. o.lost + (Len(q) - Len(r)) \in Nat
      BY <1>1, <1>5
    <3> HIDE DEF s, r
    <3> QED BY <1>1, <2>1, <2>3, <3>1 DEF Outboxes
  <2>5. InTurn(p, w, l) /\ Earlier(p, n + 1)
    <3>1. /\ Len(s) \in Nat /\ Len(s) <= MaxOutbox
          /\ \A i \in 1 .. Len(s) : i \in 1 .. Len(r) \/ i = Len(r) + 1
      BY <1>1, <1>3, <1>5, <1>9, <2>3
    <3>2. \A i \in 1 .. Len(s) : l <= s[i].id /\ s[i].id < n + 1
      <4> HIDE DEF s, r
      <4> QED BY <1>5, <1>7, <2>2, <2>3, <3>1
    <3>3. ASSUME NEW i \in 1 .. Len(s), NEW j \in 1 .. Len(s), i < j
          PROVE  s[i].id < s[j].id
      <4>1. i \in 1 .. Len(r)
        BY <1>5, <2>3, <3>1, <3>3
      <4> HIDE DEF s, r
      <4> QED BY <1>5, <1>7, <2>2, <2>3, <3>1, <3>3, <4>1
    <3>4. p.partial => Len(s) > 0 /\ s[1].id = w
      <4> SUFFICES ASSUME p.partial PROVE Len(s) > 0 /\ s[1].id = w
        OBVIOUS
      <4>1. 1 \in 1 .. Len(r) /\ r[1] = q[1] /\ q[1].id = w
        BY <1>3, <1>5, <1>7, <2>4
      <4> HIDE DEF s, r
      <4> QED BY <1>5, <2>3, <4>1
    <3>5. ~p.partial => w = 0
      BY <1>3, <2>4
    <3> HIDE DEF p, s, q, r
    <3> QED BY <2>4, <3>1, <3>2, <3>3, <3>4, <3>5 DEF InTurn, Earlier
  <2> HIDE DEF p, q, r, s
  <2>6. Len(p.queue) + p.lost = Len(q) + o.lost + 1
    <3>1. Len(p.queue) = Len(r) + 1 /\ p.lost = o.lost + (Len(q) - Len(r))
      BY <2>3, <2>4
    <3>2. Len(q) \in Nat /\ Len(r) \in Nat /\ o.lost \in Nat
      BY <1>1, <1>5
    <3>3. \A a, b, d \in Nat : (b + 1) + (d + (a - b)) = a + d + 1
      OBVIOUS
    <3>4. (Len(r) + 1) + (o.lost + (Len(q) - Len(r))) = Len(q) + o.lost + 1
      BY <3>2, <3>3
    <3> QED BY <3>1, <3>4, Zenon
  <2> QED BY <2>4, <2>5, <2>6 DEF p, q
<1> QED BY <1>8, <1>9

\* An outbox into which the first n chunks of s are pushed, one after the other.
Pushes(f, o, s, n) ==
  f = [i \in 0 .. n |-> IF i = 0 THEN o ELSE Pushed(f[i - 1], s[i])]

LEMMA PushesExist ==
  ASSUME NEW o, NEW s, NEW n \in Nat
  PROVE  \E f : Pushes(f, o, s, n)
<1> DEFINE Bad == {m \in Nat : ~\E f : Pushes(f, o, s, m)}
<1> SUFFICES ASSUME Bad # {} PROVE FALSE
  OBVIOUS
<1>1. PICK m \in Bad : \A k \in Bad : m <= k
  <2>1. Bad \in SUBSET Nat
    OBVIOUS
  <2> HIDE DEF Bad
  <2> QED BY <2>1, SmallestNat
<1>2. m \in Nat /\ ~\E f : Pushes(f, o, s, m)
  BY <1>1
<1>3. CASE m = 0
  <2>1. Pushes([i \in 0 .. 0 |-> o], o, s, m)
    BY <1>3 DEF Pushes
  <2> QED BY <1>2, <2>1
<1>4. CASE m # 0
  <2>1. m - 1 \in Nat /\ m - 1 \notin Bad
    BY <1>1, <1>2, <1>4
  <2>2. PICK f : Pushes(f, o, s, m - 1)
    BY <2>1
  <2>3. \A i \in 0 .. m - 1 : f[i] = IF i = 0 THEN o ELSE Pushed(f[i - 1], s[i])
    BY <2>2 DEF Pushes
  <2> DEFINE g == [i \in 0 .. m |-> IF i = m THEN Pushed(f[m - 1], s[m]) ELSE f[i]]
  <2>4. \A i \in 0 .. m : g[i] = IF i = 0 THEN o ELSE Pushed(g[i - 1], s[i])
    <3> SUFFICES ASSUME NEW i \in 0 .. m
                 PROVE  g[i] = IF i = 0 THEN o ELSE Pushed(g[i - 1], s[i])
      OBVIOUS
    <3>1. CASE i = m
      <4>1. i - 1 \in 0 .. m /\ i - 1 # m /\ i # 0
        BY <1>2, <1>4, <3>1
      <4>2. g[i - 1] = f[m - 1]
        BY <3>1, <4>1
      <4> QED BY <3>1, <4>1, <4>2
    <3>2. CASE i # m /\ i # 0
      <4>1. i - 1 \in 0 .. m /\ i - 1 # m /\ i \in 0 .. m - 1
        BY <1>2, <3>2
      <4>2. g[i - 1] = f[i - 1] /\ g[i] = f[i]
        BY <3>2, <4>1
      <4> QED BY <2>3, <3>2, <4>1, <4>2
    <3>3. CASE i = 0 /\ i # m
      <4>1. i \in 0 .. m - 1
        BY <1>2, <3>3
      <4> QED BY <2>3, <3>3, <4>1
    <3> QED BY <1>4, <3>1, <3>2, <3>3
  <2>5. DOMAIN g = 0 .. m /\ g = [i \in 0 .. m |-> g[i]]
    OBVIOUS
  <2>6. PICK h : h = g
    OBVIOUS
  <2>7. Pushes(h, o, s, m)
    <3> HIDE DEF g
    <3> QED BY <2>4, <2>5, <2>6 DEF Pushes
  <2> QED BY <1>2, <2>7
<1> QED BY <1>3, <1>4

LEMMA PushAllPushes ==
  ASSUME NEW o, NEW s, Len(s) \in Nat
  PROVE  \E f : Pushes(f, o, s, Len(s)) /\ PushAll(o, s) = f[Len(s)]
<1> DEFINE c == CHOOSE f : f = [i \in 0 .. Len(s) |-> IF i = 0 THEN o ELSE Pushed(f[i - 1], s[i])]
<1>1. PICK f : Pushes(f, o, s, Len(s))
  BY PushesExist
<1>2. \E h : h = [i \in 0 .. Len(s) |-> IF i = 0 THEN o ELSE Pushed(h[i - 1], s[i])]
  BY <1>1, Zenon DEF Pushes
<1>3. Pushes(c, o, s, Len(s))
  BY <1>2, Zenon DEF Pushes
<1>4. PushAll(o, s) = c[Len(s)]
  BY DEF PushAll
<1> HIDE DEF c
<1> QED BY <1>3, <1>4

\* So do chunks pushed one after the other, each after what is there already.
LEMMA PushAllKeeps ==
  ASSUME TeeAssumption, NEW o \in Outboxes, NEW w \in Nat, NEW l \in Nat, NEW s \in Seq(Nat),
         NEW n \in Nat, InTurn(o, w, l), l < n, Earlier(o, n),
         \A i, j \in 1 .. Len(s) : i < j => s[i] < s[j],
         \A i \in 1 .. Len(s) : l < s[i] /\ Earlier(o, s[i]) /\ s[i] < n
  PROVE  /\ PushAll(o, s) \in Outboxes
         /\ InTurn(PushAll(o, s), w, l)
         /\ Earlier(PushAll(o, s), n)
         /\ Len(PushAll(o, s).queue) + PushAll(o, s).lost = Len(o.queue) + o.lost + Len(s)
<1>1. Len(s) \in Nat /\ \A i \in 1 .. Len(s) : s[i] \in Nat
  OBVIOUS
<1>2. PICK f : Pushes(f, o, s, Len(s)) /\ PushAll(o, s) = f[Len(s)]
  BY <1>1, PushAllPushes
<1>3. \A i \in 0 .. Len(s) : f[i] = IF i = 0 THEN o ELSE Pushed(f[i - 1], s[i])
  BY <1>2, Zenon DEF Pushes
<1> DEFINE Fine(i) ==
      /\ f[i] \in Outboxes /\ InTurn(f[i], w, l) /\ Earlier(f[i], n)
      /\ \A j \in 1 .. Len(s) : i < j => Earlier(f[i], s[j])
      /\ Len(f[i].queue) + f[i].lost = Len(o.queue) + o.lost + i
<1> DEFINE Bad == {i \in 0 .. Len(s) : ~Fine(i)}
<1>4. Bad = {}
  <2> SUFFICES ASSUME Bad # {} PROVE FALSE
    OBVIOUS
  <2>1. PICK m \in Bad : \A k \in Bad : m <= k
    <3>1. Bad \in SUBSET Nat
      BY <1>1
    <3> HIDE DEF Bad
    <3> QED BY <3>1, SmallestNat
  <2>2. m \in 0 .. Len(s) /\ ~Fine(m)
    BY <2>1
  <2>3. Len(o.queue) \in Nat /\ o.lost \in Nat
    BY DEF Outboxes
  <2>4. m # 0
    <3> SUFFICES ASSUME m = 0 PROVE Fine(0)
      BY <2>2
    <3>1. 0 \in 0 .. Len(s)
      BY <1>1
    <3>2. f[0] = o
      BY <1>3, <3>1
    <3> QED BY <2>3, <3>2
  <2>5. m - 1 \in 0 .. Len(s) /\ m \in 1 .. Len(s) /\ m \in Nat /\ m - 1 < m
    BY <1>1, <2>2, <2>4
  <2>6. Fine(m - 1)
    <3>1. m - 1 \notin Bad
      BY <2>1, <2>5
    <3> HIDE DEF Fine
    <3> QED BY <2>5, <3>1
  <2>7. PICK p, x, b : p = f[m - 1] /\ x = s[m] /\ b = f[m]
    OBVIOUS
  <2>8. b = Pushed(p, x)
    BY <1>3, <2>4, <2>5, <2>7
  <2>9. /\ p \in Outboxes /\ InTurn(p, w, l) /\ Earlier(p, n) /\ Earlier(p, x)
        /\ Len(p.queue) + p.lost = Len(o.queue) + o.lost + (m - 1)
        /\ x \in Nat /\ l < x /\ x < n
    BY <1>1, <2>5, <2>6, <2>7
  <2> HIDE DEF Fine, Bad
  <2>10. /\ b \in Outboxes /\ InTurn(b, w, l) /\ Earlier(b, x + 1)
         /\ Len(b.queue) + b.lost = Len(p.queue) + p.lost + 1
    <3>1. /\ Pushed(p, x) \in Outboxes /\ InTurn(Pushed(p, x), w, l) /\ Earlier(Pushed(p, x), x + 1)
          /\ Len(Pushed(p, x).queue) + Pushed(p, x).lost = Len(p.queue) + p.lost + 1
      BY <2>9, PushedKeeps
    <3> QED BY <2>8, <3>1, Zenon
  <2>11. \A k \in Nat : x < k => Earlier(b, k)
    <3> SUFFICES ASSUME NEW k \in Nat, x < k PROVE Earlier(b, k)
      OBVIOUS
    <3>1. \A i \in 1 .. Len(b.queue) : b.queue[i].id \in Nat
      <4>1. b.queue \in Seq(Chunks)
        BY <2>10 DEF Outboxes
      <4>2. \A i \in 1 .. Len(b.queue) : b.queue[i] \in Chunks
        BY <4>1
      <4> QED BY <4>2 DEF Chunks
    <3>2. \A i \in 1 .. Len(b.queue) : b.queue[i].id < x + 1
      BY <2>10 DEF Earlier
    <3>3. \A y \in Nat : y < x + 1 => y < k
      <4>1. x \in Nat
        BY <2>9
      <4> QED BY <4>1
    <3>4. \A i \in 1 .. Len(b.queue) : b.queue[i].id < k
      BY <3>1, <3>2, <3>3
    <3> QED BY <3>4 DEF Earlier
  <2>12. Earlier(b, n) /\ \A j \in 1 .. Len(s) : m < j => Earlier(b, s[j])
    BY <1>1, <2>5, <2>7, <2>9, <2>11
  <2>13. Len(b.queue) + b.lost = Len(o.queue) + o.lost + m
    <3>1. Len(b.queue) + b.lost = (Len(o.queue) + o.lost + (m - 1)) + 1
      BY <2>9, <2>10
    <3> QED BY <2>3, <2>5, <3>1
  <2>14. Fine(m)
    BY <2>7, <2>10, <2>12, <2>13 DEF Fine
  <2> QED BY <2>2, <2>14
<1>5. Fine(Len(s))
  <2>1. Len(s) \in 0 .. Len(s)
    BY <1>1
  <2> HIDE DEF Fine
  <2> QED BY <1>4, <2>1
<1> QED BY <1>2, <1>5

\* A rival that has ended has ended for good.
LEMMA EndedForGood ==
  ASSUME PathInv, NEW t \in Tees, NEW x, tee[t] # "closed", tee' = [tee EXCEPT ![t] = x],
         rivals \subseteq rivals', RivalEnded
  PROVE  RivalEnded'
  BY DEF PathInv, RivalEnded

\* A start that begins is a rival of all that are under way.
LEMMA LookKeeps ==
  ASSUME TeeAssumption, PathInv, NEW t \in Tees, LookTee(t)
  PROVE  PathInv'
<1> DEFINE x == IF path = NoFile THEN "clear" ELSE "found"
<1>1. /\ tee[t] = "down" /\ tee' = [tee EXCEPT ![t] = x] /\ path' = path /\ x \in {"clear", "found"}
      /\ rivals' = IF Overlapping(t) = {} THEN rivals ELSE rivals \cup Overlapping(t) \cup {t}
      /\ x = "clear" => path = NoFile
  BY DEF LookTee, TeeAt, TeeGoes
<1> HIDE DEF x
<1>2. /\ path \in Tees \cup {NoFile, StaleFile} /\ tee \in [Tees -> TeeStates] /\ rivals \in SUBSET Tees
      /\ PathLeads /\ StartsMeet /\ NoFile \notin Tees
  BY DEF PathInv, TeeAssumption
<1>3. /\ \A u \in Tees : tee'[u] = IF u = t THEN x ELSE tee[u]
      /\ rivals' \in SUBSET Tees /\ rivals \subseteq rivals'
  BY <1>1, <1>2 DEF Overlapping
<1>4. \A u \in Tees : u # t /\ tee[u] \in UnderWay => u \in rivals' /\ t \in rivals'
  BY <1>1 DEF Overlapping
<1>5. tee' \in [Tees -> TeeStates]
  BY <1>1, <1>2 DEF TeeStates, UnderWay
<1>6. Bound' = Bound /\ PathLeads'
  BY <1>1, <1>2, <1>3 DEF Bound, PathLeads
<1>7. StartsMeet'
  BY <1>2, <1>3, <1>4 DEF StartsMeet
<1>8. CASE RivalEnded
  BY <1>1, <1>2, <1>3, <1>5, <1>6, <1>7, <1>8, EndedForGood DEF PathInv
<1>9. CASE Robbed
  <2>1. \A v \in Bound : path = v \/ v \in rivals'
    BY <1>3, <1>9 DEF Robbed
  <2>2. \A v \in Bound : path = v \/ path \in rivals' \/ \E w \in rivals' : tee'[w] = "clear"
    <3>1. \A w \in rivals : tee[w] = "clear" => w \in rivals' /\ tee'[w] = "clear"
      BY <1>1, <1>2, <1>3
    <3> QED BY <1>3, <1>9, <3>1 DEF Robbed
  <2>3. ASSUME NEW u \in Past', NEW v \in Bound, u # v
        PROVE  u \in rivals' /\ v \in rivals'
    <3>1. CASE u = t
      <4>1. path = NoFile /\ v \in Tees
        BY <1>1, <1>3, <2>3, <3>1 DEF Past, Bound
      <4>2. v \in rivals /\ \E w \in rivals : tee[w] = "clear"
        BY <1>2, <1>9, <4>1 DEF Robbed
      <4>3. PICK w \in rivals : tee[w] = "clear"
        BY <4>2
      <4>4. w # t /\ w \in Tees /\ tee[w] \in UnderWay
        BY <1>1, <1>2, <4>3 DEF UnderWay
      <4> QED BY <1>3, <1>4, <3>1, <4>2, <4>4
    <3>2. CASE u # t
      <4>1. u \in Past
        BY <1>3, <2>3, <3>2 DEF Past
      <4> QED BY <1>3, <1>9, <2>3, <4>1 DEF Robbed
    <3> QED BY <3>1, <3>2
  <2>4. \A u \in Past', v \in Bound' : u = v \/ {u, v} \subseteq rivals'
    BY <1>6, <2>3
  <2>5. path' = StaleFile => Bound' = {}
    BY <1>1, <1>6, <1>9 DEF Robbed
  <2>6. Robbed'
    BY <1>1, <1>6, <2>1, <2>2, <2>4, <2>5 DEF Robbed
  <2> QED BY <1>1, <1>2, <1>3, <1>5, <1>6, <1>7, <2>6 DEF PathInv
<1> QED BY <1>8, <1>9 DEF PathInv

\* A start that finds nobody there is a rival of all that are there nevertheless.
LEMMA ProbeKeeps ==
  ASSUME TeeAssumption, PathInv, NEW t \in Tees, NEW answered \in BOOLEAN, ProbeTee(t, answered)
  PROVE  PathInv'
<1> DEFINE x == IF answered THEN "refused" ELSE "vacant"
<1>1. /\ tee[t] = "found" /\ tee' = [tee EXCEPT ![t] = x] /\ path' = path /\ x \in {"refused", "vacant"}
      /\ rivals' = IF Answers /\ ~answered THEN rivals \cup {t, path} ELSE rivals
      /\ x = "vacant" => ~answered
  BY DEF ProbeTee, TeeAt, TeeGoes
<1> HIDE DEF x
<1>2. /\ path \in Tees \cup {NoFile, StaleFile} /\ tee \in [Tees -> TeeStates] /\ rivals \in SUBSET Tees
      /\ PathLeads /\ StartsMeet
  BY DEF PathInv
<1>3. /\ \A u \in Tees : tee'[u] = IF u = t THEN x ELSE tee[u]
      /\ rivals' \in SUBSET Tees /\ rivals \subseteq rivals'
  BY <1>1, <1>2 DEF Answers
<1>5. tee' \in [Tees -> TeeStates]
  BY <1>1, <1>2 DEF TeeStates, UnderWay, Ended
<1>6. Bound' = Bound /\ PathLeads'
  BY <1>1, <1>2, <1>3 DEF Bound, PathLeads
<1>7. StartsMeet'
  BY <1>1, <1>2, <1>3 DEF StartsMeet, UnderWay
<1>8. CASE RivalEnded
  BY <1>1, <1>2, <1>3, <1>5, <1>6, <1>7, <1>8, EndedForGood DEF PathInv
<1>9. CASE Robbed
  <2>1. \A v \in Bound : path = v \/ v \in rivals'
    BY <1>3, <1>9 DEF Robbed
  <2>2. \A v \in Bound : path = v \/ path \in rivals' \/ \E w \in rivals' : tee'[w] = "clear"
    <3>1. \A w \in rivals : tee[w] = "clear" => w \in rivals' /\ tee'[w] = "clear"
      BY <1>1, <1>2, <1>3
    <3> QED BY <1>3, <1>9, <3>1 DEF Robbed
  <2>3. ASSUME NEW u \in Past', NEW v \in Bound, u # v
        PROVE  u \in rivals' /\ v \in rivals'
    <3>1. CASE u = t
      <4>1. ~answered /\ v \in Tees /\ tee[v] \in {"bound", "up"}
        BY <1>1, <1>3, <2>3, <3>1 DEF Past, Bound
      <4>2. CASE path = v /\ tee[v] = "up"
        BY <1>1, <3>1, <4>1, <4>2 DEF Answers
      <4>3. CASE tee[v] = "bound"
        BY <1>1, <1>2, <1>3, <3>1, <2>3, <4>1, <4>3 DEF StartsMeet, UnderWay
      <4>4. CASE path # v
        <5>1. v \in rivals
          BY <1>9, <4>4 DEF Robbed
        <5>2. CASE path \in rivals
          <6>1. path \in Tees /\ tee[path] \in {"bound", "up"}
            BY <1>2, <5>2 DEF PathLeads, Bound
          <6>2. CASE tee[path] = "up"
            BY <1>1, <1>3, <3>1, <4>1, <5>1, <6>1, <6>2 DEF Answers
          <6>3. CASE tee[path] = "bound"
            BY <1>1, <1>2, <1>3, <3>1, <5>1, <6>1, <6>3 DEF StartsMeet, UnderWay
          <6> QED BY <6>1, <6>2, <6>3
        <5>3. CASE \E w \in rivals : tee[w] = "clear"
          <6>1. PICK w \in rivals : tee[w] = "clear"
            BY <5>3
          <6> QED BY <1>1, <1>2, <1>3, <3>1, <5>1, <6>1 DEF StartsMeet, UnderWay
        <5> QED BY <1>9, <4>4, <5>2, <5>3 DEF Robbed
      <4> QED BY <4>1, <4>2, <4>3, <4>4
    <3>2. CASE u # t
      <4>1. u \in Past
        BY <1>3, <2>3, <3>2 DEF Past
      <4> QED BY <1>3, <1>9, <2>3, <4>1 DEF Robbed
    <3> QED BY <3>1, <3>2
  <2>4. \A u \in Past', v \in Bound' : u = v \/ {u, v} \subseteq rivals'
    BY <1>6, <2>3
  <2>5. path' = StaleFile => Bound' = {}
    BY <1>1, <1>6, <1>9 DEF Robbed
  <2>6. Robbed'
    BY <1>1, <1>6, <2>1, <2>2, <2>4, <2>5 DEF Robbed
  <2> QED BY <1>1, <1>2, <1>3, <1>5, <1>6, <1>7, <2>6 DEF PathInv
<1> QED BY <1>8, <1>9 DEF PathInv

\* What a start unlinks is a rival's, and it goes on as one.
LEMMA UnlinkKeeps ==
  ASSUME TeeAssumption, PathInv, NEW t \in Tees, UnlinkTee(t)
  PROVE  PathInv'
<1> DEFINE x == IF path = NoFile THEN "refused" ELSE "clear"
<1>1. /\ tee[t] = "vacant" /\ tee' = [tee EXCEPT ![t] = x] /\ path' = NoFile /\ rivals' = rivals
      /\ x \in {"refused", "clear"} /\ (x = "refused" => path = NoFile)
  BY DEF UnlinkTee, TeeAt, TeeGoes
<1> HIDE DEF x
<1>2. /\ path \in Tees \cup {NoFile, StaleFile} /\ tee \in [Tees -> TeeStates] /\ rivals \in SUBSET Tees
      /\ PathLeads /\ StartsMeet /\ NoFile \notin Tees /\ t \in Past
  BY <1>1 DEF PathInv, TeeAssumption, Past
<1>3. \A u \in Tees : tee'[u] = IF u = t THEN x ELSE tee[u]
  BY <1>1, <1>2
<1>5. tee' \in [Tees -> TeeStates]
  BY <1>1, <1>2 DEF TeeStates, UnderWay, Ended
<1>6. Bound' = Bound /\ PathLeads' /\ t \notin Bound
  BY <1>1, <1>2, <1>3 DEF Bound, PathLeads
<1>7. StartsMeet'
  BY <1>1, <1>2, <1>3 DEF StartsMeet, UnderWay
<1>8. CASE RivalEnded
  BY <1>1, <1>2, <1>3, <1>5, <1>6, <1>7, <1>8, EndedForGood DEF PathInv
<1>9. CASE Robbed
  <2>1. \A v \in Bound : v \in rivals /\ t \in rivals
    BY <1>2, <1>6, <1>9 DEF Robbed
  <2>2. ASSUME NEW v \in Bound PROVE \E w \in rivals' : tee'[w] = "clear"
    <3>1. CASE x = "clear"
      BY <1>1, <1>3, <2>1, <2>2, <3>1
    <3>2. CASE x = "refused"
      <4>1. path # v /\ path \notin rivals
        BY <1>1, <1>2, <2>2, <3>2 DEF Bound
      <4>2. PICK w \in rivals : tee[w] = "clear"
        BY <1>9, <2>2, <4>1 DEF Robbed
      <4> QED BY <1>1, <1>2, <1>3, <4>2
    <3> QED BY <1>1, <3>1, <3>2
  <2>3. ASSUME NEW u \in Past', NEW v \in Bound, u # v
        PROVE  u \in rivals /\ v \in rivals
    <3>1. u \in Past
      BY <1>2, <1>3, <2>3 DEF Past
    <3> QED BY <1>9, <2>3, <3>1 DEF Robbed
  <2>4. \A u \in Past', v \in Bound' : u = v \/ {u, v} \subseteq rivals'
    BY <1>1, <1>6, <2>3
  <2>5. path' # StaleFile
    BY <1>1 DEF TeeAssumption, NoFile, StaleFile
  <2>6. Robbed'
    BY <1>1, <1>6, <2>1, <2>2, <2>4, <2>5 DEF Robbed
  <2> QED BY <1>1, <1>2, <1>3, <1>5, <1>6, <1>7, <2>6 DEF PathInv
<1> QED BY <1>8, <1>9 DEF PathInv

\* Whoever binds the path while others are there is a rival of theirs.
LEMMA BindKeeps ==
  ASSUME TeeAssumption, PathInv, NEW t \in Tees, BindTee(t)
  PROVE  PathInv'
<1>1. /\ tee[t] = "clear" /\ rivals' = rivals
      /\ path = NoFile => tee' = [tee EXCEPT ![t] = "bound"] /\ path' = t
      /\ path # NoFile => tee' = [tee EXCEPT ![t] = "refused"] /\ path' = path
  BY DEF BindTee, TeeAt, TeeGoes
<1>2. /\ path \in Tees \cup {NoFile, StaleFile} /\ tee \in [Tees -> TeeStates] /\ rivals \in SUBSET Tees
      /\ PathLeads /\ StartsMeet /\ NoFile \notin Tees /\ StaleFile \notin Tees /\ t \in Past /\ t \notin Bound
  BY <1>1 DEF PathInv, TeeAssumption, Past, Bound
<1>3. CASE path = NoFile
  <2>1. /\ \A u \in Tees : tee'[u] = IF u = t THEN "bound" ELSE tee[u]
        /\ tee' \in [Tees -> TeeStates] /\ path' = t
    BY <1>1, <1>2, <1>3 DEF TeeStates, UnderWay
  <2>2. Bound' = Bound \cup {t} /\ Past' = Past /\ PathLeads'
    BY <1>1, <1>2, <2>1 DEF Bound, Past, PathLeads
  <2>3. StartsMeet'
    BY <1>1, <1>2, <2>1 DEF StartsMeet, UnderWay
  <2>4. CASE RivalEnded
    BY <1>1, <1>2, <1>3, <2>1, <2>2, <2>3, <2>4, EndedForGood DEF PathInv
  <2>5. CASE Robbed
    <3>1. \A v \in Bound : v \in rivals /\ t \in rivals
      BY <1>2, <2>5 DEF Robbed
    <3>2. ASSUME NEW u \in Past, u # t PROVE u \in rivals /\ t \in rivals
      BY <1>1, <1>2, <3>2 DEF StartsMeet, Past, UnderWay
    <3>3. \A u \in Past, v \in Bound : u = v \/ {u, v} \subseteq rivals
      BY <2>5 DEF Robbed
    <3>4. \A v \in Bound' : path' = v \/ {v, path'} \subseteq rivals'
      BY <1>1, <2>1, <2>2, <3>1
    <3>5. \A u \in Past', v \in Bound' : u = v \/ {u, v} \subseteq rivals'
      BY <1>1, <1>2, <2>2, <3>1, <3>2, <3>3
    <3>6. path' # StaleFile
      BY <1>2, <2>1
    <3>7. Robbed'
      BY <3>4, <3>5, <3>6 DEF Robbed
    <3> QED BY <1>1, <1>2, <2>1, <2>2, <2>3, <3>7 DEF PathInv
  <2> QED BY <2>4, <2>5 DEF PathInv
<1>4. CASE path # NoFile
  <2>1. /\ \A u \in Tees : tee'[u] = IF u = t THEN "refused" ELSE tee[u]
        /\ tee' \in [Tees -> TeeStates] /\ path' = path
    BY <1>1, <1>2, <1>4 DEF TeeStates, Ended
  <2>2. Bound' = Bound /\ Past' \subseteq Past /\ PathLeads'
    BY <1>1, <1>2, <2>1 DEF Bound, Past, PathLeads
  <2>3. StartsMeet'
    BY <1>1, <1>2, <2>1 DEF StartsMeet, UnderWay
  <2>4. CASE RivalEnded
    BY <1>1, <1>2, <1>4, <2>1, <2>2, <2>3, <2>4, EndedForGood DEF PathInv
  <2>5. CASE Robbed
    <3>1. ASSUME NEW v \in Bound PROVE path = v \/ path \in rivals
      <4>1. path \in Bound
        BY <1>2, <1>4, <2>5, <3>1 DEF Robbed, PathLeads
      <4> QED BY <1>2, <2>5, <4>1 DEF Robbed
    <3>2. Robbed'
      BY <1>1, <2>1, <2>2, <2>5, <3>1 DEF Robbed
    <3> QED BY <1>1, <1>2, <2>1, <2>2, <2>3, <3>2 DEF PathInv
  <2> QED BY <2>4, <2>5 DEF PathInv
<1> QED BY <1>3, <1>4

LEMMA ListenKeeps ==
  ASSUME TeeAssumption, PathInv, NEW t \in Tees, ListenTee(t)
  PROVE  PathInv'
<1>1. tee[t] = "bound" /\ tee' = [tee EXCEPT ![t] = "up"] /\ path' = path /\ rivals' = rivals
  BY DEF ListenTee, TeeAt, TeeGoes
<1>2. /\ path \in Tees \cup {NoFile, StaleFile} /\ tee \in [Tees -> TeeStates] /\ rivals \in SUBSET Tees
      /\ PathLeads /\ StartsMeet
  BY DEF PathInv
<1>3. /\ \A u \in Tees : tee'[u] = IF u = t THEN "up" ELSE tee[u]
      /\ tee' \in [Tees -> TeeStates]
  BY <1>1, <1>2 DEF TeeStates
<1>4. Bound' = Bound /\ Past' \subseteq Past /\ PathLeads'
  BY <1>1, <1>2, <1>3 DEF Bound, Past, PathLeads
<1>5. StartsMeet'
  BY <1>1, <1>2, <1>3 DEF StartsMeet, UnderWay
<1>6. CASE RivalEnded
  BY <1>1, <1>2, <1>3, <1>4, <1>5, <1>6, EndedForGood DEF PathInv
<1>7. CASE Robbed
  <2>1. \A w \in rivals : tee[w] = "clear" => tee'[w] = "clear"
    BY <1>1, <1>2, <1>3
  <2>2. Robbed'
    BY <1>1, <1>4, <1>7, <2>1 DEF Robbed
  <2> QED BY <1>1, <1>2, <1>3, <1>4, <1>5, <2>2 DEF PathInv
<1> QED BY <1>6, <1>7 DEF PathInv

\* A tee that closes, or is killed, and was a rival has ended one; if it was none, nobody
\* else was there.
LEMMA EndKeeps ==
  ASSUME TeeAssumption, PathInv, NEW t \in Tees, CloseTee(t) \/ Kill(t)
  PROVE  PathInv'
<1>1. /\ rivals' = rivals /\ tee[t] \in {"up", "refused"} \cup UnderWay
      /\ tee[t] = "refused" => tee' = [tee EXCEPT ![t] = "left"] /\ path' = path
      /\ tee[t] # "refused" => /\ tee' = [tee EXCEPT ![t] = "closed"]
                               /\ path' # path => path = t \/ tee[t] = "up"
                               /\ path' \in {NoFile, StaleFile, path} /\ path' # t
                               /\ path' = StaleFile => path \in {t, StaleFile}
  <2>1. NoFile \notin Tees /\ StaleFile \notin Tees /\ NoFile # StaleFile
    BY DEF TeeAssumption, NoFile, StaleFile
  <2>2. CASE CloseTee(t)
    BY <2>1, <2>2 DEF CloseTee, TeeEnds, TeeGoes, Unlinked
  <2>3. CASE Kill(t)
    BY <2>1, <2>3 DEF Kill, TeeEnds, TeeGoes, UnderWay
  <2> QED BY <2>2, <2>3
<1>2. /\ path \in Tees \cup {NoFile, StaleFile} /\ tee \in [Tees -> TeeStates] /\ rivals \in SUBSET Tees
      /\ PathLeads /\ StartsMeet /\ NoFile \notin Tees /\ StaleFile \notin Tees
  BY DEF PathInv, TeeAssumption
<1>3. CASE tee[t] = "refused"
  <2>1. /\ \A u \in Tees : tee'[u] = IF u = t THEN "left" ELSE tee[u]
        /\ tee' \in [Tees -> TeeStates] /\ path' = path
    BY <1>1, <1>2, <1>3 DEF TeeStates, Ended
  <2>2. Bound' = Bound /\ Past' = Past /\ PathLeads'
    BY <1>2, <1>3, <2>1 DEF Bound, Past, PathLeads
  <2>3. StartsMeet'
    BY <1>1, <1>2, <1>3, <2>1 DEF StartsMeet, UnderWay
  <2>4. CASE RivalEnded
    BY <1>1, <1>2, <1>3, <2>1, <2>2, <2>3, <2>4, EndedForGood DEF PathInv
  <2>5. CASE Robbed
    <3>1. \A w \in rivals : tee[w] = "clear" => tee'[w] = "clear"
      BY <1>2, <1>3, <2>1
    <3>2. Robbed'
      BY <1>1, <2>1, <2>2, <2>5, <3>1 DEF Robbed
    <3> QED BY <1>1, <1>2, <2>1, <2>2, <2>3, <3>2 DEF PathInv
  <2> QED BY <2>4, <2>5 DEF PathInv
<1>4. CASE tee[t] # "refused"
  <2>1. /\ \A u \in Tees : tee'[u] = IF u = t THEN "closed" ELSE tee[u]
        /\ tee' \in [Tees -> TeeStates] /\ path' \in Tees \cup {NoFile, StaleFile}
    BY <1>1, <1>2, <1>4 DEF TeeStates, Ended
  <2>2. Bound' = Bound \ {t} /\ Past' \subseteq Past /\ PathLeads'
    BY <1>1, <1>2, <1>4, <2>1 DEF Bound, Past, PathLeads
  <2>3. StartsMeet'
    BY <1>1, <1>2, <2>1 DEF StartsMeet, UnderWay
  <2>4. CASE RivalEnded \/ t \in rivals
    <3>1. RivalEnded'
      BY <1>1, <1>2, <1>4, <2>1, <2>4, EndedForGood DEF RivalEnded, UnderWay
    <3> QED BY <1>1, <1>2, <2>1, <2>2, <2>3, <3>1 DEF PathInv
  <2>5. CASE Robbed /\ t \notin rivals
    <3>1. ASSUME t \in Bound, NEW v \in Bound, v # t PROVE FALSE
      <4>1. path = t
        BY <2>5, <3>1 DEF Robbed
      <4>2. PICK w \in rivals : tee[w] = "clear"
        BY <2>5, <3>1, <4>1 DEF Robbed
      <4>3. w \in Past /\ w # t
        BY <1>2, <2>5, <4>2 DEF Past
      <4> QED BY <2>5, <3>1, <4>3 DEF Robbed
    <3>2. CASE t \in Bound
      <4>1. Bound' = {}
        BY <2>2, <3>1, <3>2
      <4>2. Robbed'
        BY <4>1 DEF Robbed
      <4> QED BY <1>1, <1>2, <2>1, <2>2, <2>3, <4>2 DEF PathInv
    <3>3. CASE t \notin Bound
      <4>1. path' = path /\ Bound' = Bound
        BY <1>1, <1>2, <1>4, <2>2, <3>3 DEF Bound, PathLeads
      <4>2. \A w \in rivals : tee[w] = "clear" => tee'[w] = "clear"
        BY <1>2, <2>1, <2>5
      <4>3. Robbed'
        BY <1>1, <2>2, <2>5, <4>1, <4>2 DEF Robbed
      <4> QED BY <1>1, <1>2, <2>1, <2>2, <2>3, <4>3 DEF PathInv
    <3> QED BY <3>2, <3>3
  <2> QED BY <2>4, <2>5 DEF PathInv
<1> QED BY <1>3, <1>4

\* Every step about the path, and what it gives.
LEMMA PathsKeep ==
  ASSUME TeeAssumption, PathInv, Paths
  PROVE  PathInv' /\ PathStays'
<1>1. PathInv'
  BY LookKeeps, ProbeKeeps, UnlinkKeeps, BindKeeps, ListenKeeps, EndKeeps DEF Paths, StartTee
<1>2. KeepsPath'
  BY <1>1 DEF PathInv, Robbed, Bound, KeepsPath
<1>3. SomebodyThere'
  BY <1>1 DEF PathInv, Robbed, Bound, SomebodyThere
<1> QED BY <1>1, <1>2, <1>3 DEF PathStays


\* A step about the path leaves what the tee serves alone, unless the tee ends.
LEMMA AsideKeeps ==
  ASSUME TeeAssumption, TeeInv, UNCHANGED ourVars, PathInv', PathStays'
  PROVE  TeeInv'
<1>1. UNCHANGED <<offered, run, discarded, offers, attached, known, reported, lonely, lines, out,
                  owing, torn, last, dropped, named>>
  BY DEF ourVars, offering, episode, wire, ledger
<1>2. TeeTypeOK'
  BY <1>1 DEF TeeInv, TeeTypeOK
<1>3. LineLeft' /\ Waiting' /\ Boxed'
  BY <1>1 DEF TeeInv, LineLeft, Waiting, Boxed
<1>4. TeeSound'
  BY <1>1 DEF TeeInv, TeeSound, StreamsWhole, NeverTorn, LossTold, Unnamed, ToldOncePerEpisode
<1> QED BY <1>2, <1>3, <1>4 DEF TeeInv

\* Once everybody is let go, nothing waits and nothing is left to report.
LEMMA LetGoKeeps ==
  ASSUME TeeAssumption, TeeInv, LetGo,
         PathInv', PathStays'
  PROVE  TeeInv'
<1>1. EmptyBox \in Outboxes /\ InTurn(EmptyBox, 0, 0) /\ \A n : Earlier(EmptyBox, n) /\ InTurn(EmptyBox, 0, n)
  BY DEF EmptyBox, Outboxes, InTurn, Earlier, TeeAssumption
<1>2. \A c \in Consumers : out'[c] = EmptyBox /\ owing'[c] = 0
  BY DEF LetGo
<1>3. TeeTypeOK'
  <2>1. /\ out' \in [Consumers -> Outboxes] /\ owing' \in [Consumers -> Nat]
        /\ attached' \in SUBSET Consumers /\ known' \in BOOLEAN /\ reported' \in BOOLEAN
        /\ offered' \in Seq(Nat) /\ run' \in Nat
    <3>1. out' = [c \in Consumers |-> EmptyBox] /\ owing' = [c \in Consumers |-> 0] /\ EmptyBox \in Outboxes
      BY <1>1 DEF LetGo
    <3>2. attached' = {} /\ known' = FALSE /\ reported' = FALSE /\ offered' = <<>> /\ run' = 0
      BY DEF LetGo
    <3>3. out' \in [Consumers -> Outboxes] /\ owing' \in [Consumers -> Nat]
      BY <3>1
    <3>4. offered' \in Seq(Nat)
      BY <3>2
    <3> QED BY <3>2, <3>3, <3>4
  <2>2. /\ last' \in [Consumers -> Nat] /\ dropped' \in [Places -> Nat] /\ named' \in [Places -> Nat]
        /\ lonely' \in Nat /\ lines' \in Nat /\ offers' \in Nat
    BY DEF TeeInv, TeeTypeOK, LetGo
  <2> QED BY <2>1, <2>2 DEF TeeTypeOK
<1>4. LineLeft'
  <2>1. lines \in Nat /\ lonely \in Nat /\ lines <= lonely
    BY DEF TeeInv, TeeTypeOK, TeeSound, ToldOncePerEpisode
  <2>2. lines' < lonely' /\ known' = FALSE /\ attached' = {}
    BY <2>1 DEF LetGo
  <2> QED BY <2>2 DEF LineLeft
<1>5. Waiting'
  BY DEF Waiting, LetGo
<1>6. Boxed'
  <2>1. \A c \in Consumers : last'[c] = last[c] /\ last[c] <= offers /\ offers' = offers
    BY DEF TeeInv, Boxed, LetGo
  <2> QED BY <1>1, <1>2, <2>1 DEF Boxed
<1>7. TeeSound'
  <2>1. NeverTorn' /\ ToldOncePerEpisode'
    BY DEF TeeInv, TeeTypeOK, TeeSound, StreamsWhole, NeverTorn, ToldOncePerEpisode, LetGo
  <2>2. LossTold'
    <3> SUFFICES ASSUME NEW p \in Places PROVE dropped'[p] = named'[p] + Unnamed(p)'
      BY DEF LossTold
    <3>1. dropped'[p] \in Nat /\ named'[p] = dropped'[p]
      BY DEF TeeInv, TeeTypeOK, LetGo
    <3>2. Unnamed(p)' = 0
      BY <1>2 DEF Unnamed, LetGo, Places, EmptyBox
    <3> QED BY <3>1, <3>2
  <2> QED BY <2>1, <2>2 DEF TeeSound, StreamsWhole
<1> QED BY <1>3, <1>4, <1>5, <1>6, <1>7 DEF TeeInv

\* So every step about the path keeps the invariant.
LEMMA PathsKeepTee ==
  ASSUME TeeAssumption, TeeInv, Paths
  PROVE  TeeInv'
<1>1. PathInv' /\ PathStays'
  BY PathsKeep DEF TeeInv
<1>2. UNCHANGED ourVars \/ LetGo
  BY DEF Paths, StartTee, LookTee, ProbeTee, UnlinkTee, BindTee, ListenTee, CloseTee, Kill, TeeAt,
         TeeEnds
<1> QED BY <1>1, <1>2, AsideKeeps, LetGoKeeps

\* What leaves the path alone keeps what is said of it.
LEMMA FilesAside ==
  ASSUME TeeInv, UNCHANGED <<path, tee, rivals>>
  PROVE  PathInv' /\ PathStays'
<1>1. PathInv'
  BY DEF TeeInv, PathInv, PathLeads, StartsMeet, Robbed, RivalEnded, Bound, Past
<1>2. KeepsPath' /\ SomebodyThere'
  BY DEF TeeInv, TeeSound, PathStays, KeepsPath, SomebodyThere, RivalEnded
<1> QED BY <1>1, <1>2 DEF PathStays

\* A consumer that is not served owes nothing and waits for nothing.
LEMMA AcceptKeeps ==
  ASSUME TeeAssumption, TeeInv, NEW c \in Consumers, Accept(c)
  PROVE  TeeInv'
<1>1. /\ c \notin attached /\ attached' = attached \cup {c} /\ known' = TRUE /\ reported' = FALSE
      /\ last' = [last EXCEPT ![c] = 0]
      /\ UNCHANGED <<path, tee, rivals, offered, run, discarded, offers, lonely, lines, out, owing, torn,
                     dropped, named>>
  BY DEF Accept, files, offering, ledger
<1>2. TeeTypeOK'
  BY <1>1 DEF TeeInv, TeeTypeOK
<1>3. /\ last \in [Consumers -> Nat] /\ offers \in Nat /\ offered \in Seq(Nat)
      /\ out[c] = EmptyBox /\ owing[c] = 0
  BY <1>1 DEF TeeInv, TeeTypeOK, Boxed
<1>4. \A d \in Consumers : last'[d] = IF d = c THEN 0 ELSE last[d]
  BY <1>1, <1>3
<1>5. PathInv' /\ LineLeft'
  BY <1>1, FilesAside DEF TeeInv, LineLeft
<1>6. Waiting'
  <2>1. \A i \in 1 .. Len(offered) : offered[i] \in Nat /\ 0 < offered[i]
    BY <1>3 DEF TeeInv, Waiting
  <2>2. \A d \in Consumers : \A i \in 1 .. Len(offered) :
          last'[d] < offered[i] /\ Earlier(out[d], offered[i])
    BY <1>4, <2>1 DEF TeeInv, Waiting
  <2> QED BY <1>1, <2>1, <2>2 DEF TeeInv, Waiting
<1>7. Boxed'
  <2>1. InTurn(EmptyBox, 0, 0)
    BY DEF EmptyBox, InTurn, TeeAssumption
  <2>2. \A d \in Consumers : InTurn(out[d], owing[d], last'[d])
    BY <1>3, <1>4, <2>1 DEF TeeInv, Boxed
  <2>3. \A d \in Consumers : last'[d] <= offers /\ Earlier(out[d], offers + 1)
    BY <1>3, <1>4 DEF TeeInv, Boxed
  <2>4. \A d \in Consumers \ attached' : out[d] = EmptyBox /\ owing[d] = 0
    BY <1>1 DEF TeeInv, Boxed
  <2> QED BY <1>1, <2>2, <2>3, <2>4 DEF Boxed
<1>8. TeeSound'
  BY <1>1, FilesAside DEF TeeInv, TeeSound, StreamsWhole, NeverTorn, LossTold, Unnamed, ToldOncePerEpisode
<1> QED BY <1>2, <1>5, <1>6, <1>7, <1>8 DEF TeeInv

\* A consumer that leaves, or breaks, has its losses told.
LEMMA DetachedKeeps ==
  ASSUME TeeAssumption, TeeInv, NEW c \in Consumers, Detached(c),
         UNCHANGED <<path, tee, rivals, offered, run, discarded, offers, reported, lines, torn, last, dropped>>
  PROVE  TeeInv'
<1>1. /\ attached' = attached \ {c} /\ known' = (attached' # {})
      /\ out' = [out EXCEPT ![c] = EmptyBox] /\ owing' = [owing EXCEPT ![c] = 0]
      /\ named' = [named EXCEPT ![c] = @ + out[c].lost]
      /\ lonely' = IF attached' = {} THEN lonely + 1 ELSE lonely
  BY DEF Detached
<1>2. /\ out \in [Consumers -> Outboxes] /\ owing \in [Consumers -> Nat] /\ last \in [Consumers -> Nat]
      /\ named \in [Places -> Nat] /\ dropped \in [Places -> Nat] /\ lonely \in Nat /\ lines \in Nat
      /\ out[c].lost \in Nat /\ c \in Places /\ attached \in SUBSET Consumers
      /\ c # Self
  BY DEF TeeInv, TeeTypeOK, Outboxes, Places, TeeAssumption
<1>3. EmptyBox \in Outboxes /\ \A n \in Nat : Earlier(EmptyBox, n) /\ InTurn(EmptyBox, 0, n)
  BY DEF EmptyBox, Outboxes, InTurn, Earlier, TeeAssumption
<1>4. \A d \in Consumers : out'[d] = (IF d = c THEN EmptyBox ELSE out[d])
                           /\ owing'[d] = (IF d = c THEN 0 ELSE owing[d])
  BY <1>1, <1>2
<1>5. TeeTypeOK'
  <2>1. /\ out' \in [Consumers -> Outboxes] /\ owing' \in [Consumers -> Nat]
        /\ named' \in [Places -> Nat]
    BY <1>1, <1>2, <1>3
  <2>2. attached' \in SUBSET Consumers /\ known' \in BOOLEAN /\ lonely' \in Nat
    BY <1>1, <1>2
  <2> QED BY <2>1, <2>2 DEF TeeInv, TeeTypeOK
<1>6. PathInv'
  BY FilesAside
<1>7. lines' <= lonely' /\ LineLeft'
  <2>1. lines <= lonely /\ (attached = {} /\ ~reported => lines < lonely)
    BY DEF TeeInv, LineLeft, TeeSound, ToldOncePerEpisode
  <2>2. attached' = {} => lonely' = lonely + 1
    BY <1>1
  <2>3. lonely' \in {lonely, lonely + 1}
    BY <1>1
  <2>4. lines' <= lonely' /\ (attached' = {} => lines' < lonely')
    BY <1>2, <2>1, <2>2, <2>3
  <2> QED BY <1>1, <2>4 DEF LineLeft
<1>8. Waiting'
  <2>1. \A i \in 1 .. Len(offered) : offered[i] \in Nat
    BY DEF TeeInv, TeeTypeOK
  <2>2. \A d \in Consumers : \A i \in 1 .. Len(offered) :
          last[d] < offered[i] /\ Earlier(out'[d], offered[i])
    BY <1>3, <1>4, <2>1 DEF TeeInv, Waiting
  <2> QED BY <2>2 DEF TeeInv, Waiting
<1>9. Boxed'
  <2>1. offers + 1 \in Nat /\ \A d \in Consumers : last[d] \in Nat
    BY <1>2 DEF TeeInv, TeeTypeOK
  <2>2. \A d \in Consumers : InTurn(out'[d], owing'[d], last[d])
    BY <1>3, <1>4, <2>1 DEF TeeInv, Boxed
  <2>3. \A d \in Consumers : last[d] <= offers /\ Earlier(out'[d], offers + 1)
    BY <1>3, <1>4, <2>1 DEF TeeInv, Boxed
  <2>4. \A d \in Consumers \ attached' : out'[d] = EmptyBox /\ owing'[d] = 0
    BY <1>1, <1>4 DEF TeeInv, Boxed
  <2> QED BY <2>2, <2>3, <2>4 DEF Boxed
<1>10. LossTold'
  <2> SUFFICES ASSUME NEW p \in Places PROVE dropped[p] = named'[p] + Unnamed(p)'
    BY DEF LossTold
  <2>1. dropped[p] = named[p] + Unnamed(p) /\ dropped[p] \in Nat /\ named[p] \in Nat
    BY <1>2 DEF TeeInv, TeeSound, StreamsWhole, LossTold
  <2>2. CASE p = c
    <3>1. Unnamed(p) = out[c].lost /\ Unnamed(p)' = 0
      BY <1>2, <1>4, <2>2 DEF Unnamed, EmptyBox
    <3>2. named'[p] = named[p] + out[c].lost
      BY <1>1, <1>2, <2>2
    <3> QED BY <1>2, <2>1, <3>1, <3>2
  <2>3. CASE p # c
    <3>1. Unnamed(p)' = Unnamed(p)
      BY <1>4, <2>3 DEF Unnamed, Places
    <3>2. named'[p] = named[p]
      BY <1>1, <1>2, <2>3
    <3> QED BY <2>1, <3>1, <3>2
  <2> QED BY <2>2, <2>3
<1>11. TeeSound'
  BY <1>7, <1>10, FilesAside DEF TeeInv, TeeSound, StreamsWhole, NeverTorn, ToldOncePerEpisode
<1> QED BY <1>5, <1>6, <1>7, <1>8, <1>9, <1>11 DEF TeeInv

\* The line is written for a stretch that has none yet.
LEMMA ReportKeeps ==
  ASSUME TeeAssumption, TeeInv, Report
  PROVE  TeeInv'
<1>1. /\ reported' = (reported \/ MayReport)
      /\ lines' = IF MayReport THEN lines + 1 ELSE lines
      /\ UNCHANGED <<path, tee, rivals, offered, run, offers, attached, known, lonely, out, owing, torn, last,
                     dropped, named>>
  BY DEF Report, files, wire, ledger
<1>2. /\ lines \in Nat /\ lonely \in Nat /\ reported \in BOOLEAN /\ lines <= lonely
      /\ known = (attached # {}) /\ (attached = {} /\ ~reported => lines < lonely)
  BY DEF TeeInv, TeeTypeOK, LineLeft, TeeSound, ToldOncePerEpisode
<1>3. lines' \in Nat /\ reported' \in BOOLEAN /\ lines' <= lonely' /\ LineLeft'
  <2>1. CASE MayReport
    <3>1. lines < lonely /\ reported' = TRUE
      BY <1>1, <1>2, <2>1 DEF MayReport
    <3> QED BY <1>1, <1>2, <2>1, <3>1 DEF LineLeft
  <2>2. CASE ~MayReport
    <3>1. reported' = reported /\ lines' = lines
      BY <1>1, <1>2, <2>2
    <3> QED BY <1>1, <1>2, <3>1 DEF LineLeft
  <2> QED BY <2>1, <2>2
<1>4. TeeTypeOK'
  BY <1>1, <1>3 DEF TeeInv, TeeTypeOK
<1>5. PathInv' /\ Waiting' /\ Boxed'
  BY <1>1, FilesAside DEF TeeInv, Waiting, Boxed
<1>6. TeeSound'
  BY <1>1, <1>3, FilesAside DEF TeeInv, TeeSound, StreamsWhole, NeverTorn, LossTold, Unnamed, ToldOncePerEpisode
<1> QED BY <1>3, <1>4, <1>5, <1>6 DEF TeeInv

\* A chunk that is offered comes after all that wait, and what makes room is counted.
LEMMA OfferKeeps ==
  ASSUME TeeAssumption, TeeInv, OfferChunk
  PROVE  TeeInv'
<1> DEFINE full == Len(offered) = MaxChunks
           rest == IF full THEN Tail(offered) ELSE offered
<1>1. /\ offered \in Seq(Nat) /\ Len(offered) \in Nat /\ offers \in Nat /\ run \in Nat
      /\ MaxChunks \in Nat \ {0} /\ known \in BOOLEAN
      /\ dropped \in [Places -> Nat] /\ named \in [Places -> Nat] /\ Self \in Places
      /\ out \in [Consumers -> Outboxes] /\ last \in [Consumers -> Nat]
  BY DEF TeeInv, TeeTypeOK, TeeAssumption, Places
<1>2. /\ offers' = offers + 1
      /\ UNCHANGED <<path, tee, rivals, attached, known, reported, lonely, lines, out, owing, torn, last, named>>
  BY DEF OfferChunk, files, episode, wire
<1>3. PathInv' /\ LineLeft'
  BY <1>2, FilesAside DEF TeeInv, LineLeft
<1>4. Boxed'
  <2>1. \A c \in Consumers : \A i \in 1 .. Len(out[c].queue) : out[c].queue[i].id \in Nat
    <3> SUFFICES ASSUME NEW c \in Consumers
                 PROVE  \A i \in 1 .. Len(out[c].queue) : out[c].queue[i].id \in Nat
      OBVIOUS
    <3>1. out[c].queue \in Seq(Chunks)
      BY <1>1 DEF Outboxes
    <3>2. \A i \in 1 .. Len(out[c].queue) : out[c].queue[i] \in Chunks
      BY <3>1
    <3> QED BY <3>2 DEF Chunks
  <2>2. \A c \in Consumers : last[c] <= offers + 1 /\ Earlier(out[c], offers + 1 + 1)
    <3> SUFFICES ASSUME NEW c \in Consumers
                 PROVE  last[c] <= offers + 1 /\ Earlier(out[c], offers + 1 + 1)
      OBVIOUS
    <3>1. last[c] \in Nat /\ last[c] <= offers /\ Earlier(out[c], offers + 1)
      BY <1>1 DEF TeeInv, Boxed
    <3> QED BY <1>1, <2>1, <3>1 DEF Earlier
  <2> QED BY <1>2, <2>2 DEF TeeInv, Boxed
<1>5. CASE ~known
  <2>1. UNCHANGED <<offered, run, dropped>>
    BY <1>5 DEF OfferChunk
  <2>2. TeeTypeOK'
    BY <1>1, <1>2, <2>1 DEF TeeInv, TeeTypeOK
  <2>3. Waiting'
    <3>1. \A i \in 1 .. Len(offered) : offered[i] \in Nat /\ offered[i] <= offers
      BY <1>1 DEF TeeInv, Waiting
    <3>2. \A i \in 1 .. Len(offered) : offered[i] <= offers + 1
      BY <1>1, <3>1
    <3> QED BY <1>2, <2>1, <3>2 DEF TeeInv, Waiting
  <2>4. TeeSound'
    BY <1>2, <2>1, FilesAside DEF TeeInv, TeeSound, StreamsWhole, NeverTorn, LossTold, Unnamed, ToldOncePerEpisode
  <2> QED BY <1>3, <1>4, <2>2, <2>3, <2>4 DEF TeeInv
<1>6. CASE known
  <2>1. /\ offered' = Append(rest, offers + 1)
        /\ run' = IF full THEN run + 1 ELSE run
        /\ dropped' = [dropped EXCEPT ![Self] = @ + Len(offered) + 1 - Len(offered')]
    BY <1>2, <1>6 DEF OfferChunk
  <2>2. PICK skip \in {0, 1} :
          /\ rest \in Seq(Nat) /\ Len(rest) = Len(offered) - skip
          /\ \A i \in 1 .. Len(rest) : rest[i] = offered[i + skip]
          /\ run' = run + skip
    <3>1. CASE full
      <4>1. offered # <<>>
        BY <1>1, <3>1
      <4>2. /\ Tail(offered) \in Seq(Nat) /\ Len(Tail(offered)) = Len(offered) - 1
            /\ \A i \in 1 .. Len(Tail(offered)) : Tail(offered)[i] = offered[i + 1]
        BY <1>1, <4>1
      <4>3. rest = Tail(offered) /\ run' = run + 1
        BY <2>1, <3>1
      <4> HIDE DEF rest
      <4> QED BY <4>2, <4>3
    <3>2. CASE ~full
      <4>1. rest = offered /\ run' = run
        BY <2>1, <3>2
      <4> HIDE DEF rest
      <4> QED BY <1>1, <4>1
    <3> QED BY <3>1, <3>2
  <2> HIDE DEF rest, full
  <2>3. /\ offered' \in Seq(Nat) /\ Len(offered') = Len(rest) + 1 /\ Len(rest) \in Nat
        /\ \A i \in 1 .. Len(rest) : offered'[i] = rest[i]
        /\ offered'[Len(rest) + 1] = offers + 1
    BY <1>1, <2>1, <2>2
  <2>4. run' \in Nat /\ Len(offered') = Len(offered) + 1 - skip
    BY <1>1, <2>2, <2>3
  <2>5. /\ dropped' \in [Places -> Nat]
        /\ \A p \in Places : dropped'[p] = IF p = Self THEN dropped[p] + skip ELSE dropped[p]
    <3>1. dropped[Self] \in Nat
      BY <1>1
    <3>2. dropped[Self] + Len(offered) + 1 - Len(offered') = dropped[Self] + skip
      BY <1>1, <2>4, <3>1
    <3> QED BY <1>1, <2>1, <3>1, <3>2
  <2>6. TeeTypeOK'
    BY <1>1, <1>2, <2>3, <2>4, <2>5 DEF TeeInv, TeeTypeOK
  <2>7. Waiting'
    <3>1. /\ \A i \in 1 .. Len(offered) : offered[i] \in Nat /\ 0 < offered[i] /\ offered[i] <= offers
          /\ \A i, j \in 1 .. Len(offered) : i < j => offered[i] < offered[j]
      BY <1>1 DEF TeeInv, Waiting
    <3>2. \A i \in 1 .. Len(rest) : i + skip \in 1 .. Len(offered)
      BY <1>1, <2>2
    <3>3. ASSUME NEW i \in 1 .. Len(offered')
          PROVE  \/ i \in 1 .. Len(rest) /\ i + skip \in 1 .. Len(offered) /\ offered'[i] = offered[i + skip]
                 \/ i = Len(rest) + 1 /\ offered'[i] = offers + 1
      BY <2>2, <2>3, <3>2
    <3>4. \A i \in 1 .. Len(offered') : 0 < offered'[i] /\ offered'[i] <= offers + 1
      BY <1>1, <3>1, <3>3
    <3>5. ASSUME NEW i \in 1 .. Len(offered'), NEW j \in 1 .. Len(offered'), i < j
          PROVE  offered'[i] < offered'[j]
      <4>1. i \in 1 .. Len(rest) /\ i + skip \in 1 .. Len(offered) /\ offered'[i] = offered[i + skip]
        BY <2>3, <3>3, <3>5
      <4>2. CASE j \in 1 .. Len(rest)
        <5>1. j + skip \in 1 .. Len(offered) /\ offered'[j] = offered[j + skip] /\ i + skip < j + skip
          BY <2>2, <2>3, <3>2, <3>5, <4>2
        <5> QED BY <3>1, <4>1, <5>1
      <4>3. CASE j = Len(rest) + 1
        <5>1. offered'[j] = offers + 1 /\ offered'[i] <= offers /\ offered'[i] \in Nat
          BY <2>3, <3>1, <4>1, <4>3
        <5> QED BY <1>1, <5>1
      <4> QED BY <2>3, <4>2, <4>3
    <3>6. \A c \in Consumers : \A i \in 1 .. Len(offered') :
            last[c] < offered'[i] /\ Earlier(out[c], offered'[i])
      <4> SUFFICES ASSUME NEW c \in Consumers, NEW i \in 1 .. Len(offered')
                   PROVE  last[c] < offered'[i] /\ Earlier(out[c], offered'[i])
        OBVIOUS
      <4>1. CASE i = Len(rest) + 1 /\ offered'[i] = offers + 1
        <5>1. last[c] \in Nat /\ last[c] <= offers /\ Earlier(out[c], offers + 1)
          BY <1>1 DEF TeeInv, Boxed
        <5> QED BY <1>1, <4>1, <5>1
      <4>2. CASE i + skip \in 1 .. Len(offered) /\ offered'[i] = offered[i + skip]
        BY <4>2 DEF TeeInv, Waiting
      <4> QED BY <3>3, <4>1, <4>2
    <3> QED BY <1>2, <3>4, <3>5, <3>6 DEF Waiting
  <2>8. LossTold'
    <3> SUFFICES ASSUME NEW p \in Places PROVE dropped'[p] = named[p] + Unnamed(p)'
      BY <1>2 DEF LossTold
    <3>1. dropped[p] = named[p] + Unnamed(p) /\ dropped[p] \in Nat /\ named[p] \in Nat
      BY <1>1 DEF TeeInv, TeeSound, StreamsWhole, LossTold
    <3>2. CASE p = Self
      <4>1. Unnamed(p)' = run + skip /\ Unnamed(p) = run
        BY <2>2, <3>2 DEF Unnamed
      <4> QED BY <1>1, <2>5, <3>1, <3>2, <4>1
    <3>3. CASE p # Self
      <4>1. Unnamed(p)' = Unnamed(p)
        BY <1>2, <3>3 DEF Unnamed
      <4> QED BY <2>5, <3>1, <3>3, <4>1
    <3> QED BY <3>2, <3>3
  <2>9. TeeSound'
    BY <1>2, <2>8, FilesAside DEF TeeInv, TeeSound, StreamsWhole, NeverTorn, ToldOncePerEpisode
  <2> QED BY <1>3, <1>4, <2>6, <2>7, <2>9 DEF TeeInv
<1> QED BY <1>5, <1>6

\* The worker hands what waited to everybody who is served.
LEMMA DrainKeeps ==
  ASSUME TeeAssumption, TeeInv, Drain
  PROVE  TeeInv'
<1>1. /\ offered \in Seq(Nat) /\ Len(offered) \in Nat /\ offers \in Nat
      /\ dropped \in [Places -> Nat] /\ named \in [Places -> Nat] /\ attached \in SUBSET Consumers
      /\ out \in [Consumers -> Outboxes] /\ last \in [Consumers -> Nat] /\ owing \in [Consumers -> Nat]
  BY DEF TeeInv, TeeTypeOK
<1>2. /\ offered' = <<>>
      /\ out' = [c \in Consumers |-> IF c \in attached THEN PushAll(out[c], offered) ELSE out[c]]
      /\ dropped' = [p \in Places |->
                       IF p \in attached
                       THEN dropped[p] + Len(out[p].queue) + Len(offered) - Len(out'[p].queue)
                       ELSE dropped[p]]
      /\ UNCHANGED <<path, tee, rivals, run, offers, attached, known, reported, lonely, lines, owing, torn,
                     last, named>>
  BY DEF Drain, files, episode, wire
<1>3. ASSUME NEW c \in Consumers
      PROVE  /\ out'[c] \in Outboxes /\ InTurn(out'[c], owing[c], last[c])
             /\ Earlier(out'[c], offers + 1)
             /\ Len(out'[c].queue) \in Nat /\ out'[c].lost \in Nat
             /\ Len(out[c].queue) \in Nat /\ out[c].lost \in Nat
             /\ IF c \in attached
                THEN Len(out'[c].queue) + out'[c].lost = Len(out[c].queue) + out[c].lost + Len(offered)
                ELSE out'[c] = out[c]
  <2>1. /\ out[c] \in Outboxes /\ owing[c] \in Nat /\ last[c] \in Nat
        /\ InTurn(out[c], owing[c], last[c]) /\ last[c] <= offers /\ Earlier(out[c], offers + 1)
    BY <1>1 DEF TeeInv, Boxed
  <2>2. \A o \in Outboxes : Len(o.queue) \in Nat /\ o.lost \in Nat
    BY DEF Outboxes
  <2>3. CASE c \notin attached
    <3>1. out'[c] = out[c]
      BY <1>2, <2>3
    <3> QED BY <2>1, <2>2, <2>3, <3>1
  <2>4. CASE c \in attached
    <3>1. out'[c] = PushAll(out[c], offered)
      BY <1>2, <2>4
    <3>2. PICK o, w, l, n, p : o = out[c] /\ w = owing[c] /\ l = last[c] /\ n = offers + 1 /\ p = out'[c]
      OBVIOUS
    <3>3. n \in Nat /\ l < n
      BY <1>1, <2>1, <3>2
    <3>4. /\ \A i, j \in 1 .. Len(offered) : i < j => offered[i] < offered[j]
          /\ \A i \in 1 .. Len(offered) : offered[i] \in Nat /\ offered[i] <= offers
          /\ \A i \in 1 .. Len(offered) : l < offered[i] /\ Earlier(o, offered[i])
      BY <1>1, <3>2 DEF TeeInv, Waiting
    <3>5. \A i \in 1 .. Len(offered) : offered[i] < n
      BY <1>1, <3>2, <3>4
    <3>6. /\ PushAll(o, offered) \in Outboxes
          /\ InTurn(PushAll(o, offered), w, l)
          /\ Earlier(PushAll(o, offered), n)
          /\ Len(PushAll(o, offered).queue) + PushAll(o, offered).lost = Len(o.queue) + o.lost + Len(offered)
      <4>1. /\ o \in Outboxes /\ w \in Nat /\ l \in Nat /\ n \in Nat /\ l < n
            /\ InTurn(o, w, l) /\ Earlier(o, n)
        BY <2>1, <3>2, <3>3
      <4>2. PICK s \in Seq(Nat) : s = offered
        BY <1>1
      <4>3. /\ \A i, j \in 1 .. Len(s) : i < j => s[i] < s[j]
            /\ \A i \in 1 .. Len(s) : l < s[i] /\ Earlier(o, s[i]) /\ s[i] < n
        BY <3>4, <3>5, <4>2
      <4>4. /\ PushAll(o, s) \in Outboxes
            /\ InTurn(PushAll(o, s), w, l)
            /\ Earlier(PushAll(o, s), n)
            /\ Len(PushAll(o, s).queue) + PushAll(o, s).lost = Len(o.queue) + o.lost + Len(s)
        BY <4>1, <4>3, PushAllKeeps
      <4> QED BY <4>2, <4>4
    <3>7. /\ p \in Outboxes /\ InTurn(p, w, l) /\ Earlier(p, n)
          /\ Len(p.queue) + p.lost = Len(o.queue) + o.lost + Len(offered)
      BY <3>1, <3>2, <3>6, Zenon
    <3> QED BY <2>1, <2>2, <2>4, <3>2, <3>7
  <2> QED BY <2>3, <2>4
<1>4. \A p \in Places : dropped'[p] = named[p] + Unnamed(p)' /\ dropped'[p] \in Nat
  <2> SUFFICES ASSUME NEW p \in Places
               PROVE  dropped'[p] = named[p] + Unnamed(p)' /\ dropped'[p] \in Nat
    OBVIOUS
  <2>1. dropped[p] = named[p] + Unnamed(p) /\ dropped[p] \in Nat /\ named[p] \in Nat
    BY <1>1 DEF TeeInv, TeeSound, StreamsWhole, LossTold
  <2>2. CASE p \in attached
    <3>1. p \in Consumers /\ p # Self
      BY <1>1, <2>2 DEF TeeAssumption
    <3>2. Unnamed(p) = out[p].lost /\ Unnamed(p)' = out'[p].lost
      BY <3>1 DEF Unnamed
    <3>3. dropped'[p] = dropped[p] + Len(out[p].queue) + Len(offered) - Len(out'[p].queue)
      BY <1>2, <2>2
    <3>4. /\ Len(out'[p].queue) + out'[p].lost = Len(out[p].queue) + out[p].lost + Len(offered)
          /\ Len(out'[p].queue) \in Nat /\ out'[p].lost \in Nat
          /\ Len(out[p].queue) \in Nat /\ out[p].lost \in Nat
      BY <1>3, <2>2, <3>1
    <3>5. dropped'[p] = named[p] + out'[p].lost
      <4>1. PICK a, b, d, e, f \in Nat :
              /\ a = Len(out[p].queue) /\ b = out[p].lost /\ d = Len(out'[p].queue) /\ e = out'[p].lost
              /\ f = Len(offered)
        BY <1>1, <3>4
      <4>2. d + e = a + b + f /\ dropped'[p] = (named[p] + b) + a + f - d
        BY <2>1, <3>2, <3>3, <3>4, <4>1
      <4>3. (named[p] + b) + a + f - d = named[p] + e
        BY <2>1, <4>2
      <4> QED BY <4>1, <4>2, <4>3
    <3> QED BY <2>1, <3>2, <3>4, <3>5
  <2>3. CASE p \notin attached
    <3>1. dropped'[p] = dropped[p]
      BY <1>2, <2>3
    <3>2. Unnamed(p)' = Unnamed(p)
      <4>1. p # Self => p \in Consumers /\ out'[p] = out[p]
        BY <1>3, <2>3 DEF Places
      <4> QED BY <1>2, <4>1 DEF Unnamed
    <3> QED BY <2>1, <3>1, <3>2
  <2> QED BY <2>2, <2>3
<1>5. TeeTypeOK'
  <2>1. out' \in [Consumers -> Outboxes]
    BY <1>2, <1>3
  <2>3. \A p \in Places : dropped'[p] \in Nat
    BY <1>4
  <2>4. offered' = <<>> /\ offered' \in Seq(Nat)
    BY <1>2
  <2>5. DOMAIN dropped' = Places /\ dropped' = [p \in Places |-> dropped'[p]]
    BY <1>2
  <2>2. dropped' \in [Places -> Nat] /\ offered' \in Seq(Nat)
    BY <2>3, <2>4, <2>5
  <2> QED BY <1>2, <2>1, <2>2 DEF TeeInv, TeeTypeOK
<1>6. PathInv' /\ LineLeft'
  BY <1>2, FilesAside DEF TeeInv, LineLeft
<1>7. Waiting'
  BY <1>2 DEF Waiting
<1>8. Boxed'
  BY <1>2, <1>3 DEF TeeInv, Boxed
<1>9. TeeSound'
  <2>1. LossTold'
    BY <1>2, <1>4 DEF LossTold
  <2> QED BY <1>2, <2>1, FilesAside DEF TeeInv, TeeSound, StreamsWhole, NeverTorn, ToldOncePerEpisode
<1> QED BY <1>5, <1>6, <1>7, <1>8, <1>9 DEF TeeInv

LEMMA OutboxChanged ==
  ASSUME NEW o \in Outboxes, NEW t, NEW b
  PROVE  [[o EXCEPT !.queue = t] EXCEPT !.partial = b] = [queue |-> t, partial |-> b, lost |-> o.lost]
<1>1. PICK x : x = [o EXCEPT !.queue = t]
  OBVIOUS
<1>2. x = [queue |-> t, partial |-> o.partial, lost |-> o.lost]
  BY <1>1 DEF Outboxes
<1>3. [x EXCEPT !.partial = b] = [queue |-> t, partial |-> b, lost |-> o.lost]
  BY <1>2
<1> QED BY <1>1, <1>3

\* What is sent is the rest of the chunk that is owed, or the next one in order.
LEMMA SendKeeps ==
  ASSUME TeeAssumption, TeeInv, NEW c \in Consumers, Send(c)
  PROVE  TeeInv'
<1> DEFINE q == out[c].queue
<1>1. /\ out \in [Consumers -> Outboxes] /\ owing \in [Consumers -> Nat] /\ last \in [Consumers -> Nat]
      /\ c \in attached /\ q \in Seq(Chunks) /\ q # <<>> /\ Len(q) \in Nat \ {0} /\ offers \in Nat
      /\ offered \in Seq(Nat) /\ MaxOutbox \in Nat
  <2>1. /\ out \in [Consumers -> Outboxes] /\ owing \in [Consumers -> Nat] /\ last \in [Consumers -> Nat]
        /\ c \in attached /\ q # <<>> /\ offers \in Nat /\ offered \in Seq(Nat) /\ MaxOutbox \in Nat
    BY DEF TeeInv, TeeTypeOK, Send, TeeAssumption
  <2>2. q \in Seq(Chunks)
    BY <2>1 DEF Outboxes
  <2>3. Len(q) \in Nat \ {0}
    <3> HIDE DEF q
    <3> QED BY <2>1, <2>2
  <2> QED BY <2>1, <2>2, <2>3
<1>2. PICK head : head = q[1]
  OBVIOUS
<1>3. PICK halves \in 1 .. head.halves :
        /\ torn' = (torn \/ owing[c] \notin {0, head.id} \/ head.id < last[c])
        /\ last' = [last EXCEPT ![c] = head.id]
        /\ IF halves = head.halves
           THEN /\ out' = [out EXCEPT ![c].queue = Tail(@), ![c].partial = FALSE]
                /\ owing' = [owing EXCEPT ![c] = 0]
           ELSE /\ out' = [out EXCEPT ![c].queue[1].halves = 1, ![c].partial = TRUE]
                /\ owing' = [owing EXCEPT ![c] = head.id]
  <2>1. Head(q) = head
    BY <1>1, <1>2
  <2> QED BY <2>1 DEF Send
<1>4. UNCHANGED <<path, tee, rivals, offered, run, discarded, offers, attached, known, reported, lonely, lines,
                  dropped, named>>
  BY DEF Send, files, offering, episode, ledger
<1>5. PICK o, w, l : o = out[c] /\ w = owing[c] /\ l = last[c]
  OBVIOUS
<1>6. /\ o \in Outboxes /\ o.queue = q /\ w \in Nat /\ l \in Nat /\ InTurn(o, w, l)
      /\ Earlier(o, offers + 1) /\ \A i \in 1 .. Len(offered) : Earlier(o, offered[i])
      /\ o.partial \in BOOLEAN /\ o.lost \in Nat
  BY <1>1, <1>5 DEF TeeInv, Boxed, Waiting, Outboxes
<1>7. \A i \in 1 .. Len(q) : q[i] \in Chunks /\ q[i].id \in Nat
  <2>1. \A i \in 1 .. Len(q) : q[i] \in Chunks
    <3> HIDE DEF q
    <3> QED BY <1>1
  <2> QED BY <2>1 DEF Chunks
<1>8. /\ 1 \in 1 .. Len(q) /\ head \in Chunks /\ head.id \in Nat /\ head.halves \in Nat
      /\ head.id = q[1].id
  BY <1>1, <1>2, <1>7 DEF Chunks
<1>9. ~torn' /\ l <= head.id
  <2>1. w \in {0, head.id} /\ l <= head.id
    BY <1>6, <1>8 DEF InTurn
  <2>2. ~(head.id < l)
    BY <1>6, <1>8, <2>1
  <2>3. owing[c] \in {0, head.id} /\ ~(head.id < last[c]) /\ ~torn
    BY <1>5, <2>1, <2>2 DEF TeeInv, TeeSound, StreamsWhole, NeverTorn
  <2>4. ~torn'
    BY <1>3, <2>3, Zenon
  <2> QED BY <2>1, <2>4
\* What the outbox holds now.
<1>10. /\ \A d \in Consumers : d # c => out'[d] = out[d] /\ owing'[d] = owing[d] /\ last'[d] = last[d]
      /\ last'[c] = head.id
      /\ out' \in [Consumers -> Outboxes] /\ owing' \in [Consumers -> Nat] /\ last' \in [Consumers -> Nat]
      /\ out'[c].lost = o.lost /\ out'[c] \in Outboxes
      /\ out'[c].partial \in BOOLEAN
      /\ \/ /\ Len(out'[c].queue) = Len(q) - 1 /\ ~out'[c].partial /\ owing'[c] = 0
            /\ \A i \in 1 .. Len(out'[c].queue) : out'[c].queue[i] = q[i + 1]
         \/ /\ Len(out'[c].queue) = Len(q) /\ out'[c].partial /\ owing'[c] = head.id
            /\ \A i \in 1 .. Len(out'[c].queue) : out'[c].queue[i].id = q[i].id
  <2>1. last' \in [Consumers -> Nat] /\ last'[c] = head.id
        /\ \A d \in Consumers : d # c => last'[d] = last[d]
    BY <1>1, <1>3, <1>8
  <2>2. CASE halves = head.halves
    <3>1. PICK t : t = Tail(q)
      OBVIOUS
    <3>2. t \in Seq(Chunks) /\ Len(t) = Len(q) - 1 /\ \A i \in 1 .. Len(t) : t[i] = q[i + 1]
      <4> HIDE DEF q
      <4> QED BY <1>1, <3>1
    <3>3. PICK m : m = [queue |-> t, partial |-> FALSE, lost |-> o.lost]
      OBVIOUS
    <3>4. [[o EXCEPT !.queue = t] EXCEPT !.partial = FALSE] = m /\ m \in Outboxes
      <4>1. o = [queue |-> o.queue, partial |-> o.partial, lost |-> o.lost] /\ o.lost \in Nat
        BY <1>6 DEF Outboxes
      <4>2. [[o EXCEPT !.queue = t] EXCEPT !.partial = FALSE] = m
        BY <1>6, <3>3, OutboxChanged
      <4>3. m \in Outboxes
        BY <3>2, <3>3, <4>1 DEF Outboxes
      <4> QED BY <4>2, <4>3
    <3>5. out' = [out EXCEPT ![c] = m] /\ owing' = [owing EXCEPT ![c] = 0]
      <4>1. out' = [out EXCEPT ![c] = [[out[c] EXCEPT !.queue = Tail(out[c].queue)] EXCEPT !.partial = FALSE]]
        BY <1>1, <1>3, <2>2
      <4>2. out' = [out EXCEPT ![c] = [[o EXCEPT !.queue = t] EXCEPT !.partial = FALSE]]
        BY <1>5, <3>1, <4>1
      <4> QED BY <1>3, <2>2, <3>4, <4>2
    <3>6. /\ m = out'[c] /\ owing'[c] = 0 /\ out' \in [Consumers -> Outboxes] /\ owing' \in [Consumers -> Nat]
          /\ \A d \in Consumers : d # c => out'[d] = out[d] /\ owing'[d] = owing[d]
      BY <1>1, <3>4, <3>5
    <3>7. m.queue = t /\ m.partial = FALSE /\ m.lost = o.lost
      BY <3>3
    <3> QED BY <2>1, <3>2, <3>4, <3>6, <3>7
  <2>3. CASE halves # head.halves
    <3>1. PICK h, t : h = [head EXCEPT !.halves = 1] /\ t = [q EXCEPT ![1] = h]
      OBVIOUS
    <3>2. h \in Chunks /\ h.id = head.id
      BY <1>8, <3>1 DEF Chunks
    <3>3. t \in Seq(Chunks) /\ Len(t) = Len(q) /\ \A i \in 1 .. Len(t) : t[i] = IF i = 1 THEN h ELSE q[i]
      <4> HIDE DEF q
      <4> QED BY <1>1, <3>1, <3>2
    <3>4. PICK m : m = [queue |-> t, partial |-> TRUE, lost |-> o.lost]
      OBVIOUS
    <3>5. [[o EXCEPT !.queue = t] EXCEPT !.partial = TRUE] = m /\ m \in Outboxes
      <4>1. o = [queue |-> o.queue, partial |-> o.partial, lost |-> o.lost] /\ o.lost \in Nat
        BY <1>6 DEF Outboxes
      <4>2. [[o EXCEPT !.queue = t] EXCEPT !.partial = TRUE] = m
        BY <1>6, <3>4, OutboxChanged
      <4>3. m \in Outboxes
        BY <3>3, <3>4, <4>1 DEF Outboxes
      <4> QED BY <4>2, <4>3
    <3>6. out' = [out EXCEPT ![c] = m] /\ owing' = [owing EXCEPT ![c] = head.id]
      <4>1. out' = [out EXCEPT ![c] = [[out[c] EXCEPT !.queue = [out[c].queue EXCEPT ![1] = [out[c].queue[1] EXCEPT !.halves = 1]]]
                                         EXCEPT !.partial = TRUE]]
        BY <1>1, <1>3, <2>3
      <4>2. out' = [out EXCEPT ![c] = [[o EXCEPT !.queue = t] EXCEPT !.partial = TRUE]]
        BY <1>2, <1>5, <3>1, <4>1
      <4> QED BY <1>3, <2>3, <3>5, <4>2
    <3>7. /\ m = out'[c] /\ owing'[c] = head.id /\ out' \in [Consumers -> Outboxes]
          /\ owing' \in [Consumers -> Nat]
          /\ \A d \in Consumers : d # c => out'[d] = out[d] /\ owing'[d] = owing[d]
      BY <1>1, <1>8, <3>5, <3>6
    <3>8. m.queue = t /\ m.partial = TRUE /\ m.lost = o.lost
      BY <3>4
    <3>9. \A i \in 1 .. Len(t) : t[i].id = q[i].id
      BY <1>2, <3>2, <3>3
    <3> QED BY <2>1, <3>3, <3>5, <3>7, <3>8, <3>9
  <2> QED BY <2>2, <2>3
<1>11. PICK n, v :
        /\ n = out'[c] /\ v = owing'[c]
        /\ \A d \in Consumers : d # c => out'[d] = out[d] /\ owing'[d] = owing[d] /\ last'[d] = last[d]
        /\ last'[c] = head.id
        /\ out' \in [Consumers -> Outboxes] /\ owing' \in [Consumers -> Nat] /\ last' \in [Consumers -> Nat]
        /\ n.lost = o.lost /\ n \in Outboxes
        /\ n.partial \in BOOLEAN
        /\ \/ /\ Len(n.queue) = Len(q) - 1 /\ ~n.partial /\ v = 0
              /\ \A i \in 1 .. Len(n.queue) : n.queue[i] = q[i + 1]
           \/ /\ Len(n.queue) = Len(q) /\ n.partial /\ v = head.id
              /\ \A i \in 1 .. Len(n.queue) : n.queue[i].id = q[i].id
  BY <1>10
<1> HIDE DEF q
<1>12. /\ \A i \in 1 .. Len(q) : l <= q[i].id
       /\ \A i, j \in 1 .. Len(q) : i < j => q[i].id < q[j].id
       /\ Len(q) <= MaxOutbox
  BY <1>6 DEF InTurn
<1>13. InTurn(n, v, head.id)
  <2>1. CASE /\ Len(n.queue) = Len(q) - 1 /\ ~n.partial /\ v = 0
             /\ \A i \in 1 .. Len(n.queue) : n.queue[i] = q[i + 1]
    <3>1. \A i \in 1 .. Len(n.queue) : i + 1 \in 1 .. Len(q) /\ 1 < i + 1
      BY <1>1, <2>1
    <3>2. \A i \in 1 .. Len(n.queue) : head.id <= n.queue[i].id
      BY <1>7, <1>8, <1>12, <2>1, <3>1
    <3>3. \A i, j \in 1 .. Len(n.queue) : i < j => n.queue[i].id < n.queue[j].id
      <4>1. \A i, j \in 1 .. Len(n.queue) : i < j => i + 1 < j + 1
        BY <1>1, <2>1
      <4> QED BY <1>12, <2>1, <3>1, <4>1
    <3> QED BY <1>1, <1>12, <2>1, <3>2, <3>3 DEF InTurn
  <2>2. CASE /\ Len(n.queue) = Len(q) /\ n.partial /\ v = head.id
             /\ \A i \in 1 .. Len(n.queue) : n.queue[i].id = q[i].id
    <3>1. \A i \in 1 .. Len(q) : head.id <= q[i].id
      <4> SUFFICES ASSUME NEW i \in 1 .. Len(q) PROVE q[1].id <= q[i].id
        BY <1>8
      <4>1. CASE i = 1
        BY <1>7, <1>8, <4>1
      <4>2. CASE i # 1
        <5>1. 1 < i
          BY <1>1, <4>2
        <5> QED BY <1>7, <1>8, <1>12, <5>1
      <4> QED BY <4>1, <4>2
    <3> QED BY <1>1, <1>8, <1>12, <2>2, <3>1 DEF InTurn
  <2> QED BY <1>11, <2>1, <2>2
<1>14. \A k \in Nat : Earlier(o, k) => Earlier(n, k)
  <2> SUFFICES ASSUME NEW k \in Nat, Earlier(o, k) PROVE Earlier(n, k)
    OBVIOUS
  <2>1. \A i \in 1 .. Len(q) : q[i].id < k
    BY <1>6 DEF Earlier
  <2>2. \A i \in 1 .. Len(n.queue) : \E j \in 1 .. Len(q) : n.queue[i].id = q[j].id
    <3> SUFFICES ASSUME NEW i \in 1 .. Len(n.queue)
                 PROVE  \E j \in 1 .. Len(q) : n.queue[i].id = q[j].id
      OBVIOUS
    <3>1. CASE Len(n.queue) = Len(q) - 1 /\ \A j \in 1 .. Len(n.queue) : n.queue[j] = q[j + 1]
      <4>1. i + 1 \in 1 .. Len(q) /\ n.queue[i] = q[i + 1]
        BY <1>1, <3>1
      <4> QED BY <4>1
    <3>2. CASE Len(n.queue) = Len(q) /\ \A j \in 1 .. Len(n.queue) : n.queue[j].id = q[j].id
      BY <3>2
    <3> QED BY <1>11, <3>1, <3>2
  <2> QED BY <2>1, <2>2 DEF Earlier
<1>15. TeeTypeOK'
  BY <1>4, <1>11 DEF TeeInv, TeeTypeOK
<1>16. PathInv' /\ LineLeft'
  BY <1>4, FilesAside DEF TeeInv, LineLeft
<1>17. head.id <= offers /\ \A i \in 1 .. Len(offered) : head.id < offered[i]
  <2>1. head.id < offers + 1 /\ \A i \in 1 .. Len(offered) : head.id < offered[i]
    BY <1>6, <1>8 DEF Earlier
  <2> QED BY <1>1, <1>8, <2>1
<1>18. Waiting'
  <2>1. \A i \in 1 .. Len(offered) : offered[i] \in Nat
    BY <1>1
  <2>2. \A d \in Consumers : \A i \in 1 .. Len(offered) :
          last'[d] < offered[i] /\ Earlier(out'[d], offered[i])
    <3> SUFFICES ASSUME NEW d \in Consumers, NEW i \in 1 .. Len(offered)
                 PROVE  last'[d] < offered[i] /\ Earlier(out'[d], offered[i])
      OBVIOUS
    <3>1. CASE d = c
      BY <1>6, <1>11, <1>14, <1>17, <2>1, <3>1
    <3>2. CASE d # c
      BY <1>11, <3>2 DEF TeeInv, Waiting
    <3> QED BY <3>1, <3>2
  <2> QED BY <1>4, <2>2 DEF TeeInv, Waiting
<1>19. Boxed'
  <2>1. ASSUME NEW d \in Consumers
        PROVE  /\ InTurn(out'[d], owing'[d], last'[d])
               /\ last'[d] <= offers /\ Earlier(out'[d], offers + 1)
               /\ d \notin attached => out'[d] = EmptyBox /\ owing'[d] = 0
    <3>1. CASE d = c
      <4>1. offers + 1 \in Nat
        BY <1>1
      <4> QED BY <1>1, <1>6, <1>11, <1>13, <1>14, <1>17, <3>1, <4>1
    <3>2. CASE d # c
      BY <1>11, <3>2 DEF TeeInv, Boxed
    <3> QED BY <3>1, <3>2
  <2> QED BY <1>4, <2>1 DEF Boxed
<1>20. TeeSound'
  <2>1. LossTold'
    <3> SUFFICES ASSUME NEW p \in Places PROVE dropped[p] = named[p] + Unnamed(p)'
      BY <1>4 DEF LossTold
    <3>1. dropped[p] = named[p] + Unnamed(p)
      BY DEF TeeInv, TeeSound, StreamsWhole, LossTold
    <3>2. Unnamed(p)' = Unnamed(p)
      <4>1. p # Self => p \in Consumers /\ out'[p].lost = out[p].lost
        BY <1>5, <1>11 DEF Places
      <4> QED BY <1>4, <4>1 DEF Unnamed
    <3> QED BY <3>1, <3>2
  <2> QED BY <1>4, <1>9, <2>1, FilesAside DEF TeeInv, TeeSound, StreamsWhole, NeverTorn, ToldOncePerEpisode
<1> QED BY <1>15, <1>16, <1>18, <1>19, <1>20 DEF TeeInv

\* All losses are told, the tee's and every consumer's.
LEMMA SettleKeeps ==
  ASSUME TeeAssumption, TeeInv, Settle
  PROVE  TeeInv'
<1>1. /\ named' = [p \in Places |-> named[p] + Unnamed(p)] /\ run' = 0
      /\ out' = [c \in Consumers |-> [out[c] EXCEPT !.lost = 0]]
      /\ UNCHANGED <<path, tee, rivals, offered, discarded, offers, attached, known, reported, lonely, lines,
                     owing, torn, last, dropped>>
  BY DEF Settle, files, episode, wire
<1>2. /\ out \in [Consumers -> Outboxes] /\ named \in [Places -> Nat] /\ dropped \in [Places -> Nat]
      /\ \A p \in Places : dropped[p] = named[p] + Unnamed(p)
  BY DEF TeeInv, TeeTypeOK, TeeSound, StreamsWhole, LossTold
<1>3. ASSUME NEW c \in Consumers
      PROVE  /\ out'[c] \in Outboxes /\ out'[c].queue = out[c].queue
             /\ out'[c].partial = out[c].partial /\ out'[c].lost = 0
             /\ out[c] = EmptyBox => out'[c] = EmptyBox
  <2>1. out'[c] = [out[c] EXCEPT !.lost = 0] /\ out[c] \in Outboxes
    BY <1>1, <1>2
  <2> QED BY <2>1 DEF Outboxes, EmptyBox
<1>4. \A p \in Places : named'[p] = dropped[p] /\ Unnamed(p)' = 0
  <2> SUFFICES ASSUME NEW p \in Places PROVE named'[p] = dropped[p] /\ Unnamed(p)' = 0
    OBVIOUS
  <2>1. named'[p] = dropped[p]
    BY <1>1, <1>2
  <2>2. p # Self => p \in Consumers
    BY DEF Places
  <2> QED BY <1>1, <1>3, <2>1, <2>2 DEF Unnamed
<1>5. TeeTypeOK'
  <2>1. out' \in [Consumers -> Outboxes]
    BY <1>1, <1>3
  <2>2. named' \in [Places -> Nat]
    BY <1>1, <1>2, <1>4
  <2> QED BY <1>1, <2>1, <2>2 DEF TeeInv, TeeTypeOK
<1>6. PathInv' /\ LineLeft'
  BY <1>1, FilesAside DEF TeeInv, LineLeft
<1>7. Waiting'
  <2>1. \A c \in Consumers : \A n : Earlier(out[c], n) => Earlier(out'[c], n)
    BY <1>3 DEF Earlier
  <2> QED BY <1>1, <2>1 DEF TeeInv, Waiting
<1>8. Boxed'
  <2>1. \A c \in Consumers : \A w, l : InTurn(out[c], w, l) => InTurn(out'[c], w, l)
    BY <1>3 DEF InTurn
  <2>2. \A c \in Consumers : \A n : Earlier(out[c], n) => Earlier(out'[c], n)
    BY <1>3 DEF Earlier
  <2> QED BY <1>1, <1>3, <2>1, <2>2 DEF TeeInv, Boxed
<1>9. TeeSound'
  <2>1. LossTold'
    <3>1. \A p \in Places : dropped[p] \in Nat
      BY <1>2
    <3> QED BY <1>1, <1>4, <3>1 DEF LossTold
  <2> QED BY <1>1, <2>1, FilesAside DEF TeeInv, TeeSound, StreamsWhole, NeverTorn, ToldOncePerEpisode
<1> QED BY <1>5, <1>6, <1>7, <1>8, <1>9 DEF TeeInv

\* However slow its consumers are: each gets whole chunks in order, every loss is told
\* where it happened, and a stretch without consumers has one line at most. However many
\* tees start, close and are killed, step by step and at the same time: one whose start met
\* no other, and that left none without an answer, keeps its path until one of those that
\* met has ended, and until then the path leads to a tee or is about to
\* (behavior/audio_tee.py).
THEOREM TeeServes == TeeAssumption => (TeeSpec => []TeeSound)
<1> SUFFICES ASSUME TeeAssumption PROVE TeeSpec => []TeeSound
  OBVIOUS
<1>1. TeeInit => TeeInv
  <2> SUFFICES ASSUME TeeInit PROVE TeeInv
    OBVIOUS
  <2>1. /\ EmptyBox \in Outboxes /\ InTurn(EmptyBox, 0, 0) /\ \A n : Earlier(EmptyBox, n)
        /\ EmptyBox.lost = 0
    BY DEF EmptyBox, Outboxes, Chunks, InTurn, Earlier, TeeAssumption
  <2>2. /\ offered = <<>> /\ run = 0 /\ attached = {} /\ known = FALSE /\ reported = FALSE
        /\ out = [c \in Consumers |-> EmptyBox] /\ owing = [c \in Consumers |-> 0]
        /\ last = [c \in Consumers |-> 0] /\ offers = 0 /\ torn = FALSE
        /\ dropped = [p \in Places |-> 0] /\ named = [p \in Places |-> 0] /\ lonely = 1 /\ lines = 0
    BY DEF TeeInit
  <2>3. /\ path \in {NoFile, StaleFile} /\ path \notin Tees /\ \A t \in Tees : tee[t] = "down"
        /\ rivals = {}
    BY DEF TeeInit, TeeAssumption
  <2>4. tee \in [Tees -> TeeStates]
    BY DEF TeeInit, TeeStates
  <2>5. out \in [Consumers -> Outboxes] /\ offered \in Seq(Nat)
    BY <2>1, <2>2
  <2>6. TeeTypeOK
    BY <2>2, <2>3, <2>4, <2>5 DEF TeeTypeOK
  <2>7. PathInv /\ LineLeft /\ Waiting
    <3>1. PathInv
      BY <2>3, <2>4 DEF PathInv, PathLeads, StartsMeet, Robbed, Bound, Past, UnderWay
    <3>2. LineLeft
      <4>1. ~known /\ ~(attached # {}) /\ known \in BOOLEAN /\ lines < lonely
        <5>1. ~known /\ ~(attached # {}) /\ known \in BOOLEAN
          BY <2>2, Zenon
        <5>2. lines < lonely
          BY <2>2
        <5> QED BY <5>1, <5>2
      <4> QED BY <4>1, Zenon DEF LineLeft
    <3>3. Len(offered) = 0
      BY <2>2
    <3>4. Waiting
      BY <3>3 DEF Waiting
    <3> QED BY <3>1, <3>2, <3>4
  <2>8. Boxed
    BY <2>1, <2>2 DEF Boxed
  <2>9. LossTold
    BY <2>1, <2>2 DEF LossTold, Unnamed, Places
  <2> QED BY <2>2, <2>3, <2>6, <2>7, <2>8, <2>9
       DEF TeeInv, TeeSound, StreamsWhole, NeverTorn, ToldOncePerEpisode, PathStays, KeepsPath,
           SomebodyThere
<1>2. TeeInv /\ [TeeNext]_teeVars => TeeInv'
  <2> SUFFICES ASSUME TeeInv, [TeeNext]_teeVars PROVE TeeInv'
    OBVIOUS
  <2>1. CASE Paths
    BY <2>1, PathsKeepTee
  <2>2. CASE OfferChunk
    BY <2>2, OfferKeeps
  <2>3. CASE Serves
    <3>1. ASSUME NEW c \in Consumers, Reap(c) \/ Broken(c) PROVE TeeInv'
      <4>1. /\ Detached(c)
            /\ UNCHANGED <<path, tee, rivals, offered, run, discarded, offers, reported, lines, torn, last, dropped>>
        BY <3>1 DEF Reap, Broken, files, offering
      <4> QED BY <4>1, DetachedKeeps
    <3> QED BY <2>3, <3>1, ReportKeeps, DrainKeeps, SettleKeeps, AcceptKeeps, SendKeeps DEF Serves
  <2>4. CASE UNCHANGED teeVars
    <3>1. UNCHANGED <<path, tee, rivals, offered, run, discarded, offers, attached, known, reported, lonely, lines,
                      out, owing, torn, last, dropped, named>>
      BY <2>4 DEF teeVars, files, offering, episode, wire, ledger
    <3>2. TeeTypeOK' /\ PathInv' /\ LineLeft' /\ Waiting' /\ Boxed'
      BY <3>1, FilesAside DEF TeeInv, TeeTypeOK, LineLeft, Waiting, Boxed
    <3>3. TeeSound'
      BY <3>1, FilesAside DEF TeeInv, TeeSound, StreamsWhole, NeverTorn, LossTold, Unnamed, ToldOncePerEpisode
    <3> QED BY <3>2, <3>3 DEF TeeInv
  <2> QED BY <2>1, <2>2, <2>3, <2>4 DEF TeeNext
<1>3. TeeInv => TeeSound
  BY DEF TeeInv
<1> QED BY <1>1, <1>2, <1>3, PTL DEF TeeSpec
--------------------------------------------------------------------------------
(* The rules file                                                               *)

\* In a finite set whose members each have a set of others below them, as in a strict
\* order, every rank from none below to all others below is somebody's, and nobody else's.
LEMMA Placed ==
  ASSUME NEW I, IsFiniteSet(I), NEW below \in [I -> SUBSET I],
         \A i \in I : i \notin below[i],
         \A i, j \in I : i # j => \/ i \in below[j] /\ below[i] \subseteq below[j]
                                  \/ j \in below[i] /\ below[j] \subseteq below[i]
  PROVE  /\ Cardinality(I) \in Nat
         /\ \A i \in I : Cardinality(below[i]) \in Nat /\ Cardinality(below[i]) + 1 \in 1 .. Cardinality(I)
         /\ \A i, j \in I : Cardinality(below[i]) = Cardinality(below[j]) => i = j
         /\ \A n \in 1 .. Cardinality(I) : \E i \in I : Cardinality(below[i]) = n - 1
<1>1. Cardinality(I) \in Nat
  BY FS_CardinalityType
<1>2. ASSUME NEW i \in I
      PROVE  /\ IsFiniteSet(below[i]) /\ Cardinality(below[i]) \in Nat
             /\ Cardinality(below[i]) < Cardinality(I)
  <2>1. below[i] \in SUBSET I /\ below[i] # I
    OBVIOUS
  <2>2. IsFiniteSet(below[i]) /\ Cardinality(below[i]) <= Cardinality(I) /\ Cardinality(I) # Cardinality(below[i])
    BY <2>1, FS_Subset
  <2>3. Cardinality(below[i]) \in Nat
    BY <2>2, FS_CardinalityType
  <2> QED BY <1>1, <2>2, <2>3
<1>3. ASSUME NEW i \in I, NEW j \in I, i \in below[j], below[i] \subseteq below[j]
      PROVE  Cardinality(below[i]) # Cardinality(below[j])
  <2>1. below[i] \in SUBSET below[j] /\ below[i] # below[j] /\ IsFiniteSet(below[j])
    BY <1>2, <1>3
  <2> QED BY <2>1, FS_Subset
<1>4. ASSUME NEW i \in I, NEW j \in I, i # j PROVE Cardinality(below[i]) # Cardinality(below[j])
  <2>1. CASE i \in below[j] /\ below[i] \subseteq below[j]
    BY <2>1, <1>3
  <2>2. CASE j \in below[i] /\ below[j] \subseteq below[i]
    BY <2>2, <1>3
  <2> QED BY <1>4, <2>1, <2>2
<1> DEFINE rank == [i \in I |-> Cardinality(below[i]) + 1]
           top == 1 .. Cardinality(I)
<1>5. ASSUME NEW i \in I PROVE rank[i] \in top
  BY <1>1, <1>2
<1>6. ASSUME NEW i \in I, NEW j \in I, rank[i] = rank[j] PROVE i = j
  <2>1. Cardinality(below[i]) = Cardinality(below[j])
    BY <1>2, <1>6
  <2> QED BY <2>1, <1>4
<1>7. rank \in Injection(I, top)
  BY <1>5, <1>6, Zenon DEF Injection, IsInjective
<1>8. IsFiniteSet(top) /\ Cardinality(top) = Cardinality(I)
  BY <1>1, FS_Interval
<1>9. rank \in Surjection(I, top)
  <2> HIDE DEF rank, top
  <2> QED BY <1>7, <1>8, FS_Injection
<1>10. ASSUME NEW n \in top PROVE \E i \in I : Cardinality(below[i]) = n - 1
  <2>1. PICK i \in I : rank[i] = n
    BY <1>9 DEF Surjection
  <2>2. Cardinality(below[i]) + 1 = n
    BY <2>1
  <2> QED BY <1>2, <2>2
<1> QED BY <1>1, <1>2, <1>4, <1>5, <1>10

\* The places of a finite set are the first, the second and so on, and no others.
LEMMA NthIs ==
  ASSUME NEW I, I \subseteq Nat, IsFiniteSet(I)
  PROVE  /\ Cardinality(I) \in Nat
         /\ \A n \in 1 .. Cardinality(I) : Nth(I, n) \in I
         /\ \A i \in I : \E n \in 1 .. Cardinality(I) : Nth(I, n) = i
<1> DEFINE below == [i \in I |-> {j \in I : j < i}]
<1>1. /\ Cardinality(I) \in Nat
      /\ \A i \in I : Cardinality(below[i]) \in Nat /\ Cardinality(below[i]) + 1 \in 1 .. Cardinality(I)
      /\ \A i, j \in I : Cardinality(below[i]) = Cardinality(below[j]) => i = j
      /\ \A n \in 1 .. Cardinality(I) : \E i \in I : Cardinality(below[i]) = n - 1
  <2>1. below \in [I -> SUBSET I] /\ \A i \in I : i \notin below[i]
    OBVIOUS
  <2>2. \A i, j \in I : i # j => \/ i \in below[j] /\ below[i] \subseteq below[j]
                                 \/ j \in below[i] /\ below[j] \subseteq below[i]
    <3> SUFFICES ASSUME NEW i \in I, NEW j \in I, i # j
                 PROVE  \/ i \in below[j] /\ below[i] \subseteq below[j]
                        \/ j \in below[i] /\ below[j] \subseteq below[i]
      BY Zenon
    <3>1. ASSUME NEW a \in I, NEW b \in I, a < b PROVE a \in below[b] /\ below[a] \subseteq below[b]
      <4>1. ASSUME NEW k \in below[a] PROVE k \in below[b]
        <5>1. k \in I /\ k < a /\ k \in Nat /\ a \in Nat /\ b \in Nat
          BY <4>1
        <5> QED BY <3>1, <5>1
      <4>2. a \in below[b]
        BY <3>1
      <4> QED BY <4>1, <4>2
    <3>2. i < j \/ j < i
      <4>1. i \in Nat /\ j \in Nat
        OBVIOUS
      <4> QED BY <4>1
    <3> QED BY <3>1, <3>2
  <2> HIDE DEF below
  <2> QED BY <2>1, <2>2, Placed
<1>2. \A i \in I : Cardinality(below[i]) = Cardinality({j \in I : j < i})
  BY Zenon
<1> HIDE DEF below
<1>3. ASSUME NEW n \in 1 .. Cardinality(I) PROVE Nth(I, n) \in I /\ Cardinality(below[Nth(I, n)]) = n - 1
  <2>1. \E i \in I : Cardinality({j \in I : j < i}) = n - 1
    BY <1>1, <1>2
  <2>2. Nth(I, n) \in I /\ Cardinality({j \in I : j < Nth(I, n)}) = n - 1
    BY <2>1, Zenon DEF Nth
  <2> QED BY <2>2, <1>2
<1>4. ASSUME NEW i \in I PROVE \E n \in 1 .. Cardinality(I) : Nth(I, n) = i
  <2>1. PICK n \in 1 .. Cardinality(I) : n = Cardinality(below[i]) + 1
    BY <1>1
  <2>2. Nth(I, n) \in I /\ Cardinality(below[Nth(I, n)]) = Cardinality(below[i])
    BY <1>1, <1>3, <2>1
  <2> QED BY <1>1, <2>2
<1> QED BY <1>1, <1>3, <1>4

\* What is picked from a sequence is what it has at the places picked.
LEMMA PickedHas ==
  ASSUME NEW R, NEW s \in Seq(R), NEW I, I \subseteq DOMAIN s
  PROVE  Picked(s, I) \in Seq(R) /\ ToSet(Picked(s, I)) = {s[i] : i \in I}
<1>1. DOMAIN s = 1 .. Len(s) /\ Len(s) \in Nat /\ \A i \in DOMAIN s : s[i] \in R
  OBVIOUS
<1>2. IsFiniteSet(1 .. Len(s)) /\ I \in SUBSET (1 .. Len(s)) /\ I \subseteq Nat
  BY <1>1, FS_Interval
<1>3. /\ Cardinality(I) \in Nat
      /\ \A n \in 1 .. Cardinality(I) : Nth(I, n) \in I
      /\ \A i \in I : \E n \in 1 .. Cardinality(I) : Nth(I, n) = i
  <2>1. IsFiniteSet(I)
    BY <1>2, FS_Subset
  <2> QED BY <1>2, <2>1, NthIs
<1> DEFINE c == Cardinality(I)
           p == Picked(s, I)
<1>4. p = [n \in 1 .. c |-> s[Nth(I, n)]]
  BY DEF Picked
<1>5. \A n \in 1 .. c : s[Nth(I, n)] \in R
  BY <1>1, <1>3
<1> HIDE DEF c, p
<1>6. c \in Nat
  BY <1>3 DEF c
<1>7. p \in Seq(R) /\ DOMAIN p = 1 .. c
  BY <1>4, <1>5, <1>6
<1>8. ToSet(p) = {s[Nth(I, n)] : n \in 1 .. c}
  BY <1>4, <1>7 DEF ToSet
<1>9. {s[Nth(I, n)] : n \in 1 .. c} = {s[i] : i \in I}
  BY <1>3 DEF c
<1> QED BY <1>7, <1>8, <1>9 DEF p

LEMMA ConcatHas ==
  ASSUME NEW R, NEW s \in Seq(R), NEW t \in Seq(R)
  PROVE  s \o t \in Seq(R) /\ ToSet(s \o t) = ToSet(s) \cup ToSet(t)
<1>1. s \o t \in Seq(R) /\ Len(s \o t) = Len(s) + Len(t) /\ Len(s) \in Nat /\ Len(t) \in Nat
  OBVIOUS
<1>2. /\ \A i \in 1 .. Len(s) : (s \o t)[i] = s[i]
      /\ \A i \in 1 .. Len(t) : (s \o t)[Len(s) + i] = t[i]
      /\ \A i \in 1 .. Len(s) + Len(t) : i \in 1 .. Len(s) \/ \E j \in 1 .. Len(t) : i = Len(s) + j
  <2>1. \A i \in 1 .. Len(s) + Len(t) : i \in 1 .. Len(s) \/ (i - Len(s) \in 1 .. Len(t) /\ i = Len(s) + (i - Len(s)))
    BY <1>1
  <2> QED BY <2>1
<1>3. DOMAIN s = 1 .. Len(s) /\ DOMAIN t = 1 .. Len(t) /\ DOMAIN (s \o t) = 1 .. Len(s) + Len(t)
  BY <1>1
<1>4. \A i \in 1 .. Len(t) : Len(s) + i \in 1 .. Len(s) + Len(t)
  BY <1>1
<1>5. \A i \in 1 .. Len(s) : i \in 1 .. Len(s) + Len(t)
  BY <1>1
<1> DEFINE u == s \o t
<1> HIDE DEF u
<1>6. \A x : x \in ToSet(u) <=> x \in ToSet(s) \/ x \in ToSet(t)
  <2>1. ASSUME NEW i \in DOMAIN u PROVE u[i] \in ToSet(s) \/ u[i] \in ToSet(t)
    BY <1>2, <1>3 DEF u, ToSet
  <2>2. ASSUME NEW i \in DOMAIN s PROVE s[i] \in ToSet(u)
    BY <1>2, <1>3, <1>5 DEF u, ToSet
  <2>3. ASSUME NEW i \in DOMAIN t PROVE t[i] \in ToSet(u)
    BY <1>2, <1>3, <1>4 DEF u, ToSet
  <2> QED BY <2>1, <2>2, <2>3 DEF ToSet
<1> QED BY <1>1, <1>6 DEF u

\* What is on, what is of a kind, and what one layer puts first and second.
LEMMA LayerHas ==
  ASSUME NEW s \in Seq(Rules)
  PROVE  /\ On(s) \in Seq(Rules) /\ ToSet(On(s)) = {r \in ToSet(s) : r.on}
         /\ \A k : OfKind(s, k) \in Seq(Rules) /\ ToSet(OfKind(s, k)) = {r \in ToSet(s) : r.kind = k}
         /\ ByKind(s) \in Seq(Rules) /\ ToSet(ByKind(s)) = ToSet(s)
         /\ ToSet(s) \subseteq Rules
<1>1. ToSet(s) \subseteq Rules
  BY DEF ToSet
<1>2. On(s) \in Seq(Rules) /\ ToSet(On(s)) = {r \in ToSet(s) : r.on}
  <2> DEFINE I == {i \in DOMAIN s : s[i].on}
  <2>1. On(s) \in Seq(Rules) /\ ToSet(On(s)) = {s[i] : i \in I}
    BY PickedHas DEF On
  <2> QED BY <2>1 DEF ToSet
<1>3. ASSUME NEW k PROVE OfKind(s, k) \in Seq(Rules) /\ ToSet(OfKind(s, k)) = {r \in ToSet(s) : r.kind = k}
  <2> DEFINE I == {i \in DOMAIN s : s[i].kind = k}
  <2>1. OfKind(s, k) \in Seq(Rules) /\ ToSet(OfKind(s, k)) = {s[i] : i \in I}
    BY PickedHas DEF OfKind
  <2> QED BY <2>1 DEF ToSet
<1>4. ByKind(s) \in Seq(Rules) /\ ToSet(ByKind(s)) = ToSet(s)
  <2>1. /\ ByKind(s) \in Seq(Rules)
        /\ ToSet(ByKind(s)) = ToSet(OfKind(s, "react")) \cup ToSet(OfKind(s, "inhibit"))
    BY <1>3, ConcatHas DEF ByKind
  <2>2. \A r \in ToSet(s) : r.kind = "react" \/ r.kind = "inhibit"
    BY <1>1 DEF Rules, Kinds
  <2> QED BY <1>3, <2>1, <2>2
<1> QED BY <1>1, <1>2, <1>3, <1>4

\* Ids and tombstones by entry rather than by place; no id twice, by entry.
LEMMA IdsOf ==
  ASSUME NEW s \in Seq(Rules)
  PROVE  /\ \A id : id \in Ids(s) <=> \E r \in ToSet(s) : r.id = id
         /\ \A id : id \in Off(s) <=> \E r \in ToSet(s) : r.id = id /\ ~r.on
         /\ Distinct(s) => \A q, r \in ToSet(s) : q.id = r.id => q = r
  BY DEF Ids, Off, Distinct, ToSet

\* What is on in the overlay, and what is on in the base and not named by the overlay: the
\* merged layers hold this and nothing else.
LEMMA MergeSays ==
  ASSUME NEW base \in Seq(Rules), NEW overlay \in Seq(Rules), Distinct(base), Distinct(overlay)
  PROVE  /\ Merge(base, overlay) \in Seq(Rules)
         /\ \A r : r \in ToSet(Merge(base, overlay)) <=>
              /\ r \in ToSet(overlay) \/ (r \in ToSet(base) /\ r.id \notin Ids(overlay))
              /\ r.on
<1> DEFINE all == ByKind(On(base)) \o ByKind(On(overlay))
           first == {i \in DOMAIN all : \A j \in 1 .. i - 1 : all[j].id # all[i].id}
           gone == (Off(base) \union Off(overlay)) \ Ids(On(overlay))
           stays == {i \in first : all[i].id \notin gone}
           over == [i \in DOMAIN all |-> Overlaid(overlay, all[i])]
           result == Merge(base, overlay)
<1>1. result = ByKind(Picked(over, stays))
  BY DEF Merge
<1>2. /\ On(base) \in Seq(Rules) /\ ToSet(On(base)) = {r \in ToSet(base) : r.on}
      /\ On(overlay) \in Seq(Rules) /\ ToSet(On(overlay)) = {r \in ToSet(overlay) : r.on}
  BY LayerHas
<1>3. all \in Seq(Rules) /\ ToSet(all) = ToSet(On(base)) \cup ToSet(On(overlay))
  <2>1. /\ ByKind(On(base)) \in Seq(Rules) /\ ToSet(ByKind(On(base))) = ToSet(On(base))
        /\ ByKind(On(overlay)) \in Seq(Rules) /\ ToSet(ByKind(On(overlay))) = ToSet(On(overlay))
    BY <1>2, LayerHas
  <2> QED BY <2>1, ConcatHas
<1> HIDE DEF all
<1>4. \A id : id \in Ids(On(overlay)) <=> \E r \in ToSet(overlay) : r.id = id /\ r.on
  BY <1>2, IdsOf
<1>5. ASSUME NEW q \in Rules
      PROVE  /\ Overlaid(overlay, q) \in Rules /\ Overlaid(overlay, q).id = q.id
             /\ q.id \in Ids(On(overlay)) => Overlaid(overlay, q) \in ToSet(On(overlay))
             /\ q.id \notin Ids(On(overlay)) => Overlaid(overlay, q) = q
  <2>1. CASE q.id \in Ids(On(overlay))
    <3>1. \E o \in ToSet(On(overlay)) : o.id = q.id
      BY <1>2, <2>1, IdsOf
    <3>2. Overlaid(overlay, q) = CHOOSE o \in ToSet(On(overlay)) : o.id = q.id
      BY <2>1, Zenon DEF Overlaid
    <3>3. Overlaid(overlay, q) \in ToSet(On(overlay)) /\ Overlaid(overlay, q).id = q.id
      BY <3>1, <3>2, Zenon
    <3>4. ToSet(On(overlay)) \subseteq Rules
      BY <1>2, LayerHas
    <3> QED BY <2>1, <3>3, <3>4
  <2>2. CASE q.id \notin Ids(On(overlay))
    BY <2>2, Zenon DEF Overlaid
  <2> QED BY <2>1, <2>2
<1>6. \A i \in DOMAIN all : all[i] \in Rules
  BY <1>3
<1>7. over \in Seq(Rules) /\ DOMAIN over = DOMAIN all /\ \A i \in DOMAIN all : over[i] = Overlaid(overlay, all[i])
  <2>1. \A i \in DOMAIN all : Overlaid(overlay, all[i]) \in Rules
    BY <1>5, <1>6
  <2>2. DOMAIN all = 1 .. Len(all) /\ Len(all) \in Nat
    BY <1>3
  <2> QED BY <2>1, <2>2
<1>8. stays \subseteq DOMAIN over
  BY <1>7
<1>9. result \in Seq(Rules) /\ ToSet(result) = {over[i] : i \in stays}
  <2> HIDE DEF over, stays
  <2>1. Picked(over, stays) \in Seq(Rules) /\ ToSet(Picked(over, stays)) = {over[i] : i \in stays}
    BY <1>7, <1>8, PickedHas
  <2> QED BY <1>1, <2>1, LayerHas
<1>10. ASSUME NEW r \in ToSet(all), r.id \notin gone
       PROVE  \E i \in stays : all[i].id = r.id
  <2> DEFINE same == {i \in DOMAIN all : all[i].id = r.id}
  <2>1. same \in SUBSET Nat /\ same # {}
    BY <1>3 DEF ToSet
  <2>2. PICK i \in same : \A k \in same : i <= k
    BY <2>1, SmallestNat
  <2>3. i \in DOMAIN all /\ all[i].id = r.id /\ i \in Nat
    BY <2>1, <2>2
  <2>4. ASSUME NEW j \in 1 .. i - 1 PROVE all[j].id # all[i].id
    <3>1. j \in DOMAIN all /\ ~(i <= j)
      BY <1>3, <2>3
    <3> QED BY <2>2, <2>3, <3>1
  <2> QED BY <1>10, <2>3, <2>4
<1>11. ASSUME NEW i \in stays
       PROVE  /\ over[i] \in ToSet(overlay) \/ (over[i] \in ToSet(base) /\ over[i].id \notin Ids(overlay))
              /\ over[i].on
  <2>1. /\ i \in DOMAIN all /\ all[i] \in Rules /\ all[i].id \notin gone
        /\ all[i] \in ToSet(On(base)) \cup ToSet(On(overlay)) /\ over[i] = Overlaid(overlay, all[i])
    BY <1>3, <1>6, <1>7 DEF ToSet
  <2>2. CASE all[i].id \in Ids(On(overlay))
    BY <1>2, <1>5, <2>1, <2>2
  <2>3. CASE all[i].id \notin Ids(On(overlay))
    <3>1. over[i] = all[i]
      BY <1>5, <2>1, <2>3
    <3>2. all[i] \in ToSet(base) /\ all[i].on
      BY <1>2, <1>4, <2>1, <2>3
    <3>3. all[i].id \notin Off(overlay)
      BY <2>1, <2>3
    <3>4. \A r \in ToSet(overlay) : r.id # all[i].id
      <4> SUFFICES ASSUME NEW r \in ToSet(overlay), r.id = all[i].id PROVE FALSE
        OBVIOUS
      <4>1. CASE r.on
        BY <1>4, <2>3, <4>1
      <4>2. CASE ~r.on
        BY <3>3, <4>2, IdsOf
      <4> QED BY <4>1, <4>2
    <3>5. all[i].id \notin Ids(overlay)
      BY <3>4, IdsOf
    <3> QED BY <3>1, <3>2, <3>5
  <2> QED BY <2>2, <2>3
<1>12. ASSUME NEW r \in ToSet(overlay), r.on PROVE r \in ToSet(result)
  <2>1. r \in ToSet(On(overlay)) /\ r \in ToSet(all) /\ r.id \in Ids(On(overlay))
    BY <1>2, <1>3, <1>4, <1>12
  <2>2. PICK i \in stays : all[i].id = r.id
    BY <1>10, <2>1
  <2>3. over[i] \in ToSet(On(overlay)) /\ over[i].id = r.id
    BY <1>5, <1>6, <1>7, <2>1, <2>2
  <2>4. over[i] = r
    BY <1>2, <2>3, IdsOf
  <2> QED BY <1>9, <2>4
<1>13. ASSUME NEW r \in ToSet(base), r.on, r.id \notin Ids(overlay) PROVE r \in ToSet(result)
  <2>1. \A q \in ToSet(overlay) : q.id # r.id
    BY <1>13, IdsOf
  <2>2. r \in ToSet(all) /\ r.id \notin Ids(On(overlay)) /\ r.id \notin Off(overlay)
    BY <1>2, <1>3, <1>4, <1>13, <2>1, IdsOf
  <2>3. r.id \notin Off(base)
    BY <1>13, IdsOf
  <2>4. PICK i \in stays : all[i].id = r.id
    BY <1>10, <2>2, <2>3
  <2>5. i \in DOMAIN all /\ over[i] = all[i]
    BY <1>5, <1>6, <1>7, <2>2, <2>4
  <2>6. all[i] \in ToSet(base)
    BY <1>2, <1>3, <2>1, <2>4, <2>5 DEF ToSet
  <2>7. all[i] = r
    BY <2>4, <2>6, IdsOf
  <2> QED BY <1>9, <2>4, <2>5, <2>7
<1> HIDE DEF over, stays, result
<1>14. ASSUME NEW r
       PROVE  r \in ToSet(result) <=>
                /\ r \in ToSet(overlay) \/ (r \in ToSet(base) /\ r.id \notin Ids(overlay))
                /\ r.on
  BY <1>9, <1>11, <1>12, <1>13, Zenon
<1> QED BY <1>9, <1>14 DEF result

\* Sorting keeps what there is.
LEMMA SortedHas ==
  ASSUME NEW s \in Seq(Rules)
  PROVE  Sorted(s) \in Seq(Rules) /\ ToSet(Sorted(s)) = ToSet(s)
<1>1. /\ DOMAIN s = 1 .. Len(s) /\ Len(s) \in Nat
      /\ \A i \in DOMAIN s : s[i] \in Rules /\ s[i].id \in Nat /\ i \in Nat
  <2>1. DOMAIN s = 1 .. Len(s) /\ Len(s) \in Nat /\ \A i \in DOMAIN s : s[i] \in Rules /\ i \in Nat
    OBVIOUS
  <2>2. \A e \in Rules : e.id \in Nat
    BY DEF Rules
  <2> QED BY <2>1, <2>2
<1> DEFINE I == DOMAIN s
           below == [i \in I |-> Lower(s, i)]
<1>2. IsFiniteSet(I) /\ Cardinality(I) = Len(s)
  BY <1>1, FS_Interval
<1>3. below \in [I -> SUBSET I] /\ \A i \in I : i \notin below[i]
  BY <1>1 DEF Lower
<1>4. ASSUME NEW i \in I, NEW j \in I, i # j
      PROVE  \/ i \in below[j] /\ below[i] \subseteq below[j]
             \/ j \in below[i] /\ below[j] \subseteq below[i]
  <2>1. CASE s[i].id < s[j].id
    BY <1>1, <2>1 DEF Lower
  <2>2. CASE s[j].id < s[i].id
    BY <1>1, <2>2 DEF Lower
  <2>3. CASE s[i].id = s[j].id /\ i < j
    BY <1>1, <2>3 DEF Lower
  <2>4. CASE s[i].id = s[j].id /\ j < i
    BY <1>1, <2>4 DEF Lower
  <2> QED BY <1>1, <1>4, <2>1, <2>2, <2>3, <2>4
<1>5. \A i \in I : below[i] = Lower(s, i)
  OBVIOUS
<1> HIDE DEF below
<1>6. /\ \A i \in I : Cardinality(below[i]) \in Nat /\ Cardinality(below[i]) + 1 \in 1 .. Cardinality(I)
      /\ \A i, j \in I : Cardinality(below[i]) = Cardinality(below[j]) => i = j
      /\ \A n \in 1 .. Cardinality(I) : \E i \in I : Cardinality(below[i]) = n - 1
  <2> HIDE DEF I
  <2> QED BY <1>2, <1>3, <1>4, Placed
<1> DEFINE place(n) == CHOOSE i \in DOMAIN s : Cardinality(Lower(s, i)) = n - 1
<1>7. ASSUME NEW n \in I PROVE place(n) \in I /\ Cardinality(below[place(n)]) = n - 1
  <2>1. \E i \in DOMAIN s : Cardinality(Lower(s, i)) = n - 1
    BY <1>1, <1>2, <1>5, <1>6
  <2>2. place(n) \in DOMAIN s /\ Cardinality(Lower(s, place(n))) = n - 1
    BY <2>1, Zenon
  <2> QED BY <1>5, <2>2
<1> HIDE DEF place
<1>8. ASSUME NEW i \in I PROVE \E n \in I : place(n) = i
  <2>1. PICK n \in I : n = Cardinality(below[i]) + 1
    BY <1>1, <1>2, <1>6
  <2>2. place(n) \in I /\ Cardinality(below[place(n)]) = Cardinality(below[i])
    BY <1>6, <1>7, <2>1
  <2> QED BY <1>6, <2>2
<1>9. Sorted(s) = [n \in I |-> s[place(n)]]
  BY DEF Sorted, place
<1>10. \A n \in I : s[place(n)] \in Rules
  BY <1>1, <1>7
<1>11. Sorted(s) \in Seq(Rules) /\ DOMAIN Sorted(s) = I
  BY <1>1, <1>9, <1>10
<1>12. ToSet(Sorted(s)) = {s[place(n)] : n \in I}
  BY <1>9, <1>11 DEF ToSet
<1>13. {s[place(n)] : n \in I} = ToSet(s)
  BY <1>7, <1>8 DEF ToSet
<1> QED BY <1>11, <1>12, <1>13

LEMMA MergedHas ==
  ASSUME NEW s \in Seq(Rules), NEW r \in Rules
  PROVE  /\ Merged(s, r) \in Seq(Rules)
         /\ ToSet(Merged(s, r)) = {e \in ToSet(s) : e.id # r.id} \cup {r}
<1> DEFINE I == {i \in DOMAIN s : s[i].id # r.id}
           others == Picked(s, I)
<1>1. others \in Seq(Rules) /\ ToSet(others) = {s[i] : i \in I}
  BY PickedHas
<1>2. Append(others, r) \in Seq(Rules) /\ ToSet(Append(others, r)) = ToSet(others) \cup {r}
  <2> HIDE DEF others
  <2>1. Append(others, r) = others \o <<r>> /\ <<r>> \in Seq(Rules)
    BY <1>1
  <2>2. ToSet(<<r>>) = {r}
    BY DEF ToSet
  <2>3. /\ others \o <<r>> \in Seq(Rules)
        /\ ToSet(others \o <<r>>) = ToSet(others) \cup ToSet(<<r>>)
    BY <1>1, <2>1, ConcatHas, Zenon
  <2> QED BY <2>1, <2>2, <2>3, Zenon
<1>3. Merged(s, r) = Sorted(Append(others, r))
  BY DEF Merged
<1>4. {s[i] : i \in I} = {e \in ToSet(s) : e.id # r.id}
  BY DEF ToSet
<1> HIDE DEF others, I
<1> QED BY <1>1, <1>2, <1>3, <1>4, SortedHas

\* A text of the rules file, and what the variables may hold.
RulesTexts == [head : Seq(Rules), block : {"none", "closed", "open"}, managed : Seq(Rules),
               tail : Seq(Rules), bad : SUBSET {"head", "block", "tail"}]

FilesTyped ==
  /\ rulesFile \in RulesTexts
  /\ lay \in [at : {"idle", "read", "written", "asking"}, rule : Rules, text : RulesTexts]
  /\ liveRules \in Seq(Rules) /\ from \in RulesTexts
  /\ taught \subseteq Rules /\ told \subseteq Rules
  /\ outdated \in BOOLEAN /\ intact \in BOOLEAN

\* What the mind taught stands in a block that it can read back.
TaughtStands ==
  taught # {} =>
    /\ rulesFile.block = "closed" /\ "block" \notin rulesFile.bad
    /\ \A r \in taught : r.kind = "react"

\* A file that nobody saved since a call wrote it loads, and has what the call wrote.
StillLoads ==
  intact =>
    /\ Valid(rulesFile) /\ rulesFile.block = "closed"
    /\ lay.at \in {"written", "asking"} => lay.rule \in ToSet(rulesFile.managed)

\* What a call writes is a [[react]] rule that is on; once the engine has reloaded for it,
\* it is live.
AppliedIsLive ==
  /\ lay.rule.on /\ (lay.at \in {"written", "asking"} => lay.rule.kind = "react")
  /\ lay.at = "asking" /\ reload = "applied" /\ intact /\ liveRules # Down =>
       lay.rule \in ToSet(liveRules)

\* What the mind was told is live stands in the file, which nobody saved since, and which a
\* call that has read it has read as it is.
ToldStands ==
  told # {} =>
    /\ intact /\ (lay.at = "read" => lay.text = rulesFile)
    /\ \A r \in told : r \in ToSet(rulesFile.managed) /\ r.on /\ r.kind = "react"

Counted ==
  /\ reload \in {"none", "waits", "abandoned", "applied", "refused"}
  /\ saves \in 0 .. MaxSaves /\ creates \in 0 .. MaxRules /\ crashes \in 0 .. MaxCrashes

FilesInv ==
  /\ FilesTyped /\ Counted /\ TaughtStands /\ StillLoads /\ AppliedIsLive /\ ToldStands
  /\ EveryAuthorKept /\ ToldLive /\ LiveIsWhole

LEMMA FilesInvSound == ASSUME FilesInv PROVE OverlaySound
<1>1. /\ rulesFile.block \in {"none", "closed", "open"} /\ rulesFile.bad \subseteq {"head", "block", "tail"}
      /\ lay.at \in {"idle", "read", "written", "asking"}
  BY DEF FilesInv, FilesTyped, RulesTexts
<1>2. {outdated, intact} \subseteq BOOLEAN
  BY Zenon DEF FilesInv, FilesTyped
<1>3. FileTypeOK
  BY <1>1, <1>2, Zenon DEF FilesInv, Counted, FileTypeOK
<1> QED BY <1>3, Zenon DEF FilesInv, OverlaySound

LEMMA BoundsTyped == ASSUME FilesAssumption PROVE MaxSaves \in Nat /\ MaxRules \in Nat /\ MaxCrashes \in Nat
  BY DEF FilesAssumption

LEMMA EntriesHas ==
  ASSUME NEW t \in RulesTexts
  PROVE  /\ Entries(t) \in Seq(Rules)
         /\ ToSet(Entries(t)) = ToSet(t.head) \cup ToSet(t.managed) \cup ToSet(t.tail)
<1>1. t.head \in Seq(Rules) /\ t.managed \in Seq(Rules) /\ t.tail \in Seq(Rules)
  BY DEF RulesTexts
<1>2. t.head \o t.managed \in Seq(Rules) /\ ToSet(t.head \o t.managed) = ToSet(t.head) \cup ToSet(t.managed)
  BY <1>1, ConcatHas, Zenon
<1> DEFINE u == t.head \o t.managed
<1>3. Entries(t) = u \o t.tail
  BY DEF Entries
<1> HIDE DEF u
<1>4. u \in Seq(Rules) /\ ToSet(u) = ToSet(t.head) \cup ToSet(t.managed)
  BY <1>2 DEF u
<1> QED BY <1>1, <1>3, <1>4, ConcatHas

\* What a table says of each id, if it is what a text makes of the shipped rules.
WholeOf(table, t) ==
  \A id : {r \in ToSet(table) : r.id = id} = Says(t, id)

LEMMA LayersAreWhole ==
  ASSUME FilesAssumption, NEW t \in RulesTexts, Distinct(Entries(t))
  PROVE  /\ Loaded(t) \in Seq(Rules) /\ WholeOf(Loaded(t), t)
         /\ \A r \in ToSet(Entries(t)) : r.on => r \in ToSet(Loaded(t))
<1>1. Entries(t) \in Seq(Rules) /\ Shipped \in Seq(Rules) /\ Distinct(Shipped)
  BY EntriesHas DEF FilesAssumption
<1> DEFINE table == Loaded(t)
<1>2. /\ table \in Seq(Rules)
      /\ \A r : r \in ToSet(table) <=>
           /\ r \in ToSet(Entries(t)) \/ (r \in ToSet(Shipped) /\ r.id \notin Ids(Entries(t)))
           /\ r.on
  BY <1>1, MergeSays DEF Loaded
<1> HIDE DEF table
<1>3. ASSUME NEW id PROVE {r \in ToSet(table) : r.id = id} = Says(t, id)
  <2> DEFINE own == {r \in ToSet(Entries(t)) : r.id = id}
             base == {r \in ToSet(Shipped) : r.id = id}
  <2>1. Says(t, id) = {r \in (IF own # {} THEN own ELSE base) : r.on}
    BY DEF Says
  <2>2. id \in Ids(Entries(t)) <=> own # {}
    BY <1>1, IdsOf
  <2>3. CASE own # {}
    BY <1>2, <2>1, <2>2, <2>3
  <2>4. CASE own = {}
    BY <1>2, <2>1, <2>2, <2>4
  <2> QED BY <2>3, <2>4
<1> QED BY <1>2, <1>3 DEF WholeOf, table

\* What a boot makes of a file that does not load: the shipped rules, as for no text at all.
LEMMA ShippedIsWhole ==
  ASSUME FilesAssumption
  PROVE  NoText \in RulesTexts /\ Entries(NoText) = <<>> /\ Distinct(Entries(NoText))
<1>1. NoText \in RulesTexts
  BY DEF NoText, RulesTexts
<1>2. Entries(NoText) = <<>>
  BY DEF NoText, Entries
<1> QED BY <1>1, <1>2 DEF Distinct

\* What an engine runs from here on is what it has loaded: the file as it stands or, at a
\* boot that finds no valid one, the shipped rules alone.
LEMMA LoadsKeep ==
  ASSUME FilesAssumption, FilesInv,
         \/ Valid(rulesFile) /\ liveRules' = Loaded(rulesFile) /\ from' = rulesFile
         \/ ~Valid(rulesFile) /\ liveRules' = Merge(Shipped, <<>>) /\ from' = NoText
  PROVE  /\ liveRules' \in Seq(Rules) /\ from' \in RulesTexts /\ LiveIsWhole'
         /\ Valid(rulesFile) => \A r \in ToSet(rulesFile.managed) : r.on => r \in ToSet(liveRules')
<1>1. CASE Valid(rulesFile)
  <2>1. rulesFile \in RulesTexts /\ Distinct(Entries(rulesFile))
    BY <1>1 DEF FilesInv, FilesTyped, Valid
  <2>2. /\ liveRules' \in Seq(Rules) /\ WholeOf(liveRules', from')
        /\ \A r \in ToSet(Entries(rulesFile)) : r.on => r \in ToSet(liveRules')
    BY <1>1, <2>1, LayersAreWhole
  <2>3. ToSet(rulesFile.managed) \subseteq ToSet(Entries(rulesFile))
    BY <2>1, EntriesHas
  <2> QED BY <1>1, <2>1, <2>2, <2>3, Zenon DEF WholeOf, LiveIsWhole
<1>2. CASE ~Valid(rulesFile)
  <2>1. /\ NoText \in RulesTexts /\ Loaded(NoText) \in Seq(Rules) /\ WholeOf(Loaded(NoText), NoText)
        /\ Entries(NoText) = <<>>
    BY ShippedIsWhole, LayersAreWhole
  <2>2. liveRules' = Loaded(NoText) /\ from' = NoText
    BY <1>2, <2>1 DEF Loaded
  <2> QED BY <1>2, <2>1, <2>2, Zenon DEF WholeOf, LiveIsWhole
<1> QED BY <1>1, <1>2

LEMMA NoCallTyped ==
  NoCall \in [at : {"idle", "read", "written", "asking"}, rule : Rules, text : RulesTexts]
<1>1. NoText \in RulesTexts
  BY DEF NoText, RulesTexts
<1> QED BY <1>1 DEF NoCall, Rules, Kinds

LEMMA FileInitInv == ASSUME FilesAssumption, FileInit PROVE FilesInv
<1>1. PICK h \in Parts : rulesFile = [NoText EXCEPT !.head = h] /\ ownWords = [head |-> h, tail |-> <<>>]
  BY DEF FileInit
<1>2. /\ rulesFile \in RulesTexts /\ rulesFile.head = h /\ rulesFile.tail = <<>>
      /\ rulesFile.block = "none" /\ rulesFile.bad = {}
  <2>1. h \in Seq(Rules) /\ <<>> \in Seq(Rules)
    BY DEF FilesAssumption
  <2> QED BY <1>1, <2>1 DEF NoText, RulesTexts
<1>3. /\ lay = NoCall /\ reload = "none" /\ saves = 0 /\ creates = 0 /\ crashes = 0
      /\ taught = {} /\ outdated = FALSE /\ intact = FALSE /\ told = {}
      /\ liveRules = IF Valid(rulesFile) THEN Loaded(rulesFile) ELSE Merge(Shipped, <<>>)
      /\ from = IF Valid(rulesFile) THEN rulesFile ELSE NoText
  BY DEF FileInit
<1>4. NoText \in RulesTexts /\ Loaded(NoText) = Merge(Shipped, <<>>) /\ Distinct(Entries(NoText))
  BY ShippedIsWhole DEF Loaded
<1>5. from \in RulesTexts /\ liveRules = Loaded(from) /\ Distinct(Entries(from))
  BY <1>2, <1>3, <1>4 DEF Valid
<1>6. liveRules \in Seq(Rules) /\ WholeOf(liveRules, from)
  BY <1>5, LayersAreWhole
<1>7. FilesTyped
  BY <1>2, <1>3, <1>5, <1>6, NoCallTyped DEF FilesTyped
<1>8. TaughtStands /\ StillLoads /\ ToldStands
  BY <1>3 DEF TaughtStands, StillLoads, ToldStands
<1>9. AppliedIsLive
  BY <1>3 DEF AppliedIsLive, NoCall
<1>10. Counted
  BY <1>3, BoundsTyped DEF Counted
<1>11. EveryAuthorKept
  BY <1>1, <1>2, <1>3 DEF EveryAuthorKept
<1>12. ToldLive /\ LiveIsWhole
  BY <1>3, <1>6, Zenon DEF ToldLive, LiveIsWhole, WholeOf
<1> QED BY <1>7, <1>8, <1>9, <1>10, <1>11, <1>12 DEF FilesInv

\* A save changes the words around the block, may hurt it, and forgets what anyone was told.
LEMMA SaveKeeps == ASSUME FilesAssumption, FilesInv, SaveRules PROVE FilesInv'
<1>1. PICK h \in Parts, a \in Parts, t \in Blocks(rulesFile) :
        LET tail == IF t.block = "none" THEN <<>> ELSE a IN
        /\ rulesFile' = [t EXCEPT !.head = h, !.tail = tail]
        /\ ownWords' = [head |-> h, tail |-> IF t.block = "open" THEN <<>> ELSE tail]
        /\ taught' = IF t.block = rulesFile.block /\ t.managed = rulesFile.managed /\ "block" \notin t.bad
                       /\ t.block = "closed" THEN taught ELSE {}
  BY DEF SaveRules
<1>2. /\ saves < MaxSaves /\ saves' = saves + 1 /\ intact' = FALSE /\ told' = {}
      /\ UNCHANGED <<lay, reload, liveRules, creates, crashes, outdated, from>>
  BY DEF SaveRules
<1>3. rulesFile \in RulesTexts /\ h \in Seq(Rules) /\ a \in Seq(Rules) /\ <<>> \in Seq(Rules)
  BY DEF FilesInv, FilesTyped, FilesAssumption
<1>4. t \in RulesTexts
  <2>1. \A i \in DOMAIN rulesFile.managed : RemoveAt(rulesFile.managed, i) \in Seq(Rules)
    BY <1>3 DEF RulesTexts, RemoveAt
  <2> DEFINE f == rulesFile
  <2>2. \/ \E b \in SUBSET {"head", "block", "tail"} : t = [f EXCEPT !.bad = b]
        \/ t = [f EXCEPT !.block = "none", !.managed = <<>>, !.bad = {}]
        \/ \E i \in DOMAIN f.managed : t = [f EXCEPT !.managed = RemoveAt(f.managed, i)]
        \/ t = [f EXCEPT !.block = "open"]
    BY DEF Blocks
  <2>3. CASE \E b \in SUBSET {"head", "block", "tail"} : t = [f EXCEPT !.bad = b]
    BY <1>3, <2>3 DEF RulesTexts
  <2>4. CASE t = [f EXCEPT !.block = "none", !.managed = <<>>, !.bad = {}]
    BY <1>3, <2>4 DEF RulesTexts
  <2>5. CASE \E i \in DOMAIN f.managed : t = [f EXCEPT !.managed = RemoveAt(f.managed, i)]
    <3>1. PICK s \in Seq(Rules) : t = [f EXCEPT !.managed = s]
      BY <2>1, <2>5
    <3> QED BY <1>3, <3>1 DEF RulesTexts
  <2>6. CASE t = [f EXCEPT !.block = "open"]
    BY <1>3, <2>6 DEF RulesTexts
  <2> QED BY <2>2, <2>3, <2>4, <2>5, <2>6
<1> DEFINE tail == IF t.block = "none" THEN <<>> ELSE a
<1>5. /\ rulesFile' = [t EXCEPT !.head = h, !.tail = tail] /\ tail \in Seq(Rules)
      /\ ownWords' = [head |-> h, tail |-> IF t.block = "open" THEN <<>> ELSE tail]
  BY <1>1, <1>3
<1> HIDE DEF tail
<1>6. /\ rulesFile' \in RulesTexts /\ rulesFile'.head = h /\ rulesFile'.tail = tail
      /\ rulesFile'.block = t.block /\ rulesFile'.managed = t.managed /\ rulesFile'.bad = t.bad
  BY <1>3, <1>4, <1>5 DEF RulesTexts
<1>7. \/ taught' = {}
      \/ /\ taught' = taught /\ t.managed = rulesFile.managed
         /\ t.block = "closed" /\ "block" \notin t.bad
  BY <1>1
<1>8. FilesTyped'
  BY <1>2, <1>6, <1>7 DEF FilesInv, FilesTyped
<1>9. TaughtStands'
  BY <1>6, <1>7 DEF FilesInv, TaughtStands
<1>10. StillLoads' /\ ToldStands'
  BY <1>2 DEF StillLoads, ToldStands
<1>11. AppliedIsLive'
  BY <1>2 DEF FilesInv, AppliedIsLive
<1>12. Counted'
  BY <1>2, BoundsTyped DEF FilesInv, Counted
<1>13. EveryAuthorKept'
  <2>1. [head |-> rulesFile'.head, tail |-> IF rulesFile'.block = "open" THEN <<>> ELSE rulesFile'.tail] = ownWords'
    BY <1>5, <1>6
  <2>2. ~outdated' => taught' \subseteq ToSet(rulesFile'.managed)
    BY <1>2, <1>6, <1>7 DEF FilesInv, EveryAuthorKept
  <2> QED BY <2>1, <2>2 DEF EveryAuthorKept
<1>14. ToldLive' /\ LiveIsWhole'
  BY <1>2 DEF FilesInv, ToldLive, LiveIsWhole
<1> QED BY <1>8, <1>9, <1>10, <1>11, <1>12, <1>13, <1>14 DEF FilesInv

\* What the mind reads back of its block: of a closed one that can be read, all its
\* [[react]] rules.
LEMMA ManagedHas ==
  ASSUME NEW t \in RulesTexts
  PROVE  /\ Managed(t) \in Seq(Rules)
         /\ t.block = "closed" /\ "block" \notin t.bad =>
              \A r \in ToSet(t.managed) : r.kind = "react" => r \in ToSet(Managed(t))
<1>1. t.managed \in Seq(Rules) /\ t.tail \in Seq(Rules) /\ t.managed \o t.tail \in Seq(Rules)
  BY DEF RulesTexts
<1>2. \A s \in Seq(Rules) : OfKind(s, "react") \in Seq(Rules)
  BY LayerHas
<1>3. Managed(t) \in Seq(Rules)
  <2>1. <<>> \in Seq(Rules)
    OBVIOUS
  <2>2. \/ Managed(t) = <<>>
        \/ Managed(t) = OfKind(t.managed \o t.tail, "react")
        \/ Managed(t) = OfKind(t.managed, "react")
    BY Zenon DEF Managed
  <2> QED BY <1>1, <1>2, <2>1, <2>2, Zenon
<1>4. ASSUME t.block = "closed", "block" \notin t.bad PROVE Managed(t) = OfKind(t.managed, "react")
  BY <1>4 DEF Managed
<1>5. ToSet(OfKind(t.managed, "react")) = {r \in ToSet(t.managed) : r.kind = "react"}
  BY <1>1, LayerHas
<1> QED BY <1>3, <1>4, <1>5

LEMMA RewrittenIs ==
  ASSUME NEW t \in RulesTexts, NEW r \in Rules
  PROVE  /\ Rewritten(t, r) \in RulesTexts
         /\ Rewritten(t, r).block = "closed" /\ "block" \notin Rewritten(t, r).bad
         /\ Rewritten(t, r).head = t.head
         /\ Rewritten(t, r).tail = IF t.block = "open" THEN <<>> ELSE t.tail
         /\ r \in ToSet(Rewritten(t, r).managed)
         /\ t.block = "closed" /\ "block" \notin t.bad =>
              \A e \in ToSet(t.managed) : e.kind = "react" /\ e.id # r.id => e \in ToSet(Rewritten(t, r).managed)
<1> DEFINE m == Merged(Managed(t), r)
           tail == IF t.block = "open" THEN <<>> ELSE t.tail
           bad == t.bad \ (IF t.block = "open" THEN {"block", "tail"} ELSE {"block"})
<1>1. m \in Seq(Rules) /\ ToSet(m) = {e \in ToSet(Managed(t)) : e.id # r.id} \cup {r}
  BY ManagedHas, MergedHas
<1>2. Rewritten(t, r) = [t EXCEPT !.block = "closed", !.managed = m, !.tail = tail, !.bad = bad]
  BY DEF Rewritten
<1>3. tail \in Seq(Rules) /\ bad \in SUBSET {"head", "block", "tail"} /\ "block" \notin bad
  BY DEF RulesTexts
<1>5. /\ Rewritten(t, r) \in RulesTexts
      /\ Rewritten(t, r).block = "closed" /\ Rewritten(t, r).managed = m /\ Rewritten(t, r).tail = tail
      /\ Rewritten(t, r).bad = bad /\ Rewritten(t, r).head = t.head
  <2> HIDE DEF m, tail, bad
  <2> QED BY <1>1, <1>2, <1>3 DEF RulesTexts
<1> HIDE DEF m
<1> QED BY <1>1, <1>3, <1>5, ManagedHas

LEMMA WriteKeeps == ASSUME FilesAssumption, FilesInv, WriteRule PROVE FilesInv'
<1> DEFINE r == lay.rule
           t == lay.text
           new == Rewritten(t, r)
<1>1. /\ lay.at = "read" /\ lay.rule.kind = "react" /\ Valid(new)
      /\ lay' = [lay EXCEPT !.at = "written"] /\ rulesFile' = new
      /\ outdated' = (outdated \/ rulesFile # t)
      /\ taught' = {q \in taught : q.id # r.id} \union {r}
      /\ told' = {q \in told : q.id # r.id} /\ intact' = TRUE
      /\ UNCHANGED <<reload, liveRules, saves, creates, crashes, ownWords, from>>
  BY DEF WriteRule
<1>2. t \in RulesTexts /\ r \in Rules /\ rulesFile \in RulesTexts
      /\ taught \subseteq Rules /\ told \subseteq Rules
  BY DEF FilesInv, FilesTyped
<1>3. /\ new \in RulesTexts /\ new.block = "closed" /\ "block" \notin new.bad
      /\ new.head = t.head /\ new.tail = (IF t.block = "open" THEN <<>> ELSE t.tail)
      /\ r \in ToSet(new.managed)
      /\ t.block = "closed" /\ "block" \notin t.bad =>
           \A e \in ToSet(t.managed) : e.kind = "react" /\ e.id # r.id => e \in ToSet(new.managed)
  BY <1>2, RewrittenIs
<1> HIDE DEF new
<1>4. lay'.at = "written" /\ lay'.rule = r /\ lay'.text = t
  BY <1>1 DEF FilesInv, FilesTyped
<1>5. FilesTyped'
  <2>1. outdated' \in BOOLEAN /\ intact' \in BOOLEAN
    BY <1>1
  <2> QED BY <1>1, <1>2, <1>3, <2>1 DEF FilesInv, FilesTyped
<1>6. TaughtStands'
  BY <1>1, <1>3 DEF FilesInv, TaughtStands
<1>7. StillLoads'
  BY <1>1, <1>3, <1>4 DEF StillLoads
<1>8. r.on
  BY <1>1 DEF FilesInv, AppliedIsLive
<1>9. AppliedIsLive'
  BY <1>1, <1>4, <1>8 DEF AppliedIsLive
<1>10. ASSUME NEW q \in told' PROVE q \in ToSet(new.managed) /\ q.on /\ q.kind = "react"
  <2>1. q \in told /\ q.id # r.id
    BY <1>1
  <2>2. /\ q \in ToSet(rulesFile.managed) /\ q.on /\ q.kind = "react" /\ rulesFile = t
        /\ rulesFile.block = "closed" /\ rulesFile.bad = {}
    BY <1>1, <2>1 DEF FilesInv, ToldStands, StillLoads, Valid
  <2> QED BY <1>3, <2>1, <2>2
<1>11. ToldStands'
  BY <1>1, <1>4, <1>10 DEF ToldStands
<1>12. Counted'
  BY <1>1 DEF FilesInv, Counted
<1>13. EveryAuthorKept'
  <2> SUFFICES ASSUME ~outdated' PROVE
        /\ [head |-> new.head, tail |-> IF new.block = "open" THEN <<>> ELSE new.tail] = ownWords
        /\ taught' \subseteq ToSet(new.managed)
    BY <1>1 DEF EveryAuthorKept
  <2>1. ~outdated /\ rulesFile = t
    BY <1>1
  <2>2. /\ [head |-> t.head, tail |-> IF t.block = "open" THEN <<>> ELSE t.tail] = ownWords
        /\ taught \subseteq ToSet(t.managed)
    BY <2>1 DEF FilesInv, EveryAuthorKept
  <2>3. [head |-> new.head, tail |-> IF new.block = "open" THEN <<>> ELSE new.tail] = ownWords
    BY <1>3, <2>2
  <2>4. ASSUME NEW q \in taught, q.id # r.id PROVE q \in ToSet(new.managed)
    <3>1. t.block = "closed" /\ "block" \notin t.bad /\ q.kind = "react" /\ q \in ToSet(t.managed)
      BY <2>1, <2>2 DEF FilesInv, TaughtStands
    <3> QED BY <1>3, <2>4, <3>1
  <2> QED BY <1>1, <1>3, <2>3, <2>4
<1>14. ToldLive'
  BY <1>1 DEF FilesInv, ToldLive
<1>15. LiveIsWhole'
  BY <1>1 DEF FilesInv, LiveIsWhole
<1> QED BY <1>5, <1>6, <1>7, <1>9, <1>11, <1>12, <1>13, <1>14, <1>15 DEF FilesInv

\* The other steps of a call leave the file and the engine alone.
LEMMA CallKeeps ==
  ASSUME FilesAssumption, FilesInv, ReadRules \/ Refused \/ AskReload \/ Answer \/ MindDies
  PROVE  FilesInv'
<1>1. UNCHANGED <<rulesFile, liveRules, saves, ownWords, taught, outdated, intact, from>>
  BY DEF ReadRules, Refused, AskReload, Answer, MindDies
<1>2. TaughtStands' /\ EveryAuthorKept' /\ LiveIsWhole'
  BY <1>1 DEF FilesInv, TaughtStands, EveryAuthorKept, LiveIsWhole
<1>7. Valid(rulesFile)' = Valid(rulesFile)
  BY <1>1 DEF Valid, Entries
<1>3. CASE ReadRules
  <2>1. PICK id \in LayerIds, k \in Kinds, sound \in BOOLEAN :
          lay' = [at |-> "read", rule |-> [id |-> id, kind |-> k, on |-> TRUE, sound |-> sound], text |-> rulesFile]
    BY <1>3 DEF ReadRules
  <2>2. /\ creates < MaxRules /\ creates' = creates + 1 /\ UNCHANGED <<reload, crashes, told>>
    BY <1>3 DEF ReadRules
  <2>3. lay'.at = "read" /\ lay'.text = rulesFile /\ lay'.rule.on
        /\ lay' \in [at : {"idle", "read", "written", "asking"}, rule : Rules, text : RulesTexts]
    BY <2>1 DEF FilesInv, FilesTyped, Rules, FilesAssumption
  <2>4. FilesTyped'
    BY <1>1, <2>2, <2>3 DEF FilesInv, FilesTyped
  <2>5. StillLoads' /\ AppliedIsLive' /\ ToldStands'
    BY <1>1, <1>7, <2>2, <2>3 DEF FilesInv, StillLoads, AppliedIsLive, ToldStands
  <2>6. Counted' /\ ToldLive'
    BY <1>1, <2>2, <2>3 DEF FilesInv, Counted, ToldLive, FilesAssumption
  <2> QED BY <1>2, <2>4, <2>5, <2>6 DEF FilesInv
<1>4. CASE Refused \/ MindDies
  <2>1. /\ lay' = NoCall /\ UNCHANGED <<creates, told>>
        /\ crashes' = crashes \/ (crashes < MaxCrashes /\ crashes' = crashes + 1)
        /\ reload' \in {reload, "abandoned", "none"}
    BY <1>4 DEF Refused, MindDies
  <2>2. NoCall.at = "idle" /\ NoCall.rule.on
    BY DEF NoCall
  <2>3. FilesTyped'
    BY <1>1, <2>1, NoCallTyped DEF FilesInv, FilesTyped
  <2>4. StillLoads' /\ AppliedIsLive' /\ ToldStands'
    BY <1>1, <1>7, <2>1, <2>2 DEF FilesInv, StillLoads, AppliedIsLive, ToldStands
  <2>5. Counted' /\ ToldLive'
    BY <1>1, <2>1, <2>2 DEF FilesInv, Counted, ToldLive, FilesAssumption
  <2> QED BY <1>2, <2>3, <2>4, <2>5 DEF FilesInv
<1>5. CASE AskReload
  <2>1. /\ lay.at = "written" /\ lay' = [lay EXCEPT !.at = "asking"] /\ reload' = "waits"
        /\ UNCHANGED <<creates, crashes, told>>
    BY <1>5 DEF AskReload
  <2>2. lay'.at = "asking" /\ lay'.rule = lay.rule /\ lay'.text = lay.text
        /\ lay' \in [at : {"idle", "read", "written", "asking"}, rule : Rules, text : RulesTexts]
    BY <2>1 DEF FilesInv, FilesTyped
  <2>3. FilesTyped'
    BY <1>1, <2>1, <2>2 DEF FilesInv, FilesTyped
  <2>4. StillLoads' /\ AppliedIsLive' /\ ToldStands'
    BY <1>1, <1>7, <2>1, <2>2 DEF FilesInv, StillLoads, AppliedIsLive, ToldStands
  <2>5. Counted' /\ ToldLive'
    BY <1>1, <2>1, <2>2 DEF FilesInv, Counted, ToldLive
  <2> QED BY <1>2, <2>3, <2>4, <2>5 DEF FilesInv
<1>6. CASE Answer
  <2>1. /\ lay.at = "asking" /\ lay' = NoCall /\ UNCHANGED <<creates, crashes>>
        /\ reload' \in {"abandoned", "none"}
        /\ told' = told \/ (reload = "applied" /\ intact /\ told' = told \union {lay.rule})
    BY <1>6 DEF Answer
  <2>2. NoCall.at = "idle" /\ NoCall.rule.on
    BY DEF NoCall
  <2>3. told' = told \/ told' = told \cup {lay.rule}
    BY <2>1
  <2>4. told' \subseteq Rules
    BY <2>3 DEF FilesInv, FilesTyped
  <2>5. FilesTyped'
    BY <1>1, <2>1, <2>4, NoCallTyped DEF FilesInv, FilesTyped
  <2>6. StillLoads' /\ AppliedIsLive'
    BY <1>1, <1>7, <2>1, <2>2 DEF FilesInv, StillLoads, AppliedIsLive
  <2>7. ToldStands'
    <3>1. CASE told' = told
      BY <1>1, <2>1, <2>2, <3>1 DEF FilesInv, ToldStands
    <3>2. CASE intact /\ told' = told \cup {lay.rule}
      <4>1. lay.rule \in ToSet(rulesFile.managed) /\ lay.rule.on /\ lay.rule.kind = "react"
        BY <2>1, <3>2 DEF FilesInv, StillLoads, AppliedIsLive
      <4> QED BY <1>1, <2>1, <2>2, <3>2, <4>1 DEF FilesInv, ToldStands
    <3> QED BY <2>1, <3>1, <3>2
  <2>8. ToldLive'
    BY <1>1, <2>1 DEF FilesInv, ToldLive, AppliedIsLive
  <2>9. Counted'
    BY <1>1, <2>1, <2>2 DEF FilesInv, Counted
  <2> QED BY <1>2, <2>5, <2>6, <2>7, <2>8, <2>9 DEF FilesInv
<1> QED BY <1>3, <1>4, <1>5, <1>6

\* The steps of the engine: it loads the file, keeps what it runs, or is down.
LEMMA EngineKeeps ==
  ASSUME FilesAssumption, FilesInv, Reload \/ EngineDies \/ EngineBoots
  PROVE  FilesInv'
<1>1. /\ UNCHANGED <<rulesFile, lay, saves, creates, ownWords, taught, outdated, intact, told>>
      /\ crashes' = crashes \/ (crashes < MaxCrashes /\ crashes' = crashes + 1)
      /\ reload' = reload \/ reload' = "none" \/ reload' = "refused"
         \/ (reload' = "applied" /\ Valid(rulesFile))
  BY DEF Reload, EngineDies, EngineBoots
<1>2. /\ liveRules' \in Seq(Rules) /\ from' \in RulesTexts /\ LiveIsWhole'
      /\ liveRules' # Down /\ Valid(rulesFile) =>
           \A r \in ToSet(rulesFile.managed) : r.on => r \in ToSet(liveRules')
  <2>1. CASE EngineDies
    <3>1. liveRules' = Down /\ from' = from
      BY <2>1 DEF EngineDies
    <3>2. Down \in Seq(Rules)
      BY DEF Down, Rules, Kinds
    <3> QED BY <3>1, <3>2 DEF FilesInv, FilesTyped, LiveIsWhole
  <2>2. CASE Reload /\ ~Valid(rulesFile)
    <3>1. liveRules' = liveRules /\ from' = from
      BY <2>2 DEF Reload
    <3> QED BY <2>2, <3>1 DEF FilesInv, FilesTyped, OverlaySound, LiveIsWhole
  <2>3. CASE EngineBoots \/ (Reload /\ Valid(rulesFile))
    <3>1. \/ Valid(rulesFile) /\ liveRules' = Loaded(rulesFile) /\ from' = rulesFile
          \/ ~Valid(rulesFile) /\ liveRules' = Merge(Shipped, <<>>) /\ from' = NoText
      BY <2>3 DEF Reload, EngineBoots
    <3> QED BY <3>1, LoadsKeep
  <2> QED BY <2>1, <2>2, <2>3
<1>3. liveRules' = liveRules \/ liveRules' = Down \/ Valid(rulesFile) \/ (~Valid(rulesFile) /\ liveRules = Down)
  BY DEF Reload, EngineDies, EngineBoots
<1>4. FilesTyped'
  BY <1>1, <1>2 DEF FilesInv, FilesTyped
<1>5. TaughtStands' /\ ToldStands' /\ EveryAuthorKept'
  BY <1>1 DEF FilesInv, TaughtStands, ToldStands, EveryAuthorKept
<1>6. StillLoads'
  <2>1. Valid(rulesFile)' = Valid(rulesFile)
    BY <1>1 DEF Valid, Entries
  <2> QED BY <1>1, <2>1 DEF FilesInv, StillLoads
<1>7. intact => Valid(rulesFile)
  BY DEF FilesInv, StillLoads
<1>8. AppliedIsLive'
  <2> SUFFICES ASSUME lay.at = "asking", intact, liveRules' # Down PROVE lay.rule \in ToSet(liveRules')
    BY <1>1 DEF FilesInv, AppliedIsLive
  <2>1. lay.rule \in ToSet(rulesFile.managed) /\ lay.rule.on
    BY DEF FilesInv, StillLoads, AppliedIsLive
  <2> QED BY <1>2, <1>7, <2>1
<1>9. ToldLive'
  <2> SUFFICES ASSUME liveRules' # Down, NEW r \in told PROVE r \in ToSet(liveRules')
    BY <1>1 DEF ToldLive
  <2>1. intact /\ r \in ToSet(rulesFile.managed) /\ r.on
    BY DEF FilesInv, ToldStands
  <2> QED BY <1>2, <1>7, <2>1
<1>10. Counted'
  BY <1>1 DEF FilesInv, Counted, FilesAssumption
<1> QED BY <1>2, <1>4, <1>5, <1>6, <1>8, <1>9, <1>10 DEF FilesInv

\* The rules file and its three authors, whatever the shipped layer, what an operator may
\* write, and the order of saves, rewrites, reloads and crashes: nobody's rules are lost to
\* another's rewrite, what the mind was told is live is live, and the engine runs one whole
\* text over the shipped one.
THEOREM RulesAreKept == FilesAssumption => (FileSpec => []OverlaySound)
<1> SUFFICES ASSUME FilesAssumption PROVE FileSpec => []OverlaySound
  OBVIOUS
<1>1. FileInit => FilesInv
  BY FileInitInv
<1>2. FilesInv /\ [FileNext]_fileVars => FilesInv'
  <2> SUFFICES ASSUME FilesInv, [FileNext]_fileVars PROVE FilesInv'
    OBVIOUS
  <2>1. CASE UNCHANGED fileVars
    <3>1. UNCHANGED <<rulesFile, lay, reload, liveRules, saves, creates, crashes, ownWords, taught, outdated, intact, told, from>>
      BY <2>1 DEF fileVars
    <3>2. FilesTyped' /\ TaughtStands' /\ AppliedIsLive' /\ ToldStands'
      BY <3>1 DEF FilesInv, FilesTyped, TaughtStands, AppliedIsLive, ToldStands
    <3>3. StillLoads'
      BY <3>1 DEF FilesInv, StillLoads, Valid, Entries
    <3>4. Counted' /\ EveryAuthorKept' /\ ToldLive' /\ LiveIsWhole'
      BY <3>1 DEF FilesInv, Counted, EveryAuthorKept, ToldLive, LiveIsWhole
    <3> QED BY <3>2, <3>3, <3>4 DEF FilesInv
  <2> QED BY <2>1, SaveKeeps, WriteKeeps, CallKeeps, EngineKeeps DEF FileNext
<1>3. FilesInv => OverlaySound
  BY FilesInvSound
<1> QED BY <1>1, <1>2, <1>3, PTL DEF FileSpec
================================================================================
