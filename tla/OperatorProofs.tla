---------------------------- MODULE OperatorProofs -----------------------------
(* Proofs about the operator's side: the pid files of every set of programs,   *)
(* pids and command lines, the presences of every set of operators and old     *)
(* units, the robots of every network, the pin in every hosts file, the clip   *)
(* of every camera that runs, and every client of the robot.                   *)
EXTENDS Processes, Discovery, ClipRider, RobotClients, FiniteSetTheorems, SequenceTheorems,
        WellFoundedInduction, TLAPS

--------------------------------------------------------------------------------
(* Background processes                                                         *)

Steps == {"idle", "look", "spawn", "track", "grace", "term", "wait", "kill", "reap"}
Command == [verb : {"none", "start", "stop"}, noun : Nouns \cup {"none"}, step : Steps,
            pid : Pids \cup {NoPid}, again : BOOLEAN]

ProcsTypeOK ==
    /\ proc \in [Pids -> Nouns \cup {Free, Stranger}]
    /\ pidfile \in [Nouns -> Pids \cup {NoPid}]
    /\ cmd \in [Clients -> Command]
    /\ down \subseteq Nouns /\ overlap \subseteq Nouns
    /\ spawns \in Nat

\* A command has a pid from the spawn, or from the look of a stop, to its end.
Holding == {"track", "grace", "term", "wait", "kill", "reap"}
Stopping == {"term", "wait", "kill", "reap"}
Fits(k) ==
    /\ k.step = "idle" => k = Idle
    /\ k.step # "idle" => k.noun \in Nouns
    /\ k.step \in {"spawn", "track", "grace"} => k.verb = "start"
    /\ k.step \in Stopping => k.verb = "stop"
    /\ k.step \in Holding => k.pid \in Pids
    /\ k.step \notin Holding => k.pid = NoPid
Staged == \A c \in Clients : Fits(cmd[c])

\* While a stop holds a pid, nothing but its own program has run under it.
OwnPid == \A c \in Clients : cmd[c].step \in Stopping => proc[cmd[c].pid] \in {Free, cmd[c].noun}

\* Of a noun whose commands came one after the other: what the command in progress
\* knows of its processes, and what the pid file says.
Alone(n) == \A c, d \in Clients : cmd[c].noun = n /\ cmd[d].noun = n => c = d
Grasped(n) ==
    \A c \in Clients : cmd[c].noun = n =>
        /\ cmd[c].step = "spawn" => \A p \in Pids : proc[p] # n
        /\ cmd[c].step = "track" => \A p \in Pids : proc[p] = n => p = cmd[c].pid
        /\ cmd[c].step \in Stopping \cup {"grace"} => pidfile[n] = cmd[c].pid
Recorded(n) ==
    \A p \in Pids : proc[p] = n /\ p # pidfile[n] =>
        \E c \in Clients : cmd[c].noun = n /\ cmd[c].step = "track"
Downed(n) == n \in down => ~Busy(n) /\ \A p \in Pids : proc[p] # n
Accounted(n) == Alone(n) /\ Grasped(n) /\ Recorded(n) /\ Downed(n)

ProcsInv ==
    /\ ProcsTypeOK /\ Staged /\ OwnPid /\ OnlyOursSignalled
    /\ \A n \in Nouns : n \notin overlap => Accounted(n)

LEMMA NamesApart ==
    ASSUME ProcessesAssumption
    PROVE  "none" \notin Nouns /\ Free \notin Nouns /\ Stranger \notin Nouns /\ NoPid \notin Pids
  BY DEF ProcessesAssumption, Free, Stranger, NoPid

LEMMA ProcsInitInv ==
    ASSUME ProcessesAssumption, ProcsInit
    PROVE  ProcsInv
<1>1. ProcsTypeOK /\ Staged /\ OwnPid /\ OnlyOursSignalled
  BY DEF ProcsInit, ProcsTypeOK, Staged, Fits, OwnPid, OnlyOursSignalled, Command, Steps, Idle,
         Holding, Stopping
<1>2. ASSUME NEW n \in Nouns PROVE Accounted(n)
  BY NamesApart DEF ProcsInit, Accounted, Alone, Grasped, Recorded, Downed, Idle, Free, Stranger
<1> QED BY <1>1, <1>2 DEF ProcsInv

\* What a step of a command on one noun leaves of what is known of another.
LEMMA OtherNouns ==
    ASSUME ProcessesAssumption, ProcsInv,
           NEW c \in Clients, NEW k \in Command, cmd' = [cmd EXCEPT ![c] = k],
           NEW n \in Nouns, n \notin overlap, n # cmd[c].noun, n # k.noun,
           pidfile'[n] = pidfile[n], n \in down' => n \in down,
           \A p \in Pids : proc'[p] = n => proc[p] = n
    PROVE  Accounted(n)'
<1> DEFINE m == cmd[c].noun
<1>1. \A d \in Clients : cmd'[d].noun = n => d # c /\ cmd'[d] = cmd[d]
  BY DEF ProcsInv, ProcsTypeOK
<1>2. \A d \in Clients : cmd[d].noun = n => d # c /\ cmd'[d] = cmd[d]
  BY DEF ProcsInv, ProcsTypeOK
<1>3. Accounted(n)
  BY DEF ProcsInv
<1>4. Alone(n)'
  BY <1>1, <1>3 DEF Alone, Accounted
<1>5. Grasped(n)'
  BY <1>1, <1>3 DEF Grasped, Accounted
<1>6. Recorded(n)'
  BY <1>2, <1>3 DEF Recorded, Accounted
<1>7. Downed(n)'
  BY <1>1, <1>3 DEF Downed, Accounted, Busy
<1> QED BY <1>4, <1>5, <1>6, <1>7 DEF Accounted

--------------------------------------------------------------------------------
(* Commands                                                                     *)

LEMMA BeginInv ==
    ASSUME ProcessesAssumption, ProcsInv, NEW c \in Clients, NEW verb \in {"start", "stop"},
           NEW m \in Nouns, NEW again \in BOOLEAN, Begin(c, verb, m, again)
    PROVE  ProcsInv'
<1> DEFINE k == [verb |-> verb, noun |-> m, step |-> "look", pid |-> NoPid, again |-> again]
<1>1. k \in Command /\ cmd' = [cmd EXCEPT ![c] = k] /\ cmd[c] = Idle
  BY DEF Begin, Command, Steps
<1>2. ProcsTypeOK' /\ Staged' /\ OwnPid' /\ OnlyOursSignalled'
  BY <1>1 DEF ProcsInv, Begin, ProcsTypeOK, Staged, Fits, OwnPid, OnlyOursSignalled, Holding, Stopping
<1>3. ASSUME NEW n \in Nouns, n \notin overlap' PROVE Accounted(n)'
  <2>0. n \notin overlap /\ n # "none" /\ cmd[c].noun = "none"
    BY <1>1, <1>3, NamesApart DEF Begin, Idle
  <2>1. CASE n # m
    BY <1>1, <2>0, <2>1, OtherNouns DEF Begin
  <2>2. CASE n = m
    <3>1. ~Busy(n) /\ Accounted(n)
      BY <1>3, <2>0, <2>2 DEF Begin, ProcsInv
    <3>2. \A d \in Clients : cmd'[d].noun = n => d = c /\ cmd'[d].step = "look"
      BY <1>1, <3>1 DEF Busy, ProcsInv, ProcsTypeOK
    <3> QED BY <2>2, <3>1, <3>2 DEF Begin, Accounted, Alone, Grasped, Recorded, Downed, Busy, Stopping
  <2> QED BY <2>1, <2>2
<1> QED BY <1>2, <1>3 DEF ProcsInv

\* A step of a command: what it becomes, and of which noun it may tell that nothing runs.
Takes(c, k) ==
    /\ cmd' = [cmd EXCEPT ![c] = k]
    /\ k \in Command /\ Fits(k) /\ k.noun \in {cmd[c].noun, "none"}
    /\ \A n \in Nouns : n # cmd[c].noun => (n \in down' => n \in down)
    /\ down' \subseteq Nouns

\* What the step has to keep of its own noun is about the one command of it.
LEMMA OwnNoun ==
    ASSUME ProcessesAssumption, ProcsInv, NEW c \in Clients, NEW k, Takes(c, k),
           NEW m \in Nouns, m = cmd[c].noun, m \notin overlap,
           k.noun = m /\ k.step = "spawn" => \A p \in Pids : proc'[p] # m,
           k.noun = m /\ k.step = "track" => \A p \in Pids : proc'[p] = m => p = k.pid,
           k.noun = m /\ k.step \in Stopping \cup {"grace"} => pidfile'[m] = k.pid,
           \A p \in Pids : proc'[p] = m /\ p # pidfile'[m] => k.noun = m /\ k.step = "track",
           m \in down' => k.noun # m /\ \A p \in Pids : proc'[p] # m
    PROVE  Accounted(m)'
<1>1. \A d \in Clients : cmd[d].noun = m => d = c
  BY DEF ProcsInv, Accounted, Alone
<1>2. \A d \in Clients : cmd'[d].noun = m => d = c /\ cmd'[d] = k
  BY <1>1 DEF Takes, ProcsInv, ProcsTypeOK
<1>3. cmd'[c] = k
  BY DEF Takes, ProcsInv, ProcsTypeOK
<1>4. Alone(m)' /\ Grasped(m)' /\ Downed(m)'
  BY <1>2 DEF Alone, Grasped, Downed, Busy
<1>5. Recorded(m)'
  BY <1>3 DEF Recorded
<1> QED BY <1>4, <1>5 DEF Accounted

LEMMA CommandStep ==
    ASSUME ProcessesAssumption, ProcsInv, NEW c \in Clients, NEW k, Takes(c, k),
           NEW m \in Nouns, m = cmd[c].noun,
           proc' \in [Pids -> Nouns \cup {Free, Stranger}],
           pidfile' \in [Nouns -> Pids \cup {NoPid}],
           spawns' \in Nat, overlap' = overlap, OnlyOursSignalled',
           \A n \in Nouns : n # m => pidfile'[n] = pidfile[n],
           \A p \in Pids : proc'[p] # proc[p] => proc'[p] = m /\ ~Held(p),
           k.step \in Stopping => proc[k.pid] \in {Free, k.noun} /\ proc' = proc,
           m \notin overlap => Accounted(m)'
    PROVE  ProcsInv'
<1>1. cmd' \in [Clients -> Command] /\ \A d \in Clients : d # c => cmd'[d] = cmd[d]
  BY DEF Takes, ProcsInv, ProcsTypeOK
<1>2. cmd'[c] = k
  BY DEF Takes, ProcsInv, ProcsTypeOK
<1>3. ProcsTypeOK'
  BY <1>1 DEF Takes, ProcsInv, ProcsTypeOK
<1>4. Staged'
  BY <1>1, <1>2 DEF Takes, ProcsInv, Staged
<1>5. ASSUME NEW d \in Clients, cmd'[d].step \in Stopping
      PROVE  proc'[cmd'[d].pid] \in {Free, cmd'[d].noun}
  <2>1. CASE d = c
    BY <1>2, <1>5, <2>1
  <2>2. CASE d # c
    <3>1. cmd'[d] = cmd[d] /\ cmd[d].pid \in Pids /\ proc[cmd[d].pid] \in {Free, cmd[d].noun}
      BY <1>1, <1>5, <2>2 DEF ProcsInv, OwnPid, Staged, Fits, Holding, Stopping
    <3>2. proc'[cmd[d].pid] = proc[cmd[d].pid]
      BY <3>1 DEF Held
    <3> QED BY <3>1, <3>2
  <2> QED BY <2>1, <2>2
<1>6. OwnPid'
  BY <1>5 DEF OwnPid
<1>7. ASSUME NEW n \in Nouns, n \notin overlap' PROVE Accounted(n)'
  <2>1. CASE n = m
    BY <1>7, <2>1
  <2>2. CASE n # m
    <3>1. n # k.noun /\ k \in Command /\ cmd' = [cmd EXCEPT ![c] = k] /\ n \notin overlap
      BY <1>7, <2>2, NamesApart DEF Takes
    <3>2. (n \in down' => n \in down) /\ \A p \in Pids : proc'[p] = n => proc[p] = n
      BY <2>2 DEF Takes
    <3> QED BY <2>2, <3>1, <3>2, OtherNouns
  <2> QED BY <2>1, <2>2
<1> QED BY <1>3, <1>4, <1>6, <1>7 DEF ProcsInv

\* What is known of a noun whose one command is here.
LEMMA Accounts ==
    ASSUME ProcsInv, NEW c \in Clients, NEW m \in Nouns, m = cmd[c].noun, m \notin overlap
    PROVE  /\ cmd[c].step = "spawn" => \A p \in Pids : proc[p] # m
           /\ cmd[c].step = "track" => \A p \in Pids : proc[p] = m => p = cmd[c].pid
           /\ cmd[c].step \in Stopping \cup {"grace"} => pidfile[m] = cmd[c].pid
           /\ cmd[c].step # "track" => \A p \in Pids : proc[p] = m => p = pidfile[m]
           /\ m \notin down
<1>1. Accounted(m) /\ \A d \in Clients : cmd[d].noun = m => d = c
  BY DEF ProcsInv, Accounted, Alone
<1> QED BY <1>1 DEF Accounted, Grasped, Recorded, Downed, Busy

\* The answer of a command ends it.
LEMMA Finished ==
    ASSUME ProcsInv, NEW c \in Clients, NEW said, Finish(c, said), cmd[c].noun \in Nouns
    PROVE  /\ Takes(c, Idle) /\ Idle.noun = "none" /\ Idle.step = "idle"
           /\ cmd[c].noun \in down' => said \in {"stopped", "not running"}
<1>1. Idle \in Command /\ Fits(Idle) /\ Idle.noun = "none" /\ Idle.step = "idle"
  BY DEF Idle, Command, Steps, Fits, Holding, Stopping
<1> QED BY <1>1 DEF Finish, Takes, ProcsInv, ProcsTypeOK

\* So does the end of a stop, unless it goes on to a start.
LEMMA StoppedTakes ==
    ASSUME ProcsInv, NEW c \in Clients, NEW said, Stopped(c, said), cmd[c].noun \in Nouns
    PROVE  \E k : /\ Takes(c, k) /\ k.step \in {"idle", "look"}
                  /\ cmd[c].noun \in down' => k.noun = "none" \/ cmd[c].noun \in down
<1>1. CASE cmd[c].again
  <2> DEFINE k == [cmd[c] EXCEPT !.verb = "start", !.step = "look", !.pid = NoPid]
  <2>1. k \in Command /\ k.noun = cmd[c].noun /\ k.step = "look" /\ k.pid = NoPid
    BY DEF Command, Steps, ProcsInv, ProcsTypeOK
  <2>2. Fits(k)
    BY <2>1 DEF Fits, Holding, Stopping
  <2>3. Takes(c, k) /\ down' = down
    BY <1>1, <2>1, <2>2 DEF Stopped, Takes, ProcsInv, ProcsTypeOK
  <2> QED BY <2>1, <2>3
<1>2. CASE ~cmd[c].again
  BY <1>2, Finished DEF Stopped
<1> QED BY <1>1, <1>2

\* A command goes on to its next step.
LEMMA GoneOn ==
    ASSUME ProcsInv, NEW c \in Clients, NEW step \in Steps, Goto(c, step), UNCHANGED down,
           Fits([cmd[c] EXCEPT !.step = step])
    PROVE  \E k : /\ Takes(c, k)
                  /\ k.step = step /\ k.noun = cmd[c].noun /\ k.pid = cmd[c].pid
<1> DEFINE k == [cmd[c] EXCEPT !.step = step]
<1>1. k \in Command /\ k.step = step /\ k.noun = cmd[c].noun /\ k.pid = cmd[c].pid
  BY DEF Command, ProcsInv, ProcsTypeOK
<1>2. Takes(c, k)
  BY <1>1 DEF Takes, Goto, ProcsInv, ProcsTypeOK
<1> QED BY <1>1, <1>2

--------------------------------------------------------------------------------
(* start                                                                        *)

LEMMA StartLooksInv ==
    ASSUME ProcessesAssumption, ProcsInv, NEW c \in Clients, StartLooks(c)
    PROVE  ProcsInv'
<1> PICK m : m = cmd[c].noun
  OBVIOUS
<1>0. UNCHANGED <<proc, pidfile, overlap, hit, spawns>> /\ "spawn" \in Steps
  BY DEF StartLooks, Steps
<1>1. /\ m \in Nouns /\ cmd[c].step = "look" /\ cmd[c].verb = "start" /\ cmd[c] \in Command
      /\ m # "none" /\ cmd[c].pid = NoPid
  BY NamesApart DEF StartLooks, At, ProcsInv, ProcsTypeOK, Staged, Fits, Holding
<1>2. \E k : /\ Takes(c, k)
             /\ k.noun = "none" \/ (k.step = "spawn" /\ ~Running(m))
             /\ m \in down' => m \in down
  <2>1. CASE Goto(c, "spawn") /\ UNCHANGED down /\ ~Running(m)
    <3>1. Fits([cmd[c] EXCEPT !.step = "spawn"])
      BY <1>1 DEF Command, Fits, Holding, Stopping
    <3>2. \E k : Takes(c, k) /\ k.step = "spawn" /\ k.noun = m /\ k.pid = cmd[c].pid
      BY <1>0, <2>1, <3>1, GoneOn
    <3> QED BY <2>1, <3>2
  <2>2. CASE \E said \in {"already running", "refused"} : Finish(c, said)
    BY <1>1, <2>2, Finished
  <2> QED BY <2>1, <2>2 DEF StartLooks
<1>3. PICK k : /\ Takes(c, k)
               /\ k.noun = "none" \/ (k.step = "spawn" /\ ~Running(m))
               /\ m \in down' => m \in down
  BY <1>2
<1>4. ASSUME m \notin overlap PROVE Accounted(m)'
  <2>1. \A p \in Pids : proc[p] = m => p = pidfile[m]
    BY <1>1, <1>4, Accounts
  <2>2. k.step = "spawn" /\ k.noun = m => \A p \in Pids : proc[p] # m
    BY <1>1, <1>3, <2>1, NamesApart DEF Running, IsAlive
  <2>3. m \notin down'
    BY <1>1, <1>3, <1>4, Accounts
  <2>4. k.noun = m => k.step = "spawn" /\ k.step \notin Stopping \cup {"grace"}
    BY <1>1, <1>3 DEF Stopping
  <2>5. \A p \in Pids : proc'[p] = m => p = pidfile'[m]
    BY <1>0, <2>1
  <2>6. k.step = "spawn" /\ k.noun = m => \A p \in Pids : proc'[p] # m
    BY <1>0, <2>2
  <2> QED BY <1>1, <1>3, <1>4, <2>3, <2>4, <2>5, <2>6, OwnNoun
<1>5. k.step \notin Stopping
  BY <1>1, <1>3, NamesApart DEF Stopping, Takes, Fits
<1>6. OnlyOursSignalled' /\ ProcsTypeOK
  BY <1>0 DEF ProcsInv, OnlyOursSignalled
<1> QED BY <1>0, <1>1, <1>3, <1>4, <1>5, <1>6, CommandStep DEF ProcsTypeOK

LEMMA SpawnInv ==
    ASSUME ProcessesAssumption, ProcsInv, NEW c \in Clients, Spawn(c)
    PROVE  ProcsInv'
<1> PICK m : m = cmd[c].noun
  OBVIOUS
<1>0. UNCHANGED <<pidfile, overlap, hit>>
  BY DEF Spawn
<1>1. /\ m \in Nouns /\ cmd[c].step = "spawn" /\ cmd[c].verb = "start" /\ cmd[c] \in Command
  BY NamesApart DEF Spawn, At, ProcsInv, ProcsTypeOK, Staged, Fits, Holding
<1>2. OnlyOursSignalled' /\ ProcsTypeOK
  BY <1>0 DEF ProcsInv, OnlyOursSignalled
<1>3. CASE Finish(c, "launch failed") /\ UNCHANGED <<proc, spawns>>
  <2>0. \E said \in {"launch failed"} : Finish(c, said)
    BY <1>3
  <2>1. Takes(c, Idle) /\ Idle.noun = "none" /\ Idle.step = "idle" /\ m \notin down'
    BY <1>1, <2>0, Finished
  <2>2. ASSUME m \notin overlap PROVE Accounted(m)'
    <3>1. \A p \in Pids : proc'[p] # m
      BY <1>1, <1>3, <2>2, Accounts
    <3> QED BY <1>1, <2>1, <2>2, <3>1, NamesApart, OwnNoun
  <2> QED BY <1>0, <1>1, <1>2, <1>3, <2>1, <2>2, CommandStep DEF ProcsTypeOK, Stopping
<1>4. ASSUME NEW p \in Pids, proc[p] = Free, ~Held(p), proc' = [proc EXCEPT ![p] = m],
             cmd' = [cmd EXCEPT ![c].pid = p, ![c].step = "track"],
             spawns' = spawns + 1, UNCHANGED down
      PROVE  ProcsInv'
  <2> PICK k : k = [cmd[c] EXCEPT !.pid = p, !.step = "track"]
    OBVIOUS
  <2>1. k \in Command /\ k.noun = m /\ k.step = "track" /\ k.pid = p /\ k.verb = "start"
    BY <1>1 DEF Command, Steps
  <2>2. Takes(c, k)
    BY <1>1, <1>2, <1>4, <2>1 DEF Takes, Fits, Holding, Stopping, ProcsTypeOK
  <2>3. \A q \in Pids : q # p => proc'[q] = proc[q]
    BY <1>2, <1>4 DEF ProcsTypeOK
  <2>4. proc'[p] = m
    BY <1>2, <1>4 DEF ProcsTypeOK
  <2>5. ASSUME m \notin overlap PROVE Accounted(m)'
    <3>1. m \notin down /\ \A q \in Pids : proc[q] # m
      BY <1>1, <2>5, Accounts
    <3>2. \A q \in Pids : proc'[q] = m => q = k.pid
      BY <2>1, <2>3, <3>1
    <3>3. k.noun = m /\ k.step = "track" /\ k.step \notin Stopping \cup {"grace"} /\ m \notin down'
      BY <1>4, <2>1, <3>1 DEF Stopping
    <3> QED BY <1>1, <2>2, <2>5, <3>2, <3>3, OwnNoun
  <2>6. \A q \in Pids : proc'[q] # proc[q] => proc'[q] = m /\ ~Held(q)
    BY <1>4, <2>3, <2>4
  <2>7. proc' \in [Pids -> Nouns \cup {Free, Stranger}] /\ spawns' \in Nat /\ k.step \notin Stopping
    BY <1>1, <1>2, <1>4, <2>1 DEF ProcsTypeOK, Stopping
  <2> QED BY <1>0, <1>1, <1>2, <2>2, <2>5, <2>6, <2>7, CommandStep DEF ProcsTypeOK
<1> QED BY <1>3, <1>4 DEF Spawn

LEMMA TrackInv ==
    ASSUME ProcessesAssumption, ProcsInv, NEW c \in Clients, Track(c)
    PROVE  ProcsInv'
<1> PICK m : m = cmd[c].noun
  OBVIOUS
<1>0. UNCHANGED <<proc, down, overlap, hit, spawns>> /\ "grace" \in Steps
  BY DEF Track, Steps
<1>1. /\ m \in Nouns /\ cmd[c].step = "track" /\ cmd[c].verb = "start" /\ cmd[c] \in Command
      /\ cmd[c].pid \in Pids
  BY NamesApart DEF Track, At, ProcsInv, ProcsTypeOK, Staged, Fits, Holding
<1>2. OnlyOursSignalled' /\ ProcsTypeOK
  BY <1>0 DEF ProcsInv, OnlyOursSignalled
<1>3. Fits([cmd[c] EXCEPT !.step = "grace"])
  BY <1>1 DEF Command, Fits, Holding, Stopping
<1>4. PICK k : Takes(c, k) /\ k.step = "grace" /\ k.noun = m /\ k.pid = cmd[c].pid
  BY <1>0, <1>1, <1>3, GoneOn DEF Track
<1>5. pidfile' \in [Nouns -> Pids \cup {NoPid}] /\ pidfile'[m] = k.pid
      /\ \A n \in Nouns : n # m => pidfile'[n] = pidfile[n]
  BY <1>1, <1>2, <1>4 DEF Track, ProcsTypeOK
<1>6. ASSUME m \notin overlap PROVE Accounted(m)'
  <2>1. m \notin down /\ \A p \in Pids : proc[p] = m => p = k.pid
    BY <1>1, <1>4, <1>6, Accounts
  <2> QED BY <1>0, <1>1, <1>4, <1>5, <1>6, <2>1, OwnNoun
<1> QED BY <1>0, <1>1, <1>2, <1>4, <1>5, <1>6, CommandStep DEF ProcsTypeOK, Stopping

LEMMA GraceInv ==
    ASSUME ProcessesAssumption, ProcsInv, NEW c \in Clients, Grace(c)
    PROVE  ProcsInv'
<1> PICK m : m = cmd[c].noun
  OBVIOUS
<1>0. UNCHANGED <<proc, overlap, hit, spawns>>
  BY DEF Grace
<1>1. /\ m \in Nouns /\ cmd[c].step = "grace" /\ cmd[c].pid \in Pids
  BY NamesApart DEF Grace, At, ProcsInv, ProcsTypeOK, Staged, Fits, Holding
<1>2. OnlyOursSignalled' /\ ProcsTypeOK
  BY <1>0 DEF ProcsInv, OnlyOursSignalled
<1>3. /\ \E said \in {"started", "exited"} : Finish(c, said)
      /\ UNCHANGED pidfile \/ (Clear(m) /\ proc[cmd[c].pid] = Free)
  BY <1>1, NamesApart DEF Grace, IsAlive
<1>4. Takes(c, Idle) /\ Idle.noun = "none" /\ Idle.step = "idle" /\ m \notin down'
  BY <1>1, <1>3, Finished
<1>5. pidfile' \in [Nouns -> Pids \cup {NoPid}] /\ \A n \in Nouns : n # m => pidfile'[n] = pidfile[n]
  BY <1>1, <1>2, <1>3 DEF Clear, ProcsTypeOK
<1>6. ASSUME m \notin overlap PROVE Accounted(m)'
  <2>1. pidfile[m] = cmd[c].pid /\ \A p \in Pids : proc[p] = m => p = pidfile[m]
    BY <1>1, <1>6, Accounts DEF Stopping
  <2>2. \A p \in Pids : proc'[p] = m => p = pidfile'[m]
    BY <1>0, <1>1, <1>3, <2>1, NamesApart DEF Clear
  <2> QED BY <1>1, <1>4, <1>6, <2>2, OwnNoun, NamesApart
<1> QED BY <1>0, <1>1, <1>2, <1>4, <1>5, <1>6, CommandStep DEF ProcsTypeOK, Stopping

LEMMA InterruptInv ==
    ASSUME ProcessesAssumption, ProcsInv, NEW c \in Clients, Interrupt(c)
    PROVE  ProcsInv'
<1> PICK m : m = cmd[c].noun
  OBVIOUS
<1>0. UNCHANGED <<proc, pidfile, down, overlap, hit, spawns>>
  BY DEF Interrupt
<1>1. m \in Nouns /\ cmd[c].step \in {"grace", "wait", "reap"}
  BY DEF Interrupt, ProcsInv, Staged, Fits
<1>2. OnlyOursSignalled' /\ ProcsTypeOK
  BY <1>0 DEF ProcsInv, OnlyOursSignalled
<1>3. Takes(c, Idle) /\ Idle.noun = "none" /\ Idle.step = "idle"
  BY <1>0, <1>2 DEF Interrupt, Takes, Idle, Command, Steps, Fits, Holding, Stopping, ProcsTypeOK
<1>4. ASSUME m \notin overlap PROVE Accounted(m)'
  <2>1. m \notin down /\ \A p \in Pids : proc[p] = m => p = pidfile[m]
    BY <1>1, <1>4, Accounts
  <2> QED BY <1>0, <1>1, <1>3, <1>4, <2>1, OwnNoun, NamesApart
<1> QED BY <1>0, <1>1, <1>2, <1>3, <1>4, CommandStep DEF ProcsTypeOK, Stopping

--------------------------------------------------------------------------------
(* stop                                                                         *)

\* A stop that ends, or turns into a start, with its pid file cleared and nothing of
\* its noun left.
LEMMA CleanEnd ==
    ASSUME ProcessesAssumption, ProcsInv, NEW c \in Clients, NEW m \in Nouns, m = cmd[c].noun,
           NEW said, Stopped(c, said), Clear(m) \/ (UNCHANGED pidfile /\ pidfile[m] = NoPid),
           UNCHANGED <<proc, overlap, hit, spawns>>,
           m \notin overlap => \A p \in Pids : proc[p] # m
    PROVE  ProcsInv'
<1>1. PICK k : /\ Takes(c, k) /\ k.step \in {"idle", "look"}
               /\ m \in down' => k.noun = "none" \/ m \in down
  BY StoppedTakes
<1>2. OnlyOursSignalled' /\ ProcsTypeOK
  BY DEF ProcsInv, OnlyOursSignalled
<1>3. pidfile' \in [Nouns -> Pids \cup {NoPid}] /\ \A n \in Nouns : n # m => pidfile'[n] = pidfile[n]
  BY <1>2 DEF Clear, ProcsTypeOK
<1>4. k.step \notin Stopping \cup {"grace"}
  BY <1>1 DEF Stopping
<1>5. ASSUME m \notin overlap PROVE Accounted(m)'
  <2>1. m \notin down /\ \A p \in Pids : proc'[p] # m
    BY <1>5, Accounts
  <2>2. m \in down' => k.noun # m
    BY <1>1, <2>1, NamesApart
  <2> QED BY <1>1, <1>4, <1>5, <2>1, <2>2, OwnNoun
<1> QED BY <1>1, <1>2, <1>3, <1>4, <1>5, CommandStep DEF ProcsTypeOK

\* A stop that goes on to another step on the pid it holds, having signalled it or not.
LEMMA OnWithPid ==
    ASSUME ProcessesAssumption, ProcsInv, NEW c \in Clients, NEW m \in Nouns, m = cmd[c].noun,
           cmd[c].verb = "stop", cmd[c].step \in Stopping,
           NEW step \in Stopping, Goto(c, step),
           UNCHANGED <<proc, pidfile, down, overlap, spawns>>, OnlyOursSignalled'
    PROVE  ProcsInv'
<1>1. cmd[c] \in Command /\ cmd[c].pid \in Pids /\ proc[cmd[c].pid] \in {Free, m} /\ step \in Steps
  BY DEF ProcsInv, ProcsTypeOK, Staged, Fits, OwnPid, Stopping, Holding, Steps
<1>2. Fits([cmd[c] EXCEPT !.step = step])
  BY <1>1 DEF Command, Fits, Holding, Stopping
<1>3. PICK k : Takes(c, k) /\ k.step = step /\ k.noun = m /\ k.pid = cmd[c].pid
  BY <1>1, <1>2, GoneOn
<1>4. ASSUME m \notin overlap PROVE Accounted(m)'
  <2>1. m \notin down /\ pidfile[m] = k.pid /\ \A p \in Pids : proc[p] = m => p = pidfile[m]
    BY <1>3, <1>4, Accounts DEF Stopping
  <2>2. k.step \notin {"spawn", "track"}
    BY <1>3 DEF Stopping
  <2> QED BY <1>3, <1>4, <2>1, <2>2, OwnNoun
<1>5. ProcsTypeOK
  BY DEF ProcsInv
<1> QED BY <1>1, <1>3, <1>4, <1>5, CommandStep DEF ProcsTypeOK

\* What is under the pid a stop holds: its own program, or nothing any more, and then
\* nothing of its noun is left.
LEMMA UnderPid ==
    ASSUME ProcessesAssumption, ProcsInv, NEW c \in Clients, cmd[c].verb = "stop",
           cmd[c].step \in Stopping, NEW m, m = cmd[c].noun
    PROVE  /\ m \in Nouns
           /\ IsAlive(cmd[c].pid) => proc[cmd[c].pid] = m
           /\ ~IsAlive(cmd[c].pid) /\ m \notin overlap => \A p \in Pids : proc[p] # m
<1>1. m \in Nouns /\ cmd[c].pid \in Pids /\ proc[cmd[c].pid] \in {Free, m}
  BY DEF ProcsInv, Staged, Fits, OwnPid, Stopping, Holding
<1>2. m \notin overlap => pidfile[m] = cmd[c].pid /\ \A p \in Pids : proc[p] = m => p = pidfile[m]
  BY <1>1, Accounts DEF Stopping
<1> QED BY <1>1, <1>2, NamesApart DEF IsAlive

LEMMA StopLooksInv ==
    ASSUME ProcessesAssumption, ProcsInv, NEW c \in Clients, StopLooks(c)
    PROVE  ProcsInv'
<1> PICK m : m = cmd[c].noun
  OBVIOUS
<1>0. UNCHANGED <<proc, overlap, hit, spawns>>
  BY DEF StopLooks
<1>1. /\ m \in Nouns /\ cmd[c].step = "look" /\ cmd[c].verb = "stop" /\ cmd[c] \in Command
  BY NamesApart DEF StopLooks, At, ProcsInv, ProcsTypeOK, Staged, Fits, Holding
<1>2. OnlyOursSignalled' /\ ProcsTypeOK
  BY <1>0 DEF ProcsInv, OnlyOursSignalled
<1>3. m \notin overlap => m \notin down /\ \A p \in Pids : proc[p] = m => p = pidfile[m]
  BY <1>1, Accounts
<1>4. CASE Stopped(c, "not running") /\ ~(IsAlive(pidfile[m]) /\ IsOurs(m, pidfile[m]))
           /\ (Clear(m) \/ (UNCHANGED pidfile /\ pidfile[m] = NoPid))
  <2>1. m \notin overlap => \A p \in Pids : proc[p] # m
    BY <1>1, <1>3, <1>4, NamesApart DEF IsAlive, IsOurs
  <2> QED BY <1>0, <1>1, <1>4, <2>1, CleanEnd
<1>5. CASE /\ IsAlive(pidfile[m]) /\ IsOurs(m, pidfile[m])
           /\ cmd' = [cmd EXCEPT ![c].pid = pidfile[m], ![c].step = "term"]
           /\ UNCHANGED <<down, pidfile>>
  <2> PICK k : k = [cmd[c] EXCEPT !.pid = pidfile[m], !.step = "term"]
    OBVIOUS
  <2>1. pidfile[m] \in Pids /\ proc[pidfile[m]] = m
    BY <1>1, <1>2, <1>5 DEF IsAlive, IsOurs, ProcsTypeOK
  <2>2. k \in Command /\ k.noun = m /\ k.step = "term" /\ k.pid = pidfile[m] /\ k.verb = "stop"
    BY <1>1, <2>1 DEF Command, Steps
  <2>3. Takes(c, k)
    BY <1>1, <1>2, <1>5, <2>1, <2>2 DEF Takes, Fits, Holding, Stopping, ProcsTypeOK
  <2>4. ASSUME m \notin overlap PROVE Accounted(m)'
    BY <1>0, <1>1, <1>3, <1>5, <2>2, <2>3, <2>4, OwnNoun
  <2>5. proc[k.pid] \in {Free, k.noun}
    BY <2>1, <2>2
  <2> QED BY <1>0, <1>1, <1>2, <1>5, <2>3, <2>4, <2>5, CommandStep DEF ProcsTypeOK
<1>6. pidfile[m] = NoPid => ~IsAlive(pidfile[m])
  BY DEF IsAlive
<1> QED BY <1>1, <1>4, <1>5, <1>6 DEF StopLooks

\* SIGTERM and SIGKILL, to the pid that is held.
LEMMA SignalInv ==
    ASSUME ProcessesAssumption, ProcsInv, NEW c \in Clients, Terminate(c) \/ Kill(c)
    PROVE  ProcsInv'
<1> PICK m : m = cmd[c].noun
  OBVIOUS
<1>0. UNCHANGED <<proc, overlap, spawns>>
  BY DEF Terminate, Kill
<1>1. cmd[c].verb = "stop" /\ cmd[c].step \in Stopping
  BY DEF Terminate, Kill, At, Stopping
<1>2. /\ m \in Nouns
      /\ IsAlive(cmd[c].pid) => proc[cmd[c].pid] = m
      /\ ~IsAlive(cmd[c].pid) /\ m \notin overlap => \A p \in Pids : proc[p] # m
  BY <1>1, UnderPid
<1>3. CASE IsAlive(cmd[c].pid)
  <2>1. OnlyOursSignalled'
    BY <1>2, <1>3 DEF Terminate, Kill, Signal, ProcsInv, OnlyOursSignalled
  <2>2. \E step \in Stopping : Goto(c, step)
    BY <1>3 DEF Terminate, Kill, Stopping
  <2>3. UNCHANGED <<pidfile, down>>
    BY <1>3 DEF Terminate, Kill
  <2> QED BY <1>0, <1>1, <1>2, <2>1, <2>2, <2>3, OnWithPid
<1>4. CASE ~IsAlive(cmd[c].pid)
  <2>1. Clear(m) /\ UNCHANGED hit /\ \E said : Stopped(c, said)
    BY <1>4 DEF Terminate, Kill
  <2> QED BY <1>0, <1>2, <1>4, <2>1, CleanEnd
<1> QED BY <1>3, <1>4

LEMMA WaitedInv ==
    ASSUME ProcessesAssumption, ProcsInv, NEW c \in Clients, Waited(c)
    PROVE  ProcsInv'
<1> PICK m : m = cmd[c].noun
  OBVIOUS
<1>0. UNCHANGED <<proc, overlap, hit, spawns>>
  BY DEF Waited
<1>1. cmd[c].verb = "stop" /\ cmd[c].step \in Stopping /\ "kill" \in Stopping
  BY DEF Waited, At, Stopping
<1>2. m \in Nouns /\ (~IsAlive(cmd[c].pid) /\ m \notin overlap => \A p \in Pids : proc[p] # m)
  BY <1>1, UnderPid
<1>3. CASE Gone(c) /\ Clear(m) /\ Stopped(c, "stopped")
  BY <1>0, <1>2, <1>3, CleanEnd DEF Gone
<1>4. CASE Goto(c, "kill") /\ UNCHANGED <<down, pidfile>>
  <2>1. OnlyOursSignalled'
    BY <1>0 DEF ProcsInv, OnlyOursSignalled
  <2> QED BY <1>0, <1>1, <1>2, <1>4, <2>1, OnWithPid
<1> QED BY <1>3, <1>4 DEF Waited

LEMMA ReapInv ==
    ASSUME ProcessesAssumption, ProcsInv, NEW c \in Clients, Reap(c)
    PROVE  ProcsInv'
<1> PICK m : m = cmd[c].noun
  OBVIOUS
<1>0. UNCHANGED <<proc, overlap, hit, spawns>>
  BY DEF Reap
<1>1. cmd[c].verb = "stop" /\ cmd[c].step \in Stopping
  BY DEF Reap, At, Stopping
<1>2. m \in Nouns /\ (~IsAlive(cmd[c].pid) /\ m \notin overlap => \A p \in Pids : proc[p] # m)
  BY <1>1, UnderPid
<1>3. CASE Gone(c) /\ Clear(m) /\ Stopped(c, "stopped")
  BY <1>0, <1>2, <1>3, CleanEnd DEF Gone
<1>4. CASE Finish(c, "failed") /\ UNCHANGED pidfile
  <2>0. \E said \in {"failed"} : Finish(c, said)
    BY <1>4
  <2>1. Takes(c, Idle) /\ Idle.noun = "none" /\ Idle.step = "idle" /\ m \notin down'
    BY <1>2, <2>0, Finished
  <2>2. ASSUME m \notin overlap PROVE Accounted(m)'
    <3>1. \A p \in Pids : proc[p] = m => p = pidfile[m]
      BY <1>1, <1>2, <2>2, Accounts DEF Stopping
    <3> QED BY <1>0, <1>2, <1>4, <2>1, <2>2, <3>1, NamesApart, OwnNoun
  <2>3. OnlyOursSignalled' /\ ProcsTypeOK
    BY <1>0 DEF ProcsInv, OnlyOursSignalled
  <2> QED BY <1>0, <1>2, <1>4, <2>1, <2>2, <2>3, CommandStep DEF ProcsTypeOK, Stopping
<1> QED BY <1>3, <1>4 DEF Reap

--------------------------------------------------------------------------------
(* The world, and the theorem                                                   *)

\* A process that ends, and a stranger under a pid nobody holds, are no process of a noun.
LEMMA WorldInv ==
    ASSUME ProcessesAssumption, ProcsInv, NEW p \in Pids, Exit(p) \/ Reuse(p)
    PROVE  ProcsInv'
<1>1. UNCHANGED <<pidfile, cmd, down, overlap, hit>> /\ spawns' \in Nat
  BY DEF Exit, Reuse, ProcsInv, ProcsTypeOK
<1>2. \E q \in {Free, Stranger} : proc' = [proc EXCEPT ![p] = q] /\ (q = Free \/ ~Held(p))
  BY DEF Exit, Reuse
<1>3. PICK q \in {Free, Stranger} : proc' = [proc EXCEPT ![p] = q] /\ (q = Free \/ ~Held(p))
  BY <1>2
<1>4. proc' \in [Pids -> Nouns \cup {Free, Stranger}] /\ proc'[p] = q
      /\ \A r \in Pids : r # p => proc'[r] = proc[r]
  BY <1>3 DEF ProcsInv, ProcsTypeOK
<1>5. \A n \in Nouns, r \in Pids : proc'[r] = n => proc[r] = n
  BY <1>4, NamesApart
<1>6. ProcsTypeOK' /\ Staged' /\ OnlyOursSignalled'
  BY <1>1, <1>4 DEF ProcsInv, ProcsTypeOK, Staged, OnlyOursSignalled
<1>7. OwnPid'
  BY <1>1, <1>3, <1>4 DEF ProcsInv, OwnPid, Held, Staged, Fits, Stopping, Holding
<1>8. ASSUME NEW n \in Nouns, n \notin overlap PROVE Accounted(n)'
  BY <1>1, <1>5, <1>8 DEF ProcsInv, Accounted, Alone, Grasped, Recorded, Downed, Busy
<1> QED BY <1>1, <1>6, <1>7, <1>8 DEF ProcsInv

LEMMA ProcsStepInv == ProcessesAssumption /\ ProcsInv /\ [ProcsNext]_procsVars => ProcsInv'
<1> SUFFICES ASSUME ProcessesAssumption, ProcsInv, [ProcsNext]_procsVars PROVE ProcsInv'
  OBVIOUS
<1>1. CASE UNCHANGED procsVars
  BY <1>1 DEF procsVars, ProcsInv, ProcsTypeOK, Staged, OwnPid, OnlyOursSignalled, Accounted,
              Alone, Grasped, Recorded, Downed, Busy
<1>2. ASSUME NEW c \in Clients, NEW n \in Nouns, NEW again \in BOOLEAN,
             NEW verb \in {"start", "stop"}, Begin(c, verb, n, again)
      PROVE  ProcsInv'
  BY <1>2, BeginInv
<1>3. ASSUME NEW c \in Clients, StartStep(c) PROVE ProcsInv'
  BY <1>3, StartLooksInv, SpawnInv, TrackInv, GraceInv DEF StartStep
<1>4. ASSUME NEW c \in Clients, StopStep(c) PROVE ProcsInv'
  BY <1>4, StopLooksInv, SignalInv, WaitedInv, ReapInv DEF StopStep
<1>5. ASSUME NEW c \in Clients, Interrupt(c) PROVE ProcsInv'
  BY <1>5, InterruptInv
<1>6. ASSUME NEW p \in Pids, Exit(p) \/ Reuse(p) PROVE ProcsInv'
  BY <1>6, WorldInv
<1> QED BY <1>1, <1>2, <1>3, <1>4, <1>5, <1>6 DEF ProcsNext

\* What a noun's processes are is what its pid file and its one command say.
LEMMA ProcsInvSound == ASSUME ProcessesAssumption, ProcsInv PROVE ProcessesSound
<1>1. ASSUME NEW n \in Nouns, n \notin overlap
      PROVE  /\ Cardinality(Live(n)) <= 1
             /\ Live(n) \subseteq {pidfile[n]} \cup {cmd[c].pid : c \in {d \in Clients : At(d, "start", "track")}}
             /\ n \in down => Live(n) = {}
  <2>1. Accounted(n)
    BY <1>1 DEF ProcsInv
  <2>2. n \in down => Live(n) = {}
    BY <2>1 DEF Accounted, Downed, Live
  <2>3. CASE \E c \in Clients : cmd[c].noun = n /\ cmd[c].step = "track"
    <3>1. PICK c \in Clients : cmd[c].noun = n /\ cmd[c].step = "track"
      BY <2>3
    <3>2. At(c, "start", "track") /\ Live(n) \subseteq {cmd[c].pid}
      BY <2>1, <3>1 DEF Accounted, Grasped, Live, At, ProcsInv, Staged, Fits
    <3>3. Cardinality(Live(n)) <= Cardinality({cmd[c].pid})
      BY <3>2, FS_Singleton, FS_Subset
    <3> QED BY <2>2, <3>2, <3>3, FS_Singleton
  <2>4. CASE ~\E c \in Clients : cmd[c].noun = n /\ cmd[c].step = "track"
    <3>1. Live(n) \subseteq {pidfile[n]}
      BY <2>1, <2>4 DEF Accounted, Recorded, Live
    <3>2. Cardinality(Live(n)) <= Cardinality({pidfile[n]})
      BY <3>1, FS_Singleton, FS_Subset
    <3> QED BY <2>2, <3>1, <3>2, FS_Singleton
  <2> QED BY <2>3, <2>4
<1>2. Tracked /\ StoppedMeansGone
  BY <1>1 DEF Tracked, StoppedMeansGone
<1> QED BY <1>2 DEF ProcsInv, ProcessesSound, PidFilesRight

\* However commands, deaths, interrupts and pids that come round again interleave, no
\* command signals a program of somebody else's, and of a noun whose commands came one
\* after the other there is one process at most, the one the pid file or the command
\* that has just spawned it names, and none after a stop (procsup.py, supervisor.py).
THEOREM OnePerNoun == ProcessesAssumption => (ProcsSpec => []ProcessesSound)
<1> SUFFICES ASSUME ProcessesAssumption PROVE ProcsSpec => []ProcessesSound
  OBVIOUS
<1>1. ProcsInit => ProcsInv
  BY ProcsInitInv
<1>2. ProcsInv /\ [ProcsNext]_procsVars => ProcsInv'
  BY ProcsStepInv
<1>3. ProcsInv => ProcessesSound
  BY ProcsInvSound
<1> QED BY <1>1, <1>2, <1>3, PTL DEF ProcsSpec

--------------------------------------------------------------------------------
(* Boot persistence                                                             *)

Verbs == {"purge", "write", "reload", "enable", "enable alone", "disable", "look", "restart",
          "remove", "unlink", "reload quietly"}
Calls == [verb : Verbs, units : SUBSET Units]

\* Of the calls a command has still to make: a presence it enables is the last of them,
\* or the last but the one that disables the others.
EnablesOne(T, i) == T[i].verb \in Enabling /\ T[i].units \cap Presences # {}
Followed(T, i) == Len(T) = i + 1 /\ T[i + 1] = Call("disable", Presences \ T[i].units)
Ordered(T) ==
    \A i \in 1 .. Len(T) : EnablesOne(T, i) =>
        /\ \E mode \in Presences : T[i].units = {mode}
        /\ Len(T) = i \/ Followed(T, i)
NoneEmpty(T) == \A i \in 1 .. Len(T) : T[i].verb \in Enabling => T[i].units # {}
Exclusive(T) == \A i \in 1 .. Len(T) : EnablesOne(T, i) /\ T[i].verb # "enable alone" => Followed(T, i)

\* What they take from presence u: nothing before they have enabled another one.
Harms(c, u) ==
    \/ c.verb \in {"purge", "disable", "remove", "unlink"} /\ u \in c.units
    \/ c.verb = "look"
Spares(T, u) ==
    \A i \in 1 .. Len(T) : Harms(T[i], u) =>
        i > 1 /\ i = Len(T) /\ EnablesOne(T, i - 1) /\ u \notin T[i - 1].units

ServTypeOK == todo \in [Operators -> Seq(Calls)]
OneAtATime == ~mixed => \A o, p \in Operators : todo[o] # <<>> /\ todo[p] # <<>> => o = p

\* With both presences enabled somebody is about to disable one of them, or was.
BothPending ==
    Both(enabled) /\ ~torn =>
        \E o \in Operators, mode \in Presences : todo[o] = <<Call("disable", Siblings(mode))>>

\* Some presence is enabled which no call still to be made takes away.
Secure == \E u \in Presences : u \in enabled /\ u \in files /\ \A o \in Operators : Spares(todo[o], u)

ServInv ==
    /\ ServTypeOK /\ OneAtATime /\ BothPending
    /\ \A o \in Operators :
           NoneEmpty(todo[o]) /\ Ordered(todo[o]) /\ Exclusive(todo[o])
    /\ owned /\ ~mixed => Secure

LEMMA ServInitInv ==
    ASSUME ServicesAssumption, ServInit
    PROVE  ServInv
<1>1. "demo" \notin enabled
  BY DEF ServInit, ServicesAssumption, Presences
<1> QED BY <1>1 DEF ServInit, ServInv, ServTypeOK, OneAtATime, BothPending, Both, NoneEmpty, Ordered, Exclusive,
              Presences

--------------------------------------------------------------------------------
(* The calls of a command, and what is left of them after the first            *)

LEMMA CallTyped ==
    \A verb \in Verbs : \A units : units \subseteq Units =>
        Call(verb, units) \in Calls /\ Call(verb, units).verb = verb /\ Call(verb, units).units = units
  BY DEF Call, Calls, Verbs

LEMMA EnableCalls ==
    ASSUME ServicesAssumption, NEW mode \in Presences
    PROVE  /\ Enable(mode) \in Seq(Calls) /\ NoneEmpty(Enable(mode))
           /\ Ordered(Enable(mode)) /\ Exclusive(Enable(mode))
           /\ \A u \in Presences : Spares(Enable(mode), u)
<1> PICK T : T = Enable(mode)
  OBVIOUS
<1>1. /\ Len(T) = 6
      /\ T[1] = Call("purge", Retired) /\ T[2] = Call("write", Presences \cup {Daemon})
      /\ T[3] = Call("reload", {}) /\ T[4] = Call("enable", {Daemon})
      /\ T[5] = Call("enable", {mode}) /\ T[6] = Call("disable", Siblings(mode))
  BY DEF Enable
<1>2. /\ Retired \subseteq Units /\ Presences \cup {Daemon} \subseteq Units
      /\ {Daemon} \subseteq Units /\ {mode} \subseteq Units /\ Siblings(mode) \subseteq Units
      /\ {"purge", "write", "reload", "enable", "disable"} \subseteq Verbs
  BY DEF Units, Siblings, Verbs
<1>3. /\ Call("purge", Retired) \in Calls /\ Call("write", Presences \cup {Daemon}) \in Calls
      /\ Call("reload", {}) \in Calls /\ Call("enable", {Daemon}) \in Calls
      /\ Call("enable", {mode}) \in Calls /\ Call("disable", Siblings(mode)) \in Calls
  BY <1>2, CallTyped
<1>4. Enable(mode) \in Seq(Calls)
  BY <1>3 DEF Enable
<1>5. \A i \in 1 .. 6 : i = 1 \/ i = 2 \/ i = 3 \/ i = 4 \/ i = 5 \/ i = 6
  OBVIOUS
<1>6. /\ T[1].verb = "purge" /\ T[1].units = Retired /\ T[2].verb = "write" /\ T[3].verb = "reload"
      /\ T[4].verb = "enable" /\ T[4].units = {Daemon} /\ T[5].verb = "enable" /\ T[5].units = {mode}
      /\ T[6].verb = "disable" /\ T[6].units = Siblings(mode)
  BY <1>1, <1>2, CallTyped
<1>7. ASSUME NEW i \in 1 .. 6, EnablesOne(T, i) PROVE i = 5
  BY <1>5, <1>6, <1>7 DEF EnablesOne, Enabling, Daemon, Presences
<1>8. Followed(T, 5)
  <2>1. Siblings(mode) = Presences \ T[5].units /\ T[5 + 1] = T[6] /\ 6 = 5 + 1
    BY <1>6 DEF Siblings
  <2> QED BY <1>1, <2>1 DEF Followed
<1>9. Ordered(T) /\ Exclusive(T)
  BY <1>1, <1>6, <1>7, <1>8 DEF Ordered, Exclusive
<1>10. ASSUME NEW u \in Presences, NEW i \in 1 .. 6, Harms(T[i], u) PROVE i = 6 /\ u # mode
  <2>1. u \notin Retired /\ (u \in Siblings(mode) => u # mode)
    BY DEF ServicesAssumption, Siblings
  <2> QED BY <1>5, <1>6, <1>10, <2>1 DEF Harms
<1>11. EnablesOne(T, 5)
  BY <1>6 DEF EnablesOne, Enabling
<1>12. \A u \in Presences : Spares(T, u)
  BY <1>1, <1>6, <1>10, <1>11 DEF Spares
<1>13. NoneEmpty(T)
  BY <1>1, <1>5, <1>6 DEF NoneEmpty, Enabling
<1> QED BY <1>4, <1>9, <1>12, <1>13

\* A command that enables nothing, and one that takes nothing away.
Harmless(T) == \A i \in 1 .. Len(T) : T[i].verb \notin Enabling
LEMMA OneCall ==
    ASSUME NEW c \in Calls
    PROVE  /\ <<c>> \in Seq(Calls) /\ Len(<<c>>) = 1 /\ <<c>>[1] = c
           /\ c.verb \notin Enabling => Harmless(<<c>>)
           /\ \A u : ~Harms(c, u) => Spares(<<c>>, u)
  BY DEF Harmless, Spares

LEMMA TwoCalls ==
    ASSUME NEW c \in Calls, NEW d \in Calls
    PROVE  /\ <<c, d>> \in Seq(Calls)
           /\ c.verb \notin Enabling /\ d.verb \notin Enabling => Harmless(<<c, d>>)
           /\ \A u : ~Harms(c, u) /\ ~Harms(d, u) => Spares(<<c, d>>, u)
<1>1. Len(<<c, d>>) = 2 /\ \A i \in 1 .. 2 : i = 1 \/ i = 2
  OBVIOUS
<1> QED BY <1>1 DEF Harmless, Spares

LEMMA ThreeCalls ==
    ASSUME NEW c \in Calls, NEW d \in Calls, NEW e \in Calls
    PROVE  /\ <<c, d, e>> \in Seq(Calls)
           /\ c.verb \notin Enabling /\ d.verb \notin Enabling /\ e.verb \notin Enabling => Harmless(<<c, d, e>>)
<1>1. Len(<<c, d, e>>) = 3 /\ \A i \in 1 .. 3 : i = 1 \/ i = 2 \/ i = 3
  OBVIOUS
<1> QED BY <1>1 DEF Harmless

LEMMA OtherCalls ==
    ASSUME ServicesAssumption
    PROVE  /\ \A T \in {Disable, DemoInstall, DemoRestart, DemoDisable, DemoUninstall} :
                T \in Seq(Calls) /\ NoneEmpty(T) /\ Ordered(T) /\ Exclusive(T)
           /\ DemoEnable \in Seq(Calls) /\ NoneEmpty(DemoEnable) /\ Ordered(DemoEnable)
           /\ Exclusive(DemoEnable)
           /\ \A T \in {DemoInstall, DemoEnable, DemoRestart}, u \in Presences : Spares(T, u)
<1>1. "demo" \in Presences /\ "demo" \in Units
  BY DEF Units, Presences
<1>2. Call("look", {}) \in Calls /\ Call("look", {}).verb = "look" /\ "look" \notin Enabling
  BY DEF Call, Calls, Verbs, Enabling
<1>3. \A verb \in {"enable alone", "disable", "restart", "write", "remove", "unlink"} :
        Call(verb, {"demo"}) \in Calls /\ Call(verb, {"demo"}).verb = verb
        /\ Call(verb, {"demo"}).units = {"demo"}
  BY <1>1 DEF Call, Calls, Verbs
<1>4. \A verb \in {"reload", "reload quietly"} : Call(verb, {}) \in Calls /\ Call(verb, {}).verb = verb
  BY DEF Call, Calls, Verbs
<1>5. \A u : \A verb \in {"enable alone", "restart", "write"} : ~Harms(Call(verb, {"demo"}), u)
  BY DEF Harms, Call
<1>6. \A u : ~Harms(Call("reload", {}), u)
  BY DEF Harms, Call
<1>7. \A T : Harmless(T) => NoneEmpty(T) /\ Ordered(T) /\ Exclusive(T)
  BY DEF Harmless, NoneEmpty, Ordered, Exclusive, EnablesOne
<1>8. Disable \in Seq(Calls) /\ Harmless(Disable)
  BY <1>2, OneCall DEF Disable
<1>9. DemoRestart \in Seq(Calls) /\ Harmless(DemoRestart) /\ \A u : Spares(DemoRestart, u)
  <2>1. Call("restart", {"demo"}) \in Calls /\ Call("restart", {"demo"}).verb \notin Enabling
        /\ \A u : ~Harms(Call("restart", {"demo"}), u)
    BY <1>3, <1>5 DEF Enabling
  <2> QED BY <2>1, OneCall DEF DemoRestart
<1>10. DemoDisable \in Seq(Calls) /\ Harmless(DemoDisable)
  BY <1>3, OneCall DEF DemoDisable, Enabling
<1>11. DemoInstall \in Seq(Calls) /\ Harmless(DemoInstall) /\ \A u : Spares(DemoInstall, u)
  <2>1. /\ Call("write", {"demo"}) \in Calls /\ Call("write", {"demo"}).verb \notin Enabling
        /\ Call("reload", {}) \in Calls /\ Call("reload", {}).verb \notin Enabling
        /\ \A u : ~Harms(Call("write", {"demo"}), u) /\ ~Harms(Call("reload", {}), u)
    BY <1>3, <1>4, <1>5, <1>6 DEF Enabling
  <2> QED BY <2>1, TwoCalls DEF DemoInstall
<1>12. DemoUninstall \in Seq(Calls) /\ Harmless(DemoUninstall)
  <2>1. /\ Call("remove", {"demo"}) \in Calls /\ Call("remove", {"demo"}).verb \notin Enabling
        /\ Call("unlink", {"demo"}) \in Calls /\ Call("unlink", {"demo"}).verb \notin Enabling
        /\ Call("reload quietly", {}) \in Calls /\ Call("reload quietly", {}).verb \notin Enabling
    BY <1>3, <1>4 DEF Enabling
  <2> QED BY <2>1, ThreeCalls DEF DemoUninstall
<1>13. /\ DemoEnable \in Seq(Calls) /\ \A u : Spares(DemoEnable, u)
       /\ Len(DemoEnable) = 1 /\ DemoEnable[1] = Call("enable alone", {"demo"})
  <2>1. Call("enable alone", {"demo"}) \in Calls /\ \A u : ~Harms(Call("enable alone", {"demo"}), u)
    BY <1>3, <1>5
  <2> QED BY <2>1, OneCall DEF DemoEnable
<1>14. Ordered(DemoEnable) /\ NoneEmpty(DemoEnable) /\ Exclusive(DemoEnable)
  <2>1. \A i \in 1 .. Len(DemoEnable) :
          /\ i = 1 /\ i = Len(DemoEnable)
          /\ DemoEnable[i].verb = "enable alone" /\ DemoEnable[i].units = {"demo"}
    <3>1. DemoEnable[1].verb = "enable alone" /\ DemoEnable[1].units = {"demo"}
      BY DEF DemoEnable, Call
    <3>2. \A i \in 1 .. Len(DemoEnable) : i = 1 /\ i = Len(DemoEnable)
      BY DEF DemoEnable
    <3> QED BY <3>1, <3>2
  <2> QED BY <1>1, <2>1 DEF Ordered, NoneEmpty, Exclusive
<1> QED BY <1>7, <1>8, <1>9, <1>10, <1>11, <1>12, <1>13, <1>14

LEMMA TailCalls ==
    ASSUME NEW T \in Seq(Calls), T # <<>>
    PROVE  /\ Tail(T) \in Seq(Calls)
           /\ NoneEmpty(T) => NoneEmpty(Tail(T))
           /\ Ordered(T) => Ordered(Tail(T))
           /\ Exclusive(T) => Exclusive(Tail(T))
           /\ \A u : Spares(T, u) /\ ~EnablesOne(T, 1) => Spares(Tail(T), u)
           /\ \A u : Spares(T, u) => ~Harms(T[1], u)
<1> PICK R : R = Tail(T)
  OBVIOUS
<1>1. /\ R \in Seq(Calls) /\ Len(R) = Len(T) - 1 /\ Len(T) \in Nat /\ Len(T) >= 1 /\ Len(R) \in Nat
      /\ \A i \in 1 .. Len(R) : R[i] = T[i + 1] /\ i + 1 \in 1 .. Len(T)
  OBVIOUS
<1>2. \A i \in 1 .. Len(R) : EnablesOne(R, i) <=> EnablesOne(T, i + 1)
  BY <1>1 DEF EnablesOne
<1>3. \A i \in 1 .. Len(R) : Followed(T, i + 1) => Followed(R, i)
  BY <1>1 DEF Followed
<1>4. ASSUME Ordered(T), NEW i \in 1 .. Len(R), EnablesOne(R, i)
      PROVE  (\E mode \in Presences : R[i].units = {mode}) /\ (Len(R) = i \/ Followed(R, i))
  <2>1. i + 1 \in 1 .. Len(T) /\ EnablesOne(T, i + 1) /\ R[i] = T[i + 1] /\ i \in Int
    BY <1>1, <1>2, <1>4
  <2>2. (\E mode \in Presences : T[i + 1].units = {mode}) /\ (Len(T) = i + 1 \/ Followed(T, i + 1))
    BY <1>4, <2>1 DEF Ordered
  <2>3. Len(T) = i + 1 => Len(R) = i
    BY <1>1, <2>1
  <2> QED BY <1>3, <2>1, <2>2, <2>3
<1>5. Exclusive(T) => Exclusive(R)
  BY <1>1, <1>2, <1>3 DEF Exclusive
<1>6. ASSUME NEW u, Spares(T, u), ~EnablesOne(T, 1) PROVE Spares(R, u)
  <2>1. ASSUME NEW i \in 1 .. Len(R), Harms(R[i], u)
        PROVE  i > 1 /\ i = Len(R) /\ EnablesOne(R, i - 1) /\ u \notin R[i - 1].units
    <3>1. i + 1 \in 1 .. Len(T) /\ Harms(T[i + 1], u) /\ (i + 1) - 1 = i /\ i \in Nat
      BY <1>1, <2>1
    <3>2. i + 1 = Len(T) /\ EnablesOne(T, i) /\ u \notin T[i].units
      BY <1>6, <3>1 DEF Spares
    <3>3. i # 1
      BY <1>6, <3>2
    <3>4. i > 1 /\ i = Len(R) /\ i - 1 \in 1 .. Len(R) /\ (i - 1) + 1 = i
      <4>1. i >= 1 /\ Len(R) = Len(T) - 1 /\ Len(T) \in Nat
        BY <1>1, <2>1
      <4> QED BY <3>1, <3>2, <3>3, <4>1
    <3>5. R[i - 1] = T[i] /\ EnablesOne(R, i - 1)
      BY <1>1, <1>2, <3>2, <3>4
    <3> QED BY <3>2, <3>4, <3>5
  <2> QED BY <2>1 DEF Spares
<1>7. ASSUME NEW u, Spares(T, u) PROVE ~Harms(T[1], u)
  <2>1. 1 \in 1 .. Len(T) /\ ~(1 > 1)
    BY <1>1
  <2> QED BY <1>7, <2>1 DEF Spares
<1>8. Ordered(T) => Ordered(R)
  BY <1>4 DEF Ordered
<1>9. NoneEmpty(T) => NoneEmpty(R)
  BY <1>1 DEF NoneEmpty
<1> QED BY <1>1, <1>5, <1>6, <1>7, <1>8, <1>9

--------------------------------------------------------------------------------
(* Steps                                                                        *)

\* A command typed while the operator is free, whatever its calls.
LEMMA TypeInv ==
    ASSUME ServInv, NEW o \in Operators, NEW T \in Seq(Calls), NoneEmpty(T), Ordered(T), Type(o, T),
           Exclusive(T),
           owned' => owned /\ \A u \in Presences : Spares(T, u)
    PROVE  ServInv'
<1>1. /\ todo' \in [Operators -> Seq(Calls)] /\ todo'[o] = T /\ todo[o] = <<>>
      /\ \A p \in Operators : p # o => todo'[p] = todo[p]
      /\ UNCHANGED <<files, enabled, running, torn>>
      /\ mixed' = (mixed \/ \E p \in Operators : todo[p] # <<>>)
  BY DEF Type, ServInv, ServTypeOK
<1>2. ServTypeOK' /\ OneAtATime'
  BY <1>1 DEF ServInv, ServTypeOK, OneAtATime
<1>3. BothPending'
  <2>1. \A c : \A p \in Operators : todo[p] = <<c>> => p # o
    <3>1. SUFFICES ASSUME NEW c, todo[o] = <<c>> PROVE FALSE
      OBVIOUS
    <3>2. <<c>> # <<>>
      OBVIOUS
    <3>3. todo[o] = <<>>
      BY <1>1
    <3> QED BY <3>1, <3>2, <3>3
  <2> QED BY <1>1, <2>1 DEF ServInv, BothPending
<1>4. \A p \in Operators : NoneEmpty(todo'[p]) /\ Ordered(todo'[p]) /\ Exclusive(todo'[p])
  BY <1>1 DEF ServInv
<1>5. ASSUME owned', ~mixed' PROVE Secure'
  <2>1. PICK u \in Presences : u \in enabled /\ u \in files /\ \A p \in Operators : Spares(todo[p], u)
    BY <1>1, <1>5 DEF ServInv, Secure
  <2>2. \A p \in Operators : Spares(todo'[p], u)
    BY <1>1, <1>5, <2>1
  <2> QED BY <1>1, <2>1, <2>2 DEF Secure
<1> QED BY <1>2, <1>3, <1>4, <1>5 DEF ServInv

LEMMA OperatorTypes ==
    ASSUME ServicesAssumption, ServInv, NEW o \in Operators,
           (\E mode \in Presences : TypeEnable(o, mode)) \/ TypeDisable(o) \/ TypeDemo(o)
    PROVE  ServInv'
<1>1. ASSUME NEW mode \in Presences, TypeEnable(o, mode) PROVE ServInv'
  <2> PICK T : T = Enable(mode)
    OBVIOUS
  <2>1. T \in Seq(Calls) /\ NoneEmpty(T) /\ Ordered(T) /\ Exclusive(T) /\ \A u \in Presences : Spares(T, u)
    BY EnableCalls
  <2>2. Type(o, T) /\ UNCHANGED owned
    BY <1>1 DEF TypeEnable
  <2> QED BY <2>1, <2>2, TypeInv
<1>2. CASE TypeDisable(o)
  <2> PICK T : T = Disable
    OBVIOUS
  <2>1. T \in Seq(Calls) /\ NoneEmpty(T) /\ Ordered(T) /\ Exclusive(T)
    BY OtherCalls
  <2>2. Type(o, T) /\ ~owned'
    BY <1>2 DEF TypeDisable
  <2> QED BY <2>1, <2>2, TypeInv
<1>3. ASSUME TypeDemo(o) PROVE ServInv'
  <2>1. PICK T \in {DemoInstall, DemoEnable, DemoRestart, DemoDisable, DemoUninstall} :
          /\ Type(o, T)
          /\ owned' = (owned /\ T \notin {DemoDisable, DemoUninstall})
    BY <1>3 DEF TypeDemo
  <2>2. T \in Seq(Calls) /\ NoneEmpty(T) /\ Ordered(T) /\ Exclusive(T)
    BY OtherCalls
  <2>3. owned' => owned /\ \A u \in Presences : Spares(T, u)
    BY <2>1, OtherCalls
  <2> QED BY <2>1, <2>2, <2>3, TypeInv
<1> QED BY <1>1, <1>2, <1>3

\* Of a call that works: what it takes it harms, and what it gives is what it enables.
LEMMA CallEffect ==
    ASSUME ServicesAssumption, NEW o \in Operators, Works(o)
    PROVE  /\ \A u \in Presences : u \in enabled /\ ~Harms(Turn(o), u) => u \in enabled'
           /\ \A u \in Presences : u \in files /\ ~Harms(Turn(o), u) => u \in files'
           /\ \A u : u \in enabled' /\ u \notin enabled => Turn(o).verb \in Enabling /\ u \in Turn(o).units
           /\ Turn(o).verb = "disable" => \A u \in Turn(o).units : u \notin enabled'
           /\ Turn(o).verb \in Enabling => Turn(o).units \subseteq files' /\ Turn(o).units \subseteq enabled'
<1> PICK c : c = Turn(o)
  OBVIOUS
<1>1. CASE c.verb = "purge" /\ SwitchOff(c.units) /\ files' = files \ c.units
  BY <1>1 DEF SwitchOff, Harms, Enabling
<1>2. CASE c.verb = "write" /\ files' = files \cup c.units /\ UNCHANGED <<enabled, running>>
  BY <1>2 DEF Harms, Enabling
<1>3. CASE c.verb \in {"reload", "reload quietly"} /\ UNCHANGED <<files, enabled, running>>
  BY <1>3 DEF Harms, Enabling
<1>4. CASE c.verb \in Enabling /\ c.units \subseteq files /\ SwitchOn(c.units) /\ UNCHANGED files
  BY <1>4 DEF SwitchOn, Harms, Enabling
<1>5. CASE c.verb \in {"disable", "remove"} /\ SwitchOff(c.units) /\ UNCHANGED files
  BY <1>5 DEF SwitchOff, Harms, Enabling
<1>6. CASE c.verb = "restart" /\ running' = running \cup c.units /\ UNCHANGED <<files, enabled>>
  BY <1>6 DEF Harms, Enabling
<1>7. CASE c.verb = "unlink" /\ files' = files \ c.units /\ UNCHANGED <<enabled, running>>
  BY <1>7 DEF Harms, Enabling
<1> QED BY <1>1, <1>2, <1>3, <1>4, <1>5, <1>6, <1>7 DEF Works

LEMMA WorksInv ==
    ASSUME ServicesAssumption, ServInv, NEW o \in Operators, Works(o)
    PROVE  ServInv'
<1> PICK T : T = todo[o]
  OBVIOUS
<1>1. /\ T \in Seq(Calls) /\ T # <<>> /\ Turn(o) = T[1] /\ 1 \in 1 .. Len(T) /\ Len(T) \in Nat
      /\ NoneEmpty(T) /\ Ordered(T) /\ Exclusive(T)
  <2>1. T \in Seq(Calls) /\ T # <<>> /\ NoneEmpty(T) /\ Ordered(T) /\ Exclusive(T)
    BY DEF Works, ServInv, ServTypeOK
  <2>2. Turn(o) = T[1] /\ 1 \in 1 .. Len(T) /\ Len(T) \in Nat
    BY <2>1 DEF Turn
  <2> QED BY <2>1, <2>2
<1>2. /\ todo' \in [Operators -> Seq(Calls)] /\ todo'[o] = Tail(T)
      /\ \A p \in Operators : p # o => todo'[p] = todo[p]
      /\ UNCHANGED mixed
  BY <1>1, TailCalls DEF Works, Advance, ServInv, ServTypeOK
<1>3. ServTypeOK' /\ OneAtATime'
  BY <1>1, <1>2 DEF ServInv, ServTypeOK, OneAtATime
<1>4. \A p \in Operators : NoneEmpty(todo'[p]) /\ Ordered(todo'[p]) /\ Exclusive(todo'[p])
  BY <1>1, <1>2, TailCalls DEF ServInv
\* Whoever enables a presence has nothing left to do but to disable the other.
<1>5. ASSUME EnablesOne(T, 1)
      PROVE  \E v \in Presences :
               /\ Turn(o).verb \in Enabling /\ Turn(o).units = {v}
               /\ Tail(T) = <<>> \/ Tail(T) = <<Call("disable", Siblings(v))>>
               /\ Turn(o).verb # "enable alone" => Tail(T) # <<>>
  <2>1. PICK v \in Presences : T[1].units = {v}
    BY <1>1, <1>5 DEF Ordered
  <2>2. /\ T[1].verb \in Enabling /\ (Len(T) = 1 \/ Followed(T, 1))
        /\ T[1].verb # "enable alone" => Followed(T, 1)
    BY <1>1, <1>5 DEF EnablesOne, Ordered, Exclusive
  <2>3. Len(T) = 1 => Tail(T) = <<>>
    <3>1. Tail(T) \in Seq(Calls) /\ Len(Tail(T)) = Len(T) - 1
      BY <1>1
    <3>2. \A R \in Seq(Calls) : Len(R) = 0 => R = <<>>
      BY EmptySeq
    <3>3. Len(T) = 1 => Len(Tail(T)) = 0
      BY <3>1
    <3> QED BY <3>1, <3>2, <3>3, Zenon
  <2>4. Followed(T, 1) => Tail(T) = <<Call("disable", Siblings(v))>> /\ Len(Tail(T)) = 1
    <3>1. SUFFICES ASSUME Len(T) = 2, T[2] = Call("disable", Presences \ {v})
                   PROVE  Tail(T) = <<Call("disable", Siblings(v))>> /\ Len(Tail(T)) = 1
      BY <2>1 DEF Followed
    <3>2. Len(Tail(T)) = 1 /\ Tail(T)[1] = T[2] /\ Tail(T) \in Seq(Calls)
      BY <1>1, <3>1
    <3>3. <<T[2]>> \in Seq(Calls) /\ Len(<<T[2]>>) = 1 /\ <<T[2]>>[1] = T[2]
      BY <1>1, <3>1
    <3>4. \A R, S \in Seq(Calls) : Len(R) = 1 /\ Len(S) = 1 /\ R[1] = S[1] => R = S
      BY SeqEqual
    <3>5. Tail(T) = <<T[2]>>
      BY <3>2, <3>3, <3>4
    <3> QED BY <3>1, <3>2, <3>5 DEF Siblings
  <2>5. T[1].verb # "enable alone" => Tail(T) # <<>>
    <3>1. Len(<<>>) = 0
      OBVIOUS
    <3>2. Followed(T, 1) => Tail(T) # <<>>
      BY <2>4, <3>1
    <3> QED BY <2>2, <3>2, Zenon
  <2> QED BY <1>1, <2>1, <2>2, <2>3, <2>4, <2>5
<1>6. ASSUME ~torn', Presences \subseteq enabled'
      PROVE  \E p \in Operators, mode \in Presences : todo'[p] = <<Call("disable", Siblings(mode))>>
  <2>0. ~torn /\ Turn(o).verb # "enable alone"
    BY <1>6 DEF Works, Tears, Both
  <2>1. CASE Presences \subseteq enabled
    <3>1. PICK p \in Operators, mode \in Presences : todo[p] = <<Call("disable", Siblings(mode))>>
      BY <2>0, <2>1 DEF ServInv, BothPending, Both
    <3>2. p # o
      <4>1. SUFFICES ASSUME p = o PROVE FALSE
        OBVIOUS
      <4>2. Turn(o) = Call("disable", Siblings(mode))
        BY <1>1, <3>1, <4>1
      <4>3. \E u \in Presences : u \in Siblings(mode)
        BY DEF Presences, Siblings
      <4> QED BY <1>6, <4>2, <4>3, CallEffect DEF Call
    <3> QED BY <1>2, <3>1, <3>2
  <2>2. CASE ~(Presences \subseteq enabled)
    <3>1. PICK u \in Presences : u \in enabled' /\ u \notin enabled
      BY <1>6, <2>2
    <3>2. EnablesOne(T, 1)
      BY <1>1, <3>1, CallEffect DEF EnablesOne
    <3> QED BY <1>2, <1>5, <2>0, <3>2
  <2> QED BY <2>1, <2>2
<1>7. ASSUME owned', ~mixed' PROVE Secure'
  <2>1. CASE EnablesOne(T, 1)
    <3>1. PICK v \in Presences :
            /\ Turn(o).verb \in Enabling /\ Turn(o).units = {v}
            /\ Tail(T) = <<>> \/ Tail(T) = <<Call("disable", Siblings(v))>>
      BY <1>5, <2>1
    <3>2. v \in files' /\ v \in enabled'
      BY <3>1, CallEffect
    <3>3. Spares(<<>>, v)
      BY DEF Spares
    <3>4. Spares(<<Call("disable", Siblings(v))>>, v)
      <4>1. ~Harms(Call("disable", Siblings(v)), v)
        BY DEF Harms, Call, Siblings
      <4> QED BY <4>1 DEF Spares
    <3>5. \A p \in Operators : Spares(todo'[p], v)
      BY <1>1, <1>2, <1>7, <3>1, <3>3, <3>4 DEF ServInv, OneAtATime
    <3> QED BY <3>2, <3>5 DEF Secure
  <2>2. CASE ~EnablesOne(T, 1)
    <3>1. Turn(o).verb \in Enabling => ~(Turn(o).units \subseteq Presences)
      BY <1>1, <2>2 DEF EnablesOne, NoneEmpty
    <3>2. owned
      BY <1>7, <3>1 DEF Works
    <3>3. PICK u \in Presences : u \in enabled /\ u \in files /\ \A p \in Operators : Spares(todo[p], u)
      BY <1>2, <1>7, <3>2 DEF ServInv, Secure
    <3>4. ~Harms(Turn(o), u) /\ Spares(todo'[o], u)
      BY <1>1, <1>2, <2>2, <3>3, TailCalls
    <3>5. u \in enabled' /\ u \in files' /\ \A p \in Operators : Spares(todo'[p], u)
      BY <1>2, <3>3, <3>4, CallEffect
    <3> QED BY <3>5 DEF Secure
  <2> QED BY <2>1, <2>2
<1> QED BY <1>3, <1>4, <1>6, <1>7 DEF ServInv, BothPending, Both

\* What is left of a command that was cut short, of which a best-effort call failed, or
\* that has found what it is to disable.
LEMMA CutShort ==
    ASSUME ServInv, todo' \in [Operators -> Seq(Calls)],
           UNCHANGED <<files, enabled, owned, mixed>>,
           \A o \in Operators : todo'[o] # <<>> => todo[o] # <<>>,
           \A o \in Operators :
              /\ NoneEmpty(todo'[o]) /\ Ordered(todo'[o]) /\ Exclusive(todo'[o])
              /\ \A u : Spares(todo[o], u) => Spares(todo'[o], u),
           Both(enabled) /\ ~torn' =>
              ~torn /\ \A o \in Operators : Parting(o) => todo'[o] = todo[o]
    PROVE  ServInv'
<1>1. ServTypeOK' /\ OneAtATime'
  BY DEF ServInv, ServTypeOK, OneAtATime
<1>2. BothPending'
  <2>1. SUFFICES ASSUME Both(enabled), ~torn' PROVE BothPending'
    BY DEF BothPending, Both
  <2>2. PICK o \in Operators, mode \in Presences : todo[o] = <<Call("disable", Siblings(mode))>>
    BY <2>1 DEF ServInv, BothPending
  <2>3. Parting(o)
    BY <2>2 DEF Turn, Call, Parting
  <2>4. todo'[o] = <<Call("disable", Siblings(mode))>>
    BY <2>1, <2>2, <2>3
  <2> QED BY <2>4 DEF BothPending
<1>3. owned' /\ ~mixed' => Secure'
  BY DEF ServInv, Secure
<1> QED BY <1>1, <1>2, <1>3 DEF ServInv

LEMMA NothingLeft ==
    NoneEmpty(<<>>) /\ Ordered(<<>>) /\ Exclusive(<<>>) /\ \A u : Spares(<<>>, u)
  BY DEF NoneEmpty, Ordered, Exclusive, Spares

LEMMA LooksInv ==
    ASSUME ServicesAssumption, ServInv, NEW o \in Operators, Looks(o)
    PROVE  ServInv'
<1> PICK T : T = todo[o]
  OBVIOUS
<1>1. T \in Seq(Calls) /\ T # <<>> /\ T[1].verb = "look" /\ Turn(o) = T[1]
  BY DEF Looks, ServInv, ServTypeOK, Turn
<1>2. \A u : ~Spares(T, u)
  BY <1>1, TailCalls DEF Harms
<1>3. FirstEnabled \subseteq Units
  <2>1. \A u \in Retired : {u} \subseteq Units
    BY DEF Units
  <2>2. Retired \cap enabled # {} => (CHOOSE u \in Retired : u \in enabled) \in Retired
    OBVIOUS
  <2>3. {"demo"} \subseteq Units /\ {"runtime"} \subseteq Units /\ {} \subseteq Units
    BY DEF Units, Presences
  <2> QED BY <2>1, <2>2, <2>3 DEF FirstEnabled
<1> PICK c : c = Call("disable", FirstEnabled)
  OBVIOUS
<1>4. c \in Calls /\ c.verb \notin Enabling
  BY <1>3 DEF Call, Calls, Verbs, Enabling
<1>5. <<c>> \in Seq(Calls) /\ NoneEmpty(<<c>>) /\ Ordered(<<c>>) /\ Exclusive(<<c>>)
  <2>1. <<c>> \in Seq(Calls) /\ Harmless(<<c>>)
    BY <1>4, OneCall
  <2> QED BY <2>1 DEF Harmless, NoneEmpty, Ordered, Exclusive, EnablesOne
<1>6. todo'[o] = <<>> \/ todo'[o] = <<c>>
  BY DEF Looks, ServInv, ServTypeOK
<1>7. /\ todo' \in [Operators -> Seq(Calls)]
      /\ \A p \in Operators : p # o => todo'[p] = todo[p]
      /\ UNCHANGED <<files, enabled, owned, mixed, torn>>
  <2>1. <<>> \in Seq(Calls)
    OBVIOUS
  <2> QED BY <1>5, <2>1 DEF Looks, ServInv, ServTypeOK
<1>8. \A p \in Operators :
        /\ NoneEmpty(todo'[p]) /\ Ordered(todo'[p]) /\ Exclusive(todo'[p])
        /\ \A u : Spares(todo[p], u) => Spares(todo'[p], u)
  BY <1>2, <1>5, <1>6, <1>7, NothingLeft DEF ServInv
<1>9. ~Parting(o)
  BY <1>1 DEF Parting
<1>10. \A p \in Operators : (todo'[p] # <<>> => todo[p] # <<>>) /\ (Parting(p) => todo'[p] = todo[p])
  BY <1>1, <1>7, <1>9
<1> QED BY <1>7, <1>8, <1>10, CutShort

LEMMA FailsInv ==
    ASSUME ServInv, NEW o \in Operators, Fails(o)
    PROVE  ServInv'
<1> PICK T : T = todo[o]
  OBVIOUS
<1>1. T \in Seq(Calls) /\ T # <<>> /\ NoneEmpty(T) /\ Ordered(T) /\ Exclusive(T)
  BY DEF Fails, ServInv, ServTypeOK
<1>2. Turn(o) = T[1]
  BY <1>1 DEF Turn
<1>3. UNCHANGED <<files, enabled, owned, mixed>> /\ torn' = (Both(enabled) /\ (torn \/ Parting(o)))
  BY DEF Fails, Tears, Both
<1>5. /\ todo' \in [Operators -> Seq(Calls)]
      /\ \A p \in Operators : p # o => todo'[p] = todo[p]
      /\ todo'[o] = <<>> \/ (todo'[o] = Tail(T) /\ Turn(o).verb \in BestEffort)
  <2>1. Tail(T) \in Seq(Calls) /\ <<>> \in Seq(Calls)
    BY <1>1
  <2> QED BY <2>1 DEF Fails, Advance, ServInv, ServTypeOK
<1>6. Turn(o).verb \in BestEffort => ~EnablesOne(T, 1)
  BY <1>2 DEF BestEffort, Enabling, EnablesOne
<1>7. /\ NoneEmpty(todo'[o]) /\ Ordered(todo'[o]) /\ Exclusive(todo'[o])
      /\ \A u : Spares(T, u) => Spares(todo'[o], u)
  BY <1>1, <1>5, <1>6, TailCalls, NothingLeft
<1>8. \A p \in Operators :
        /\ NoneEmpty(todo'[p]) /\ Ordered(todo'[p]) /\ Exclusive(todo'[p])
        /\ \A u : Spares(todo[p], u) => Spares(todo'[p], u)
  BY <1>5, <1>7 DEF ServInv
<1>9. \A p \in Operators : todo'[p] # <<>> => todo[p] # <<>>
  BY <1>1, <1>5
<1>10. Both(enabled) /\ ~torn' => ~torn /\ ~Parting(o)
  BY <1>3
<1>11. Both(enabled) /\ ~torn' => ~torn /\ \A p \in Operators : Parting(p) => todo'[p] = todo[p]
  BY <1>5, <1>10
<1> QED BY <1>3, <1>5, <1>8, <1>9, <1>11, CutShort

LEMMA RebootInv ==
    ASSUME ServInv, Reboot
    PROVE  ServInv'
<1>1. /\ todo' = [o \in Operators |-> <<>>] /\ UNCHANGED <<files, enabled, owned, mixed>>
      /\ torn' = (Both(enabled) /\ (torn \/ \E o \in Operators : Parting(o)))
  BY DEF Reboot, Tears, Both
<1>2. todo' \in [Operators -> Seq(Calls)] /\ \A o \in Operators : todo'[o] = <<>>
  BY <1>1
<1>3. Both(enabled) /\ ~torn' => ~torn /\ \A o \in Operators : ~Parting(o)
  BY <1>1
<1> QED BY <1>1, <1>2, <1>3, NothingLeft, CutShort

LEMMA ServInvSound == ASSUME ServInv PROVE PresenceSound
<1>1. AtMostOneOwner
  <2>1. SUFFICES ASSUME Quiet, ~torn, Both(enabled) PROVE FALSE
    BY DEF AtMostOneOwner
  <2>2. PICK o \in Operators, mode \in Presences : todo[o] = <<Call("disable", Siblings(mode))>>
    BY <2>1 DEF ServInv, BothPending
  <2>3. <<Call("disable", Siblings(mode))>> # <<>>
    OBVIOUS
  <2> QED BY <2>1, <2>2, <2>3 DEF Quiet
<1>2. NeverBare
  BY DEF ServInv, Secure, NeverBare
<1> QED BY <1>1, <1>2 DEF PresenceSound

\* Whatever enables, disables and demo-mode commands interleave, and whichever call of
\* theirs fails or is cut off by a reboot: once they are over, two presences are enabled
\* only if the call that was to part them was lost, or demo-mode's own enable, which makes
\* none, came last; and while commands come one after the other, from the first presence
\* enabled until a disable is typed there is one to boot into (service/manager.py,
\* demo_service.py).
THEOREM OnePresence == ServicesAssumption => (ServSpec => []PresenceSound)
<1> SUFFICES ASSUME ServicesAssumption PROVE ServSpec => []PresenceSound
  OBVIOUS
<1>1. ServInit => ServInv
  BY ServInitInv
<1>2. ServInv /\ [ServNext]_servVars => ServInv'
  <2> SUFFICES ASSUME ServInv, [ServNext]_servVars PROVE ServInv'
    OBVIOUS
  <2>1. CASE UNCHANGED servVars
    BY <2>1 DEF servVars, ServInv, ServTypeOK, OneAtATime, BothPending, Secure
  <2>2. CASE Reboot
    BY <2>2, RebootInv
  <2>3. ASSUME NEW o \in Operators,
               (\E mode \in Presences : TypeEnable(o, mode)) \/ TypeDisable(o) \/ TypeDemo(o)
        PROVE  ServInv'
    BY <2>3, OperatorTypes
  <2>4. ASSUME NEW o \in Operators, Looks(o) \/ Works(o) \/ Fails(o) PROVE ServInv'
    BY <2>4, LooksInv, WorksInv, FailsInv
  <2> QED BY <2>1, <2>2, <2>3, <2>4 DEF ServNext
<1>3. ServInv => PresenceSound
  BY ServInvSound
<1> QED BY <1>1, <1>2, <1>3, PTL DEF ServSpec

--------------------------------------------------------------------------------
(* The robots of a network                                                      *)

Sighting == Robots \X Hosts
Entry == [ip : Hosts, mac : BOOLEAN]
Registry == UNION {[known -> Entry] : known \in SUBSET Robots}

Order ==
    [op : {None, "resolve", "find", "forget"},
     at : {"new", "fast", "sweep", "known", "load", "save", "drop", "dropping", "over"}, unit : Robots \cup {None}, record : Registry \cup {<<>>},
     copy : Registry \cup {<<>>}, todo : SUBSET Hosts, found : SUBSET Sighting,
     seen : SUBSET Sighting, left : SUBSET Robots, saving : Robots \cup {None},
     result : Sighting \cup {<<>>}]

\* Whatever a registry, read or written, says of a robot was once true.
Attested(known) == \A u \in DOMAIN known : <<u, known[u].ip>> \in answered

UnitsOK ==
    /\ lan \in [Hosts -> Robots \cup {None}]
    /\ registry \in Registry /\ run \in [Commands -> Order]
    /\ answered \subseteq Sighting /\ kept \subseteq Robots /\ overtaken \in BOOLEAN

\* What a command has to go by, at each place it can be.
Sound(k) ==
    /\ k.at = "new" => k = Fresh
    /\ k.found \subseteq answered
    /\ k.op = "resolve" => k.found \subseteq k.seen
    /\ k.at \in {"known", "load", "save"} => \A u \in k.left : \E p \in k.found : p[1] = u
    /\ k.at = "save" => \E p \in k.found : p[1] = k.saving
    /\ k.at \in {"known", "load", "save"} /\ k.op = "resolve" /\ k.unit # None =>
         \A p \in k.found : p[1] = k.unit
    /\ k.at = "fast" => k.unit \in DOMAIN k.record /\ k.unit \in Robots /\ k.record \in Registry
    /\ k.at \in {"save", "dropping"} => k.copy \in Registry /\ Attested(k.copy)
    /\ k.at = "over" /\ k.op = "resolve" /\ k.result # <<>> =>
         k.result \in k.seen /\ (k.unit # None => k.result[1] = k.unit)

UnitsInv ==
    /\ UnitsOK
    /\ \A c \in Commands : Sound(run[c])
    /\ Attested(registry)
    /\ ~overtaken => DOMAIN registry = kept

LEMMA FreshSound == Fresh \in Order /\ Sound(Fresh)
<1>1. Fresh \in Order
  BY DEF Fresh, Order
<1>2. Fresh.found = {} /\ Fresh.at = "new"
  BY DEF Fresh
<1> QED BY <1>1, <1>2 DEF Sound, Fresh

\* A step of one command, which may hear an answer and may write the registry.
LEMMA WritingCommand ==
    ASSUME UnitsInv, NEW c \in Commands, NEW new \in Order, Set(c, new), Sound(new)',
           answered \subseteq answered', UnitsOK' \/ run' \notin [Commands -> Order],
           Attested(registry)', ~overtaken' => DOMAIN registry' = kept'
    PROVE  UnitsInv'
<1>1. run' \in [Commands -> Order] /\ run'[c] = new /\ \A d \in Commands \ {c} : run'[d] = run[d]
  BY DEF UnitsInv, UnitsOK, Set
<1> QED BY <1>1 DEF UnitsInv, UnitsOK, Sound, Attested

LEMMA OneCommand ==
    ASSUME UnitsInv, NEW c \in Commands, NEW new \in Order, Set(c, new),
           UNCHANGED <<lan, registry, kept, overtaken>>,
           answered \subseteq answered', answered' \subseteq Sighting, Sound(new)'
    PROVE  UnitsInv'
<1>1. UnitsOK' \/ run' \notin [Commands -> Order]
  BY DEF UnitsInv, UnitsOK
<1>2. Attested(registry)' /\ (~overtaken' => DOMAIN registry' = kept')
  BY DEF UnitsInv, Attested
<1> QED BY <1>1, <1>2, WritingCommand

LEMMA OrderFields ==
    ASSUME UnitsInv, NEW c \in Commands
    PROVE  run[c] \in Order /\ Sound(run[c])
  BY DEF UnitsInv, UnitsOK

\* A part of a registry is one.
LEMMA PartOfRegistry ==
    ASSUME NEW r \in Registry, NEW D \in SUBSET DOMAIN r
    PROVE  Restrict(r, D) \in Registry /\ DOMAIN Restrict(r, D) = D
           /\ \A u \in D : Restrict(r, D)[u] = r[u]
<1>1. PICK known \in SUBSET Robots : r \in [known -> Entry]
  BY DEF Registry
<1>2. D \in SUBSET Robots /\ Restrict(r, D) \in [D -> Entry]
  BY <1>1 DEF Restrict
<1>3. Restrict(r, D) \in Registry
  BY <1>2 DEF Registry
<1> QED BY <1>3 DEF Restrict

\* A command that is over, with or without an address.
LEMMA EndsFields ==
    ASSUME UnitsInv, NEW c \in Commands, NEW res \in Sighting \cup {<<>>}, Ends(c, res)
    PROVE  \E new \in Order :
             /\ Set(c, new) /\ new.op = run[c].op /\ new.unit = run[c].unit /\ new.at = "over"
             /\ new.result = res /\ new.found = {} /\ (res # <<>> => new.seen = run[c].seen)
<1>1. PICK seen : seen = IF res = <<>> THEN {} ELSE run[c].seen
  OBVIOUS
<1>2. PICK new : new = [Fresh EXCEPT !.op = run[c].op, !.unit = run[c].unit, !.at = "over",
                          !.result = res, !.seen = seen]
  OBVIOUS
<1>3. seen \in SUBSET Sighting /\ run[c].op \in {None, "resolve", "find", "forget"}
      /\ run[c].unit \in Robots \cup {None}
  BY <1>1, OrderFields DEF Order
<1>4. /\ new \in Order /\ new.op = run[c].op /\ new.unit = run[c].unit /\ new.at = "over"
      /\ new.result = res /\ new.found = {} /\ new.seen = seen
  BY <1>2, <1>3, FreshSound DEF Order, Fresh
<1>5. Set(c, new)
  BY <1>1, <1>2 DEF Ends
<1> QED BY <1>1, <1>4, <1>5

LEMMA EndsInv ==
    ASSUME UnitsInv, NEW c \in Commands, Ends(c, <<>>),
           UNCHANGED <<lan, registry, kept, overtaken, answered>>
    PROVE  UnitsInv'
<1>1. PICK new \in Order : Set(c, new) /\ new.at = "over" /\ new.result = <<>> /\ new.found = {}
  BY EndsFields
<1>2. Sound(new)'
  BY <1>1 DEF Sound
<1>3. answered \subseteq answered' /\ answered' \subseteq Sighting
  BY DEF UnitsInv, UnitsOK
<1> QED BY <1>1, <1>2, <1>3, OneCommand

LEMMA ResolveInv ==
    ASSUME UnitsInv, NEW c \in Commands, Resolve(c)
    PROVE  UnitsInv'
<1>1. UNCHANGED <<lan, registry, kept, overtaken, answered>> /\ run[c] = Fresh
  BY OrderFields DEF Resolve, Sound
<1>2. CASE Ends(c, <<>>)
  BY <1>1, <1>2, EndsInv
<1>3. ASSUME NEW u \in Robots \cup {None}, NEW at \in {"fast", "sweep"},
             at = "fast" => u \in DOMAIN registry,
             Set(c, [run[c] EXCEPT !.op = "resolve", !.at = at, !.unit = u,
                       !.record = Restrict(registry, {u} \cap DOMAIN registry),
                       !.todo = IF at = "sweep" THEN Hosts ELSE {}])
      PROVE  UnitsInv'
  <2>1. PICK record : record = Restrict(registry, {u} \cap DOMAIN registry)
    OBVIOUS
  <2>2. PICK hosts \in SUBSET Hosts : hosts = IF at = "sweep" THEN Hosts ELSE {}
    OBVIOUS
  <2>3. record \in Registry /\ DOMAIN record = {u} \cap DOMAIN registry
    BY <2>1, PartOfRegistry DEF UnitsInv, UnitsOK
  <2>4. DOMAIN registry \subseteq Robots
    BY DEF UnitsInv, UnitsOK, Registry
  <2>5. PICK new : new = [Fresh EXCEPT !.op = "resolve", !.at = at, !.unit = u, !.record = record,
                            !.todo = hosts]
    OBVIOUS
  <2>6. /\ new \in Order /\ new.op = "resolve" /\ new.at = at /\ new.unit = u /\ new.record = record
        /\ new.found = {}
    BY <2>3, <2>5, FreshSound DEF Order, Fresh
  <2>7. Sound(new)'
    BY <1>3, <2>3, <2>4, <2>6 DEF Sound
  <2>8. Set(c, new)
    BY <1>1, <1>3, <2>1, <2>2, <2>5
  <2>9. answered \subseteq answered' /\ answered' \subseteq Sighting
    BY <1>1 DEF UnitsInv, UnitsOK
  <2> QED BY <1>1, <2>6, <2>7, <2>8, <2>9, OneCommand
<1>4. None \in Robots \cup {None} /\ (DOMAIN registry) \subseteq Robots
  BY DEF UnitsInv, UnitsOK, Registry
<1>5. CASE ~Ends(c, <<>>)
  <2>1. PICK u \in Robots \cup {None}, at \in {"fast", "sweep"} :
          /\ at = "fast" => u \in DOMAIN registry
          /\ Set(c, [run[c] EXCEPT !.op = "resolve", !.at = at, !.unit = u,
                       !.record = Restrict(registry, {u} \cap DOMAIN registry),
                       !.todo = IF at = "sweep" THEN Hosts ELSE {}])
    BY <1>4, <1>5, Zenon DEF Resolve
  <2> QED BY <2>1, <1>3
<1> QED BY <1>2, <1>5

\* What may be heard at an address is a sighting there.
LEMMA HeardThere ==
    ASSUME UnitsInv, NEW h \in Hosts, NEW u \in Heard(h), NEW pair,
           pair = IF u = None THEN {} ELSE {<<u, h>>}
    PROVE  pair \subseteq Sighting /\ (u # None => <<u, h>> \in pair)
  BY DEF UnitsInv, UnitsOK, Heard, Sighting

LEMMA FastPathInv ==
    ASSUME DiscoveryAssumption, UnitsInv, NEW c \in Commands, FastPath(c)
    PROVE  UnitsInv'
<1>1. run[c].at = "fast" /\ run[c] \in Order /\ Sound(run[c])
  BY OrderFields DEF FastPath
<1>2. run[c].unit \in Robots /\ run[c].unit # None /\ run[c].record[run[c].unit].ip \in Hosts
  BY <1>1 DEF Sound, Registry, Entry, DiscoveryAssumption, None
<1>3. PICK ip \in Hosts : ip = run[c].record[run[c].unit].ip
  BY <1>2
<1>4. PICK u, pair :
        /\ u \in Heard(ip) /\ pair = (IF u = None THEN {} ELSE {<<u, ip>>})
        /\ answered' = answered \cup pair
        /\ IF Same(c, u)
           THEN Set(c, [run[c] EXCEPT !.at = "load", !.seen = pair, !.left = {run[c].unit},
                         !.found = {<<run[c].unit, ip>>}])
           ELSE Set(c, [run[c] EXCEPT !.at = "sweep", !.todo = Hosts])
  BY <1>3 DEF FastPath
<1>5. UNCHANGED <<lan, registry, kept, overtaken>>
  BY DEF FastPath
<1>6. pair \subseteq Sighting /\ (u # None => <<u, ip>> \in pair)
  BY <1>4, HeardThere
<1>7. answered \subseteq answered' /\ answered' \subseteq Sighting
  BY <1>4, <1>6 DEF UnitsInv, UnitsOK
<1>8. CASE Same(c, u)
  <2>1. PICK new : new = [run[c] EXCEPT !.at = "load", !.seen = pair, !.left = {run[c].unit},
                            !.found = {<<run[c].unit, ip>>}]
    OBVIOUS
  <2>2. <<run[c].unit, ip>> \in pair /\ <<run[c].unit, ip>> \in Sighting
    BY <1>2, <1>6, <1>8 DEF Same, Sighting
  <2>3. /\ new \in Order /\ new.at = "load" /\ new.seen = pair /\ new.left = {run[c].unit}
        /\ new.found = {<<run[c].unit, ip>>} /\ new.unit = run[c].unit
    BY <1>1, <1>2, <1>6, <2>1, <2>2 DEF Order
  <2>4. Sound(new)'
    BY <1>4, <2>2, <2>3 DEF Sound
  <2> QED BY <1>4, <1>5, <1>7, <1>8, <2>1, <2>3, <2>4, OneCommand
<1>9. CASE ~Same(c, u)
  <2>1. PICK new : new = [run[c] EXCEPT !.at = "sweep", !.todo = Hosts]
    OBVIOUS
  <2>2. /\ new \in Order /\ new.at = "sweep" /\ new.found = run[c].found /\ new.seen = run[c].seen
        /\ new.op = run[c].op
    BY <1>1, <2>1 DEF Order
  <2>3. Sound(new)'
    BY <1>1, <1>7, <2>2 DEF Sound
  <2> QED BY <1>4, <1>5, <1>7, <1>9, <2>1, <2>2, <2>3, OneCommand
<1> QED BY <1>8, <1>9

LEMMA ProbeOneInv ==
    ASSUME UnitsInv, NEW c \in Commands, ProbeOne(c)
    PROVE  UnitsInv'
<1>1. run[c].at = "sweep" /\ run[c] \in Order /\ Sound(run[c])
  BY OrderFields DEF ProbeOne
<1>a. PICK h \in run[c].todo : \E u \in Heard(h) :
         LET pair == IF u = None THEN {} ELSE {<<u, h>>} IN
         /\ answered' = answered \cup pair
         /\ Set(c, [run[c] EXCEPT !.todo = @ \ {h}, !.found = @ \cup pair, !.seen = @ \cup pair])
  BY DEF ProbeOne
<1>2. PICK u, pair :
        /\ u \in Heard(h) /\ pair = (IF u = None THEN {} ELSE {<<u, h>>})
        /\ answered' = answered \cup pair
        /\ Set(c, [run[c] EXCEPT !.todo = @ \ {h}, !.found = @ \cup pair, !.seen = @ \cup pair])
  BY <1>a
<1>3. UNCHANGED <<lan, registry, kept, overtaken>> /\ h \in Hosts
  BY <1>1 DEF ProbeOne, Order
<1>4. pair \subseteq Sighting
  BY <1>2, <1>3, HeardThere
<1>5. answered \subseteq answered' /\ answered' \subseteq Sighting
  BY <1>2, <1>4 DEF UnitsInv, UnitsOK
<1>6. PICK new : new = [run[c] EXCEPT !.todo = @ \ {h}, !.found = @ \cup pair, !.seen = @ \cup pair]
  OBVIOUS
<1>7. /\ new \in Order /\ new.at = "sweep" /\ new.found = run[c].found \cup pair
      /\ new.seen = run[c].seen \cup pair /\ new.op = run[c].op
  BY <1>1, <1>4, <1>6 DEF Order
<1>8. Sound(new)'
  BY <1>1, <1>2, <1>7 DEF Sound
<1> QED BY <1>2, <1>3, <1>5, <1>6, <1>7, <1>8, OneCommand

LEMMA SweptInv ==
    ASSUME UnitsInv, NEW c \in Commands, Swept(c)
    PROVE  UnitsInv'
<1>1. run[c].at = "sweep" /\ run[c] \in Order /\ Sound(run[c])
  BY OrderFields DEF Swept
<1>2. UNCHANGED <<lan, registry, kept, overtaken, answered>>
  BY DEF Swept
<1>3. PICK wanted : wanted = (IF run[c].unit = None THEN Deduped(run[c].found)
                              ELSE {p \in Deduped(run[c].found) : p[1] = run[c].unit})
  OBVIOUS
<1>4. wanted \subseteq run[c].found /\ (run[c].unit # None => \A p \in wanted : p[1] = run[c].unit)
  BY <1>3 DEF Deduped
<1>5. CASE Ends(c, <<>>)
  BY <1>2, <1>5, EndsInv
<1>6. CASE ~Ends(c, <<>>)
  <2>1. PICK at \in {"known", "load"} :
          Set(c, [run[c] EXCEPT !.at = at, !.found = wanted, !.todo = {}, !.left = {p[1] : p \in wanted}])
    BY <1>3, <1>6 DEF Swept
  <2>2. PICK new, names : /\ names = {p[1] : p \in wanted}
                          /\ new = [run[c] EXCEPT !.at = at, !.found = wanted, !.todo = {}, !.left = names]
    OBVIOUS
  <2>3. names \subseteq Robots /\ wanted \subseteq Sighting
    BY <1>1, <1>4, <2>2 DEF Order, Sighting
  <2>4. /\ new \in Order /\ new.at = at /\ new.found = wanted /\ new.left = names
        /\ new.seen = run[c].seen /\ new.op = run[c].op /\ new.unit = run[c].unit
    BY <1>1, <2>2, <2>3 DEF Order
  <2>5. Sound(new)'
    BY <1>1, <1>2, <1>4, <2>2, <2>4 DEF Sound
  <2>6. answered \subseteq answered' /\ answered' \subseteq Sighting
    BY <1>2 DEF UnitsInv, UnitsOK
  <2> QED BY <1>2, <2>1, <2>2, <2>4, <2>5, <2>6, OneCommand
<1> QED BY <1>5, <1>6

\* The steps of a command that neither hear an answer nor write the registry.
LEMMA QuietInv ==
    ASSUME UnitsInv, NEW c \in Commands, Find(c) \/ Known(c) \/ Load(c) \/ Forget(c) \/ DropLoad(c)
    PROVE  UnitsInv'
<1>1. run[c] \in Order /\ Sound(run[c]) /\ registry \in Registry /\ Attested(registry)
      /\ DOMAIN registry \subseteq Robots
  BY OrderFields DEF UnitsInv, UnitsOK, Registry
<1>2. UNCHANGED <<lan, registry, kept, overtaken, answered>>
  BY DEF Find, Known, Load, Forget, DropLoad
<1>3. answered \subseteq answered' /\ answered' \subseteq Sighting
  BY <1>2 DEF UnitsInv, UnitsOK
<1>4. CASE Find(c)
  <2>1. PICK new : new = [run[c] EXCEPT !.op = "find", !.at = "sweep", !.todo = Hosts]
    OBVIOUS
  <2>2. run[c].found = {} /\ Set(c, new)
    BY <1>1, <1>4, <2>1 DEF Find, Sound, Fresh
  <2>3. new \in Order /\ new.op = "find" /\ new.at = "sweep" /\ new.found = run[c].found
    BY <1>1, <2>1 DEF Order
  <2>4. Sound(new)'
    BY <2>2, <2>3 DEF Sound
  <2> QED BY <1>2, <1>3, <2>2, <2>3, <2>4, OneCommand
<1>5. CASE Known(c)
  <2>1. PICK new : new = [run[c] EXCEPT !.at = "load", !.record = registry]
    OBVIOUS
  <2>2. run[c].at = "known" /\ Set(c, new)
    BY <1>5, <2>1 DEF Known
  <2>3. /\ new \in Order /\ new.op = run[c].op /\ new.at = "load" /\ new.found = run[c].found
        /\ new.seen = run[c].seen /\ new.left = run[c].left /\ new.unit = run[c].unit
    BY <1>1, <2>1 DEF Order
  <2>4. Sound(new)'
    BY <1>1, <1>2, <2>2, <2>3 DEF Sound
  <2> QED BY <1>2, <1>3, <2>2, <2>3, <2>4, OneCommand
<1>6. CASE Load(c)
  <2>1. PICK u \in run[c].left : Set(c, [run[c] EXCEPT !.at = "save", !.copy = registry,
                                           !.left = @ \ {u}, !.saving = u])
    BY <1>6 DEF Load
  <2>2. PICK new : new = [run[c] EXCEPT !.at = "save", !.copy = registry, !.left = @ \ {u}, !.saving = u]
    OBVIOUS
  <2>3. run[c].at = "load"
    BY <1>6 DEF Load
  <2>4. /\ new \in Order /\ new.op = run[c].op /\ new.at = "save" /\ new.found = run[c].found
        /\ new.seen = run[c].seen /\ new.left = run[c].left \ {u} /\ new.unit = run[c].unit
        /\ new.copy = registry /\ new.saving = u
    BY <1>1, <2>2 DEF Order
  <2>5. Sound(new)'
    BY <1>1, <1>2, <2>3, <2>4 DEF Sound, Attested
  <2> QED BY <1>2, <1>3, <2>1, <2>2, <2>4, <2>5, OneCommand
<1>7. CASE Forget(c)
  <2>1. PICK us : Set(c, [run[c] EXCEPT !.op = "forget", !.at = "drop", !.left = us])
                  /\ us \in {{u} : u \in DOMAIN registry} \cup {DOMAIN registry}
    BY <1>7 DEF Forget
  <2>2. PICK new : new = [run[c] EXCEPT !.op = "forget", !.at = "drop", !.left = us]
    OBVIOUS
  <2>3. run[c].found = {} /\ us \subseteq Robots
    <3>1. run[c] = Fresh
      BY <1>1, <1>7 DEF Forget, Sound
    <3>2. us \subseteq Robots
      BY <1>1, <2>1
    <3> QED BY <3>1, <3>2 DEF Fresh
  <2>4. new \in Order /\ new.op = "forget" /\ new.at = "drop" /\ new.found = run[c].found
    BY <1>1, <2>2, <2>3 DEF Order
  <2>5. Sound(new)'
    BY <2>3, <2>4 DEF Sound
  <2> QED BY <1>2, <1>3, <2>1, <2>2, <2>4, <2>5, OneCommand
<1>8. CASE DropLoad(c) /\ ~Ends(c, <<>>)
  <2>1. PICK u \in run[c].left, at \in {"dropping", "drop"} :
          Set(c, [run[c] EXCEPT !.left = @ \ {u}, !.copy = registry, !.saving = u, !.at = at])
    BY <1>8 DEF DropLoad
  <2>2. PICK new : new = [run[c] EXCEPT !.left = @ \ {u}, !.copy = registry, !.saving = u, !.at = at]
    OBVIOUS
  <2>3. /\ new \in Order /\ new.op = run[c].op /\ new.at = at /\ new.found = run[c].found
        /\ new.seen = run[c].seen /\ new.copy = registry
    BY <1>1, <2>2 DEF Order
  <2>4. Sound(new)'
    BY <1>1, <1>2, <2>3 DEF Sound, Attested
  <2> QED BY <1>2, <1>3, <2>1, <2>2, <2>3, <2>4, OneCommand
<1>9. CASE Ends(c, <<>>)
  BY <1>2, <1>9, EndsInv
<1> QED BY <1>4, <1>5, <1>6, <1>7, <1>8, <1>9

LEMMA SaveInv ==
    ASSUME UnitsInv, NEW c \in Commands, Save(c)
    PROVE  UnitsInv'
<1>1. run[c].at = "save" /\ run[c] \in Order /\ Sound(run[c])
  BY OrderFields DEF Save
<1>2. PICK u, copy, p : /\ u = run[c].saving /\ copy = run[c].copy
                        /\ p = (CHOOSE q \in run[c].found : q[1] = u)
  OBVIOUS
<1>3. p \in run[c].found /\ p[1] = u
  BY <1>1, <1>2 DEF Sound
<1>4. p \in Sighting /\ p \in answered /\ p = <<u, p[2]>> /\ u \in Robots /\ p[2] \in Hosts
  <2>1. p \in Sighting
    BY <1>1, <1>3 DEF Order
  <2> QED BY <1>1, <1>3, <2>1 DEF Sighting, Sound
<1>5. copy \in Registry /\ Attested(copy)
  BY <1>1, <1>2 DEF Sound
<1>6. PICK mac \in BOOLEAN :
        /\ registry' = [k \in DOMAIN copy \cup {u} |-> IF k = u THEN [ip |-> p[2], mac |-> mac] ELSE copy[k]]
        /\ kept' = kept \cup {u}
        /\ overtaken' = (overtaken \/ registry # copy)
        /\ IF run[c].op = "resolve" THEN Ends(c, <<u, p[2]>>)
           ELSE IF run[c].left = {} THEN Ends(c, <<>>)
           ELSE Set(c, [run[c] EXCEPT !.at = "load", !.copy = <<>>])
  <2>1. \E mac \in {OldMac(c, run[c].saving)} \cup (IF run[c].op = "find" THEN BOOLEAN ELSE {}) :
          /\ registry' = [k \in DOMAIN run[c].copy \cup {run[c].saving} |->
               IF k = run[c].saving
               THEN [ip |-> (CHOOSE q \in run[c].found : q[1] = run[c].saving)[2], mac |-> mac]
               ELSE run[c].copy[k]]
          /\ kept' = kept \cup {run[c].saving}
          /\ overtaken' = (overtaken \/ registry # run[c].copy)
          /\ IF run[c].op = "resolve"
             THEN Ends(c, <<run[c].saving, (CHOOSE q \in run[c].found : q[1] = run[c].saving)[2]>>)
             ELSE IF run[c].left = {} THEN Ends(c, <<>>)
             ELSE Set(c, [run[c] EXCEPT !.at = "load", !.copy = <<>>])
    BY Zenon DEF Save, Base
  <2>2. OldMac(c, u) \in BOOLEAN
    BY DEF OldMac
  <2>3. run[c].saving = u /\ run[c].copy = copy /\ (CHOOSE q \in run[c].found : q[1] = u) = p
    BY <1>2
  <2> QED BY <2>1, <2>2, <2>3
<1>7. answered' = answered /\ lan' = lan
  BY DEF Save
<1>8. registry' \in Registry /\ Attested(registry)' /\ DOMAIN registry' = DOMAIN copy \cup {u}
  <2>1. PICK known \in SUBSET Robots : copy \in [known -> Entry]
    BY <1>5 DEF Registry
  <2>2. [ip |-> p[2], mac |-> mac] \in Entry
    BY <1>4, <1>6 DEF Entry
  <2>3. registry' \in [known \cup {u} -> Entry] /\ known \cup {u} \in SUBSET Robots
    BY <1>4, <1>6, <2>1, <2>2
  <2>4. Attested(registry)'
    BY <1>4, <1>5, <1>6, <1>7 DEF Attested
  <2> QED BY <1>6, <2>3, <2>4 DEF Registry
<1>9. /\ UnitsOK' \/ run' \notin [Commands -> Order]
      /\ answered \subseteq answered' /\ (~overtaken' => DOMAIN registry' = kept')
  BY <1>4, <1>6, <1>7, <1>8 DEF UnitsInv, UnitsOK
<1>10. \E new \in Order : Set(c, new) /\ Sound(new)'
  <2>1. CASE run[c].op = "resolve"
    <3>1. PICK new \in Order :
            /\ Set(c, new) /\ new.op = run[c].op /\ new.unit = run[c].unit /\ new.at = "over"
            /\ new.result = <<u, p[2]>> /\ new.found = {} /\ new.seen = run[c].seen
      <4>1. <<u, p[2]>> \in Sighting \cup {<<>>} /\ <<u, p[2]>> # <<>>
        BY <1>4
      <4> QED BY <1>6, <2>1, <4>1, EndsFields
    <3>2. Sound(new)'
      BY <1>1, <1>3, <1>4, <2>1, <3>1 DEF Sound
    <3> QED BY <3>1, <3>2
  <2>2. CASE run[c].op # "resolve" /\ run[c].left = {}
    <3>1. PICK new \in Order : Set(c, new) /\ new.at = "over" /\ new.result = <<>> /\ new.found = {}
      BY <1>6, <2>2, EndsFields
    <3>2. Sound(new)'
      BY <3>1 DEF Sound
    <3> QED BY <3>1, <3>2
  <2>3. CASE run[c].op # "resolve" /\ run[c].left # {}
    <3>1. PICK new : new = [run[c] EXCEPT !.at = "load", !.copy = <<>>]
      OBVIOUS
    <3>2. /\ new \in Order /\ new.op = run[c].op /\ new.at = "load" /\ new.found = run[c].found
          /\ new.left = run[c].left
      BY <1>1, <3>1 DEF Order
    <3>3. Sound(new)'
      BY <1>1, <1>7, <2>3, <3>2 DEF Sound
    <3> QED BY <1>6, <2>3, <3>1, <3>2, <3>3
  <2> QED BY <2>1, <2>2, <2>3
<1> QED BY <1>8, <1>9, <1>10, WritingCommand

LEMMA DropInv ==
    ASSUME UnitsInv, NEW c \in Commands, Drop(c)
    PROVE  UnitsInv'
<1>1. run[c].at = "dropping" /\ run[c] \in Order /\ Sound(run[c])
  BY OrderFields DEF Drop
<1>2. PICK copy, D : copy = run[c].copy /\ D = DOMAIN copy \ {run[c].saving}
  OBVIOUS
<1>3. /\ registry' = Restrict(copy, D) /\ kept' = kept \ {run[c].saving}
      /\ overtaken' = (overtaken \/ registry # copy)
      /\ UNCHANGED <<lan, moves, answered>>
      /\ Set(c, [run[c] EXCEPT !.at = "drop", !.copy = <<>>])
  BY <1>2 DEF Drop
<1>4. copy \in Registry /\ Attested(copy)
  BY <1>1, <1>2 DEF Sound
<1>5. registry' \in Registry /\ DOMAIN registry' = D /\ \A u \in D : registry'[u] = copy[u]
  BY <1>2, <1>3, <1>4, PartOfRegistry
<1>6. Attested(registry)' /\ (~overtaken' => DOMAIN registry' = kept')
  BY <1>2, <1>3, <1>4, <1>5 DEF Attested, UnitsInv
<1>7. answered \subseteq answered' /\ (UnitsOK' \/ run' \notin [Commands -> Order])
  BY <1>3, <1>5 DEF UnitsInv, UnitsOK
<1>8. PICK new : new = [run[c] EXCEPT !.at = "drop", !.copy = <<>>]
  OBVIOUS
<1>9. /\ new \in Order /\ new.op = run[c].op /\ new.at = "drop" /\ new.found = run[c].found
      /\ new.seen = run[c].seen
  BY <1>1, <1>8 DEF Order
<1>10. Sound(new)'
  BY <1>1, <1>3, <1>9 DEF Sound
<1> QED BY <1>3, <1>6, <1>7, <1>8, <1>9, <1>10, WritingCommand

LEMMA UnitsInitInv == UnitsInit => UnitsInv
<1> SUFFICES ASSUME UnitsInit PROVE UnitsInv
  OBVIOUS
<1>1. PICK known \in SUBSET Robots : registry \in [known -> [ip : Hosts, mac : {FALSE}]] /\ kept = known
  BY DEF UnitsInit
<1>2. registry \in [known -> Entry] /\ DOMAIN registry = known
  BY <1>1 DEF Entry
<1>3. registry \in Registry
  BY <1>2 DEF Registry
<1>4. answered = {<<u, registry[u].ip>> : u \in DOMAIN registry}
  BY DEF UnitsInit
<1>5. answered \subseteq Sighting /\ Attested(registry)
  BY <1>2, <1>4 DEF Entry, Sighting, Attested
<1>6. run = [c \in Commands |-> Fresh] /\ lan \in [Hosts -> Robots \cup {None}] /\ overtaken = FALSE
  BY DEF UnitsInit
<1> QED BY <1>1, <1>2, <1>3, <1>5, <1>6, FreshSound DEF UnitsInv, UnitsOK

LEMMA UnitsStepInv ==
    ASSUME DiscoveryAssumption, UnitsInv, [UnitsNext]_unitsVars
    PROVE  UnitsInv'
<1>1. CASE UNCHANGED unitsVars
  BY <1>1 DEF unitsVars, UnitsInv, UnitsOK, Sound, Attested
<1>2. CASE Move
  <2>1. lan' \in [Hosts -> Robots \cup {None}]
    BY <1>2 DEF Move, UnitsInv, UnitsOK
  <2> QED BY <1>2, <2>1 DEF Move, UnitsInv, UnitsOK, Sound, Attested
<1>3. ASSUME NEW c \in Commands,
             \/ Resolve(c) \/ FastPath(c) \/ Find(c) \/ ProbeOne(c) \/ Swept(c)
             \/ Known(c) \/ Load(c) \/ Save(c) \/ Forget(c) \/ DropLoad(c) \/ Drop(c)
      PROVE  UnitsInv'
  BY <1>3, ResolveInv, FastPathInv, ProbeOneInv, SweptInv, QuietInv, SaveInv, DropInv
<1> QED BY <1>1, <1>2, <1>3 DEF UnitsNext

LEMMA UnitsInvSound == ASSUME UnitsInv PROVE RightUnit /\ WellRemembered
  BY DEF UnitsInv, Sound, RightUnit, WellRemembered, Attested

\* A nonempty set of natural numbers has a smallest one.
LEMMA SmallestOne ==
    ASSUME NEW S \in SUBSET Nat, S # {}
    PROVE  \E m \in S : \A k \in S : m <= k
<1>1. PICK m \in S : \A k \in S : <<k, m>> \notin OpToRel(<, Nat)
  BY WFMin, NatLessThanWellFounded, Zenon
<1>2. \A k \in S : ~(k < m)
  BY <1>1, Zenon DEF OpToRel
<1>3. \A k \in S : m <= k
  BY <1>2
<1> QED BY <1>3

--------------------------------------------------------------------------------
(* The pin in the hosts file                                                    *)

\* What a line of a hosts file is, and a hosts file the commands keep.
Line == STRING \cup {BeginMark, EndMark, "other", "torn"}
Texts == [lines : Seq(Line), ends : BOOLEAN]
OneBlock(s) == \A i, j \in DOMAIN s : s[i] = BeginMark /\ s[j] = BeginMark => i = j
Proper(t) == t \in Texts /\ OneBlock(t.lines) /\ (t.lines = <<>> => t.ends)
Plain(s) == \A i \in DOMAIN s : s[i] # BeginMark

\* FirstOf finds the smallest number of a set.
LEMMA FirstOfFound ==
    ASSUME NEW S \in SUBSET Nat, S # {}
    PROVE  FirstOf(S) \in S /\ \A j \in S : FirstOf(S) <= j
  BY SmallestOne DEF FirstOf

\* What stands before and after the block of a file is the operator's.
LEMMA SplitText ==
    ASSUME NEW t, Proper(t), HasBlock(t)
    PROVE  /\ Before(t) \in Seq(Line) /\ Plain(Before(t))
           /\ After(t) \in Seq(Line) /\ Plain(After(t))
<1> DEFINE i == FirstOf(Starts(t))
           j == FirstOf(PinEnds(t))
<1>1. t.lines \in Seq(Line) /\ DOMAIN t.lines = 1 .. Len(t.lines) /\ Len(t.lines) \in Nat
  BY DEF Proper, Texts
<1>2. Starts(t) \in SUBSET Nat /\ PinEnds(t) \in SUBSET Nat /\ Starts(t) # {} /\ PinEnds(t) # {}
  BY <1>1 DEF Starts, PinEnds, HasBlock
<1>3. i \in Starts(t) /\ j \in PinEnds(t)
  BY <1>2, FirstOfFound
<1>4. i \in 1 .. Len(t.lines) /\ t.lines[i] = BeginMark /\ j \in 1 .. Len(t.lines) /\ j > i
  BY <1>1, <1>3 DEF Starts, PinEnds
<1>5. \A k \in 1 .. Len(t.lines) : t.lines[k] \in Line /\ (k # i => t.lines[k] # BeginMark)
  BY <1>1, <1>4, ElementOfSeq DEF Proper, OneBlock
<1> HIDE DEF i, j
<1>6. /\ SubSeq(t.lines, 1, i - 1) \in Seq(Line)
      /\ Len(SubSeq(t.lines, 1, i - 1)) = i - 1
      /\ \A k \in 1 .. i - 1 : SubSeq(t.lines, 1, i - 1)[k] = t.lines[k]
  <2>1. \A k \in 1 .. i - 1 : t.lines[k] \in Line
    BY <1>4, <1>5
  <2>2. 1 \in Int /\ i - 1 \in Int
    BY <1>4
  <2>3. /\ SubSeq(t.lines, 1, i - 1) \in Seq(Line)
        /\ Len(SubSeq(t.lines, 1, i - 1)) = IF 1 <= i - 1 THEN (i - 1) - 1 + 1 ELSE 0
        /\ \A k \in 1 .. (i - 1) - 1 + 1 : SubSeq(t.lines, 1, i - 1)[k] = t.lines[1 + k - 1]
    BY <2>1, <2>2, SubSeqProperties
  <2> QED BY <1>4, <2>3
<1>7. /\ SubSeq(t.lines, j + 1, Len(t.lines)) \in Seq(Line)
      /\ Len(SubSeq(t.lines, j + 1, Len(t.lines))) = Len(t.lines) - j
      /\ \A k \in 1 .. Len(t.lines) - j : SubSeq(t.lines, j + 1, Len(t.lines))[k] = t.lines[j + k]
  <2>1. \A k \in j + 1 .. Len(t.lines) : t.lines[k] \in Line
    BY <1>4, <1>5
  <2>2. j + 1 \in Int /\ Len(t.lines) \in Int
    BY <1>1, <1>4
  <2>3. /\ SubSeq(t.lines, j + 1, Len(t.lines)) \in Seq(Line)
        /\ Len(SubSeq(t.lines, j + 1, Len(t.lines))) =
             IF j + 1 <= Len(t.lines) THEN Len(t.lines) - (j + 1) + 1 ELSE 0
        /\ \A k \in 1 .. Len(t.lines) - (j + 1) + 1 :
             SubSeq(t.lines, j + 1, Len(t.lines))[k] = t.lines[j + 1 + k - 1]
    BY <2>1, <2>2, SubSeqProperties
  <2> QED BY <1>1, <1>4, <2>3
<1>8. Plain(SubSeq(t.lines, 1, i - 1))
  BY <1>4, <1>5, <1>6, LenProperties DEF Plain
<1>9. Plain(SubSeq(t.lines, j + 1, Len(t.lines)))
  BY <1>1, <1>4, <1>5, <1>7, LenProperties DEF Plain
<1> QED BY <1>6, <1>7, <1>8, <1>9 DEF Before, After, i, j

\* A block put between two texts is found there again.
LEMMA BlockFound ==
    ASSUME NEW b \in Seq(Line), NEW e \in Seq(Line), Plain(b), Plain(e), NEW x \in BOOLEAN,
           NEW a \in Line, a # BeginMark, a # EndMark, NEW t, t = Text(b \o Block(a) \o e, x)
    PROVE  Proper(t) /\ HasBlock(t) /\ Before(t) = b /\ After(t) = e
<1> DEFINE n == Len(b)
           m == Len(e)
<1>1. t.lines = (b \o Block(a)) \o e /\ t.ends = x /\ t = [lines |-> t.lines, ends |-> t.ends]
  BY DEF Text
<1>2. Block(a) \in Seq(Line) /\ Len(Block(a)) = 3 /\ Block(a)[1] = BeginMark /\ Block(a)[2] = a
      /\ Block(a)[3] = EndMark
  BY DEF Block, Line
<1>3. n \in Nat /\ m \in Nat
  BY LenProperties
<1>a. /\ b \o Block(a) \in Seq(Line) /\ Len(b \o Block(a)) = Len(b) + Len(Block(a))
      /\ \A k \in 1 .. Len(b) + Len(Block(a)) :
           (b \o Block(a))[k] = IF k <= Len(b) THEN b[k] ELSE Block(a)[k - Len(b)]
  BY <1>2, ConcatProperties
<1> HIDE DEF n, m
<1>b. n = Len(b) /\ m = Len(e)
  BY DEF n, m
<1>4. /\ b \o Block(a) \in Seq(Line) /\ Len(b \o Block(a)) = n + 3
      /\ \A k \in 1 .. n + 3 : (b \o Block(a))[k] = IF k <= n THEN b[k] ELSE Block(a)[k - n]
  BY <1>2, <1>a, <1>b
<1>c. PICK s : s = b \o Block(a)
  OBVIOUS
<1>d. /\ s \o e \in Seq(Line) /\ Len(s \o e) = Len(s) + Len(e)
      /\ \A k \in 1 .. Len(s) + Len(e) : (s \o e)[k] = IF k <= Len(s) THEN s[k] ELSE e[k - Len(s)]
  BY <1>4, <1>c, ConcatProperties
<1>5. /\ t.lines \in Seq(Line) /\ Len(t.lines) = n + 3 + m
      /\ \A k \in 1 .. n + 3 + m : t.lines[k] = IF k <= n + 3 THEN s[k] ELSE e[k - (n + 3)]
  BY <1>1, <1>4, <1>b, <1>c, <1>d
<1>6. /\ \A k \in 1 .. n : t.lines[k] = b[k]
      /\ t.lines[n + 1] = BeginMark /\ t.lines[n + 2] = a /\ t.lines[n + 3] = EndMark
      /\ \A k \in 1 .. m : t.lines[n + 3 + k] = e[k]
  <2>1. ASSUME NEW k \in 1 .. 3 PROVE t.lines[n + k] = Block(a)[k]
    <3>1. n + k \in 1 .. n + 3 /\ ~(n + k <= n) /\ (n + k) - n = k
      BY <1>3
    <3>2. n + k \in 1 .. n + 3 + m /\ n + k <= n + 3
      BY <1>3
    <3>3. s[n + k] = Block(a)[k]
      BY <1>4, <1>c, <3>1
    <3> QED BY <1>5, <3>2, <3>3
  <2>2. ASSUME NEW k \in 1 .. n PROVE t.lines[k] = b[k]
    <3>1. k \in 1 .. n + 3 /\ k <= n /\ k \in 1 .. n + 3 + m /\ k <= n + 3
      BY <1>3
    <3> QED BY <1>4, <1>5, <1>c, <3>1
  <2>3. ASSUME NEW k \in 1 .. m PROVE t.lines[n + 3 + k] = e[k]
    <3>1. n + 3 + k \in 1 .. n + 3 + m /\ ~(n + 3 + k <= n + 3) /\ (n + 3 + k) - (n + 3) = k
      BY <1>3
    <3> QED BY <1>5, <3>1
  <2>4. 1 \in 1 .. 3 /\ 2 \in 1 .. 3 /\ 3 \in 1 .. 3
    OBVIOUS
  <2> QED BY <1>2, <2>1, <2>2, <2>3, <2>4
<1>7. \A k \in 1 .. n + 3 + m : k # n + 1 => t.lines[k] # BeginMark
  <2>1. \A k \in 1 .. n : b[k] # BeginMark
    BY <1>b, LenProperties DEF Plain
  <2>2. \A k \in 1 .. m : e[k] # BeginMark
    BY <1>b, LenProperties DEF Plain
  <2>3. BeginMark # EndMark
    BY DEF BeginMark, EndMark
  <2>4. ASSUME NEW k \in 1 .. n + 3 + m, k # n + 1 PROVE t.lines[k] # BeginMark
    <3>1. CASE k <= n
      BY <1>3, <1>6, <2>1, <3>1
    <3>2. CASE k > n + 3
      <4>1. k - (n + 3) \in 1 .. m /\ k = n + 3 + (k - (n + 3))
        BY <1>3, <3>2
      <4> QED BY <1>6, <2>2, <4>1
    <3>3. CASE k = n + 2 \/ k = n + 3
      BY <1>6, <2>3, <3>3
    <3> QED BY <1>3, <2>4, <3>1, <3>2, <3>3
  <2> QED BY <2>4
<1>8. DOMAIN t.lines = 1 .. n + 3 + m /\ n + 1 \in 1 .. n + 3 + m /\ n + 3 \in 1 .. n + 3 + m
  BY <1>3, <1>5, LenProperties
<1>9. Starts(t) = {n + 1}
  BY <1>6, <1>7, <1>8 DEF Starts
<1>10. FirstOf(Starts(t)) = n + 1
  BY <1>9 DEF FirstOf
<1>11. n + 3 \in PinEnds(t) /\ PinEnds(t) \in SUBSET Nat /\ \A k \in PinEnds(t) : n + 3 <= k
  BY <1>3, <1>6, <1>8, <1>10 DEF PinEnds
<1>12. FirstOf(PinEnds(t)) = n + 3
  BY <1>3, <1>11, FirstOfFound
<1>13. Proper(t) /\ HasBlock(t)
  <2>1. t \in Texts
    BY <1>1, <1>5 DEF Texts
  <2>2. OneBlock(t.lines)
    BY <1>7, <1>8 DEF OneBlock
  <2>3. t.lines # <<>>
    BY <1>3, <1>5
  <2> QED BY <1>9, <1>11, <2>1, <2>2, <2>3 DEF Proper, HasBlock
<1>14. Before(t) = b
  <2>1. \A k \in 1 .. n : t.lines[k] \in Line
    BY <1>3, <1>5, ElementOfSeq
  <2>2. /\ SubSeq(t.lines, 1, n) \in Seq(Line)
        /\ Len(SubSeq(t.lines, 1, n)) = IF 1 <= n THEN n - 1 + 1 ELSE 0
        /\ \A k \in 1 .. n - 1 + 1 : SubSeq(t.lines, 1, n)[k] = t.lines[1 + k - 1]
    BY <1>3, <2>1, SubSeqProperties
  <2>3. Len(SubSeq(t.lines, 1, n)) = Len(b) /\ \A k \in 1 .. Len(b) : SubSeq(t.lines, 1, n)[k] = b[k]
    BY <1>3, <1>6, <2>2 DEF n
  <2>4. SubSeq(t.lines, 1, n) = b
    BY <2>2, <2>3, SeqEqual
  <2> QED BY <1>3, <1>10, <2>4 DEF Before
<1>15. After(t) = e
  <2>1. PICK lo \in Int, hi \in Int : lo = n + 4 /\ hi = n + 3 + m
    BY <1>3
  <2>2. \A k \in lo .. hi : t.lines[k] \in Line
    BY <1>3, <1>5, <2>1, ElementOfSeq
  <2>3. /\ SubSeq(t.lines, lo, hi) \in Seq(Line)
        /\ Len(SubSeq(t.lines, lo, hi)) = IF lo <= hi THEN hi - lo + 1 ELSE 0
        /\ \A k \in 1 .. hi - lo + 1 : SubSeq(t.lines, lo, hi)[k] = t.lines[lo + k - 1]
    BY <2>2, SubSeqProperties
  <2>4. Len(SubSeq(t.lines, lo, hi)) = m
    BY <1>3, <2>1, <2>3
  <2>5. ASSUME NEW k \in 1 .. m PROVE SubSeq(t.lines, lo, hi)[k] = e[k]
    <3>1. k \in 1 .. hi - lo + 1 /\ lo + k - 1 = n + 3 + k
      BY <1>3, <2>1
    <3> QED BY <1>6, <2>3, <3>1
  <2>6. SubSeq(t.lines, lo, hi) = e
    BY <1>b, <2>3, <2>4, <2>5, SeqEqual
  <2>7. FirstOf(PinEnds(t)) + 1 = lo /\ Len(t.lines) = hi
    BY <1>3, <1>5, <1>12, <2>1
  <2> QED BY <2>6, <2>7 DEF After
<1> QED BY <1>13, <1>14, <1>15

LEMMA PlainTogether ==
    ASSUME NEW s \in Seq(Line), NEW u \in Seq(Line), Plain(s), Plain(u)
    PROVE  s \o u \in Seq(Line) /\ Plain(s \o u)
<1>1. /\ s \o u \in Seq(Line) /\ Len(s \o u) = Len(s) + Len(u)
      /\ \A i \in 1 .. Len(s) + Len(u) : (s \o u)[i] = IF i <= Len(s) THEN s[i] ELSE u[i - Len(s)]
  BY ConcatProperties
<1>2. DOMAIN (s \o u) = 1 .. Len(s) + Len(u) /\ DOMAIN s = 1 .. Len(s) /\ DOMAIN u = 1 .. Len(u)
      /\ Len(s) \in Nat /\ Len(u) \in Nat
  BY <1>1, LenProperties
<1> QED BY <1>1, <1>2 DEF Plain

\* Pinning an address, anew or in place of another, leaves the file its operator's.
LEMMA PinnedOwn ==
    ASSUME HostsAssumption, NEW t, Proper(t), ~Unclosed(t), NEW a \in Addresses
    PROVE  Proper(Pinned(t, a)) /\ Own(Pinned(t, a)) = Own(t)
<1>1. a \in Line /\ a # BeginMark /\ a # EndMark
  BY DEF HostsAssumption, Line, BeginMark, EndMark
<1>2. CASE HasBlock(t)
  <2>1. PICK b, e : b = Before(t) /\ e = After(t)
    OBVIOUS
  <2>2. b \in Seq(Line) /\ Plain(b) /\ e \in Seq(Line) /\ Plain(e)
    BY <1>2, <2>1, SplitText
  <2>3. PICK new : new = Pinned(t, a)
    OBVIOUS
  <2>4. t.ends \in BOOLEAN /\ new = Text(b \o Block(a) \o e, t.ends)
    BY <1>2, <2>1, <2>3 DEF Pinned, Proper, Texts
  <2>5. Proper(new) /\ HasBlock(new) /\ Before(new) = b /\ After(new) = e
    BY <1>1, <2>2, <2>4, BlockFound
  <2>6. new.ends = t.ends
    BY <2>4 DEF Text
  <2>7. Own(new) = Own(t)
    BY <1>2, <2>1, <2>5, <2>6 DEF Own, Outside, BlockEnds
  <2> QED BY <2>3, <2>5, <2>7
<1>3. CASE ~HasBlock(t)
  <2>1. Starts(t) = {}
    BY <1>3 DEF HasBlock, Unclosed
  <2>2. t.lines \in Seq(Line) /\ Plain(t.lines) /\ t.ends \in BOOLEAN /\ (t.lines = <<>> => t.ends)
        /\ t = [lines |-> t.lines, ends |-> t.ends]
    BY <2>1 DEF Proper, Texts, Starts, Plain
  <2>3. PICK b : b = t.lines
    OBVIOUS
  <2>4. PICK new : new = Pinned(t, a)
    OBVIOUS
  <2>5. <<>> \in Seq(Line) /\ Plain(<<>>)
    BY DEF Plain
  <2>6. b \o Block(a) \in Seq(Line)
    <3>1. Block(a) \in Seq(Line)
      BY <1>1 DEF Block, Line
    <3> QED BY <2>2, <2>3, <3>1, ConcatProperties
  <2>7. (t.ends \/ t.lines = <<>>) = t.ends
    BY <2>2
  <2>8. new = Text(b \o Block(a) \o <<>>, t.ends)
    <3>1. (b \o Block(a)) \o <<>> = b \o Block(a)
      BY <2>6, ConcatEmptySeq
    <3>2. new = Text(b \o Block(a), t.ends)
      BY <1>3, <2>3, <2>4, <2>7 DEF Pinned
    <3> QED BY <3>1, <3>2
  <2>9. Proper(new) /\ HasBlock(new) /\ Before(new) = b /\ After(new) = <<>>
    <3>1. b \in Seq(Line) /\ Plain(b) /\ t.ends \in BOOLEAN
      BY <2>2, <2>3
    <3>2. PICK e \in Seq(Line) : e = <<>> /\ Plain(e)
      BY <2>5
    <3>3. new = Text(b \o Block(a) \o e, t.ends)
      BY <2>8, <3>2
    <3>4. Proper(new) /\ HasBlock(new) /\ Before(new) = b /\ After(new) = e
      <4>1. e \in Seq(Line) /\ Plain(e)
        BY <3>2
      <4> QED BY <1>1, <3>1, <3>3, <4>1, BlockFound, SMTT(60)
    <3> QED BY <3>2, <3>4
  <2>10. new.ends = t.ends
    BY <2>7, <2>8 DEF Text
  <2>11. b \o <<>> = b
    BY <2>2, <2>3, ConcatEmptySeq
  <2>12. Outside(new) = t.lines
    BY <2>3, <2>9, <2>11 DEF Outside
  <2>13. Own(new) = Text(t.lines, t.lines = <<>> \/ t.ends)
    BY <2>9, <2>10, <2>12 DEF Own, BlockEnds
  <2>14. Own(new) = t
    BY <2>2, <2>13 DEF Text
  <2> QED BY <1>3, <2>4, <2>9, <2>14 DEF Own
<1> QED BY <1>2, <1>3

\* And so does taking the block away.
LEMMA UnpinnedOwn ==
    ASSUME NEW t, Proper(t), HasBlock(t)
    PROVE  Proper(Unpinned(t)) /\ Own(Unpinned(t)) = Own(t)
<1>1. PICK b, e, rest : b = Before(t) /\ e = After(t) /\ rest = b \o e
  OBVIOUS
<1>2. b \in Seq(Line) /\ Plain(b) /\ e \in Seq(Line) /\ Plain(e) /\ t.ends \in BOOLEAN
  BY <1>1, SplitText DEF Proper, Texts
<1>3. rest \in Seq(Line) /\ Plain(rest)
  BY <1>1, <1>2, PlainTogether
<1>4. e # <<>> => rest # <<>>
  BY <1>1, <1>2, ConcatEqualIffEmpty
<1>5. PICK new : new = Unpinned(t)
  OBVIOUS
<1>6. PICK x \in BOOLEAN : /\ x = (IF e = <<>> THEN (e # <<>> \/ t.ends) \/ rest = <<>> ELSE t.ends)
  BY <1>2
<1>7. new = Text(rest, x)
  BY <1>1, <1>5, <1>6 DEF Unpinned, BlockEnds
<1>8. Own(t) = Text(rest, x)
  BY <1>1, <1>4, <1>6 DEF Own, Outside, BlockEnds
<1>9. new.lines = rest /\ new.ends = x /\ new = [lines |-> rest, ends |-> x]
  BY <1>7 DEF Text
<1>10. Proper(new)
  BY <1>3, <1>4, <1>6, <1>9 DEF Proper, Texts, OneBlock, Plain
<1>11. ~HasBlock(new)
  BY <1>3, <1>9 DEF HasBlock, Starts, Plain
<1> QED BY <1>5, <1>7, <1>8, <1>10, <1>11 DEF Own

\* Where a command may be, and what it holds there.
Going == {"read", "backed up", "verify", "restore"}
Work == [at : {"new", "over"} \cup Going, read : Texts, wants : Texts, again : Texts, stale : BOOLEAN]

WorkSound(k) ==
    /\ k.at = "new" => k = New
    /\ k.at \in Going => Proper(k.read) /\ Proper(k.wants) /\ Own(k.wants) = Own(k.read)
    /\ k.at \in Going \ {"read"} => Proper(k.again) /\ Safe(k.again)
    /\ k.at \in {"read", "backed up"} /\ ~k.stale /\ ~hurt => file = k.read
    /\ k.at = "backed up" /\ ~k.stale /\ ~hurt => file = k.again
    /\ k.at \in {"verify", "restore"} /\ ~k.stale /\ ~overwritten /\ ~hurt => Own(k.again) = mine

PinInv ==
    /\ Proper(file) /\ writer \in [Writers -> Work]
    /\ {overwritten, hurt, broken} \subseteq BOOLEAN
    /\ \A c \in Writers : WorkSound(writer[c])
    /\ OutsideKept
    /\ hurt \/ broken \/ Safe(file) \/ \E c \in Writers : writer[c].at \in {"verify", "restore"}

LEMMA WorkFields ==
    ASSUME PinInv, NEW c \in Writers
    PROVE  writer[c] \in Work /\ WorkSound(writer[c])
  BY DEF PinInv

\* A file that is half written is no file the commands keep to, but is one line.
LEMMA TornText == Proper(Torn) /\ ~Safe(Torn) /\ Proper(Nothing)
<1>1. "torn" \in Line
  BY DEF Line
<1>2. Torn.lines = <<"torn">> /\ Torn.ends = FALSE /\ Nothing.lines = <<>> /\ Nothing.ends = TRUE
  BY DEF Torn, Nothing, Text
<1>3. Torn \in Texts /\ Nothing \in Texts
  BY <1>1 DEF Torn, Nothing, Text, Texts
<1>4. OneBlock(<<"torn">>) /\ OneBlock(<<>>) /\ <<"torn">> # <<>>
  BY DEF OneBlock, BeginMark
<1>5. "torn" \in ToSet(<<"torn">>)
  BY DEF ToSet
<1> QED BY <1>2, <1>3, <1>4, <1>5 DEF Proper, Safe

LEMMA PinInitInv == HostsAssumption /\ PinInit => PinInv
<1> SUFFICES ASSUME HostsAssumption, PinInit PROVE PinInv
  OBVIOUS
<1>1. file \in Docs
  BY DEF PinInit
<1>2. /\ file \in [lines : Seq(STRING), ends : BOOLEAN] /\ (file.lines = <<>> => file.ends)
      /\ \A i, j \in DOMAIN file.lines : file.lines[i] = "BEGIN" /\ file.lines[j] = "BEGIN" => i = j
  BY <1>1 DEF HostsAssumption
<1>3. file.lines \in Seq(Line)
  BY <1>2, SeqMonotonic DEF Line
<1>4. Proper(file)
  BY <1>2, <1>3 DEF Proper, Texts, OneBlock, BeginMark
<1>5. New \in Work
  <2>1. Nothing \in Texts
    BY TornText DEF Proper
  <2> QED BY <2>1 DEF New, Work
<1>6. New.at = "new"
  BY DEF New
<1>7. WorkSound(New)
  BY <1>6 DEF WorkSound, Going
<1>8. writer = [c \in Writers |-> New] /\ mine = Own(file) /\ broken = ~Safe(file)
      /\ overwritten = FALSE /\ hurt = FALSE
  BY DEF PinInit
<1>9. broken \in BOOLEAN
  BY <1>8 DEF Safe
<1> QED BY <1>4, <1>5, <1>7, <1>8, <1>9 DEF PinInv, OutsideKept

\* A step of one command that leaves the file as it is.
LEMMA QuietWriter ==
    ASSUME PinInv, NEW c \in Writers, NEW new \in Work, SetWriter(c, new), WorkSound(new)',
           UNCHANGED <<file, mine, broken, overwritten, hurt>>,
           new.at \in {"verify", "restore"} \/ writer[c].at \notin {"verify", "restore"} \/ Safe(file)
    PROVE  PinInv'
<1>1. writer' \in [Writers -> Work] /\ writer'[c] = new /\ \A d \in Writers \ {c} : writer'[d] = writer[d]
  BY DEF PinInv, SetWriter
<1>2. \A d \in Writers : WorkSound(writer[d])'
  BY <1>1 DEF PinInv, WorkSound
<1>3. OutsideKept'
  BY DEF PinInv, OutsideKept
<1>4. (hurt \/ broken \/ Safe(file) \/ \E d \in Writers : writer[d].at \in {"verify", "restore"})'
  BY <1>1 DEF PinInv
<1> QED BY <1>1, <1>2, <1>3, <1>4 DEF PinInv

LEMMA ReadInv ==
    ASSUME HostsAssumption, PinInv, NEW c \in Writers, Read(c)
    PROVE  PinInv'
<1>1. writer[c].at = "new" /\ Proper(file)
  BY DEF Read, PinInv
<1>2. UNCHANGED <<file, mine, broken, overwritten, hurt>>
  BY DEF Read
<1>3. CASE Over(c)
  <2>1. PICK new : new = [New EXCEPT !.at = "over"]
    OBVIOUS
  <2>2. new \in Work /\ new.at = "over" /\ SetWriter(c, new)
    BY <1>3, <2>1, TornText DEF New, Work, Over, Proper
  <2>3. WorkSound(new)'
    BY <2>2 DEF WorkSound, Going
  <2> QED BY <1>1, <1>2, <2>2, <2>3, QuietWriter
<1>4. CASE ~Over(c)
  <2>1. PICK want : /\ want \in {Pinned(file, a) : a \in Addresses}
                            \cup (IF HasBlock(file) THEN {Unpinned(file)} ELSE {file})
                    /\ ~Unclosed(file) /\ want # file
                    /\ SetWriter(c, [New EXCEPT !.at = "read", !.read = file, !.wants = want])
    BY <1>4 DEF Read
  <2>2. Proper(want) /\ Own(want) = Own(file)
    <3>1. CASE \E a \in Addresses : want = Pinned(file, a)
      BY <1>1, <2>1, <3>1, PinnedOwn
    <3>2. CASE HasBlock(file) /\ want = Unpinned(file)
      BY <1>1, <3>2, UnpinnedOwn
    <3> QED BY <2>1, <3>1, <3>2
  <2>3. PICK new : new = [New EXCEPT !.at = "read", !.read = file, !.wants = want]
    OBVIOUS
  <2>4. new \in Work /\ new.at = "read" /\ new.read = file /\ new.wants = want
    BY <1>1, <2>2, <2>3, TornText DEF New, Work, Going, Proper
  <2>5. WorkSound(new)'
    BY <1>1, <1>2, <2>2, <2>4 DEF WorkSound, Going
  <2> QED BY <1>1, <1>2, <2>1, <2>3, <2>4, <2>5, QuietWriter
<1> QED BY <1>3, <1>4

LEMMA OverInv ==
    ASSUME PinInv, NEW c \in Writers, Over(c), writer[c].at \notin {"verify", "restore"} \/ Safe(file),
           UNCHANGED <<file, mine, broken, overwritten, hurt>>
    PROVE  PinInv'
<1>1. PICK new : new = [New EXCEPT !.at = "over"]
  OBVIOUS
<1>2. new \in Work /\ new.at = "over" /\ SetWriter(c, new)
  BY <1>1, TornText DEF New, Work, Over, Proper
<1>3. WorkSound(new)'
  BY <1>2 DEF WorkSound, Going
<1> QED BY <1>2, <1>3, QuietWriter

LEMMA BackUpInv ==
    ASSUME PinInv, NEW c \in Writers, BackUp(c)
    PROVE  PinInv'
<1>1. writer[c].at = "read" /\ UNCHANGED <<file, mine, broken, overwritten, hurt>>
  BY DEF BackUp
<1>2. CASE Over(c)
  BY <1>1, <1>2, OverInv
<1>3. CASE Safe(file) /\ SetWriter(c, [writer[c] EXCEPT !.at = "backed up", !.again = file])
  <2>1. PICK new : new = [writer[c] EXCEPT !.at = "backed up", !.again = file]
    OBVIOUS
  <2>2. Proper(file) /\ writer[c] \in Work /\ WorkSound(writer[c])
    BY WorkFields DEF PinInv
  <2>3. /\ new \in Work /\ new.at = "backed up" /\ new.again = file /\ new.read = writer[c].read
        /\ new.wants = writer[c].wants /\ new.stale = writer[c].stale
    BY <2>1, <2>2 DEF Work, Going, Proper
  <2>4. WorkSound(new)'
    BY <1>1, <1>3, <2>2, <2>3 DEF WorkSound, Going
  <2> QED BY <1>1, <1>3, <2>1, <2>3, <2>4, QuietWriter
<1> QED BY <1>2, <1>3 DEF BackUp

LEMMA VerifyInv ==
    ASSUME PinInv, NEW c \in Writers, Verify(c)
    PROVE  PinInv'
<1>1. writer[c].at = "verify" /\ UNCHANGED <<file, mine, broken, overwritten, hurt>>
  BY DEF Verify
<1>2. CASE Safe(file)
  BY <1>1, <1>2, OverInv DEF Verify, Verified
<1>3. CASE ~Safe(file)
  <2>1. PICK new : new = [writer[c] EXCEPT !.at = "restore"]
    OBVIOUS
  <2>2. SetWriter(c, new)
    BY <1>3, <2>1 DEF Verify, Verified
  <2>3. writer[c] \in Work /\ WorkSound(writer[c])
    BY WorkFields
  <2>4. /\ new \in Work /\ new.at = "restore" /\ new.again = writer[c].again /\ new.read = writer[c].read
        /\ new.wants = writer[c].wants /\ new.stale = writer[c].stale
    BY <2>1, <2>3 DEF Work, Going
  <2>5. WorkSound(new)'
    BY <1>1, <2>3, <2>4 DEF WorkSound, Going
  <2> QED BY <1>1, <2>2, <2>4, <2>5, QuietWriter
<1> QED BY <1>2, <1>3

\* A write to the file: whoever is at work on it has read what is no more there.
LEMMA WritesInv ==
    ASSUME PinInv, NEW c \in Writers, NEW at \in {"verify", "restore", "over"}, Writes(c, at),
           writer[c].at \in Going \ {"read"}, Proper(file'), UNCHANGED <<mine, broken, hurt>>,
           overwritten' \in BOOLEAN, overwritten => overwritten',
           OutsideKept', at = "over" => Safe(file'),
           ~writer[c].stale /\ ~overwritten' /\ ~hurt' => Own(writer[c].again) = mine
    PROVE  PinInv'
<1>1. /\ writer' \in [Writers -> Work] /\ writer'[c].at = at
      /\ writer'[c].read = writer[c].read /\ writer'[c].wants = writer[c].wants
      /\ writer'[c].again = writer[c].again /\ writer'[c].stale = writer[c].stale
      /\ \A d \in Writers \ {c} :
           /\ writer'[d] = [writer[d] EXCEPT !.stale = writer[d].at \notin {"new", "over"}]
           /\ writer'[d].at = writer[d].at
           /\ writer'[d].read = writer[d].read /\ writer'[d].wants = writer[d].wants
           /\ writer'[d].again = writer[d].again
           /\ writer'[d].stale = (writer[d].at \notin {"new", "over"})
  <2>1. writer \in [Writers -> Work]
    BY DEF PinInv
  <2>2. writer' = [k \in Writers |-> IF k = c THEN [writer[c] EXCEPT !.at = at]
                     ELSE [writer[k] EXCEPT !.stale = writer[k].at \notin {"new", "over"}]]
    BY DEF Writes
  <2>3. /\ [writer[c] EXCEPT !.at = at] \in Work /\ [writer[c] EXCEPT !.at = at].at = at
        /\ [writer[c] EXCEPT !.at = at].read = writer[c].read
        /\ [writer[c] EXCEPT !.at = at].wants = writer[c].wants
        /\ [writer[c] EXCEPT !.at = at].again = writer[c].again
        /\ [writer[c] EXCEPT !.at = at].stale = writer[c].stale
    BY <2>1 DEF Work, Going
  <2>4. ASSUME NEW d \in Writers, NEW new,
               new = [writer[d] EXCEPT !.stale = writer[d].at \notin {"new", "over"}]
        PROVE  /\ new \in Work /\ new.at = writer[d].at /\ new.read = writer[d].read
               /\ new.wants = writer[d].wants /\ new.again = writer[d].again
               /\ new.stale = (writer[d].at \notin {"new", "over"})
    BY <2>1, <2>4 DEF Work
  <2>5. writer'[c] = [writer[c] EXCEPT !.at = at]
        /\ \A d \in Writers \ {c} :
             writer'[d] = [writer[d] EXCEPT !.stale = writer[d].at \notin {"new", "over"}]
    BY <2>2
  <2>6. \A d \in Writers : writer'[d] \in Work
    <3>1. writer'[c] \in Work
      BY <2>3, <2>5
    <3>2. ASSUME NEW d \in Writers \ {c} PROVE writer'[d] \in Work
      <4>1. PICK new : new = [writer[d] EXCEPT !.stale = writer[d].at \notin {"new", "over"}]
        OBVIOUS
      <4>2. new \in Work
        BY <2>4, <4>1
      <4> QED BY <2>5, <4>1, <4>2
    <3> QED BY <3>1, <3>2
  <2>7. writer' \in [Writers -> Work]
    <3>1. writer' = [k \in Writers |-> writer'[k]]
      BY <2>2
    <3> QED BY <2>6, <3>1
  <2> QED BY <2>3, <2>4, <2>5, <2>7
<1>2. WorkSound(writer[c])'
  <2>1. WorkSound(writer[c])
    BY WorkFields
  <2> QED BY <1>1, <2>1 DEF WorkSound, Going
<1>3. ASSUME NEW d \in Writers \ {c} PROVE WorkSound(writer[d])'
  <2>1. WorkSound(writer[d]) /\ writer[d].at \in {"new", "over"} \cup Going
    BY WorkFields DEF Work
  <2>2. CASE writer[d].at = "new"
    <3>1. writer[d] = New /\ New.stale = FALSE
      BY <2>1, <2>2 DEF WorkSound, New
    <3>2. writer'[d] = [New EXCEPT !.stale = FALSE]
      BY <1>1, <2>2, <3>1
    <3>3. writer'[d] = New
      BY <3>2 DEF New
    <3> QED BY <1>1, <2>2, <3>3 DEF WorkSound, Going
  <2>3. CASE writer[d].at = "over"
    BY <1>1, <2>3 DEF WorkSound, Going
  <2>4. CASE writer[d].at \in Going
    BY <1>1, <2>1, <2>4 DEF WorkSound, Going
  <2> QED BY <2>1, <2>2, <2>3, <2>4
<1>4. (hurt \/ broken \/ Safe(file) \/ \E d \in Writers : writer[d].at \in {"verify", "restore"})'
  BY <1>1
<1>5. {overwritten, hurt, broken}' \subseteq BOOLEAN
  BY DEF PinInv
<1> QED BY <1>1, <1>2, <1>3, <1>4, <1>5 DEF PinInv

LEMMA FileWritten ==
    ASSUME PinInv, NEW c \in Writers, Replace(c) \/ ReplaceFails(c) \/ Restore(c)
    PROVE  PinInv'
<1>1. writer[c] \in Work /\ WorkSound(writer[c]) /\ Proper(file) /\ OutsideKept
      /\ overwritten \in BOOLEAN /\ writer[c].stale \in BOOLEAN
  BY WorkFields DEF PinInv, Work
<1>2. UNCHANGED <<mine, broken, hurt>>
  BY DEF Replace, ReplaceFails, Restore
<1>3. ~Safe(Torn) /\ Proper(Torn)
  BY TornText
<1>4. CASE Replace(c)
  <2>1. /\ writer[c].at = "backed up" /\ file' = writer[c].wants /\ Writes(c, "verify")
        /\ overwritten' = (overwritten \/ writer[c].stale)
    BY <1>4 DEF Replace
  <2>2. Proper(file')
    BY <1>1, <2>1 DEF WorkSound, Going
  <2>3. ~writer[c].stale /\ ~overwritten /\ ~hurt =>
          Own(writer[c].again) = mine /\ Own(file) = mine /\ file = writer[c].read
    BY <1>1, <1>3, <2>1 DEF WorkSound, Going, OutsideKept
  <2>4. OutsideKept'
    BY <1>1, <1>2, <2>1, <2>3 DEF WorkSound, Going, OutsideKept
  <2>5. overwritten' \in BOOLEAN
    BY <1>1, <2>1
  <2> QED BY <1>2, <2>1, <2>2, <2>3, <2>4, <2>5, WritesInv DEF Going
<1>5. CASE ReplaceFails(c)
  <2>1. /\ writer[c].at = "backed up" /\ file' \in {file, Torn} /\ Writes(c, "restore")
        /\ overwritten' = overwritten
    BY <1>5 DEF ReplaceFails
  <2>2. Proper(file')
    BY <1>1, <1>3, <2>1
  <2>3. ~writer[c].stale /\ ~overwritten /\ ~hurt => Own(writer[c].again) = mine
    BY <1>1, <1>3, <2>1 DEF WorkSound, Going, OutsideKept
  <2>4. OutsideKept'
    BY <1>1, <1>2, <2>1 DEF OutsideKept, Torn
  <2> QED BY <1>1, <1>2, <2>1, <2>2, <2>3, <2>4, WritesInv DEF Going
<1>6. CASE Restore(c)
  <2>1. /\ writer[c].at = "restore" /\ file' = writer[c].again /\ Writes(c, "over")
        /\ overwritten' = (overwritten \/ writer[c].stale)
    BY <1>6 DEF Restore
  <2>2. Proper(file') /\ Safe(file')
    BY <1>1, <2>1 DEF WorkSound, Going
  <2>3. ~writer[c].stale /\ ~overwritten /\ ~hurt => Own(writer[c].again) = mine
    BY <1>1, <2>1 DEF WorkSound, Going
  <2>4. OutsideKept'
    BY <1>1, <1>2, <2>1, <2>3 DEF OutsideKept
  <2>5. overwritten' \in BOOLEAN
    BY <1>1, <2>1
  <2> QED BY <1>2, <2>1, <2>2, <2>3, <2>4, <2>5, WritesInv DEF Going
<1> QED BY <1>4, <1>5, <1>6

LEMMA DieInv ==
    ASSUME PinInv, NEW c \in Writers, Die(c)
    PROVE  PinInv'
<1>1. /\ writer[c].at \in Going /\ UNCHANGED <<mine, broken, overwritten>>
      /\ file' \in {file} \cup (IF writer[c].at = "restore" THEN {Torn} ELSE {})
      /\ hurt' = (hurt \/ ~Safe(file')) /\ Over(c)
  BY DEF Die, Going
<1>2. PICK new : new = [New EXCEPT !.at = "over"]
  OBVIOUS
<1>3. new \in Work /\ new.at = "over" /\ SetWriter(c, new)
  BY <1>1, <1>2, TornText DEF New, Work, Over, Proper
<1>4. Proper(file') /\ hurt' \in BOOLEAN /\ (hurt => hurt') /\ (hurt' \/ file' = file)
  <2>1. Safe(file') \in BOOLEAN /\ hurt \in BOOLEAN
    BY DEF Safe, PinInv
  <2> QED BY <1>1, <2>1, TornText DEF PinInv
<1>5. writer' \in [Writers -> Work] /\ writer'[c] = new /\ \A d \in Writers \ {c} : writer'[d] = writer[d]
  BY <1>3 DEF PinInv, SetWriter
<1>6. \A d \in Writers : WorkSound(writer[d])'
  <2>1. WorkSound(writer[c])'
    BY <1>3, <1>5 DEF WorkSound, Going
  <2>2. ASSUME NEW d \in Writers \ {c} PROVE WorkSound(writer[d])'
    BY <1>1, <1>4, <1>5, WorkFields DEF WorkSound
  <2> QED BY <2>1, <2>2
<1>7. OutsideKept'
  BY <1>1, <1>4 DEF PinInv, OutsideKept
<1>8. (hurt \/ broken \/ Safe(file) \/ \E d \in Writers : writer[d].at \in {"verify", "restore"})'
  BY <1>1
<1>9. {overwritten, hurt, broken}' \subseteq BOOLEAN
  BY <1>1, <1>4 DEF PinInv
<1> QED BY <1>4, <1>5, <1>6, <1>7, <1>8, <1>9 DEF PinInv

\* The operator's edit leaves a file the commands can keep.
LEMMA EditProper ==
    ASSUME PinInv, Edit
    PROVE  Proper(file')
<1>1. PICK s : s = file.lines
  OBVIOUS
<1>2. s \in Seq(Line) /\ OneBlock(s) /\ (s = <<>> => file.ends) /\ file.ends \in BOOLEAN
      /\ Len(s) \in Nat /\ DOMAIN s = 1 .. Len(s)
  BY <1>1, LenProperties DEF PinInv, Proper, Texts
<1>3. "other" \in Line /\ "other" # BeginMark
  BY DEF Line, BeginMark
<1>4. CASE file' = Text(<<"other">> \o file.lines, file.ends)
  <2>1. PICK o : o = <<"other">>
    OBVIOUS
  <2>2. o \in Seq(Line) /\ Len(o) = 1 /\ o[1] = "other"
    BY <1>3, <2>1
  <2>3. /\ o \o s \in Seq(Line) /\ Len(o \o s) = Len(o) + Len(s)
        /\ \A i \in 1 .. Len(o) + Len(s) : (o \o s)[i] = IF i <= Len(o) THEN o[i] ELSE s[i - Len(o)]
    BY <1>2, <2>2, ConcatProperties
  <2>4. PICK u : u = o \o s
    OBVIOUS
  <2>5. u \in Seq(Line) /\ DOMAIN u = 1 .. 1 + Len(s) /\ u[1] = "other" /\ Len(u) = 1 + Len(s)
        /\ \A i \in 1 .. 1 + Len(s) : i # 1 => u[i] = s[i - 1]
    BY <1>2, <2>2, <2>3, <2>4, LenProperties
  <2>6. OneBlock(u)
    <3>1. SUFFICES ASSUME NEW x \in 1 .. 1 + Len(s), NEW y \in 1 .. 1 + Len(s),
                          u[x] = BeginMark, u[y] = BeginMark
                   PROVE  x = y
      BY <2>5 DEF OneBlock
    <3>2. /\ x - 1 \in 1 .. Len(s) /\ s[x - 1] = BeginMark
          /\ y - 1 \in 1 .. Len(s) /\ s[y - 1] = BeginMark
      BY <1>2, <1>3, <2>5, <3>1
    <3>3. x - 1 = y - 1
      BY <1>2, <3>2 DEF OneBlock
    <3> QED BY <1>2, <3>3
  <2>7. u # <<>> /\ file' = [lines |-> u, ends |-> file.ends]
    BY <1>1, <1>2, <1>4, <2>1, <2>4, <2>5 DEF Text
  <2> QED BY <1>2, <2>5, <2>6, <2>7 DEF Proper, Texts
<1>5. CASE file' = Text(Append(file.lines, "other"), TRUE)
  <2>1. PICK u : u = Append(s, "other")
    OBVIOUS
  <2>2. /\ u \in Seq(Line) /\ u # <<>> /\ Len(u) = Len(s) + 1 /\ u[Len(s) + 1] = "other"
        /\ \A i \in 1 .. Len(s) : u[i] = s[i]
    BY <1>2, <1>3, <2>1, AppendProperties
  <2>3. DOMAIN u = 1 .. Len(s) + 1
    BY <2>2, LenProperties
  <2>4. OneBlock(u)
    BY <1>2, <1>3, <2>2, <2>3 DEF OneBlock
  <2>5. file' = [lines |-> u, ends |-> TRUE]
    BY <1>1, <1>5, <2>1 DEF Text
  <2> QED BY <2>2, <2>4, <2>5 DEF Proper, Texts
<1>6. ASSUME NEW i \in DOMAIN file.lines, file' = Text(RemoveAt(file.lines, i), TRUE)
      PROVE  Proper(file')
  <2>1. PICK k, n : k = i - 1 /\ n = Len(s)
    OBVIOUS
  <2>2. i \in 1 .. n /\ k \in Nat /\ n \in Nat /\ i = k + 1
    BY <1>1, <1>2, <1>6, <2>1
  <2>3. \A j \in 1 .. n : s[j] \in Line
    BY <1>2, <2>1, ElementOfSeq
  <2>4. PICK b, e : b = SubSeq(s, 1, k) /\ e = SubSeq(s, i + 1, n)
    OBVIOUS
  <2>5. /\ b \in Seq(Line) /\ Len(b) = (IF 1 <= k THEN k - 1 + 1 ELSE 0)
        /\ \A j \in 1 .. k - 1 + 1 : b[j] = s[1 + j - 1]
    <3>1. \A j \in 1 .. k : s[j] \in Line
      BY <2>2, <2>3
    <3>2. 1 \in Int /\ k \in Int
      BY <2>2
    <3> QED BY <2>4, <3>1, <3>2, SubSeqProperties
  <2>6. /\ e \in Seq(Line) /\ Len(e) = (IF i + 1 <= n THEN n - (i + 1) + 1 ELSE 0)
        /\ \A j \in 1 .. n - (i + 1) + 1 : e[j] = s[i + 1 + j - 1]
    <3>1. PICK lo \in Int : lo = i + 1
      BY <2>2
    <3>2. \A j \in lo .. n : s[j] \in Line
      BY <2>2, <2>3, <3>1
    <3>3. n \in Int /\ e = SubSeq(s, lo, n)
      BY <2>2, <2>4, <3>1
    <3>4. /\ e \in Seq(Line) /\ Len(e) = (IF lo <= n THEN n - lo + 1 ELSE 0)
          /\ \A j \in 1 .. n - lo + 1 : e[j] = s[lo + j - 1]
      BY <3>2, <3>3, SubSeqProperties
    <3> QED BY <3>1, <3>4
  <2>7. Len(b) = k /\ Len(e) = n - i /\ (\A j \in 1 .. k : b[j] = s[j])
        /\ \A j \in 1 .. n - i : e[j] = s[i + j]
    <3>1. Len(b) = k /\ Len(e) = n - i
      BY <2>2, <2>5, <2>6
    <3>2. ASSUME NEW j \in 1 .. k PROVE b[j] = s[j]
      <4>1. j \in 1 .. k - 1 + 1 /\ 1 + j - 1 = j
        BY <2>2
      <4> QED BY <2>5, <4>1
    <3>3. ASSUME NEW j \in 1 .. n - i PROVE e[j] = s[i + j]
      <4>1. j \in 1 .. n - (i + 1) + 1 /\ i + 1 + j - 1 = i + j
        BY <2>2
      <4> QED BY <2>6, <4>1
    <3> QED BY <3>1, <3>2, <3>3
  <2>8. PICK u : u = b \o e
    OBVIOUS
  <2>9. /\ u \in Seq(Line) /\ Len(u) = Len(b) + Len(e)
        /\ \A j \in 1 .. Len(b) + Len(e) : u[j] = IF j <= Len(b) THEN b[j] ELSE e[j - Len(b)]
    BY <2>5, <2>6, <2>8, ConcatProperties
  <2>10. DOMAIN u = 1 .. n - 1
    BY <2>2, <2>7, <2>9, LenProperties
  <2>11. ASSUME NEW j \in 1 .. n - 1 PROVE u[j] = IF j <= k THEN s[j] ELSE s[j + 1]
    <3>1. j \in 1 .. Len(b) + Len(e)
      BY <2>2, <2>7
    <3>2. CASE j <= k
      <4>1. j \in 1 .. k /\ j <= Len(b)
        BY <2>2, <2>7, <3>2
      <4> QED BY <2>7, <2>9, <3>1, <3>2, <4>1
    <3>3. CASE ~(j <= k)
      <4>1. j - k \in 1 .. n - i /\ i + (j - k) = j + 1 /\ ~(j <= Len(b)) /\ j - Len(b) = j - k
        BY <2>2, <2>7, <3>3
      <4> QED BY <2>7, <2>9, <3>1, <3>3, <4>1
    <3> QED BY <3>2, <3>3
  <2>12. OneBlock(u)
    <3>1. SUFFICES ASSUME NEW x \in 1 .. n - 1, NEW y \in 1 .. n - 1, u[x] = BeginMark, u[y] = BeginMark
                   PROVE  x = y
      BY <2>10 DEF OneBlock
    <3>2. PICK p \in 1 .. n, q \in 1 .. n :
            /\ s[p] = BeginMark /\ s[q] = BeginMark
            /\ p = (IF x <= k THEN x ELSE x + 1) /\ q = (IF y <= k THEN y ELSE y + 1)
      BY <2>2, <2>11, <3>1
    <3>3. p = q
      BY <1>2, <2>1, <3>2 DEF OneBlock
    <3> QED BY <2>2, <3>2, <3>3
  <2>13. file' = [lines |-> u, ends |-> TRUE]
    BY <1>1, <1>6, <2>1, <2>4, <2>8 DEF Text, RemoveAt
  <2> QED BY <2>9, <2>12, <2>13 DEF Proper, Texts
<1>7. CASE Own(file) # file /\ file' = Text(file.lines, ~file.ends)
  <2>1. s # <<>>
    BY <1>1, <1>7 DEF Own, HasBlock, Starts
  <2> QED BY <1>1, <1>2, <1>7, <2>1 DEF Proper, Texts, Text
<1> QED BY <1>4, <1>5, <1>6, <1>7 DEF Edit

LEMMA EditInv ==
    ASSUME PinInv, Edit
    PROVE  PinInv'
<1>1. /\ mine' = Own(file') /\ broken' = ~Safe(file') /\ UNCHANGED <<overwritten, hurt>>
      /\ writer' = [k \in Writers |-> [writer[k] EXCEPT !.stale = writer[k].at \notin {"new", "over"}]]
  BY DEF Edit
<1>2. ASSUME NEW d \in Writers
      PROVE  writer'[d] \in Work /\ WorkSound(writer[d])'
  <2>1. writer[d] \in Work /\ WorkSound(writer[d]) /\ writer[d].at \in {"new", "over"} \cup Going
    BY WorkFields DEF Work
  <2>2. PICK new : new = [writer[d] EXCEPT !.stale = writer[d].at \notin {"new", "over"}]
    OBVIOUS
  <2>3. /\ new \in Work /\ new.at = writer[d].at /\ new.read = writer[d].read
        /\ new.wants = writer[d].wants /\ new.again = writer[d].again
        /\ new.stale = (writer[d].at \notin {"new", "over"})
    BY <2>1, <2>2 DEF Work
  <2>4. writer'[d] = new
    BY <1>1, <2>2
  <2>5. CASE writer[d].at = "new"
    <3>1. writer[d] = New
      BY <2>1, <2>5 DEF WorkSound
    <3>2. new = [New EXCEPT !.stale = FALSE]
      BY <2>2, <2>5, <3>1
    <3>3. new = New
      BY <3>2 DEF New
    <3> QED BY <2>3, <2>4, <2>5, <3>3 DEF WorkSound, Going
  <2>6. CASE writer[d].at = "over"
    BY <2>3, <2>4, <2>6 DEF WorkSound, Going
  <2>7. CASE writer[d].at \in Going
    BY <2>1, <2>3, <2>4, <2>7 DEF WorkSound, Going
  <2> QED BY <2>1, <2>3, <2>4, <2>5, <2>6, <2>7
<1>3. writer' \in [Writers -> Work]
  BY <1>1, <1>2
<1>4. OutsideKept'
  BY <1>1 DEF OutsideKept
<1>5. (hurt \/ broken \/ Safe(file) \/ \E d \in Writers : writer[d].at \in {"verify", "restore"})'
  BY <1>1
<1>6. {overwritten, hurt, broken}' \subseteq BOOLEAN
  BY <1>1 DEF PinInv, Safe
<1> QED BY <1>2, <1>3, <1>4, <1>5, <1>6, EditProper DEF PinInv

LEMMA PinStepInv ==
    ASSUME HostsAssumption, PinInv, [PinNext]_pinVars
    PROVE  PinInv'
<1>1. CASE UNCHANGED pinVars
  BY <1>1 DEF pinVars, PinInv, WorkSound, OutsideKept
<1>2. CASE Edit
  BY <1>2, EditInv
<1>3. ASSUME NEW c \in Writers,
             Read(c) \/ BackUp(c) \/ Replace(c) \/ ReplaceFails(c) \/ Verify(c) \/ Restore(c) \/ Die(c)
      PROVE  PinInv'
  BY <1>3, ReadInv, BackUpInv, FileWritten, VerifyInv, DieInv
<1> QED BY <1>1, <1>2, <1>3 DEF PinNext

LEMMA PinInvSound == ASSUME PinInv PROVE OutsideKept /\ LocalhostStays
<1>1. Writing = {} => \A c \in Writers : writer[c].at \notin {"verify", "restore"}
  BY DEF Writing
<1> QED BY <1>1 DEF PinInv, LocalhostStays

\* However units move, answer late and are saved and forgotten by commands that
\* overlap, an address handed on is one its own unit answered at, and none remembered
\* is lost but by a save over another; and however pins, operators and faults follow
\* each other, the hosts file keeps what is not the pin's, and its localhost
\* (discover/resolve.py, registry.py, hosts.py).
THEOREM RobotsFound ==
    DiscoveryAssumption /\ HostsAssumption => (UnitsSpec /\ PinSpec => []DiscoverySound)
<1> SUFFICES ASSUME DiscoveryAssumption, HostsAssumption
             PROVE  UnitsSpec /\ PinSpec => []DiscoverySound
  OBVIOUS
<1>1. (UnitsInit => UnitsInv) /\ (PinInit => PinInv)
  BY UnitsInitInv, PinInitInv
<1>2. UnitsInv /\ [UnitsNext]_unitsVars => UnitsInv'
  BY UnitsStepInv
<1>3. PinInv /\ [PinNext]_pinVars => PinInv'
  BY PinStepInv
<1>4. UnitsInv /\ PinInv => DiscoverySound
  BY UnitsInvSound, PinInvSound DEF DiscoverySound
<1> QED BY <1>1, <1>2, <1>3, <1>4, PTL DEF UnitsSpec, PinSpec

--------------------------------------------------------------------------------
(* The clip other processes read                                                *)

Frames(f) == f \in Seq(Nat) /\ Len(f) >= 2

ClipTypeOK ==
    /\ now \in Nat /\ inbox \in Seq(Nat) /\ ring \in Seq(Nat) /\ lastAt \in Nat
    /\ worker \in {"idle", "encoding", "encoded", "replaced"}
    /\ work \in [ts : Nat, frames : Seq(Nat)]
    /\ clip \in {<<"none">>, <<"part">>} \/ Frames(clip)
    /\ inbox # <<>> => Last(inbox) <= now
    /\ ring # <<>> => Last(ring) <= now

\* The newest frame the worker still has to encode is from x or later.
NotBefore(x) ==
    /\ inbox # <<>> => Last(inbox) >= x
    /\ inbox = <<>> /\ ring # <<>> => Last(ring) >= x

\* A descriptor is of a clip the file still is, or one it has grown past.
Describes(d) ==
    \E ts \in Nat, f \in Seq(Nat) :
      /\ d = <<ts, f>> /\ Frames(f) /\ f[1] + ClipSeconds >= ts
      /\ Frames(clip) /\ Last(clip) >= Last(f)

ClipInv ==
    /\ ClipTypeOK
    /\ worker # "idle" =>
         /\ Frames(work.frames) /\ work.frames[1] + ClipSeconds >= work.ts
         /\ Last(work.frames) <= now /\ NotBefore(Last(work.frames))
    /\ worker = "encoded" => tmp \in {<<"none">>, work.frames}
    /\ worker \in {"encoding", "encoded"} /\ Frames(clip) => Last(work.frames) >= Last(clip)
    /\ worker = "replaced" => clip = work.frames
    /\ Frames(clip) => Last(clip) <= now /\ NotBefore(Last(clip))
    /\ clip # <<"part">>
    /\ latest = <<"none">> \/ Describes(latest)
    /\ Len(published) = 1 \/ Describes(published)

LEMMA NewestKept ==
    ASSUME NEW s \in Seq(Nat), NEW n \in Nat \ {0}
    PROVE  /\ NewestOf(s, n) \in Seq(Nat)
           /\ NewestOf(s, n) = <<>> <=> s = <<>>
           /\ s # <<>> => Last(NewestOf(s, n)) = Last(s)
<1>1. Len(s) \in Nat /\ \A i \in 1 .. Len(s) : s[i] \in Nat
  BY LenProperties, ElementOfSeq
<1>2. CASE Len(s) <= n
  BY <1>2 DEF NewestOf
<1>3. CASE ~(Len(s) <= n)
  <2>0. Len(s) - n + 1 \in Int /\ Len(s) \in Int
    BY <1>1
  <2>1. PICK lo \in Int, hi \in Int : lo = Len(s) - n + 1 /\ hi = Len(s)
    BY <2>0
  <2>2. \A i \in lo .. hi : s[i] \in Nat
    BY <1>1, <1>3, <2>1
  <2>3. PICK u : u = SubSeq(s, lo, hi)
    OBVIOUS
  <2>4. /\ u \in Seq(Nat) /\ Len(u) = (IF lo <= hi THEN hi - lo + 1 ELSE 0)
        /\ \A i \in 1 .. hi - lo + 1 : u[i] = s[lo + i - 1]
    BY <2>2, <2>3, SubSeqProperties
  <2>5. Len(u) = n /\ n \in 1 .. hi - lo + 1 /\ lo + n - 1 = Len(s)
    BY <1>1, <1>3, <2>1, <2>4
  <2>6. u[n] = s[Len(s)]
    BY <2>4, <2>5
  <2>7. NewestOf(s, n) = u
    BY <1>3, <2>1, <2>3 DEF NewestOf
  <2>8. u # <<>> /\ s # <<>>
    BY <1>1, <1>3, <2>5
  <2> QED BY <2>4, <2>5, <2>6, <2>7, <2>8 DEF Last
<1> QED BY <1>2, <1>3

LEMMA FreshKept ==
    ASSUME ClipAssumption, NEW s \in Seq(Nat), now \in Nat
    PROVE  /\ Kept(s) \in Seq(Nat)
           /\ Kept(s) # <<>> => s # <<>> /\ Last(Kept(s)) = Last(s) /\ Kept(s)[1] + ClipSeconds >= now
<1>1. Len(s) \in Nat /\ DOMAIN s = 1 .. Len(s) /\ \A i \in 1 .. Len(s) : s[i] \in Nat
  BY LenProperties, ElementOfSeq
<1>2. PICK fresh : fresh = {i \in DOMAIN s : s[i] + ClipSeconds >= now}
  OBVIOUS
<1>3. CASE fresh = {}
  <2>1. Kept(s) = <<>>
    BY <1>2, <1>3 DEF Kept
  <2> QED BY <2>1
<1>4. CASE fresh # {}
  <2>1. fresh \in SUBSET Nat
    BY <1>1, <1>2
  <2>2. \E m \in fresh : \A k \in fresh : m <= k
    BY <1>4, <2>1, SmallestOne
  <2>4. Min(fresh) \in fresh
    BY <2>2 DEF Min
  <2>a. Min(fresh) \in Int /\ Len(s) \in Int
    <3>1. Min(fresh) \in Nat
      BY <2>1, <2>4
    <3> QED BY <1>1, <3>1
  <2>5. PICK lo \in Int, hi \in Int : lo = Min(fresh) /\ hi = Len(s)
    BY <2>a
  <2>6. lo \in 1 .. hi /\ s[lo] + ClipSeconds >= now
    BY <1>1, <1>2, <2>4, <2>5
  <2>7. \A i \in lo .. hi : s[i] \in Nat
    BY <1>1, <2>5, <2>6
  <2>8. PICK u : u = SubSeq(s, lo, hi)
    OBVIOUS
  <2>9. /\ u \in Seq(Nat) /\ Len(u) = (IF lo <= hi THEN hi - lo + 1 ELSE 0)
        /\ \A i \in 1 .. hi - lo + 1 : u[i] = s[lo + i - 1]
    BY <2>7, <2>8, SubSeqProperties
  <2>10. Len(u) = hi - lo + 1 /\ Len(u) \in 1 .. hi - lo + 1 /\ lo + Len(u) - 1 = hi
         /\ 1 \in 1 .. hi - lo + 1 /\ lo + 1 - 1 = lo
    BY <2>6, <2>9
  <2>11. u[Len(u)] = s[hi] /\ u[1] = s[lo]
    BY <2>9, <2>10
  <2>12. Kept(s) = u
    BY <1>2, <1>4, <2>5, <2>8 DEF Kept
  <2>13. u # <<>> /\ s # <<>>
    BY <1>1, <2>5, <2>6, <2>10
  <2> QED BY <2>5, <2>6, <2>9, <2>11, <2>12, <2>13 DEF Last
<1> QED BY <1>3, <1>4

\* Where the drained and the ring's frames end.
LEMMA RingEnds ==
    ASSUME ClipAssumption, ClipTypeOK
    PROVE  /\ Ring \in Seq(Nat)
           /\ Ring # <<>> =>
                /\ Ring[1] + ClipSeconds >= now
                /\ IF inbox # <<>> THEN Last(Ring) = Last(inbox) ELSE ring # <<>> /\ Last(Ring) = Last(ring)
<1>1. PICK s : s = ring \o inbox
  OBVIOUS
<1>2. /\ s \in Seq(Nat) /\ Len(s) = Len(ring) + Len(inbox) /\ Len(ring) \in Nat /\ Len(inbox) \in Nat
      /\ \A i \in 1 .. Len(ring) + Len(inbox) : s[i] = IF i <= Len(ring) THEN ring[i] ELSE inbox[i - Len(ring)]
  BY <1>1, ConcatProperties, LenProperties DEF ClipTypeOK
<1>3. inbox # <<>> => s # <<>> /\ Last(s) = Last(inbox)
  <2> SUFFICES ASSUME inbox # <<>> PROVE s # <<>> /\ Last(s) = Last(inbox)
    OBVIOUS
  <2>1. Len(inbox) # 0
    BY EmptySeq DEF ClipTypeOK
  <2>2. /\ Len(ring) + Len(inbox) \in 1 .. Len(ring) + Len(inbox)
        /\ ~(Len(ring) + Len(inbox) <= Len(ring))
        /\ Len(ring) + Len(inbox) - Len(ring) = Len(inbox)
    BY <1>2, <2>1
  <2> QED BY <1>2, <2>1, <2>2 DEF Last
<1>4. inbox = <<>> => s = ring
  BY <1>1, ConcatEmptySeq DEF ClipTypeOK
<1>5. RingMax \in Nat \ {0}
  BY DEF ClipAssumption
<1>6. PICK u : u = NewestOf(s, RingMax)
  OBVIOUS
<1>7. u \in Seq(Nat) /\ (u = <<>> <=> s = <<>>) /\ (s # <<>> => Last(u) = Last(s))
  BY <1>2, <1>5, <1>6, NewestKept
<1>8. Ring = Kept(u)
  BY <1>1, <1>6 DEF Ring
<1>9. /\ Kept(u) \in Seq(Nat)
      /\ Kept(u) # <<>> => u # <<>> /\ Last(Kept(u)) = Last(u) /\ Kept(u)[1] + ClipSeconds >= now
  BY <1>7, FreshKept DEF ClipTypeOK
<1> QED BY <1>3, <1>4, <1>7, <1>8, <1>9

\* The words that stand for no file are no clip.
LEMMA NoFrames == ~Frames(<<"none">>) /\ ~Frames(<<"part">>) /\ \A f : Frames(f) => f # <<>>
<1>1. Len(<<"none">>) = 1 /\ Len(<<"part">>) = 1 /\ Len(<<>>) = 0
  OBVIOUS
<1> QED BY <1>1 DEF Frames

LEMMA ClipInitInv == ClipAssumption /\ ClipInit => ClipInv
<1> SUFFICES ASSUME ClipInit, ClipAssumption PROVE ClipInv
  OBVIOUS
<1>1. Never \in Nat
  BY DEF ClipAssumption, Never
<1>2. Len(<<"absent">>) = 1 /\ <<"none">> # <<"part">>
  OBVIOUS
<1> QED BY <1>1, <1>2, NoFrames DEF ClipInit, ClipInv, ClipTypeOK

LEMMA LastFrame ==
    ASSUME NEW f, Frames(f)
    PROVE  Last(f) \in Nat /\ f[1] \in Nat
<1>1. Len(f) \in Nat /\ Len(f) \in 1 .. Len(f) /\ 1 \in 1 .. Len(f)
  BY LenProperties DEF Frames
<1> QED BY <1>1, ElementOfSeq DEF Frames, Last

LEMMA LastOfTimes ==
    ASSUME NEW s \in Seq(Nat), s # <<>>
    PROVE  Last(s) \in Nat
<1>1. Len(s) \in Nat /\ Len(s) # 0
  BY LenProperties, EmptySeq
<1>2. Len(s) \in 1 .. Len(s)
  BY <1>1
<1> QED BY <1>2, ElementOfSeq DEF Last

\* A step that leaves the clip and what is said of it, and drops no frame.
LEMMA ClipKept ==
    ASSUME ClipAssumption, ClipInv, UNCHANGED <<clip, work, ring, inbox, lastAt>>, now' \in Nat, now <= now',
           worker' = worker \/ worker' = "idle" \/ (worker = "encoding" /\ worker' = "encoded"),
           worker' = "encoded" => tmp' \in {<<"none">>, work.frames},
           latest' = latest,
           published' = published \/ Len(published') = 1 \/ published' = latest
    PROVE  ClipInv'
<1>1. ClipTypeOK'
  <2>1. /\ now \in Nat
        /\ inbox # <<>> => Last(inbox) \in Nat /\ Last(inbox) <= now
        /\ ring # <<>> => Last(ring) \in Nat /\ Last(ring) <= now
    BY LastOfTimes DEF ClipInv, ClipTypeOK
  <2>2. (inbox # <<>> => Last(inbox) <= now)' /\ (ring # <<>> => Last(ring) <= now)'
    BY <2>1
  <2> QED BY <2>2 DEF ClipInv, ClipTypeOK, Frames
<1>2. \A x : NotBefore(x)' <=> NotBefore(x)
  BY DEF NotBefore
<1>3. \A d : Describes(d)' <=> Describes(d)
  BY DEF Describes, Frames
<1>4. /\ Frames(clip) => Last(clip) \in Nat
      /\ Frames(work.frames) => Last(work.frames) \in Nat
  BY LastFrame
<1>5. now \in Nat
  BY DEF ClipInv, ClipTypeOK
<1>6. worker' # "idle" =>
         /\ Frames(work.frames)' /\ (work.frames[1] + ClipSeconds >= work.ts)'
         /\ Last(work.frames)' <= now' /\ NotBefore(Last(work.frames))'
  <2>1. \A x \in Nat : x <= now => x <= now'
    BY <1>5
  <2>2. worker' # "idle" => worker # "idle"
    OBVIOUS
  <2> QED BY <1>4, <2>1, <2>2 DEF ClipInv, NotBefore, Frames
<1>7. Frames(clip)' => Last(clip)' <= now' /\ NotBefore(Last(clip))'
  BY <1>4, <1>5 DEF ClipInv, NotBefore, Frames
<1>8. (worker \in {"encoding", "encoded"} /\ Frames(clip) => Last(work.frames) >= Last(clip))'
  BY DEF ClipInv, Frames
<1>9. (latest = <<"none">> \/ Describes(latest))'
  BY DEF ClipInv, Describes, Frames
<1>10. (Len(published) = 1 \/ Describes(published))'
  <2>1. Len(<<"none">>) = 1
    OBVIOUS
  <2>2. CASE published' = latest /\ latest = <<"none">>
    BY <2>1, <2>2
  <2>3. CASE published' = latest /\ Describes(latest)
    BY <2>3 DEF Describes, Frames
  <2>4. CASE published' = published
    BY <2>4 DEF ClipInv, Describes, Frames
  <2> QED BY <2>2, <2>3, <2>4 DEF ClipInv
<1>11. (worker = "encoded" => tmp \in {<<"none">>, work.frames})' /\ (worker = "replaced" => clip = work.frames)'
       /\ (clip # <<"part">>)'
  BY DEF ClipInv
<1> QED BY <1>1, <1>6, <1>7, <1>8, <1>9, <1>10, <1>11 DEF ClipInv

LEMMA TickInv ==
    ASSUME ClipAssumption, ClipInv, Heartbeat \/ Publish \/ Time \/ Close \/ ProcessEnds
    PROVE  ClipInv'
<1>1. UNCHANGED <<clip, work, ring, inbox, lastAt, worker, latest>> /\ now' \in Nat /\ now <= now'
  BY DEF Heartbeat, Publish, Time, Close, ProcessEnds, ClipInv, ClipTypeOK
<1>2. tmp' = tmp \/ tmp' = <<"none">>
  BY DEF Heartbeat, Publish, Time, Close, ProcessEnds
<1>3. published' = published \/ Len(published') = 1 \/ published' = latest
  <2>1. Len(<<"absent">>) = 1 /\ Len(<<"no-clip-yet">>) = 1
    OBVIOUS
  <2> QED BY <2>1 DEF Heartbeat, Publish, Time, Close, ProcessEnds, ClipBlock
<1>4. worker' = "encoded" => tmp' \in {<<"none">>, work.frames}
  BY <1>1, <1>2 DEF ClipInv
<1> QED BY <1>1, <1>3, <1>4, ClipKept

LEMMA EncodeInv ==
    ASSUME ClipAssumption, ClipInv, Encoded \/ Failed
    PROVE  ClipInv'
<1>1. UNCHANGED <<clip, work, ring, inbox, lastAt, latest, published, now>> /\ now \in Nat
  BY DEF Encoded, Failed, ClipInv, ClipTypeOK
<1>2. worker' = "idle" \/ (worker = "encoding" /\ worker' = "encoded" /\ tmp' \in {<<"none">>, work.frames})
  BY DEF Encoded, Failed
<1> QED BY <1>1, <1>2, ClipKept

LEMMA OfferInv ==
    ASSUME ClipAssumption, ClipInv, Offer
    PROVE  ClipInv'
<1>1. PICK s : s = Append(inbox, now)
  OBVIOUS
<1>2. now \in Nat /\ inbox \in Seq(Nat) /\ InboxSize \in Nat \ {0}
  BY DEF ClipInv, ClipTypeOK, ClipAssumption
<1>3. s \in Seq(Nat) /\ s # <<>> /\ Last(s) = now
  BY <1>1, <1>2, AppendProperties DEF Last
<1>4. inbox' \in Seq(Nat) /\ inbox' # <<>> /\ Last(inbox') = now
  <2>1. inbox' = NewestOf(s, InboxSize)
    BY <1>1 DEF Offer
  <2> QED BY <1>2, <1>3, <2>1, NewestKept
<1>5. \A x \in Nat : x <= now => NotBefore(x)'
  BY <1>2, <1>4 DEF NotBefore
<1>6. UNCHANGED <<now, ring, lastAt, worker, work, tmp, clip, latest, published>>
  BY DEF Offer
<1>7. /\ Frames(clip) => Last(clip) \in Nat
      /\ Frames(work.frames) => Last(work.frames) \in Nat
  BY LastFrame
<1>8. ClipTypeOK'
  BY <1>4, <1>6 DEF ClipInv, ClipTypeOK, Frames
<1>9. worker # "idle" => NotBefore(Last(work.frames))'
  BY <1>5, <1>6, <1>7 DEF ClipInv
<1>10. Frames(clip) => NotBefore(Last(clip))'
  BY <1>5, <1>6, <1>7 DEF ClipInv
<1> QED BY <1>6, <1>8, <1>9, <1>10 DEF ClipInv, Describes, Frames

LEMMA StartInv ==
    ASSUME ClipAssumption, ClipInv, StartEncode
    PROVE  ClipInv'
<1>1. ClipTypeOK /\ now \in Nat /\ worker = "idle"
  BY DEF ClipInv, ClipTypeOK, StartEncode
<1>2. /\ Ring \in Seq(Nat)
      /\ Ring # <<>> =>
           /\ Ring[1] + ClipSeconds >= now
           /\ IF inbox # <<>> THEN Last(Ring) = Last(inbox) ELSE ring # <<>> /\ Last(Ring) = Last(ring)
  BY <1>1, RingEnds
<1>3. ring' = Ring /\ inbox' = <<>> /\ UNCHANGED <<now, clip, latest, published>>
  BY DEF StartEncode
<1>4. \A x : NotBefore(x) => NotBefore(x)' /\ (Ring # <<>> => Last(Ring) >= x)
  BY <1>2, <1>3 DEF NotBefore
<1>5. Frames(clip)' => Last(clip)' <= now' /\ NotBefore(Last(clip))'
  BY <1>3, <1>4 DEF ClipInv, Frames
<1>6. (latest = <<"none">> \/ Describes(latest))' /\ (Len(published) = 1 \/ Describes(published))'
      /\ (clip # <<"part">>)'
  BY <1>3 DEF ClipInv, Describes, Frames
<1>7. CASE worker' = "encoding" /\ work' = [ts |-> now, frames |-> Ring] /\ lastAt' = now /\ Len(Ring) >= 2
  <2>0. PICK f : f = Ring
    OBVIOUS
  <2>1. work'.frames = f /\ work'.ts = now /\ Frames(f) /\ f # <<>> /\ worker' = "encoding" /\ now' = now
    BY <1>2, <1>3, <1>7, <2>0, NoFrames DEF Frames
  <2>2. Last(f) \in Nat /\ f[1] + ClipSeconds >= now /\ Last(f) <= now
    BY <1>1, <1>2, <2>0, <2>1, LastFrame DEF ClipTypeOK
  <2>3. ClipTypeOK'
    BY <1>1, <1>2, <1>3, <1>7, <2>0, <2>2 DEF ClipTypeOK, Frames
  <2>4. NotBefore(Last(f))'
    BY <1>3, <2>0, <2>2 DEF NotBefore
  <2>6. Frames(clip) => Last(f) >= Last(clip)
    BY <1>4, <2>0, <2>1 DEF ClipInv
  <2>7. /\ Frames(work.frames)' /\ (work.frames[1] + ClipSeconds >= work.ts)'
        /\ Last(work.frames)' <= now' /\ NotBefore(Last(work.frames))'
    BY <2>1, <2>2, <2>4 DEF Frames, NotBefore
  <2>8. (Frames(clip) => Last(work.frames) >= Last(clip))'
    BY <1>3, <2>1, <2>6 DEF Frames
  <2> QED BY <1>5, <1>6, <2>1, <2>3, <2>7, <2>8 DEF ClipInv
<1>8. CASE UNCHANGED <<worker, work, lastAt, tmp>>
  <2>1. ClipTypeOK'
    BY <1>1, <1>2, <1>3, <1>8 DEF ClipTypeOK, Frames
  <2> QED BY <1>1, <1>3, <1>5, <1>6, <1>8, <2>1 DEF ClipInv, Frames
<1> QED BY <1>7, <1>8 DEF StartEncode

LEMMA RenameInv ==
    ASSUME ClipAssumption, ClipInv, RenameClip
    PROVE  ClipInv'
<1>1. UNCHANGED <<now, ring, inbox, lastAt, work, latest, published>> /\ now \in Nat /\ worker = "encoded"
      /\ tmp \in {<<"none">>, work.frames}
  BY DEF RenameClip, ClipInv, ClipTypeOK
<1>2. CASE tmp = <<"none">>
  <2>1. worker' = "idle" /\ clip' = clip
    BY <1>2 DEF RenameClip
  <2> QED BY <1>1, <2>1, ClipKept
<1>3. CASE tmp # <<"none">>
  <2>1. worker' = "replaced" /\ clip' = work.frames
    BY <1>1, <1>3 DEF RenameClip
  <2>2. Frames(clip') /\ Last(clip') \in Nat /\ clip' # <<"part">>
    <3>1. Frames(work.frames)
      BY <1>1 DEF ClipInv
    <3> QED BY <2>1, <3>1, LastFrame, NoFrames
  <2>3. Frames(clip) => Last(clip) \in Nat /\ Last(clip') >= Last(clip)
    BY <1>1, <2>1, LastFrame DEF ClipInv
  <2>4. \A d : Describes(d) => Describes(d)'
    <3>1. \A f \in Seq(Nat) : Frames(f) => Last(f) \in Nat
      BY LastFrame
    <3> SUFFICES ASSUME NEW d, Describes(d) PROVE Describes(d)'
      OBVIOUS
    <3>2. PICK ts \in Nat, f \in Seq(Nat) :
            /\ d = <<ts, f>> /\ Frames(f) /\ f[1] + ClipSeconds >= ts
            /\ Frames(clip) /\ Last(clip) >= Last(f)
      BY DEF Describes
    <3>3. Last(clip') >= Last(f)
      BY <2>2, <2>3, <3>1, <3>2
    <3>4. Frames(clip)' /\ Frames(f)' /\ Last(clip)' >= Last(f)
      BY <2>2, <3>2, <3>3 DEF Frames
    <3> QED BY <3>2, <3>4 DEF Describes
  <2>5. ClipTypeOK'
    BY <1>1, <2>1, <2>2 DEF ClipInv, ClipTypeOK, Frames
  <2>6. Last(work.frames) <= now /\ NotBefore(Last(work.frames)) /\ Frames(work.frames)
        /\ work.frames[1] + ClipSeconds >= work.ts
    BY <1>1 DEF ClipInv
  <2>7. (latest = <<"none">> \/ Describes(latest))' /\ (Len(published) = 1 \/ Describes(published))'
    <3>1. latest = <<"none">> \/ Describes(latest)
      BY DEF ClipInv
    <3>2. Len(published) = 1 \/ Describes(published)
      BY DEF ClipInv
    <3>3. PICK l, p : l = latest /\ p = published
      OBVIOUS
    <3>4. (l = <<"none">> \/ Describes(l)') /\ (Len(p) = 1 \/ Describes(p)')
      BY <2>4, <3>1, <3>2, <3>3
    <3>5. latest' = l /\ published' = p
      BY <1>1, <3>3
    <3> QED BY <3>4, <3>5 DEF Describes, Frames
  <2> QED BY <1>1, <2>1, <2>2, <2>5, <2>6, <2>7 DEF ClipInv, NotBefore, Frames
<1> QED BY <1>2, <1>3

LEMMA LatchInv ==
    ASSUME ClipAssumption, ClipInv, Latch
    PROVE  ClipInv'
<1>1. UNCHANGED <<now, ring, inbox, lastAt, work, clip, tmp, published>> /\ worker = "replaced"
      /\ worker' = "idle" /\ latest' = <<work.ts, work.frames>>
  BY DEF Latch
<1>2. clip = work.frames /\ Frames(work.frames) /\ work.frames[1] + ClipSeconds >= work.ts
      /\ work.ts \in Nat
  BY <1>1 DEF ClipInv, ClipTypeOK
<1>3. Last(clip) >= Last(work.frames)
  BY <1>2, LastFrame
<1>4. Describes(<<work.ts, work.frames>>)
  BY <1>2, <1>3 DEF Describes, Frames
<1>5. Describes(latest)'
  BY <1>1, <1>4 DEF Describes, Frames
<1>6. ClipTypeOK'
  BY <1>1 DEF ClipInv, ClipTypeOK, Frames
<1>7. (Frames(clip) => Last(clip) <= now /\ NotBefore(Last(clip)))' /\ (clip # <<"part">>)'
  BY <1>1 DEF ClipInv, NotBefore, Frames
<1>8. (Len(published) = 1 \/ Describes(published))'
  BY <1>1 DEF ClipInv, Describes, Frames
<1> QED BY <1>1, <1>5, <1>6, <1>7, <1>8 DEF ClipInv

LEMMA RestartInv ==
    ASSUME ClipAssumption, ClipInv, Restart
    PROVE  ClipInv'
<1>1. /\ inbox' = <<>> /\ ring' = <<>> /\ lastAt' = Never /\ worker' = "idle"
      /\ work' = [ts |-> 0, frames |-> <<>>] /\ latest' = <<"none">>
      /\ UNCHANGED <<now, tmp, clip, published>>
  BY DEF Restart
<1>2. Never \in Nat
  BY DEF Never, ClipAssumption
<1> QED BY <1>1, <1>2 DEF ClipInv, ClipTypeOK, Describes, NotBefore, Frames

LEMMA ClipStepInv == ASSUME ClipAssumption, ClipInv, [ClipNext]_clipVars PROVE ClipInv'
<1>1. CASE UNCHANGED clipVars
  <2>1. now \in Nat
    BY DEF ClipInv, ClipTypeOK
  <2>2. worker' = "encoded" => tmp' \in {<<"none">>, work.frames}
    BY <1>1 DEF ClipInv, clipVars
  <2> QED BY <1>1, <2>1, <2>2, ClipKept DEF clipVars
<1>2. CASE ClipNext
  BY <1>2, TickInv, EncodeInv, OfferInv, StartInv, RenameInv, LatchInv, RestartInv DEF ClipNext
<1> QED BY <1>1, <1>2

LEMMA ClipInvSound == ASSUME ClipInv PROVE ClipSound
<1> SUFFICES ASSUME Len(published) = 2
             PROVE  IsClip(clip) /\ Last(clip) >= Last(published[2])
                    /\ Head(published[2]) + ClipSeconds >= published[1]
  BY DEF ClipSound
<1>1. PICK ts \in Nat, f \in Seq(Nat) :
        /\ published = <<ts, f>> /\ Frames(f) /\ f[1] + ClipSeconds >= ts
        /\ Frames(clip) /\ Last(clip) >= Last(f)
  BY DEF ClipInv, Describes
<1>2. IsClip(clip)
  BY <1>1, NoFrames DEF IsClip
<1>3. Head(f) = f[1]
  BY <1>1, NoFrames
<1> QED BY <1>1, <1>2, <1>3

\* Whatever the worker is doing, after encodes that fail, a close under a busy worker,
\* a kill and a restart, the clip that state.json tells of is a whole file at least as
\* recent as it says, without a frame older than the window (behavior/clip_rider.py).
THEOREM ClipHolds == ClipAssumption => (ClipSpec => []ClipSound)
<1> SUFFICES ASSUME ClipAssumption PROVE ClipSpec => []ClipSound
  OBVIOUS
<1>1. ClipInit => ClipInv
  BY ClipInitInv
<1>2. ClipInv /\ [ClipNext]_clipVars => ClipInv'
  BY ClipStepInv
<1>3. ClipInv => ClipSound
  BY ClipInvSound
<1> QED BY <1>1, <1>2, <1>3, PTL DEF ClipSpec

--------------------------------------------------------------------------------
(* Clients of the robot                                                         *)

\* What a thread has in its hands at each of its steps.
Dismissing == {"close", "disconnect", "arm"}
Manned ==
  /\ hand["tick"].step \in {"idle"} \cup Dismissing
  /\ hand["keeper"].step \in {"idle", "dial", "adopt"}
  /\ hand["closer"].step \in {"idle", "done"} \cup Dismissing
  /\ \A t \in Threads : hand[t].step \in {"idle", "dial", "done"} => hand[t].with = NoClient

\* Nobody holds a client that was not made, and no client is held twice.
Counted ==
  /\ made \in 0 .. MaxClients
  /\ open \subseteq 1 .. made /\ pose.client \in 0 .. made /\ use.with \in 0 .. made
  /\ \A t \in Threads : hand[t].with \in 0 .. made
HeldOnce ==
  /\ \A t \in Threads : /\ hand[t].with = pose.client => pose.client = NoClient
                        /\ hand[t].with = use.with => use.with = NoClient
                        /\ \A u \in Threads : hand[t].with = hand[u].with /\ t # u
                             => hand[t].with = NoClient
  /\ pose.client = use.with => use.with = NoClient

\* The reader's client is up, and so is one that is adopted or dismissed.
Up ==
  /\ pose.client # NoClient => pose.client \in open
  /\ \A t \in Threads : hand[t].step \in {"close", "disconnect", "adopt"} => hand[t].with \in open

\* A client that would not go is in nobody's hands, but for who is about to leave it; whom
\* a thread is done with is gone, or would not go.
Stubborn ==
  /\ stuck \subseteq open /\ pose.client \notin stuck /\ use.with \notin stuck
  /\ \A t \in Threads : hand[t].with \in stuck => hand[t].step = "arm"
  /\ \A t \in Threads : hand[t].step = "arm" /\ hand[t].with \in open => hand[t].with \in stuck

\* While the keeper makes a client the reader has none, nor while one is dismissed; the
\* run's end finds the tick thread idle and, in time, the keeper.
Attended ==
  /\ hand["keeper"].step # "idle" => pose.client = NoClient
  /\ ~raced /\ hand["tick"].step # "idle" => pose.client = NoClient /\ hand["keeper"].step = "idle"
  /\ hand["closer"].with # NoClient =>
       pose.client = NoClient /\ hand["keeper"].step = "idle" /\ ~keeping
  /\ pose.closed <=> hand["closer"].step # "idle"
  /\ pose.closed => ~keeping /\ hand["tick"].step = "idle"
  /\ pose.closed /\ ~outlived => pose.client = NoClient /\ hand["keeper"].step = "idle"

UseSet == [kind : Uses \cup {"none"}, at : {"idle", "record", "body", "stop", "exit"}, with : Nat,
           mic : BOOLEAN, camera : {"unknown", "there", "absent"}, raises : BOOLEAN]

\* The microphone of a session records from its record to its stop.
Recording ==
  /\ use \in UseSet
  /\ use.mic => use.kind = "media" /\ use.at \in {"body", "stop", "exit"}
  /\ use.at = "idle" => use.with = NoClient
  /\ use.at = "record" => use.kind = "media"
  /\ MicStopped

ClientsInv ==
  /\ ClientsTypeOK /\ Manned /\ Counted /\ HeldOnce /\ Up /\ Stubborn /\ Attended /\ Recording
  /\ NoneOrphaned

--------------------------------------------------------------------------------
LEMMA InitClients == ASSUME ClientsAssumption, ClientsInit PROVE ClientsInv
<1>1. /\ pose.client = 0 /\ pose.closed = FALSE /\ use.with = 0 /\ use.at = "idle" /\ use.mic = FALSE
      /\ made = 0 /\ open = {} /\ stuck = {} /\ MaxClients \in Nat
      /\ \A t \in Threads : hand[t].step = "idle" /\ hand[t].with = 0
  BY DEF ClientsInit, ClientsAssumption, AtRest, Unused, NoClient
<1>2. ClientsTypeOK /\ Recording
  BY <1>1 DEF ClientsInit, ClientsTypeOK, Recording, UseSet, MicStopped, Unused, NoClient, AtRest, Uses
<1>3. Manned /\ Counted /\ HeldOnce /\ Up /\ Stubborn /\ NoneOrphaned
  BY <1>1 DEF Manned, Counted, HeldOnce, Up, Stubborn, NoneOrphaned, NoClient, Threads, Dismissing
<1>4. Attended
  BY <1>1 DEF Attended, NoClient, Threads
<1> QED BY <1>2, <1>3, <1>4 DEF ClientsInv

LEMMA InvSays ==
  ASSUME ClientsAssumption, ClientsInv
  PROVE  ClientsSound
<1>1. PoseReleased
  <2> SUFFICES ASSUME Stands("closer", "done"), ~outlived
               PROVE  pose.client = NoClient /\ open \subseteq stuck \cup {use.with}
    BY DEF PoseReleased
  <2>1. pose.closed /\ pose.client = NoClient /\ hand["keeper"].step = "idle"
        /\ hand["tick"].step = "idle" /\ hand["closer"].step = "done"
    BY DEF ClientsInv, Attended, Stands
  <2>2. \A t \in Threads : hand[t].with = NoClient
    BY <2>1 DEF ClientsInv, Manned, Threads
  <2>3. NoClient \notin open
    BY DEF ClientsInv, Counted, NoClient
  <2> QED BY <2>1, <2>2, <2>3 DEF ClientsInv, NoneOrphaned, Poses, Hands
<1>2. OnePose
  <2> SUFFICES ASSUME ~raced PROVE Cardinality(open \cap Poses) <= 1
    BY DEF OnePose
  <2>1. \E x : open \cap Poses \subseteq {x}
    <3>1. Poses = {pose.client, hand["tick"].with, hand["keeper"].with, hand["closer"].with}
      BY DEF Poses, Hands, Threads
    <3>2. NoClient \notin open
      BY DEF ClientsInv, Counted, NoClient
    <3>3. CASE hand["closer"].with # NoClient
      <4>1. pose.client = NoClient /\ hand["keeper"].with = NoClient /\ hand["tick"].with = NoClient
        BY <3>3 DEF ClientsInv, Attended, Manned, Threads
      <4> QED BY <3>1, <3>2, <4>1
    <3>4. CASE hand["closer"].with = NoClient /\ hand["tick"].with # NoClient
      <4>1. pose.client = NoClient /\ hand["keeper"].with = NoClient
        BY <3>4 DEF ClientsInv, Attended, Manned, Threads
      <4> QED BY <3>1, <3>2, <3>4, <4>1
    <3>5. CASE hand["closer"].with = NoClient /\ hand["tick"].with = NoClient
      <4>1. pose.client = NoClient \/ hand["keeper"].with = NoClient
        BY <3>5 DEF ClientsInv, Attended, Manned, Threads
      <4> QED BY <3>1, <3>2, <3>5, <4>1
    <3> QED BY <3>3, <3>4, <3>5
  <2>2. PICK x : open \cap Poses \subseteq {x}
    BY <2>1
  <2>3. IsFiniteSet({x}) /\ Cardinality({x}) = 1
    BY FS_Singleton
  <2>4. Cardinality(open \cap Poses) <= Cardinality({x})
    BY <2>2, <2>3, FS_Subset
  <2> QED BY <2>3, <2>4
<1> QED BY <1>1, <1>2 DEF ClientsSound, ClientsInv, Recording

--------------------------------------------------------------------------------
\* _release_client takes the client out of the reader, into the hands of the thread.
LEMMA LetGoKeeps ==
  ASSUME ClientsAssumption, ClientsInv, ReadFails \/ CloseReader
  PROVE  ClientsInv'
<1> DEFINE t == IF ReadFails THEN "tick" ELSE "closer"
<1>1. /\ t \in {"tick", "closer"} /\ LetGo(t) /\ hand["tick"].step = "idle" /\ ~pose.closed
      /\ UNCHANGED <<use, open, made, stuck, raced>>
      /\ keeping' <=> keeping
      /\ t = "tick" => pose.client # NoClient /\ (outlived' <=> outlived)
      /\ t = "closer" => ~keeping /\ (outlived' <=> hand["keeper"].step # "idle")
  <2>1. CASE ReadFails
    BY <2>1 DEF ReadFails, Stands
  <2>2. CASE ~ReadFails
    <3>1. CloseReader /\ t = "closer"
      BY <2>2
    <3>2. outlived' <=> hand["keeper"].step # "idle"
      BY <3>1, Zenon DEF CloseReader, Stands
    <3> QED BY <3>1, <3>2 DEF CloseReader, Stands
  <2> QED BY <2>1, <2>2
<1> HIDE DEF t
<1>2. /\ hand'[t].step = (IF pose.client = NoClient THEN "arm" ELSE "close")
      /\ hand'[t].with = pose.client
      /\ \A u \in Threads : u # t => hand'[u] = hand[u]
      /\ hand' \in [Threads -> [step : {"idle", "close", "disconnect", "arm", "dial", "adopt", "done"},
                                with : 0 .. MaxClients]]
  BY <1>1 DEF LetGo, ClientsInv, ClientsTypeOK, Threads, NoClient
<1>2a. /\ pose'.client = NoClient
       /\ pose'.closed <=> t = "closer"
       /\ pose'.absent = pose.absent /\ pose'.wait = pose.wait
       /\ pose' = [client |-> pose'.client, absent |-> pose'.absent, wait |-> pose'.wait,
                   closed |-> pose'.closed]
  BY <1>1, Zenon DEF LetGo, ClientsInv, ClientsTypeOK
<1>2b. pose' \in [client : 0 .. MaxClients, absent : BOOLEAN, wait : BOOLEAN, closed : BOOLEAN]
  <2>1. pose.absent \in BOOLEAN /\ pose.wait \in BOOLEAN /\ NoClient \in 0 .. MaxClients
    BY DEF ClientsInv, ClientsTypeOK, ClientsAssumption, NoClient
  <2>2. pose'.closed \in BOOLEAN
    BY <1>1, Zenon DEF LetGo, ClientsInv, ClientsTypeOK
  <2> QED BY <1>2a, <2>1, <2>2
<1>3. hand["closer"].step = "idle" /\ hand["closer"].with = NoClient /\ hand["tick"].with = NoClient
  BY <1>1 DEF ClientsInv, Attended, Manned, Threads
<1>4. ClientsTypeOK' /\ Recording'
  BY <1>1, <1>2, <1>2a, <1>2b DEF ClientsInv, ClientsTypeOK, Recording, MicStopped
<1>5. Manned' /\ Counted' /\ HeldOnce' /\ Up'
  BY <1>1, <1>2, <1>2a, <1>3 DEF ClientsInv, Manned, Counted, HeldOnce, Up, Dismissing, Threads, NoClient
<1>6. Stubborn' /\ NoneOrphaned'
  BY <1>1, <1>2, <1>2a, <1>3 DEF ClientsInv, Manned, Counted, Stubborn, NoneOrphaned, Poses, Hands, Threads,
     NoClient
<1>7. Attended'
  BY <1>1, <1>2, <1>2a, <1>3 DEF ClientsInv, Manned, Attended, Threads, NoClient
<1> QED BY <1>4, <1>5, <1>6, <1>7 DEF ClientsInv

\* close, and disconnect when that one raises: the client is gone, or would not go.
LEMMA ReleaseKeeps ==
  ASSUME ClientsAssumption, ClientsInv, NEW t \in Threads, Release(t)
  PROVE  ClientsInv'
<1>1. /\ hand[t].step \in {"close", "disconnect"} /\ t \in {"tick", "closer"}
      /\ UNCHANGED <<pose, keeping, outlived, use, made, raced>>
  BY DEF Release, ClientsInv, Manned, Threads
<1>2. /\ hand'[t].with = hand[t].with
      /\ \A u \in Threads : u # t => hand'[u] = hand[u]
      /\ hand' \in [Threads -> [step : {"idle", "close", "disconnect", "arm", "dial", "adopt", "done"},
                                with : 0 .. MaxClients]]
      /\ hand'[t].step \in {"disconnect", "arm"}
  BY <1>1 DEF Release, Go, AfterRaise, ClientsInv, ClientsTypeOK, Threads
<1>3. \/ hand'[t].step = "arm" /\ open' = open \ {hand[t].with} /\ stuck' = stuck
      \/ hand'[t].step = "arm" /\ open' = open /\ stuck' = stuck \cup {hand[t].with}
      \/ hand'[t].step = "disconnect" /\ open' = open /\ stuck' = stuck
  BY <1>1 DEF Release, Go, AfterRaise, ClientsInv, ClientsTypeOK, Threads, Stands
<1>4. hand[t].with \in open /\ hand[t].with # NoClient /\ hand[t].with # use.with
      /\ hand[t].with # pose.client /\ hand[t].with \notin stuck
  <2>1. hand[t].with \in open
    BY <1>1 DEF ClientsInv, Up
  <2>2. hand[t].with # NoClient
    BY <2>1 DEF ClientsInv, Counted, NoClient
  <2> QED BY <1>1, <2>1, <2>2 DEF ClientsInv, HeldOnce, Stubborn
<1>4a. \A u \in Threads : u # t => hand[u].with # hand[t].with
  BY <1>4 DEF ClientsInv, HeldOnce
<1>5. ClientsTypeOK' /\ Recording'
  <2>1. open' \subseteq 1 .. MaxClients /\ stuck' \subseteq open'
    BY <1>3, <1>4 DEF ClientsInv, ClientsTypeOK
  <2> QED BY <1>1, <1>2, <2>1 DEF ClientsInv, ClientsTypeOK, Recording, MicStopped
<1>6. /\ open' \subseteq open /\ \A x \in open : x # hand[t].with => x \in open'
      /\ hand'[t].step # "arm" => hand[t].with \in open'
  BY <1>3, <1>4
<1>6a. \A u \in Threads : hand'[u].with = hand[u].with
  BY <1>2
<1>6b. Manned' /\ Counted' /\ HeldOnce'
  BY <1>1, <1>2, <1>6, <1>6a DEF ClientsInv, Manned, Counted, HeldOnce, Dismissing, Threads
<1>6c. Up'
  BY <1>1, <1>2, <1>4, <1>4a, <1>6, <1>6a DEF ClientsInv, Up
<1>7. /\ hand'[t].step = "arm" /\ hand[t].with \in open' => hand[t].with \in stuck'
      /\ \A x : x # hand[t].with => (x \in stuck' <=> x \in stuck)
      /\ hand'[t].step # "arm" => hand[t].with \notin stuck'
      /\ stuck' \subseteq open'
  BY <1>3, <1>4 DEF ClientsInv, ClientsTypeOK
<1>7a. Stubborn'
  BY <1>1, <1>2, <1>4, <1>4a, <1>6, <1>6a, <1>7 DEF ClientsInv, Stubborn
<1>7b. Hands' = Hands /\ stuck \subseteq stuck'
  BY <1>3, <1>6a DEF Hands
<1>7c. NoneOrphaned'
  BY <1>1, <1>6, <1>7b DEF ClientsInv, NoneOrphaned, Poses
<1>8. Attended'
  BY <1>1, <1>2, <1>3 DEF ClientsInv, Manned, Attended, Threads, NoClient
<1> QED BY <1>5, <1>6b, <1>6c, <1>7a, <1>7c, <1>8 DEF ClientsInv

\* The wait before the next attempt begins after the release.
LEMMA ArmKeeps ==
  ASSUME ClientsAssumption, ClientsInv, NEW t \in Threads, Arm(t)
  PROVE  ClientsInv'
<1>1. /\ hand[t].step = "arm" /\ t \in {"tick", "closer"}
      /\ UNCHANGED <<keeping, outlived, use, open, made, stuck, raced>>
  BY DEF Arm, Stands, ClientsInv, Manned, Threads
<1>2. /\ hand'[t].with = NoClient /\ hand'[t].step = (IF t = "closer" THEN "done" ELSE "idle")
      /\ \A u \in Threads : u # t => hand'[u] = hand[u]
      /\ hand' \in [Threads -> [step : {"idle", "close", "disconnect", "arm", "dial", "adopt", "done"},
                                with : 0 .. MaxClients]]
  BY <1>1 DEF Arm, ClientsInv, ClientsTypeOK, ClientsAssumption, Threads, NoClient
<1>3. pose'.client = pose.client /\ pose'.closed = pose.closed
      /\ pose' \in [client : 0 .. MaxClients, absent : BOOLEAN, wait : BOOLEAN, closed : BOOLEAN]
  BY <1>1, Zenon DEF Arm, ClientsInv, ClientsTypeOK
<1>4. ClientsTypeOK' /\ Recording'
  BY <1>1, <1>2, <1>3 DEF ClientsInv, ClientsTypeOK, Recording, MicStopped
<1>5. Manned' /\ Counted' /\ HeldOnce' /\ Up'
  BY <1>1, <1>2, <1>3 DEF ClientsInv, Manned, Counted, HeldOnce, Up, Dismissing, Threads, NoClient
<1>6. Stubborn' /\ NoneOrphaned'
  BY <1>1, <1>2, <1>3 DEF ClientsInv, Manned, Counted, Up, Stubborn, NoneOrphaned, Poses, Hands,
     Threads, NoClient
<1>7. Attended'
  BY <1>1, <1>2, <1>3 DEF ClientsInv, Manned, Attended, Threads, NoClient
<1> QED BY <1>4, <1>5, <1>6, <1>7 DEF ClientsInv

\* The keeper's step: it may note that there is no SDK, wait for a time, or construct.
LEMMA WarmKeeps ==
  ASSUME ClientsAssumption, ClientsInv, Warm
  PROVE  ClientsInv'
<1>1. /\ hand["keeper"].step = "idle" /\ pose.client = NoClient /\ keeping /\ ~pose.closed
      /\ UNCHANGED <<keeping, outlived, use, open, made, stuck>>
  BY DEF Warm, Stands
<1>2. /\ \A t \in Threads : /\ hand'[t].with = hand[t].with
                            /\ t # "keeper" => hand'[t].step = hand[t].step
      /\ hand'["keeper"].step \in {"idle", "dial"}
      /\ hand' \in [Threads -> [step : {"idle", "close", "disconnect", "arm", "dial", "adopt", "done"},
                                with : 0 .. MaxClients]]
  BY <1>1 DEF Warm, Go, ClientsInv, ClientsTypeOK, Threads
<1>3. pose'.client = pose.client /\ (pose'.closed <=> pose.closed)
  BY DEF Warm, ClientsInv, ClientsTypeOK
<1>4. pose' \in [client : 0 .. MaxClients, absent : BOOLEAN, wait : BOOLEAN, closed : BOOLEAN]
  BY Zenon DEF Warm, ClientsInv, ClientsTypeOK
<1>5. /\ raced => raced'
      /\ ~raced' => hand["tick"].step = "idle"
  <2>1. raced' <=> raced \/ LettingGo("tick")
    BY Zenon DEF Warm
  <2> QED BY <2>1 DEF LettingGo, ClientsInv, Manned, Dismissing
<1>6. hand["keeper"].with = NoClient /\ hand["closer"].with = NoClient /\ hand["closer"].step = "idle"
  BY <1>1 DEF ClientsInv, Manned, Attended, Threads
<1>7. ClientsTypeOK' /\ Recording'
  BY <1>1, <1>2, <1>4 DEF ClientsInv, ClientsTypeOK, Recording, MicStopped
<1>8. Manned' /\ Counted' /\ HeldOnce' /\ Up'
  BY <1>1, <1>2, <1>3, <1>6 DEF ClientsInv, Manned, Counted, HeldOnce, Up, Dismissing, Threads, NoClient
<1>9. Stubborn' /\ NoneOrphaned'
  BY <1>1, <1>2, <1>3, <1>6 DEF ClientsInv, Manned, Counted, Stubborn, NoneOrphaned, Poses, Hands, Threads,
     NoClient
<1>10. Attended'
  BY <1>1, <1>2, <1>3, <1>5, <1>6 DEF ClientsInv, Manned, Attended, Threads, NoClient
<1> QED BY <1>7, <1>8, <1>9, <1>10 DEF ClientsInv

\* A construction makes a client nobody has seen, or raises.
LEMMA DialKeeps ==
  ASSUME ClientsAssumption, ClientsInv, Dial
  PROVE  ClientsInv'
<1>1. /\ hand["keeper"].step = "dial" /\ hand["keeper"].with = NoClient /\ pose.client = NoClient
      /\ UNCHANGED <<keeping, outlived, use, stuck, raced>>
  BY DEF Dial, Stands, ClientsInv, Attended, Manned, Threads
<1>2. hand["closer"].with = NoClient /\ (~raced => hand["tick"].step = "idle")
  BY <1>1 DEF ClientsInv, Attended
<1>3. CASE /\ made < MaxClients /\ made' = made + 1 /\ open' = open \union {made'}
           /\ hand' = [hand EXCEPT !["keeper"] = [step |-> "adopt", with |-> made']]
           /\ UNCHANGED pose
  <2>1. made \in Nat /\ made' \in 1 .. MaxClients /\ made' \notin 0 .. made
        /\ 0 .. made \subseteq 0 .. made' /\ 1 .. made \subseteq 1 .. made'
    BY <1>3 DEF ClientsInv, Counted, ClientsAssumption
  <2>2. /\ hand'["keeper"].step = "adopt" /\ hand'["keeper"].with = made'
        /\ \A t \in Threads : t # "keeper" => hand'[t] = hand[t]
        /\ hand' \in [Threads -> [step : {"idle", "close", "disconnect", "arm", "dial", "adopt", "done"},
                                  with : 0 .. MaxClients]]
    BY <1>3, <2>1 DEF ClientsInv, ClientsTypeOK, Threads
  <2>3. ClientsTypeOK' /\ Recording'
    BY <1>1, <1>3, <2>1, <2>2 DEF ClientsInv, ClientsTypeOK, Recording, MicStopped
  <2>4. Manned' /\ Counted'
    BY <1>1, <1>3, <2>1, <2>2 DEF ClientsInv, Manned, Counted, Threads
  <2>5. HeldOnce' /\ Up'
    BY <1>1, <1>3, <2>1, <2>2 DEF ClientsInv, Counted, HeldOnce, Up, Threads, NoClient
  <2>6. Stubborn'
    BY <1>1, <1>3, <2>1, <2>2 DEF ClientsInv, Counted, Stubborn, Threads
  <2>7. NoneOrphaned'
    BY <1>1, <1>3, <2>1, <2>2 DEF ClientsInv, Counted, NoneOrphaned, Poses, Hands, Threads, NoClient
  <2>8. Attended'
    BY <1>1, <1>2, <1>3, <2>2 DEF ClientsInv, Manned, Attended, Threads, NoClient
  <2> QED BY <2>3, <2>4, <2>5, <2>6, <2>7, <2>8 DEF ClientsInv
<1>4. CASE /\ pose' = [pose EXCEPT !.wait = TRUE] /\ Go("keeper", "idle")
           /\ UNCHANGED <<open, made>>
  <2>1. /\ hand'["keeper"].step = "idle" /\ hand'["keeper"].with = NoClient
        /\ \A t \in Threads : t # "keeper" => hand'[t] = hand[t]
        /\ hand' \in [Threads -> [step : {"idle", "close", "disconnect", "arm", "dial", "adopt", "done"},
                                  with : 0 .. MaxClients]]
    BY <1>1, <1>4 DEF Go, ClientsInv, ClientsTypeOK, Threads
  <2>2. pose'.client = pose.client /\ (pose'.closed <=> pose.closed)
    BY <1>4 DEF ClientsInv, ClientsTypeOK
  <2>3. pose' \in [client : 0 .. MaxClients, absent : BOOLEAN, wait : BOOLEAN, closed : BOOLEAN]
    BY <1>4, Zenon DEF ClientsInv, ClientsTypeOK
  <2>4. ClientsTypeOK' /\ Recording'
    BY <1>1, <1>4, <2>1, <2>3 DEF ClientsInv, ClientsTypeOK, Recording, MicStopped
  <2>5. Manned' /\ Counted' /\ HeldOnce' /\ Up'
    BY <1>1, <1>4, <2>1, <2>2 DEF ClientsInv, Manned, Counted, HeldOnce, Up, Dismissing, Threads, NoClient
  <2>6. Stubborn' /\ NoneOrphaned'
    BY <1>1, <1>4, <2>1, <2>2 DEF ClientsInv, Manned, Counted, Stubborn, NoneOrphaned, Poses, Hands, Threads,
       NoClient
  <2>7. Attended'
    BY <1>1, <1>2, <2>1, <2>2 DEF ClientsInv, Manned, Attended, Threads, NoClient
  <2> QED BY <2>4, <2>5, <2>6, <2>7 DEF ClientsInv
<1> QED BY <1>3, <1>4 DEF Dial

\* The reader takes over what the keeper constructed.
LEMMA AdoptKeeps ==
  ASSUME ClientsAssumption, ClientsInv, Adopt
  PROVE  ClientsInv'
<1> DEFINE new == hand["keeper"].with
<1>1. /\ hand["keeper"].step = "adopt" /\ pose.client = NoClient
      /\ UNCHANGED <<keeping, outlived, use, open, made, stuck, raced>>
  BY DEF Adopt, Stands, ClientsInv, Attended
<1>2. /\ hand'["keeper"].step = "idle" /\ hand'["keeper"].with = NoClient
      /\ \A t \in Threads : t # "keeper" => hand'[t] = hand[t]
      /\ hand' \in [Threads -> [step : {"idle", "close", "disconnect", "arm", "dial", "adopt", "done"},
                                with : 0 .. MaxClients]]
  BY <1>1 DEF Adopt, AtRest, ClientsInv, ClientsTypeOK, ClientsAssumption, Threads, NoClient
<1>3. pose'.client = new /\ (pose'.closed <=> pose.closed)
  BY DEF Adopt, ClientsInv, ClientsTypeOK
<1>4. new \in open /\ new \in 0 .. MaxClients /\ new # NoClient /\ new # use.with /\ new \notin stuck
      /\ \A t \in Threads : t # "keeper" => hand[t].with # new
  <2>1. "keeper" \in Threads
    BY DEF Threads
  <2>2. new \in open
    BY <1>1, <2>1 DEF ClientsInv, Up
  <2>3. new # NoClient /\ new \in 0 .. MaxClients
    BY <2>1, <2>2 DEF ClientsInv, Counted, ClientsTypeOK, NoClient
  <2> QED BY <1>1, <2>1, <2>2, <2>3 DEF ClientsInv, HeldOnce, Stubborn
<1>5. pose' \in [client : 0 .. MaxClients, absent : BOOLEAN, wait : BOOLEAN, closed : BOOLEAN]
  BY <1>4, Zenon DEF Adopt, ClientsInv, ClientsTypeOK
<1>6. hand["closer"].with = NoClient /\ (~raced => hand["tick"].step = "idle")
      /\ (pose.closed => outlived)
  BY <1>1 DEF ClientsInv, Attended
<1> HIDE DEF new
<1>7. ClientsTypeOK' /\ Recording'
  BY <1>1, <1>2, <1>5 DEF ClientsInv, ClientsTypeOK, Recording, MicStopped
<1>8. Manned' /\ Counted' /\ HeldOnce' /\ Up'
  <2>1. new \in 0 .. made
    BY DEF new, ClientsInv, Counted, Threads
  <2> QED BY <1>1, <1>2, <1>3, <1>4, <2>1
          DEF ClientsInv, Manned, Counted, HeldOnce, Up, Dismissing, Threads, NoClient
<1>9. Stubborn'
  BY <1>1, <1>2, <1>3, <1>4 DEF ClientsInv, Counted, Stubborn, Threads, NoClient
<1>10. NoneOrphaned'
  <2>1. Poses \subseteq Poses' \union {NoClient}
    BY <1>1, <1>2, <1>3 DEF Poses, Hands, Threads, new
  <2>2. NoClient \notin open
    BY DEF ClientsInv, Counted, NoClient
  <2> QED BY <1>1, <2>1, <2>2 DEF ClientsInv, NoneOrphaned
<1>11. Attended'
  BY <1>1, <1>2, <1>3, <1>6 DEF ClientsInv, Manned, Attended, Threads, NoClient
<1> QED BY <1>7, <1>8, <1>9, <1>10, <1>11 DEF ClientsInv

\* A wait ends, or the keeper is told to.
LEMMA TimeKeeps ==
  ASSUME ClientsAssumption, ClientsInv, TimePasses \/ StopKeeper
  PROVE  ClientsInv'
<1>1. /\ UNCHANGED <<hand, outlived, use, open, made, stuck, raced>>
      /\ ~keeping' \/ (keeping' <=> keeping)
      /\ pose'.client = pose.client /\ (pose'.closed <=> pose.closed)
  BY DEF TimePasses, StopKeeper, ClientsInv, ClientsTypeOK
<1>2. pose' \in [client : 0 .. MaxClients, absent : BOOLEAN, wait : BOOLEAN, closed : BOOLEAN]
  BY Zenon DEF TimePasses, StopKeeper, ClientsInv, ClientsTypeOK
<1>3. ClientsTypeOK' /\ Recording'
  BY <1>1, <1>2 DEF ClientsInv, ClientsTypeOK, Recording, MicStopped
<1>4. Manned' /\ Counted' /\ HeldOnce' /\ Up' /\ Stubborn'
  BY <1>1 DEF ClientsInv, Manned, Counted, HeldOnce, Up, Stubborn
<1>5. NoneOrphaned'
  BY <1>1 DEF ClientsInv, NoneOrphaned, Poses, Hands
<1>6. Attended'
  BY <1>1 DEF ClientsInv, Attended
<1> QED BY <1>3, <1>4, <1>5, <1>6 DEF ClientsInv

\* The other user makes a client of its own, keeps the one it has, or lets it go.
LEMMA UsingKeeps ==
  ASSUME ClientsAssumption, ClientsInv, NEW new, Using(new), Recording',
         \/ open' = open /\ made' = made /\ new.with = use.with
         \/ made < MaxClients /\ made' = made + 1 /\ open' = open \union {made'}
            /\ new.with = made' /\ use.with = NoClient
         \/ made' = made /\ open' = open \ {use.with} /\ new.with = NoClient
  PROVE  ClientsInv'
<1>1. use'.with = new.with /\ UNCHANGED <<pose, hand, keeping, outlived, stuck, raced>>
  BY DEF Using
<1>2. /\ made \in Nat /\ made' \in 0 .. MaxClients /\ 0 .. made \subseteq 0 .. made'
      /\ open' \subseteq 1 .. made' /\ open' \subseteq 1 .. MaxClients /\ use'.with \in 0 .. made'
  <2>1. /\ made \in Nat /\ MaxClients \in Nat /\ made \in 0 .. MaxClients
        /\ open \subseteq 1 .. made /\ use.with \in 0 .. made
    BY DEF ClientsInv, Counted, ClientsAssumption
  <2>2. CASE made' = made
    <3>1. open' \subseteq open /\ use'.with \in 0 .. made
      BY <1>1, <2>1, <2>2 DEF NoClient
    <3> QED BY <2>1, <2>2, <3>1
  <2>3. CASE made < MaxClients /\ made' = made + 1 /\ open' = open \union {made'} /\ new.with = made'
    BY <1>1, <2>1, <2>3
  <2> QED BY <2>2, <2>3
<1>3. /\ \A x \in 0 .. made : x # use.with => (x \in open' <=> x \in open)
      /\ \A x \in 0 .. made : x # NoClient /\ x # use.with => x # use'.with
      /\ use'.with \notin stuck
  BY <1>1, <1>2 DEF ClientsInv, Counted, Stubborn, NoClient
<1>4. stuck \subseteq open'
  BY <1>3 DEF ClientsInv, Counted, Stubborn
<1>5. ClientsTypeOK'
  BY <1>1, <1>2, <1>4 DEF ClientsInv, ClientsTypeOK, Recording, UseSet
<1>6. Manned' /\ Attended'
  BY <1>1 DEF ClientsInv, Manned, Attended
<1>7. Counted'
  BY <1>1, <1>2 DEF ClientsInv, Counted
<1>8. HeldOnce'
  BY <1>1, <1>3 DEF ClientsInv, Counted, HeldOnce
<1>9. Up'
  <2>1. NoClient \notin open
    BY DEF ClientsInv, Counted, NoClient
  <2> QED BY <1>1, <1>3, <2>1 DEF ClientsInv, Counted, HeldOnce, Up
<1>10. Stubborn'
  <2> SUFFICES ASSUME NEW t \in Threads, hand[t].step = "arm", hand[t].with \in open'
               PROVE  hand[t].with \in stuck
    BY <1>1, <1>3, <1>4 DEF ClientsInv, Stubborn
  <2>1. hand[t].with \in 0 .. made /\ hand[t].with # NoClient
    BY <1>2 DEF ClientsInv, Counted, NoClient
  <2>2. hand[t].with # use.with
    BY <2>1 DEF ClientsInv, HeldOnce
  <2> QED BY <1>3, <2>1, <2>2 DEF ClientsInv, Stubborn
<1>11. NoneOrphaned'
  <2>1. Poses' = Poses
    BY <1>1 DEF Poses, Hands
  <2>2. NoClient \notin open
    BY DEF ClientsInv, Counted, NoClient
  <2>3. \/ open' \subseteq open \union {use'.with}
           /\ use.with \in {NoClient, use'.with} \union (open \ open')
        \/ open' \subseteq open \ {use.with}
    BY <1>1
  <2> QED BY <1>1, <2>1, <2>2, <2>3 DEF ClientsInv, NoneOrphaned
<1> QED BY <1>5, <1>6, <1>7, <1>8, <1>9, <1>10, <1>11 DEF ClientsInv

LEMMA UnusedIs == Unused \in UseSet /\ Unused.at = "idle" /\ Unused.with = NoClient /\ ~Unused.mic
  BY DEF Unused, UseSet, NoClient

\* What a client of one's own is used for.
LEMMA EnterKeeps ==
  ASSUME ClientsAssumption, ClientsInv, NEW kind \in Uses, Enter(kind)
  PROVE  ClientsInv'
<1> USE DEF ClientsInv
<1>1. use.at = "idle" /\ use.with = NoClient /\ ~use.mic
  BY DEF Enter, Recording
<1>2. CASE /\ made < MaxClients /\ made' = made + 1 /\ open' = open \union {made'}
           /\ Using([Unused EXCEPT !.kind = kind, !.with = made',
                       !.at = IF kind = "media" THEN "record" ELSE "body"])
  <2> DEFINE at == IF kind = "media" THEN "record" ELSE "body"
             new == [Unused EXCEPT !.kind = kind, !.with = made', !.at = at]
  <2>1. made' \in Nat /\ at \in {"record", "body"} /\ (at = "record" => kind = "media")
    BY <1>2 DEF Counted, ClientsAssumption
  <2>2. Using(new) /\ use' = new
    BY <1>2 DEF Using
  <2> HIDE DEF at
  <2>3. new.kind = kind /\ new.at = at /\ new.with = made' /\ ~new.mic /\ new \in UseSet
    BY <2>1, UnusedIs DEF UseSet
  <2> HIDE DEF new
  <2>4. Recording'
    BY <2>1, <2>2, <2>3 DEF Recording, MicStopped
  <2> QED BY <1>1, <1>2, <2>2, <2>3, <2>4, UsingKeeps
<1>3. CASE UNCHANGED <<open, made>> /\ Using([use EXCEPT !.kind = kind, !.raises = TRUE])
  <2> DEFINE new == [use EXCEPT !.kind = kind, !.raises = TRUE]
  <2>1. new.at = "idle" /\ new.with = use.with /\ ~new.mic /\ use.with = NoClient
    BY <1>1 DEF Recording
  <2>2. new \in UseSet
    BY Zenon DEF Recording, UseSet
  <2>3. Using(new) /\ use' = new
    BY <1>3 DEF Using
  <2> HIDE DEF new
  <2>4. Recording'
    BY <1>1, <2>1, <2>2, <2>3 DEF Recording, MicStopped
  <2> QED BY <1>3, <2>1, <2>3, <2>4, UsingKeeps
<1> QED BY <1>2, <1>3 DEF Enter

LEMMA UseKeeps ==
  ASSUME ClientsAssumption, ClientsInv, Record \/ Body \/ Look \/ Stop
  PROVE  ClientsInv'
<1> USE DEF ClientsInv
<1>1. UNCHANGED <<open, made>>
  BY DEF Record, Body, Look, Stop
<1>2. /\ UNCHANGED <<pose, hand, keeping, outlived, stuck, raced>>
      /\ use'.with = use.with /\ use'.kind = use.kind
      /\ use' \in UseSet
  BY DEF Record, Body, Look, Stop, Using, Leaving, Recording, UseSet
<1>3. /\ use'.mic => use'.kind = "media" /\ use'.at \in {"body", "stop", "exit"}
      /\ use'.at \notin {"idle", "record"}
      /\ use'.at = "exit" /\ use'.mic => use'.raises
  <2>1. CASE Record
    <3>1. ~use.mic /\ use.kind = "media"
      BY <2>1 DEF Record, Recording
    <3> QED BY <2>1, <3>1 DEF Record, Using, Recording, UseSet
  <2>2. CASE Body
    BY <2>2 DEF Body, Using, Leaving, Recording, UseSet
  <2>3. CASE Look
    BY <2>3 DEF Look, Using, Recording, UseSet
  <2>4. CASE Stop
    BY <2>4 DEF Stop, Using, Recording, UseSet
  <2> QED BY <2>1, <2>2, <2>3, <2>4
<1>4. Recording'
  BY <1>2, <1>3 DEF Recording, MicStopped
<1>5. Using(use')
  BY <1>2 DEF Using
<1> QED BY <1>1, <1>2, <1>4, <1>5, UsingKeeps

LEMMA LeaveKeeps ==
  ASSUME ClientsAssumption, ClientsInv, LeaveClient
  PROVE  ClientsInv'
<1> USE DEF ClientsInv
<1> DEFINE new == [Unused EXCEPT !.kind = use.kind, !.raises = use.raises]
<1>1. Using(new) /\ use' = new /\ made' = made /\ open' = open \ {use.with}
  BY DEF LeaveClient, Using
<1>2. use.kind \in Uses \cup {"none"} /\ use.raises \in BOOLEAN
  BY DEF Recording, UseSet
<1>3. new.at = "idle" /\ new.with = NoClient /\ ~new.mic /\ new \in UseSet
  BY <1>2, UnusedIs DEF UseSet
<1> HIDE DEF new
<1>4. Recording'
  BY <1>1, <1>3 DEF Recording, MicStopped
<1> QED BY <1>1, <1>3, <1>4, UsingKeeps

\* Every client of the robot that is up is known to somebody who will let it go, or would
\* not go; the reader of the pose has one at most, and none after its run (robot/).
THEOREM ClientsAreKept ==
  ASSUME ClientsAssumption
  PROVE  ClientsSpec => []ClientsSound
<1>1. ClientsInit => ClientsInv
  BY InitClients
<1>2. ClientsInv /\ [ClientsNext]_clientsVars => ClientsInv'
  <2> SUFFICES ASSUME ClientsInv, [ClientsNext]_clientsVars PROVE ClientsInv'
    OBVIOUS
  <2>1. CASE ReadFails \/ CloseReader
    BY <2>1, LetGoKeeps
  <2>2. CASE Warm \/ Dial \/ Adopt
    BY <2>2, WarmKeeps, DialKeeps, AdoptKeeps
  <2>3. CASE TimePasses \/ StopKeeper
    BY <2>3, TimeKeeps
  <2>4. CASE \E t \in Threads : Release(t) \/ Arm(t)
    BY <2>4, ReleaseKeeps, ArmKeeps
  <2>5. CASE \E kind \in Uses : Enter(kind)
    BY <2>5, EnterKeeps
  <2>6. CASE Record \/ Body \/ Look \/ Stop
    BY <2>6, UseKeeps
  <2>7. CASE LeaveClient
    BY <2>7, LeaveKeeps
  <2>8. CASE UNCHANGED clientsVars
    BY <2>8 DEF clientsVars, ClientsInv, ClientsTypeOK, Manned, Counted, HeldOnce, Up, Stubborn, Attended,
       Recording, MicStopped, NoneOrphaned, Poses, Hands
  <2> QED BY <2>1, <2>2, <2>3, <2>4, <2>5, <2>6, <2>7, <2>8 DEF ClientsNext
<1>3. ClientsInv => ClientsSound
  BY InvSays
<1> QED BY <1>1, <1>2, <1>3, PTL DEF ClientsSpec
=============================================================================
