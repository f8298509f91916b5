------------------------------ MODULE TickLoop ------------------------------
(* The engine's loop: one tick of work, a heartbeat in state.json, the tick    *)
(* seam under its meter, then sleep until the deadline; and the gate by which  *)
(* another motion loop asks that file whether an engine drives the head.       *)
(* Time is counted in units; every duration below is a number of them.         *)

(* The composition root of one engine process: `behavior engine run` makes and *)
(* starts its parts in an order, any step of which may raise; it runs ticks    *)
(* over them; it closes what it had, in another order.  A part's close joins   *)
(* its thread with a timeout only, so a thread may outlive its close.          *)
EXTENDS Integers, Sequences

-----------------------------------------------------------------------------
(* The loop                                                                  *)

CONSTANTS Period,        \* of a tick; also the meter's budget for the seam
          Heartbeat,     \* ticks between two writes of state.json
          TTL, Skew,     \* how old, or how far ahead, a heartbeat may be and count
          CalmToClose,   \* ticks within budget that end an overrun episode
          MaxErrors,     \* send failures in a row that end the run
          MaxWork, MaxSeam, MaxOver,   \* bounds: a tick's parts, a late wake-up
          MaxUptime, MaxOverruns       \* bounds: the box's uptime, overruns counted

LoopAssumption ==
  /\ {Period, Heartbeat, TTL, CalmToClose, MaxErrors} \subseteq Nat \ {0}
  /\ {Skew, MaxWork, MaxSeam, MaxOver, MaxUptime, MaxOverruns} \subseteq Nat
  /\ MaxOver <= Period
  (* No tick so long that the heartbeats between it and the last lapse.       *)
  /\ (Heartbeat + 1) * (Period + MaxWork + MaxSeam + MaxOver) <= TTL

VARIABLES
  doing,      \* "off", "top", "sent", "seam" or "pace"
  late,       \* now - deadline
  since,      \* time since this tick began
  intervals,  \* between the starts of the last three ticks, the older first
  beat,       \* ticks since state.json was last written
  dirty,      \* a command or an expiry this tick asks for a write at once
  age,        \* now - the file's "updated", as a reader sees it
  errors,     \* send failures in a row
  stop,       \* the flag a signal sets
  overruns, reported, streak, calm,   \* the meter: counted, told of, open episode
  falseLive,  \* ghost: how long an absent engine has been taken for a live one
  published,  \* ghost: this engine has written its first heartbeat
  intruded    \* ghost: a loop was let in beside an engine that had

clocks == <<late, since, age>>
meter == <<overruns, reported, streak, calm>>
ghosts == <<falseLive, published, intruded>>
loopVars == <<doing, clocks, intervals, beat, dirty, errors, stop, meter, ghosts>>

NoBeat == TTL + 1      \* no file, or one so old that its age no longer matters
Capped(n) == IF n > NoBeat THEN NoBeat ELSE n
EngineIsLive == age \in -Skew..TTL

LoopInit ==
  /\ doing = "off" /\ late = 0 /\ since = 0 /\ age = NoBeat
  /\ intervals = <<Period, Period>> /\ beat = 0 /\ dirty = FALSE
  /\ errors = 0 /\ stop = FALSE
  /\ overruns = 0 /\ reported = 0 /\ streak = 0 /\ calm = 0
  /\ falseLive = 0 /\ published = FALSE /\ intruded = FALSE

Elapse(d) ==
  /\ late' = late + d /\ since' = since + d /\ age' = Capped(age + d)

(* ----------------------------- the meter -------------------------------- *)
ClosedEpisode == reported' = reported + streak /\ streak' = 0
Counted == overruns' = overruns + 1 /\ calm' = 0 /\ streak' = streak + 1 /\ UNCHANGED reported
Calmed ==
  /\ calm' = IF calm + 1 > CalmToClose THEN CalmToClose ELSE calm + 1
  /\ IF calm + 1 >= CalmToClose THEN ClosedEpisode ELSE UNCHANGED <<reported, streak>>
  /\ UNCHANGED overruns

(* ------------------------------ the loop --------------------------------- *)
Start ==
  /\ doing = "off"
  /\ doing' = "top" /\ late' = 0 /\ since' = 0
  /\ beat' = Heartbeat /\ dirty' = FALSE /\ errors' = 0 /\ stop' = FALSE
  /\ intervals' = <<Period, Period>>
  /\ overruns' = 0 /\ reported' = 0 /\ streak' = 0 /\ calm' = 0
  /\ published' = FALSE
  /\ falseLive' = 0 /\ age' = NoBeat         \* reset unlinks the file of the last one
  /\ UNCHANGED intruded

Gone ==              \* what the process knew
  /\ doing' = "off" /\ late' = 0 /\ since' = 0 /\ intervals' = <<Period, Period>>
  /\ beat' = 0 /\ dirty' = FALSE /\ errors' = 0 /\ stop' = FALSE /\ calm' = 0
  /\ published' = FALSE
  /\ UNCHANGED <<falseLive, intruded>>

Ended == Gone /\ ClosedEpisode /\ UNCHANGED overruns   \* settled, the resources closed

(* Commands drained and applied, the senses read, the pose composed and sent.  *)
Work(w, changed, ok) ==
  /\ doing = "top" /\ ~stop
  /\ IF ~ok /\ errors + 1 >= MaxErrors
       THEN Ended /\ age' = Capped(age + w)
       ELSE /\ doing' = "sent" /\ Elapse(w)
            /\ dirty' = changed /\ errors' = IF ok THEN 0 ELSE errors + 1
            /\ UNCHANGED <<intervals, beat, stop, meter, ghosts>>

FaultyBeatDue == dirty          \* only a change is worth a write
BeatDue == dirty \/ beat + 1 >= Heartbeat

Publish ==
  /\ doing = "sent" /\ doing' = "seam"
  /\ IF BeatDue THEN age' = since /\ beat' = 0 /\ published' = TRUE
               ELSE beat' = beat + 1 /\ UNCHANGED <<age, published>>
  /\ UNCHANGED <<late, since, intervals, dirty, errors, stop, meter, falseLive, intruded>>

Seam(s) ==
  /\ doing = "seam" /\ doing' = "pace"
  /\ Elapse(s)
  /\ IF s > Period THEN overruns < MaxOverruns /\ Counted ELSE Calmed
  /\ UNCHANGED <<intervals, beat, dirty, errors, stop, ghosts>>

(* More than a period behind, the schedule restarts from now.                  *)
Lateness(l) == IF l >= 2 * Period THEN 0 ELSE l - Period

Pace(over) ==
  /\ doing = "pace" /\ doing' = "top"
  /\ LET slept == IF late < Period /\ ~stop THEN Period - late + over ELSE 0
     IN /\ late' = Lateness(late) + slept
        /\ intervals' = <<intervals[2], since + slept>>
        /\ since' = 0
        /\ age' = Capped(age + slept)
  /\ UNCHANGED <<beat, dirty, errors, stop, meter, ghosts>>

Stopped ==           \* the flag is looked at between two ticks only
  /\ doing = "top" /\ stop
  /\ Ended /\ UNCHANGED age

Signal ==
  /\ doing # "off" /\ ~stop /\ stop' = TRUE
  /\ UNCHANGED <<doing, clocks, intervals, beat, dirty, errors, meter, ghosts>>

(* ------------------------- the box around it ----------------------------- *)
Kill ==              \* the process is gone, its file stays; the meter says nothing
  /\ doing # "off" /\ Gone /\ UNCHANGED age
  /\ overruns' = 0 /\ reported' = 0 /\ streak' = 0

Pass ==
  /\ doing = "off" /\ age < NoBeat
  /\ age' = age + 1
  /\ falseLive' = falseLive + (IF EngineIsLive THEN 1 ELSE 0)
  /\ UNCHANGED <<doing, late, since, intervals, beat, dirty, errors, stop, meter, published, intruded>>

Reboot ==            \* the monotonic clock begins again, the file is still there
  /\ doing = "off" /\ age \in 0..TTL
  /\ \E uptime \in age..MaxUptime : age' = age - uptime
  /\ falseLive' = 0
  /\ UNCHANGED <<doing, late, since, intervals, beat, dirty, errors, stop, meter, published, intruded>>

(* pat run, sleep run and the probe ask first, and drive if no engine answers. *)
Enter ==
  /\ ~EngineIsLive
  /\ intruded' = (intruded \/ (doing # "off" /\ published))
  /\ UNCHANGED <<doing, clocks, intervals, beat, dirty, errors, stop, meter, falseLive, published>>

LoopNext ==
  \/ Start \/ Publish \/ Stopped \/ Signal \/ Kill \/ Pass \/ Reboot \/ Enter
  \/ \E w \in 0..MaxWork, changed, ok \in BOOLEAN : Work(w, changed, ok)
  \/ \E s \in 0..MaxSeam : Seam(s)
  \/ \E over \in 0..MaxOver : Pace(over)

LoopSpec == LoopInit /\ [][LoopNext]_loopVars

-----------------------------------------------------------------------------
(* A stall is never paid back in a burst: of any three ticks in a row the last *)
(* begins a period or more after the first.                                    *)
NeverBursts == doing = "top" /\ ~stop => intervals[1] + intervals[2] >= Period

(* Once an engine has published, no loop that asks is let in beside it.        *)
OwnerSeen == ~intruded /\ (doing # "off" /\ published => EngineIsLive)

(* An engine that is gone is taken for a live one no longer than the heartbeat *)
(* is good for, across a reboot of the box too.                                *)
GoneIsSeen == falseLive <= TTL + Skew + 1

(* Every overrun the meter counted is told of in an episode that ended, or in  *)
(* the one still open; when the loop is over none is left open.                *)
OverrunsTold == overruns = reported + streak /\ (doing = "off" => streak = 0)

LoopSound == NeverBursts /\ OwnerSeen /\ GoneIsSeen /\ OverrunsTold

-----------------------------------------------------------------------------
(* The parts of the process                                                  *)

CONSTANT MaxTicks      \* bound: ticks of a run

CompositionAssumption == MaxTicks \in Nat

Drivers == {"transcript", "face", "clip"}
Parts == Drivers \union
  {"speech", "reader", "media", "pump", "keeper", "tee", "realtime", "publisher", "presence", "metrics"}

(* Whose code is called by whom, from a thread of its own or in a tick.        *)
Uses == [p \in Parts |->
  CASE p \in {"speech", "pump", "face", "clip"} -> {"media"}
    [] p = "keeper"     -> {"reader", "media"}
    [] p = "transcript" -> {"pump", "realtime"}
    [] p = "presence"   -> {"publisher"}
    [] OTHER            -> {}]

(* The steps: a part is made (a name of the frame holds it), started (a thread *)
(* or a session lives), or configured (nothing lives, but it may raise).       *)
Make(p) == [do |-> "make", part |-> p]
Begin(p) == [do |-> "start", part |-> p]
Configure(p) == [do |-> "configure", part |-> p]

SensesFirst(pat) ==
  <<Make("speech"), Begin("speech")>>
  \o (IF pat THEN <<Make("reader"), Configure("pat")>> ELSE <<>>)
  \o <<Make("media"), Make("pump"), Configure("face recognition"), Make("face"), Make("clip")>>
  \o (IF pat THEN <<Begin("reader")>> ELSE <<>>)
  \o <<Begin("media"), Make("keeper"), Begin("keeper"), Begin("pump")>>
HearingNext == <<Make("tee"), Begin("tee"), Make("realtime"), Begin("realtime"), Make("transcript")>>
DriversLast == <<Configure("intents"), Begin("publisher"), Make("publisher"),
                 Make("presence"), Begin("presence"), Make("metrics")>>
ProbeSteps == <<Make("reader"), Begin("reader"), Begin("publisher"), Make("publisher"),
                Make("keeper"), Begin("keeper"), Make("metrics")>>

Modes == {"full", "no pat", "probe"}
Steps(m) == IF m = "probe" THEN ProbeSteps ELSE SensesFirst(m = "full") \o HearingNext \o DriversLast

FaultyCloseOrder ==   \* the clients first, as they were made
  <<"metrics", "media", "reader", "keeper", "speech", "transcript", "face", "clip",
    "realtime", "pump", "tee", "presence", "publisher">>
CloseOrder == <<"metrics", "keeper", "speech", "transcript", "face", "clip",
                "realtime", "pump", "tee", "media", "reader", "presence", "publisher">>

VARIABLES
  mode,       \* what was asked for on the command line and in the environment
  stage,      \* "composing", "running", "closing" or "over"
  at,         \* steps taken; then parts gone through by close
  made,       \* what the frame has a name for
  live,       \* whose thread or session lives
  asked,      \* ghost: whose close was called, raised or not
  early,      \* ghost: closed while another part that uses it was live and unasked
  ticks,
  cause       \* why the run is over: "", "raised", "interrupted" or "stopped"

partsVars == <<mode, stage, at, made, live, asked, early, ticks, cause>>

PartsInit ==
  /\ mode \in Modes /\ stage = "composing" /\ at = 0
  /\ made = {} /\ live = {} /\ asked = {} /\ early = {} /\ ticks = 0 /\ cause = ""

(* What the handler of a failed composition can name.  The publisher starts    *)
(* before its name is bound, with only imports and a constructor in between.   *)
Unwinds(why) ==
  /\ stage' = "closing" /\ at' = 0 /\ cause' = why
  /\ made' = IF why = "raised" THEN made \ {"metrics"} ELSE made

Step ==
  /\ stage = "composing" /\ at < Len(Steps(mode))
  /\ LET s == Steps(mode)[at + 1]
     IN /\ made' = IF s.do = "make" THEN made \union {s.part} ELSE made
        /\ live' = IF s.do = "start" THEN live \union {s.part} ELSE live
  /\ at' = at + 1
  /\ UNCHANGED <<mode, stage, asked, early, ticks, cause>>

Raise ==              \* an exception, or Ctrl-C before the handlers are installed
  /\ stage = "composing" /\ at < Len(Steps(mode))
  /\ Steps(mode)[at + 1] # Make("publisher")
  /\ Unwinds("raised")
  /\ UNCHANGED <<mode, live, asked, early, ticks>>

Run ==
  /\ stage = "composing" /\ at = Len(Steps(mode))
  /\ stage' = "running"
  /\ UNCHANGED <<mode, at, made, live, asked, early, ticks, cause>>

(* A tick: the tap takes the pump's chunk and hands it to every sink, the bus  *)
(* calls every driver and one that raises does not keep the next from its      *)
(* turn; the workers of the riders start with the first of them.               *)
RunTick ==
  /\ stage = "running" /\ ticks < MaxTicks
  /\ ticks' = ticks + 1
  /\ live' = live \union (made \intersect Drivers)
  /\ UNCHANGED <<mode, stage, at, made, asked, early, cause>>

(* The stop flag, the tick limit, or the transport's last straw: `finally`.    *)
Stop ==
  /\ stage = "running" /\ Unwinds("stopped")
  /\ UNCHANGED <<mode, live, asked, early, ticks>>

Depends(p) == {q \in live \ asked : p \in Uses[q]}

(* Each close in turn, its exception logged; the thread ends in time or not.   *)
Close(joins) ==
  /\ stage = "closing" /\ at < Len(CloseOrder)
  /\ at' = at + 1
  /\ LET p == CloseOrder[at + 1]
     IN IF p \in made
          THEN /\ asked' = asked \union {p}
               /\ early' = IF p \in live THEN early \union Depends(p) ELSE early
               /\ live' = IF joins THEN live \ {p} ELSE live
          ELSE UNCHANGED <<asked, early, live>>
  /\ UNCHANGED <<mode, stage, made, ticks, cause>>

Closed ==
  /\ stage = "closing" /\ at = Len(CloseOrder)
  /\ stage' = "over"
  /\ UNCHANGED <<mode, at, made, live, asked, early, ticks, cause>>

(* A second Ctrl-C: no Exception, so nothing isolates it, and `closed` is set. *)
Interrupt ==
  /\ stage = "closing" /\ stage' = "over" /\ cause' = "interrupted"
  /\ UNCHANGED <<mode, at, made, live, asked, early, ticks>>

PartsNext ==
  \/ Step \/ Raise \/ Run \/ RunTick \/ Stop \/ Closed \/ Interrupt
  \/ \E joins \in BOOLEAN : Close(joins)

PartsSpec == PartsInit /\ [][PartsNext]_partsVars

-----------------------------------------------------------------------------
(* Whether the composition failed at some step or the run ended, everything    *)
(* that had begun has been told to end, unless a second Ctrl-C cut that short. *)
AllReleased == stage = "over" /\ cause # "interrupted" => live \subseteq asked

(* Nothing is closed under a part that is still at work with it.               *)
DependentsFirst == early = {}

PartsReleased == AllReleased /\ DependentsFirst
=============================================================================
