------------------------------ MODULE Processes ------------------------------
(***************************************************************************)
(* Background processes and their pid files: procsup.py and the            *)
(* supervisors built on it (behavior engine, embodied agent, sleep,        *)
(* vision), daemon.py and alive.py (demo-mode), which keep their own copy  *)
(* of the same start and stop.                                             *)
(*                                                                         *)
(* A step is one system call or one file operation of a command; between   *)
(* any two a process may die, and while no command holds its number a free *)
(* pid may go to a stranger.  A pid file tells nothing by itself: its pid  *)
(* may be dead, or somebody else's by now.                                 *)
(***************************************************************************)

(***************************************************************************)
(* Boot persistence: service/manager.py drives systemd --user units for    *)
(* the daemon and one of two presences, and purges units of older          *)
(* versions; demo_service.py, the demo-mode command's own copy, manages    *)
(* the demo unit alone.  Both reach systemd one call at a time, any call   *)
(* but a best-effort one may fail and end the command there, and the       *)
(* machine may reboot between two calls.                                   *)
(***************************************************************************)
EXTENDS Naturals, FiniteSets, Sequences

-----------------------------------------------------------------------------
(* Background processes                                                      *)

CONSTANTS Nouns,      \* the supervised programs of this instance
          Pids,
          Clients,    \* command lines that may run at the same time
          MaxSpawns   \* bound: processes started in a behavior

VARIABLES proc,       \* what runs under a pid
          pidfile,    \* per noun
          cmd,        \* per client: the command it is in
          down,       \* the nouns whose last command answered that nothing runs
          overlap,    \* the nouns two commands of which have run at the same time
          hit,        \* <<noun, program>>: a command of noun signalled program
          spawns

procsVars == <<proc, pidfile, cmd, down, overlap, hit, spawns>>

NoPid == 0
Free == "free"
Stranger == "stranger"

\* What tells the supervisors apart: does a start whose process died at once clear the
\* pid file, does it ask for a healthy daemon first, and is there a restart?
Behavior == [clears |-> FALSE, preflight |-> TRUE, restarts |-> FALSE]
Embody == [clears |-> TRUE, preflight |-> FALSE, restarts |-> TRUE]
Sleep == [clears |-> TRUE, preflight |-> FALSE, restarts |-> TRUE]
Vision == [clears |-> FALSE, preflight |-> TRUE, restarts |-> TRUE]
Demo == [clears |-> FALSE, preflight |-> TRUE, restarts |-> TRUE]
Supervised(n) == CASE n = "behavior" -> Behavior [] n = "embody" -> Embody
                   [] n = "sleep" -> Sleep [] n = "vision" -> Vision
                   [] n = "demo" -> Demo
                   [] n = "daemon" -> [clears |-> FALSE, preflight |-> FALSE, restarts |-> FALSE]

ProcessesAssumption ==
    /\ Nouns \subseteq {"behavior", "embody", "sleep", "vision", "demo", "daemon"}
    /\ Pids \subseteq Nat \ {NoPid}
    /\ MaxSpawns \in Nat

Idle == [verb |-> "none", noun |-> "none", step |-> "idle", pid |-> NoPid, again |-> FALSE]

IsAlive(p) == p # NoPid /\ proc[p] # Free

FaultyIsOurs(n, p) == IsAlive(p)
\* The identity test by exact argv tokens.
IsOurs(n, p) == proc[p] = n

Live(n) == {p \in Pids : proc[p] = n}
Busy(n) == \E c \in Clients : cmd[c].noun = n
Held(p) == \E c \in Clients : cmd[c].pid = p

ProcsInit ==
    /\ proc \in [Pids -> {Free, Stranger}]
    /\ pidfile \in [Nouns -> Pids \cup {NoPid}]      \* left from an earlier boot
    /\ cmd = [c \in Clients |-> Idle]
    /\ down = {}
    /\ overlap = {}
    /\ hit = {}
    /\ spawns = 0

-----------------------------------------------------------------------------
(* Helpers of the steps *)

At(c, verb, step) == cmd[c].verb = verb /\ cmd[c].step = step
Goto(c, step) == cmd' = [cmd EXCEPT ![c].step = step]
Finish(c, said) == /\ cmd' = [cmd EXCEPT ![c] = Idle]
                   /\ down' = IF said \in {"stopped", "not running"}
                              THEN down \cup {cmd[c].noun} ELSE down \ {cmd[c].noun}
Clear(n) == pidfile' = [pidfile EXCEPT ![n] = NoPid]

\* A command is typed.  A restart is a stop that goes on to a start.
Begin(c, verb, n, again) ==
    /\ cmd[c] = Idle
    /\ again => verb = "stop" /\ Supervised(n).restarts
    /\ cmd' = [cmd EXCEPT ![c] = [verb |-> verb, noun |-> n, step |-> "look",
                                  pid |-> NoPid, again |-> again]]
    /\ down' = down \ {n}
    /\ overlap' = IF Busy(n) THEN overlap \cup {n} ELSE overlap
    /\ UNCHANGED <<proc, pidfile, hit, spawns>>

-----------------------------------------------------------------------------
(* start *)

\* A live pid in the file is taken for ours, whoever it is.
Running(n) == IsAlive(pidfile[n])

StartLooks(c) ==
    /\ At(c, "start", "look")
    /\ LET n == cmd[c].noun IN
        \/ Running(n) /\ Finish(c, "already running")
        \/ /\ ~Running(n)
           /\ \/ Goto(c, "spawn") /\ UNCHANGED down
              \* preflight: no daemon answers; the daemon's own start: one does already
              \/ /\ Supervised(n).preflight \/ n = "daemon"
                 /\ Finish(c, "refused")
    /\ UNCHANGED <<proc, pidfile, overlap, hit, spawns>>

Spawn(c) ==
    /\ At(c, "start", "spawn")
    /\ \/ \E p \in Pids : /\ proc[p] = Free /\ ~Held(p) /\ spawns < MaxSpawns
                          /\ proc' = [proc EXCEPT ![p] = cmd[c].noun]
                          /\ cmd' = [cmd EXCEPT ![c].pid = p, ![c].step = "track"]
                          /\ spawns' = spawns + 1
                          /\ UNCHANGED down
       \/ Finish(c, "launch failed") /\ UNCHANGED <<proc, spawns>>
    /\ UNCHANGED <<pidfile, overlap, hit>>

Track(c) ==
    /\ At(c, "start", "track")
    /\ pidfile' = [pidfile EXCEPT ![cmd[c].noun] = cmd[c].pid]
    /\ Goto(c, "grace")
    /\ UNCHANGED <<proc, down, overlap, hit, spawns>>

\* After the grace: a process that died at once is told, and its pid file cleared by
\* the supervisors that do so.
Grace(c) ==
    /\ At(c, "start", "grace")
    /\ LET n == cmd[c].noun IN
        IF IsAlive(cmd[c].pid)
        THEN Finish(c, "started") /\ UNCHANGED pidfile
        ELSE /\ Finish(c, "exited")
             /\ IF Supervised(n).clears THEN Clear(n) ELSE UNCHANGED pidfile
    /\ UNCHANGED <<proc, overlap, hit, spawns>>

-----------------------------------------------------------------------------
(* stop *)

\* The end of a stop: the answer, or for a restart the start that follows.
Stopped(c, said) ==
    IF cmd[c].again
    THEN cmd' = [cmd EXCEPT ![c] = [@ EXCEPT !.verb = "start", !.step = "look", !.pid = NoPid]]
         /\ UNCHANGED down
    ELSE Finish(c, said)

\* No pid; a dead one or a stranger's, whose file is cleared; or a process of ours.
StopLooks(c) ==
    /\ At(c, "stop", "look")
    /\ LET n == cmd[c].noun  p == pidfile[n] IN
        \/ p = NoPid /\ Stopped(c, "not running") /\ UNCHANGED pidfile
        \/ p # NoPid /\ ~(IsAlive(p) /\ IsOurs(n, p)) /\ Clear(n) /\ Stopped(c, "not running")
        \/ /\ IsAlive(p) /\ IsOurs(n, p)
           /\ cmd' = [cmd EXCEPT ![c].pid = p, ![c].step = "term"]
           /\ UNCHANGED <<down, pidfile>>
    /\ UNCHANGED <<proc, overlap, hit, spawns>>

Signal(c) == hit' = hit \cup {<<cmd[c].noun, proc[cmd[c].pid]>>}

\* SIGTERM, or the process is gone already.
Terminate(c) ==
    /\ At(c, "stop", "term")
    /\ IF IsAlive(cmd[c].pid)
       THEN Signal(c) /\ Goto(c, "wait") /\ UNCHANGED <<down, pidfile>>
       ELSE Clear(cmd[c].noun) /\ Stopped(c, "not running") /\ UNCHANGED hit
    /\ UNCHANGED <<proc, overlap, spawns>>

\* What the end of a wait goes by.
Gone(c) == ~IsAlive(cmd[c].pid)

\* The wait ends with the process, or with its time; then SIGKILL, not tested again.
Waited(c) ==
    /\ At(c, "stop", "wait")
    /\ \/ Gone(c) /\ Clear(cmd[c].noun) /\ Stopped(c, "stopped")
       \/ IsAlive(cmd[c].pid) /\ Goto(c, "kill") /\ UNCHANGED <<down, pidfile>>
    /\ UNCHANGED <<proc, overlap, hit, spawns>>

Kill(c) ==
    /\ At(c, "stop", "kill")
    /\ IF IsAlive(cmd[c].pid)
       THEN Signal(c) /\ Goto(c, "reap") /\ UNCHANGED <<down, pidfile>>
       ELSE Clear(cmd[c].noun) /\ Stopped(c, "stopped") /\ UNCHANGED hit
    /\ UNCHANGED <<proc, overlap, spawns>>

\* A process that outlives its SIGKILL stays tracked, and the command fails.
Reap(c) ==
    /\ At(c, "stop", "reap")
    /\ IF Gone(c)
       THEN Clear(cmd[c].noun) /\ Stopped(c, "stopped")
       ELSE Finish(c, "failed") /\ UNCHANGED pidfile
    /\ UNCHANGED <<proc, overlap, hit, spawns>>

-----------------------------------------------------------------------------
(* The world *)

\* A process ends by itself, by a signal, or with its bugs.
Exit(p) ==
    /\ proc[p] # Free
    /\ proc' = [proc EXCEPT ![p] = Free]
    /\ UNCHANGED <<pidfile, cmd, down, overlap, hit, spawns>>

\* Pids come round again, though not while a command holds one.
Reuse(p) ==
    /\ proc[p] = Free /\ ~Held(p) /\ spawns < MaxSpawns
    /\ proc' = [proc EXCEPT ![p] = Stranger]
    /\ spawns' = spawns + 1
    /\ UNCHANGED <<pidfile, cmd, down, overlap, hit>>

\* Ctrl-C in one of the waits: the command is gone, its files stay as they are.
Interrupt(c) ==
    /\ cmd[c].step \in {"grace", "wait", "reap"}
    /\ cmd' = [cmd EXCEPT ![c] = Idle]
    /\ UNCHANGED <<proc, pidfile, down, overlap, hit, spawns>>

StartStep(c) == StartLooks(c) \/ Spawn(c) \/ Track(c) \/ Grace(c)
StopStep(c) == StopLooks(c) \/ Terminate(c) \/ Waited(c) \/ Kill(c) \/ Reap(c)

ProcsNext ==
    \/ \E c \in Clients, n \in Nouns, again \in BOOLEAN :
        \E verb \in {"start", "stop"} : Begin(c, verb, n, again)
    \/ \E c \in Clients : StartStep(c) \/ StopStep(c) \/ Interrupt(c)
    \/ \E p \in Pids : Exit(p) \/ Reuse(p)

ProcsSpec == ProcsInit /\ [][ProcsNext]_procsVars

-----------------------------------------------------------------------------
(* Properties *)

\* "Signal ONLY our own process": whatever pid a stale file names, no command ever
\* signals a program that is not the one it supervises (stop_tracked, is_ours).
OnlyOursSignalled == \A h \in hit : h[1] = h[2]

\* While the commands of a noun have come one after the other, whatever runs is what
\* the pid file says, so there is no second process and none is lost; only the
\* command that is spawning it knows more.
Tracked ==
    \A n \in Nouns : n \notin overlap =>
        /\ Cardinality(Live(n)) <= 1
        /\ Live(n) \subseteq {pidfile[n]} \cup {cmd[c].pid : c \in {d \in Clients : At(d, "start", "track")}}

\* A stop that answered without an error has left nothing of its noun running.
StoppedMeansGone ==
    \A n \in Nouns : n \in down /\ n \notin overlap => Live(n) = {}

\* Both halves of what a pid file is for.
PidFilesRight == Tracked /\ StoppedMeansGone

\* All of it.
ProcessesSound == OnlyOursSignalled /\ PidFilesRight

-----------------------------------------------------------------------------
(* Boot persistence                                                          *)

CONSTANTS Operators,      \* commands that may run at the same time
          Retired,        \* units of older versions
          MaxFailures     \* bound: systemctl calls that fail

VARIABLES files,     \* unit files written
          enabled, running,  \* what systemd says of each unit
          todo,       \* per operator: the calls still to make
          owned,     \* a presence has been enabled and no disable has been typed since
          mixed,     \* two commands have run at the same time
          torn,      \* two presences are enabled, left so by a call that failed or was
                     \* cut off, or by demo-mode's own enable
          failures

servVars == <<files, enabled, running, todo, owned, mixed, torn, failures>>

Daemon == "daemon"
Presences == {"demo", "runtime"}
Units == Presences \cup {Daemon} \cup Retired
ServicesAssumption ==
    /\ Retired \cap (Presences \cup {Daemon}) = {}
    /\ MaxFailures \in Nat

ServInit ==
    /\ files \in SUBSET Retired /\ enabled \in SUBSET files /\ running = enabled
    /\ todo = [o \in Operators |-> <<>>]
    /\ owned = FALSE /\ mixed = FALSE /\ torn = FALSE
    /\ failures = 0

-----------------------------------------------------------------------------
(* Commands as the calls they make, in order *)

Call(verb, units) == [verb |-> verb, units |-> units]
Siblings(mode) == Presences \ {mode}

FaultyEnable(mode) ==
    <<Call("purge", Retired), Call("write", Presences \cup {Daemon}), Call("reload", {}),
      Call("enable", {Daemon}), Call("disable", Siblings(mode)), Call("enable", {mode})>>
\* ServiceManager.enable: the siblings go last, so something is enabled throughout.
Enable(mode) ==
    <<Call("purge", Retired), Call("write", Presences \cup {Daemon}), Call("reload", {}),
      Call("enable", {Daemon}), Call("enable", {mode}), Call("disable", Siblings(mode))>>

\* ServiceManager.disable looks for the first enabled presence, then disables that one.
Disable == <<Call("look", {})>>

\* demo_service: the same unit name, and no sibling.
DemoInstall == <<Call("write", {"demo"}), Call("reload", {})>>
DemoEnable == <<Call("enable alone", {"demo"})>>
DemoDisable == <<Call("disable", {"demo"})>>
DemoRestart == <<Call("restart", {"demo"})>>
DemoUninstall == <<Call("remove", {"demo"}), Call("unlink", {"demo"}), Call("reload quietly", {})>>

Type(o, calls) ==
    /\ todo[o] = <<>>
    /\ todo' = [todo EXCEPT ![o] = calls]
    /\ mixed' = (mixed \/ \E p \in Operators : todo[p] # <<>>)
    /\ UNCHANGED <<files, enabled, running, torn, failures>>

TypeEnable(o, mode) == Type(o, Enable(mode)) /\ UNCHANGED owned
TypeDisable(o) == Type(o, Disable) /\ owned' = FALSE
TypeDemo(o) ==
    \E calls \in {DemoInstall, DemoEnable, DemoRestart, DemoDisable, DemoUninstall} :
        /\ Type(o, calls)
        /\ owned' = (owned /\ calls \notin {DemoDisable, DemoUninstall})

-----------------------------------------------------------------------------
(* One call *)

BestEffort == {"purge", "remove", "reload quietly"}
Enabling == {"enable", "enable alone"}
Turn(o) == Head(todo[o])
Advance(o) == todo' = [todo EXCEPT ![o] = Tail(@)]

SwitchOn(units) == enabled' = enabled \cup units /\ running' = running \cup units
SwitchOff(units) == enabled' = enabled \ units /\ running' = running \ units

Both(units) == Presences \subseteq units
Parting(o) == todo[o] # <<>> /\ Turn(o).verb = "disable"
Tears(cause) == torn' = (Both(enabled') /\ (torn \/ cause))

\* _enabled_presence_unit: the catalog first, then the retired.
FirstEnabled ==
    IF "demo" \in enabled THEN {"demo"}
    ELSE IF "runtime" \in enabled THEN {"runtime"}
    ELSE IF Retired \cap enabled = {} THEN {} ELSE {CHOOSE u \in Retired : u \in enabled}

\* What disable found is what it disables, whatever has been switched since.
Looks(o) ==
    /\ todo[o] # <<>> /\ Turn(o).verb = "look"
    /\ todo' = [todo EXCEPT ![o] = IF FirstEnabled = {} THEN <<>>
                                   ELSE <<Call("disable", FirstEnabled)>>]
    /\ UNCHANGED <<files, enabled, running, owned, mixed, torn, failures>>

\* A call that works.  Enabling a unit without a file fails.
Works(o) ==
    /\ todo[o] # <<>>
    /\ LET c == Turn(o) IN
        \/ c.verb = "purge" /\ SwitchOff(c.units) /\ files' = files \ c.units
        \/ c.verb = "write" /\ files' = files \cup c.units /\ UNCHANGED <<enabled, running>>
        \/ c.verb \in {"reload", "reload quietly"} /\ UNCHANGED <<files, enabled, running>>
        \/ c.verb \in Enabling /\ c.units \subseteq files /\ SwitchOn(c.units) /\ UNCHANGED files
        \/ c.verb \in {"disable", "remove"} /\ SwitchOff(c.units) /\ UNCHANGED files
        \/ c.verb = "restart" /\ running' = running \cup c.units /\ UNCHANGED <<files, enabled>>
        \/ c.verb = "unlink" /\ files' = files \ c.units /\ UNCHANGED <<enabled, running>>
    /\ owned' = (owned \/ (Turn(o).verb \in Enabling /\ Turn(o).units \subseteq Presences))
    /\ Tears(Turn(o).verb = "enable alone")
    /\ Advance(o)
    /\ UNCHANGED <<mixed, failures>>

\* A call that fails ends the command, unless it is one of the best-effort ones.
Fails(o) ==
    /\ todo[o] # <<>>
    /\ \/ failures < MaxFailures /\ failures' = failures + 1
       \/ Turn(o).verb \in Enabling /\ ~(Turn(o).units \subseteq files) /\ UNCHANGED failures
    /\ IF Turn(o).verb \in BestEffort THEN Advance(o) ELSE todo' = [todo EXCEPT ![o] = <<>>]
    /\ UNCHANGED <<files, enabled, running, owned, mixed>>
    /\ Tears(Parting(o))

\* Every command is cut off; what is enabled and has a file comes up.
Reboot ==
    /\ failures < MaxFailures /\ failures' = failures + 1
    /\ todo' = [o \in Operators |-> <<>>]
    /\ running' = enabled \cap files
    /\ UNCHANGED <<files, enabled, owned, mixed>>
    /\ Tears(\E o \in Operators : Parting(o))

ServNext ==
    \/ \E o \in Operators :
        \/ \E mode \in Presences : TypeEnable(o, mode)
        \/ TypeDisable(o) \/ TypeDemo(o)
        \/ Looks(o) \/ Works(o) \/ Fails(o)
    \/ Reboot

ServSpec == ServInit /\ [][ServNext]_servVars

-----------------------------------------------------------------------------
(* Properties *)

Quiet == \A o \in Operators : todo[o] = <<>>

\* "Any sequence of enables leaves at most one presence enabled": however commands
\* interleave and whichever of their calls fail or are cut off by a reboot.  The one way
\* to two is the call that parts them, lost after its command has enabled the other, or
\* demo-mode's own enable, which makes no such call; and any later call that takes a
\* presence away, such as the next enable's last, ends it.
AtMostOneOwner == Quiet /\ ~torn => ~Both(enabled)

\* The order of an enable: from the first presence on, and until a disable is typed,
\* a boot brings the robot up with some presence, whatever call fails or is cut off.
NeverBare == owned /\ ~mixed => enabled \cap files \cap Presences # {}

\* One presence, neither two nor none.
PresenceSound == AtMostOneOwner /\ NeverBare
=============================================================================
