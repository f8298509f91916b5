------------------------------ MODULE CommandSpool ------------------------------
(***************************************************************************)
(* The command spool (reachy/behavior/control.py): clients drop command    *)
(* files into a directory, one engine drains it in every tick and writes   *)
(* a result file per command, each client polls for its own result until   *)
(* it times out.  The engine may die between any two file operations; the  *)
(* next one empties the main spool before its first tick, but never the    *)
(* intents spool.  `behavior run` starts an engine when it finds none.     *)
(***************************************************************************)
EXTENDS Naturals, Sequences, FiniteSets

CONSTANTS Clients,     \* each drops one command, as a CLI call or a tool call does
          MaxLives     \* bound: engines started

SpoolAssumption == MaxLives \in Nat

VARIABLES resets,      \* this is the main spool, which run() resets
          files,       \* clients whose command has a file in commands/
          tmps,        \* those whose file is still under its temporary name
          results,     \* those with a file in results/
          st,          \* what each client does
          named,       \* commands in the order of their time_ns file names
          engine,      \* what the engine process is at
          present,     \* the files there were when this tick's scan began
          todo,        \* files listed and not yet read
          batch,       \* commands read (and unlinked), not yet applied
          lives,       \* engines started so far
          applied,     \* ghost: commands in the order they were applied
          wiped,       \* ghost: commands whose file a reset deleted
          crashed,     \* ghost: commands a crash took along
          prior,       \* ghost: what had landed when a command got its name
          stale        \* ghost: files that were there when this engine started

diskVars   == <<resets, files, tmps, results>>
engineVars == <<engine, present, todo, batch, lives>>
ghostVars  == <<applied, wiped, crashed, prior, stale>>
spoolVars == <<diskVars, st, named, engineVars, ghostVars>>

Members(s) == {s[i] : i \in DOMAIN s}
Earlier(a, b) == \E i, j \in DOMAIN named : i < j /\ named[i] = a /\ named[j] = b

Outcomes == {"answered", "unconfirmed", "failed"}
Running == {"scan", "read", "apply", "answer", "rest"}

SpoolTypeOK ==
  /\ resets \in BOOLEAN
  /\ files \in SUBSET Clients /\ tmps \in SUBSET Clients /\ results \in SUBSET Clients
  /\ st \in [Clients -> {"idle", "sure", "named", "written", "waiting"} \cup Outcomes]
  /\ named \in Seq(Clients) /\ batch \in Seq(Clients) /\ applied \in Seq(Clients)
  /\ engine \in {"down", "boot", "resetting"} \cup Running
  /\ present \in SUBSET Clients /\ todo \in SUBSET files /\ tmps \cap files = {}
  /\ lives \in 0 .. MaxLives
  /\ wiped \in SUBSET Clients /\ crashed \in SUBSET Clients
  /\ stale \in SUBSET Clients
  /\ prior \in [Clients -> SUBSET Clients]

SpoolInit ==
  /\ resets \in BOOLEAN
  /\ files = {} /\ tmps = {} /\ results = {}
  /\ st = [c \in Clients |-> "idle"]
  /\ named = <<>> /\ batch = <<>> /\ applied = <<>>
  /\ engine = "down" /\ present = {} /\ todo = {} /\ lives = 0
  /\ wiped = {} /\ crashed = {} /\ stale = {}
  /\ prior = [m \in Clients |-> {}]

Client(c, from, to) == st[c] = from /\ st' = [st EXCEPT ![c] = to]

--------------------------------------------------------------------------------
(* Clients *)

Spawn ==
  /\ engine = "down" /\ lives < MaxLives
  /\ engine' = "boot"
  /\ lives' = lives + 1
  /\ stale' = files

\* ensure_running: a process that is alive will do, whatever it is at.
EnsureRunning(c) ==
  /\ Client(c, "idle", "sure")
  /\ \/ Spawn
     \/ engine # "down" /\ UNCHANGED <<engine, lives, stale>>
  /\ UNCHANGED <<diskVars, named, present, todo, batch, applied, wiped, crashed, prior>>

\* submit: the name is taken from the clock, the file written under a temporary
\* name beside it, then moved to its own.  Only `behavior run` starts an engine.
Name(c) ==
  /\ Client(c, "idle", "named") \/ Client(c, "sure", "named")
  /\ named' = Append(named, c)
  /\ prior' = [prior EXCEPT ![c] = files]
  /\ UNCHANGED <<diskVars, engineVars, applied, wiped, crashed, stale>>

WriteTemp(c) ==
  /\ Client(c, "named", "written")
  /\ tmps' = tmps \cup {c}
  /\ UNCHANGED <<resets, files, results, named, engineVars, ghostVars>>

Moved(c) == tmps \ {c}

\* os.replace, which fails when a reset has taken the temporary file away.
Land(c) ==
  /\ \/ /\ c \in tmps
        /\ Client(c, "written", "waiting")
        /\ files' = files \cup {c}
     \/ /\ c \notin tmps
        /\ Client(c, "written", "failed")
        /\ UNCHANGED files
  /\ tmps' = Moved(c)
  /\ UNCHANGED <<resets, results, named, engineVars, ghostVars>>

\* await_result: the result under this command's own name, or None in time.
GetResult(c) ==
  /\ Client(c, "waiting", "answered")
  /\ c \in results
  /\ results' = results \ {c}
  /\ UNCHANGED <<resets, files, tmps, named, engineVars, ghostVars>>

TimeOut(c) ==
  /\ Client(c, "waiting", "unconfirmed")
  /\ c \notin results
  /\ UNCHANGED <<diskVars, named, engineVars, ghostVars>>

--------------------------------------------------------------------------------
(* The engine *)

\* An operator, or the service manager, starts the engine.
StartEngine ==
  /\ Spawn
  /\ UNCHANGED <<diskVars, st, named, present, todo, batch, applied, wiped, crashed, prior>>

\* What reset leaves of the commands directory.
AfterReset == IF resets THEN {} ELSE files

\* reset: every entry of commands/, then of results/, temporary ones included.
ResetCommands ==
  /\ engine = "boot"
  /\ engine' = "resetting"
  /\ files' = AfterReset
  /\ tmps' = (IF resets THEN {} ELSE tmps)
  /\ wiped' = wiped \cup (files \ AfterReset)
  /\ UNCHANGED <<resets, results, st, named, present, todo, batch, lives, applied, crashed, prior, stale>>

ResetResults ==
  /\ engine = "resetting"
  /\ engine' = "rest"
  /\ results' = IF resets THEN {} ELSE results
  /\ UNCHANGED <<resets, files, tmps, st, named, present, todo, batch, lives, ghostVars>>

\* drain, in every tick: the scan returns what was there throughout, and may or
\* may not return what lands while it runs.
ScanBegins ==
  /\ engine = "rest"
  /\ engine' = "scan"
  /\ present' = files
  /\ UNCHANGED <<diskVars, st, named, todo, batch, lives, ghostVars>>

ScanEnds ==
  /\ engine = "scan"
  /\ engine' = "read"
  /\ \E late \in SUBSET (files \ present) : todo' = present \cup late
  /\ UNCHANGED <<diskVars, st, named, present, batch, lives, ghostVars>>

\* sorted(): by name.
First(S) == CHOOSE m \in S : \A x \in S \ {m} : Earlier(m, x)

\* Faulty: the file stays until its command has been applied.
UnlinkedLater(m) == files

Unlinked(m) == files \ {m}

Read ==
  LET m == First(todo) IN
  /\ engine = "read" /\ todo # {}
  /\ todo' = todo \ {m}
  /\ files' = Unlinked(m)
  /\ batch' = Append(batch, m)
  /\ UNCHANGED <<resets, tmps, results, st, named, engine, present, lives, ghostVars>>

Drained ==
  /\ engine = "read" /\ todo = {}
  /\ engine' = "apply"
  /\ UNCHANGED <<diskVars, st, named, present, todo, batch, lives, ghostVars>>

RestOfBatch == Tail(batch)

Apply ==
  /\ engine = "apply" /\ batch # <<>>
  /\ engine' = "answer"
  /\ applied' = Append(applied, Head(batch))
  /\ batch' = RestOfBatch
  /\ UNCHANGED <<diskVars, st, named, present, todo, lives, wiped, crashed, prior, stale>>

ToAnswer == {applied[Len(applied)]}

WriteResult ==
  /\ engine = "answer"
  /\ engine' = "apply"
  /\ results' = results \cup ToAnswer
  /\ UNCHANGED <<resets, files, tmps, st, named, present, todo, batch, lives, ghostVars>>

TickEnds ==
  /\ engine = "apply" /\ batch = <<>>
  /\ engine' = "rest"
  /\ UNCHANGED <<diskVars, st, named, present, todo, batch, lives, ghostVars>>

\* Killed, or out of an exception: what was read and not applied is gone.
Crash ==
  /\ engine # "down"
  /\ engine' = "down"
  /\ crashed' = crashed \cup Members(batch)
  /\ todo' = {} /\ batch' = <<>> /\ present' = {}
  /\ UNCHANGED <<diskVars, st, named, lives, applied, wiped, prior, stale>>

Engine == \/ ResetCommands \/ ResetResults
          \/ ScanBegins \/ ScanEnds \/ Read \/ Drained \/ Apply \/ WriteResult \/ TickEnds

SpoolNext ==
  \/ Engine \/ StartEngine \/ Crash
  \/ \E c \in Clients : \/ EnsureRunning(c) \/ Name(c) \/ WriteTemp(c) \/ Land(c)
                        \/ GetResult(c) \/ TimeOut(c)

SpoolSpec == SpoolInit /\ [][SpoolNext]_spoolVars

\* A live engine process keeps running its loop.
SpoolFairSpec == SpoolSpec /\ WF_spoolVars(Engine)

--------------------------------------------------------------------------------
(* Properties *)

\* However the engine dies and comes back, no command is applied twice.
AtMostOnce == \A i, j \in DOMAIN applied : applied[i] = applied[j] => i = j

\* A command overtakes none that its tick's scan found there already and that had
\* landed before it was even named.
InOrderStep ==
  \A m \in Members(applied') \ Members(applied) :
     prior[m] \cap present \subseteq Members(applied')
InOrder == [][InOrderStep]_spoolVars

\* An engine never acts on what was in the main spool before it started.
NothingStaleStep ==
  resets => Members(applied') \cap stale \subseteq Members(applied)
NothingStale == [][NothingStaleStep]_spoolVars

\* Every command that landed is on disk, in the engine's hands or applied, unless a
\* reset or a crash took it.
NothingVanishes ==
  \A c \in Clients : st[c] \in {"waiting", "unconfirmed"} =>
    c \in files \cup Members(batch) \cup Members(applied) \cup wiped \cup crashed

\* What the spool promises of every command, however engines die and come back and
\* whatever clients do: the four above (control.py).
SpoolSound ==
  [](SpoolTypeOK /\ AtMostOnce /\ NothingVanishes) /\ InOrder /\ NothingStale

\* What lies in the spool of a running engine, or in its hands, does not stay there, unless
\* that engine dies: it is applied, or is among what NothingVanishes tells of.
Served ==
  \A m \in Clients : []<>(engine \in Running => m \notin files \cup Members(batch))

\* What nobody confirmed is still on disk for a later engine, if it was not applied.
UnconfirmedStays ==
  \A c \in Clients : ~resets /\ st[c] = "unconfirmed" =>
    c \in files \cup Members(batch) \cup Members(applied)
================================================================================
