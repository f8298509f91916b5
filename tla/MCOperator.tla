----------------------------- MODULE MCOperator -----------------------------
(* What an operator starts, stops, edits and looks for, on one small instance *)
(* each: background processes, boot services, sleep, the forge, the rules file, *)
(* the robots of the network, the hosts file, the clips other processes read,  *)
(* and the clients of the robot that commands and the runtime open.  The       *)
(* machines share no state, so a behavior is one of theirs; the initial state  *)
(* says which.                                                                 *)
EXTENDS Processes, Learning, Discovery, ClipRider, RobotClients

MCShipped == <<[id |-> 1, kind |-> "react", on |-> TRUE, sound |-> TRUE],
               [id |-> 2, kind |-> "inhibit", on |-> TRUE, sound |-> TRUE]>>
MCParts == {<<>>, <<[id |-> 3, kind |-> "react", on |-> TRUE, sound |-> FALSE]>>,
            <<[id |-> 1, kind |-> "react", on |-> FALSE, sound |-> FALSE],
              [id |-> 3, kind |-> "inhibit", on |-> TRUE, sound |-> TRUE],
              [id |-> 2, kind |-> "react", on |-> TRUE, sound |-> TRUE]>>}
MCDocs == {[lines |-> <<"localhost">>, ends |-> TRUE], [lines |-> <<"localhost">>, ends |-> FALSE],
           [lines |-> <<"other">>, ends |-> FALSE], [lines |-> <<"other", "localhost">>, ends |-> TRUE],
           [lines |-> <<>>, ends |-> TRUE]}

VARIABLES
  part,  \* which of the machines runs
  sleep_up, sleep_machine, sleep_queue, sleep_sending, sleep_busy, sleep_head,
  sleep_pats, sleep_flag, sleep_flagUp, sleep_wakes, sleep_env, sleep_woke

Slp == INSTANCE Sleeping WITH
  PatOnly <- FALSE, DrowsyAfter <- 1, AsleepAfter <- 2, PoseEvery <- 1,
  MoveTime <- 2, PatWindow <- 2, MaxStimuli <- 2, MaxFailures <- 1, MaxRuns <- 2,
  up <- sleep_up, machine <- sleep_machine, queue <- sleep_queue,
  sending <- sleep_sending, busy <- sleep_busy, head <- sleep_head,
  pats <- sleep_pats, flag <- sleep_flag, flagUp <- sleep_flagUp,
  wakes <- sleep_wakes, env <- sleep_env, woke <- sleep_woke

SlpVars ==
  <<sleep_up, sleep_machine, sleep_queue, sleep_sending, sleep_busy, sleep_head,
    sleep_pats, sleep_flag, sleep_flagUp, sleep_wakes, sleep_env, sleep_woke>>

ASSUME ProcessesAssumption
ASSUME ServicesAssumption
ASSUME Slp!SleepingAssumption
ASSUME ForgeAssumption
ASSUME FilesAssumption
ASSUME DiscoveryAssumption
ASSUME HostsAssumption
ASSUME ClipAssumption
ASSUME ClientsAssumption

(* A machine that was not chosen is off, or stays as it begins.              *)
ProcsOff == ProcsInit /\ proc = [p \in Pids |-> Free] /\ pidfile = [n \in Nouns |-> NoPid]
ServOff == ServInit /\ files = {}
SlpOff == Slp!Init
ForgeOff == ForgeInit
FilesOff == FileInit /\ rulesFile.head = <<>>
UnitsOff == UnitsInit /\ lan = [h \in Hosts |-> None] /\ kept = {}
PinOff == PinInit /\ file = [lines |-> <<>>, ends |-> TRUE]
ClipOff == ClipInit
ClientsOff == ClientsInit

MCInit ==
  \/ /\ part = "processes" /\ ProcsInit
     /\ ServOff /\ SlpOff /\ ForgeOff /\ FilesOff /\ UnitsOff /\ PinOff /\ ClipOff /\ ClientsOff
  \/ /\ part = "services" /\ ServInit
     /\ ProcsOff /\ SlpOff /\ ForgeOff /\ FilesOff /\ UnitsOff /\ PinOff /\ ClipOff /\ ClientsOff
  \/ /\ part = "sleep" /\ Slp!Init
     /\ ProcsOff /\ ServOff /\ ForgeOff /\ FilesOff /\ UnitsOff /\ PinOff /\ ClipOff /\ ClientsOff
  \/ /\ part = "forge" /\ ForgeInit
     /\ ProcsOff /\ ServOff /\ SlpOff /\ FilesOff /\ UnitsOff /\ PinOff /\ ClipOff /\ ClientsOff
  \/ /\ part = "files" /\ FileInit
     /\ ProcsOff /\ ServOff /\ SlpOff /\ ForgeOff /\ UnitsOff /\ PinOff /\ ClipOff /\ ClientsOff
  \/ /\ part = "units" /\ UnitsInit
     /\ ProcsOff /\ ServOff /\ SlpOff /\ ForgeOff /\ FilesOff /\ PinOff /\ ClipOff /\ ClientsOff
  \/ /\ part = "pin" /\ PinInit
     /\ ProcsOff /\ ServOff /\ SlpOff /\ ForgeOff /\ FilesOff /\ UnitsOff /\ ClipOff /\ ClientsOff
  \/ /\ part = "clip" /\ ClipInit
     /\ ProcsOff /\ ServOff /\ SlpOff /\ ForgeOff /\ FilesOff /\ UnitsOff /\ PinOff /\ ClientsOff
  \/ /\ part = "clients" /\ ClientsInit
     /\ ProcsOff /\ ServOff /\ SlpOff /\ ForgeOff /\ FilesOff /\ UnitsOff /\ PinOff /\ ClipOff

ProcsStep == part = "processes" /\ ProcsNext
  /\ UNCHANGED <<part, servVars, SlpVars, forgeVars, fileVars, unitsVars, pinVars, clipVars,
     clientsVars>>
ServStep == part = "services" /\ ServNext
  /\ UNCHANGED <<part, procsVars, SlpVars, forgeVars, fileVars, unitsVars, pinVars, clipVars,
     clientsVars>>
SlpStep == part = "sleep" /\ Slp!Next
  /\ UNCHANGED <<part, procsVars, servVars, forgeVars, fileVars, unitsVars, pinVars, clipVars,
     clientsVars>>
ForgeStep == part = "forge" /\ ForgeNext
  /\ UNCHANGED <<part, procsVars, servVars, SlpVars, fileVars, unitsVars, pinVars, clipVars,
     clientsVars>>
FilesStep == part = "files" /\ FileNext
  /\ UNCHANGED <<part, procsVars, servVars, SlpVars, forgeVars, unitsVars, pinVars, clipVars,
     clientsVars>>
UnitsStep == part = "units" /\ UnitsNext
  /\ UNCHANGED <<part, procsVars, servVars, SlpVars, forgeVars, fileVars, pinVars, clipVars,
     clientsVars>>
PinStep == part = "pin" /\ PinNext
  /\ UNCHANGED <<part, procsVars, servVars, SlpVars, forgeVars, fileVars, unitsVars, clipVars,
     clientsVars>>
ClipStep == part = "clip" /\ ClipNext
  /\ UNCHANGED <<part, procsVars, servVars, SlpVars, forgeVars, fileVars, unitsVars, pinVars,
     clientsVars>>
ClientsStep == part = "clients" /\ ClientsNext
  /\ UNCHANGED <<part, procsVars, servVars, SlpVars, forgeVars, fileVars, unitsVars, pinVars, clipVars>>

MCNext == ProcsStep \/ ServStep \/ SlpStep \/ ForgeStep \/ FilesStep \/ UnitsStep \/ PinStep \/ ClipStep \/ ClientsStep

MCvars == <<part, procsVars, servVars, SlpVars, forgeVars, fileVars, unitsVars, pinVars, clipVars, clientsVars>>

(* The fairness of each machine, as its module states it.                    *)
MCSpec ==
  /\ MCInit /\ [][MCNext]_MCvars
  /\ WF_(SlpVars)(part = "sleep" /\ Slp!Look)
  /\ WF_(SlpVars)(part = "sleep" /\ Slp!Tick(FALSE))
  /\ WF_(SlpVars)(part = "sleep" /\ Slp!Peek)
  /\ WF_(SlpVars)(part = "sleep" /\ Slp!Send)
  /\ WF_(SlpVars)(part = "sleep" /\ Slp!Drain)
  /\ WF_(SlpVars)(part = "sleep" /\ Slp!Join)

-----------------------------------------------------------------------------
(* Each wake gesture waits or has reached the robot exactly once, the flag   *)
(* file says what the robot does, and left undisturbed the robot falls       *)
(* asleep (cli/_commands/sleep.py).                                          *)
SleepSound ==
  /\ [](part = "sleep" => Slp!WakeKept)
  /\ [](part = "sleep" => Slp!FlagHonest)
  /\ Slp!FallsAsleep

=============================================================================
