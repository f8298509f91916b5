------------------------------ MODULE MCRecords ------------------------------
(* The runtime around the engine: its loop, what makes and unmakes its parts, *)
(* and what it is told through files and tells in turn, which are the command *)
(* spool, the rules of the shipped configuration and of an overlay, and the   *)
(* retained topics of the broker; on one small instance each.  The machines   *)
(* share no state: a behavior is one of theirs.                               *)
EXTENDS CommandSpool, RuleEngine, TickLoop

MCFields == {"pat", "rms"}
MCSenses == {s \in [MCFields -> {"none", "low", "high"}] :
               s["pat"] # "low" /\ s["rms"] # "none" /\ (s["pat"] = "high" => s["rms"] = "high")}
MCNames == {"gaze", "sway"}
MCForeign == {"gaze"}
MCModes == {"calm"}

When(f, op, v) == [field |-> f, op |-> op, value |-> v]
React(p, n, c, h, k) == [when |-> p, run |-> n, disable |-> {},
                         cooldown |-> c, hysteresis |-> h, at |-> k]
Inhibit(p, D, c) == [when |-> p, run |-> NoName, disable |-> D,
                     cooldown |-> c, hysteresis |-> 0, at |-> 0]

MCShipped ==
  [rules |-> [hush |-> Inhibit(When("pat", "is_true", 0), {"gaze"}, 2),
              look |-> React(When("rms", "gt", 0), "gaze", 2, 0, 1),
              wake |-> React(When("pat", "absent_for", 1), "gaze", 0, 2, 2)],
   modes |-> {}, mode |-> NoMode]

MCOverlay ==
  [rules |-> [look |-> React(When("pat", "is_false", 0), "sway", 1, 0, 1)],
   modes |-> {"calm"}, mode |-> "calm"]

MCOverlays == {MCOverlay}

VARIABLES
  part,  \* which of the machines runs
  broker_disk, broker_riding, broker_last, broker_ledger, broker_online,
  broker_thread, broker_stop, broker_live, broker_polled, broker_retained,
  broker_changes, broker_sessions, broker_failures

Broker == INSTANCE NervousPublisher WITH
  Substance <- {"active"}, Riders <- {"intents"}, Values <- {"v1", "v2"},
  MaxChanges <- 1, MaxSessions <- 2, MaxFailures <- 1, RefusesWhileUp <- FALSE,
  ShortOutages <- FALSE, Threads <- {"tick"}, disk <- broker_disk,
  riding <- broker_riding, last <- broker_last, ledger <- broker_ledger,
  online <- broker_online, thread <- broker_thread, stop <- broker_stop,
  live <- broker_live, polled <- broker_polled, retained <- broker_retained,
  changes <- broker_changes, sessions <- broker_sessions,
  failures <- broker_failures

BrokerVars ==
  <<broker_disk, broker_riding, broker_last, broker_ledger, broker_online,
    broker_thread, broker_stop, broker_live, broker_polled, broker_retained,
    broker_changes, broker_sessions, broker_failures>>

ASSUME SpoolAssumption
ASSUME RulesAssumption
ASSUME Broker!PublisherAssumption
ASSUME LoopAssumption
ASSUME CompositionAssumption

(* A machine that was not chosen stays as it begins.                         *)
MCInit ==
  /\ part \in {"spool", "rules", "broker", "loop", "composition"}
  /\ SpoolInit /\ (part # "spool" => ~resets)
  /\ RulesInit /\ (part # "rules" => config = MCShipped /\ sense = [f \in MCFields |-> IF f = "pat" THEN "none" ELSE "low"])
  /\ Broker!Init /\ broker_riding = [r \in {"intents"} |-> "v1"]
  /\ LoopInit
  /\ PartsInit /\ (part # "composition" => mode = "full")

SpoolStep == part = "spool" /\ SpoolNext
  /\ UNCHANGED <<part, rulesVars, BrokerVars, loopVars, partsVars>>
RulesStep == part = "rules" /\ RulesNext
  /\ UNCHANGED <<part, spoolVars, BrokerVars, loopVars, partsVars>>
BrokerStep == part = "broker" /\ Broker!Next
  /\ UNCHANGED <<part, spoolVars, rulesVars, loopVars, partsVars>>
LoopStep == part = "loop" /\ LoopNext
  /\ UNCHANGED <<part, spoolVars, rulesVars, BrokerVars, partsVars>>
CompStep == part = "composition" /\ PartsNext
  /\ UNCHANGED <<part, spoolVars, rulesVars, BrokerVars, loopVars>>

MCNext == SpoolStep \/ RulesStep \/ BrokerStep \/ LoopStep \/ CompStep

MCvars == <<part, spoolVars, rulesVars, BrokerVars, loopVars, partsVars>>

(* The fairness of each machine, as its module states it.                    *)
MCSpec ==
  /\ MCInit /\ [][MCNext]_MCvars
  /\ WF_(spoolVars)(part = "spool" /\ Engine)
  /\ WF_(parity)(part = "rules" /\ Ticks)
  /\ WF_(BrokerVars)(part = "broker" /\ Broker!Cache)
  /\ SF_(BrokerVars)(part = "broker" /\ Broker!RiderWrite("intents"))
  /\ WF_(BrokerVars)(part = "broker" /\ Broker!Step("tick"))

-----------------------------------------------------------------------------
(* What is given gets through: while an engine runs, every command in the    *)
(* spool is served (control.py); no rule whose condition holds starves       *)
(* (rule_engine.py); the ledger says of a topic only what the topic holds, a *)
(* stopped runtime does not read as online, the topics come to hold what     *)
(* state.json says, and when only the time stamp moves nothing is published  *)
(* (export/runtime.py).                                                      *)
AllGetsThrough ==
  /\ Served
  /\ NoStarvation
  /\ [](part = "broker" => Broker!RecordedMeansRetained)
  /\ [](part = "broker" => Broker!OfflineAfterStop)
  /\ Broker!Mirrors
  /\ Broker!Quiet

=============================================================================
