------------------------------ MODULE EmbodyTools ------------------------------
(* The tools of the embodied mind (embody/tools.py), each a way into something *)
(* that is not its own: the engine's intents spool, the voice that talks to    *)
(* the room (embody/interjection.py), the rules file.  Calls come one at a     *)
(* time and wait for their answer; the engine, which lives and dies on its     *)
(* own, judges a command once more when it takes it from the spool. EmbodyTurns *)
(* has the turn around the calls, Learning what is written into the file.      *)
EXTENDS Naturals, Sequences

CONSTANTS MaxCalls, MaxChanges,   \* bounds: calls, changes of the world around
          MaxPerWindow            \* interjections one source has in a window

ToolsAssumption == {MaxCalls, MaxChanges, MaxPerWindow} \subseteq Nat

VARIABLES
  calls,     \* the calls so far: their kind, their answer, how often they took effect
  at,        \* what the last of them is at
  spool, results,   \* the intents namespace: ids of calls, and [id, ok]
  engine,    \* what it judges by, or Down
  policy,    \* authorization, a route to the voice, a warm room, admissions in the window
  changes

handsVars == <<calls, at, spool, results, engine, policy, changes>>

(* What a call may ask for: of the behaviors one plain, one that needs         *)
(* something to look at, the base layer for good, one of a lifecycle, one      *)
(* without an end, and one the registry's catalog leaves out.                  *)
Motions == {"goto", "bad goto"}
Runs == {"plain", "gaze", "base", "owned", "endless", "outside"}
Kinds == Motions \cup Runs \cup {"words", "no words", "rule", "bad rule", "garbled"}

Answers == {"none", "ok", "refused", "late", "unconfirmed", "tool-error"}

(* KindRegistry.dispatch: the shipped handlers, with what a context gives.     *)
Contexts == [inhibited : SUBSET {"plain"}, target : BOOLEAN, base : BOOLEAN]
Down == [inhibited |-> {}, target |-> FALSE, base |-> FALSE]    \* none judges by this: Live has a base
Live == {c \in Contexts : c.base}
Accepts(kind, context) ==
  /\ kind \in {"goto", "plain", "gaze", "base", "outside"} \ context.inhibited
  /\ kind = "gaze" => context.target
  /\ kind = "base" => context.base

(* _InertContext: nothing inhibited, no sense to look at, no base layer to add. *)
Inert == [inhibited |-> {}, target |-> FALSE, base |-> FALSE]
Preflight(kind) == Accepts(kind, Inert)

HandsInit ==
  /\ calls = <<>> /\ at = "idle" /\ spool = <<>> /\ results = {}
  /\ engine \in Live \cup {Down}
  /\ policy \in [auth : {"off", "warm", "proactive"}, route : BOOLEAN, warm : {FALSE}, spent : {0}]
  /\ changes = 0

Latest == Len(calls)
Kind == calls[Latest].kind
Answer(a) == at' = "idle" /\ calls' = [calls EXCEPT ![Latest].answer = a]

-----------------------------------------------------------------------------
(* dispatch: a tool by its name, arguments that can be read.                   *)
Dispatch ==
  /\ at = "idle" /\ Latest < MaxCalls
  /\ \E kind \in Kinds :
       calls' = Append(calls, [kind |-> kind, answer |-> "none", acted |-> 0])
  /\ at' = "handler"
  /\ UNCHANGED <<spool, results, engine, policy, changes>>

(* _require_catalog_name *)
FaultyInCatalog(kind) == TRUE
InCatalog(kind) == kind # "outside"

Commands(kind) == kind \in Motions \cup Runs
Admits == policy.auth = "proactive" \/ (policy.auth = "warm" /\ policy.warm)

(* _refuse, with the name of what refused: the words, the catalog, the         *)
(* preflight, a missing route, a cold room, a spent budget, the rules.         *)
RefuseCall ==
  /\ at = "handler"
  /\ \/ Kind \in {"garbled", "no words", "bad rule"}
     \/ Commands(Kind) /\ ~(InCatalog(Kind) /\ Preflight(Kind))
     \/ Kind = "words" /\ ~(policy.route /\ Admits /\ policy.spent < MaxPerWindow)
  /\ Answer("refused")
  /\ UNCHANGED <<spool, results, engine, policy, changes>>

(* _submit: the same payload, unless its file cannot be written.               *)
Submit ==
  /\ at = "handler" /\ Commands(Kind) /\ InCatalog(Kind) /\ Preflight(Kind)
  /\ \/ at' = "waiting" /\ spool' = Append(spool, Latest) /\ UNCHANGED calls
     \/ Answer("tool-error") /\ UNCHANGED spool
  /\ UNCHANGED <<results, engine, policy, changes>>

(* await_result: what the engine says, refusals too, or nothing in time.       *)
Confirmed ==
  /\ at = "waiting"
  /\ \E r \in results :
       /\ r.id = Latest /\ results' = results \ {r}
       /\ Answer(IF r.ok THEN "ok" ELSE "late")
  /\ UNCHANGED <<spool, engine, policy, changes>>

Unconfirmed ==
  /\ at = "waiting"
  /\ Answer("unconfirmed")
  /\ UNCHANGED <<spool, results, engine, policy, changes>>

-----------------------------------------------------------------------------
Done(id) == calls' = [calls EXCEPT ![id].acted = @ + 1]

(* A proposal to the voice: the budget is spent on its admission, then the     *)
(* seam is called, and may raise.                                              *)
Admit ==
  /\ at = "handler" /\ Kind = "words" /\ policy.route /\ Admits
  /\ policy.spent < MaxPerWindow
  /\ policy' = [policy EXCEPT !.spent = @ + 1]
  /\ at' = "admitted"
  /\ UNCHANGED <<calls, spool, results, engine, changes>>

Publish ==
  /\ at = "admitted" /\ at' = "idle"
  /\ \/ calls' = [calls EXCEPT ![Latest].answer = "ok", ![Latest].acted = 1]
     \/ calls' = [calls EXCEPT ![Latest].answer = "tool-error"]
  /\ UNCHANGED <<spool, results, engine, policy, changes>>

(* create_rule: the file, then the reload; the file stays when that raises.    *)
WriteRule ==
  /\ at = "handler" /\ Kind = "rule"
  /\ at' = "reload" /\ Done(Latest)
  /\ UNCHANGED <<spool, results, engine, policy, changes>>

Reload ==
  /\ at = "reload"
  /\ \E a \in {"ok", "tool-error"} : Answer(a)
  /\ UNCHANGED <<spool, results, engine, policy, changes>>

-----------------------------------------------------------------------------
(* The engine takes a command, and writes its verdict.                         *)
Drain ==
  /\ engine # Down /\ spool # <<>>
  /\ spool' = Tail(spool)
  /\ LET id == Head(spool)
         ok == Accepts(calls[id].kind, engine)
     IN  /\ results' = results \cup {[id |-> id, ok |-> ok]}
         /\ IF ok THEN Done(id) ELSE UNCHANGED calls
  /\ UNCHANGED <<at, engine, policy, changes>>

(* Or dies with it; then another engine comes, to the same spool.              *)
Dies ==
  /\ engine # Down /\ changes < MaxChanges /\ changes' = changes + 1
  /\ engine' = Down
  /\ IF spool = <<>> THEN UNCHANGED <<spool, calls>>
     ELSE \E lost \in BOOLEAN :
            /\ spool' = IF lost THEN Tail(spool) ELSE spool
            /\ \/ UNCHANGED calls
               \/ lost /\ Accepts(calls[Head(spool)].kind, engine) /\ Done(Head(spool))
  /\ UNCHANGED <<at, results, policy>>

World ==
  /\ changes < MaxChanges /\ changes' = changes + 1
  /\ \/ engine' \in Live /\ UNCHANGED policy
     \/ policy' = [policy EXCEPT !.warm = ~@] /\ UNCHANGED engine
     \/ policy' = [policy EXCEPT !.spent = 0] /\ UNCHANGED engine
  /\ UNCHANGED <<calls, at, spool, results>>

HandsNext ==
  \/ Dispatch \/ RefuseCall \/ Submit \/ Confirmed \/ Unconfirmed
  \/ Admit \/ Publish \/ WriteRule \/ Reload \/ Drain \/ Dies \/ World

HandsSpec == HandsInit /\ [][HandsNext]_handsVars

-----------------------------------------------------------------------------
(* What the model is told was done was done, once; what it is told was refused *)
(* never happens, then or later, whoever refused it.                           *)
ToldAsItIs ==
  \A n \in DOMAIN calls :
    /\ calls[n].acted <= 1
    /\ calls[n].answer = "ok" => calls[n].acted = 1
    /\ calls[n].answer \in {"refused", "late"} => calls[n].acted = 0

(* A restricted catalog binds: nothing outside of it ever runs for the mind.   *)
CatalogBinds == \A n \in DOMAIN calls : calls[n].kind = "outside" => calls[n].acted = 0

(* "a payload this accepts is one the running engine's registry accepts too    *)
(* (modulo engine STATE": an engine that refuses a call later does so for what *)
(* can change, not for what was asked.                                         *)
LateForState ==
  \A n \in DOMAIN calls :
    calls[n].answer = "late" => \E context \in Live : Accepts(calls[n].kind, context)

(* What the mind is told of what it did, and what binds it, are so.            *)
ToolsSound == ToldAsItIs /\ CatalogBinds /\ LateForState

(* "the same code refuses in both places": the preflight refuses no payload    *)
(* the running engine would take whatever its state, or in some state.         *)
SameRefusals ==
  \A n \in DOMAIN calls :
    calls[n].answer = "refused" /\ Commands(calls[n].kind) /\ InCatalog(calls[n].kind)
      => \A context \in Live : ~Accepts(calls[n].kind, context)
=============================================================================
