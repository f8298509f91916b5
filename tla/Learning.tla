------------------------------ MODULE Learning ------------------------------
(* The forge of `agent attach` (reachy/forge): a request to the coder model  *)
(* runs on a thread of its own, its reply is written to staged/<name>,       *)
(* checked, moved to active/<name>, checked again, imported, registered in   *)
(* the live tool registry and announced; a restart registers what is under   *)
(* active/.  Here every request forges the SAME skill name, which is what    *)
(* "improve" asks for; requests may overlap and the process may die at any   *)
(* step.  A request stands for the text it brought back.                     *)

(* The rules file between its three authors: the operator, who edits it; the   *)
(* embodied mind, whose create_rule rewrites a block of it (embody/tools.py);  *)
(* and the engine, which merges it over the shipped rules at boot and whenever *)
(* a reload is asked for (behavior/rules.py, reload_driver.py).  A rule is its *)
(* id, its kind, whether it is on and whether its fields are all legal; what   *)
(* it says is in RuleEngine.                                                   *)
EXTENDS Naturals, Sequences, SequencesExt

-----------------------------------------------------------------------------
(* The forge                                                                 *)

CONSTANTS
  Requests,   \* calls of the forge tool
  Qualities,  \* what a reply can be: "good", "refused" by the validator, "raises" on import
  Nobody,     \* no request
  MaxBoots    \* bound: starts of the process

(* No folder is none.                                                        *)
Folders == [md : Requests \union {Nobody}, ex : Requests \union {Nobody}]
ForgeAssumption ==
  /\ Qualities \subseteq {"good", "refused", "raises"} /\ MaxBoots \in Nat
  /\ Nobody \notin Requests /\ Nobody \notin Folders

VARIABLES
  pc,         \* where each request's thread is
  quality,    \* what each reply is
  staged,     \* staged/<name>: Nobody, or whose SKILL.md and executor.py it holds
  active,     \* active/<name>, likewise
  registered, \* the tool the live registry holds: Nobody or whose text and code
  outcomes,   \* the forge/* events of each request, in order
  announced,  \* requests announced as learned
  boots,      \* starts of the process; 0 when it is down
  ghosts      \* who met another's files, whether active/ is in doubt, who was learned last

forgeVars == <<pc, quality, staged, active, registered, outcomes, announced, boots, ghosts>>

Empty == [md |-> Nobody, ex |-> Nobody]
Forging == {r \in Requests : pc[r] \notin {"new", "done"}}
Alone(r) == Forging \subseteq {r}

ForgeInit ==
  /\ pc = [r \in Requests |-> "new"] /\ quality = [r \in Requests |-> "good"]
  /\ staged = Nobody /\ active = Nobody /\ registered = Nobody
  /\ outcomes = [r \in Requests |-> {}] /\ announced = {}
  /\ boots = [up |-> FALSE, n |-> 0]
  /\ ghosts = [met |-> {}, doubt |-> FALSE, last |-> Nobody]

(* validator.validate and import_forged_execute on a folder.                 *)
Passes(folder) ==
  folder # Nobody /\ folder.md # Nobody /\ folder.ex # Nobody /\ quality[folder.ex] # "refused"
Imports(folder) == folder # Nobody /\ folder.ex # Nobody /\ quality[folder.ex] = "good"

Goes(r, step) == boots.up /\ pc[r] = step
To(r, step) == pc' = [pc EXCEPT ![r] = step]
Tells(r, event) == outcomes' = [outcomes EXCEPT ![r] = @ \cup {event}]

-----------------------------------------------------------------------------
(* ForgeClient.dispatch and the round trip: no usable reply is a rejection.  *)
Dispatch(r) ==
  /\ Goes(r, "new") /\ To(r, "asked")
  /\ ghosts' = [ghosts EXCEPT !.met = @ \cup IF Alone(r) THEN {} ELSE Forging \cup {r},
                              !.doubt = @ \/ ~Alone(r)]
  /\ UNCHANGED <<quality, staged, active, registered, outcomes, announced, boots>>

(* Defect for a mutant: a failure path that returns without rejecting.       *)
NoReply(r) ==
  /\ Goes(r, "asked") /\ To(r, "done") /\ Tells(r, "rejected")
  /\ UNCHANGED <<quality, staged, active, registered, announced, boots, ghosts>>

(* write_artifacts: the folder and SKILL.md, then executor.py; the folder    *)
(* may have been moved away in between, which is a rejection.                *)
Describe(r) ==
  /\ Goes(r, "asked") /\ To(r, "described")
  /\ \E q \in Qualities : quality' = [quality EXCEPT ![r] = q]
  /\ staged' = [(IF staged = Nobody THEN Empty ELSE staged) EXCEPT !.md = r]
  /\ UNCHANGED <<active, registered, outcomes, announced, boots, ghosts>>

Write(r) ==
  /\ Goes(r, "described")
  /\ IF staged = Nobody
     THEN To(r, "done") /\ Tells(r, "rejected") /\ UNCHANGED staged
     ELSE To(r, "written") /\ staged' = [staged EXCEPT !.ex = r] /\ UNCHANGED outcomes
  /\ UNCHANGED <<quality, active, registered, announced, boots, ghosts>>

(* _validate_and_finish: a pass is told as staged, anything else moves the   *)
(* folder to .rejected and is told as rejected.                              *)
Validate(r) ==
  /\ Goes(r, "written")
  /\ IF Passes(staged)
     THEN To(r, "staged") /\ Tells(r, "staged") /\ UNCHANGED staged
     ELSE To(r, "done") /\ Tells(r, "rejected") /\ staged' = Nobody
  /\ UNCHANGED <<quality, active, registered, announced, boots, ghosts>>

(* lifecycle.activate: remove the old active folder, move the new one in.    *)
(* A staged folder that is gone is logged and nothing is told; a folder that *)
(* another request has put there meanwhile stays and takes the new one in.   *)
(* Defect for a mutant: the old folder is not removed.                       *)
FaultyRemoved == active
Removed == Nobody

ClearOld(r) ==
  /\ Goes(r, "staged") /\ To(r, "cleared") /\ active' = Removed
  /\ UNCHANGED <<quality, staged, registered, outcomes, announced, boots, ghosts>>

MoveIn(r) ==
  /\ Goes(r, "cleared")
  /\ IF staged = Nobody
     THEN To(r, "done") /\ UNCHANGED <<staged, active, outcomes>>
     ELSE /\ To(r, "moved") /\ Tells(r, "activated") /\ staged' = Nobody
          /\ active' = IF active = Nobody THEN staged ELSE active
  /\ UNCHANGED <<quality, registered, announced, boots, ghosts>>

(* _register_dir: check again, import, register; announce only then.         *)
Recheck(r) ==
  /\ Goes(r, "moved") /\ To(r, IF Passes(active) THEN "checked" ELSE "done")
  /\ UNCHANGED <<quality, staged, active, registered, outcomes, announced, boots, ghosts>>

Register(r) ==
  /\ Goes(r, "checked") /\ To(r, "done")
  /\ IF Imports(active)
     THEN /\ registered' = active /\ announced' = announced \cup {r}
          /\ ghosts' = [ghosts EXCEPT !.last = r, !.doubt = @ /\ r \in ghosts.met]
     ELSE /\ ghosts' = [ghosts EXCEPT !.doubt = TRUE] /\ UNCHANGED <<registered, announced>>
  /\ UNCHANGED <<quality, staged, active, outcomes, boots>>

(* The process ends, whatever its threads were at; a boot registers what is  *)
(* under active/ (reload_active).                                            *)
ForgeDies ==
  /\ boots.up /\ boots' = [boots EXCEPT !.up = FALSE] /\ registered' = Nobody
  /\ pc' = [r \in Requests |-> IF r \in Forging THEN "done" ELSE pc[r]]
  /\ ghosts' = [ghosts EXCEPT !.met = @ \cup Forging,
                              !.doubt = @ \/ \E r \in Forging : pc[r] \in {"cleared", "moved", "checked"}]
  /\ UNCHANGED <<quality, staged, active, outcomes, announced>>

Boot ==
  /\ ~boots.up /\ boots.n < MaxBoots /\ boots' = [up |-> TRUE, n |-> boots.n + 1]
  /\ registered' = IF Passes(active) /\ Imports(active) THEN active ELSE Nobody
  /\ UNCHANGED <<pc, quality, staged, active, outcomes, announced, ghosts>>

ForgeNext ==
  \/ ForgeDies \/ Boot
  \/ \E r \in Requests :
       Dispatch(r) \/ NoReply(r) \/ Describe(r) \/ Write(r) \/ Validate(r)
       \/ ClearOld(r) \/ MoveIn(r) \/ Recheck(r) \/ Register(r)

ForgeSpec == ForgeInit /\ [][ForgeNext]_forgeVars

-----------------------------------------------------------------------------
(* A skill announced as learned is the one the live registry calls and the   *)
(* one the next boot will find, text and code of the same reply, whenever no *)
(* request is under way: an improvement replaces all of the skill, and a     *)
(* restart brings back exactly what was learned last.  Requests that overlap *)
(* on the name, and an activation that is cut short or fails to import after *)
(* the old folder is gone, put that in doubt, and the next request that runs *)
(* alone and is learned settles it again, whatever they left behind.         *)
Learned ==
  boots.up /\ Forging = {} /\ ~ghosts.doubt /\ ghosts.last # Nobody =>
    /\ registered = [md |-> ghosts.last, ex |-> ghosts.last]
    /\ active = registered

(* A request that ran alone to its end was told exactly one outcome: it was  *)
(* rejected, or staged and then activated; and nothing is announced that was *)
(* not activated.                                                            *)
OutcomeTold ==
  \A r \in Requests :
    /\ pc[r] = "done" /\ r \notin ghosts.met => outcomes[r] \in {{"rejected"}, {"staged", "activated"}}
    /\ r \in announced => "activated" \in outcomes[r]

(* What the forge announces is what runs, and every request hears its end.    *)
ForgeSound == Learned /\ OutcomeTold

(* "At process start, reload_active() re-registers everything already under  *)
(* <state_dir>/forge/active/, so a forged skill survives an agent attach     *)
(* restart": once a skill has been learned, a running process has it.        *)
SurvivesRestart == boots.up /\ announced # {} => registered # Nobody

-----------------------------------------------------------------------------
(* The rules file                                                            *)

CONSTANTS Shipped,      \* the shipped layer: a sequence of rules
          Parts,        \* what an operator may write before or after the block
          LayerIds,     \* ids that begin with "embody-"
          MaxSaves,     \* bound: saves by the operator
          MaxRules,     \* bound: create_rule calls
          MaxCrashes    \* bound: deaths of the mind or the engine

Kinds == {"react", "inhibit"}
Rules == [id : Nat, kind : Kinds, on : BOOLEAN, sound : BOOLEAN]
Distinct(s) == \A i, j \in DOMAIN s : s[i].id = s[j].id => i = j
FilesAssumption ==
  /\ Shipped \in Seq(Rules) /\ Distinct(Shipped) /\ Parts \subseteq Seq(Rules)
  /\ LayerIds \subseteq Nat /\ {MaxSaves, MaxRules, MaxCrashes} \subseteq Nat

VARIABLES
  rulesFile,  \* the overlay: head, block ("none", "closed", "open"), managed, tail, bad
  lay,        \* create_rule under way: where it is, its rule, the text it read
  reload,     \* a reload command of that call in the spool: "none", "waits", and the result
  liveRules,  \* the rules the engine runs; "down"
  saves, creates, crashes,
  ownWords,   \* ghost: what stands outside the sentinels since the operator's last save
  taught,     \* ghost: rules of the mind written since the operator last touched the block
  outdated,   \* ghost: the operator saved between a call's read and its write
  intact,     \* ghost: nobody saved since the call wrote
  told,       \* ghost: rules the mind was told are live, in the file as it stands
  from        \* ghost: the text the live rules were made from

fileVars == <<rulesFile, lay, reload, liveRules, saves, creates, crashes, ownWords, taught, outdated, intact, told, from>>

NoText == [head |-> <<>>, block |-> "none", managed |-> <<>>, tail |-> <<>>, bad |-> {}]
Down == <<[id |-> 0, kind |-> "react", on |-> FALSE, sound |-> TRUE]>>     \* no engine runs: no such rule
NoCall == [at |-> "idle", rule |-> [id |-> 0, kind |-> "react", on |-> TRUE, sound |-> TRUE], text |-> NoText]

-----------------------------------------------------------------------------
(* Layers (rules.py) *)
Entries(t) == t.head \o t.managed \o t.tail
Ids(s) == {s[i].id : i \in DOMAIN s}

(* The one of the places I with n - 1 of them before it, and what s has at     *)
(* these places, in order: a comprehension over a list.                        *)
Nth(I, n) == CHOOSE i \in I : Cardinality({j \in I : j < i}) = n - 1
Picked(s, I) == [n \in 1 .. Cardinality(I) |-> s[Nth(I, n)]]

On(s) == Picked(s, {i \in DOMAIN s : s[i].on})
Off(s) == {s[i].id : i \in {j \in DOMAIN s : ~s[j].on}}
OfKind(s, k) == Picked(s, {i \in DOMAIN s : s[i].kind = k})
ByKind(s) == OfKind(s, "react") \o OfKind(s, "inhibit")

(* An entry that is switched off may say anything. *)
Legal(r) == r.on => r.sound

(* from_dict: TOML, every entry legal, and no id twice, tombstones included. *)
Valid(t) ==
  t.bad = {} /\ (\A r \in ToSet(Entries(t)) : Legal(r)) /\ Distinct(Entries(t))

Overlaid(overlay, r) ==
  IF r.id \in Ids(On(overlay)) THEN CHOOSE o \in ToSet(On(overlay)) : o.id = r.id ELSE r

(* merge_rules: ids in order of appearance, base first; the overlay's entry in *)
(* place of the base's; what is disabled and not overlaid is left out.         *)

Merge(base, overlay) ==
  LET all == ByKind(On(base)) \o ByKind(On(overlay))
      first == {i \in DOMAIN all : \A j \in 1 .. i - 1 : all[j].id # all[i].id}
      gone == (Off(base) \union Off(overlay)) \ Ids(On(overlay))
      stays == {i \in first : all[i].id \notin gone}
  IN ByKind(Picked([i \in DOMAIN all |-> Overlaid(overlay, all[i])], stays))

(* What load_rules makes of a text; the shipped rules stand in for a bad one   *)
(* at boot, the last good ones at a reload.                                    *)
Loaded(t) == Merge(Shipped, Entries(t))

FileInit ==
  /\ \E h \in Parts : rulesFile = [NoText EXCEPT !.head = h] /\ ownWords = [head |-> h, tail |-> <<>>]
  /\ lay = NoCall /\ reload = "none"
  /\ liveRules = IF Valid(rulesFile) THEN Loaded(rulesFile) ELSE Merge(Shipped, <<>>)
  /\ saves = 0 /\ creates = 0 /\ crashes = 0
  /\ taught = {} /\ outdated = FALSE /\ intact = FALSE /\ told = {}
  /\ from = IF Valid(rulesFile) THEN rulesFile ELSE NoText

-----------------------------------------------------------------------------
(* The operator saves a file: new text around the block, some of it not TOML,  *)
(* and the block as it was, without a rule, taken out, or its END line lost.   *)
Blocks(t) ==
  {[t EXCEPT !.bad = b] : b \in {{}, {"head"}} \union IF t.block = "none" THEN {} ELSE {{"block"}, {"tail"}}}
  \union {[t EXCEPT !.block = "none", !.managed = <<>>, !.bad = {}]}
  \union {[t EXCEPT !.managed = RemoveAt(t.managed, i)] : i \in DOMAIN t.managed}
  \union IF t.block = "closed" THEN {[t EXCEPT !.block = "open"]} ELSE {}

SaveRules ==
  /\ saves < MaxSaves /\ saves' = saves + 1
  /\ \E h \in Parts, a \in Parts, t \in Blocks(rulesFile) :
       LET tail == IF t.block = "none" THEN <<>> ELSE a IN
       /\ rulesFile' = [t EXCEPT !.head = h, !.tail = tail]
       /\ ownWords' = [head |-> h, tail |-> IF t.block = "open" THEN <<>> ELSE tail]
       /\ taught' = IF t.block = rulesFile.block /\ t.managed = rulesFile.managed /\ "block" \notin t.bad
                      /\ t.block = "closed" THEN taught ELSE {}
  /\ intact' = FALSE /\ told' = {}
  /\ UNCHANGED <<lay, reload, liveRules, creates, crashes, outdated, from>>

-----------------------------------------------------------------------------
(* create_rule *)

(* _checked_rule_id and _require_catalog_name; then the file is read.          *)
ReadRules ==
  /\ lay.at = "idle" /\ creates < MaxRules /\ creates' = creates + 1
  /\ \E id \in LayerIds, k \in Kinds, sound \in BOOLEAN :
       lay' = [at |-> "read", rule |-> [id |-> id, kind |-> k, on |-> TRUE, sound |-> sound], text |-> rulesFile]
  /\ UNCHANGED <<rulesFile, reload, liveRules, saves, crashes, ownWords, taught, outdated, intact, told, from>>

(* _split_overlay and _managed_entries: up to END, or to the end of the file;  *)
(* only its [[react]] tables, and none of them when it cannot be parsed.       *)
Managed(t) ==
  IF "block" \in t.bad \/ (t.block = "open" /\ "tail" \in t.bad) THEN <<>>
  ELSE OfKind(IF t.block = "open" THEN t.managed \o t.tail ELSE t.managed, "react")

(* _merge_entry: the others with r, sorted by id, a tie as it stood (SortSeq   *)
(* leaves it open which order of a tie comes out; sorted() does not).          *)
Lower(s, i) == {j \in DOMAIN s : s[j].id < s[i].id \/ (s[j].id = s[i].id /\ j < i)}
Sorted(s) == [n \in DOMAIN s |-> s[CHOOSE i \in DOMAIN s : Cardinality(Lower(s, i)) = n - 1]]
Merged(s, r) == Sorted(Append(Picked(s, {i \in DOMAIN s : s[i].id # r.id}), r))

FaultyRewritten(t, r) ==
  [t EXCEPT !.block = "closed", !.managed = Merged(Managed(t), r), !.tail = <<>>,
            !.bad = @ \ {"block", "tail"}]

(* _render_managed, _join_overlay *)
Rewritten(t, r) ==
  [t EXCEPT !.block = "closed", !.managed = Merged(Managed(t), r),
            !.tail = IF t.block = "open" THEN <<>> ELSE t.tail,
            !.bad = @ \ (IF t.block = "open" THEN {"block", "tail"} ELSE {"block"})]

(* _validate_candidate: whatever the text outside the block is, a candidate    *)
(* the engine would refuse is not written; nor is one that cannot be.  Every   *)
(* entry becomes a [[react]] table, so an inhibit rule is refused, as is one   *)
(* whose fields are not legal.                                                 *)
Refused ==
  /\ lay.at = "read" /\ lay' = NoCall
  /\ UNCHANGED <<rulesFile, reload, liveRules, saves, creates, crashes, ownWords, taught, outdated, intact, told, from>>

WriteRule ==
  /\ lay.at = "read" /\ lay.rule.kind = "react"
  /\ Valid(Rewritten(lay.text, lay.rule))
  /\ lay' = [lay EXCEPT !.at = "written"]
  /\ rulesFile' = Rewritten(lay.text, lay.rule)
  /\ outdated' = (outdated \/ rulesFile # lay.text)
  /\ taught' = {r \in taught : r.id # lay.rule.id} \union {lay.rule}
  /\ told' = {r \in told : r.id # lay.rule.id}
  /\ intact' = TRUE
  /\ UNCHANGED <<reload, liveRules, saves, creates, crashes, ownWords, from>>

(* _default_reload_seam: a command in the spool, and its result or none.       *)
AskReload ==
  /\ lay.at = "written" /\ reload = "none"
  /\ lay' = [lay EXCEPT !.at = "asking"] /\ reload' = "waits"
  /\ UNCHANGED <<rulesFile, liveRules, saves, creates, crashes, ownWords, taught, outdated, intact, told, from>>

Answer ==
  /\ lay.at = "asking"
  /\ lay' = NoCall
  /\ told' = IF reload = "applied" /\ intact THEN told \union {lay.rule} ELSE told
  /\ reload' = IF reload = "waits" THEN "abandoned" ELSE "none"
  /\ UNCHANGED <<rulesFile, liveRules, saves, creates, crashes, ownWords, taught, outdated, intact, from>>

MindDies ==
  /\ lay.at # "idle" /\ crashes < MaxCrashes /\ crashes' = crashes + 1
  /\ lay' = NoCall /\ reload' = IF reload = "waits" THEN "abandoned" ELSE "none"
  /\ UNCHANGED <<rulesFile, liveRules, saves, creates, ownWords, taught, outdated, intact, told, from>>

-----------------------------------------------------------------------------
(* The engine *)

(* ReloadDriver: a command of this call, an earlier one's, or the operator's.  *)
Reload ==
  /\ liveRules # Down
  /\ liveRules' = IF Valid(rulesFile) THEN Loaded(rulesFile) ELSE liveRules
  /\ from' = IF Valid(rulesFile) THEN rulesFile ELSE from
  /\ reload' = CASE reload = "waits" -> (IF Valid(rulesFile) THEN "applied" ELSE "refused")
                [] reload = "abandoned" -> "none"
                [] OTHER -> reload
  /\ UNCHANGED <<rulesFile, lay, saves, creates, crashes, ownWords, taught, outdated, intact, told>>

EngineDies ==
  /\ liveRules # Down /\ crashes < MaxCrashes /\ crashes' = crashes + 1
  /\ liveRules' = Down
  /\ UNCHANGED <<rulesFile, lay, reload, saves, creates, ownWords, taught, outdated, intact, told, from>>

(* RulesLoader at boot: shipped when the overlay will not load. *)
EngineBoots ==
  /\ liveRules = Down
  /\ liveRules' = IF Valid(rulesFile) THEN Loaded(rulesFile) ELSE Merge(Shipped, <<>>)
  /\ from' = IF Valid(rulesFile) THEN rulesFile ELSE NoText
  /\ UNCHANGED <<rulesFile, lay, reload, saves, creates, crashes, ownWords, taught, outdated, intact, told>>

FileNext == SaveRules \/ ReadRules \/ Refused \/ WriteRule \/ AskReload \/ Answer \/ MindDies \/ Reload \/ EngineDies \/ EngineBoots

FileSpec == FileInit /\ [][FileNext]_fileVars

-----------------------------------------------------------------------------
FileTypeOK ==
  /\ rulesFile.block \in {"none", "closed", "open"} /\ rulesFile.bad \subseteq {"head", "block", "tail"}
  /\ lay.at \in {"idle", "read", "written", "asking"}
  /\ reload \in {"none", "waits", "abandoned", "applied", "refused"}
  /\ saves \in 0 .. MaxSaves /\ creates \in 0 .. MaxRules /\ crashes \in 0 .. MaxCrashes
  /\ {outdated, intact} \subseteq BOOLEAN

(* Unless the operator saves while a call rewrites the file, what the operator *)
(* wrote outside the sentinels stays, and so does every rule the mind taught.  *)
EveryAuthorKept ==
  ~outdated =>
    /\ [head |-> rulesFile.head, tail |-> IF rulesFile.block = "open" THEN <<>> ELSE rulesFile.tail] = ownWords
    /\ taught \subseteq ToSet(rulesFile.managed)

(* A rule the mind was told is live is live, while the file and engine stand.  *)
ToldLive == liveRules # Down => told \subseteq ToSet(liveRules)

(* What is live is what one whole text that loads says, by id: the overlay's   *)
(* entry, or the shipped one unless it is switched off.                        *)
Says(t, id) ==
  LET own == {r \in ToSet(Entries(t)) : r.id = id}
      base == {r \in ToSet(Shipped) : r.id = id}
  IN {r \in (IF own # {} THEN own ELSE base) : r.on}
LiveIsWhole ==
  liveRules # Down => \A id \in Ids(liveRules) \union Ids(Entries(from)) \union Ids(Shipped) :
    {r \in ToSet(liveRules) : r.id = id} = Says(from, id)

(* No author's rules are lost to another's rewrite, a rule told live is in the *)
(* running table, and the running table is one whole file over the shipped     *)
(* ones (rules.py, reload_driver.py, embody/tools.py).                         *)
OverlaySound == FileTypeOK /\ EveryAuthorKept /\ ToldLive /\ LiveIsWhole
=============================================================================
