------------------------------ MODULE Discovery ------------------------------
(* Finding the robots of a network, and remembering them (reachy/discover/,    *)
(* cli/_commands/wireless.py): commands, more than one of which may run at     *)
(* once, sweep the addresses of the LAN in parallel, ask a remembered unit at  *)
(* its last address first, and keep units.json, while the units move about.    *)

(* The pin of a robot's address in the hosts file (discover/hosts.py): a       *)
(* marked block in a file that belongs to others and must keep resolving       *)
(* localhost, rewritten by commands that may run at once, fail or die, while   *)
(* the operator edits it.  A file is its lines and whether the last one ends   *)
(* in a newline.                                                               *)
EXTENDS Naturals, FiniteSets, FiniteSetsExt, Functions, Sequences, SequencesExt

-----------------------------------------------------------------------------
(* The units of a network                                                    *)

CONSTANTS Robots,       \* hardware ids
          Hosts,        \* addresses, in the order they are swept
          Commands,     \* runs of the command line
          MaxMoves      \* bound: units that go away or change their address

DiscoveryAssumption == Hosts \subseteq Nat /\ MaxMoves \in Nat /\ "none" \notin Robots

None == "none"

VARIABLES
  lan,        \* who answers at each address
  registry,   \* units.json: [ip, mac] of the units in it
  run,        \* each command: what it does, where it is and what it holds
  moves,
  answered,   \* ghost: where each unit has ever answered
  kept,       \* ghost: units saved and not forgotten since
  overtaken   \* ghost: a command saved over what it had not read

unitsVars == <<lan, registry, run, moves, answered, kept, overtaken>>

Fresh == [op |-> None, at |-> "new", unit |-> None, record |-> <<>>, copy |-> <<>>,
          todo |-> {}, found |-> {}, seen |-> {}, left |-> {}, saving |-> None, result |-> <<>>]

UnitsInit ==
  /\ lan \in [Hosts -> Robots \union {None}]
  /\ \A a, b \in Hosts : lan[a] = lan[b] /\ lan[a] # None => a = b
  /\ \E known \in SUBSET Robots :
       registry \in [known -> [ip : Hosts, mac : {FALSE}]] /\ kept = known
  /\ run = [c \in Commands |-> Fresh]
  /\ moves = 0 /\ overtaken = FALSE
  /\ answered = {<<u, registry[u].ip>> : u \in DOMAIN registry}

Move ==
  /\ moves < MaxMoves /\ moves' = moves + 1
  /\ \E h \in Hosts, u \in Robots \union {None} :
       /\ lan[h] # u
       /\ lan' = [k \in Hosts |-> IF k = h THEN u ELSE IF lan[k] = u THEN None ELSE lan[k]]
  /\ UNCHANGED <<registry, run, answered, kept, overtaken>>

Set(c, new) == run' = [run EXCEPT ![c] = new]
Ends(c, result) ==
  Set(c, [Fresh EXCEPT !.op = run[c].op, !.unit = run[c].unit, !.at = "over", !.result = result,
            !.seen = IF result = <<>> THEN {} ELSE run[c].seen])

-----------------------------------------------------------------------------
(* Which unit is meant: the one named, the only one known, or the only one     *)
(* that answers; more than one is refused, and a name nobody has.              *)
Resolve(c) ==
  /\ run[c].at = "new"
  /\ \E sel \in Robots \union {None} :
       LET known == DOMAIN registry
           chosen == IF sel # None THEN {sel} \intersect known ELSE known
           go(u, at) == Set(c, [run[c] EXCEPT !.op = "resolve", !.at = at, !.unit = u,
                          !.record = Restrict(registry, {u} \intersect known),
                          !.todo = IF at = "sweep" THEN Hosts ELSE {}])
       IN \/ sel # None /\ chosen = {} /\ Ends(c, <<>>)
          \/ Cardinality(chosen) > 1 /\ Ends(c, <<>>)
          \/ \E u \in chosen : Cardinality(chosen) = 1 /\ go(u, "fast")
          \/ sel = None /\ known = {} /\ go(None, "sweep")
  /\ UNCHANGED <<lan, registry, moves, answered, kept, overtaken>>

(* A probe: an answer that is no Reachy's, none in time, or a unit's status.   *)
Heard(h) == {None, lan[h]}
FaultySame(c, u) == u # None
Same(c, u) == u = run[c].unit

(* The last address first; another unit there counts as nobody.                *)
FastPath(c) ==
  /\ run[c].at = "fast"
  /\ LET ip == run[c].record[run[c].unit].ip IN \E u \in Heard(ip) :
       LET pair == IF u = None THEN {} ELSE {<<u, ip>>} IN
       /\ answered' = answered \union pair
       /\ IF Same(c, u)
          THEN Set(c, [run[c] EXCEPT !.at = "load", !.seen = pair, !.left = {run[c].unit},
                         !.found = {<<run[c].unit, ip>>}])
          ELSE Set(c, [run[c] EXCEPT !.at = "sweep", !.todo = Hosts])
  /\ UNCHANGED <<lan, registry, moves, kept, overtaken>>

Find(c) ==
  /\ run[c].at = "new"
  /\ Set(c, [run[c] EXCEPT !.op = "find", !.at = "sweep", !.todo = Hosts])
  /\ UNCHANGED <<lan, registry, moves, answered, kept, overtaken>>

(* The pool's probes, in any order.                                            *)
ProbeOne(c) ==
  /\ run[c].at = "sweep"
  /\ \E h \in run[c].todo : \E u \in Heard(h) :
       LET pair == IF u = None THEN {} ELSE {<<u, h>>} IN
       /\ answered' = answered \union pair
       /\ Set(c, [run[c] EXCEPT !.todo = @ \ {h}, !.found = @ \union pair, !.seen = @ \union pair])
  /\ UNCHANGED <<lan, registry, moves, kept, overtaken>>

(* _dedupe_units: a unit that answered at two addresses is at the first.       *)
Deduped(found) == {p \in found : \A q \in found : q[1] = p[1] => p[2] <= q[2]}

(* All probed, or the deadline: what has been found is the result.             *)
Swept(c) ==
  /\ run[c].at = "sweep"
  /\ LET units == Deduped(run[c].found)
         wanted == IF run[c].unit = None THEN units ELSE {p \in units : p[1] = run[c].unit}
         save(at) == Set(c, [run[c] EXCEPT !.at = at, !.found = wanted, !.todo = {},
                        !.left = {p[1] : p \in wanted}])
     IN IF wanted = {} \/ (run[c].op = "resolve" /\ Cardinality(wanted) > 1) THEN Ends(c, <<>>)
        ELSE IF run[c].op = "find" THEN save("known") ELSE save("load")
  /\ UNCHANGED <<lan, registry, moves, answered, kept, overtaken>>

-----------------------------------------------------------------------------
(* units.json: every change reads the file and replaces it.                    *)

(* _remember reads what is known once, before the first unit is saved.         *)
Known(c) ==
  /\ run[c].at = "known"
  /\ Set(c, [run[c] EXCEPT !.at = "load", !.record = registry])
  /\ UNCHANGED <<lan, registry, moves, answered, kept, overtaken>>

Load(c) ==
  /\ run[c].at = "load" /\ run[c].left # {}
  /\ \E u \in run[c].left :
       Set(c, [run[c] EXCEPT !.at = "save", !.copy = registry, !.left = @ \ {u}, !.saving = u])
  /\ UNCHANGED <<lan, registry, moves, answered, kept, overtaken>>

(* _touch and _first_sighting; _remember looks for a MAC the record lacks.     *)
OldMac(c, u) ==
  u \in DOMAIN run[c].record /\ run[c].record[u].mac

Base(c) == run[c].copy

Save(c) ==
  /\ run[c].at = "save"
  /\ LET u == run[c].saving
         ip == (CHOOSE p \in run[c].found : p[1] = u)[2]
     IN \E mac \in {OldMac(c, u)} \union (IF run[c].op = "find" THEN BOOLEAN ELSE {}) :
          /\ OldMac(c, u) => mac
          /\ registry' = [k \in DOMAIN Base(c) \union {u} |->
                            IF k = u THEN [ip |-> ip, mac |-> mac] ELSE Base(c)[k]]
          /\ kept' = kept \union {u}
          /\ overtaken' = (overtaken \/ registry # run[c].copy)
          /\ IF run[c].op = "resolve" THEN Ends(c, <<u, ip>>)
             ELSE IF run[c].left = {} THEN Ends(c, <<>>)
             ELSE Set(c, [run[c] EXCEPT !.at = "load", !.copy = <<>>])
  /\ UNCHANGED <<lan, moves, answered>>

(* forget reads the units, and again for each one it drops.                    *)
Forget(c) ==
  /\ run[c].at = "new"
  /\ \E us \in {{u} : u \in DOMAIN registry} \union {DOMAIN registry} :
       Set(c, [run[c] EXCEPT !.op = "forget", !.at = "drop", !.left = us])
  /\ UNCHANGED <<lan, registry, moves, answered, kept, overtaken>>

DropLoad(c) ==
  /\ run[c].at = "drop"
  /\ IF run[c].left = {} THEN Ends(c, <<>>)
     ELSE \E u \in run[c].left :
       Set(c, [run[c] EXCEPT !.left = @ \ {u}, !.copy = registry, !.saving = u,
                             !.at = IF u \in DOMAIN registry THEN "dropping" ELSE "drop"])
  /\ UNCHANGED <<lan, registry, moves, answered, kept, overtaken>>

Drop(c) ==
  /\ run[c].at = "dropping"
  /\ registry' = Restrict(run[c].copy, DOMAIN run[c].copy \ {run[c].saving})
  /\ kept' = kept \ {run[c].saving}
  /\ overtaken' = (overtaken \/ registry # run[c].copy)
  /\ Set(c, [run[c] EXCEPT !.at = "drop", !.copy = <<>>])
  /\ UNCHANGED <<lan, moves, answered>>

UnitsNext ==
  \/ Move
  \/ \E c \in Commands :
       \/ Resolve(c) \/ FastPath(c) \/ Find(c) \/ ProbeOne(c) \/ Swept(c)
       \/ Known(c) \/ Load(c) \/ Save(c) \/ Forget(c) \/ DropLoad(c) \/ Drop(c)

UnitsSpec == UnitsInit /\ [][UnitsNext]_unitsVars

-----------------------------------------------------------------------------
(* An address a command hands on is one at which the very unit it was asked    *)
(* for answered it, whatever the registry said and whoever has moved.          *)
RightUnit ==
  \A c \in Commands :
    run[c].op = "resolve" /\ run[c].at = "over" /\ run[c].result # <<>> =>
      /\ run[c].result \in run[c].seen
      /\ run[c].unit # None => run[c].result[1] = run[c].unit

(* Every remembered address is one its unit has answered at; and commands that *)
(* do not save over each other lose none of the units.                         *)
WellRemembered ==
  /\ \A u \in DOMAIN registry : <<u, registry[u].ip>> \in answered
  /\ ~overtaken => DOMAIN registry = kept

-----------------------------------------------------------------------------
(* The pin in the hosts file                                                 *)

CONSTANTS Docs,         \* hosts files there may be at first
          Addresses,    \* lines a pin may write
          Writers, MaxEdits, MaxFaults

(* An address is no marker, a hosts file has one block of the command's at     *)
(* most, and an empty file lacks no newline.                                   *)
HostsAssumption ==
  /\ Addresses \subseteq STRING \ {"BEGIN", "END", "torn"} /\ {MaxEdits, MaxFaults} \subseteq Nat
  /\ \A d \in Docs :
       /\ d \in [lines : Seq(STRING), ends : BOOLEAN]
       /\ d.lines = <<>> => d.ends
       /\ \A i, j \in DOMAIN d.lines : d.lines[i] = "BEGIN" /\ d.lines[j] = "BEGIN" => i = j

VARIABLES
  file, backup,
  writer,        \* each command: where it is, the text it read, means to write, read again,
              \* and ghost: whether the file was written since
  edits, faults,
  mine,       \* ghost: the file as it is without the pin
  overwritten,  \* ghost: a command replaced, or rolled back, what it had not read
  broken,     \* ghost: the operator's last edit left no localhost
  hurt        \* ghost: a command died before it could roll back

pinVars == <<file, backup, writer, edits, faults, mine, broken, overwritten, hurt>>

BeginMark == "BEGIN"
EndMark == "END"
Text(lines, ends) == [lines |-> lines, ends |-> ends]
Nothing == Text(<<>>, TRUE)
Torn == Text(<<"torn">>, FALSE)
New == [at |-> "new", read |-> Nothing, wants |-> Nothing, again |-> Nothing, stale |-> FALSE]

-----------------------------------------------------------------------------
(* split_document: the first BEGIN, and the first END after it.                *)
Starts(t) == {i \in DOMAIN t.lines : t.lines[i] = BeginMark}
FirstOf(S) == CHOOSE i \in S : \A j \in S : i <= j
PinEnds(t) == {j \in DOMAIN t.lines : t.lines[j] = EndMark /\ j > FirstOf(Starts(t))}
HasBlock(t) == Starts(t) # {} /\ PinEnds(t) # {}
Unclosed(t) == Starts(t) # {} /\ PinEnds(t) = {}
Before(t) == SubSeq(t.lines, 1, FirstOf(Starts(t)) - 1)
After(t) == SubSeq(t.lines, FirstOf(PinEnds(t)) + 1, Len(t.lines))
BlockEnds(t) == After(t) # <<>> \/ t.ends

(* document_is_safe: it parses, and localhost is in it.                        *)
Safe(t) == "torn" \notin ToSet(t.lines) /\ "localhost" \in ToSet(t.lines)

Block(a) == <<BeginMark, a, EndMark>>

(* pin: a first block is appended, after a newline when the file has none at   *)
(* its end, and then without one; a block there is replaced where it stands.   *)
Pinned(t, a) ==
  IF HasBlock(t) THEN Text(Before(t) \o Block(a) \o After(t), t.ends)
  ELSE Text(t.lines \o Block(a), t.ends \/ t.lines = <<>>)

(* _without_the_block: with the newline that pin put before it, if it did.     *)
Unpinned(t) ==
  LET rest == Before(t) \o After(t) IN
  IF After(t) = <<>> THEN Text(rest, BlockEnds(t) \/ rest = <<>>) ELSE Text(rest, t.ends)

Outside(t) == IF HasBlock(t) THEN Before(t) \o After(t) ELSE t.lines
(* What a file is to its operator, who did not write the block.                *)
Own(t) ==
  IF HasBlock(t)
  THEN Text(Outside(t), Outside(t) = <<>> \/ (IF After(t) = <<>> THEN BlockEnds(t) ELSE t.ends))
  ELSE t

PinInit ==
  /\ file \in Docs /\ backup = Nothing
  /\ writer = [c \in Writers |-> New]
  /\ edits = 0 /\ faults = 0
  /\ mine = Own(file) /\ broken = ~Safe(file) /\ overwritten = FALSE /\ hurt = FALSE

SetWriter(c, new) == writer' = [writer EXCEPT ![c] = new]
Over(c) == SetWriter(c, [New EXCEPT !.at = "over"])
Writes(c, at) ==
  writer' = [k \in Writers |-> IF k = c THEN [writer[c] EXCEPT !.at = at]
                             ELSE [writer[k] EXCEPT !.stale = writer[k].at \notin {"new", "over"}]]

-----------------------------------------------------------------------------
(* pin or unpin reads, and works out what it wants; the same pin, no block to  *)
(* take away, or a block without an end, and nothing is written.               *)
Read(c) ==
  /\ writer[c].at = "new"
  /\ \E want \in {Pinned(file, a) : a \in Addresses}
                 \union (IF HasBlock(file) THEN {Unpinned(file)} ELSE {file}) :
       IF Unclosed(file) \/ want = file THEN Over(c)
       ELSE SetWriter(c, [New EXCEPT !.at = "read", !.read = file, !.wants = want])
  /\ UNCHANGED <<file, backup, edits, faults, mine, broken, overwritten, hurt>>

(* write_document reads again: a file that was not safe before is left alone,  *)
(* and one it may not write; then the backup.                                  *)
BackUp(c) ==
  /\ writer[c].at = "read"
  /\ \/ Over(c) /\ UNCHANGED backup
     \/ /\ Safe(file) /\ backup' = file
        /\ SetWriter(c, [writer[c] EXCEPT !.at = "backed up", !.again = file])
  /\ UNCHANGED <<file, edits, faults, mine, broken, overwritten, hurt>>

(* _stage and _replace: the new file, or an error that leaves the old one, or  *)
(* one that leaves it damaged.                                                 *)
Replace(c) ==
  /\ writer[c].at = "backed up"
  /\ file' = writer[c].wants
  /\ overwritten' = (overwritten \/ writer[c].stale)
  /\ Writes(c, "verify")
  /\ UNCHANGED <<backup, edits, faults, mine, broken, hurt>>

ReplaceFails(c) ==
  /\ writer[c].at = "backed up" /\ faults < MaxFaults /\ faults' = faults + 1
  /\ file' \in {file, Torn}
  /\ Writes(c, "restore")
  /\ UNCHANGED <<backup, edits, mine, broken, overwritten, hurt>>

Verified(t) == Safe(t)

(* Read once more: what landed is what counts.                                 *)
Verify(c) ==
  /\ writer[c].at = "verify"
  /\ IF Verified(file) THEN Over(c) ELSE SetWriter(c, [writer[c] EXCEPT !.at = "restore"])
  /\ UNCHANGED <<file, backup, edits, faults, mine, broken, overwritten, hurt>>

(* _restore writes the bytes read before into the file itself.                 *)
Restore(c) ==
  /\ writer[c].at = "restore"
  /\ file' = writer[c].again
  /\ overwritten' = (overwritten \/ writer[c].stale)
  /\ Writes(c, "over")
  /\ UNCHANGED <<backup, edits, faults, mine, broken, hurt>>

Die(c) ==
  /\ writer[c].at \in {"read", "backed up", "verify", "restore"} /\ faults < MaxFaults
  /\ faults' = faults + 1
  /\ file' \in {file} \union (IF writer[c].at = "restore" THEN {Torn} ELSE {})
  /\ hurt' = (hurt \/ ~Safe(file'))
  /\ Over(c)
  /\ UNCHANGED <<backup, edits, mine, broken, overwritten>>

(* The operator: a line at either end, one less, the END line or newline lost. *)
Edit ==
  /\ edits < MaxEdits /\ edits' = edits + 1 /\ file # Torn
  /\ \/ file' = Text(<<"other">> \o file.lines, file.ends)
     \/ file' = Text(Append(file.lines, "other"), TRUE)
     \/ \E i \in DOMAIN file.lines :
          file.lines[i] \notin {BeginMark} \union Addresses /\ file' = Text(RemoveAt(file.lines, i), TRUE)
     \/ Own(file) # file /\ Before(file) = <<>> /\ file' = Text(file.lines, ~file.ends)
  /\ mine' = Own(file') /\ broken' = ~Safe(file')
  /\ writer' = [k \in Writers |-> [writer[k] EXCEPT !.stale = writer[k].at \notin {"new", "over"}]]
  /\ UNCHANGED <<backup, faults, overwritten, hurt>>

PinNext ==
  \/ Edit
  \/ \E c \in Writers :
       Read(c) \/ BackUp(c) \/ Replace(c) \/ ReplaceFails(c) \/ Verify(c) \/ Restore(c) \/ Die(c)

PinSpec == PinInit /\ [][PinNext]_pinVars

-----------------------------------------------------------------------------
Writing == {c \in Writers : writer[c].at \notin {"new", "over"}}

(* Pins come and go and leave the operator's file what it is, byte for byte,   *)
(* as long as no command writes over what it has not read.                     *)
OutsideKept == ~overwritten /\ ~hurt /\ file # Torn => Own(file) = mine

(* However commands failed, and whatever they wrote over, when they are done   *)
(* localhost resolves, unless the operator took it out.                        *)
LocalhostStays == Writing = {} /\ ~hurt /\ ~broken => Safe(file)

(* Robots are found where they are, and the hosts file stays the operator's.   *)
DiscoverySound == RightUnit /\ WellRemembered /\ OutsideKept /\ LocalhostStays
=============================================================================
