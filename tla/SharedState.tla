----------------------------- MODULE SharedState -----------------------------
(* state.json: the engine writes the whole file on its heartbeat, knowing only *)
(* its own part; then, in the same tick, each rider reads the file, merges its *)
(* block and writes it back: the intents always, the others when their block   *)
(* is missing or not what they have to say.  Any process may read at any time. *)

(* Is the mind up?  The runtime's one subscription on the event bus            *)
(* (export/mind_presence.py), which rides the publisher's client               *)
(* (export/mqtt.py, start and stop), which is an adapter around a vendor's      *)
(* (export/events_client.py).  The composing thread makes and closes the three *)
(* in order; messages come on the vendor's thread; the tick thread reads the   *)
(* answer, which a face lock lives by.                                         *)
EXTENDS Naturals, Sequences

-----------------------------------------------------------------------------
(* state.json                                                                *)

CONSTANTS Heartbeat,             \* ticks between two writes of the engine's
          MaxTicks, MaxChanges,  \* bounds: ticks; changes of a rider's mind
          MaxFaults              \* bound: reads and writes that fail

SharedAssumption == Heartbeat \in Nat \ {0} /\ {MaxTicks, MaxChanges, MaxFaults} \subseteq Nat

(* In the order of the bus.                                                    *)
Riders == <<"intents", "senses", "names", "clip">>
RiderSet == {Riders[i] : i \in 1..Len(Riders)}
Absent == 0                      \* no such key in the file

VARIABLES
  value,    \* what each rider has to say: a version, counted from 1
  engine,   \* the version of the engine's own part it wrote last
  file,     \* [base, block]: what is on disk, versions or Absent
  at,       \* of the tick: 0 the engine's turn, i rider i's, beyond them the end
  ticks, beat,
  step, held,   \* "read" or "write", of a rider's turn; what it has read
  faults, clean,   \* faults so far; ghost: this tick has had none
  lost,     \* ghost: a rider's read failed since the last heartbeat
  seen,     \* what a reader of another process saw of each block at last
  alive

stateVars == <<value, engine, file, at, ticks, beat, step, held, faults, clean, lost, seen, alive>>

Empty == [base |-> Absent, block |-> [r \in RiderSet |-> Absent]]

StateInit ==      \* reset has unlinked what an engine before left
  /\ value = [r \in RiderSet |-> 1] /\ engine = Absent /\ file = Empty
  /\ at = 0 /\ ticks = 0 /\ beat = Heartbeat /\ step = "read" /\ held = Empty
  /\ faults = 0 /\ clean = TRUE /\ lost = FALSE
  /\ seen = Empty.block /\ alive = TRUE

Fault == faults < MaxFaults /\ faults' = faults + 1 /\ clean' = FALSE
NoFault == UNCHANGED <<faults, clean>>

(* The engine's turn.  Its write is not guarded: a disk that refuses it ends   *)
(* the run; a heartbeat not due leaves the file alone.                         *)
Beat ==
  /\ alive /\ at = 0 /\ ticks < MaxTicks
  /\ at' = 1 /\ ticks' = ticks + 1
  /\ \/ /\ beat + 1 >= Heartbeat
        /\ beat' = 0 /\ engine' = ticks + 1 /\ lost' = FALSE
        /\ file' = [Empty EXCEPT !.base = ticks + 1]
     \/ /\ beat + 1 < Heartbeat /\ beat' = beat + 1
        /\ UNCHANGED <<engine, file, lost>>
  /\ UNCHANGED <<value, step, held, faults, clean, seen, alive>>

BeatFails ==
  /\ alive /\ at = 0 /\ ticks < MaxTicks /\ beat + 1 >= Heartbeat
  /\ Fault /\ alive' = FALSE
  /\ UNCHANGED <<value, engine, file, at, ticks, beat, step, held, lost, seen>>

Rider == Riders[at]
MyTurn == alive /\ at \in 1..Len(Riders)

(* A file that cannot be read is taken for an empty one, and merged into.      *)
Read(ok) ==
  /\ MyTurn /\ step = "read" /\ step' = "write"
  /\ held' = IF ok THEN file ELSE Empty
  /\ IF ok THEN NoFault /\ UNCHANGED lost ELSE Fault /\ lost' = TRUE
  /\ UNCHANGED <<value, engine, file, at, ticks, beat, seen, alive>>

MustWrite(r) == r = "intents" \/ held.block[r] # value[r]
Merged(r) == [held EXCEPT !.block[r] = value[r]]

FaultyTurn == at' = at + 1 /\ step' = (IF at = Len(Riders) THEN "read" ELSE "write") /\ UNCHANGED held          \* the next rider merges an old read
Turn == at' = at + 1 /\ step' = "read" /\ held' = Empty

Write(ok) ==
  /\ MyTurn /\ step = "write"
  /\ file' = IF ok /\ MustWrite(Rider) THEN Merged(Rider) ELSE file
  /\ IF ok THEN NoFault ELSE MustWrite(Rider) /\ Fault
  /\ Turn
  /\ UNCHANGED <<value, engine, ticks, beat, lost, seen, alive>>

EndOfTick ==
  /\ alive /\ at > Len(Riders)
  /\ at' = 0 /\ clean' = TRUE
  /\ UNCHANGED <<value, engine, file, ticks, beat, step, held, faults, lost, seen, alive>>

TurnOf(r) == alive /\ \E i \in 1..Len(Riders) : at = i /\ Riders[i] = r

(* An intent lands, an extra's verdict flips, the rules are reloaded, a clip   *)
(* is published by its worker: between the turns of the riders concerned.      *)
Change(r) ==
  /\ value[r] <= MaxChanges /\ ~TurnOf(r)
  /\ value' = [value EXCEPT ![r] = @ + 1]
  /\ UNCHANGED <<engine, file, at, ticks, beat, step, held, faults, clean, lost, seen, alive>>

(* Another process: the status commands, the embodied mind.                    *)
Look ==
  /\ seen' = [r \in RiderSet |-> IF file.block[r] = Absent THEN seen[r] ELSE file.block[r]]
  /\ UNCHANGED <<value, engine, file, at, ticks, beat, step, held, faults, clean, lost, alive>>

StateNext ==
  \/ Beat \/ BeatFails \/ EndOfTick \/ Look
  \/ \E ok \in BOOLEAN : Read(ok) \/ Write(ok)
  \/ \E r \in RiderSet : Change(r)

StateSpec == StateInit /\ [][StateNext]_stateVars

-----------------------------------------------------------------------------
(* No rider writes back what another has replaced: what a reader sees of a     *)
(* block is never older than what it saw, and never not yet said.              *)
NeverBack == \A r \in RiderSet :
  /\ seen[r] <= value[r]
  /\ file.block[r] \in {Absent} \union (seen[r]..value[r])

(* A tick without a fault ends with every block in the file, and with the      *)
(* engine's own part unless a read failed after the heartbeat wrote it.        *)
WholeAgain ==
  alive /\ at > Len(Riders) /\ clean =>
    /\ \A r \in RiderSet : file.block[r] # Absent
    /\ file.base = engine \/ (lost /\ file.base = Absent)

StateAgrees == NeverBack /\ WholeAgain

-----------------------------------------------------------------------------
(* The mind's presence                                                       *)

CONSTANTS Vendors,      \* which events package may be installed
          MaxSaid,      \* bound: announcements of the mind, and other payloads on its topic
          MaxSessions   \* bound: broker sessions

PresenceAssumption ==
  /\ Vendors \subseteq {"absent", "raises", "publishes", "refuses", "full"}
  /\ {MaxSaid, MaxSessions} \subseteq Nat

VARIABLES
  vendor,     \* what is installed
  pc,         \* the composing thread
  client,     \* the publisher's: "none" | "made" (no vendor's client yet) | "built" | "closed"
  pubOff,     \* the publisher's _disabled
  started, disabled, stopped,   \* MindPresence
  drops,      \* _reported
  wanted,     \* the vendor's: the topics to subscribe in every session
  handler,    \* the vendor's: who gets messages
  will,       \* the will the session was opened with
  session,    \* whether there is one
  sessions,
  said,       \* everything ever retained on the mind's topic, in order
  wire,       \* what the broker has sent and the vendor's thread has not handled
  handling,   \* on_message, past its look at _stopped: the message's number, or 0
  online,     \* _online: the number of the message it is from, 0 for unknown
  late        \* ghost: the reading when the presence was stopped, and what was being handled

presenceVars == <<vendor, pc, client, pubOff, started, disabled, stopped, drops, wanted, handler, will,
          session, sessions, said, wire, handling, online, late>>

adapter == <<client, will, handler, wanted>>
presence == <<started, disabled, stopped, drops>>
broker == <<session, sessions, said, wire>>

Payloads == {"online", "offline", "junk"}

(* parse_presence *)
Readable(i) == said[i] # "junk"

PresenceInit ==
  /\ vendor \in Vendors
  /\ pc = "compose" /\ client = "none" /\ pubOff = FALSE
  /\ started = FALSE /\ disabled = FALSE /\ stopped = FALSE /\ drops = {}
  /\ wanted = FALSE /\ handler = FALSE /\ will = FALSE
  /\ session = FALSE /\ sessions = 0 /\ said = <<>> /\ wire = <<>>
  /\ handling = 0 /\ online = 0 /\ late = <<0, 0>>

-----------------------------------------------------------------------------
(* The composing thread *)

(* _make_events_client: nothing is connected; no package is no client.         *)
MakeClient ==
  /\ pc = "compose"
  /\ client' = IF vendor = "absent" THEN "none" ELSE "made"
  /\ pc' = "publisher"
  /\ UNCHANGED <<vendor, pubOff, presence, wanted, handler, will, broker, handling, online, late>>

(* NervousPublisher.start: the will, then the connection, which builds the     *)
(* vendor's client with the will in it.                                        *)
StartPublisher ==
  /\ pc = "publisher" /\ pc' = "attach"
  /\ IF client = "made" /\ vendor # "raises"
     THEN will' = TRUE /\ client' = "built" /\ UNCHANGED pubOff
     ELSE pubOff' = TRUE /\ UNCHANGED <<will, client>>
  /\ UNCHANGED <<vendor, presence, wanted, handler, broker, handling, online, late>>

(* supports_subscribe asks the vendor; the adapter itself always could.        *)
CanSubscribe == vendor \in {"refuses", "full"}

Disable(reason) == disabled' = TRUE /\ drops' = drops \union {reason}

(* attach(publisher.client), and start up to the handler                        *)
StartPresence ==
  /\ pc = "attach"
  /\ started' = TRUE
  /\ IF pubOff \/ client = "none" THEN Disable("no-client") /\ pc' = "running" /\ UNCHANGED handler
     ELSE IF ~CanSubscribe THEN Disable("client-incompatible") /\ pc' = "running" /\ UNCHANGED handler
     ELSE handler' = TRUE /\ pc' = "subscribe" /\ UNCHANGED <<disabled, drops>>
  /\ UNCHANGED <<vendor, client, pubOff, stopped, will, wanted, broker, handling, online, late>>

(* ... then the topic, which may raise.                                        *)
Subscribe ==
  /\ pc = "subscribe" /\ pc' = "running"
  /\ IF vendor = "refuses" THEN Disable("subscribe-failed") /\ UNCHANGED <<wanted, wire>>
     ELSE /\ wanted' = (vendor = "full")
          /\ wire' = IF session /\ wanted' /\ said # <<>> THEN Append(wire, Len(said)) ELSE wire
          /\ UNCHANGED <<disabled, drops>>
  /\ UNCHANGED <<vendor, client, pubOff, started, stopped, will, handler, session, sessions, said,
                 handling, online, late>>

(* close: first the presence, then the publisher, whose session it is.         *)
StopPresence ==
  /\ pc = "running" /\ pc' = "closing"
  /\ stopped' = TRUE /\ late' = <<online, handling>>
  /\ UNCHANGED <<vendor, adapter, pubOff, started, disabled, drops, broker, handling, online>>

StopPublisher ==
  /\ pc = "closing" /\ pc' = "closed"
  /\ IF pubOff \/ client = "none" THEN UNCHANGED <<client, session, wire>>
     ELSE client' = "closed" /\ session' = FALSE /\ wire' = <<>>
  /\ UNCHANGED <<vendor, pubOff, presence, wanted, handler, will, sessions, said, handling, online, late>>

-----------------------------------------------------------------------------
(* The broker, and the vendor's client, which subscribes again what it was     *)
(* asked for in every session it opens                                         *)
SessionUp ==
  /\ client = "built" /\ ~session /\ sessions < MaxSessions
  /\ session' = TRUE /\ sessions' = sessions + 1
  /\ wire' = IF wanted /\ said # <<>> THEN <<Len(said)>> ELSE <<>>
  /\ UNCHANGED <<vendor, pc, adapter, pubOff, presence, said, handling, online, late>>

SessionDown ==
  /\ session /\ session' = FALSE /\ wire' = <<>>
  /\ UNCHANGED <<vendor, pc, adapter, pubOff, presence, sessions, said, handling, online, late>>

(* The mind comes, goes or is killed, or somebody writes to its topic.         *)
Say(p) ==
  /\ Len(said) < MaxSaid /\ said' = Append(said, p)
  /\ wire' = IF session /\ wanted THEN Append(wire, Len(said')) ELSE wire
  /\ UNCHANGED <<vendor, pc, adapter, pubOff, presence, session, sessions, handling, online, late>>

(* on_message *)
Take ==
  /\ wire # <<>> /\ handling = 0
  /\ wire' = Tail(wire)
  /\ handling' = IF stopped \/ ~handler THEN 0 ELSE Head(wire)
  /\ UNCHANGED <<vendor, pc, adapter, pubOff, presence, session, sessions, said, online, late>>

(* What cannot be read never overwrites what is known.                         *)
Heard(i) == IF Readable(i) THEN i ELSE online

Handle ==
  /\ handling # 0 /\ handling' = 0
  /\ online' = Heard(handling)
  /\ drops' = IF Readable(handling) THEN drops ELSE drops \union {"bad-payload"}
  /\ UNCHANGED <<vendor, pc, adapter, pubOff, started, disabled, stopped, broker, late>>

Done == pc = "closed" /\ UNCHANGED presenceVars

PresenceNext ==
  \/ MakeClient \/ StartPublisher \/ StartPresence \/ Subscribe \/ StopPresence \/ StopPublisher
  \/ SessionUp \/ SessionDown \/ Take \/ Handle \/ Done
  \/ \E p \in Payloads : Say(p)

PresenceSpec == PresenceInit /\ [][PresenceNext]_presenceVars
PresenceFairSpec == PresenceSpec /\ WF_presenceVars(Take) /\ WF_presenceVars(Handle)

-----------------------------------------------------------------------------
PresenceTypeOK ==
  /\ client \in {"none", "made", "built", "closed"} /\ sessions \in 0 .. MaxSessions
  /\ handling \in 0 .. Len(said) /\ online \in 0 .. Len(said)
  /\ \A k \in 1 .. Len(wire) : wire[k] \in 1 .. Len(said)

Subscribed == started /\ ~disabled /\ ~stopped

(* Who says it is subscribed is (mind_presence.py, subscribed: "a live         *)
(* subscription is actually in place"), and who is not has said why, once:     *)
(* the reading is never unknown for good without a word.                       *)
NeverSilent ==
  /\ Subscribed /\ pc # "subscribe" => wanted /\ handler
  /\ started /\ disabled => drops \ {"bad-payload"} # {}

(* A session never opens without the will that tells of a death.               *)
WillBeforeSession == session => will

(* The reading follows the mind: never back to what it had said earlier, over  *)
(* lost sessions and replays, and never back to unknown.                       *)
ReadingsForwardStep == online' >= online
ReadingsForward == [][ReadingsForwardStep]_presenceVars

(* The reading is frozen by stop, except for a message being handled then.     *)
FrozenByStop == stopped => online = late[1] \/ online = late[2]

(* A subscription with a session that lasts hears the mind's last word.        *)
HearsTheMind ==
  <>[](pc = "running" /\ Subscribed /\ session) =>
    <>[](said # <<>> /\ Readable(Len(said)) => online = Len(said))
=============================================================================
