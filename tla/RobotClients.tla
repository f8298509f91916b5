----------------------------- MODULE RobotClients -----------------------------
(* Who holds a client of the robot (reachy/robot/): the pose reader of the     *)
(* runtime, read by the tick thread and warmed by the holder keeper, without   *)
(* a lock (state_reader.py); and whoever opens one for a call, for a stream of *)
(* targets or for a session with the microphone (sdk_transport.py).  A client  *)
(* nobody closes keeps its descriptors and hangs the process at its exit.      *)
EXTENDS Naturals, FiniteSets

CONSTANTS MaxClients,   \* bound: clients constructed
          MaxRaises     \* bound: constructions, reads and releases that raise

ClientsAssumption == {MaxClients, MaxRaises} \subseteq Nat

VARIABLES
  pose,       \* the reader: its client, whether the SDK is absent, a retry is
              \* waited for, and it was closed
  hand,       \* per thread of the reader: its step, and the client in its hands
  keeping, outlived,  \* the keeper runs; its join ran out of time
  use,        \* the other user: what it does, where it is, its client, whether the
              \* microphone records, what it knows of the camera, and its result
  open, made, raised,
  stuck,      \* ghost: clients whose release raised to the end
  raced       \* ghost: a dial began while a client was being let go

clientsVars == <<pose, hand, keeping, outlived, use, open, made, raised, stuck, raced>>

NoClient == 0
Threads == {"tick", "keeper", "closer"}
Uses == {"call", "frame", "stream", "media"}
AtRest == [step |-> "idle", with |-> NoClient]
Unused == [kind |-> "none", at |-> "idle", with |-> NoClient, mic |-> FALSE, camera |-> "unknown",
           raises |-> FALSE]

ClientsInit ==
  /\ pose = [client |-> NoClient, absent |-> FALSE, wait |-> FALSE, closed |-> FALSE]
  /\ hand = [t \in Threads |-> AtRest]
  /\ keeping = TRUE /\ outlived = FALSE
  /\ use = Unused
  /\ open = {} /\ made = 0 /\ raised = 0 /\ stuck = {} /\ raced = FALSE

Stands(t, step) == hand[t].step = step
Go(t, step) == hand' = [hand EXCEPT ![t].step = step]
Raises == raised < MaxRaises /\ raised' = raised + 1
LettingGo(t) == hand[t].step \in {"close", "disconnect", "arm"}

-----------------------------------------------------------------------------
(* The pose reader (state_reader.py).  Reads never construct: the keeper does. *)

(* _release_client: the client is taken out first, and then told to go.        *)
LetGo(t) ==
  /\ pose' = [pose EXCEPT !.client = NoClient, !.closed = @ \/ t = "closer"]
  /\ hand' = [hand EXCEPT ![t] = [step |-> IF pose.client = NoClient THEN "arm" ELSE "close",
                                  with |-> pose.client]]

(* A read that raises drops the client it read from.                           *)
ReadFails ==
  /\ Stands("tick", "idle") /\ pose.client # NoClient /\ ~pose.closed /\ Raises
  /\ LetGo("tick")
  /\ UNCHANGED <<keeping, outlived, use, open, made, stuck, raced>>

(* Faulty: a client whose close() raised is given up.                          *)
FaultyAfterRaise(step) == "arm"

(* close(), and disconnect() when that one raises.                             *)
AfterRaise(step) == IF step = "close" THEN "disconnect" ELSE "arm"

Release(t) ==
  /\ hand[t].step \in {"close", "disconnect"}
  /\ \/ open' = open \ {hand[t].with} /\ Go(t, "arm") /\ UNCHANGED <<raised, stuck>>
     \/ /\ Raises /\ Go(t, AfterRaise(hand[t].step)) /\ UNCHANGED open
        /\ stuck' = IF Stands(t, "disconnect") THEN stuck \union {hand[t].with} ELSE stuck
  /\ UNCHANGED <<pose, keeping, outlived, use, made, raced>>

(* The wait before the next attempt begins after the release.                  *)
Arm(t) ==
  /\ Stands(t, "arm")
  /\ pose' = [pose EXCEPT !.wait = @ \/ t = "tick"]
  /\ hand' = [hand EXCEPT ![t] = [step |-> IF t = "closer" THEN "done" ELSE "idle", with |-> NoClient]]
  /\ UNCHANGED <<keeping, outlived, use, open, made, raised, stuck, raced>>

(* warm_up, by the keeper: nothing of a closed or connected reader, without an *)
(* SDK (which will not appear in mid-process), or before the wait is over.     *)
Warm ==
  /\ Stands("keeper", "idle") /\ keeping
  /\ ~pose.closed /\ pose.client = NoClient /\ ~pose.absent /\ ~pose.wait
  /\ \/ pose' = [pose EXCEPT !.absent = TRUE] /\ made = 0 /\ UNCHANGED hand
     \/ Go("keeper", "dial") /\ UNCHANGED pose
  /\ raced' = (raced \/ LettingGo("tick"))
  /\ UNCHANGED <<keeping, outlived, use, open, made, raised, stuck>>

(* The construction blocks for a second or so; then the reader has a client.   *)
Dial ==
  /\ Stands("keeper", "dial")
  /\ \/ /\ made < MaxClients /\ made' = made + 1 /\ open' = open \union {made'}
        /\ hand' = [hand EXCEPT !["keeper"] = [step |-> "adopt", with |-> made']]
        /\ UNCHANGED <<pose, raised>>
     \/ /\ Raises /\ pose' = [pose EXCEPT !.wait = TRUE] /\ Go("keeper", "idle")
        /\ UNCHANGED <<open, made>>
  /\ UNCHANGED <<keeping, outlived, use, stuck, raced>>

Adopt ==
  /\ Stands("keeper", "adopt")
  /\ pose' = [pose EXCEPT !.client = hand["keeper"].with, !.wait = FALSE]
  /\ hand' = [hand EXCEPT !["keeper"] = AtRest]
  /\ UNCHANGED <<keeping, outlived, use, open, made, raised, stuck, raced>>

TimePasses ==
  /\ pose.wait /\ pose' = [pose EXCEPT !.wait = FALSE]
  /\ UNCHANGED <<hand, keeping, outlived, use, open, made, raised, stuck, raced>>

(* The run ends: the keeper is told and waited for as long as a join lasts,    *)
(* then the reader is closed, for good.                                        *)
StopKeeper ==
  /\ keeping /\ Stands("tick", "idle") /\ keeping' = FALSE
  /\ UNCHANGED <<pose, hand, outlived, use, open, made, raised, stuck, raced>>
CloseReader ==
  /\ ~keeping /\ ~pose.closed /\ Stands("tick", "idle")
  /\ outlived' = ~Stands("keeper", "idle")
  /\ LetGo("closer")
  /\ UNCHANGED <<keeping, use, open, made, raised, stuck, raced>>

-----------------------------------------------------------------------------
(* A client for as long as a `with` lasts, or, for a single frame, as anything *)
(* refers to it ("ReachyMini disconnects on GC") (sdk_transport.py).           *)
Using(new) == use' = new /\ UNCHANGED <<pose, hand, keeping, outlived, stuck, raced>>

(* The SDK may be missing, and the constructor may raise.                      *)
Enter(kind) ==
  /\ use.at = "idle"
  /\ \/ made < MaxClients /\ made' = made + 1 /\ open' = open \union {made'} /\ UNCHANGED raised
        /\ Using([Unused EXCEPT !.kind = kind, !.with = made',
                    !.at = IF kind = "media" THEN "record" ELSE "body"])
     \/ Raises /\ UNCHANGED <<open, made>> /\ Using([use EXCEPT !.kind = kind, !.raises = TRUE])

(* media_session: the microphone first; what raises from there on stops it.    *)
Record ==
  /\ use.at = "record" /\ UNCHANGED <<open, made>>
  /\ \/ UNCHANGED raised /\ Using([use EXCEPT !.at = "body", !.mic = TRUE])
     \/ Raises /\ Using([use EXCEPT !.at = "exit", !.raises = TRUE])

(* The body: a call or a frame ends with it, a stream or a session goes on.    *)
Leaving == IF use.kind = "media" THEN "stop" ELSE "exit"
Body ==
  /\ use.at = "body" /\ UNCHANGED <<open, made>>
  /\ \/ UNCHANGED raised /\ Using([use EXCEPT !.at = Leaving])
     \/ Raises /\ Using([use EXCEPT !.at = Leaving, !.raises = TRUE])

(* _ensure_camera: looked for once in a session; media that were lent out are  *)
(* asked back first, which may raise, and then it is looked for again.         *)
Look ==
  /\ use.at = "body" /\ use.kind = "media" /\ use.camera = "unknown" /\ UNCHANGED <<open, made>>
  /\ \/ UNCHANGED raised /\ \E found \in {"there", "absent"} : Using([use EXCEPT !.camera = found])
     \/ Raises /\ Using([use EXCEPT !.at = "stop", !.raises = TRUE])

(* finally: the microphone stops while the client is still up.                 *)
Stop ==
  /\ use.at = "stop" /\ UNCHANGED <<open, made>>
  /\ \/ UNCHANGED raised /\ Using([use EXCEPT !.at = "exit", !.mic = FALSE])
     \/ Raises /\ Using([use EXCEPT !.at = "exit", !.raises = TRUE])
LeaveClient ==
  /\ use.at = "exit" /\ open' = open \ {use.with} /\ UNCHANGED <<made, raised>>
  /\ Using([Unused EXCEPT !.kind = use.kind, !.raises = use.raises])

ClientsNext ==
  \/ ReadFails \/ Warm \/ Dial \/ Adopt \/ TimePasses \/ StopKeeper \/ CloseReader
  \/ \E t \in Threads : Release(t) \/ Arm(t)
  \/ \E kind \in Uses : Enter(kind)
  \/ Record \/ Body \/ Look \/ Stop \/ LeaveClient

ClientsSpec == ClientsInit /\ [][ClientsNext]_clientsVars

-----------------------------------------------------------------------------
ClientsTypeOK ==
  /\ pose \in [client : 0 .. MaxClients, absent : BOOLEAN, wait : BOOLEAN, closed : BOOLEAN]
  /\ hand \in [Threads -> [step : {"idle", "close", "disconnect", "arm", "dial", "adopt", "done"},
                           with : 0 .. MaxClients]]
  /\ open \subseteq 1 .. MaxClients /\ stuck \subseteq open
  /\ use.kind \in Uses \union {"none"}

Hands == {hand[t].with : t \in Threads}
Poses == {pose.client} \union Hands

(* "the process hangs at interpreter exit unless the client is explicitly      *)
(* closed": every client that is up is the reader's, the other user's, in the  *)
(* hands of a thread, or one that would not go.                                *)
NoneOrphaned == open \subseteq Poses \union {use.with} \union stuck

(* A keeper that ended in time leaves the closed reader without a client.      *)
PoseReleased ==
  Stands("closer", "done") /\ ~outlived => pose.client = NoClient /\ open \subseteq stuck \union {use.with}

(* "Hold AT MOST ONE client", but for a keeper that looks while the one before *)
(* it is still on its way out.                                                 *)
OnePose == ~raced => Cardinality(open \intersect Poses) <= 1

(* Whatever raises in a session, the microphone is told to stop before the     *)
(* client goes; only a stop that raised leaves it recording.                   *)
MicStopped == use.at = "exit" /\ use.mic => use.raises

(* What holds of every client of the robot and of the microphone (robot/).     *)
ClientsSound ==
  ClientsTypeOK /\ NoneOrphaned /\ PoseReleased /\ OnePose /\ MicStopped

(* Refuted: the wait of five seconds after a lost client may be skipped by a   *)
(* keeper that looks between its loss and the arming of the wait.              *)
AtMostOne == Cardinality(open \intersect Poses) <= 1
=============================================================================
