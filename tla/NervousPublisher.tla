-------------------------- MODULE NervousPublisher --------------------------
(***************************************************************************)
(* The retained side of the event bus: export/mqtt.py publishes every key  *)
(* of state.json on a topic of its own through the adapter of              *)
(* export/events_client.py.  A ledger of what is out suppresses repeats,   *)
(* and is cleared when a new session with the broker is noticed.           *)
(*                                                                         *)
(* A session is noticed by polling `connected` at the head of every        *)
(* publish; a client that offers set_on_connect also runs the same code    *)
(* from a thread of its own.  Each step is one section under the lock, one *)
(* read of `connected`, or one call into the client, and the session may   *)
(* be lost or come back between any two.                                   *)
(*                                                                         *)
(* The broker keeps one value per topic.  It delivers the Last Will when a *)
(* session is lost, and it may come back empty.  The adapter takes every   *)
(* message and says nothing of one the vendor refuses.                     *)
(***************************************************************************)
EXTENDS Integers, FiniteSets

CONSTANTS Substance,       \* keys of state.json the engine writes
          Riders,          \* keys a rider adds to the file
          Values,          \* what a key may hold
          MaxChanges,      \* writes that change more than the time stamp
          MaxSessions,     \* sessions with the broker
          MaxFailures,     \* publishes that raise
          RefusesWhileUp,  \* may the vendor refuse a message in a live session?
          ShortOutages,    \* may a session come back before its loss was polled?
                           \* (no, when the client waits longer than a tick to reconnect)
          Threads          \* "tick", and "client" if the client offers set_on_connect
                           \* (the shipped adapter does not)

PublisherAssumption ==
    /\ Substance # {} /\ Substance \cap Riders = {}
    /\ {MaxChanges, MaxSessions, MaxFailures} \subseteq Nat
    /\ {RefusesWhileUp, ShortOutages} \subseteq BOOLEAN
    /\ Threads \in {{"tick"}, {"tick", "client"}}

VARIABLES disk,      \* state.json
          riding,    \* what the riders would write
          last,      \* _last_state: the snapshot a new session is sent
          ledger,    \* _published_state
          online,    \* _online: does the publisher believe in its session?
          thread,    \* where the tick thread and the client's thread are
          stop,      \* start() and stop(): new, disabled, running, told, untold,
                     \* stopped or stopped untold
          live,      \* the client is connected
          polled,    \* the last loss of the session has been polled
          retained,  \* the broker: last value per topic
          changes, sessions, failures   \* counted for the bounds only

files == <<disk, riding>>
publisher == <<last, ledger, online, thread, stop>>
broker == <<live, polled, retained, sessions>>
vars == <<files, publisher, broker, changes, failures>>

Absent == "absent"
Stamp == "updated"      \* the one metadata key: differs in every engine write
OnlineTopic == "online"
Content == Substance \cup Riders
Keys == Content \cup {Stamp}
Nothing == [k \in Keys |-> Absent]

\* A thread that is in none of the publisher's calls; in one, "own" is the snapshot it
\* was called with and "event" whether it was called with an event.
Idle == [step |-> "idle", own |-> Nothing, event |-> FALSE, sees |-> FALSE, snap |-> Nothing,
         force |-> FALSE, todo |-> {}, sent |-> {}]

Init ==
    /\ disk = [k \in Keys |-> IF k \in Riders THEN Absent
                              ELSE IF k = Stamp THEN "odd" ELSE CHOOSE v \in Values : TRUE]
    /\ riding \in [Riders -> Values]
    /\ last = Nothing
    /\ ledger = Nothing
    /\ online = FALSE
    /\ thread = [t \in Threads |-> Idle]
    /\ stop = "new"
    /\ live = FALSE
    /\ polled = TRUE
    /\ retained = [k \in Keys \cup {OnlineTopic} |-> Absent]
    /\ changes = 0 /\ sessions = 0 /\ failures = 0

-----------------------------------------------------------------------------
(* The tick thread: who calls the publisher *)

\* Two successive stamps differ; nothing else about them matters.
Later(stamp) == IF stamp = "odd" THEN "even" ELSE "odd"

Free == stop \in {"running", "disabled"} /\ thread["tick"].step = "idle"

\* start, before the first tick: registers the will, connects and looks for a session;
\* without a client, or one that lacks a member or raises, nothing is ever published.
Start ==
    /\ stop = "new"
    /\ \/ stop' = "disabled" /\ UNCHANGED thread
       \/ stop' = "running" /\ thread' = [thread EXCEPT !["tick"] = [Idle EXCEPT !.step = "probe"]]
    /\ UNCHANGED <<files, last, ledger, online, broker, changes, failures>>

\* state_writer: the file first, then publish_state with the same object.
Write(snapshot) ==
    /\ Free
    /\ disk' = snapshot
    /\ thread' = [thread EXCEPT !["tick"] = [Idle EXCEPT !.step = "cache", !.own = snapshot]]
    /\ UNCHANGED <<last, ledger, online, stop, broker, failures>>

\* The engine's snapshot: its own keys and a fresh stamp, without the riders'.
EngineWrite ==
    \E v \in [Substance -> Values] :
        /\ \/ \A k \in Substance : v[k] = disk[k]
           \/ changes < MaxChanges
        /\ changes' = changes + (IF \A k \in Substance : v[k] = disk[k] THEN 0 ELSE 1)
        /\ UNCHANGED riding
        /\ Write([k \in Keys |-> IF k \in Substance THEN v[k]
                                 ELSE IF k = Stamp THEN Later(disk[Stamp]) ELSE Absent])

\* A rider's: what is on disk, with the rider's own key merged in.
RiderWrite(r) ==
    \E v \in Values :
        /\ v = riding[r] \/ changes < MaxChanges
        /\ changes' = changes + (IF v = riding[r] THEN 0 ELSE 1)
        /\ riding' = [riding EXCEPT ![r] = v]
        /\ Write([disk EXCEPT ![r] = v])

\* publish_state caches the snapshot for a reconnect before it looks at the session.
Cache ==
    /\ thread["tick"].step = "cache"
    /\ last' = thread["tick"].own
    /\ thread' = [thread EXCEPT !["tick"].step = "probe"]
    /\ UNCHANGED <<files, ledger, online, stop, broker, changes, failures>>

\* emit looks at the session before the event goes out.
Emit ==
    /\ Free
    /\ thread' = [thread EXCEPT !["tick"] = [Idle EXCEPT !.step = "probe", !.event = TRUE]]
    /\ UNCHANGED <<files, last, ledger, online, stop, broker, changes, failures>>

-----------------------------------------------------------------------------
(* _sync_connection and _publish_state_payload, by either thread *)

Begin(t, snap, force) ==
    [thread[t] EXCEPT !.step = "compute", !.snap = snap, !.force = force]
\* Back in the caller, with a session: the event, the snapshot, or nothing more.
Continue(t) ==
    IF thread[t].event THEN [thread[t] EXCEPT !.step = "event"]
    ELSE IF thread[t].own = Nothing THEN Idle ELSE Begin(t, thread[t].own, FALSE)

\* The read of `connected`, outside the lock; a disabled publisher has no session.
Disabled(t) ==
    /\ thread[t].step = "probe" /\ stop = "disabled"
    /\ thread' = [thread EXCEPT ![t] = Idle]
    /\ UNCHANGED <<files, last, ledger, online, stop, broker, changes, failures>>
Probe(t) ==
    /\ thread[t].step = "probe" /\ stop # "disabled"
    /\ thread' = [thread EXCEPT ![t].step = "edge", ![t].sees = live]
    /\ polled' = (polled \/ ~live)
    /\ UNCHANGED <<files, last, ledger, online, stop, live, retained, sessions, changes, failures>>

FaultyCleared == ledger
\* A fresh session earns a fresh ledger.
Cleared == Nothing

\* Under the lock: no edge, a session lost, or a new session.
Edge(t) ==
    /\ thread[t].step = "edge"
    /\ \/ /\ thread[t].sees = online
          /\ thread' = [thread EXCEPT ![t] = IF online THEN Continue(t) ELSE Idle]
          /\ UNCHANGED <<online, ledger>>
       \/ /\ ~thread[t].sees /\ online
          /\ online' = FALSE
          /\ thread' = [thread EXCEPT ![t] = Idle]
          /\ UNCHANGED ledger
       \/ /\ thread[t].sees /\ ~online
          /\ online' = TRUE
          /\ ledger' = Cleared
          /\ thread' = [thread EXCEPT ![t].step = "announce", ![t].snap = last]
    /\ UNCHANGED <<files, last, stop, broker, changes, failures>>

\* One call into the client: the broker has it, the vendor refused it, or it raised.
Published(topic, value, outcome) ==
    /\ \/ outcome = "taken" /\ live /\ retained' = [retained EXCEPT ![topic] = value]
       \/ outcome = "refused" /\ (RefusesWhileUp \/ ~live) /\ UNCHANGED retained
       \/ outcome = "raised" /\ failures < MaxFailures /\ UNCHANGED retained
    /\ failures' = failures + (IF outcome = "raised" THEN 1 ELSE 0)
Outcomes == {"taken", "refused", "raised"}

\* What _publish_raw takes for accepted: the adapter did not raise.
Accepted(outcome) == outcome # "raised"

\* ONLINE, whatever comes of it, then the cached snapshot in full.
Announce(t) ==
    /\ thread[t].step = "announce"
    /\ \E outcome \in Outcomes : Published(OnlineTopic, "true", outcome)
    /\ thread' = [thread EXCEPT ![t] = IF @.snap = Nothing THEN Continue(t)
                                       ELSE Begin(t, @.snap, TRUE)]
    /\ UNCHANGED <<files, last, ledger, online, stop, live, polled, sessions, changes>>

\* An event goes out once and is kept by nobody: not retained, not recorded.
PublishEvent(t) ==
    /\ thread[t].step = "event"
    /\ \/ UNCHANGED failures
       \/ failures < MaxFailures /\ failures' = failures + 1
    /\ thread' = [thread EXCEPT ![t] = Idle]
    /\ UNCHANGED <<files, last, ledger, online, stop, broker, changes>>

\* Keys that must not drive a publish on their own.
Metadata == {Stamp}

\* Does the snapshot differ in substance from what is out?
Changed(snap) ==
    \/ ledger = Nothing
    \/ \E k \in Keys \ Metadata : snap[k] # Absent /\ snap[k] # ledger[k]

\* The keys of a snapshot that go out: all of them when forced; otherwise what
\* changed, and the metadata only along with that.
Pending(snap, force) ==
    {k \in Keys : /\ snap[k] # Absent
                  /\ \/ force
                     \/ k \in Metadata /\ Changed(snap)
                     \/ k \notin Metadata /\ snap[k] # ledger[k]}

Compute(t) ==
    /\ thread[t].step = "compute"
    /\ thread' = [thread EXCEPT ![t].step = "send", ![t].sent = {},
                                ![t].todo = Pending(thread[t].snap, thread[t].force)]
    /\ UNCHANGED <<files, last, ledger, online, stop, broker, changes, failures>>

\* Outside the lock, one topic at a time.
Send(t) ==
    /\ thread[t].step = "send"
    /\ \E k \in thread[t].todo, outcome \in Outcomes :
        /\ Published(k, thread[t].snap[k], outcome)
        /\ thread' = [thread EXCEPT ![t].todo = @ \ {k},
                          ![t].sent = IF Accepted(outcome) THEN @ \cup {k} ELSE @]
    /\ UNCHANGED <<files, last, ledger, online, stop, live, polled, sessions, changes>>

\* Under the lock again: what was accepted is recorded, and a forced publish is
\* followed by the caller's own snapshot.
Record(t) ==
    /\ thread[t].step = "send" /\ thread[t].todo = {}
    /\ ledger' = [k \in Keys |-> IF k \in thread[t].sent THEN thread[t].snap[k] ELSE ledger[k]]
    /\ thread' = [thread EXCEPT ![t] = IF @.force THEN Continue(t) ELSE Idle]
    /\ UNCHANGED <<files, last, online, stop, broker, changes, failures>>

-----------------------------------------------------------------------------
(* stop, after the last tick *)

\* Says "offline" when the publisher believes in its session.
StopTells ==
    /\ Free /\ stop = "running"
    /\ IF online
       THEN \E outcome \in Outcomes :
               /\ Published(OnlineTopic, "false", outcome)
               /\ stop' = IF outcome = "raised" THEN "untold" ELSE "told"
       ELSE stop' = "told" /\ UNCHANGED <<retained, failures>>
    /\ UNCHANGED <<files, last, ledger, online, thread, live, polled, sessions, changes>>

\* A graceful disconnect: no Last Will.
StopDisconnects ==
    /\ stop \in {"told", "untold"}
    /\ stop' = IF stop = "told" THEN "stopped" ELSE "stopped untold"
    /\ live' = FALSE
    /\ online' = FALSE
    /\ UNCHANGED <<files, last, ledger, thread, polled, retained, sessions, changes, failures>>

-----------------------------------------------------------------------------
(* The broker and the vendor's client *)

Stopped == stop \in {"stopped", "stopped untold"}

SessionUp ==
    /\ ~live /\ ~Stopped /\ stop \notin {"new", "disabled"} /\ sessions < MaxSessions
    /\ polled \/ ShortOutages
    /\ live' = TRUE
    /\ sessions' = sessions + 1
    /\ \/ UNCHANGED retained
       \/ retained' = [topic \in DOMAIN retained |-> Absent]
    /\ thread' = [t \in Threads |-> IF t # "tick" /\ thread[t].step = "idle"
                                    THEN [Idle EXCEPT !.step = "probe"] ELSE thread[t]]
    /\ UNCHANGED <<files, last, ledger, online, stop, polled, changes, failures>>

\* The broker delivers the Last Will.
SessionDown ==
    /\ live
    /\ live' = FALSE
    /\ polled' = FALSE
    /\ retained' = [retained EXCEPT ![OnlineTopic] = "false"]
    /\ UNCHANGED <<files, publisher, sessions, changes, failures>>

-----------------------------------------------------------------------------
Step(t) == \/ Disabled(t) \/ Probe(t) \/ Edge(t) \/ Announce(t) \/ PublishEvent(t)
           \/ Compute(t) \/ Send(t) \/ Record(t)
Tick == Start \/ EngineWrite \/ (\E r \in Riders : RiderWrite(r)) \/ Cache \/ Emit
Stop == StopTells \/ StopDisconnects

Next == Tick \/ (\E t \in Threads : Step(t)) \/ Stop \/ SessionUp \/ SessionDown

\* Either thread keeps running, and in the tick thread the riders' turn keeps coming.
Fairness == /\ WF_vars(Cache) /\ \A r \in Riders : SF_vars(RiderWrite(r))
            /\ \A t \in Threads : WF_vars(Step(t))

Spec == Init /\ [][Next]_vars /\ Fairness

-----------------------------------------------------------------------------
(* Properties *)

\* A message the client refused must not be recorded as published: between two
\* publishes, in a session the publisher believes in, the ledger says of a topic only
\* what the topic holds (_publish_raw, _publish_state_payload).
RecordedMeansRetained ==
    live /\ online /\ (\A t \in Threads : thread[t].step = "idle") =>
        \A k \in Keys : ledger[k] # Absent => retained[k] = ledger[k]

\* Retained state heals by itself: once changes, failures and outages are over and
\* the session stays, every topic comes to hold what state.json says, and keeps it.
Agrees == \A k \in Content : disk[k] # Absent => retained[k] = disk[k]
Mirrors == <>[](live /\ stop = "running") => <>[](thread["tick"].step = "idle" => Agrees)

\* The rate of the bus is the rate of change: when only the time stamp moves, no
\* message is due any more, however often the file is written.
Quiet == <>[](thread["tick"].todo = {})

\* A runtime that has stopped does not read as live: after a stop that could say so
\* the availability topic is not true.
OfflineAfterStop == stop = "stopped" => retained[OnlineTopic] # "true"
=============================================================================
