----------------------------- MODULE DuplexFloor -----------------------------
(* The embodied mind's session with the floor: speech/realtime_duplex.py and   *)
(* the taps of cli/_commands/agent.py that run on its worker.  A gateway says  *)
(* in session.created what it can do; what the mind knows is then told to it   *)
(* again, and only then is it to be asked for replies: one per admitted        *)
(* utterance, or once for all of them where it cannot do that.  What a cut     *)
(* kept from the room is told to it as an item.  The playback side of the      *)
(* session is DuplexMouth.                                                     *)

(* What a speech session says the room heard of a reply                        *)
(* (speech/realtime_duplex.py): one record per reply, of which few are kept;   *)
(* and the text of a reply cut in two where its audio was.                     *)
(*                                                                             *)
(* A chunk is a unit of audio, a text a sequence of letters and spaces.  One   *)
(* reply arrives at a time, and each step is one section under the lock (what  *)
(* lies between two of them is DuplexMouth's).                                 *)
EXTENDS Naturals, Sequences, SequencesExt

-----------------------------------------------------------------------------
(* The floor                                                                 *)

CONSTANTS ItemMax,               \* items the queue holds
          DrainMax, ReadMax,     \* chunks dropped at a connect, sent in one pump
          SourceMax, MaxSessions, MaxCuts, MaxAsks   \* bounds; asks of one session

VARIABLES
  step,      \* of the worker: "down", "items", "arm", "audio", "read", "gone"
  closed,
  gateway,   \* what this session's gateway can do
  created,   \* its session.created has been read
  itemsOk, oneShot, armPending,   \* the client's flags
  items,     \* the queue of items: the cuts they tell of
  source,    \* captured chunks nobody has read: the sessions they were captured in
  cuts,      \* replies the room did not hear whole: the mind's record of them
  session,   \* how many sessions there have been
  floor      \* what this session's floor got, for the properties

client == <<itemsOk, oneShot, armPending, items>>
floorVars == <<step, closed, gateway, created, client, source, cuts, session, floor>>

FloorAssumption == /\ {ItemMax, DrainMax, ReadMax} \subseteq Nat \ {0}
                   /\ {SourceMax, MaxSessions, MaxCuts, MaxAsks} \subseteq Nat

Steps == {"down", "items", "arm", "audio", "read", "gone"}
Abilities == [items : BOOLEAN, oneShot : BOOLEAN]

(* A ConversationItem tells of one cut: what of the reply was said, and that   *)
(* it belongs in the history.  Those the mind makes are valid.                 *)
Items == 1..MaxCuts

(* What a session starts from: an arm or an item the last one left behind.     *)
Fresh == [arms |-> 0, asked |-> IF armPending THEN 1 ELSE 0, owed |-> FALSE,
          told |-> {}, evicted |-> {}, unannounced |-> FALSE, stale |-> FALSE,
          heir |-> armPending \/ items # <<>>, overfull |-> Len(source) > DrainMax]

FloorInit ==
    /\ step = "down" /\ closed = FALSE /\ created = FALSE
    /\ gateway = [items |-> FALSE, oneShot |-> FALSE]
    /\ itemsOk = FALSE /\ oneShot = FALSE /\ armPending = FALSE /\ items = <<>>
    /\ source = <<>> /\ cuts = 0 /\ session = 0
    /\ floor = Fresh

Open == step \notin {"down", "gone"}

(* A cut's correction, in the order cuts were made.                            *)
Known == 1..cuts

-----------------------------------------------------------------------------
(* _connect: capabilities are the session's, the backlog of the microphone is  *)
(* dropped up to a bound; what was asked of the last session is kept.          *)
Drained == SubSeq(source, DrainMax + 1, Len(source))

Dial ==
    /\ step = "down" /\ ~closed /\ session < MaxSessions
    /\ gateway' \in Abilities
    /\ itemsOk' = FALSE /\ oneShot' = FALSE /\ created' = FALSE
    /\ source' = Drained /\ floor' = Fresh
    /\ session' = session + 1 /\ step' = "items"
    /\ UNCHANGED <<closed, armPending, items, cuts>>

(* _pump_once: any send or read may find the session gone.                     *)
Lose ==
    /\ Open /\ step' = "down"
    /\ UNCHANGED <<closed, gateway, created, client, source, cuts, session, floor>>

(* _send_pending_items, one item at a time; one in a send that fails is gone.  *)
SendItem ==
    /\ step = "items" /\ items # <<>>
    /\ items' = Tail(items)
    /\ \/ /\ floor' = [floor EXCEPT !.told = @ \union {Head(items)},
                                    !.unannounced = @ \/ ~itemsOk]
          /\ step' = step
       \/ step' = "down" /\ UNCHANGED floor
    /\ UNCHANGED <<closed, gateway, created, itemsOk, oneShot, armPending, source, cuts, session>>

NoItem ==
    /\ step = "items" /\ items = <<>> /\ step' = "arm"
    /\ UNCHANGED <<closed, gateway, created, client, source, cuts, session, floor>>

(* _send_pending_arm: the flag goes down before the frame goes out.            *)
SendArm ==
    /\ step = "arm"
    /\ armPending' = FALSE
    /\ \/ /\ armPending /\ step' = "audio"
          /\ floor' = [floor EXCEPT !.arms = @ + 1, !.owed = FALSE]
       \/ armPending /\ step' = "down" /\ UNCHANGED floor
       \/ ~armPending /\ step' = "audio" /\ UNCHANGED floor
    /\ UNCHANGED <<closed, gateway, created, itemsOk, oneShot, items, source, cuts, session>>

(* _pump_audio.                                                                *)
SendAudio ==
    /\ step = "audio" /\ step' = "read"
    /\ LET n == IF Len(source) < ReadMax THEN Len(source) ELSE ReadMax IN
       /\ source' = SubSeq(source, n + 1, Len(source))
       /\ floor' = [floor EXCEPT !.stale = @ \/ \E i \in 1..n : source[i] # session]
    /\ UNCHANGED <<closed, gateway, created, client, cuts, session>>

(* _read_frames comes to its end.                                              *)
DoneReading ==
    /\ step = "read" /\ step' = IF closed THEN "gone" ELSE "items"
    /\ UNCHANGED <<closed, gateway, created, client, source, cuts, session, floor>>

-----------------------------------------------------------------------------
(* What the worker may read.  _on_session_created: adopt, seed, then decide    *)
(* how this session is armed; a gateway that cannot take items is not seeded.  *)
Seed == IF gateway.items THEN Known ELSE {}
FaultyArmsAtOnce(g) == ~oneShot
ArmsAtOnce(g) == ~g.oneShot

Created ==
    /\ step = "read" /\ ~created /\ created' = TRUE
    /\ itemsOk' = gateway.items /\ oneShot' = gateway.oneShot
    /\ armPending' = (armPending \/ ArmsAtOnce(gateway))
    /\ floor' = [floor EXCEPT !.told = @ \union Seed, !.owed = @ \/ ~gateway.oneShot,
                              !.asked = @ + IF gateway.oneShot THEN 0 ELSE 1]
    /\ UNCHANGED <<step, closed, gateway, items, source, cuts, session>>

(* arm_once: an ask of a session that answers everything is declined.          *)
ArmedOnce == armPending \/ oneShot

(* _utterance_tap: an utterance that attention admits asks for one reply,      *)
(* unless the session answers everything anyway.                               *)
Heard ==
    /\ step = "read" /\ created /\ floor.asked < MaxAsks
    /\ armPending' = ArmedOnce
    /\ floor' = [floor EXCEPT !.asked = @ + IF oneShot THEN 1 ELSE 0, !.owed = @ \/ oneShot]
    /\ UNCHANGED <<step, closed, gateway, created, itemsOk, oneShot, items, source, cuts, session>>

(* _offer: the newest is kept, at the cost of the oldest.                      *)
Offered(q, c) == IF Len(q) < ItemMax THEN Append(q, c) ELSE Append(Tail(q), c)

(* send_item: declined by a session that did not announce that it takes them.  *)
Sent(c) == IF itemsOk THEN Offered(items, c) ELSE items

(* _record_cut: the mind's record is narrowed, and the floor told by an item   *)
(* if it announced that it takes them.                                         *)
Cut ==
    /\ step = "read" /\ created /\ cuts < MaxCuts
    /\ cuts' = cuts + 1
    /\ items' = Sent(cuts + 1)
    /\ floor' = [floor EXCEPT !.evicted =
         @ \union (IF itemsOk /\ Len(items) = ItemMax THEN {Head(items)} ELSE {})]
    /\ UNCHANGED <<step, closed, gateway, created, itemsOk, oneShot, armPending, source, session>>

-----------------------------------------------------------------------------
Close ==
    /\ ~closed /\ closed' = TRUE
    /\ UNCHANGED <<step, gateway, created, client, source, cuts, session, floor>>

Leave ==
    /\ step = "down" /\ closed /\ step' = "gone"
    /\ UNCHANGED <<closed, gateway, created, client, source, cuts, session, floor>>

(* The microphone goes on, whether anybody reads it or not.                    *)
Capture ==
    /\ Len(source) < SourceMax /\ step # "gone"
    /\ source' = Append(source, IF Open THEN session ELSE 0)
    /\ UNCHANGED <<step, closed, gateway, created, client, cuts, session, floor>>

Pump == SendItem \/ NoItem \/ SendArm \/ SendAudio \/ DoneReading
FloorNext == Dial \/ Lose \/ Pump \/ Created \/ Heard \/ Cut \/ Close \/ Leave \/ Capture

FloorSpec == FloorInit /\ [][FloorNext]_floorVars
FloorFairSpec == FloorSpec /\ WF_floorVars(Pump)

-----------------------------------------------------------------------------
FloorTypeOK ==
    /\ step \in Steps /\ closed \in BOOLEAN /\ gateway \in Abilities
    /\ {created, itemsOk, oneShot, armPending} \subseteq BOOLEAN
    /\ items \in Seq(Items) /\ Len(items) <= ItemMax
    /\ source \in Seq(0..MaxSessions) /\ Len(source) <= SourceMax
    /\ cuts \in 0..MaxCuts /\ session \in 0..MaxSessions

(* A floor that takes items knows of every reply the room did not hear whole:  *)
(* by its seed, by an item, or by one still queued - but for what the queue    *)
(* had no room for.                                                            *)
FloorKnows ==
    Open /\ created /\ gateway.items
      => Known \subseteq floor.told \union ToSet(items) \union floor.evicted

(* The floor is asked no more often than somebody asked: once per admitted     *)
(* utterance, or once for all where it answers everything.                     *)
AskedOnly == floor.arms <= floor.asked

(* A session that inherits nothing is told what the mind knows before it is    *)
(* asked, and gets no frame it did not announce that it takes.                 *)
CleanStart == ~floor.heir => (floor.arms > 0 => created) /\ ~floor.unannounced

(* The floor hears nothing that was captured before its session, unless the    *)
(* backlog was longer than what a connect drops.                               *)
FreshAudio == floor.stale => floor.overfull

(* A reply is asked for only when every item accepted by then has gone out.    *)
ItemsFirstStep == floor'.arms > floor.arms => items = <<>>
ItemsFirst == [][ItemsFirstStep]_floorVars

(* Whatever gateway it lands on, a robot somebody speaks to is not mute: a     *)
(* reply that is owed is asked for, unless its session is lost.                *)
NeverMute == []<>(Open => ~floor.owed)

(* "Re-seeding inside this handler puts the items on the socket on this same   *)
(* worker turn, while arming is only a FLAG the next pump sends - so the       *)
(* ordering is structural": no session is armed before it is seeded.           *)
SeededFirst == Open /\ floor.arms > 0 => created

-----------------------------------------------------------------------------
(* What was heard of a reply                                                 *)

CONSTANTS Texts,          \* what replies may say
          MaxReplies, MaxUnits,   \* bounds: replies, and units of audio in one
          MaxLedgers      \* response_maxsize: records kept

Space == " "

SplitAssumption ==
  /\ Texts \subseteq Seq({"a", "b", Space})
  /\ {MaxReplies, MaxUnits, MaxLedgers} \subseteq Nat \ {0}

VARIABLES
  seen, arriving,   \* replies created; is the last one still arriving?
  audio,            \* units of it that have arrived
  stale,            \* a cut came over it: the rest is not spoken
  playback,         \* chunks waiting for the mouth, each the reply it is of
  mouth,            \* the reply whose chunk is in the speaker, or None
  current,          \* _current_response_id
  ledgers,          \* _ledgers, oldest first
  heard,            \* ghost: per reply, the units the speaker returned from
  said              \* ghost: per reply, its text once it is complete

splitVars == <<seen, arriving, audio, stale, playback, mouth, current, ledgers, heard, said>>

None == 0
Replies == 1 .. MaxReplies

(* _PlaybackLedger, and the reading of it that callers get; audio still queued *)
(* is no part of a split.                                                      *)
NewLedger(r) == [reply |-> r, played |-> 0, inflight |-> FALSE, cancelled |-> FALSE,
                 total |-> 0, text |-> <<>>, complete |-> FALSE]

SplitInit ==
  /\ seen = 0 /\ arriving = FALSE /\ audio = 0 /\ stale = FALSE
  /\ playback = <<>> /\ mouth = None /\ current = None /\ ledgers = <<>>
  /\ heard = [r \in Replies |-> 0] /\ said = [r \in Replies |-> <<>>]

-----------------------------------------------------------------------------
(* The records                                                                 *)

KnownReplies(r) == \E n \in DOMAIN ledgers : ledgers[n].reply = r
At(r) == CHOOSE n \in DOMAIN ledgers : ledgers[n].reply = r

(* _ledger_for: the record of r, made anew when there is none; then the oldest *)
(* goes.                                                                       *)
LedgerFor(kept, r) ==
  IF \E n \in DOMAIN kept : kept[n].reply = r THEN kept
  ELSE LET more == Append(kept, NewLedger(r))
       IN  IF Len(more) > MaxLedgers THEN Tail(more) ELSE more

Written(kept, r, Change(_)) ==
  LET now == LedgerFor(kept, r)
  IN  [n \in DOMAIN now |-> IF now[n].reply = r THEN Change(now[n]) ELSE now[n]]

(* response.created: one record, and the generation of its birth.              *)
ReplyCreated ==
  /\ ~arriving /\ seen < MaxReplies
  /\ seen' = seen + 1 /\ arriving' = TRUE /\ audio' = 0 /\ stale' = FALSE
  /\ ledgers' = LedgerFor(ledgers, seen + 1)
  /\ UNCHANGED <<playback, mouth, current, heard, said>>

(* A delta, handed to the mouth unless a cut came over the reply.              *)
Arrives ==
  /\ arriving /\ audio < MaxUnits
  /\ audio' = audio + 1
  /\ playback' = IF stale THEN playback ELSE Append(playback, seen)
  /\ UNCHANGED <<seen, arriving, stale, mouth, current, ledgers, heard, said>>

(* _finish_response: text and total become final, and the reply is published.  *)
Finish ==
  /\ arriving
  /\ arriving' = FALSE
  /\ \E text \in Texts :
       /\ ledgers' = Written(ledgers, seen,
                       LAMBDA l : [l EXCEPT !.text = text, !.total = audio, !.complete = TRUE])
       /\ said' = [said EXCEPT ![seen] = text]
  /\ UNCHANGED <<seen, audio, stale, playback, mouth, current, heard>>

(* _begin_chunk: the chunk goes to the sink.                                   *)
Begin ==
  /\ mouth = None /\ playback # <<>>
  /\ mouth' = Head(playback) /\ current' = Head(playback) /\ playback' = Tail(playback)
  /\ ledgers' = Written(ledgers, Head(playback), LAMBDA l : [l EXCEPT !.inflight = TRUE])
  /\ UNCHANGED <<seen, arriving, audio, stale, heard, said>>

(* PlaySink, _speak: what the sink returned from was heard; what it raised on  *)
(* was not.                                                                    *)
Return(ok) ==
  /\ mouth # None
  /\ mouth' = None
  /\ ledgers' = Written(ledgers, mouth,
                  LAMBDA l : [l EXCEPT !.inflight = FALSE, !.played = IF ok THEN @ + 1 ELSE @])
  /\ heard' = [heard EXCEPT ![mouth] = IF ok THEN @ + 1 ELSE @]
  /\ UNCHANGED <<seen, arriving, audio, stale, playback, current, said>>

(* playback_pending: would a cut withhold anything?  What is in the speaker    *)
(* would play on.                                                              *)
PlaybackPending == playback # <<>>

Marked(kept, rs) ==
  FoldLeft(LAMBDA k, r : Written(k, r, LAMBDA l : [l EXCEPT !.cancelled = TRUE]), kept, rs)

(* _skip_remaining, on an onset or from an operator: the reply reported on is  *)
(* the first that was waiting, else the one last in the speaker.               *)
CutOff ==
  /\ PlaybackPending \/ current # None
  /\ playback' = <<>> /\ stale' = TRUE
  /\ LET reported == IF PlaybackPending THEN Head(playback) ELSE current
     IN  ledgers' = Marked(ledgers, Append(playback, reported))
  /\ UNCHANGED <<seen, arriving, audio, mouth, current, heard, said>>

SplitNext ==
  \/ ReplyCreated \/ Arrives \/ Finish \/ Begin \/ CutOff
  \/ \E ok \in BOOLEAN : Return(ok)

SplitSpec == SplitInit /\ [][SplitNext]_splitVars

-----------------------------------------------------------------------------
(* The split                                                                   *)

(* rfind of a space, from 0: 0 also when there is none.                        *)
LastSpace(text) ==
  LET at == {n \in DOMAIN text : text[n] = Space}
  IN  IF at = {} THEN 0 ELSE Max(at) - 1

(* estimate_spoken_prefix: the share of the text that is the share of the      *)
(* audio, less its last word.                                                  *)
Prefix(text, played, total) ==
  IF text = <<>> THEN <<>>
  ELSE IF played >= total THEN text
  ELSE IF played = 0 THEN <<>>
  ELSE LET cut == SubSeq(text, 1, Max({1, (Len(text) * played) \div total}))
       IN  IF LastSpace(cut) > 0 THEN SubSeq(cut, 1, LastSpace(cut)) ELSE cut

Stripped(text) ==
  LET solid == {n \in DOMAIN text : text[n] # Space}
  IN  IF solid = {} THEN <<>> ELSE SubSeq(text, Min(solid), Max(solid))

(* split_spoken: with no total, nothing was said.                              *)
Split(l) ==
  LET first == IF l.total = 0 THEN <<>> ELSE Prefix(l.text, l.played, l.total)
  IN  [text |-> l.text, said |-> first, cut |-> l.cancelled,
       unsaid |-> Stripped(SubSeq(l.text, Len(first) + 1, Len(l.text)))]

(* _ledger_of: the record of r if there is one, never a new one.               *)
LedgerOf(r) == {ledgers[n] : n \in {m \in DOMAIN ledgers : ledgers[m].reply = r}}

(* spoken_split, as the taps ask for it: none before the reply is complete.    *)
MeasuredSplit(r) == {Split(l) : l \in {k \in LedgerOf(r) : k.complete}}

-----------------------------------------------------------------------------
SplitTypeOK ==
  /\ seen \in 0 .. MaxReplies /\ audio \in 0 .. MaxUnits
  /\ {arriving, stale} \subseteq BOOLEAN
  /\ {mouth, current} \subseteq Replies \cup {None} /\ playback \in Seq(Replies)
  /\ Len(ledgers) <= MaxLedgers
  /\ \A m, n \in DOMAIN ledgers : ledgers[m].reply = ledgers[n].reply => m = n

Spoken(text) == SelectSeq(text, LAMBDA c : c # Space)

(* Said and unsaid together are the reply, word for word.                      *)
Partition ==
  \A r \in Replies : \A s \in MeasuredSplit(r) :
    /\ s.text = said[r] /\ IsPrefix(s.said, s.text)
    /\ Spoken(s.said) \o Spoken(s.unsaid) = Spoken(s.text)

(* No more of a reply counts as said than the room heard of its audio, but for *)
(* a first letter, whatever records were dropped and made again in between.    *)
NotMoreThanHeard ==
  \A r \in Replies : \A l \in LedgerOf(r) : \A s \in MeasuredSplit(r) :
    /\ l.played <= heard[r]
    /\ heard[r] = 0 => s.said = <<>>
    /\ Len(s.said) * l.total <= Max({l.total, Len(s.text) * heard[r]})

(* The measurement of a complete reply is exact as long as there is one.       *)
Exact == \A r \in Replies : \A l \in LedgerOf(r) : l.complete => l.played = heard[r]

(* What was said is never unsaid.                                              *)
SaidGrowsStep ==
  \A r \in Replies : \A s \in MeasuredSplit(r) : \A t \in MeasuredSplit(r)' :
    IsPrefix(s.said, t.said)
SaidGrows == [][SaidGrowsStep]_splitVars

(* Said of SplitSpec: said "ends on a word boundary".                          *)
WordBoundary ==
  \A r \in Replies : \A s \in MeasuredSplit(r) :
    s.said = <<>> \/ s.said = s.text \/ s.text[Len(s.said) + 1] = Space
=============================================================================
