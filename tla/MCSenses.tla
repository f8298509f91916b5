------------------------------ MODULE MCSenses ------------------------------
(* What the runtime hears, says, sees, feels and locks its gaze on, on one    *)
(* small instance each.                                                      *)
(* The machines share no state: a behavior is one of theirs, and the initial *)
(* state says which.                                                         *)
EXTENDS HeldMedia, Speaking, FaceLock

(* The lock's one inhibition, the lock's own name (which a caller may inhibit  *)
(* under it) and one that has nothing to do with it.                           *)
MCNames == {"orient-to-sound", "face-lock", "speak"}
MCLockInhibits == {"orient-to-sound"}

(* Texts to say: short, too long with a pause, with noise, and only noise.      *)
MCTexts ==
  [c \in {"p", "q"} |->
     IF c = "q" THEN {<<"w", "w">>}
     ELSE {<<"w">>, <<"w", ",", "w", "w">>, <<"w", " ", "w", "*", "w", "dash", "w">>, <<"*">>}]

(* What a delta of the completion may be: a character, or more at once.         *)
MCDeltas ==
  {<<c>> : c \in {".", "A", " ", "quote", "(", ")", "*"}}
    \union {<<".", " ", "A">>, <<" ", "-", " ">>}

VARIABLES
  part,  \* which of the machines runs
  session_rate, session_reconfigure, session_setter, session_worker,
  session_attempts, session_wake, session_sock, session_stable, session_up,
  session_told, session_closed, session_closer, session_audio, session_kept,
  session_lines, session_outage, session_paused, session_sent, session_chunks,
  session_faults,
  touch_pat, touch_detector, touch_latch, touch_reaction, touch_admitted,
  touch_cooling, touch_touched, touch_watched, touch_disturbed, touch_disturbances,
  face_client, face_frameAge, face_latched, face_still, face_slot, face_job,
  face_out, face_position, face_lastSaid, face_face, face_deaths,
  gaze_face, gaze_hist, gaze_n, gaze_target, gaze_reading, gaze_lastCap,
  gaze_lastBox, gaze_lastOffset, gaze_unseen, gaze_used, gaze_aim, gaze_reach

Session == INSTANCE RealtimeSession WITH
  Rates <- {16, 48}, DefaultRate <- 16, MaxQueue <- 1, MaxAttempts <- 2,
  MaxChunks <- 1, MaxFaults <- 2, rate <- session_rate,
  reconfigure <- session_reconfigure, setter <- session_setter,
  worker <- session_worker, attempts <- session_attempts, wake <- session_wake,
  sock <- session_sock, stable <- session_stable, up <- session_up,
  told <- session_told, closed <- session_closed, closer <- session_closer,
  audio <- session_audio, kept <- session_kept, lines <- session_lines,
  outage <- session_outage, paused <- session_paused, sent <- session_sent,
  chunks <- session_chunks, faults <- session_faults

Riders == INSTANCE SenseRiders WITH
  StillHold <- 1, ReleaseAfter <- 4, ContentmentAfter <- 2, WarningAfter <- 4,
  EnoughMax <- 6, Cooldown <- 3, MinPresses <- 2, Slew <- 3, BlockedGrace <- 4,
  LossGrace <- 2, MaxContact <- 20, Gesture <- 2, MaxDisturbances <- 3,
  StreamStale <- 3, PositionTtl <- 2, NameCooldown <- 2, Settle <- 2, Lag <- 1,
  Warmup <- 1, MaxDeaths <- 2, pat <- touch_pat, detector <- touch_detector,
  latch <- touch_latch, reaction <- touch_reaction, admitted <- touch_admitted,
  cooling <- touch_cooling, touched <- touch_touched, watched <- touch_watched,
  disturbed <- touch_disturbed, disturbances <- touch_disturbances,
  client <- face_client, frameAge <- face_frameAge, latched <- face_latched,
  still <- face_still, slot <- face_slot, job <- face_job, out <- face_out,
  position <- face_position, lastSaid <- face_lastSaid, face <- face_face,
  deaths <- face_deaths

Gaze == INSTANCE FaceGaze WITH
  StillAt <- {5, -12}, FixedAt <- {6}, Starts <- {0, 6, -4}, Fov <- 34,
  DampNum <- 7, DampDen <- 10, MaxYaw <- 8, Slew <- 3, ConvergeEps <- 1,
  MaxAge <- 2, RecoverAfter <- 2, RecoverRate <- 2, Latency <- 1, face <- gaze_face,
  hist <- gaze_hist, n <- gaze_n, target <- gaze_target, reading <- gaze_reading,
  lastCap <- gaze_lastCap, lastBox <- gaze_lastBox, lastOffset <- gaze_lastOffset,
  unseen <- gaze_unseen, used <- gaze_used, aim <- gaze_aim, reach <- gaze_reach

SessionVars ==
  <<session_rate, session_reconfigure, session_setter, session_worker,
    session_attempts, session_wake, session_sock, session_stable, session_up,
    session_told, session_closed, session_closer, session_audio, session_kept,
    session_lines, session_outage, session_paused, session_sent, session_chunks,
    session_faults>>
PatVars ==
  <<touch_pat, touch_detector, touch_latch, touch_reaction, touch_admitted,
    touch_cooling, touch_touched, touch_watched, touch_disturbed, touch_disturbances>>
FaceVars ==
  <<face_client, face_frameAge, face_latched, face_still, face_slot, face_job,
    face_out, face_position, face_lastSaid, face_face, face_deaths>>
GazeVars ==
  <<gaze_face, gaze_hist, gaze_n, gaze_target, gaze_reading, gaze_lastCap,
    gaze_lastBox, gaze_lastOffset, gaze_unseen, gaze_used, gaze_aim, gaze_reach>>

ASSUME Session!SessionAssumption
ASSUME MediaAssumption
ASSUME SpeechAssumption
ASSUME SayAssumption
ASSUME SentencesAssumption
ASSUME Riders!TouchAssumption
ASSUME Riders!FaceSenseAssumption
ASSUME Gaze!GazeAssumption

(* A machine that was not chosen stays as it begins.                         *)
MCInit ==
  /\ part \in {"session", "media", "speech", "say", "stream", "touch", "face",
              "gaze", "lock"}
  /\ Session!Init
  /\ MediaInit
  /\ VoiceInit
  /\ SayInit
  /\ StreamInit
  /\ Riders!PatInit
  /\ Riders!FaceInit
  /\ Gaze!Init /\ (part # "gaze" => gaze_face = [kind |-> "still", at |-> 5] /\ gaze_hist[1] = 0)
  /\ Init

SessionStep == part = "session" /\ Session!Next
  /\ UNCHANGED <<part, mediaVars, voiceVars, sayVars, streamVars, PatVars, FaceVars, GazeVars, vars>>
MediaStep == part = "media" /\ MediaNext
  /\ UNCHANGED <<part, SessionVars, voiceVars, sayVars, streamVars, PatVars, FaceVars, GazeVars, vars>>
VoiceStep == part = "speech" /\ VoiceNext
  /\ UNCHANGED <<part, SessionVars, mediaVars, sayVars, streamVars, PatVars, FaceVars, GazeVars, vars>>
SayStep == part = "say" /\ SayNext
  /\ UNCHANGED <<part, SessionVars, mediaVars, voiceVars, streamVars, PatVars, FaceVars, GazeVars,
     vars>>
StreamStep == part = "stream" /\ StreamNext
  /\ UNCHANGED <<part, SessionVars, mediaVars, voiceVars, sayVars, PatVars, FaceVars, GazeVars, vars>>
PatStep == part = "touch" /\ Riders!PatNext
  /\ UNCHANGED <<part, SessionVars, mediaVars, voiceVars, sayVars, streamVars, FaceVars, GazeVars,
     vars>>
FaceStep == part = "face" /\ Riders!FaceNext
  /\ UNCHANGED <<part, SessionVars, mediaVars, voiceVars, sayVars, streamVars, PatVars, GazeVars, vars>>
GazeStep == part = "gaze" /\ Gaze!Next
  /\ UNCHANGED <<part, SessionVars, mediaVars, voiceVars, sayVars, streamVars, PatVars, FaceVars, vars>>
FaceLockingStep == part = "lock" /\ Next
  /\ UNCHANGED <<part, SessionVars, mediaVars, voiceVars, sayVars, streamVars, PatVars, FaceVars,
     GazeVars>>

MCNext == SessionStep \/ MediaStep \/ VoiceStep \/ SayStep \/ StreamStep \/ PatStep \/ FaceStep \/ GazeStep \/ FaceLockingStep

MCvars == <<part, SessionVars, mediaVars, voiceVars, sayVars, streamVars, PatVars, FaceVars, GazeVars, vars>>

(* The fairness of each machine, as its module states it.                    *)
MCSpec ==
  /\ MCInit /\ [][MCNext]_MCvars
  /\ WF_(SessionVars)(part = "session" /\ Session!Worker)
  /\ WF_(mediaVars)(part = "media" /\ Read)
  /\ WF_(mediaVars)(part = "media" /\ Latch)
  /\ WF_(mediaVars)(part = "media" /\ Wait)
  /\ WF_(mediaVars)(part = "media" /\ Return)
  /\ WF_(mediaVars)(part = "media" /\ Poll)
  /\ WF_(mediaVars)(part = "media" /\ Gate)
  /\ WF_(mediaVars)(part = "media" /\ Dial)
  /\ WF_(mediaVars)(part = "media" /\ (Adopt \/ GiveUp \/ Fail))
  /\ WF_(mediaVars)(part = "media" /\ LettingGo("pump"))
  /\ WF_(mediaVars)(part = "media" /\ LettingGo("tick"))
  /\ WF_(mediaVars)(part = "media" /\ LettingGo("keeper"))
  /\ WF_(mediaVars)(part = "media" /\ LettingGo("closer"))
  /\ WF_(voiceVars)(part = "speech" /\ Renders)
  /\ WF_(sayVars)(part = "say" /\ Proceed("p"))
  /\ WF_(sayVars)(part = "say" /\ Proceed("q"))
  /\ WF_(FaceVars)(part = "face" /\ (\E b \in BOOLEAN : Riders!FaceTick(b)))
  /\ WF_(FaceVars)(part = "face" /\ Riders!Rewarm)
  /\ WF_(GazeVars)(part = "gaze" /\ Gaze!Call)
  /\ WF_(vars)(part = "lock" /\ Loop)

-----------------------------------------------------------------------------
(* Every outage of the transcription session is told once, what refuses or   *)
(* drops is not dialled again without a backoff (speech/realtime.py).        *)
SessionSound ==
  /\ [](part = "session" => Session!OutagesTold)
  /\ [][part = "session" => Session!PacedStep]_(SessionVars)

(* What has begun ends: a closed session's worker leaves and no session      *)
(* stays open, a lost client of the media is warmed again, what is to be     *)
(* said is said and no say hangs, a camera client gone silent is dropped, a  *)
(* gaze that lost its face relaxes, and a face lock ends                     *)
(* (speech/realtime.py, audio_pump.py, speech_act.py, playback.py,           *)
(* face_sense.py, face_lock.py).                                             *)
NothingHangs ==
  /\ Session!CloseReleases
  /\ []<>(part = "media" => WarmAgain)
  /\ Drains
  /\ EverySayEnds
  /\ Riders!SilentIsDropped
  /\ Gaze!Relaxes
  /\ LockEnds

(* A text too long for the speech server is cut between words and said whole *)
(* and in order or not at all, each piece at its longest answer (tts.py,     *)
(* playback.py). The sentences of a completion do not depend on how the      *)
(* stream cuts it, and nothing of it is lost (llm.py). Contact is only what  *)
(* was seen: a cooldown is whole, only presses on one side of a gap pair     *)
(* into a pat, and the robot's own motion is no touch (pat_sense.py,         *)
(* motion/pat.py). A published face position is as old as it claims and      *)
(* within its time to live, and no frame of a moving head is looked at       *)
(* (face_sense.py). A locked gaze moves once per detection and never past a  *)
(* still face, and a false face does not march it to its limit               *)
(* (face_lock.py).                                                           *)
SensesSound ==
  /\ [](part = "say" => SayTypeOK)
  /\ [](part = "say" => SplitSound)
  /\ [](part = "say" => LongestKept)
  /\ [](part = "say" => AllOrNothing)
  /\ [](part = "stream" => StreamTypeOK)
  /\ [](part = "stream" => SameSentences)
  /\ [](part = "stream" => NothingLost)
  /\ [](part = "touch" => Riders!FullCooldown)
  /\ [](part = "touch" => Riders!OnlySeenCounts)
  /\ [](part = "touch" => Riders!NotItsOwnDoing)
  /\ [][part = "touch" => Riders!PairedInSightStep]_(PatVars)
  /\ [](part = "face" => Riders!FaceHonest)
  /\ [](part = "gaze" => Gaze!TypeOK)
  /\ [](part = "gaze" => Gaze!OncePerDetection)
  /\ [](part = "gaze" => Gaze!NeverPast)
  /\ [](part = "gaze" => Gaze!NoMarch)

=============================================================================
