------------------------------ MODULE Recorder ------------------------------
(***************************************************************************)
(* resoio record: coroutines of one event loop that pace the camera's      *)
(* frames, encode them and the speaker's chunks into one file or pipe, and *)
(* finish the file however the recording ends.  Only an await lets another *)
(* coroutine run; encoding and writing take time without one.              *)
(*                                                                         *)
(* The clock counts steps of StepMicros, a chunk of the speaker is         *)
(* Samples long.  Clock and timestamps stop counting at their bounds.      *)
(***************************************************************************)
EXTENDS Naturals, Integers, FiniteSets

CONSTANTS
  Size,        \* sizes of the frames
  NoSize,      \* the 0x0 of a stream whose size is not set
  StepMicros,  \* microseconds of a step of the clock
  Samples,     \* samples of a chunk of the speaker
  Period,      \* steps from one frame to the next
  MaxTime,     \* bound: steps of the clock
  MaxStall,    \* bound: steps that encoding a frame, or waking up late, takes
  MaxPts       \* bound: timestamps

ASSUME RecorderAssumption ==
  /\ NoSize \notin Size
  /\ {StepMicros, Samples, Period} \subseteq Nat \ {0} /\ MaxPts \in Nat /\ MaxTime \in Nat /\ MaxStall \in Nat

VARIABLES
  recording,   \* the main task
  camera,      \* the producer task and what it shares with the pacer
  pacer,       \* _paced_frames with the loop that consumes it
  audio,       \* the audio pump
  timing,      \* MuxedState
  file,        \* the container
  clock        \* steps

recorderVars == <<recording, camera, pacer, audio, timing, file, clock>>

Upto(t) == IF t < MaxTime THEN t ELSE MaxTime
Capped(pts) == IF pts < MaxPts THEN pts ELSE MaxPts

None == 0 - 1
NoFrame == [size |-> NoSize, at |-> 0]

(* cause: what ended the recording; "pipe" and "output" are the consumer of*)
(* the frames failing, with a BrokenPipeError or otherwise.  printed: the  *)
(* path was.                                                               *)
NotRecording == [at |-> "none", mode |-> "muxed", sink |-> "file", timed |-> FALSE,
                 cause |-> "none", printed |-> FALSE, status |-> "none"]
NoCamera == [producer |-> "none", latest |-> NoFrame, arrived |-> FALSE]
NoPacer == [at |-> "none", header |-> NoSize, ahead |-> 0, burst |-> 0]
NoAudio == [at |-> "none", begun |-> FALSE, offset |-> 0]
NoTiming == [t0 |-> None, video |-> None, audio |-> None]
NoFile == [open |-> FALSE, closed |-> FALSE, size |-> NoSize, frozen |-> "no",
           kept |-> FALSE, ordered |-> TRUE]

Cause == {"none", "end", "duration", "failure", "pipe", "output", "interrupt"}
Pts == None .. MaxPts

RecorderTypeOK ==
  /\ recording \in [at : {"none", "open", "run", "leave", "flush", "close", "ended"},
                    mode : {"muxed", "video", "audio"}, sink : {"-", "file"}, timed : BOOLEAN,
                    cause : Cause, printed : BOOLEAN, status : {"none", "0", "1", "2", "130"}]
  /\ camera \in [producer : {"none", "running", "cancelling", "done", "failed"},
                 latest : [size : Size \cup {NoSize}, at : 0 .. MaxTime], arrived : BOOLEAN]
  /\ pacer \in [at : {"none", "first", "emit", "pace", "sleep", "leaving", "awaiting", "left", "abandoned"},
                header : Size \cup {NoSize}, ahead : (0 - 2 * MaxStall) .. Period, burst : 0 .. 9]
  /\ audio \in [at : {"none", "gate", "read", "left"}, begun : BOOLEAN, offset : 0 .. MaxPts]
  /\ timing \in [t0 : None .. MaxTime, video : Pts, audio : Pts]
  /\ file \in [open : BOOLEAN, closed : BOOLEAN, size : Size \cup {NoSize},
               frozen : {"no", "sized", "unsized"}, kept : BOOLEAN, ordered : BOOLEAN]
  /\ clock \in 0 .. MaxTime

RecorderInit ==
  /\ recording = NotRecording /\ camera = NoCamera /\ pacer = NoPacer /\ audio = NoAudio
  /\ timing = NoTiming /\ file = NoFile /\ clock = 0

HasVideo == recording.mode # "audio"
HasAudio == recording.mode # "video"
Encoded == recording.mode = "muxed" \/ (recording.mode = "video" /\ recording.sink = "file")

(* The pacer goes on without an await: no other coroutine runs.            *)
Busy == pacer.at \in {"emit", "pace"}
InRun == recording.at = "run" /\ ~Busy

-----------------------------------------------------------------------------
(* _run and _dispatch                                                      *)

(* _validate_args refuses flags and extensions that do not fit the mode.   *)
RunRecord(mode, sink, timed, valid) ==
  /\ recording.at = "none"
  /\ recording' = [NotRecording EXCEPT !.mode = mode, !.sink = sink, !.timed = timed,
                     !.at = IF valid THEN "open" ELSE "ended",
                     !.status = IF valid THEN "none" ELSE "2"]
  /\ UNCHANGED <<camera, pacer, audio, timing, file, clock>>

(* The file is there before an engine is asked, and closed if none answers.*)
OpenRecording ==
  /\ recording.at = "open"
  /\ file' = [file EXCEPT !.open = TRUE]
  /\ \/ /\ recording' = [recording EXCEPT !.at = "run"]
        /\ camera' = IF HasVideo THEN [camera EXCEPT !.producer = "running"] ELSE camera
        /\ pacer' = IF HasVideo THEN [pacer EXCEPT !.at = "first"] ELSE pacer
        /\ audio' = IF HasAudio
                    THEN [audio EXCEPT !.at = IF HasVideo THEN "gate" ELSE "read"] ELSE audio
     \/ /\ recording' = [recording EXCEPT !.at = "flush", !.cause = "failure"]
        /\ UNCHANGED <<camera, pacer, audio>>
  /\ UNCHANGED <<timing, clock>>

(* The end of --duration, or Ctrl-C, cancels what is being awaited.        *)
Cancel(cause) ==
  /\ InRun
  /\ cause = "duration" => recording.timed
  /\ recording' = [recording EXCEPT !.at = "leave", !.cause = cause]
  /\ pacer' = [pacer EXCEPT !.at = IF @ \in {"first", "sleep"} THEN "leaving" ELSE @]
  /\ audio' = [audio EXCEPT !.at = IF @ = "none" THEN @ ELSE "left"]
  /\ UNCHANGED <<camera, timing, file, clock>>

-----------------------------------------------------------------------------
(* _paced_frames: the producer                                             *)

(* The stamp is the engine's; it may be older than the last one.           *)
Stamps == {clock, clock - 1} \cap Nat

FrameArrives(size) ==
  /\ camera.producer = "running" /\ ~Busy
  /\ \E at \in Stamps : camera' = [camera EXCEPT !.latest = [size |-> size, at |-> at],
                                                 !.arrived = TRUE]
  /\ UNCHANGED <<recording, pacer, audio, timing, file, clock>>

(* Mutant: the pacer is not woken.                                         *)
ProducerDoneSilently(how) == [camera EXCEPT !.producer = how]

(* The finally of the producer: its end wakes the pacer too.               *)
ProducerDone(how) == [camera EXCEPT !.producer = how, !.arrived = TRUE]

(* Being cancelled is no failure.                                          *)
ProducerEnds ==
  /\ ~Busy
  /\ \/ camera.producer = "running" /\ \E how \in {"done", "failed"} : camera' = ProducerDone(how)
     \/ camera.producer = "cancelling" /\ camera' = ProducerDone("done")
  /\ UNCHANGED <<recording, pacer, audio, timing, file, clock>>

-----------------------------------------------------------------------------
(* _paced_frames: the pacer, and what its consumer does with a frame       *)

(* The pump is over: its result decides how the recording ends, unless     *)
(* something else has.                                                     *)
Ending(cause) ==
  recording' = IF recording.at = "run" THEN [recording EXCEPT !.at = "leave", !.cause = cause]
               ELSE recording

AudioLeft == audio' = [audio EXCEPT !.at = IF @ = "none" THEN @ ELSE "left"]

(* A producer that has failed is awaited in the finally, and its exception *)
(* takes the place of the end.                                             *)
PaceReturns(cause) ==
  /\ pacer' = [pacer EXCEPT !.at = "leaving"]
  /\ Ending(IF camera.producer = "failed" THEN "failure" ELSE cause) /\ AudioLeft
  /\ UNCHANGED <<camera, timing, file, clock>>

PaceFirst ==
  /\ pacer.at = "first" /\ camera.arrived /\ InRun
  /\ \/ camera.producer = "failed" /\ PaceReturns("failure")
     \/ camera.producer # "failed" /\ camera.latest = NoFrame /\ PaceReturns("end")
     \/ /\ camera.producer # "failed" /\ camera.latest # NoFrame
        /\ pacer' = [pacer EXCEPT !.at = "emit", !.header = camera.latest.size]
        /\ UNCHANGED <<recording, camera, audio, timing, file, clock>>

(* Steps to ticks of 90 kHz and to samples of 48 kHz, rounded.             *)
VideoPts(delta) == (delta * StepMicros * 90 + 500) \div 1000
AudioPts(delta) == (delta * StepMicros * 48 + 500) \div 1000
NotNegative(n) == IF n > 0 THEN n ELSE 0

(* Mutant: time stamps that do not advance are taken as they are.          *)
AdvancedAsIs(pts, seen) == pts

(* Timestamps of a container must advance.                                 *)
Advanced(pts, seen) == IF pts <= seen THEN seen + 1 ELSE pts

Anchored(at) == IF timing.t0 = None THEN at ELSE timing.t0

(* container.mux: the first packet freezes the size of the video.          *)
Muxed(f) ==
  [f EXCEPT !.frozen = IF @ # "no" THEN @ ELSE IF f.size = NoSize THEN "unsized" ELSE "sized"]

(* Both encoders keep the order; that of the video keeps one frame back    *)
(* (external).                                                             *)
WithVideo(f, pts) ==
  [IF f.kept THEN Muxed(f) ELSE f EXCEPT !.kept = TRUE, !.ordered = @ /\ pts > timing.video]
WithAudio(f, pts) == [Muxed(f) EXCEPT !.ordered = @ /\ pts > timing.audio]

(* video_pump: a stamp below the anchor is clamped to it.  The mp4 route   *)
(* has no stamps: its encoder counts the frames (external).                *)
EncodeFrame(frame) ==
  LET t0 == IF HasAudio THEN Anchored(frame.at) ELSE timing.t0
      pts == IF HasAudio THEN Advanced(VideoPts(NotNegative(frame.at - t0)), timing.video)
             ELSE timing.video + 1
  IN /\ timing' = [timing EXCEPT !.t0 = t0, !.video = Capped(pts)]
     /\ file' = WithVideo([file EXCEPT !.size = IF @ = NoSize THEN frame.size ELSE @], pts)

(* A schedule that has passed begins anew.                                 *)
Reanchored(ahead) == IF ahead > 0 THEN ahead ELSE 0

(* A frame, and stall steps of work on it; or that work raises: the pipe is*)
(* closed, the encoder or the disk fails.                                  *)
PaceEmit(stall) ==
  /\ pacer.at = "emit"
  /\ \/ camera.latest.size # pacer.header /\ PaceReturns("end")
     \/ /\ camera.latest.size = pacer.header
        /\ IF Encoded THEN EncodeFrame(camera.latest) ELSE UNCHANGED <<timing, file>>
        /\ clock' = Upto(clock + stall)
        /\ pacer' = [pacer EXCEPT !.at = "pace", !.ahead = @ - stall,
                                  !.burst = IF stall = 0 THEN @ + 1 ELSE 0]
        /\ UNCHANGED <<recording, camera, audio>>
     \/ /\ camera.latest.size = pacer.header
        /\ pacer' = [pacer EXCEPT !.at = "abandoned"]
        /\ Ending("output") \/ (recording.sink = "-" /\ Ending("pipe"))
        /\ AudioLeft
        /\ UNCHANGED <<camera, timing, file, clock>>

(* The next frame: from where the pacer goes on once it is due.            *)
PaceGoesOn(ahead, burst) ==
  \/ camera.producer = "done" /\ PaceReturns("end")
  \/ camera.producer = "failed" /\ PaceReturns("failure")
  \/ /\ camera.producer = "running"
     /\ pacer' = [pacer EXCEPT !.at = "emit", !.ahead = ahead, !.burst = burst]
     /\ UNCHANGED <<recording, camera, audio, timing, file, clock>>

(* It sleeps until then; if that has passed, there is no await.            *)
PaceNext ==
  /\ pacer.at = "pace"
  /\ LET ahead == pacer.ahead + Period
     IN IF ahead > 0
        THEN /\ pacer' = [pacer EXCEPT !.at = "sleep", !.ahead = ahead]
             /\ UNCHANGED <<recording, camera, audio, timing, file, clock>>
        ELSE PaceGoesOn(Reanchored(ahead), pacer.burst)

(* Awake again, maybe late.                                                *)
PaceWake == pacer.at = "sleep" /\ pacer.ahead <= 0 /\ InRun /\ PaceGoesOn(pacer.ahead, 0)

(* Mutant: the finally of the generator only cancels.                      *)
CancelProducerUnawaited ==
  /\ camera' = [camera EXCEPT !.producer = IF @ = "running" THEN "cancelling" ELSE @]
  /\ pacer' = [pacer EXCEPT !.at = "left"]

(* The finally of the generator cancels the producer and awaits it.        *)
CancelProducer ==
  /\ camera' = [camera EXCEPT !.producer = IF @ = "running" THEN "cancelling" ELSE @]
  /\ pacer' = [pacer EXCEPT !.at = "awaiting"]

ConsumerFailed == recording.cause \in {"pipe", "output"}

(* A generator whose consumer failed runs its finally when it is collected.*)
(* Without an audio pump, the exception of a producer that failed before it*)
(* could be cancelled takes the place of the cancellation.                 *)
PaceLeave ==
  /\ \/ pacer.at \in {"leaving", "abandoned"} /\ CancelProducer /\ UNCHANGED recording
     \/ /\ pacer.at = "awaiting" /\ camera.producer \in {"done", "failed"}
        /\ pacer' = [pacer EXCEPT !.at = "left"] /\ UNCHANGED camera
        /\ recording' = IF ~HasAudio /\ camera.producer = "failed" /\ ~ConsumerFailed
                        THEN [recording EXCEPT !.cause = "failure"] ELSE recording
  /\ UNCHANGED <<audio, timing, file, clock>>

-----------------------------------------------------------------------------
(* The audio pump, or the loop of an audio route.                          *)

(* video_header_ready                                                      *)
HeaderReady == file.size # NoSize

AudioGate ==
  /\ audio.at = "gate" /\ HeaderReady /\ InRun
  /\ audio' = [audio EXCEPT !.at = "read"]
  /\ UNCHANGED <<recording, camera, pacer, timing, file, clock>>

(* A chunk.  Its time is that of the first chunk and the samples since: a  *)
(* chunk that was lost is not made up for.                                 *)
AudioChunk ==
  /\ audio.at = "read" /\ InRun
  /\ IF HasVideo
     THEN \E at \in Stamps :
            LET t0 == Anchored(at)
                offset == IF audio.begun THEN audio.offset ELSE AudioPts(NotNegative(at - t0))
                pts == Advanced(offset, timing.audio)
            IN /\ timing' = [timing EXCEPT !.t0 = t0, !.audio = Capped(pts)]
               /\ file' = WithAudio(file, pts)
               /\ audio' = [audio EXCEPT !.begun = TRUE, !.offset = Capped(offset + Samples)]
     ELSE audio' = [audio EXCEPT !.begun = TRUE] /\ UNCHANGED <<timing, file>>
  /\ UNCHANGED <<recording, camera, pacer, clock>>

(* The stream ends or fails, or the pipe is closed: FIRST_COMPLETED, and   *)
(* the other pump is cancelled.                                            *)
AudioEnds(cause) ==
  /\ audio.at = "read" /\ InRun
  /\ cause = "pipe" => recording.sink = "-"
  /\ Ending(cause) /\ AudioLeft
  /\ pacer' = [pacer EXCEPT !.at = IF @ \in {"first", "sleep"} THEN "leaving" ELSE @]
  /\ UNCHANGED <<camera, timing, file, clock>>

-----------------------------------------------------------------------------
(* The way out.                                                            *)

(* The clients' channels close once the pumps have ended.                  *)
LeaveClients ==
  /\ recording.at = "leave" /\ pacer.at \in {"none", "left", "abandoned"}
  /\ recording' = [recording EXCEPT !.at = "flush"]
  /\ audio' = NoAudio /\ timing' = NoTiming /\ clock' = 0
  /\ camera' = IF pacer.at = "abandoned" THEN camera ELSE [NoCamera EXCEPT !.producer = camera.producer]
  /\ UNCHANGED <<pacer, file>>

(* What the encoder kept back, then the trailer.                           *)
Finished(f) ==
  [IF f.kept THEN Muxed(f) ELSE f EXCEPT !.kept = FALSE, !.closed = TRUE]

FinishFile ==
  /\ recording.at = "flush" /\ ~Busy
  /\ file' = Finished(file)
  /\ recording' = [recording EXCEPT !.at = "close"]
  /\ UNCHANGED <<camera, pacer, audio, timing, clock>>

(* The path of a file, and the exit code.  What libav makes of a closed    *)
(* pipe is not always a BrokenPipeError.                                   *)
ExitRecord ==
  /\ recording.at = "close" /\ ~Busy
  /\ \E status \in CASE recording.cause \in {"end", "duration"} -> {"0"}
                     [] recording.cause \in {"failure", "output"} -> {"1"}
                     [] recording.cause = "interrupt" -> {"130"}
                     [] recording.cause = "pipe" -> {"0"} \cup IF Encoded THEN {"1"} ELSE {} :
       recording' = [recording EXCEPT !.at = "ended", !.status = status,
                       !.printed = recording.sink = "file" /\ status = "0"]
  /\ camera' = NoCamera /\ pacer' = NoPacer
  /\ UNCHANGED <<audio, timing, file, clock>>

Tick ==
  /\ recording.at = "run" /\ ~Busy
  /\ clock < MaxTime \/ pacer.at = "sleep"
  /\ pacer.at = "sleep" => pacer.ahead > 0 - MaxStall
  /\ clock' = Upto(clock + 1)
  /\ pacer' = [pacer EXCEPT !.ahead = IF pacer.at = "sleep" THEN @ - 1 ELSE @]
  /\ UNCHANGED <<recording, camera, audio, timing, file>>

RecorderProgress ==
  \/ OpenRecording \/ PaceFirst \/ (\E stall \in 0 .. MaxStall : PaceEmit(stall))
  \/ PaceNext \/ PaceWake \/ PaceLeave
  \/ (camera.producer = "cancelling" /\ ProducerEnds)
  \/ LeaveClients \/ FinishFile \/ ExitRecord

RecorderNext ==
  \/ \E mode \in {"muxed", "video", "audio"}, sink \in {"-", "file"}, timed, valid \in BOOLEAN :
       RunRecord(mode, sink, timed, valid)
  \/ OpenRecording
  \/ \E cause \in {"duration", "interrupt"} : Cancel(cause)
  \/ \E size \in Size : FrameArrives(size)
  \/ ProducerEnds \/ PaceFirst \/ PaceNext \/ PaceWake \/ PaceLeave
  \/ \E stall \in 0 .. MaxStall : PaceEmit(stall)
  \/ AudioGate \/ AudioChunk
  \/ \E cause \in {"end", "failure", "pipe"} : AudioEnds(cause)
  \/ LeaveClients \/ FinishFile \/ ExitRecord
  \/ Tick

RecorderSpec == RecorderInit /\ [][RecorderNext]_recorderVars

(* Coroutines that can go on do; the timer fires in the event loop's next  *)
(* turn, if it gets one.                                                   *)
RecorderFairness ==
  /\ WF_recorderVars(RecorderProgress)
  /\ WF_recorderVars(Tick)
  /\ SF_recorderVars(Cancel("duration"))

RecorderFairSpec == RecorderSpec /\ RecorderFairness

-----------------------------------------------------------------------------
(* Properties.                                                             *)

(* However the pumps interleave and whatever ends them: the size of the    *)
(* video is known when the first packet of either is muxed, the timestamps *)
(* of each advance, and a file whose path is printed has every frame that  *)
(* was encoded before its trailer.                                         *)
FileWellFormed ==
  /\ file.frozen # "unsized"
  /\ file.ordered
  /\ recording.printed => file.closed /\ ~file.kept

(* The camera's channel closes only after the task that reads it has ended,*)
(* unless the consumer of its frames failed.                               *)
NoReaderLeft ==
  recording.at \in {"flush", "close"} /\ pacer.at # "abandoned" /\ ~ConsumerFailed
    => camera.producer \notin {"running", "cancelling"}

(* After a stall the pacer makes up for one frame, not for all of them.    *)
NoBurst == pacer.burst <= 2

(* A recording whose stream has ended, or that was cancelled, finishes its *)
(* file and exits; one with a --duration does, or comes to a frame.        *)
RecordingEnds ==
  /\ (recording.at = "leave" \/ (recording.at = "run" /\ camera.producer \in {"done", "failed"}))
        ~> recording.at = "ended"
  /\ (recording.at = "run" /\ recording.timed) ~> (recording.at = "ended" \/ Busy)

(* --duration: "Stop after this many seconds".                             *)
DurationEnds == (recording.at = "run" /\ recording.timed) ~> recording.at = "ended"
=============================================================================
