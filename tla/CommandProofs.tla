---------------------------- MODULE CommandProofs ---------------------------
(***************************************************************************)
(* Theorems about the command line.  First StreamCommands, for every       *)
(* period, stall, chunk and bound, and any axes and sizes; then Commands,  *)
(* for any engines, keys and panels and any number of changes: what holds  *)
(* of the steps of every command of the table in their order, what of the  *)
(* process for the steps it has yet to do, and that every action keeps it. *)
(***************************************************************************)
EXTENDS StreamCommands, Commands, SequenceTheorems, FiniteSetTheorems, WellFoundedInduction, TLAPS

-----------------------------------------------------------------------------
(* What every step of Recorder keeps, for every period, stall and bound,   *)
(* and any sizes.                                                          *)

-----------------------------------------------------------------------------
(* The type invariant in parts, the bounds of the schedule among them.     *)

RecordingType ==
  recording \in [at : {"none", "open", "run", "leave", "flush", "close", "ended"},
                 mode : {"muxed", "video", "audio"}, sink : {"-", "file"}, timed : BOOLEAN,
                 cause : Cause, printed : BOOLEAN, status : {"none", "0", "1", "2", "130"}]
CameraType ==
  camera \in [producer : {"none", "running", "cancelling", "done", "failed"},
              latest : [size : Size \cup {NoSize}, at : 0 .. MaxTime], arrived : BOOLEAN]
PacerType ==
  pacer \in [at : {"none", "first", "emit", "pace", "sleep", "leaving", "awaiting", "left", "abandoned"},
             header : Size \cup {NoSize}, ahead : Int, burst : Nat]
AudioType == audio \in [at : {"none", "gate", "read", "left"}, begun : BOOLEAN, offset : 0 .. MaxPts]
TimingType == timing \in [t0 : None .. MaxTime, video : Pts, audio : Pts]
FileState == [open : BOOLEAN, closed : BOOLEAN, size : Size \cup {NoSize},
              frozen : {"no", "sized", "unsized"}, kept : BOOLEAN, ordered : BOOLEAN]
FileType == file \in FileState
ClockType == clock \in 0 .. MaxTime

(* A frame that is due is late by a stall at most, and one that follows it *)
(* without a sleep is in time.                                             *)
Scheduled ==
  /\ 0 - 2 * MaxStall <= pacer.ahead /\ pacer.ahead <= Period /\ pacer.burst <= 2
  /\ pacer.at \in {"none", "first"} => pacer.ahead = 0 /\ pacer.burst = 0
  /\ pacer.at \in {"emit", "sleep"} => 0 - MaxStall <= pacer.ahead
  /\ pacer.at = "emit" => pacer.ahead <= 0 /\ pacer.burst <= 1 /\ (pacer.burst = 1 => pacer.ahead = 0)
  /\ pacer.at = "pace" => pacer.ahead <= 0 /\ (pacer.burst = 2 => pacer.ahead = 0)

(* What there is of a recording at its stages.                             *)
Staged ==
  /\ recording.at \in {"none", "open"} =>
       pacer = NoPacer /\ camera = NoCamera /\ audio = NoAudio /\ timing = NoTiming /\ file.size = NoSize
  /\ recording.at \in {"none", "open", "run"} => recording.cause = "none"
  /\ recording.at \in {"leave", "flush", "close"} => recording.cause # "none"
  /\ pacer.at \in {"first", "emit", "pace", "sleep"} => recording.at = "run"
  /\ pacer.at \in {"leaving", "awaiting"} => recording.at # "run"
  /\ pacer.at \in {"emit", "pace", "sleep"} => pacer.header \in Size
  /\ camera.latest = NoFrame \/ camera.latest.size \in Size

(* The producer has ended when its reader has.                             *)
ReaderInv ==
  /\ pacer.at = "none" => camera.producer = "none"
  /\ pacer.at = "left" => camera.producer \in {"done", "failed"}
  /\ pacer.at = "abandoned" => ConsumerFailed
  /\ recording.at \in {"flush", "close"} => pacer.at \in {"none", "left"} \/ ConsumerFailed

(* Nothing is muxed before the size is known.                              *)
FileInv ==
  /\ file.frozen # "unsized" /\ file.ordered
  /\ file.kept => file.size # NoSize
  /\ audio.at = "read" /\ HasVideo => file.size # NoSize
  /\ recording.at = "close" => file.closed /\ ~file.kept
  /\ recording.printed => recording.at = "ended" /\ file.closed /\ ~file.kept

RecorderInv ==
  /\ RecordingType /\ CameraType /\ PacerType /\ AudioType /\ TimingType /\ FileType /\ ClockType
  /\ Scheduled /\ Staged /\ ReaderInv /\ FileInv

LEMMA Times ==
  /\ MaxTime \in Nat /\ MaxStall \in Nat /\ MaxPts \in Nat
  /\ Period \in Nat /\ Period > 0 /\ StepMicros \in Nat /\ Samples \in Nat
  /\ NoSize \notin Size
  BY RecorderAssumption

LEMMA RecorderParts == RecorderInv => RecorderTypeOK /\ FileWellFormed /\ NoReaderLeft /\ NoBurst
  <1> SUFFICES ASSUME RecorderInv PROVE RecorderTypeOK /\ FileWellFormed /\ NoReaderLeft /\ NoBurst
    OBVIOUS
  <1>1. pacer.ahead \in (0 - 2 * MaxStall) .. Period /\ pacer.burst \in 0 .. 9
    BY Times DEF RecorderInv, PacerType, Scheduled
  <1>2. pacer \in [at : {"none", "first", "emit", "pace", "sleep", "leaving", "awaiting", "left", "abandoned"},
                   header : Size \cup {NoSize}, ahead : (0 - 2 * MaxStall) .. Period, burst : 0 .. 9]
    BY <1>1 DEF RecorderInv, PacerType
  <1>3. RecorderTypeOK
    BY <1>2 DEF RecorderTypeOK, RecorderInv, RecordingType, CameraType, AudioType, TimingType,
                FileType, FileState, ClockType
  <1>4. FileWellFormed
    BY DEF RecorderInv, FileInv, FileWellFormed
  <1>5. NoBurst
    BY DEF RecorderInv, Scheduled, NoBurst
  <1>6. NoReaderLeft
    BY DEF RecorderInv, ReaderInv, NoReaderLeft, ConsumerFailed
  <1> QED
    BY <1>3, <1>4, <1>5, <1>6

LEMMA RecorderInitInv == RecorderInit => RecorderInv
  <1> SUFFICES ASSUME RecorderInit PROVE RecorderInv
    OBVIOUS
  <1> USE Times DEF RecorderInit
  <1>1. RecordingType
    BY DEF RecordingType, NotRecording, Cause
  <1>2. CameraType
    BY DEF CameraType, NoCamera, NoFrame
  <1>3. PacerType /\ Scheduled
    BY DEF PacerType, Scheduled, NoPacer
  <1>4. AudioType
    BY DEF AudioType, NoAudio
  <1>5. TimingType
    BY DEF TimingType, NoTiming, None, Pts
  <1>6. FileType
    BY DEF FileType, FileState, NoFile
  <1>7. ClockType
    BY DEF ClockType
  <1>8. Staged /\ ReaderInv /\ FileInv
    BY DEF Staged, ReaderInv, FileInv, NotRecording, NoPacer, NoCamera, NoAudio, NoTiming, NoFile,
           NoFrame, ConsumerFailed
  <1> QED
    BY <1>1, <1>2, <1>3, <1>4, <1>5, <1>6, <1>7, <1>8 DEF RecorderInv

(* Timestamps are within their bounds, and those that are given advance.   *)
LEMMA Stamped ==
  /\ \A n \in Nat : Capped(n) \in 0 .. MaxPts /\ Capped(n) <= n /\ Capped(n) \in Pts
  /\ \A n \in Int : VideoPts(NotNegative(n)) \in Nat /\ AudioPts(NotNegative(n)) \in Nat
  /\ \A n \in Nat, last \in Pts : Advanced(n, last) \in Nat /\ Advanced(n, last) > last
  <1> USE Times
  <1>1. \A n \in Nat : Capped(n) \in 0 .. MaxPts /\ Capped(n) <= n /\ Capped(n) \in Pts
    BY DEF Capped, Pts, None
  <1>2. ASSUME NEW n \in Nat PROVE VideoPts(n) \in Nat /\ AudioPts(n) \in Nat
    <2>1. n * StepMicros \in Nat
      OBVIOUS
    <2>2. n * StepMicros * 90 + 500 \in Nat /\ n * StepMicros * 48 + 500 \in Nat
      BY <2>1
    <2>3. \A k \in Nat : k \div 1000 \in Nat
      OBVIOUS
    <2> QED
      BY <2>2, <2>3 DEF VideoPts, AudioPts
  <1>3. \A n \in Int : NotNegative(n) \in Nat
    BY DEF NotNegative
  <1>4. ASSUME NEW n \in Nat, NEW last \in Pts
        PROVE  Advanced(n, last) \in Nat /\ Advanced(n, last) > last
    BY DEF Advanced, Pts, None
  <1> QED
    BY <1>1, <1>2, <1>3, <1>4

(* What a step leaves alone keeps its type. *)
LEMMA TypesKept ==
  /\ RecordingType /\ UNCHANGED recording => RecordingType'
  /\ CameraType /\ UNCHANGED camera => CameraType'
  /\ PacerType /\ UNCHANGED pacer => PacerType'
  /\ AudioType /\ UNCHANGED audio => AudioType'
  /\ TimingType /\ UNCHANGED timing => TimingType'
  /\ FileType /\ UNCHANGED file => FileType'
  /\ ClockType /\ UNCHANGED clock => ClockType'
  /\ Scheduled /\ UNCHANGED pacer => Scheduled'
  BY DEF RecordingType, CameraType, PacerType, AudioType, TimingType, FileType, FileState, ClockType, Scheduled

(* The main task. *)
LEMMA MainKeeps ==
  ASSUME RecorderInv,
         \/ \E mode \in {"muxed", "video", "audio"}, sink \in {"-", "file"}, timed, valid \in BOOLEAN :
              RunRecord(mode, sink, timed, valid)
         \/ OpenRecording
         \/ \E cause \in {"duration", "interrupt"} : Cancel(cause)
         \/ LeaveClients \/ FinishFile \/ ExitRecord
  PROVE  RecorderInv'
  <1>0. /\ RecordingType /\ CameraType /\ PacerType /\ AudioType /\ TimingType /\ FileType /\ ClockType
        /\ Scheduled /\ Staged /\ ReaderInv /\ FileInv
    BY DEF RecorderInv
  <1>00. ASSUME RecordingType', CameraType', PacerType', AudioType', TimingType', FileType', ClockType',
                Scheduled', Staged', ReaderInv', FileInv'
         PROVE  RecorderInv'
    BY <1>00 DEF RecorderInv
  <1>1. ASSUME NEW mode \in {"muxed", "video", "audio"}, NEW sink \in {"-", "file"},
               NEW timed \in BOOLEAN, NEW valid \in BOOLEAN, RunRecord(mode, sink, timed, valid)
        PROVE  RecorderInv'
    <2>1. RecordingType'
      <3> DEFINE at == IF valid THEN "open" ELSE "ended"
                 status == IF valid THEN "none" ELSE "2"
      <3>1. recording' = [NotRecording EXCEPT !.mode = mode, !.sink = sink, !.timed = timed,
                                              !.at = at, !.status = status]
        BY <1>0, <1>1 DEF RunRecord
      <3>2. at \in {"open", "ended"} /\ status \in {"none", "2"}
        OBVIOUS
      <3> HIDE DEF at, status
      <3> QED
        BY <3>1, <3>2 DEF RecordingType, NotRecording, Cause
    <2>2. /\ CameraType' /\ PacerType' /\ AudioType' /\ TimingType' /\ FileType' /\ ClockType'
          /\ Scheduled'
      BY <1>0, <1>1, TypesKept DEF RunRecord
    <2>3. recording'.at \in {"open", "ended"} /\ ~recording'.printed /\ recording'.cause = "none"
      BY <1>0, <1>1 DEF RunRecord, NotRecording
    <2>4. pacer = NoPacer /\ camera = NoCamera /\ audio = NoAudio /\ timing = NoTiming /\ file.size = NoSize
      BY <1>0, <1>1 DEF RunRecord, Staged
    <2>5. pacer.at = "none" /\ camera.producer = "none" /\ camera.latest = NoFrame /\ audio.at = "none"
      BY <2>4 DEF NoPacer, NoCamera, NoAudio
    <2>6. UNCHANGED <<camera, pacer, audio, timing, file>>
      BY <1>1 DEF RunRecord
    <2>7. Staged'
      BY <2>3, <2>4, <2>5, <2>6 DEF Staged
    <2>8. ReaderInv' /\ FileInv'
      BY <1>0, <2>3, <2>5, <2>6 DEF ReaderInv, FileInv, ConsumerFailed
    <2> QED
      BY <1>00, <2>1, <2>2, <2>7, <2>8
  <1>2. CASE OpenRecording
    <2>1. pacer = NoPacer /\ camera = NoCamera /\ audio = NoAudio /\ timing = NoTiming /\ file.size = NoSize
      BY <1>0, <1>2 DEF OpenRecording, Staged
    <2>2. RecordingType' /\ CameraType' /\ AudioType'
      <3>1. RecordingType'
        BY <1>0, <1>2 DEF OpenRecording, RecordingType, Cause
      <3>2. CameraType'
        BY <1>0, <1>2 DEF OpenRecording, CameraType
      <3>3. AudioType'
        BY <1>0, <1>2 DEF OpenRecording, AudioType
      <3> QED
        BY <3>1, <3>2, <3>3
    <2>3. PacerType' /\ Scheduled'
      BY <1>0, <1>2, <2>1 DEF OpenRecording, PacerType, Scheduled, NoPacer
    <2>4. TimingType' /\ FileType' /\ ClockType'
      BY <1>0, <1>2 DEF OpenRecording, TimingType, FileType, FileState, ClockType
    <2>5. /\ recording'.at \in {"run", "flush"} /\ ~recording'.printed
          /\ recording'.mode = recording.mode
          /\ recording'.cause = (IF recording'.at = "flush" THEN "failure" ELSE "none")
      BY <1>0, <1>2 DEF OpenRecording, FileInv, RecordingType, Staged
    <2>6. /\ file'.frozen = file.frozen /\ file'.ordered = file.ordered /\ file'.kept = file.kept
          /\ file'.size = file.size
      BY <1>0, <1>2 DEF OpenRecording, FileType, FileState
    <2>7. /\ pacer'.at \in {"none", "first"}
          /\ pacer'.at = "first" => recording'.at = "run"
          /\ pacer'.at = "none" => camera'.producer = "none"
          /\ camera'.latest = NoFrame
          /\ audio'.at = "read" => ~HasVideo
      <3>1. /\ pacer.at = "none" /\ camera.producer = "none" /\ camera.latest = NoFrame /\ audio.at = "none"
        BY <2>1 DEF NoPacer, NoCamera, NoAudio
      <3>2. CASE UNCHANGED <<camera, pacer, audio>>
        BY <3>1, <3>2
      <3>3. CASE /\ recording' = [recording EXCEPT !.at = "run"]
                 /\ camera' = IF HasVideo THEN [camera EXCEPT !.producer = "running"] ELSE camera
                 /\ pacer' = IF HasVideo THEN [pacer EXCEPT !.at = "first"] ELSE pacer
                 /\ audio' = IF HasAudio
                             THEN [audio EXCEPT !.at = IF HasVideo THEN "gate" ELSE "read"] ELSE audio
        <4>1. CASE HasVideo
          BY <1>0, <3>1, <3>3, <4>1 DEF CameraType, PacerType, AudioType, RecordingType
        <4>2. CASE ~HasVideo
          <5>1. UNCHANGED <<camera, pacer>>
            BY <3>3, <4>2
          <5> QED
            BY <3>1, <4>2, <5>1
        <4> QED
          BY <4>1, <4>2
      <3> QED
        BY <1>2, <3>2, <3>3 DEF OpenRecording
    <2>8. Staged' /\ ReaderInv'
      BY <1>0, <2>5, <2>7 DEF Staged, ReaderInv, ConsumerFailed
    <2>9. FileInv'
      BY <1>0, <2>5, <2>6, <2>7 DEF FileInv, HasVideo
    <2> QED
      BY <1>00, <2>2, <2>3, <2>4, <2>8, <2>9
  <1>3. ASSUME NEW cause \in {"duration", "interrupt"}, Cancel(cause)
        PROVE  RecorderInv'
    <2>1. RecordingType' /\ AudioType'
      <3>1. RecordingType'
        BY <1>0, <1>3 DEF Cancel, RecordingType, Cause
      <3>2. AudioType'
        BY <1>0, <1>3 DEF Cancel, AudioType
      <3> QED
        BY <3>1, <3>2
    <2>2. PacerType' /\ Scheduled'
      BY <1>0, <1>3 DEF Cancel, PacerType, Scheduled
    <2>3. CameraType' /\ TimingType' /\ FileType' /\ ClockType'
      BY <1>0, <1>3, TypesKept DEF Cancel
    <2>4. /\ recording.at = "run" /\ recording'.at = "leave" /\ recording'.cause = cause
          /\ recording'.printed = recording.printed
          /\ pacer.at \notin {"emit", "pace"}
      BY <1>0, <1>3 DEF Cancel, InRun, Busy, RecordingType
    <2>5. /\ pacer'.at = (IF pacer.at \in {"first", "sleep"} THEN "leaving" ELSE pacer.at)
          /\ audio'.at # "read" /\ UNCHANGED <<camera, file>>
      BY <1>0, <1>3 DEF Cancel, PacerType, AudioType
    <2>6. pacer.at # "abandoned"
      BY <1>0, <2>4 DEF ReaderInv, Staged, ConsumerFailed
    <2>7. Staged' /\ ReaderInv'
      BY <1>0, <2>4, <2>5, <2>6 DEF Staged, ReaderInv, ConsumerFailed
    <2>8. FileInv'
      BY <1>0, <2>4, <2>5 DEF FileInv
    <2> QED
      BY <1>00, <2>1, <2>2, <2>3, <2>7, <2>8
  <1>4. CASE LeaveClients
    <2>1. RecordingType' /\ CameraType' /\ AudioType' /\ TimingType' /\ ClockType'
      <3>1. RecordingType' /\ ClockType'
        BY <1>0, <1>4, Times DEF LeaveClients, RecordingType, ClockType
      <3>2. CameraType'
        <4>1. NoFrame \in [size : Size \cup {NoSize}, at : 0 .. MaxTime]
          BY Times DEF NoFrame
        <4>2. camera' = camera \/ camera' = [NoCamera EXCEPT !.producer = camera.producer]
          BY <1>4 DEF LeaveClients
        <4> QED
          BY <1>0, <4>1, <4>2 DEF CameraType, NoCamera
      <3>3. AudioType' /\ TimingType'
        BY <1>0, <1>4, Times DEF LeaveClients, AudioType, TimingType, NoAudio, NoTiming, None, Pts
      <3> QED
        BY <3>1, <3>2, <3>3
    <2>2. PacerType' /\ FileType' /\ Scheduled'
      BY <1>0, <1>4, TypesKept DEF LeaveClients
    <2>3. /\ recording'.at = "flush" /\ recording'.cause = recording.cause
          /\ recording'.printed = recording.printed /\ recording.at = "leave"
      BY <1>0, <1>4 DEF LeaveClients, RecordingType
    <2>4. /\ camera'.producer = camera.producer
          /\ camera'.latest = camera.latest \/ camera'.latest = NoFrame
          /\ audio'.at = "none"
      BY <1>0, <1>4 DEF LeaveClients, CameraType, NoCamera, NoAudio
    <2>5. Staged' /\ ReaderInv' /\ FileInv'
      BY <1>0, <1>4, <2>3, <2>4 DEF LeaveClients, Staged, ReaderInv, FileInv, ConsumerFailed
    <2> QED
      BY <1>00, <2>1, <2>2, <2>5
  <1>5. CASE FinishFile
    <2>1. RecordingType' /\ CameraType' /\ PacerType' /\ AudioType' /\ TimingType' /\ ClockType' /\ Scheduled'
      <3>1. RecordingType'
        BY <1>0, <1>5 DEF FinishFile, RecordingType
      <3> QED
        BY <1>0, <1>5, <3>1, TypesKept DEF FinishFile
    <2>2. /\ file'.kept = FALSE /\ file'.closed = TRUE /\ file'.ordered = file.ordered
          /\ file'.size = file.size /\ file'.frozen # "unsized"
      BY <1>0, <1>5 DEF FinishFile, Finished, Muxed, FileType, FileState, FileInv
    <2>3. FileType'
      BY <1>0, <1>5 DEF FinishFile, Finished, Muxed, FileType, FileState
    <2>4. recording'.at = "close" /\ recording'.cause = recording.cause /\ recording.at = "flush"
          /\ recording'.printed = recording.printed /\ recording'.mode = recording.mode
      BY <1>0, <1>5 DEF FinishFile, RecordingType
    <2>5. Staged' /\ ReaderInv'
      BY <1>0, <1>5, <2>4 DEF FinishFile, Staged, ReaderInv, ConsumerFailed
    <2>6. FileInv'
      BY <1>0, <1>5, <2>2, <2>4 DEF FinishFile, FileInv, HasVideo
    <2> QED
      BY <1>00, <2>1, <2>3, <2>5, <2>6
  <1>6. CASE ExitRecord
    <2>1. PICK status \in {"0", "1", "130"} :
            recording' = [recording EXCEPT !.at = "ended", !.status = status,
                            !.printed = recording.sink = "file" /\ status = "0"]
      <3>1. recording.cause \in {"end", "duration", "failure", "interrupt", "pipe", "output"}
        BY <1>0, <1>6 DEF ExitRecord, Staged, RecordingType, Cause
      <3> QED
        BY <1>0, <1>6, <3>1 DEF ExitRecord
    <2>2. RecordingType'
      <3> DEFINE printed == recording.sink = "file" /\ status = "0"
      <3>1. printed \in BOOLEAN
        OBVIOUS
      <3>2. recording' = [recording EXCEPT !.at = "ended", !.status = status, !.printed = printed]
        BY <2>1
      <3> HIDE DEF printed
      <3> QED
        <4>1. /\ RecordingType /\ status \in {"none", "0", "1", "2", "130"}
          BY <1>0
        <4> QED
          BY <3>1, <3>2, <4>1 DEF RecordingType
    <2>3. CameraType' /\ PacerType' /\ AudioType' /\ TimingType' /\ FileType' /\ ClockType' /\ Scheduled'
      <3>0. camera' = NoCamera /\ pacer' = NoPacer
        BY <1>6 DEF ExitRecord
      <3>2. NoCamera \in [producer : {"none", "running", "cancelling", "done", "failed"},
                          latest : [size : Size \cup {NoSize}, at : 0 .. MaxTime], arrived : BOOLEAN]
        BY Times DEF NoCamera, NoFrame
      <3>1. CameraType' /\ PacerType' /\ Scheduled'
        BY <3>0, <3>2, Times DEF CameraType, PacerType, Scheduled, NoPacer
      <3> QED
        BY <1>0, <1>6, <3>1, TypesKept DEF ExitRecord
    <2>4. recording'.at = "ended" /\ recording.at = "close" /\ recording'.mode = recording.mode
      BY <1>0, <1>6, <2>1 DEF ExitRecord, RecordingType
    <2>5. Staged' /\ ReaderInv' /\ FileInv'
      BY <1>0, <1>6, <2>4 DEF ExitRecord, Staged, ReaderInv, FileInv, NoCamera, NoPacer,
                            HasVideo, ConsumerFailed
    <2> QED
      BY <1>00, <2>2, <2>3, <2>5
  <1> QED
    BY <1>1, <1>2, <1>3, <1>4, <1>5, <1>6

(* What the pacer leaves to its caller. *)
LEMMA ReturnKeeps ==
  ASSUME RecorderInv, NEW cause \in {"end", "failure"}, PaceReturns(cause),
         pacer.at \in {"first", "emit", "pace", "sleep"}
  PROVE  RecorderInv'
  <1>0. /\ RecordingType /\ CameraType /\ PacerType /\ AudioType /\ TimingType /\ FileType /\ ClockType
        /\ Scheduled /\ Staged /\ ReaderInv /\ FileInv
    BY DEF RecorderInv
  <1>1. recording.at = "run"
    BY <1>0 DEF Staged
  <1> DEFINE why == IF camera.producer = "failed" THEN "failure" ELSE cause
  <1>10. why \in {"end", "failure"}
    OBVIOUS
  <1>2. /\ recording' = [recording EXCEPT !.at = "leave", !.cause = why]
        /\ pacer' = [pacer EXCEPT !.at = "leaving"]
        /\ audio' = [audio EXCEPT !.at = IF @ = "none" THEN @ ELSE "left"]
        /\ UNCHANGED <<camera, timing, file, clock>>
    BY <1>1 DEF PaceReturns, Ending, AudioLeft
  <1> HIDE DEF why
  <1>3. RecordingType'
    BY <1>0, <1>2, <1>10 DEF RecordingType, Cause
  <1>4. PacerType' /\ Scheduled'
    BY <1>0, <1>2 DEF PacerType, Scheduled
  <1>5. AudioType'
    BY <1>0, <1>2 DEF AudioType
  <1>6. CameraType' /\ TimingType' /\ FileType' /\ ClockType'
    BY <1>0, <1>2, TypesKept
  <1>7. /\ recording'.at = "leave" /\ recording'.cause = why /\ recording'.printed = recording.printed
        /\ recording'.mode = recording.mode /\ pacer'.at = "leaving" /\ audio'.at # "read"
    BY <1>0, <1>2 DEF RecordingType, PacerType, AudioType
  <1>8. Staged' /\ ReaderInv'
    BY <1>0, <1>2, <1>7, <1>10 DEF Staged, ReaderInv, ConsumerFailed
  <1>9. FileInv'
    BY <1>0, <1>1, <1>2, <1>7 DEF FileInv
  <1> QED
    BY <1>3, <1>4, <1>5, <1>6, <1>8, <1>9 DEF RecorderInv

(* The producer. *)
LEMMA ProducerKeeps ==
  ASSUME RecorderInv, (\E size \in Size : FrameArrives(size)) \/ ProducerEnds
  PROVE  RecorderInv'
  <1>0. /\ RecordingType /\ CameraType /\ PacerType /\ AudioType /\ TimingType /\ FileType /\ ClockType
        /\ Scheduled /\ Staged /\ ReaderInv /\ FileInv
    BY DEF RecorderInv
  <1>1. UNCHANGED <<recording, pacer, audio, timing, file, clock>>
    BY DEF FrameArrives, ProducerEnds
  <1>2. /\ CameraType'
        /\ camera'.latest = camera.latest \/ camera'.latest.size \in Size
        /\ camera.producer \in {"running", "cancelling"}
        /\ recording.at \in {"none", "open"} => camera' = camera
    <2>1. recording.at \in {"none", "open"} => camera.producer = "none"
      BY <1>0 DEF Staged, NoCamera
    <2>2. ASSUME NEW size \in Size, FrameArrives(size)
          PROVE  /\ CameraType' /\ camera'.latest.size \in Size /\ camera.producer = "running"
      <3>1. PICK at \in Stamps : camera' = [camera EXCEPT !.latest = [size |-> size, at |-> at],
                                                        !.arrived = TRUE]
        BY <2>2 DEF FrameArrives
      <3>2. at \in 0 .. MaxTime
        BY <1>0, Times DEF Stamps, ClockType
      <3> QED
        BY <1>0, <2>2, <3>1, <3>2 DEF CameraType, FrameArrives
    <2>3. CASE ProducerEnds
      <3>1. PICK how \in {"done", "failed"} : camera' = [camera EXCEPT !.producer = how, !.arrived = TRUE]
        BY <2>3 DEF ProducerEnds, ProducerDone
      <3>2. camera.producer \in {"running", "cancelling"}
        BY <2>3 DEF ProducerEnds
      <3> QED
        BY <1>0, <2>1, <3>1, <3>2 DEF CameraType
    <2> QED
      BY <2>1, <2>2, <2>3
  <1>3. RecordingType' /\ PacerType' /\ AudioType' /\ TimingType' /\ FileType' /\ ClockType' /\ Scheduled'
    BY <1>0, <1>1, TypesKept
  <1>4. Staged'
    <2>1. camera.latest = NoFrame \/ camera.latest.size \in Size
      BY <1>0 DEF Staged
    <2>2. (camera.latest = NoFrame \/ camera.latest.size \in Size)'
      BY <1>2, <2>1
    <2> QED
      BY <1>0, <1>1, <1>2, <2>2 DEF Staged
  <1>5. pacer.at \notin {"none", "left"}
    BY <1>0, <1>2 DEF ReaderInv, ConsumerFailed
  <1>6. ReaderInv'
    BY <1>0, <1>1, <1>5 DEF ReaderInv, ConsumerFailed
  <1>7. FileInv'
    BY <1>0, <1>1 DEF FileInv, HasVideo
  <1> QED
    BY <1>2, <1>3, <1>4, <1>6, <1>7 DEF RecorderInv

(* From where the pacer goes on to the next frame. *)
LEMMA GoesOnKeeps ==
  ASSUME RecorderInv, NEW ahead \in Int, NEW burst \in Nat, PaceGoesOn(ahead, burst),
         pacer.at \in {"pace", "sleep"},
         0 - MaxStall <= ahead, ahead <= 0, burst <= 1, burst = 1 => ahead = 0
  PROVE  RecorderInv'
  <1>0. /\ RecordingType /\ CameraType /\ PacerType /\ AudioType /\ TimingType /\ FileType /\ ClockType
        /\ Scheduled /\ Staged /\ ReaderInv /\ FileInv
    BY DEF RecorderInv
  <1>1. CASE PaceReturns("end") \/ PaceReturns("failure")
    BY <1>1, ReturnKeeps
  <1>2. CASE /\ pacer' = [pacer EXCEPT !.at = "emit", !.ahead = ahead, !.burst = burst]
             /\ UNCHANGED <<recording, camera, audio, timing, file, clock>>
    <2>1. /\ PacerType' /\ pacer'.at = "emit" /\ pacer'.ahead = ahead /\ pacer'.burst = burst
          /\ pacer'.header = pacer.header
      BY <1>0, <1>2 DEF PacerType
    <2>2. Scheduled'
      BY <2>1, Times DEF Scheduled
    <2>3. RecordingType' /\ CameraType' /\ AudioType' /\ TimingType' /\ FileType' /\ ClockType'
      BY <1>0, <1>2, TypesKept
    <2>4. recording.at = "run"
      BY <1>0 DEF Staged
    <2>5. Staged' /\ ReaderInv'
      BY <1>0, <1>2, <2>1, <2>4 DEF Staged, ReaderInv, ConsumerFailed
    <2>6. FileInv'
      BY <1>0, <1>2 DEF FileInv, HasVideo
    <2> QED
      BY <2>1, <2>2, <2>3, <2>5, <2>6 DEF RecorderInv
  <1> QED
    BY <1>1, <1>2 DEF PaceGoesOn

LEMMA PaceKeeps ==
  ASSUME RecorderInv, PaceFirst \/ PaceNext \/ PaceWake \/ PaceLeave
  PROVE  RecorderInv'
  <1>0. /\ RecordingType /\ CameraType /\ PacerType /\ AudioType /\ TimingType /\ FileType /\ ClockType
        /\ Scheduled /\ Staged /\ ReaderInv /\ FileInv
    BY DEF RecorderInv
  <1>00. pacer.ahead \in Int /\ pacer.burst \in Nat
    BY <1>0 DEF PacerType
  <1>1. CASE PaceFirst
    <2>1. CASE PaceReturns("end") \/ PaceReturns("failure")
      BY <1>1, <2>1, ReturnKeeps DEF PaceFirst
    <2>2. CASE /\ camera.latest # NoFrame
               /\ pacer' = [pacer EXCEPT !.at = "emit", !.header = camera.latest.size]
               /\ UNCHANGED <<recording, camera, audio, timing, file, clock>>
      <3>1. camera.latest.size \in Size /\ pacer.at = "first" /\ recording.at = "run"
        BY <1>0, <1>1, <2>2 DEF Staged, PaceFirst
      <3>2. /\ PacerType' /\ pacer'.at = "emit" /\ pacer'.header = camera.latest.size
            /\ pacer'.ahead = pacer.ahead /\ pacer'.burst = pacer.burst
        BY <1>0, <2>2, <3>1 DEF PacerType
      <3>3. Scheduled'
        BY <1>0, <3>1, <3>2, Times DEF Scheduled
      <3>4. RecordingType' /\ CameraType' /\ AudioType' /\ TimingType' /\ FileType' /\ ClockType'
        BY <1>0, <2>2, TypesKept
      <3>5. Staged' /\ ReaderInv'
        BY <1>0, <2>2, <3>1, <3>2 DEF Staged, ReaderInv, ConsumerFailed
      <3>6. FileInv'
        BY <1>0, <2>2 DEF FileInv, HasVideo
      <3> QED
        BY <3>2, <3>3, <3>4, <3>5, <3>6 DEF RecorderInv
    <2> QED
      BY <1>1, <2>1, <2>2 DEF PaceFirst
  <1>2. CASE PaceNext
    <2> DEFINE ahead == pacer.ahead + Period
    <2>1. ahead \in Int /\ ahead <= Period /\ pacer.at = "pace" /\ pacer.burst <= 2
      BY <1>0, <1>00, <1>2, Times DEF PaceNext, Scheduled
    <2>2. CASE ahead > 0
      <3>1. /\ pacer' = [pacer EXCEPT !.at = "sleep", !.ahead = ahead]
            /\ UNCHANGED <<recording, camera, audio, timing, file, clock>>
        BY <1>2, <2>2 DEF PaceNext
      <3> HIDE DEF ahead
      <3>2. /\ PacerType' /\ pacer'.at = "sleep" /\ pacer'.header = pacer.header
            /\ pacer'.ahead = ahead /\ pacer'.burst = pacer.burst
        BY <1>0, <2>1, <3>1 DEF PacerType
      <3>3. Scheduled'
        BY <1>00, <2>1, <2>2, <3>2, Times DEF Scheduled
      <3>4. RecordingType' /\ CameraType' /\ AudioType' /\ TimingType' /\ FileType' /\ ClockType'
        BY <1>0, <3>1, TypesKept
      <3>5. Staged' /\ ReaderInv'
        BY <1>0, <2>1, <3>1, <3>2 DEF Staged, ReaderInv, ConsumerFailed
      <3>6. FileInv'
        BY <1>0, <3>1 DEF FileInv, HasVideo
      <3> QED
        BY <3>2, <3>3, <3>4, <3>5, <3>6 DEF RecorderInv
    <2>3. CASE ~(ahead > 0)
      <3>1. PaceGoesOn(0, pacer.burst)
        BY <1>2, <2>3 DEF PaceNext, Reanchored
      <3>2. pacer.burst <= 1
        BY <1>0, <1>00, <2>1, <2>3, Times DEF Scheduled
      <3> QED
        BY <1>00, <2>1, <3>1, <3>2, GoesOnKeeps, Times
    <2> QED
      BY <2>2, <2>3
  <1>3. CASE PaceWake
    <2>1. pacer.at = "sleep" /\ pacer.ahead <= 0 /\ PaceGoesOn(pacer.ahead, 0)
      BY <1>3 DEF PaceWake
    <2>2. 0 - MaxStall <= pacer.ahead
      BY <1>0, <2>1 DEF Scheduled
    <2> QED
      BY <1>00, <2>1, <2>2, GoesOnKeeps
  <1>4. CASE PaceLeave
    <2>1. UNCHANGED <<audio, timing, file, clock>>
      BY <1>4 DEF PaceLeave
    <2>2. /\ PacerType' /\ CameraType' /\ camera'.latest = camera.latest
          /\ pacer'.at \in {"awaiting", "left"} /\ pacer.at \in {"leaving", "abandoned", "awaiting"}
          /\ pacer'.at = "left" => camera'.producer \in {"done", "failed"}
          /\ pacer'.ahead = pacer.ahead /\ pacer'.burst = pacer.burst
      BY <1>0, <1>4 DEF PaceLeave, CancelProducer, PacerType, CameraType
    <2>3. Scheduled'
      BY <1>0, <2>2 DEF Scheduled
    <2>4. AudioType' /\ TimingType' /\ FileType' /\ ClockType'
      BY <1>0, <2>1, TypesKept
    <2>5. recording.at \notin {"none", "open", "run"}
      <3>1. pacer.at = "abandoned" => recording.cause # "none"
        BY <1>0 DEF ReaderInv, ConsumerFailed
      <3> QED
        BY <1>0, <2>2, <3>1 DEF Staged, NoPacer
    <2>6. CASE UNCHANGED recording
      <3>1. RecordingType' /\ (ConsumerFailed' <=> ConsumerFailed)
        BY <1>0, <2>6, TypesKept DEF ConsumerFailed
      <3>2. Staged'
        BY <1>0, <2>2, <2>5, <2>6 DEF Staged
      <3>3. ReaderInv'
        BY <1>0, <2>2, <2>6, <3>1 DEF ReaderInv, ConsumerFailed
      <3>4. FileInv'
        BY <1>0, <2>1, <2>6 DEF FileInv, HasVideo
      <3> QED
        BY <2>2, <2>3, <2>4, <3>1, <3>2, <3>3, <3>4 DEF RecorderInv
    <2>7. CASE /\ pacer.at = "awaiting" /\ pacer'.at = "left" /\ ~ConsumerFailed
               /\ recording' = [recording EXCEPT !.cause = "failure"]
      <3>1. /\ RecordingType' /\ recording'.at = recording.at /\ recording'.cause = "failure"
            /\ recording'.mode = recording.mode /\ recording'.printed = recording.printed
        BY <1>0, <2>7 DEF RecordingType, Cause
      <3>2. Staged'
        BY <1>0, <2>2, <2>5, <2>7, <3>1 DEF Staged
      <3>3. ReaderInv'
        BY <1>0, <2>2, <2>7, <3>1 DEF ReaderInv, ConsumerFailed
      <3>4. FileInv'
        BY <1>0, <2>1, <3>1 DEF FileInv, HasVideo
      <3> QED
        BY <2>2, <2>3, <2>4, <3>1, <3>2, <3>3, <3>4 DEF RecorderInv
    <2>8. \/ UNCHANGED recording
          \/ /\ pacer.at = "awaiting" /\ pacer'.at = "left" /\ ~ConsumerFailed
             /\ recording' = [recording EXCEPT !.cause = "failure"]
      BY <1>0, <1>4 DEF PaceLeave, PacerType
    <2> QED
      BY <2>6, <2>7, <2>8
  <1> QED
    BY <1>1, <1>2, <1>3, <1>4

(* A packet that is muxed once the size is known. *)
LEMMA MuxedSound ==
  ASSUME NEW f \in FileState, f.frozen # "unsized", f.size # NoSize
  PROVE  /\ Muxed(f) \in FileState /\ Muxed(f).frozen # "unsized" /\ Muxed(f).size = f.size
         /\ Muxed(f).ordered = f.ordered /\ Muxed(f).kept = f.kept /\ Muxed(f).closed = f.closed
  <1>1. Muxed(f) = [f EXCEPT !.frozen = IF @ # "no" THEN @ ELSE "sized"]
    BY DEF Muxed
  <1> QED
    BY <1>1 DEF FileState

LEMMA WithSound ==
  ASSUME NEW f \in FileState, f.frozen # "unsized", f.size # NoSize, f.ordered,
         NEW pts \in Nat, TimingType
  PROVE  /\ pts > timing.video =>
              /\ WithVideo(f, pts) \in FileState /\ WithVideo(f, pts).frozen # "unsized"
              /\ WithVideo(f, pts).size = f.size /\ WithVideo(f, pts).ordered
              /\ WithVideo(f, pts).closed = f.closed
         /\ pts > timing.audio =>
              /\ WithAudio(f, pts) \in FileState /\ WithAudio(f, pts).frozen # "unsized"
              /\ WithAudio(f, pts).size = f.size /\ WithAudio(f, pts).ordered
              /\ WithAudio(f, pts).closed = f.closed /\ WithAudio(f, pts).kept = f.kept
  <1> DEFINE g == IF f.kept THEN Muxed(f) ELSE f
             h == Muxed(f)
  <1>1. /\ g \in FileState /\ g.frozen # "unsized" /\ g.size = f.size /\ g.ordered /\ g.closed = f.closed
        /\ h \in FileState /\ h.frozen # "unsized" /\ h.size = f.size /\ h.ordered
        /\ h.kept = f.kept /\ h.closed = f.closed
    BY MuxedSound
  <1>2. /\ WithVideo(f, pts) = [g EXCEPT !.kept = TRUE, !.ordered = @ /\ pts > timing.video]
        /\ WithAudio(f, pts) = [h EXCEPT !.ordered = @ /\ pts > timing.audio]
    BY DEF WithVideo, WithAudio
  <1> HIDE DEF g, h
  <1>3. ASSUME pts > timing.video
        PROVE  WithVideo(f, pts) = [g EXCEPT !.kept = TRUE, !.ordered = TRUE]
    <2>1. (g.ordered /\ pts > timing.video) = TRUE
      BY <1>1, <1>3
    <2> QED
      BY <1>2, <2>1
  <1>4. ASSUME pts > timing.audio
        PROVE  WithAudio(f, pts) = [h EXCEPT !.ordered = TRUE]
    <2>1. (h.ordered /\ pts > timing.audio) = TRUE
      BY <1>1, <1>4
    <2> QED
      BY <1>2, <2>1
  <1> QED
    BY <1>1, <1>3, <1>4 DEF FileState

LEMMA EmitKeeps ==
  ASSUME RecorderInv, NEW stall \in 0 .. MaxStall, PaceEmit(stall)
  PROVE  RecorderInv'
  <1>0. /\ RecordingType /\ CameraType /\ PacerType /\ AudioType /\ TimingType /\ FileType /\ ClockType
        /\ Scheduled /\ Staged /\ ReaderInv /\ FileInv
    BY DEF RecorderInv
  <1>00. /\ pacer.ahead \in Int /\ pacer.burst \in Nat /\ stall \in Nat /\ pacer.at = "emit"
         /\ recording.at = "run" /\ pacer.header \in Size
    BY <1>0, Times DEF PacerType, Staged, PaceEmit
  <1>1. CASE PaceReturns("end")
    BY <1>00, <1>1, ReturnKeeps
  <1>2. CASE /\ camera.latest.size = pacer.header
             /\ IF Encoded THEN EncodeFrame(camera.latest) ELSE UNCHANGED <<timing, file>>
             /\ clock' = Upto(clock + stall)
             /\ pacer' = [pacer EXCEPT !.at = "pace", !.ahead = @ - stall,
                                       !.burst = IF stall = 0 THEN @ + 1 ELSE 0]
             /\ UNCHANGED <<recording, camera, audio>>
    <2> DEFINE burst == IF stall = 0 THEN pacer.burst + 1 ELSE 0
    <2>1. burst \in Nat /\ pacer.ahead - stall \in Int
      BY <1>00
    <2>2. /\ burst <= 2 /\ pacer.ahead - stall <= 0 /\ 0 - 2 * MaxStall <= pacer.ahead - stall
          /\ burst = 2 => pacer.ahead - stall = 0
      BY <1>0, <1>00, Times DEF Scheduled
    <2>3. pacer' = [pacer EXCEPT !.at = "pace", !.ahead = pacer.ahead - stall, !.burst = burst]
      BY <1>2
    <2> HIDE DEF burst
    <2>4. /\ PacerType' /\ pacer'.at = "pace" /\ pacer'.header = pacer.header
          /\ pacer'.ahead = pacer.ahead - stall /\ pacer'.burst = burst
      BY <1>0, <2>1, <2>3 DEF PacerType
    <2>5. Scheduled'
      BY <1>00, <2>1, <2>2, <2>4, Times DEF Scheduled
    <2>6. RecordingType' /\ CameraType' /\ AudioType'
      BY <1>0, <1>2, TypesKept
    <2>7. ClockType'
      BY <1>0, <1>00, <1>2, Times DEF ClockType, Upto
    <2>8. Staged' /\ ReaderInv'
      BY <1>0, <1>00, <1>2, <2>4 DEF Staged, ReaderInv, ConsumerFailed
    <2>9. TimingType' /\ FileType' /\ FileInv'
      <3>1. CASE UNCHANGED <<timing, file>>
        BY <1>0, <1>2, <3>1, TypesKept DEF FileInv, HasVideo
      <3>2. CASE EncodeFrame(camera.latest)
        <4> DEFINE t0 == IF HasAudio THEN Anchored(camera.latest.at) ELSE timing.t0
                   pts == IF HasAudio
                          THEN Advanced(VideoPts(NotNegative(camera.latest.at - t0)), timing.video)
                          ELSE timing.video + 1
                   f == [file EXCEPT !.size = IF @ = NoSize THEN camera.latest.size ELSE @]
        <4>1. camera.latest.at \in 0 .. MaxTime /\ camera.latest.size \in Size
          BY <1>0, <1>00, <1>2 DEF CameraType
        <4>2. t0 \in None .. MaxTime
          BY <1>0, <4>1, Times DEF Anchored, TimingType, None
        <4>3. /\ timing' = [timing EXCEPT !.t0 = t0, !.video = Capped(pts)]
              /\ file' = WithVideo(f, pts)
          BY <3>2 DEF EncodeFrame
        <4>4. f \in FileState /\ f.frozen # "unsized" /\ f.size # NoSize /\ f.ordered /\ f.closed = file.closed
          BY <1>0, <4>1, Times DEF FileType, FileState, FileInv
        <4>5. timing.video \in Pts /\ camera.latest.at - t0 \in Int
          BY <1>0, <4>1, <4>2, Times DEF TimingType, None
        <4>6. pts \in Nat /\ pts > timing.video
          <5>1. CASE HasAudio
            BY <4>5, <5>1, Stamped
          <5>2. CASE ~HasAudio
            BY <4>5, <5>2, Times DEF Pts, None
          <5> QED
            BY <5>1, <5>2
        <4> HIDE DEF t0, pts, f
        <4>7. TimingType'
          <5>1. Capped(pts) \in Pts /\ t0 \in None .. MaxTime
            BY <4>2, <4>6, Stamped
          <5> QED
            BY <1>0, <4>3, <5>1 DEF TimingType
        <4>8. /\ file' \in FileState /\ file'.frozen # "unsized" /\ file'.size # NoSize
              /\ file'.ordered
          BY <1>0, <4>3, <4>4, <4>6, WithSound
        <4>9. FileInv'
          BY <1>0, <1>00, <1>2, <4>8 DEF FileInv
        <4> QED
          BY <4>7, <4>8, <4>9 DEF FileType
      <3> QED
        BY <1>2, <3>1, <3>2
    <2> QED
      BY <2>4, <2>5, <2>6, <2>7, <2>8, <2>9 DEF RecorderInv
  <1>3. CASE /\ pacer' = [pacer EXCEPT !.at = "abandoned"]
             /\ Ending("output") \/ (recording.sink = "-" /\ Ending("pipe"))
             /\ AudioLeft
             /\ UNCHANGED <<camera, timing, file, clock>>
    <2>0. PICK cause \in {"pipe", "output"} : Ending(cause)
      BY <1>3
    <2>1. /\ recording' = [recording EXCEPT !.at = "leave", !.cause = cause]
          /\ audio' = [audio EXCEPT !.at = IF @ = "none" THEN @ ELSE "left"]
      BY <1>00, <1>3, <2>0 DEF Ending, AudioLeft
    <2>2. RecordingType' /\ recording'.at = "leave" /\ recording'.cause = cause /\ ~recording'.printed
      BY <1>0, <1>00, <2>1 DEF RecordingType, Cause, FileInv
    <2>3. AudioType' /\ audio'.at # "read"
      BY <1>0, <2>1 DEF AudioType
    <2>4. PacerType' /\ Scheduled' /\ pacer'.at = "abandoned"
      BY <1>0, <1>3 DEF PacerType, Scheduled
    <2>5. CameraType' /\ TimingType' /\ FileType' /\ ClockType'
      BY <1>0, <1>3, TypesKept
    <2>6. Staged' /\ ReaderInv' /\ FileInv'
      BY <1>0, <1>3, <2>2, <2>3, <2>4 DEF Staged, ReaderInv, FileInv, ConsumerFailed
    <2> QED
      BY <2>2, <2>3, <2>4, <2>5, <2>6 DEF RecorderInv
  <1> QED
    BY <1>1, <1>2, <1>3 DEF PaceEmit

LEMMA AudioKeeps ==
  ASSUME RecorderInv,
         AudioGate \/ AudioChunk \/ (\E cause \in {"end", "failure", "pipe"} : AudioEnds(cause))
  PROVE  RecorderInv'
  <1>0. /\ RecordingType /\ CameraType /\ PacerType /\ AudioType /\ TimingType /\ FileType /\ ClockType
        /\ Scheduled /\ Staged /\ ReaderInv /\ FileInv
    BY DEF RecorderInv
  <1>00. recording.at = "run" /\ ~Busy /\ ~recording.printed
    BY <1>0 DEF AudioGate, AudioChunk, AudioEnds, InRun, FileInv
  <1>1. CASE AudioGate
    <2>1. UNCHANGED <<recording, camera, pacer, timing, file, clock>> /\ file.size # NoSize
      BY <1>1 DEF AudioGate, HeaderReady
    <2>2. AudioType'
      BY <1>0, <1>1 DEF AudioGate, AudioType
    <2>3. RecordingType' /\ CameraType' /\ PacerType' /\ TimingType' /\ FileType' /\ ClockType' /\ Scheduled'
      BY <1>0, <2>1, TypesKept
    <2>4. Staged' /\ ReaderInv' /\ FileInv'
      BY <1>0, <1>00, <2>1 DEF Staged, ReaderInv, FileInv, ConsumerFailed
    <2> QED
      BY <2>2, <2>3, <2>4 DEF RecorderInv
  <1>2. CASE AudioChunk
    <2>1. UNCHANGED <<recording, camera, pacer, clock>> /\ audio.at = "read"
      BY <1>2 DEF AudioChunk
    <2>2. RecordingType' /\ CameraType' /\ PacerType' /\ ClockType' /\ Scheduled'
      BY <1>0, <2>1, TypesKept
    <2>3. Staged' /\ ReaderInv'
      BY <1>0, <1>00, <2>1 DEF Staged, ReaderInv, ConsumerFailed
    <2>4. CASE ~HasVideo
      <3>1. audio' = [audio EXCEPT !.begun = TRUE] /\ UNCHANGED <<timing, file>>
        BY <1>2, <2>4 DEF AudioChunk
      <3>2. AudioType'
        BY <1>0, <3>1 DEF AudioType
      <3>3. TimingType' /\ FileType'
        BY <1>0, <3>1, TypesKept
      <3>4. FileInv'
        BY <1>0, <1>00, <2>1, <2>4, <3>1 DEF FileInv, HasVideo
      <3> QED
        BY <2>2, <2>3, <3>2, <3>3, <3>4 DEF RecorderInv
    <2>5. CASE HasVideo
      <3>1. PICK at \in Stamps :
              LET t0 == Anchored(at)
                  offset == IF audio.begun THEN audio.offset ELSE AudioPts(NotNegative(at - t0))
                  pts == Advanced(offset, timing.audio)
              IN /\ timing' = [timing EXCEPT !.t0 = t0, !.audio = Capped(pts)]
                 /\ file' = WithAudio(file, pts)
                 /\ audio' = [audio EXCEPT !.begun = TRUE, !.offset = Capped(offset + Samples)]
        BY <1>2, <2>5 DEF AudioChunk
      <3> DEFINE t0 == Anchored(at)
                 offset == IF audio.begun THEN audio.offset ELSE AudioPts(NotNegative(at - t0))
                 pts == Advanced(offset, timing.audio)
      <3>2. at \in 0 .. MaxTime
        BY <1>0, Times DEF Stamps, ClockType
      <3>3. t0 \in 0 .. MaxTime
        BY <1>0, <3>2, Times DEF Anchored, TimingType, None
      <3>4. offset \in Nat
        <4>1. audio.offset \in Nat /\ at - t0 \in Int
          BY <1>0, <3>2, <3>3, Times DEF AudioType
        <4> QED
          BY <4>1, Stamped
      <3>5. timing.audio \in Pts
        BY <1>0 DEF TimingType
      <3>6. pts \in Nat /\ pts > timing.audio
        BY <3>4, <3>5, Stamped
      <3>7. Capped(pts) \in Pts /\ Capped(offset + Samples) \in 0 .. MaxPts
        <4>1. offset + Samples \in Nat
          BY <3>4, Times
        <4> QED
          BY <3>6, <4>1, Stamped
      <3>8. /\ timing' = [timing EXCEPT !.t0 = t0, !.audio = Capped(pts)]
            /\ file' = WithAudio(file, pts)
            /\ audio' = [audio EXCEPT !.begun = TRUE, !.offset = Capped(offset + Samples)]
        BY <3>1
      <3> HIDE DEF t0, offset, pts
      <3>9. TimingType'
        <4>1. t0 \in None .. MaxTime
          BY <3>3, Times DEF None
        <4> QED
          BY <1>0, <3>7, <3>8, <4>1 DEF TimingType
      <3>10. AudioType' /\ audio'.at = "read"
        BY <1>0, <2>1, <3>7, <3>8 DEF AudioType
      <3>11. /\ file' \in FileState /\ file'.frozen # "unsized" /\ file'.size = file.size /\ file.size # NoSize
             /\ file'.ordered
        <4>1. file \in FileState /\ file.frozen # "unsized" /\ file.size # NoSize /\ file.ordered
          BY <1>0, <2>1, <2>5 DEF FileType, FileInv
        <4> QED
          BY <1>0, <3>6, <3>8, <4>1, WithSound
      <3>12. FileInv' /\ FileType'
        BY <1>00, <2>1, <3>11 DEF FileInv, FileType
      <3> QED
        BY <2>2, <2>3, <3>9, <3>10, <3>12 DEF RecorderInv
    <2> QED
      BY <2>4, <2>5
  <1>3. ASSUME NEW cause \in {"end", "failure", "pipe"}, AudioEnds(cause)
        PROVE  RecorderInv'
    <2>1. /\ recording' = [recording EXCEPT !.at = "leave", !.cause = cause]
          /\ audio' = [audio EXCEPT !.at = IF @ = "none" THEN @ ELSE "left"]
          /\ pacer' = [pacer EXCEPT !.at = IF @ \in {"first", "sleep"} THEN "leaving" ELSE @]
          /\ UNCHANGED <<camera, timing, file, clock>>
      BY <1>00, <1>3 DEF AudioEnds, Ending, AudioLeft
    <2>2. RecordingType' /\ recording'.at = "leave" /\ recording'.cause = cause /\ ~recording'.printed
      BY <1>0, <1>00, <2>1 DEF RecordingType, Cause
    <2>3. AudioType' /\ audio'.at # "read"
      BY <1>0, <2>1 DEF AudioType
    <2>4. /\ PacerType' /\ Scheduled'
          /\ pacer'.at = (IF pacer.at \in {"first", "sleep"} THEN "leaving" ELSE pacer.at)
      BY <1>0, <2>1 DEF PacerType, Scheduled
    <2>5. CameraType' /\ TimingType' /\ FileType' /\ ClockType'
      BY <1>0, <2>1, TypesKept
    <2>6. pacer.at \notin {"emit", "pace", "abandoned"}
      BY <1>0, <1>00 DEF Busy, ReaderInv, Staged, ConsumerFailed
    <2>7. Staged' /\ ReaderInv'
      BY <1>0, <2>1, <2>2, <2>4, <2>6 DEF Staged, ReaderInv, ConsumerFailed
    <2>8. FileInv'
      BY <1>0, <2>1, <2>2, <2>3 DEF FileInv
    <2> QED
      BY <2>2, <2>3, <2>4, <2>5, <2>7, <2>8 DEF RecorderInv
  <1> QED
    BY <1>1, <1>2, <1>3

LEMMA TickKeeps ==
  ASSUME RecorderInv, Tick
  PROVE  RecorderInv'
  <1>0. /\ RecordingType /\ CameraType /\ PacerType /\ AudioType /\ TimingType /\ FileType /\ ClockType
        /\ Scheduled /\ Staged /\ ReaderInv /\ FileInv
    BY DEF RecorderInv
  <1>1. /\ recording.at = "run" /\ UNCHANGED <<recording, camera, audio, timing, file>>
        /\ pacer.at = "sleep" => pacer.ahead > 0 - MaxStall
    BY DEF Tick
  <1> DEFINE ahead == IF pacer.at = "sleep" THEN pacer.ahead - 1 ELSE pacer.ahead
  <1>2. pacer' = [pacer EXCEPT !.ahead = ahead]
    BY DEF Tick
  <1>3. pacer.ahead \in Int /\ ahead \in Int
    BY <1>0 DEF PacerType
  <1>4. /\ PacerType' /\ pacer'.at = pacer.at /\ pacer'.header = pacer.header
        /\ pacer'.ahead = ahead /\ pacer'.burst = pacer.burst
    <2> HIDE DEF ahead
    <2> QED
      BY <1>0, <1>2, <1>3 DEF PacerType
  <1>5. Scheduled'
    <2>1. CASE pacer.at = "sleep"
      BY <1>0, <1>1, <1>3, <1>4, <2>1, Times DEF Scheduled
    <2>2. CASE pacer.at # "sleep"
      BY <1>0, <1>4, <2>2 DEF Scheduled
    <2> QED
      BY <2>1, <2>2
  <1>6. ClockType'
    BY <1>0, Times DEF ClockType, Upto, Tick
  <1>7. RecordingType' /\ CameraType' /\ AudioType' /\ TimingType' /\ FileType'
    BY <1>0, <1>1, TypesKept
  <1>8. Staged' /\ ReaderInv'
    BY <1>0, <1>1, <1>4 DEF Staged, ReaderInv, ConsumerFailed
  <1>9. FileInv'
    BY <1>0, <1>1 DEF FileInv, HasVideo
  <1> QED
    BY <1>4, <1>5, <1>6, <1>7, <1>8, <1>9 DEF RecorderInv

LEMMA RecorderStep == RecorderInv /\ [RecorderNext]_recorderVars => RecorderInv'
  <1> SUFFICES ASSUME RecorderInv, [RecorderNext]_recorderVars PROVE RecorderInv'
    OBVIOUS
  <1>1. CASE RecorderNext
    BY <1>1, MainKeeps, ProducerKeeps, PaceKeeps, EmitKeeps, AudioKeeps, TickKeeps DEF RecorderNext
  <1>2. CASE UNCHANGED recorderVars
    <2>1. UNCHANGED <<recording, camera, pacer, audio, timing, file, clock>>
      BY <1>2 DEF recorderVars
    <2>2. Staged' /\ ReaderInv' /\ FileInv'
      BY <2>1 DEF RecorderInv, Staged, ReaderInv, FileInv, HasVideo, ConsumerFailed
    <2> QED
      BY <2>1, <2>2, TypesKept DEF RecorderInv
  <1> QED
    BY <1>1, <1>2

-----------------------------------------------------------------------------
(* resoio drive.                                                           *)

MainDriveType ==
  drive \in [at : {"none", "probe", "initial", "wait", "reset", "leave", "ended"},
             changed : BOOLEAN, stopping : BOOLEAN,
             cause : {"none", "quit", "failure", "interrupt"},
             status : {"none", "0", "1", "130"}, last : [Axis -> {0 - 1, 0, 1}]]
StreamType ==
  stream \in [open : BOOLEAN, queue : Seq(HeldStates), end : {"none", "graceful", "failed"}]
PressedType == pressed \in [keys : 0 .. MaxKeys, jumps : 0 .. MaxKeys, jumpsSent : Nat]
AvatarType == avatar \in [Axis -> {0 - 1, 0, 1}]

(* Each emission but the first answers a key; a jump that is held is one   *)
(* that was not sent.                                                      *)
Answered ==
  /\ pressed.jumps <= pressed.keys
  /\ pressed.jumpsSent <= pressed.jumps
  /\ held.jump => pressed.jumpsSent < pressed.jumps
  /\ Len(stream.queue) <= pressed.keys + 1
  /\ drive.changed /\ ~drive.stopping => Len(stream.queue) <= pressed.keys
  /\ drive.at \in {"none", "probe", "initial"} => Len(stream.queue) = 0
  /\ drive.at \in {"none", "probe", "initial"} /\ drive.changed /\ ~drive.stopping => 1 <= pressed.keys

(* Where the stream stands at the stages of the main task.                 *)
OnStream ==
  /\ drive.at \in {"wait", "reset"} => stream.open
  /\ drive.at = "leave" => drive.cause # "none" /\ (drive.cause = "quit" => stream.open)
  /\ stream.end = "graceful" => drive.at = "ended"
  /\ drive.status = "0" => drive.at = "ended" /\ stream.end = "graceful" /\ stream.queue = <<>>

DriveInv ==
  /\ MainDriveType /\ held \in HeldStates /\ StreamType /\ PressedType /\ AvatarType
  /\ Answered /\ OnStream /\ KeysEmitted

LEMMA DriveParts == DriveInv => DriveTypeOK /\ KeysSent
  <1> SUFFICES ASSUME DriveInv PROVE DriveTypeOK /\ KeysSent
    OBVIOUS
  <1>1. Len(stream.queue) <= MaxKeys + 1
    <2>1. Len(stream.queue) \in Nat /\ pressed.keys \in 0 .. MaxKeys /\ MaxKeys \in Nat
      BY DriveAssumption, LenProperties DEF DriveInv, StreamType, PressedType
    <2> QED
      BY <2>1 DEF DriveInv, Answered
  <1>2. DriveTypeOK
    BY <1>1 DEF DriveTypeOK, DriveInv, MainDriveType, StreamType, PressedType, AvatarType
  <1>3. KeysSent
    BY DEF DriveInv, OnStream, KeysSent, AllSent
  <1> QED
    BY <1>2, <1>3

LEMMA NeutralHeld == Neutral \in HeldStates /\ Neutral.axis \in [Axis -> {0 - 1, 0, 1}] /\ ~Neutral.jump
  BY DEF Neutral, HeldStates

LEMMA DriveInitInv == DriveInit => DriveInv
  <1> SUFFICES ASSUME DriveInit PROVE DriveInv
    OBVIOUS
  <1>1. MainDriveType
    BY NeutralHeld DEF DriveInit, MainDriveType, NotDriving
  <1>2. StreamType /\ Len(stream.queue) = 0
    BY EmptySeq DEF DriveInit, StreamType, NoStream
  <1>3. PressedType
    BY DriveAssumption DEF DriveInit, PressedType
  <1>4. AvatarType /\ held \in HeldStates
    BY NeutralHeld DEF DriveInit, AvatarType
  <1>5. Answered
    BY <1>2, NeutralHeld DEF DriveInit, Answered, NotDriving
  <1>6. OnStream /\ KeysEmitted
    BY DEF DriveInit, OnStream, KeysEmitted, NotDriving, NoStream
  <1> QED
    BY <1>1, <1>2, <1>3, <1>4, <1>5, <1>6 DEF DriveInv

LEMMA DriveNumbers ==
  ASSUME DriveInv
  PROVE  /\ pressed.keys \in Nat /\ pressed.keys <= MaxKeys /\ pressed.jumps \in Nat
         /\ pressed.jumpsSent \in Nat /\ MaxKeys \in Nat /\ Len(stream.queue) \in Nat
         /\ stream.queue \in Seq(HeldStates)
  BY DriveAssumption, LenProperties DEF DriveInv, StreamType, PressedType

(* What a key makes of the state. *)
LEMMA AppliedState ==
  ASSUME held \in HeldStates, NEW key \in DriveKey
  PROVE  /\ Applied(held, key) \in HeldStates
         /\ key.kind = "other" \/ key.kind = "quit" => Applied(held, key) = held
         /\ key.kind # "jump" => (Applied(held, key).jump => held.jump)
  <1>1. /\ key.kind \in {"toggle", "jump", "stop", "quit", "other"}
        /\ key.kind = "toggle" => key.axis \in Axis /\ key.sign \in {0 - 1, 0, 1}
    BY DriveAssumption DEF DriveKey, MadeKey
  <1>2. CASE key.kind = "toggle"
    <2>1. Applied(held, key) = [held EXCEPT !.axis[key.axis] = IF @ = 0 THEN key.sign ELSE 0]
      BY <1>2 DEF Applied, Toggled
    <2>2. Applied(held, key) \in HeldStates /\ Applied(held, key).jump = held.jump
      BY <1>1, <1>2, <2>1 DEF HeldStates
    <2> QED
      BY <1>2, <2>2
  <1>3. CASE key.kind = "jump"
    BY <1>3 DEF Applied, HeldStates
  <1>4. CASE key.kind = "stop"
    BY <1>4, NeutralHeld DEF Applied
  <1>5. CASE key.kind \in {"quit", "other"}
    BY <1>5 DEF Applied
  <1> QED
    BY <1>1, <1>2, <1>3, <1>4, <1>5

(* A key, the end of the input. *)
LEMMA InputKeeps ==
  ASSUME DriveInv, (\E key \in DriveKey : PressKey(key)) \/ EndOfInput
  PROVE  DriveInv'
  <1>0. /\ MainDriveType /\ held \in HeldStates /\ StreamType /\ PressedType /\ AvatarType
        /\ Answered /\ OnStream /\ KeysEmitted
    BY DEF DriveInv
  <1>1. ASSUME NEW key \in DriveKey, PressKey(key)
        PROVE  DriveInv'
    <2>1. /\ held' = Applied(held, key) /\ UNCHANGED <<stream, avatar>> /\ pressed.keys < MaxKeys
          /\ Reading
      BY <1>1 DEF PressKey
    <2> DEFINE changed == drive.changed \/ key.kind # "other"
               stopping == drive.stopping \/ key.kind = "quit"
               jumps == IF key.kind = "jump" THEN pressed.jumps + 1 ELSE pressed.jumps
    <2>2. /\ drive' = [drive EXCEPT !.changed = changed, !.stopping = stopping]
          /\ pressed' = [pressed EXCEPT !.keys = @ + 1, !.jumps = jumps]
      BY <1>1 DEF PressKey
    <2>3. /\ changed \in BOOLEAN /\ stopping \in BOOLEAN
          /\ jumps \in 0 .. MaxKeys /\ jumps <= pressed.keys + 1 /\ pressed.jumps <= jumps
          /\ key.kind = "jump" => jumps = pressed.jumps + 1
      <3>1. changed \in BOOLEAN /\ stopping \in BOOLEAN
        OBVIOUS
      <3>2. pressed.jumps <= pressed.keys
        BY <1>0 DEF Answered
      <3>3. jumps \in 0 .. MaxKeys /\ jumps <= pressed.keys + 1 /\ pressed.jumps <= jumps
        BY <2>1, <3>2, DriveNumbers
      <3> QED
        BY <3>1, <3>3
    <2>4. changed => drive.changed \/ key.kind # "other"
      OBVIOUS
    <2>5. ~changed => ~drive.changed /\ key.kind = "other"
      OBVIOUS
    <2> HIDE DEF changed, stopping, jumps
    <2>6. /\ MainDriveType' /\ drive'.at = drive.at /\ drive'.cause = drive.cause
          /\ drive'.status = drive.status /\ drive'.last = drive.last
          /\ drive'.changed = changed /\ drive'.stopping = stopping
      BY <1>0, <2>2, <2>3 DEF MainDriveType
    <2>7. /\ PressedType' /\ pressed'.keys = pressed.keys + 1 /\ pressed'.jumps = jumps
          /\ pressed'.jumpsSent = pressed.jumpsSent
      <3>1. pressed.keys + 1 \in 0 .. MaxKeys
        BY <2>1, DriveNumbers
      <3> QED
        BY <1>0, <2>2, <2>3, <3>1 DEF PressedType
    <2>8. held' \in HeldStates /\ StreamType' /\ AvatarType'
      BY <1>0, <2>1, AppliedState DEF StreamType, AvatarType
    <2>9. held'.jump => pressed'.jumpsSent < pressed'.jumps
      <3>1. CASE key.kind = "jump"
        BY <1>0, <2>3, <2>7, <3>1, DriveNumbers DEF Answered
      <3>2. CASE key.kind # "jump"
        <4>1. held'.jump => held.jump
          BY <1>0, <2>1, <3>2, AppliedState
        <4>2. held.jump => pressed.jumpsSent < pressed.jumps
          BY <1>0 DEF Answered
        <4> QED
          BY <2>3, <2>7, <4>1, <4>2, DriveNumbers
      <3> QED
        BY <3>1, <3>2
    <2>10. Answered'
      <3>1. /\ pressed'.jumps <= pressed'.keys /\ pressed'.jumpsSent <= pressed'.jumps
        BY <1>0, <2>3, <2>7, DriveNumbers DEF Answered
      <3>2. /\ Len(stream'.queue) <= pressed'.keys /\ 1 <= pressed'.keys
            /\ drive.at \in {"none", "probe", "initial"} => Len(stream'.queue) = 0
        BY <1>0, <2>1, <2>7, DriveNumbers DEF Answered
      <3>3. Len(stream'.queue) <= pressed'.keys + 1
        BY <2>1, <2>7, <3>2, DriveNumbers
      <3> QED
        BY <2>6, <2>9, <3>1, <3>2, <3>3 DEF Answered
    <2>11. OnStream'
      BY <1>0, <2>1, <2>6 DEF OnStream
    <2>12. KeysEmitted'
      <3>1. drive'.at = "wait" /\ ~drive'.changed => held' = held /\ drive.at = "wait" /\ ~drive.changed
        BY <1>0, <2>1, <2>5, <2>6, AppliedState
      <3> QED
        BY <1>0, <2>6, <2>10, <3>1 DEF KeysEmitted, Answered
    <2> QED
      BY <2>6, <2>7, <2>8, <2>10, <2>11, <2>12 DEF DriveInv
  <1>2. CASE EndOfInput
    <2>1. /\ drive' = [drive EXCEPT !.changed = TRUE, !.stopping = TRUE]
          /\ UNCHANGED <<held, stream, avatar, pressed>>
      BY <1>2 DEF EndOfInput
    <2>2. /\ MainDriveType' /\ drive'.at = drive.at /\ drive'.cause = drive.cause
          /\ drive'.status = drive.status /\ drive'.changed /\ drive'.stopping
      BY <1>0, <2>1 DEF MainDriveType
    <2> QED
      BY <1>0, <2>1, <2>2
      DEF DriveInv, StreamType, PressedType, AvatarType, Answered, OnStream, KeysEmitted
  <1> QED
    BY <1>1, <1>2

(* An emission for which there is a key left, or the first. *)
LEMMA EmitKeepsKeys ==
  ASSUME DriveInv, NEW d, EmitState(d), drive.at \in {"initial", "wait"},
         d \in [at : {"wait", "reset"}, changed : BOOLEAN, stopping : BOOLEAN,
                cause : {"none", "quit", "failure", "interrupt"},
                status : {"none", "0", "1", "130"}, last : [Axis -> {0 - 1, 0, 1}]],
         d.status = drive.status,
         Len(stream.queue) <= pressed.keys,
         d.changed /\ ~d.stopping => Len(stream.queue) + 1 <= pressed.keys
  PROVE  DriveInv'
  <1>0. /\ MainDriveType /\ held \in HeldStates /\ StreamType /\ PressedType /\ AvatarType
        /\ Answered /\ OnStream /\ KeysEmitted
    BY DEF DriveInv
  <1> DEFINE queue == IF stream.end = "none" THEN Append(stream.queue, held) ELSE stream.queue
             jumpsSent == IF held.jump THEN pressed.jumpsSent + 1 ELSE pressed.jumpsSent
  <1>1. /\ stream' = [stream EXCEPT !.open = TRUE, !.queue = queue]
        /\ held' = [held EXCEPT !.jump = FALSE]
        /\ drive' = [d EXCEPT !.last = held.axis]
        /\ pressed' = [pressed EXCEPT !.jumpsSent = jumpsSent]
        /\ UNCHANGED avatar
    BY DEF EmitState, Emitted
  <1>2. queue \in Seq(HeldStates) /\ Len(queue) \in Nat /\ Len(queue) <= Len(stream.queue) + 1
    <2>1. /\ Append(stream.queue, held) \in Seq(HeldStates)
          /\ Len(Append(stream.queue, held)) = Len(stream.queue) + 1
      BY <1>0, DriveNumbers, AppendProperties
    <2> QED
      BY <2>1, DriveNumbers
  <1>3. jumpsSent \in Nat /\ jumpsSent <= pressed.jumps
    BY <1>0, DriveNumbers DEF Answered
  <1> HIDE DEF queue, jumpsSent
  <1>4. /\ held' \in HeldStates /\ held'.axis = held.axis /\ ~held'.jump /\ held.axis \in [Axis -> {0 - 1, 0, 1}]
    BY <1>0, <1>1 DEF HeldStates
  <1>5. /\ MainDriveType' /\ drive'.at = d.at /\ drive'.changed = d.changed /\ drive'.stopping = d.stopping
        /\ drive'.status = d.status /\ drive'.last = held.axis /\ d.at \in {"wait", "reset"}
    BY <1>1, <1>4 DEF MainDriveType
  <1>6. StreamType' /\ stream'.open /\ stream'.queue = queue /\ stream'.end = stream.end
    BY <1>0, <1>1, <1>2 DEF StreamType
  <1>7. /\ PressedType' /\ pressed'.keys = pressed.keys /\ pressed'.jumps = pressed.jumps
        /\ pressed'.jumpsSent = jumpsSent
    BY <1>0, <1>1, <1>3 DEF PressedType
  <1>8. AvatarType'
    BY <1>0, <1>1 DEF AvatarType
  <1>9. Answered'
    <2>1. Len(queue) <= pressed.keys + 1
      BY <1>2, DriveNumbers
    <2>2. d.changed /\ ~d.stopping => Len(queue) <= pressed.keys
      BY <1>2, DriveNumbers
    <2>3. pressed.jumps <= pressed.keys
      BY <1>0 DEF Answered
    <2> QED
      BY <1>3, <1>4, <1>5, <1>6, <1>7, <2>1, <2>2, <2>3 DEF Answered
  <1>10. OnStream'
    BY <1>0, <1>5, <1>6 DEF OnStream
  <1>11. KeysEmitted'
    BY <1>3, <1>4, <1>5, <1>7 DEF KeysEmitted
  <1> QED
    BY <1>4, <1>5, <1>6, <1>7, <1>8, <1>9, <1>10, <1>11 DEF DriveInv

(* A step of the main task that emits nothing and ends, or goes on from,   *)
(* a stage.                                                                *)
LEMMA MainMoves ==
  ASSUME DriveInv, UNCHANGED <<held, stream, pressed>>, AvatarType', MainDriveType',
         drive'.at \notin {"wait"},
         drive'.stopping = drive.stopping, drive'.changed => drive.changed,
         drive'.at \in {"none", "probe", "initial"} => drive.at \in {"none", "probe", "initial"},
         drive'.status = "0" => drive.status = "0",
         drive.at # "ended",
         drive'.at \in {"reset"} => stream.open,
         drive'.at = "leave" => drive'.cause # "none" /\ (drive'.cause = "quit" => stream.open)
  PROVE  DriveInv'
  <1>0. /\ MainDriveType /\ held \in HeldStates /\ StreamType /\ PressedType /\ AvatarType
        /\ Answered /\ OnStream /\ KeysEmitted
    BY DEF DriveInv
  <1>1. held' \in HeldStates /\ StreamType' /\ PressedType'
    BY <1>0 DEF StreamType, PressedType
  <1>2. Answered'
    BY <1>0 DEF Answered
  <1>3. OnStream' /\ KeysEmitted'
    BY <1>0 DEF OnStream, KeysEmitted, Answered
  <1> QED
    BY <1>1, <1>2, <1>3 DEF DriveInv

LEMMA DriveMainKeeps ==
  ASSUME DriveInv,
         \/ \E no_wait \in BOOLEAN : RunDrive(no_wait)
         \/ ProbeBridge \/ EmitInitial \/ EmitChange \/ ResetAvatar \/ InterruptDrive
  PROVE  DriveInv'
  <1>0. /\ MainDriveType /\ held \in HeldStates /\ StreamType /\ PressedType /\ AvatarType
        /\ Answered /\ OnStream /\ KeysEmitted
    BY DEF DriveInv
  <1>1. ASSUME NEW no_wait \in BOOLEAN, RunDrive(no_wait)
        PROVE  DriveInv'
    <2> DEFINE at == IF no_wait THEN "initial" ELSE "probe"
    <2>1. at \in {"initial", "probe"} /\ drive' = [drive EXCEPT !.at = at] /\ drive.at = "none"
      BY <1>1 DEF RunDrive
    <2> HIDE DEF at
    <2>2. /\ MainDriveType' /\ drive'.at = at /\ drive'.stopping = drive.stopping
          /\ drive'.changed = drive.changed /\ drive'.status = drive.status
      BY <1>0, <2>1 DEF MainDriveType
    <2>3. AvatarType' /\ UNCHANGED <<held, stream, pressed>>
      BY <1>0, <1>1 DEF AvatarType, RunDrive
    <2> QED
      BY <2>1, <2>2, <2>3, MainMoves
  <1>2. CASE ProbeBridge
    <2>1. /\ AvatarType' /\ UNCHANGED <<held, stream, pressed>> /\ drive.at = "probe"
      BY <1>0, <1>2 DEF AvatarType, ProbeBridge
    <2>2. /\ MainDriveType' /\ drive'.at \in {"initial", "ended"} /\ drive'.stopping = drive.stopping
          /\ drive'.changed = drive.changed /\ drive'.status \in {drive.status, "1"}
      BY <1>0, <1>2 DEF MainDriveType, ProbeBridge, DriveEnds
    <2> QED
      BY <2>1, <2>2, MainMoves
  <1>3. CASE EmitInitial
    <2>1. CASE DriveEnds("1") /\ UNCHANGED <<held, stream, avatar, pressed>>
      <3>1. /\ MainDriveType' /\ drive'.at = "ended" /\ drive'.stopping = drive.stopping
            /\ drive'.changed = drive.changed /\ drive'.status = "1"
        BY <1>0, <2>1 DEF MainDriveType, DriveEnds
      <3>2. AvatarType' /\ drive.at = "initial"
        BY <1>0, <1>3, <2>1 DEF AvatarType, EmitInitial
      <3> QED
        BY <2>1, <3>1, <3>2, MainMoves
    <2>2. CASE EmitState([drive EXCEPT !.at = IF drive.stopping THEN "reset" ELSE "wait"])
      <3> DEFINE at == IF drive.stopping THEN "reset" ELSE "wait"
                 d == [drive EXCEPT !.at = at]
      <3>1. at \in {"reset", "wait"} /\ drive.at = "initial" /\ EmitState(d)
        BY <1>3, <2>2 DEF EmitInitial
      <3> HIDE DEF at
      <3>2. /\ d \in [at : {"wait", "reset"}, changed : BOOLEAN, stopping : BOOLEAN,
                       cause : {"none", "quit", "failure", "interrupt"},
                       status : {"none", "0", "1", "130"}, last : [Axis -> {0 - 1, 0, 1}]]
            /\ d.status = drive.status /\ d.changed = drive.changed /\ d.stopping = drive.stopping
        BY <1>0, <3>1 DEF MainDriveType
      <3> HIDE DEF d
      <3>3. /\ Len(stream.queue) <= pressed.keys
            /\ d.changed /\ ~d.stopping => Len(stream.queue) + 1 <= pressed.keys
        BY <1>0, <3>1, <3>2, DriveNumbers DEF Answered
      <3> QED
        BY <3>1, <3>2, <3>3, EmitKeepsKeys
    <2> QED
      BY <1>3, <2>1, <2>2 DEF EmitInitial
  <1>4. CASE EmitChange
    <2>1. CASE drive.stopping
      <3>1. /\ drive' = [drive EXCEPT !.changed = FALSE, !.at = "reset", !.cause = "quit"]
            /\ UNCHANGED <<held, stream, avatar, pressed>> /\ drive.at = "wait"
        BY <1>4, <2>1 DEF EmitChange, Woken
      <3>2. /\ MainDriveType' /\ drive'.at = "reset" /\ drive'.stopping = drive.stopping
            /\ ~drive'.changed /\ drive'.status = drive.status
        BY <1>0, <3>1 DEF MainDriveType
      <3>3. AvatarType' /\ stream.open
        BY <1>0, <3>1 DEF AvatarType, OnStream
      <3> QED
        BY <3>1, <3>2, <3>3, MainMoves
    <2>2. CASE ~drive.stopping
      <3> DEFINE d == [drive EXCEPT !.changed = FALSE]
      <3>1. EmitState(d) /\ drive.at = "wait" /\ drive.changed
        BY <1>4, <2>2 DEF EmitChange, Woken
      <3>2. /\ d \in [at : {"wait", "reset"}, changed : BOOLEAN, stopping : BOOLEAN,
                       cause : {"none", "quit", "failure", "interrupt"},
                       status : {"none", "0", "1", "130"}, last : [Axis -> {0 - 1, 0, 1}]]
            /\ d.status = drive.status /\ ~d.changed
        BY <1>0, <3>1 DEF MainDriveType
      <3> HIDE DEF d
      <3>3. Len(stream.queue) <= pressed.keys
        BY <1>0, <2>2, <3>1 DEF Answered
      <3> QED
        BY <3>1, <3>2, <3>3, EmitKeepsKeys
    <2> QED
      BY <2>1, <2>2
  <1>5. CASE ResetAvatar
    <2>1. /\ drive.at = "reset" /\ UNCHANGED <<held, stream, pressed>>
          /\ avatar' \in {avatar, Neutral.axis}
      BY <1>5 DEF ResetAvatar
    <2>2. PICK cause \in {"quit", "failure"} : drive' = [drive EXCEPT !.at = "leave", !.cause = cause]
      BY <1>5 DEF ResetAvatar
    <2>3. /\ MainDriveType' /\ drive'.at = "leave" /\ drive'.cause = cause
          /\ drive'.stopping = drive.stopping
          /\ drive'.changed = drive.changed /\ drive'.status = drive.status
      BY <1>0, <2>2 DEF MainDriveType
    <2>4. AvatarType' /\ stream.open
      BY <1>0, <2>1, NeutralHeld DEF AvatarType, OnStream
    <2> QED
      BY <2>1, <2>3, <2>4, MainMoves
  <1>6. CASE InterruptDrive
    <2>1. CASE drive.at = "probe" /\ DriveEnds("130") /\ UNCHANGED avatar
      <3>1. /\ MainDriveType' /\ drive'.at = "ended" /\ drive'.stopping = drive.stopping
            /\ drive'.changed = drive.changed /\ drive'.status = "130"
        BY <1>0, <2>1 DEF MainDriveType, DriveEnds
      <3>2. AvatarType' /\ UNCHANGED <<held, stream, pressed>>
        BY <1>0, <1>6, <2>1 DEF AvatarType, InterruptDrive
      <3> QED
        BY <2>1, <3>1, <3>2, MainMoves
    <2>2. CASE /\ drive.at \in {"initial", "wait", "reset"}
               /\ drive' = [drive EXCEPT !.at = "leave", !.cause = "interrupt"]
               /\ avatar' \in IF drive.at = "reset" THEN {avatar, Neutral.axis} ELSE {avatar}
      <3>1. /\ MainDriveType' /\ drive'.at = "leave" /\ drive'.cause = "interrupt"
            /\ drive'.stopping = drive.stopping
            /\ drive'.changed = drive.changed /\ drive'.status = drive.status
        BY <1>0, <2>2 DEF MainDriveType
      <3>2. AvatarType' /\ UNCHANGED <<held, stream, pressed>>
        BY <1>0, <1>6, <2>2, NeutralHeld DEF AvatarType, InterruptDrive
      <3> QED
        BY <2>2, <3>1, <3>2, MainMoves
    <2> QED
      BY <1>6, <2>1, <2>2 DEF InterruptDrive
  <1> QED
    BY <1>1, <1>2, <1>3, <1>4, <1>5, <1>6

(* The stream, and the way out of the client. *)
LEMMA StreamKeeps ==
  ASSUME DriveInv, SendQueued \/ StreamFails \/ LeaveClient
  PROVE  DriveInv'
  <1>0. /\ MainDriveType /\ held \in HeldStates /\ StreamType /\ PressedType /\ AvatarType
        /\ Answered /\ OnStream /\ KeysEmitted
    BY DEF DriveInv
  <1>1. CASE SendQueued \/ StreamFails
    <2>1. UNCHANGED <<drive, held, pressed>> /\ stream.end = "none"
      BY <1>1 DEF SendQueued, StreamFails
    <2>2. /\ StreamType' /\ AvatarType' /\ stream'.open = stream.open
          /\ Len(stream'.queue) \in Nat /\ Len(stream'.queue) <= Len(stream.queue)
          /\ stream'.end \in {"none", "failed"}
      <3>1. CASE SendQueued
        <4>1. /\ Head(stream.queue) \in HeldStates /\ Tail(stream.queue) \in Seq(HeldStates)
              /\ Len(Tail(stream.queue)) = Len(stream.queue) - 1 /\ Len(stream.queue) # 0
          BY <3>1, DriveNumbers, HeadTailProperties, EmptySeq DEF SendQueued
        <4>2. stream' = [stream EXCEPT !.queue = Tail(stream.queue)] /\ avatar' = Head(stream.queue).axis
          BY <3>1 DEF SendQueued
        <4>3. StreamType' /\ stream'.open = stream.open /\ stream'.queue = Tail(stream.queue)
              /\ stream'.end = stream.end
          BY <1>0, <4>1, <4>2 DEF StreamType
        <4>4. AvatarType'
          BY <4>1, <4>2 DEF AvatarType, HeldStates
        <4> QED
          BY <2>1, <4>1, <4>3, <4>4, DriveNumbers
      <3>2. CASE StreamFails
        <4>1. /\ stream' = [stream EXCEPT !.end = "failed", !.queue = <<>>] /\ avatar' = Neutral.axis
          BY <3>2 DEF StreamFails
        <4>2. StreamType' /\ stream'.open = stream.open /\ stream'.queue = <<>> /\ stream'.end = "failed"
          BY <1>0, <4>1, EmptySeq DEF StreamType
        <4>3. AvatarType'
          BY <4>1, NeutralHeld DEF AvatarType
        <4> QED
          BY <4>2, <4>3, DriveNumbers, EmptySeq
      <3> QED
        BY <1>1, <3>1, <3>2
    <2>3. MainDriveType' /\ PressedType' /\ held' \in HeldStates /\ KeysEmitted'
      BY <1>0, <2>1 DEF MainDriveType, PressedType, KeysEmitted
    <2>4. Answered'
      <3>1. \A n \in Nat : Len(stream.queue) <= n => Len(stream'.queue) <= n
        BY <2>2, DriveNumbers
      <3>2. Len(stream.queue) = 0 => Len(stream'.queue) = 0
        BY <2>2, DriveNumbers
      <3>3. pressed.keys \in Nat /\ pressed.keys + 1 \in Nat
        BY DriveNumbers
      <3> QED
        BY <1>0, <2>1, <3>1, <3>2, <3>3 DEF Answered
    <2>5. OnStream'
      BY <1>0, <2>1, <2>2 DEF OnStream
    <2> QED
      BY <2>2, <2>3, <2>4, <2>5 DEF DriveInv
  <1>2. CASE LeaveClient
    <2>1. UNCHANGED <<held, avatar, pressed>> /\ drive.at = "leave"
      BY <1>2 DEF LeaveClient
    <2>2. PICK status \in {"0", "1", "130"} :
            /\ drive' = [drive EXCEPT !.at = "ended", !.status = status]
            /\ status = "0" => drive.cause \notin {"interrupt", "failure"} /\ stream.end # "failed"
      BY <1>2 DEF LeaveClient, DriveEnds
    <2>3. /\ MainDriveType' /\ drive'.at = "ended" /\ drive'.status = status
          /\ drive'.changed = drive.changed /\ drive'.stopping = drive.stopping
      BY <1>0, <2>2 DEF MainDriveType
    <2> DEFINE end == IF stream.open /\ stream.end = "none" THEN "graceful" ELSE stream.end
    <2>4. stream' = [stream EXCEPT !.end = end]
      BY <1>2 DEF LeaveClient
    <2>5. stream.end \in {"none", "graceful", "failed"} /\ end \in {"none", "graceful", "failed"}
      BY <1>0 DEF StreamType
    <2>6. StreamType' /\ stream'.queue = stream.queue /\ stream'.end = end
      <3> HIDE DEF end
      <3> QED
        BY <1>0, <2>4, <2>5 DEF StreamType
    <2>7. status = "0" => end = "graceful" /\ stream.queue = <<>>
      <3>1. status = "0" => stream.open /\ stream.end = "none"
        <4>1. stream.end # "graceful"
          BY <1>0, <2>1 DEF OnStream
        <4>2. drive.cause \in {"quit", "failure", "interrupt"} /\ (drive.cause = "quit" => stream.open)
          BY <1>0, <2>1 DEF OnStream, MainDriveType
        <4> QED
          BY <2>2, <2>5, <4>1, <4>2
      <3>2. stream.open /\ stream.end = "none" => stream.queue = <<>>
        BY <1>2 DEF LeaveClient, Drained
      <3> QED
        BY <3>1, <3>2
    <2>8. AvatarType' /\ PressedType' /\ held' \in HeldStates
      BY <1>0, <2>1 DEF AvatarType, PressedType
    <2>9. Answered' /\ KeysEmitted'
      BY <1>0, <2>1, <2>3, <2>6 DEF Answered, KeysEmitted
    <2>10. OnStream'
      BY <2>3, <2>6, <2>7 DEF OnStream
    <2> QED
      BY <2>3, <2>6, <2>8, <2>9, <2>10 DEF DriveInv
  <1> QED
    BY <1>1, <1>2

LEMMA DriveStep == DriveInv /\ [DriveNext]_driveVars => DriveInv'
  <1> SUFFICES ASSUME DriveInv, [DriveNext]_driveVars PROVE DriveInv'
    OBVIOUS
  <1>1. CASE DriveNext
    BY <1>1, InputKeeps, DriveMainKeeps, StreamKeeps DEF DriveNext
  <1>2. CASE UNCHANGED driveVars
    BY <1>2 DEF driveVars, DriveInv, MainDriveType, StreamType, PressedType, AvatarType, Answered,
                OnStream, KeysEmitted
  <1> QED
    BY <1>1, <1>2

-----------------------------------------------------------------------------
(* resoio mic.                                                             *)

LEMMA Whole ==
  ASSUME NEW x \in Nat, NEW c \in Nat, c > 0
  PROVE  x \div c \in Nat /\ c * (x \div c) <= x /\ x < c * (x \div c) + c
  <1>1. x \div c \in Nat
    OBVIOUS
  <1>2. c * (x \div c) <= x
    OBVIOUS
  <1>3. x < c * (x \div c) + c
    OBVIOUS
  <1> QED
    BY <1>1, <1>2, <1>3

LEMMA Further ==
  ASSUME NEW f \in Nat, NEW w \in Nat, NEW c \in Nat, f < w
  PROVE  c * (f + 1) = c * f + c /\ c * (f + 1) <= c * w
  <1>1. c * (f + 1) = c * f + c
    OBVIOUS
  <1>2. PICK d \in Nat : w = f + 1 + d
    <2>1. w - (f + 1) \in Nat /\ w = f + 1 + (w - (f + 1))
      OBVIOUS
    <2> QED
      BY <2>1
  <1>3. c * w = c * (f + 1) + c * d
    BY <1>2
  <1>4. c * d \in Nat /\ c * (f + 1) \in Nat
    BY <1>2
  <1> QED
    BY <1>1, <1>3, <1>4

LEMMA Larger ==
  ASSUME NEW f \in Nat, NEW c \in Nat, c > 0
  PROVE  f <= c * f /\ c * f \in Nat
  <1>1. PICK d \in Nat : c = d + 1
    <2>1. c - 1 \in Nat /\ c = (c - 1) + 1
      OBVIOUS
    <2> QED
      BY <2>1
  <1>2. c * f = d * f + f
    BY <1>1
  <1>3. d * f \in Nat
    BY <1>1
  <1> QED
    BY <1>2, <1>3

FeedType ==
  feed \in [at : {"none", "probe", "load", "connect", "stream", "sleep", "summary", "leave", "ended"},
            source : {"-", "file"}, limit : Limit, limited : BOOLEAN, printed : BOOLEAN,
            status : {"none", "0", "1", "2", "130"}]
SentType == sent \in [samples : Nat, frames : Nat, steps : 0 .. MaxWait]
InputType == input \in 0 .. MaxSamples /\ reading \in 0 .. Chunk

Before == {"none", "probe", "load", "connect"}

(* What a file has sent is whole chunks of it, and what is still to be     *)
(* played is the burst at most; standard input has sent what it has brought*)
(* in, and never more than --duration, a read that is out included.        *)
FromFile ==
  /\ reading = 0 /\ sent.samples = Chunk * sent.frames /\ sent.frames <= Wanted
  /\ sent.steps < MaxWait =>
       /\ sent.frames <= Warmup + 1 + sent.steps
       /\ feed.at \in Before \cup {"stream"} => sent.frames <= Warmup + sent.steps
FromStandard ==
  /\ sent.frames <= sent.samples /\ sent.samples <= input
  /\ Duration => sent.samples <= feed.limit
  /\ feed.limited /\ reading > 0 => sent.samples + reading <= feed.limit
Source ==
  /\ feed.source = "file" => FromFile
  /\ feed.source = "-" /\ feed.at \notin Before => FromStandard

(* What the summary says was sent is all there was: every whole chunk of   *)
(* the file, as much as --duration says, or all but a part of a chunk.     *)
Complete ==
  \/ feed.source = "file" /\ sent.frames = Wanted
  \/ feed.source = "-" /\ feed.limited /\ sent.samples >= feed.limit
  \/ feed.source = "-" /\ input < sent.samples + Chunk /\ (feed.limited => input < feed.limit)
FeedStages ==
  /\ feed.at \in Before => sent = NothingSent /\ reading = 0
  /\ reading > 0 => feed.at \in {"sleep", "leave"} /\ feed.source = "-"
  /\ feed.at = "none" => feed.source = "-"
  /\ feed.at = "summary" => Complete
  /\ feed.printed => feed.at = "ended" /\ Complete

FeedInv ==
  /\ FeedType /\ SentType /\ InputType
  /\ Source /\ FeedStages

LEMMA FeedConstants ==
  /\ Chunk \in Nat /\ Chunk > 0 /\ Warmup \in Nat /\ MaxSamples \in Nat /\ MaxWait \in Nat
  BY MicFeedAssumption

LEMMA FeedNumbers ==
  ASSUME FeedInv
  PROVE  /\ sent.samples \in Nat /\ sent.frames \in Nat /\ sent.steps \in Nat /\ sent.steps <= MaxWait
         /\ input \in Nat /\ input <= MaxSamples /\ reading \in Nat /\ reading <= Chunk
         /\ feed.limit \in Int
  BY FeedConstants DEF FeedInv, FeedType, SentType, InputType, Limit

LEMMA WantedBound ==
  ASSUME FeedInv
  PROVE  /\ Sliced \in Nat /\ Sliced <= input /\ (Duration => Sliced <= feed.limit)
         /\ Wanted \in Nat /\ Chunk * Wanted \in Nat
         /\ Chunk * Wanted <= Sliced /\ Sliced < Chunk * Wanted + Chunk
  <1>1. Sliced \in Nat /\ Sliced <= input /\ (Duration => Sliced <= feed.limit)
    BY FeedNumbers DEF Smaller, Sliced, Duration
  <1>2. Wanted \in Nat /\ Chunk * Wanted <= Sliced /\ Sliced < Chunk * Wanted + Chunk
    BY <1>1, Whole, FeedConstants DEF Wanted
  <1>3. Chunk * Wanted \in Nat
    BY <1>2, FeedConstants
  <1> QED
    BY <1>1, <1>2, <1>3

LEMMA FileBound ==
  ASSUME FeedInv, feed.source = "file"
  PROVE  /\ sent.samples <= input /\ (Duration => sent.samples <= feed.limit)
         /\ sent.frames <= sent.samples
  <1>1. sent.samples = Chunk * sent.frames /\ sent.frames <= Wanted
    BY DEF FeedInv, Source, FromFile
  <1>2. Chunk * sent.frames <= Chunk * Wanted
    <2>1. CASE sent.frames = Wanted
      BY <2>1, WantedBound, FeedConstants
    <2>2. CASE sent.frames < Wanted
      <3>1. Chunk * (sent.frames + 1) = Chunk * sent.frames + Chunk
            /\ Chunk * (sent.frames + 1) <= Chunk * Wanted
        BY <2>2, FeedNumbers, WantedBound, FeedConstants, Further
      <3>2. Chunk * sent.frames \in Nat /\ Chunk * Wanted \in Nat
        BY FeedNumbers, WantedBound, FeedConstants
      <3> QED
        BY <3>1, <3>2, FeedConstants
    <2> QED
      BY <1>1, <2>1, <2>2, FeedNumbers, WantedBound
  <1>3. sent.frames <= Chunk * sent.frames /\ Chunk * sent.frames \in Nat
    BY FeedNumbers, FeedConstants, Larger
  <1>4. sent.samples <= Sliced
    BY <1>1, <1>2, <1>3, WantedBound
  <1>5. sent.samples <= input
    BY <1>4, FeedNumbers, WantedBound
  <1>6. Duration => sent.samples <= feed.limit
    BY <1>4, FeedNumbers, WantedBound
  <1> QED
    BY <1>1, <1>3, <1>5, <1>6

LEMMA FeedParts == FeedInv => FeedTypeOK /\ FeedSound
  <1> SUFFICES ASSUME FeedInv PROVE FeedTypeOK /\ FeedSound
    OBVIOUS
  <1>0. FeedType /\ SentType /\ InputType /\ Source /\ FeedStages
    BY DEF FeedInv
  <1>1. feed.source \in {"-", "file"}
    BY <1>0 DEF FeedType
  <1>2. /\ sent.samples <= input /\ sent.frames <= sent.samples
        /\ Duration => sent.samples <= feed.limit
    <2>1. CASE feed.source = "file"
      BY <2>1, FileBound
    <2>2. CASE feed.at \in Before
      <3>1. sent.samples = 0 /\ sent.frames = 0
        BY <1>0, <2>2 DEF FeedStages, NothingSent
      <3> QED
        BY <3>1, FeedNumbers, FeedConstants DEF Duration
    <2>3. CASE feed.source = "-" /\ feed.at \notin Before
      BY <1>0, <2>3 DEF Source, FromStandard
    <2> QED
      BY <1>1, <2>1, <2>2, <2>3
  <1>3. FeedTypeOK
    <2>1. sent.samples \in 0 .. MaxSamples /\ sent.frames \in 0 .. MaxSamples
      BY <1>2, FeedNumbers, FeedConstants
    <2>2. sent \in [samples : 0 .. MaxSamples, frames : 0 .. MaxSamples, steps : 0 .. MaxWait]
      BY <1>0, <2>1 DEF SentType
    <2>3. feed.at = "ended" => reading = 0
      BY <1>0, FeedNumbers DEF FeedStages
    <2> QED
      BY <1>0, <2>2, <2>3 DEF FeedTypeOK, FeedType, InputType
  <1>4. FeedPaced
    BY <1>0 DEF FeedPaced, Source, FromFile
  <1>5. FeedExact
    <2> DEFINE due == IF Duration THEN Smaller(input, feed.limit) ELSE input
    <2>1. ASSUME feed.printed, feed.limited => Duration
          PROVE  /\ due < sent.samples + Chunk
                 /\ feed.source = "-" /\ Duration /\ feed.limit <= input => sent.samples = feed.limit
      <3>1. Complete
        BY <1>0, <2>1 DEF FeedStages
      <3>2. due \in Nat /\ due <= input /\ (Duration => due <= feed.limit)
        BY FeedNumbers DEF Smaller, Duration
      <3>3. Sliced = due
        BY <2>1 DEF Sliced, Duration
      <3> HIDE DEF due
      <3>4. CASE feed.source = "file" /\ sent.frames = Wanted
        <4>1. sent.samples = Chunk * Wanted
          BY <1>0, <3>4 DEF Source, FromFile
        <4> QED
          BY <3>3, <3>4, <4>1, WantedBound
      <3>5. CASE feed.source = "-" /\ feed.limited /\ sent.samples >= feed.limit
        BY <1>2, <2>1, <3>2, <3>5, FeedNumbers, FeedConstants
      <3>6. CASE input < sent.samples + Chunk /\ (feed.limited => input < feed.limit) /\ feed.source = "-"
        BY <3>2, <3>6, FeedNumbers, FeedConstants DEF Duration
      <3> QED
        BY <3>1, <3>4, <3>5, <3>6 DEF Complete
    <2> QED
      BY <1>2, <2>1 DEF FeedExact
  <1> QED
    BY <1>3, <1>4, <1>5 DEF FeedSound

LEMMA FeedInitInv == FeedInit => FeedInv
  <1> SUFFICES ASSUME FeedInit PROVE FeedInv
    OBVIOUS
  <1>1. FeedType
    BY FeedConstants DEF FeedInit, FeedType, NotFeeding, Limit
  <1>2. SentType /\ InputType
    BY FeedConstants DEF FeedInit, SentType, InputType, NothingSent
  <1>3. Source /\ FeedStages
    BY DEF FeedInit, Source, FeedStages, NotFeeding, Before
  <1> QED
    BY <1>1, <1>2, <1>3 DEF FeedInv

(* A step from one stage to another. *)
LEMMA StageMoves ==
  ASSUME FeedInv, NEW at \in {"load", "connect", "stream", "summary", "leave", "ended"},
         NEW status \in {"none", "0", "1", "2", "130"}, NEW printed \in BOOLEAN,
         feed' = [feed EXCEPT !.at = at, !.status = status, !.printed = printed],
         UNCHANGED <<input, sent, reading>>,
         at \in Before => feed.at \in Before,
         at = "stream" => feed.at \in Before,
         reading > 0 => at = "leave",
         at = "summary" => Complete,
         printed => at = "ended" /\ Complete
  PROVE  FeedInv'
  <1>0. FeedType /\ SentType /\ InputType /\ Source /\ FeedStages
    BY DEF FeedInv
  <1>1. /\ FeedType' /\ feed'.at = at /\ feed'.printed = printed /\ feed'.source = feed.source
        /\ feed'.limit = feed.limit /\ feed'.limited = feed.limited
    BY <1>0 DEF FeedType
  <1>2. SentType' /\ InputType'
    BY <1>0 DEF SentType, InputType
  <1>3. Wanted' = Wanted
    BY <1>1 DEF Wanted, Sliced
  <1>4. Complete => Complete'
    BY <1>1, <1>3 DEF Complete
  <1>5. FeedStages'
    BY <1>0, <1>1, <1>4, FeedNumbers DEF FeedStages, Before
  <1>6. feed.source = "file" => FromFile'
    BY <1>0, <1>1, <1>3 DEF Source, FromFile, Before
  <1>7. feed.source = "-" /\ feed'.at \notin Before => FromStandard'
    <2>1. CASE feed.at \in Before
      <3>1. sent.samples = 0 /\ sent.frames = 0 /\ reading = 0
        BY <1>0, <2>1 DEF FeedStages, NothingSent
      <3> QED
        BY <1>1, <3>1, FeedNumbers, FeedConstants DEF FromStandard, Duration
    <2>2. CASE feed.at \notin Before
      BY <1>0, <1>1, <2>2 DEF Source, FromStandard, Duration
    <2> QED
      BY <2>1, <2>2
  <1>8. Source'
    BY <1>1, <1>6, <1>7 DEF Source
  <1> QED
    BY <1>1, <1>2, <1>5, <1>8 DEF FeedInv

LEMMA CallsKeep ==
  ASSUME FeedInv, ProbeMic \/ LoadInput \/ ConnectMic \/ AnswerSummary \/ MicFails \/ InterruptMic
  PROVE  FeedInv'
  <1>0. FeedType /\ SentType /\ InputType /\ Source /\ FeedStages
    BY DEF FeedInv
  <1>1. ASSUME NEW at \in {"load", "connect", "stream"}, feed' = [feed EXCEPT !.at = at],
               feed.at \in {"probe", "load", "connect"}, UNCHANGED <<input, sent, reading>>
        PROVE  FeedInv'
    <2>1. feed.status \in {"none", "0", "1", "2", "130"}
      BY <1>0 DEF FeedType
    <2>2. feed' = [feed EXCEPT !.at = at, !.status = feed.status, !.printed = FALSE]
      BY <1>0, <1>1 DEF FeedType, FeedStages
    <2>3. ~(reading > 0) /\ feed.at \in Before
      BY <1>0, <1>1 DEF FeedStages, Before
    <2> QED
      BY <1>1, <2>1, <2>2, <2>3, StageMoves
  <1>2. ASSUME NEW status \in {"0", "1", "2", "130"}, FeedEnds(status), UNCHANGED <<input, sent, reading>>,
               reading = 0, feed.at # "ended"
        PROVE  FeedInv'
    <2>1. feed' = [feed EXCEPT !.at = "ended", !.status = status, !.printed = FALSE]
      BY <1>0, <1>2 DEF FeedEnds, FeedType, FeedStages
    <2>2. ~(reading > 0) /\ "ended" \notin Before
      BY <1>2 DEF Before
    <2> QED
      BY <1>2, <2>1, <2>2, StageMoves
  <1>3. ASSUME NEW status \in {"0", "1", "130"}, Abandon(status), feed.at # "ended"
        PROVE  FeedInv'
    <2>1. CASE reading = 0
      BY <1>2, <1>3, <2>1 DEF Abandon
    <2>2. CASE reading # 0
      <3>1. /\ feed' = [feed EXCEPT !.at = "leave", !.status = status, !.printed = FALSE]
            /\ UNCHANGED <<input, sent, reading>>
        BY <1>0, <1>3, <2>2 DEF Abandon, FeedType, FeedStages
      <3>2. "leave" \notin Before
        BY DEF Before
      <3> QED
        BY <3>1, <3>2, StageMoves
    <2> QED
      BY <2>1, <2>2
  <1>4. feed.at \in {"probe", "load", "connect", "summary"} => reading = 0
    BY <1>0, FeedNumbers DEF FeedStages
  <1>5. CASE ProbeMic
    BY <1>1, <1>2, <1>4, <1>5 DEF ProbeMic
  <1>6. CASE LoadInput
    BY <1>1, <1>2, <1>4, <1>6 DEF LoadInput
  <1>7. CASE ConnectMic
    BY <1>1, <1>2, <1>4, <1>7 DEF ConnectMic
  <1>8. CASE AnswerSummary
    <2>1. Complete
      BY <1>0, <1>8 DEF AnswerSummary, FeedStages
    <2>2. CASE feed' = [feed EXCEPT !.at = "ended", !.status = "0", !.printed = TRUE]
      <3>1. UNCHANGED <<input, sent, reading>> /\ ~(reading > 0) /\ "ended" \notin Before
        BY <1>4, <1>8 DEF AnswerSummary, Before
      <3> QED
        BY <2>1, <2>2, <3>1, StageMoves
    <2> QED
      BY <1>2, <1>4, <1>8, <2>2 DEF AnswerSummary
  <1>9. CASE MicFails \/ InterruptMic
    BY <1>3, <1>9 DEF MicFails, InterruptMic
  <1> QED
    BY <1>5, <1>6, <1>7, <1>8, <1>9

LEMMA RunKeeps ==
  ASSUME FeedInv,
         \E source \in {"-", "file"}, limited, no_wait \in BOOLEAN, limit \in Limit :
           RunMic(source, limited, limit, no_wait)
  PROVE  FeedInv'
  <1>0. FeedType /\ SentType /\ InputType /\ Source /\ FeedStages
    BY DEF FeedInv
  <1>1. PICK source \in {"-", "file"}, limited \in BOOLEAN, no_wait \in BOOLEAN, limit \in Limit :
          RunMic(source, limited, limit, no_wait)
    OBVIOUS
  <1> DEFINE at == IF no_wait THEN "load" ELSE "probe"
  <1>2. /\ feed' = [feed EXCEPT !.at = at, !.source = source, !.limited = limited, !.limit = limit]
        /\ at \in {"load", "probe"} /\ feed.at = "none" /\ input' \in 0 .. MaxSamples
        /\ UNCHANGED <<sent, reading>>
    BY <1>1 DEF RunMic
  <1> HIDE DEF at
  <1>3. /\ FeedType' /\ feed'.at = at /\ feed'.printed = feed.printed
    BY <1>0, <1>2 DEF FeedType
  <1>4. SentType' /\ InputType'
    BY <1>0, <1>2 DEF SentType, InputType
  <1>5. sent' = NothingSent /\ reading' = 0 /\ ~feed.printed /\ at \in Before
    BY <1>0, <1>2 DEF FeedStages, Before
  <1>6. FeedStages'
    BY <1>2, <1>3, <1>5 DEF FeedStages
  <1>7. Wanted' \in Nat
    <2>1. Sliced' \in Nat
      BY <1>3, <1>4, FeedConstants DEF FeedType, InputType, Smaller, Sliced, Limit
    <2> QED
      BY <2>1, Whole, FeedConstants DEF Wanted
  <1>8. FromFile'
    <2>1. sent'.samples = 0 /\ sent'.frames = 0 /\ sent'.steps = 0
      BY <1>5 DEF NothingSent
    <2>2. Chunk * 0 = 0
      BY FeedConstants
    <2> QED
      BY <1>5, <1>7, <2>1, <2>2, FeedConstants DEF FromFile
  <1>9. Source'
    BY <1>3, <1>5, <1>8 DEF Source
  <1> QED
    BY <1>3, <1>4, <1>6, <1>9 DEF FeedInv

LEMMA FileKeeps ==
  ASSUME FeedInv, SendChunk \/ Played
  PROVE  FeedInv'
  <1>0. /\ FeedType /\ SentType /\ InputType /\ Source /\ FeedStages
        /\ feed.source = "file" /\ FromFile /\ UNCHANGED <<input, reading>>
        /\ feed.at \in {"stream", "sleep"} /\ ~feed.printed
    BY DEF FeedInv, Source, SendChunk, Played, FeedStages
  <1>1. CASE SendChunk /\ sent.frames < Wanted
    <2> DEFINE at == IF Unpaced(sent.frames + 1) THEN "stream" ELSE "sleep"
    <2>1. /\ sent' = [sent EXCEPT !.samples = sent.samples + Chunk, !.frames = sent.frames + 1]
          /\ feed' = [feed EXCEPT !.at = at] /\ at \in {"stream", "sleep"}
          /\ at = "stream" => sent.frames + 1 <= Warmup
          /\ feed.at = "stream"
      BY <1>1 DEF SendChunk, Unpaced
    <2> HIDE DEF at
    <2>2. /\ FeedType' /\ feed'.at = at /\ feed'.printed = feed.printed /\ feed'.source = feed.source
          /\ feed'.limit = feed.limit /\ feed'.limited = feed.limited
      BY <1>0, <2>1 DEF FeedType
    <2>3. /\ sent.samples + Chunk \in Nat /\ sent.frames + 1 \in Nat
      BY FeedNumbers, FeedConstants
    <2>4. /\ SentType' /\ sent'.samples = sent.samples + Chunk /\ sent'.frames = sent.frames + 1
          /\ sent'.steps = sent.steps
      BY <1>0, <2>1, <2>3 DEF SentType
    <2>5. InputType' /\ Wanted' = Wanted
      BY <1>0, <2>2 DEF InputType, Wanted, Sliced
    <2>6. FromFile'
      <3>1. sent'.samples = Chunk * sent'.frames
        <4>1. Chunk * (sent.frames + 1) = Chunk * sent.frames + Chunk
          BY <1>1, FeedNumbers, FeedConstants, WantedBound, Further
        <4> QED
          BY <1>0, <2>4, <4>1 DEF FromFile
      <3>2. sent'.frames <= Wanted'
        BY <1>1, <2>4, <2>5, FeedNumbers, WantedBound
      <3>3. sent.steps < MaxWait => sent.frames <= Warmup + sent.steps
        BY <1>0, <2>1 DEF FromFile
      <3>4. ASSUME sent'.steps < MaxWait
            PROVE  /\ sent'.frames <= Warmup + 1 + sent'.steps
                   /\ feed'.at \in Before \cup {"stream"} => sent'.frames <= Warmup + sent'.steps
        BY <2>1, <2>2, <2>4, <3>3, <3>4, FeedNumbers, FeedConstants DEF Before
      <3> QED
        BY <1>0, <3>1, <3>2, <3>4 DEF FromFile
    <2>7. Source'
      BY <1>0, <2>2, <2>6 DEF Source
    <2>8. FeedStages'
      BY <1>0, <2>1, <2>2, FeedConstants DEF FeedStages, Before, FromFile
    <2> QED
      BY <2>2, <2>4, <2>5, <2>7, <2>8 DEF FeedInv
  <1>2. CASE SendChunk /\ ~(sent.frames < Wanted)
    <2>1. feed' = [feed EXCEPT !.at = "summary"] /\ UNCHANGED sent
      BY <1>2 DEF SendChunk
    <2>2. feed' = [feed EXCEPT !.at = "summary", !.status = feed.status, !.printed = FALSE]
      BY <1>0, <2>1 DEF FeedType
    <2>3. sent.frames = Wanted
      BY <1>0, <1>2, FeedNumbers, WantedBound DEF FromFile
    <2>4. Complete
      BY <1>0, <2>3 DEF Complete, FromFile
    <2>5. feed.status \in {"none", "0", "1", "2", "130"} /\ ~(reading > 0) /\ "summary" \notin Before
      BY <1>0 DEF FeedType, FromFile, Before
    <2> QED
      BY <1>0, <2>1, <2>2, <2>4, <2>5, StageMoves
  <1>3. CASE Played
    <2>1. PICK k \in 1 .. 2 : sent' = [sent EXCEPT !.steps = Smaller(sent.steps + k, MaxWait)]
      BY <1>3 DEF Played
    <2> DEFINE steps == Smaller(sent.steps + k, MaxWait)
    <2>2. /\ steps \in 0 .. MaxWait
          /\ steps < MaxWait => sent.steps < MaxWait /\ sent.steps + 1 <= steps
      BY FeedNumbers, FeedConstants DEF Smaller
    <2>3. sent' = [sent EXCEPT !.steps = steps] /\ feed' = [feed EXCEPT !.at = "stream"]
      BY <1>3, <2>1 DEF Played
    <2> HIDE DEF steps
    <2>4. /\ FeedType' /\ feed'.at = "stream" /\ feed'.printed = feed.printed /\ feed'.source = feed.source
          /\ feed'.limit = feed.limit /\ feed'.limited = feed.limited
      BY <1>0, <2>3 DEF FeedType
    <2>5. /\ SentType' /\ sent'.samples = sent.samples /\ sent'.frames = sent.frames
          /\ sent'.steps = steps
      BY <1>0, <2>2, <2>3 DEF SentType
    <2>6. InputType' /\ Wanted' = Wanted
      BY <1>0, <2>4 DEF InputType, Wanted, Sliced
    <2>7. FromFile'
      <3>1. ASSUME steps < MaxWait
            PROVE  sent.frames <= Warmup + steps /\ sent.frames <= Warmup + 1 + steps
        <4>1. sent.frames <= Warmup + 1 + sent.steps
          BY <1>0, <2>2, <3>1 DEF FromFile
        <4> QED
          BY <2>2, <3>1, <4>1, FeedNumbers, FeedConstants
      <3> QED
        BY <1>0, <2>5, <2>6, <3>1 DEF FromFile
    <2>8. Source'
      BY <1>0, <2>4, <2>7 DEF Source
    <2>9. FeedStages'
      BY <1>0, <2>4 DEF FeedStages, Before, FromFile
    <2> QED
      BY <2>4, <2>5, <2>6, <2>8, <2>9 DEF FeedInv
  <1> QED
    BY <1>1, <1>2, <1>3

LEMMA ReadKeeps ==
  ASSUME FeedInv, StartRead \/ ReadReturns
  PROVE  FeedInv'
  <1>0. /\ FeedType /\ SentType /\ InputType /\ Source /\ FeedStages
        /\ feed.source = "-" /\ FromStandard
        /\ feed.at \in {"stream", "sleep", "leave"} /\ ~feed.printed
    BY FeedNumbers DEF FeedInv, Source, StartRead, ReadReturns, FeedStages, Before
  <1>00. feed.status \in {"none", "0", "1", "2", "130"} /\ "summary" \notin Before /\ "ended" \notin Before
    BY <1>0 DEF FeedType, Before
  <1>1. CASE StartRead /\ feed.limited /\ sent.samples >= feed.limit
    <2>1. /\ feed' = [feed EXCEPT !.at = "summary"] /\ UNCHANGED <<input, sent, reading>> /\ reading = 0
      BY <1>1 DEF StartRead
    <2>2. feed' = [feed EXCEPT !.at = "summary", !.status = feed.status, !.printed = FALSE]
      BY <1>0, <2>1 DEF FeedType
    <2>3. Complete
      BY <1>0, <1>1 DEF Complete
    <2>4. ~(reading > 0)
      BY <2>1
    <2> QED
      BY <1>0, <1>00, <2>1, <2>2, <2>3, <2>4, StageMoves
  <1>2. CASE StartRead /\ ~(feed.limited /\ sent.samples >= feed.limit)
    <2>1. /\ feed' = [feed EXCEPT !.at = "sleep"] /\ UNCHANGED <<input, sent>> /\ reading' = Asked
          /\ feed.at = "stream"
      BY <1>2 DEF StartRead
    <2>2. /\ Asked \in 0 .. Chunk
          /\ feed.limited => sent.samples + Asked <= feed.limit
      BY <1>0, <1>2, FeedNumbers, FeedConstants DEF Asked, Smaller
    <2>3. /\ FeedType' /\ feed'.at = "sleep" /\ feed'.printed = feed.printed /\ feed'.source = feed.source
          /\ feed'.limit = feed.limit /\ feed'.limited = feed.limited
      BY <1>0, <2>1 DEF FeedType
    <2>4. SentType' /\ InputType'
      BY <1>0, <2>1, <2>2 DEF SentType, InputType
    <2>5. FromStandard' /\ Source'
      BY <1>0, <2>1, <2>2, <2>3 DEF FromStandard, Source, Duration
    <2>6. FeedStages'
      BY <1>0, <2>3 DEF FeedStages, Before
    <2> QED
      BY <2>3, <2>4, <2>5, <2>6 DEF FeedInv
  <1>3. CASE ReadReturns /\ feed.at = "leave"
    <2>1. /\ feed' = [feed EXCEPT !.at = "ended", !.status = feed.status] /\ UNCHANGED <<input, sent>>
          /\ reading' = 0
      BY <1>3 DEF ReadReturns, FeedEnds
    <2>2. /\ FeedType' /\ feed'.at = "ended" /\ feed'.printed = feed.printed /\ feed'.source = feed.source
          /\ feed'.limit = feed.limit /\ feed'.limited = feed.limited
      BY <1>0, <2>1 DEF FeedType
    <2>3. SentType' /\ InputType'
      BY <1>0, <2>1, FeedConstants DEF SentType, InputType
    <2>4. FromStandard' /\ Source'
      BY <1>0, <2>1, <2>2 DEF FromStandard, Source, Duration
    <2>5. FeedStages'
      BY <1>0, <2>1, <2>2 DEF FeedStages, Before
    <2> QED
      BY <2>2, <2>3, <2>4, <2>5 DEF FeedInv
  <1>4. CASE ReadReturns /\ feed.at # "leave" /\ input - sent.samples < reading
    <2>1. /\ feed' = [feed EXCEPT !.at = "summary"] /\ UNCHANGED <<input, sent>> /\ reading' = 0
      BY <1>4 DEF ReadReturns
    <2>2. /\ FeedType' /\ feed'.at = "summary" /\ feed'.printed = feed.printed /\ feed'.source = feed.source
          /\ feed'.limit = feed.limit /\ feed'.limited = feed.limited
      BY <1>0, <2>1 DEF FeedType
    <2>3. SentType' /\ InputType'
      BY <1>0, <2>1, FeedConstants DEF SentType, InputType
    <2>4. FromStandard' /\ Source'
      BY <1>0, <2>1, <2>2 DEF FromStandard, Source, Duration
    <2>5. input < sent.samples + Chunk /\ (feed.limited => input < feed.limit)
      BY <1>0, <1>4, FeedNumbers, FeedConstants DEF ReadReturns, FromStandard
    <2>6. Complete'
      BY <1>0, <2>1, <2>2, <2>5 DEF Complete
    <2>7. FeedStages'
      BY <1>0, <2>1, <2>2, <2>6 DEF FeedStages, Before
    <2> QED
      BY <2>2, <2>3, <2>4, <2>7 DEF FeedInv
  <1>5. CASE ReadReturns /\ feed.at # "leave" /\ ~(input - sent.samples < reading)
    <2>1. /\ feed' = [feed EXCEPT !.at = "stream"] /\ input' = input /\ reading' = 0
          /\ sent' = [sent EXCEPT !.samples = sent.samples + reading, !.frames = sent.frames + 1]
          /\ reading > 0
      BY <1>5 DEF ReadReturns
    <2>2. /\ FeedType' /\ feed'.at = "stream" /\ feed'.printed = feed.printed /\ feed'.source = feed.source
          /\ feed'.limit = feed.limit /\ feed'.limited = feed.limited
      BY <1>0, <2>1 DEF FeedType
    <2>3. sent.samples + reading \in Nat /\ sent.frames + 1 \in Nat
      BY FeedNumbers
    <2>4. /\ SentType' /\ sent'.samples = sent.samples + reading /\ sent'.frames = sent.frames + 1
      BY <1>0, <2>1, <2>3 DEF SentType
    <2>5. InputType'
      BY <1>0, <2>1, FeedConstants DEF InputType
    <2>6. FromStandard'
      <3>1. sent'.frames <= sent'.samples /\ sent'.samples <= input'
        BY <1>0, <1>5, <2>1, <2>4, FeedNumbers DEF FromStandard
      <3>2. feed'.limited => sent'.samples <= feed'.limit
        BY <1>0, <2>1, <2>2, <2>4, FeedNumbers DEF FromStandard
      <3> QED
        BY <2>1, <3>1, <3>2 DEF FromStandard, Duration
    <2>7. Source' /\ FeedStages'
      BY <1>0, <2>1, <2>2, <2>6 DEF Source, FeedStages, Before
    <2> QED
      BY <2>2, <2>4, <2>5, <2>7 DEF FeedInv
  <1> QED
    BY <1>1, <1>2, <1>3, <1>4, <1>5

LEMMA FeedStep == FeedInv /\ [FeedNext]_feedVars => FeedInv'
  <1> SUFFICES ASSUME FeedInv, [FeedNext]_feedVars PROVE FeedInv'
    OBVIOUS
  <1>1. CASE FeedNext
    BY <1>1, RunKeeps, CallsKeep, FileKeeps, ReadKeeps DEF FeedNext
  <1>2. CASE UNCHANGED feedVars
    <2>1. UNCHANGED <<feed, input, sent, reading>>
      BY <1>2 DEF feedVars
    <2>2. Wanted' = Wanted
      BY <2>1 DEF Wanted, Sliced
    <2> QED
      BY <2>1, <2>2
      DEF FeedInv, FeedType, SentType, InputType, Source, FromFile, FromStandard, FeedStages, Complete,
          Duration
  <1> QED
    BY <1>1, <1>2

-----------------------------------------------------------------------------
(* The process.                                                            *)

StreamInv == RecorderInv /\ DriveInv /\ FeedInv

LEMMA StreamsKeep == StreamSpec => []StreamInv
  <1>1. StreamInit => StreamInv
    BY RecorderInitInv, DriveInitInv, FeedInitInv DEF StreamInit, StreamInv
  <1>2. StreamInv /\ [StreamNext]_streamVars => StreamInv'
    <2> SUFFICES ASSUME StreamInv, [StreamNext]_streamVars PROVE StreamInv'
      OBVIOUS
    <2>1. /\ [RecorderNext]_recorderVars
          /\ [DriveNext]_driveVars
          /\ [FeedNext]_feedVars
      BY DEF StreamNext, streamVars
    <2> QED
      BY <2>1, RecorderStep, DriveStep, FeedStep DEF StreamInv
  <1> QED
    BY <1>1, <1>2, PTL DEF StreamSpec

(* Every variable of the three commands keeps its type: the queue of the   *)
(* Drive stream is never longer than the keys that were pressed and one,   *)
(* the pacer is at most one period early and two stalls late.              *)
THEOREM StreamsTypeCorrect == StreamSpec => []StreamTypeOK
  <1>1. StreamInv => StreamTypeOK
    BY RecorderParts, DriveParts, FeedParts DEF StreamInv, StreamTypeOK
  <1> QED
    BY <1>1, StreamsKeep, PTL

(* video_pump, audio_pump, _paced_frames and the finally blocks of         *)
(* resoio record: whatever ends the recording, the size is known before    *)
(* anything is muxed, time stamps advance, and a path that is printed is   *)
(* that of a finished file.                                                *)
THEOREM FilesWellFormed == StreamSpec => []FileWellFormed
  <1>1. StreamInv => FileWellFormed
    BY RecorderParts DEF StreamInv
  <1> QED
    BY <1>1, StreamsKeep, PTL

(* _paced_frames: its producer has ended when the camera's channel closes, *)
(* and no backlog is made up for, however long encoding stalls.            *)
THEOREM PacerIsSound == StreamSpec => []PacerSound
  <1>1. StreamInv => PacerSound
    BY RecorderParts DEF StreamInv, PacerSound
  <1> QED
    BY <1>1, StreamsKeep, PTL

(* on_stdin and the send loop of resoio drive: no key stays unsent while   *)
(* the loop sleeps, no jump is sent twice, and status 0 means that all of  *)
(* it arrived.                                                             *)
THEOREM KeysAreSent == StreamSpec => []KeysSent
  <1>1. StreamInv => KeysSent
    BY DriveParts DEF StreamInv
  <1> QED
    BY <1>1, StreamsKeep, PTL

(* _iter_wav_chunks and _iter_stdin_chunks of resoio mic: a file is never  *)
(* ahead of its playing by more than the burst, and --duration and the     *)
(* input are used up to the chunk.                                         *)
THEOREM FeedIsSound == StreamSpec => []FeedSound
  <1>1. StreamInv => FeedSound
    BY FeedParts DEF StreamInv
  <1> QED
    BY <1>1, StreamsKeep, PTL

-----------------------------------------------------------------------------
(* Steps, and what holds of the steps of every command in their order.     *)

Do == {"call", "raise", "refuse", "print", "show", "open", "close", "file", "choose", "number",
       "host", "prompt", "await", "connect"}
(* The names of calls, and of the prompts.                                *)
Rpc ==
  {"", "grabber", "inventory", "AcceptRequest", "AddContact", "Apply", "ApplySettings",
   "BanUser", "Close", "Copy", "Dequip", "Equip", "FetchThumbnail", "Focus", "Get",
   "GetContact", "GetCurrent", "GetPosition", "GetServerInfo", "GetSettings", "GetState",
   "GetUserRoleOverrides", "Grab", "Highlight", "Invoke", "Join", "KickUser", "Leave",
   "List", "ListContacts", "ListControls", "ListOpenWorlds", "ListRecords", "ListRoles",
   "ListSessions", "ListTabs", "ListUsers", "Login", "Logout", "MakeDir", "Move", "Open",
   "Ping", "Release", "Remove", "RemoveContact", "RespawnUser", "Scroll", "SearchUsers",
   "SetPosition", "SetTab", "SetUserRole", "Shutdown", "SilenceUser", "Spawn",
   "StartWorld", "Status", "StreamFrames", "Unuse", "Use"}
SelectorType == [by : {"none", "index", "key"}, key : Key \cup {NoSelector.key}, at : Nat, all : BOOLEAN]
StepType == [do : Do, rpc : Rpc, effect : Effect, error : OnError, lacking : OnLack,
             selector : SelectorType]

(* Whatever refuses comes before the first call that changes an engine.    *)
RefusesFirst(q) ==
  \A i, j \in DOMAIN q : i <= j /\ q[j].do \in {"choose", "refuse"} => q[i].effect \notin Changing

(* A command with a prompt does nothing else, and prompts on a terminal.   *)
PromptsOnly(fmt, q) ==
  \A i, j \in DOMAIN q : q[i].do = "prompt" =>
    /\ fmt = "human" /\ q[i].rpc \in {"grabber", "inventory"}
    /\ q[j].do \notin {"choose", "refuse", "number", "show", "await"}
    /\ q[j].error \notin {"quiet", "dropped"} /\ q[j].effect # "act"

(* No call follows a try block whose errors are dropped.                   *)
DropsLast(q) ==
  \A i, k, j \in DOMAIN q :
    i <= k /\ k <= j /\ q[i].error = "dropped" /\ q[k].error # "dropped" => q[j].do \notin {"call", "prompt", "choose"}

(* The lines of a shell keep to the channel that is open.                  *)
LinesStay(q) ==
  \A i \in DOMAIN q : q[i].error \in {"line", "prompt"} => q[i].do \notin {"open", "connect", "close"}

(* Before a remark or a quiet end nothing is printed.                      *)
PrintsLast(q) ==
  \A i, j \in DOMAIN q : i <= j /\ (q[j].do = "show" \/ q[j].error = "quiet") =>
    q[i].do # "print" /\ (i < j => q[i].do # "show") /\ (q[j].error = "quiet" => q[j].do # "show")

(* With --format json no failure goes unnoticed.                           *)
JsonStrict(fmt, q) ==
  fmt = "json" => \A i \in DOMAIN q : q[i].error \in {"fails", "totp"} /\ q[i].do \notin {"show", "prompt"}

(* `ls` acts on nothing.                                                   *)
NumbersOnly(q) ==
  \A i, j \in DOMAIN q : q[i].do = "number" => q[j].effect # "act" /\ q[j].do # "choose"

(* wait makes no other call.                                               *)
AwaitsOnly(q) ==
  \A i, j \in DOMAIN q : q[i].do = "await" => q[j].do \notin {"call", "prompt", "choose"}

(* A choice is made from the listing just asked for, which but for the tabs*)
(* is that of the enabled controls.                                        *)
ChoosesListed(words, q) ==
  \A i \in DOMAIN q : q[i].do = "choose" /\ i # 1 =>
    /\ q[i - 1].do = "call" /\ q[i - 1].effect = "list"
    /\ q[i - 1].error = "fails" /\ q[i - 1].lacking = "never"
    /\ words = <<"dash", "tab">> \/ (q[i - 1].rpc = "ListControls" /\ ~q[i - 1].selector.all)

Opening == {"open", "connect", "await"}

(* A channel is closed before the next is opened.                          *)
OneChannel(q) ==
  \A i, j \in DOMAIN q : i < j /\ q[i].do = "open" /\ q[j].do \in Opening =>
    \E k \in DOMAIN q : i < k /\ k < j /\ q[k].do = "close"

Coherent(words, fmt, q) ==
  /\ q \in Seq(StepType)
  /\ RefusesFirst(q) /\ PromptsOnly(fmt, q) /\ DropsLast(q) /\ LinesStay(q)
  /\ PrintsLast(q) /\ JsonStrict(fmt, q)
  /\ NumbersOnly(q) /\ AwaitsOnly(q) /\ ChoosesListed(words, q) /\ OneChannel(q)

(* Each call is made through a channel; `on`: there is one to begin with.  *)
Inside(q, i, on) ==
  \/ on /\ \A k \in DOMAIN q : k < i => q[k].do # "close"
  \/ \E j \in DOMAIN q : /\ j < i /\ q[j].do \in {"open", "connect"}
                         /\ \A k \in DOMAIN q : j < k /\ k < i => q[k].do # "close"
Channelled(q, on) == \A i \in DOMAIN q : q[i].do \in {"call", "prompt", "choose"} => Inside(q, i, on)

(* The document is still to come, with nothing but the end of the channel  *)
(* after it; or it is refused; or the document is out.                     *)
ToCome(q) ==
  \E i \in DOMAIN q : /\ q[i].do = "print"
                      /\ \A j \in DOMAIN q : /\ j < i => q[j].do # "print"
                                             /\ i < j => q[j].do = "close"
DocumentDue(q, docs) ==
  \/ docs = 0 /\ ToCome(q)
  \/ docs = 0 /\ q # <<>> /\ q[1].do = "refuse"
  \/ docs = 1 /\ \A i \in DOMAIN q : q[i].do = "close"

-----------------------------------------------------------------------------
(* The process, for what it has yet to do.                                 *)

Process ==
  [words : Words, fmt : Format, inner : BOOLEAN, named : EngineRef, socket : EngineRef,
   to : EngineRef, probing : BOOLEAN, sending : BOOLEAN, lost : BOOLEAN, late : BOOLEAN,
   menu : {"", "grabber", "inventory"}, steps : Seq(StepType), listing : AnyListing,
   chosen : Items, meant : Refs, lacked : BOOLEAN, docs : 0 .. 2, sent : SUBSET Sent,
   status : Status]

Going(p) ==
  /\ Coherent(p.words, p.fmt, p.steps)
  /\ Channelled(p.steps, p.to # NoEngine)
Printing(p) ==
  /\ (\E i \in DOMAIN p.steps : p.steps[i].do = "show" \/ p.steps[i].error = "quiet") => p.docs = 0
  /\ p.fmt = "json" => DocumentDue(p.steps, p.docs)
Refusing(p) ==
  (\E s \in p.sent : s.effect \in Changing) =>
     \A i \in DOMAIN p.steps : p.steps[i].do \notin {"choose", "refuse"}
Numbering(p) ==
  (\E i \in DOMAIN p.steps : p.steps[i].do = "number") => p.meant = 0 /\ \A s \in p.sent : s.meant = 0
Calling(p) ==
  /\ p.sending => p.to \in Engine /\ ~p.probing /\ p.steps # <<>> /\ p.steps[1].do \in {"call", "await"}
  /\ p.probing => /\ p.to \in Engine
                  /\ \A i \in DOMAIN p.steps : p.steps[i].do \in Opening =>
                       \E k \in DOMAIN p.steps : k < i /\ p.steps[k].do = "close"
ListedAs(p, shown, items) ==
  p.steps # <<>> /\ p.steps[1].do = "choose" /\ shown.fresh /\ p.words # <<"dash", "tab">> =>
    p.listing = Enabled(items)

RunningInv(p) == Going(p) /\ Printing(p) /\ Refusing(p) /\ Numbering(p) /\ Calling(p)

EndedInv(p) == p.to = NoEngine /\ p.steps = <<>> /\ ~p.probing /\ ~p.sending

ProcInv(p) ==
  /\ p \in Process
  /\ p.status = "running" => RunningInv(p)
  /\ p.status # "running" => EndedInv(p)

(* The engine that is named is the one that is asked.                      *)
NamedInv(p) ==
  /\ p.inner /\ p.named # NoEngine => p.socket = p.named
  /\ p.socket # NoEngine => p.to \in {p.socket, NoEngine} /\ \A s \in p.sent : s.engine = p.socket

(* What the user read, chose and acted on.                                 *)
ListingInv(p, shown, items) ==
  /\ shown.fresh => shown.items \in {items, Enabled(items)}
  /\ ~shown.all => \A i \in DOMAIN shown.items : shown.items[i].enabled
  /\ p.meant # 0 /\ ~shown.all => p.chosen.ref = p.meant
  /\ \A s \in p.sent : s.meant # 0 /\ ~shown.all => s.ref = s.meant
  /\ p.status = "running" => ListedAs(p, shown, items)

Harmless(p) == p.status = "2" => \A s \in p.sent : s.effect \notin Changing
Documented(p) ==
  p.fmt = "json" => /\ p.status = "0" => p.docs = 1
                    /\ p.status \in {"1", "2"} => p.docs = 0

Sound(p, shown, items) ==
  ProcInv(p) /\ NamedInv(p) /\ ListingInv(p, shown, items) /\ Harmless(p) /\ Documented(p)

CommandInv ==
  /\ engine \in [Engine -> EngineState] /\ panel \in Panels /\ changes \in 0 .. MaxChange
  /\ seen \in [items : AnyListing, fresh : BOOLEAN, all : BOOLEAN]
  /\ Sound(proc, seen, panel)

-----------------------------------------------------------------------------
(* Calls.                                                                  *)

(* The selector of a step that selects nothing is one.                     *)
LEMMA SelectorIs == NoSelector \in SelectorType
  BY DEF NoSelector, SelectorType

(* A step as it is made is one.                                            *)
LEMMA StepIs == \A do \in Do : Step(do) \in StepType
  <1>1. "" \in Rpc /\ "none" \in Effect /\ "fails" \in OnError /\ "never" \in OnLack
    BY DEF Rpc, Effect, OnError, OnLack
  <1> QED
    BY <1>1, SelectorIs DEF Step, StepType

(* A call or an error of a client, whose failure ends the command.         *)
PlainStep == {s \in StepType : /\ s.do \in {"call", "raise"} /\ s.error \in {"fails", "totp"}
                               /\ s.effect # "act"}

(* What the methods of the clients are made of are plain steps.            *)
LEMMA Plain ==
  /\ Raise \in Seq(PlainStep) /\ <<>> \in Seq(PlainStep)
  /\ \A rpc \in Rpc : /\ \A e \in Effect \ {"act"} : Call(rpc, e) \in Seq(PlainStep)
                      /\ Read(rpc) \in Seq(PlainStep) /\ ReadMaybe(rpc) \in Seq(PlainStep)
                      /\ Write(rpc) \in Seq(PlainStep) /\ WriteFor(rpc) \in Seq(PlainStep)
  <1>1. Step("call") \in StepType /\ Step("raise") \in PlainStep
    BY StepIs DEF Do, PlainStep, Step
  <1>2. ASSUME NEW rpc \in Rpc, NEW e \in Effect
        PROVE  /\ [Step("call") EXCEPT !.rpc = rpc, !.effect = e] \in StepType
               /\ [Step("call") EXCEPT !.rpc = rpc, !.effect = e].do = "call"
               /\ [Step("call") EXCEPT !.rpc = rpc, !.effect = e].error = "fails"
               /\ [Step("call") EXCEPT !.rpc = rpc, !.effect = e].effect = e
    BY <1>1 DEF StepType, Step
  <1>3. ASSUME NEW rpc \in Rpc, NEW e \in Effect \ {"act"}
        PROVE  /\ Len(Call(rpc, e)) = 1 /\ Call(rpc, e)[1] \in PlainStep
               /\ \A l \in OnLack : [Call(rpc, e)[1] EXCEPT !.lacking = l] \in PlainStep
    <2>1. Call(rpc, e)[1] \in PlainStep
      BY <1>2, <1>3 DEF Call, PlainStep
    <2> QED
      BY <2>1 DEF Call, PlainStep, StepType
  <1>4. \A s \in PlainStep : <<s>> \in Seq(PlainStep)
    OBVIOUS
  <1>5. ASSUME NEW rpc \in Rpc, NEW e \in Effect \ {"act"} PROVE Call(rpc, e) \in Seq(PlainStep)
    BY <1>3, <1>4, <1>5 DEF Call
  <1>6. \A e \in {"none", "read", "write", "list", "press", "release"} : e \in Effect \ {"act"}
    BY DEF Effect
  <1> QED
    BY <1>1, <1>3, <1>4, <1>5, <1>6, EmptySeq DEF Raise, Read, Write, ReadMaybe, WriteFor, OnLack

(* One sequence of steps after another.                                    *)
LEMMA Joined ==
  ASSUME NEW a \in Seq(StepType), NEW c \in Seq(StepType)
  PROVE  /\ a \o c \in Seq(StepType) /\ Len(a \o c) = Len(a) + Len(c)
         /\ \A j \in 1 .. Len(a \o c) :
              \/ j \in 1 .. Len(a) /\ (a \o c)[j] = a[j]
              \/ \E i \in 1 .. Len(c) : j = Len(a) + i /\ (a \o c)[j] = c[i]
  <1>1. /\ a \o c \in Seq(StepType) /\ Len(a \o c) = Len(a) + Len(c)
        /\ Len(a) \in Nat /\ Len(c) \in Nat
        /\ \A j \in 1 .. Len(a) + Len(c) : (a \o c)[j] = IF j <= Len(a) THEN a[j] ELSE c[j - Len(a)]
    BY ConcatProperties
  <1>2. ASSUME NEW j \in 1 .. Len(a \o c), ~(j \in 1 .. Len(a))
        PROVE  \E i \in 1 .. Len(c) : j = Len(a) + i /\ (a \o c)[j] = c[i]
    <2>1. j \in 1 .. Len(a) + Len(c) /\ ~(j <= Len(a))
      BY <1>1, <1>2
    <2>2. j - Len(a) \in 1 .. Len(c) /\ j = Len(a) + (j - Len(a))
      BY <1>1, <1>2, <2>1
    <2>3. (a \o c)[j] = c[j - Len(a)]
      BY <1>1, <2>1
    <2> QED
      BY <2>2, <2>3
  <1> QED
    BY <1>1, <1>2

(* A sequence of one step.                                                 *)
LEMMA Single == \A s \in StepType : <<s>> \in Seq(StepType) /\ Len(<<s>>) = 1 /\ <<s>>[1] = s
  OBVIOUS

(* A body in its channel, and a tail.                                      *)
LEMMA WithinSteps ==
  ASSUME NEW b \in Seq(StepType), NEW t \in Seq(StepType)
  PROVE  /\ Within(b) \o t \in Seq(StepType) /\ Len(Within(b) \o t) = Len(b) + 2 + Len(t)
         /\ \A j \in 1 .. Len(Within(b) \o t) :
              \/ j = 1 /\ (Within(b) \o t)[j] = Step("open")
              \/ \E i \in 1 .. Len(b) : j = 1 + i /\ (Within(b) \o t)[j] = b[i]
              \/ j = Len(b) + 2 /\ (Within(b) \o t)[j] = Step("close")
              \/ \E i \in 1 .. Len(t) : j = Len(b) + 2 + i /\ (Within(b) \o t)[j] = t[i]
  <1> DEFINE o == <<Step("open")>>
             c == <<Step("close")>>
             ob == o \o b
             obc == ob \o c
             q == Within(b) \o t
  <1>1. o \in Seq(StepType) /\ c \in Seq(StepType) /\ Len(o) = 1 /\ Len(c) = 1
        /\ o[1] = Step("open") /\ c[1] = Step("close")
    BY StepIs, Single DEF Do
  <1>2. q = obc \o t
    BY DEF Within
  <1> HIDE DEF o, c, q
  <1>3. /\ o \o b \in Seq(StepType) /\ Len(o \o b) = Len(o) + Len(b)
        /\ \A j \in 1 .. Len(o \o b) :
             \/ j \in 1 .. Len(o) /\ (o \o b)[j] = o[j]
             \/ \E i \in 1 .. Len(b) : j = Len(o) + i /\ (o \o b)[j] = b[i]
    BY <1>1, Joined
  <1>30. ob \in Seq(StepType)
    BY <1>3
  <1> HIDE DEF ob
  <1>4. /\ ob \o c \in Seq(StepType) /\ Len(ob \o c) = Len(ob) + Len(c)
        /\ \A j \in 1 .. Len(ob \o c) :
             \/ j \in 1 .. Len(ob) /\ (ob \o c)[j] = ob[j]
             \/ \E i \in 1 .. Len(c) : j = Len(ob) + i /\ (ob \o c)[j] = c[i]
    BY <1>1, <1>30, Joined
  <1>40. obc \in Seq(StepType)
    BY <1>4
  <1> HIDE DEF obc
  <1>5. /\ q \in Seq(StepType) /\ Len(q) = Len(obc) + Len(t)
        /\ \A j \in 1 .. Len(q) : \/ j \in 1 .. Len(obc) /\ q[j] = obc[j]
                                  \/ \E i \in 1 .. Len(t) : j = Len(obc) + i /\ q[j] = t[i]
    <2>1. /\ obc \o t \in Seq(StepType) /\ Len(obc \o t) = Len(obc) + Len(t)
          /\ \A j \in 1 .. Len(obc \o t) : \/ j \in 1 .. Len(obc) /\ (obc \o t)[j] = obc[j]
                                  \/ \E i \in 1 .. Len(t) : j = Len(obc) + i /\ (obc \o t)[j] = t[i]
      BY <1>40, Joined
    <2> QED
      BY <1>2, <2>1
  <1>6. Len(b) \in Nat /\ Len(t) \in Nat /\ Len(ob) = Len(b) + 1 /\ Len(obc) = Len(b) + 2
        /\ Len(q) = Len(b) + 2 + Len(t)
    BY <1>1, <1>3, <1>4, <1>5 DEF ob, obc
  <1>7. ASSUME NEW j \in 1 .. Len(ob)
        PROVE  \/ j = 1 /\ ob[j] = Step("open")
               \/ \E i \in 1 .. Len(b) : j = 1 + i /\ ob[j] = b[i]
    <2>1. \/ j \in 1 .. Len(o) /\ ob[j] = o[j]
          \/ \E i \in 1 .. Len(b) : j = Len(o) + i /\ ob[j] = b[i]
      BY <1>3 DEF ob
    <2> QED
      BY <1>1, <2>1
  <1>8. ASSUME NEW j \in 1 .. Len(obc)
        PROVE  \/ j = 1 /\ obc[j] = Step("open")
               \/ \E i \in 1 .. Len(b) : j = 1 + i /\ obc[j] = b[i]
               \/ j = Len(b) + 2 /\ obc[j] = Step("close")
    <2>1. CASE j \in 1 .. Len(ob) /\ obc[j] = ob[j]
      BY <1>7, <2>1
    <2>2. CASE \E i \in 1 .. Len(c) : j = Len(ob) + i /\ obc[j] = c[i]
      BY <1>1, <1>6, <2>2
    <2> QED
      BY <1>4, <2>1, <2>2 DEF obc
  <1>9. ASSUME NEW j \in 1 .. Len(q)
        PROVE  \/ j = 1 /\ q[j] = Step("open")
               \/ \E i \in 1 .. Len(b) : j = 1 + i /\ q[j] = b[i]
               \/ j = Len(b) + 2 /\ q[j] = Step("close")
               \/ \E i \in 1 .. Len(t) : j = Len(b) + 2 + i /\ q[j] = t[i]
    <2>1. CASE j \in 1 .. Len(obc) /\ q[j] = obc[j]
      BY <1>8, <2>1
    <2>2. CASE \E i \in 1 .. Len(t) : j = Len(obc) + i /\ q[j] = t[i]
      BY <1>6, <2>2
    <2> QED
      BY <1>5, <2>1, <2>2
  <1> QED
    BY <1>5, <1>6, <1>9 DEF q

-----------------------------------------------------------------------------
(* Commands that make plain calls in one channel.                          *)

(* What may follow the channel.                                            *)
Tails == {<<>>, Emit, Show, <<Step("file")>> \o Emit, <<Step("number")>> \o Emit}

(* What is due of the steps of a command when it starts.                   *)
StepsOK(words, fmt, q) == Coherent(words, fmt, q) /\ Channelled(q, FALSE)
CommandOK(words, fmt, q) ==
  StepsOK(words, fmt, q) /\ (fmt = "json" => DocumentDue(q, 0))

(* The fields of a step as it is made.                                     *)
LEMMA StepFields ==
  \A do \in Do : /\ Step(do).do = do /\ Step(do).error = "fails" /\ Step(do).effect = "none"
                 /\ Step(do).lacking = "never" /\ Step(do).rpc = ""
  BY DEF Step

(* The two ends of a channel.                                              *)
LEMMA Ends ==
  /\ Step("open").do = "open" /\ Step("close").do = "close"
  /\ Step("open").error = "fails" /\ Step("close").error = "fails"
  /\ Step("open").effect = "none" /\ Step("close").effect = "none"
  BY DEF Step

(* What follows a channel prints or shows last of all.                     *)
LEMMA TailIs ==
  ASSUME NEW t \in Tails
  PROVE  /\ t \in Seq(StepType)
         /\ \A i \in 1 .. Len(t) :
              /\ t[i].do \in {"print", "show", "file", "number"}
              /\ t[i].error = "fails" /\ t[i].effect = "none"
              /\ t[i].do \in {"print", "show"} <=> i = Len(t)
              /\ t[i].do = "show" => t = Show
  <1>1. /\ Step("print") \in StepType /\ Step("show") \in StepType /\ Step("file") \in StepType
        /\ Step("number") \in StepType
    BY StepIs DEF Do
  <1>2. \A do \in Do : Step(do).do = do /\ Step(do).error = "fails" /\ Step(do).effect = "none"
    BY DEF Step
  <1>3. \A do \in {"file", "number"} :
          /\ <<Step(do)>> \o Emit \in Seq(StepType) /\ Len(<<Step(do)>> \o Emit) = 2
          /\ (<<Step(do)>> \o Emit)[1] = Step(do) /\ (<<Step(do)>> \o Emit)[2] = Step("print")
    BY <1>1 DEF Emit
  <1>4. CASE t = <<>>
    BY <1>4
  <1>5. CASE t = Emit
    BY <1>1, <1>2, <1>5 DEF Emit, Do
  <1>6. CASE t = Show
    BY <1>1, <1>2, <1>6 DEF Show, Do
  <1>7. ASSUME NEW do \in {"file", "number"}, t = <<Step(do)>> \o Emit
        PROVE  /\ t \in Seq(StepType)
               /\ \A i \in 1 .. Len(t) :
                    /\ t[i].do \in {"print", "show", "file", "number"}
                    /\ t[i].error = "fails" /\ t[i].effect = "none"
                    /\ t[i].do \in {"print", "show"} <=> i = Len(t)
                    /\ t[i].do = "show" => t = Show
    BY <1>2, <1>3, <1>7 DEF Do
  <1> QED
    BY <1>4, <1>5, <1>6, <1>7 DEF Tails

(* The steps of such a command by their places; m: where its channel is    *)
(* closed.                                                                 *)
PlainShape(q, m) ==
  /\ q \in Seq(StepType) /\ m \in 2 .. Len(q)
  /\ q[1] = Step("open") /\ q[m] = Step("close")
  /\ \A j \in 1 .. Len(q) : 1 < j /\ j < m => q[j] \in PlainStep
  /\ \A j \in 1 .. Len(q) : m < j =>
       /\ q[j].do \in {"print", "show", "file", "number"}
       /\ q[j].error = "fails" /\ q[j].effect = "none"
       /\ q[j].do \in {"print", "show"} <=> j = Len(q)

(* A plain command in its channel, and what follows it, is of that shape.  *)
LEMMA PlainHasShape ==
  ASSUME NEW b \in Seq(PlainStep), NEW t \in Tails
  PROVE  /\ PlainShape(Within(b) \o t, Len(b) + 2)
         /\ Len(Within(b) \o t) = Len(b) + 2 + Len(t)
         /\ t # Show => \A j \in 1 .. Len(Within(b) \o t) : (Within(b) \o t)[j].do # "show"
  <1> DEFINE q == Within(b) \o t
  <1>1. b \in Seq(StepType) /\ \A i \in 1 .. Len(b) : b[i] \in PlainStep
    BY DEF PlainStep
  <1>2. /\ q \in Seq(StepType) /\ Len(q) = Len(b) + 2 + Len(t)
        /\ \A j \in 1 .. Len(q) :
             \/ j = 1 /\ q[j] = Step("open")
             \/ \E i \in 1 .. Len(b) : j = 1 + i /\ q[j] = b[i]
             \/ j = Len(b) + 2 /\ q[j] = Step("close")
             \/ \E i \in 1 .. Len(t) : j = Len(b) + 2 + i /\ q[j] = t[i]
    BY <1>1, TailIs, WithinSteps
  <1> HIDE DEF q
  <1>3. PICK m \in Nat, n \in Nat, k \in Nat : m = Len(b) + 2 /\ n = Len(q) /\ k = Len(t)
    BY <1>2, TailIs
  <1>30. 1 \in 1 .. n /\ m \in 1 .. n /\ 1 # m /\ n = m + k /\ Len(b) \in Nat
    BY <1>2, <1>3
  <1>4. m \in 2 .. n /\ q[1] = Step("open") /\ q[m] = Step("close")
    <2>1. q[1] = Step("open")
      BY <1>2, <1>3, <1>30
    <2>2. q[m] = Step("close")
      BY <1>2, <1>3, <1>30
    <2> QED
      BY <1>3, <1>30, <2>1, <2>2
  <1>5. ASSUME NEW j \in 1 .. n, 1 < j, j < m PROVE q[j] \in PlainStep
    <2>1. \E i \in 1 .. Len(b) : j = 1 + i /\ q[j] = b[i]
      BY <1>2, <1>3, <1>30, <1>5
    <2> QED
      BY <1>1, <2>1
  <1>6. ASSUME NEW j \in 1 .. n, m < j
        PROVE  \E i \in 1 .. k : j = m + i /\ q[j] = t[i]
    BY <1>2, <1>3, <1>30, <1>6
  <1>7. ASSUME NEW j \in 1 .. n, m < j
        PROVE  /\ q[j].do \in {"print", "show", "file", "number"}
               /\ q[j].error = "fails" /\ q[j].effect = "none"
               /\ q[j].do \in {"print", "show"} <=> j = n
               /\ q[j].do = "show" => t = Show
    <2>1. PICK i \in 1 .. k : j = m + i /\ q[j] = t[i]
      BY <1>6, <1>7
    <2>2. i = k <=> j = n
      BY <1>30, <2>1
    <2> QED
      BY <1>3, <2>1, <2>2, TailIs
  <1>8. ASSUME t # Show, NEW j \in 1 .. n PROVE q[j].do # "show"
    <2>1. CASE j = 1 \/ j = m
      BY <1>4, <2>1, Ends
    <2>2. CASE 1 < j /\ j < m
      BY <1>5, <2>2 DEF PlainStep
    <2>3. CASE m < j
      BY <1>7, <1>8, <2>3
    <2> QED
      BY <1>30, <2>1, <2>2, <2>3
  <1>9. PlainShape(q, m)
    BY <1>2, <1>3, <1>4, <1>5, <1>7 DEF PlainShape
  <1> QED
    BY <1>2, <1>3, <1>8, <1>9 DEF q

(* A command of that shape is coherent, and makes its calls in its         *)
(* channel.                                                                *)
LEMMA PlainCoherent ==
  ASSUME NEW words, NEW fmt \in Format, NEW q, NEW m, PlainShape(q, m),
         fmt = "human" \/ \A j \in 1 .. Len(q) : q[j].do # "show"
  PROVE  StepsOK(words, fmt, q)
  <1>1. q \in Seq(StepType) /\ m \in Nat /\ 2 <= m /\ m <= Len(q) /\ Len(q) \in Nat /\ DOMAIN q = 1 .. Len(q)
    BY DEF PlainShape
  <1>2. /\ q[1].do = "open" /\ q[1].error = "fails" /\ q[1].effect = "none"
        /\ q[m].do = "close" /\ q[m].error = "fails" /\ q[m].effect = "none"
    BY Ends DEF PlainShape
  <1>3. \A j \in DOMAIN q : 1 < j /\ j < m =>
          q[j].do \in {"call", "raise"} /\ q[j].error \in {"fails", "totp"} /\ q[j].effect # "act"
    BY <1>1 DEF PlainShape, PlainStep
  <1>4. \A j \in DOMAIN q : m < j =>
          /\ q[j].do \in {"print", "show", "file", "number"}
          /\ q[j].error = "fails" /\ q[j].effect = "none"
          /\ q[j].do \in {"print", "show"} <=> j = Len(q)
    BY <1>1 DEF PlainShape
  <1>5. \A j \in DOMAIN q : j = 1 \/ (1 < j /\ j < m) \/ j = m \/ m < j
    BY <1>1
  <1>6. /\ \A j \in DOMAIN q : /\ q[j].do \notin {"choose", "refuse", "prompt", "await", "connect", "host"}
                               /\ q[j].error \in {"fails", "totp"} /\ q[j].effect # "act"
                               /\ q[j].do = "open" => j = 1
                               /\ q[j].do = "close" => j = m
                               /\ q[j].do = "call" => 1 < j /\ j < m
                               /\ q[j].do \in {"print", "show"} => j = Len(q)
    BY <1>1, <1>2, <1>3, <1>4, <1>5
  <1>7. RefusesFirst(q) /\ PromptsOnly(fmt, q) /\ DropsLast(q) /\ LinesStay(q)
    BY <1>6 DEF RefusesFirst, PromptsOnly, DropsLast, LinesStay
  <1>8. PrintsLast(q)
    BY <1>1, <1>6 DEF PrintsLast
  <1>9. JsonStrict(fmt, q)
    BY <1>1, <1>6 DEF JsonStrict, Format
  <1>10. NumbersOnly(q) /\ AwaitsOnly(q) /\ ChoosesListed(words, q) /\ OneChannel(q)
    BY <1>1, <1>6 DEF NumbersOnly, AwaitsOnly, ChoosesListed, OneChannel, Opening
  <1>11. ASSUME NEW i \in DOMAIN q, q[i].do \in {"call", "prompt", "choose"} PROVE Inside(q, i, FALSE)
    <2>1. 1 \in DOMAIN q /\ 1 < i /\ i < m /\ q[1].do = "open"
      BY <1>1, <1>2, <1>6, <1>11
    <2>2. \A k \in DOMAIN q : 1 < k /\ k < i => q[k].do # "close"
      BY <1>1, <1>6, <2>1
    <2> QED
      BY <2>1, <2>2 DEF Inside
  <1> QED
    BY <1>1, <1>7, <1>8, <1>9, <1>10, <1>11 DEF StepsOK, Coherent, Channelled

(* The commands that print their result at the end.                        *)
LEMMA PlainCommand ==
  ASSUME NEW words, NEW fmt \in Format, NEW b \in Seq(PlainStep), NEW t \in Tails,
         fmt = "json" => t \notin {<<>>, Show}
  PROVE  CommandOK(words, fmt, Within(b) \o t)
  <1> DEFINE q == Within(b) \o t
             m == Len(b) + 2
  <1>1. PlainShape(q, m) /\ Len(q) = m + Len(t) /\ Len(t) \in Nat /\ m \in Nat
    BY PlainHasShape, TailIs
  <1>2. fmt = "human" \/ \A j \in 1 .. Len(q) : q[j].do # "show"
    BY PlainHasShape DEF Format
  <1>3. t # <<>> => 0 < Len(t)
    BY TailIs, EmptySeq
  <1> HIDE DEF q, m
  <1>4. StepsOK(words, fmt, q)
    BY <1>1, <1>2, PlainCoherent
  <1>5. ASSUME fmt = "json" PROVE DocumentDue(q, 0)
    <2>1. m < Len(q) /\ Len(q) \in 1 .. Len(q) /\ DOMAIN q = 1 .. Len(q)
      BY <1>1, <1>3, <1>5 DEF PlainShape
    <2>2. q[Len(q)].do = "print"
      BY <1>1, <1>2, <1>5, <2>1 DEF PlainShape
    <2>3. ASSUME NEW j \in DOMAIN q PROVE j < Len(q) => q[j].do # "print"
      <3>1. CASE j = 1 \/ j = m
        BY <1>1, <2>1, <3>1, Ends DEF PlainShape
      <3>2. CASE 1 < j /\ j < m
        BY <1>1, <2>1, <3>2 DEF PlainShape, PlainStep
      <3>3. CASE m < j
        BY <1>1, <2>1, <3>3 DEF PlainShape
      <3> QED
        BY <1>1, <2>1, <3>1, <3>2, <3>3
    <2>4. ToCome(q)
      BY <1>1, <2>1, <2>2, <2>3 DEF ToCome
    <2> QED
      BY <2>4 DEF DocumentDue
  <1> QED
    BY <1>4, <1>5 DEF CommandOK, q

-----------------------------------------------------------------------------
(* The table, family by family.  What most commands do is fine under any   *)
(* words.                                                                  *)

(* Under any words; every command of a family.                             *)
Good(fmt, q) == \A words : CommandOK(words, fmt, q)
AllGood(commands) == \A c \in commands : c.fmt \in Format /\ CommandOK(c.words, c.fmt, c.steps)

(* A command that is good under any words is good under its own.           *)
LEMMA Made ==
  ASSUME NEW words, NEW fmt \in Format, NEW q, Good(fmt, q)
  PROVE  AllGood({Command(words, fmt, q)})
  BY DEF Good, AllGood, Command

(* Two families that are good are good together.                           *)
LEMMA GoodUnion ==
  \A A, B : AllGood(A) /\ AllGood(B) => AllGood(A \cup B)
  BY DEF AllGood

(* The commands that make plain calls, in each of their forms.             *)
LEMMA PlainGood ==
  ASSUME NEW fmt \in Format, NEW b \in Seq(PlainStep)
  PROVE  /\ Good(fmt, Simple(b))
         /\ fmt = "human" => Good(fmt, Within(b)) /\ Good(fmt, Within(b) \o Show)
         /\ Good(fmt, Within(b) \o IfJson(fmt, Emit))
         /\ Good(fmt, Within(b) \o <<Step("file")>> \o Emit)
         /\ Good(fmt, Within(b) \o <<Step("number")>> \o Emit)
  <1>1. <<>> \in Tails /\ Emit \in Tails /\ Show \in Tails
        /\ \A do \in {"file", "number"} : <<Step(do)>> \o Emit \in Tails
    BY DEF Tails
  <1>2. Len(<<>>) = 0 /\ Len(Emit) = 1 /\ Len(Show) = 1 /\ Len(<<Step("file")>> \o Emit) = 2
        /\ Len(<<Step("number")>> \o Emit) = 2
    BY DEF Emit, Show
  <1>3. Emit[1].do = "print" /\ Show[1].do = "show"
    BY DEF Emit, Show, Step
  <1>4. Emit \notin {<<>>, Show} /\ \A do \in {"file", "number"} : <<Step(do)>> \o Emit \notin {<<>>, Show}
    BY <1>2, <1>3
  <1>5. b \in Seq(StepType) /\ Within(b) \in Seq(StepType) /\ Emit \in Seq(StepType)
        /\ \A do \in {"file", "number"} : <<Step(do)>> \in Seq(StepType)
    BY <1>1, TailIs, StepIs DEF PlainStep, Within, Do
  <1>6. Within(b) \o <<>> = Within(b)
    BY <1>5, ConcatEmptySeq
  <1>7. \A do \in {"file", "number"} :
          Within(b) \o <<Step(do)>> \o Emit = Within(b) \o (<<Step(do)>> \o Emit)
    BY <1>5, ConcatAssociative
  <1>8. \A t \in Tails : (fmt = "json" => t \notin {<<>>, Show}) => Good(fmt, Within(b) \o t)
    BY PlainCommand DEF Good
  <1>9. Good(fmt, Within(b) \o Emit)
    BY <1>1, <1>4, <1>8
  <1>10. fmt = "human" => Good(fmt, Within(b) \o <<>>) /\ Good(fmt, Within(b) \o Show)
    BY <1>1, <1>8
  <1>11. \A do \in {"file", "number"} : Good(fmt, Within(b) \o (<<Step(do)>> \o Emit))
    BY <1>1, <1>4, <1>8
  <1> QED
    BY <1>6, <1>7, <1>9, <1>10, <1>11 DEF Simple, IfJson, Format

(* A refusal of the arguments, before anything is sent.                    *)
LEMMA RefuseGood == \A fmt \in Format : Good(fmt, Refuse)
  <1>1. /\ Refuse \in Seq(StepType) /\ Len(Refuse) = 1 /\ Refuse[1].do = "refuse"
        /\ Refuse[1].error = "fails" /\ Refuse[1].effect = "none" /\ Refuse # <<>>
    <2>1. /\ Step("refuse") \in StepType /\ Step("refuse").do = "refuse"
          /\ Step("refuse").error = "fails" /\ Step("refuse").effect = "none"
      BY StepIs, StepFields DEF Do
    <2>2. <<Step("refuse")>> # <<>>
      OBVIOUS
    <2> QED
      BY <2>1, <2>2, Single DEF Refuse
  <1>2. DOMAIN Refuse = {1}
    BY <1>1
  <1>3. Changing = {"write", "act", "press", "release"}
    BY DEF Changing
  <1> QED
    BY <1>1, <1>2, <1>3 DEF Good, CommandOK, StepsOK, Coherent, RefusesFirst, PromptsOnly, DropsLast, LinesStay,
       PrintsLast, JsonStrict, NumbersOnly, AwaitsOnly, ChoosesListed, OneChannel, Channelled, DocumentDue

(* The commands of `world`.                                                *)
LEMMA WorldGood == \A fmt \in Format : AllGood(WorldCommands(fmt))
  <1> SUFFICES ASSUME NEW fmt \in Format PROVE AllGood(WorldCommands(fmt))
    OBVIOUS
  <1>1. "human" \in Format
    BY DEF Format
  <1>2. /\ WorldClient.list_sessions \in Seq(PlainStep) /\ WorldClient.list_records \in Seq(PlainStep)
        /\ WorldClient.fetch_thumbnail \in Seq(PlainStep) /\ WorldClient.start_world \in Seq(PlainStep)
        /\ WorldClient.list_open_worlds \in Seq(PlainStep) /\ WorldClient.focus \in Seq(PlainStep)
        /\ WorldClient.leave \in Seq(PlainStep) /\ WorldClient.get_current \in Seq(PlainStep)
        /\ \A a, b : Join(a, b) \in Seq(PlainStep)
    <2>1. /\ WorldClient.list_sessions = Read("ListSessions") /\ WorldClient.list_records = Read("ListRecords")
          /\ WorldClient.fetch_thumbnail = Read("FetchThumbnail") /\ WorldClient.start_world = WriteFor("StartWorld")
          /\ WorldClient.list_open_worlds = Read("ListOpenWorlds") /\ WorldClient.focus = WriteFor("Focus")
          /\ WorldClient.leave = Write("Leave") /\ WorldClient.get_current = ReadMaybe("GetCurrent")
      BY DEF WorldClient
    <2>2. ASSUME NEW a, NEW b PROVE Join(a, b) \in {Raise, WriteFor("Join")}
      <3>1. CASE (a = "given") = (b = "given")
        BY <3>1 DEF Join
      <3>2. CASE ~((a = "given") = (b = "given"))
        BY <3>2 DEF Join
      <3> QED
        BY <3>1, <3>2
    <2>3. \A a, b : Join(a, b) \in Seq(PlainStep)
      BY <2>2, Plain DEF Rpc
    <2> QED
      BY <2>1, <2>3, Plain DEF Rpc
  <1>3. Good(fmt, RunSessions) /\ Good(fmt, RunRecords) /\ Good(fmt, RunStart) /\ Good(fmt, RunList)
        /\ Good(fmt, RunFocus) /\ Good(fmt, RunLeave(fmt)) /\ \A a, b : Good(fmt, RunJoin(a, b))
    BY <1>2, PlainGood DEF RunSessions, RunRecords, RunStart, RunList, RunFocus, RunLeave, RunJoin
  <1>4. Good(fmt, RunCurrent(fmt))
    BY <1>2, PlainGood DEF RunCurrent, Format, Simple
  <1>5. \A o \in {"-", "path"} : Good("human", RunThumbnail(o))
    <2>1. Within(WorldClient.fetch_thumbnail) \o <<>> = Within(WorldClient.fetch_thumbnail)
      BY <1>2
    <2> QED
      BY <1>1, <1>2, <2>1, PlainGood DEF RunThumbnail, Simple
  <1>6. AllGood(WorldBrowse(fmt))
    BY <1>1, <1>3, <1>5 DEF WorldBrowse, AllGood, Good, Command
  <1>7. AllGood(WorldManage(fmt))
    BY <1>3, <1>4 DEF WorldManage, AllGood, Good, Command
  <1> QED
    BY <1>6, <1>7, GoodUnion DEF WorldCommands

(* Plain steps after plain steps.                                          *)
LEMMA PlainJoined == \A a, b \in Seq(PlainStep) : a \o b \in Seq(PlainStep)
  OBVIOUS

(* The commands of `session`.                                              *)
LEMMA SessionGood == \A fmt \in Format : AllGood(SessionCommands(fmt))
  <1> SUFFICES ASSUME NEW fmt \in Format PROVE AllGood(SessionCommands(fmt))
    OBVIOUS
  <1>1. "human" \in Format
    BY DEF Format
  <1>2. /\ SessionSettings.get \in Seq(PlainStep) /\ SessionSettings.apply \in Seq(PlainStep)
        /\ SessionSettings.list_users \in Seq(PlainStep) /\ SessionSettings.list_roles \in Seq(PlainStep)
        /\ SessionSettings.overrides \in Seq(PlainStep)
    <2>1. /\ SessionSettings.get = Read("GetSettings") /\ SessionSettings.apply = Write("ApplySettings")
          /\ SessionSettings.list_users = Read("ListUsers") /\ SessionSettings.list_roles = Read("ListRoles")
          /\ SessionSettings.overrides = Read("GetUserRoleOverrides")
      BY DEF SessionSettings
    <2> QED
      BY <2>1, Plain DEF Rpc
  <1>3. /\ SessionModeration.kick \in Seq(PlainStep) /\ SessionModeration.ban \in Seq(PlainStep)
        /\ SessionModeration.silence \in Seq(PlainStep) /\ SessionModeration.respawn \in Seq(PlainStep)
        /\ SessionModeration.role \in Seq(PlainStep)
    <2>1. /\ SessionModeration.kick = Write("KickUser") /\ SessionModeration.ban = Write("BanUser")
          /\ SessionModeration.silence = WriteFor("SilenceUser")
          /\ SessionModeration.respawn = Write("RespawnUser") /\ SessionModeration.role = WriteFor("SetUserRole")
      BY DEF SessionModeration
    <2> QED
      BY <2>1, Plain DEF Rpc
  <1>4. SessionSettings.apply \o SessionSettings.get \in Seq(PlainStep)
    BY <1>2, PlainJoined
  <1>5. \A n \in 0 .. 1 : Good(fmt, RunSettingsSet(n))
    BY <1>4, PlainGood, RefuseGood DEF RunSettingsSet
  <1>6. AllGood(SettingsCommands(fmt))
    <2>1. Good(fmt, RunSettingsGet)
      BY <1>2, PlainGood DEF RunSettingsGet
    <2> QED
      BY <1>5, <2>1 DEF SettingsCommands, AllGood, Good, Command
  <1>7. AllGood(UserCommands(fmt))
    <2>1. Good("human", RunUserKick) /\ Good("human", RunUserBan) /\ Good("human", RunUserRespawn)
      BY <1>1, <1>3, PlainGood DEF RunUserKick, RunUserBan, RunUserRespawn
    <2>2. Good(fmt, RunUserSilence) /\ Good(fmt, RunUserRole)
      BY <1>3, PlainGood DEF RunUserSilence, RunUserRole
    <2> QED
      BY <1>1, <2>1, <2>2 DEF UserCommands, AllGood, Good, Command
  <1>8. AllGood(RoleCommands(fmt))
    <2>1. Good(fmt, RunRolesList) /\ Good(fmt, RunOverridesList)
      BY <1>2, PlainGood DEF RunRolesList, RunOverridesList
    <2> QED
      BY <2>1 DEF RoleCommands, AllGood, Good, Command
  <1>9. AllGood({Command(<<"session", "users", "list">>, fmt, RunUsersList)})
    BY <1>2, PlainGood, Made DEF RunUsersList
  <1> QED
    BY <1>6, <1>7, <1>8, <1>9, GoodUnion DEF SessionCommands

(* The commands of `display`.                                              *)
LEMMA DisplayGood == \A fmt \in Format : AllGood(DisplayCommands(fmt))
  <1> SUFFICES ASSUME NEW fmt \in Format PROVE AllGood(DisplayCommands(fmt))
    OBVIOUS
  <1>1. DisplayClient.apply \in Seq(PlainStep) /\ DisplayClient.get \in Seq(PlainStep)
    <2>1. DisplayClient.apply = Write("Apply") /\ DisplayClient.get = Read("Get")
      BY DEF DisplayClient
    <2> QED
      BY <2>1, Plain DEF Rpc
  <1>2. DisplayClient.apply \o DisplayClient.get \in Seq(PlainStep)
    BY <1>1, PlainJoined
  <1>3. Good(fmt, RunDisplayGet) /\ \A fields : Good(fmt, RunDisplaySet(fields))
    BY <1>1, <1>2, PlainGood, RefuseGood DEF RunDisplayGet, RunDisplaySet
  <1> DEFINE do(spec, flags) == IF spec = "malformed" THEN Refuse
                                ELSE RunDisplaySet(flags \cup ({spec} \ {"none"}))
  <1>4. \A spec, flags : Good(fmt, do(spec, flags))
    BY <1>3, RefuseGood
  <1>5. DisplayCommands(fmt) =
          {Command(<<"display", "get">>, fmt, RunDisplayGet)}
          \cup {Command(<<"display", "set">>, fmt, do(spec, flags)) :
                  spec \in DisplaySetSpecs, flags \in {{}, {"max_fps"}}}
    BY DEF DisplayCommands
  <1> HIDE DEF do
  <1> QED
    BY <1>3, <1>4, <1>5 DEF AllGood, Good, Command

(* The commands of `cursor`.                                               *)
LEMMA CursorGood == \A fmt \in Format : AllGood(CursorCommands(fmt))
  <1> SUFFICES ASSUME NEW fmt \in Format PROVE AllGood(CursorCommands(fmt))
    OBVIOUS
  <1>1. /\ CursorClient.set_position \in Seq(PlainStep) /\ CursorClient.get_position \in Seq(PlainStep)
        /\ CursorClient.release \in Seq(PlainStep)
    <2>1. /\ CursorClient.set_position = Write("SetPosition")
          /\ CursorClient.get_position = Read("GetPosition") /\ CursorClient.release = Write("Release")
      BY DEF CursorClient
    <2> QED
      BY <2>1, Plain DEF Rpc
  <1>2. /\ \A inside : Good(fmt, RunCursorSet(inside))
        /\ Good(fmt, RunCursorCenter) /\ Good(fmt, Simple(CursorClient.get_position))
        /\ Good(fmt, Simple(CursorClient.release))
    BY <1>1, PlainGood, RefuseGood DEF RunCursorSet, RunCursorCenter
  <1> QED
    BY <1>2 DEF CursorCommands, AllGood, Good, Command

(* The commands of `context-menu`.                                         *)
LEMMA ContextMenuGood == \A fmt \in Format : AllGood(ContextMenuCommands(fmt))
  <1> SUFFICES ASSUME NEW fmt \in Format PROVE AllGood(ContextMenuCommands(fmt))
    OBVIOUS
  <1>1. /\ ContextMenuClient.open \in Seq(PlainStep) /\ ContextMenuClient.close \in Seq(PlainStep)
        /\ ContextMenuClient.get_state \in Seq(PlainStep)
        /\ \A verb \in {"highlight", "invoke"} : ContextMenuClient[verb] \in Seq(PlainStep)
    <2>1. /\ ContextMenuClient.open = Write("Open") /\ ContextMenuClient.close = Write("Close")
          /\ ContextMenuClient.get_state = Read("GetState")
          /\ ContextMenuClient["highlight"] = Write("Highlight") /\ ContextMenuClient["invoke"] = Write("Invoke")
      BY DEF ContextMenuClient
    <2> QED
      BY <2>1, Plain DEF Rpc
  <1>2. /\ Good(fmt, Simple(ContextMenuClient.open)) /\ Good(fmt, Simple(ContextMenuClient.close))
        /\ Good(fmt, Simple(ContextMenuClient.get_state))
        /\ \A verb \in {"highlight", "invoke"} : \A i : Good(fmt, RunIndexed(ContextMenuClient[verb], i))
    BY <1>1, PlainGood, RefuseGood DEF RunIndexed
  <1> QED
    BY <1>2 DEF ContextMenuCommands, AllGood, Good, Command

(* The commands of `contact`.                                              *)
LEMMA ContactGood == \A fmt \in Format : AllGood(ContactCommands(fmt))
  <1> SUFFICES ASSUME NEW fmt \in Format PROVE AllGood(ContactCommands(fmt))
    OBVIOUS
  <1>1. /\ ContactClient.list_contacts \in Seq(PlainStep) /\ ContactClient.get_contact \in Seq(PlainStep)
        /\ ContactClient.search_users \in Seq(PlainStep) /\ ContactClient.add_contact \in Seq(PlainStep)
        /\ ContactClient.accept_request \in Seq(PlainStep) /\ ContactClient.remove_contact \in Seq(PlainStep)
    <2>1. /\ ContactClient.list_contacts = Read("ListContacts") /\ ContactClient.get_contact = ReadMaybe("GetContact")
          /\ ContactClient.search_users = Read("SearchUsers") /\ ContactClient.add_contact = Write("AddContact")
          /\ ContactClient.accept_request = Write("AcceptRequest")
          /\ ContactClient.remove_contact = Write("RemoveContact")
      BY DEF ContactClient
    <2> QED
      BY <2>1, Plain DEF Rpc
  <1>2. /\ Good(fmt, Simple(ContactClient.list_contacts)) /\ Good(fmt, Simple(ContactClient.search_users))
        /\ Good(fmt, Simple(ContactClient.add_contact)) /\ Good(fmt, Simple(ContactClient.accept_request))
        /\ Good(fmt, RunContactRemove(fmt))
    BY <1>1, PlainGood DEF RunContactRemove
  <1>3. Good(fmt, RunContactGet(fmt))
    BY <1>1, PlainGood DEF RunContactGet, Format, Simple
  <1> QED
    BY <1>2, <1>3 DEF ContactCommands, AllGood, Good, Command

(* The commands of `auth`.                                                 *)
LEMMA AuthGood == \A fmt \in Format : AllGood(AuthCommands(fmt))
  <1> SUFFICES ASSUME NEW fmt \in Format PROVE AllGood(AuthCommands(fmt))
    OBVIOUS
  <1>1. AuthClient.login = Write("Login") /\ AuthClient.logout = Write("Logout") /\ AuthClient.status = Read("Status")
    BY DEF AuthClient
  <1>2. AuthClient.login \in Seq(PlainStep) /\ AuthClient.logout \in Seq(PlainStep) /\ AuthClient.status \in Seq(PlainStep)
    BY <1>1, Plain DEF Rpc
  <1>3. Caught(AuthClient.login, "totp") \in Seq(PlainStep)
    <2>1. \A s \in PlainStep : [s EXCEPT !.error = "totp"] \in PlainStep
      BY DEF PlainStep, StepType, OnError
    <2> QED
      BY <1>2, <2>1 DEF Caught
  <1>4. \A a, b, c : Good(fmt, RunLogin(a, b, c))
    BY <1>2, <1>3, PlainGood, RefuseGood DEF RunLogin
  <1>5. Good(fmt, Simple(AuthClient.logout)) /\ Good(fmt, Simple(AuthClient.status))
    BY <1>2, PlainGood
  <1> QED
    BY <1>4, <1>5 DEF AuthCommands, AllGood, Good, Command

(* The screenshot, to a file or to stdout.                                 *)
LEMMA ScreenshotGood == AllGood(ScreenshotCommands)
  <1>1. "human" \in Format
    BY DEF Format
  <1>2. CameraClient.shot \in Seq(PlainStep)
    <2>1. Read("StreamFrames") \in Seq(PlainStep) /\ Len(Read("StreamFrames")) = 1
      BY Plain DEF Rpc, Read, Call
    <2>2. \A s \in PlainStep : [s EXCEPT !.lacking = "raises"] \in PlainStep
      BY DEF PlainStep, StepType, OnLack
    <2> QED
      BY <2>1, <2>2 DEF CameraClient
  <1>3. \A o \in {"-", "path", "other"} : Good("human", RunScreenshot(o))
    BY <1>1, <1>2, PlainGood, RefuseGood DEF RunScreenshot
  <1> QED
    BY <1>1, <1>3 DEF ScreenshotCommands, AllGood, Good, Command

-----------------------------------------------------------------------------
(* The other commands are looked at step by step.                          *)

(* A step more, behind and in front.                                       *)
LEMMA Snoc ==
  ASSUME NEW s \in Seq(StepType), NEW n \in Nat, Len(s) = n, NEW x \in StepType
  PROVE  /\ s \o <<x>> \in Seq(StepType) /\ Len(s \o <<x>>) = n + 1
         /\ (s \o <<x>>)[n + 1] = x /\ \A i \in 1 .. n : (s \o <<x>>)[i] = s[i]
  BY Single, Joined

(* A step before others.                                                   *)
LEMMA Cons ==
  ASSUME NEW s \in Seq(StepType), NEW n \in Nat, Len(s) = n, NEW x \in StepType
  PROVE  /\ <<x>> \o s \in Seq(StepType) /\ Len(<<x>> \o s) = n + 1
         /\ (<<x>> \o s)[1] = x /\ \A i \in 1 .. n : (<<x>> \o s)[i + 1] = s[i]
  BY Single, Joined

(* n steps in their channel.                                               *)
LEMMA InChannel ==
  ASSUME NEW b \in Seq(StepType), NEW n \in Nat, Len(b) = n
  PROVE  /\ Within(b) \in Seq(StepType) /\ Len(Within(b)) = n + 2
         /\ Within(b)[1] = Step("open") /\ Within(b)[n + 2] = Step("close")
         /\ \A i \in 1 .. n : Within(b)[i + 1] = b[i]
  <1> DEFINE o == <<Step("open")>> \o b
  <1>1. Step("open") \in StepType /\ Step("close") \in StepType
    BY StepIs DEF Do
  <1>2. /\ o \in Seq(StepType) /\ Len(o) = n + 1 /\ o[1] = Step("open")
        /\ \A i \in 1 .. n : o[i + 1] = b[i]
    BY <1>1, Cons
  <1>3. Within(b) = o \o <<Step("close")>>
    BY DEF Within
  <1> HIDE DEF o
  <1>4. /\ o \o <<Step("close")>> \in Seq(StepType) /\ Len(o \o <<Step("close")>>) = (n + 1) + 1
        /\ (o \o <<Step("close")>>)[(n + 1) + 1] = Step("close")
        /\ \A i \in 1 .. n + 1 : (o \o <<Step("close")>>)[i] = o[i]
    <2>1. n + 1 \in Nat
      OBVIOUS
    <2> QED
      BY <1>1, <1>2, <2>1, Snoc
  <1>5. 1 \in 1 .. n + 1 /\ (n + 1) + 1 = n + 2 /\ \A i \in 1 .. n : i + 1 \in 1 .. n + 1
    OBVIOUS
  <1> QED
    BY <1>2, <1>3, <1>4, <1>5

(* And with the result behind it.                                          *)
LEMMA InChannelPrinted ==
  ASSUME NEW b \in Seq(StepType), NEW n \in Nat, Len(b) = n
  PROVE  /\ Simple(b) \in Seq(StepType) /\ Len(Simple(b)) = n + 3
         /\ Simple(b)[1] = Step("open") /\ Simple(b)[n + 2] = Step("close")
         /\ Simple(b)[n + 3] = Step("print")
         /\ \A i \in 1 .. n : Simple(b)[i + 1] = b[i]
  <1>1. Step("print") \in StepType /\ n + 2 \in Nat
    BY StepIs DEF Do
  <1>2. Simple(b) = Within(b) \o <<Step("print")>>
    BY DEF Simple, Emit
  <1>3. /\ Within(b) \in Seq(StepType) /\ Len(Within(b)) = n + 2
        /\ Within(b)[1] = Step("open") /\ Within(b)[n + 2] = Step("close")
        /\ \A i \in 1 .. n : Within(b)[i + 1] = b[i]
    BY InChannel
  <1>4. /\ Within(b) \o <<Step("print")>> \in Seq(StepType)
        /\ Len(Within(b) \o <<Step("print")>>) = (n + 2) + 1
        /\ (Within(b) \o <<Step("print")>>)[(n + 2) + 1] = Step("print")
        /\ \A i \in 1 .. n + 2 : (Within(b) \o <<Step("print")>>)[i] = Within(b)[i]
    BY <1>1, <1>3, Snoc
  <1>5. 1 \in 1 .. n + 2 /\ n + 2 \in 1 .. n + 2 /\ (n + 2) + 1 = n + 3
        /\ \A i \in 1 .. n : i + 1 \in 1 .. n + 2
    OBVIOUS
  <1> QED
    BY <1>2, <1>3, <1>4, <1>5

(* On a terminal no document is due.                                       *)
LEMMA FewSteps ==
  \A words, q : Coherent(words, "human", q) /\ Channelled(q, FALSE) => CommandOK(words, "human", q)
  BY DEF CommandOK, StepsOK

(* A listing, a choice from it, and what is done to the chosen.            *)
LEMMA ControlShape ==
  ASSUME NEW words, NEW fmt \in Format, NEW l \in StepType, NEW c \in StepType, NEW a \in StepType,
         l.do = "call", l.effect = "list", l.error = "fails", l.lacking = "never",
         words = <<"dash", "tab">> \/ (l.rpc = "ListControls" /\ ~l.selector.all),
         c.do = "choose", c.effect = "none", c.error = "fails",
         a.do = "call", a.effect = "act", a.error = "fails"
  PROVE  CommandOK(words, fmt, Simple(<<l>> \o <<c>> \o <<a>>))
  <1> DEFINE b2 == <<l>> \o <<c>>
             b == <<l>> \o <<c>> \o <<a>>
             q == Simple(b)
  <1>1. PICK o, x, p \in StepType :
          /\ o = Step("open") /\ x = Step("close") /\ p = Step("print")
          /\ o.do = "open" /\ x.do = "close" /\ p.do = "print"
          /\ o.error = "fails" /\ x.error = "fails" /\ p.error = "fails"
          /\ o.effect = "none" /\ x.effect = "none" /\ p.effect = "none"
    BY StepIs, StepFields DEF Do
  <1>2. b2 \in Seq(StepType) /\ Len(b2) = 2 /\ b2[1] = l /\ b2[2] = c
    <2>1. <<l>> \in Seq(StepType) /\ Len(<<l>>) = 1 /\ <<l>>[1] = l
      BY Single
    <2>2. /\ <<l>> \o <<c>> \in Seq(StepType) /\ Len(<<l>> \o <<c>>) = 1 + 1
          /\ (<<l>> \o <<c>>)[1 + 1] = c /\ \A i \in 1 .. 1 : (<<l>> \o <<c>>)[i] = <<l>>[i]
      BY <2>1, Snoc
    <2> QED
      BY <2>1, <2>2
  <1>20. b = b2 \o <<a>>
    OBVIOUS
  <1> HIDE DEF b2, b
  <1>21. b \in Seq(StepType) /\ Len(b) = 3 /\ b[1] = l /\ b[2] = c /\ b[3] = a
    <2>1. /\ b2 \o <<a>> \in Seq(StepType) /\ Len(b2 \o <<a>>) = 2 + 1
          /\ (b2 \o <<a>>)[2 + 1] = a /\ \A i \in 1 .. 2 : (b2 \o <<a>>)[i] = b2[i]
      BY <1>2, Snoc
    <2> QED
      BY <1>2, <1>20, <2>1
  <1>3. /\ q \in Seq(StepType) /\ DOMAIN q = 1 .. 6 /\ q[1] = o /\ q[2] = l /\ q[3] = c /\ q[4] = a /\ q[5] = x
        /\ q[6] = p /\ Len(q) = 6
    <2>0. PICK n \in Nat : n = 3
      OBVIOUS
    <2>10. Len(b) = n
      BY <1>21, <2>0
    <2>11. /\ Simple(b) \in Seq(StepType) /\ Len(Simple(b)) = n + 3
           /\ Simple(b)[1] = Step("open") /\ Simple(b)[n + 2] = Step("close") /\ Simple(b)[n + 3] = Step("print")
           /\ \A i \in 1 .. n : Simple(b)[i + 1] = b[i]
      BY <1>21, <2>10, InChannelPrinted
    <2>1. /\ q \in Seq(StepType) /\ Len(q) = 3 + 3
          /\ q[1] = Step("open") /\ q[3 + 2] = Step("close") /\ q[3 + 3] = Step("print")
          /\ \A i \in 1 .. 3 : q[i + 1] = b[i]
      BY <2>0, <2>11 DEF q
    <2> HIDE DEF q
    <2>2. q[1 + 1] = b[1] /\ q[2 + 1] = b[2] /\ q[3 + 1] = b[3]
      BY <2>1
    <2> QED
      BY <1>1, <1>21, <2>1, <2>2
  <1> HIDE DEF q
  <1>4. \A i \in DOMAIN q : i = 1 \/ i = 2 \/ i = 3 \/ i = 4 \/ i = 5 \/ i = 6
    BY <1>3
  <1>5. RefusesFirst(q)
    BY <1>1, <1>3, <1>4 DEF RefusesFirst, Changing
  <1>6. PromptsOnly(fmt, q) /\ DropsLast(q) /\ LinesStay(q) /\ JsonStrict(fmt, q) /\ NumbersOnly(q)
        /\ AwaitsOnly(q)
    BY <1>1, <1>3, <1>4 DEF PromptsOnly, DropsLast, LinesStay, JsonStrict, NumbersOnly, AwaitsOnly
  <1>7. PrintsLast(q)
    BY <1>1, <1>3, <1>4 DEF PrintsLast
  <1>8. ChoosesListed(words, q) /\ OneChannel(q)
    BY <1>1, <1>3, <1>4 DEF ChoosesListed, OneChannel, Opening
  <1>9. Channelled(q, FALSE)
    <2>1. \A i \in {2, 3, 4} : Inside(q, i, FALSE)
      BY <1>1, <1>3, <1>4 DEF Inside
    <2> QED
      BY <1>1, <1>3, <1>4, <2>1 DEF Channelled
  <1>10. ToCome(q)
    BY <1>1, <1>3, <1>4 DEF ToCome
  <1> QED
    BY <1>3, <1>5, <1>6, <1>7, <1>8, <1>9, <1>10 DEF CommandOK, StepsOK, Coherent, DocumentDue, q, b

(* Steps that call, print and go on, in one channel, make sense.           *)
LEMMA OrdinaryCoherent ==
  ASSUME NEW words, NEW fmt \in Format, NEW q \in Seq(StepType),
         \A j \in DOMAIN q : /\ q[j].do \notin {"choose", "refuse", "prompt", "show", "await"}
                             /\ q[j].error = "fails" /\ q[j].effect # "act",
         \A i, j \in DOMAIN q : q[i].do = "open" /\ q[j].do \in Opening => j = i
  PROVE  Coherent(words, fmt, q)
  <1>0. DOMAIN q = 1 .. Len(q) /\ Len(q) \in Nat
    OBVIOUS
  <1>1. RefusesFirst(q) /\ PromptsOnly(fmt, q) /\ DropsLast(q) /\ LinesStay(q)
    BY DEF RefusesFirst, PromptsOnly, DropsLast, LinesStay
  <1>2. PrintsLast(q) /\ JsonStrict(fmt, q)
    BY DEF PrintsLast, JsonStrict
  <1>3. NumbersOnly(q) /\ AwaitsOnly(q) /\ ChoosesListed(words, q)
    BY DEF NumbersOnly, AwaitsOnly, ChoosesListed
  <1>4. OneChannel(q)
    BY <1>0 DEF OneChannel
  <1> QED
    BY <1>1, <1>2, <1>3, <1>4 DEF Coherent

(* A step that prints or calls, and fails.                                 *)
TalkStep == {s \in StepType : /\ s.do \in {"call", "raise", "print"} /\ s.error = "fails"
                              /\ s.effect # "act"}

(* Calls whose answers are printed while the channel is open.              *)
LEMMA TalkCoherent ==
  ASSUME NEW words, NEW fmt \in Format, NEW b \in Seq(TalkStep)
  PROVE  StepsOK(words, fmt, Within(b))
  <1>0. PICK n \in Nat : n = Len(b)
    OBVIOUS
  <1>1. b \in Seq(StepType) /\ \A i \in 1 .. n : b[i] \in TalkStep
    BY <1>0 DEF TalkStep
  <1> DEFINE q == Within(b)
  <1>2. /\ q \in Seq(StepType) /\ Len(q) = n + 2
        /\ q[1] = Step("open") /\ q[n + 2] = Step("close")
        /\ \A i \in 1 .. n : q[i + 1] = b[i]
    BY <1>0, <1>1, InChannel
  <1> HIDE DEF q
  <1>3. DOMAIN q = 1 .. n + 2
    BY <1>2
  <1>4. ASSUME NEW j \in DOMAIN q, j # 1, j # n + 2 PROVE q[j] \in TalkStep
    <2>1. j - 1 \in 1 .. n /\ j = (j - 1) + 1
      BY <1>3, <1>4
    <2> QED
      BY <1>1, <1>2, <2>1
  <1>5. \A j \in DOMAIN q : /\ q[j].do \notin {"choose", "refuse", "prompt", "show", "await", "connect"}
                            /\ q[j].error = "fails" /\ q[j].effect # "act"
                            /\ q[j].do = "open" => j = 1
                            /\ q[j].do = "close" => j = n + 2
    BY <1>2, <1>3, <1>4, Ends DEF TalkStep
  <1>6. Coherent(words, fmt, q)
    BY <1>2, <1>5, OrdinaryCoherent DEF Opening
  <1>7. ASSUME NEW i \in DOMAIN q, q[i].do \in {"call", "prompt", "choose"} PROVE Inside(q, i, FALSE)
    <2>1. i # 1 /\ i # n + 2
      BY <1>2, <1>7, Ends
    <2>2. 1 \in DOMAIN q /\ 1 < i /\ i < n + 2 /\ q[1].do = "open"
      BY <1>2, <1>3, <2>1, Ends
    <2>3. \A k \in DOMAIN q : 1 < k /\ k < i => q[k].do # "close"
      BY <1>3, <1>5, <2>2
    <2> QED
      BY <2>2, <2>3 DEF Inside
  <1> QED
    BY <1>6, <1>7 DEF StepsOK, Channelled, q

(* Which in JSON prints after its only call.                               *)
LEMMA TalkOnce ==
  ASSUME NEW c \in TalkStep, c.do = "call", NEW fmt \in Format
  PROVE  Good(fmt, Within(<<c>> \o Emit))
  <1>1. c \in StepType /\ Step("print") \in TalkStep /\ Emit = <<Step("print")>>
    BY StepIs, StepFields DEF TalkStep, Do, Emit
  <1>2. <<c>> \o Emit \in Seq(TalkStep)
    BY <1>1
  <1> DEFINE b == <<c>> \o Emit
             q == Within(b)
  <1>3. /\ b \in Seq(StepType) /\ Len(b) = 2 /\ b[1] = c /\ b[2] = Step("print")
    <2>1. <<c>> \in Seq(StepType) /\ Len(<<c>>) = 1 /\ <<c>>[1] = c /\ Step("print") \in StepType
      BY <1>1, Single DEF TalkStep
    <2>2. /\ <<c>> \o <<Step("print")>> \in Seq(StepType) /\ Len(<<c>> \o <<Step("print")>>) = 1 + 1
          /\ (<<c>> \o <<Step("print")>>)[1 + 1] = Step("print")
          /\ \A i \in 1 .. 1 : (<<c>> \o <<Step("print")>>)[i] = <<c>>[i]
      BY <2>1, Snoc
    <2> QED
      BY <1>1, <2>1, <2>2
  <1>4. \A words : StepsOK(words, fmt, q)
    BY <1>2, TalkCoherent
  <1> HIDE DEF b
  <1>5. PICK n \in Nat : n = 2 /\ Len(b) = n
    BY <1>3
  <1>6. /\ q \in Seq(StepType) /\ Len(q) = n + 2
        /\ q[1] = Step("open") /\ q[n + 2] = Step("close")
        /\ \A i \in 1 .. n : q[i + 1] = b[i]
    BY <1>3, <1>5, InChannel
  <1> HIDE DEF q
  <1>7. /\ DOMAIN q = 1 .. 4 /\ q[1].do = "open" /\ q[2].do = "call" /\ q[3].do = "print"
        /\ q[4].do = "close"
    <2>1. q[1 + 1] = c /\ q[2 + 1] = Step("print")
      BY <1>3, <1>5, <1>6
    <2>2. n + 2 = 4 /\ 1 + 1 = 2 /\ 2 + 1 = 3
      BY <1>5
    <2>3. Len(q) = 4 /\ q[1] = Step("open") /\ q[2] = c /\ q[3] = Step("print") /\ q[4] = Step("close")
      BY <1>6, <2>1, <2>2
    <2>4. Step("print").do = "print"
      BY StepFields DEF Do
    <2>5. DOMAIN q = 1 .. 4
      <3>1. DOMAIN q = 1 .. Len(q)
        BY <1>6
      <3> QED
        BY <2>3, <3>1
    <2>6. q[1].do = "open" /\ q[4].do = "close"
      BY <2>3, Ends
    <2>7. q[2].do = "call"
      BY <2>3
    <2>8. q[3].do = "print"
      BY <2>3, <2>4
    <2> QED
      BY <2>5, <2>6, <2>7, <2>8
  <1>8. ToCome(q)
    <2>1. \A i \in DOMAIN q : i = 1 \/ i = 2 \/ i = 3 \/ i = 4
      BY <1>7
    <2> QED
      BY <1>7, <2>1 DEF ToCome
  <1> QED
    BY <1>4, <1>8 DEF Good, CommandOK, DocumentDue, q, b

(* The one step of Call.                                                   *)
CallStep(rpc, effect) == [Step("call") EXCEPT !.rpc = rpc, !.effect = effect]

(* The call of a client's method, as a step.                               *)
LEMMA CallIs ==
  ASSUME NEW rpc \in Rpc, NEW e \in Effect
  PROVE  /\ Call(rpc, e) = <<CallStep(rpc, e)>> /\ CallStep(rpc, e) \in StepType
         /\ CallStep(rpc, e).do = "call" /\ CallStep(rpc, e).rpc = rpc
         /\ CallStep(rpc, e).effect = e /\ CallStep(rpc, e).error = "fails"
         /\ CallStep(rpc, e).lacking = "never"
  <1>1. Step("call") \in StepType
    BY StepIs DEF Do
  <1> QED
    BY <1>1 DEF Call, CallStep, Step, StepType

(* The commands of `dash`, those that choose from a listing among them.    *)
LEMMA DashGood == \A fmt \in Format : AllGood(DashCommands(fmt))
  <1> SUFFICES ASSUME NEW fmt \in Format PROVE AllGood(DashCommands(fmt))
    OBVIOUS
  <1>1. /\ DashClient.open = Write("Open") /\ DashClient.close = Write("Close")
        /\ DashClient.get_state = Read("GetState") /\ DashClient.list_tabs = Call("ListTabs", "list")
        /\ DashClient.set_tab = Call("SetTab", "act") /\ DashClient.list_controls = Call("ListControls", "list")
        /\ DashClient["invoke"] = Call("Invoke", "act") /\ DashClient["scroll"] = Call("Scroll", "act")
        /\ DashClient["highlight"] = Call("Highlight", "act")
    BY DEF DashClient
  <1>2. /\ DashClient.open \in Seq(PlainStep) /\ DashClient.close \in Seq(PlainStep)
        /\ DashClient.get_state \in Seq(PlainStep) /\ DashClient.list_tabs \in Seq(PlainStep)
    BY <1>1, Plain DEF Rpc, Effect
  <1>4. ASSUME NEW all \in BOOLEAN
        PROVE  \E l \in PlainStep : /\ Listing(DashClient.list_controls, all) = <<l>>
                                   /\ l.do = "call" /\ l.effect = "list" /\ l.error = "fails"
                                   /\ l.lacking = "never" /\ l.rpc = "ListControls" /\ l.selector.all = all
    <2>1. "ListControls" \in Rpc /\ "list" \in Effect
      BY DEF Rpc, Effect
    <2>2. PICK s \in StepType : /\ DashClient.list_controls = <<s>> /\ s.do = "call" /\ s.rpc = "ListControls"
                               /\ s.effect = "list" /\ s.error = "fails" /\ s.lacking = "never"
      BY <1>1, <2>1, CallIs
    <2>3. DashClient.list_controls[1] = s
      BY <2>2
    <2>4. [s EXCEPT !.selector.all = all] \in PlainStep /\ [s EXCEPT !.selector.all = all].selector.all = all
          /\ [s EXCEPT !.selector.all = all].do = "call" /\ [s EXCEPT !.selector.all = all].rpc = "ListControls"
          /\ [s EXCEPT !.selector.all = all].effect = "list" /\ [s EXCEPT !.selector.all = all].error = "fails"
          /\ [s EXCEPT !.selector.all = all].lacking = "never"
      BY <2>2 DEF PlainStep, StepType, SelectorType
    <2> QED
      BY <2>3, <2>4 DEF Listing
  <1>5. ASSUME NEW s \in Selectors
        PROVE  \E c \in StepType : Choose(s) = <<c>> /\ c.do = "choose" /\ c.effect = "none" /\ c.error = "fails"
    <2>1. s \in SelectorType
      <3>1. ASSUME NEW n \in Nat PROVE ByIndex(n) \in SelectorType
        BY SelectorIs DEF ByIndex, SelectorType
      <3>2. ASSUME NEW key \in Key PROVE ByKey(key) \in SelectorType
        BY SelectorIs DEF ByKey, SelectorType
      <3> QED
        BY <3>1, <3>2 DEF Selectors
    <2>2. Step("choose") \in StepType
      BY StepIs DEF Do
    <2>3. [Step("choose") EXCEPT !.selector = s] \in StepType
      BY <2>1, <2>2 DEF StepType
    <2>4. /\ [Step("choose") EXCEPT !.selector = s].do = "choose"
          /\ [Step("choose") EXCEPT !.selector = s].effect = "none"
          /\ [Step("choose") EXCEPT !.selector = s].error = "fails"
      BY DEF Step
    <2> QED
      BY <2>3, <2>4 DEF Choose
  <1>6. \A all \in BOOLEAN : Listing(DashClient.list_controls, all) \in Seq(PlainStep)
    <2>1. \A l \in PlainStep : <<l>> \in Seq(PlainStep)
      OBVIOUS
    <2> QED
      BY <1>4, <2>1
  <1>7. /\ Good(fmt, RunSummary) /\ Good(fmt, RunOpen) /\ Good(fmt, RunClose) /\ Good(fmt, RunState)
        /\ Good(fmt, RunTabs) /\ \A all \in BOOLEAN : Good(fmt, RunLs(all))
    <2>1. DashClient.get_state \o DashClient.list_tabs \o Listing(DashClient.list_controls, FALSE) \in Seq(PlainStep)
      BY <1>2, <1>6, PlainJoined
    <2> QED
      BY <1>2, <1>6, <2>1, PlainGood DEF RunSummary, RunOpen, RunClose, RunState, RunTabs, RunLs
  <1>8. ASSUME NEW s \in Selectors PROVE CommandOK(<<"dash", "tab">>, fmt, RunTab(s))
    <2>1. "ListTabs" \in Rpc /\ "SetTab" \in Rpc /\ "list" \in Effect /\ "act" \in Effect
      BY DEF Rpc, Effect
    <2>2. PICK l \in StepType : /\ DashClient.list_tabs = <<l>> /\ l.do = "call" /\ l.effect = "list"
                               /\ l.error = "fails" /\ l.lacking = "never"
      BY <1>1, <2>1, CallIs
    <2>3. PICK a \in StepType : DashClient.set_tab = <<a>> /\ a.do = "call" /\ a.effect = "act" /\ a.error = "fails"
      BY <1>1, <2>1, CallIs
    <2>4. PICK c \in StepType : Choose(s) = <<c>> /\ c.do = "choose" /\ c.effect = "none" /\ c.error = "fails"
      BY <1>5
    <2>5. CommandOK(<<"dash", "tab">>, fmt, Simple(<<l>> \o <<c>> \o <<a>>))
      BY <2>2, <2>3, <2>4, ControlShape
    <2> QED
      BY <2>2, <2>3, <2>4, <2>5 DEF RunTab
  <1>9. ASSUME NEW verb \in {"invoke", "scroll", "highlight"}, NEW s \in Selectors
        PROVE  CommandOK(<<"dash", verb>>, fmt, RunControlAction(DashClient[verb], s))
    <2>1. PICK rpc \in {"Invoke", "Scroll", "Highlight"} : DashClient[verb] = Call(rpc, "act")
      BY <1>1
    <2>2. rpc \in Rpc /\ "act" \in Effect
      BY DEF Rpc, Effect
    <2>3. PICK a \in StepType : DashClient[verb] = <<a>> /\ a.do = "call" /\ a.effect = "act" /\ a.error = "fails"
      BY <2>1, <2>2, CallIs
    <2>4. PICK c \in StepType : Choose(s) = <<c>> /\ c.do = "choose" /\ c.effect = "none" /\ c.error = "fails"
      BY <1>5
    <2>5. PICK l \in PlainStep : /\ Listing(DashClient.list_controls, FALSE) = <<l>>
                                 /\ l.do = "call" /\ l.effect = "list" /\ l.error = "fails"
                                 /\ l.lacking = "never" /\ l.rpc = "ListControls" /\ l.selector.all = FALSE
      BY <1>4
    <2>6. l \in StepType
      BY DEF PlainStep
    <2>7. \A words : CommandOK(words, fmt, Simple(<<l>> \o <<c>> \o <<a>>))
      BY <2>3, <2>4, <2>5, <2>6, ControlShape
    <2> QED
      BY <2>3, <2>4, <2>5, <2>7 DEF RunControlAction
  <1> DEFINE A == {Command(<<"dash">>, fmt, RunSummary), Command(<<"dash", "open">>, fmt, RunOpen),
                   Command(<<"dash", "close">>, fmt, RunClose), Command(<<"dash", "state">>, fmt, RunState),
                   Command(<<"dash", "tabs">>, fmt, RunTabs)}
             B == {Command(<<"dash", "ls">>, fmt, RunLs(all)) : all \in BOOLEAN}
             C == {Command(<<"dash", "tab">>, fmt, RunTab(s)) : s \in Selectors}
             D == {Command(<<"dash", verb>>, fmt, RunControlAction(DashClient[verb], s)) :
                     verb \in {"invoke", "scroll", "highlight"}, s \in Selectors}
  <1>10. AllGood(A) /\ AllGood(B)
    BY <1>7 DEF AllGood, Good, Command
  <1>11. AllGood(C)
    BY <1>8 DEF AllGood, Command
  <1>12. AllGood(D)
    BY <1>9 DEF AllGood, Command
  <1>13. DashCommands(fmt) = A \cup B \cup C \cup D
    BY DEF DashCommands
  <1> HIDE DEF A, B, C, D
  <1> QED
    BY <1>10, <1>11, <1>12, <1>13, GoodUnion

(* The shells: a prompt within its channel.                                *)
LEMMA PromptSteps ==
  ASSUME NEW menu \in {"grabber", "inventory"}
  PROVE  Good("human", Within(Prompt(menu)))
  <1>0. PICK s \in StepType : s = [Step("prompt") EXCEPT !.rpc = menu]
    <2>1. Step("prompt") \in StepType /\ menu \in Rpc
      BY StepIs DEF Do, Rpc
    <2> QED
      BY <2>1 DEF StepType
  <1>1. s.do = "prompt" /\ s.rpc = menu /\ s.error = "fails" /\ s.effect = "none"
    BY <1>0 DEF Step
  <1> DEFINE b == <<s>>
             q == Within(b)
  <1>2. Prompt(menu) = b
    BY <1>0 DEF Prompt
  <1>3. b \in Seq(StepType) /\ Len(b) = 1 /\ b[1] = s
    BY Single
  <1> HIDE DEF b
  <1>4. PICK n \in Nat : n = 1 /\ Len(b) = n
    BY <1>3
  <1>5. /\ q \in Seq(StepType) /\ Len(q) = n + 2
        /\ q[1] = Step("open") /\ q[n + 2] = Step("close")
        /\ \A i \in 1 .. n : q[i + 1] = b[i]
    BY <1>3, <1>4, InChannel
  <1> HIDE DEF q
  <1>6. /\ DOMAIN q = 1 .. 3 /\ q[1] = Step("open") /\ q[2] = s /\ q[3] = Step("close")
    <2>1. q[1 + 1] = s
      BY <1>3, <1>4, <1>5
    <2>2. n + 2 = 3 /\ 1 + 1 = 2
      BY <1>4
    <2>3. DOMAIN q = 1 .. Len(q)
      BY <1>5
    <2> QED
      BY <1>5, <2>1, <2>2, <2>3
  <1>7. /\ q[1].do = "open" /\ q[2].do = "prompt" /\ q[3].do = "close" /\ q[2].rpc = menu
        /\ \A i \in DOMAIN q : /\ i = 1 \/ i = 2 \/ i = 3
                               /\ q[i].error = "fails" /\ q[i].effect = "none"
    <2>1. \A i \in DOMAIN q : i = 1 \/ i = 2 \/ i = 3
      BY <1>6
    <2> QED
      BY <1>1, <1>6, <2>1, Ends
  <1>8. RefusesFirst(q) /\ PromptsOnly("human", q) /\ DropsLast(q) /\ LinesStay(q) /\ JsonStrict("human", q)
        /\ NumbersOnly(q)
    BY <1>7 DEF RefusesFirst, PromptsOnly, DropsLast, LinesStay, JsonStrict, NumbersOnly, Changing
  <1>9. PrintsLast(q) /\ AwaitsOnly(q) /\ \A words : ChoosesListed(words, q)
    BY <1>7 DEF PrintsLast, AwaitsOnly, ChoosesListed
  <1>10. OneChannel(q)
    BY <1>6, <1>7 DEF OneChannel, Opening
  <1>11. Channelled(q, FALSE)
    <2>1. 1 \in DOMAIN q /\ 2 \in DOMAIN q
      BY <1>6
    <2>2. Inside(q, 2, FALSE)
      BY <1>7, <2>1 DEF Inside
    <2> QED
      BY <1>7, <2>2 DEF Channelled
  <1> QED
    BY <1>2, <1>5, <1>8, <1>9, <1>10, <1>11, FewSteps DEF Coherent, Good, q

(* The methods of the grabber client make plain calls.                     *)
LEMMA GrabberMethods ==
  /\ \A m \in {"grab", "release", "get_state", "use", "unuse", "click", "equip", "dequip"} :
       GrabberClient[m] \in Seq(PlainStep)
  /\ GrabberClient.grab = Write("Grab")
  <1>1. /\ GrabberClient["grab"] = Write("Grab") /\ GrabberClient["release"] = Write("Release")
        /\ GrabberClient["get_state"] = Read("GetState") /\ GrabberClient["use"] = Call("Use", "press")
        /\ GrabberClient["unuse"] = Call("Unuse", "release")
        /\ GrabberClient["click"] = Call("Use", "press") \o Call("Unuse", "release")
        /\ GrabberClient["equip"] = Write("Equip") /\ GrabberClient["dequip"] = Write("Dequip")
        /\ GrabberClient.grab = Write("Grab")
    BY DEF GrabberClient
  <1>2. /\ Write("Grab") \in Seq(PlainStep) /\ Write("Release") \in Seq(PlainStep)
        /\ Read("GetState") \in Seq(PlainStep) /\ Call("Use", "press") \in Seq(PlainStep)
        /\ Call("Unuse", "release") \in Seq(PlainStep) /\ Write("Equip") \in Seq(PlainStep)
        /\ Write("Dequip") \in Seq(PlainStep)
    BY Plain DEF Rpc, Effect
  <1>3. Call("Use", "press") \o Call("Unuse", "release") \in Seq(PlainStep)
    BY <1>2, PlainJoined
  <1> QED
    BY <1>1, <1>2, <1>3

(* The commands of `grabber`, its shell included.                          *)
LEMMA GrabberGood == \A fmt \in Format : AllGood(GrabberCommands(fmt))
  <1> SUFFICES ASSUME NEW fmt \in Format PROVE AllGood(GrabberCommands(fmt))
    OBVIOUS
  <1>1. Good(fmt, Within(GrabberClient.grab \o Emit))
    <2>1. "Grab" \in Rpc /\ "write" \in Effect
      BY DEF Rpc, Effect
    <2>2. /\ Write("Grab") = <<CallStep("Grab", "write")>> /\ CallStep("Grab", "write") \in StepType
          /\ CallStep("Grab", "write").do = "call" /\ CallStep("Grab", "write").effect = "write"
          /\ CallStep("Grab", "write").error = "fails"
      BY <2>1, CallIs DEF Write
    <2>3. CallStep("Grab", "write") \in TalkStep
      BY <2>2 DEF TalkStep
    <2> QED
      BY <2>2, <2>3, TalkOnce, GrabberMethods
  <1>2. \A action \in {"grab", "release", "state", "use", "unuse", "click", "equip", "dequip"} :
          Good(fmt, RunGrabber(action))
    <2>1. \A m \in {"grab", "release", "get_state", "use", "unuse", "click", "equip", "dequip"} :
            Good(fmt, Simple(GrabberClient[m]))
      BY GrabberMethods, PlainGood
    <2> QED
      BY <1>1, <2>1 DEF RunGrabber
  <1>3. Good(fmt, RunInteractive(fmt))
    BY RefuseGood, PromptSteps DEF RunInteractive, Format
  <1> QED
    BY <1>2, <1>3 DEF GrabberCommands, AllGood, Good, Command

(* `inventory` is a shell.                                                 *)
LEMMA InventoryGood == AllGood(InventoryCommands)
  <1>1. "human" \in Format
    BY DEF Format
  <1> QED
    BY <1>1, PromptSteps, Made DEF InventoryCommands, RunInventory

(* `ping`, with its count of answers.                                      *)
LEMMA PingGood == \A fmt \in Format : AllGood(PingCommands(fmt))
  <1> SUFFICES ASSUME NEW fmt \in Format PROVE AllGood(PingCommands(fmt))
    OBVIOUS
  <1> DEFINE one == ConnectionClient.ping \o (IF fmt = "json" THEN <<>> ELSE Emit)
  <1>1. PICK c \in TalkStep : ConnectionClient.ping = <<c>> /\ <<c>> \in Seq(PlainStep)
    <2>1. "Ping" \in Rpc /\ "read" \in Effect
      BY DEF Rpc, Effect
    <2>2. ConnectionClient.ping = Call("Ping", "read") /\ ConnectionClient.ping \in Seq(PlainStep)
      BY <2>1, Plain DEF ConnectionClient, Read
    <2>3. CallStep("Ping", "read") \in TalkStep /\ Call("Ping", "read") = <<CallStep("Ping", "read")>>
      BY <2>1, CallIs DEF TalkStep
    <2> QED
      BY <2>2, <2>3
  <1>2. CASE fmt = "json"
    <2>1. one = <<c>>
      BY <1>1, <1>2
    <2>2. <<c>> \o <<c>> \in Seq(PlainStep) /\ <<>> \in Seq(PlainStep)
      BY <1>1, PlainJoined
    <2>3. \A n \in 0 .. 2 : RunPing(fmt, n) \in {Within(<<>>) \o IfJson(fmt, Emit), Within(one) \o IfJson(fmt, Emit),
                                                 Within(one \o one) \o IfJson(fmt, Emit)}
      BY DEF RunPing
    <2> HIDE DEF one
    <2>4. \A n \in 0 .. 2 : Good(fmt, RunPing(fmt, n))
      BY <1>1, <2>1, <2>2, <2>3, PlainGood
    <2> QED
      BY <2>4 DEF PingCommands, AllGood, Good, Command
  <1>3. CASE fmt = "human"
    <2>1. one = <<c>> \o <<Step("print")>> /\ Step("print") \in TalkStep
      BY <1>1, <1>3, StepIs, StepFields DEF Emit, TalkStep, Do
    <2>2. one \in Seq(TalkStep) /\ one \o one \in Seq(TalkStep) /\ <<>> \in Seq(TalkStep)
      <3>1. <<c>> \o <<Step("print")>> \in Seq(TalkStep)
        BY <2>1
      <3>2. \A s \in Seq(TalkStep) : s \o s \in Seq(TalkStep)
        OBVIOUS
      <3>3. <<>> \in Seq(TalkStep)
        OBVIOUS
      <3> QED
        BY <2>1, <3>1, <3>2, <3>3
    <2>3. \A n \in 0 .. 2 : RunPing(fmt, n) \in {Within(<<>>) \o <<>>, Within(one) \o <<>>, Within(one \o one) \o <<>>}
      BY <1>3 DEF RunPing, IfJson
    <2> HIDE DEF one
    <2>4. \A b \in Seq(TalkStep) : Good(fmt, Within(b))
      BY <1>3, TalkCoherent DEF Good, CommandOK
    <2>5. \A b \in Seq(TalkStep) : Within(b) \o <<>> = Within(b)
      <3> SUFFICES ASSUME NEW b \in Seq(TalkStep) PROVE Within(b) \o <<>> = Within(b)
        OBVIOUS
      <3>1. b \in Seq(StepType)
        BY DEF TalkStep
      <3>2. Within(b) \in Seq(StepType)
        BY <3>1, InChannel
      <3> QED
        BY <3>2, ConcatEmptySeq
    <2>6. \A n \in 0 .. 2 : Good(fmt, RunPing(fmt, n))
      BY <2>2, <2>3, <2>4, <2>5
    <2> QED
      BY <2>6 DEF PingCommands, AllGood, Good, Command
  <1> QED
    BY <1>2, <1>3 DEF Format

(* A step and what is printed of it.                                       *)
LEMMA TwoSteps ==
  ASSUME NEW a \in StepType
  PROVE  /\ <<a>> \o Emit \in Seq(StepType) /\ DOMAIN (<<a>> \o Emit) = 1 .. 2
         /\ (<<a>> \o Emit)[1] = a /\ (<<a>> \o Emit)[2] = Step("print")
         /\ Len(<<a>> \o Emit) = 2
  <1>1. Step("print") \in StepType /\ Emit = <<Step("print")>>
    BY StepIs DEF Do, Emit
  <1>2. <<a>> \in Seq(StepType) /\ Len(<<a>>) = 1 /\ <<a>>[1] = a
    BY Single
  <1>3. /\ <<a>> \o <<Step("print")>> \in Seq(StepType) /\ Len(<<a>> \o <<Step("print")>>) = 1 + 1
        /\ (<<a>> \o <<Step("print")>>)[1 + 1] = Step("print")
        /\ \A i \in 1 .. 1 : (<<a>> \o <<Step("print")>>)[i] = <<a>>[i]
    BY <1>1, <1>2, Snoc
  <1> QED
    BY <1>1, <1>2, <1>3

(* A step of the host and what is printed of it.                           *)
LEMMA HostStepGood == \A fmt \in Format : Good(fmt, <<Step("host")>> \o Emit)
  <1> SUFFICES ASSUME NEW fmt \in Format PROVE Good(fmt, <<Step("host")>> \o Emit)
    OBVIOUS
  <1> DEFINE q == <<Step("host")>> \o Emit
  <1>1. /\ q \in Seq(StepType) /\ DOMAIN q = 1 .. 2 /\ q[1] = Step("host") /\ q[2] = Step("print")
    BY TwoSteps, StepIs DEF Do
  <1> HIDE DEF q
  <1>2. /\ q[1].do = "host" /\ q[2].do = "print"
        /\ \A i \in DOMAIN q : /\ i = 1 \/ i = 2
                               /\ q[i].error = "fails" /\ q[i].effect = "none"
    <2>1. \A i \in DOMAIN q : i = 1 \/ i = 2
      BY <1>1
    <2>2. /\ Step("host").do = "host" /\ Step("host").error = "fails" /\ Step("host").effect = "none"
          /\ Step("print").do = "print" /\ Step("print").error = "fails" /\ Step("print").effect = "none"
      BY StepFields DEF Do
    <2> QED
      BY <1>1, <2>1, <2>2
  <1>3. \A words : Coherent(words, fmt, q)
    BY <1>1, <1>2, OrdinaryCoherent
  <1>4. Channelled(q, FALSE)
    BY <1>1, <1>2 DEF Channelled
  <1>5. ToCome(q)
    <2>1. 2 \in DOMAIN q /\ 1 < 2
      BY <1>1
    <2> QED
      BY <1>2, <2>1 DEF ToCome
  <1> QED
    BY <1>3, <1>4, <1>5 DEF Good, CommandOK, StepsOK, DocumentDue, q

(* The commands that launch and terminate engines.                         *)
LEMMA HostGood == \A fmt \in Format : AllGood(HostCommands(fmt))
  <1> SUFFICES ASSUME NEW fmt \in Format PROVE AllGood(HostCommands(fmt))
    OBVIOUS
  <1>1. "human" \in Format
    BY DEF Format
  <1>2. Good(fmt, RunLaunch) /\ Good(fmt, RunTerminateAll) /\ \A a, b : Good("human", RunTerminate(a, b))
    BY <1>1, HostStepGood, RefuseGood DEF RunLaunch, RunTerminateAll, RunTerminate
  <1> QED
    BY <1>1, <1>2 DEF HostCommands, AllGood, Good, Command

(* `wait`: attempts in channels of their own.                              *)
LEMMA WaitGood == AllGood(WaitCommands)
  <1>1. "human" \in Format
    BY DEF Format
  <1> DEFINE q == <<Step("await")>> \o Emit
  <1>2. /\ q \in Seq(StepType) /\ DOMAIN q = 1 .. 2 /\ q[1] = Step("await") /\ q[2] = Step("print")
    BY TwoSteps, StepIs DEF Do
  <1>20. q = <<Step("await")>> \o Emit
    OBVIOUS
  <1> HIDE DEF q
  <1>3. /\ q[1].do = "await" /\ q[2].do = "print"
        /\ \A i \in DOMAIN q : /\ i = 1 \/ i = 2
                               /\ q[i].error = "fails" /\ q[i].effect = "none"
    <2>1. \A i \in DOMAIN q : i = 1 \/ i = 2
      BY <1>2
    <2>2. /\ Step("await").do = "await" /\ Step("await").error = "fails" /\ Step("await").effect = "none"
          /\ Step("print").do = "print" /\ Step("print").error = "fails" /\ Step("print").effect = "none"
      BY StepFields DEF Do
    <2> QED
      BY <1>2, <2>1, <2>2
  <1>4. RefusesFirst(q) /\ PromptsOnly("human", q) /\ DropsLast(q) /\ LinesStay(q) /\ JsonStrict("human", q)
    BY <1>2, <1>3 DEF RefusesFirst, PromptsOnly, DropsLast, LinesStay, JsonStrict
  <1>5. NumbersOnly(q) /\ PrintsLast(q) /\ AwaitsOnly(q) /\ \A words : ChoosesListed(words, q)
    BY <1>2, <1>3 DEF NumbersOnly, PrintsLast, AwaitsOnly, ChoosesListed
  <1>6. OneChannel(q) /\ Channelled(q, FALSE)
    BY <1>2, <1>3 DEF OneChannel, Channelled
  <1>7. Good("human", q)
    BY <1>2, <1>4, <1>5, <1>6, FewSteps DEF Good, Coherent
  <1>8. \A a, b : Good("human", RunWait(a, b))
    BY <1>1, <1>7, <1>20, RefuseGood DEF RunWait
  <1> QED
    BY <1>1, <1>8 DEF WaitCommands, AllGood, Good, Command

(* The version is asked for in a channel without a probe.                  *)
LEMMA ServerInfoSteps ==
  \E c \in StepType :
    /\ c.do = "call" /\ c.effect = "read" /\ c.error = "fails"
    /\ GetServerInfo \in Seq(StepType) /\ Len(GetServerInfo) = 3 /\ DOMAIN GetServerInfo = 1 .. 3
    /\ GetServerInfo[1] = Step("connect") /\ GetServerInfo[2] = c /\ GetServerInfo[3] = Step("close")
  <1>1. PICK c \in StepType : /\ Read("GetServerInfo") = <<c>> /\ c.do = "call" /\ c.effect = "read"
                              /\ c.error = "fails"
    <2>1. "GetServerInfo" \in Rpc /\ "read" \in Effect
      BY DEF Rpc, Effect
    <2> QED
      BY <2>1, CallIs DEF Read
  <1> DEFINE a == <<Step("connect")>> \o <<c>>
             q == a \o <<Step("close")>>
  <1>2. GetServerInfo = q
    BY <1>1 DEF GetServerInfo
  <1>3. Step("connect") \in StepType /\ Step("close") \in StepType
    BY StepIs DEF Do
  <1>4. a \in Seq(StepType) /\ Len(a) = 2 /\ a[1] = Step("connect") /\ a[2] = c
    <2>1. <<Step("connect")>> \in Seq(StepType) /\ Len(<<Step("connect")>>) = 1
          /\ <<Step("connect")>>[1] = Step("connect")
      BY <1>3, Single
    <2>2. /\ <<Step("connect")>> \o <<c>> \in Seq(StepType) /\ Len(<<Step("connect")>> \o <<c>>) = 1 + 1
          /\ (<<Step("connect")>> \o <<c>>)[1 + 1] = c
          /\ \A i \in 1 .. 1 : (<<Step("connect")>> \o <<c>>)[i] = <<Step("connect")>>[i]
      BY <2>1, Snoc
    <2> QED
      BY <2>1, <2>2
  <1> HIDE DEF a
  <1>5. q \in Seq(StepType) /\ Len(q) = 3 /\ q[1] = Step("connect") /\ q[2] = c /\ q[3] = Step("close")
    <2>1. /\ a \o <<Step("close")>> \in Seq(StepType) /\ Len(a \o <<Step("close")>>) = 2 + 1
          /\ (a \o <<Step("close")>>)[2 + 1] = Step("close")
          /\ \A i \in 1 .. 2 : (a \o <<Step("close")>>)[i] = a[i]
      BY <1>3, <1>4, Snoc
    <2> QED
      BY <1>4, <2>1
  <1> HIDE DEF q
  <1>6. DOMAIN q = 1 .. 3
    <2>1. DOMAIN q = 1 .. Len(q)
      BY <1>5
    <2> QED
      BY <1>5, <2>1
  <1> QED
    BY <1>1, <1>2, <1>5, <1>6

(* `info`: each part of it in a channel of its own.                        *)
LEMMA InfoGood == \A fmt \in Format : AllGood(InfoCommands(fmt))
  <1> SUFFICES ASSUME NEW fmt \in Format PROVE AllGood(InfoCommands(fmt))
    OBVIOUS
  <1>1. PICK c \in StepType :
          /\ c.do = "call" /\ c.effect = "read" /\ c.error = "fails"
          /\ GetServerInfo \in Seq(StepType) /\ Len(GetServerInfo) = 3
          /\ GetServerInfo[1] = Step("connect") /\ GetServerInfo[2] = c /\ GetServerInfo[3] = Step("close")
    BY ServerInfoSteps
  <1>2. Step("print") \in StepType
    BY StepIs DEF Do
  <1> DEFINE q == GetServerInfo \o <<Step("print")>>
  <1>3. q \in Seq(StepType) /\ Len(q) = 4 /\ q[4] = Step("print") /\ \A i \in 1 .. 3 : q[i] = GetServerInfo[i]
    <2>1. PICK n \in Nat : n = 3
      OBVIOUS
    <2>2. /\ q \in Seq(StepType) /\ Len(q) = n + 1 /\ q[n + 1] = Step("print")
          /\ \A i \in 1 .. n : q[i] = GetServerInfo[i]
      BY <1>1, <1>2, <2>1, Snoc
    <2> HIDE DEF q
    <2>3. n + 1 = 4
      BY <2>1
    <2> QED
      BY <2>1, <2>2, <2>3
  <1>4. q = RunInfo
    BY DEF RunInfo, Emit
  <1> HIDE DEF q
  <1>5. /\ DOMAIN q = 1 .. 4
        /\ q[1].do = "connect" /\ q[2].do = "call" /\ q[3].do = "close" /\ q[4].do = "print"
        /\ \A i \in DOMAIN q : /\ i = 1 \/ i = 2 \/ i = 3 \/ i = 4
                               /\ q[i].error = "fails" /\ q[i].effect \in {"none", "read"}
    <2>1. DOMAIN q = 1 .. 4 /\ q[1] = Step("connect") /\ q[2] = c /\ q[3] = Step("close") /\ q[4] = Step("print")
      <3>1. DOMAIN q = 1 .. Len(q)
        BY <1>3
      <3> QED
        BY <1>1, <1>3, <3>1
    <2>2. \A i \in DOMAIN q : i = 1 \/ i = 2 \/ i = 3 \/ i = 4
      BY <2>1
    <2>3. /\ Step("connect").do = "connect" /\ Step("connect").error = "fails" /\ Step("connect").effect = "none"
          /\ Step("close").do = "close" /\ Step("close").error = "fails" /\ Step("close").effect = "none"
          /\ Step("print").do = "print" /\ Step("print").error = "fails" /\ Step("print").effect = "none"
      BY StepFields DEF Do
    <2> QED
      BY <1>1, <2>1, <2>2, <2>3
  <1>6. \A words : Coherent(words, fmt, q)
    <2>1. \A j \in DOMAIN q : /\ q[j].do \notin {"choose", "refuse", "prompt", "show", "await", "open"}
                              /\ q[j].error = "fails" /\ q[j].effect # "act"
      BY <1>5
    <2> QED
      BY <1>3, <2>1, OrdinaryCoherent
  <1>7. Channelled(q, FALSE)
    <2>1. Inside(q, 2, FALSE)
      BY <1>5 DEF Inside
    <2> QED
      BY <1>5, <2>1 DEF Channelled
  <1>8. ToCome(q)
    BY <1>5 DEF ToCome
  <1>9. Good(fmt, RunInfo)
    BY <1>4, <1>6, <1>7, <1>8 DEF Good, CommandOK, StepsOK, DocumentDue
  <1> QED
    BY <1>9, Made DEF InfoCommands

(* What is caught is the same but for its errors.                          *)
LEMMA CaughtSteps ==
  ASSUME NEW s \in Seq(StepType), NEW e \in OnError
  PROVE  /\ Caught(s, e) \in Seq(StepType) /\ Len(Caught(s, e)) = Len(s)
         /\ \A i \in 1 .. Len(s) : /\ Caught(s, e)[i].error = e
                                   /\ Caught(s, e)[i].do = s[i].do
                                   /\ Caught(s, e)[i].effect = s[i].effect
  <1>1. \A x \in StepType : /\ [x EXCEPT !.error = e] \in StepType
                            /\ [x EXCEPT !.error = e].error = e
                            /\ [x EXCEPT !.error = e].do = x.do
                            /\ [x EXCEPT !.error = e].effect = x.effect
    BY DEF StepType
  <1>2. DOMAIN s = 1 .. Len(s) /\ Len(s) \in Nat /\ \A i \in 1 .. Len(s) : s[i] \in StepType
    OBVIOUS
  <1>3. \A i \in 1 .. Len(s) : [s[i] EXCEPT !.error = e] \in StepType
    BY <1>1, <1>2
  <1>4. Caught(s, e) = [i \in 1 .. Len(s) |-> [s[i] EXCEPT !.error = e]]
    BY <1>2 DEF Caught
  <1>5. Caught(s, e) \in Seq(StepType) /\ Len(Caught(s, e)) = Len(s)
    BY <1>2, <1>3, <1>4
  <1>6. \A i \in 1 .. Len(s) : Caught(s, e)[i] = [s[i] EXCEPT !.error = e]
    BY <1>4
  <1>7. \A i \in 1 .. Len(s) : /\ [s[i] EXCEPT !.error = e].error = e
                               /\ [s[i] EXCEPT !.error = e].do = s[i].do
                               /\ [s[i] EXCEPT !.error = e].effect = s[i].effect
    BY <1>1, <1>2
  <1> QED
    BY <1>5, <1>6, <1>7

(* `shutdown`: what goes wrong after the call was made is dropped.         *)
LEMMA ShutdownGood == AllGood(ShutdownCommands)
  <1>0. "human" \in Format
    BY DEF Format
  <1>1. PICK c \in StepType :
          /\ c.do = "call" /\ c.effect = "read" /\ c.error = "fails"
          /\ GetServerInfo \in Seq(StepType) /\ Len(GetServerInfo) = 3
          /\ GetServerInfo[1] = Step("connect") /\ GetServerInfo[2] = c /\ GetServerInfo[3] = Step("close")
    BY ServerInfoSteps
  <1>2. PICK w \in StepType : LifecycleClient.shutdown = <<w>> /\ w.do = "call" /\ w.effect = "write"
    <2>1. "Shutdown" \in Rpc /\ "write" \in Effect
      BY DEF Rpc, Effect
    <2> QED
      BY <2>1, CallIs DEF LifecycleClient, Write
  <1> DEFINE g == Caught(GetServerInfo, "quiet")
             v == Within(<<w>>)
             d == Caught(v, "dropped")
             q == g \o d \o Emit
  <1>3. /\ v \in Seq(StepType) /\ Len(v) = 3 /\ v[1] = Step("open") /\ v[2] = w /\ v[3] = Step("close")
    <2>1. PICK n \in Nat : n = 1
      OBVIOUS
    <2>2. <<w>> \in Seq(StepType) /\ Len(<<w>>) = n /\ <<w>>[1] = w
      BY <2>1, Single
    <2>3. /\ v \in Seq(StepType) /\ Len(v) = n + 2
          /\ v[1] = Step("open") /\ v[n + 2] = Step("close")
          /\ \A i \in 1 .. n : v[i + 1] = <<w>>[i]
      BY <2>2, InChannel
    <2> HIDE DEF v
    <2>4. v[1 + 1] = w
      BY <2>1, <2>2, <2>3
    <2>5. n + 2 = 3 /\ 1 + 1 = 2
      BY <2>1
    <2> QED
      BY <2>3, <2>4, <2>5
  <1>4. RunShutdown = q
    BY <1>2 DEF RunShutdown, Shutdown
  <1>5. "quiet" \in OnError /\ "dropped" \in OnError
    BY DEF OnError
  <1> HIDE DEF v
  <1>6. Step("connect").do = "connect" /\ Step("close").do = "close" /\ Step("open").do = "open"
        /\ Step("connect").effect = "none" /\ Step("close").effect = "none" /\ Step("open").effect = "none"
        /\ Step("print").do = "print" /\ Step("print").effect = "none" /\ Step("print").error = "fails"
    BY StepFields DEF Do
  <1>7. /\ g \in Seq(StepType) /\ Len(g) = 3
        /\ g[1].do = "connect" /\ g[2].do = "call" /\ g[3].do = "close"
        /\ g[1].effect = "none" /\ g[2].effect = "read" /\ g[3].effect = "none"
        /\ \A i \in 1 .. 3 : g[i].error = "quiet"
    <2>1. /\ g \in Seq(StepType) /\ Len(g) = Len(GetServerInfo)
          /\ \A i \in 1 .. Len(GetServerInfo) : /\ g[i].error = "quiet" /\ g[i].do = GetServerInfo[i].do
                                               /\ g[i].effect = GetServerInfo[i].effect
      BY <1>1, <1>5, CaughtSteps
    <2> HIDE DEF g
    <2> QED
      BY <1>1, <1>6, <2>1
  <1>8. /\ d \in Seq(StepType) /\ Len(d) = 3
        /\ d[1].do = "open" /\ d[2].do = "call" /\ d[3].do = "close"
        /\ d[1].effect = "none" /\ d[2].effect = "write" /\ d[3].effect = "none"
        /\ \A i \in 1 .. 3 : d[i].error = "dropped"
    <2>1. /\ d \in Seq(StepType) /\ Len(d) = Len(v)
          /\ \A i \in 1 .. Len(v) : /\ d[i].error = "dropped" /\ d[i].do = v[i].do
                                    /\ d[i].effect = v[i].effect
      <3>1. v \in Seq(StepType)
        BY <1>3
      <3> QED
        BY <3>1, <1>5, CaughtSteps
    <2> HIDE DEF d
    <2> QED
      BY <1>2, <1>3, <1>6, <2>1
  <1> HIDE DEF g, d
  <1>9. /\ q \in Seq(StepType) /\ Len(q) = 7 /\ \A i \in 1 .. 3 : q[i] = g[i] /\ q[i + 3] = d[i]
        /\ q[7] = Step("print")
    <2> DEFINE r == g \o d
    <2>1. /\ r \in Seq(StepType) /\ Len(r) = 6 /\ \A i \in 1 .. 3 : r[i] = g[i] /\ r[i + 3] = d[i]
      <3>1. /\ g \o d \in Seq(StepType) /\ Len(g \o d) = Len(g) + Len(d)
            /\ \A i \in 1 .. Len(g) + Len(d) : (g \o d)[i] = IF i <= Len(g) THEN g[i] ELSE d[i - Len(g)]
        <4>1. g \in Seq(StepType) /\ d \in Seq(StepType)
          BY <1>7, <1>8
        <4> HIDE DEF q, r
        <4> QED
          BY <4>1, ConcatProperties
      <3>2. \A i \in 1 .. 6 : (g \o d)[i] = IF i <= 3 THEN g[i] ELSE d[i - 3]
        BY <1>7, <1>8, <3>1
      <3>3. \A i \in 1 .. 3 : i \in 1 .. 6 /\ i + 3 \in 1 .. 6 /\ i <= 3 /\ ~(i + 3 <= 3) /\ (i + 3) - 3 = i
        OBVIOUS
      <3> QED
        BY <1>7, <1>8, <3>1, <3>2, <3>3
    <2>2. q = r \o <<Step("print")>> /\ Step("print") \in StepType
      BY StepIs DEF Emit, Do
    <2> HIDE DEF r, q
    <2>3. PICK n \in Nat : n = 6
      OBVIOUS
    <2>30. Len(r) = n /\ r \in Seq(StepType)
      BY <2>1, <2>3
    <2>4. /\ r \o <<Step("print")>> \in Seq(StepType) /\ Len(r \o <<Step("print")>>) = n + 1
          /\ (r \o <<Step("print")>>)[n + 1] = Step("print")
          /\ \A i \in 1 .. n : (r \o <<Step("print")>>)[i] = r[i]
      BY <2>2, <2>30, Snoc
    <2>5. n + 1 = 7 /\ \A i \in 1 .. 3 : i \in 1 .. n /\ i + 3 \in 1 .. n
      BY <2>3
    <2>6. q \in Seq(StepType) /\ Len(q) = 7 /\ q[7] = Step("print") /\ \A i \in 1 .. n : q[i] = r[i]
      BY <2>2, <2>4, <2>5
    <2> QED
      BY <2>1, <2>5, <2>6
  <1> HIDE DEF q
  <1>10. /\ DOMAIN q = 1 .. 7
         /\ q[1].do = "connect" /\ q[2].do = "call" /\ q[3].do = "close" /\ q[4].do = "open"
         /\ q[5].do = "call" /\ q[6].do = "close" /\ q[7].do = "print"
         /\ \A i \in 1 .. 3 : q[i].error = "quiet" /\ q[i].effect # "act"
         /\ \A i \in 4 .. 6 : q[i].error = "dropped" /\ q[i].effect # "act"
         /\ q[7].error = "fails" /\ q[7].effect = "none"
    <2>1. q[1 + 3] = d[1] /\ q[2 + 3] = d[2] /\ q[3 + 3] = d[3] /\ q[1] = g[1] /\ q[2] = g[2] /\ q[3] = g[3]
      BY <1>9
    <2>2. 1 + 3 = 4 /\ 2 + 3 = 5 /\ 3 + 3 = 6
      OBVIOUS
    <2>3. q[4] = d[1] /\ q[5] = d[2] /\ q[6] = d[3]
      BY <2>1, <2>2
    <2>4. DOMAIN q = 1 .. Len(q)
      BY <1>9
    <2>5. \A i \in 1 .. 3 : i = 1 \/ i = 2 \/ i = 3
      OBVIOUS
    <2>6. \A i \in 4 .. 6 : i = 4 \/ i = 5 \/ i = 6
      OBVIOUS
    <2>7. \A i \in 1 .. 3 : q[i].error = "quiet" /\ q[i].effect # "act"
      BY <1>7, <1>9, <2>1, <2>5
    <2>8. \A i \in 4 .. 6 : q[i].error = "dropped" /\ q[i].effect # "act"
      BY <1>8, <2>3, <2>6
    <2> QED
      BY <1>6, <1>7, <1>8, <1>9, <2>1, <2>3, <2>4, <2>7, <2>8
  <1>11. \A i \in DOMAIN q : i \in 1 .. 3 \/ i \in 4 .. 6 \/ i = 7
    BY <1>10
  <1>12. \A i \in DOMAIN q : /\ q[i].do \in {"connect", "call", "close", "open", "print"}
                             /\ q[i].do = "open" => i = 4
                             /\ q[i].do = "connect" => i = 1
                             /\ q[i].do = "print" => i = 7
                             /\ q[i].do = "call" => i = 2 \/ i = 5
                             /\ q[i].effect # "act"
                             /\ q[i].error \in {"quiet", "dropped", "fails"}
                             /\ q[i].error = "quiet" => i <= 3
                             /\ q[i].error = "dropped" <=> 3 < i /\ i < 7
    <2>1. \A i \in DOMAIN q : i = 1 \/ i = 2 \/ i = 3 \/ i = 4 \/ i = 5 \/ i = 6 \/ i = 7
      BY <1>10
    <2> QED
      BY <1>10, <2>1
  <1>13. RefusesFirst(q) /\ PromptsOnly("human", q) /\ LinesStay(q) /\ JsonStrict("human", q)
    BY <1>12 DEF RefusesFirst, PromptsOnly, LinesStay, JsonStrict
  <1>14. DropsLast(q)
    BY <1>10, <1>12 DEF DropsLast
  <1>15. PrintsLast(q)
    BY <1>10, <1>12 DEF PrintsLast
  <1>16. NumbersOnly(q) /\ AwaitsOnly(q) /\ \A words : ChoosesListed(words, q)
    BY <1>12 DEF NumbersOnly, AwaitsOnly, ChoosesListed
  <1>17. OneChannel(q)
    BY <1>10, <1>12 DEF OneChannel, Opening
  <1>18. Channelled(q, FALSE)
    <2>1. Inside(q, 2, FALSE)
      <3>1. 1 \in DOMAIN q /\ \A k \in DOMAIN q : ~(1 < k /\ k < 2)
        BY <1>10
      <3> QED
        BY <1>10, <3>1 DEF Inside
    <2>2. Inside(q, 5, FALSE)
      <3>1. 4 \in DOMAIN q /\ \A k \in DOMAIN q : ~(4 < k /\ k < 5)
        BY <1>10
      <3> QED
        BY <1>10, <3>1 DEF Inside
    <2> QED
      BY <1>12, <2>1, <2>2 DEF Channelled
  <1>19. Good("human", RunShutdown)
    BY <1>4, <1>9, <1>13, <1>14, <1>15, <1>16, <1>17, <1>18, FewSteps DEF Good, Coherent
  <1> QED
    BY <1>0, <1>19, Made DEF ShutdownCommands

(* What every command of the table keeps to.                               *)
LEMMA TableGood == AllGood(AllCommands)
  <1>1. ASSUME NEW fmt \in Format PROVE AllGood(CommandModules(fmt))
    <2>1. /\ AllGood(WorldCommands(fmt)) /\ AllGood(SessionCommands(fmt)) /\ AllGood(DashCommands(fmt))
          /\ AllGood(DisplayCommands(fmt)) /\ AllGood(CursorCommands(fmt)) /\ AllGood(ContextMenuCommands(fmt))
          /\ AllGood(ContactCommands(fmt)) /\ AllGood(AuthCommands(fmt)) /\ AllGood(GrabberCommands(fmt))
          /\ AllGood(InventoryCommands) /\ AllGood(PingCommands(fmt)) /\ AllGood(WaitCommands)
          /\ AllGood(InfoCommands(fmt)) /\ AllGood(ShutdownCommands) /\ AllGood(HostCommands(fmt))
          /\ AllGood(ScreenshotCommands)
      BY WorldGood, SessionGood, DashGood, DisplayGood, CursorGood, ContextMenuGood, ContactGood, AuthGood,
         GrabberGood, InventoryGood, PingGood, WaitGood, InfoGood, ShutdownGood, HostGood, ScreenshotGood
    <2> DEFINE F == {WorldCommands(fmt), SessionCommands(fmt), DashCommands(fmt), DisplayCommands(fmt),
         CursorCommands(fmt), ContextMenuCommands(fmt), ContactCommands(fmt), AuthCommands(fmt),
         GrabberCommands(fmt), InventoryCommands, PingCommands(fmt), WaitCommands,
         InfoCommands(fmt), ShutdownCommands, HostCommands(fmt), ScreenshotCommands}
    <2>2. \A S \in F : AllGood(S)
      BY <2>1
    <2>3. CommandModules(fmt) = UNION F
      BY DEF CommandModules
    <2> HIDE DEF F
    <2> QED
      BY <2>2, <2>3 DEF AllGood
  <1> QED
    BY <1>1, GoodUnion DEF AllCommands, Format

(* The lines of the shells.                                                *)
LineStep == {s \in StepType : /\ s.do \in {"call", "raise", "print", "file"}
                              /\ s.error \in {"fails", "prompt", "line", "totp"} /\ s.effect # "act"}

(* Steps of a line are steps of a line when their errors are caught.       *)
LEMMA CaughtLine ==
  ASSUME NEW s \in Seq(LineStep), NEW e \in {"prompt", "line"}
  PROVE  Caught(s, e) \in Seq(LineStep)
  <1>1. \A x \in LineStep : [x EXCEPT !.error = e] \in LineStep
    BY DEF LineStep, StepType, OnError
  <1>2. DOMAIN s = 1 .. Len(s) /\ Len(s) \in Nat /\ \A i \in 1 .. Len(s) : s[i] \in LineStep
    OBVIOUS
  <1>3. \A i \in 1 .. Len(s) : [s[i] EXCEPT !.error = e] \in LineStep
    BY <1>1, <1>2
  <1>4. Caught(s, e) = [i \in 1 .. Len(s) |-> [s[i] EXCEPT !.error = e]]
    BY <1>2 DEF Caught
  <1> QED
    BY <1>2, <1>3, <1>4

(* Each line that a shell understands is made of such steps.               *)
LEMMA MenuLines ==
  ASSUME NEW menu \in {"grabber", "inventory"}
  PROVE  Menu(menu) \subseteq Seq(LineStep)
  <1>1. \A b \in Seq(PlainStep) : b \in Seq(LineStep)
    BY DEF PlainStep, LineStep
  <1>2. <<Step("print")>> \in Seq(LineStep) /\ <<Step("file")>> \in Seq(LineStep)
    <2>1. Step("print") \in LineStep /\ Step("file") \in LineStep
      BY StepIs, StepFields DEF LineStep, Do
    <2> QED
      BY <2>1
  <1>3. \A a, b \in Seq(LineStep) : a \o b \in Seq(LineStep)
    OBVIOUS
  <1>4. \A b \in Seq(PlainStep) : b \o Emit \in Seq(LineStep)
    BY <1>1, <1>2, <1>3 DEF Emit
  <1>5. CASE menu = "grabber"
    <2>1. Menu(menu) = GrabberKeys
      BY <1>5 DEF Menu
    <2> QED
      BY <1>4, <2>1, GrabberMethods DEF GrabberKeys
  <1>6. CASE menu = "inventory"
    <2>1. Menu(menu) = InventoryLines \cup {ThumbLine, CompletePath}
      BY <1>6 DEF Menu
    <2>2. /\ InventoryClient["mkdir"] = Write("MakeDir") /\ InventoryClient["copy"] = Write("Copy")
          /\ InventoryClient["move"] = Write("Move") /\ InventoryClient["remove"] = Write("Remove")
          /\ InventoryClient["list"] = Read("List") /\ InventoryClient["spawn"] = Write("Spawn")
          /\ InventoryClient["fetch_thumbnail"] = Read("FetchThumbnail")
          /\ InventoryClient.list = Read("List") /\ InventoryClient.fetch_thumbnail = Read("FetchThumbnail")
      BY DEF InventoryClient
    <2>3. /\ \A m \in {"mkdir", "copy", "move", "remove", "list", "spawn"} : InventoryClient[m] \in Seq(PlainStep)
          /\ InventoryClient.list \in Seq(PlainStep) /\ InventoryClient.fetch_thumbnail \in Seq(PlainStep)
      <3>1. /\ Write("MakeDir") \in Seq(PlainStep) /\ Write("Copy") \in Seq(PlainStep)
            /\ Write("Move") \in Seq(PlainStep) /\ Write("Remove") \in Seq(PlainStep)
            /\ Read("List") \in Seq(PlainStep) /\ Write("Spawn") \in Seq(PlainStep)
            /\ Read("FetchThumbnail") \in Seq(PlainStep)
        BY Plain DEF Rpc
      <3> QED
        BY <2>2, <3>1
    <2>4. InventoryLines \subseteq Seq(LineStep)
      <3>1. \A m \in {"mkdir", "copy", "move", "remove"} : Caught(InventoryClient[m], "prompt") \in Seq(LineStep)
        BY <1>1, <2>3, CaughtLine
      <3>2. \A m \in {"list", "spawn"} : Caught(InventoryClient[m] \o Emit, "prompt") \in Seq(LineStep)
        BY <1>4, <2>3, CaughtLine
      <3>3. Caught(InventoryClient.list, "prompt") \in Seq(LineStep)
        BY <1>1, <2>3, CaughtLine
      <3> QED
        BY <3>1, <3>2, <3>3 DEF InventoryLines
    <2>5. ThumbLine \in Seq(LineStep)
      <3>1. InventoryClient.fetch_thumbnail \o <<Step("file")>> \in Seq(LineStep)
        BY <1>1, <1>2, <1>3, <2>3
      <3>2. InventoryClient.fetch_thumbnail \o <<Step("file")>> \o Emit \in Seq(LineStep)
        BY <1>2, <1>3, <3>1 DEF Emit
      <3> QED
        BY <3>2, CaughtLine DEF ThumbLine
    <2>6. CompletePath \in Seq(LineStep)
      BY <1>1, <2>3, CaughtLine DEF CompletePath
    <2> QED
      BY <2>1, <2>4, <2>5, <2>6
  <1> QED
    BY <1>5, <1>6

-----------------------------------------------------------------------------
(* What is left of the steps.                                              *)

(* r: q without its first d steps.                                         *)
Suffix(q, r, d) ==
  /\ q \in Seq(StepType) /\ r \in Seq(StepType) /\ d \in Nat /\ Len(r) + d = Len(q)
  /\ \A i \in 1 .. Len(r) : i + d \in 1 .. Len(q) /\ r[i] = q[i + d]

(* What is left of coherent steps is coherent.                             *)
LEMMA SuffixCoherent ==
  ASSUME NEW words, NEW fmt, NEW q, NEW r, NEW d, Suffix(q, r, d), Coherent(words, fmt, q)
  PROVE  Coherent(words, fmt, r)
  <1>1. PICK m \in Nat, n \in Nat : m = Len(r) /\ n = Len(q) /\ m + d = n /\ d \in Nat
    BY DEF Suffix
  <1>2. /\ r \in Seq(StepType) /\ DOMAIN r = 1 .. m /\ DOMAIN q = 1 .. n
        /\ \A i \in DOMAIN r : i + d \in DOMAIN q /\ r[i] = q[i + d]
    BY <1>1 DEF Suffix
  <1>3. \A i, j \in DOMAIN r : /\ i <= j <=> i + d <= j + d
                               /\ i < j <=> i + d < j + d
    BY <1>1, <1>2
  <1>4. RefusesFirst(r)
    BY <1>2, <1>3 DEF Coherent, RefusesFirst
  <1>5. PromptsOnly(fmt, r)
    BY <1>2, <1>3 DEF Coherent, PromptsOnly
  <1>6. DropsLast(r)
    BY <1>2, <1>3 DEF Coherent, DropsLast
  <1>7. LinesStay(r) /\ JsonStrict(fmt, r)
    BY <1>2, <1>3 DEF Coherent, LinesStay, JsonStrict
  <1>8. PrintsLast(r)
    BY <1>2, <1>3 DEF Coherent, PrintsLast
  <1>9. NumbersOnly(r) /\ AwaitsOnly(r)
    BY <1>2, <1>3 DEF Coherent, NumbersOnly, AwaitsOnly
  <1>10. ChoosesListed(words, r)
    <2> SUFFICES ASSUME NEW i \in DOMAIN r, r[i].do = "choose", i # 1
                 PROVE  /\ r[i - 1].do = "call" /\ r[i - 1].effect = "list"
                        /\ r[i - 1].error = "fails" /\ r[i - 1].lacking = "never"
                        /\ words = <<"dash", "tab">> \/ (r[i - 1].rpc = "ListControls" /\ ~r[i - 1].selector.all)
      BY DEF ChoosesListed
    <2>1. i - 1 \in DOMAIN r /\ (i - 1) + d = (i + d) - 1 /\ i + d # 1 /\ i + d \in DOMAIN q
      BY <1>1, <1>2
    <2>2. r[i] = q[i + d] /\ r[i - 1] = q[(i + d) - 1]
      BY <1>2, <2>1
    <2> QED
      BY <2>1, <2>2 DEF Coherent, ChoosesListed
  <1>11. OneChannel(r)
    <2> SUFFICES ASSUME NEW i \in DOMAIN r, NEW j \in DOMAIN r, i < j, r[i].do = "open", r[j].do \in Opening
                 PROVE  \E k \in DOMAIN r : i < k /\ k < j /\ r[k].do = "close"
      BY DEF OneChannel
    <2>1. i + d \in DOMAIN q /\ j + d \in DOMAIN q /\ i + d < j + d /\ q[i + d].do = "open" /\ q[j + d].do \in Opening
      BY <1>2, <1>3
    <2>2. PICK k \in DOMAIN q : i + d < k /\ k < j + d /\ q[k].do = "close"
      BY <2>1 DEF Coherent, OneChannel
    <2>3. k - d \in DOMAIN r /\ (k - d) + d = k /\ i < k - d /\ k - d < j
      BY <1>1, <1>2, <2>2
    <2> QED
      BY <1>2, <2>2, <2>3
  <1> QED
    BY <1>2, <1>4, <1>5, <1>6, <1>7, <1>8, <1>9, <1>10, <1>11 DEF Coherent

(* The channel, when the steps left out neither open nor close one.        *)
LEMMA SuffixChannelled ==
  ASSUME NEW q, NEW r, NEW d, Suffix(q, r, d), NEW on \in BOOLEAN, Channelled(q, on),
         \A k \in 1 .. d : q[k].do \notin {"open", "connect", "close"}
  PROVE  Channelled(r, on)
  <1>1. PICK m \in Nat, n \in Nat : m = Len(r) /\ n = Len(q) /\ m + d = n /\ d \in Nat
    BY DEF Suffix
  <1>2. /\ r \in Seq(StepType) /\ DOMAIN r = 1 .. m /\ DOMAIN q = 1 .. n
        /\ \A i \in DOMAIN r : i + d \in DOMAIN q /\ r[i] = q[i + d]
    BY <1>1 DEF Suffix
  <1> SUFFICES ASSUME NEW i \in DOMAIN r, r[i].do \in {"call", "prompt", "choose"} PROVE Inside(r, i, on)
    BY DEF Channelled
  <1>3. Inside(q, i + d, on)
    BY <1>2 DEF Channelled
  <1>4. CASE on /\ \A k \in DOMAIN q : k < i + d => q[k].do # "close"
    <2>1. ASSUME NEW k \in DOMAIN r, k < i PROVE r[k].do # "close"
      <3>1. k + d \in DOMAIN q /\ k + d < i + d /\ r[k] = q[k + d]
        BY <1>1, <1>2, <2>1
      <3> QED
        BY <1>4, <3>1
    <2> QED
      BY <1>4, <2>1 DEF Inside
  <1>5. ASSUME NEW j \in DOMAIN q, j < i + d, q[j].do \in {"open", "connect"},
               \A k \in DOMAIN q : j < k /\ k < i + d => q[k].do # "close"
        PROVE  Inside(r, i, on)
    <2>1. ~(j \in 1 .. d)
      BY <1>5
    <2>2. j - d \in DOMAIN r /\ (j - d) + d = j /\ j - d < i
      BY <1>1, <1>2, <1>5, <2>1
    <2>3. r[j - d] = q[j]
      BY <1>2, <2>2
    <2>4. ASSUME NEW k \in DOMAIN r, j - d < k, k < i PROVE r[k].do # "close"
      <3>1. k + d \in DOMAIN q /\ j < k + d /\ k + d < i + d /\ r[k] = q[k + d]
        BY <1>1, <1>2, <2>4
      <3> QED
        BY <1>5, <3>1
    <2> QED
      BY <1>5, <2>2, <2>3, <2>4 DEF Inside
  <1> QED
    BY <1>3, <1>4, <1>5 DEF Inside

(* The steps but for the first, by their places.                           *)
LEMMA TailSuffix ==
  ASSUME NEW q \in Seq(StepType), q # <<>>
  PROVE  /\ Suffix(q, Tail(q), 1) /\ 1 \in DOMAIN q /\ q[1] \in StepType
         /\ DOMAIN q = 1 .. Len(q) /\ Len(q) \in Nat /\ Len(Tail(q)) \in Nat /\ Len(Tail(q)) + 1 = Len(q)
         /\ DOMAIN Tail(q) = 1 .. Len(Tail(q))
         /\ \A i \in DOMAIN Tail(q) : i + 1 \in DOMAIN q /\ Tail(q)[i] = q[i + 1]
         /\ \A k \in DOMAIN q : k # 1 => k - 1 \in DOMAIN Tail(q) /\ Tail(q)[k - 1] = q[k]
  <1>1. /\ Tail(q) \in Seq(StepType) /\ Len(Tail(q)) = Len(q) - 1 /\ Len(q) \in Nat \ {0}
        /\ \A i \in 1 .. Len(Tail(q)) : Tail(q)[i] = q[i + 1]
    BY HeadTailProperties, EmptySeq
  <1>2. DOMAIN q = 1 .. Len(q) /\ DOMAIN Tail(q) = 1 .. Len(Tail(q))
    BY <1>1
  <1>3. \A i \in 1 .. Len(Tail(q)) : i + 1 \in 1 .. Len(q)
    BY <1>1
  <1>4. Len(Tail(q)) \in Nat /\ Len(Tail(q)) + 1 = Len(q)
    BY <1>1
  <1>5. Suffix(q, Tail(q), 1)
    BY <1>1, <1>3, <1>4 DEF Suffix
  <1>6. ASSUME NEW k \in DOMAIN q, k # 1 PROVE k - 1 \in DOMAIN Tail(q) /\ Tail(q)[k - 1] = q[k]
    <2>1. k - 1 \in 1 .. Len(Tail(q)) /\ (k - 1) + 1 = k
      BY <1>1, <1>2, <1>6
    <2> QED
      BY <1>1, <1>2, <2>1
  <1> QED
    BY <1>1, <1>2, <1>3, <1>4, <1>5, <1>6

(* A set of natural numbers has a least.                                   *)
LEMMA LeastNat ==
  ASSUME NEW T \in SUBSET Nat, T # {}
  PROVE  Min(T) \in T /\ \A n \in T : Min(T) <= n
  <1> DEFINE R == OpToRel(<, Nat)
  <1>1. PICK m \in T : \A n \in T : ~(<<n, m>> \in R)
    <2>1. IsWellFoundedOn(R, Nat)
      BY NatLessThanWellFounded
    <2> HIDE DEF R
    <2> QED
      BY <2>1, WFMin
  <1>2. \A x, y \in Nat : <<y, x>> \in R <=> y < x
    BY DEF OpToRel
  <1> HIDE DEF R
  <1>3. ASSUME NEW n \in T PROVE m <= n
    <2>1. m \in Nat /\ n \in Nat
      OBVIOUS
    <2>2. ~(n < m)
      BY <1>1, <1>2, <2>1
    <2> QED
      BY <2>1, <2>2
  <1>4. \E x \in T : \A y \in T : x <= y
    BY <1>3
  <1>5. Min(T) = CHOOSE x \in T : \A y \in T : x <= y
    BY DEF Min
  <1> HIDE DEF Min
  <1> QED
    BY <1>4, <1>5

(* The channel after the step that opens one, or closes it.                *)
LEMMA TailOpened ==
  ASSUME NEW q \in Seq(StepType), q # <<>>, NEW on \in BOOLEAN, Channelled(q, on)
  PROVE  /\ q[1].do \in {"open", "connect"} => Channelled(Tail(q), TRUE)
         /\ q[1].do = "close" => Channelled(Tail(q), FALSE)
         /\ q[1].do \notin {"open", "connect", "close"} => Channelled(Tail(q), on)
  <1> DEFINE r == Tail(q)
  <1>1. /\ Suffix(q, r, 1) /\ 1 \in DOMAIN q
        /\ DOMAIN q = 1 .. Len(q) /\ Len(q) \in Nat
        /\ \A i \in DOMAIN r : i + 1 \in DOMAIN q /\ r[i] = q[i + 1] /\ i \in Nat /\ 1 <= i
        /\ \A k \in DOMAIN q : k # 1 => k - 1 \in DOMAIN r /\ r[k - 1] = q[k]
    BY TailSuffix
  <1> HIDE DEF r
  <1>2. q[1].do \notin {"open", "connect", "close"} => Channelled(r, on)
    <2>1. 1 .. 1 = {1}
      OBVIOUS
    <2> QED
      BY <1>1, <2>1, SuffixChannelled
  <1>3. ASSUME NEW i \in DOMAIN r, r[i].do \in {"call", "prompt", "choose"}, NEW j \in DOMAIN q, j # 1,
               j < i + 1, q[j].do \in {"open", "connect"},
               \A k \in DOMAIN q : j < k /\ k < i + 1 => q[k].do # "close"
        PROVE  \A b \in BOOLEAN : Inside(r, i, b)
    <2>1. j - 1 \in DOMAIN r /\ r[j - 1] = q[j] /\ j - 1 < i
      BY <1>1, <1>3
    <2>2. \A k \in DOMAIN r : j - 1 < k /\ k < i => r[k].do # "close"
      <3>1. \A k \in DOMAIN r : j - 1 < k /\ k < i => j < k + 1 /\ k + 1 < i + 1
        BY <1>1, <1>3
      <3> QED
        BY <1>1, <1>3, <3>1
    <2> QED
      BY <1>3, <2>1, <2>2 DEF Inside
  <1>4. ASSUME q[1].do \in {"open", "connect"}, NEW i \in DOMAIN r, r[i].do \in {"call", "prompt", "choose"}
        PROVE  Inside(r, i, TRUE)
    <2>1. Inside(q, i + 1, on)
      BY <1>1, <1>4 DEF Channelled
    <2>2. CASE on /\ \A k \in DOMAIN q : k < i + 1 => q[k].do # "close"
      <3>1. \A k \in DOMAIN r : k < i => k + 1 < i + 1
        BY <1>1
      <3> QED
        BY <1>1, <2>2, <3>1 DEF Inside
    <2>3. ASSUME NEW j \in DOMAIN q, j < i + 1, q[j].do \in {"open", "connect"},
                 \A k \in DOMAIN q : j < k /\ k < i + 1 => q[k].do # "close"
          PROVE  Inside(r, i, TRUE)
      <3>1. CASE j = 1
        <4>1. \A k \in DOMAIN r : k < i => 1 < k + 1 /\ k + 1 < i + 1
          BY <1>1
        <4> QED
          BY <1>1, <2>3, <3>1, <4>1 DEF Inside
      <3> QED
        BY <1>3, <1>4, <2>3, <3>1
    <2> QED
      BY <2>1, <2>2, <2>3 DEF Inside
  <1>5. ASSUME q[1].do = "close", NEW i \in DOMAIN r, r[i].do \in {"call", "prompt", "choose"}
        PROVE  Inside(r, i, FALSE)
    <2>1. Inside(q, i + 1, on)
      BY <1>1, <1>5 DEF Channelled
    <2>2. 1 < i + 1
      BY <1>1
    <2>3. PICK j \in DOMAIN q : /\ j < i + 1 /\ q[j].do \in {"open", "connect"}
                                /\ \A k \in DOMAIN q : j < k /\ k < i + 1 => q[k].do # "close"
      BY <1>1, <1>5, <2>1, <2>2 DEF Inside
    <2>4. j # 1
      BY <1>5, <2>3
    <2> QED
      BY <1>3, <1>5, <2>3, <2>4
  <1> QED
    BY <1>2, <1>4, <1>5 DEF Channelled, r

(* What stands behind the try block of the first step.                     *)
LEMMA RemainingSuffix ==
  ASSUME NEW p, p.steps \in Seq(StepType), p.steps # <<>>, NEW e, p.steps[1].error = e
  PROVE  \E d \in Nat : /\ Suffix(p.steps, Remaining(p, e), d) /\ 1 <= d
                        /\ \A k \in 1 .. d : k \in DOMAIN p.steps /\ p.steps[k].error = e
                        /\ Remaining(p, e) # <<>> => d + 1 \in DOMAIN p.steps /\ p.steps[d + 1].error # e
  <1> DEFINE q == p.steps
             outside == {i \in DOMAIN q : q[i].error # e}
             r == Remaining(p, e)
  <1>0. PICK n \in Nat : n = Len(q) /\ DOMAIN q = 1 .. n /\ 1 <= n
    BY EmptySeq
  <1>1. CASE outside = {}
    <2>1. r = <<>>
      BY <1>1 DEF Remaining
    <2>2. Suffix(q, r, n)
      <3>1. <<>> \in Seq(StepType) /\ Len(<<>>) = 0 /\ 1 .. 0 = {}
        OBVIOUS
      <3>2. 0 + n = n
        OBVIOUS
      <3> QED
        BY <1>0, <2>1, <3>1, <3>2 DEF Suffix
    <2>3. \A k \in 1 .. n : k \in DOMAIN q /\ q[k].error = e
      BY <1>0, <1>1
    <2> QED
      BY <1>0, <2>1, <2>2, <2>3
  <1>2. CASE outside # {}
    <2>1. outside \in SUBSET Nat
      BY <1>0
    <2>2. PICK m \in outside : m = Min(outside) /\ \A i \in outside : m <= i
      BY <1>2, <2>1, LeastNat
    <2>3. r = SubSeq(q, m, n)
      BY <1>0, <1>2, <2>2 DEF Remaining
    <2>4. m \in 1 .. n /\ m # 1 /\ m - 1 \in Nat /\ 1 <= m - 1 /\ (m - 1) + 1 = m
      <3>1. m \in 1 .. n
        BY <1>0
      <3>2. m # 1
        <4>1. q[m].error # e
          OBVIOUS
        <4> QED
          BY <4>1
      <3> QED
        BY <1>0, <3>1, <3>2
    <2>5. /\ r \in Seq(StepType) /\ Len(r) = n - m + 1
          /\ \A i \in 1 .. n - m + 1 : r[i] = q[m + i - 1]
      <3>1. /\ SubSeq(q, m, n) \in Seq(StepType)
            /\ Len(SubSeq(q, m, n)) = IF m <= n THEN n - m + 1 ELSE 0
            /\ \A i \in 1 .. n - m + 1 : SubSeq(q, m, n)[i] = q[m + i - 1]
        BY <1>0, <2>4, SubSeqProperties
      <3> QED
        BY <2>3, <2>4, <3>1
    <2>6. Suffix(q, r, m - 1)
      <3>1. Len(r) + (m - 1) = n
        BY <1>0, <2>4, <2>5
      <3>2. \A i \in 1 .. Len(r) : i + (m - 1) \in 1 .. n /\ m + i - 1 = i + (m - 1) /\ i \in 1 .. n - m + 1
        BY <1>0, <2>4, <2>5
      <3> HIDE DEF r
      <3> QED
        BY <1>0, <2>4, <2>5, <3>1, <3>2 DEF Suffix
    <2>7. \A k \in 1 .. m - 1 : k \in DOMAIN q /\ q[k].error = e
      <3>1. \A k \in 1 .. m - 1 : k \in DOMAIN q /\ ~(m <= k)
        BY <1>0, <2>4
      <3> QED
        BY <2>2, <3>1
    <2>8. (m - 1) + 1 \in DOMAIN q /\ q[(m - 1) + 1].error # e
      BY <1>0, <2>2, <2>4
    <2> QED
      BY <2>4, <2>6, <2>7, <2>8
  <1> QED
    BY <1>1, <1>2

-----------------------------------------------------------------------------
(* Listings.                                                               *)

(* The enabled ones are among the items, and are enabled.                  *)
LEMMA EnabledOnes ==
  ASSUME NEW S, NEW p \in Seq(S)
  PROVE  /\ Enabled(p) \in Seq(S)
         /\ \A n \in 1 .. Len(Enabled(p)) : \E i \in DOMAIN p : p[i].enabled /\ Enabled(p)[n] = p[i]
  <1> DEFINE on == {i \in DOMAIN p : p[i].enabled}
             UpTo(i) == {j \in on : j <= i}
             rank == [i \in on |-> Cardinality(UpTo(i))]
             Place(n) == CHOOSE i \in on : Cardinality({j \in on : j <= i}) = n
             c == Cardinality(on)
  <1>1. PICK len \in Nat : DOMAIN p = 1 .. len
    OBVIOUS
  <1>2. IsFiniteSet(on) /\ c \in Nat
    <2>1. IsFiniteSet(1 .. len) /\ on \in SUBSET (1 .. len)
      BY <1>1, FS_Interval
    <2> QED
      BY <2>1, FS_Subset, FS_CardinalityType
  <1>3. ASSUME NEW i \in on
        PROVE  /\ IsFiniteSet(UpTo(i)) /\ Cardinality(UpTo(i)) \in 1 .. c
    <2>1. UpTo(i) \in SUBSET on /\ i \in UpTo(i)
      BY <1>1
    <2>2. IsFiniteSet(UpTo(i)) /\ Cardinality(UpTo(i)) <= c /\ Cardinality(UpTo(i)) \in Nat
      BY <1>2, <2>1, FS_Subset, FS_CardinalityType
    <2>3. Cardinality(UpTo(i)) # 0
      BY <2>1, <2>2, FS_EmptySet
    <2> QED
      BY <1>2, <2>2, <2>3
  <1>4. ASSUME NEW i \in on, NEW k \in on, i < k PROVE Cardinality(UpTo(i)) # Cardinality(UpTo(k))
    <2>1. UpTo(i) \in SUBSET UpTo(k) /\ k \in UpTo(k) /\ k \notin UpTo(i)
      BY <1>1, <1>4
    <2> HIDE DEF UpTo
    <2> QED
      BY <1>3, <2>1, FS_Subset
  <1>5. rank \in [on -> 1 .. c]
    BY <1>3
  <1>6. \A i, k \in on : rank[i] = rank[k] => i = k
    <2>1. \A i, k \in on : i # k => i < k \/ k < i
      BY <1>1
    <2> HIDE DEF UpTo
    <2> QED
      BY <1>4, <2>1
  <1>7. \A n \in 1 .. c : \E i \in on : rank[i] = n
    <2> HIDE DEF rank, on
    <2>1. rank \in Injection(on, 1 .. c)
      BY <1>5, <1>6 DEF Injection, IsInjective
    <2>2. IsFiniteSet(1 .. c) /\ Cardinality(1 .. c) = c
      BY <1>2, FS_Interval
    <2>3. rank \in Surjection(on, 1 .. c)
      BY <2>1, <2>2, FS_Injection
    <2> QED
      BY <2>3 DEF Surjection
  <1>8. ASSUME NEW n \in 1 .. c PROVE Place(n) \in on
    <2>1. \E i \in on : Cardinality({j \in on : j <= i}) = n
      BY <1>7
    <2> HIDE DEF on
    <2> QED
      BY <2>1
  <1>9. Enabled(p) = [n \in 1 .. c |-> p[Place(n)]]
    BY DEF Enabled
  <1> HIDE DEF Place, c
  <1>10. \A n \in 1 .. c : p[Place(n)] \in S /\ p[Place(n)].enabled /\ Place(n) \in DOMAIN p
    BY <1>8
  <1> HIDE DEF on
  <1>11. Enabled(p) \in Seq(S) /\ Len(Enabled(p)) = c
    BY <1>2, <1>9, <1>10
  <1>12. \A n \in 1 .. c : Enabled(p)[n] = p[Place(n)]
    BY <1>9
  <1> QED
    BY <1>10, <1>11, <1>12

(* If all are, they are the listing.                                       *)
LEMMA EnabledAll ==
  ASSUME NEW S, NEW p \in Seq(S), \A i \in DOMAIN p : p[i].enabled
  PROVE  Enabled(p) = p
  <1> DEFINE on == {i \in DOMAIN p : p[i].enabled}
             Place(n) == CHOOSE i \in on : Cardinality({j \in on : j <= i}) = n
             c == Cardinality(on)
  <1>1. PICK len \in Nat : DOMAIN p = 1 .. len
    OBVIOUS
  <1>2. on = 1 .. len
    BY <1>1
  <1>3. c = len
    <2>1. Cardinality(1 .. len) = len
      BY <1>1, FS_Interval
    <2> QED
      BY <1>2, <2>1
  <1>4. ASSUME NEW i \in 1 .. len PROVE Cardinality({j \in on : j <= i}) = i
    <2>1. {j \in on : j <= i} = 1 .. i
      BY <1>2, <1>4
    <2>2. Cardinality(1 .. i) = i
      BY <1>4, FS_Interval
    <2> QED
      BY <2>1, <2>2
  <1>5. Enabled(p) = [n \in 1 .. c |-> p[Place(n)]]
    BY DEF Enabled
  <1>6. ASSUME NEW n \in 1 .. len PROVE Place(n) = n
    <2>1. Place(n) \in on /\ Cardinality({j \in on : j <= Place(n)}) = n
      <3>1. \E i \in on : Cardinality({j \in on : j <= i}) = n
        BY <1>2, <1>4, <1>6
      <3> HIDE DEF on
      <3> QED
        BY <3>1
    <2>2. Cardinality({j \in on : j <= Place(n)}) = Place(n)
      BY <1>2, <1>4, <2>1
    <2> QED
      BY <2>1, <2>2
  <1> HIDE DEF Place, c, on
  <1>7. Enabled(p) = [n \in 1 .. len |-> p[n]]
    BY <1>3, <1>5, <1>6
  <1>8. p = [n \in 1 .. len |-> p[n]]
    BY <1>1
  <1> QED
    BY <1>7, <1>8

(* Listings are sequences of items, and nothing is an item with a ref_id   *)
(* of its own.                                                             *)
LEMMA ListingsAre ==
  /\ NoItem \in Items /\ 0 \in Refs /\ \A i \in Items : i.ref \in Refs
  /\ \A l \in AnyListing : l \in Seq(Items)
  /\ \A p \in Panels : p \in Seq(Items) /\ p \in AnyListing /\ Enabled(p) \in AnyListing
  <1>1. NoItem \in Items /\ NoItem.ref = 0
    BY DEF Items, NoItem
  <1>2. \A i \in Items : i.ref \in Refs
    BY DEF Refs
  <1>3. ASSUME NEW p \in Panels PROVE p \in Seq(Items) /\ Enabled(p) \in Seq(Items)
    <2>1. PICK n \in Nat : n = Len(p) /\ DOMAIN p = 1 .. n
      BY CommandsAssumption
    <2>2. \A i \in DOMAIN p : p[i] \in Items
      BY DEF Items
    <2>3. p = [i \in 1 .. n |-> p[i]]
      BY <2>1, CommandsAssumption
    <2>4. [i \in 1 .. n |-> p[i]] \in Seq(Items)
      BY <2>1, <2>2
    <2> QED
      BY <2>3, <2>4, EnabledOnes
  <1>4. <<>> \in Seq(Items)
    OBVIOUS
  <1> QED
    BY <1>1, <1>2, <1>3, <1>4 DEF AnyListing

(* What a selector resolves to is an item, and for an index the one in its *)
(* place.                                                                  *)
LEMMA Resolves ==
  ASSUME NEW l \in Seq(Items), NEW s \in SelectorType
  PROVE  /\ ResolveSelector(l, s) \in Items
         /\ s.by = "index" /\ s.at < Len(l) => ResolveSelector(l, s) = l[s.at + 1]
  <1>1. s.at \in Nat /\ Len(l) \in Nat /\ DOMAIN l = 1 .. Len(l) /\ \A i \in 1 .. Len(l) : l[i] \in Items
    BY DEF SelectorType
  <1>2. CASE s.by = "index"
    <2>1. s.at < Len(l) => s.at + 1 \in 1 .. Len(l)
      BY <1>1
    <2> QED
      BY <1>1, <1>2, <2>1, ListingsAre DEF ResolveSelector
  <1>3. CASE s.by # "index"
    <2> DEFINE At(stages) == Named(l, s.key, stages)
    <2>1. \A stages : At(stages) \in SUBSET DOMAIN l
      BY DEF Named
    <2>2. \A stages : At(stages) # {} => l[Min(At(stages))] \in Items
      <3>1. \A stages : At(stages) \in SUBSET Nat
        BY <1>1, <2>1
      <3> HIDE DEF At
      <3>2. \A stages : At(stages) # {} => Min(At(stages)) \in At(stages)
        BY <3>1, LeastNat
      <3> QED
        BY <1>1, <2>1, <3>2
    <2>3. \A stages : Cardinality(At(stages)) = 1 => At(stages) # {}
      <3>1. Cardinality({}) = 0
        BY FS_EmptySet
      <3>2. \A S : S = {} => Cardinality(S) = 0
        BY <3>1, Zenon
      <3>3. \A S : Cardinality(S) = 1 => S # {}
        BY <3>2
      <3> QED
        BY <3>3
    <2>4. ResolveOne(l, s.key) \in Items
      <3>1. ResolveOne(l, s.key) =
              IF At({"exact"}) # {} THEN l[Min(At({"exact"}))]
              ELSE IF Cardinality(At({"exact", "folded"})) = 1 THEN l[Min(At({"exact", "folded"}))]
              ELSE IF Cardinality(At({"exact", "folded", "part"})) = 1
                   THEN l[Min(At({"exact", "folded", "part"}))]
              ELSE NoItem
        BY DEF ResolveOne
      <3> HIDE DEF At
      <3> QED
        BY <2>2, <2>3, <3>1, ListingsAre
    <2> QED
      BY <1>3, <2>4 DEF ResolveSelector
  <1> QED
    BY <1>2, <1>3

-----------------------------------------------------------------------------
(* What an action does to the process.                                     *)

(* The process ends.                                                       *)
LEMMA EndsSound ==
  ASSUME NEW p, NEW shown, NEW items, Sound(p, shown, items), p.status = "running",
         NEW st \in {"0", "1", "2", "130"}, NEW n \in 0 .. 2,
         st = "2" => \A s \in p.sent : s.effect \notin Changing,
         p.fmt = "json" => /\ st = "0" => n = 1
                           /\ st \in {"1", "2"} => n = 0
  PROVE  Sound([Ended(p, st) EXCEPT !.docs = n], shown, items)
  <1> DEFINE r == [Ended(p, st) EXCEPT !.docs = n]
  <1>1. p \in Process
    BY DEF Sound, ProcInv
  <1>2. /\ r \in Process
        /\ r.words = p.words /\ r.fmt = p.fmt /\ r.inner = p.inner /\ r.named = p.named /\ r.socket = p.socket
        /\ r.to = NoEngine /\ r.probing = FALSE /\ r.sending = FALSE /\ r.steps = <<>>
        /\ r.chosen = p.chosen /\ r.meant = p.meant /\ r.docs = n /\ r.sent = p.sent /\ r.status = st
    <2>1. NoEngine \in EngineRef /\ "" \in {"", "grabber", "inventory"} /\ <<>> \in Seq(StepType) /\ st \in Status
      BY DEF EngineRef, Status
    <2> QED
      BY <1>1, <2>1 DEF Process, Ended
  <1> HIDE DEF r
  <1>3. ProcInv(r)
    BY <1>2 DEF ProcInv, EndedInv
  <1>4. NamedInv(r)
    BY <1>2 DEF Sound, NamedInv
  <1>5. ListingInv(r, shown, items)
    BY <1>2 DEF Sound, ListingInv
  <1> QED
    BY <1>2, <1>3, <1>4, <1>5 DEF Sound, Harmless, Documented, r

(* The process ends with what it has printed.                              *)
LEMMA EndedSound ==
  ASSUME NEW p, NEW shown, NEW items, Sound(p, shown, items), p.status = "running",
         NEW st \in {"0", "1", "2", "130"},
         st = "2" => \A s \in p.sent : s.effect \notin Changing,
         p.fmt = "json" => /\ st = "0" => p.docs = 1
                           /\ st \in {"1", "2"} => p.docs = 0
  PROVE  Sound(Ended(p, st), shown, items)
  <1>1. p \in Process
    BY DEF Sound, ProcInv
  <1>2. p.docs \in 0 .. 2 /\ [Ended(p, st) EXCEPT !.docs = p.docs] = Ended(p, st)
    BY <1>1 DEF Process, Ended
  <1>3. Sound([Ended(p, st) EXCEPT !.docs = p.docs], shown, items)
    BY <1>2, EndsSound
  <1> QED
    BY <1>2, <1>3

(* What a running command keeps, whatever it does.                         *)
Same(p, r) ==
  /\ r \in Process /\ r.words = p.words /\ r.fmt = p.fmt /\ r.inner = p.inner /\ r.named = p.named
  /\ r.socket = p.socket /\ r.status = "running" /\ r.sent = p.sent

(* Where a channel may lead.                                               *)
Leading(p, r) ==
  \/ r.to \in {p.to, NoEngine}
  \/ r.to \in Engine /\ (p.socket # NoEngine => r.to = p.socket)

(* The engine stays the named one.                                         *)
LEMMA SameNamed ==
  ASSUME NEW p, NEW r, NamedInv(p), Same(p, r), Leading(p, r)
  PROVE  NamedInv(r)
  BY DEF Same, Leading, NamedInv

(* The invariant of a running process, in its parts.                       *)
LEMMA SoundParts ==
  ASSUME NEW p, NEW shown, NEW items, Sound(p, shown, items), p.status = "running"
  PROVE  /\ p \in Process /\ Coherent(p.words, p.fmt, p.steps) /\ Channelled(p.steps, p.to # NoEngine)
         /\ Printing(p) /\ Refusing(p) /\ Numbering(p) /\ Calling(p) /\ NamedInv(p)
         /\ ListingInv(p, shown, items) /\ p.steps \in Seq(StepType) /\ p.docs \in 0 .. 2
  BY DEF Sound, ProcInv, RunningInv, Going, Process

(* A running process that keeps all the parts keeps the invariant.         *)
LEMMA SoundFrom ==
  ASSUME NEW r, NEW shown, NEW items, r \in Process, r.status = "running",
         Coherent(r.words, r.fmt, r.steps), Channelled(r.steps, r.to # NoEngine),
         Printing(r), Refusing(r), Numbering(r), Calling(r), NamedInv(r), ListingInv(r, shown, items)
  PROVE  Sound(r, shown, items)
  BY DEF Sound, ProcInv, RunningInv, Going, Harmless, Documented

(* A step is done, and the rest is left.                                   *)
LEMMA RestSound ==
  ASSUME NEW p, NEW shown, NEW items, Sound(p, shown, items), p.status = "running", p.steps # <<>>,
         NEW r, Same(p, r), r.steps = Tail(p.steps), ~r.sending, NEW do, do = p.steps[1].do, do # "refuse",
         \/ r.to = p.to /\ do \notin {"open", "connect", "close"}
         \/ do \in {"open", "connect"} /\ r.to \in Engine /\ (p.socket # NoEngine => r.to = p.socket)
         \/ do \in {"close", "await"} /\ r.to = NoEngine,
         r.probing => do = "open" \/ (p.probing /\ do # "close" /\ r.to = p.to),
         \/ r.docs = p.docs /\ do # "print"
         \/ do = "print" /\ (p.docs = 0 => r.docs = 1)
         \/ do = "show",
         \/ r.meant = p.meant /\ r.chosen = p.chosen
         \/ do = "choose" /\ (r.meant # 0 /\ ~shown.all => r.chosen.ref = r.meant),
         do = "call" /\ p.steps[1].effect = "list" /\ p.steps[1].lacking = "never"
           /\ p.steps[1].rpc = "ListControls" /\ ~p.steps[1].selector.all => r.listing = Enabled(items)
  PROVE  Sound(r, shown, items)
  <1> DEFINE q == p.steps
             t == Tail(p.steps)
  <1>1. /\ p \in Process /\ Coherent(p.words, p.fmt, q) /\ Channelled(q, p.to # NoEngine)
        /\ Printing(p) /\ Refusing(p) /\ Numbering(p) /\ Calling(p) /\ NamedInv(p)
        /\ ListingInv(p, shown, items) /\ q \in Seq(StepType) /\ p.docs \in 0 .. 2
    BY SoundParts
  <1>2. /\ Suffix(q, t, 1) /\ 1 \in DOMAIN q
        /\ DOMAIN q = 1 .. Len(q) /\ Len(q) \in Nat
        /\ \A i \in DOMAIN t : i + 1 \in DOMAIN q /\ t[i] = q[i + 1] /\ i \in Nat /\ 1 <= i
        /\ \A k \in DOMAIN q : k # 1 => k - 1 \in DOMAIN t /\ t[k - 1] = q[k]
    BY <1>1, TailSuffix
  <1>3. /\ q[1].do = do /\ r.steps = t /\ r.words = p.words /\ r.fmt = p.fmt /\ r.sent = p.sent
        /\ r \in Process /\ r.status = "running"
    BY DEF Same
  <1>4. Coherent(r.words, r.fmt, t)
    BY <1>1, <1>2, <1>3, SuffixCoherent
  <1>5. Channelled(t, r.to # NoEngine)
    <2>1. CASE r.to = p.to /\ do \notin {"open", "connect", "close"}
      BY <1>1, <1>3, <2>1, TailOpened
    <2>2. CASE do \in {"open", "connect"} /\ r.to \in Engine
      BY <1>1, <1>3, <2>2, TailOpened, CommandsAssumption
    <2>3. CASE do = "close" /\ r.to = NoEngine
      BY <1>1, <1>3, <2>3, TailOpened
    <2>4. CASE do = "await"
      <3>1. \A i \in DOMAIN q : q[i].do \notin {"call", "prompt", "choose"}
        BY <1>1, <1>2, <1>3, <2>4 DEF Coherent, AwaitsOnly
      <3> QED
        BY <1>2, <3>1 DEF Channelled
    <2> QED
      BY <2>1, <2>2, <2>3, <2>4
  <1> HIDE DEF q, t
  <1>6. Printing(r)
    <2>1. ASSUME NEW i \in DOMAIN t, t[i].do = "show" \/ t[i].error = "quiet" PROVE r.docs = 0
      <3>1. i + 1 \in DOMAIN q /\ 1 <= i + 1 /\ 1 < i + 1
        BY <1>2
      <3>2. q[i + 1].do = "show" \/ q[i + 1].error = "quiet"
        BY <1>2, <2>1
      <3>3. q[1].do # "print" /\ q[1].do # "show"
        BY <1>1, <1>2, <3>1, <3>2 DEF Coherent, PrintsLast
      <3>4. p.docs = 0
        BY <1>1, <3>1, <3>2 DEF Printing, q
      <3> QED
        BY <1>3, <3>3, <3>4
    <2>2. ASSUME r.fmt = "json" PROVE DocumentDue(t, r.docs)
      <3>1. DocumentDue(q, p.docs)
        BY <1>1, <1>3, <2>2 DEF Printing, q
      <3>2. q[1].do # "show"
        BY <1>1, <1>2, <1>3, <2>2 DEF Coherent, JsonStrict
      <3>3. CASE p.docs = 0 /\ ToCome(q)
        <4>1. PICK i \in DOMAIN q : /\ q[i].do = "print"
                                    /\ \A j \in DOMAIN q : /\ j < i => q[j].do # "print"
                                                           /\ i < j => q[j].do = "close"
          BY <3>3 DEF ToCome
        <4>2. CASE i = 1
          <5>1. r.docs = 1
            BY <1>3, <3>3, <4>1, <4>2
          <5>2. ASSUME NEW j \in DOMAIN t PROVE t[j].do = "close"
            <6>1. j + 1 \in DOMAIN q /\ i < j + 1
              BY <1>2, <4>2
            <6> QED
              BY <1>2, <4>1, <6>1
          <5> QED
            BY <5>1, <5>2 DEF DocumentDue
        <4>3. CASE i # 1
          <5>1. i - 1 \in DOMAIN t /\ t[i - 1] = q[i] /\ 1 < i
            BY <1>2, <4>3
          <5>2. q[1].do # "print"
            BY <1>2, <4>1, <5>1
          <5>3. r.docs = 0
            BY <1>3, <3>2, <3>3, <5>2
          <5>4. ASSUME NEW j \in DOMAIN t
                PROVE  /\ j < i - 1 => t[j].do # "print"
                       /\ i - 1 < j => t[j].do = "close"
            <6>1. j + 1 \in DOMAIN q /\ (j < i - 1 => j + 1 < i) /\ (i - 1 < j => i < j + 1)
              BY <1>2
            <6> QED
              BY <1>2, <4>1, <6>1
          <5>5. ToCome(t)
            BY <4>1, <5>1, <5>4 DEF ToCome
          <5> QED
            BY <5>3, <5>5 DEF DocumentDue
        <4> QED
          BY <4>2, <4>3
      <3>4. CASE p.docs = 1 /\ \A i \in DOMAIN q : q[i].do = "close"
        <4>1. r.docs = 1
          BY <1>2, <1>3, <3>4
        <4> QED
          BY <1>2, <3>4, <4>1 DEF DocumentDue
      <3>5. CASE q[1].do = "refuse"
        BY <1>3, <3>5
      <3> QED
        BY <3>1, <3>3, <3>4, <3>5 DEF DocumentDue
    <2> QED
      BY <1>3, <2>1, <2>2 DEF Printing
  <1>7. Refusing(r)
    BY <1>1, <1>2, <1>3 DEF Refusing, q
  <1>8. Numbering(r)
    <2>1. ASSUME NEW i \in DOMAIN t, t[i].do = "number" PROVE r.meant = 0 /\ \A s \in r.sent : s.meant = 0
      <3>1. i + 1 \in DOMAIN q /\ q[i + 1].do = "number"
        BY <1>2, <2>1
      <3>2. p.meant = 0 /\ \A s \in p.sent : s.meant = 0
        BY <1>1, <3>1 DEF Numbering, q
      <3>3. q[1].do # "choose"
        BY <1>1, <1>2, <3>1 DEF Coherent, NumbersOnly
      <3> QED
        BY <1>3, <3>2, <3>3
    <2> QED
      BY <1>3, <2>1 DEF Numbering
  <1>9. Calling(r)
    <2>1. CASE ~r.probing
      BY <2>1 DEF Calling
    <2>2. CASE r.probing /\ do = "open"
      <3>1. r.to \in Engine
        BY <1>3, <2>2
      <3>2. ASSUME NEW i \in DOMAIN t, t[i].do \in Opening
            PROVE  \E k \in DOMAIN t : k < i /\ t[k].do = "close"
        <4>1. i + 1 \in DOMAIN q /\ 1 < i + 1 /\ q[i + 1].do \in Opening
          BY <1>2, <3>2
        <4>2. PICK k \in DOMAIN q : 1 < k /\ k < i + 1 /\ q[k].do = "close"
          BY <1>1, <1>2, <1>3, <2>2, <4>1 DEF Coherent, OneChannel
        <4>3. k - 1 \in DOMAIN t /\ t[k - 1] = q[k] /\ k - 1 < i
          BY <1>2, <4>2
        <4> QED
          BY <4>2, <4>3
      <3> QED
        BY <1>3, <3>1, <3>2 DEF Calling
    <2>3. CASE r.probing /\ p.probing /\ do # "close" /\ r.to = p.to
      <3>1. ASSUME NEW i \in DOMAIN t, t[i].do \in Opening
            PROVE  \E k \in DOMAIN t : k < i /\ t[k].do = "close"
        <4>1. i + 1 \in DOMAIN q /\ q[i + 1].do \in Opening
          BY <1>2, <3>1
        <4>2. PICK k \in DOMAIN q : k < i + 1 /\ q[k].do = "close"
          BY <1>1, <2>3, <4>1 DEF Calling, q
        <4>3. k # 1
          BY <1>3, <2>3, <4>2
        <4>4. k - 1 \in DOMAIN t /\ t[k - 1] = q[k] /\ k - 1 < i
          BY <1>2, <4>2, <4>3
        <4> QED
          BY <4>2, <4>4
      <3> QED
        BY <1>1, <1>3, <2>3, <3>1 DEF Calling
    <2> QED
      BY <2>1, <2>2, <2>3
  <1>10. NamedInv(r)
    BY <1>1, SameNamed DEF Leading
  <1>11. ListingInv(r, shown, items)
    <2>1. ASSUME t # <<>>, t[1].do = "choose", r.words # <<"dash", "tab">> PROVE r.listing = Enabled(items)
      <3>1. 1 \in DOMAIN t /\ 2 \in DOMAIN q /\ q[2].do = "choose" /\ 2 - 1 = 1
        <4>1. t \in Seq(StepType)
          BY <1>4 DEF Coherent
        <4>2. 1 \in DOMAIN t
          BY <2>1, <4>1, EmptySeq
        <4> QED
          BY <1>2, <2>1, <4>2
      <3>2. /\ q[1].do = "call" /\ q[1].effect = "list" /\ q[1].lacking = "never"
            /\ q[1].rpc = "ListControls" /\ ~q[1].selector.all
        <4>1. /\ q[2 - 1].do = "call" /\ q[2 - 1].effect = "list" /\ q[2 - 1].lacking = "never"
              /\ q[2 - 1].rpc = "ListControls" /\ ~q[2 - 1].selector.all
          BY <1>1, <1>3, <2>1, <3>1 DEF Coherent, ChoosesListed
        <4> QED
          BY <3>1, <4>1
      <3> QED
        BY <1>3, <3>2 DEF q
    <2>2. ListedAs(r, shown, items)
      BY <1>3, <2>1 DEF ListedAs
    <2>3. r.meant # 0 /\ ~shown.all => r.chosen.ref = r.meant
      BY <1>1 DEF ListingInv
    <2> QED
      BY <1>1, <1>3, <2>2, <2>3 DEF ListingInv
  <1> QED
    BY <1>3, <1>4, <1>5, <1>6, <1>7, <1>8, <1>9, <1>10, <1>11, SoundFrom

(* The steps behind a try block are left.                                  *)
LEMMA RemainingSound ==
  ASSUME NEW p, NEW shown, NEW items, Sound(p, shown, items), p.status = "running", p.steps # <<>>,
         NEW r, Same(p, r), NEW e \in {"dropped", "line", "prompt"}, p.steps[1].error = e,
         r.steps = Remaining(p, e), ~r.sending, ~r.probing,
         \/ e = "dropped" /\ r.to = NoEngine
         \/ e # "dropped" /\ r.to = p.to,
         r.docs = p.docs, r.meant = p.meant, r.chosen = p.chosen
  PROVE  Sound(r, shown, items)
  <1> DEFINE q == p.steps
             t == Remaining(p, e)
  <1>1. /\ p \in Process /\ Coherent(p.words, p.fmt, q) /\ Channelled(q, p.to # NoEngine)
        /\ Printing(p) /\ Refusing(p) /\ Numbering(p) /\ Calling(p) /\ NamedInv(p)
        /\ ListingInv(p, shown, items) /\ q \in Seq(StepType) /\ p.docs \in 0 .. 2
    BY SoundParts
  <1>2. PICK d \in Nat : /\ Suffix(q, t, d) /\ 1 <= d
                         /\ \A k \in 1 .. d : k \in DOMAIN q /\ q[k].error = e
                         /\ t # <<>> => d + 1 \in DOMAIN q /\ q[d + 1].error # e
    BY <1>1, RemainingSuffix
  <1>3. /\ q[1].error = e /\ r.steps = t /\ r.words = p.words /\ r.fmt = p.fmt /\ r.sent = p.sent
        /\ r \in Process /\ r.status = "running" /\ 1 \in DOMAIN q
    BY <1>2 DEF Same
  <1> HIDE DEF q, t
  <1>4. /\ q \in Seq(StepType) /\ t \in Seq(StepType) /\ DOMAIN q = 1 .. Len(q) /\ Len(q) \in Nat
        /\ \A i \in DOMAIN t : i + d \in DOMAIN q /\ t[i] = q[i + d] /\ i \in Nat /\ 1 <= i
    BY <1>2 DEF Suffix
  <1>5. Coherent(r.words, r.fmt, t)
    BY <1>1, <1>2, <1>3, SuffixCoherent
  <1>6. Channelled(t, r.to # NoEngine)
    <2>1. CASE e = "dropped"
      <3>1. ASSUME NEW i \in DOMAIN t PROVE t[i].do \notin {"call", "prompt", "choose"}
        <4>1. d + 1 \in DOMAIN q /\ q[d + 1].error # e
          <5>1. t # <<>>
            BY <1>4, <3>1
          <5> QED
            BY <1>2, <5>1
        <4>2. 1 <= d + 1 /\ d + 1 <= i + d /\ i + d \in DOMAIN q
          BY <1>2, <1>4
        <4>3. DropsLast(q)
          BY <1>1 DEF Coherent
        <4>4. q[i + d].do \notin {"call", "prompt", "choose"}
          BY <1>3, <2>1, <4>1, <4>2, <4>3 DEF DropsLast
        <4> QED
          BY <1>4, <4>4
      <3> QED
        BY <3>1 DEF Channelled
    <2>2. CASE e # "dropped"
      <3>1. \A k \in 1 .. d : q[k].do \notin {"open", "connect", "close"}
        BY <1>1, <1>2, <2>2 DEF Coherent, LinesStay
      <3>2. (p.to # NoEngine) \in BOOLEAN /\ r.to = p.to
        BY <2>2
      <3> QED
        BY <1>1, <1>2, <3>1, <3>2, SuffixChannelled
    <2> QED
      BY <2>1, <2>2
  <1>7. e \notin {"fails", "totp"}
    OBVIOUS
  <1>8. r.fmt # "json"
    BY <1>1, <1>3, <1>7 DEF Coherent, JsonStrict
  <1>9. Printing(r)
    BY <1>1, <1>3, <1>4, <1>8 DEF Printing, q
  <1>10. Refusing(r) /\ Numbering(r)
    BY <1>1, <1>3, <1>4 DEF Refusing, Numbering, q
  <1>11. Calling(r)
    BY DEF Calling
  <1>12. NamedInv(r)
    BY <1>1, SameNamed DEF Leading
  <1>13. ListingInv(r, shown, items)
    <2>1. ASSUME t # <<>>, t[1].do = "choose" PROVE FALSE
      <3>1. 1 \in DOMAIN t
        BY <1>4, <2>1, EmptySeq
      <3>2. 1 + d \in DOMAIN q /\ q[1 + d].do = "choose" /\ 1 + d # 1 /\ (1 + d) - 1 = d
        BY <1>2, <1>4, <2>1, <3>1
      <3>3. q[(1 + d) - 1].error = "fails"
        BY <1>1, <3>2 DEF Coherent, ChoosesListed
      <3>4. d \in 1 .. d
        BY <1>2
      <3> QED
        BY <1>2, <1>7, <3>2, <3>3, <3>4
    <2>2. ListedAs(r, shown, items)
      BY <1>3, <2>1 DEF ListedAs
    <2> QED
      BY <1>1, <1>3, <2>2 DEF ListingInv
  <1> QED
    BY <1>3, <1>5, <1>6, <1>9, <1>10, <1>11, <1>12, <1>13, SoundFrom

(* The steps stay as they are.                                             *)
LEMMA StaysSound ==
  ASSUME NEW p, NEW shown, NEW items, Sound(p, shown, items), p.status = "running",
         NEW r, Same(p, r), r.steps = p.steps, r.docs = p.docs, r.meant = p.meant, r.chosen = p.chosen,
         r.listing = p.listing,
         Leading(p, r),
         r.to = p.to \/ (p.steps # <<>> /\ p.steps[1].do = "await"),
         r.sending => \/ p.sending /\ r.to = p.to /\ (r.probing => p.probing)
                      \/ p.steps # <<>> /\ p.steps[1].do \in {"call", "await"} /\ r.to \in Engine /\ ~r.probing,
         r.probing => p.probing /\ r.to = p.to
  PROVE  Sound(r, shown, items)
  <1> DEFINE q == p.steps
  <1>1. /\ p \in Process /\ Coherent(p.words, p.fmt, q) /\ Channelled(q, p.to # NoEngine)
        /\ Printing(p) /\ Refusing(p) /\ Numbering(p) /\ Calling(p) /\ NamedInv(p)
        /\ ListingInv(p, shown, items) /\ q \in Seq(StepType)
    BY SoundParts
  <1>2. /\ r.steps = q /\ r.words = p.words /\ r.fmt = p.fmt /\ r.sent = p.sent
        /\ r \in Process /\ r.status = "running"
    BY DEF Same
  <1>3. Channelled(q, r.to # NoEngine)
    <2>1. CASE q # <<>> /\ q[1].do = "await"
      <3>1. 1 \in DOMAIN q
        BY <1>1, <2>1, EmptySeq
      <3>2. \A i \in DOMAIN q : q[i].do \notin {"call", "prompt", "choose"}
        BY <1>1, <2>1, <3>1 DEF Coherent, AwaitsOnly
      <3> QED
        BY <3>2 DEF Channelled
    <2> QED
      BY <1>1, <2>1
  <1>4. Printing(r) /\ Refusing(r) /\ Numbering(r)
    BY <1>1, <1>2 DEF Printing, Refusing, Numbering
  <1>5. Calling(r)
    BY <1>1, <1>2 DEF Calling
  <1>6. NamedInv(r)
    BY <1>1, SameNamed
  <1>7. ListingInv(r, shown, items)
    BY <1>1, <1>2 DEF ListingInv, ListedAs
  <1> QED
    BY <1>1, <1>2, <1>3, <1>4, <1>5, <1>6, <1>7, SoundFrom

(* A call is sent.                                                         *)
LEMMA SendSound ==
  ASSUME NEW p, NEW shown, NEW items, Sound(p, shown, items), p.status = "running", p.steps # <<>>,
         p.steps[1].do = "call", ~p.probing, NEW s, s = p.steps[1], NEW x,
         x = [effect |-> s.effect, engine |-> p.to,
              ref |-> IF s.effect = "act" THEN p.chosen.ref ELSE 0,
              meant |-> IF s.effect = "act" THEN p.meant ELSE 0]
  PROVE  Sound([p EXCEPT !.sending = TRUE, !.sent = @ \cup {x}], shown, items)
  <1> DEFINE q == p.steps
             r == [p EXCEPT !.sending = TRUE, !.sent = @ \cup {x}]
  <1>1. /\ p \in Process /\ Coherent(p.words, p.fmt, q) /\ Channelled(q, p.to # NoEngine)
        /\ Printing(p) /\ Refusing(p) /\ Numbering(p) /\ Calling(p) /\ NamedInv(p)
        /\ ListingInv(p, shown, items) /\ q \in Seq(StepType)
    BY SoundParts
  <1>2. 1 \in DOMAIN q /\ q[1] = s /\ s \in StepType /\ s.do = "call" /\ \A j \in DOMAIN q : j \in Nat /\ 1 <= j
    BY <1>1, EmptySeq
  <1>3. p.to # NoEngine /\ p.to \in Engine
    <2>1. Inside(q, 1, p.to # NoEngine)
      BY <1>1, <1>2 DEF Channelled
    <2>2. \A j \in DOMAIN q : ~(j < 1)
      BY <1>2
    <2> QED
      BY <1>1, <2>1, <2>2 DEF Inside, Process, EngineRef
  <1>4. x \in Sent /\ x.effect = s.effect /\ x.engine = p.to
        /\ ((x.meant = p.meant /\ x.ref = p.chosen.ref /\ s.effect = "act") \/ x.meant = 0)
    <2>1. p.chosen.ref \in Refs /\ p.meant \in Refs /\ 0 \in Refs /\ s.effect \in Effect
      BY <1>1, <1>2, ListingsAre DEF Process, StepType
    <2> QED
      BY <1>3, <2>1 DEF Sent
  <1>5. /\ r \in Process
        /\ r.words = p.words /\ r.fmt = p.fmt /\ r.inner = p.inner /\ r.named = p.named /\ r.socket = p.socket
        /\ r.to = p.to /\ r.probing = p.probing /\ r.sending = TRUE /\ r.steps = q
        /\ r.listing = p.listing /\ r.chosen = p.chosen /\ r.meant = p.meant /\ r.docs = p.docs
        /\ r.sent = p.sent \cup {x} /\ r.status = "running"
    BY <1>1, <1>4 DEF Process
  <1> HIDE DEF q, r
  <1>6. Coherent(r.words, r.fmt, r.steps) /\ Channelled(r.steps, r.to # NoEngine) /\ Printing(r)
    BY <1>1, <1>5 DEF Printing, q
  <1>7. Refusing(r)
    <2>1. ASSUME x.effect \in Changing, NEW j \in DOMAIN q PROVE q[j].do \notin {"choose", "refuse"}
      BY <1>1, <1>2, <1>4, <2>1 DEF Coherent, RefusesFirst
    <2> QED
      BY <1>1, <1>5, <2>1 DEF Refusing, q
  <1>8. Numbering(r)
    <2>1. ASSUME NEW i \in DOMAIN q, q[i].do = "number" PROVE r.meant = 0 /\ x.meant = 0 /\ \A y \in p.sent : y.meant = 0
      <3>1. s.effect # "act"
        BY <1>1, <1>2, <2>1 DEF Coherent, NumbersOnly
      <3>2. p.meant = 0 /\ \A y \in p.sent : y.meant = 0
        BY <1>1, <2>1 DEF Numbering, q
      <3> QED
        BY <1>4, <1>5, <3>1, <3>2
    <2> QED
      BY <1>5, <2>1 DEF Numbering
  <1>9. Calling(r)
    BY <1>2, <1>3, <1>5 DEF Calling, q
  <1>10. NamedInv(r)
    BY <1>1, <1>3, <1>4, <1>5 DEF NamedInv
  <1>11. ListingInv(r, shown, items)
    BY <1>1, <1>2, <1>4, <1>5 DEF ListingInv, ListedAs, q
  <1> QED
    BY <1>5, <1>6, <1>7, <1>8, <1>9, <1>10, <1>11, SoundFrom DEF r

(* The two-factor code is asked for, and the call is to be made once more. *)
LEMMA AgainSound ==
  ASSUME NEW p, NEW shown, NEW items, Sound(p, shown, items), p.status = "running", p.steps # <<>>,
         p.steps[1].do = "call", p.steps[1].error = "totp"
  PROVE  Sound([p EXCEPT !.steps[1].error = "fails", !.sending = FALSE], shown, items)
  <1> DEFINE q == p.steps
             t == [q EXCEPT ![1].error = "fails"]
             r == [p EXCEPT !.steps[1].error = "fails", !.sending = FALSE]
  <1>1. /\ p \in Process /\ Coherent(p.words, p.fmt, q) /\ Channelled(q, p.to # NoEngine)
        /\ Printing(p) /\ Refusing(p) /\ Numbering(p) /\ Calling(p) /\ NamedInv(p)
        /\ ListingInv(p, shown, items) /\ q \in Seq(StepType)
    BY SoundParts
  <1>2. /\ 1 \in DOMAIN q /\ q[1] \in StepType /\ q[1].do = "call" /\ q[1].error = "totp"
        /\ \A j \in DOMAIN q : j \in Nat
    BY <1>1, EmptySeq
  <1>3. [q[1] EXCEPT !.error = "fails"] \in StepType
    BY <1>2 DEF StepType, OnError
  <1>4. /\ t \in Seq(StepType) /\ DOMAIN t = DOMAIN q /\ t[1] = [q[1] EXCEPT !.error = "fails"]
        /\ \A j \in DOMAIN q : j # 1 => t[j] = q[j]
    BY <1>1, <1>2, <1>3
  <1>5. \A j \in DOMAIN q : /\ t[j].do = q[j].do /\ t[j].rpc = q[j].rpc /\ t[j].effect = q[j].effect
                            /\ t[j].lacking = q[j].lacking /\ t[j].selector = q[j].selector
                            /\ t[j].error = IF j = 1 THEN "fails" ELSE q[j].error
    BY <1>2, <1>4 DEF StepType
  <1>6. /\ r \in Process
        /\ r.words = p.words /\ r.fmt = p.fmt /\ r.inner = p.inner /\ r.named = p.named /\ r.socket = p.socket
        /\ r.to = p.to /\ r.probing = p.probing /\ r.sending = FALSE /\ r.steps = t
        /\ r.listing = p.listing /\ r.chosen = p.chosen /\ r.meant = p.meant /\ r.docs = p.docs
        /\ r.sent = p.sent /\ r.status = "running"
    BY <1>1, <1>4 DEF Process
  <1> HIDE DEF q, t, r
  <1>7. RefusesFirst(t) /\ PromptsOnly(r.fmt, t)
    <2>1. RefusesFirst(t)
      BY <1>1, <1>4, <1>5 DEF Coherent, RefusesFirst
    <2>2. \A j \in DOMAIN q : t[j].error \in {"quiet", "dropped"} => q[j].error \in {"quiet", "dropped"}
      BY <1>5
    <2>3. PromptsOnly(r.fmt, t)
      BY <1>1, <1>4, <1>5, <1>6, <2>2 DEF Coherent, PromptsOnly
    <2> QED
      BY <2>1, <2>3
  <1>20. LinesStay(t) /\ JsonStrict(r.fmt, t)
    <2>1. LinesStay(t)
      BY <1>1, <1>4, <1>5 DEF Coherent, LinesStay
    <2>2. JsonStrict(r.fmt, t)
      BY <1>1, <1>4, <1>5, <1>6 DEF Coherent, JsonStrict
    <2> QED
      BY <2>1, <2>2
  <1>8. DropsLast(t)
    BY <1>1, <1>2, <1>4, <1>5 DEF Coherent, DropsLast
  <1>9. PrintsLast(t)
    BY <1>1, <1>2, <1>4, <1>5 DEF Coherent, PrintsLast
  <1>10. NumbersOnly(t) /\ AwaitsOnly(t)
    BY <1>1, <1>2, <1>4, <1>5 DEF Coherent, NumbersOnly, AwaitsOnly
  <1>11. ChoosesListed(r.words, t)
    <2> SUFFICES ASSUME NEW i \in DOMAIN t, t[i].do = "choose", i # 1
                 PROVE  /\ t[i - 1].do = "call" /\ t[i - 1].effect = "list"
                        /\ t[i - 1].error = "fails" /\ t[i - 1].lacking = "never"
                        /\ r.words = <<"dash", "tab">> \/ (t[i - 1].rpc = "ListControls" /\ ~t[i - 1].selector.all)
      BY DEF ChoosesListed
    <2>1. i - 1 \in DOMAIN q
      BY <1>1, <1>4
    <2>2. /\ q[i - 1].do = "call" /\ q[i - 1].effect = "list"
          /\ q[i - 1].error = "fails" /\ q[i - 1].lacking = "never"
          /\ r.words = <<"dash", "tab">> \/ (q[i - 1].rpc = "ListControls" /\ ~q[i - 1].selector.all)
      BY <1>1, <1>4, <1>5, <1>6 DEF Coherent, ChoosesListed
    <2> QED
      BY <1>5, <2>1, <2>2
  <1>12. OneChannel(t)
    BY <1>1, <1>4, <1>5 DEF Coherent, OneChannel
  <1>13. Coherent(r.words, r.fmt, t)
    BY <1>4, <1>7, <1>20, <1>8, <1>9, <1>10, <1>11, <1>12 DEF Coherent
  <1>14. Channelled(t, r.to # NoEngine)
    BY <1>1, <1>4, <1>5, <1>6 DEF Channelled, Inside
  <1>15. Printing(r)
    <2>1. \A i \in DOMAIN t : t[i].do = "show" \/ t[i].error = "quiet" => q[i].do = "show" \/ q[i].error = "quiet"
      BY <1>4, <1>5
    <2>2. DocumentDue(q, p.docs) => DocumentDue(t, p.docs)
      <3>1. ToCome(q) => ToCome(t)
        BY <1>4, <1>5 DEF ToCome
      <3>2. t # <<>>
        BY <1>2, <1>4
      <3> QED
        BY <1>2, <1>4, <1>5, <3>1, <3>2 DEF DocumentDue
    <2> QED
      BY <1>1, <1>4, <1>6, <2>1, <2>2 DEF Printing, q
  <1>16. Refusing(r) /\ Numbering(r)
    BY <1>1, <1>4, <1>5, <1>6 DEF Refusing, Numbering, q
  <1>17. Calling(r)
    BY <1>1, <1>4, <1>5, <1>6 DEF Calling, q
  <1>18. NamedInv(r)
    BY <1>1, <1>6 DEF NamedInv
  <1>19. ListingInv(r, shown, items)
    BY <1>1, <1>2, <1>4, <1>5, <1>6 DEF ListingInv, ListedAs
  <1> QED
    BY <1>6, <1>13, <1>14, <1>15, <1>16, <1>17, <1>18, <1>19, SoundFrom DEF r

(* A line of a shell is read.                                              *)
LEMMA LineSound ==
  ASSUME NEW p, NEW shown, NEW items, Sound(p, shown, items), p.status = "running", p.steps # <<>>,
         p.steps[1].do = "prompt", ~p.probing, NEW line \in Menu(p.steps[1].rpc), NEW menu, menu = p.steps[1].rpc
  PROVE  Sound([p EXCEPT !.menu = menu, !.steps = line \o @, !.docs = 0, !.lacked = FALSE], shown, items)
  <1> DEFINE q == p.steps
             t == line \o q
             r == [p EXCEPT !.menu = menu, !.steps = line \o @, !.docs = 0, !.lacked = FALSE]
  <1>1. /\ p \in Process /\ Coherent(p.words, p.fmt, q) /\ Channelled(q, p.to # NoEngine)
        /\ Printing(p) /\ Refusing(p) /\ Numbering(p) /\ Calling(p) /\ NamedInv(p)
        /\ ListingInv(p, shown, items) /\ q \in Seq(StepType)
    BY SoundParts
  <1>2. 1 \in DOMAIN q /\ q[1].do = "prompt" /\ \A j \in DOMAIN q : j \in Nat /\ 1 <= j
    BY <1>1, EmptySeq
  <1>3. /\ p.fmt = "human" /\ menu \in {"grabber", "inventory"}
        /\ \A j \in DOMAIN q : /\ q[j].do \notin {"choose", "refuse", "number", "show", "await"}
                               /\ q[j].error \notin {"quiet", "dropped"} /\ q[j].effect # "act"
    BY <1>1, <1>2 DEF Coherent, PromptsOnly, q
  <1>4. p.to # NoEngine /\ ~p.sending
    <2>1. Inside(q, 1, p.to # NoEngine)
      BY <1>1, <1>2 DEF Channelled
    <2>2. \A j \in DOMAIN q : ~(j < 1)
      BY <1>2
    <2> QED
      BY <1>1, <1>2, <2>1, <2>2 DEF Inside, Calling
  <1>5. line \in Seq(LineStep)
    BY <1>3, MenuLines
  <1>6. PICK l \in Nat, n \in Nat : /\ l = Len(line) /\ n = Len(q) /\ DOMAIN line = 1 .. l /\ DOMAIN q = 1 .. n
                                    /\ \A i \in 1 .. l : line[i] \in LineStep
    BY <1>1, <1>5
  <1>7. /\ t \in Seq(StepType) /\ Len(t) = l + n /\ DOMAIN t = 1 .. l + n
        /\ \A i \in 1 .. l + n : t[i] = IF i <= l THEN line[i] ELSE q[i - l]
    <2>1. line \in Seq(StepType)
      BY <1>5 DEF LineStep
    <2>2. /\ line \o q \in Seq(StepType) /\ Len(line \o q) = Len(line) + Len(q)
          /\ \A i \in 1 .. Len(line) + Len(q) : (line \o q)[i] = IF i <= Len(line) THEN line[i] ELSE q[i - Len(line)]
      BY <1>1, <2>1, ConcatProperties
    <2> HIDE DEF t
    <2>3. t \in Seq(StepType) /\ Len(t) = l + n
      BY <1>6, <2>2 DEF t
    <2>4. DOMAIN t = 1 .. Len(t)
      BY <2>3
    <2> QED
      BY <1>6, <2>2, <2>3, <2>4 DEF t
  <1>8. /\ r \in Process
        /\ r.words = p.words /\ r.fmt = p.fmt /\ r.inner = p.inner /\ r.named = p.named /\ r.socket = p.socket
        /\ r.to = p.to /\ r.probing = p.probing /\ r.sending = p.sending /\ r.steps = t
        /\ r.listing = p.listing /\ r.chosen = p.chosen /\ r.meant = p.meant /\ r.docs = 0
        /\ r.sent = p.sent /\ r.status = "running"
    <2>1. t \in Seq(StepType)
      BY <1>7
    <2>5. 0 \in 0 .. 2 /\ FALSE \in BOOLEAN
      OBVIOUS
    <2>6. menu \in {"", "grabber", "inventory"}
      BY <1>3
    <2>2. t = line \o p.steps
      OBVIOUS
    <2> HIDE DEF t
    <2>3. line \o p.steps \in Seq(StepType)
      BY <2>1, <2>2
    <2>4. r = [p EXCEPT !.menu = menu, !.steps = t, !.docs = 0, !.lacked = FALSE]
      BY <2>2
    <2> HIDE DEF r
    <2> QED
      BY <1>1, <2>1, <2>4, <2>5, <2>6 DEF Process
  <1> HIDE DEF q, t, r
  <1>9. \A i \in DOMAIN t : \/ i <= l /\ i \in 1 .. l /\ t[i] = line[i]
                            \/ l < i /\ i - l \in DOMAIN q /\ t[i] = q[i - l]
    BY <1>6, <1>7
  <1>10. \A i \in DOMAIN t : /\ i <= l => /\ t[i].do \in {"call", "raise", "print", "file"}
                                          /\ t[i].error \in {"fails", "prompt", "line", "totp"}
                                          /\ t[i].effect # "act"
                             /\ l < i => i - l \in DOMAIN q /\ t[i] = q[i - l]
    <2>1. \A i \in 1 .. l : /\ line[i].do \in {"call", "raise", "print", "file"}
                            /\ line[i].error \in {"fails", "prompt", "line", "totp"}
                            /\ line[i].effect # "act"
      BY <1>6 DEF LineStep
    <2> SUFFICES ASSUME NEW i \in DOMAIN t
                 PROVE  /\ i <= l => /\ t[i].do \in {"call", "raise", "print", "file"}
                                     /\ t[i].error \in {"fails", "prompt", "line", "totp"}
                                     /\ t[i].effect # "act"
                        /\ l < i => i - l \in DOMAIN q /\ t[i] = q[i - l]
      OBVIOUS
    <2>2. i \in Nat /\ l \in Nat /\ ~(i <= l /\ l < i)
      BY <1>6, <1>7
    <2>3. CASE i <= l /\ i \in 1 .. l /\ t[i] = line[i]
      BY <2>1, <2>2, <2>3
    <2>4. CASE l < i /\ i - l \in DOMAIN q /\ t[i] = q[i - l]
      BY <2>2, <2>4
    <2> QED
      BY <1>9, <2>3, <2>4
  <1>11. \A i \in DOMAIN t : /\ t[i].do \notin {"choose", "refuse", "number", "show", "await"}
                             /\ t[i].error \notin {"quiet", "dropped"} /\ t[i].effect # "act"
                             /\ t[i].do = "prompt" => t[i].rpc \in {"grabber", "inventory"}
                             /\ t[i].do \in {"open", "close", "connect"} => l < i
    <2>1. \A j \in DOMAIN q : q[j].do = "prompt" => q[j].rpc \in {"grabber", "inventory"}
      BY <1>1 DEF Coherent, PromptsOnly
    <2> QED
      BY <1>3, <1>9, <1>10, <2>1
  <1>12. RefusesFirst(t) /\ PromptsOnly(r.fmt, t) /\ DropsLast(t)
    BY <1>3, <1>8, <1>11 DEF RefusesFirst, PromptsOnly, DropsLast
  <1>13. LinesStay(t)
    BY <1>1, <1>10, <1>11 DEF Coherent, LinesStay
  <1>14. PrintsLast(t) /\ JsonStrict(r.fmt, t)
    BY <1>3, <1>8, <1>11 DEF PrintsLast, JsonStrict
  <1>15. NumbersOnly(t) /\ AwaitsOnly(t) /\ ChoosesListed(r.words, t)
    BY <1>11 DEF NumbersOnly, AwaitsOnly, ChoosesListed
  <1>16. OneChannel(t)
    <2> SUFFICES ASSUME NEW i \in DOMAIN t, NEW j \in DOMAIN t, i < j, t[i].do = "open", t[j].do \in Opening
                 PROVE  \E k \in DOMAIN t : i < k /\ k < j /\ t[k].do = "close"
      BY DEF OneChannel
    <2>1. l < i /\ l < j
      BY <1>11 DEF Opening
    <2>2. /\ i - l \in DOMAIN q /\ j - l \in DOMAIN q /\ q[i - l].do = "open" /\ q[j - l].do \in Opening
          /\ i - l < j - l
      BY <1>7, <1>10, <2>1
    <2>3. PICK k \in DOMAIN q : i - l < k /\ k < j - l /\ q[k].do = "close"
      BY <1>1, <2>2 DEF Coherent, OneChannel
    <2>4. k + l \in DOMAIN t /\ i < k + l /\ k + l < j /\ ~(k + l <= l) /\ (k + l) - l = k
      BY <1>6, <1>7, <2>3
    <2>5. t[k + l] = q[k]
      BY <1>7, <2>4
    <2> QED
      BY <2>3, <2>4, <2>5
  <1>17. Coherent(r.words, r.fmt, t)
    BY <1>7, <1>12, <1>13, <1>14, <1>15, <1>16 DEF Coherent
  <1>18. Channelled(t, r.to # NoEngine)
    <2> SUFFICES ASSUME NEW i \in DOMAIN t, t[i].do \in {"call", "prompt", "choose"} PROVE Inside(t, i, TRUE)
      BY <1>4, <1>8 DEF Channelled
    <2>1. CASE i <= l
      <3>1. \A k \in DOMAIN t : k < i => t[k].do # "close"
        BY <1>6, <1>7, <1>11, <2>1
      <3> QED
        BY <3>1 DEF Inside
    <2>2. CASE l < i
      <3>1. i - l \in DOMAIN q /\ t[i] = q[i - l]
        BY <1>10, <2>2
      <3>2. Inside(q, i - l, TRUE)
        BY <1>1, <1>4, <3>1 DEF Channelled
      <3>3. CASE \A k \in DOMAIN q : k < i - l => q[k].do # "close"
        <4>1. ASSUME NEW k \in DOMAIN t, k < i, t[k].do = "close" PROVE FALSE
          <5>1. l < k
            BY <1>11, <4>1
          <5>2. k - l \in DOMAIN q /\ q[k - l].do = "close" /\ k - l < i - l
            BY <1>7, <1>10, <4>1, <5>1
          <5> QED
            BY <3>3, <5>2
        <4> QED
          BY <4>1 DEF Inside
      <3>4. ASSUME NEW j \in DOMAIN q, j < i - l, q[j].do \in {"open", "connect"},
                   \A k \in DOMAIN q : j < k /\ k < i - l => q[k].do # "close"
            PROVE  Inside(t, i, TRUE)
        <4>1. j + l \in DOMAIN t /\ j + l < i /\ ~(j + l <= l) /\ (j + l) - l = j
          BY <1>6, <1>7, <3>4
        <4>2. t[j + l] = q[j]
          BY <1>7, <4>1
        <4>3. ASSUME NEW k \in DOMAIN t, j + l < k, k < i, t[k].do = "close" PROVE FALSE
          <5>1. l < k
            BY <1>11, <4>3
          <5>2. k - l \in DOMAIN q /\ q[k - l].do = "close" /\ k - l < i - l /\ j < k - l
            BY <1>6, <1>7, <1>10, <4>3, <5>1
          <5> QED
            BY <3>4, <5>2
        <4> QED
          BY <3>4, <4>1, <4>2, <4>3 DEF Inside
      <3> QED
        BY <3>2, <3>3, <3>4 DEF Inside
    <2>3. i \in Nat /\ l \in Nat
      BY <1>6, <1>7
    <2>4. i <= l \/ l < i
      BY <2>3
    <2> QED
      BY <2>1, <2>2, <2>4
  <1>19. Printing(r)
    BY <1>3, <1>8, <1>11 DEF Printing
  <1>20. Refusing(r) /\ Numbering(r)
    BY <1>8, <1>11 DEF Refusing, Numbering
  <1>21. Calling(r)
    BY <1>4, <1>8 DEF Calling
  <1>22. NamedInv(r)
    BY <1>1, <1>8 DEF NamedInv
  <1>23. ListingInv(r, shown, items)
    <2>1. t # <<>> => 1 \in DOMAIN t
      BY <1>7, EmptySeq
    <2>2. ListedAs(r, shown, items)
      BY <1>8, <1>11, <2>1 DEF ListedAs
    <2> QED
      BY <1>1, <1>8, <2>2 DEF ListingInv
  <1> QED
    BY <1>8, <1>17, <1>18, <1>19, <1>20, <1>21, <1>22, <1>23, SoundFrom DEF r

-----------------------------------------------------------------------------
(* The actions.                                                            *)

(* A process that is sound before and a step that changes nothing else.    *)
LEMMA Updated ==
  ASSUME CommandInv, NEW p, Sound(p, seen, panel), Update(p)
  PROVE  CommandInv'
  BY DEF CommandInv, Update

(* A command that is typed in.                                             *)
LEMMA StartSound ==
  ASSUME NEW p, NEW shown, NEW items, Sound(p, shown, items),
         NEW c \in AllCommands, NEW named \in EngineRef, NEW inner \in BOOLEAN
  PROVE  Sound([Idle EXCEPT !.words = c.words, !.fmt = c.fmt, !.steps = c.steps, !.inner = inner,
                  !.named = named, !.socket = SocketOption(c, named, inner), !.status = "running"],
               shown, items)
  <1> DEFINE socket == SocketOption(c, named, inner)
             r == [Idle EXCEPT !.words = c.words, !.fmt = c.fmt, !.steps = c.steps, !.inner = inner,
                     !.named = named, !.socket = socket, !.status = "running"]
  <1>1. /\ c.fmt \in Format /\ Coherent(c.words, c.fmt, c.steps) /\ Channelled(c.steps, FALSE)
        /\ c.fmt = "json" => DocumentDue(c.steps, 0)
    BY TableGood DEF AllGood, CommandOK, StepsOK
  <1>2. c.words \in Words /\ c.steps \in Seq(StepType)
    BY <1>1 DEF Words, Coherent
  <1>3. socket \in EngineRef /\ (inner => socket = named)
    BY DEF SocketOption, EngineRef
  <1> HIDE DEF socket
  <1>4. /\ NoEngine \in EngineRef /\ NoItem \in Items /\ 0 \in Refs /\ <<>> \in AnyListing
        /\ FALSE \in BOOLEAN /\ 0 \in 0 .. 2 /\ {} \in SUBSET Sent
        /\ "" \in {"", "grabber", "inventory"} /\ "running" \in Status
    BY ListingsAre DEF EngineRef, AnyListing, Status
  <1>5. /\ r \in Process
        /\ r.words = c.words /\ r.fmt = c.fmt /\ r.inner = inner /\ r.named = named /\ r.socket = socket
        /\ r.to = NoEngine /\ ~r.probing /\ ~r.sending /\ r.steps = c.steps
        /\ r.meant = 0 /\ r.docs = 0 /\ r.sent = {} /\ r.status = "running"
    BY <1>1, <1>2, <1>3, <1>4 DEF Idle, Process
  <1> HIDE DEF r
  <1>6. Channelled(r.steps, r.to # NoEngine)
    BY <1>1, <1>5
  <1>7. Printing(r) /\ Refusing(r) /\ Numbering(r) /\ Calling(r)
    BY <1>1, <1>5 DEF Printing, Refusing, Numbering, Calling
  <1>8. NamedInv(r)
    BY <1>3, <1>5 DEF NamedInv
  <1>9. ListingInv(r, shown, items)
    <2>1. ASSUME c.steps # <<>>, c.steps[1].do = "choose" PROVE FALSE
      <3>1. 1 \in DOMAIN c.steps
        BY <1>2, <2>1, EmptySeq
      <3>2. Inside(c.steps, 1, FALSE)
        BY <1>1, <2>1, <3>1 DEF Channelled
      <3>3. \A j \in DOMAIN c.steps : ~(j < 1)
        BY <1>2
      <3> QED
        BY <3>2, <3>3 DEF Inside
    <2>2. ListedAs(r, shown, items)
      BY <1>5, <2>1 DEF ListedAs
    <2> QED
      BY <1>5, <2>2 DEF Sound, ListingInv
  <1> QED
    BY <1>1, <1>5, <1>6, <1>7, <1>8, <1>9, SoundFrom DEF r, socket

(* Until the channel is left no document is out.                           *)
LEMMA NoDocument ==
  ASSUME NEW p, NEW shown, NEW items, Sound(p, shown, items), p.status = "running", p.steps # <<>>,
         p.steps[1].do # "close", p.fmt = "json"
  PROVE  p.docs = 0
  <1>1. DocumentDue(p.steps, p.docs) /\ p.steps \in Seq(StepType)
    BY SoundParts DEF Printing
  <1>2. 1 \in DOMAIN p.steps
    BY <1>1, EmptySeq
  <1> QED
    BY <1>1, <1>2 DEF DocumentDue

(* The command fails.                                                      *)
LEMMA FailsSound ==
  ASSUME NEW p, NEW shown, NEW items, Sound(p, shown, items), p.status = "running", p.steps # <<>>,
         p.steps[1].do # "close"
  PROVE  Sound(Ended(p, "1"), shown, items)
  BY NoDocument, EndedSound

(* The command is refused.                                                 *)
LEMMA RefusesSound ==
  ASSUME NEW p, NEW shown, NEW items, Sound(p, shown, items), p.status = "running", p.steps # <<>>,
         p.steps[1].do \in {"choose", "refuse"}
  PROVE  Sound(Ended(p, "2"), shown, items)
  <1>1. p.steps \in Seq(StepType) /\ Refusing(p)
    BY SoundParts
  <1>2. 1 \in DOMAIN p.steps
    BY <1>1, EmptySeq
  <1>3. \A s \in p.sent : s.effect \notin Changing
    BY <1>1, <1>2 DEF Refusing
  <1>4. p.fmt = "json" => p.docs = 0
    BY NoDocument
  <1> QED
    BY <1>3, <1>4, EndedSound

(* While the first client asks for the version no channel is opened, and   *)
(* while a call is out nobody asks for the version.                        *)
LEMMA NotProbing ==
  ASSUME NEW p, NEW shown, NEW items, Sound(p, shown, items), p.status = "running", p.steps # <<>>,
         p.sending \/ p.steps[1].do \in Opening
  PROVE  ~p.probing
  <1>1. p.steps \in Seq(StepType) /\ Calling(p)
    BY SoundParts
  <1>2. 1 \in DOMAIN p.steps /\ \A j \in DOMAIN p.steps : ~(j < 1)
    BY <1>1, EmptySeq
  <1> QED
    BY <1>1, <1>2 DEF Calling

(* An exception.                                                           *)
LEMMA FailedSound ==
  ASSUME NEW p, NEW shown, NEW items, Sound(p, shown, items), p.status = "running", p.steps # <<>>,
         p.steps[1].do # "close", ~p.probing
  PROVE  Sound(Failed(p), shown, items)
  <1>1. /\ p \in Process /\ p.steps \in Seq(StepType) /\ Printing(p) /\ p.docs \in 0 .. 2
        /\ p.steps[1] \in StepType /\ 1 \in DOMAIN p.steps
    BY SoundParts, EmptySeq
  <1>2. CASE p.steps[1].error = "quiet"
    <2>1. p.docs = 0
      BY <1>1, <1>2 DEF Printing
    <2> DEFINE z == Ended(p, "0")
    <2>2. z.docs = 0
      BY <1>1, <2>1 DEF Ended, Process
    <2>3. Failed(p) = [z EXCEPT !.docs = z.docs + 1]
      BY <1>2 DEF Failed
    <2> HIDE DEF z
    <2>4. z.docs + 1 = 1
      BY <2>2
    <2>5. Failed(p) = [z EXCEPT !.docs = 1]
      BY <2>3, <2>4
    <2>6. 1 \in 0 .. 2 /\ "0" \in {"0", "1", "2", "130"} /\ "0" # "2" /\ "0" \notin {"1", "2"}
      OBVIOUS
    <2>7. Sound([Ended(p, "0") EXCEPT !.docs = 1], shown, items)
      BY <2>6, EndsSound
    <2> QED
      BY <2>5, <2>7 DEF z
  <1>3. ASSUME NEW e \in {"dropped", "line"}, p.steps[1].error = e PROVE Sound(Failed(p), shown, items)
    <2>1. Remaining(p, e) \in Seq(StepType)
      BY <1>1, <1>3, RemainingSuffix DEF Suffix
    <2>2. CASE e = "dropped"
      <3> DEFINE r == [p EXCEPT !.steps = Remaining(p, "dropped"), !.to = NoEngine, !.sending = FALSE, !.lost = FALSE]
      <3>1. Failed(p) = r
        BY <1>3, <2>2 DEF Failed
      <3>2. NoEngine \in EngineRef /\ FALSE \in BOOLEAN
        BY DEF EngineRef
      <3>3. /\ Same(p, r) /\ r.steps = Remaining(p, e) /\ r.to = NoEngine /\ ~r.sending /\ ~r.probing
            /\ r.docs = p.docs /\ r.meant = p.meant /\ r.chosen = p.chosen
        BY <1>1, <2>1, <2>2, <3>2 DEF Same, Process
      <3> HIDE DEF r
      <3> QED
        BY <1>3, <2>2, <3>1, <3>3, RemainingSound
    <2>3. CASE e = "line"
      <3> DEFINE r == [p EXCEPT !.steps = Remaining(p, "line"), !.sending = FALSE]
      <3>1. Failed(p) = r
        BY <1>3, <2>3 DEF Failed
      <3>2. FALSE \in BOOLEAN
        OBVIOUS
      <3>3. /\ Same(p, r) /\ r.steps = Remaining(p, e) /\ r.to = p.to /\ ~r.sending /\ ~r.probing
            /\ r.docs = p.docs /\ r.meant = p.meant /\ r.chosen = p.chosen
        BY <1>1, <2>1, <2>3, <3>2 DEF Same, Process
      <3> HIDE DEF r
      <3> QED
        BY <1>3, <2>3, <3>1, <3>3, RemainingSound
    <2> QED
      BY <2>2, <2>3
  <1>4. CASE p.steps[1].error \notin {"quiet", "dropped", "line"}
    BY <1>4, FailsSound DEF Failed
  <1> QED
    BY <1>2, <1>3, <1>4

(* What is known at a step.                                                *)
LEMMA AtStepKnown ==
  ASSUME CommandInv, NEW do, AtStep(do)
  PROVE  /\ Sound(proc, seen, panel) /\ proc.status = "running" /\ proc.steps # <<>> /\ proc.steps[1].do = do
         /\ proc \in Process /\ proc.steps \in Seq(StepType) /\ proc.steps[1] \in StepType
         /\ Tail(proc.steps) \in Seq(StepType)
         /\ proc.sending \/ do \in Opening => ~proc.probing
         /\ proc.sending => do \in {"call", "await"}
         /\ NoEngine \in EngineRef
  <1>1. Sound(proc, seen, panel) /\ proc.status = "running" /\ proc.steps # <<>> /\ proc.steps[1].do = do
    BY DEF CommandInv, AtStep, Running, Now
  <1>2. proc \in Process /\ proc.steps \in Seq(StepType) /\ Calling(proc)
    BY <1>1, SoundParts
  <1>3. proc.steps[1] \in StepType /\ Tail(proc.steps) \in Seq(StepType)
    BY <1>1, <1>2, TailSuffix DEF Suffix
  <1>4. proc.sending \/ do \in Opening => ~proc.probing
    BY <1>1, NotProbing
  <1>5. proc.sending => do \in {"call", "await"}
    BY <1>1, <1>2 DEF Calling
  <1> QED
    BY <1>1, <1>2, <1>3, <1>4, <1>5 DEF EngineRef

(* A step that needs no more than to be done.                              *)
LEMMA RestUpdated ==
  ASSUME CommandInv, NEW do, AtStep(do), do \in {"show", "file", "host", "prompt", "number"}
  PROVE  Sound(Rest, seen, panel)
  <1>1. /\ Sound(proc, seen, panel) /\ proc.status = "running" /\ proc.steps # <<>> /\ proc.steps[1].do = do
        /\ proc \in Process /\ Tail(proc.steps) \in Seq(StepType) /\ ~proc.sending
    BY AtStepKnown
  <1>2. /\ Same(proc, Rest) /\ Rest.steps = Tail(proc.steps) /\ Rest.sending = proc.sending /\ Rest.to = proc.to
        /\ Rest.probing = proc.probing /\ Rest.docs = proc.docs /\ Rest.meant = proc.meant
        /\ Rest.chosen = proc.chosen
    BY <1>1 DEF Same, Rest, Process
  <1> QED
    BY <1>1, <1>2, RestSound

(* A socket that is resolved is that of an engine, and the given one if    *)
(* one is given.                                                           *)
LEMMA ResolvedEngine ==
  ASSUME NEW socket \in EngineRef, NEW e \in Resolved(socket)
  PROVE  e \in Engine /\ e \in EngineRef /\ (socket # NoEngine => e = socket)
  BY DEF Resolved, Live, EngineRef

(* Open: the channel leads to an engine of the given socket.               *)
LEMMA OpenStep ==
  ASSUME CommandInv, Open
  PROVE  CommandInv'
  <1>1. PICK do \in {"open", "connect"} : AtStep(do)
    BY DEF Open
  <1>2. /\ Sound(proc, seen, panel) /\ proc.status = "running" /\ proc.steps # <<>> /\ proc.steps[1].do = do
        /\ proc \in Process /\ Tail(proc.steps) \in Seq(StepType) /\ ~proc.probing /\ ~proc.sending
    BY <1>1, AtStepKnown DEF Opening
  <1>3. CASE Update(Failed(proc))
    BY <1>2, <1>3, FailedSound, Updated
  <1>4. ASSUME NEW e \in Resolved(proc.socket),
               Update([Rest EXCEPT !.to = e, !.lost = FALSE, !.probing = AtStep("open")])
        PROVE  CommandInv'
    <2> DEFINE r == [Rest EXCEPT !.to = e, !.lost = FALSE, !.probing = AtStep("open")]
    <2>1. proc.socket \in EngineRef
      BY <1>2 DEF Process
    <2>2. e \in Engine /\ e \in EngineRef /\ (proc.socket # NoEngine => e = proc.socket)
      BY <2>1, ResolvedEngine
    <2>3. AtStep("open") \in BOOLEAN /\ (AtStep("open") => do = "open")
      BY <1>2 DEF AtStep, Now
    <2>4. /\ Same(proc, r) /\ r.steps = Tail(proc.steps) /\ r.sending = proc.sending /\ r.to = e
          /\ r.probing = AtStep("open") /\ r.docs = proc.docs /\ r.meant = proc.meant
          /\ r.chosen = proc.chosen
      BY <1>2, <2>2, <2>3 DEF Same, Rest, Process
    <2> HIDE DEF r
    <2>5. Sound(r, seen, panel)
      BY <1>2, <2>2, <2>3, <2>4, RestSound
    <2> QED
      BY <1>4, <2>5, Updated DEF r
  <1> QED
    BY <1>3, <1>4 DEF Open

(* Probe: the channel stays, the calls may begin.                          *)
LEMMA ProbeStep ==
  ASSUME CommandInv, Probe
  PROVE  CommandInv'
  <1> DEFINE r == [proc EXCEPT !.probing = FALSE]
  <1>1. Sound(proc, seen, panel) /\ proc.status = "running"
    BY DEF CommandInv, Probe, Running
  <1>2. proc \in Process
    BY <1>1, SoundParts
  <1>3. /\ Same(proc, r) /\ r.steps = proc.steps /\ r.sending = proc.sending /\ r.to = proc.to
        /\ ~r.probing /\ r.docs = proc.docs /\ r.meant = proc.meant
        /\ r.chosen = proc.chosen /\ r.listing = proc.listing
    BY <1>1, <1>2 DEF Same, Process
  <1> HIDE DEF r
  <1>4. Sound(r, seen, panel)
    BY <1>1, <1>3, StaysSound DEF Leading
  <1> QED
    BY <1>4, Updated DEF Probe, r

(* Close.                                                                  *)
LEMMA CloseStep ==
  ASSUME CommandInv, Close
  PROVE  CommandInv'
  <1> DEFINE r == [Rest EXCEPT !.to = NoEngine, !.lost = FALSE]
  <1>1. AtStep("close") /\ ~proc.probing /\ Update(r)
    BY DEF Close
  <1>2. /\ Sound(proc, seen, panel) /\ proc.status = "running" /\ proc.steps # <<>> /\ proc.steps[1].do = "close"
        /\ proc \in Process /\ Tail(proc.steps) \in Seq(StepType) /\ ~proc.sending /\ NoEngine \in EngineRef
    BY <1>1, AtStepKnown
  <1>3. /\ Same(proc, r) /\ r.steps = Tail(proc.steps) /\ ~r.sending /\ r.to = NoEngine
        /\ ~r.probing /\ r.docs = proc.docs /\ r.meant = proc.meant /\ r.chosen = proc.chosen
    BY <1>1, <1>2 DEF Same, Rest, Process
  <1> HIDE DEF r
  <1>4. Sound(r, seen, panel)
    BY <1>2, <1>3, RestSound
  <1> QED
    BY <1>1, <1>4, Updated

(* Send.                                                                   *)
LEMMA SendStep ==
  ASSUME CommandInv, Send
  PROVE  CommandInv'
  <1>1. AtStep("call") /\ ~proc.probing
    BY DEF Send
  <1>2. /\ Sound(proc, seen, panel) /\ proc.status = "running" /\ proc.steps # <<>> /\ proc.steps[1].do = "call"
    BY <1>1, AtStepKnown
  <1> DEFINE s == proc.steps[1]
             x == [effect |-> s.effect, engine |-> proc.to,
                   ref |-> IF s.effect = "act" THEN proc.chosen.ref ELSE 0,
                   meant |-> IF s.effect = "act" THEN proc.meant ELSE 0]
             r == [proc EXCEPT !.sending = TRUE, !.sent = @ \cup {x}]
  <1>3. Update(r)
    BY DEF Send, Now
  <1>4. Sound(r, seen, panel)
    BY <1>1, <1>2, SendSound
  <1> QED
    BY <1>3, <1>4, Updated

(* Answer: the listing is the one that the dash shows at the time.         *)
LEMMA AnswerStep ==
  ASSUME CommandInv, Answer
  PROVE  CommandInv'
  <1>1. AtStep("call") /\ proc.sending
    BY DEF Answer, Answering
  <1>2. /\ Sound(proc, seen, panel) /\ proc.status = "running" /\ proc.steps # <<>> /\ proc.steps[1].do = "call"
        /\ proc \in Process /\ Tail(proc.steps) \in Seq(StepType) /\ ~proc.probing /\ panel \in Panels
    BY <1>1, AtStepKnown DEF CommandInv
  <1>3. ASSUME NEW lacked \in {FALSE, Now.lacking = "shown"}, Now.lacking # "raises",
               Update([Rest EXCEPT !.sending = FALSE, !.lacked = lacked,
                         !.listing = IF Now.effect = "list" THEN Shown(Now) ELSE @])
        PROVE  CommandInv'
    <2> DEFINE l == IF Now.effect = "list" THEN Shown(Now) ELSE proc.listing
               r == [Rest EXCEPT !.sending = FALSE, !.lacked = lacked, !.listing = l]
    <2>1. l \in AnyListing /\ lacked \in BOOLEAN
      BY <1>2, ListingsAre DEF Shown, Process
    <2>2. /\ proc.steps[1].effect = "list" /\ proc.steps[1].rpc = "ListControls" /\ ~proc.steps[1].selector.all
             => l = Enabled(panel)
      BY DEF Shown, Now
    <2>3. r = [Rest EXCEPT !.sending = FALSE, !.lacked = lacked,
                 !.listing = IF Now.effect = "list" THEN Shown(Now) ELSE @]
      BY <1>2 DEF Rest, Process
    <2> HIDE DEF l
    <2>4. /\ Same(proc, r) /\ r.steps = Tail(proc.steps) /\ ~r.sending /\ r.to = proc.to
          /\ ~r.probing /\ r.docs = proc.docs /\ r.meant = proc.meant /\ r.chosen = proc.chosen
          /\ r.listing = l
      BY <1>2, <2>1 DEF Same, Rest, Process
    <2> HIDE DEF r
    <2>5. Sound(r, seen, panel)
      BY <1>2, <2>2, <2>4, RestSound
    <2> QED
      BY <1>3, <2>3, <2>5, Updated
  <1>4. CASE Now.lacking = "raises" /\ Update([Rest EXCEPT !.sending = FALSE])
    <2> DEFINE r == [Rest EXCEPT !.sending = FALSE]
    <2>1. /\ Same(proc, r) /\ r.steps = Tail(proc.steps) /\ ~r.sending /\ r.to = proc.to
          /\ ~r.probing /\ r.docs = proc.docs /\ r.meant = proc.meant /\ r.chosen = proc.chosen
      BY <1>2 DEF Same, Rest, Process
    <2>2. proc.steps[1].lacking # "never"
      BY <1>4 DEF Now
    <2> HIDE DEF r
    <2>3. Sound(r, seen, panel)
      BY <1>2, <2>1, <2>2, RestSound
    <2> QED
      BY <1>4, <2>3, Updated DEF r
  <1>5. CASE Update(Ended(proc, "1"))
    BY <1>2, <1>5, FailsSound, Updated
  <1> QED
    BY <1>3, <1>4, <1>5 DEF Answer

(* AnswerStatus: the command fails, returns to its prompt, or asks for the *)
(* code.                                                                   *)
LEMMA AnswerStatusStep ==
  ASSUME CommandInv, AnswerStatus
  PROVE  CommandInv'
  <1>1. AtStep("call") /\ proc.sending
    BY DEF AnswerStatus, Answering
  <1>2. /\ Sound(proc, seen, panel) /\ proc.status = "running" /\ proc.steps # <<>> /\ proc.steps[1].do = "call"
        /\ proc \in Process /\ proc.steps \in Seq(StepType) /\ ~proc.probing
    BY <1>1, AtStepKnown
  <1>3. CASE Update(Failed(proc))
    BY <1>2, <1>3, FailedSound, Updated
  <1>4. CASE Now.error = "prompt" /\ Update([proc EXCEPT !.steps = Remaining(proc, "prompt"), !.sending = FALSE])
    <2> DEFINE r == [proc EXCEPT !.steps = Remaining(proc, "prompt"), !.sending = FALSE]
    <2>1. proc.steps[1].error = "prompt"
      BY <1>4 DEF Now
    <2>2. Remaining(proc, "prompt") \in Seq(StepType)
      BY <1>2, <2>1, RemainingSuffix DEF Suffix
    <2>3. /\ Same(proc, r) /\ r.steps = Remaining(proc, "prompt") /\ ~r.sending /\ r.to = proc.to
          /\ ~r.probing /\ r.docs = proc.docs /\ r.meant = proc.meant /\ r.chosen = proc.chosen
      BY <1>2, <2>2 DEF Same, Process
    <2> HIDE DEF r
    <2>4. Sound(r, seen, panel)
      BY <1>2, <2>1, <2>3, RemainingSound
    <2> QED
      BY <1>4, <2>4, Updated DEF r
  <1>5. CASE Update(Ended(proc, "1"))
    BY <1>2, <1>5, FailsSound, Updated
  <1>6. CASE Now.error = "totp" /\ Update([proc EXCEPT !.steps[1].error = "fails", !.sending = FALSE])
    <2>1. proc.steps[1].error = "totp"
      BY <1>6 DEF Now
    <2>2. Sound([proc EXCEPT !.steps[1].error = "fails", !.sending = FALSE], seen, panel)
      BY <1>2, <2>1, AgainSound
    <2> QED
      BY <1>6, <2>2, Updated
  <1> QED
    BY <1>3, <1>4, <1>5, <1>6 DEF AnswerStatus

(* Disconnect and PingTimeout.                                             *)
LEMMA DisconnectStep ==
  ASSUME CommandInv, Disconnect \/ PingTimeout
  PROVE  CommandInv'
  <1>1. AtStep("call") /\ proc.sending
    BY DEF Disconnect, PingTimeout, Answering
  <1>2. /\ Sound(proc, seen, panel) /\ proc.status = "running" /\ proc.steps # <<>> /\ proc.steps[1].do = "call"
        /\ ~proc.probing
    BY <1>1, AtStepKnown
  <1>3. CASE Update(Failed(proc))
    BY <1>2, <1>3, FailedSound, Updated
  <1>4. CASE Update(Ended(proc, "1"))
    BY <1>2, <1>4, FailsSound, Updated
  <1> QED
    BY <1>3, <1>4 DEF Disconnect, PingTimeout

(* ChooseItem: the index is looked up in the listing that the user saw, if *)
(* the dash has not changed.                                               *)
LEMMA ChooseItemStep ==
  ASSUME CommandInv, ChooseItem
  PROVE  CommandInv'
  <1> DEFINE s == proc.steps[1].selector
             item == ResolveSelector(proc.listing, s)
             m == Meant(s)
             r == [Rest EXCEPT !.chosen = item, !.meant = m]
  <1>1. AtStep("choose") /\ (Update(Ended(proc, "2")) \/ Update(r))
    BY DEF ChooseItem, Now
  <1>2. /\ Sound(proc, seen, panel) /\ proc.status = "running" /\ proc.steps # <<>> /\ proc.steps[1].do = "choose"
        /\ proc \in Process /\ Tail(proc.steps) \in Seq(StepType) /\ ~proc.sending /\ s \in SelectorType
    BY <1>1, AtStepKnown DEF StepType
  <1>3. /\ proc.listing \in Seq(Items) /\ seen.items \in Seq(Items) /\ panel \in Seq(Items)
        /\ ListingInv(proc, seen, panel)
    BY <1>2, ListingsAre, SoundParts DEF Process, CommandInv
  <1>4. item \in Items /\ (s.by = "index" /\ s.at < Len(proc.listing) => item = proc.listing[s.at + 1])
    BY <1>2, <1>3, Resolves
  <1> HIDE DEF item
  <1>5. m = 0 \/ /\ s.by = "index" /\ seen.fresh /\ s.at < Len(seen.items)
                 /\ Len(proc.words) = 2 /\ proc.words[2] # "tab"
                 /\ m = seen.items[s.at + 1].ref
    BY DEF Meant
  <1> HIDE DEF m
  <1>6. s.at < Len(seen.items) => seen.items[s.at + 1] \in Items
    <2>1. s.at \in Nat /\ Len(seen.items) \in Nat
      BY <1>2, <1>3 DEF SelectorType
    <2>2. s.at < Len(seen.items) => s.at + 1 \in 1 .. Len(seen.items)
      BY <2>1
    <2> QED
      BY <1>3, <2>2
  <1>7. m \in Refs
    BY <1>5, <1>6, ListingsAre
  <1>8. ASSUME m # 0, ~seen.all PROVE item.ref = m
    <2>1. proc.words # <<"dash", "tab">>
      <3>1. <<"dash", "tab">>[2] = "tab"
        OBVIOUS
      <3> QED
        BY <1>5, <1>8, <3>1
    <2>2. proc.listing = Enabled(panel)
      BY <1>2, <1>3, <1>5, <1>8, <2>1 DEF ListingInv, ListedAs
    <2>3. seen.items \in {panel, Enabled(panel)} /\ \A i \in DOMAIN seen.items : seen.items[i].enabled
      BY <1>3, <1>5, <1>8 DEF ListingInv
    <2>4. proc.listing = seen.items
      BY <1>3, <2>2, <2>3, EnabledAll
    <2> QED
      BY <1>4, <1>5, <1>8, <2>4
  <1>9. /\ Same(proc, r) /\ r.steps = Tail(proc.steps) /\ ~r.sending /\ r.to = proc.to
        /\ r.probing = proc.probing /\ r.docs = proc.docs /\ r.meant = m /\ r.chosen = item
    BY <1>2, <1>4, <1>7 DEF Same, Rest, Process
  <1> HIDE DEF r
  <1>10. Sound(r, seen, panel)
    BY <1>2, <1>8, <1>9, RestSound
  <1> QED
    BY <1>1, <1>2, <1>10, RefusesSound, Updated

(* RefuseArguments.                                                        *)
LEMMA RefuseStep ==
  ASSUME CommandInv, RefuseArguments
  PROVE  CommandInv'
  <1>1. AtStep("refuse") /\ Update(Ended(proc, "2"))
    BY DEF RefuseArguments
  <1>2. /\ Sound(proc, seen, panel) /\ proc.status = "running" /\ proc.steps # <<>> /\ proc.steps[1].do = "refuse"
    BY <1>1, AtStepKnown
  <1> QED
    BY <1>1, <1>2, RefusesSound, Updated

(* RaiseError.                                                             *)
LEMMA RaiseStep ==
  ASSUME CommandInv, RaiseError
  PROVE  CommandInv'
  <1>1. AtStep("raise") /\ Update(Ended(proc, "1"))
    BY DEF RaiseError
  <1>2. /\ Sound(proc, seen, panel) /\ proc.status = "running" /\ proc.steps # <<>> /\ proc.steps[1].do = "raise"
    BY <1>1, AtStepKnown
  <1> QED
    BY <1>1, <1>2, FailsSound, Updated

(* PrintResult.                                                            *)
LEMMA PrintStep ==
  ASSUME CommandInv, PrintResult
  PROVE  CommandInv'
  <1> DEFINE n == IF proc.docs < 2 THEN proc.docs + 1 ELSE proc.docs
             r == [Rest EXCEPT !.docs = n]
  <1>1. AtStep("print") /\ Update([Rest EXCEPT !.docs = IF @ < 2 THEN @ + 1 ELSE @])
    BY DEF PrintResult
  <1>2. /\ Sound(proc, seen, panel) /\ proc.status = "running" /\ proc.steps # <<>> /\ proc.steps[1].do = "print"
        /\ proc \in Process /\ Tail(proc.steps) \in Seq(StepType) /\ ~proc.sending /\ proc.docs \in 0 .. 2
    BY <1>1, AtStepKnown, SoundParts
  <1>3. n \in 0 .. 2 /\ (proc.docs = 0 => n = 1)
    BY <1>2
  <1>4. Update(r)
    BY <1>1, <1>2 DEF Rest, Process
  <1> HIDE DEF n
  <1>5. /\ Same(proc, r) /\ r.steps = Tail(proc.steps) /\ ~r.sending /\ r.to = proc.to
        /\ r.probing = proc.probing /\ r.docs = n /\ r.meant = proc.meant /\ r.chosen = proc.chosen
    BY <1>2, <1>3 DEF Same, Rest, Process
  <1> HIDE DEF r
  <1>6. Sound(r, seen, panel)
    BY <1>2, <1>3, <1>5, RestSound
  <1> QED
    BY <1>4, <1>6, Updated

(* ShowResult: nothing was printed before.                                 *)
LEMMA ShowStep ==
  ASSUME CommandInv, ShowResult
  PROVE  CommandInv'
  <1>1. AtStep("show") /\ (Update(Rest) \/ Update([Rest EXCEPT !.docs = @ + 1]))
    BY DEF ShowResult
  <1>2. /\ Sound(proc, seen, panel) /\ proc.status = "running" /\ proc.steps # <<>> /\ proc.steps[1].do = "show"
        /\ proc \in Process /\ proc.steps \in Seq(StepType) /\ Tail(proc.steps) \in Seq(StepType)
        /\ ~proc.sending /\ Printing(proc)
    BY <1>1, AtStepKnown, SoundParts
  <1>3. CASE Update(Rest)
    BY <1>1, <1>3, RestUpdated, Updated
  <1>4. CASE Update([Rest EXCEPT !.docs = @ + 1])
    <2> DEFINE r == [Rest EXCEPT !.docs = 1]
    <2>1. proc.docs = 0
      BY <1>2, EmptySeq DEF Printing
    <2>6. Rest.docs = 0
      BY <1>2, <2>1 DEF Rest, Process
    <2>2. Rest.docs = 0 /\ 0 + 1 = 1 /\ 1 \in 0 .. 2
      BY <2>6
    <2>3. Update(r)
      BY <1>4, <2>2
    <2>4. /\ Same(proc, r) /\ r.steps = Tail(proc.steps) /\ ~r.sending /\ r.to = proc.to
          /\ r.probing = proc.probing /\ r.meant = proc.meant /\ r.chosen = proc.chosen
      BY <1>2, <2>2 DEF Same, Rest, Process
    <2> HIDE DEF r
    <2>5. Sound(r, seen, panel)
      BY <1>2, <2>4, RestSound
    <2> QED
      BY <2>3, <2>5, Updated
  <1> QED
    BY <1>1, <1>3, <1>4

(* A numbering begins anew what the user may mean.                         *)
LEMMA NumberStep ==
  ASSUME CommandInv, NumberListing
  PROVE  CommandInv'
  <1> DEFINE q == proc.steps
             all == \E i \in DOMAIN proc.listing : ~proc.listing[i].enabled
             fresh == proc.listing \in {panel, Enabled(panel)}
             shown == [items |-> proc.listing, fresh |-> fresh, all |-> all]
  <1>1. AtStep("number") /\ proc' = Rest /\ seen' = shown /\ UNCHANGED <<engine, panel, changes>>
    BY DEF NumberListing
  <1>2. /\ Sound(proc, seen, panel) /\ proc.status = "running" /\ q # <<>> /\ q[1].do = "number"
        /\ proc \in Process /\ q \in Seq(StepType) /\ Tail(q) \in Seq(StepType) /\ ~proc.sending
    BY <1>1, AtStepKnown
  <1>3. Sound(Rest, seen, panel)
    BY <1>1, RestUpdated
  <1>4. /\ Coherent(proc.words, proc.fmt, q) /\ Numbering(proc) /\ 1 \in DOMAIN q
        /\ \A i \in DOMAIN Tail(q) : i + 1 \in DOMAIN q /\ Tail(q)[i] = q[i + 1]
    BY <1>2, SoundParts, TailSuffix
  <1>5. /\ Rest.status = "running" /\ Rest.steps = Tail(q) /\ Rest.meant = proc.meant /\ Rest.sent = proc.sent
    BY <1>2 DEF Rest, Process
  <1>6. shown \in [items : AnyListing, fresh : BOOLEAN, all : BOOLEAN]
    <2>1. proc.listing \in AnyListing
      BY <1>2 DEF Process
    <2>2. fresh \in BOOLEAN
      OBVIOUS
    <2>3. all \in BOOLEAN
      BY Zenon
    <2> HIDE DEF fresh, all
    <2> QED
      BY <2>1, <2>2, <2>3
  <1>7. ListingInv(Rest, shown, panel)
    <2>1. shown.fresh = fresh /\ shown.items = proc.listing /\ shown.all = all
      OBVIOUS
    <2> HIDE DEF shown
    <2>2. shown.fresh => shown.items \in {panel, Enabled(panel)}
      BY <2>1
    <2>3. ~shown.all => \A i \in DOMAIN shown.items : shown.items[i].enabled
      BY <2>1
    <2>4. Rest.meant = 0 /\ \A x \in Rest.sent : x.meant = 0
      BY <1>2, <1>4, <1>5 DEF Numbering
    <2>5. ASSUME Rest.steps # <<>>, Rest.steps[1].do = "choose" PROVE FALSE
      <3>1. 1 \in DOMAIN Tail(q)
        BY <1>2, <1>5, <2>5, EmptySeq
      <3>2. 1 + 1 \in DOMAIN q /\ q[1 + 1].do = "choose"
        BY <1>4, <1>5, <2>5, <3>1
      <3> QED
        BY <1>2, <1>4, <3>2 DEF Coherent, NumbersOnly
    <2>6. ListedAs(Rest, shown, panel)
      BY <2>5 DEF ListedAs
    <2> QED
      BY <2>2, <2>3, <2>4, <2>6 DEF ListingInv
  <1> HIDE DEF shown, fresh, all
  <1>8. Sound(Rest, shown, panel)
    BY <1>3, <1>7 DEF Sound
  <1> QED
    BY <1>1, <1>6, <1>8 DEF CommandInv

(* WriteFile and HostStep.                                                 *)
LEMMA LocalStep ==
  ASSUME CommandInv, WriteFile \/ HostStep
  PROVE  CommandInv'
  <1>1. PICK do \in {"file", "host"} : AtStep(do)
    BY DEF WriteFile, HostStep
  <1>2. /\ Sound(proc, seen, panel) /\ proc.status = "running" /\ proc.steps # <<>> /\ proc.steps[1].do = do
    BY <1>1, AtStepKnown
  <1>3. Sound(Rest, seen, panel)
    BY <1>1, RestUpdated
  <1>4. CASE Update(Rest)
    BY <1>3, <1>4, Updated
  <1>5. CASE Update(Ended(proc, "1"))
    BY <1>2, <1>5, FailsSound, Updated
  <1> QED
    BY <1>4, <1>5 DEF WriteFile, HostStep

(* The next attempt, or the deadline.                                      *)
LEMMA RetrySound ==
  ASSUME CommandInv, AtStep("await")
  PROVE  Sound(Retry(proc), seen, panel)
  <1> DEFINE r == [proc EXCEPT !.to = NoEngine, !.sending = FALSE, !.lost = FALSE]
  <1>1. /\ Sound(proc, seen, panel) /\ proc.status = "running" /\ proc.steps # <<>> /\ proc.steps[1].do = "await"
        /\ proc \in Process /\ ~proc.probing /\ NoEngine \in EngineRef
    BY AtStepKnown DEF Opening
  <1>2. /\ Same(proc, r) /\ r.steps = proc.steps /\ ~r.sending /\ r.to = NoEngine
        /\ ~r.probing /\ r.docs = proc.docs /\ r.meant = proc.meant
        /\ r.chosen = proc.chosen /\ r.listing = proc.listing
    BY <1>1 DEF Same, Process
  <1> HIDE DEF r
  <1>3. Sound(r, seen, panel)
    BY <1>1, <1>2, StaysSound DEF Leading
  <1> QED
    BY <1>1, <1>3, FailsSound DEF Retry, r

(* Attempt: of an engine of the given socket.                              *)
LEMMA AttemptStep ==
  ASSUME CommandInv, Attempt
  PROVE  CommandInv'
  <1>1. AtStep("await")
    BY DEF Attempt
  <1>2. /\ Sound(proc, seen, panel) /\ proc.status = "running" /\ proc.steps # <<>> /\ proc.steps[1].do = "await"
        /\ proc \in Process /\ ~proc.probing
    BY <1>1, AtStepKnown DEF Opening
  <1>3. CASE Update(Ended(proc, "1"))
    BY <1>2, <1>3, FailsSound, Updated
  <1>4. CASE Update(Retry(proc))
    BY <1>1, <1>4, RetrySound, Updated
  <1>5. ASSUME NEW e \in Resolved(proc.socket), Update([proc EXCEPT !.to = e, !.sending = TRUE])
        PROVE  CommandInv'
    <2> DEFINE r == [proc EXCEPT !.to = e, !.sending = TRUE]
    <2>1. e \in Engine /\ e \in EngineRef /\ (proc.socket # NoEngine => e = proc.socket)
      BY <1>2, ResolvedEngine DEF Process
    <2>2. /\ Same(proc, r) /\ r.steps = proc.steps /\ r.sending /\ r.to = e
          /\ ~r.probing /\ r.docs = proc.docs /\ r.meant = proc.meant
          /\ r.chosen = proc.chosen /\ r.listing = proc.listing
      BY <1>2, <2>1 DEF Same, Process
    <2> HIDE DEF r
    <2>3. Sound(r, seen, panel)
      BY <1>2, <2>1, <2>2, StaysSound DEF Leading
    <2> QED
      BY <1>5, <2>3, Updated DEF r
  <1> QED
    BY <1>3, <1>4, <1>5 DEF Attempt

(* Pong.                                                                   *)
LEMMA PongStep ==
  ASSUME CommandInv, Pong
  PROVE  CommandInv'
  <1> DEFINE r == [Rest EXCEPT !.to = NoEngine, !.sending = FALSE, !.late = FALSE]
  <1>1. AtStep("await")
    BY DEF Pong
  <1>2. /\ Sound(proc, seen, panel) /\ proc.status = "running" /\ proc.steps # <<>> /\ proc.steps[1].do = "await"
        /\ proc \in Process /\ Tail(proc.steps) \in Seq(StepType) /\ ~proc.probing /\ NoEngine \in EngineRef
    BY <1>1, AtStepKnown DEF Opening
  <1>3. CASE Update(Ended(proc, "1"))
    BY <1>2, <1>3, FailsSound, Updated
  <1>4. CASE Update(Retry(proc))
    BY <1>1, <1>4, RetrySound, Updated
  <1>5. CASE Update(r)
    <2>1. /\ Same(proc, r) /\ r.steps = Tail(proc.steps) /\ ~r.sending /\ r.to = NoEngine
          /\ ~r.probing /\ r.docs = proc.docs /\ r.meant = proc.meant /\ r.chosen = proc.chosen
      BY <1>2 DEF Same, Rest, Process
    <2> HIDE DEF r
    <2>2. Sound(r, seen, panel)
      BY <1>2, <2>1, RestSound
    <2> QED
      BY <1>5, <2>2, Updated
  <1> QED
    BY <1>3, <1>4, <1>5 DEF Pong

(* Deadline.                                                               *)
LEMMA DeadlineStep ==
  ASSUME CommandInv, Deadline
  PROVE  CommandInv'
  <1> DEFINE r == [proc EXCEPT !.late = TRUE]
  <1>1. AtStep("await") /\ Update(r)
    BY DEF Deadline
  <1>2. /\ Sound(proc, seen, panel) /\ proc.status = "running" /\ proc.steps # <<>>
        /\ proc \in Process
    BY <1>1, AtStepKnown
  <1>3. /\ Same(proc, r) /\ r.steps = proc.steps /\ r.sending = proc.sending /\ r.to = proc.to
        /\ r.probing = proc.probing /\ r.docs = proc.docs /\ r.meant = proc.meant
        /\ r.chosen = proc.chosen /\ r.listing = proc.listing
    BY <1>2 DEF Same, Process
  <1> HIDE DEF r
  <1>4. Sound(r, seen, panel)
    BY <1>2, <1>3, StaysSound DEF Leading
  <1> QED
    BY <1>1, <1>4, Updated

(* Line: a line is read, or the input ends.                                *)
LEMMA LineStepSound ==
  ASSUME CommandInv, Line
  PROVE  CommandInv'
  <1>1. AtStep("prompt") /\ ~proc.probing
    BY DEF Line
  <1>2. /\ Sound(proc, seen, panel) /\ proc.status = "running" /\ proc.steps # <<>> /\ proc.steps[1].do = "prompt"
    BY <1>1, AtStepKnown
  <1>3. CASE Update(Rest)
    BY <1>1, <1>3, RestUpdated, Updated
  <1>4. ASSUME NEW line \in Menu(Now.rpc),
               Update([proc EXCEPT !.menu = Now.rpc, !.steps = line \o @, !.docs = 0, !.lacked = FALSE])
        PROVE  CommandInv'
    <2>1. Now.rpc = proc.steps[1].rpc
      BY DEF Now
    <2>2. Sound([proc EXCEPT !.menu = Now.rpc, !.steps = line \o @, !.docs = 0, !.lacked = FALSE], seen, panel)
      BY <1>1, <1>2, <2>1, LineSound
    <2> QED
      BY <1>4, <2>2, Updated
  <1> QED
    BY <1>3, <1>4 DEF Line

(* Finish and Interrupt: at the end the document is out.                   *)
LEMMA FinishStep ==
  ASSUME CommandInv, Finish \/ Interrupt
  PROVE  CommandInv'
  <1>1. Sound(proc, seen, panel) /\ proc.status = "running"
    BY DEF CommandInv, Finish, Interrupt, Running
  <1>2. CASE proc.steps = <<>> /\ Update(Ended(proc, "0"))
    <2>1. Printing(proc)
      BY <1>1, SoundParts
    <2>2. proc.fmt = "json" => proc.docs = 1
      BY <1>2, <2>1 DEF Printing, DocumentDue, ToCome
    <2>3. "0" \in {"0", "1", "2", "130"} /\ "0" # "2" /\ "0" \notin {"1", "2"}
      OBVIOUS
    <2>4. Sound(Ended(proc, "0"), seen, panel)
      BY <1>1, <2>2, <2>3, EndedSound
    <2> QED
      BY <1>2, <2>4, Updated
  <1>3. CASE Update(Ended(proc, "130"))
    <2>1. "130" \in {"0", "1", "2", "130"} /\ "130" # "2" /\ "130" # "0" /\ "130" \notin {"1", "2"}
      OBVIOUS
    <2>2. Sound(Ended(proc, "130"), seen, panel)
      BY <1>1, <2>1, EndedSound
    <2> QED
      BY <1>3, <2>2, Updated
  <1> QED
    BY <1>2, <1>3 DEF Finish, Interrupt

(* Start.                                                                  *)
LEMMA StartStep ==
  ASSUME CommandInv, NEW c \in AllCommands, NEW named \in EngineRef, NEW inner \in BOOLEAN, Start(c, named, inner)
  PROVE  CommandInv'
  <1> DEFINE r == [Idle EXCEPT !.words = c.words, !.fmt = c.fmt, !.steps = c.steps, !.inner = inner,
                     !.named = named, !.socket = SocketOption(c, named, inner), !.status = "running"]
  <1>1. Sound(r, seen, panel)
    BY StartSound DEF CommandInv
  <1>2. proc' = r /\ changes' = 0 /\ UNCHANGED <<engine, panel, seen>>
    BY DEF Start
  <1> HIDE DEF r
  <1>3. 0 \in 0 .. MaxChange
    BY CommandsAssumption
  <1> QED
    BY <1>1, <1>2, <1>3 DEF CommandInv

(* EngineChanges: the process at most learns that its connection broke.    *)
LEMMA EngineStep ==
  ASSUME CommandInv, NEW e \in Engine, EngineChanges(e)
  PROVE  CommandInv'
  <1> DEFINE r == [proc EXCEPT !.lost = TRUE]
  <1>1. /\ Sound(proc, seen, panel) /\ proc.status = "running" /\ proc \in Process
    BY SoundParts DEF CommandInv, EngineChanges, Running
  <1>2. /\ Same(proc, r) /\ r.steps = proc.steps /\ r.sending = proc.sending /\ r.to = proc.to
        /\ r.probing = proc.probing /\ r.docs = proc.docs /\ r.meant = proc.meant
        /\ r.chosen = proc.chosen /\ r.listing = proc.listing
    BY <1>1 DEF Same, Process
  <1>3. proc' \in {proc, r} /\ UNCHANGED <<panel, seen>>
    BY DEF EngineChanges, Change
  <1> HIDE DEF r
  <1>4. Sound(r, seen, panel)
    BY <1>1, <1>2, StaysSound DEF Leading
  <1>5. changes' \in 0 .. MaxChange
    BY CommandsAssumption DEF CommandInv, EngineChanges, Change
  <1>6. engine' \in [Engine -> EngineState]
    BY DEF CommandInv, EngineChanges
  <1> QED
    BY <1>1, <1>3, <1>4, <1>5, <1>6 DEF CommandInv

(* PanelChanges: what the user read is no longer what the dash shows.      *)
LEMMA PanelStep ==
  ASSUME CommandInv, PanelChanges
  PROVE  CommandInv'
  <1> DEFINE shown == [seen EXCEPT !.fresh = @ /\ panel' = panel]
  <1>1. Sound(proc, seen, panel) /\ seen \in [items : AnyListing, fresh : BOOLEAN, all : BOOLEAN]
    BY DEF CommandInv
  <1>2. panel' \in Panels /\ seen' = shown /\ UNCHANGED <<engine, proc>>
    BY DEF PanelChanges
  <1>3. changes' \in 0 .. MaxChange
    BY CommandsAssumption DEF CommandInv, PanelChanges
  <1>4. /\ shown \in [items : AnyListing, fresh : BOOLEAN, all : BOOLEAN]
        /\ shown.items = seen.items /\ shown.all = seen.all /\ (shown.fresh => seen.fresh /\ panel' = panel)
    BY <1>1
  <1> HIDE DEF shown
  <1>5. ListingInv(proc, shown, panel')
    <2>1. ListingInv(proc, seen, panel)
      BY <1>1 DEF Sound
    <2>2. ListedAs(proc, shown, panel') \/ proc.status # "running"
      BY <1>4, <2>1 DEF ListingInv, ListedAs
    <2> QED
      BY <1>4, <2>1, <2>2 DEF ListingInv
  <1>6. Sound(proc, shown, panel')
    BY <1>1, <1>5 DEF Sound
  <1> QED
    BY <1>2, <1>3, <1>4, <1>6 DEF CommandInv

(* In the beginning nobody has typed anything.                             *)
LEMMA CommandsInit ==
  ASSUME Init
  PROVE  CommandInv
  <1>1. /\ NoEngine \in EngineRef /\ NoItem \in Items /\ 0 \in Refs /\ <<>> \in AnyListing
        /\ FALSE \in BOOLEAN /\ 0 \in 0 .. 2 /\ {} \in SUBSET Sent /\ <<>> \in Words /\ <<>> \in Seq(StepType)
        /\ "" \in {"", "grabber", "inventory"} /\ "none" \in Status /\ "human" \in Format /\ TRUE \in BOOLEAN
    BY ListingsAre DEF EngineRef, AnyListing, Status, Words, Format
  <1>2. /\ Idle \in Process /\ Idle.status = "none" /\ Idle.to = NoEngine /\ Idle.steps = <<>>
        /\ ~Idle.probing /\ ~Idle.sending /\ Idle.sent = {} /\ Idle.meant = 0 /\ Idle.named = NoEngine
        /\ Idle.socket = NoEngine /\ Idle.fmt = "human"
    BY <1>1 DEF Idle, Process
  <1>3. /\ seen = [items |-> <<>>, fresh |-> FALSE, all |-> FALSE] /\ proc = Idle /\ changes = 0
        /\ engine \in [Engine -> EngineState] /\ panel \in Panels
    BY DEF Init
  <1>4. seen \in [items : AnyListing, fresh : BOOLEAN, all : BOOLEAN] /\ ~seen.fresh /\ seen.items = <<>>
    BY <1>1, <1>3
  <1>5. 0 \in 0 .. MaxChange
    BY CommandsAssumption
  <1>6. Sound(Idle, seen, panel)
    <2>1. ProcInv(Idle)
      BY <1>2 DEF ProcInv, EndedInv
    <2>2. NamedInv(Idle)
      BY <1>2 DEF NamedInv
    <2>3. ListingInv(Idle, seen, panel)
      BY <1>2, <1>4 DEF ListingInv
    <2> QED
      BY <1>2, <2>1, <2>2, <2>3 DEF Sound, Harmless, Documented
  <1> QED
    BY <1>3, <1>4, <1>5, <1>6 DEF CommandInv

(* Every step of Next, or none, keeps the invariant.                       *)
LEMMA CommandsStep ==
  ASSUME CommandInv, [Next]_vars
  PROVE  CommandInv'
  <1>1. CASE UNCHANGED vars
    BY <1>1 DEF vars, CommandInv
  <1>2. ASSUME NEW c \in AllCommands, NEW named \in EngineRef, NEW inner \in BOOLEAN, Start(c, named, inner)
        PROVE  CommandInv'
    BY <1>2, StartStep
  <1>3. CASE Progress
    BY <1>3, FinishStep, OpenStep, ProbeStep, CloseStep, SendStep, AnswerStep, AnswerStatusStep,
       DisconnectStep, ChooseItemStep, RefuseStep, RaiseStep, PrintStep, ShowStep, NumberStep,
       LocalStep, AttemptStep, PongStep DEF Progress
  <1>4. CASE Deadline \/ Line \/ Interrupt
    BY <1>4, DeadlineStep, LineStepSound, FinishStep
  <1>5. ASSUME NEW e \in Engine, EngineChanges(e) PROVE CommandInv'
    BY <1>5, EngineStep
  <1>6. CASE PanelChanges
    BY <1>6, PanelStep
  <1> QED
    BY <1>1, <1>2, <1>3, <1>4, <1>5, <1>6 DEF Next

-----------------------------------------------------------------------------
(* The properties.                                                         *)

(* What the invariant says of the properties of the runs.                  *)
LEMMA CommandParts ==
  ASSUME CommandInv
  PROVE  TypeOK /\ RefusalIsHarmless /\ DocumentIffSuccess /\ IndexAsListed /\ AsksNamedEngine
  <1>1. proc \in Process /\ ProcInv(proc) /\ NamedInv(proc) /\ ListingInv(proc, seen, panel)
        /\ Harmless(proc) /\ Documented(proc)
    BY DEF CommandInv, Sound, ProcInv
  <1>2. TypeOK
    <2>1. DOMAIN proc = DOMAIN Idle
      BY <1>1 DEF Process, Idle
    <2>2. proc.status # "running" => proc.to = NoEngine /\ proc.steps = <<>> /\ ~proc.probing /\ ~proc.sending
      BY <1>1 DEF ProcInv, EndedInv
    <2>3. proc.probing \/ proc.sending => proc.to \in Engine
      BY <1>1, <2>2 DEF ProcInv, RunningInv, Calling
    <2>4. /\ proc.words \in Words
          /\ {proc.named, proc.socket, proc.to} \subseteq EngineRef
          /\ proc.status \in Status /\ proc.menu \in {"", "grabber", "inventory"}
          /\ proc.listing \in AnyListing /\ proc.chosen \in Items /\ proc.meant \in Refs
          /\ proc.docs \in 0 .. 2 /\ proc.sent \subseteq Sent
      BY <1>1 DEF Process
    <2> QED
      BY <2>1, <2>2, <2>3, <2>4 DEF TypeOK, CommandInv
  <1>3. RefusalIsHarmless /\ DocumentIffSuccess
    BY <1>1 DEF RefusalIsHarmless, DocumentIffSuccess, Harmless, Documented
  <1>4. IndexAsListed
    BY <1>1 DEF IndexAsListed, ListingInv
  <1>5. AsksNamedEngine
    BY <1>1 DEF AsksNamedEngine, NamedInv
  <1> QED
    BY <1>2, <1>3, <1>4, <1>5

(* The invariant holds in every reachable state, for any engines, keys,    *)
(* panels and bound.                                                       *)
THEOREM CommandsInvariant == Spec => []CommandInv
  BY CommandsInit, CommandsStep, PTL DEF Spec

(* Every variable keeps its type; a process that has ended holds no        *)
(* channel, and one that asks or calls has one.                            *)
THEOREM CommandsTypeCorrect == Spec => []TypeOK
  BY CommandsInvariant, CommandParts, PTL

(* A command that exits with 2 has sent nothing that changes an engine, in *)
(* whatever order answers, changes of the dash and ends of engines come.   *)
THEOREM RefusalsHarmless == Spec => []RefusalIsHarmless
  BY CommandsInvariant, CommandParts, PTL

(* With --format json one document is printed if the command succeeds, and *)
(* none if it fails, whichever call fails and however.                     *)
THEOREM OneDocument == Spec => []DocumentIffSuccess
  BY CommandsInvariant, CommandParts, PTL

(* An index that was read off `dash ls` reaches the control of that        *)
(* number, unless the dash has changed since.                              *)
THEOREM IndexesMeanWhatWasListed == Spec => []IndexAsListed
  BY CommandsInvariant, CommandParts, PTL

(* A command given -s after its last word sends to no other engine,        *)
(* through however many channels.                                          *)
THEOREM NamedEngineAsked == Spec => []AsksNamedEngine
  BY CommandsInvariant, CommandParts, PTL
=============================================================================
