--------------------------- MODULE StreamCommands ---------------------------
(***************************************************************************)
(* The subcommands of resoio that stream, record, drive and mic: main runs *)
(* one of them in the event loop of its process.                           *)
(***************************************************************************)
EXTENDS Recorder, Drive, MicFeed

streamVars == <<recorderVars, driveVars, feedVars>>

StreamTypeOK == RecorderTypeOK /\ DriveTypeOK /\ FeedTypeOK

StreamInit == RecorderInit /\ DriveInit /\ FeedInit

Recording == recording # NotRecording
Driving == drive # NotDriving
Feeding == feed # NotFeeding

StreamNext ==
  \/ ~Driving /\ ~Feeding /\ RecorderNext /\ UNCHANGED <<driveVars, feedVars>>
  \/ ~Recording /\ ~Feeding /\ DriveNext /\ UNCHANGED <<recorderVars, feedVars>>
  \/ ~Recording /\ ~Driving /\ FeedNext /\ UNCHANGED <<recorderVars, driveVars>>

StreamSpec == StreamInit /\ [][StreamNext]_streamVars

(* See the fairness of each.                                               *)
StreamFairSpec == StreamSpec /\ RecorderFairness /\ DriveFairness /\ WF_feedVars(FeedProgress)

-----------------------------------------------------------------------------
(* Properties: those of the modules.                                       *)

(* The pacer leaves no reader behind and makes up for no backlog.          *)
PacerSound == NoReaderLeft /\ NoBurst

(* Keys reach the stream once, and all of them.                            *)
KeysSent == KeysEmitted /\ AllSent

(* The microphone is fed at its pace and to the sample.                    *)
FeedSound == FeedPaced /\ FeedExact

(* The commands end when what they wait for does.                          *)
StreamsEnd == RecordingEnds /\ DriveReaches /\ FeedStops
=============================================================================
