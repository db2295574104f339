------------------------------ MODULE MicFeed ------------------------------
(***************************************************************************)
(* resoio mic: the samples of a WAV file, at the pace of the clock after a *)
(* first burst, or of standard input as they come, sent as the frames of   *)
(* one stream.  A read of standard input runs in a thread.                 *)
(***************************************************************************)
EXTENDS Integers

CONSTANTS
  Chunk,      \* _CHUNK_SAMPLES; a step of the clock plays as many
  Warmup,     \* _WARMUP_CHUNKS
  MaxSamples, \* bound: samples of the input, and of --duration either way
  MaxWait     \* bound: steps of the clock

ASSUME MicFeedAssumption ==
  Chunk \in Nat \ {0} /\ Warmup \in Nat /\ MaxSamples \in Nat /\ MaxWait \in Nat

VARIABLES
  feed,      \* the main task
  input,     \* samples in the file, or that standard input will bring in all
  sent,      \* samples and frames sent, and steps since the first of them
  reading    \* the thread: whether it is in a read, and of how many samples

feedVars == <<feed, input, sent, reading>>

(* printed: the summary was.                                               *)
NotFeeding == [at |-> "none", source |-> "-", limit |-> MaxSamples, limited |-> FALSE,
               printed |-> FALSE, status |-> "none"]
Limit == 0 - MaxSamples .. MaxSamples
NothingSent == [samples |-> 0, frames |-> 0, steps |-> 0]

FeedTypeOK ==
  /\ feed \in [at : {"none", "probe", "load", "connect", "stream", "sleep", "summary", "leave", "ended"},
               source : {"-", "file"}, limit : Limit, limited : BOOLEAN, printed : BOOLEAN,
               status : {"none", "0", "1", "2", "130"}]
  /\ input \in 0 .. MaxSamples
  /\ sent \in [samples : 0 .. MaxSamples, frames : 0 .. MaxSamples, steps : 0 .. MaxWait]
  /\ reading \in 0 .. Chunk
  /\ feed.at = "ended" => reading = 0

FeedInit ==
  /\ feed = NotFeeding /\ input = 0 /\ sent = NothingSent /\ reading = 0

Smaller(a, b) == IF a < b THEN a ELSE b

FeedEnds(status) == feed' = [feed EXCEPT !.at = "ended", !.status = status]

(* --duration is int(duration * SAMPLE_RATE) samples, and may be negative. *)
RunMic(source, limited, limit, no_wait) ==
  /\ feed.at = "none"
  /\ feed' = [feed EXCEPT !.at = IF no_wait THEN "load" ELSE "probe", !.source = source,
                          !.limited = limited, !.limit = limit]
  /\ input' \in 0 .. MaxSamples
  /\ UNCHANGED <<sent, reading>>

(* An empty stream of its own; FAILED_PRECONDITION is tried again until    *)
(* the deadline.                                                           *)
ProbeMic ==
  /\ feed.at = "probe"
  /\ feed' = [feed EXCEPT !.at = "load"] \/ FeedEnds("1")
  /\ UNCHANGED <<input, sent, reading>>

(* _load_wav refuses a file that is missing or of another format; one that *)
(* cannot be read is an error.                                             *)
LoadInput ==
  /\ feed.at = "load"
  /\ \/ feed' = [feed EXCEPT !.at = "connect"]
     \/ feed.source = "file" /\ \E status \in {"1", "2"} : FeedEnds(status)
  /\ UNCHANGED <<input, sent, reading>>

ConnectMic ==
  /\ feed.at = "connect"
  /\ feed' = [feed EXCEPT !.at = "stream"] \/ FeedEnds("1")
  /\ UNCHANGED <<input, sent, reading>>

-----------------------------------------------------------------------------
(* The frames.                                                             *)

(* samples[:max_samples]: a negative number leaves out as many at the end. *)
Sliced == IF ~feed.limited THEN input
          ELSE IF feed.limit >= 0 THEN Smaller(input, feed.limit)
          ELSE IF input + feed.limit > 0 THEN input + feed.limit ELSE 0

(* What of the file is sent: whole chunks only.                            *)
Wanted == Sliced \div Chunk

(* The first chunks are not paced.                                         *)
Unpaced(chunk) == chunk <= Warmup

(* _iter_wav_chunks, paced: a chunk, then the time it takes to play it.    *)
SendChunk ==
  /\ feed.source = "file" /\ feed.at = "stream"
  /\ IF sent.frames < Wanted
     THEN /\ sent' = [sent EXCEPT !.samples = @ + Chunk, !.frames = @ + 1]
          /\ feed' = [feed EXCEPT !.at = IF Unpaced(sent.frames + 1) THEN "stream" ELSE "sleep"]
     ELSE feed' = [feed EXCEPT !.at = "summary"] /\ UNCHANGED sent
  /\ UNCHANGED <<input, reading>>

(* The sleep ends, late or in time.                                        *)
Played ==
  /\ feed.at = "sleep" /\ feed.source = "file"
  /\ feed' = [feed EXCEPT !.at = "stream"]
  /\ \E steps \in 1 .. 2 : sent' = [sent EXCEPT !.steps = Smaller(@ + steps, MaxWait)]
  /\ UNCHANGED <<input, reading>>

(* Mutant: always a whole chunk.                                           *)
AskedWhole == Chunk

(* A chunk, or what is left of --duration.                                 *)
Asked == IF feed.limited THEN Smaller(Chunk, feed.limit - sent.samples) ELSE Chunk

(* asyncio.to_thread(stream.read)                                          *)
StartRead ==
  /\ feed.source = "-" /\ feed.at = "stream" /\ reading = 0
  /\ IF feed.limited /\ sent.samples >= feed.limit
     THEN feed' = [feed EXCEPT !.at = "summary"] /\ UNCHANGED reading
     ELSE reading' = Asked /\ feed' = [feed EXCEPT !.at = "sleep"]
  /\ UNCHANGED <<input, sent>>

(* The thread returns: with all it was asked for, or, at the end of the    *)
(* input, with less, which is dropped.  Nobody waits for it any more once  *)
(* the stream has failed or after a Ctrl-C, but the process does.          *)
ReadReturns ==
  /\ reading > 0
  /\ reading' = 0
  /\ IF feed.at = "leave" THEN FeedEnds(feed.status) /\ UNCHANGED sent
     ELSE IF input - sent.samples < reading
     THEN feed' = [feed EXCEPT !.at = "summary"] /\ UNCHANGED sent
     ELSE /\ feed' = [feed EXCEPT !.at = "stream"]
          /\ sent' = [sent EXCEPT !.samples = @ + reading, !.frames = @ + 1]
  /\ UNCHANGED input

-----------------------------------------------------------------------------
(* The end: a summary, a status, or a cancellation.                        *)

AnswerSummary ==
  /\ feed.at = "summary"
  /\ \/ feed' = [feed EXCEPT !.at = "ended", !.status = "0", !.printed = TRUE]
     \/ FeedEnds("1")
  /\ UNCHANGED <<input, sent, reading>>

(* Mutant: the process goes although its thread is in a read.              *)
AbandonNow(status) == FeedEnds(status) /\ UNCHANGED <<input, sent, reading>>

(* The end of the main task; asyncio.run then waits for the thread.        *)
Abandon(status) ==
  /\ IF reading = 0 THEN FeedEnds(status)
     ELSE feed' = [feed EXCEPT !.at = "leave", !.status = status]
  /\ UNCHANGED <<input, sent, reading>>

(* The stream fails, or it breaks: a BrokenPipeError is taken for the end  *)
(* of standard input, and the command has succeeded without a summary.     *)
MicFails == feed.at \in {"stream", "sleep"} /\ \E status \in {"0", "1"} : Abandon(status)

InterruptMic ==
  feed.at \in {"probe", "load", "connect", "stream", "sleep", "summary"} /\ Abandon("130")

FeedProgress ==
  ProbeMic \/ LoadInput \/ ConnectMic \/ SendChunk \/ Played \/ StartRead \/ ReadReturns \/ AnswerSummary

FeedNext ==
  \/ \E source \in {"-", "file"}, limited, no_wait \in BOOLEAN, limit \in Limit :
       RunMic(source, limited, limit, no_wait)
  \/ ProbeMic \/ LoadInput \/ ConnectMic \/ SendChunk \/ Played \/ StartRead \/ ReadReturns
  \/ AnswerSummary \/ MicFails \/ InterruptMic

FeedSpec == FeedInit /\ [][FeedNext]_feedVars

(* Clocks run, calls are answered, and whoever writes standard input goes  *)
(* on or closes it.                                                        *)
FeedFairSpec == FeedSpec /\ WF_feedVars(FeedProgress)

-----------------------------------------------------------------------------
(* Properties.                                                             *)

(* A file is never ahead of its playing by more than the burst and the     *)
(* chunk that plays: the ring buffer of the bridge need not hold more.     *)
FeedPaced ==
  feed.source = "file" /\ sent.steps < MaxWait => sent.frames <= Warmup + 1 + sent.steps

Duration == feed.limited /\ feed.limit >= 0

(* No sample is sent that was not in the input, or that is beyond a        *)
(* --duration that is not negative.  When a summary is printed, less than  *)
(* a chunk of the two was left out, and of --duration nothing where        *)
(* standard input brought that much.                                       *)
FeedExact ==
  /\ sent.samples <= input
  /\ Duration => sent.samples <= feed.limit
  /\ feed.printed /\ (feed.limited => Duration) =>
       /\ (IF Duration THEN Smaller(input, feed.limit) ELSE input) < sent.samples + Chunk
       /\ feed.source = "-" /\ Duration /\ feed.limit <= input => sent.samples = feed.limit

(* Every run ends, also one that was interrupted or failed while its thread*)
(* was in a read: the process goes when that read returns.                 *)
FeedStops == (feed.at # "none") ~> feed.at = "ended"
=============================================================================
