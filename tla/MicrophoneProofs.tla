-------------------------- MODULE MicrophoneProofs --------------------------
(***************************************************************************)
(* Theorems about Microphone for every capacity of the ring, every size of *)
(* the chunks and of a tick's share, and any worlds and streams.           *)
(***************************************************************************)
EXTENDS Microphone, SequenceTheorems, TLAPS

USE WorldsAssumption, RepeaterAssumption

-----------------------------------------------------------------------------
(* The repeater it extends: the type of its variables, step by step.      *)

LEMMA IdleType ==
  /\ Idle \in {Idle} \cup [step : StartStep, world : World]
  /\ \A s \in StartStep, w \in World :
       At(s, w) \in {Idle} \cup [step : StartStep, world : World]
  BY DEF Idle, At

LEMMA RepeaterInitType == RepeaterInit => RepeaterTypeOK
  <1> SUFFICES ASSUME RepeaterInit PROVE RepeaterTypeOK
    OBVIOUS
  <1>1. PICK w \in WorldRef :
          /\ focused = w /\ focusChanges = 0 /\ opened = {w} \cap World /\ alive = opened
          /\ disposal = "no" /\ cachedWorld = w /\ repeaterWorld = w
          /\ running = (w # NoWorld)
          /\ queued = [v \in World |-> IF v = w THEN 1 ELSE 0]
          /\ starting = [t \in Thread |-> Idle]
    BY DEF RepeaterInit, WorldsInit
  <1> QED
    BY <1>1, IdleType DEF RepeaterTypeOK, WorldsTypeOK, WorldRef

LEMMA RepeaterUnchanged == RepeaterTypeOK /\ UNCHANGED <<worldVars, repeaterVars>> => RepeaterTypeOK'
  BY DEF RepeaterTypeOK, WorldsTypeOK, worldVars, repeaterVars

(* What a binding becomes stays well typed.                                *)
LEMMA BindingType ==
  ASSUME RepeaterTypeOK, NEW w \in World, Unbind \/ KeepBound \/ Bind(w)
  PROVE  repeaterWorld' \in WorldRef /\ running' \in BOOLEAN
  <1>1. CASE Unbind
    BY <1>1 DEF Unbind, WorldRef
  <1>2. CASE KeepBound
    BY <1>2 DEF KeepBound, RepeaterTypeOK, WorldsTypeOK
  <1>3. CASE Bind(w)
    BY <1>3 DEF Bind, WorldRef
  <1> QED
    BY <1>1, <1>2, <1>3

(* What a call hands over to EnsureRepeaterStarted. *)
LEMMA RequestStartType ==
  ASSUME RepeaterTypeOK, NEW t \in Thread, RequestStart(t)
  PROVE  starting' \in [Thread -> {Idle} \cup [step : StartStep, world : World]]
  BY DEF RequestStart, RepeaterTypeOK, WorldsTypeOK, WorldRef, At, StartStep

(* The second half of a tick. *)
LEMMA RescheduleType ==
  ASSUME RepeaterTypeOK, NEW bound \in WorldRef, Reschedule(bound)
  PROVE  repeaterWorld' \in WorldRef /\ running' \in BOOLEAN /\ queued' \in [World -> Nat]
  <1>1. queued' \in [World -> Nat]
    BY DEF Reschedule, RepeaterTypeOK, WorldsTypeOK
  <1>2. Unbind \/ KeepBound
    BY DEF Reschedule, MarkRepeaterStopped
  <1>3. CASE Unbind
    BY <1>1, <1>3 DEF Unbind, WorldRef
  <1>4. CASE KeepBound
    BY <1>1, <1>4 DEF KeepBound, RepeaterTypeOK, WorldsTypeOK
  <1> QED
    BY <1>2, <1>3, <1>4

(* EnsureRepeaterStarted, the worlds and Dispose. *)
LEMMA StartType ==
  ASSUME RepeaterTypeOK, NEW t \in Thread, StartRepeater(t)
  PROVE  RepeaterTypeOK'
  <1>1. CASE Ensure(t)
    <2>1. starting[t].world \in World
      BY <1>1 DEF Ensure, RepeaterTypeOK, WorldsTypeOK, Idle
    <2> QED
      BY <1>1, <2>1, IdleType, BindingType
      DEF Ensure, RepeaterTypeOK, WorldsTypeOK, worldVars, StartStep
  <1>2. CASE Schedule(t)
    <2>1. starting[t].world \in World
      BY <1>2 DEF Schedule, RepeaterTypeOK, WorldsTypeOK, Idle
    <2> QED
      BY <1>2, <2>1, IdleType DEF Schedule, RepeaterTypeOK, WorldsTypeOK, worldVars, At, StartStep
  <1>3. CASE ScheduleFailed(t)
    BY <1>3, IdleType DEF ScheduleFailed, Unbind, RepeaterTypeOK, WorldsTypeOK, worldVars, WorldRef
  <1> QED
    BY <1>1, <1>2, <1>3 DEF StartRepeater

LEMMA FocusType ==
  ASSUME RepeaterTypeOK, NEW w \in WorldRef, FocusWorld(w)
  PROVE  RepeaterTypeOK'
  <1>1. /\ cachedWorld' \in WorldRef /\ repeaterWorld' \in WorldRef /\ running' \in BOOLEAN
        /\ starting' \in [Thread -> {Idle} \cup [step : StartStep, world : World]]
    <2>1. CASE _disposed
      BY <2>1 DEF FocusWorld, Focus, OnWorldFocused, RepeaterTypeOK, WorldsTypeOK
    <2>2. CASE ~_disposed
      <3>1. cachedWorld' \in WorldRef
        BY <2>2 DEF FocusWorld, Focus, OnWorldFocused
      <3>2. starting' \in [Thread -> {Idle} \cup [step : StartStep, world : World]]
        BY <2>2, IdleType DEF FocusWorld, Focus, OnWorldFocused, RepeaterTypeOK, WorldsTypeOK, WorldRef, StartStep, Thread
      <3>3. Unbind \/ KeepBound
        BY <2>2 DEF FocusWorld, Focus, OnWorldFocused
      <3>4. repeaterWorld' \in WorldRef /\ running' \in BOOLEAN
        BY <3>3 DEF Unbind, KeepBound, RepeaterTypeOK, WorldsTypeOK, WorldRef
      <3> QED
        BY <3>1, <3>2, <3>4
    <2> QED
      BY <2>1, <2>2
  <1>2. /\ alive' \subseteq opened' /\ opened' \subseteq World /\ focused' \in WorldRef
        /\ focusChanges' \in 0..MaxFocus
    BY DEF FocusWorld, Focus, RepeaterTypeOK, WorldsTypeOK
  <1>3. disposal' \in {"no", "flagged", "done"} /\ queued' \in [World -> Nat]
    BY DEF FocusWorld, Focus, RepeaterTypeOK, WorldsTypeOK
  <1> QED
    BY <1>1, <1>2, <1>3 DEF RepeaterTypeOK, WorldsTypeOK

LEMMA DestroyType ==
  ASSUME RepeaterTypeOK, NEW w \in World, DestroyWorld(w)
  PROVE  RepeaterTypeOK'
  BY DEF DestroyWorld, Close, RepeaterTypeOK, WorldsTypeOK, WorldRef

LEMMA DisposeType ==
  ASSUME RepeaterTypeOK, BeginDispose \/ ClearOnDispose
  PROVE  RepeaterTypeOK'
  BY DEF BeginDispose, ClearOnDispose, Unbind, RepeaterTypeOK, WorldsTypeOK, worldVars, WorldRef

-----------------------------------------------------------------------------
(* The ring.  What it holds are always the newest samples, as many as      *)
(* there are, from readIndex on.                                           *)

RingType ==
  /\ buffer \in [Slot -> Nat]
  /\ readIndex \in Slot /\ writeIndex \in Slot /\ count \in 0 .. RingBufferCapacity
  /\ droppedSamples \in Nat /\ appended \in Nat /\ cleared \in Nat

At0(first, i) == (first + i) % RingBufferCapacity

RingInv ==
  /\ count <= appended
  /\ writeIndex = At0(readIndex, count)
  /\ \A i \in 0 .. (count - 1) : buffer[At0(readIndex, i)] = appended - count + i + 1

ClientType ==
  /\ stream \in [Stream -> {"open", "completing", "broken", "ended"}]
  /\ wire \in [Stream -> Seq(FrameSize)]
  /\ sent \in 0 .. MaxFrames
  /\ submitting \in [Stream -> [at : {"none", "append", "request"}, size : FrameSize \cup {0}]]

(* What the default microphone can be: nothing set, the bridge's device    *)
(* until Dispose takes it back, or fails to, or another mod's choice.      *)
Listing(n) ==
  inputs \in Seq({"physical", "own", "other"}) /\ Len(inputs) = n /\ inputs[1] = "physical"

Alone     == Listing(1)
Added     == Listing(2) /\ inputs[2] = "own"
AlsoOther == Listing(3) /\ inputs[2] = "own" /\ inputs[3] = "other"
OnlyOther == Listing(2) /\ inputs[2] = "other"

DeviceInv ==
  \/ chosen = "none"     /\ override = 0 /\ (Alone \/ Added)
  \/ chosen = "own"      /\ override = 2 /\ Added /\ undoing = "override" /\ assigned = 2
  \/ chosen = "physical" /\ override = 1 /\ (Alone \/ Added)
  \/ chosen = "other"    /\ override = 3 /\ (AlsoOther \/ OnlyOther)
  \/ chosen = "left"     /\ override = 2 /\ (Alone \/ Added) /\ undoing # "override"

DeviceType ==
  /\ registered \in BOOLEAN
  /\ undoing \in {"override", "device", "nothing"}
  /\ assigned \in {0, 2}
  /\ DeviceInv


(* The samples a tick has taken are newer than what was written, and older *)
(* than what is still in the ring.                                         *)
TickInv ==
  /\ tick.bound \in WorldRef /\ tick.taken \in Seq(Nat)
  /\ lastWritten \in Nat /\ written \in Nat
  /\ lastWritten <= appended - count
  /\ \A i \in 1 .. Len(tick.taken) :
       /\ lastWritten < tick.taken[i] /\ tick.taken[i] <= appended - count
       /\ \A j \in 1 .. Len(tick.taken) : i < j => tick.taken[i] < tick.taken[j]

Balance == appended = written + Len(tick.taken) + count + droppedSamples + cleared

Samples == RingType /\ RingInv /\ TickInv /\ Balance

IInv == RepeaterTypeOK /\ ClientType /\ DeviceType /\ Samples

LEMMA Constants ==
  /\ RingBufferCapacity \in Nat /\ RingBufferCapacity > 0
  /\ MaxTickSamples \in Nat /\ MaxTickSamples > 0 /\ FrameSize \subseteq Nat
  BY MicrophoneAssumption

LEMMA LargestChunk ==
  \A n \in FrameSize : n \in Nat /\ Max(FrameSize) \in Nat /\ n <= Max(FrameSize)
  <1>1. \E largest \in FrameSize : \A n \in FrameSize : largest >= n
    BY MicrophoneAssumption
  <1>2. Max(FrameSize) \in FrameSize /\ \A n \in FrameSize : Max(FrameSize) >= n
    BY <1>1 DEF Max
  <1> QED
    BY <1>2, Constants

LEMMA SlotType ==
  /\ \A i \in Slot : i \in Nat /\ i < RingBufferCapacity
  /\ \A i \in Nat : i < RingBufferCapacity => i \in Slot
  BY Constants DEF Slot

LEMMA Below ==
  ASSUME NEW m \in Nat
  PROVE  /\ \A j \in 0 .. (m - 1) : j \in Nat /\ j < m
         /\ \A j \in Nat : j < m => j \in 0 .. (m - 1)
  OBVIOUS

LEMMA Shift ==
  ASSUME NEW m \in Nat, NEW n \in Nat, NEW k \in Nat, NEW j \in Nat, k + m = n, j < m
  PROVE  k + j \in Nat /\ k + j < n
  OBVIOUS

(* One turn around the ring at most. *)
LEMMA Around ==
  ASSUME NEW c \in Nat, c > 0, NEW a \in Nat, a < 2 * c
  PROVE  a % c = IF a < c THEN a ELSE a - c
  <1>1. a = c * (a \div c) + (a % c) /\ a \div c \in Nat /\ a % c \in Nat /\ a % c < c
    OBVIOUS
  <1>2. a \div c = 0 \/ a \div c = 1
    OBVIOUS
  <1> QED
    BY <1>1, <1>2

LEMMA SlotAround ==
  ASSUME NEW first \in Slot, NEW i \in Nat, i <= RingBufferCapacity
  PROVE  /\ At0(first, i) = (IF first + i < RingBufferCapacity THEN first + i
                             ELSE first + i - RingBufferCapacity)
         /\ At0(first, i) \in Slot
  <1> DEFINE a == first + i
             c == RingBufferCapacity
  <1>1. a \in Nat /\ a < 2 * c /\ c \in Nat /\ c > 0 /\ first \in Nat
    BY Constants, SlotType
  <1>2. a % c = IF a < c THEN a ELSE a - c
    BY <1>1, Around
  <1>3. At0(first, i) = a % c
    BY DEF At0
  <1>4. (IF a < c THEN a ELSE a - c) \in Slot
    BY <1>1, SlotType, Constants
  <1>5. At0(first, i) = IF a < c THEN a ELSE a - c
    <2> HIDE DEF a, c
    <2> QED
      BY <1>2, <1>3
  <1> QED
    BY <1>1, <1>4, <1>5

(* Two turns of the index one after the other are one. *)
LEMMA TwiceAround ==
  ASSUME NEW first \in Slot, NEW i \in Nat, NEW j \in Nat, i + j <= RingBufferCapacity
  PROVE  At0(At0(first, i), j) = At0(first, i + j)
  <1>1. i <= RingBufferCapacity /\ j <= RingBufferCapacity /\ i + j \in Nat /\ first \in Nat
    BY Constants, SlotType
  <1>2. At0(first, i) \in Slot
    BY <1>1, SlotAround
  <1>3. /\ At0(first, i) = (IF first + i < RingBufferCapacity THEN first + i
                             ELSE first + i - RingBufferCapacity)
        /\ At0(first, i + j) = (IF first + (i + j) < RingBufferCapacity THEN first + (i + j)
                                 ELSE first + (i + j) - RingBufferCapacity)
        /\ At0(At0(first, i), j) = (IF At0(first, i) + j < RingBufferCapacity THEN At0(first, i) + j
                                     ELSE At0(first, i) + j - RingBufferCapacity)
    BY <1>1, <1>2, SlotAround
  <1> QED
    BY <1>1, <1>3, SlotType, Constants

(* What the ring holds, in order. *)
Window(last, n) == [i \in 1 .. n |-> last - n + i]

LEMMA ContentIsWindow == RingType /\ RingInv => Content = Window(appended, count)
  <1> SUFFICES ASSUME RingType, RingInv PROVE Content = Window(appended, count)
    OBVIOUS
  <1>1. ASSUME NEW i \in 1 .. count
        PROVE  buffer[(readIndex + i - 1) % RingBufferCapacity] = appended - count + i
    <2>1. i - 1 \in 0 .. (count - 1) /\ count \in Nat /\ appended \in Nat /\ readIndex \in Nat
      BY SlotType, Constants DEF RingType
    <2>2. buffer[At0(readIndex, i - 1)] = appended - count + (i - 1) + 1
      BY <2>1 DEF RingInv
    <2>3. readIndex + i - 1 = readIndex + (i - 1)
      BY <2>1
    <2> QED
      BY <2>1, <2>2, <2>3 DEF At0
  <1> QED
    BY <1>1 DEF Content, Window

LEMMA ContentIsWindowNext == (RingType /\ RingInv)' => (Content = Window(appended, count))'
  BY ContentIsWindow, PTL

(* A chunk that goes in around the end, after making room for itself. *)
LEMMA InsertKeeps ==
  ASSUME RingType, RingInv, NEW n \in Nat, NEW overflow \in Nat, Insert(n, overflow),
         n <= RingBufferCapacity, overflow <= count, count - overflow + n <= RingBufferCapacity,
         appended' = appended + n, UNCHANGED cleared
  PROVE  RingType' /\ RingInv'
  <1>0. /\ count \in Nat /\ count <= RingBufferCapacity /\ appended \in Nat /\ readIndex \in Slot
        /\ writeIndex \in Slot /\ droppedSamples \in Nat /\ cleared \in Nat /\ buffer \in [Slot -> Nat]
        /\ count <= appended /\ writeIndex = At0(readIndex, count)
    BY Constants DEF RingType, RingInv
  <1>a. overflow <= RingBufferCapacity /\ RingBufferCapacity \in Nat
    BY <1>0, Constants
  <1>1. /\ readIndex' = At0(readIndex, overflow)
        /\ writeIndex' = At0(writeIndex, n)
        /\ count' = count - overflow + n /\ droppedSamples' = droppedSamples + overflow
    BY DEF Insert, At0
  <1>2. readIndex' \in Slot /\ writeIndex' \in Slot
    BY <1>0, <1>a, <1>1, SlotAround
  <1>3. count' \in 0 .. RingBufferCapacity /\ count' <= appended'
    BY <1>0, <1>1, Constants
  <1> DEFINE K(i) == (i + RingBufferCapacity - writeIndex) % RingBufferCapacity
  <1>4. buffer' = [i \in Slot |-> IF K(i) < n THEN appended + K(i) + 1 ELSE buffer[i]]
    BY DEF Insert
  <1>5. ASSUME NEW i \in Slot
        PROVE  K(i) = (IF i < writeIndex THEN i + RingBufferCapacity - writeIndex ELSE i - writeIndex)
    <2> DEFINE a == i + RingBufferCapacity - writeIndex
    <2>1. a \in Nat /\ a < 2 * RingBufferCapacity
      BY <1>0, SlotType, Constants
    <2>2. a % RingBufferCapacity = IF a < RingBufferCapacity THEN a ELSE a - RingBufferCapacity
      BY <2>1, Around, Constants
    <2> QED
      BY <1>0, <2>1, <2>2, SlotType, Constants
  <1>6. \A i \in Slot : K(i) \in Nat
    BY <1>0, <1>5, SlotType, Constants
  <1> HIDE DEF K
  <1>7. RingType'
    <2>1. buffer' \in [Slot -> Nat]
      BY <1>0, <1>4, <1>6
    <2> QED
      BY <1>0, <1>1, <1>2, <1>3, <2>1 DEF RingType
  <1>8. writeIndex' = At0(readIndex', count')
    <2>1. /\ writeIndex = (IF readIndex + count < RingBufferCapacity THEN readIndex + count
                           ELSE readIndex + count - RingBufferCapacity)
          /\ writeIndex' = (IF writeIndex + n < RingBufferCapacity THEN writeIndex + n
                            ELSE writeIndex + n - RingBufferCapacity)
          /\ readIndex' = (IF readIndex + overflow < RingBufferCapacity THEN readIndex + overflow
                           ELSE readIndex + overflow - RingBufferCapacity)
      BY <1>0, <1>a, <1>1, SlotAround
    <2>2. At0(readIndex', count') = (IF readIndex' + count' < RingBufferCapacity THEN readIndex' + count'
                                     ELSE readIndex' + count' - RingBufferCapacity)
      BY <1>2, <1>3, SlotAround, Constants
    <2> QED
      BY <1>0, <1>1, <1>2, <1>3, <2>1, <2>2, SlotType, Constants
  <1>9. ASSUME NEW j \in Nat, j < count'
        PROVE  buffer'[At0(readIndex', j)] = appended' - count' + j + 1
    <2> DEFINE slot == At0(readIndex', j)
    <2>0. j \in Nat /\ j < count' /\ j <= RingBufferCapacity /\ count' \in Nat
      <3>1. count' \in Nat /\ count' <= RingBufferCapacity
        BY <1>3, <1>a
      <3> QED
        BY <1>9, <3>1, <1>a
    <2>1. slot \in Slot /\ slot = (IF readIndex' + j < RingBufferCapacity THEN readIndex' + j
                                   ELSE readIndex' + j - RingBufferCapacity)
      BY <1>2, <2>0, SlotAround
    <2>2. /\ writeIndex = (IF readIndex + count < RingBufferCapacity THEN readIndex + count
                           ELSE readIndex + count - RingBufferCapacity)
          /\ readIndex' = (IF readIndex + overflow < RingBufferCapacity THEN readIndex + overflow
                           ELSE readIndex + overflow - RingBufferCapacity)
      BY <1>0, <1>a, <1>1, SlotAround
    <2>3. CASE j < count - overflow
      <3>1. overflow + j \in 0 .. (count - 1) /\ overflow + j \in Nat /\ overflow + j <= RingBufferCapacity
        BY <1>0, <2>0, <2>3, Constants
      <3>2. slot = At0(readIndex, overflow + j)
        BY <1>0, <1>1, <2>0, <3>1, TwiceAround
      <3>3. ~(K(slot) < n)
        <4>1. K(slot) = (IF slot < writeIndex THEN slot + RingBufferCapacity - writeIndex ELSE slot - writeIndex)
          BY <1>5, <2>1
        <4> HIDE DEF slot
        <4> QED
          BY <1>0, <2>0, <2>1, <2>2, <2>3, <4>1, SlotType, Constants
      <3>4. buffer'[slot] = buffer[slot]
        BY <1>4, <2>1, <3>3
      <3>5. buffer[slot] = appended - count + (overflow + j) + 1
        BY <3>1, <3>2 DEF RingInv
      <3> QED
        BY <1>0, <1>1, <2>0, <3>4, <3>5
    <2>4. CASE ~(j < count - overflow)
      <3>1. K(slot) = j - (count - overflow)
        <4>1. K(slot) = (IF slot < writeIndex THEN slot + RingBufferCapacity - writeIndex ELSE slot - writeIndex)
          BY <1>5, <2>1
        <4> HIDE DEF slot
        <4> QED
          BY <1>0, <1>1, <2>0, <2>1, <2>2, <2>4, <4>1, SlotType, Constants
      <3>2. K(slot) < n
        BY <1>0, <1>1, <2>0, <3>1
      <3>3. buffer'[slot] = appended + K(slot) + 1
        BY <1>4, <2>1, <3>2
      <3> QED
        BY <1>0, <1>1, <2>0, <3>1, <3>3
    <2> QED
      BY <2>3, <2>4
  <1>10. \A j \in 0 .. (count' - 1) : j \in Nat /\ j < count'
    <2>1. count' \in Nat
      BY <1>3, <1>a
    <2> QED
      BY <2>1, Below
  <1>11. \A j \in 0 .. (count' - 1) : buffer'[At0(readIndex', j)] = appended' - count' + j + 1
    BY <1>9, <1>10
  <1>12. RingInv'
    BY <1>3, <1>8, <1>11, Zenon DEF RingInv
  <1> QED
    BY <1>7, <1>12

(* A chunk that replaces everything. *)
LEMMA OverwriteKeeps ==
  ASSUME RingType, RingInv, NEW n \in Nat, n >= RingBufferCapacity, Overwrite(n),
         appended' = appended + n, UNCHANGED cleared
  PROVE  RingType' /\ RingInv'
  <1>0. /\ count \in Nat /\ appended \in Nat /\ droppedSamples \in Nat /\ cleared \in Nat
        /\ RingBufferCapacity \in Nat /\ RingBufferCapacity > 0 /\ 0 \in Slot
    BY Constants, SlotType DEF RingType
  <1> DEFINE late == n - RingBufferCapacity
  <1>a. late \in Nat /\ appended' = appended + late + RingBufferCapacity
    BY <1>0
  <1>1. /\ buffer' = [i \in Slot |-> appended + late + i + 1]
        /\ readIndex' = 0 /\ writeIndex' = 0 /\ count' = RingBufferCapacity
        /\ droppedSamples' = droppedSamples + count + late
    BY DEF Overwrite
  <1> HIDE DEF late
  <1>2. RingType'
    BY <1>0, <1>a, <1>1, SlotType DEF RingType
  <1>3. \A i \in Nat : i <= RingBufferCapacity =>
          At0(0, i) = IF 0 + i < RingBufferCapacity THEN 0 + i ELSE 0 + i - RingBufferCapacity
    BY <1>0, SlotAround
  <1>4. writeIndex' = At0(readIndex', count') /\ count' <= appended'
    <2>1. At0(0, RingBufferCapacity) = 0
      BY <1>0, <1>3
    <2>2. RingBufferCapacity <= appended'
      BY <1>0, <1>a
    <2> QED
      BY <1>1, <2>1, <2>2
  <1>5. ASSUME NEW j \in 0 .. (count' - 1)
        PROVE  buffer'[At0(readIndex', j)] = appended' - count' + j + 1
    <2>1. j \in Nat /\ j < RingBufferCapacity
      BY <1>0, <1>1, Below
    <2>2. At0(0, j) = j /\ j \in Slot
      BY <1>0, <1>3, <2>1, SlotType
    <2>3. buffer'[j] = appended + late + j + 1
      BY <1>1, <2>2
    <2>4. appended' - count' + j + 1 = appended + late + j + 1
      BY <1>0, <1>a, <1>1, <2>1
    <2> QED
      BY <1>1, <2>2, <2>3, <2>4
  <1> QED
    BY <1>2, <1>4, <1>5 DEF RingInv

(* What a chunk does to the numbers, whichever way it goes in.             *)
LEMMA AppendKeeps ==
  ASSUME RingType, RingInv, NEW n \in Nat, AppendSamples(n)
  PROVE  /\ RingType' /\ RingInv'
         /\ appended' = appended + n /\ cleared' = cleared
         /\ count' + droppedSamples' = count + droppedSamples + n
         /\ appended - count <= appended' - count'
  <1>0. /\ count \in Nat /\ appended \in Nat /\ droppedSamples \in Nat /\ count <= RingBufferCapacity
        /\ RingBufferCapacity \in Nat
    BY Constants DEF RingType
  <1>1. appended' = appended + n /\ UNCHANGED cleared
    BY DEF AppendSamples
  <1>2. CASE count + n <= RingBufferCapacity
    <2>1. Insert(n, 0)
      BY <1>2 DEF AppendSamples
    <2>2. n <= RingBufferCapacity /\ 0 <= count /\ count - 0 + n <= RingBufferCapacity
      BY <1>0, <1>2
    <2>3. RingType' /\ RingInv'
      BY <1>1, <2>1, <2>2, InsertKeeps
    <2>4. count' = count + n /\ droppedSamples' = droppedSamples
      BY <1>0, <2>1 DEF Insert
    <2> QED
      BY <1>0, <1>1, <2>3, <2>4
  <1>3. CASE ~(count + n <= RingBufferCapacity) /\ n >= RingBufferCapacity
    <2>1. Overwrite(n)
      BY <1>3 DEF AppendSamples
    <2>2. RingType' /\ RingInv'
      BY <1>1, <1>3, <2>1, OverwriteKeeps
    <2>3. count' = RingBufferCapacity /\ droppedSamples' = droppedSamples + count + (n - RingBufferCapacity)
      BY <2>1 DEF Overwrite
    <2> QED
      BY <1>0, <1>1, <1>3, <2>2, <2>3
  <1>4. CASE ~(count + n <= RingBufferCapacity) /\ ~(n >= RingBufferCapacity)
    <2> DEFINE over == count + n - RingBufferCapacity
    <2>1. Insert(n, over)
      BY <1>4 DEF AppendSamples
    <2>2. /\ over \in Nat /\ n <= RingBufferCapacity /\ over <= count
          /\ count - over + n <= RingBufferCapacity
      BY <1>0, <1>4
    <2>3. count' = count - over + n /\ droppedSamples' = droppedSamples + over
      BY <2>1 DEF Insert
    <2>4. RingType' /\ RingInv'
      <3> HIDE DEF over
      <3> QED
        BY <1>1, <2>1, <2>2, InsertKeeps
    <2> QED
      BY <1>0, <1>1, <1>4, <2>3, <2>4
  <1> QED
    BY <1>2, <1>3, <1>4

LEMMA DrainKeeps ==
  ASSUME RingType, RingInv, NEW k \in Nat, k <= count, Drain(k)
  PROVE  RingType' /\ RingInv'
  <1>0. /\ count \in Nat /\ appended \in Nat /\ count <= RingBufferCapacity /\ RingBufferCapacity \in Nat
        /\ readIndex \in Slot /\ count <= appended /\ k <= RingBufferCapacity
    BY Constants DEF RingType, RingInv
  <1>1. /\ readIndex' = At0(readIndex, k) /\ count' = count - k
        /\ UNCHANGED <<buffer, writeIndex, droppedSamples, appended, cleared>>
    BY DEF Drain, At0
  <1>2. count' \in Nat /\ count' <= RingBufferCapacity /\ count' <= appended /\ k + count' = count
    BY <1>0, <1>1
  <1>3. readIndex' \in Slot
    BY <1>0, <1>1, SlotAround
  <1>4. RingType'
    BY <1>0, <1>1, <1>2, <1>3 DEF RingType
  <1>5. writeIndex' = At0(readIndex', count')
    <2>1. At0(At0(readIndex, k), count') = At0(readIndex, k + count')
      BY <1>0, <1>2, TwiceAround
    <2> QED
      BY <1>1, <1>2, <2>1 DEF RingInv
  <1>6. ASSUME NEW j \in Nat, j < count'
        PROVE  buffer'[At0(readIndex', j)] = appended' - count' + j + 1
    <2>1. j \in Nat /\ j < count'
      BY <1>6
    <2>2. k + j \in 0 .. (count - 1) /\ k + j <= RingBufferCapacity
      <3>1. k + j \in Nat /\ k + j < count /\ k + j <= RingBufferCapacity
        <4>1. count \in Nat /\ count' \in Nat /\ k + count' = count
          BY <1>0, <1>2
        <4>2. k + j \in Nat /\ k + j < count
          BY <2>1, <4>1, Shift
        <4> QED
          BY <1>0, <4>2
      <3>2. \A m \in Nat : m < count => m \in 0 .. (count - 1)
        BY <1>0, Below
      <3> QED
        BY <3>1, <3>2
    <2>3. At0(At0(readIndex, k), j) = At0(readIndex, k + j)
      BY <1>0, <2>1, <2>2, TwiceAround
    <2>4. buffer[At0(readIndex, k + j)] = appended - count + (k + j) + 1
      BY <2>2 DEF RingInv
    <2>5. appended - count + (k + j) + 1 = appended' - count' + j + 1
      BY <1>0, <1>1, <2>1
    <2> QED
      BY <1>1, <2>3, <2>4, <2>5
  <1>7. \A j \in 0 .. (count' - 1) : buffer'[At0(readIndex', j)] = appended' - count' + j + 1
    BY <1>2, <1>6, Below
  <1> QED
    BY <1>1, <1>2, <1>4, <1>5, <1>7 DEF RingInv

LEMMA ResetKeeps ==
  ASSUME RingType, ResetRing
  PROVE  /\ RingType' /\ RingInv'
         /\ cleared' = cleared + count /\ count' = 0
         /\ UNCHANGED <<droppedSamples, appended>>
  <1>0. count \in Nat /\ appended \in Nat /\ cleared \in Nat /\ 0 \in Slot /\ RingBufferCapacity \in Nat
    BY Constants, SlotType DEF RingType
  <1>1. At0(0, 0) = 0
    BY <1>0, SlotAround, Constants
  <1>2. RingType'
    BY <1>0 DEF ResetRing, RingType
  <1>3. writeIndex' = At0(readIndex', count') /\ count' <= appended'
    BY <1>0, <1>1 DEF ResetRing
  <1>4. 0 .. (count' - 1) = {}
    BY DEF ResetRing
  <1> QED
    BY <1>2, <1>3, <1>4 DEF RingInv, ResetRing

-----------------------------------------------------------------------------
(* The samples under each kind of step.                                    *)

LEMMA SamplesUntouched == Samples /\ UNCHANGED <<ringVars, tick, outputVars>> => Samples'
  <1> SUFFICES ASSUME Samples, UNCHANGED <<ringVars, tick, outputVars>> PROVE Samples'
    OBVIOUS
  <1>1. /\ UNCHANGED <<buffer, readIndex, writeIndex, count, droppedSamples, appended, cleared>>
        /\ UNCHANGED <<tick, written, lastWritten>>
    BY DEF ringVars, outputVars
  <1>2. RingType' /\ RingInv'
    BY <1>1 DEF Samples, RingType, RingInv
  <1>3. TickInv' /\ Balance'
    BY <1>1 DEF Samples, TickInv, Balance
  <1> QED
    BY <1>2, <1>3 DEF Samples

(* A ring that lost no sample below what was taken keeps the order.        *)
LEMMA TickInvLater ==
  ASSUME TickInv, UNCHANGED <<tick, outputVars>>,
         appended - count \in Int, appended' - count' \in Int, appended - count <= appended' - count'
  PROVE  TickInv'
  <1>1. UNCHANGED <<tick, written, lastWritten>>
    BY DEF outputVars
  <1> DEFINE old == appended - count
             new == appended' - count'
  <1>2. /\ tick.bound \in WorldRef /\ tick.taken \in Seq(Nat)
        /\ lastWritten \in Nat /\ written \in Nat /\ lastWritten <= old
        /\ \A i \in 1 .. Len(tick.taken) :
             /\ lastWritten < tick.taken[i] /\ tick.taken[i] <= old
             /\ \A j \in 1 .. Len(tick.taken) : i < j => tick.taken[i] < tick.taken[j]
    BY DEF TickInv
  <1>3. old \in Int /\ new \in Int /\ old <= new
    OBVIOUS
  <1> HIDE DEF old, new
  <1>4. lastWritten <= new
    BY <1>2, <1>3
  <1>5. ASSUME NEW i \in 1 .. Len(tick.taken)
        PROVE  tick.taken[i] <= new
    <2>1. tick.taken[i] \in Nat /\ tick.taken[i] <= old
      BY <1>2
    <2> QED
      BY <1>3, <2>1
  <1> USE DEF new
  <1> QED
    BY <1>1, <1>2, <1>4, <1>5 DEF TickInv

(* A step of the ring beside a tick: a chunk goes in, or a Reset. *)
LEMMA SamplesMoved ==
  ASSUME Samples, UNCHANGED <<tick, outputVars>>, RingType', RingInv',
         NEW n \in Nat, appended' = appended + n,
         count' + droppedSamples' + cleared' = count + droppedSamples + cleared + n,
         appended - count <= appended' - count'
  PROVE  Samples'
  <1>1. /\ count \in Nat /\ appended \in Nat /\ droppedSamples \in Nat /\ cleared \in Nat
        /\ count' \in Nat /\ appended' \in Nat /\ droppedSamples' \in Nat /\ cleared' \in Nat
    BY DEF Samples, RingType
  <1>2. TickInv'
    BY <1>1, TickInvLater DEF Samples
  <1>3. Balance'
    <2>1. UNCHANGED <<tick, written>>
      BY DEF outputVars
    <2> DEFINE len == Len(tick.taken)
    <2>2. written \in Nat /\ len \in Nat
      BY DEF Samples, TickInv
    <2>3. appended = written + len + count + droppedSamples + cleared
      BY DEF Samples, Balance
    <2> HIDE DEF len
    <2>4. appended' = written + len + count' + droppedSamples' + cleared'
      <3>1. PICK a \in Nat, c \in Nat, d \in Nat, x \in Nat :
              a = appended' /\ c = count' /\ d = droppedSamples' /\ x = cleared'
        BY <1>1
      <3>2. a = appended + n /\ c + d + x = count + droppedSamples + cleared + n
        BY <3>1
      <3>3. a = written + len + c + d + x
        BY <1>1, <2>2, <2>3, <3>2
      <3> QED
        BY <3>1, <3>3
    <2> QED
      BY <2>1, <2>4 DEF Balance, len
  <1> QED
    BY <1>2, <1>3 DEF Samples

LEMMA SamplesAppend ==
  ASSUME Samples, NEW n \in Nat, AppendSamples(n), UNCHANGED <<tick, outputVars>>
  PROVE  Samples'
  <1>1. /\ RingType' /\ RingInv'
        /\ appended' = appended + n /\ cleared' = cleared
        /\ count' + droppedSamples' = count + droppedSamples + n
        /\ appended - count <= appended' - count'
    BY AppendKeeps DEF Samples
  <1>3. /\ count \in Nat /\ droppedSamples \in Nat /\ cleared \in Nat
        /\ count' \in Nat /\ droppedSamples' \in Nat
    BY <1>1 DEF Samples, RingType
  <1>4. count' + droppedSamples' + cleared' = count + droppedSamples + cleared + n
    <2>1. PICK c \in Nat, d \in Nat : c = count' /\ d = droppedSamples'
      BY <1>3
    <2>2. c + d = count + droppedSamples + n
      BY <1>1, <2>1
    <2>3. c + d + cleared = count + droppedSamples + cleared + n
      BY <1>3, <2>2
    <2> QED
      BY <1>1, <2>1, <2>3
  <1> QED
    BY <1>1, <1>4, SamplesMoved

LEMMA SamplesReset ==
  ASSUME Samples, ResetRing, UNCHANGED <<tick, outputVars>>
  PROVE  Samples'
  <1>1. /\ RingType' /\ RingInv'
        /\ cleared' = cleared + count /\ count' = 0
        /\ UNCHANGED <<droppedSamples, appended>>
    BY ResetKeeps DEF Samples
  <1>2. count \in Nat /\ appended \in Nat /\ droppedSamples \in Nat /\ cleared \in Nat
    BY DEF Samples, RingType
  <1>3. /\ 0 \in Nat /\ appended' = appended + 0
        /\ count' + droppedSamples' + cleared' = count + droppedSamples + cleared + 0
        /\ appended - count <= appended' - count'
    BY <1>1, <1>2
  <1> QED
    BY <1>1, <1>3, SamplesMoved

(* What a tick takes are the oldest samples of the ring. *)
LEMMA TakenIsOldest ==
  ASSUME RingType, RingInv, NEW k \in Nat, k <= count
  PROVE  /\ SubSeq(Content, 1, k) \in Seq(Nat) /\ Len(SubSeq(Content, 1, k)) = k
         /\ \A i \in 1 .. k : SubSeq(Content, 1, k)[i] = appended - count + i
  <1>1. count \in Nat /\ appended \in Nat /\ count <= appended
    BY Constants DEF RingType, RingInv
  <1>2. Content = Window(appended, count)
    BY ContentIsWindow
  <1> DEFINE W == Window(appended, count)
  <1>3. W \in Seq(Nat) /\ Len(W) = count /\ \A i \in 1 .. count : W[i] = appended - count + i
    <2>1. \A i \in 1 .. count : appended - count + i \in Nat
      BY <1>1
    <2> QED
      BY <1>1, <2>1 DEF Window
  <1> HIDE DEF W
  <1>4. /\ SubSeq(W, 1, k) \in Seq(Nat) /\ Len(SubSeq(W, 1, k)) = k
        /\ \A i \in 1 .. k : SubSeq(W, 1, k)[i] = W[i]
    BY <1>1, <1>3
  <1>5. \A i \in 1 .. k : i \in 1 .. count
    BY <1>1
  <1>6. \A i \in 1 .. k : SubSeq(W, 1, k)[i] = appended - count + i
    BY <1>3, <1>4, <1>5
  <1>7. Content = W
    BY <1>2 DEF W
  <1> QED
    BY <1>4, <1>6, <1>7

LEMMA SamplesBegin ==
  ASSUME Samples, tick = NoTick, NEW k \in Nat, k <= count, Drain(k), NEW bound \in WorldRef,
         tick' = [bound |-> bound, taken |-> SubSeq(Content, 1, k)], UNCHANGED outputVars
  PROVE  Samples'
  <1>0. /\ count \in Nat /\ appended \in Nat /\ droppedSamples \in Nat /\ cleared \in Nat
        /\ written \in Nat /\ lastWritten \in Nat /\ lastWritten <= appended - count
    BY DEF Samples, RingType, TickInv
  <1>1. /\ count' = count - k
        /\ UNCHANGED <<droppedSamples, appended, cleared, written, lastWritten>>
    BY DEF Drain, outputVars
  <1>2. RingType' /\ RingInv'
    BY DrainKeeps DEF Samples
  <1> DEFINE T == SubSeq(Content, 1, k)
             base == appended - count
  <1>3. /\ T \in Seq(Nat) /\ Len(T) = k
        /\ \A i \in 1 .. k : T[i] = base + i
    BY TakenIsOldest DEF Samples
  <1>4. tick'.bound = bound /\ tick'.taken = T
    OBVIOUS
  <1> HIDE DEF T
  <1>5. base \in Int /\ appended' - count' = base + k /\ lastWritten <= base
    BY <1>0, <1>1
  <1>6. Balance'
    <2>1. tick.taken = <<>>
      BY DEF NoTick
    <2>2. appended = written + 0 + count + droppedSamples + cleared
      BY <2>1 DEF Samples, Balance
    <2>3. appended = written + k + (count - k) + droppedSamples + cleared
      BY <1>0, <2>2
    <2> QED
      BY <1>1, <1>3, <1>4, <2>3 DEF Balance
  <1> HIDE DEF base
  <1>7. ASSUME NEW i \in 1 .. k
        PROVE  /\ lastWritten < T[i] /\ T[i] <= base + k
               /\ \A j \in 1 .. k : i < j => T[i] < T[j]
    BY <1>0, <1>3, <1>5
  <1>8. TickInv'
    <2>1. lastWritten' = lastWritten /\ written' = written /\ lastWritten <= base + k
      BY <1>0, <1>1, <1>5
    <2> QED
      BY <1>0, <1>3, <1>4, <1>5, <1>7, <2>1 DEF TickInv
  <1> QED
    BY <1>2, <1>6, <1>8 DEF Samples

LEMMA SamplesFinish ==
  ASSUME Samples, tick' = NoTick, written' = written + Len(tick.taken),
         lastWritten' = (IF tick.taken = <<>> THEN lastWritten ELSE tick.taken[Len(tick.taken)]),
         UNCHANGED ringVars
  PROVE  Samples'
  <1>0. /\ count \in Nat /\ appended \in Nat /\ droppedSamples \in Nat /\ cleared \in Nat
        /\ written \in Nat /\ lastWritten \in Nat /\ lastWritten <= appended - count
        /\ tick.taken \in Seq(Nat) /\ Len(tick.taken) \in Nat
    BY DEF Samples, RingType, TickInv
  <1>1. UNCHANGED <<buffer, readIndex, writeIndex, count, droppedSamples, appended, cleared>>
    BY DEF ringVars
  <1>2. RingType' /\ RingInv'
    BY <1>1 DEF Samples, RingType, RingInv
  <1>3. tick'.taken = <<>> /\ tick'.bound \in WorldRef
    BY DEF NoTick, WorldRef
  <1>4. lastWritten' \in Nat /\ lastWritten' <= appended - count
    <2>1. CASE tick.taken = <<>>
      BY <1>0, <2>1
    <2>2. CASE tick.taken # <<>>
      <3>1. Len(tick.taken) \in 1 .. Len(tick.taken)
        BY <1>0, <2>2
      <3>2. tick.taken[Len(tick.taken)] \in Nat /\ tick.taken[Len(tick.taken)] <= appended - count
        BY <1>0, <3>1 DEF Samples, TickInv
      <3> QED
        BY <2>2, <3>2
    <2> QED
      BY <2>1, <2>2
  <1>5. TickInv'
    BY <1>0, <1>1, <1>3, <1>4 DEF TickInv
  <1>6. Balance'
    <2>1. appended = written + Len(tick.taken) + count + droppedSamples + cleared
      BY DEF Samples, Balance
    <2>2. appended = written' + 0 + count + droppedSamples + cleared
      BY <1>0, <2>1
    <2> QED
      BY <1>1, <1>3, <2>2 DEF Balance
  <1> QED
    BY <1>2, <1>5, <1>6 DEF Samples

-----------------------------------------------------------------------------
(* The invariant, action by action.                                        *)

LEMMA ClientUntouched ==
  /\ ClientType /\ UNCHANGED <<clientVars, submitting>> => ClientType'
  /\ DeviceType /\ UNCHANGED deviceVars => DeviceType'
  BY DEF ClientType, DeviceType, DeviceInv, Alone, Added, AlsoOther, OnlyOther, Listing, clientVars, deviceVars

LEMMA InvInit == Init => IInv
  <1> SUFFICES ASSUME Init PROVE IInv
    OBVIOUS
  <1>1. RepeaterTypeOK
    <2>1. CASE registered = TRUE /\ RepeaterInit
      BY <2>1, RepeaterInitType
    <2>2. CASE Unregistered
      <3>1. PICK w \in WorldRef : WorldsInit(w)
        BY <2>2 DEF Unregistered
      <3>2. WorldsTypeOK
        BY <3>1, WorldsAssumption DEF WorldsInit, WorldsTypeOK, WorldRef
      <3> QED
        BY <2>2, <3>2, IdleType DEF Unregistered, RepeaterTypeOK, WorldRef
    <2> QED
      BY <2>1, <2>2 DEF Init
  <1>2. ClientType
    <2>1. NoFrame \in [at : {"none", "append", "request"}, size : FrameSize \cup {0}]
      BY DEF NoFrame
    <2>2. MaxFrames \in Nat
      BY MicrophoneAssumption
    <2> QED
      BY <2>1, <2>2 DEF Init, ClientType
  <1>3. DeviceType
    <2>1. /\ registered \in BOOLEAN /\ undoing = "override" /\ assigned = override
          /\ \/ inputs = <<"physical", "own">> /\ override = 2 /\ chosen = "own"
             \/ inputs = <<"physical", "own">> /\ override = 0 /\ chosen = "none"
             \/ inputs = <<"physical">> /\ override = 0 /\ chosen = "none"
      BY DEF Init
    <2>2. ASSUME inputs = <<"physical", "own">> PROVE Added
      <3> DEFINE Devices == {"physical", "own", "other"}
      <3>1. "physical" \in Devices /\ "own" \in Devices
        OBVIOUS
      <3> HIDE DEF Devices
      <3>2. inputs \in Seq(Devices) /\ Len(inputs) = 2 /\ inputs[1] = "physical" /\ inputs[2] = "own"
        BY <2>2, <3>1
      <3> QED
        BY <3>2 DEF Added, Listing, Devices
    <2>3. ASSUME inputs = <<"physical">> PROVE Alone
      <3> DEFINE Devices == {"physical", "own", "other"}
      <3>1. "physical" \in Devices
        OBVIOUS
      <3> HIDE DEF Devices
      <3>2. inputs \in Seq(Devices) /\ Len(inputs) = 1 /\ inputs[1] = "physical"
        BY <2>3, <3>1
      <3> QED
        BY <3>2 DEF Alone, Listing, Devices
    <2>4. DeviceInv
      BY <2>1, <2>2, <2>3 DEF DeviceInv
    <2> QED
      BY <2>1, <2>4 DEF DeviceType
  <1>4. Samples
    <2>0. /\ buffer = [i \in Slot |-> 0] /\ readIndex = 0 /\ writeIndex = 0 /\ count = 0
          /\ droppedSamples = 0 /\ appended = 0 /\ written = 0 /\ cleared = 0 /\ lastWritten = 0
          /\ tick = NoTick /\ 0 \in Slot /\ RingBufferCapacity \in Nat
      BY Constants, SlotType DEF Init
    <2>1. RingType
      BY <2>0 DEF RingType
    <2>2. RingInv
      <3>1. At0(0, 0) = 0
        BY <2>0, SlotAround, Constants
      <3>2. 0 .. (count - 1) = {}
        BY <2>0
      <3> QED
        BY <2>0, <3>1, <3>2 DEF RingInv
    <2>3. tick.taken = <<>> /\ tick.bound \in WorldRef
      BY <2>0 DEF NoTick, WorldRef
    <2>4. TickInv
      BY <2>0, <2>3 DEF TickInv
    <2>5. Balance
      BY <2>0, <2>3 DEF Balance
    <2> QED
      BY <2>1, <2>2, <2>4, <2>5 DEF Samples
  <1> QED
    BY <1>1, <1>2, <1>3, <1>4 DEF IInv

(* The client's steps. *)
LEMMA ClientInv ==
  ASSUME IInv,
         NEW s \in Stream,
         \/ \E n \in FrameSize : Send(s, n)
         \/ Exit(s) \/ Crash(s)
  PROVE  IInv'
  <1>1. UNCHANGED <<worldVars, repeaterVars, submitting, deviceVars, ringVars, tick, outputVars>>
    BY DEF Send, Exit, Crash
  <1>2. RepeaterTypeOK' /\ DeviceType' /\ Samples'
    BY <1>1, RepeaterUnchanged, ClientUntouched, SamplesUntouched DEF IInv
  <1>3. CASE \E n \in FrameSize : Send(s, n)
    <2>1. PICK n \in FrameSize : Send(s, n)
      BY <1>3
    <2>2. wire[s] \in Seq(FrameSize) /\ Append(wire[s], n) \in Seq(FrameSize)
      BY DEF IInv, ClientType
    <2>3. wire' \in [Stream -> Seq(FrameSize)]
      BY <2>1, <2>2 DEF Send, IInv, ClientType
    <2>4. sent' \in 0 .. MaxFrames
      BY <2>1, MicrophoneAssumption DEF Send, IInv, ClientType
    <2> QED
      BY <1>2, <2>1, <2>3, <2>4 DEF Send, IInv, ClientType
  <1>4. CASE Exit(s) \/ Crash(s)
    BY <1>2, <1>4 DEF Exit, Crash, IInv, ClientType
  <1> QED
    BY <1>3, <1>4

LEMMA ReceiveFrameInv ==
  ASSUME IInv, NEW s \in Stream, ReceiveFrame(s)
  PROVE  IInv'
  <1>1. UNCHANGED <<worldVars, repeaterVars, stream, sent, deviceVars, ringVars, tick, outputVars>>
    BY DEF ReceiveFrame
  <1>2. RepeaterTypeOK' /\ DeviceType' /\ Samples'
    BY <1>1, RepeaterUnchanged, ClientUntouched, SamplesUntouched DEF IInv
  <1>3. wire[s] \in Seq(FrameSize) /\ wire[s] # <<>>
    BY DEF ReceiveFrame, IInv, ClientType
  <1>4. Head(wire[s]) \in FrameSize /\ Tail(wire[s]) \in Seq(FrameSize)
    BY <1>3
  <1>5. wire' \in [Stream -> Seq(FrameSize)]
    BY <1>4 DEF ReceiveFrame, IInv, ClientType
  <1>6. submitting' \in [Stream -> [at : {"none", "append", "request"}, size : FrameSize \cup {0}]]
    <2> DEFINE f == [at |-> "append", size |-> Head(wire[s])]
    <2>1. f \in [at : {"none", "append", "request"}, size : FrameSize \cup {0}]
      BY <1>4
    <2>2. submitting' = submitting \/ submitting' = [submitting EXCEPT ![s] = f]
      BY DEF ReceiveFrame
    <2> HIDE DEF f
    <2> QED
      BY <2>1, <2>2 DEF IInv, ClientType
  <1>7. ClientType'
    BY <1>1, <1>5, <1>6 DEF IInv, ClientType
  <1> QED
    BY <1>2, <1>7 DEF IInv

LEMMA AppendFrameInv ==
  ASSUME IInv, NEW s \in Stream, AppendFrame(s)
  PROVE  IInv'
  <1>1. UNCHANGED <<worldVars, repeaterVars, clientVars, deviceVars, tick, outputVars>>
    BY DEF AppendFrame
  <1>2. RepeaterTypeOK' /\ DeviceType'
    BY <1>1, RepeaterUnchanged, ClientUntouched DEF IInv
  <1>3. submitting[s] \in [at : {"none", "append", "request"}, size : FrameSize \cup {0}]
    BY DEF IInv, ClientType
  <1>4. submitting[s].size \in Nat /\ AppendSamples(submitting[s].size)
    BY <1>3, Constants DEF AppendFrame
  <1>5. Samples'
    <2> DEFINE n == submitting[s].size
    <2>1. n \in Nat /\ AppendSamples(n)
      BY <1>4
    <2> HIDE DEF n
    <2> QED
      BY <1>1, <2>1, SamplesAppend DEF IInv
  <1>6. submitting' \in [Stream -> [at : {"none", "append", "request"}, size : FrameSize \cup {0}]]
    BY <1>3 DEF AppendFrame, IInv, ClientType
  <1>7. ClientType'
    BY <1>1, <1>6 DEF IInv, ClientType, clientVars
  <1> QED
    BY <1>2, <1>5, <1>7 DEF IInv

LEMMA RequestTickInv ==
  ASSUME IInv, NEW s \in Stream, RequestTick(s)
  PROVE  IInv'
  <1>1. /\ UNCHANGED <<worldVars, disposal, cachedWorld, repeaterWorld, running, queued>>
        /\ UNCHANGED <<clientVars, deviceVars, ringVars, tick, outputVars>>
    BY DEF RequestTick
  <1>2. DeviceType' /\ Samples'
    BY <1>1, ClientUntouched, SamplesUntouched DEF IInv
  <1>3. RepeaterTypeOK'
    <2>1. starting' \in [Thread -> {Idle} \cup [step : StartStep, world : World]]
      BY RequestStartType DEF RequestTick, IInv, Thread, Stream
    <2> QED
      BY <1>1, <2>1 DEF IInv, RepeaterTypeOK, WorldsTypeOK, worldVars
  <1>4. ClientType'
    <2>1. NoFrame \in [at : {"none", "append", "request"}, size : FrameSize \cup {0}]
      BY DEF NoFrame
    <2> QED
      BY <1>1, <2>1 DEF RequestTick, IInv, ClientType, clientVars
  <1> QED
    BY <1>2, <1>3, <1>4 DEF IInv

LEMMA EndStreamInv ==
  ASSUME IInv, NEW s \in Stream, NEW reason \in {"graceful", "cancelled", "errored"},
         EndStream(s, reason)
  PROVE  IInv'
  <1>1. UNCHANGED <<worldVars, repeaterVars, sent, submitting, deviceVars, tick, outputVars>>
    BY DEF EndStream
  <1>2. RepeaterTypeOK' /\ DeviceType'
    BY <1>1, RepeaterUnchanged, ClientUntouched DEF IInv
  <1>3. UNCHANGED ringVars \/ ResetRing
    BY DEF EndStream, NotifyDisconnect
  <1>4. Samples'
    BY <1>1, <1>3, SamplesUntouched, SamplesReset DEF IInv
  <1>5. <<>> \in Seq(FrameSize)
    OBVIOUS
  <1>6. ClientType'
    BY <1>1, <1>5 DEF EndStream, IInv, ClientType
  <1> QED
    BY <1>2, <1>4, <1>6 DEF IInv

(* The ticks. *)
LEMMA StopTickInv ==
  ASSUME IInv, NEW w \in World, StopTick(w)
  PROVE  IInv'
  <1>1. UNCHANGED <<worldVars, disposal, cachedWorld, starting, tick, clientVars, submitting,
                    deviceVars, ringVars, outputVars>>
    BY DEF StopTick
  <1>2. ClientType' /\ DeviceType' /\ Samples'
    BY <1>1, ClientUntouched, SamplesUntouched DEF IInv
  <1>3. repeaterWorld' \in WorldRef /\ running' \in BOOLEAN
    BY BindingType DEF StopTick, IInv
  <1>4. queued' \in [World -> Nat]
    BY DEF StopTick, TakeTick, IInv, RepeaterTypeOK
  <1> QED
    BY <1>1, <1>2, <1>3, <1>4 DEF IInv, RepeaterTypeOK, WorldsTypeOK, worldVars

LEMMA BeginTickInv ==
  ASSUME IInv, NEW w \in World, BeginTick(w)
  PROVE  IInv'
  <1> DEFINE k == IF count < MaxTickSamples THEN count ELSE MaxTickSamples
  <1>1. /\ UNCHANGED <<worldVars, disposal, cachedWorld, repeaterWorld, running, starting,
                       clientVars, submitting, deviceVars, outputVars>>
        /\ tick = NoTick /\ TakeTick(w) /\ ~TickStops /\ Drain(k)
        /\ tick' = [bound |-> BoundWorld, taken |-> SubSeq(Content, 1, k)]
    BY DEF BeginTick
  <1>2. ClientType' /\ DeviceType'
    BY <1>1, ClientUntouched DEF IInv
  <1>3. queued' \in [World -> Nat]
    BY <1>1 DEF TakeTick, IInv, RepeaterTypeOK
  <1>4. RepeaterTypeOK'
    BY <1>1, <1>3 DEF IInv, RepeaterTypeOK, WorldsTypeOK, worldVars
  <1>5. k \in Nat /\ k <= count
    <2>1. count \in Nat
      BY DEF IInv, Samples, RingType
    <2> QED
      BY <2>1, Constants
  <1>6. BoundWorld \in WorldRef
    BY <1>1 DEF BoundWorld, IInv, RepeaterTypeOK, WorldRef
  <1> HIDE DEF k
  <1>7. Samples'
    BY <1>1, <1>5, <1>6, SamplesBegin DEF IInv
  <1> QED
    BY <1>2, <1>4, <1>7 DEF IInv

LEMMA FinishTickInv ==
  ASSUME IInv, FinishTick
  PROVE  IInv'
  <1>1. UNCHANGED <<worldVars, disposal, cachedWorld, starting, clientVars, submitting,
                    deviceVars, ringVars>>
    BY DEF FinishTick
  <1>2. ClientType' /\ DeviceType'
    BY <1>1, ClientUntouched DEF IInv
  <1>3. tick.bound \in WorldRef /\ Reschedule(tick.bound)
    BY DEF FinishTick, IInv, Samples, TickInv
  <1>4. RepeaterTypeOK'
    BY <1>1, <1>3, RescheduleType DEF IInv, RepeaterTypeOK, WorldsTypeOK, worldVars
  <1>5. Samples'
    BY <1>1, SamplesFinish DEF FinishTick, IInv
  <1> QED
    BY <1>2, <1>4, <1>5 DEF IInv

(* Removing the bridge's device from the lists there can be. *)
LEMMA Removing ==
  ASSUME Remove
  PROVE  /\ Added => Alone'
         /\ AlsoOther => OnlyOther'
         /\ ~Alone /\ ~OnlyOther
  <1>1. PICK p \in DOMAIN inputs :
          /\ inputs[p] = "own"
          /\ inputs' = SubSeq(inputs, 1, p - 1) \o SubSeq(inputs, p + 1, Len(inputs))
    BY DEF Remove
  <1>2. ASSUME Added PROVE Alone'
    <2>1. p = 2 /\ Len(inputs) = 2 /\ inputs \in Seq({"physical", "own", "other"})
      BY <1>1, <1>2 DEF Added, Listing
    <2> QED
      BY <1>1, <1>2, <2>1 DEF Added, Alone, Listing
  <1>3. ASSUME AlsoOther PROVE OnlyOther'
    <2>1. p = 2 /\ Len(inputs) = 3 /\ inputs \in Seq({"physical", "own", "other"})
      BY <1>1, <1>3 DEF AlsoOther, Listing
    <2> QED
      BY <1>1, <1>3, <2>1 DEF AlsoOther, OnlyOther, Listing
  <1>4. ~Alone /\ ~OnlyOther
    BY <1>1 DEF Alone, OnlyOther, Listing
  <1> QED
    BY <1>2, <1>3, <1>4

(* A third device at the end of two. *)
LEMMA AppendedThird ==
  ASSUME NEW S, NEW s \in Seq(S), NEW x \in S, Len(s) = 2
  PROVE  /\ Append(s, x) \in Seq(S)
         /\ Len(Append(s, x)) = 3
         /\ Append(s, x)[1] = s[1]
         /\ Append(s, x)[2] = s[2]
         /\ Append(s, x)[3] = x
  <1>1. Append(s, x) \in Seq(S)
    BY AppendProperties
  <1>2. Len(Append(s, x)) = 3
    <2>1. Len(Append(s, x)) = Len(s) + 1
      BY AppendProperties, ZenonT(60)
    <2> QED
      BY <2>1
  <1>3. Append(s, x)[1] = s[1]
    BY AppendProperties
  <1>4. Append(s, x)[2] = s[2]
    BY AppendProperties
  <1>5. Append(s, x)[3] = x
    <2>1. Append(s, x)[Len(s) + 1] = x
      BY AppendProperties, ZenonT(60)
    <2>2. Len(s) + 1 = 3
      OBVIOUS
    <2> QED
      BY <2>1, <2>2, Zenon
  <1> QED
    BY <1>1, <1>2, <1>3, <1>4, <1>5, Zenon

(* Dispose and the other mods. *)
LEMMA DeviceStep ==
  ASSUME IInv, RevertOverride \/ RemoveDevice \/ OtherOverride
  PROVE  IInv'
  <1>1. UNCHANGED <<worldVars, repeaterVars, clientVars, submitting, tick, outputVars>>
    BY DEF RevertOverride, RemoveDevice, OtherOverride
  <1>2. RepeaterTypeOK' /\ ClientType'
    BY <1>1, RepeaterUnchanged, ClientUntouched DEF IInv
  <1>3. UNCHANGED ringVars \/ ResetRing
    BY DEF RevertOverride, RemoveDevice, OtherOverride
  <1>4. Samples'
    BY <1>1, <1>3, SamplesUntouched, SamplesReset DEF IInv
  <1>5. DeviceType'
    <2>1. DeviceType
      BY DEF IInv
    <2>2. CASE RevertOverride
      BY <2>1, <2>2 DEF RevertOverride, DeviceType, DeviceInv, Alone, Added, AlsoOther, OnlyOther, Listing
    <2>3. CASE RemoveDevice
      <3>1. UNCHANGED inputs \/ Remove
        BY <2>3 DEF RemoveDevice
      <3>2. undoing = "device" /\ undoing' = "nothing"
            /\ UNCHANGED <<registered, override, assigned, chosen>>
        BY <2>3 DEF RemoveDevice
      <3>3. CASE Remove
        BY <2>1, <3>2, <3>3, Removing DEF DeviceType, DeviceInv
      <3>4. CASE UNCHANGED inputs
        BY <2>1, <3>2, <3>4 DEF DeviceType, DeviceInv, Alone, Added, AlsoOther, OnlyOther, Listing
      <3> QED
        BY <3>1, <3>3, <3>4
    <2>4. CASE OtherOverride
      <3>1. DeviceInv /\ chosen = "own" /\ Added /\ UNCHANGED <<registered, assigned, undoing>>
        BY <2>1, <2>4 DEF DeviceType, DeviceInv, OtherOverride
      <3>2. ASSUME inputs' = Append(inputs, "other") PROVE AlsoOther'
        <4> DEFINE Devices == {"physical", "own", "other"}
        <4>1. inputs \in Seq(Devices) /\ Len(inputs) = 2 /\ inputs[1] = "physical" /\ inputs[2] = "own"
          BY <3>1 DEF Added, Listing
        <4>2. PICK x \in Devices : x = "other"
          OBVIOUS
        <4> HIDE DEF Devices
        <4>3. /\ inputs' \in Seq(Devices) /\ Len(inputs') = 3
              /\ inputs'[1] = "physical" /\ inputs'[2] = "own" /\ inputs'[3] = "other"
          BY <3>2, <4>1, <4>2, AppendedThird
        <4> QED
          BY <4>3 DEF AlsoOther, Listing, Devices
      <3>3. ASSUME UNCHANGED inputs PROVE Added'
        BY <3>1, <3>3 DEF Added, Listing
      <3>4. Len(inputs) = 2
        BY <3>1 DEF Added, Listing
      <3>5. DeviceInv'
        BY <2>4, <3>2, <3>3, <3>4 DEF OtherOverride, DeviceInv
      <3> QED
        BY <2>1, <3>1, <3>5 DEF DeviceType
    <2> QED
      BY <2>2, <2>3, <2>4
  <1> QED
    BY <1>2, <1>4, <1>5 DEF IInv

(* The repeater and the worlds. *)
LEMMA EngineInv ==
  ASSUME IInv,
         \/ \E t \in Thread : Start(t)
         \/ \E w \in World : Destroy(w)
         \/ \E w \in WorldRef : Refocus(w)
         \/ Dispose
  PROVE  IInv'
  <1>1. UNCHANGED Rest
    BY DEF Start, Destroy, Refocus, Dispose
  <1>2. ClientType' /\ DeviceType' /\ Samples'
    BY <1>1, ClientUntouched, SamplesUntouched DEF Rest, IInv
  <1>3. CASE \/ \E t \in Thread : Start(t)
             \/ \E w \in World : Destroy(w)
             \/ Dispose
    BY <1>2, <1>3, StartType, DestroyType, DisposeType DEF IInv, Start, Destroy, Dispose
  <1>4. CASE \E w \in WorldRef : Refocus(w)
    <2>1. PICK w \in WorldRef : Refocus(w)
      BY <1>4
    <2>2. CASE registered
      BY <1>2, <2>1, <2>2, FocusType DEF Refocus, IInv
    <2>3. CASE ~registered
      <3>1. Focus(w) /\ UNCHANGED repeaterVars
        BY <2>1, <2>3 DEF Refocus
      <3>2. WorldsTypeOK'
        BY <3>1, WorldsAssumption DEF Focus, IInv, RepeaterTypeOK, WorldsTypeOK
      <3> QED
        BY <1>2, <3>1, <3>2 DEF IInv, RepeaterTypeOK, repeaterVars
    <2> QED
      BY <2>2, <2>3
  <1> QED
    BY <1>3, <1>4

LEMMA InvNext == IInv /\ [Next]_vars => IInv'
  <1> SUFFICES ASSUME IInv, [Next]_vars PROVE IInv'
    OBVIOUS
  <1>1. CASE \E s \in Stream : Exit(s) \/ Crash(s) \/ \E n \in FrameSize : Send(s, n)
    BY <1>1, ClientInv
  <1>2. CASE \E s \in Stream : ReceiveFrame(s) \/ AppendFrame(s) \/ RequestTick(s)
    BY <1>2, ReceiveFrameInv, AppendFrameInv, RequestTickInv
  <1>3. CASE \E s \in Stream, reason \in {"graceful", "cancelled", "errored"} : EndStream(s, reason)
    BY <1>3, EndStreamInv
  <1>4. CASE \/ \E t \in Thread : Start(t)
             \/ \E w \in World : Destroy(w)
             \/ \E w \in WorldRef : Refocus(w)
             \/ Dispose
    BY <1>4, EngineInv
  <1>5. CASE \E w \in World : StopTick(w) \/ BeginTick(w)
    BY <1>5, StopTickInv, BeginTickInv
  <1>6. CASE FinishTick
    BY <1>6, FinishTickInv
  <1>7. CASE RevertOverride \/ RemoveDevice \/ OtherOverride
    BY <1>7, DeviceStep
  <1>8. CASE UNCHANGED vars
    BY <1>8, RepeaterUnchanged, ClientUntouched, SamplesUntouched DEF vars, IInv
  <1> QED
    BY <1>1, <1>2, <1>3, <1>4, <1>5, <1>6, <1>7, <1>8 DEF Next

LEMMA InvAlways == Spec => []IInv
  <1> QED
    BY InvInit, InvNext, PTL DEF Spec

-----------------------------------------------------------------------------
(* The theorems.                                                           *)

(* Every variable keeps its type, of which only the ring needs an argument: *)
(* its indices stay within the buffer and its count within the capacity.    *)
THEOREM MicrophoneTypeCorrect == Spec => []TypeOK
  <1>1. IInv => TypeOK
    <2>1. ASSUME DeviceType
          PROVE  /\ inputs \in Seq({"physical", "own", "other"})
                 /\ {override, assigned} \subseteq Nat
                 /\ chosen \in {"none", "physical", "own", "other", "left"}
      BY <2>1 DEF DeviceType, DeviceInv, Alone, Added, AlsoOther, OnlyOther, Listing
    <2>2. DeviceType => registered \in BOOLEAN /\ undoing \in {"override", "device", "nothing"}
      BY DEF DeviceType
    <2> QED
      BY <2>1, <2>2 DEF IInv, ClientType, Samples, RingType, TickInv, TypeOK
  <1> QED
    BY <1>1, InvAlways, PTL

(* The default microphone is what was chosen, whoever chose it and however *)
(* Dispose goes, but for a revert that threw and a device that moved up.   *)
THEOREM OverrideIsKept == Spec => []OverrideKept
  <1>1. DeviceInv => OverrideKept
    <2> SUFFICES ASSUME DeviceInv PROVE OverrideKept
      OBVIOUS
    <2>1. /\ Alone => DOMAIN inputs = {1} /\ inputs[1] = "physical"
          /\ Added => 1 \in DOMAIN inputs /\ 2 \in DOMAIN inputs /\ inputs[1] = "physical" /\ inputs[2] = "own"
          /\ AlsoOther => 3 \in DOMAIN inputs /\ inputs[3] = "other"
          /\ OnlyOther => DOMAIN inputs = {1, 2} /\ inputs[1] = "physical" /\ inputs[2] = "other"
      BY DEF Alone, Added, AlsoOther, OnlyOther, Listing
    <2>2. CASE chosen = "none"
      BY <2>2 DEF DeviceInv, OverrideKept
    <2>3. CASE chosen = "own"
      BY <2>1, <2>3 DEF DeviceInv, OverrideKept
    <2>4. CASE chosen = "physical"
      BY <2>1, <2>4 DEF DeviceInv, OverrideKept
    <2>5. CASE chosen = "other"
      <3>1. AlsoOther \/ Exposed
        BY <2>1, <2>5 DEF DeviceInv, Exposed, Listed
      <3> QED
        BY <2>1, <2>5, <3>1 DEF DeviceInv, OverrideKept
    <2>6. CASE chosen = "left"
      <3>1. Added \/ Exposed
        BY <2>1, <2>6 DEF DeviceInv, Exposed, Listed
      <3> QED
        BY <2>1, <2>6, <3>1 DEF DeviceInv, OverrideKept
    <2> QED
      BY <2>2, <2>3, <2>4, <2>5, <2>6 DEF DeviceInv
  <1> QED
    BY <1>1, InvAlways, PTL DEF IInv, DeviceType

(* The samples on their way are those a tick has taken and then the newest *)
(* count, so they are in order, and they balance the counters.             *)
LEMMA PendingInOrder == IInv => SamplesKept
  <1> SUFFICES ASSUME IInv PROVE InOrder /\ Accounting
    BY DEF SamplesKept
  <1>0. /\ count \in Nat /\ appended \in Nat /\ droppedSamples \in Nat /\ cleared \in Nat
        /\ written \in Nat /\ lastWritten \in Nat /\ count <= appended
        /\ tick.taken \in Seq(Nat)
    BY Constants DEF IInv, Samples, RingType, RingInv, TickInv
  <1> DEFINE T == tick.taken
             W == Window(appended, count)
             base == appended - count
  <1>1. Pending = T \o W
    BY ContentIsWindow DEF Pending, IInv, Samples
  <1>2. W \in Seq(Nat) /\ Len(W) = count /\ \A i \in 1 .. count : W[i] = base + i
    <2>1. \A i \in 1 .. count : appended - count + i \in Nat
      BY <1>0
    <2> QED
      BY <1>0, <2>1 DEF Window
  <1>3. /\ T \in Seq(Nat) /\ Len(T) \in Nat
        /\ lastWritten <= base
        /\ \A i \in 1 .. Len(T) :
             /\ T[i] \in Nat /\ lastWritten < T[i] /\ T[i] <= base
             /\ \A j \in 1 .. Len(T) : i < j => T[i] < T[j]
    BY <1>0 DEF IInv, Samples, TickInv
  <1>4. base \in Nat
    BY <1>0
  <1>5. appended = written + Len(T) + count + droppedSamples + cleared
    BY DEF IInv, Samples, Balance
  <1> HIDE DEF T, W, base
  <1> DEFINE len == Len(T)
             P == T \o W
  <1>6. /\ Len(P) = len + count /\ len \in Nat
        /\ \A i \in 1 .. len : P[i] = T[i]
        /\ \A i \in (len + 1) .. (len + count) : P[i] = W[i - len]
    <2>1. /\ Len(P) = Len(T) + Len(W)
          /\ \A i \in 1 .. Len(T) + Len(W) : P[i] = IF i <= Len(T) THEN T[i] ELSE W[i - Len(T)]
      BY <1>2, <1>3, ConcatProperties
    <2>2. len \in Nat /\ len = Len(T)
      BY <1>3
    <2> HIDE DEF len, P
    <2>3. Len(P) = len + count /\ \A i \in 1 .. len + count : P[i] = IF i <= len THEN T[i] ELSE W[i - len]
      BY <1>2, <2>1, <2>2
    <2>4. /\ \A i \in 1 .. len : i \in 1 .. len + count /\ i <= len
          /\ \A i \in (len + 1) .. (len + count) : i \in 1 .. len + count /\ ~(i <= len)
      BY <1>0, <2>2
    <2> QED
      BY <2>2, <2>3, <2>4
  <1> HIDE DEF P, len
  <1>7. ASSUME NEW i \in 1 .. Len(P)
        PROVE  P[i] > IF i = 1 THEN lastWritten ELSE P[i - 1]
    <2>0. i \in Nat /\ i >= 1 /\ i <= len + count
      BY <1>0, <1>6
    <2>1. CASE i <= len
      <3>1. i \in 1 .. len /\ P[i] = T[i]
        BY <1>6, <2>0, <2>1
      <3>2. CASE i = 1
        BY <1>0, <1>3, <3>1, <3>2 DEF len
      <3>3. CASE i # 1
        <4>1. i - 1 \in 1 .. len /\ i - 1 < i
          BY <1>6, <2>0, <2>1, <3>3
        <4>2. P[i - 1] = T[i - 1]
          BY <1>6, <4>1
        <4>3. T[i - 1] < T[i] /\ T[i - 1] \in Nat /\ T[i] \in Nat
          BY <1>3, <3>1, <4>1 DEF len
        <4> QED
          BY <3>1, <3>3, <4>2, <4>3
      <3> QED
        BY <3>2, <3>3
    <2>2. CASE ~(i <= len)
      <3> DEFINE d == i - len
      <3>1. i \in (len + 1) .. (len + count) /\ d \in 1 .. count /\ d \in Nat /\ d >= 1
        BY <1>0, <1>6, <2>0, <2>2
      <3>2. P[i] = base + d
        BY <1>2, <1>6, <3>1
      <3>3. CASE i = 1
        BY <1>0, <1>3, <1>4, <3>1, <3>2, <3>3
      <3>4. CASE i # 1 /\ d = 1
        <4>1. i - 1 = len /\ i - 1 \in 1 .. len
          BY <1>6, <2>0, <2>2, <3>4
        <4>2. P[i - 1] = T[i - 1] /\ T[i - 1] \in Nat /\ T[i - 1] <= base
          BY <1>3, <1>6, <4>1 DEF len
        <4> QED
          BY <1>4, <3>2, <3>4, <4>2
      <3>5. CASE i # 1 /\ d # 1
        <4>1. i - 1 \in (len + 1) .. (len + count) /\ (i - 1) - len = d - 1 /\ d - 1 \in 1 .. count
          BY <1>0, <1>6, <2>0, <2>2, <3>1, <3>5
        <4>2. P[i - 1] = base + (d - 1)
          BY <1>2, <1>6, <4>1
        <4> QED
          BY <1>4, <3>1, <3>2, <3>5, <4>2
      <3> QED
        BY <3>3, <3>4, <3>5
    <2> QED
      BY <2>1, <2>2
  <1>8. InOrder
    BY <1>1, <1>7 DEF InOrder, P
  <1>9. Accounting
    <2>1. Len(Pending) = len + count
      BY <1>1, <1>6 DEF P
    <2>2. appended = written + (len + count) + droppedSamples + cleared
      BY <1>0, <1>5, <1>6 DEF len
    <2> QED
      BY <2>1, <2>2 DEF Accounting
  <1> QED
    BY <1>8, <1>9

(* The engine hears the samples in the order they were appended, each at   *)
(* most once, and every one is written, waiting, or counted as lost.       *)
THEOREM SamplesAreKept == Spec => []SamplesKept
  <1> QED
    BY InvAlways, PendingInOrder, PTL

-----------------------------------------------------------------------------
(* The ring as a queue that drops its oldest samples.                      *)

LEMMA WindowSeq ==
  ASSUME NEW a \in Nat, NEW c \in Nat, c <= a
  PROVE  /\ Window(a, c) \in Seq(Nat) /\ Len(Window(a, c)) = c
         /\ \A i \in 1 .. c : Window(a, c)[i] = a - c + i
  <1>1. \A i \in 1 .. c : a - c + i \in Nat
    OBVIOUS
  <1> QED
    BY <1>1 DEF Window

LEMMA WindowExtended ==
  ASSUME NEW a \in Nat, NEW c \in Nat, c <= a, NEW n \in Nat
  PROVE  Window(a, c) \o [i \in 1 .. n |-> a + i] = Window(a + n, c + n)
  <1> DEFINE W == Window(a, c)
             new == [i \in 1 .. n |-> a + i]
             V == Window(a + n, c + n)
  <1>1. W \in Seq(Nat) /\ Len(W) = c /\ \A i \in 1 .. c : W[i] = a - c + i
    BY WindowSeq
  <1>2. new \in Seq(Nat) /\ Len(new) = n /\ \A i \in 1 .. n : new[i] = a + i
    <2>1. \A i \in 1 .. n : a + i \in Nat
      OBVIOUS
    <2> QED
      BY <2>1
  <1>3. V \in Seq(Nat) /\ Len(V) = c + n /\ \A i \in 1 .. c + n : V[i] = (a + n) - (c + n) + i
    <2>1. a + n \in Nat /\ c + n \in Nat /\ c + n <= a + n
      OBVIOUS
    <2> QED
      BY <2>1, WindowSeq
  <1> HIDE DEF W, new, V
  <1>4. /\ W \o new \in Seq(Nat) /\ Len(W \o new) = c + n
        /\ \A i \in 1 .. c + n : (W \o new)[i] = IF i <= c THEN W[i] ELSE new[i - c]
    BY <1>1, <1>2, ConcatProperties
  <1>5. ASSUME NEW i \in 1 .. c + n
        PROVE  (W \o new)[i] = V[i]
    <2>1. CASE i <= c
      <3>1. i \in 1 .. c
        BY <2>1
      <3> QED
        BY <1>1, <1>3, <1>4, <2>1, <3>1
    <2>2. CASE ~(i <= c)
      <3>1. i - c \in 1 .. n
        BY <2>2
      <3>2. new[i - c] = a + (i - c)
        BY <1>2, <3>1
      <3>3. (W \o new)[i] = new[i - c]
        BY <1>4, <2>2
      <3>4. V[i] = (a + n) - (c + n) + i
        BY <1>3
      <3>5. a + (i - c) = (a + n) - (c + n) + i
        OBVIOUS
      <3> QED
        BY <3>2, <3>3, <3>4, <3>5
    <2> QED
      BY <2>1, <2>2
  <1>6. W \o new = V
    BY <1>3, <1>4, <1>5, SeqEqual
  <1> QED
    BY <1>6 DEF W, new, V

LEMMA WindowCut ==
  ASSUME NEW a \in Nat, NEW c \in Nat, c <= a, NEW k \in Nat, k <= c
  PROVE  SubSeq(Window(a, c), k + 1, c) = Window(a, c - k)
  <1> DEFINE W == Window(a, c)
             V == Window(a, c - k)
             T == SubSeq(W, k + 1, c)
  <1>1. W \in Seq(Nat) /\ Len(W) = c /\ \A i \in 1 .. c : W[i] = a - c + i
    BY WindowSeq
  <1>2. V \in Seq(Nat) /\ Len(V) = c - k /\ \A i \in 1 .. c - k : V[i] = a - (c - k) + i
    <2>1. c - k \in Nat /\ c - k <= a
      OBVIOUS
    <2> QED
      BY <2>1, WindowSeq
  <1> HIDE DEF W, V
  <1>3. \A i \in (k + 1) .. c : W[i] \in Nat
    <2>1. \A i \in (k + 1) .. c : i \in 1 .. c
      OBVIOUS
    <2>2. \A i \in 1 .. c : a - c + i \in Nat
      OBVIOUS
    <2> QED
      BY <1>1, <2>1, <2>2
  <1>4. /\ T \in Seq(Nat)
        /\ Len(T) = IF k + 1 <= c THEN c - (k + 1) + 1 ELSE 0
        /\ \A i \in 1 .. c - (k + 1) + 1 : T[i] = W[(k + 1) + i - 1]
    <2>1. k + 1 \in Int /\ c \in Int
      OBVIOUS
    <2> QED
      BY <1>3, <2>1, SubSeqProperties
  <1>5. Len(T) = c - k
    BY <1>4
  <1> HIDE DEF T
  <1>6. ASSUME NEW i \in 1 .. c - k
        PROVE  T[i] = V[i]
    <2>1. i \in 1 .. c - (k + 1) + 1 /\ (k + 1) + i - 1 \in 1 .. c
      OBVIOUS
    <2>2. W[(k + 1) + i - 1] = a - c + ((k + 1) + i - 1)
      BY <1>1, <2>1
    <2> QED
      BY <1>2, <1>4, <2>1, <2>2
  <1>7. T = V
    BY <1>2, <1>4, <1>5, <1>6, SeqEqual
  <1> QED
    BY <1>7 DEF T, V, W

LEMMA AppendCount ==
  ASSUME RingType, NEW n \in Nat, AppendSamples(n)
  PROVE  /\ appended' = appended + n
         /\ count' = IF count + n <= RingBufferCapacity THEN count + n ELSE RingBufferCapacity
  <1>1. count \in Nat /\ RingBufferCapacity \in Nat
    BY Constants DEF RingType
  <1>2. CASE count + n <= RingBufferCapacity
    BY <1>1, <1>2 DEF AppendSamples, Insert
  <1>3. CASE ~(count + n <= RingBufferCapacity) /\ n >= RingBufferCapacity
    BY <1>1, <1>3 DEF AppendSamples, Overwrite
  <1>4. CASE ~(count + n <= RingBufferCapacity) /\ ~(n >= RingBufferCapacity)
    BY <1>1, <1>4 DEF AppendSamples, Insert
  <1> QED
    BY <1>2, <1>3, <1>4

LEMMA QueueOffer ==
  ASSUME RingType, RingInv, RingType', RingInv', NEW n \in Nat, AppendSamples(n)
  PROVE  /\ Content' = SampleQueue!Newest(Content \o [i \in 1 .. n |-> appended + i])
         /\ appended' = appended + n
  <1>0. /\ count \in Nat /\ appended \in Nat /\ count <= appended /\ count <= RingBufferCapacity
        /\ RingBufferCapacity \in Nat
    BY Constants DEF RingType, RingInv
  <1>1. Content = Window(appended, count)
    BY ContentIsWindow
  <1>2. Content' = Window(appended', count')
    BY ContentIsWindowNext
  <1>3. /\ appended' = appended + n
        /\ count' = IF count + n <= RingBufferCapacity THEN count + n ELSE RingBufferCapacity
    BY AppendCount
  <1> DEFINE V == Window(appended + n, count + n)
             k == count + n - RingBufferCapacity
  <1>4. Content \o [i \in 1 .. n |-> appended + i] = V
    BY <1>0, <1>1, WindowExtended
  <1>5. appended + n \in Nat /\ count + n \in Nat /\ count + n <= appended + n
    BY <1>0
  <1>6. Len(V) = count + n
    BY <1>5, WindowSeq
  <1>7. SampleQueue!Newest(V) = IF count + n <= RingBufferCapacity THEN V
                                ELSE SubSeq(V, k + 1, count + n)
    <2>1. /\ SampleQueue!Newest(V) = IF Len(V) <= RingBufferCapacity THEN V
                                     ELSE SubSeq(V, Len(V) - RingBufferCapacity + 1, Len(V))
      BY DEF SampleQueue!Newest
    <2>2. Len(V) - RingBufferCapacity + 1 = k + 1
      BY <1>0, <1>6
    <2> HIDE DEF V, k
    <2> QED
      BY <1>6, <2>1, <2>2, Zenon
  <1>8. CASE count + n <= RingBufferCapacity
    BY <1>2, <1>3, <1>4, <1>7, <1>8
  <1>9. CASE ~(count + n <= RingBufferCapacity)
    <2>1. k \in Nat /\ k <= count + n /\ (count + n) - k = RingBufferCapacity
      BY <1>0, <1>9
    <2>2. SubSeq(V, k + 1, count + n) = Window(appended + n, RingBufferCapacity)
      <3> HIDE DEF k
      <3>1. SubSeq(V, k + 1, count + n) = Window(appended + n, (count + n) - k)
        BY <1>5, <2>1, WindowCut
      <3> QED
        BY <2>1, <3>1
    <2>3. Content' = Window(appended + n, RingBufferCapacity)
      BY <1>2, <1>3, <1>9
    <2>4. SampleQueue!Newest(V) = SubSeq(V, k + 1, count + n)
      <3> HIDE DEF V, k
      <3> QED
        BY <1>7, <1>9
    <2> QED
      BY <1>3, <1>4, <2>2, <2>3, <2>4
  <1> QED
    BY <1>3, <1>8, <1>9

LEMMA QueueTake ==
  ASSUME RingType, RingInv, RingType', RingInv', NEW k \in Nat, k <= count, Drain(k)
  PROVE  /\ Content' = SubSeq(Content, k + 1, Len(Content)) /\ Len(Content) = count
         /\ appended' = appended /\ (k = 0 => Content' = Content)
  <1>0. count \in Nat /\ appended \in Nat /\ count <= appended
    BY Constants DEF RingType, RingInv
  <1>1. Content = Window(appended, count) /\ Content' = Window(appended', count')
    BY ContentIsWindow, ContentIsWindowNext
  <1>2. appended' = appended /\ count' = count - k
    BY DEF Drain
  <1>3. SubSeq(Window(appended, count), k + 1, count) = Window(appended, count - k)
    BY <1>0, WindowCut
  <1>4. Len(Window(appended, count)) = count
    BY <1>0, WindowSeq
  <1>5. k = 0 => count - k = count
    BY <1>0
  <1> QED
    BY <1>1, <1>2, <1>3, <1>4, <1>5

LEMMA QueueInit == Init => SampleQueue!Init
  <1> SUFFICES ASSUME Init PROVE Content = <<>> /\ appended = 0
    BY DEF SampleQueue!Init
  <1> QED
    BY DEF Init, Content

(* Each step of the bridge offers a chunk, takes the oldest samples or     *)
(* clears the queue, or leaves it as it is.                                *)
LEMMA QueueNext ==
  ASSUME IInv, IInv', [Next]_vars
  PROVE  [SampleQueue!Next]_<<Content, appended>>
  <1>0. /\ RingType /\ RingInv /\ RingType' /\ RingInv'
        /\ count \in Nat /\ RingBufferCapacity \in Nat /\ count <= RingBufferCapacity
    BY Constants DEF IInv, Samples, RingType
  <1>1. CASE UNCHANGED ringVars
    BY <1>1 DEF ringVars, Content
  <1>2. CASE ResetRing
    <2>1. Content' = <<>> /\ appended' = appended
      BY <1>2 DEF ResetRing, Content
    <2>2. SampleQueue!Clear
      BY <2>1 DEF SampleQueue!Clear
    <2> QED
      BY <2>2 DEF SampleQueue!Next
  <1>3. ASSUME NEW s \in Stream, AppendFrame(s)
        PROVE  [SampleQueue!Next]_<<Content, appended>>
    <2> DEFINE n == submitting[s].size
    <2>1. AppendSamples(n) /\ n \in FrameSize \cup {0}
      BY <1>3 DEF AppendFrame, IInv, ClientType
    <2>2. n \in Nat /\ (n = 0 \/ n \in 1 .. Max(FrameSize))
      BY <2>1, LargestChunk
    <2> HIDE DEF n
    <2>3. SampleQueue!Offer(n)
      BY <1>0, <2>1, <2>2, QueueOffer DEF SampleQueue!Offer
    <2>4. CASE n = 0
      <3>1. appended' = appended /\ count' = count
        BY <1>0, <2>1, <2>2, <2>4, AppendCount DEF RingType
      <3> QED
        BY <1>0, <3>1, ContentIsWindow, ContentIsWindowNext
    <2>5. CASE n \in 1 .. Max(FrameSize)
      BY <2>3, <2>5 DEF SampleQueue!Next
    <2> QED
      BY <2>2, <2>4, <2>5
  <1>4. ASSUME NEW w \in World, BeginTick(w)
        PROVE  [SampleQueue!Next]_<<Content, appended>>
    <2> DEFINE k == IF count < MaxTickSamples THEN count ELSE MaxTickSamples
    <2>1. Drain(k)
      BY <1>4 DEF BeginTick
    <2>2. k \in Nat /\ k <= count
      BY <1>0, Constants
    <2> HIDE DEF k
    <2>3. /\ Content' = SubSeq(Content, k + 1, Len(Content)) /\ Len(Content) = count
          /\ appended' = appended /\ (k = 0 => Content' = Content)
      BY <1>0, <2>1, <2>2, QueueTake
    <2>4. CASE k = 0
      BY <2>3, <2>4
    <2>5. CASE k # 0
      <3>1. k \in 1 .. count /\ k \in 1 .. RingBufferCapacity
        BY <1>0, <2>2, <2>5
      <3>2. SampleQueue!Take(k)
        BY <2>3, <3>1 DEF SampleQueue!Take
      <3> QED
        BY <3>1, <3>2 DEF SampleQueue!Next
    <2> QED
      BY <2>4, <2>5
  <1>5. \/ UNCHANGED ringVars \/ ResetRing
        \/ \E s \in Stream : AppendFrame(s)
        \/ \E w \in World : BeginTick(w)
    BY DEF Next, vars, Rest, Send, Exit, Crash, ReceiveFrame, RequestTick, EndStream, NotifyDisconnect,
           StopTick, FinishTick, RevertOverride, RemoveDevice, OtherOverride, Start, Destroy, Dispose, Refocus
  <1> QED
    BY <1>1, <1>2, <1>3, <1>4, <1>5

(* Through every wrap-around and overflow the ring buffer does what a      *)
(* queue does that holds RingBufferCapacity samples and drops its oldest.  *)
THEOREM RingIsAQueue == Spec => ImplementsDropOldest
  <1>1. IInv /\ IInv' /\ [Next]_vars => [SampleQueue!Next]_SampleQueue!vars
    BY QueueNext DEF SampleQueue!vars
  <1> QED
    BY <1>1, QueueInit, InvAlways, PTL DEF Spec, ImplementsDropOldest, SampleQueue!Spec
=============================================================================
