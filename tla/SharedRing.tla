------------------------------ MODULE SharedRing ------------------------------
(***************************************************************************)
(* The audio path of one player: the helper's capture callback writes a    *)
(* ring of samples in shared memory, the HAL driver's I/O threads read it, *)
(* rocksmith_bridge_ctl moves the distance the driver keeps behind the     *)
(* writer.  Nothing is locked: each load, each store and each sample of a  *)
(* copy is a step of its own, and the helper may die between any two.      *)
(*                                                                         *)
(* The sample of frame f is f itself, so a slot that holds another frame   *)
(* than the one the reader wants is visible.  The ring is mapped and its   *)
(* header is valid throughout (RingFile models how that comes about).      *)
(***************************************************************************)
EXTENDS Integers, Sequences

CONSTANTS
  Clients,       \* Core Audio clients that do I/O on the virtual device
  HostSerializes, \* does coreaudiod run one StartIO of the device at a time?
  Capacity,      \* kRingCapacityFrames
  MinTarget,     \* kMinBufferFrames
  MaxTarget,     \* kMaxTargetLatencyFrames
  DefaultTarget, \* kDefaultTargetLatencyFrames
  MaxCapture,    \* kMaxCaptureFrames
  MaxChunk,      \* frames of the driver's scratch buffer
  CaptureSizes,  \* frame counts the source device hands to the helper
  IOSizes,       \* frame counts the HAL asks the driver for
  Requests,      \* latencies that ctl and the configuration ask for
  MaxLag,        \* timing assumption: frames captured while one chunk is read
  MaxFrames      \* bound: frames captured in a behaviour

ASSUME SizesAssumption ==
  /\ HostSerializes \in BOOLEAN
  /\ Capacity \in Nat \ {0}
  /\ MinTarget \in Nat \ {0}
  /\ MaxTarget \in Nat
  /\ DefaultTarget \in MinTarget .. MaxTarget
  /\ MaxCapture \in Nat
  /\ MaxChunk \in Nat \ {0}
  /\ CaptureSizes \subseteq Nat \ {0}
  /\ IOSizes \subseteq Nat \ {0}
  /\ Requests \subseteq Nat
  /\ MaxFrames \in Nat

\* The read window, and what is captured while it is read, fit in the ring.
ASSUME PaceAssumption ==
  /\ MaxLag \in Nat
  /\ MaxCapture <= MaxLag
  /\ MaxTarget + MaxChunk + MaxLag <= Capacity

VARIABLES
  \* shared memory
  writeFrame, targetLatencyFrames, samples, heartbeat, counters,
  \* the helper: is it running, frames of the block it writes, frames filled
  helperUp, block, filled,
  \* the driver's globals
  gRunningClients, gReadFrame,
  \* one driver call per client, and the locals of that call
  pc, remaining, readFrame, head, scratch

ring   == <<writeFrame, targetLatencyFrames, samples, heartbeat, counters>>
helper == <<helperUp, block, filled>>
driver == <<gRunningClients, gReadFrame>>
call   == <<pc, remaining, readFrame, head, scratch>>
vars   == <<ring, helper, driver, call>>

Silence == -1
Slots   == 0 .. Capacity - 1

Clamp(frames) ==
  IF frames < MinTarget THEN MinTarget
  ELSE IF frames > MaxTarget THEN MaxTarget ELSE frames

-----------------------------------------------------------------------------
(* The helper's capture callback, writeMonoFrames, and the process's life. *)

\* No read of a chunk is suspended for longer than MaxLag frames of capture.
KeepsPace(n) ==
  \A c \in Clients :
    pc[c] \in {"place", "copy"} => writeFrame + n - head[c] <= MaxLag

BeginWrite(n) ==
  /\ helperUp
  /\ block = 0
  /\ n <= MaxCapture
  /\ writeFrame + n <= MaxFrames
  /\ KeepsPace(n)
  /\ block' = n
  /\ filled' = 0
  /\ UNCHANGED <<ring, helperUp, driver, call>>

WriteSample ==
  /\ filled < block
  /\ samples' = [samples EXCEPT ![(writeFrame + filled) % Capacity] =
                                  writeFrame + filled]
  /\ filled' = filled + 1
  /\ UNCHANGED <<writeFrame, targetLatencyFrames, heartbeat, counters,
                 helperUp, block, driver, call>>

PublishWrite ==
  /\ block > 0
  /\ filled = block
  /\ writeFrame' = writeFrame + block
  /\ block' = 0
  /\ filled' = 0
  /\ heartbeat' = TRUE
  /\ UNCHANGED <<targetLatencyFrames, samples, counters, helperUp, driver, call>>

HelperStops ==
  /\ helperUp
  /\ helperUp' = FALSE
  /\ block' = 0
  /\ filled' = 0
  /\ UNCHANGED <<ring, driver, call>>

SetTargetLatency(frames) ==
  targetLatencyFrames' = Clamp(frames)

\* A new helper finds a valid header: it keeps the ring and sets the latency.
HelperStarts ==
  /\ ~helperUp
  /\ helperUp' = TRUE
  /\ \E frames \in Requests : SetTargetLatency(frames)
  /\ UNCHANGED <<writeFrame, samples, heartbeat, counters, block, filled,
                 driver, call>>

CtlSetsLatency ==
  /\ \E frames \in Requests : SetTargetLatency(frames)
  /\ UNCHANGED <<writeFrame, samples, heartbeat, counters, helper, driver, call>>

-----------------------------------------------------------------------------
(* Where a read starts.                                                    *)

Behind(w, distance) == IF w > distance THEN w - distance ELSE 0

InvalidReadHead(r, w) == r = 0 \/ w < r \/ w - r > Capacity

\* Mutants of DriftedHigh: the cursor drifts unnoticed, or by a chunk too many,
\* or is moved back as well when it is closer to the writer than the target.
NeverDrifts(r, w, t, n)    == FALSE
DriftedTooLate(r, w, t, n) == ~InvalidReadHead(r, w) /\ w - r > t + n + n
DriftedEitherWay(r, w, t, n) ==
  ~InvalidReadHead(r, w) /\ (w - r > t + n \/ w - r < t)

DriftedHigh(r, w, t, n) == ~InvalidReadHead(r, w) /\ w - r > t + n

NeedsResync(r, w, t, n) == InvalidReadHead(r, w) \/ DriftedHigh(r, w, t, n)

\* The driver maps the ring read only and counts nothing in its header.
DriverMapsWritable == FALSE

Count(field) ==
  counters' = IF DriverMapsWritable
              THEN [counters EXCEPT ![field] = @ + 1] ELSE counters

-----------------------------------------------------------------------------
(* The driver's StartIO and StopIO.                                        *)

StartIO(c) ==
  /\ pc[c] = "stopped"
  /\ HostSerializes => \A d \in Clients : pc[d] \notin {"start", "startStore"}
  /\ gRunningClients' = gRunningClients + 1
  /\ pc' = [pc EXCEPT ![c] = IF gRunningClients = 0 THEN "start" ELSE "idle"]
  /\ UNCHANGED <<ring, helper, gReadFrame, remaining, readFrame, head, scratch>>

StartLoadHead(c) ==
  /\ pc[c] = "start"
  /\ head' = [head EXCEPT ![c] = writeFrame]
  /\ pc' = [pc EXCEPT ![c] = "startStore"]
  /\ UNCHANGED <<ring, helper, driver, remaining, readFrame, scratch>>

StartPlaceCursor(c) ==
  /\ pc[c] = "startStore"
  /\ gReadFrame' = Behind(head[c], Clamp(targetLatencyFrames))
  /\ head' = [head EXCEPT ![c] = 0]
  /\ pc' = [pc EXCEPT ![c] = "idle"]
  /\ UNCHANGED <<ring, helper, gRunningClients, remaining, readFrame, scratch>>

StopIO(c) ==
  /\ pc[c] = "idle"
  /\ gRunningClients' = IF gRunningClients > 0
                        THEN gRunningClients - 1 ELSE gRunningClients
  /\ pc' = [pc EXCEPT ![c] = "stopped"]
  /\ UNCHANGED <<ring, helper, gReadFrame, remaining, readFrame, head, scratch>>

-----------------------------------------------------------------------------
(* The driver's DoIOOperation: it loads the device's cursor, reads chunk   *)
(* after chunk with readMonoFrames, and stores the cursor.                 *)

\* Mutant of Chunk: the whole request is read in one go.
WholeRequest(c) == remaining[c]

Chunk(c) == IF remaining[c] > MaxChunk THEN MaxChunk ELSE remaining[c]

BeginRead(c, n) ==
  /\ pc[c] = "idle"
  /\ remaining' = [remaining EXCEPT ![c] = n]
  /\ readFrame' = [readFrame EXCEPT ![c] = gReadFrame]
  /\ pc' = [pc EXCEPT ![c] = "load"]
  /\ UNCHANGED <<ring, helper, driver, head, scratch>>

LoadHead(c) ==
  /\ pc[c] = "load"
  /\ head' = [head EXCEPT ![c] = writeFrame]
  /\ scratch' = [scratch EXCEPT ![c] = <<>>]
  /\ pc' = [pc EXCEPT ![c] = "place"]
  /\ UNCHANGED <<ring, helper, driver, remaining, readFrame>>

\* Mutant of PlaceReadHead: a cursor that was moved is checked again.
PlaceUntilNear(c) ==
  /\ pc[c] = "place"
  /\ LET t == Clamp(targetLatencyFrames)
     IN IF NeedsResync(readFrame[c], head[c], t, Chunk(c))
        THEN /\ readFrame' = [readFrame EXCEPT ![c] = Behind(head[c], t)]
             /\ pc' = [pc EXCEPT ![c] = "load"]
        ELSE pc' = [pc EXCEPT ![c] = "copy"] /\ UNCHANGED readFrame
  /\ UNCHANGED <<ring, helper, driver, remaining, head, scratch>>

PlaceReadHead(c) ==
  /\ pc[c] = "place"
  /\ LET t == Clamp(targetLatencyFrames)
     IN IF NeedsResync(readFrame[c], head[c], t, Chunk(c))
        THEN /\ readFrame' = [readFrame EXCEPT ![c] = Behind(head[c], t)]
             /\ Count("overruns")
        ELSE UNCHANGED <<readFrame, counters>>
  /\ pc' = [pc EXCEPT ![c] = "copy"]
  /\ UNCHANGED <<writeFrame, targetLatencyFrames, samples, heartbeat, helper,
                 driver, remaining, head, scratch>>

\* Mutant of CopyFrame: the copy does not stop at the writer's head.
CopyFrameBlindly(c) ==
  /\ pc[c] = "copy"
  /\ Len(scratch[c]) < Chunk(c)
  /\ scratch' = [scratch EXCEPT ![c] =
                   Append(@, samples[readFrame[c] % Capacity])]
  /\ readFrame' = [readFrame EXCEPT ![c] = @ + 1]
  /\ UNCHANGED <<ring, helper, driver, pc, remaining, head>>

CopyFrame(c) ==
  /\ pc[c] = "copy"
  /\ Len(scratch[c]) < Chunk(c)
  /\ readFrame[c] < head[c]
  /\ scratch' = [scratch EXCEPT ![c] =
                   Append(@, samples[readFrame[c] % Capacity])]
  /\ readFrame' = [readFrame EXCEPT ![c] = @ + 1]
  /\ UNCHANGED <<ring, helper, driver, pc, remaining, head>>

\* Mutant of PadTo: the rest of the output is not cleared.
PadWithLast(s, n) ==
  [i \in 1 .. n |-> IF i <= Len(s) THEN s[i]
                    ELSE IF s = <<>> THEN Silence ELSE s[Len(s)]]

\* The output of one chunk: what was copied, and silence up to n frames.
PadTo(s, n) == [i \in 1 .. n |-> IF i <= Len(s) THEN s[i] ELSE Silence]

\* Mutant of FinishChunk: a chunk waits until the helper has filled it.
FinishFullChunk(c) ==
  /\ pc[c] = "copy"
  /\ Len(scratch[c]) = Chunk(c)
  /\ remaining' = [remaining EXCEPT ![c] = @ - Chunk(c)]
  /\ head' = [head EXCEPT ![c] = 0]
  /\ pc' = [pc EXCEPT ![c] = IF remaining[c] > MaxChunk THEN "load" ELSE "store"]
  /\ UNCHANGED <<ring, helper, driver, readFrame, scratch>>

FinishChunk(c) ==
  /\ pc[c] = "copy"
  /\ Len(scratch[c]) = Chunk(c) \/ readFrame[c] = head[c]
  /\ scratch' = [scratch EXCEPT ![c] = PadTo(@, Chunk(c))]
  /\ IF Len(scratch[c]) < Chunk(c) THEN Count("underruns")
                                   ELSE UNCHANGED counters
  /\ remaining' = [remaining EXCEPT ![c] = @ - Chunk(c)]
  /\ head' = [head EXCEPT ![c] = 0]
  /\ pc' = [pc EXCEPT ![c] = IF remaining[c] > MaxChunk THEN "load" ELSE "store"]
  /\ UNCHANGED <<writeFrame, targetLatencyFrames, samples, heartbeat, helper,
                 driver, readFrame>>

StoreCursor(c) ==
  /\ pc[c] = "store"
  /\ gReadFrame' = readFrame[c]
  /\ readFrame' = [readFrame EXCEPT ![c] = 0]
  /\ scratch' = [scratch EXCEPT ![c] = <<>>]
  /\ pc' = [pc EXCEPT ![c] = "idle"]
  /\ UNCHANGED <<ring, helper, gRunningClients, remaining, head>>

-----------------------------------------------------------------------------
Init ==
  /\ writeFrame = 0
  /\ targetLatencyFrames = DefaultTarget
  /\ samples = [s \in Slots |-> Silence]
  /\ heartbeat = FALSE
  /\ counters = [underruns |-> 0, overruns |-> 0]
  /\ helperUp = TRUE
  /\ block = 0
  /\ filled = 0
  /\ gRunningClients = 0
  /\ gReadFrame = 0
  /\ pc = [c \in Clients |-> "stopped"]
  /\ remaining = [c \in Clients |-> 0]
  /\ readFrame = [c \in Clients |-> 0]
  /\ head = [c \in Clients |-> 0]
  /\ scratch = [c \in Clients |-> <<>>]

Capture ==
  \/ \E n \in CaptureSizes : BeginWrite(n)
  \/ WriteSample
  \/ PublishWrite

ReadStep(c) ==
  \/ LoadHead(c)
  \/ PlaceReadHead(c)
  \/ CopyFrame(c)
  \/ FinishChunk(c)
  \/ StoreCursor(c)

StartStep(c) == StartLoadHead(c) \/ StartPlaceCursor(c)

HostCall(c) ==
  \/ StartIO(c)
  \/ StopIO(c)
  \/ \E n \in IOSizes : BeginRead(c, n)

Next ==
  \/ Capture
  \/ HelperStops
  \/ HelperStarts
  \/ CtlSetsLatency
  \/ \E c \in Clients : HostCall(c) \/ StartStep(c) \/ ReadStep(c)

Spec == Init /\ [][Next]_vars

\* A driver thread keeps running once it is called; nothing else is promised.
FairSpec == Spec /\ \A c \in Clients : WF_vars(ReadStep(c) \/ StartStep(c))

-----------------------------------------------------------------------------
TypeOK ==
  /\ writeFrame \in Nat
  /\ targetLatencyFrames \in MinTarget .. MaxTarget
  /\ samples \in [Slots -> Nat \cup {Silence}]
  /\ heartbeat \in BOOLEAN
  /\ counters \in [underruns : Nat, overruns : Nat]
  /\ helperUp \in BOOLEAN
  /\ block \in 0 .. MaxCapture
  /\ filled \in 0 .. block
  /\ gRunningClients \in Nat
  /\ gReadFrame \in Nat
  /\ pc \in [Clients -> {"stopped", "start", "startStore", "idle",
                         "load", "place", "copy", "store"}]
  /\ remaining \in [Clients -> Nat]
  /\ readFrame \in [Clients -> Nat]
  /\ head \in [Clients -> Nat]
  /\ scratch \in [Clients -> Seq(Nat \cup {Silence})]

\* A copy never picks up a sample that the writer has lapped: what is in the
\* scratch buffer is the run of consecutive frames that ends before readFrame
\* (readMonoFrames copies from a ring the helper keeps writing, unlocked).
NoTornRead ==
  \A c \in Clients : pc[c] = "copy" =>
    \A i \in 1 .. Len(scratch[c]) :
      scratch[c][i] = readFrame[c] - Len(scratch[c]) + i - 1

\* While a chunk is copied the writer stays off the slots that are still to
\* be read, so that the plain loads and stores of samples do not race.
NoSlotRace ==
  \A c \in Clients :
    pc[c] = "copy" /\ readFrame[c] < head[c] /\ filled < block =>
      \A f \in readFrame[c] .. head[c] - 1 :
        f % Capacity # (writeFrame + filled) % Capacity

\* The driver never plays what it should have skipped: a chunk of n frames
\* starts at most n frames further back than the largest latency allows
\* (CONTRIBUTING: no queued stale-buffer playback).
BoundedStaleness ==
  \A c \in Clients : pc[c] = "copy" =>
    head[c] - (readFrame[c] - Len(scratch[c])) <= MaxTarget + Chunk(c)

\* The cursor is never ahead of what the helper has published, whichever of
\* the clients' calls stores it last.
CursorBehindHead ==
  /\ gReadFrame <= writeFrame
  /\ \A c \in Clients : readFrame[c] <= writeFrame

\* The steps that a call of the driver still takes, at the most: a chunk of n
\* frames takes n and three more.
StepsLeft(c) ==
  CASE pc[c] = "start"      -> 2
    [] pc[c] = "startStore" -> 1
    [] pc[c] = "load"       -> 4 * remaining[c] + 1
    [] pc[c] = "place"      -> 4 * remaining[c]
    [] pc[c] = "copy"       -> 4 * remaining[c] - Len(scratch[c]) - 1
    [] pc[c] = "store"      -> 1
    [] OTHER                -> 0

\* A copy that is within its bounds can go on: it is never past the head, nor
\* past the chunk.
CanGoOn(c) ==
  pc[c] = "copy" => /\ readFrame[c] <= head[c]
                    /\ Len(scratch[c]) <= Chunk(c)

\* The driver's calls, which coreaudiod makes on a real-time thread, are wait
\* free: nothing that the helper, ctl or another client does, however often,
\* adds a step to a call, and no call waits for any of them.  A request of n
\* frames returns after 4 n + 1 steps at most.
CallsAreWaitFree ==
  /\ [](\A c \in Clients : CanGoOn(c))
  /\ [][\A c \in Clients :
         \/ UNCHANGED <<pc[c], remaining[c], readFrame[c], head[c], scratch[c]>>
         \/ pc[c] \in {"stopped", "idle"}
         \/ StepsLeft(c)' \in 0 .. StepsLeft(c) - 1]_vars

\* A driver call returns whatever the helper does, crashes included.
ReadReturns ==
  \A c \in Clients : pc[c] = "load" ~> pc[c] = "idle"
=============================================================================
