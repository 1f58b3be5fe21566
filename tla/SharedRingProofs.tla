-------------------------- MODULE SharedRingProofs --------------------------
(***************************************************************************)
(* Theorems about SharedRing, for every ring, every set of clients and     *)
(* every latency that SizesAssumption and PaceAssumption allow, and without *)
(* a bound on the length of a behaviour other than the constant MaxFrames. *)
(***************************************************************************)
EXTENDS SharedRing, TLAPS

-----------------------------------------------------------------------------
(* Lemmas about the operators.                                             *)

\* Every number is a multiple of the ring's capacity and a slot.
LEMMA Division ==
  ASSUME NEW f \in Nat
  PROVE  /\ f \div Capacity \in Int
         /\ f % Capacity \in Slots
         /\ f = Capacity * (f \div Capacity) + (f % Capacity)
BY SizesAssumption DEF Slots

\* A multiple of the capacity that is smaller than the capacity is 0.
LEMMA SmallMultiple ==
  ASSUME NEW k \in Int, k * Capacity > -Capacity, k * Capacity < Capacity
  PROVE  k = 0
<1>0. Capacity \in Nat \ {0}
  BY SizesAssumption
<1>1. CASE k >= 1
  <2>1. k * Capacity >= Capacity
    BY <1>0, <1>1
  <2> QED
    BY <1>0, <2>1
<1>2. CASE k <= -1
  <2>1. k * Capacity <= -Capacity
    BY <1>0, <1>2
  <2> QED
    BY <1>0, <2>1
<1> QED
  BY <1>1, <1>2

\* Two frames less than a capacity apart do not share a slot.
LEMMA SlotsAreDistinct ==
  ASSUME NEW f \in Nat, NEW g \in Nat,
         f <= g, g < f + Capacity, f % Capacity = g % Capacity
  PROVE  f = g
<1> DEFINE k == (g \div Capacity) - (f \div Capacity)
<1>0. Capacity \in Nat \ {0}
  BY SizesAssumption
<1>1. /\ f \div Capacity \in Int
      /\ f = Capacity * (f \div Capacity) + (f % Capacity)
      /\ g \div Capacity \in Int
      /\ g = Capacity * (g \div Capacity) + (g % Capacity)
      /\ f % Capacity \in Int
  BY <1>0, Division DEF Slots
<1>2. k \in Int /\ g - f = k * Capacity
  BY <1>0, <1>1
<1>3. k = 0
  BY <1>0, <1>2, SmallMultiple
<1> QED
  BY <1>0, <1>2, <1>3

\* A clamped latency is one that the driver accepts.
LEMMA ClampRange ==
  ASSUME NEW frames \in Nat
  PROVE  Clamp(frames) \in MinTarget .. MaxTarget /\ Clamp(frames) \in Nat
BY SizesAssumption DEF Clamp

\* The cursor that a resync yields is behind the head by the latency at most.
LEMMA BehindRange ==
  ASSUME NEW w \in Nat, NEW t \in Nat
  PROVE  Behind(w, t) \in Nat /\ Behind(w, t) <= w /\ w - Behind(w, t) <= t
BY DEF Behind

\* The output of a chunk is a sequence of samples.
LEMMA PadToSeq ==
  ASSUME NEW s \in Seq(Nat \cup {Silence}), NEW n \in Nat
  PROVE  PadTo(s, n) \in Seq(Nat \cup {Silence})
<1> DEFINE padded == [i \in 1 .. n |-> IF i <= Len(s) THEN s[i] ELSE Silence]
<1>1. ASSUME NEW i \in 1 .. n
      PROVE  (IF i <= Len(s) THEN s[i] ELSE Silence) \in Nat \cup {Silence}
  OBVIOUS
<1>2. padded \in [1 .. n -> Nat \cup {Silence}]
  BY <1>1
<1> QED
  BY <1>2 DEF PadTo

-----------------------------------------------------------------------------
(* Type correctness.                                                       *)

LEMMA InitTypeOK == Init => TypeOK
<1> SUFFICES ASSUME Init PROVE TypeOK
  OBVIOUS
<1>1. targetLatencyFrames \in MinTarget .. MaxTarget
  BY SizesAssumption DEF Init
<1>2. samples \in [Slots -> Nat \cup {Silence}]
  BY DEF Init
<1>3. scratch \in [Clients -> Seq(Nat \cup {Silence})]
  BY DEF Init
<1>4. counters \in [underruns : Nat, overruns : Nat]
  BY DEF Init
<1>5. block \in 0 .. MaxCapture /\ filled \in 0 .. block
  BY SizesAssumption DEF Init
<1> QED
  BY <1>1, <1>2, <1>3, <1>4, <1>5 DEF Init, TypeOK

LEMMA NextTypeOK == TypeOK /\ [Next]_vars => TypeOK'
<1> SUFFICES ASSUME TypeOK, [Next]_vars
             PROVE  TypeOK'
  OBVIOUS
<1> USE SizesAssumption DEF TypeOK
<1>1. CASE \E n \in CaptureSizes : BeginWrite(n)
  BY <1>1 DEF BeginWrite, ring, driver, call
<1>2. CASE WriteSample
  <2>1. (writeFrame + filled) % Capacity \in Slots /\ writeFrame + filled \in Nat
    <3>1. writeFrame + filled \in Nat
      OBVIOUS
    <3> QED
      BY <3>1, Division
  <2>2. samples' \in [Slots -> Nat \cup {Silence}]
    BY <1>2, <2>1 DEF WriteSample
  <2>3. filled' \in 0 .. block
    BY <1>2 DEF WriteSample
  <2> QED
    BY <1>2, <2>2, <2>3 DEF WriteSample, driver, call
<1>3. CASE PublishWrite
  BY <1>3 DEF PublishWrite, driver, call
<1>4. CASE HelperStops
  <2>1. block' \in 0 .. MaxCapture /\ filled' \in 0 .. block' /\ helperUp' = FALSE
    BY <1>4 DEF HelperStops
  <2>2. UNCHANGED <<ring, driver, call>>
    BY <1>4 DEF HelperStops
  <2> QED
    BY <2>1, <2>2 DEF ring, driver, call
<1>5. CASE HelperStarts
  <2>1. PICK frames \in Requests : targetLatencyFrames' = Clamp(frames)
    BY <1>5 DEF HelperStarts, SetTargetLatency
  <2>2. targetLatencyFrames' \in MinTarget .. MaxTarget
    BY <2>1, ClampRange
  <2> QED
    BY <1>5, <2>2 DEF HelperStarts, driver, call
<1>6. CASE CtlSetsLatency
  <2>1. PICK frames \in Requests : targetLatencyFrames' = Clamp(frames)
    BY <1>6 DEF CtlSetsLatency, SetTargetLatency
  <2>2. targetLatencyFrames' \in MinTarget .. MaxTarget
    BY <2>1, ClampRange
  <2> QED
    BY <1>6, <2>2 DEF CtlSetsLatency, helper, driver, call
<1>7. ASSUME NEW c \in Clients, HostCall(c) PROVE TypeOK'
  <2>1. CASE StartIO(c)
    BY <2>1 DEF StartIO, ring, helper
  <2>2. CASE StopIO(c)
    BY <2>2 DEF StopIO, ring, helper
  <2>3. CASE \E n \in IOSizes : BeginRead(c, n)
    BY <2>3, SMTT(30) DEF BeginRead, ring, helper, driver
  <2> QED
    BY <1>7, <2>1, <2>2, <2>3 DEF HostCall
<1>8. ASSUME NEW c \in Clients, StartStep(c) PROVE TypeOK'
  <2>1. CASE StartLoadHead(c)
    BY <2>1 DEF StartLoadHead, ring, helper, driver
  <2>2. CASE StartPlaceCursor(c)
    <3>1. Behind(head[c], Clamp(targetLatencyFrames)) \in Nat
      <4>1. head[c] \in Nat /\ targetLatencyFrames \in Nat
        OBVIOUS
      <4> QED
        BY <4>1, BehindRange, ClampRange
    <3> QED
      BY <2>2, <3>1 DEF StartPlaceCursor, ring, helper
  <2> QED
    BY <1>8, <2>1, <2>2 DEF StartStep
<1>9. ASSUME NEW c \in Clients, ReadStep(c) PROVE TypeOK'
  <2>1. CASE LoadHead(c)
    BY <2>1 DEF LoadHead, ring, helper, driver
  <2>2. CASE PlaceReadHead(c)
    <3>1. Behind(head[c], Clamp(targetLatencyFrames)) \in Nat
      <4>1. head[c] \in Nat /\ targetLatencyFrames \in Nat
        OBVIOUS
      <4> QED
        BY <4>1, BehindRange, ClampRange
    <3>2. /\ counters' = counters
          /\ \/ readFrame' = readFrame
             \/ readFrame' = [readFrame EXCEPT ![c] =
                               Behind(head[c], Clamp(targetLatencyFrames))]
      BY <2>2 DEF PlaceReadHead, Count, DriverMapsWritable
    <3>3. readFrame' \in [Clients -> Nat]
      BY <3>1, <3>2
    <3> QED
      BY <2>2, <3>2, <3>3 DEF PlaceReadHead, helper, driver
  <2>3. CASE CopyFrame(c)
    <3>1. readFrame[c] % Capacity \in Slots
      BY Division
    <3>2. samples[readFrame[c] % Capacity] \in Nat \cup {Silence}
      BY <3>1
    <3>3. Append(scratch[c], samples[readFrame[c] % Capacity])
            \in Seq(Nat \cup {Silence})
      BY <3>2
    <3> QED
      BY <2>3, <3>3, SMTT(30) DEF CopyFrame, ring, helper, driver
  <2>4. CASE FinishChunk(c)
    <3>1. Chunk(c) \in Nat /\ remaining[c] - Chunk(c) \in Nat
      BY DEF Chunk
    <3>2. PadTo(scratch[c], Chunk(c)) \in Seq(Nat \cup {Silence})
      BY <3>1, PadToSeq
    <3>3. counters' = counters
      BY <2>4 DEF FinishChunk, Count, DriverMapsWritable
    <3> QED
      BY <2>4, <3>1, <3>2, <3>3 DEF FinishChunk, helper, driver
  <2>5. CASE StoreCursor(c)
    BY <2>5 DEF StoreCursor, ring, helper
  <2> QED
    BY <1>9, <2>1, <2>2, <2>3, <2>4, <2>5 DEF ReadStep
<1>10. CASE UNCHANGED vars
  BY <1>10 DEF vars, ring, helper, driver, call
<1> QED
  BY <1>1, <1>2, <1>3, <1>4, <1>5, <1>6, <1>7, <1>8, <1>9, <1>10
  DEF Next, Capture

\* The fields of the header, the driver's globals and the locals of its calls
\* keep their types in every behaviour.
THEOREM TypeCorrect == Spec => []TypeOK
BY InitTypeOK, NextTypeOK, PTL DEF Spec

-----------------------------------------------------------------------------
(* The inductive invariant.  NoTornRead is not inductive: that the sample  *)
(* found in a slot is the wanted one follows from what the writer may have *)
(* put there, so the invariant says what every slot holds (SlotsHold,      *)
(* PublishedIsKept), how far the writer is ahead of a reader (Paced) and   *)
(* how far the reader is behind the head it loaded (BoundedStaleness).     *)

\* A slot holds frames of that slot only, none beyond the block in writing.
SlotsHold ==
  \A s \in Slots :
    \/ samples[s] = Silence
    \/ samples[s] % Capacity = s /\ samples[s] < writeFrame + MaxCapture

\* What has been written is still there, or has been overwritten since.
PublishedIsKept ==
  \A f \in Nat : f < writeFrame + filled => samples[f % Capacity] >= f

\* While a client reads, the writer stays MaxLag frames ahead at most.
Paced ==
  \A c \in Clients : pc[c] \in {"place", "copy"} =>
    /\ writeFrame + block <= head[c] + MaxLag
    /\ \A s \in Slots : samples[s] < head[c] + MaxLag

\* The locals of a device call.
ReadersOrdered ==
  \A c \in Clients :
    /\ head[c] <= writeFrame
    /\ readFrame[c] <= writeFrame
    /\ pc[c] \in {"load", "place", "copy"} => remaining[c] > 0
    /\ pc[c] = "place" => scratch[c] = <<>>
    /\ pc[c] = "copy" => /\ readFrame[c] <= head[c]
                         /\ Len(scratch[c]) <= readFrame[c]

IInv ==
  /\ TypeOK
  /\ SlotsHold
  /\ PublishedIsKept
  /\ Paced
  /\ ReadersOrdered
  /\ gReadFrame <= writeFrame
  /\ BoundedStaleness
  /\ NoTornRead

-----------------------------------------------------------------------------
(* Who disturbs what.                                                      *)

WriterStep ==
  Capture \/ HelperStops \/ HelperStarts \/ CtlSetsLatency

CallStep(c) == HostCall(c) \/ StartStep(c) \/ ReadStep(c)

\* A step is the helper's or ctl's, or that of one client's call, or none.
LEMMA NextCases ==
  ASSUME [Next]_vars
  PROVE  WriterStep \/ (\E c \in Clients : CallStep(c)) \/ UNCHANGED vars
BY DEF Next, WriterStep, CallStep

\* The helper and ctl leave the driver alone.
LEMMA WriterKeepsCalls ==
  ASSUME WriterStep
  PROVE  UNCHANGED <<driver, call>>
BY DEF WriterStep, Capture, BeginWrite, WriteSample, PublishWrite, HelperStops,
       HelperStarts, CtlSetsLatency

\* The driver leaves the frames, the head and the helper alone.
LEMMA CallsKeepRing ==
  ASSUME NEW c \in Clients, CallStep(c)
  PROVE  UNCHANGED <<writeFrame, samples, helperUp, block, filled>>
BY DEF CallStep, HostCall, StartStep, ReadStep, StartIO, StopIO, BeginRead,
       StartLoadHead, StartPlaceCursor, LoadHead, PlaceReadHead, CopyFrame,
       FinishChunk, StoreCursor, ring, helper

\* The call of one client leaves the locals of the others alone.
LEMMA CallsAreLocal ==
  ASSUME TypeOK, NEW c \in Clients, CallStep(c), NEW d \in Clients, d # c
  PROVE  /\ pc'[d] = pc[d]
         /\ remaining'[d] = remaining[d]
         /\ readFrame'[d] = readFrame[d]
         /\ head'[d] = head[d]
         /\ scratch'[d] = scratch[d]
         /\ Chunk(d)' = Chunk(d)
<1>1. /\ pc'[d] = pc[d]
      /\ remaining'[d] = remaining[d]
      /\ readFrame'[d] = readFrame[d]
      /\ head'[d] = head[d]
      /\ scratch'[d] = scratch[d]
  <2>1. CASE HostCall(c)
    BY <2>1 DEF HostCall, StartIO, StopIO, BeginRead, TypeOK
  <2>2. CASE StartStep(c)
    BY <2>2 DEF StartStep, StartLoadHead, StartPlaceCursor, TypeOK
  <2>3. CASE ReadStep(c)
    <3>1. CASE PlaceReadHead(c)
      BY <3>1 DEF PlaceReadHead, TypeOK
    <3>2. CASE FinishChunk(c)
      BY <3>2 DEF FinishChunk, TypeOK
    <3>3. CASE LoadHead(c) \/ CopyFrame(c) \/ StoreCursor(c)
      BY <3>3 DEF LoadHead, CopyFrame, StoreCursor, TypeOK
    <3> QED
      BY <2>3, <3>1, <3>2, <3>3 DEF ReadStep
  <2> QED
    BY <2>1, <2>2, <2>3 DEF CallStep
<1> QED
  BY <1>1 DEF Chunk

-----------------------------------------------------------------------------
(* What the slots hold.                                                    *)

LEMMA SlotsHoldNext ==
  ASSUME TypeOK, SlotsHold, [Next]_vars
  PROVE  SlotsHold'
<1> USE SizesAssumption
<1>0. /\ writeFrame \in Nat /\ filled \in Nat /\ block \in Nat
      /\ MaxCapture \in Nat /\ block <= MaxCapture
      /\ writeFrame + filled \in Nat
      /\ samples \in [Slots -> Nat \cup {Silence}]
  BY DEF TypeOK
<1>1. CASE WriteSample
  <2> DEFINE f == writeFrame + filled
  <2>1. samples' = [samples EXCEPT ![f % Capacity] = f] /\ writeFrame' = writeFrame
    BY <1>1 DEF WriteSample
  <2>2. f < writeFrame + MaxCapture
    BY <1>0, <1>1 DEF WriteSample
  <2> HIDE DEF f
  <2>3. ASSUME NEW s \in Slots
        PROVE  \/ samples'[s] = Silence
               \/ samples'[s] % Capacity = s /\ samples'[s] < writeFrame + MaxCapture
    <3>1. CASE s = f % Capacity
      BY <1>0, <2>1, <2>2, <3>1
    <3>2. CASE s # f % Capacity
      BY <1>0, <2>1, <3>2 DEF SlotsHold
    <3> QED
      BY <3>1, <3>2
  <2> QED
    BY <2>1, <2>3 DEF SlotsHold
<1>2. CASE PublishWrite
  <2>1. samples' = samples /\ writeFrame' = writeFrame + block
    BY <1>2 DEF PublishWrite
  <2>2. ASSUME NEW s \in Slots, samples[s] < writeFrame + MaxCapture,
               samples[s] \in Nat \cup {Silence}
        PROVE  samples[s] < writeFrame' + MaxCapture
    BY <1>0, <2>1, <2>2 DEF Silence
  <2> QED
    BY <1>0, <2>1, <2>2 DEF SlotsHold
<1>3. ASSUME UNCHANGED <<writeFrame, samples>> PROVE SlotsHold'
  BY <1>3 DEF SlotsHold
<1>4. CASE WriterStep
  BY <1>1, <1>2, <1>3, <1>4
  DEF WriterStep, Capture, BeginWrite, HelperStops, HelperStarts,
      CtlSetsLatency, ring
<1>5. ASSUME NEW c \in Clients, CallStep(c) PROVE SlotsHold'
  BY <1>3, <1>5, CallsKeepRing
<1>6. CASE UNCHANGED vars
  BY <1>3, <1>6 DEF vars, ring
<1> QED
  BY <1>4, <1>5, <1>6, NextCases

LEMMA PublishedIsKeptNext ==
  ASSUME TypeOK, PublishedIsKept, [Next]_vars
  PROVE  PublishedIsKept'
<1> USE SizesAssumption
<1>0. /\ writeFrame \in Nat /\ filled \in Nat /\ block \in Nat
      /\ filled <= block /\ writeFrame + filled \in Nat
      /\ samples \in [Slots -> Nat \cup {Silence}]
  BY DEF TypeOK
<1>1. CASE WriteSample
  <2> DEFINE g == writeFrame + filled
  <2>1. /\ samples' = [samples EXCEPT ![g % Capacity] = g]
        /\ writeFrame' + filled' = g + 1
    BY <1>0, <1>1 DEF WriteSample
  <2>2. ASSUME NEW f \in Nat, f < writeFrame + filled
        PROVE  samples[f % Capacity] >= f
    BY <2>2 DEF PublishedIsKept
  <2>3. g \in Nat
    BY <1>0
  <2> HIDE DEF g
  <2>4. ASSUME NEW f \in Nat, f < g + 1
        PROVE  samples'[f % Capacity] >= f
    <3>1. f % Capacity \in Slots
      BY Division
    <3>2. CASE f % Capacity = g % Capacity
      <4>1. samples'[f % Capacity] = g
        BY <1>0, <2>1, <3>1, <3>2
      <4> QED
        BY <2>3, <2>4, <4>1
    <3>3. CASE f % Capacity # g % Capacity
      <4>1. samples'[f % Capacity] = samples[f % Capacity]
        BY <1>0, <2>1, <3>1, <3>3
      <4>2. f < g
        BY <2>3, <2>4, <3>3
      <4> QED
        BY <2>2, <4>1, <4>2 DEF g
    <3> QED
      BY <3>2, <3>3
  <2> QED
    BY <2>1, <2>4 DEF PublishedIsKept
<1>2. ASSUME samples' = samples, writeFrame' + filled' <= writeFrame + filled,
             (writeFrame' + filled') \in Nat
      PROVE  PublishedIsKept'
  <2>1. ASSUME NEW f \in Nat, f < writeFrame' + filled'
        PROVE  samples'[f % Capacity] >= f
    <3>1. f < writeFrame + filled
      BY <1>0, <1>2, <2>1
    <3> QED
      BY <1>2, <3>1 DEF PublishedIsKept
  <2> QED
    BY <2>1 DEF PublishedIsKept
<1>3. CASE \E n \in CaptureSizes : BeginWrite(n)
  <2>1. filled' = 0 /\ writeFrame' = writeFrame /\ samples' = samples
    BY <1>3 DEF BeginWrite, ring
  <2> QED
    BY <1>0, <1>2, <2>1
<1>4. CASE PublishWrite
  <2>1. filled' = 0 /\ writeFrame' = writeFrame + filled /\ samples' = samples
    BY <1>4 DEF PublishWrite
  <2> QED
    BY <1>0, <1>2, <2>1
<1>5. CASE HelperStops
  <2>1. filled' = 0 /\ writeFrame' = writeFrame /\ samples' = samples
    BY <1>5 DEF HelperStops, ring
  <2> QED
    BY <1>0, <1>2, <2>1
<1>6. ASSUME UNCHANGED <<samples, writeFrame, filled>> PROVE PublishedIsKept'
  BY <1>6 DEF PublishedIsKept
<1>7. CASE WriterStep
  BY <1>1, <1>3, <1>4, <1>5, <1>6, <1>7
  DEF WriterStep, Capture, HelperStarts, CtlSetsLatency, helper
<1>8. ASSUME NEW c \in Clients, CallStep(c) PROVE PublishedIsKept'
  BY <1>6, <1>8, CallsKeepRing
<1>9. CASE UNCHANGED vars
  BY <1>6, <1>9 DEF vars, ring, helper
<1> QED
  BY <1>7, <1>8, <1>9, NextCases

-----------------------------------------------------------------------------
(* The writer's distance from a reader.                                    *)

LEMMA PacedNext ==
  ASSUME TypeOK, SlotsHold, Paced, ReadersOrdered, [Next]_vars
  PROVE  Paced'
<1> USE SizesAssumption, PaceAssumption
<1> SUFFICES ASSUME NEW d \in Clients, pc'[d] \in {"place", "copy"}
             PROVE  /\ writeFrame' + block' <= head'[d] + MaxLag
                    /\ \A s \in Slots : samples'[s] < head'[d] + MaxLag
  BY DEF Paced
<1>0. /\ writeFrame \in Nat /\ filled \in Nat /\ block \in Nat
      /\ block <= MaxCapture /\ filled <= block
      /\ head \in [Clients -> Nat] /\ head[d] \in Nat
      /\ pc \in [Clients -> {"stopped", "start", "startStore", "idle",
                             "load", "place", "copy", "store"}]
      /\ samples \in [Slots -> Nat \cup {Silence}]
      /\ MaxCapture \in Nat /\ MaxLag \in Nat /\ MaxCapture <= MaxLag
      /\ Silence \in Int
  BY DEF TypeOK, Silence
<1>1. ASSUME pc[d] \in {"place", "copy"}, head'[d] = head[d], samples' = samples,
             writeFrame' + block' <= head[d] + MaxLag
      PROVE  /\ writeFrame' + block' <= head'[d] + MaxLag
             /\ \A s \in Slots : samples'[s] < head'[d] + MaxLag
  BY <1>1 DEF Paced
<1>2. CASE WriterStep
  <2>1. pc'[d] = pc[d] /\ head'[d] = head[d] /\ pc[d] \in {"place", "copy"}
    BY <1>2, WriterKeepsCalls DEF call
  <2>2. writeFrame + block <= head[d] + MaxLag
    BY <2>1 DEF Paced
  <2>3. CASE \E n \in CaptureSizes : BeginWrite(n)
    <3>1. PICK n \in CaptureSizes : BeginWrite(n)
      BY <2>3
    <3>2. /\ writeFrame + n - head[d] <= MaxLag /\ n \in Nat
          /\ block' = n /\ writeFrame' = writeFrame /\ samples' = samples
      BY <2>1, <3>1 DEF BeginWrite, KeepsPace, ring
    <3> QED
      BY <1>0, <1>1, <2>1, <3>2
  <2>4. CASE WriteSample
    <3>1. /\ samples' = [samples EXCEPT ![(writeFrame + filled) % Capacity] =
                                        writeFrame + filled]
          /\ filled < block /\ UNCHANGED <<writeFrame, block>>
      BY <2>4 DEF WriteSample
    <3>2. writeFrame + filled < head[d] + MaxLag
      BY <1>0, <2>2, <3>1
    <3>3. ASSUME NEW s \in Slots
          PROVE  samples'[s] < head[d] + MaxLag
      <4>1. samples[s] < head[d] + MaxLag
        BY <2>1 DEF Paced
      <4>2. samples'[s] = samples[s] \/ samples'[s] = writeFrame + filled
        BY <1>0, <3>1
      <4> QED
        BY <3>2, <4>1, <4>2
    <3> QED
      BY <2>1, <2>2, <3>1, <3>3
  <2>5. CASE PublishWrite
    <3>1. /\ writeFrame' = writeFrame + block /\ block' = 0
          /\ samples' = samples
      BY <2>5 DEF PublishWrite
    <3> QED
      BY <1>0, <1>1, <2>1, <2>2, <3>1
  <2>6. CASE HelperStops
    <3>1. writeFrame' = writeFrame /\ block' = 0 /\ samples' = samples
      BY <2>6 DEF HelperStops, ring
    <3> QED
      BY <1>0, <1>1, <2>1, <2>2, <3>1
  <2>7. CASE HelperStarts \/ CtlSetsLatency
    <3>1. writeFrame' = writeFrame /\ block' = block /\ samples' = samples
      BY <2>7 DEF HelperStarts, CtlSetsLatency, helper
    <3> QED
      BY <1>1, <2>1, <2>2, <3>1
  <2> QED
    BY <1>2, <2>3, <2>4, <2>5, <2>6, <2>7 DEF WriterStep, Capture
<1>3. ASSUME NEW c \in Clients, CallStep(c)
      PROVE  /\ writeFrame' + block' <= head'[d] + MaxLag
             /\ \A s \in Slots : samples'[s] < head'[d] + MaxLag
  <2>0. writeFrame' = writeFrame /\ block' = block /\ samples' = samples
    BY <1>3, CallsKeepRing
  <2>1. ASSUME pc[d] \in {"place", "copy"}, head'[d] = head[d]
        PROVE  /\ writeFrame' + block' <= head'[d] + MaxLag
               /\ \A s \in Slots : samples'[s] < head'[d] + MaxLag
    BY <1>1, <2>0, <2>1 DEF Paced
  <2>2. CASE c # d
    BY <1>3, <2>1, <2>2, CallsAreLocal
  <2>3. CASE c = d /\ LoadHead(d)
    <3>1. head'[d] = writeFrame
      BY <1>0, <2>3 DEF LoadHead
    <3>2. ASSUME NEW s \in Slots
          PROVE  samples[s] < writeFrame + MaxLag
      BY <1>0 DEF SlotsHold, Silence
    <3> QED
      BY <1>0, <2>0, <3>1, <3>2
  <2>4. CASE c = d /\ PlaceReadHead(d)
    BY <1>0, <2>1, <2>4 DEF PlaceReadHead
  <2>5. CASE c = d /\ CopyFrame(d)
    BY <1>0, <2>1, <2>5 DEF CopyFrame
  <2>6. CASE c = d /\ (FinishChunk(d) \/ StoreCursor(d))
    BY <1>0, <2>6 DEF FinishChunk, StoreCursor
  <2>7. CASE c = d /\ (HostCall(d) \/ StartStep(d))
    BY <1>0, <2>7
    DEF HostCall, StartStep, StartIO, StopIO, BeginRead, StartLoadHead,
        StartPlaceCursor
  <2> QED
    BY <1>3, <2>2, <2>3, <2>4, <2>5, <2>6, <2>7 DEF CallStep, ReadStep
<1>4. CASE UNCHANGED vars
  BY <1>1, <1>4 DEF vars, ring, helper, call, Paced
<1> QED
  BY <1>2, <1>3, <1>4, NextCases

-----------------------------------------------------------------------------
(* The locals of a device call.                                            *)

OrderedFor(d) ==
  /\ head[d] <= writeFrame
  /\ readFrame[d] <= writeFrame
  /\ pc[d] \in {"load", "place", "copy"} => remaining[d] > 0
  /\ pc[d] = "place" => scratch[d] = <<>>
  /\ pc[d] = "copy" => /\ readFrame[d] <= head[d]
                       /\ Len(scratch[d]) <= readFrame[d]

LEMMA ReadersOrderedNext ==
  ASSUME TypeOK, ReadersOrdered, gReadFrame <= writeFrame, [Next]_vars
  PROVE  ReadersOrdered' /\ gReadFrame' <= writeFrame'
<1> USE SizesAssumption
<1>0. /\ writeFrame \in Nat /\ block \in Nat /\ gReadFrame \in Nat
      /\ targetLatencyFrames \in Nat /\ MaxChunk \in Nat \ {0}
      /\ head \in [Clients -> Nat] /\ readFrame \in [Clients -> Nat]
      /\ remaining \in [Clients -> Nat]
      /\ scratch \in [Clients -> Seq(Nat \cup {Silence})]
      /\ pc \in [Clients -> {"stopped", "start", "startStore", "idle",
                             "load", "place", "copy", "store"}]
  BY DEF TypeOK
<1>1. ASSUME NEW d \in Clients
      PROVE  OrderedFor(d)
  BY DEF ReadersOrdered, OrderedFor
<1>2. writeFrame' \in Nat /\ writeFrame <= writeFrame'
  <2>1. CASE WriterStep
    BY <1>0, <2>1
    DEF WriterStep, Capture, BeginWrite, WriteSample, PublishWrite,
        HelperStops, HelperStarts, CtlSetsLatency, ring
  <2>2. ASSUME NEW c \in Clients, CallStep(c)
        PROVE  writeFrame' \in Nat /\ writeFrame <= writeFrame'
    BY <1>0, <2>2, CallsKeepRing
  <2>3. CASE UNCHANGED vars
    BY <1>0, <2>3 DEF vars, ring
  <2> QED
    BY <2>1, <2>2, <2>3, NextCases
<1>3. ASSUME NEW d \in Clients,
             pc'[d] = pc[d], head'[d] = head[d], readFrame'[d] = readFrame[d],
             remaining'[d] = remaining[d], scratch'[d] = scratch[d]
      PROVE  OrderedFor(d)'
  <2>1. head[d] \in Nat /\ readFrame[d] \in Nat
    BY <1>0
  <2> QED
    BY <1>0, <1>1, <1>2, <1>3, <2>1 DEF OrderedFor
<1>4. ASSUME NEW d \in Clients, CallStep(d)
      PROVE  OrderedFor(d)' /\ gReadFrame' <= writeFrame'
  <2>0. writeFrame' = writeFrame /\ OrderedFor(d)
    BY <1>1, <1>4, CallsKeepRing
  <2>1. CASE StartIO(d) \/ StopIO(d)
    BY <1>0, <2>0, <2>1 DEF StartIO, StopIO, OrderedFor
  <2>2. CASE \E n \in IOSizes : BeginRead(d, n)
    BY <1>0, <2>0, <2>2 DEF BeginRead, OrderedFor, driver
  <2>3. CASE StartLoadHead(d)
    BY <1>0, <2>0, <2>3 DEF StartLoadHead, OrderedFor, driver
  <2>4. CASE StartPlaceCursor(d)
    <3>1. Clamp(targetLatencyFrames) \in Nat
      BY <1>0, ClampRange
    <3>2. gReadFrame' \in Nat /\ gReadFrame' <= head[d] /\ head[d] \in Nat
      BY <1>0, <2>4, <3>1, BehindRange DEF StartPlaceCursor
    <3> QED
      BY <1>0, <2>0, <2>4, <3>2 DEF StartPlaceCursor, OrderedFor
  <2>5. CASE LoadHead(d)
    BY <1>0, <2>0, <2>5 DEF LoadHead, OrderedFor, driver
  <2>6. CASE PlaceReadHead(d)
    <3>1. Clamp(targetLatencyFrames) \in Nat
      BY <1>0, ClampRange
    <3> DEFINE b == Behind(head[d], Clamp(targetLatencyFrames))
    <3>2. b \in Nat /\ b <= head[d]
      BY <1>0, <3>1, BehindRange
    <3> HIDE DEF b
    <3>3. /\ \/ readFrame'[d] = b
             \/ /\ readFrame'[d] = readFrame[d]
                /\ readFrame[d] <= head[d]
          /\ pc'[d] = "copy" /\ pc[d] = "place"
          /\ UNCHANGED <<gReadFrame, head, remaining, scratch>>
      BY <1>0, <2>6
      DEF PlaceReadHead, NeedsResync, InvalidReadHead, driver, b
    <3>4. Len(scratch'[d]) = 0
      BY <2>0, <3>3 DEF OrderedFor
    <3>5. readFrame'[d] \in Nat /\ readFrame'[d] <= head[d]
      BY <1>0, <3>2, <3>3
    <3> QED
      BY <1>0, <2>0, <3>3, <3>4, <3>5 DEF OrderedFor
  <2>7. CASE CopyFrame(d)
    <3>1. /\ readFrame'[d] = readFrame[d] + 1 /\ readFrame[d] < head[d]
          /\ pc[d] = "copy" /\ pc'[d] = "copy"
          /\ UNCHANGED <<gReadFrame, head, remaining>>
      BY <1>0, <2>7 DEF CopyFrame, driver
    <3>2. Len(scratch'[d]) = Len(scratch[d]) + 1
      BY <1>0, <2>7 DEF CopyFrame
    <3>3. Len(scratch[d]) \in Nat /\ readFrame[d] \in Nat /\ head[d] \in Nat
      BY <1>0
    <3> QED
      BY <1>0, <2>0, <3>1, <3>2, <3>3 DEF OrderedFor
  <2>8. CASE FinishChunk(d)
    <3>1. /\ head'[d] = 0 /\ pc'[d] \in {"load", "store"}
          /\ pc'[d] = "load" => remaining'[d] > 0
          /\ UNCHANGED <<readFrame, gReadFrame>>
      BY <1>0, <2>8 DEF FinishChunk, Chunk, driver
    <3> QED
      BY <1>0, <2>0, <3>1 DEF OrderedFor
  <2>9. CASE StoreCursor(d)
    BY <1>0, <2>0, <2>9 DEF StoreCursor, OrderedFor
  <2> QED
    BY <1>4, <2>1, <2>2, <2>3, <2>4, <2>5, <2>6, <2>7, <2>8, <2>9
    DEF CallStep, HostCall, StartStep, ReadStep
<1>5. CASE WriterStep
  BY <1>0, <1>2, <1>3, <1>5, WriterKeepsCalls
  DEF ReadersOrdered, OrderedFor, driver, call
<1>6. ASSUME NEW c \in Clients, CallStep(c)
      PROVE  ReadersOrdered' /\ gReadFrame' <= writeFrame'
  <2>1. ASSUME NEW d \in Clients PROVE OrderedFor(d)'
    <3>1. CASE d = c
      BY <1>4, <1>6, <3>1
    <3>2. CASE d # c
      BY <1>3, <1>6, <3>2, CallsAreLocal
    <3> QED
      BY <3>1, <3>2
  <2> QED
    BY <1>4, <1>6, <2>1 DEF ReadersOrdered, OrderedFor
<1>7. CASE UNCHANGED vars
  BY <1>0, <1>2, <1>3, <1>7 DEF vars, ring, driver, call, ReadersOrdered, OrderedFor
<1> QED
  BY <1>5, <1>6, <1>7, NextCases

-----------------------------------------------------------------------------
(* What is in the scratch buffer.                                          *)

StaleFor(d) == head[d] - (readFrame[d] - Len(scratch[d])) <= MaxTarget + Chunk(d)

LEMMA BoundedStalenessNext ==
  ASSUME TypeOK, ReadersOrdered, BoundedStaleness, [Next]_vars
  PROVE  BoundedStaleness'
<1> USE SizesAssumption
<1> SUFFICES ASSUME NEW d \in Clients, pc'[d] = "copy"
             PROVE  StaleFor(d)'
  BY DEF BoundedStaleness, StaleFor
<1>0. /\ targetLatencyFrames \in MinTarget .. MaxTarget
      /\ targetLatencyFrames \in Nat /\ MaxTarget \in Nat
      /\ head[d] \in Nat /\ readFrame[d] \in Nat
      /\ remaining[d] \in Nat /\ MaxChunk \in Nat /\ Chunk(d) \in Nat
      /\ scratch[d] \in Seq(Nat \cup {Silence}) /\ Len(scratch[d]) \in Nat
  BY DEF TypeOK, Chunk
<1>1. ASSUME pc'[d] = pc[d], head'[d] = head[d], readFrame'[d] = readFrame[d],
             Chunk(d)' = Chunk(d), scratch'[d] = scratch[d]
      PROVE  StaleFor(d)'
  BY <1>1 DEF BoundedStaleness, StaleFor
<1>2. CASE WriterStep
  BY <1>1, <1>2, WriterKeepsCalls DEF call, Chunk
<1>3. ASSUME NEW c \in Clients, CallStep(c) PROVE StaleFor(d)'
  <2>1. CASE c # d
    BY <1>1, <1>3, <2>1, CallsAreLocal
  <2>2. CASE c = d /\ PlaceReadHead(d)
    <3> DEFINE t == Clamp(targetLatencyFrames)
               b == Behind(head[d], t)
    <3>0. /\ targetLatencyFrames \in Nat
          /\ MinTarget \in Nat /\ MaxTarget \in Nat
      BY <1>0, SizesAssumption
    <3>1. t \in Nat /\ t <= MaxTarget
      BY <3>0, ClampRange
    <3>2. b \in Nat /\ head[d] - b <= t
      BY <1>0, <3>1, BehindRange
    <3>3. /\ IF NeedsResync(readFrame[d], head[d], t, Chunk(d))
             THEN readFrame'[d] = b ELSE readFrame'[d] = readFrame[d]
          /\ scratch'[d] = <<>> /\ head' = head /\ remaining' = remaining
      BY <2>2 DEF PlaceReadHead, TypeOK, ReadersOrdered
    <3>4. Chunk(d)' = Chunk(d)
      BY <3>3 DEF Chunk
    <3> HIDE DEF t, b
    <3>5. CASE NeedsResync(readFrame[d], head[d], t, Chunk(d))
      <4>1. head[d] - readFrame'[d] <= MaxTarget /\ readFrame'[d] \in Nat
        BY <1>0, <3>1, <3>2, <3>3, <3>5
      <4> QED
        BY <1>0, <3>3, <3>4, <4>1 DEF StaleFor
    <3>6. CASE ~NeedsResync(readFrame[d], head[d], t, Chunk(d))
      <4>1. head[d] - readFrame[d] <= t + Chunk(d)
        BY <1>0, <3>1, <3>6, SMTT(30) DEF NeedsResync, DriftedHigh
      <4> QED
        BY <1>0, <3>1, <3>3, <3>4, <3>6, <4>1, SMTT(30) DEF StaleFor
    <3> QED
      BY <3>5, <3>6
  <2>3. CASE c = d /\ CopyFrame(d)
    <3>1. /\ readFrame'[d] = readFrame[d] + 1
          /\ Len(scratch'[d]) = Len(scratch[d]) + 1
          /\ head' = head /\ remaining' = remaining /\ pc[d] = "copy"
      BY <2>3 DEF CopyFrame, TypeOK
    <3>2. Chunk(d)' = Chunk(d)
      BY <3>1 DEF Chunk
    <3>3. StaleFor(d)
      BY <3>1 DEF BoundedStaleness, StaleFor
    <3>4. readFrame'[d] - Len(scratch'[d]) = readFrame[d] - Len(scratch[d])
      <4>1. readFrame[d] \in Nat /\ Len(scratch[d]) \in Nat
        BY <1>0
      <4>2. (readFrame[d] + 1) - (Len(scratch[d]) + 1)
              = readFrame[d] - Len(scratch[d])
        BY <4>1
      <4> QED
        BY <3>1, <4>2
    <3>5. head'[d] = head[d]
      BY <3>1
    <3> QED
      BY <3>2, <3>3, <3>4, <3>5 DEF StaleFor
  <2>4. CASE c = d /\ (LoadHead(d) \/ FinishChunk(d) \/ StoreCursor(d))
    BY <2>4 DEF LoadHead, FinishChunk, StoreCursor, TypeOK
  <2>5. CASE c = d /\ (HostCall(d) \/ StartStep(d))
    BY <2>5
    DEF HostCall, StartStep, StartIO, StopIO, BeginRead, StartLoadHead,
        StartPlaceCursor, TypeOK
  <2> QED
    BY <1>3, <2>1, <2>2, <2>3, <2>4, <2>5 DEF CallStep, ReadStep
<1>4. CASE UNCHANGED vars
  BY <1>1, <1>4 DEF vars, call, Chunk
<1> QED
  BY <1>2, <1>3, <1>4, NextCases

\* The sample in the slot of a frame that a reader still wants is that frame's.
LEMMA SlotOfWantedFrame ==
  ASSUME TypeOK, SlotsHold, PublishedIsKept, Paced, ReadersOrdered,
         BoundedStaleness,
         NEW d \in Clients, pc[d] = "copy", readFrame[d] < head[d]
  PROVE  samples[readFrame[d] % Capacity] = readFrame[d]
<1> USE SizesAssumption, PaceAssumption
<1> DEFINE f == readFrame[d]
           v == samples[f % Capacity]
<1>0. /\ f \in Nat /\ head[d] \in Nat /\ writeFrame \in Nat /\ filled \in Nat
      /\ Len(scratch[d]) \in Nat /\ Chunk(d) \in Nat /\ Chunk(d) <= MaxChunk
      /\ f % Capacity \in Slots
      /\ v \in Nat \cup {Silence}
  <2>1. /\ f \in Nat /\ head[d] \in Nat /\ writeFrame \in Nat /\ filled \in Nat
        /\ Len(scratch[d]) \in Nat /\ remaining[d] \in Nat
    BY DEF TypeOK
  <2>2. f % Capacity \in Slots
    BY <2>1, Division
  <2>3. v \in Nat \cup {Silence}
    BY <2>2 DEF TypeOK
  <2>4. Chunk(d) \in Nat /\ Chunk(d) <= MaxChunk
    BY <2>1 DEF Chunk
  <2> QED
    BY <2>1, <2>2, <2>3, <2>4
<1>1. head[d] <= writeFrame
  BY DEF ReadersOrdered
<1>2. v >= f
  BY <1>0, <1>1 DEF PublishedIsKept
<1>3. v \in Nat /\ v # Silence
  BY <1>0, <1>2 DEF Silence
<1>4. v % Capacity = f % Capacity
  BY <1>0, <1>3 DEF SlotsHold
<1>5. v < head[d] + MaxLag
  BY <1>0 DEF Paced
<1>6. head[d] - (f - Len(scratch[d])) <= MaxTarget + Chunk(d)
  BY DEF BoundedStaleness
<1>7. v < f + Capacity
  <2> HIDE DEF f, v
  <2>1. /\ MaxTarget \in Nat /\ MaxChunk \in Nat /\ MaxLag \in Nat
        /\ Capacity \in Nat /\ MaxTarget + MaxChunk + MaxLag <= Capacity
    BY SizesAssumption, PaceAssumption
  <2>2. head[d] - f <= MaxTarget + MaxChunk
    <3>1. /\ f \in Nat /\ head[d] \in Nat /\ Len(scratch[d]) \in Nat
          /\ Chunk(d) \in Nat /\ Chunk(d) <= MaxChunk
      BY <1>0
    <3>2. head[d] - f <= head[d] - (f - Len(scratch[d]))
      BY <3>1
    <3> QED  BY <1>6, <2>1, <3>1, <3>2
  <2> QED
    BY <1>0, <1>3, <1>5, <2>1, <2>2
<1> QED
  BY <1>0, <1>2, <1>3, <1>4, <1>7, SlotsAreDistinct

LEMMA NoTornReadNext ==
  ASSUME IInv, [Next]_vars
  PROVE  NoTornRead'
<1> SUFFICES ASSUME NEW d \in Clients, pc'[d] = "copy",
                    NEW i \in 1 .. Len(scratch'[d])
             PROVE  scratch'[d][i] = readFrame'[d] - Len(scratch'[d]) + i - 1
  BY DEF NoTornRead
<1>0. /\ readFrame[d] \in Nat /\ Len(scratch[d]) \in Nat
      /\ scratch[d] \in Seq(Nat \cup {Silence})
  BY DEF IInv, TypeOK
<1>1. ASSUME pc'[d] = pc[d], readFrame'[d] = readFrame[d],
             scratch'[d] = scratch[d]
      PROVE  scratch'[d][i] = readFrame'[d] - Len(scratch'[d]) + i - 1
  BY <1>1 DEF IInv, NoTornRead
<1>2. CASE WriterStep
  BY <1>1, <1>2, WriterKeepsCalls DEF call
<1>3. ASSUME NEW c \in Clients, CallStep(c)
      PROVE  scratch'[d][i] = readFrame'[d] - Len(scratch'[d]) + i - 1
  <2>1. CASE c # d
    BY <1>1, <1>3, <2>1, CallsAreLocal DEF IInv
  <2>2. CASE c = d /\ PlaceReadHead(d)
    <3>1. scratch'[d] = <<>>
      BY <2>2 DEF PlaceReadHead, IInv, TypeOK, ReadersOrdered
    <3> QED
      BY <3>1
  <2>3. CASE c = d /\ CopyFrame(d)
    <3> DEFINE n == Len(scratch[d])
               v == samples[readFrame[d] % Capacity]
    <3>1. /\ readFrame'[d] = readFrame[d] + 1 /\ readFrame[d] < head[d]
          /\ scratch'[d] = Append(scratch[d], v)
          /\ pc[d] = "copy"
      BY <2>3 DEF CopyFrame, IInv, TypeOK
    <3>2. v = readFrame[d]
      BY <3>1, SlotOfWantedFrame DEF IInv
    <3>3. Len(scratch'[d]) = n + 1
      BY <1>0, <3>1
    <3>4. CASE i = n + 1
      <4>1. scratch'[d][i] = v
        BY <1>0, <3>1, <3>4
      <4>2. readFrame[d] = (readFrame[d] + 1) - (n + 1) + (n + 1) - 1
        <5>1. readFrame[d] \in Nat /\ n \in Nat
          BY <1>0
        <5> HIDE DEF n
        <5> QED
          BY <5>1
      <4> QED
        BY <3>1, <3>2, <3>3, <3>4, <4>1, <4>2
    <3>5. CASE i \in 1 .. n
      <4>1. scratch'[d][i] = scratch[d][i]
        BY <1>0, <3>1, <3>5
      <4>2. scratch[d][i] = readFrame[d] - n + i - 1
        BY <3>1, <3>5 DEF IInv, NoTornRead
      <4>3. readFrame[d] - n + i - 1 = (readFrame[d] + 1) - (n + 1) + i - 1
        <5>1. readFrame[d] \in Nat /\ n \in Nat /\ i \in Int
          BY <1>0, <3>5
        <5> HIDE DEF n
        <5> QED
          BY <5>1
      <4> QED
        BY <3>1, <3>3, <4>1, <4>2, <4>3
    <3>6. n \in Nat
      BY <1>0
    <3> QED
      BY <3>3, <3>4, <3>5, <3>6
  <2>4. CASE c = d /\ (LoadHead(d) \/ FinishChunk(d) \/ StoreCursor(d))
    BY <2>4 DEF LoadHead, FinishChunk, StoreCursor, IInv, TypeOK
  <2>5. CASE c = d /\ (HostCall(d) \/ StartStep(d))
    BY <2>5
    DEF HostCall, StartStep, StartIO, StopIO, BeginRead, StartLoadHead,
        StartPlaceCursor, IInv, TypeOK
  <2> QED
    BY <1>3, <2>1, <2>2, <2>3, <2>4, <2>5 DEF CallStep, ReadStep
<1>4. CASE UNCHANGED vars
  BY <1>1, <1>4 DEF vars, call
<1> QED
  BY <1>2, <1>3, <1>4, NextCases DEF IInv

-----------------------------------------------------------------------------
(* The theorems.                                                           *)

LEMMA InitIInv == Init => IInv
<1> SUFFICES ASSUME Init PROVE IInv
  OBVIOUS
<1> USE SizesAssumption DEF Init
<1>1. SlotsHold
  BY DEF SlotsHold
<1>2. PublishedIsKept
  BY DEF PublishedIsKept
<1>3. Paced /\ BoundedStaleness /\ NoTornRead
  BY DEF Paced, BoundedStaleness, NoTornRead
<1>4. ReadersOrdered /\ gReadFrame <= writeFrame
  BY DEF ReadersOrdered
<1> QED
  BY <1>1, <1>2, <1>3, <1>4, InitTypeOK DEF IInv

LEMMA NextIInv == IInv /\ [Next]_vars => IInv'
BY NextTypeOK, SlotsHoldNext, PublishedIsKeptNext, PacedNext,
   ReadersOrderedNext, BoundedStalenessNext, NoTornReadNext DEF IInv

LEMMA Invariance == Spec => []IInv
BY InitIInv, NextIInv, PTL DEF Spec

\* No chunk that the driver hands to a client contains a sample that the
\* helper had overwritten, for every ring that is as large as the reader's
\* window and what is captured during one chunk.
THEOREM ReadsAreNotTorn == Spec => []NoTornRead
BY Invariance, PTL DEF IInv

\* Whatever the clients, the helper and ctl do, a chunk never starts further
\* behind the head than the largest latency and the chunk itself.
THEOREM StalenessIsBounded == Spec => []BoundedStaleness
BY Invariance, PTL DEF IInv

\* No interleaving of the clients' unsynchronised loads and stores of the
\* cursor moves it past what the helper has published.
THEOREM CursorStaysBehind == Spec => []CursorBehindHead
<1>1. IInv => CursorBehindHead
  BY DEF IInv, CursorBehindHead, ReadersOrdered
<1> QED
  BY <1>1, Invariance, PTL

\* The plain store of a sample never meets the plain loads of a copy: the
\* slot in writing is not one of those that a reader has still to read.
THEOREM SlotsDoNotRace == Spec => []NoSlotRace
<1>1. ASSUME IInv PROVE NoSlotRace
  <2> USE SizesAssumption, PaceAssumption
  <2>0. SUFFICES ASSUME NEW c \in Clients, pc[c] = "copy",
                         readFrame[c] < head[c], filled < block,
                         NEW f, f \in readFrame[c] .. (head[c] - 1),
                         f % Capacity = (writeFrame + filled) % Capacity
                  PROVE  FALSE
    BY <1>1 DEF NoSlotRace
  <2> DEFINE g == writeFrame + filled
  <2>1. /\ readFrame[c] \in Nat /\ head[c] \in Nat /\ writeFrame \in Nat
        /\ filled \in Nat /\ block \in Nat /\ Len(scratch[c]) \in Nat
        /\ remaining[c] \in Nat /\ f \in Nat /\ g \in Nat
        /\ readFrame[c] <= f /\ f < head[c] /\ filled < block
        /\ Chunk(c) \in Nat /\ Chunk(c) <= MaxChunk
    <3>1. /\ readFrame[c] \in Nat /\ head[c] \in Nat /\ writeFrame \in Nat
          /\ filled \in Nat /\ block \in Nat /\ Len(scratch[c]) \in Nat
          /\ remaining[c] \in Nat
      BY <1>1 DEF IInv, TypeOK
    <3>2. Chunk(c) \in Nat /\ Chunk(c) <= MaxChunk
      BY <3>1 DEF Chunk
    <3>3. f \in Int /\ readFrame[c] <= f /\ f < head[c]
      BY <2>0, <3>1
    <3>4. f \in Nat /\ g \in Nat
      BY <3>1, <3>3
    <3> QED
      BY <2>0, <3>1, <3>2, <3>3, <3>4
  <2>2. head[c] <= writeFrame
    BY <1>1, <2>0 DEF IInv, ReadersOrdered
  <2>3. writeFrame + block <= head[c] + MaxLag
    BY <1>1, <2>0 DEF IInv, Paced
  <2>4. head[c] - (readFrame[c] - Len(scratch[c])) <= MaxTarget + Chunk(c)
    BY <1>1, <2>0 DEF IInv, BoundedStaleness
  <2>5. /\ MaxTarget \in Nat /\ MaxChunk \in Nat /\ MaxLag \in Nat
        /\ Capacity \in Nat /\ MaxTarget + MaxChunk + MaxLag <= Capacity
    BY SizesAssumption, PaceAssumption
  <2>6. head[c] - f <= MaxTarget + MaxChunk
    BY <2>1, <2>4, <2>5, SMTT(30)
  <2>7. f < g /\ g < f + Capacity
    BY <2>1, <2>2, <2>3, <2>5, <2>6
  <2>8. f % Capacity = g % Capacity
    BY <2>0
  <2>9. f \in Nat /\ g \in Nat /\ f <= g
    BY <2>1, <2>7
  <2> HIDE DEF g
  <2>10. f = g
    BY <2>7, <2>8, <2>9, SlotsAreDistinct
  <2> QED
    BY <2>7, <2>9, <2>10
<1> QED
  BY <1>1, Invariance, PTL

-----------------------------------------------------------------------------
(* A call's steps are bounded: a chunk never copies more than it asked for, *)
(* and each of its steps takes one off what is left.                        *)

\* What the bound of a call's steps needs to know of its locals.
StepsInv ==
  \A c \in Clients : pc[c] = "copy" => Len(scratch[c]) <= Chunk(c)

LEMMA ChunkRange ==
  ASSUME TypeOK, NEW c \in Clients
  PROVE  /\ Chunk(c) \in 0 .. remaining[c] /\ Chunk(c) <= MaxChunk
         /\ remaining[c] > 0 => Chunk(c) > 0
         /\ remaining[c] > MaxChunk => Chunk(c) < remaining[c]
         /\ remaining[c] <= MaxChunk => Chunk(c) = remaining[c]
BY SizesAssumption DEF Chunk, TypeOK

LEMMA StepsInvNext == IInv /\ StepsInv /\ [Next]_vars => StepsInv'
<1> SUFFICES ASSUME IInv, StepsInv, [Next]_vars, NEW c \in Clients,
                    pc'[c] = "copy"
             PROVE  Len(scratch'[c]) <= Chunk(c)'
  BY DEF StepsInv
<1>1. TypeOK /\ TypeOK'
  BY NextTypeOK DEF IInv
<1>2. CASE WriterStep \/ UNCHANGED vars
  <2>1. pc'[c] = pc[c] /\ remaining' = remaining /\ scratch' = scratch
    BY <1>2, WriterKeepsCalls DEF vars, call
  <2> QED  BY <2>1 DEF StepsInv, Chunk
<1>3. ASSUME NEW d \in Clients, d # c, CallStep(d)
      PROVE  Len(scratch'[c]) <= Chunk(c)'
  BY <1>1, <1>3, CallsAreLocal DEF StepsInv
<1>4. CASE PlaceReadHead(c)
  <2>1. scratch'[c] = <<>> /\ Chunk(c)' \in Nat
    BY <1>1, <1>4, ChunkRange DEF PlaceReadHead, IInv, ReadersOrdered, Chunk
  <2> QED  BY <2>1
<1>5. CASE CopyFrame(c)
  <2>1. /\ Len(scratch[c]) \in Nat /\ Len(scratch'[c]) = Len(scratch[c]) + 1
        /\ Len(scratch[c]) < Chunk(c) /\ Chunk(c)' = Chunk(c)
    BY <1>1, <1>5 DEF CopyFrame, TypeOK, Chunk
  <2> QED  BY <1>1, <2>1, ChunkRange
<1>6. CASE CallStep(c) /\ ~PlaceReadHead(c) /\ ~CopyFrame(c)
  BY <1>1, <1>6
     DEF CallStep, HostCall, StartStep, ReadStep, StartIO, StopIO, BeginRead,
         StartLoadHead, StartPlaceCursor, LoadHead, FinishChunk, StoreCursor,
         TypeOK
<1> QED  BY <1>2, <1>3, <1>4, <1>5, <1>6, NextCases

LEMMA StepsOf ==
  ASSUME NEW c \in Clients
  PROVE  /\ pc[c] = "start" => StepsLeft(c) = 2
         /\ pc[c] = "startStore" => StepsLeft(c) = 1
         /\ pc[c] = "load" => StepsLeft(c) = 4 * remaining[c] + 1
         /\ pc[c] = "place" => StepsLeft(c) = 4 * remaining[c]
         /\ pc[c] = "copy" =>
              StepsLeft(c) = 4 * remaining[c] - Len(scratch[c]) - 1
         /\ pc[c] = "store" => StepsLeft(c) = 1
         /\ pc[c] \in {"stopped", "idle"} => StepsLeft(c) = 0
BY DEF StepsLeft

LEMMA StepsAfter ==
  ASSUME NEW c \in Clients
  PROVE  /\ pc'[c] = "startStore" => StepsLeft(c)' = 1
         /\ pc'[c] = "load" => StepsLeft(c)' = 4 * remaining'[c] + 1
         /\ pc'[c] = "place" => StepsLeft(c)' = 4 * remaining'[c]
         /\ pc'[c] = "copy" =>
              StepsLeft(c)' = 4 * remaining'[c] - Len(scratch'[c]) - 1
         /\ pc'[c] = "store" => StepsLeft(c)' = 1
         /\ pc'[c] = "idle" => StepsLeft(c)' = 0
BY DEF StepsLeft

\* Each step of a call takes one off, in whatever state the ring is.
LEMMA StepsDecrease ==
  ASSUME IInv, StepsInv, NEW c \in Clients, CallStep(c),
         pc[c] \notin {"stopped", "idle"}
  PROVE  StepsLeft(c)' \in 0 .. StepsLeft(c) - 1
<1>1. /\ pc \in [Clients -> {"stopped", "start", "startStore", "idle",
                            "load", "place", "copy", "store"}]
      /\ remaining \in [Clients -> Nat] /\ remaining[c] \in Nat
      /\ scratch \in [Clients -> Seq(Nat \cup {Silence})]
      /\ Len(scratch[c]) \in Nat
      /\ pc[c] \in {"load", "place", "copy"} => remaining[c] > 0
  BY DEF IInv, TypeOK, ReadersOrdered
<1>2. CASE StartLoadHead(c)
  <2>1. pc[c] = "start" /\ pc'[c] = "startStore"
    BY <1>1, <1>2 DEF StartLoadHead
  <2> QED  BY <2>1, StepsOf, StepsAfter
<1>3. CASE StartPlaceCursor(c)
  <2>1. pc[c] = "startStore" /\ pc'[c] = "idle"
    BY <1>1, <1>3 DEF StartPlaceCursor
  <2> QED  BY <2>1, StepsOf, StepsAfter
<1>4. CASE LoadHead(c)
  <2>1. pc[c] = "load" /\ pc'[c] = "place" /\ remaining'[c] = remaining[c]
    BY <1>1, <1>4 DEF LoadHead
  <2> QED  BY <1>1, <2>1, StepsOf, StepsAfter
<1>5. CASE PlaceReadHead(c)
  <2>1. /\ pc[c] = "place" /\ pc'[c] = "copy" /\ remaining'[c] = remaining[c]
        /\ scratch'[c] = <<>>
    BY <1>1, <1>5 DEF PlaceReadHead, IInv, ReadersOrdered
  <2>2. Len(scratch'[c]) = 0
    BY <2>1
  <2> QED  BY <1>1, <2>1, <2>2, StepsOf, StepsAfter
<1>6. CASE CopyFrame(c)
  <2>1. /\ pc[c] = "copy" /\ pc'[c] = "copy" /\ remaining'[c] = remaining[c]
        /\ Len(scratch'[c]) = Len(scratch[c]) + 1
        /\ Len(scratch[c]) < Chunk(c)
    BY <1>1, <1>6 DEF CopyFrame
  <2>2. Chunk(c) \in 0 .. remaining[c]
    BY ChunkRange DEF IInv
  <2> QED  BY <1>1, <2>1, <2>2, StepsOf, StepsAfter
<1>7. CASE FinishChunk(c)
  <2> DEFINE n == Chunk(c)
  <2>1. /\ n \in 0 .. remaining[c] /\ n > 0
        /\ remaining[c] > MaxChunk => n < remaining[c]
        /\ Len(scratch[c]) <= n
    BY <1>1, <1>7, ChunkRange DEF IInv, StepsInv, FinishChunk
  <2>2. /\ pc[c] = "copy"
        /\ pc'[c] = IF remaining[c] > MaxChunk THEN "load" ELSE "store"
        /\ remaining'[c] = remaining[c] - n
    BY <1>1, <1>7 DEF FinishChunk
  <2> HIDE DEF n
  <2>3. StepsLeft(c) = 4 * remaining[c] - Len(scratch[c]) - 1
    BY <2>2, StepsOf
  <2>4. StepsLeft(c)' \in {4 * (remaining[c] - n) + 1, 1}
    BY <2>2, StepsAfter
  <2> QED  BY <1>1, <2>1, <2>3, <2>4
<1>8. CASE StoreCursor(c)
  <2>1. pc[c] = "store" /\ pc'[c] = "idle"
    BY <1>1, <1>8 DEF StoreCursor
  <2> QED  BY <2>1, StepsOf, StepsAfter
<1>9. ~HostCall(c)
  BY DEF HostCall, StartIO, StopIO, BeginRead
<1> QED
  BY <1>2, <1>3, <1>4, <1>5, <1>6, <1>7, <1>8, <1>9
     DEF CallStep, StartStep, ReadStep

\* A call of the driver ends after a number of its own steps that depends on
\* the request alone, whatever the helper, ctl and other clients do.
THEOREM CallsDoNotWait == Spec => CallsAreWaitFree
<1>1. Init => StepsInv
  BY DEF Init, StepsInv
<1>2. IInv /\ StepsInv => \A c \in Clients : CanGoOn(c)
  BY DEF IInv, StepsInv, ReadersOrdered, CanGoOn
<1>3. IInv /\ StepsInv /\ [Next]_vars =>
        [\A c \in Clients :
           \/ UNCHANGED <<pc[c], remaining[c], readFrame[c], head[c],
                           scratch[c]>>
           \/ pc[c] \in {"stopped", "idle"}
           \/ StepsLeft(c)' \in 0 .. StepsLeft(c) - 1]_vars
  <2> SUFFICES ASSUME IInv, StepsInv, [Next]_vars, NEW c \in Clients,
                      pc[c] \notin {"stopped", "idle"}
               PROVE  \/ UNCHANGED <<pc[c], remaining[c], readFrame[c], head[c],
                                     scratch[c]>>
                      \/ StepsLeft(c)' \in 0 .. StepsLeft(c) - 1
    OBVIOUS
  <2>1. CASE WriterStep \/ UNCHANGED vars
    BY <2>1, WriterKeepsCalls DEF vars, call
  <2>2. CASE CallStep(c)
    BY <2>2, StepsDecrease
  <2>3. ASSUME NEW d \in Clients, d # c, CallStep(d)
        PROVE  UNCHANGED <<pc[c], remaining[c], readFrame[c], head[c],
                           scratch[c]>>
    BY <2>3, CallsAreLocal DEF IInv
  <2> QED  BY <2>1, <2>2, <2>3, NextCases
<1> QED
  BY <1>1, <1>2, <1>3, Invariance, StepsInvNext, PTL DEF Spec, CallsAreWaitFree
=============================================================================
