----------------------- MODULE SharedRingChannelProofs -----------------------
(***************************************************************************)
(* The shared ring with one client implements the channel LatestAudio, for *)
(* every ring, latency, chunk and block that SizesAssumption and           *)
(* PaceAssumption allow: initial states map to initial states, and a step  *)
(* to a step of the channel or to none.                                    *)
(***************************************************************************)
EXTENDS SharedRingChannel, SharedRingHistory, SharedRingProofs

-----------------------------------------------------------------------------
(* What the mapping needs to know of a call, besides IInv.                 *)

Locals ==
  /\ pc[Listener] \in {"stopped", "start", "startStore", "idle"} =>
       scratch[Listener] = <<>>
  /\ pc[Listener] = "place" => readFrame[Listener] <= head[Listener]
  /\ pc[Listener] = "copy" => Len(scratch[Listener]) <= Chunk(Listener)

\* The types that the steps below work with.
LEMMA ListenerTypes ==
  ASSUME TypeOK
  PROVE  /\ Listener \in Clients
         /\ writeFrame \in Nat /\ gReadFrame \in Nat /\ block \in Nat
         /\ readFrame[Listener] \in Nat /\ head[Listener] \in Nat
         /\ remaining[Listener] \in Nat
         /\ scratch[Listener] \in Seq(Nat \cup {Silence})
         /\ Len(scratch[Listener]) \in Nat
         /\ Chunk(Listener) \in Nat /\ Chunk(Listener) <= MaxChunk
<1>1. Listener \in Clients
  BY OneListener
<1>2. remaining[Listener] \in Nat /\ scratch[Listener] \in Seq(Nat \cup {Silence})
  BY <1>1 DEF TypeOK
<1>3. Chunk(Listener) \in Nat /\ Chunk(Listener) <= MaxChunk
  BY <1>2, SizesAssumption DEF Chunk
<1> QED
  BY <1>1, <1>2, <1>3 DEF TypeOK

LEMMA LocalsNext ==
  ASSUME IInv, Locals, [Next]_vars
  PROVE  Locals'
<1> DEFINE l == Listener
<1>0. TypeOK /\ TypeOK' /\ ReadersOrdered
  BY NextTypeOK DEF IInv
<1>1. CASE WriterStep \/ UNCHANGED vars
  <2>1. UNCHANGED call
    BY <1>1, WriterKeepsCalls DEF vars
  <2> QED
    BY <2>1 DEF Locals, call, Chunk
<1>2. ASSUME NEW c \in Clients, CallStep(c) PROVE Locals'
  <2>0. c = l
    BY OneListener
  <2> USE <1>0, ListenerTypes
  <2>1. CASE HostCall(c)
    BY <2>0, <2>1 DEF HostCall, StartIO, StopIO, BeginRead, Locals, TypeOK
  <2>2. CASE StartStep(c)
    BY <2>0, <2>2 DEF StartStep, StartLoadHead, StartPlaceCursor, Locals, TypeOK
  <2>3. CASE LoadHead(c)
    BY <2>0, <2>3 DEF LoadHead, Locals, TypeOK, ReadersOrdered
  <2>4. CASE PlaceReadHead(c)
    <3>1. /\ pc'[l] = "copy" /\ UNCHANGED remaining
          /\ scratch' = scratch /\ scratch[l] = <<>>
      BY <2>0, <2>4 DEF PlaceReadHead, TypeOK, ReadersOrdered
    <3>2. Len(scratch'[l]) = 0 /\ Chunk(l)' = Chunk(l)
      BY <3>1 DEF Chunk
    <3> QED
      BY <3>1, <3>2 DEF Locals
  <2>5. CASE CopyFrame(c)
    <3>1. /\ pc'[l] = "copy" /\ UNCHANGED remaining
          /\ Len(scratch'[l]) = Len(scratch[l]) + 1
          /\ Len(scratch[l]) < Chunk(l)
      BY <2>0, <2>5 DEF CopyFrame, TypeOK
    <3> QED
      BY <3>1 DEF Locals, Chunk
  <2>6. CASE FinishChunk(c)
    <3>1. pc'[l] \in {"load", "store"}
      BY <2>0, <2>6 DEF FinishChunk, TypeOK
    <3> QED
      BY <3>1 DEF Locals
  <2>7. CASE StoreCursor(c)
    BY <2>0, <2>7 DEF StoreCursor, Locals, TypeOK
  <2> QED
    BY <1>2, <2>1, <2>2, <2>3, <2>4, <2>5, <2>6, <2>7 DEF CallStep, ReadStep
<1> QED
  BY <1>1, <1>2, NextCases

LEMMA InitLocals == Init => Locals
BY OneListener DEF Init, Locals

LEMMA LocalsInvariant == Spec => [](IInv /\ Locals)
<1>1. IInv /\ Locals /\ [Next]_vars => (IInv /\ Locals)'
  BY NextIInv, LocalsNext
<1> QED
  BY <1>1, InitIInv, InitLocals, PTL DEF Spec

-----------------------------------------------------------------------------
(* The steps of the writer.                                                *)

LEMMA WriterSimulates ==
  ASSUME IInv, Locals, WriterStep
  PROVE  [Channel!ChannelNext]_(Channel!channel)
<1>0. TypeOK
  BY DEF IInv
<1>1. UNCHANGED <<driver, call>>
  BY WriterKeepsCalls
<1>2. UNCHANGED <<pc[Listener], Position, Delivered>>
  BY <1>1 DEF driver, call, Position, Delivered
<1>3. CASE PublishWrite
  <2>1. writeFrame' = writeFrame + block /\ block \in 1 .. MaxCapture
    BY <1>0, <1>3, SizesAssumption DEF PublishWrite, TypeOK
  <2>2. Channel!Publish
    BY <1>2, <2>1 DEF Channel!Publish
  <2> QED
    BY <2>2 DEF Channel!ChannelNext
<1>4. CASE ~PublishWrite
  <2>1. writeFrame' = writeFrame
    BY <1>4 DEF WriterStep, Capture, BeginWrite, WriteSample, HelperStops,
                HelperStarts, CtlSetsLatency, ring
  <2> QED
    BY <1>2, <2>1 DEF Channel!channel
<1> QED
  BY <1>3, <1>4

-----------------------------------------------------------------------------
(* The steps of a call.                                                    *)

LEMMA HostSimulates ==
  ASSUME IInv, Locals, HostCall(Listener)
  PROVE  [Channel!ChannelNext]_(Channel!channel)
<1>0. /\ TypeOK /\ gReadFrame <= writeFrame /\ Listener \in Clients
  BY ListenerTypes DEF IInv
<1>1. writeFrame' = writeFrame
  BY <1>0, CallsKeepRing DEF CallStep
<1>2. CASE StartIO(Listener)
  <2>1. /\ pc[Listener] = "stopped" /\ pc'[Listener] \in {"start", "idle"}
        /\ UNCHANGED <<gReadFrame, readFrame, scratch>>
    BY <1>0, <1>2 DEF StartIO, TypeOK
  <2>2. Position = gReadFrame /\ UNCHANGED <<Position, Delivered>>
    BY <2>1 DEF Position, Delivered
  <2>3. CASE pc'[Listener] = "start"
    BY <1>1, <2>1, <2>2, <2>3 DEF Channel!channel
  <2>4. CASE pc'[Listener] = "idle"
    <3>1. Position' \in 0 .. writeFrame
      BY <1>0, <2>2 DEF TypeOK
    <3>2. Channel!Listen
      BY <1>1, <2>1, <2>2, <2>4, <3>1 DEF Channel!Listen
    <3> QED
      BY <3>2 DEF Channel!ChannelNext
  <2> QED
    BY <2>1, <2>3, <2>4
<1>3. CASE StopIO(Listener)
  <2>1. /\ pc[Listener] = "idle" /\ pc'[Listener] = "stopped"
        /\ UNCHANGED <<gReadFrame, readFrame, scratch>>
    BY <1>0, <1>3 DEF StopIO, TypeOK
  <2>2. Delivered = <<>> /\ UNCHANGED <<Position, Delivered>>
    BY <2>1 DEF Position, Delivered
  <2>3. Channel!Leave
    BY <1>1, <2>1, <2>2 DEF Channel!Leave
  <2> QED
    BY <2>3 DEF Channel!ChannelNext
<1>4. ASSUME NEW n \in IOSizes, BeginRead(Listener, n)
      PROVE  UNCHANGED Channel!channel
  <2>1. /\ pc[Listener] = "idle" /\ pc'[Listener] = "load"
        /\ readFrame'[Listener] = gReadFrame
        /\ UNCHANGED <<gReadFrame, scratch>>
    BY <1>0, <1>4 DEF BeginRead, driver, TypeOK
  <2>2. UNCHANGED <<Position, Delivered>>
    BY <2>1 DEF Position, Delivered, Locals
  <2> QED
    BY <1>1, <2>1, <2>2 DEF Channel!channel
<1> QED
  BY <1>2, <1>3, <1>4 DEF HostCall

LEMMA StartSimulates ==
  ASSUME IInv, Locals, StartStep(Listener)
  PROVE  [Channel!ChannelNext]_(Channel!channel)
<1>0. TypeOK /\ ReadersOrdered /\ Listener \in Clients
  BY ListenerTypes DEF IInv
<1>1. writeFrame' = writeFrame
  BY <1>0, CallsKeepRing DEF CallStep
<1>2. CASE StartLoadHead(Listener)
  <2>1. /\ pc[Listener] = "start" /\ pc'[Listener] = "startStore"
        /\ UNCHANGED <<gReadFrame, scratch>>
    BY <1>0, <1>2 DEF StartLoadHead, driver, TypeOK
  <2> QED
    BY <1>1, <2>1 DEF Channel!channel, Position, Delivered
<1>3. CASE StartPlaceCursor(Listener)
  <2>1. /\ pc[Listener] = "startStore" /\ pc'[Listener] = "idle"
        /\ gReadFrame' = Behind(head[Listener], Clamp(targetLatencyFrames))
    BY <1>0, <1>3 DEF StartPlaceCursor, TypeOK
  <2>2. gReadFrame' \in 0 .. writeFrame
    <3>1. targetLatencyFrames \in Nat
      BY <1>0, SizesAssumption DEF TypeOK
    <3>2. Clamp(targetLatencyFrames) \in Nat
      BY <3>1, ClampRange
    <3>3. head[Listener] \in Nat /\ writeFrame \in Nat /\ head[Listener] <= writeFrame
      BY <1>0 DEF TypeOK, ReadersOrdered
    <3>4. gReadFrame' \in Nat /\ gReadFrame' <= head[Listener]
      BY <2>1, <3>2, <3>3, BehindRange
    <3> QED
      BY <3>3, <3>4
  <2>3. Position' = gReadFrame' /\ Delivered = <<>> /\ Delivered' = <<>>
    BY <2>1 DEF Position, Delivered
  <2>4. Channel!Listen
    BY <1>1, <2>1, <2>2, <2>3 DEF Channel!Listen
  <2> QED
    BY <2>4 DEF Channel!ChannelNext
<1> QED
  BY <1>2, <1>3 DEF StartStep

\* A new place for the cursor is one that the channel may catch up to.
LEMMA ResyncCatchesUp ==
  ASSUME NEW r \in Nat, NEW h \in Nat, NEW w \in Nat, NEW n \in Nat \ {0},
         NEW t \in MinTarget .. MaxTarget,
         r <= h, h <= w, w <= h + MaxLag, NeedsResync(r, h, t, n)
  PROVE  /\ r = 0 \/ w - r > MinTarget + 1
         /\ Behind(h, t) \in r .. w
         /\ w - Behind(h, t) <= MaxTarget + MaxLag
<1>0. /\ MinTarget \in Nat /\ MaxTarget \in Nat /\ t \in Nat /\ MinTarget <= t
      /\ t <= MaxTarget /\ MaxLag \in Nat /\ MaxChunk \in Nat \ {0}
      /\ Capacity \in Nat /\ MaxTarget + MaxChunk + MaxLag <= Capacity
  BY SizesAssumption, PaceAssumption
<1>1. r = 0 \/ h - r > t + n \/ h - r > Capacity
  BY <1>0 DEF NeedsResync, InvalidReadHead, DriftedHigh
<1>2. /\ Behind(h, t) \in Nat /\ Behind(h, t) <= h /\ h - Behind(h, t) <= t
      /\ h > t => Behind(h, t) = h - t
      /\ h <= t => Behind(h, t) = 0
  BY <1>0 DEF Behind
<1>3. r = 0 \/ h - r > MinTarget + 1
  <2>1. CASE h - r > Capacity
    <3>1. w - r >= h - r /\ Capacity >= MinTarget + 1
      BY <1>0
    <3> QED
      BY <1>0, <2>1, <3>1
  <2>2. CASE h - r > t + n
    BY <1>0, <2>2
  <2> QED
    BY <1>1, <2>1, <2>2
<1>4. r <= Behind(h, t)
  BY <1>0, <1>1, <1>2
<1> HIDE DEF NeedsResync
<1>5. Behind(h, t) <= w /\ w - Behind(h, t) <= MaxTarget + MaxLag
  BY <1>0, <1>2
<1> QED
  BY <1>0, <1>2, <1>3, <1>4, <1>5

LEMMA PlaceSimulates ==
  ASSUME IInv, Locals, PlaceReadHead(Listener)
  PROVE  [Channel!ChannelNext]_(Channel!channel)
<1> DEFINE r == readFrame[Listener]
           h == head[Listener]
           t == Clamp(targetLatencyFrames)
<1>0. /\ TypeOK /\ ReadersOrdered /\ Paced /\ Listener \in Clients
      /\ r \in Nat /\ h \in Nat /\ writeFrame \in Nat /\ block \in Nat
  BY ListenerTypes DEF IInv
<1>1. /\ pc[Listener] = "place" /\ pc'[Listener] = "copy"
      /\ writeFrame' = writeFrame /\ scratch' = scratch
      /\ scratch[Listener] = <<>>
  BY <1>0 DEF PlaceReadHead, TypeOK, ReadersOrdered
<1>2. /\ Position = r /\ Position' = readFrame'[Listener]
      /\ Delivered = <<>> /\ Delivered' = <<>>
  <2>1. Len(scratch'[Listener]) = 0 /\ readFrame'[Listener] \in Nat
    <3>1. TypeOK'
      BY NextTypeOK, <1>0 DEF Next, ReadStep
    <3> QED
      BY <1>0, <1>1, <3>1 DEF TypeOK
  <2> QED
    BY <1>1, <2>1 DEF Position, Delivered
<1>3. CASE NeedsResync(r, h, t, Chunk(Listener))
  <2>1. readFrame'[Listener] = Behind(h, t)
    BY <1>0, <1>3 DEF PlaceReadHead, TypeOK
  <2>2. t \in MinTarget .. MaxTarget
    <3>1. targetLatencyFrames \in Nat
      BY <1>0, SizesAssumption DEF TypeOK
    <3> QED
      BY <3>1, ClampRange
  <2>3. /\ r <= h /\ h <= writeFrame /\ writeFrame <= h + MaxLag
        /\ Chunk(Listener) \in Nat \ {0}
    <3>1. r <= h /\ h <= writeFrame
      BY <1>0, <1>1 DEF Locals, ReadersOrdered
    <3>2. writeFrame + block <= h + MaxLag
      BY <1>0, <1>1 DEF Paced
    <3>3. remaining[Listener] \in Nat /\ remaining[Listener] > 0
      BY <1>0, <1>1, ListenerTypes DEF ReadersOrdered
    <3>4. Chunk(Listener) \in Nat \ {0}
      BY <3>3, SizesAssumption DEF Chunk
    <3>5. MaxLag \in Nat
      BY PaceAssumption
    <3> QED
      BY <1>0, <3>1, <3>2, <3>4, <3>5
  <2> HIDE DEF r, h, t
  <2>4. /\ r = 0 \/ writeFrame - r > MinTarget + 1
        /\ Behind(h, t) \in r .. writeFrame
        /\ writeFrame - Behind(h, t) <= MaxTarget + MaxLag
    BY <1>0, <1>3, <2>2, <2>3, ResyncCatchesUp
  <2>5. Channel!CatchUp
    BY <1>1, <1>2, <2>1, <2>4 DEF Channel!CatchUp
  <2> QED
    BY <2>5 DEF Channel!ChannelNext
<1>4. CASE ~NeedsResync(r, h, t, Chunk(Listener))
  <2>1. readFrame'[Listener] = r
    BY <1>4 DEF PlaceReadHead
  <2> QED
    BY <1>1, <1>2, <2>1 DEF Channel!channel
<1> QED
  BY <1>3, <1>4

LEMMA CopySimulates ==
  ASSUME IInv, Locals, CopyFrame(Listener)
  PROVE  UNCHANGED Channel!channel
<1>0. /\ TypeOK /\ Listener \in Clients
      /\ readFrame[Listener] \in Nat /\ Len(scratch[Listener]) \in Nat
  BY ListenerTypes DEF IInv
<1>1. /\ pc[Listener] = "copy" /\ pc'[Listener] = "copy"
      /\ readFrame'[Listener] = readFrame[Listener] + 1
      /\ Len(scratch'[Listener]) = Len(scratch[Listener]) + 1
      /\ writeFrame' = writeFrame
  BY <1>0 DEF CopyFrame, TypeOK, ring
<1>2. Position' = Position
  BY <1>0, <1>1, SMTT(30) DEF Position
<1> QED
  BY <1>1, <1>2 DEF Channel!channel, Delivered

LEMMA FinishSimulates ==
  ASSUME IInv, Locals, FinishChunk(Listener)
  PROVE  Channel!Deliver
<1> DEFINE r == readFrame[Listener]
           h == head[Listener]
           n == Chunk(Listener)
           count == Len(scratch[Listener])
           first == r - count
<1>0. /\ TypeOK /\ ReadersOrdered /\ Paced /\ BoundedStaleness /\ NoTornRead
      /\ Listener \in Clients /\ r \in Nat /\ h \in Nat /\ n \in Nat
      /\ count \in Nat /\ writeFrame \in Nat /\ block \in Nat
      /\ scratch[Listener] \in Seq(Nat \cup {Silence})
  BY ListenerTypes DEF IInv
<1>1. /\ pc[Listener] = "copy" /\ pc'[Listener] \in {"load", "store"}
      /\ count = n \/ r = h
      /\ readFrame' = readFrame /\ writeFrame' = writeFrame
      /\ scratch'[Listener] = PadTo(scratch[Listener], n)
  BY <1>0 DEF FinishChunk, TypeOK
<1>2. n \in 1 .. MaxChunk /\ count <= n
  <2>1. remaining[Listener] \in Nat /\ remaining[Listener] > 0
    BY <1>0, <1>1, ListenerTypes DEF ReadersOrdered
  <2>2. n >= 1 /\ n <= MaxChunk
    BY <2>1, SizesAssumption DEF Chunk
  <2> QED
    BY <1>0, <1>1, <2>2, SizesAssumption DEF Locals
<1>3. /\ r <= h /\ count <= r /\ h <= writeFrame
      /\ writeFrame + block <= h + MaxLag
      /\ h - first <= MaxTarget + n
  BY <1>0, <1>1 DEF ReadersOrdered, Paced, BoundedStaleness
<1>4. /\ Position = first /\ Position' = r
      /\ Delivered = <<>> /\ Delivered' = PadTo(scratch[Listener], n)
  BY <1>1 DEF Position, Delivered
<1>5. PadTo(scratch[Listener], n) = Channel!ChunkOf(first, count, n)
  <2>1. ASSUME NEW i \in 1 .. n, i <= count
        PROVE  scratch[Listener][i] = first + i - 1
    <3>1. i \in 1 .. Len(scratch[Listener])
      BY <1>0, <2>1
    <3> QED
      BY <1>0, <1>1, <3>1 DEF NoTornRead
  <2> QED
    BY <2>1 DEF PadTo, Channel!ChunkOf
<1> HIDE DEF r, h, n, count
<1>6. MaxLag \in Nat /\ MaxTarget \in Nat
  BY SizesAssumption, PaceAssumption
<1>7. /\ first + count = r /\ first + count <= writeFrame
      /\ writeFrame - first <= MaxTarget + n + MaxLag
      /\ count < n => writeFrame - (first + count) <= MaxLag
  BY <1>0, <1>1, <1>3, <1>6
<1>8. count \in 0 .. n
  BY <1>0, <1>2
<1>9. pc[Listener] = "copy" /\ pc'[Listener] \in {"load", "store"}
  BY <1>1
<1> HIDE DEF first
<1> QED
  BY <1>1, <1>2, <1>4, <1>5, <1>7, <1>8, <1>9 DEF Channel!Deliver

LEMMA ReadSimulates ==
  ASSUME IInv, Locals, ReadStep(Listener)
  PROVE  [Channel!ChannelNext]_(Channel!channel)
<1>0. TypeOK /\ Listener \in Clients
  BY ListenerTypes DEF IInv
<1>1. CASE LoadHead(Listener)
  <2>1. /\ pc[Listener] = "load" /\ pc'[Listener] = "place"
        /\ scratch'[Listener] = <<>>
        /\ UNCHANGED <<writeFrame, readFrame>>
    BY <1>0, <1>1 DEF LoadHead, ring, TypeOK
  <2>2. Channel!Take
    BY <2>1 DEF Channel!Take, Position, Delivered
  <2> QED
    BY <2>2 DEF Channel!ChannelNext
<1>2. CASE StoreCursor(Listener)
  <2>1. /\ pc[Listener] = "store" /\ pc'[Listener] = "idle"
        /\ gReadFrame' = readFrame[Listener]
        /\ writeFrame' = writeFrame
    BY <1>0, <1>2 DEF StoreCursor, ring, TypeOK
  <2>2. Channel!Take
    BY <2>1 DEF Channel!Take, Position, Delivered
  <2> QED
    BY <2>2 DEF Channel!ChannelNext
<1>3. CASE FinishChunk(Listener)
  BY <1>3, FinishSimulates DEF Channel!ChannelNext
<1> QED
  BY <1>1, <1>2, <1>3, PlaceSimulates, CopySimulates DEF ReadStep

-----------------------------------------------------------------------------
LEMMA StepSimulates ==
  ASSUME IInv, Locals, [Next]_vars
  PROVE  [Channel!ChannelNext]_(Channel!channel)
<1>1. CASE WriterStep
  BY <1>1, WriterSimulates
<1>2. ASSUME NEW c \in Clients, CallStep(c)
      PROVE  [Channel!ChannelNext]_(Channel!channel)
  <2>1. c = Listener
    BY OneListener
  <2> QED
    BY <1>2, <2>1, HostSimulates, StartSimulates, ReadSimulates DEF CallStep
<1>3. CASE UNCHANGED vars
  BY <1>3 DEF vars, ring, driver, call, Channel!channel, Position, Delivered
<1> QED
  BY <1>1, <1>2, <1>3, NextCases

\* What the driver hands to its one client is what LatestAudio allows: each
\* chunk goes on where the last one ended, recent, in order, untorn, skipped
\* ahead only to catch up and silent only at the end of what there is.
THEOREM RingImplementsChannel == Spec => ImplementsChannel
<1>1. Init => Channel!ChannelInit
  <2>1. ASSUME Init PROVE Channel!ChannelInit
    <3>1. Listener \in Clients
      BY OneListener
    <3> QED
      BY <2>1, <3>1 DEF Init, Channel!ChannelInit, Position, Delivered
  <2> QED
    BY <2>1
<1>2. IInv /\ Locals /\ [Next]_vars => [Channel!ChannelNext]_(Channel!channel)
  BY StepSimulates
<1> QED
  BY <1>1, <1>2, LocalsInvariant, PTL DEF Spec, ImplementsChannel, Channel!ChannelSpec

-----------------------------------------------------------------------------
(* What the one client has heard.                                          *)

\* The cursor is where the client last heard something - in the device between
\* two calls, in the call otherwise - or further on, if frames are skipped, and
\* then the chunk is not over before one of them is copied.
HeardInv ==
  LET l == Listener
  IN /\ heard[l] \in Nat
     /\ pc[l] \in {"stopped", "start", "startStore"} => heard[l] = 0
     /\ heard[l] > 0 =>
          /\ pc[l] = "idle" => gReadFrame = heard[l]
          /\ pc[l] \in {"load", "place", "store"} => readFrame[l] = heard[l]
          /\ pc[l] = "copy" =>
               \/ readFrame[l] = heard[l]
               \/ /\ readFrame[l] > heard[l]
                  /\ Len(scratch[l]) = 0
                  /\ readFrame[l] < head[l]

LEMMA HeardInvNext ==
  ASSUME IInv, Locals, HeardInv, [HNext]_hvars
  PROVE  HeardInv'
<1> DEFINE l == Listener
<1>0. /\ TypeOK /\ TypeOK' /\ ReadersOrdered /\ l \in Clients /\ heard[l] \in Nat
      /\ readFrame[l] \in Nat /\ gReadFrame \in Nat /\ head[l] \in Nat
      /\ scratch[l] \in Seq(Nat \cup {Silence}) /\ Len(scratch[l]) \in Nat
      /\ [Next]_vars
  <2>1. [Next]_vars
    BY DEF HNext, hvars
  <2> QED  BY <2>1, NextTypeOK, ListenerTypes DEF IInv, HeardInv
<1>1. CASE UNCHANGED hvars
  BY <1>1 DEF hvars, history, vars, driver, call, HeardInv
<1>2. ASSUME HNext PROVE HeardInv'
  <2>0. heard'[l] = IF pc'[l] = "stopped" THEN 0
                    ELSE IF Copied(l) THEN readFrame'[l] ELSE heard[l]
    BY <1>0, <1>2 DEF HNext, Observe
  <2>1. CASE WriterStep \/ UNCHANGED vars
    <3>1. UNCHANGED <<driver, call>>
      BY <2>1, WriterKeepsCalls DEF vars
    <3>2. ~Copied(l)
      BY <1>0, <3>1 DEF Copied, call
    <3> QED  BY <2>0, <3>1, <3>2 DEF HeardInv, driver, call
  <2>2. ASSUME NEW c \in Clients, CallStep(c) PROVE HeardInv'
    <3>0. c = l
      BY OneListener
    <3>1. CASE CopyFrame(l)
      <4>1. /\ pc'[l] = "copy" /\ pc[l] = "copy"
            /\ Len(scratch'[l]) = Len(scratch[l]) + 1
        BY <1>0, <3>1 DEF CopyFrame, TypeOK
      <4>2. Copied(l)
        BY <1>0, <4>1 DEF Copied
      <4>3. heard'[l] = readFrame'[l] /\ readFrame'[l] \in Nat
        BY <1>0, <2>0, <4>1, <4>2 DEF TypeOK
      <4> QED  BY <4>1, <4>3 DEF HeardInv
    <3>2. CASE PlaceReadHead(l)
      <4>1. /\ pc[l] = "place" /\ pc'[l] = "copy"
            /\ scratch' = scratch /\ scratch[l] = <<>> /\ head' = head
        BY <1>0, <3>2 DEF PlaceReadHead, TypeOK, ReadersOrdered
      <4>2. heard'[l] = heard[l] /\ Len(scratch'[l]) = 0
        BY <2>0, <4>1 DEF Copied
      <4>3. CASE readFrame' = readFrame
        BY <1>0, <4>1, <4>2, <4>3 DEF HeardInv
      <4>4. CASE readFrame' # readFrame /\ heard[l] > 0
        <5> DEFINE t == Clamp(targetLatencyFrames)
                   n == Chunk(l)
        <5>1. NeedsResync(readFrame[l], head[l], t, n)
              /\ readFrame'[l] = Behind(head[l], t)
          BY <1>0, <3>2, <4>4 DEF PlaceReadHead, TypeOK
        <5>2. readFrame[l] = heard[l] /\ readFrame[l] <= head[l]
          BY <4>1, <4>4 DEF HeardInv, Locals
        <5>3. t \in MinTarget .. MaxTarget
          <6>1. targetLatencyFrames \in Nat
            BY <1>0, SizesAssumption DEF TypeOK
          <6> QED  BY <6>1, ClampRange
        <5>4. n \in Nat
          BY <1>0, ListenerTypes
        <5>5. /\ t \in Nat /\ t > 0 /\ t <= Capacity /\ Capacity \in Nat
          BY <5>3, SizesAssumption, PaceAssumption
        <5> HIDE DEF t, n
        <5>6. head[l] - readFrame[l] > t
          BY <1>0, <4>4, <5>1, <5>2, <5>4, <5>5
          DEF NeedsResync, InvalidReadHead, DriftedHigh
        <5>7. readFrame'[l] > heard[l] /\ readFrame'[l] < head[l]
          BY <1>0, <5>1, <5>2, <5>5, <5>6 DEF Behind
        <5> QED  BY <1>0, <4>1, <4>2, <4>4, <5>7 DEF HeardInv
      <4>5. CASE heard[l] = 0
        BY <4>1, <4>2, <4>5 DEF HeardInv
      <4> QED  BY <1>0, <4>3, <4>4, <4>5
    <3>3. CASE FinishChunk(l)
      <4>1. /\ pc[l] = "copy" /\ pc'[l] \in {"load", "store"}
            /\ Len(scratch[l]) = Chunk(l) \/ readFrame[l] = head[l]
            /\ readFrame' = readFrame
        BY <1>0, <3>3 DEF FinishChunk, TypeOK
      <4>2. heard'[l] = heard[l]
        BY <2>0, <4>1 DEF Copied
      <4>3. Chunk(l) > 0
        <5>1. remaining[l] \in Nat /\ remaining[l] > 0
          BY <1>0, <4>1, ListenerTypes DEF ReadersOrdered
        <5> QED  BY <5>1, SizesAssumption DEF Chunk
      <4>4. heard[l] > 0 => readFrame[l] = heard[l]
        BY <1>0, <4>1, <4>3 DEF HeardInv
      <4> QED  BY <1>0, <4>1, <4>2, <4>4 DEF HeardInv
    <3>4. CASE LoadHead(l) \/ StoreCursor(l)
      <4>1. heard'[l] = heard[l]
        BY <1>0, <2>0, <3>4 DEF LoadHead, StoreCursor, Copied, TypeOK
      <4> QED
        BY <1>0, <3>4, <4>1 DEF LoadHead, StoreCursor, HeardInv, driver, TypeOK
    <3>5. CASE HostCall(l) \/ StartStep(l)
      <4>1. pc[l] # "copy"
        BY <3>5 DEF HostCall, StartIO, StopIO, BeginRead, StartStep, StartLoadHead,
                    StartPlaceCursor
      <4>2. heard'[l] = IF pc'[l] = "stopped" THEN 0 ELSE heard[l]
        BY <2>0, <4>1 DEF Copied
      <4>3. CASE StartIO(l) \/ StopIO(l)
        <5>1. pc'[l] \in {"start", "idle", "stopped"}
              /\ (pc[l] = "stopped" \/ pc'[l] = "stopped")
          BY <1>0, <4>3 DEF StartIO, StopIO, TypeOK
        <5>2. heard'[l] = 0
          BY <4>2, <5>1 DEF HeardInv
        <5> QED  BY <5>2 DEF HeardInv
      <4>4. ASSUME NEW n \in IOSizes, BeginRead(l, n) PROVE HeardInv'
        <5>1. /\ pc[l] = "idle" /\ pc'[l] = "load"
              /\ readFrame'[l] = gReadFrame
          BY <1>0, <4>4 DEF BeginRead, TypeOK
        <5> QED  BY <4>2, <5>1 DEF HeardInv
      <4>5. CASE StartStep(l)
        <5>1. heard[l] = 0 /\ pc'[l] # "stopped"
          BY <1>0, <4>5
          DEF StartStep, StartLoadHead, StartPlaceCursor, HeardInv, TypeOK
        <5>2. heard'[l] = 0
          BY <4>2, <5>1
        <5> QED  BY <5>2 DEF HeardInv
      <4> QED  BY <3>5, <4>3, <4>4, <4>5 DEF HostCall
    <3> QED
      BY <2>2, <3>0, <3>1, <3>2, <3>3, <3>4, <3>5 DEF CallStep, ReadStep
  <2> QED  BY <1>0, <2>1, <2>2, NextCases
<1> QED  BY <1>1, <1>2

LEMMA HistoryInvariant == HSpec => [](IInv /\ Locals /\ HeardInv)
<1>1. HInit => IInv /\ Locals /\ HeardInv
  <2>1. SUFFICES ASSUME HInit PROVE HeardInv
    BY InitIInv, InitLocals DEF HInit
  <2>2. heard[Listener] = 0
    BY <2>1, OneListener DEF HInit
  <2> QED  BY <2>2 DEF HeardInv
<1>2. IInv /\ Locals /\ HeardInv /\ [HNext]_hvars => (IInv /\ Locals /\ HeardInv)'
  <2>1. [HNext]_hvars => [Next]_vars
    BY DEF HNext, hvars
  <2> QED  BY <2>1, NextIInv, LocalsNext, HeardInvNext
<1> QED  BY <1>1, <1>2, PTL DEF HSpec

\* One client alone hears frames in order and each at most once, through
\* resyncs, deaths of the helper and changes of the latency.
THEOREM NothingIsReplayed == HSpec => []NeverReplays
<1>1. IInv /\ HeardInv => NeverReplays
  <2>1. SUFFICES ASSUME IInv, HeardInv, pc[Listener] = "copy"
                 PROVE  readFrame[Listener] >= heard[Listener]
    BY OneListener DEF NeverReplays
  <2>2. readFrame[Listener] \in Nat /\ heard[Listener] \in Nat
    BY <2>1, ListenerTypes DEF IInv, HeardInv
  <2> QED  BY <2>1, <2>2 DEF HeardInv
<1> QED  BY <1>1, HistoryInvariant, PTL
=============================================================================
