-------------------------- MODULE SharedRingHistory --------------------------
(* What the clients of the device have heard, on top of SharedRing: the    *)
(* variables below only observe the steps of SharedRing and restrict none. *)
EXTENDS SharedRing

VARIABLES
  heard,    \* per client, the frame after the last one delivered in this run
            \* of I/O, 0 if there was none
  padded    \* some chunk was completed with silence

history == <<heard, padded>>
hvars   == <<vars, history>>

Copied(c) == pc[c] = "copy" /\ Len(scratch'[c]) > Len(scratch[c]) /\ pc'[c] = "copy"
Padded(c) == pc[c] = "copy" /\ pc'[c] # "copy" /\ Len(scratch[c]) < Chunk(c)

Observe ==
  /\ heard' = [c \in Clients |->
                 IF pc'[c] = "stopped" THEN 0
                 ELSE IF Copied(c) THEN readFrame'[c] ELSE heard[c]]
  /\ padded' = (padded \/ \E c \in Clients : Padded(c))

HInit ==
  /\ Init
  /\ heard = [c \in Clients |-> 0]
  /\ padded = FALSE

HNext == Next /\ Observe

HSpec == HInit /\ [][HNext]_hvars

\* A driver thread keeps running once it is called; nothing else is promised.
HFairSpec ==
  HSpec /\ \A c \in Clients :
              WF_hvars((ReadStep(c) \/ StartStep(c)) /\ Observe)

-----------------------------------------------------------------------------
\* A client never hears a frame twice, nor frames out of order, in one run of
\* I/O: the cursor that readMonoFrames works on only moves forward, through
\* resyncs, restarts of the helper and changes of the latency.
NeverReplays ==
  \A c \in Clients : pc[c] = "copy" => readFrame[c] >= heard[c]

\* Clients do not take frames from each other: between its device calls a client
\* finds the cursor no further than it has heard itself, so that its next call
\* goes on with the frame after.  (The cursor is the device's, not the client's.)
KeepsItsFrames ==
  \A c \in Clients : pc[c] = "idle" /\ heard[c] > 0 => gReadFrame <= heard[c]

\* The driver reads the latest complete window: a chunk is completed with
\* silence only while the ring holds fewer frames than the chunk.
CompleteWindow ==
  \A c \in Clients :
    pc[c] = "copy" /\ readFrame[c] = head[c] /\ Len(scratch[c]) < Chunk(c) =>
      head[c] < Chunk(c)

\* The underruns that crackle are the ones that `status` counts.
UnderrunsVisible == padded => counters.underruns > 0
=============================================================================
