----------------------------- MODULE LatestAudio -----------------------------
(***************************************************************************)
(* What the bridge promises the one client that listens to a virtual       *)
(* device: a channel of numbered frames that delivers, a chunk at a time,  *)
(* runs of consecutive frames.  A frame is delivered at most once and in   *)
(* order, none is older than the latency explains, frames are skipped only *)
(* to catch up, and silence is delivered only to a listener that has       *)
(* caught up.  How memory is shared and what is copied when is left open.  *)
(***************************************************************************)
EXTENDS Integers, Sequences

CONSTANTS
  MinLatency,  \* the least latency the bridge keeps
  MaxLatency,  \* the largest
  MaxChunk,    \* frames delivered at a time
  MaxBlock,    \* frames published at a time
  MaxLag,      \* frames published while one chunk is delivered
  Silence      \* the sample that is no frame's

VARIABLES
  published,   \* frames published so far
  listening,   \* the client does I/O
  next,        \* the frame the listener continues with
  out          \* the chunk delivered and not yet taken, <<>> if there is none

channel == <<published, listening, next, out>>

ChannelInit ==
  /\ published = 0
  /\ listening = FALSE
  /\ next = 0
  /\ out = <<>>

Publish ==
  /\ \E n \in 1 .. MaxBlock : published' = published + n
  /\ UNCHANGED <<listening, next, out>>

\* A new run of I/O starts anywhere in what has been published.
Listen ==
  /\ ~listening
  /\ listening' = TRUE
  /\ next' \in 0 .. published
  /\ UNCHANGED <<published, out>>

Leave ==
  /\ listening
  /\ out = <<>>
  /\ listening' = FALSE
  /\ UNCHANGED <<published, next, out>>

\* A listener that has no position yet, or that is further behind than the
\* least latency and one frame, goes on with a frame that is recent enough.
CatchUp ==
  /\ listening
  /\ next = 0 \/ published - next > MinLatency + 1
  /\ next' \in next .. published
  /\ published - next' <= MaxLatency + MaxLag
  /\ out' = <<>>
  /\ UNCHANGED <<published, listening>>

\* The next count frames, and silence up to n.
ChunkOf(first, count, n) ==
  [i \in 1 .. n |-> IF i <= count THEN first + i - 1 ELSE Silence]

Deliver ==
  /\ listening
  /\ out = <<>>
  /\ \E n \in 1 .. MaxChunk : \E count \in 0 .. n :
       /\ next + count <= published
       /\ published - next <= MaxLatency + n + MaxLag
       /\ count < n => published - (next + count) <= MaxLag
       /\ out' = ChunkOf(next, count, n)
       /\ next' = next + count
  /\ UNCHANGED <<published, listening>>

Take ==
  /\ out' = <<>>
  /\ UNCHANGED <<published, listening, next>>

ChannelNext == Publish \/ Listen \/ Leave \/ CatchUp \/ Deliver \/ Take

ChannelSpec == ChannelInit /\ [][ChannelNext]_channel
=============================================================================
