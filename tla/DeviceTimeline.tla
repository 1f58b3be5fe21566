--------------------------- MODULE DeviceTimeline ----------------------------
(***************************************************************************)
(* What the clock of a virtual device promises its host: while clients run *)
(* there is one timeline, with a number of its own and a frame 0 that does *)
(* not move; every zero time stamp is of the timeline that runs, names the *)
(* period in which its client asked, and comes after all the stamps of the *)
(* timelines before.  A start and a stamp are one step.                    *)
(***************************************************************************)
EXTENDS Integers

CONSTANTS Clients, TicksPerFrame, Period

VARIABLES
  time,     \* the host's clock
  running,  \* the clients that run
  epoch,    \* the number of the timeline
  origin,   \* the host time of its frame 0, None while nobody runs
  stamp     \* per client: the last stamp that it was given

device == <<running, epoch, origin>>

None == -1

NoStamp == [sample |-> 0, host |-> 0, seed |-> 0, at |-> 0]

TimelineInit ==
  /\ time = 0
  /\ running = {}
  /\ epoch = 1
  /\ origin = None
  /\ stamp = [c \in Clients |-> NoStamp]

Tick == time' = time + 1 /\ UNCHANGED <<device, stamp>>

\* The first client begins a timeline: after every question of an earlier one.
Begin(c) ==
  /\ running = {}
  /\ running' = {c}
  /\ epoch' = epoch + 1
  /\ \E host \in 0 .. time :
       /\ \A d \in Clients : stamp[d].at <= host
       /\ origin' = host
  /\ UNCHANGED <<time, stamp>>

Join(c) ==
  /\ running # {} /\ c \notin running
  /\ running' = running \cup {c}
  /\ UNCHANGED <<time, epoch, origin, stamp>>

Leave(c) ==
  /\ c \in running
  /\ running' = running \ {c}
  /\ origin' = IF running' = {} THEN None ELSE origin
  /\ UNCHANGED <<time, epoch, stamp>>

\* The stamp of period k, for a client that asked at a time in that period.
StampOf(k, asked) ==
  [sample |-> k * Period, host |-> origin + (k * Period) * TicksPerFrame,
   seed |-> epoch, at |-> asked]

Give(c) ==
  /\ c \in running
  /\ \E asked \in stamp[c].at .. time, k \in 0 .. time :
       LET s == StampOf(k, asked)
       IN /\ s.host <= asked /\ asked < s.host + Period * TicksPerFrame
          /\ stamp' = [stamp EXCEPT ![c] = s]
  /\ UNCHANGED <<time, device>>

TimelineNext ==
  \/ Tick
  \/ \E c \in Clients : Begin(c) \/ Join(c) \/ Leave(c) \/ Give(c)

TimelineSpec ==
  TimelineInit /\ [][TimelineNext]_<<time, device, stamp>>
=============================================================================
