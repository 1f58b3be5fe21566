----------------------------- MODULE DriverClock -----------------------------
(***************************************************************************)
(* The clock of one virtual device.  The driver has no hardware: the first *)
(* client that starts I/O anchors a timeline at the host's clock, and each *)
(* I/O thread asks GetZeroTimeStamp where the last period of that timeline *)
(* began.  The running clients, the anchor and the seed are atomics that   *)
(* are loaded and stored one at a time, by several host threads.           *)
(*                                                                         *)
(* Host times are 64-bit and are kept modulo Wrap.                         *)
(***************************************************************************)
EXTENDS Integers, FiniteSets

CONSTANTS
  Clients,        \* Core Audio clients of the device
  TicksPerFrame,  \* gHostTicksPerFrame, as a whole number
  Period,         \* kZeroTimestampPeriod, in frames
  Wrap,           \* 2^64: the host's clock and the driver's differences wrap
  HostSerializes, \* does coreaudiod run one StartIO of the device at a time?
  MaxTime,        \* bound: host time reached in a behaviour
  MaxStarts       \* bound: timelines begun in a behaviour

ASSUME ClockAssumption ==
  /\ TicksPerFrame \in Nat \ {0}
  /\ Period \in Nat \ {0}
  /\ MaxTime \in Nat /\ MaxStarts \in Nat
  /\ Wrap \in Nat /\ MaxTime < Wrap
  /\ HostSerializes \in BOOLEAN

VARIABLES
  now,             \* mach_absolute_time
  gRunningClients, gAnchorHostTime, gTimestampSeed,
  pc,              \* per client: which host call it is in, and where
  current,         \* per client: StopIO's copy of the count
  asked, anchor,   \* per client: the locals of GetZeroTimeStamp
  stamp,           \* per client: the last zero time stamp it was given
  timelines        \* of every stamp given out: its seed, and when frame 0 was

clock == <<gRunningClients, gAnchorHostTime, gTimestampSeed>>
call  == <<pc, current, asked, anchor>>
given == <<stamp, timelines>>
vars  == <<now, clock, call, given>>

Starting == {"anchor", "stamp", "seed"}

NoStamp == [sample |-> 0, host |-> 0, seed |-> 0, at |-> 0]

\* The clients that the driver has counted in and not yet counted out.
Counted == {c \in Clients : pc[c] # "stopped"}

Go(c, step) == pc' = [pc EXCEPT ![c] = step]

TimePasses ==
  /\ now < MaxTime
  /\ now' = now + 1
  /\ UNCHANGED <<clock, call, given>>

-----------------------------------------------------------------------------
(* StartIO: the count, then for the first client the anchor and the seed.  *)
(* (Where it places the cursor is SharedRing's StartIO.)                   *)

\* Mutant of StartIO: every client that starts anchors the timeline.
StartIOAnchorsAlways(c) ==
  /\ pc[c] = "stopped"
  /\ HostSerializes => \A d \in Clients : pc[d] \notin Starting
  /\ gTimestampSeed <= MaxStarts
  /\ gRunningClients' = gRunningClients + 1
  /\ Go(c, "anchor")
  /\ UNCHANGED <<now, gAnchorHostTime, gTimestampSeed, current, asked, anchor, given>>

StartIO(c) ==
  /\ pc[c] = "stopped"
  /\ HostSerializes => \A d \in Clients : pc[d] \notin Starting
  /\ gTimestampSeed <= MaxStarts
  /\ gRunningClients' = gRunningClients + 1
  /\ Go(c, IF gRunningClients = 0 THEN "anchor" ELSE "running")
  /\ UNCHANGED <<now, gAnchorHostTime, gTimestampSeed, current, asked, anchor, given>>

StartReadsClock(c) ==
  /\ pc[c] = "anchor"
  /\ asked' = [asked EXCEPT ![c] = now]
  /\ Go(c, "stamp")
  /\ UNCHANGED <<now, clock, current, anchor, given>>

\* Mutant of StartStoresAnchor: the device goes on with the first anchor.
StartKeepsAnchor(c) ==
  /\ pc[c] = "stamp"
  /\ asked' = [asked EXCEPT ![c] = 0]
  /\ Go(c, "seed")
  /\ UNCHANGED <<now, clock, current, anchor, given>>

StartStoresAnchor(c) ==
  /\ pc[c] = "stamp"
  /\ gAnchorHostTime' = asked[c]
  /\ asked' = [asked EXCEPT ![c] = 0]
  /\ Go(c, "seed")
  /\ UNCHANGED <<now, gRunningClients, gTimestampSeed, current, anchor, given>>

\* Mutant of StartBumpsSeed: the new timeline keeps the old one's seed.
StartKeepsSeed(c) ==
  /\ pc[c] = "seed"
  /\ Go(c, "running")
  /\ UNCHANGED <<now, clock, current, asked, anchor, given>>

StartBumpsSeed(c) ==
  /\ pc[c] = "seed"
  /\ gTimestampSeed' = gTimestampSeed + 1
  /\ Go(c, "running")
  /\ UNCHANGED <<now, gRunningClients, gAnchorHostTime, current, asked, anchor, given>>

-----------------------------------------------------------------------------
(* StopIO: a compare-and-exchange loop that never goes below zero.         *)

StopIO(c) ==
  /\ pc[c] = "running"
  /\ Go(c, "load")
  /\ UNCHANGED <<now, clock, current, asked, anchor, given>>

StopLoads(c) ==
  /\ pc[c] = "load"
  /\ current' = [current EXCEPT ![c] = gRunningClients]
  /\ Go(c, "exchange")
  /\ UNCHANGED <<now, clock, asked, anchor, given>>

\* Mutant of StopExchanges: the count is stored whoever changed it meanwhile.
StopStores(c) ==
  /\ pc[c] = "exchange"
  /\ gRunningClients' = IF current[c] > 0 THEN current[c] - 1 ELSE gRunningClients
  /\ Go(c, "stopped")
  /\ current' = [current EXCEPT ![c] = 0]
  /\ UNCHANGED <<now, gAnchorHostTime, gTimestampSeed, asked, anchor, given>>

\* A failed exchange reloads the count; a weak one may fail for no reason.
StopExchanges(c) ==
  /\ pc[c] = "exchange"
  /\ \/ /\ current[c] > 0 => current[c] = gRunningClients
        /\ gRunningClients' = IF current[c] > 0 THEN current[c] - 1
                                                ELSE gRunningClients
        /\ current' = [current EXCEPT ![c] = 0]
        /\ Go(c, "stopped")
     \/ /\ current[c] > 0
        /\ current' = [current EXCEPT ![c] = gRunningClients]
        /\ UNCHANGED <<gRunningClients, pc>>
  /\ UNCHANGED <<now, gAnchorHostTime, gTimestampSeed, asked, anchor, given>>

-----------------------------------------------------------------------------
(* GetZeroTimeStamp, from the I/O thread of a client that runs.            *)

Ask(c) ==
  /\ pc[c] = "running"
  /\ asked' = [asked EXCEPT ![c] = now]
  /\ Go(c, "origin")
  /\ UNCHANGED <<now, clock, current, anchor, given>>

AskLoadsAnchor(c) ==
  /\ pc[c] = "origin"
  /\ anchor' = [anchor EXCEPT ![c] = gAnchorHostTime]
  /\ Go(c, "answer")
  /\ UNCHANGED <<now, clock, current, asked, given>>

\* Mutant of SampleTime: the period that begins next, not the one that runs.
NextSampleTime(t, origin) ==
  LET elapsedFrames == ((t - origin) % Wrap) \div TicksPerFrame
  IN (elapsedFrames \div Period + 1) * Period

\* The sample time of the last period that began by host time t.
SampleTime(t, origin) ==
  LET elapsedFrames == ((t - origin) % Wrap) \div TicksPerFrame
  IN (elapsedFrames \div Period) * Period

HostTime(sample, origin) == (origin + sample * TicksPerFrame) % Wrap

\* The seed is loaded last, and the stamp is handed to the host.
Answer(c) ==
  /\ pc[c] = "answer"
  /\ LET sample == SampleTime(asked[c], anchor[c])
         host   == HostTime(sample, anchor[c])
     IN /\ stamp' = [stamp EXCEPT ![c] =
                       [sample |-> sample, host |-> host,
                        seed |-> gTimestampSeed, at |-> asked[c]]]
        /\ timelines' = timelines \cup
             {<<gTimestampSeed, (host - sample * TicksPerFrame) % Wrap>>}
  /\ asked' = [asked EXCEPT ![c] = 0]
  /\ anchor' = [anchor EXCEPT ![c] = 0]
  /\ Go(c, "running")
  /\ UNCHANGED <<now, clock, current>>

-----------------------------------------------------------------------------
\* Initialize anchors a first timeline, which no stamp is taken from.
Init ==
  /\ now = 0
  /\ gRunningClients = 0
  /\ gAnchorHostTime = 0
  /\ gTimestampSeed = 1
  /\ pc = [c \in Clients |-> "stopped"]
  /\ current = [c \in Clients |-> 0]
  /\ asked = [c \in Clients |-> 0]
  /\ anchor = [c \in Clients |-> 0]
  /\ stamp = [c \in Clients |-> NoStamp]
  /\ timelines = {}

StartStep(c) == StartReadsClock(c) \/ StartStoresAnchor(c) \/ StartBumpsSeed(c)
StopStep(c)  == StopLoads(c) \/ StopExchanges(c)
AskStep(c)   == AskLoadsAnchor(c) \/ Answer(c)

Next ==
  \/ TimePasses
  \/ \E c \in Clients :
       \/ StartIO(c) \/ StopIO(c) \/ Ask(c)
       \/ StartStep(c) \/ StopStep(c) \/ AskStep(c)

Spec == Init /\ [][Next]_vars

-----------------------------------------------------------------------------
TypeOK ==
  /\ now \in 0 .. MaxTime
  /\ gRunningClients \in Nat
  /\ gAnchorHostTime \in 0 .. MaxTime
  /\ gTimestampSeed \in Nat
  /\ pc \in [Clients -> {"stopped", "running", "anchor", "stamp", "seed",
                         "load", "exchange", "origin", "answer"}]
  /\ current \in [Clients -> Nat]
  /\ asked \in [Clients -> 0 .. MaxTime]
  /\ anchor \in [Clients -> 0 .. MaxTime]
  /\ stamp \in [Clients -> [sample : Nat, host : Nat, seed : Nat, at : Nat]]
  /\ timelines \subseteq Nat \X Nat

\* Starts and stops of several clients, however they interleave, leave the
\* count at the number of clients that are in: a lost decrement would leave
\* the device running for good, and the next start would anchor nothing.
RunningCountExact == gRunningClients = Cardinality(Counted)

\* A zero time stamp names the period that was running when it was asked for:
\* it is not in the future, and it is not more than a period old.
StampsAreCurrent ==
  \A c \in Clients :
    LET s == stamp[c]
    IN s # NoStamp => s.host <= s.at /\ s.at < s.host + Period * TicksPerFrame

\* All stamps with one seed, whoever got them, lie on one timeline: a new
\* anchor shows as a new seed.
OneTimelinePerSeed ==
  \A s, t \in timelines : s[1] = t[1] => s = t

\* The stamps that a client is given never go back: neither the seed, nor
\* within a seed the sample time and the host time.
StampsNeverGoBack ==
  [][\A c \in Clients :
       stamp[c] # NoStamp =>
         \/ stamp'[c].seed > stamp[c].seed
         \/ /\ stamp'[c].seed = stamp[c].seed
            /\ stamp'[c].sample >= stamp[c].sample
            /\ stamp'[c].host >= stamp[c].host]_vars
=============================================================================
