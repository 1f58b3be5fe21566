-------------------------- MODULE DriverClockProofs --------------------------
(***************************************************************************)
(* What holds of the virtual clock for any set of clients, any tick, any   *)
(* period and any bounds.  The count of the running clients is exact       *)
(* whatever the host does; that the stamps are current and that a seed has *)
(* one timeline needs HostSerializes.                                      *)
(***************************************************************************)
EXTENDS DriverTimeline, FiniteSetTheorems, TLAPS

\* The count is a cardinality, and who exchanges it has seen itself in it.
CountInv ==
  /\ IsFiniteSet(Counted)
  /\ RunningCountExact
  /\ \A c \in Clients : pc[c] = "exchange" => current[c] > 0

Asking(c) == pc[c] \in {"origin", "answer"}

\* Who begins a timeline is alone; the anchor is not in the future.
StartInv ==
  /\ \A c \in Clients : pc[c] \in Starting => Counted = {c}
  /\ \A c \in Clients : pc[c] = "stamp" => asked[c] <= now
  /\ gAnchorHostTime <= now

\* A client asks about the timeline that runs.
AskInv ==
  \A c \in Clients :
    /\ Asking(c) => gAnchorHostTime <= asked[c] /\ asked[c] <= now
    /\ pc[c] = "answer" => anchor[c] = gAnchorHostTime

NoneStarts == \A c \in Clients : pc[c] \notin Starting

\* The stamps of the running timeline lie on its anchor.
TimelineInv ==
  \A s \in timelines :
    /\ s[1] <= gTimestampSeed
    /\ s[1] = gTimestampSeed /\ NoneStarts => s[2] = gAnchorHostTime

OneTimeline == OneTimelinePerSeed /\ TimelineInv

\* A client's last stamp is of an earlier timeline, or it is what the anchor
\* of this one gives for a time that has been.
StampInv ==
  /\ gTimestampSeed > 0
  /\ \A c \in Clients :
       LET s == stamp[c]
       IN /\ s.seed <= gTimestampSeed
          /\ s.at <= now
          /\ Asking(c) => s.at <= asked[c]
          /\ s.seed = gTimestampSeed /\ NoneStarts =>
               /\ gAnchorHostTime <= s.at
               /\ s.sample = SampleTime(s.at, gAnchorHostTime)
               /\ s.host = HostTime(s.sample, gAnchorHostTime)

IInv    == TypeOK /\ CountInv
TimeInv == StartInv /\ AskInv /\ OneTimeline /\ StampsAreCurrent /\ StampInv
FullInv == IInv /\ TimeInv

-----------------------------------------------------------------------------
(* Arithmetic.                                                             *)

LEMMA ModSmall == \A w \in Nat \ {0} : \A x \in 0 .. w - 1 : x % w = x
OBVIOUS

LEMMA ModRange == \A w \in Nat \ {0} : \A x \in Int : x % w \in 0 .. w - 1
OBVIOUS

LEMMA Floor ==
  \A w \in Nat \ {0} : \A x \in Nat :
    /\ x \div w \in Nat
    /\ (x \div w) * w <= x
    /\ x < (x \div w) * w + w
OBVIOUS

LEMMA Times ==
  \A t \in Nat : \A a, b \in Nat :
    /\ a * t \in Nat
    /\ a <= b => a * t <= b * t
    /\ (a + b) * t = a * t + b * t
OBVIOUS

LEMMA Constants ==
  /\ TicksPerFrame \in Nat \ {0} /\ Period \in Nat \ {0} /\ Wrap \in Nat \ {0}
  /\ MaxTime \in Nat /\ MaxTime < Wrap
BY ClockAssumption

\* A sample time is a natural number, even when the difference has wrapped.
LEMMA SampleIsNat ==
  ASSUME NEW t \in Int, NEW origin \in Int
  PROVE  SampleTime(t, origin) \in Nat
<1> DEFINE e == (t - origin) % Wrap
           f == e \div TicksPerFrame
<1>1. e \in Nat
  BY Constants, ModRange
<1>2. f \in Nat
  BY <1>1, Constants, Floor
<1>3. f \div Period \in Nat
  BY <1>2, Constants, Floor
<1>4. (f \div Period) * Period \in Nat
  BY <1>3, Constants, Times
<1> QED  BY <1>4 DEF SampleTime

\* Nothing wraps within the bound: the stamp is on the anchor, not in the
\* future and less than a period old.
LEMMA StampArithmetic ==
  ASSUME NEW t \in 0 .. MaxTime, NEW origin \in 0 .. MaxTime, origin <= t,
         NEW sample, sample = SampleTime(t, origin),
         NEW hostTime, hostTime = HostTime(sample, origin)
  PROVE  /\ sample \in Nat /\ hostTime \in Nat
         /\ hostTime = origin + sample * TicksPerFrame
         /\ (hostTime - sample * TicksPerFrame) % Wrap = origin
         /\ hostTime <= t
         /\ t < hostTime + Period * TicksPerFrame
<1> DEFINE e == t - origin
           f == e \div TicksPerFrame
<1>0. t \in Nat /\ origin \in Nat /\ t < Wrap /\ e \in Nat /\ e < Wrap
  BY Constants
<1>1. e % Wrap = e
  <2>1. e \in 0 .. Wrap - 1
    BY <1>0, Constants
  <2> QED  BY <2>1, Constants, ModSmall
<1>2. f \in Nat /\ f * TicksPerFrame <= e
      /\ e < f * TicksPerFrame + TicksPerFrame
  BY <1>0, Constants, Floor
<1>3. sample = (f \div Period) * Period
  BY <1>1 DEF SampleTime
<1> HIDE DEF f
<1>4. sample \in Nat /\ sample <= f /\ f < sample + Period
  <2>1. f \in Nat
    BY <1>2
  <2>2. /\ f \div Period \in Nat
        /\ (f \div Period) * Period <= f
        /\ f < (f \div Period) * Period + Period
    BY <2>1, Constants, Floor
  <2>3. sample \in Nat
    BY <1>0, SampleIsNat
  <2> QED  BY <1>3, <2>2, <2>3
<1> DEFINE k == sample * TicksPerFrame
           p == Period * TicksPerFrame
<1>5. k \in Nat /\ p \in Nat /\ k <= e /\ e < k + p
  <2>1. k \in Nat /\ p \in Nat /\ k <= f * TicksPerFrame
    BY <1>2, <1>4, Constants, Times
  <2>2. f + 1 <= sample + Period /\ sample + Period \in Nat /\ f + 1 \in Nat
    BY <1>2, <1>4, Constants
  <2>3. (f + 1) * TicksPerFrame <= (sample + Period) * TicksPerFrame
    BY <2>2, Constants, Times
  <2>4. (sample + Period) * TicksPerFrame = k + p
    BY <1>4, Constants, Times
  <2>5. (f + 1) * TicksPerFrame = f * TicksPerFrame + TicksPerFrame
    BY <1>2, Constants
  <2>6. f * TicksPerFrame \in Nat
    BY <1>2, Constants, Times
  <2> HIDE DEF k, p, e
  <2> QED  BY <2>1, <2>3, <2>4, <2>5, <2>6, <1>2, <1>0, Constants
<1>6. hostTime = origin + k
  <2>1. origin + k \in 0 .. Wrap - 1
    <3> HIDE DEF k
    <3> QED  BY <1>0, <1>5, Constants
  <2>2. (origin + k) % Wrap = origin + k
    BY <2>1, Constants, ModSmall
  <2> QED  BY <2>2 DEF HostTime
<1>7. (hostTime - k) % Wrap = origin
  <2>1. hostTime - k = origin /\ origin \in 0 .. Wrap - 1
    BY <1>0, <1>5, <1>6, Constants
  <2> QED  BY <2>1, Constants, ModSmall
<1> HIDE DEF k, p
<1>8. hostTime <= t /\ t < hostTime + p /\ hostTime \in Nat
  BY <1>0, <1>5, <1>6
<1> QED  BY <1>4, <1>6, <1>7, <1>8 DEF k, p

LEMMA DivisionGrows ==
  \A w \in Nat \ {0} : \A x, y \in Nat : x <= y => x \div w <= y \div w
OBVIOUS

\* A later question about one timeline gets no earlier period.
LEMMA StampsGrow ==
  ASSUME NEW t \in 0 .. MaxTime, NEW u \in 0 .. MaxTime, t <= u,
         NEW origin \in 0 .. MaxTime, origin <= t
  PROVE  /\ SampleTime(t, origin) <= SampleTime(u, origin)
         /\ HostTime(SampleTime(t, origin), origin)
              <= HostTime(SampleTime(u, origin), origin)
<1> DEFINE d == (t - origin) \div TicksPerFrame
           e == (u - origin) \div TicksPerFrame
<1>1. /\ t - origin \in 0 .. Wrap - 1 /\ u - origin \in 0 .. Wrap - 1
      /\ t - origin <= u - origin
  BY Constants
<1>2. (t - origin) % Wrap = t - origin /\ (u - origin) % Wrap = u - origin
  BY <1>1, Constants, ModSmall
<1>3. d \in Nat /\ e \in Nat /\ d <= e
  <2>1. t - origin \in Nat /\ u - origin \in Nat
    BY <1>1
  <2> QED  BY <1>1, <2>1, Constants, Floor, DivisionGrows
<1>4. /\ SampleTime(t, origin) = (d \div Period) * Period
      /\ SampleTime(u, origin) = (e \div Period) * Period
  BY <1>2 DEF SampleTime
<1> HIDE DEF d, e
<1>5. /\ d \div Period \in Nat /\ e \div Period \in Nat
      /\ d \div Period <= e \div Period
  BY <1>3, Constants, Floor, DivisionGrows
<1> DEFINE s == SampleTime(t, origin)
           r == SampleTime(u, origin)
<1>6. s \in Nat /\ r \in Nat /\ s <= r
  BY <1>4, <1>5, Constants, Times
<1>7. /\ HostTime(s, origin) = origin + s * TicksPerFrame
      /\ HostTime(r, origin) = origin + r * TicksPerFrame
  <2>1. origin <= u /\ t \in Nat /\ u \in Nat /\ origin \in Nat
    BY Constants
  <2> QED  BY <2>1, StampArithmetic
<1> HIDE DEF s, r
<1>8. /\ s * TicksPerFrame \in Nat /\ r * TicksPerFrame \in Nat
      /\ s * TicksPerFrame <= r * TicksPerFrame
  BY <1>6, Constants, Times
<1>9. origin \in Nat
  BY Constants
<1>10. HostTime(s, origin) <= HostTime(r, origin)
  BY <1>7, <1>8, <1>9
<1> QED  BY <1>6, <1>10 DEF s, r

-----------------------------------------------------------------------------
(* The types and the count.                                                *)

LEMMA CountedGrows ==
  ASSUME TypeOK, NEW c \in Clients, NEW step, step # "stopped", Go(c, step)
  PROVE  Counted' = Counted \cup {c}
BY DEF TypeOK, Go, Counted

LEMMA CountedShrinks ==
  ASSUME TypeOK, NEW c \in Clients, Go(c, "stopped")
  PROVE  Counted' = Counted \ {c}
BY DEF TypeOK, Go, Counted

\* A step of a client that is counted in and stays so.
LEMMA CountKept ==
  ASSUME IInv, NEW c \in Clients, NEW step, step # "stopped",
         pc[c] # "stopped", Go(c, step), gRunningClients' = gRunningClients,
         \/ step # "exchange" /\ current' = current
         \/ current' = [current EXCEPT ![c] = gRunningClients]
  PROVE  CountInv'
<1>1. Counted' = Counted
  BY CountedGrows DEF IInv, Counted
<1>2. gRunningClients > 0
  <2>1. c \in Counted /\ IsFiniteSet(Counted)
    BY DEF Counted, IInv, CountInv
  <2>2. Cardinality(Counted) # 0
    BY <2>1, FS_EmptySet
  <2> QED
    BY <2>2 DEF IInv, CountInv, RunningCountExact, TypeOK
<1>3. \A d \in Clients : pc'[d] = "exchange" => current'[d] > 0
  BY <1>2 DEF IInv, TypeOK, CountInv, Go
<1> QED
  BY <1>1, <1>3 DEF IInv, CountInv, RunningCountExact

LEMMA InitIInv == Init => IInv
<1> SUFFICES ASSUME Init  PROVE IInv
  OBVIOUS
<1>1. TypeOK
  BY Constants DEF Init, TypeOK, NoStamp
<1>2. Counted = {}
  BY DEF Init, Counted
<1>3. CountInv
  BY <1>2, FS_EmptySet DEF Init, CountInv, RunningCountExact
<1> QED  BY <1>1, <1>3 DEF IInv

LEMMA StartIOKeeps ==
  ASSUME IInv, NEW c \in Clients, StartIO(c)
  PROVE  IInv'
<1> DEFINE step == IF gRunningClients = 0 THEN "anchor" ELSE "running"
<1>1. /\ pc[c] = "stopped" /\ Go(c, step) /\ step \in {"anchor", "running"}
      /\ gRunningClients' = gRunningClients + 1
      /\ UNCHANGED <<now, gAnchorHostTime, gTimestampSeed, current, asked,
                     anchor, given>>
  BY DEF StartIO
<1> HIDE DEF step
<1>2. TypeOK'
  BY <1>1 DEF IInv, TypeOK, Go, given
<1>3. Counted' = Counted \cup {c} /\ c \notin Counted
  BY <1>1, CountedGrows DEF IInv, Counted
<1>4. IsFiniteSet(Counted') /\ Cardinality(Counted') = Cardinality(Counted) + 1
  BY <1>3, FS_AddElement DEF IInv, CountInv
<1>5. \A d \in Clients : pc'[d] = "exchange" => current'[d] > 0
  BY <1>1 DEF IInv, TypeOK, CountInv, Go
<1> QED
  BY <1>1, <1>2, <1>4, <1>5 DEF IInv, CountInv, RunningCountExact

LEMMA StopExchangesKeeps ==
  ASSUME IInv, NEW c \in Clients, StopExchanges(c)
  PROVE  IInv'
<1>0. current[c] > 0 /\ current[c] \in Nat /\ pc[c] = "exchange"
  BY DEF StopExchanges, IInv, CountInv, TypeOK
<1>1. CASE /\ current[c] = gRunningClients
           /\ gRunningClients' = current[c] - 1
           /\ current' = [current EXCEPT ![c] = 0]
           /\ Go(c, "stopped")
  <2>1. TypeOK'
    BY <1>0, <1>1 DEF IInv, TypeOK, StopExchanges, Go, given
  <2>2. Counted' = Counted \ {c} /\ c \in Counted
    BY <1>0, <1>1, CountedShrinks DEF IInv, Counted
  <2>3. IsFiniteSet(Counted')
        /\ Cardinality(Counted') = Cardinality(Counted) - 1
    BY <2>2, FS_RemoveElement DEF IInv, CountInv
  <2>4. \A d \in Clients : pc'[d] = "exchange" => current'[d] > 0
    BY <1>1 DEF IInv, TypeOK, CountInv, Go
  <2> QED
    BY <1>1, <2>1, <2>3, <2>4 DEF IInv, CountInv, RunningCountExact
<1>2. CASE /\ current' = [current EXCEPT ![c] = gRunningClients]
           /\ UNCHANGED <<gRunningClients, pc>>
  <2>1. TypeOK'
    BY <1>2 DEF IInv, TypeOK, StopExchanges, given
  <2>2. Go(c, "exchange")
    BY <1>0, <1>2 DEF Go, IInv, TypeOK
  <2> QED  BY <1>0, <1>2, <2>1, <2>2, CountKept DEF IInv
<1> QED  BY <1>0, <1>1, <1>2 DEF StopExchanges

LEMMA AnswerTypeOK ==
  ASSUME IInv, NEW c \in Clients, Answer(c)
  PROVE  TypeOK'
<1> DEFINE sample == SampleTime(asked[c], anchor[c])
           hostTime == HostTime(sample, anchor[c])
           frame0 == (hostTime - sample * TicksPerFrame) % Wrap
<1>0. /\ asked[c] \in 0 .. MaxTime /\ anchor[c] \in 0 .. MaxTime
      /\ gTimestampSeed \in Nat
  BY DEF IInv, TypeOK
<1>1. sample \in Nat
  <2>1. asked[c] \in Int /\ anchor[c] \in Int
    BY <1>0, Constants
  <2> QED  BY <2>1, SampleIsNat
<1> HIDE DEF sample
<1>2. sample * TicksPerFrame \in Nat
  BY <1>1, Constants, Times
<1>3. hostTime \in Nat
  <2>1. anchor[c] + sample * TicksPerFrame \in Int
    BY <1>0, <1>2, Constants
  <2>2. (anchor[c] + sample * TicksPerFrame) % Wrap \in 0 .. Wrap - 1
    BY <2>1, Constants, ModRange
  <2> QED  BY <2>2, Constants DEF HostTime
<1> HIDE DEF hostTime
<1>4. frame0 \in Nat
  <2>1. hostTime - sample * TicksPerFrame \in Int
    BY <1>2, <1>3
  <2>2. frame0 \in 0 .. Wrap - 1
    BY <2>1, Constants, ModRange
  <2> QED  BY <2>2, Constants
<1> HIDE DEF frame0
<1>5. /\ stamp' = [stamp EXCEPT ![c] =
                     [sample |-> sample, host |-> hostTime,
                      seed |-> gTimestampSeed, at |-> asked[c]]]
      /\ timelines' = timelines \cup {<<gTimestampSeed, frame0>>}
  BY DEF Answer, sample, hostTime, frame0
<1>6. /\ stamp' \in [Clients -> [sample : Nat, host : Nat, seed : Nat,
                                 at : Nat]]
      /\ timelines' \subseteq Nat \X Nat
  BY <1>0, <1>1, <1>3, <1>4, <1>5 DEF IInv, TypeOK
<1> QED  BY <1>6, Constants DEF Answer, IInv, TypeOK, clock, Go

LEMMA NextIInv == IInv /\ [Next]_vars => IInv'
<1> SUFFICES ASSUME IInv, [Next]_vars  PROVE IInv'
  OBVIOUS
<1>1. CASE TimePasses
  <2>1. TypeOK'
    BY <1>1, Constants DEF TimePasses, IInv, TypeOK, clock, call, given
  <2> QED
    BY <1>1, <2>1
    DEF TimePasses, IInv, CountInv, RunningCountExact, Counted, clock, call
<1>2. ASSUME NEW c \in Clients, StartIO(c)  PROVE IInv'
  BY <1>2, StartIOKeeps
<1>3. ASSUME NEW c \in Clients, StopIO(c)  PROVE IInv'
  <2>1. TypeOK'
    BY <1>3 DEF StopIO, IInv, TypeOK, Go, clock, given
  <2>2. CountInv'
    BY <1>3, CountKept DEF StopIO, clock
  <2> QED  BY <2>1, <2>2 DEF IInv
<1>4. ASSUME NEW c \in Clients, Ask(c)  PROVE IInv'
  <2>1. TypeOK'
    BY <1>4 DEF Ask, IInv, TypeOK, Go, clock, given
  <2>2. CountInv'
    BY <1>4, CountKept DEF Ask, clock
  <2> QED  BY <2>1, <2>2 DEF IInv
<1>5. ASSUME NEW c \in Clients, StartStep(c)  PROVE IInv'
  <2>1. TypeOK'
    <3>1. CASE StartReadsClock(c)
      BY <3>1, Constants DEF StartReadsClock, IInv, TypeOK, Go, clock, given
    <3>2. CASE StartStoresAnchor(c)
      BY <3>2, Constants DEF StartStoresAnchor, IInv, TypeOK, Go, given
    <3>3. CASE StartBumpsSeed(c)
      BY <3>3 DEF StartBumpsSeed, IInv, TypeOK, Go, given
    <3> QED  BY <1>5, <3>1, <3>2, <3>3 DEF StartStep
  <2>2. CountInv'
    BY <1>5, CountKept
    DEF StartStep, StartReadsClock, StartStoresAnchor, StartBumpsSeed, clock
  <2> QED  BY <2>1, <2>2 DEF IInv
<1>6. ASSUME NEW c \in Clients, StopStep(c)  PROVE IInv'
  <2>1. CASE StopLoads(c)
    <3>1. TypeOK'
      BY <2>1 DEF StopLoads, IInv, TypeOK, Go, clock, given
    <3>2. CountInv'
      BY <2>1, CountKept DEF StopLoads, clock
    <3> QED  BY <3>1, <3>2 DEF IInv
  <2> QED  BY <1>6, <2>1, StopExchangesKeeps DEF StopStep
<1>7. ASSUME NEW c \in Clients, AskStep(c)  PROVE IInv'
  <2>1. CASE AskLoadsAnchor(c)
    <3>1. TypeOK'
      BY <2>1 DEF AskLoadsAnchor, IInv, TypeOK, Go, clock, given
    <3>2. CountInv'
      BY <2>1, CountKept DEF AskLoadsAnchor, clock
    <3> QED  BY <3>1, <3>2 DEF IInv
  <2>2. CASE Answer(c)
    <3>1. CountInv'
      BY <2>2, CountKept DEF Answer, clock
    <3> QED  BY <2>2, <3>1, AnswerTypeOK DEF IInv
  <2> QED  BY <1>7, <2>1, <2>2 DEF AskStep
<1>8. CASE UNCHANGED vars
  BY <1>8
  DEF vars, clock, call, given, IInv, TypeOK, CountInv, RunningCountExact,
      Counted
<1> QED
  BY <1>1, <1>2, <1>3, <1>4, <1>5, <1>6, <1>7, <1>8 DEF Next

-----------------------------------------------------------------------------
(* The timeline, when the host runs one StartIO of the device at a time.   *)

LEMMA InitFullInv == Init => FullInv
<1> SUFFICES ASSUME Init  PROVE FullInv
  OBVIOUS
<1>1. StartInv /\ AskInv
  BY DEF Init, StartInv, AskInv, Asking, Starting
<1>2. OneTimeline
  BY DEF Init, OneTimeline, OneTimelinePerSeed, TimelineInv
<1>3. StampsAreCurrent /\ StampInv
  BY DEF Init, StampsAreCurrent, StampInv, NoStamp, Asking
<1> QED  BY <1>1, <1>2, <1>3, InitIInv DEF FullInv, TimeInv

\* Nobody begins a timeline while a client runs, stops or asks.
LEMMA RunningAlone ==
  ASSUME FullInv, NEW c \in Clients, pc[c] \notin Starting, pc[c] # "stopped"
  PROVE  NoneStarts
<1>1. c \in Counted
  BY DEF Counted
<1> QED  BY <1>1 DEF NoneStarts, FullInv, TimeInv, StartInv

\* A client that begins a timeline is the only one that is counted in.
LEMMA StarterAlone ==
  ASSUME FullInv, NEW c \in Clients, pc[c] \in Starting
  PROVE  \A d \in Clients : d # c => pc[d] = "stopped"
<1>1. Counted = {c}
  BY DEF FullInv, TimeInv, StartInv
<1> QED  BY <1>1 DEF Counted

\* Steps that hand out no stamp and leave the anchor and the seed alone.
LEMMA TimelineKept ==
  ASSUME FullInv, NoneStarts,
         UNCHANGED <<gAnchorHostTime, gTimestampSeed, timelines>>
  PROVE  OneTimeline'
BY DEF FullInv, TimeInv, OneTimeline, OneTimelinePerSeed, TimelineInv

LEMMA TimePassesKeeps ==
  ASSUME FullInv, TimePasses
  PROVE  TimeInv'
<1>1. /\ now' = now + 1 /\ now \in Nat
      /\ UNCHANGED <<gRunningClients, gAnchorHostTime, gTimestampSeed, pc,
                     current, asked, anchor, stamp, timelines>>
  BY Constants DEF TimePasses, clock, call, given, FullInv, IInv, TypeOK
<1>2. gAnchorHostTime \in Nat /\ asked \in [Clients -> 0 .. MaxTime]
      /\ stamp \in [Clients -> [sample : Nat, host : Nat, seed : Nat, at : Nat]]
  BY Constants DEF FullInv, IInv, TypeOK
<1>3. StartInv'
  BY <1>1, <1>2, Constants DEF FullInv, TimeInv, StartInv, Counted
<1>4. AskInv'
  BY <1>1, <1>2, Constants DEF FullInv, TimeInv, AskInv, Asking
<1>5. OneTimeline' /\ StampsAreCurrent'
  BY <1>1 DEF FullInv, TimeInv, OneTimeline, OneTimelinePerSeed, TimelineInv,
              StampsAreCurrent, NoneStarts
<1>6. StampInv'
  <2> SUFFICES ASSUME NEW c \in Clients
               PROVE  LET s == stamp[c]
                      IN /\ s.seed <= gTimestampSeed
                         /\ s.at <= now'
                         /\ Asking(c) => s.at <= asked[c]
                         /\ s.seed = gTimestampSeed /\ NoneStarts =>
                              /\ gAnchorHostTime <= s.at
                              /\ s.sample = SampleTime(s.at, gAnchorHostTime)
                              /\ s.host = HostTime(s.sample, gAnchorHostTime)
    BY <1>1 DEF FullInv, TimeInv, StampInv, Asking, NoneStarts
  <2>1. stamp[c].at \in Nat /\ stamp[c].at <= now
    BY <1>2 DEF FullInv, TimeInv, StampInv
  <2> QED  BY <1>1, <2>1 DEF FullInv, TimeInv, StampInv
<1> QED  BY <1>3, <1>4, <1>5, <1>6 DEF TimeInv

\* A client comes in: to a timeline that runs, or alone.
LEMMA StartIOKeepsTime ==
  ASSUME HostSerializes, FullInv, NEW c \in Clients, StartIO(c)
  PROVE  TimeInv'
<1>1. /\ NoneStarts /\ pc[c] = "stopped"
      /\ UNCHANGED <<now, gAnchorHostTime, gTimestampSeed, current, asked,
                     anchor, stamp, timelines>>
  BY DEF StartIO, NoneStarts, given
<1>2. pc' = [pc EXCEPT ![c] = IF gRunningClients = 0 THEN "anchor"
                                                      ELSE "running"]
  BY DEF StartIO, Go
<1>3. pc \in [Clients -> {"stopped", "running", "anchor", "stamp", "seed",
                          "load", "exchange", "origin", "answer"}]
  BY DEF FullInv, IInv, TypeOK
<1>4. \A d \in Clients : pc'[d] \in Starting => Counted' = {d}
  <2> SUFFICES ASSUME NEW d \in Clients, pc'[d] \in Starting
               PROVE  Counted' = {d}
    OBVIOUS
  <2>1. d = c /\ gRunningClients = 0
    BY <1>1, <1>2, <1>3 DEF NoneStarts, Starting
  <2>2. Counted = {}
    BY <2>1, FS_EmptySet DEF FullInv, IInv, CountInv, RunningCountExact
  <2> QED  BY <1>2, <1>3, <2>1, <2>2 DEF Counted
<1>5. StartInv'
  BY <1>1, <1>2, <1>3, <1>4 DEF FullInv, TimeInv, StartInv
<1>6. AskInv'
  BY <1>1, <1>2, <1>3 DEF FullInv, TimeInv, AskInv, Asking
<1>7. StampsAreCurrent'
  BY <1>1 DEF FullInv, TimeInv, StampsAreCurrent
<1>8. StampInv'
  BY <1>1, <1>2, <1>3 DEF FullInv, TimeInv, StampInv, Asking
<1> QED  BY <1>1, <1>5, <1>6, <1>7, <1>8, TimelineKept DEF TimeInv

PcTypeOK ==
  pc \in [Clients -> {"stopped", "running", "anchor", "stamp", "seed",
                      "load", "exchange", "origin", "answer"}]

LEMMA PcTypes == FullInv => PcTypeOK
BY DEF FullInv, IInv, TypeOK, PcTypeOK

\* A client begins a timeline: the others are all out.
LEMMA StartStepKeepsTime ==
  ASSUME FullInv, NEW c \in Clients, StartStep(c)
  PROVE  TimeInv'
<1>1. /\ pc[c] \in Starting /\ PcTypeOK
      /\ \A d \in Clients : d # c => pc[d] = "stopped"
      /\ UNCHANGED <<now, stamp, timelines>>
  BY PcTypes, StarterAlone
  DEF StartStep, StartReadsClock, StartStoresAnchor, StartBumpsSeed, Starting,
      given
<1>2. \A d \in Clients : d # c => pc'[d] = "stopped"
  BY <1>1
  DEF StartStep, StartReadsClock, StartStoresAnchor, StartBumpsSeed, Go,
      PcTypeOK
<1>3. pc'[c] \in {"stamp", "seed", "running"}
  BY <1>1
  DEF StartStep, StartReadsClock, StartStoresAnchor, StartBumpsSeed, Go,
      PcTypeOK
<1>4. Counted' = {c}
  BY <1>2, <1>3 DEF Counted
<1>5. AskInv' /\ \A d \in Clients : ~Asking(d)'
  BY <1>2, <1>3 DEF AskInv, Asking
<1>6. StampsAreCurrent'
  BY <1>1 DEF FullInv, TimeInv, StampsAreCurrent
<1>7. CASE StartReadsClock(c)
  <2>1. /\ pc'[c] = "stamp" /\ asked'[c] = now
        /\ UNCHANGED <<gAnchorHostTime, gTimestampSeed>>
    BY <1>1, <1>7 DEF StartReadsClock, Go, PcTypeOK, clock, FullInv, IInv, TypeOK
  <2>2. now \in Nat
    BY Constants DEF FullInv, IInv, TypeOK
  <2>3. StartInv'
    BY <1>1, <1>2, <1>4, <2>1, <2>2 DEF FullInv, TimeInv, StartInv, Starting
  <2>4. ~NoneStarts /\ ~NoneStarts'
    BY <1>1, <2>1 DEF NoneStarts, Starting
  <2>5. OneTimeline'
    BY <1>1, <2>1, <2>4
    DEF FullInv, TimeInv, OneTimeline, OneTimelinePerSeed, TimelineInv
  <2>6. StampInv'
    BY <1>1, <1>5, <2>1, <2>4 DEF FullInv, TimeInv, StampInv
  <2> QED  BY <1>5, <1>6, <2>3, <2>5, <2>6 DEF TimeInv
<1>8. CASE StartStoresAnchor(c)
  <2>1. /\ pc'[c] = "seed" /\ gAnchorHostTime' = asked[c] /\ pc[c] = "stamp"
        /\ UNCHANGED gTimestampSeed
    BY <1>1, <1>8 DEF StartStoresAnchor, Go, PcTypeOK
  <2>2. StartInv'
    BY <1>1, <1>2, <1>4, <2>1 DEF FullInv, TimeInv, StartInv, Starting
  <2>4. ~NoneStarts /\ ~NoneStarts'
    BY <1>1, <2>1 DEF NoneStarts, Starting
  <2>5. OneTimeline'
    BY <1>1, <2>1, <2>4
    DEF FullInv, TimeInv, OneTimeline, OneTimelinePerSeed, TimelineInv
  <2>6. StampInv'
    BY <1>1, <1>5, <2>1, <2>4 DEF FullInv, TimeInv, StampInv
  <2> QED  BY <1>5, <1>6, <2>2, <2>5, <2>6 DEF TimeInv
<1>9. CASE StartBumpsSeed(c)
  <2>1. /\ pc'[c] = "running" /\ gTimestampSeed' = gTimestampSeed + 1
        /\ gTimestampSeed \in Nat
        /\ UNCHANGED <<gAnchorHostTime, asked>>
    BY <1>1, <1>9 DEF StartBumpsSeed, Go, PcTypeOK, FullInv, IInv, TypeOK
  <2>2. StartInv'
    BY <1>1, <1>2, <2>1 DEF FullInv, TimeInv, StartInv, Starting
  <2>3. \A s \in timelines : s[1] \in Nat /\ s[1] <= gTimestampSeed
    BY DEF FullInv, IInv, TypeOK, TimeInv, OneTimeline, TimelineInv
  <2>4. \A s \in timelines : s[1] # gTimestampSeed' /\ s[1] <= gTimestampSeed'
    BY <2>1, <2>3
  <2>5. OneTimeline'
    BY <1>1, <2>4
    DEF FullInv, TimeInv, OneTimeline, OneTimelinePerSeed, TimelineInv
  <2>6. \A d \in Clients : /\ stamp[d].seed # gTimestampSeed'
                           /\ stamp[d].seed <= gTimestampSeed'
    <3>1. \A d \in Clients : /\ stamp[d].seed \in Nat
                             /\ stamp[d].seed <= gTimestampSeed
      BY DEF FullInv, IInv, TypeOK, TimeInv, StampInv
    <3> QED  BY <2>1, <3>1
  <2>7. StampInv'
    BY <1>1, <1>5, <2>1, <2>6 DEF FullInv, TimeInv, StampInv
  <2> QED  BY <1>5, <1>6, <2>2, <2>5, <2>7 DEF TimeInv
<1> QED  BY <1>7, <1>8, <1>9 DEF StartStep

\* A client that runs goes on, without asking and without a stamp.
LEMMA PlainStepKeepsTime ==
  ASSUME FullInv, NEW c \in Clients, NEW step,
         step \in {"stopped", "running", "load", "exchange"}, Go(c, step),
         pc[c] \notin Starting, pc[c] # "stopped",
         UNCHANGED <<now, gAnchorHostTime, gTimestampSeed, asked, anchor, given>>
  PROVE  TimeInv'
<1>1. NoneStarts /\ PcTypeOK
  BY RunningAlone, PcTypes
<1>2. NoneStarts'
  BY <1>1 DEF NoneStarts, Starting, Go, PcTypeOK
<1>3. \A d \in Clients : /\ Asking(d)' => Asking(d)
                         /\ pc'[d] = "answer" => pc[d] = "answer"
  BY <1>1 DEF Asking, Go, PcTypeOK
<1>4. StartInv'
  BY <1>2 DEF FullInv, TimeInv, StartInv, NoneStarts, Starting
<1>5. AskInv'
  BY <1>3 DEF FullInv, TimeInv, AskInv
<1>6. StampsAreCurrent'
  BY DEF FullInv, TimeInv, StampsAreCurrent, given
<1>7. StampInv'
  BY <1>1, <1>3 DEF FullInv, TimeInv, StampInv, given
<1> QED  BY <1>1, <1>4, <1>5, <1>6, <1>7, TimelineKept DEF TimeInv, given

LEMMA AskKeepsTime ==
  ASSUME FullInv, NEW c \in Clients, Ask(c) \/ AskLoadsAnchor(c)
  PROVE  TimeInv'
<1>0. pc[c] \in {"running", "origin"}
      /\ UNCHANGED <<now, gAnchorHostTime, gTimestampSeed, stamp, timelines>>
  BY DEF Ask, AskLoadsAnchor, clock, given
<1>1. NoneStarts /\ PcTypeOK
  BY <1>0, RunningAlone, PcTypes DEF Starting
<1>2. NoneStarts'
  BY <1>1 DEF NoneStarts, Starting, Ask, AskLoadsAnchor, Go, PcTypeOK
<1>3. /\ asked'[c] \in {now, asked[c]}
      /\ Ask(c) => asked'[c] = now /\ pc'[c] = "origin"
      /\ AskLoadsAnchor(c) => /\ pc[c] = "origin"
                              /\ asked'[c] = asked[c]
                              /\ anchor'[c] = gAnchorHostTime
      /\ \A d \in Clients : d # c =>
           asked'[d] = asked[d] /\ anchor'[d] = anchor[d] /\ pc'[d] = pc[d]
  BY <1>1 DEF Ask, AskLoadsAnchor, FullInv, IInv, TypeOK, PcTypeOK, Go
<1>4. now \in Nat /\ gAnchorHostTime \in Nat
  BY Constants DEF FullInv, IInv, TypeOK
<1>5. StartInv'
  BY <1>0, <1>2 DEF FullInv, TimeInv, StartInv, NoneStarts, Starting
<1>6. AskInv'
  <2> SUFFICES ASSUME NEW d \in Clients
               PROVE  /\ Asking(d)' => /\ gAnchorHostTime <= asked'[d]
                                       /\ asked'[d] <= now
                      /\ pc'[d] = "answer" => anchor'[d] = gAnchorHostTime
    BY <1>0 DEF AskInv
  <2>1. CASE d # c
    BY <1>3, <2>1 DEF FullInv, TimeInv, AskInv, Asking
  <2>2. CASE d = c /\ Ask(c)
    BY <1>3, <1>4, <2>2 DEF FullInv, TimeInv, StartInv
  <2>3. CASE d = c /\ AskLoadsAnchor(c)
    BY <1>3, <2>3 DEF FullInv, TimeInv, AskInv, Asking
  <2> QED  BY <2>1, <2>2, <2>3
<1>7. StampsAreCurrent'
  BY <1>0 DEF FullInv, TimeInv, StampsAreCurrent
<1>8. StampInv'
  <2>1. \A d \in Clients : Asking(d)' => stamp[d].at <= asked'[d]
    BY <1>3 DEF FullInv, TimeInv, StampInv, Asking
  <2> QED  BY <1>0, <1>1, <2>1 DEF FullInv, TimeInv, StampInv
<1> QED  BY <1>0, <1>1, <1>5, <1>6, <1>7, <1>8, TimelineKept DEF TimeInv

\* What a client is handed: the stamp of the running timeline for the time at
\* which it asked.
LEMMA AnswerIsOnTime ==
  ASSUME FullInv, NEW c \in Clients, Answer(c)
  PROVE  LET s == stamp'[c]
         IN /\ stamp' = [stamp EXCEPT ![c] = s]
            /\ timelines' = timelines \cup {<<gTimestampSeed, gAnchorHostTime>>}
            /\ s.at = asked[c] /\ s.seed = gTimestampSeed
            /\ s.sample = SampleTime(asked[c], gAnchorHostTime)
            /\ s.host = HostTime(s.sample, gAnchorHostTime)
            /\ s.host <= s.at /\ s.at < s.host + Period * TicksPerFrame
            /\ gAnchorHostTime <= asked[c] /\ asked[c] <= now
<1> DEFINE sample == SampleTime(asked[c], anchor[c])
           hostTime == HostTime(sample, anchor[c])
           new == [sample |-> sample, host |-> hostTime,
                   seed |-> gTimestampSeed, at |-> asked[c]]
<1>1. /\ anchor[c] = gAnchorHostTime /\ gAnchorHostTime <= asked[c]
      /\ asked[c] <= now
      /\ asked[c] \in 0 .. MaxTime /\ anchor[c] \in 0 .. MaxTime
  BY DEF Answer, FullInv, TimeInv, AskInv, Asking, IInv, TypeOK
<1>2. /\ (hostTime - sample * TicksPerFrame) % Wrap = anchor[c]
      /\ hostTime <= asked[c]
      /\ asked[c] < hostTime + Period * TicksPerFrame
  BY <1>1, StampArithmetic
<1> HIDE DEF sample, hostTime
<1>3. stamp' = [stamp EXCEPT ![c] = new]
  BY DEF Answer, sample, hostTime
<1>4. stamp'[c] = new
  BY <1>3 DEF FullInv, IInv, TypeOK
<1>5. timelines' = timelines \cup {<<gTimestampSeed, gAnchorHostTime>>}
  BY <1>1, <1>2 DEF Answer, sample, hostTime
<1>6. /\ stamp'[c].at = asked[c] /\ stamp'[c].seed = gTimestampSeed
      /\ stamp'[c].sample = sample /\ stamp'[c].host = hostTime
  BY <1>4
<1>7. /\ sample = SampleTime(asked[c], gAnchorHostTime)
      /\ hostTime = HostTime(sample, gAnchorHostTime)
  BY <1>1 DEF sample, hostTime
<1> HIDE DEF new
<1> QED  BY <1>1, <1>2, <1>3, <1>4, <1>5, <1>6, <1>7

LEMMA AnswerKeepsTime ==
  ASSUME FullInv, NEW c \in Clients, Answer(c)
  PROVE  TimeInv'
<1> DEFINE new == stamp'[c]
<1>0. /\ pc[c] = "answer" /\ Go(c, "running")
      /\ UNCHANGED <<now, gAnchorHostTime, gTimestampSeed>>
      /\ asked' = [asked EXCEPT ![c] = 0]
      /\ anchor' = [anchor EXCEPT ![c] = 0]
  BY DEF Answer, clock
<1>1. NoneStarts /\ PcTypeOK
  BY <1>0, RunningAlone, PcTypes DEF Starting
<1>2. NoneStarts'
  BY <1>0, <1>1 DEF NoneStarts, Starting, Go, PcTypeOK
<1>3. /\ ~Asking(c)'
      /\ \A d \in Clients : d # c =>
           asked'[d] = asked[d] /\ anchor'[d] = anchor[d] /\ pc'[d] = pc[d]
  BY <1>0, <1>1 DEF FullInv, IInv, TypeOK, PcTypeOK, Go, Asking
<1>4. /\ stamp' = [stamp EXCEPT ![c] = new]
      /\ timelines' = timelines \cup {<<gTimestampSeed, gAnchorHostTime>>}
      /\ new.at = asked[c] /\ new.seed = gTimestampSeed
      /\ new.sample = SampleTime(asked[c], gAnchorHostTime)
      /\ new.host = HostTime(new.sample, gAnchorHostTime)
      /\ new.host <= new.at /\ new.at < new.host + Period * TicksPerFrame
      /\ gAnchorHostTime <= asked[c] /\ asked[c] <= now
  BY AnswerIsOnTime
<1>5. \A d \in Clients : d # c => stamp'[d] = stamp[d]
  BY <1>4 DEF FullInv, IInv, TypeOK
<1>6. gTimestampSeed \in Nat
  BY DEF FullInv, IInv, TypeOK
<1> HIDE DEF new
<1>7. StartInv'
  BY <1>0, <1>2 DEF FullInv, TimeInv, StartInv, NoneStarts, Starting
<1>8. AskInv'
  BY <1>0, <1>3 DEF FullInv, TimeInv, AskInv, Asking
<1>9. OneTimeline'
  <2> DEFINE mine == <<gTimestampSeed, gAnchorHostTime>>
  <2>1. \A s \in timelines : /\ s[1] <= gTimestampSeed
                             /\ s[1] = gTimestampSeed => s[2] = gAnchorHostTime
    BY <1>1 DEF FullInv, IInv, TypeOK, TimeInv, OneTimeline, TimelineInv
  <2>2. ASSUME NEW s \in timelines, s[1] = gTimestampSeed  PROVE s = mine
    <3>1. s[2] = gAnchorHostTime /\ s \in Nat \X Nat
      BY <2>1, <2>2 DEF FullInv, IInv, TypeOK
    <3> QED  BY <2>2, <3>1
  <2>3. \A s, t \in timelines : s[1] = t[1] => s = t
    BY DEF FullInv, TimeInv, OneTimeline, OneTimelinePerSeed
  <2>4. mine[1] = gTimestampSeed /\ mine[2] = gAnchorHostTime
    OBVIOUS
  <2>5. timelines' = timelines \cup {mine}
    BY <1>4
  <2> HIDE DEF mine
  <2>6. OneTimelinePerSeed'
    BY <2>2, <2>3, <2>4, <2>5 DEF OneTimelinePerSeed
  <2>7. TimelineInv'
    <3>1. ASSUME NEW s \in timelines'
          PROVE  /\ s[1] <= gTimestampSeed
                 /\ s[1] = gTimestampSeed => s[2] = gAnchorHostTime
      <4>1. CASE s = mine
        BY <1>6, <2>4, <4>1
      <4>2. CASE s \in timelines
        BY <2>1, <4>2
      <4> QED  BY <2>5, <3>1, <4>1, <4>2
    <3>2. gTimestampSeed' = gTimestampSeed /\ gAnchorHostTime' = gAnchorHostTime
      BY <1>0
    <3> QED  BY <3>1, <3>2 DEF TimelineInv
  <2> QED  BY <2>6, <2>7 DEF OneTimeline
<1>10. StampsAreCurrent'
  <2> SUFFICES ASSUME NEW d \in Clients, stamp'[d] # NoStamp
               PROVE  /\ stamp'[d].host <= stamp'[d].at
                      /\ stamp'[d].at < stamp'[d].host + Period * TicksPerFrame
    BY DEF StampsAreCurrent
  <2>1. CASE d = c
    BY <1>4, <2>1 DEF new
  <2>2. CASE d # c
    BY <1>5, <2>2 DEF FullInv, TimeInv, StampsAreCurrent
  <2> QED  BY <2>1, <2>2
<1>11. StampInv'
  <2> SUFFICES ASSUME NEW d \in Clients
               PROVE  LET s == stamp'[d]
                      IN /\ s.seed <= gTimestampSeed
                         /\ s.at <= now
                         /\ Asking(d)' => s.at <= asked'[d]
                         /\ s.seed = gTimestampSeed =>
                              /\ gAnchorHostTime <= s.at
                              /\ s.sample = SampleTime(s.at, gAnchorHostTime)
                              /\ s.host = HostTime(s.sample, gAnchorHostTime)
    BY <1>0 DEF StampInv, FullInv, TimeInv
  <2>1. CASE d = c
    BY <1>3, <1>4, <1>6, <2>1 DEF new
  <2>2. CASE d # c
    BY <1>1, <1>3, <1>5, <2>2 DEF FullInv, TimeInv, StampInv, Asking
  <2> QED  BY <2>1, <2>2
<1> QED  BY <1>7, <1>8, <1>9, <1>10, <1>11 DEF TimeInv

LEMMA NextFullInv ==
  ASSUME HostSerializes
  PROVE  FullInv /\ [Next]_vars => FullInv'
<1> SUFFICES ASSUME FullInv, [Next]_vars  PROVE FullInv'
  OBVIOUS
<1>0. IInv'
  BY NextIInv DEF FullInv
<1>1. CASE TimePasses
  BY <1>0, <1>1, TimePassesKeeps DEF FullInv
<1>2. ASSUME NEW c \in Clients, StartIO(c)  PROVE FullInv'
  BY <1>0, <1>2, StartIOKeepsTime DEF FullInv
<1>3. ASSUME NEW c \in Clients, StopIO(c) \/ StopStep(c)  PROVE FullInv'
  <2>1. /\ pc[c] \notin Starting /\ pc[c] # "stopped"
        /\ UNCHANGED <<now, gAnchorHostTime, gTimestampSeed, asked, anchor, given>>
    BY <1>3 DEF StopIO, StopStep, StopLoads, StopExchanges, Starting, clock
  <2>2. Go(c, "load") \/ Go(c, "exchange") \/ Go(c, "stopped")
    BY <1>3, PcTypes
    DEF StopIO, StopStep, StopLoads, StopExchanges, Go, PcTypeOK
  <2> QED  BY <1>0, <2>1, <2>2, PlainStepKeepsTime DEF FullInv
<1>4. ASSUME NEW c \in Clients, Ask(c) \/ AskLoadsAnchor(c)  PROVE FullInv'
  BY <1>0, <1>4, AskKeepsTime DEF FullInv
<1>5. ASSUME NEW c \in Clients, StartStep(c)  PROVE FullInv'
  BY <1>0, <1>5, StartStepKeepsTime DEF FullInv
<1>6. ASSUME NEW c \in Clients, Answer(c)  PROVE FullInv'
  BY <1>0, <1>6, AnswerKeepsTime DEF FullInv
<1>7. CASE UNCHANGED vars
  BY <1>0, <1>7
  DEF vars, clock, call, given, FullInv, TimeInv, StartInv, AskInv,
      OneTimeline, OneTimelinePerSeed, TimelineInv, StampsAreCurrent, StampInv,
      Counted, Asking, NoneStarts
<1> QED
  BY <1>1, <1>2, <1>3, <1>4, <1>5, <1>6, <1>7 DEF Next, AskStep

-----------------------------------------------------------------------------
\* The clock, the calls under way and the stamps have their types, whatever
\* the host runs at once.
THEOREM TypeCorrect == Spec => []TypeOK
<1>1. IInv => TypeOK
  BY DEF IInv
<1> QED  BY <1>1, InitIInv, NextIInv, PTL DEF Spec

\* Any number of starts and stops, in any order, keep the count: no decrement
\* is lost in the loop of StopIO, and none happens at zero.
THEOREM RunningCountIsExact == Spec => []RunningCountExact
<1>1. IInv => RunningCountExact
  BY DEF IInv, CountInv
<1> QED  BY <1>1, InitIInv, NextIInv, PTL DEF Spec

\* No two stamps with one seed lie on different timelines, for a host that runs
\* one StartIO of the device at a time.
THEOREM SeedsHaveOneTimeline == HostSerializes => (Spec => []OneTimelinePerSeed)
<1> SUFFICES ASSUME HostSerializes  PROVE Spec => []OneTimelinePerSeed
  OBVIOUS
<1>1. FullInv => OneTimelinePerSeed
  BY DEF FullInv, TimeInv, OneTimeline
<1> QED  BY <1>1, InitFullInv, NextFullInv, PTL DEF Spec

\* A stamp names the period that ran when the client asked.
THEOREM StampsStayCurrent == HostSerializes => (Spec => []StampsAreCurrent)
<1> SUFFICES ASSUME HostSerializes  PROVE Spec => []StampsAreCurrent
  OBVIOUS
<1>1. FullInv => StampsAreCurrent
  BY DEF FullInv, TimeInv
<1> QED  BY <1>1, InitFullInv, NextFullInv, PTL DEF Spec

LEMMA StampForward ==
  ASSUME FullInv, [Next]_vars, NEW c \in Clients, stamp[c] # NoStamp
  PROVE  \/ stamp'[c].seed > stamp[c].seed
         \/ /\ stamp'[c].seed = stamp[c].seed
            /\ stamp'[c].sample >= stamp[c].sample
            /\ stamp'[c].host >= stamp[c].host
<1>0. stamp \in [Clients -> [sample : Nat, host : Nat, seed : Nat, at : Nat]]
  BY DEF FullInv, IInv, TypeOK
<1>1. CASE stamp'[c] = stamp[c]
  BY <1>0, <1>1
<1>2. CASE Answer(c)
  <2>1. /\ stamp'[c].seed = gTimestampSeed
        /\ stamp'[c].sample = SampleTime(asked[c], gAnchorHostTime)
        /\ stamp'[c].host = HostTime(stamp'[c].sample, gAnchorHostTime)
    BY <1>2, AnswerIsOnTime
  <2>2. NoneStarts /\ Asking(c)
    BY <1>2, RunningAlone DEF Answer, Starting, Asking
  <2>3. /\ stamp[c].seed \in Nat /\ gTimestampSeed \in Nat
        /\ stamp[c].seed <= gTimestampSeed /\ stamp[c].at \in Nat
        /\ stamp[c].at <= asked[c] /\ asked[c] \in 0 .. MaxTime
        /\ gAnchorHostTime \in 0 .. MaxTime
    BY <1>0, <2>2 DEF FullInv, TimeInv, StampInv, IInv, TypeOK
  <2>4. CASE stamp[c].seed < gTimestampSeed
    BY <2>1, <2>3, <2>4
  <2>5. CASE stamp[c].seed = gTimestampSeed
    <3>1. /\ gAnchorHostTime <= stamp[c].at
          /\ stamp[c].sample = SampleTime(stamp[c].at, gAnchorHostTime)
          /\ stamp[c].host = HostTime(stamp[c].sample, gAnchorHostTime)
      BY <2>2, <2>5 DEF FullInv, TimeInv, StampInv
    <3>2. stamp[c].at \in 0 .. MaxTime
      BY <2>3, Constants
    <3>3. stamp[c].sample <= stamp'[c].sample /\ stamp[c].host <= stamp'[c].host
      BY <2>1, <2>3, <3>1, <3>2, StampsGrow
    <3>4. /\ stamp[c].sample \in Nat /\ stamp[c].host \in Nat
          /\ stamp'[c].sample \in Nat /\ stamp'[c].host \in Nat
      <4>1. TypeOK'
        BY NextIInv DEF FullInv, IInv
      <4> QED  BY <1>0, <4>1 DEF TypeOK
    <3> QED  BY <2>1, <2>5, <3>3, <3>4
  <2> QED  BY <2>3, <2>4, <2>5
<1>3. ASSUME NEW d \in Clients, d # c, Answer(d)
      PROVE  stamp'[c] = stamp[c]
  BY <1>0, <1>3, AnswerIsOnTime
<1>4. ASSUME ~\E d \in Clients : Answer(d)
      PROVE  stamp' = stamp
  BY <1>4
  DEF Next, vars, given, TimePasses, StartIO, StopIO, Ask, StartStep, StopStep,
      AskStep, StartReadsClock, StartStoresAnchor, StartBumpsSeed, StopLoads,
      StopExchanges, AskLoadsAnchor
<1> QED  BY <1>1, <1>2, <1>3, <1>4

\* No client is handed a stamp that goes back: not in the seed, and within a
\* seed neither in the sample time nor in the host time.
THEOREM StampsGoForward == HostSerializes => (Spec => StampsNeverGoBack)
<1> SUFFICES ASSUME HostSerializes  PROVE Spec => StampsNeverGoBack
  OBVIOUS
<1>1. FullInv /\ [Next]_vars =>
        [\A c \in Clients :
           stamp[c] # NoStamp =>
             \/ stamp'[c].seed > stamp[c].seed
             \/ /\ stamp'[c].seed = stamp[c].seed
                /\ stamp'[c].sample >= stamp[c].sample
                /\ stamp'[c].host >= stamp[c].host]_vars
  BY StampForward
<1> QED
  BY <1>1, InitFullInv, NextFullInv, PTL DEF Spec, StampsNeverGoBack

-----------------------------------------------------------------------------
(* The refinement.  The second part of the invariant says that a timeline  *)
(* begins after all that was asked of those before it.                     *)

BeginsLater ==
  \A c, d \in Clients :
    /\ pc[c] = "stamp" => stamp[d].at <= asked[c] /\ gAnchorHostTime <= asked[c]
    /\ pc[c] = "seed" => stamp[d].at <= gAnchorHostTime

RefInv == FullInv /\ BeginsLater

LEMMA InitRefInv == Init => RefInv
<1> SUFFICES ASSUME Init  PROVE RefInv
  OBVIOUS
<1>1. BeginsLater
  BY DEF Init, BeginsLater
<1> QED  BY <1>1, InitFullInv DEF RefInv

LEMMA NextRefInv ==
  ASSUME HostSerializes
  PROVE  RefInv /\ [Next]_vars => RefInv'
<1> SUFFICES ASSUME RefInv, [Next]_vars  PROVE BeginsLater'
  BY NextFullInv DEF RefInv
<1>0. /\ PcTypeOK /\ FullInv /\ FullInv' /\ PcTypeOK'
  BY PcTypes, NextFullInv DEF RefInv, PcTypeOK, FullInv, IInv, TypeOK
<1>1. ASSUME NoneStarts'  PROVE BeginsLater'
  BY <1>1 DEF NoneStarts, Starting, BeginsLater
<1>2. ASSUME NEW c \in Clients, StartReadsClock(c)  PROVE BeginsLater'
  <2>1. /\ pc[c] \in Starting /\ pc'[c] = "stamp" /\ asked'[c] = now
        /\ \A d \in Clients : d # c => pc'[d] = pc[d]
        /\ UNCHANGED <<now, stamp, gAnchorHostTime>>
    BY <1>0, <1>2
    DEF StartReadsClock, Starting, Go, PcTypeOK, clock, given, FullInv, IInv,
        TypeOK
  <2>2. \A d \in Clients : d # c => pc'[d] = "stopped"
    BY <1>0, <2>1, StarterAlone
  <2>3. gAnchorHostTime <= now /\ \A d \in Clients : stamp[d].at <= now
    BY <1>0 DEF FullInv, TimeInv, StartInv, StampInv
  <2> QED  BY <2>1, <2>2, <2>3 DEF BeginsLater
<1>3. ASSUME NEW c \in Clients, StartStoresAnchor(c)  PROVE BeginsLater'
  <2>1. /\ pc[c] = "stamp" /\ pc'[c] = "seed" /\ gAnchorHostTime' = asked[c]
        /\ \A d \in Clients : d # c => pc'[d] = pc[d]
        /\ UNCHANGED stamp
    BY <1>0, <1>3 DEF StartStoresAnchor, Go, PcTypeOK, given
  <2>2. \A d \in Clients : d # c => pc'[d] = "stopped"
    BY <1>0, <2>1, StarterAlone DEF Starting
  <2> QED  BY <2>1, <2>2 DEF RefInv, BeginsLater
<1>4. ASSUME UNCHANGED <<pc, asked, stamp, gAnchorHostTime>>
      PROVE  BeginsLater'
  BY <1>4 DEF RefInv, BeginsLater
<1>5. ASSUME NEW c \in Clients, StartIO(c)  PROVE BeginsLater'
  <2>1. /\ pc'[c] \in {"anchor", "running"}
        /\ \A d \in Clients : d # c => pc'[d] = pc[d]
        /\ UNCHANGED <<asked, stamp, gAnchorHostTime>>
    BY <1>0, <1>5 DEF StartIO, Go, PcTypeOK, given
  <2> QED  BY <2>1 DEF RefInv, BeginsLater
<1>6. ASSUME NEW c \in Clients, StartBumpsSeed(c)  PROVE BeginsLater'
  <2>1. /\ pc'[c] = "running"
        /\ \A d \in Clients : d # c => pc'[d] = pc[d]
        /\ UNCHANGED <<asked, stamp, gAnchorHostTime>>
    BY <1>0, <1>6 DEF StartBumpsSeed, Go, PcTypeOK, given
  <2> QED  BY <2>1 DEF RefInv, BeginsLater
<1>7. ASSUME NEW c \in Clients, StopIO(c) \/ Ask(c) \/ StopStep(c) \/ AskStep(c)
      PROVE  BeginsLater'
  <2>1. pc[c] \notin Starting /\ pc[c] # "stopped" /\ pc'[c] \notin Starting
        /\ \A d \in Clients : d # c => pc'[d] = pc[d]
    BY <1>0, <1>7
    DEF StopIO, Ask, StopStep, StopLoads, StopExchanges, AskStep,
        AskLoadsAnchor, Answer, Starting, Go, PcTypeOK
  <2>2. NoneStarts
    BY <1>0, <2>1, RunningAlone
  <2> QED  BY <1>1, <2>1, <2>2 DEF NoneStarts
<1>8. CASE TimePasses \/ UNCHANGED vars
  BY <1>4, <1>8 DEF TimePasses, vars, clock, call, given
<1> QED
  BY <1>2, <1>3, <1>5, <1>6, <1>7, <1>8 DEF Next, StartStep

LEMMA SampleIsPeriod ==
  ASSUME NEW t \in 0 .. MaxTime, NEW origin \in 0 .. MaxTime, origin <= t
  PROVE  \E k \in 0 .. t : SampleTime(t, origin) = k * Period
<1> DEFINE e == (t - origin) % Wrap
           f == e \div TicksPerFrame
           k == f \div Period
<1>1. t - origin \in 0 .. Wrap - 1 /\ t \in Nat /\ origin \in Nat
  BY Constants
<1>2. e = t - origin /\ e \in Nat /\ e <= t
  BY <1>1, Constants, ModSmall
<1> HIDE DEF e
<1>3. f \in Nat /\ f * TicksPerFrame <= e
  BY <1>2, Constants, Floor
<1>4. f <= e
  <2>1. 1 * f <= TicksPerFrame * f /\ TicksPerFrame * f \in Nat
    BY <1>3, Constants, Times
  <2> HIDE DEF f
  <2>2. 1 * f = f /\ TicksPerFrame * f = f * TicksPerFrame
    BY <1>3, Constants
  <2> QED  BY <1>2, <1>3, <2>1, <2>2
<1> HIDE DEF f
<1>5. k \in Nat /\ k * Period <= f
  BY <1>3, Constants, Floor
<1>6. k <= f
  <2>1. 1 * k <= Period * k /\ Period * k \in Nat
    BY <1>5, Constants, Times
  <2> HIDE DEF k
  <2>2. 1 * k = k /\ Period * k = k * Period
    BY <1>5, Constants
  <2> QED  BY <1>3, <1>5, <2>1, <2>2
<1>7. SampleTime(t, origin) = k * Period
  BY DEF SampleTime, f, e
<1> HIDE DEF k
<1> QED  BY <1>1, <1>2, <1>3, <1>4, <1>5, <1>6, <1>7

LEMMA InitTimeline == Init => Timeline!TimelineInit
<1> SUFFICES ASSUME Init  PROVE Timeline!TimelineInit
  OBVIOUS
<1>1. RunningClients = {}
  BY DEF Init, RunningClients
<1> QED
  BY <1>1 DEF Init, Timeline!TimelineInit, Timeline!None, NoStamp,
              Timeline!NoStamp

\* What is neither the end of a start or a stop nor an answer does not show.
LEMMA Unseen ==
  ASSUME RunningClients' = RunningClients,
         UNCHANGED <<now, gTimestampSeed, stamp>>,
         RunningClients # {} => gAnchorHostTime' = gAnchorHostTime
  PROVE  UNCHANGED <<now, Timeline!device, stamp>>
BY DEF Timeline!device

LEMMA StartTimeline ==
  ASSUME HostSerializes, RefInv, NEW c \in Clients, StartIO(c) \/ StartStep(c)
  PROVE  [Timeline!TimelineNext]_<<now, Timeline!device, stamp>>
<1>0. FullInv /\ PcTypeOK
  BY PcTypes DEF RefInv
<1>1. CASE StartIO(c)
  <2>0. /\ pc[c] = "stopped" /\ NoneStarts
        /\ UNCHANGED <<now, gTimestampSeed, gAnchorHostTime, stamp>>
        /\ pc' = [pc EXCEPT ![c] = IF gRunningClients = 0 THEN "anchor"
                                                          ELSE "running"]
    BY <1>1 DEF StartIO, Go, given, NoneStarts
  <2>1. CASE gRunningClients = 0
    <3>1. RunningClients' = RunningClients
      BY <1>0, <2>0, <2>1 DEF RunningClients, Starting, PcTypeOK
    <3> QED  BY <2>0, <3>1, Unseen
  <2>2. CASE gRunningClients # 0
    <3>1. Counted # {}
      BY <1>0, <2>2, FS_EmptySet DEF FullInv, IInv, CountInv, RunningCountExact
    <3>2. RunningClients = Counted
      BY <2>0 DEF RunningClients, Counted, NoneStarts
    <3>3. RunningClients' = RunningClients \cup {c} /\ c \notin RunningClients
      BY <1>0, <2>0, <2>2 DEF RunningClients, Starting, PcTypeOK
    <3>4. Timeline!Join(c)
      BY <2>0, <3>1, <3>2, <3>3 DEF Timeline!Join
    <3> QED  BY <3>4 DEF Timeline!TimelineNext
  <2> QED  BY <2>1, <2>2
<1>2. ASSUME pc[c] \in Starting  PROVE RunningClients = {}
  BY <1>0, <1>2, StarterAlone DEF RunningClients
<1>3. CASE StartReadsClock(c) \/ StartStoresAnchor(c)
  <2>1. /\ pc[c] \in Starting /\ pc'[c] \in Starting
        /\ \A d \in Clients : d # c => pc'[d] = pc[d]
        /\ UNCHANGED <<now, gTimestampSeed, stamp>>
    BY <1>0, <1>3
    DEF StartReadsClock, StartStoresAnchor, Starting, Go, PcTypeOK, clock, given
  <2>2. RunningClients' = RunningClients
    BY <2>1 DEF RunningClients
  <2> QED  BY <1>2, <2>1, <2>2, Unseen
<1>4. CASE StartBumpsSeed(c)
  <2>1. /\ pc[c] = "seed" /\ gTimestampSeed' = gTimestampSeed + 1
        /\ pc'[c] = "running"
        /\ \A d \in Clients : d # c => pc'[d] = pc[d]
        /\ UNCHANGED <<now, gAnchorHostTime, stamp>>
    BY <1>0, <1>4 DEF StartBumpsSeed, Go, PcTypeOK, given
  <2>2. RunningClients = {} /\ RunningClients' = {c}
    BY <1>0, <1>2, <2>1, StarterAlone DEF RunningClients, Starting
  <2>3. /\ gAnchorHostTime \in 0 .. now
        /\ \A d \in Clients : stamp[d].at <= gAnchorHostTime
    BY <1>0, <2>1, Constants
    DEF RefInv, BeginsLater, FullInv, TimeInv, StartInv, IInv, TypeOK
  <2>4. Timeline!Begin(c)
    BY <2>1, <2>2, <2>3 DEF Timeline!Begin
  <2> QED  BY <2>4 DEF Timeline!TimelineNext
<1> QED  BY <1>1, <1>3, <1>4 DEF StartStep

LEMMA StopTimeline ==
  ASSUME RefInv, NEW c \in Clients, StopIO(c) \/ StopStep(c)
  PROVE  [Timeline!TimelineNext]_<<now, Timeline!device, stamp>>
<1>0. /\ FullInv /\ PcTypeOK
      /\ pc[c] # "stopped" /\ pc[c] \notin Starting
      /\ UNCHANGED <<now, gTimestampSeed, gAnchorHostTime, stamp>>
  BY PcTypes
  DEF RefInv, StopIO, StopStep, StopLoads, StopExchanges, Starting, clock, given
<1>1. CASE Go(c, "stopped")
  <2>1. RunningClients' = RunningClients \ {c} /\ c \in RunningClients
    BY <1>0, <1>1 DEF RunningClients, Go, PcTypeOK
  <2>2. Timeline!Leave(c)
    BY <1>0, <2>1 DEF Timeline!Leave, Timeline!None
  <2> QED  BY <2>2 DEF Timeline!TimelineNext
<1>2. CASE Go(c, "load") \/ Go(c, "exchange") \/ UNCHANGED pc
  <2>1. RunningClients' = RunningClients
    BY <1>0, <1>2 DEF RunningClients, Go, PcTypeOK, Starting
  <2> QED  BY <1>0, <2>1, Unseen
<1> QED
  BY <1>1, <1>2 DEF StopIO, StopStep, StopLoads, StopExchanges

LEMMA AskTimeline ==
  ASSUME RefInv, NEW c \in Clients, Ask(c) \/ AskStep(c)
  PROVE  [Timeline!TimelineNext]_<<now, Timeline!device, stamp>>
<1>0. /\ FullInv /\ PcTypeOK
      /\ pc[c] # "stopped" /\ pc[c] \notin Starting
      /\ UNCHANGED <<now, gTimestampSeed, gAnchorHostTime>>
  BY PcTypes
  DEF RefInv, Ask, AskStep, AskLoadsAnchor, Answer, Starting, clock
<1>1. RunningClients' = RunningClients /\ c \in RunningClients
  BY <1>0
  DEF Ask, AskStep, AskLoadsAnchor, Answer, RunningClients, Go, PcTypeOK, Starting
<1>2. CASE Ask(c) \/ AskLoadsAnchor(c)
  BY <1>0, <1>1, <1>2, Unseen DEF Ask, AskLoadsAnchor, given
<1>3. CASE Answer(c)
  <2> DEFINE t == asked[c]
             new == stamp'[c]
  <2>1. /\ t \in 0 .. MaxTime /\ gAnchorHostTime \in 0 .. MaxTime
        /\ now \in Nat /\ gAnchorHostTime <= t /\ t <= now /\ t \in Nat
        /\ stamp[c].at <= t /\ stamp[c].at \in Nat
    BY <1>0, <1>3, Constants
    DEF FullInv, IInv, TypeOK, TimeInv, AskInv, StampInv, Asking, Answer
  <2>2. PICK k \in 0 .. t : SampleTime(t, gAnchorHostTime) = k * Period
    BY <2>1, SampleIsPeriod
  <2>3. HostTime(k * Period, gAnchorHostTime)
          = gAnchorHostTime + (k * Period) * TicksPerFrame
    BY <2>1, <2>2, StampArithmetic
  <2>4. /\ stamp' = [stamp EXCEPT ![c] = new]
        /\ new.host <= t /\ t < new.host + Period * TicksPerFrame
        /\ new = [sample |-> k * Period,
                  host |-> gAnchorHostTime + (k * Period) * TicksPerFrame,
                  seed |-> gTimestampSeed, at |-> t]
    <3>1. /\ stamp' = [stamp EXCEPT ![c] = new]
          /\ new.at = t /\ new.seed = gTimestampSeed
          /\ new.sample = k * Period
          /\ new.host = gAnchorHostTime + (k * Period) * TicksPerFrame
          /\ new.host <= t /\ t < new.host + Period * TicksPerFrame
      BY <1>0, <1>3, <2>2, <2>3, AnswerIsOnTime
    <3>2. new = [sample |-> new.sample, host |-> new.host, seed |-> new.seed,
                 at |-> new.at]
      BY <1>3 DEF Answer, FullInv, RefInv, IInv, TypeOK
    <3> QED  BY <3>1, <3>2
  <2> HIDE DEF new
  <2>5. new = Timeline!StampOf(k, t)
    BY <1>1, <2>4 DEF Timeline!StampOf
  <2>6. t \in stamp[c].at .. now /\ k \in 0 .. now
    BY <2>1, <2>2
  <2>7. UNCHANGED <<now, Timeline!device>>
    BY <1>0, <1>1 DEF Timeline!device
  <2>8. Timeline!Give(c)
    BY <1>1, <2>4, <2>5, <2>6, <2>7 DEF Timeline!Give
  <2> QED  BY <2>8 DEF Timeline!TimelineNext
<1> QED  BY <1>2, <1>3 DEF AskStep

\* Each step of the driver is a step of the timeline, or does not show: for any
\* number of clients whose starts the host runs one at a time, the driver's
\* separate loads and stores behave as starts, stops and stamps in one step.
THEOREM DriverKeepsTimeline == HostSerializes => (Spec => ImplementsTimeline)
<1> SUFFICES ASSUME HostSerializes  PROVE Spec => ImplementsTimeline
  OBVIOUS
<1>1. ASSUME RefInv, [Next]_vars
      PROVE  [Timeline!TimelineNext]_<<now, Timeline!device, stamp>>
  <2>1. CASE TimePasses
    <3>1. Timeline!Tick
      BY <2>1 DEF TimePasses, Timeline!Tick, Timeline!device, RunningClients,
                  clock, call, given
    <3> QED  BY <3>1 DEF Timeline!TimelineNext
  <2>2. CASE UNCHANGED vars
    BY <2>2 DEF vars, clock, call, given, Timeline!device, RunningClients
  <2> QED
    BY <1>1, <2>1, <2>2, StartTimeline, StopTimeline, AskTimeline DEF Next
<1> QED
  BY <1>1, InitRefInv, NextRefInv, InitTimeline, PTL
  DEF Spec, ImplementsTimeline, Timeline!TimelineSpec
=============================================================================
