-------------------------- MODULE RtlMeasureProofs --------------------------
(***************************************************************************)
(* What the round-trip tool may say, for any pulse, threshold, cable and   *)
(* callback sizes.  The argument is about three host times: the pulse      *)
(* starts at PulseTime, its echo at EchoTime, and a window that holds all  *)
(* of the echo is recognised whatever the threshold, so that the first     *)
(* one recognised ends before EchoTime + PulseFrames.                      *)
(***************************************************************************)
EXTENDS RtlMeasure, SequenceTheorems, FiniteSetTheorems, WellFoundedInduction, TLAPS

Samples == {-1, 0, 1}

PulseTime == lead + WarmupFrames

EchoTime == PulseTime + delay

-----------------------------------------------------------------------------
(* The window and the correlation.                                         *)

LEMMA ParameterTypes ==
  /\ PulseFrames \in Nat /\ PulseFrames > 0
  /\ HalfPeriod \in Nat /\ HalfPeriod > 0
  /\ MaxFrames \in Nat /\ WarmupFrames \in Nat /\ Timeout \in Nat
  /\ Threshold \in 1 .. 100
  /\ \A n \in OutputSizes \cup InputSizes : n \in Nat /\ n > 0
  /\ \A d \in Delays \cup Leads : d \in Nat
BY PulseAssumption

LEMMA PulseTypes ==
  PulseFrames \in Nat /\ PulseFrames > 0 /\ WarmupFrames \in Nat
BY PulseAssumption

LEMMA SampleType == \A i : PulsePatternSample(i) \in {-1, 1}
BY DEF PulsePatternSample

LEMMA EchoType == \A h : Echo(h) \in Samples
BY SampleType DEF Echo, Samples

\* A sequence that is given by its frames.
LEMMA FramesAreSeq ==
  ASSUME NEW n \in Nat, NEW f \in [1 .. n -> Samples]
  PROVE  f \in Seq(Samples) /\ Len(f) = n
<1>1. f \in Seq(Samples)
  BY SeqDef
<1>2. DOMAIN f = 1 .. n /\ DOMAIN f = 1 .. Len(f) /\ Len(f) \in Nat
  BY <1>1, LenProperties
<1> QED  BY <1>1, <1>2

\* The window after a frame is made of the end of the history and of what the
\* callback has heard so far.
LEMMA WindowIs ==
  ASSUME history \in Seq(Samples), NEW host \in Int, NEW i \in Nat,
         Len(history) + i + 1 >= PulseFrames
  PROVE  /\ WindowAfter(host, i) \in Seq(Samples)
         /\ Len(WindowAfter(host, i)) = PulseFrames
         /\ \A p \in 1 .. PulseFrames :
              WindowAfter(host, i)[p] =
                IF p + i + 1 <= PulseFrames
                THEN history[Len(history) + i + 1 - PulseFrames + p]
                ELSE Echo(host + i - PulseFrames + p)
<1> DEFINE new   == [j \in 1 .. i + 1 |-> Echo(host + j - 1)]
           heard == history \o new
           first == Len(heard) - PulseFrames + 1
<1>1. new \in Seq(Samples) /\ Len(new) = i + 1
  <2>1. new \in [1 .. i + 1 -> Samples]
    BY EchoType
  <2> HIDE DEF new
  <2> QED  BY <2>1, FramesAreSeq
<1>2. Len(history) \in Nat
  BY LenProperties
<1>3. /\ heard \in Seq(Samples)
      /\ Len(heard) = Len(history) + i + 1
      /\ \A k \in 1 .. Len(history) + i + 1 :
           heard[k] = IF k <= Len(history) THEN history[k]
                      ELSE new[k - Len(history)]
  <2> HIDE DEF new
  <2>1. /\ heard \in Seq(Samples)
        /\ Len(heard) = Len(history) + Len(new)
        /\ \A k \in 1 .. Len(history) + Len(new) :
             heard[k] = IF k <= Len(history) THEN history[k]
                        ELSE new[k - Len(history)]
    BY <1>1, ConcatProperties
  <2> HIDE DEF heard
  <2> QED  BY <1>1, <1>2, <2>1
<1>4. first \in Int /\ first >= 1 /\ Len(heard) \in Int
  BY <1>2, <1>3, ParameterTypes
<1>5. \A k \in first .. Len(heard) : heard[k] \in Samples
  <2> HIDE DEF heard
  <2> QED  BY <1>3, <1>4, <1>2, ElementOfSeq
<1>6. /\ SubSeq(heard, first, Len(heard)) \in Seq(Samples)
      /\ Len(SubSeq(heard, first, Len(heard))) = PulseFrames
      /\ \A p \in 1 .. PulseFrames :
           SubSeq(heard, first, Len(heard))[p] = heard[first + p - 1]
  <2>1. Len(heard) - first + 1 = PulseFrames /\ first <= Len(heard)
    BY <1>3, <1>2, ParameterTypes
  <2> HIDE DEF heard, first
  <2> QED  BY <1>4, <1>5, <2>1, SubSeqProperties
<1>7. WindowAfter(host, i) = SubSeq(heard, first, Len(heard))
  BY DEF WindowAfter
<1>8. ASSUME NEW p \in 1 .. PulseFrames
      PROVE  heard[first + p - 1] =
                IF p + i + 1 <= PulseFrames
                THEN history[Len(history) + i + 1 - PulseFrames + p]
                ELSE Echo(host + i - PulseFrames + p)
  <2> DEFINE k == first + p - 1
  <2>1. k = Len(history) + i + 1 - PulseFrames + p
    BY <1>3, <1>2, ParameterTypes
  <2>2. k \in 1 .. Len(history) + i + 1
    BY <2>1, <1>2, ParameterTypes
  <2>3. CASE p + i + 1 <= PulseFrames
    <3>1. k <= Len(history)
      BY <2>1, <2>3, <1>2, ParameterTypes
    <3> HIDE DEF heard, new, k
    <3> QED  BY <3>1, <1>3, <2>1, <2>2, <2>3 DEF k
  <2>4. CASE ~(p + i + 1 <= PulseFrames)
    <3>1. ~(k <= Len(history)) /\ k - Len(history) \in 1 .. i + 1
      BY <2>1, <2>4, <1>2, ParameterTypes
    <3>2. k - Len(history) - 1 = i - PulseFrames + p
      BY <2>1, <1>2, ParameterTypes
    <3>3. new[k - Len(history)] = Echo(host + (k - Len(history)) - 1)
      BY <3>1
    <3>4. host + (k - Len(history)) - 1 = host + i - PulseFrames + p
      BY <3>1, <3>2, ParameterTypes
    <3>5. heard[k] = new[k - Len(history)]
      <4> HIDE DEF heard, new, k
      <4> QED  BY <3>1, <1>3, <2>2
    <3> HIDE DEF heard, new
    <3> QED  BY <2>4, <3>3, <3>4, <3>5
  <2> QED  BY <2>3, <2>4
<1> HIDE DEF heard, first
<1> QED  BY <1>6, <1>7, <1>8

LEMMA WholeEchoCorrelates ==
  ASSUME NEW window,
         \A p \in 1 .. PulseFrames : window[p] = PulsePatternSample(p - 1)
  PROVE  Correlates(window)
<1> DEFINE Same     == {p \in 1 .. PulseFrames : window[p] = PulsePatternSample(p - 1)}
           Opposite == {p \in 1 .. PulseFrames : window[p] = -PulsePatternSample(p - 1)}
<1>1. Same = 1 .. PulseFrames
  OBVIOUS
<1>2. Opposite = {}
  <2>1. ASSUME NEW p \in 1 .. PulseFrames
        PROVE  window[p] # -PulsePatternSample(p - 1)
    <3>1. window[p] = 1 \/ window[p] = -1
      BY SampleType
    <3> QED  BY <3>1
  <2> QED  BY <2>1
<1>3. Cardinality(Same) = PulseFrames /\ Cardinality(Opposite) = 0
  <2>1. Cardinality(1 .. PulseFrames) = PulseFrames
    <3>1. 1 \in Int /\ PulseFrames \in Int /\ PulseFrames >= 1
      BY ParameterTypes
    <3> QED  BY <3>1, FS_Interval
  <2>2. Cardinality({}) = 0
    BY FS_EmptySet
  <2> HIDE DEF Same, Opposite
  <2> QED  BY <1>1, <1>2, <2>1, <2>2
<1>4. Threshold * Threshold <= 10000 /\ Threshold * Threshold \in Nat
  BY ParameterTypes
<1>5. \A a, b, c \in Nat : a <= b => a * c <= b * c
  OBVIOUS
<1>6. Threshold * Threshold * PulseFrames * PulseFrames
        <= 10000 * PulseFrames * PulseFrames
  <2>1. PulseFrames * PulseFrames \in Nat
    BY ParameterTypes
  <2>2. Threshold * Threshold * (PulseFrames * PulseFrames)
          <= 10000 * (PulseFrames * PulseFrames)
    BY <1>4, <1>5, <2>1
  <2> QED  BY <2>2, ParameterTypes
<1>7. /\ Cardinality(Same) - Cardinality(Opposite) = PulseFrames
      /\ Cardinality(Same) + Cardinality(Opposite) = PulseFrames
  BY <1>3, ParameterTypes
<1> HIDE DEF Same, Opposite
<1> QED  BY <1>6, <1>7, ParameterTypes DEF Correlates, Same, Opposite

LEMMA CorrelationHearsThePulse ==
  ASSUME NEW window, Correlates(window)
  PROVE  \E p \in 1 .. PulseFrames : window[p] = PulsePatternSample(p - 1)
<1> DEFINE Same     == {p \in 1 .. PulseFrames : window[p] = PulsePatternSample(p - 1)}
           Opposite == {p \in 1 .. PulseFrames : window[p] = -PulsePatternSample(p - 1)}
<1>1. Cardinality(Same) - Cardinality(Opposite) > 0
  BY DEF Correlates
<1>2. IsFiniteSet(1 .. PulseFrames)
  BY FS_Interval, ParameterTypes
<1>3. Cardinality(Opposite) \in Nat /\ IsFiniteSet(Same)
  BY <1>2, FS_Subset, FS_CardinalityType
<1>4. Same # {}
  <2>1. SUFFICES ASSUME Same = {} PROVE FALSE
    OBVIOUS
  <2>2. Cardinality(Same) = 0
    BY <2>1, FS_EmptySet
  <2> HIDE DEF Same, Opposite
  <2> QED  BY <1>1, <1>3, <2>2
<1> QED  BY <1>4

LEMMA LeastElement ==
  ASSUME NEW set \in SUBSET Nat, set # {}
  PROVE  \E i \in set : \A j \in set : i <= j
<1>1. PICK i \in set : \A j \in set : <<j, i>> \notin OpToRel(<, Nat)
  BY NatLessThanWellFounded, WFMin
<1>2. ASSUME NEW j \in set PROVE i <= j
  <2>1. j \in Nat /\ i \in Nat
    OBVIOUS
  <2>2. SUFFICES ASSUME j < i PROVE FALSE
    BY <2>1
  <2>3. <<j, i>> \in {pair \in Nat \X Nat : pair[1] < pair[2]}
    BY <2>1, <2>2
  <2> QED  BY <1>1, <2>3 DEF OpToRel
<1> QED  BY <1>2

\* The frame at which an input callback stops to listen.
FirstHit(n) == CHOOSE i \in Hits(captured, n) : \A j \in Hits(captured, n) : i <= j

LEMMA FirstHitIsAHit ==
  ASSUME NEW n \in Nat, Hits(captured, n) # {}
  PROVE  /\ FirstHit(n) \in Hits(captured, n)
         /\ \A j \in Hits(captured, n) : FirstHit(n) <= j
<1>1. Hits(captured, n) \in SUBSET Nat
  BY DEF Hits
<1>2. \E i \in Hits(captured, n) : \A j \in Hits(captured, n) : i <= j
  BY <1>1, LeastElement
<1> QED  BY <1>2 DEF FirstHit

-----------------------------------------------------------------------------
(* The inductive invariant.                                                *)

Setup == {"configureInput", "configureOutput", "startInput", "startOutput"}

Playing == {"wait", "checkError", "checkDetected", "loadPulseTime",
            "loadDetectedTime", "stopOutput"}

\* Which units run where main is, and what there is before they do.
UnitsInv ==
  /\ outputRunning <=> mpc \in Playing
  /\ ~outputRunning => opc = "idle"
  /\ InputHasItsBuffer
  /\ mpc \in {"configureOutput", "startInput"} => inputBuffer
  /\ mpc = "free" => ~inputRunning
  /\ mpc \in Setup => outputFrame = 0 /\ ~pulseSent

\* The pulse is sent by the callback that plays frame WarmupFrames, and its
\* time is stored before that callback has returned.
PulseInv ==
  /\ played <= outputFrame
  /\ opc = "idle" => played = outputFrame
  /\ ~pulseSent => outputFrame <= WarmupFrames /\ history = <<>>
  /\ opc = "storePulseTime" =>
       pulseSent /\ pulseHost = PulseTime /\ played <= WarmupFrames
  /\ pulseSent /\ opc # "storePulseTime" => pulseHostTime = PulseTime

\* What is heard has been played: who has heard the echo, or has taken
\* something for it, knows that the pulse's time is stored.
HeardInv ==
  /\ \A j \in 1 .. Len(history) :
       history[j] # 0 => delay # NoCable /\ captured > EchoTime
  /\ outputRunning /\ delay # NoCable => captured <= delay + lead + played
  /\ ipc # "idle" => ~detected
  /\ detected \/ ipc # "idle" =>
       delay # NoCable /\ pulseSent /\ opc # "storePulseTime"

Listening == outputRunning /\ ~error /\ ~detected /\ ipc = "idle"

\* The history is all that was heard since a time before the echo, and the echo
\* has not been heard to its end.
ListenInv ==
  Listening =>
    /\ \A j \in 1 .. Len(history) :
         history[j] = Echo(captured - Len(history) + j - 1)
    /\ delay # NoCable =>
         /\ Len(history) < PulseFrames => captured - Len(history) <= EchoTime
         /\ captured < EchoTime + PulseFrames

NearTheEcho(time) == EchoTime - PulseFrames < time /\ time < EchoTime + PulseFrames

\* Where main finds the two times.
TimesInv ==
  /\ outputRunning /\ ~error /\ (detected \/ ipc # "idle") =>
       NearTheEcho(IF ipc = "storeTime" THEN detectedHost ELSE detectedHostTime)
  /\ mpc \in {"loadPulseTime", "loadDetectedTime"} => detected
  /\ mpc = "loadDetectedTime" => loaded.pulse = PulseTime
  /\ mpc \in Setup \cup {"wait", "checkError", "checkDetected", "loadPulseTime",
                       "loadDetectedTime"} => outcome = "none"
  /\ ReportNearsTheDelay

IInv == TypeOK /\ UnitsInv /\ PulseInv /\ HeardInv /\ ListenInv /\ TimesInv

-----------------------------------------------------------------------------
(* What a callback hears.                                                  *)

LEMMA TypesOfTimes ==
  ASSUME TypeOK
  PROVE  /\ lead \in Nat /\ captured \in Nat /\ outputFrame \in Nat
         /\ played \in Nat /\ PulseTime \in Nat
         /\ delay # NoCable => delay \in Nat /\ EchoTime \in Nat
<1>1. lead \in Nat /\ captured \in Nat /\ outputFrame \in Nat /\ played \in Nat
  BY DEF TypeOK
<1>2. delay # NoCable => delay \in Nat
  BY ParameterTypes DEF TypeOK
<1>3. PulseTime \in Nat
  BY <1>1, PulseTypes DEF PulseTime
<1>4. delay # NoCable => EchoTime \in Nat
  BY <1>2, <1>3 DEF EchoTime
<1> QED  BY <1>1, <1>2, <1>3, <1>4

LEMMA TypesOfHistory ==
  ASSUME TypeOK
  PROVE  /\ history \in Seq(Samples) /\ Len(history) \in Nat
         /\ Len(history) <= PulseFrames
         /\ \A j \in 1 .. Len(history) : history[j] \in Samples
<1>1. history \in Seq(Samples)
  BY DEF TypeOK, Samples
<1>2. Len(history) \in Nat /\ \A j \in 1 .. Len(history) : history[j] \in Samples
  BY <1>1, LenProperties, ElementOfSeq
<1> QED  BY <1>1, <1>2 DEF TypeOK

LEMMA EchoIsThePulse ==
  ASSUME TypeOK, delay # NoCable, NEW p \in 1 .. PulseFrames
  PROVE  Echo(EchoTime + p - 1) = PulsePatternSample(p - 1)
<1> DEFINE host  == EchoTime + p - 1
           index == host - delay - lead - WarmupFrames
<1>1. index = p - 1
  BY TypesOfTimes, PulseTypes DEF EchoTime, PulseTime
<1>2. index \in 0 .. PulseFrames - 1
  BY <1>1, PulseTypes
<1> HIDE DEF host
<1>3. Echo(host) = IF delay # NoCable /\ index \in 0 .. PulseFrames - 1
                   THEN PulsePatternSample(index) ELSE 0
  BY DEF Echo
<1> HIDE DEF index
<1> QED  BY <1>1, <1>2, <1>3 DEF host

LEMMA EchoTakesTime ==
  ASSUME TypeOK, NEW host \in Int, Echo(host) # 0
  PROVE  delay # NoCable /\ host >= EchoTime
<1>1. delay # NoCable /\ host - delay - lead - WarmupFrames \in 0 .. PulseFrames - 1
  BY DEF Echo
<1> QED  BY <1>1, TypesOfTimes, PulseTypes DEF EchoTime, PulseTime

\* A recognition needs a sample of the echo in its window.
LEMMA HitHearsTheEcho ==
  ASSUME TypeOK, HeardInv, NEW n \in Nat, NEW i \in Hits(captured, n)
  PROVE  delay # NoCable /\ captured + i >= EchoTime
<1>1. /\ i \in Nat /\ i \in 0 .. n - 1
      /\ Len(history) + i + 1 >= PulseFrames
      /\ Correlates(WindowAfter(captured, i))
  BY DEF Hits
<1>2. PICK p \in 1 .. PulseFrames :
        WindowAfter(captured, i)[p] = PulsePatternSample(p - 1)
  BY <1>1, CorrelationHearsThePulse
<1>3. WindowAfter(captured, i)[p] # 0
  <2>1. PulsePatternSample(p - 1) = 1 \/ PulsePatternSample(p - 1) = -1
    BY SampleType
  <2> QED  BY <1>2, <2>1
<1>4. WindowAfter(captured, i)[p] =
        IF p + i + 1 <= PulseFrames
        THEN history[Len(history) + i + 1 - PulseFrames + p]
        ELSE Echo(captured + i - PulseFrames + p)
  <2>1. captured \in Int /\ history \in Seq(Samples)
    BY TypesOfTimes, TypesOfHistory
  <2> QED  BY <1>1, <2>1, WindowIs
<1>5. CASE p + i + 1 <= PulseFrames
  <2>1. Len(history) + i + 1 - PulseFrames + p \in 1 .. Len(history)
    BY <1>1, <1>5, TypesOfTimes, PulseTypes
  <2>2. delay # NoCable /\ captured > EchoTime
    BY <1>3, <1>4, <1>5, <2>1 DEF HeardInv
  <2> QED  BY <1>1, <2>2, TypesOfTimes, PulseTypes
<1>6. CASE ~(p + i + 1 <= PulseFrames)
  <2>1. captured + i - PulseFrames + p \in Int
    BY <1>1, TypesOfTimes, PulseTypes
  <2>2. delay # NoCable /\ captured + i - PulseFrames + p >= EchoTime
    BY <1>3, <1>4, <1>6, <2>1, EchoTakesTime
  <2> QED  BY <1>1, <2>2, TypesOfTimes, PulseTypes
<1> QED  BY <1>5, <1>6

\* Who listens hears in its window what the cable has carried.
LEMMA WindowHears ==
  ASSUME TypeOK, ListenInv, Listening, NEW i \in Nat,
         Len(history) + i + 1 >= PulseFrames, NEW p \in 1 .. PulseFrames
  PROVE  WindowAfter(captured, i)[p] = Echo(captured + i - PulseFrames + p)
<1>1. WindowAfter(captured, i)[p] =
        IF p + i + 1 <= PulseFrames
        THEN history[Len(history) + i + 1 - PulseFrames + p]
        ELSE Echo(captured + i - PulseFrames + p)
  <2>1. captured \in Int /\ history \in Seq(Samples)
    BY TypesOfTimes, TypesOfHistory
  <2> QED  BY <2>1, WindowIs
<1>2. CASE p + i + 1 <= PulseFrames
  <2> DEFINE j == Len(history) + i + 1 - PulseFrames + p
  <2>1. j \in 1 .. Len(history)
    BY <1>2, TypesOfTimes, PulseTypes
  <2>2. history[j] = Echo(captured - Len(history) + j - 1)
    BY <2>1 DEF ListenInv
  <2>3. captured - Len(history) + j - 1 = captured + i - PulseFrames + p
    BY TypesOfTimes, PulseTypes
  <2> QED  BY <1>1, <1>2, <2>2, <2>3
<1> QED  BY <1>1, <1>2

\* The callback that hears the end of the echo recognises it.
LEMMA WholeEchoIsAHit ==
  ASSUME TypeOK, ListenInv, Listening, delay # NoCable, NEW n \in Nat,
         captured + n >= EchoTime + PulseFrames
  PROVE  EchoTime + PulseFrames - 1 - captured \in Hits(captured, n)
<1> DEFINE i == EchoTime + PulseFrames - 1 - captured
<1>0. /\ captured < EchoTime + PulseFrames
      /\ Len(history) < PulseFrames => captured - Len(history) <= EchoTime
  BY DEF ListenInv
<1>1. i \in Nat /\ i \in 0 .. n - 1
  BY <1>0, TypesOfTimes, PulseTypes
<1>2. Len(history) + i + 1 >= PulseFrames
  <2>1. Len(history) \in Nat /\ (Len(history) < PulseFrames \/ Len(history) = PulseFrames)
    BY TypesOfHistory, PulseTypes
  <2>2. EchoTime \in Nat /\ captured \in Nat /\ PulseFrames \in Nat
    BY TypesOfTimes, PulseTypes
  <2>3. CASE Len(history) < PulseFrames
    BY <1>0, <2>1, <2>2, <2>3
  <2>4. CASE Len(history) = PulseFrames
    BY <1>1, <2>1, <2>2, <2>4
  <2> QED  BY <2>1, <2>3, <2>4
<1>3. ASSUME NEW p \in 1 .. PulseFrames
      PROVE  WindowAfter(captured, i)[p] = PulsePatternSample(p - 1)
  <2>1. captured + i - PulseFrames + p = EchoTime + p - 1
    BY TypesOfTimes, PulseTypes
  <2> HIDE DEF i
  <2> QED  BY <1>1, <1>2, <2>1, WindowHears, EchoIsThePulse
<1>4. Correlates(WindowAfter(captured, i))
  BY <1>3, WholeEchoCorrelates
<1> HIDE DEF i
<1>5. i \in Hits(captured, n)
  BY <1>1, <1>2, <1>4 DEF Hits
<1> QED  BY <1>5 DEF i

\* So what it takes for the start of the pulse is not far from it.
LEMMA FirstHitIsNear ==
  ASSUME TypeOK, HeardInv, ListenInv, Listening, NEW n \in Nat,
         Hits(captured, n) # {}
  PROVE  NearTheEcho(captured + StartOffset(FirstHit(n)))
<1> DEFINE hit == FirstHit(n)
           end == captured + hit
<1>1. hit \in Hits(captured, n) /\ hit \in 0 .. n - 1
  BY FirstHitIsAHit DEF Hits
<1>2. delay # NoCable /\ end >= EchoTime
  BY <1>1, HitHearsTheEcho
<1>3. end < EchoTime + PulseFrames
  <2>1. CASE captured + n >= EchoTime + PulseFrames
    <3>1. hit <= EchoTime + PulseFrames - 1 - captured
      BY <1>2, <2>1, WholeEchoIsAHit, FirstHitIsAHit
    <3> HIDE DEF hit
    <3> QED
      BY <1>1, <1>2, <3>1, TypesOfTimes, PulseTypes
  <2>2. CASE captured + n < EchoTime + PulseFrames
    <3> HIDE DEF hit
    <3> QED
      BY <1>1, <1>2, <2>2, TypesOfTimes, PulseTypes
  <2> HIDE DEF hit
  <2> QED
    BY <1>1, <1>2, <2>1, <2>2, TypesOfTimes, PulseTypes
<1> HIDE DEF hit
<1>4. NearTheEcho(captured + StartOffset(hit))
  BY <1>1, <1>2, <1>3, TypesOfTimes, PulseTypes
  DEF NearTheEcho, StartOffset
<1> QED  BY <1>4 DEF hit

\* What a callback of n frames appends to the history, kept to the pulse's
\* length.
Extended(n) ==
  IF Len(history) + n < PulseFrames
  THEN history \o [j \in 1 .. n |-> Echo(captured + j - 1)]
  ELSE WindowAfter(captured, n - 1)

LEMMA ExtendedIs ==
  ASSUME TypeOK, NEW n \in Nat, n > 0
  PROVE  /\ Extended(n) \in Seq(Samples)
         /\ Len(Extended(n)) = IF Len(history) + n < PulseFrames
                               THEN Len(history) + n ELSE PulseFrames
         /\ \A j \in 1 .. Len(Extended(n)) :
              Extended(n)[j] =
                IF j + n <= Len(Extended(n))
                THEN history[Len(history) - Len(Extended(n)) + j + n]
                ELSE Echo(captured + n - Len(Extended(n)) + j - 1)
<1>1. /\ captured \in Int /\ captured \in Nat /\ history \in Seq(Samples)
      /\ Len(history) \in Nat /\ n - 1 \in Nat
      /\ PulseFrames \in Nat
  BY TypesOfTimes, TypesOfHistory, PulseTypes
<1>2. CASE Len(history) + n < PulseFrames
  <2> DEFINE new == [j \in 1 .. n |-> Echo(captured + j - 1)]
             both == history \o new
  <2>1. new \in Seq(Samples) /\ Len(new) = n
    <3>1. new \in [1 .. n -> Samples]
      BY EchoType
    <3> HIDE DEF new
    <3> QED  BY <3>1, FramesAreSeq
  <2>2. Extended(n) = both
    BY <1>2 DEF Extended
  <2>3. /\ both \in Seq(Samples)
        /\ Len(both) = Len(history) + n
        /\ \A j \in 1 .. Len(history) + n :
             both[j] = IF j <= Len(history) THEN history[j]
                       ELSE new[j - Len(history)]
    <3> HIDE DEF new
    <3>1. /\ both \in Seq(Samples)
          /\ Len(both) = Len(history) + Len(new)
          /\ \A j \in 1 .. Len(history) + Len(new) :
               both[j] = IF j <= Len(history) THEN history[j]
                         ELSE new[j - Len(history)]
      BY <1>1, <2>1, ConcatProperties
    <3> HIDE DEF both
    <3> QED  BY <2>1, <3>1
  <2>4. ASSUME NEW j \in 1 .. Len(history) + n
        PROVE  both[j] = IF j + n <= Len(history) + n
                         THEN history[Len(history) - (Len(history) + n) + j + n]
                         ELSE Echo(captured + n - (Len(history) + n) + j - 1)
    <3>1. CASE j <= Len(history)
      <4>1. /\ j + n <= Len(history) + n
            /\ Len(history) - (Len(history) + n) + j + n = j
        BY <1>1, <3>1
      <4> HIDE DEF both
      <4> QED  BY <2>3, <3>1, <4>1
    <3>2. CASE ~(j <= Len(history))
      <4>1. /\ ~(j + n <= Len(history) + n)
            /\ j - Len(history) \in 1 .. n
            /\ captured + n - (Len(history) + n) + j - 1
                 = captured + (j - Len(history)) - 1
        BY <1>1, <3>2
      <4>2. new[j - Len(history)] = Echo(captured + (j - Len(history)) - 1)
        BY <4>1
      <4>3. both[j] = new[j - Len(history)]
        <5> HIDE DEF both, new
        <5> QED  BY <2>3, <3>2
      <4> HIDE DEF both, new
      <4> QED  BY <4>1, <4>2, <4>3
    <3> QED  BY <3>1, <3>2
  <2> HIDE DEF both, new
  <2> QED  BY <1>2, <2>2, <2>3, <2>4
<1>3. CASE ~(Len(history) + n < PulseFrames)
  <2>1. Extended(n) = WindowAfter(captured, n - 1)
    BY <1>3 DEF Extended
  <2>2. Len(history) + (n - 1) + 1 >= PulseFrames
    BY <1>1, <1>3
  <2>3. /\ WindowAfter(captured, n - 1) \in Seq(Samples)
        /\ Len(WindowAfter(captured, n - 1)) = PulseFrames
        /\ \A p \in 1 .. PulseFrames :
             WindowAfter(captured, n - 1)[p] =
               IF p + (n - 1) + 1 <= PulseFrames
               THEN history[Len(history) + (n - 1) + 1 - PulseFrames + p]
               ELSE Echo(captured + (n - 1) - PulseFrames + p)
    BY <1>1, <2>2, WindowIs
  <2>4. ASSUME NEW p \in 1 .. PulseFrames
        PROVE  /\ p + (n - 1) + 1 = p + n
               /\ Len(history) + (n - 1) + 1 - PulseFrames + p
                    = Len(history) - PulseFrames + p + n
               /\ captured + (n - 1) - PulseFrames + p
                    = captured + n - PulseFrames + p - 1
    BY <1>1
  <2>5. \A p \in 1 .. PulseFrames :
          WindowAfter(captured, n - 1)[p] =
            IF p + n <= PulseFrames
            THEN history[Len(history) - PulseFrames + p + n]
            ELSE Echo(captured + n - PulseFrames + p - 1)
    BY <2>3, <2>4, SMTT(30)
  <2> QED  BY <1>3, <2>1, <2>3, <2>5
<1> QED  BY <1>2, <1>3

\* The four things that an input callback may do.
LEMMA InputCallbackCases ==
  ASSUME TypeOK, NEW n \in InputSizes, InputCallback(n)
  PROVE  \/ /\ ~Listens
            /\ UNCHANGED <<history, ipc, detectedHost>>
         \/ /\ Listens
            /\ Hits(captured, n) = {}
            /\ history' = Extended(n)
            /\ UNCHANGED <<ipc, detectedHost>>
         \/ /\ Listens
            /\ Hits(captured, n) # {}
            /\ history' = WindowAfter(captured, FirstHit(n))
            /\ detectedHost' = captured + StartOffset(FirstHit(n))
            /\ ipc' = "storeTime"
<1> DEFINE hits == Hits(captured, n)
<1>1. CASE ~Listens
  BY <1>1 DEF InputCallback
<1>2. CASE Listens /\ hits = {}
  BY <1>2 DEF InputCallback, Extended
<1>3. CASE Listens /\ hits # {}
  <2>1. /\ history' = IF Len(history) + FirstHit(n) + 1 < PulseFrames
                      THEN history ELSE WindowAfter(captured, FirstHit(n))
        /\ detectedHost' = captured + StartOffset(FirstHit(n))
        /\ ipc' = "storeTime"
    BY <1>3 DEF InputCallback, FirstHit
  <2>2. FirstHit(n) \in Nat /\ Len(history) + FirstHit(n) + 1 >= PulseFrames
    BY <1>3, FirstHitIsAHit, ParameterTypes DEF Hits
  <2>3. ~(Len(history) + FirstHit(n) + 1 < PulseFrames)
    BY <2>2, TypesOfHistory, PulseTypes
  <2> QED  BY <1>3, <2>1, <2>3
<1> QED  BY <1>1, <1>2, <1>3

-----------------------------------------------------------------------------
(* Types.                                                                  *)

LEMMA TypesAreKept ==
  ASSUME TypeOK, [Next]_vars
  PROVE  TypeOK'
<1>1. ASSUME NEW n \in OutputSizes, OutputCallback(n)
      PROVE  TypeOK'
  <2>1. PulseStart(outputFrame) \in Nat
    BY TypesOfTimes, PulseTypes DEF PulseStart
  <2>2. lead \in Nat /\ outputFrame \in Nat /\ n \in Nat
    BY TypesOfTimes, ParameterTypes
  <2>3. outputFrame' \in Nat /\ pulseSent' \in BOOLEAN
    <3>1. outputFrame' \in Nat
      BY <1>1, <2>2 DEF OutputCallback
    <3>2. pulseSent \in BOOLEAN
      BY DEF TypeOK
    <3>3. pulseSent' = TRUE \/ pulseSent' = pulseSent
      BY <1>1 DEF OutputCallback
    <3> QED  BY <3>1, <3>2, <3>3
  <2>4. pulseHost' \in Nat /\ opc' \in {"idle", "storePulseTime", "return"}
    BY <1>1, <2>1, <2>2, SMTT(30) DEF OutputCallback, TypeOK
  <2>5. UNCHANGED <<world, units, input, main, pulseHostTime, played>>
    BY <1>1 DEF OutputCallback
  <2> QED  BY <2>3, <2>4, <2>5 DEF TypeOK, world, units, input, main
<1>2. CASE OutputStep
  <2>1. CASE StorePulseTime
    BY <2>1 DEF TypeOK, StorePulseTime, world, units, input, main
  <2>2. CASE OutputReturns
    BY <2>2 DEF TypeOK, OutputReturns, world, units, input, main
  <2> QED  BY <1>2, <2>1, <2>2 DEF OutputStep
<1>3. ASSUME NEW n \in InputSizes, InputFails(n)
      PROVE  TypeOK'
  BY <1>3, ParameterTypes, SMTT(30) DEF TypeOK, InputFails, units, output, main
<1>4. ASSUME NEW n \in InputSizes, InputCallback(n)
      PROVE  TypeOK'
  <2>1. /\ captured' \in Nat
        /\ UNCHANGED <<delay, lead, detected, detectedHostTime, error, units,
                       output, main>>
    BY <1>4, ParameterTypes, SMTT(30) DEF InputCallback, TypeOK
  <2>2. history' \in Seq(Samples) /\ Len(history') <= PulseFrames
    <3>1. CASE history' = history
      BY <3>1, TypesOfHistory
    <3>2. CASE history' = Extended(n)
      <4>1. n \in Nat /\ n > 0
        BY ParameterTypes
      <4>2. /\ Extended(n) \in Seq(Samples)
            /\ Len(Extended(n)) = IF Len(history) + n < PulseFrames
                                  THEN Len(history) + n ELSE PulseFrames
        BY <4>1, ExtendedIs
      <4> HIDE DEF Extended
      <4> QED  BY <3>2, <4>1, <4>2, TypesOfHistory, PulseTypes
    <3>3. CASE Hits(captured, n) # {} /\ history' = WindowAfter(captured, FirstHit(n))
      <4>1. FirstHit(n) \in Nat /\ Len(history) + FirstHit(n) + 1 >= PulseFrames
        BY <3>3, ParameterTypes, FirstHitIsAHit DEF Hits
      <4>2. captured \in Int /\ history \in Seq(Samples)
        BY TypesOfTimes, TypesOfHistory
      <4> QED  BY <3>3, <4>1, <4>2, WindowIs, PulseTypes
    <3> QED  BY <1>4, <3>1, <3>2, <3>3, InputCallbackCases
  <2>3. detectedHost' \in Nat /\ ipc' \in {"idle", "storeTime", "storeFlag"}
    <3>1. CASE UNCHANGED <<ipc, detectedHost>>
      BY <3>1 DEF TypeOK
    <3>2. CASE /\ Hits(captured, n) # {}
               /\ detectedHost' = captured + StartOffset(FirstHit(n))
               /\ ipc' = "storeTime"
      <4>1. FirstHit(n) \in Nat
        BY <3>2, ParameterTypes, FirstHitIsAHit DEF Hits
      <4>2. StartOffset(FirstHit(n)) \in Nat
        BY <4>1, PulseTypes DEF StartOffset
      <4> QED  BY <3>2, <4>2, TypesOfTimes
    <3> QED  BY <1>4, <3>1, <3>2, InputCallbackCases
  <2> QED
    BY <2>1, <2>2, <2>3 DEF TypeOK, Samples, units, output, main
<1>5. CASE InputStep
  <2>1. CASE StoreDetectedTime
    BY <2>1 DEF TypeOK, StoreDetectedTime, units, output, main
  <2>2. CASE StoreDetected
    BY <2>2 DEF TypeOK, StoreDetected, units, output, main
  <2> QED  BY <1>5, <2>1, <2>2 DEF InputStep
<1>6. CASE MainStep
  <2>1. CASE StartOutput
    BY <2>1, ParameterTypes, SMTT(30)
       DEF TypeOK, StartOutput, Goes, output, input
  <2>2. CASE Sleep
    <3>1. waited' \in 0 .. Timeout
      BY <2>2, ParameterTypes DEF Sleep, TypeOK
    <3> QED  BY <2>2, <3>1 DEF TypeOK, Sleep, world, output, input, units
  <2>3. CASE LoadPulseTime \/ LoadDetectedTime
    BY <2>3 DEF TypeOK, LoadPulseTime, LoadDetectedTime, Goes, world, output,
                input, units
  <2>4. CASE \/ ConfigureInput \/ ConfigureOutput \/ StartInput \/ SetupFails
             \/ WaitEnds \/ CheckError \/ CheckDetected
    <3>1. CASE ConfigureInput
      BY <3>1 DEF TypeOK, ConfigureInput, Goes, world, output, input, units
    <3>2. CASE ConfigureOutput
      BY <3>2 DEF TypeOK, ConfigureOutput, Goes, world, output, input, units
    <3>3. CASE StartInput
      BY <3>3 DEF TypeOK, StartInput, Goes, world, output, input, units
    <3>4. CASE SetupFails
      BY <3>4 DEF TypeOK, SetupFails, Goes, world, output, input, units
    <3>5. CASE WaitEnds
      BY <3>5 DEF TypeOK, WaitEnds, Goes, world, output, input, units
    <3>6. CASE CheckError
      BY <3>6 DEF TypeOK, CheckError, Goes, world, output, input, units
    <3>7. CASE CheckDetected
      BY <3>7 DEF TypeOK, CheckDetected, Goes, world, output, input, units
    <3> QED  BY <2>4, <3>1, <3>2, <3>3, <3>4, <3>5, <3>6, <3>7
  <2>5. CASE StopOutput \/ StopInput \/ FreeBuffer \/ Exit
    <3>1. CASE StopOutput
      BY <3>1 DEF TypeOK, StopOutput, Goes, world, output, input, units
    <3>2. CASE StopInput
      BY <3>2 DEF TypeOK, StopInput, Goes, world, output, input, units
    <3>3. CASE FreeBuffer
      BY <3>3 DEF TypeOK, FreeBuffer, Goes, world, output, input, units
    <3>4. CASE Exit
      BY <3>4 DEF TypeOK, Exit, Goes, world, output, input, units
    <3> QED  BY <2>5, <3>1, <3>2, <3>3, <3>4
  <2> QED  BY <1>6, <2>1, <2>2, <2>3, <2>4, <2>5 DEF MainStep
<1>7. CASE UNCHANGED vars
  BY <1>7 DEF TypeOK, vars, world, units, output, input, main
<1> QED  BY <1>1, <1>2, <1>3, <1>4, <1>5, <1>6, <1>7 DEF Next

LEMMA InitTypes ==
  ASSUME Init
  PROVE  TypeOK
<1>1. history \in Seq({-1, 0, 1}) /\ Len(history) <= PulseFrames
  BY PulseTypes, EmptySeq DEF Init
<1>2. {lead, captured, outputFrame, played, pulseHostTime, detectedHostTime,
       pulseHost, detectedHost} \subseteq Nat
  BY DEF Init
<1>3. {pulseSent, detected, error, inputBuffer, outputRunning, inputRunning}
        \subseteq BOOLEAN
  BY DEF Init
<1>4. waited \in 0 .. Timeout
  BY ParameterTypes DEF Init
<1> QED  BY <1>1, <1>2, <1>3, <1>4 DEF Init, TypeOK

\* The round-trip tool's variables keep their types, whatever the callbacks'
\* sizes and however they and main interleave.
THEOREM TypeCorrect == Spec => []TypeOK
BY InitTypes, TypesAreKept, PTL DEF Spec

-----------------------------------------------------------------------------
(* Each step keeps the invariant.                                          *)

Inv == UnitsInv /\ PulseInv /\ HeardInv /\ ListenInv /\ TimesInv

LEMMA EchoIsFixed ==
  ASSUME UNCHANGED <<delay, lead>>
  PROVE  /\ PulseTime' = PulseTime /\ EchoTime' = EchoTime
         /\ \A h : Echo(h)' = Echo(h)
         /\ \A time : NearTheEcho(time)' = NearTheEcho(time)
BY DEF PulseTime, EchoTime, Echo, NearTheEcho

LEMMA ListenInvIsKept ==
  ASSUME ListenInv, UNCHANGED <<delay, lead, captured, history>>,
         Listening' => Listening
  PROVE  ListenInv'
BY EchoIsFixed DEF ListenInv

LEMMA OutputCallbackKeeps ==
  ASSUME IInv, NEW n \in OutputSizes, OutputCallback(n)
  PROVE  Inv'
<1>0. /\ n \in Nat /\ n > 0 /\ outputFrame' = outputFrame + n
      /\ outputRunning /\ opc = "idle" /\ mpc \in Playing
      /\ UNCHANGED <<delay, lead, captured, inputBuffer, outputRunning,
                     inputRunning, history, detected, detectedHostTime, error, ipc,
                     detectedHost, mpc, waited, loaded, outcome, pulseHostTime,
                     played>>
      /\ opc' \in {"storePulseTime", "return"}
  BY ParameterTypes DEF OutputCallback, IInv, UnitsInv, world, units, input, main
<1>1. UnitsInv'
  BY <1>0 DEF IInv, UnitsInv, InputHasItsBuffer, Setup, Playing
<1>2. PulseInv'
  <2>1. played = outputFrame /\ played' <= outputFrame'
    BY <1>0, TypesOfTimes DEF IInv, PulseInv
  <2>2. CASE InPulse(outputFrame, n) /\ ~pulseSent
    <3>1. pulseSent' /\ opc' = "storePulseTime"
          /\ pulseHost' = lead + outputFrame + PulseStart(outputFrame)
      BY <2>2 DEF OutputCallback
    <3>2. outputFrame <= WarmupFrames
      BY <2>2 DEF IInv, PulseInv
    <3>3. lead + outputFrame + PulseStart(outputFrame) = PulseTime
      BY <3>2, TypesOfTimes, PulseTypes DEF PulseStart, PulseTime, IInv
    <3> QED  BY <1>0, <2>1, <3>1, <3>2, <3>3, EchoIsFixed DEF PulseInv
  <2>3. CASE ~InPulse(outputFrame, n) /\ ~pulseSent
    <3>1. opc' = "return" /\ ~pulseSent'
      BY <2>3 DEF OutputCallback
    <3>2. outputFrame <= WarmupFrames /\ history = <<>>
      BY <2>3 DEF IInv, PulseInv
    <3>3. outputFrame + n <= WarmupFrames
      BY <1>0, <2>3, <3>2, TypesOfTimes, PulseTypes DEF InPulse, IInv
    <3> QED  BY <1>0, <2>1, <3>1, <3>2, <3>3 DEF PulseInv
  <2>4. CASE pulseSent
    <3>1. opc' = "return" /\ pulseSent' = pulseSent
      BY <2>4 DEF OutputCallback
    <3> QED  BY <1>0, <2>1, <2>4, <3>1, EchoIsFixed DEF IInv, PulseInv
  <2> QED  BY <2>2, <2>3, <2>4
<1>3. HeardInv'
  <2>1. pulseSent => pulseSent' /\ opc' # "storePulseTime"
    BY DEF OutputCallback, IInv, TypeOK
  <2> QED  BY <1>0, <2>1, EchoIsFixed DEF IInv, HeardInv
<1>4. ListenInv'
  BY <1>0, ListenInvIsKept DEF IInv, Listening
<1>5. TimesInv'
  BY <1>0, EchoIsFixed DEF IInv, TimesInv, ReportNearsTheDelay, Reported
<1> QED  BY <1>1, <1>2, <1>3, <1>4, <1>5 DEF Inv

LEMMA OutputStepKeeps ==
  ASSUME IInv, OutputStep
  PROVE  Inv'
<1>0. UNCHANGED <<delay, lead, captured, inputBuffer, outputRunning, inputRunning,
                  history, detected, detectedHostTime, error, ipc, detectedHost, mpc,
                  waited, loaded, outcome, outputFrame, pulseSent>>
  BY DEF OutputStep, StorePulseTime, OutputReturns, world, units, input, main
<1>1. UnitsInv'
  BY <1>0
  DEF OutputStep, StorePulseTime, OutputReturns, IInv, UnitsInv, InputHasItsBuffer
<1>2. PulseInv'
  <2>1. CASE StorePulseTime
    BY <1>0, <2>1, EchoIsFixed DEF StorePulseTime, IInv, PulseInv
  <2>2. CASE OutputReturns
    <3>1. outputFrame <= outputFrame
      BY TypesOfTimes DEF IInv
    <3> QED  BY <1>0, <2>2, <3>1, EchoIsFixed DEF OutputReturns, IInv, PulseInv
  <2> QED  BY <2>1, <2>2 DEF OutputStep
<1>3. HeardInv'
  <2>1. opc' # "storePulseTime"
    BY DEF OutputStep, StorePulseTime, OutputReturns
  <2>2. played <= played'
    BY TypesOfTimes DEF OutputStep, StorePulseTime, OutputReturns, IInv, PulseInv
  <2>3. outputRunning /\ delay # NoCable => captured <= delay + lead + played'
    <3>1. played' \in Nat
      BY TypesOfTimes DEF OutputStep, StorePulseTime, OutputReturns, IInv
    <3> QED  BY <2>2, <3>1, TypesOfTimes DEF IInv, HeardInv
  <2> QED  BY <1>0, <2>1, <2>3, EchoIsFixed DEF IInv, HeardInv
<1>4. ListenInv'
  BY <1>0, ListenInvIsKept DEF IInv, Listening
<1>5. TimesInv'
  BY <1>0, EchoIsFixed DEF IInv, TimesInv, ReportNearsTheDelay, Reported
<1> QED  BY <1>1, <1>2, <1>3, <1>4, <1>5 DEF Inv

LEMMA InputFailsKeeps ==
  ASSUME IInv, NEW n \in InputSizes, InputFails(n)
  PROVE  Inv'
<1>0. /\ n \in Nat /\ captured' = captured + n /\ error' /\ ipc = "idle" /\ Captured(n)
      /\ UNCHANGED <<delay, lead, inputBuffer, outputRunning, inputRunning, history,
                     detected, detectedHostTime, ipc, detectedHost, mpc, waited,
                     loaded, outcome, outputFrame, pulseSent, pulseHostTime, opc,
                     pulseHost, played>>
  BY ParameterTypes DEF InputFails, units, output, main
<1>1. UnitsInv'
  BY <1>0 DEF IInv, UnitsInv, InputHasItsBuffer
<1>2. PulseInv'
  BY <1>0, EchoIsFixed DEF IInv, PulseInv
<1>3. HeardInv'
  <2>1. delay # NoCable /\ captured > EchoTime => captured + n > EchoTime
    BY <1>0, TypesOfTimes DEF IInv
  <2>2. outputRunning /\ delay # NoCable => captured + n <= delay + lead + played
    BY <1>0, TypesOfTimes DEF Captured, IInv
  <2> QED  BY <1>0, <2>1, <2>2, EchoIsFixed DEF IInv, HeardInv
<1>4. ListenInv'
  BY <1>0 DEF ListenInv, Listening
<1>5. TimesInv'
  BY <1>0 DEF IInv, TimesInv, ReportNearsTheDelay, PulseTime
<1> QED  BY <1>1, <1>2, <1>3, <1>4, <1>5 DEF Inv

\* A callback that listens in vain: the history goes on where it was.
LEMMA ListensInVain ==
  ASSUME IInv, NEW n \in Nat, n > 0, Hits(captured, n) = {}, Captured(n),
         captured' = captured + n, history' = Extended(n),
         UNCHANGED <<delay, lead, detected, ipc, error, outputRunning>>
  PROVE  ListenInv' /\ \A j \in 1 .. Len(history') :
                         history'[j] # 0 => delay # NoCable /\ captured' > EchoTime
<1> DEFINE len == Len(history')
<1>1. /\ TypeOK /\ captured \in Nat /\ Len(history) \in Nat
      /\ PulseFrames \in Nat /\ PulseFrames > 0
      /\ Len(history) <= PulseFrames
      /\ delay # NoCable => EchoTime \in Nat
  BY TypesOfTimes, TypesOfHistory, PulseTypes DEF IInv
<1>2. len = IF Len(history) + n < PulseFrames THEN Len(history) + n ELSE PulseFrames
  BY <1>1, ExtendedIs
<1>3. \A j \in 1 .. len :
        history'[j] = IF j + n <= len THEN history[Len(history) - len + j + n]
                      ELSE Echo(captured + n - len + j - 1)
  BY <1>1, ExtendedIs
<1>4. len \in Nat /\ len <= Len(history) + n /\ len <= PulseFrames
  BY <1>1, <1>2
<1> HIDE DEF len
<1>5. ASSUME NEW j \in 1 .. len, history'[j] # 0
      PROVE  delay # NoCable /\ captured' > EchoTime
  <2>1. CASE j + n <= len
    <3>1. Len(history) - len + j + n \in 1 .. Len(history)
      BY <1>1, <1>4, <2>1
    <3>2. delay # NoCable /\ captured > EchoTime
      BY <1>3, <1>5, <2>1, <3>1 DEF IInv, HeardInv
    <3> QED  BY <1>1, <3>2
  <2>2. CASE ~(j + n <= len)
    <3>1. captured + n - len + j - 1 \in Int /\ captured + n - len + j - 1 < captured'
      BY <1>1, <1>4
    <3>2. delay # NoCable /\ captured + n - len + j - 1 >= EchoTime
      BY <1>1, <1>3, <1>5, <2>2, <3>1, EchoTakesTime
    <3> QED  BY <1>1, <3>1, <3>2
  <2> QED  BY <2>1, <2>2
<1>6. ListenInv'
  <2>1. SUFFICES ASSUME Listening'
                 PROVE  /\ \A j \in 1 .. len :
                             history'[j] = Echo(captured' - len + j - 1)
                        /\ delay # NoCable =>
                             /\ len < PulseFrames => captured' - len <= EchoTime
                             /\ captured' < EchoTime + PulseFrames
    BY EchoIsFixed DEF ListenInv, len
  <2>2. Listening
    BY <2>1 DEF Listening
  <2>3. ASSUME NEW j \in 1 .. len
        PROVE  history'[j] = Echo(captured' - len + j - 1)
    <3>1. CASE j + n <= len
      <4>1. Len(history) - len + j + n \in 1 .. Len(history)
        BY <1>1, <1>4, <3>1
      <4>2. history[Len(history) - len + j + n] =
              Echo(captured - Len(history) + (Len(history) - len + j + n) - 1)
        BY <2>2, <4>1 DEF IInv, ListenInv
      <4>3. captured - Len(history) + (Len(history) - len + j + n) - 1
              = captured' - len + j - 1
        BY <1>1, <1>4
      <4> QED  BY <1>3, <3>1, <4>2, <4>3
    <3>2. CASE ~(j + n <= len)
      <4>1. history'[j] = Echo(captured + n - len + j - 1)
        BY <1>3, <3>2
      <4>2. captured + n - len + j - 1 = captured' - len + j - 1
        BY <1>1, <1>4
      <4> QED  BY <4>1, <4>2
    <3> QED  BY <3>1, <3>2
  <2>4. ASSUME delay # NoCable
        PROVE  /\ len < PulseFrames => captured' - len <= EchoTime
               /\ captured' < EchoTime + PulseFrames
    <3>1. captured < EchoTime + PulseFrames
          /\ (Len(history) < PulseFrames => captured - Len(history) <= EchoTime)
      BY <2>2, <2>4 DEF IInv, ListenInv
    <3>2. ASSUME captured + n >= EchoTime + PulseFrames PROVE FALSE
      BY <2>2, <2>4, <3>2, WholeEchoIsAHit DEF IInv
    <3>3. len < PulseFrames => len = Len(history) + n /\ Len(history) < PulseFrames
      BY <1>1, <1>2
    <3>4. captured + n - (Len(history) + n) = captured - Len(history)
      BY <1>1
    <3> QED  BY <1>1, <1>4, <2>4, <3>1, <3>2, <3>3, <3>4
  <2> QED  BY <2>3, <2>4
<1> QED  BY <1>5, <1>6 DEF len

LEMMA InputCallbackKeeps ==
  ASSUME IInv, NEW n \in InputSizes, InputCallback(n)
  PROVE  Inv'
<1>0. /\ n \in Nat /\ n > 0 /\ captured' = captured + n /\ ipc = "idle" /\ Captured(n)
      /\ UNCHANGED <<delay, lead, detected, detectedHostTime, error, inputBuffer,
                     outputRunning, inputRunning, outputFrame, pulseSent,
                     pulseHostTime, opc, pulseHost, played, mpc, waited, loaded,
                     outcome>>
  BY ParameterTypes DEF InputCallback, units, output, main
<1>1. UnitsInv'
  BY <1>0 DEF IInv, UnitsInv, InputHasItsBuffer
<1>2. PulseInv'
  <2>1. history' = history \/ pulseSent
    BY InputCallbackCases DEF Listens, IInv
  <2> QED  BY <1>0, <2>1, EchoIsFixed DEF IInv, PulseInv
<1>3. outputRunning /\ delay # NoCable => captured' <= delay + lead + played
  BY <1>0, TypesOfTimes DEF Captured, IInv
<1>4. TypeOK /\ captured \in Nat /\ captured' \in Nat
      /\ (delay # NoCable => EchoTime \in Nat)
  BY <1>0, TypesOfTimes DEF IInv
<1>5. CASE ~Listens /\ UNCHANGED <<history, ipc, detectedHost>>
  <2>1. HeardInv'
    <3>1. delay # NoCable /\ captured > EchoTime => captured' > EchoTime
      BY <1>0, <1>4
    <3> QED  BY <1>0, <1>3, <1>5, <3>1, EchoIsFixed DEF IInv, HeardInv
  <2>2. ListenInv'
    <3>1. SUFFICES ASSUME Listening' PROVE ListenInv'
      BY DEF ListenInv
    <3>2. ~pulseSent /\ outputRunning
      BY <1>0, <1>5, <3>1 DEF Listens, Listening
    <3>3. history' = <<>> /\ played <= WarmupFrames
      BY <1>5, <3>2, TypesOfTimes, PulseTypes DEF IInv, PulseInv
    <3>4. delay # NoCable => captured' <= EchoTime
      BY <1>3, <1>4, <3>2, <3>3, TypesOfTimes, PulseTypes DEF EchoTime, PulseTime
    <3>5. Len(history') = 0
      BY <3>3
    <3> QED  BY <1>4, <3>4, <3>5, EchoIsFixed, <1>0, PulseTypes DEF ListenInv
  <2>3. TimesInv'
    BY <1>0, <1>5, EchoIsFixed DEF IInv, TimesInv, ReportNearsTheDelay, Reported
  <2> QED  BY <1>1, <1>2, <2>1, <2>2, <2>3 DEF Inv
<1>6. CASE /\ Listens
           /\ Hits(captured, n) = {}
           /\ history' = Extended(n)
           /\ UNCHANGED <<ipc, detectedHost>>
  <2>1. ListenInv' /\ \A j \in 1 .. Len(history') :
                        history'[j] # 0 => delay # NoCable /\ captured' > EchoTime
    BY <1>0, <1>6, ListensInVain
  <2>2. HeardInv'
    BY <1>0, <1>3, <1>6, <2>1, EchoIsFixed DEF IInv, HeardInv
  <2>3. TimesInv'
    BY <1>0, <1>6, EchoIsFixed DEF IInv, TimesInv, ReportNearsTheDelay, Reported
  <2> QED  BY <1>1, <1>2, <2>1, <2>2, <2>3 DEF Inv
<1>7. CASE /\ Listens
           /\ Hits(captured, n) # {}
           /\ history' = WindowAfter(captured, FirstHit(n))
           /\ detectedHost' = captured + StartOffset(FirstHit(n))
           /\ ipc' = "storeTime"
  <2> DEFINE hit == FirstHit(n)
  <2>1. /\ hit \in Hits(captured, n) /\ hit \in Nat /\ hit < n
        /\ Len(history) + hit + 1 >= PulseFrames
    BY <1>0, <1>7, FirstHitIsAHit DEF Hits
  <2>2. delay # NoCable /\ captured + hit >= EchoTime
    BY <1>0, <2>1, HitHearsTheEcho DEF IInv
  <2>3. captured' > EchoTime
    <3> HIDE DEF hit
    <3> QED  BY <1>0, <1>4, <2>1, <2>2
  <2>4. pulseSent /\ opc # "storePulseTime"
    <3>1. pulseSent
      BY <1>7 DEF Listens
    <3>2. CASE outputRunning
      <4>1. played > WarmupFrames
        BY <1>3, <1>4, <2>2, <2>3, <3>2, TypesOfTimes, PulseTypes
        DEF EchoTime, PulseTime
      <4> QED  BY <3>1, <4>1, TypesOfTimes, PulseTypes DEF IInv, PulseInv
    <3>3. CASE ~outputRunning
      BY <3>1, <3>3 DEF IInv, UnitsInv
    <3> QED  BY <3>2, <3>3
  <2>5. HeardInv'
    <3>1. ~detected
      BY <1>7 DEF Listens
    <3> QED  BY <1>0, <1>3, <2>2, <2>3, <2>4, <3>1, EchoIsFixed DEF HeardInv
  <2>6. ListenInv'
    BY <1>7 DEF ListenInv, Listening
  <2>7. TimesInv'
    <3>1. outputRunning /\ ~error => NearTheEcho(detectedHost')
      <4>1. SUFFICES ASSUME outputRunning, ~error PROVE NearTheEcho(detectedHost')
        OBVIOUS
      <4>2. Listening
        BY <1>0, <1>7, <4>1 DEF Listening, Listens
      <4> QED  BY <1>0, <1>7, <4>2, FirstHitIsNear DEF IInv
    <3> QED
      BY <1>0, <1>7, <3>1, EchoIsFixed
      DEF IInv, TimesInv, ReportNearsTheDelay, Reported
  <2> QED  BY <1>1, <1>2, <2>5, <2>6, <2>7 DEF Inv
<1> QED  BY <1>5, <1>6, <1>7, InputCallbackCases DEF IInv

LEMMA InputStepKeeps ==
  ASSUME IInv, InputStep
  PROVE  Inv'
<1>0. /\ ipc # "idle"
      /\ UNCHANGED <<delay, lead, captured, inputBuffer, outputRunning, inputRunning,
                     history, error, mpc, waited, loaded, outcome, outputFrame,
                     pulseSent, pulseHostTime, opc, pulseHost, played>>
  BY DEF InputStep, StoreDetectedTime, StoreDetected, units, output, main
<1>1. UnitsInv'
  BY <1>0 DEF IInv, UnitsInv, InputHasItsBuffer
<1>2. PulseInv'
  BY <1>0, EchoIsFixed DEF IInv, PulseInv
<1>3. HeardInv'
  BY <1>0, EchoIsFixed
  DEF InputStep, StoreDetectedTime, StoreDetected, IInv, HeardInv
<1>4. ListenInv'
  <2>1. ~Listening'
    BY DEF InputStep, StoreDetectedTime, StoreDetected, Listening
  <2> QED  BY <2>1 DEF ListenInv
<1>5. TimesInv'
  <2>1. CASE StoreDetectedTime
    BY <1>0, <2>1, EchoIsFixed
    DEF StoreDetectedTime, IInv, TimesInv, ReportNearsTheDelay, Reported
  <2>2. CASE StoreDetected
    BY <1>0, <2>2, EchoIsFixed
    DEF StoreDetected, IInv, TimesInv, ReportNearsTheDelay, Reported
  <2> QED  BY <2>1, <2>2 DEF InputStep
<1> QED  BY <1>1, <1>2, <1>3, <1>4, <1>5 DEF Inv

LEMMA MainStepKeeps ==
  ASSUME IInv, MainStep
  PROVE  Inv'
<1> DEFINE callbacks == <<delay, captured, outputFrame, pulseSent, pulseHostTime,
                          opc, pulseHost, played, history, detected,
                          detectedHostTime, error, ipc, detectedHost>>
<1>1. CASE StartOutput
  <2>0. /\ mpc = "startOutput" /\ mpc' = "wait" /\ outputRunning'
        /\ UNCHANGED <<callbacks, inputBuffer, inputRunning, waited, loaded, outcome>>
    BY <1>1 DEF StartOutput, Goes, output, input
  <2>1. PICK l \in Nat : lead' = captured + l
    BY <1>1, ParameterTypes DEF StartOutput
  <2>2. /\ outputFrame = 0 /\ ~pulseSent /\ ~outputRunning /\ opc = "idle"
        /\ history = <<>> /\ ipc = "idle" /\ ~detected /\ played = 0
    BY <2>0 DEF IInv, UnitsInv, PulseInv, HeardInv, Setup, Playing
  <2>3. Len(history) = 0
    BY <2>2
  <2>4. UnitsInv'
    BY <2>0, <2>2 DEF IInv, UnitsInv, InputHasItsBuffer, Playing, Setup
  <2>5. PulseInv'
    BY <2>0, <2>2, PulseTypes DEF IInv, PulseInv
  <2>6. delay # NoCable =>
          /\ captured <= delay + lead' + played
          /\ EchoTime' \in Nat /\ captured <= EchoTime'
    <3>1. captured \in Nat /\ WarmupFrames \in Nat /\ played = 0 /\ TypeOK
      BY <2>2, TypesOfTimes, PulseTypes DEF IInv
    <3>2. SUFFICES ASSUME delay # NoCable
                   PROVE  /\ captured <= delay + lead' + played
                          /\ EchoTime' \in Nat /\ captured <= EchoTime'
      OBVIOUS
    <3>3. delay \in Nat
      BY <3>1, <3>2, TypesOfTimes
    <3>4. EchoTime' = captured + l + WarmupFrames + delay
      BY <2>0, <2>1 DEF EchoTime, PulseTime
    <3> QED  BY <2>1, <3>1, <3>3, <3>4
  <2>7. HeardInv'
    BY <2>0, <2>2, <2>3, <2>6 DEF HeardInv
  <2>8. ListenInv'
    <3>1. delay # NoCable =>
            /\ captured - Len(history) <= EchoTime'
            /\ captured < EchoTime' + PulseFrames
      BY <2>3, <2>6, TypesOfTimes, PulseTypes DEF IInv
    <3> QED  BY <2>0, <2>3, <3>1 DEF ListenInv
  <2>9. TimesInv'
    BY <2>0, <2>2 DEF IInv, TimesInv, ReportNearsTheDelay, Reported, Setup
  <2> QED  BY <2>4, <2>5, <2>7, <2>8, <2>9 DEF Inv
<1>2. ASSUME UNCHANGED <<callbacks, lead>>, outputRunning' => outputRunning,
             UnitsInv', TimesInv'
      PROVE  Inv'
  <2>1. PulseInv'
    BY <1>2, EchoIsFixed DEF IInv, PulseInv
  <2>2. HeardInv'
    BY <1>2, EchoIsFixed DEF IInv, HeardInv
  <2>3. ListenInv'
    BY <1>2, ListenInvIsKept DEF IInv, Listening
  <2> QED  BY <1>2, <2>1, <2>2, <2>3 DEF Inv
<1>3. CASE ConfigureInput \/ ConfigureOutput \/ StartInput \/ SetupFails
  <2>0. /\ UNCHANGED <<callbacks, lead, outputRunning, loaded>>
        /\ mpc \in Setup /\ mpc' \in Setup \cup {"exited"}
        /\ outcome' = outcome \/ (mpc' = "exited" /\ outcome' = "setupFailed")
    BY <1>3 DEF ConfigureInput, ConfigureOutput, StartInput, SetupFails, Goes,
                Setup, world, output, input, units
  <2>1. UnitsInv'
    BY <1>3, <2>0 DEF ConfigureInput, ConfigureOutput, StartInput, SetupFails, Goes,
                Setup, Playing, units, IInv, UnitsInv, InputHasItsBuffer
  <2>2. TimesInv'
    BY <2>0, EchoIsFixed
    DEF IInv, TimesInv, ReportNearsTheDelay, Reported, Setup
  <2> QED  BY <1>2, <2>0, <2>1, <2>2
<1>4. CASE Sleep \/ WaitEnds \/ CheckError \/ CheckDetected
  <2>0. /\ UNCHANGED <<callbacks, lead, units, loaded>>
        /\ mpc \in {"wait", "checkError", "checkDetected"}
        /\ mpc' \in {"wait", "checkError", "checkDetected", "loadPulseTime",
                     "stopOutput"}
        /\ outcome' = outcome
             \/ (mpc' = "stopOutput" /\ outcome' \in {"renderError", "notDetected"})
        /\ mpc' = "loadPulseTime" => detected
    BY <1>4 DEF Sleep, WaitEnds, CheckError, CheckDetected, Goes, world, output,
                input
  <2>1. UnitsInv'
    BY <2>0 DEF Setup, Playing, units, IInv, UnitsInv, InputHasItsBuffer
  <2>2. TimesInv'
    BY <2>0, EchoIsFixed
    DEF IInv, TimesInv, ReportNearsTheDelay, Reported, units, Setup
  <2> QED  BY <1>2, <2>0, <2>1, <2>2 DEF units
<1>5. CASE LoadPulseTime
  <2>0. /\ UNCHANGED <<callbacks, lead, units, outcome>>
        /\ mpc = "loadPulseTime" /\ mpc' = "loadDetectedTime"
        /\ loaded'.pulse = pulseHostTime
    BY <1>5 DEF LoadPulseTime, Goes, world, output, input, IInv, TypeOK
  <2>1. UnitsInv'
    BY <2>0 DEF Setup, Playing, units, IInv, UnitsInv, InputHasItsBuffer
  <2>2. detected /\ pulseHostTime = PulseTime /\ outcome = "none"
    BY <2>0 DEF IInv, TimesInv, HeardInv, PulseInv
  <2>3. TimesInv'
    BY <2>0, <2>2, EchoIsFixed DEF IInv, TimesInv, ReportNearsTheDelay, units
  <2> QED  BY <1>2, <2>0, <2>1, <2>3 DEF units
<1>6. CASE LoadDetectedTime
  <2>0. /\ UNCHANGED <<callbacks, lead, units>>
        /\ mpc = "loadDetectedTime" /\ mpc' = "stopOutput"
        /\ loaded'.pulse = loaded.pulse /\ loaded'.detected = detectedHostTime
    BY <1>6 DEF LoadDetectedTime, Goes, world, output, input, IInv, TypeOK
  <2>1. UnitsInv'
    BY <2>0 DEF Setup, Playing, units, IInv, UnitsInv, InputHasItsBuffer
  <2>2. detected /\ loaded.pulse = PulseTime /\ ipc = "idle" /\ delay # NoCable
    BY <2>0 DEF IInv, TimesInv, HeardInv
  <2>3. ReportNearsTheDelay'
    <3>1. SUFFICES ASSUME ~error
                   PROVE  /\ detectedHostTime - PulseTime - delay < PulseFrames
                          /\ delay - (detectedHostTime - PulseTime) < PulseFrames
      BY <2>0, <2>2 DEF ReportNearsTheDelay, Reported
    <3>2. NearTheEcho(detectedHostTime)
      BY <2>0, <2>2, <3>1 DEF IInv, TimesInv, UnitsInv, Playing
    <3>3. detectedHostTime \in Nat
      BY DEF IInv, TypeOK
    <3> QED  BY <2>2, <3>2, <3>3, TypesOfTimes, PulseTypes
             DEF NearTheEcho, EchoTime, IInv
  <2>4. TimesInv'
    BY <2>0, <2>2, <2>3, EchoIsFixed DEF IInv, TimesInv, Setup, units
  <2> QED  BY <1>2, <2>0, <2>1, <2>4 DEF units
<1>7. CASE StopOutput \/ StopInput \/ FreeBuffer \/ Exit
  <2>0. /\ UNCHANGED <<callbacks, lead, loaded, outcome>>
        /\ mpc \in {"stopOutput", "stopInput", "free", "return"}
        /\ mpc' \in {"stopInput", "free", "return", "exited"}
        /\ outputRunning' => outputRunning
    BY <1>7 DEF StopOutput, StopInput, FreeBuffer, Exit, Goes, world, output, input,
                units
  <2>1. UnitsInv'
    BY <1>7 DEF StopOutput, StopInput, FreeBuffer, Exit, Goes, world, output, input,
                units, Setup, Playing, IInv, UnitsInv, InputHasItsBuffer
  <2>2. TimesInv'
    BY <2>0, EchoIsFixed
    DEF IInv, TimesInv, ReportNearsTheDelay, Reported, Setup
  <2> QED  BY <1>2, <2>0, <2>1, <2>2
<1> QED  BY <1>1, <1>3, <1>4, <1>5, <1>6, <1>7 DEF MainStep

-----------------------------------------------------------------------------
(* The theorems.                                                           *)

LEMMA InitHolds == Init => IInv
<1> SUFFICES ASSUME Init PROVE IInv
  OBVIOUS
<1>1. TypeOK
  BY InitTypes
<1>2. UnitsInv
  BY DEF Init, UnitsInv, InputHasItsBuffer, Setup, Playing
<1>3. PulseInv
  BY PulseTypes DEF Init, PulseInv
<1>4. HeardInv
  BY EmptySeq DEF Init, HeardInv
<1>5. ListenInv
  BY DEF Init, ListenInv, Listening
<1>6. TimesInv
  BY DEF Init, TimesInv, ReportNearsTheDelay, Setup
<1> QED  BY <1>1, <1>2, <1>3, <1>4, <1>5, <1>6 DEF IInv

LEMMA NextKeeps == IInv /\ [Next]_vars => IInv'
<1> SUFFICES ASSUME IInv, [Next]_vars PROVE IInv'
  OBVIOUS
<1>1. TypeOK'
  BY TypesAreKept DEF IInv
<1>2. Inv'
  <2>1. ASSUME NEW n \in OutputSizes, OutputCallback(n) PROVE Inv'
    BY <2>1, OutputCallbackKeeps
  <2>2. CASE OutputStep
    BY <2>2, OutputStepKeeps
  <2>3. ASSUME NEW n \in InputSizes, InputCallback(n) \/ InputFails(n) PROVE Inv'
    BY <2>3, InputCallbackKeeps, InputFailsKeeps
  <2>4. CASE InputStep
    BY <2>4, InputStepKeeps
  <2>5. CASE MainStep
    BY <2>5, MainStepKeeps
  <2>6. CASE UNCHANGED vars
    <3>1. UNCHANGED <<delay, lead, captured, inputBuffer, outputRunning, inputRunning,
                      outputFrame, pulseSent, pulseHostTime, opc, pulseHost, played,
                      history, detected, detectedHostTime, error, ipc, detectedHost,
                      mpc, waited, loaded, outcome>>
      BY <2>6 DEF vars, world, units, output, input, main
    <3>2. UnitsInv' /\ PulseInv' /\ HeardInv'
      BY <3>1, EchoIsFixed DEF IInv, UnitsInv, InputHasItsBuffer, PulseInv, HeardInv
    <3>3. ListenInv'
      BY <3>1, ListenInvIsKept DEF IInv, Listening
    <3>4. TimesInv'
      BY <3>1, EchoIsFixed DEF IInv, TimesInv, ReportNearsTheDelay, Reported
    <3> QED  BY <3>2, <3>3, <3>4 DEF Inv
  <2> QED  BY <2>1, <2>2, <2>3, <2>4, <2>5, <2>6 DEF Next
<1> QED  BY <1>1, <1>2 DEF IInv, Inv

LEMMA InvariantHolds == Spec => []IInv
BY InitHolds, NextKeeps, PTL DEF Spec

\* A latency that the tool prints is that of the cable give or take one pulse,
\* for every pulse, threshold, callback size and interleaving.
THEOREM ReportIsNear == Spec => []ReportNearsTheDelay
<1>1. IInv => ReportNearsTheDelay
  BY DEF IInv, TimesInv
<1> QED  BY <1>1, InvariantHolds, PTL

\* A running input unit has its buffer until it has been stopped.
THEOREM BufferOutlivesCallbacks == Spec => []InputHasItsBuffer
<1>1. IInv => InputHasItsBuffer
  BY DEF IInv, UnitsInv
<1> QED  BY <1>1, InvariantHolds, PTL

\* What has been handed over with the detected flag is not written again.
THEOREM TimesAreFinal == Spec => DetectionIsFinal
<1>1. ASSUME IInv, [Next]_vars, detected
      PROVE  UNCHANGED <<pulseHostTime, detectedHostTime>>
  <2>0. opc # "storePulseTime" /\ ipc = "idle"
    BY <1>1 DEF IInv, HeardInv
  <2>1. ASSUME NEW n \in OutputSizes, OutputCallback(n)
        PROVE  UNCHANGED <<pulseHostTime, detectedHostTime>>
    BY <2>1 DEF OutputCallback, input
  <2>2. CASE OutputStep \/ InputStep
    BY <2>0, <2>2 DEF OutputStep, StorePulseTime, OutputReturns, InputStep,
                      StoreDetectedTime, StoreDetected, input
  <2>3. ASSUME NEW n \in InputSizes, InputCallback(n) \/ InputFails(n)
        PROVE  UNCHANGED <<pulseHostTime, detectedHostTime>>
    BY <2>3 DEF InputCallback, InputFails, output
  <2>4. CASE MainStep
    BY <2>4 DEF MainStep, ConfigureInput, ConfigureOutput, StartInput, StartOutput,
                SetupFails, Sleep, WaitEnds, CheckError, CheckDetected,
                LoadPulseTime, LoadDetectedTime, StopOutput, StopInput, FreeBuffer,
                Exit, output, input
  <2>5. CASE UNCHANGED vars
    BY <2>5 DEF vars, output, input
  <2> QED  BY <1>1, <2>1, <2>2, <2>3, <2>4, <2>5 DEF Next
<1>2. IInv /\ [Next]_vars => [detected => UNCHANGED <<pulseHostTime, detectedHostTime>>]_vars
  BY <1>1
<1> QED  BY <1>2, InvariantHolds, PTL DEF Spec, DetectionIsFinal

-----------------------------------------------------------------------------
(* The end of the tool, which MeasureEnds says comes: what main still has  *)
(* to do goes down with each of its steps, and no callback adds to it.     *)

StepsToExit ==
  CASE mpc = "configureInput"   -> Timeout + 13
    [] mpc = "configureOutput"  -> Timeout + 12
    [] mpc = "startInput"       -> Timeout + 11
    [] mpc = "startOutput"      -> Timeout + 10
    [] mpc = "wait"             -> Timeout - waited + 9
    [] mpc = "checkError"       -> 8
    [] mpc = "checkDetected"    -> 7
    [] mpc = "loadPulseTime"    -> 6
    [] mpc = "loadDetectedTime" -> 5
    [] mpc = "stopOutput"       -> 4
    [] mpc = "stopInput"        -> 3
    [] mpc = "free"             -> 2
    [] mpc = "return"           -> 1
    [] OTHER                    -> 0

\* Each step of main brings it nearer to its end, whether there is an echo, an
\* error or not a single callback, and no callback takes it back.
MainRunsOut ==
  [][IF MainStep THEN StepsToExit' < StepsToExit ELSE UNCHANGED main]_vars

LEMMA MainGoesOn ==
  ASSUME TypeOK, MainStep
  PROVE  StepsToExit' < StepsToExit
<1>0. Timeout \in Nat /\ waited \in 0 .. Timeout
  BY ParameterTypes DEF TypeOK
<1>1. CASE ConfigureInput \/ ConfigureOutput \/ StartInput
  BY <1>0, <1>1 DEF ConfigureInput, ConfigureOutput, StartInput, Goes, StepsToExit
<1>2. CASE StartOutput
  <2>1. StepsToExit = Timeout + 10
    BY <1>2 DEF StartOutput, Goes, StepsToExit
  <2>2. StepsToExit' = Timeout - waited + 9
    BY <1>2 DEF StartOutput, Goes, StepsToExit
  <2> QED  BY <1>0, <2>1, <2>2
<1>3. CASE SetupFails
  <2>1. StepsToExit >= Timeout + 10
    BY <1>0, <1>3 DEF SetupFails, StepsToExit
  <2>2. StepsToExit' = 0
    BY <1>3 DEF SetupFails, StepsToExit
  <2>3. StepsToExit \in Nat
    BY <1>0, <1>3 DEF SetupFails, StepsToExit
  <2> QED  BY <1>0, <2>1, <2>2, <2>3
<1>4. CASE Sleep
  <2>1. StepsToExit = Timeout - waited + 9
    BY <1>4 DEF Sleep, StepsToExit
  <2>2. StepsToExit' = Timeout - (waited + 1) + 9
    BY <1>4 DEF Sleep, StepsToExit
  <2> QED  BY <1>0, <2>1, <2>2
<1>5. CASE WaitEnds
  <2>1. StepsToExit = Timeout - waited + 9
    BY <1>5 DEF WaitEnds, Goes, StepsToExit
  <2>2. StepsToExit' = 8
    BY <1>5 DEF WaitEnds, Goes, StepsToExit
  <2> QED  BY <1>0, <2>1, <2>2
<1>6. CASE CheckError \/ CheckDetected
  BY <1>6 DEF CheckError, CheckDetected, StepsToExit
<1>7. CASE LoadPulseTime \/ LoadDetectedTime
  BY <1>7 DEF LoadPulseTime, LoadDetectedTime, Goes, StepsToExit
<1>8. CASE StopOutput \/ StopInput
  BY <1>8 DEF StopOutput, StopInput, Goes, StepsToExit
<1>9. CASE FreeBuffer \/ Exit
  BY <1>9 DEF FreeBuffer, Exit, Goes, StepsToExit
<1> QED
  BY <1>1, <1>2, <1>3, <1>4, <1>5, <1>6, <1>7, <1>8, <1>9 DEF MainStep

\* main ends after at most Timeout + 13 steps of its own, for every timeout and
\* whatever the callbacks do: what MeasureEnds needs besides fairness.
THEOREM MainEnds == Spec => MainRunsOut
<1>1. ASSUME TypeOK, [Next]_vars, ~MainStep
      PROVE  UNCHANGED main
  <2>1. ASSUME NEW n \in OutputSizes, OutputCallback(n)
        PROVE  UNCHANGED main
    BY <2>1 DEF OutputCallback
  <2>2. CASE OutputStep
    BY <2>2 DEF OutputStep, StorePulseTime, OutputReturns
  <2>3. ASSUME NEW n \in InputSizes, InputCallback(n) \/ InputFails(n)
        PROVE  UNCHANGED main
    BY <2>3 DEF InputCallback, InputFails
  <2>4. CASE InputStep
    BY <2>4 DEF InputStep, StoreDetectedTime, StoreDetected
  <2>5. CASE UNCHANGED vars
    BY <2>5 DEF vars
  <2> QED  BY <1>1, <2>1, <2>2, <2>3, <2>4, <2>5 DEF Next
<1>2. TypeOK /\ [Next]_vars =>
        [IF MainStep THEN StepsToExit' < StepsToExit ELSE UNCHANGED main]_vars
  BY <1>1, MainGoesOn
<1> QED  BY <1>2, TypeCorrect, PTL DEF Spec, MainRunsOut
=============================================================================
