----------------------------- MODULE RtlMeasure -----------------------------
(***************************************************************************)
(* rocksmith_bridge_rtl: an output callback plays a pulse, an input        *)
(* callback correlates what comes back over a cable with it, and the main  *)
(* thread waits for one of them to hand over a time, a timeout or an error.*)
(* The three run on threads of their own and share atomics only; each      *)
(* access of one that another thread looks at is a step.                   *)
(*                                                                         *)
(* Time is counted in frames (ticksPerFrame is 1) and amplitudes are left  *)
(* out: the score is normalised, so a sample is 1, -1 or 0.                *)
(***************************************************************************)
EXTENDS Integers, Sequences, FiniteSets

CONSTANTS
  PulseFrames,   \* kPulseFrames
  HalfPeriod,    \* frames of one sign in the pattern (8)
  Threshold,     \* correlation threshold, in hundredths
  WarmupFrames,  \* frames of silence before the pulse
  MaxFrames,     \* kMaxFrames, the frames that the input buffer holds
  OutputSizes,   \* frame counts of the output callbacks
  InputSizes,    \* frame counts of the input callbacks
  Delays,        \* frames from the output's time stamp to the echo's
  Timeout,       \* turns of the wait loop, timeoutMs / 10
  Leads,         \* how far ahead of the input the first output frame plays
  MaxTime        \* bound: frames played and frames captured

ASSUME PulseAssumption ==
  /\ {PulseFrames, HalfPeriod, MaxFrames} \subseteq Nat \ {0}
  /\ Threshold \in 1 .. 100
  /\ {WarmupFrames, Timeout, MaxTime} \subseteq Nat
  /\ OutputSizes \subseteq Nat \ {0} /\ InputSizes \subseteq Nat \ {0}
  /\ Delays \subseteq Nat /\ Leads \subseteq Nat

NoCable == -1

VARIABLES
  \* the outside: the cable's delay, the host time of output frame 0, the
  \* host time up to which the input has been captured
  delay, lead, captured,
  \* MeasureState
  outputFrame, pulseSent, pulseHostTime, history, detected, detectedHostTime,
  error, inputBuffer, outputRunning, inputRunning,
  \* the output callback: where it is, the time it has to store, and up to
  \* which frame finished callbacks have played
  opc, pulseHost, played,
  \* the input callback: where it is and the time it has to store
  ipc, detectedHost,
  \* main: where it is, waitedMs, the two times it loaded, its outcome
  mpc, waited, loaded, outcome

world  == <<delay, lead, captured>>
units  == <<inputBuffer, outputRunning, inputRunning>>
output == <<outputFrame, pulseSent, pulseHostTime, opc, pulseHost, played>>
input  == <<history, detected, detectedHostTime, error, ipc, detectedHost>>
main   == <<mpc, waited, loaded, outcome>>
vars   == <<world, units, output, input, main>>

-----------------------------------------------------------------------------
(* The pulse and its recognition.                                          *)

PulsePatternSample(index) == IF (index \div HalfPeriod) % 2 = 0 THEN 1 ELSE -1

\* A normalised correlation of at least Threshold / 100, in integers.
Correlates(window) ==
  LET Same     == {p \in 1 .. PulseFrames : window[p] = PulsePatternSample(p - 1)}
      Opposite == {p \in 1 .. PulseFrames : window[p] = -PulsePatternSample(p - 1)}
      dot      == Cardinality(Same) - Cardinality(Opposite)
      energy   == Cardinality(Same) + Cardinality(Opposite)
  IN /\ dot > 0
     /\ 10000 * dot * dot >= Threshold * Threshold * energy * PulseFrames

\* What the input hears at a host time: the output, delayed by the cable.
Echo(host) ==
  LET index == host - delay - lead - WarmupFrames
  IN IF delay # NoCable /\ index \in 0 .. PulseFrames - 1
     THEN PulsePatternSample(index) ELSE 0

\* The last PulseFrames samples after frame i of a callback at the host time.
WindowAfter(host, i) ==
  LET heard == history \o [j \in 1 .. i + 1 |-> Echo(host + j - 1)]
  IN SubSeq(heard, Len(heard) - PulseFrames + 1, Len(heard))

\* The frames of a callback at which the pulse is recognised.
Hits(host, n) ==
  {i \in 0 .. n - 1 :
     /\ Len(history) + i + 1 >= PulseFrames
     /\ Correlates(WindowAfter(host, i))}

\* Where in its callback the recognised pulse starts; 0 if it started before.
StartOffset(i) == IF i + 1 >= PulseFrames THEN i + 1 - PulseFrames ELSE 0

-----------------------------------------------------------------------------
(* The output callback.                                                    *)

InPulse(base, n) ==
  /\ base + n > WarmupFrames
  /\ base < WarmupFrames + PulseFrames

\* Mutant of PulseStart: the frames that were played before are forgotten.
PulseStartOfAll(base) == WarmupFrames

PulseStart(base) == IF WarmupFrames > base THEN WarmupFrames - base ELSE 0

\* It counts its frames and, if it is the first with a piece of the pulse,
\* marks the pulse as sent.
OutputCallback(n) ==
  /\ mpc # "exited"
  /\ outputRunning
  /\ opc = "idle"
  /\ outputFrame + n <= MaxTime
  /\ outputFrame' = outputFrame + n
  /\ IF InPulse(outputFrame, n) /\ ~pulseSent
     THEN /\ pulseSent' = TRUE
          /\ pulseHost' = lead + outputFrame + PulseStart(outputFrame)
          /\ opc' = "storePulseTime"
     ELSE /\ opc' = "return"
          /\ UNCHANGED <<pulseSent, pulseHost>>
  /\ UNCHANGED <<world, units, input, main, pulseHostTime, played>>

StorePulseTime ==
  /\ mpc # "exited"
  /\ opc = "storePulseTime"
  /\ pulseHostTime' = pulseHost
  /\ pulseHost' = 0
  /\ opc' = "return"
  /\ UNCHANGED <<world, units, input, main, outputFrame, pulseSent, played>>

OutputReturns ==
  /\ mpc # "exited"
  /\ opc = "return"
  /\ played' = outputFrame
  /\ opc' = "idle"
  /\ UNCHANGED <<world, units, input, main, outputFrame, pulseSent,
                 pulseHostTime, pulseHost>>

-----------------------------------------------------------------------------
(* The input callback.                                                     *)

\* The HAL calls with frames that have been captured; what is heard in them
\* has been played, and a callback that plays has returned by then.
Captured(n) ==
  /\ captured + n <= MaxTime
  /\ outputRunning /\ delay # NoCable => captured + n - delay <= lead + played

InputFails(n) ==
  /\ mpc # "exited"
  /\ inputRunning
  /\ ipc = "idle"
  /\ Captured(n)
  /\ captured' = captured + n
  /\ error' = TRUE
  /\ UNCHANGED <<delay, lead, history, detected, detectedHostTime, ipc,
                 detectedHost, units, output, main>>

\* Mutant of Listens: the detection is not taken for final.
ListensOn == pulseSent

Listens == pulseSent /\ ~detected

InputCallback(n) ==
  /\ mpc # "exited"
  /\ inputRunning
  /\ ipc = "idle"
  /\ n <= MaxFrames
  /\ Captured(n)
  /\ captured' = captured + n
  /\ IF ~Listens THEN UNCHANGED <<history, ipc, detectedHost>>
     ELSE LET hits == Hits(captured, n)
              hit  == CHOOSE i \in hits : \A j \in hits : i <= j
          IN IF hits = {}
             THEN /\ history' =
                       IF Len(history) + n < PulseFrames
                       THEN history \o [j \in 1 .. n |-> Echo(captured + j - 1)]
                       ELSE WindowAfter(captured, n - 1)
                  /\ UNCHANGED <<ipc, detectedHost>>
             ELSE /\ history' = IF Len(history) + hit + 1 < PulseFrames
                                THEN history ELSE WindowAfter(captured, hit)
                  /\ detectedHost' = captured + StartOffset(hit)
                  /\ ipc' = "storeTime"
  /\ UNCHANGED <<delay, lead, detected, detectedHostTime, error, units, output,
                 main>>

StoreDetectedTime ==
  /\ mpc # "exited"
  /\ ipc = "storeTime"
  /\ detectedHostTime' = detectedHost
  /\ ipc' = "storeFlag"
  /\ UNCHANGED <<delay, lead, captured, history, detected, error, detectedHost,
                 units, output, main>>

StoreDetected ==
  /\ mpc # "exited"
  /\ ipc = "storeFlag"
  /\ detected' = TRUE
  /\ detectedHost' = 0
  /\ ipc' = "idle"
  /\ UNCHANGED <<delay, lead, captured, history, detectedHostTime, error, units,
                 output, main>>

-----------------------------------------------------------------------------
(* The main thread: measure and cleanup.                                   *)

Goes(from, to) == mpc = from /\ mpc' = to

\* The arguments and devices are checked and the units made; a unit that is
\* started calls back at once.  What fails here exits without cleanup.
ConfigureInput ==
  /\ Goes("configureInput", "configureOutput")
  /\ inputBuffer' = TRUE
  /\ UNCHANGED <<world, output, input, outputRunning, inputRunning, waited,
                 loaded, outcome>>

ConfigureOutput ==
  /\ Goes("configureOutput", "startInput")
  /\ UNCHANGED <<world, output, input, units, waited, loaded, outcome>>

StartInput ==
  /\ Goes("startInput", "startOutput")
  /\ inputRunning' = TRUE
  /\ UNCHANGED <<world, output, input, inputBuffer, outputRunning, waited,
                 loaded, outcome>>

StartOutput ==
  /\ Goes("startOutput", "wait")
  /\ outputRunning' = TRUE
  /\ \E l \in Leads : lead' = captured + l
  /\ UNCHANGED <<delay, captured, output, input, inputBuffer, inputRunning, waited,
                 loaded, outcome>>

SetupFails ==
  /\ mpc \in {"configureInput", "configureOutput", "startInput", "startOutput"}
  /\ mpc' = "exited"
  /\ outcome' = "setupFailed"
  /\ UNCHANGED <<world, output, input, units, waited, loaded>>

\* Mutant of Sleep: time is not counted.
SleepOn ==
  /\ mpc = "wait"
  /\ ~detected /\ waited < Timeout /\ ~error
  /\ UNCHANGED vars

Sleep ==
  /\ mpc = "wait"
  /\ ~detected /\ waited < Timeout /\ ~error
  /\ waited' = waited + 1
  /\ UNCHANGED <<world, output, input, units, mpc, loaded, outcome>>

WaitEnds ==
  /\ Goes("wait", "checkError")
  /\ detected \/ waited >= Timeout \/ error
  /\ UNCHANGED <<world, output, input, units, waited, loaded, outcome>>

CheckError ==
  /\ mpc = "checkError"
  /\ IF error
     THEN mpc' = "stopOutput" /\ outcome' = "renderError"
     ELSE mpc' = "checkDetected" /\ UNCHANGED outcome
  /\ UNCHANGED <<world, output, input, units, waited, loaded>>

CheckDetected ==
  /\ mpc = "checkDetected"
  /\ IF detected
     THEN mpc' = "loadPulseTime" /\ UNCHANGED outcome
     ELSE mpc' = "stopOutput" /\ outcome' = "notDetected"
  /\ UNCHANGED <<world, output, input, units, waited, loaded>>

LoadPulseTime ==
  /\ Goes("loadPulseTime", "loadDetectedTime")
  /\ loaded' = [loaded EXCEPT !.pulse = pulseHostTime]
  /\ UNCHANGED <<world, output, input, units, waited, outcome>>

LoadDetectedTime ==
  /\ Goes("loadDetectedTime", "stopOutput")
  /\ loaded' = [loaded EXCEPT !.detected = detectedHostTime]
  /\ outcome' = IF detectedHostTime < loaded.pulse THEN "untrusted" ELSE "latency"
  /\ UNCHANGED <<world, output, input, units, waited>>

\* A unit is stopped when its last callback has returned.
StopOutput ==
  /\ Goes("stopOutput", "stopInput")
  /\ opc = "idle"
  /\ outputRunning' = FALSE
  /\ UNCHANGED <<world, output, input, inputBuffer, inputRunning, waited,
                 loaded, outcome>>

\* Mutant of StopInput: the input unit is left running.
LeaveInput ==
  /\ Goes("stopInput", "free")
  /\ UNCHANGED <<world, output, input, units, waited, loaded, outcome>>

StopInput ==
  /\ Goes("stopInput", "free")
  /\ ipc = "idle"
  /\ inputRunning' = FALSE
  /\ UNCHANGED <<world, output, input, inputBuffer, outputRunning, waited,
                 loaded, outcome>>

FreeBuffer ==
  /\ Goes("free", "return")
  /\ inputBuffer' = FALSE
  /\ UNCHANGED <<world, output, input, outputRunning, inputRunning, waited,
                 loaded, outcome>>

Exit ==
  /\ Goes("return", "exited")
  /\ UNCHANGED <<world, output, input, units, waited, loaded, outcome>>

-----------------------------------------------------------------------------
Init ==
  /\ delay \in Delays \cup {NoCable}
  /\ lead = 0
  /\ captured = 0
  /\ outputFrame = 0
  /\ pulseSent = FALSE
  /\ pulseHostTime = 0
  /\ history = <<>>
  /\ detected = FALSE
  /\ detectedHostTime = 0
  /\ error = FALSE
  /\ inputBuffer = FALSE
  /\ outputRunning = FALSE
  /\ inputRunning = FALSE
  /\ opc = "idle" /\ pulseHost = 0 /\ played = 0
  /\ ipc = "idle" /\ detectedHost = 0
  /\ mpc = "configureInput" /\ waited = 0
  /\ loaded = [pulse |-> 0, detected |-> 0]
  /\ outcome = "none"

OutputStep == StorePulseTime \/ OutputReturns
InputStep  == StoreDetectedTime \/ StoreDetected

MainStep ==
  \/ ConfigureInput \/ ConfigureOutput \/ StartInput \/ StartOutput \/ SetupFails
  \/ Sleep \/ WaitEnds \/ CheckError \/ CheckDetected
  \/ LoadPulseTime \/ LoadDetectedTime
  \/ StopOutput \/ StopInput \/ FreeBuffer \/ Exit

Next ==
  \/ \E n \in OutputSizes : OutputCallback(n)
  \/ OutputStep
  \/ \E n \in InputSizes : InputCallback(n) \/ InputFails(n)
  \/ InputStep
  \/ MainStep

Spec == Init /\ [][Next]_vars

\* The main thread goes on, and a callback that was called returns; Core
\* Audio need not call back at all.
FairSpec ==
  Spec /\ WF_vars(MainStep) /\ WF_vars(OutputStep) /\ WF_vars(InputStep)

-----------------------------------------------------------------------------
TypeOK ==
  /\ delay \in Delays \cup {NoCable}
  /\ {lead, captured, outputFrame, played, pulseHostTime, detectedHostTime,
      pulseHost, detectedHost} \subseteq Nat
  /\ {pulseSent, detected, error, inputBuffer, outputRunning, inputRunning}
       \subseteq BOOLEAN
  /\ history \in Seq({-1, 0, 1}) /\ Len(history) <= PulseFrames
  /\ opc \in {"idle", "storePulseTime", "return"}
  /\ ipc \in {"idle", "storeTime", "storeFlag"}
  /\ mpc \in {"configureInput", "configureOutput", "startInput", "startOutput",
              "wait", "checkError", "checkDetected", "loadPulseTime",
              "loadDetectedTime", "stopOutput", "stopInput", "free", "return",
              "exited"}
  /\ waited \in 0 .. Timeout
  /\ loaded \in [pulse : Nat, detected : Nat]
  /\ outcome \in {"none", "setupFailed", "renderError", "notDetected",
                  "untrusted", "latency"}

Reported == loaded.detected - loaded.pulse

\* A latency that is printed is that of the cable give or take a pulse: the
\* two times that main loads are of one pulse and of its own echo, whatever
\* the callbacks' sizes and whoever is suspended between two stores - unless a
\* callback failed, and lost frames, after main had looked for errors.
ReportNearsTheDelay ==
  outcome = "latency" /\ ~error =>
    /\ delay # NoCable
    /\ Reported - delay < PulseFrames
    /\ delay - Reported < PulseFrames

\* What main loads after it has seen the detection does not move any more: a
\* second recognition of the same pulse, or its second piece, changes neither.
DetectionIsFinal ==
  [][detected => UNCHANGED <<pulseHostTime, detectedHostTime>>]_vars

\* The buffer that the input callback renders into is there for as long as a
\* callback may come.
InputHasItsBuffer == inputRunning => inputBuffer

\* The tool ends whatever happens: no echo, no callbacks, an error.
MeasureEnds == <>(mpc = "exited")
=============================================================================
