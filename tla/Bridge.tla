-------------------------------- MODULE Bridge --------------------------------
(***************************************************************************)
(* The helper's main loop beside the commands of BridgeConfig: it loads    *)
(* the configuration, provides the rings, finds the source, captures from  *)
(* it in a callback on another thread, and starts over when the source     *)
(* goes away, rendering fails, or a poll finds another configuration.      *)
(***************************************************************************)
EXTENDS BridgeConfig

CONSTANTS
  EnvLatency,  \* the latency without a file: RSB_TARGET_LATENCY_FRAMES
  MaxFaults    \* bound: calls of the helper that fail, and its deaths

ASSUME HelperAssumption == EnvLatency \in Latencies /\ MaxFaults \in Nat

VARIABLES
  hpc,         \* where main() is
  cfg,         \* the configuration that this turn of the loop works with
  at,          \* the player whose ring it is at
  source,      \* the device of this turn, or None
  alive,       \* the device has not gone away since: a device that comes
               \* back is another object
  open,        \* the session's rings that are mapped
  buffers,     \* are the session's capture buffers allocated?
  unit,        \* the session's audio unit: "none", "made", "running" or
               \* "stopping"
  renderError, \* the callback has reported an error
  cb,          \* the capture callback: "idle" or "busy"
  faults       \* how many are left

session == <<open, buffers, unit, renderError>>
helper  == <<hpc, cfg, at, source, alive, session, cb, faults>>
vars    == <<configVars, helper>>

\* loadEffectiveConfig
Effective(f) == IF Loads(f) THEN f ELSE [Defaults EXCEPT !.latency = EnvLatency]

\* Mutant of Resolved: the channels of the device are not looked at.
ResolvedWithAnyChannels(config) == Source(config)

\* What resolveSource finds: a device that is there and has the channels.
Resolved(config) ==
  LET d == Source(config)
  IN IF d # None /\ HasInputChannelRange(d, FirstChannel(config),
                                         config.players)
     THEN d ELSE None

EffectiveSource(f) == Resolved(Effective(f))

Fault == faults > 0 /\ faults' = faults - 1

NoFault == UNCHANGED faults

NoSession == open = {} /\ ~buffers /\ unit = "none" /\ ~renderError

-----------------------------------------------------------------------------
HelperLoads ==
  /\ hpc = "load"
  /\ cfg' = Effective(file)
  /\ at' = 1
  /\ hpc' = "rings"
  /\ UNCHANGED <<configVars, source, alive, session, cb, faults>>

\* ensureRing, one player's ring after the other.
HelperEnsuresRing ==
  /\ hpc = "rings"
  /\ \/ /\ NoFault
        /\ target' = [target EXCEPT ![at] = cfg.latency]
        /\ IF at = cfg.players
           THEN hpc' = "resolve" /\ at' = 1
           ELSE hpc' = "rings" /\ at' = at + 1
     \/ /\ Fault
        /\ hpc' = "load"
        /\ UNCHANGED <<target, at>>
  /\ UNCHANGED <<file, plugged, ctl, history, bounds,
                 cfg, source, alive, session, cb>>

\* A look-up that fails finds no source.
HelperResolves ==
  /\ hpc = "resolve"
  /\ \/ NoFault /\ source' = Resolved(cfg)
     \/ Fault /\ source' = None
  /\ alive' = (source' # None)
  /\ hpc' = IF source' = None THEN "load" ELSE "open"
  /\ UNCHANGED <<configVars, cfg, at, session, cb>>

HelperOpensRing ==
  /\ hpc = "open"
  /\ \/ /\ NoFault
        /\ open' = open \cup {at}
        /\ IF at = cfg.players
           THEN hpc' = "configure" /\ at' = 1
           ELSE hpc' = "open" /\ at' = at + 1
     \/ /\ Fault
        /\ hpc' = "stop"
        /\ UNCHANGED <<open, at>>
  /\ UNCHANGED <<configVars, cfg, source, alive, buffers, unit, renderError, cb>>

\* configureCapture fails before or after it has made the audio unit, and with
\* or without its buffers; a device that is gone may make it fail.
HelperConfigures ==
  /\ hpc = "configure"
  /\ \/ /\ NoFault
        /\ unit' = "made" /\ buffers' = TRUE
        /\ hpc' = "start"
     \/ /\ IF alive THEN Fault ELSE NoFault
        /\ \/ unit' = "none" /\ buffers' = FALSE
           \/ unit' = "made" /\ buffers' \in BOOLEAN
        /\ hpc' = "stop"
  /\ UNCHANGED <<configVars, cfg, at, source, alive, open, renderError, cb>>

HelperStarts ==
  /\ hpc = "start"
  /\ \/ NoFault /\ unit' = "running" /\ hpc' = "stream"
     \/ (IF alive THEN Fault ELSE NoFault) /\ hpc' = "stop" /\ UNCHANGED unit
  /\ UNCHANGED <<configVars, cfg, at, source, alive, open, buffers, renderError, cb>>

\* Mutant of HelperWatches: the loop does not look at the render error.
HelperWatchesDevice ==
  /\ hpc = "stream"
  /\ \/ NoFault /\ hpc' = IF alive THEN "poll" ELSE "stop"
     \/ Fault /\ hpc' = "stop"
  /\ UNCHANGED <<configVars, cfg, at, source, alive, session, cb>>

\* The condition of the inner loop, then a second in the run loop; asking
\* whether the device is alive may fail, which reads as "no".
HelperWatches ==
  /\ hpc = "stream"
  /\ \/ NoFault /\ hpc' = IF alive /\ ~renderError THEN "poll" ELSE "stop"
     \/ Fault /\ hpc' = "stop"
  /\ UNCHANGED <<configVars, cfg, at, source, alive, session, cb>>

\* Mutant of HelperPolls: another latency alone is no reason to reconnect.
HelperPollsSource ==
  /\ hpc = "poll"
  /\ hpc' = IF [Effective(file) EXCEPT !.latency = cfg.latency] = cfg
            THEN "stream" ELSE "stop"
  /\ UNCHANGED <<configVars, cfg, at, source, alive, session, cb, faults>>

HelperPolls ==
  /\ hpc = "poll"
  /\ hpc' = IF Effective(file) = cfg THEN "stream" ELSE "stop"
  /\ UNCHANGED <<configVars, cfg, at, source, alive, session, cb, faults>>

-----------------------------------------------------------------------------
(* cleanup(): the unit, then the buffers, then the rings.                  *)

\* AudioOutputUnitStop begins no more callbacks (external) ...
HelperStopsUnit ==
  /\ hpc = "stop"
  /\ unit' = IF unit = "running" THEN "stopping" ELSE unit
  /\ hpc' = "join"
  /\ UNCHANGED <<configVars, cfg, at, source, alive, open, buffers,
                 renderError, cb, faults>>

\* Mutant of HelperDisposesUnit: it does not wait for the callback.
HelperDisposesUnitAtOnce ==
  /\ hpc = "join"
  /\ unit' = "none"
  /\ hpc' = "free"
  /\ UNCHANGED <<configVars, cfg, at, source, alive, open, buffers,
                 renderError, cb, faults>>

\* ... and returns when the last one has; the unit is then disposed of.
HelperDisposesUnit ==
  /\ hpc = "join"
  /\ cb = "idle"
  /\ unit' = "none"
  /\ hpc' = "free"
  /\ UNCHANGED <<configVars, cfg, at, source, alive, open, buffers,
                 renderError, cb, faults>>

HelperFreesBuffers ==
  /\ hpc = "free"
  /\ buffers' = FALSE
  /\ hpc' = "close"
  /\ UNCHANGED <<configVars, cfg, at, source, alive, open, unit, renderError, cb, faults>>

\* Mutant of HelperClosesRings: only the first player's ring is closed.
HelperClosesFirstRing ==
  /\ hpc = "close"
  /\ open' = open \ {1}
  /\ renderError' = FALSE
  /\ source' = None
  /\ alive' = FALSE
  /\ at' = 1
  /\ hpc' = "load"
  /\ UNCHANGED <<configVars, cfg, buffers, unit, cb, faults>>

\* The session ends here: the next turn of the loop has a new one.
HelperClosesRings ==
  /\ hpc = "close"
  /\ open' = {}
  /\ renderError' = FALSE
  /\ source' = None
  /\ alive' = FALSE
  /\ at' = 1
  /\ hpc' = "load"
  /\ UNCHANGED <<configVars, cfg, buffers, unit, cb, faults>>

\* The process dies and launchd starts it again (KeepAlive).
HelperDies ==
  /\ Fault
  /\ hpc' = "load"
  /\ at' = 1
  /\ source' = None
  /\ alive' = FALSE
  /\ open' = {} /\ buffers' = FALSE /\ unit' = "none" /\ renderError' = FALSE
  /\ cb' = "idle"
  /\ UNCHANGED <<configVars, cfg>>

-----------------------------------------------------------------------------
(* inputCallback, on the audio unit's thread.                              *)

CallbackBegins ==
  /\ unit = "running"
  /\ cb = "idle"
  /\ alive
  /\ cb' = "busy"
  /\ UNCHANGED <<configVars, hpc, cfg, at, source, alive, session, faults>>

CallbackEnds ==
  /\ cb = "busy"
  /\ cb' = "idle"
  /\ \/ NoFault /\ UNCHANGED renderError
     \/ Fault /\ renderError' = TRUE
  /\ UNCHANGED <<configVars, hpc, cfg, at, source, alive, open, buffers, unit>>

\* external: the device that is captured is told apart from its later selves.
PlugWhileCapturing(d) ==
  /\ Plug(d)
  /\ alive' = (alive /\ d # source)
  /\ UNCHANGED <<hpc, cfg, at, source, session, cb, faults>>

-----------------------------------------------------------------------------
Init ==
  /\ ConfigInit
  /\ hpc = "load"
  /\ cfg = Effective(None)
  /\ at = 1
  /\ source = None
  /\ alive = FALSE
  /\ open = {}
  /\ buffers = FALSE
  /\ unit = "none"
  /\ renderError = FALSE
  /\ cb = "idle"
  /\ faults = MaxFaults

HelperStep ==
  \/ HelperLoads
  \/ HelperEnsuresRing
  \/ HelperResolves
  \/ HelperOpensRing
  \/ HelperConfigures
  \/ HelperStarts
  \/ HelperWatches
  \/ HelperPolls
  \/ HelperStopsUnit
  \/ HelperDisposesUnit
  \/ HelperFreesBuffers
  \/ HelperClosesRings

CtlActs == \E c \in Ctls : CtlLoads(c) \/ CtlStep(c) \/ CtlDies(c)

Next ==
  \/ HelperStep
  \/ HelperDies
  \/ CallbackBegins
  \/ CallbackEnds
  \/ CtlActs /\ UNCHANGED helper
  \/ \E d \in Devices : PlugWhileCapturing(d)

Spec == Init /\ [][Next]_vars

\* The helper's loop goes on, a callback returns, a command runs to its end.
FairSpec ==
  /\ Spec
  /\ WF_vars(HelperStep)
  /\ WF_vars(CallbackEnds)
  /\ \A c \in Ctls : WF_vars(CtlStep(c) /\ UNCHANGED helper)

-----------------------------------------------------------------------------
TypeOK ==
  /\ ConfigTypeOK
  /\ hpc \in {"load", "rings", "resolve", "open", "configure", "start",
              "stream", "poll", "stop", "join", "free",
              "close"}
  /\ cfg \in Configs
  /\ at \in Players
  /\ source \in Devices \cup {None}
  /\ alive \in BOOLEAN
  /\ open \subseteq Players
  /\ buffers \in BOOLEAN
  /\ unit \in {"none", "made", "running", "stopping"}
  /\ renderError \in BOOLEAN
  /\ cb \in {"idle", "busy"}
  /\ faults \in 0 .. MaxFaults

\* The capture callback never runs without the buffers it renders into and
\* the rings it writes to, on no path through a failing or a late cleanup.
CallbackHasItsSession ==
  cb = "busy" => buffers /\ 1 .. cfg.players \subseteq open

\* Whatever step failed, the next turn starts with nothing left of the last.
NothingLeaks == hpc \in {"load", "rings", "resolve"} => NoSession

\* Once a configuration has been saved the helper works with a saved one,
\* and captures from what it names: it does not fall back to the default.
LoadsSavedConfig ==
  [][hpc = "load" /\ hpc' = "rings" => saved = {} \/ cfg' \in saved]_vars

\* Once nobody edits the file any more and its source stays available, the
\* helper ends up capturing with exactly that configuration.
HelperFollowsConfig ==
  <>[](CtlsIdle /\ EffectiveSource(file) # None) =>
    <>[](/\ unit = "running" /\ ~renderError
         /\ cfg = Effective(file)
         /\ source = EffectiveSource(file))

\* The latency in the rings ends up being the one in the file, although both
\* a command and the helper write it: whichever is late is put right.
\* (A command that dies before it has reached the rings is not made up for.)
RingsFollowConfig ==
  <>[](CtlsIdle /\ aborts = MaxAborts) =>
    <>[](\A p \in 1 .. Effective(file).players :
           target[p] = Effective(file).latency)
=============================================================================
