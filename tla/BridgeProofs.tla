----------------------------- MODULE BridgeProofs -----------------------------
(***************************************************************************)
(* What holds of the helper beside any number of commands, for any devices *)
(* and latencies, and however often a step fails or a process dies.        *)
(***************************************************************************)
EXTENDS BridgeSession, TLAPS

\* A command that is not done knows what it edits and which ring comes next.
CtlInv ==
  \A c \in Ctls :
    /\ cpc[c] \in {"truncate", "write", "rings"} => edit[c] \in Commands
    /\ cpc[c] = "rings" => player[c] <= draft[c].players

ConfigInv == ConfigTypeOK /\ CtlInv

HelperTypeOK ==
  /\ hpc \in {"load", "rings", "resolve", "open", "configure", "start",
              "stream", "poll", "stop", "join", "free", "close"}
  /\ cfg \in Configs
  /\ at \in Players
  /\ source \in Devices \cup {None}
  /\ alive \in BOOLEAN
  /\ open \subseteq Players
  /\ buffers \in BOOLEAN
  /\ unit \in {"none", "made", "running", "stopping"}
  /\ renderError \in BOOLEAN
  /\ cb \in {"idle", "busy"}
  /\ faults \in 0 .. MaxFaults

AllOpen == 1 .. cfg.players \subseteq open

\* Which player's ring the loop is at.
RingInv ==
  /\ hpc \in {"rings", "open"} => at <= cfg.players
  /\ hpc = "resolve" => at = 1
  /\ hpc = "open" => \A p \in 1 .. cfg.players : p < at => p \in open
  /\ hpc \in {"configure", "start"} => AllOpen

\* What there is of a session at each point of its life.
SessionInv ==
  /\ NothingLeaks
  /\ hpc \in {"open", "configure"} => unit = "none" /\ ~buffers /\ ~renderError
  /\ hpc = "start" => unit = "made" /\ buffers /\ ~renderError
  /\ hpc \in {"stream", "poll"} => unit = "running"
  /\ hpc \in {"free", "close"} => unit = "none"
  /\ hpc = "close" => ~buffers
  /\ unit = "running" => hpc \in {"stream", "poll", "stop"}
  /\ unit = "stopping" => hpc = "join"

\* A unit that runs has all that its callback uses.
CaptureInv ==
  /\ unit \in {"running", "stopping"} => buffers /\ AllOpen
  /\ cb = "busy" => unit \in {"running", "stopping"}

HelperInv == HelperTypeOK /\ RingInv /\ SessionInv /\ CaptureInv

IInv == ConfigInv /\ HelperInv

-----------------------------------------------------------------------------
(* Configurations.                                                         *)

LEMMA DefaultsAreConfig == Defaults \in Configs
BY ConfigAssumption DEF Defaults, Configs, Players

LEMMA LoadedIsConfig ==
  ASSUME NEW f \in Configs \cup {None, Torn}
  PROVE  Loaded(f) \in Configs /\ Effective(f) \in Configs
<1>1. [Defaults EXCEPT !.latency = EnvLatency] \in Configs
  BY DefaultsAreConfig, HelperAssumption DEF Configs
<1> QED  BY <1>1, DefaultsAreConfig DEF Loaded, Effective, Loads

LEMMA EditedIsConfig ==
  ASSUME NEW config \in Configs, NEW command \in Commands
  PROVE  Edited(config, command) \in Configs
<1>1. CASE command \in [op : {"set-latency"}, frames : Latencies]
  <2>1. Edited(config, command) = [config EXCEPT !.latency = command.frames]
    BY <1>1 DEF Edited
  <2> QED  BY <1>1, <2>1 DEF Configs
<1>2. CASE command \in [op : {"set-players"}, count : Players]
  <2>1. Edited(config, command) = [config EXCEPT !.players = command.count]
    BY <1>2 DEF Edited
  <2> QED  BY <1>2, <2>1 DEF Configs
<1>3. CASE command \in [op : {"set-source"}, uid : Devices, channel : 1 .. 2]
  <2>1. Edited(config, command) = [config EXCEPT !.uid = command.uid,
                                                 !.channel = command.channel]
    BY <1>3 DEF Edited
  <2> QED  BY <1>3, <2>1 DEF Configs
<1> QED  BY <1>1, <1>2, <1>3 DEF Commands

-----------------------------------------------------------------------------
(* The commands.                                                           *)

LEMMA CtlKeepsConfig ==
  ASSUME ConfigInv, NEW c \in Ctls, CtlLoads(c) \/ CtlStep(c) \/ CtlDies(c)
  PROVE  ConfigInv'
<1>1. CASE CtlLoads(c)
  <2>1. PICK command \in Commands :
          /\ edit' = [edit EXCEPT ![c] = command]
          /\ draft' = [draft EXCEPT ![c] = Edited(Loaded(file), command)]
    BY <1>1 DEF CtlLoads
  <2>2. Edited(Loaded(file), command) \in Configs
    BY LoadedIsConfig, EditedIsConfig DEF ConfigInv, ConfigTypeOK
  <2>3. commands' \in 0 .. MaxCommands /\ plugs' \in 0 .. MaxPlugs
    BY <1>1, ConfigAssumption
    DEF CtlLoads, DeviceChange, ConfigInv, ConfigTypeOK
  <2> QED
    BY <1>1, <2>1, <2>2, <2>3
    DEF CtlLoads, At, ConfigInv, ConfigTypeOK, CtlInv, history
<1>2. CASE CtlTruncates(c)
  BY <1>2 DEF CtlTruncates, At, ConfigInv, ConfigTypeOK, CtlInv, history, bounds
<1>3. CASE CtlWrites(c)
  <2>1. edit[c] \in Commands /\ draft[c] \in Configs /\ cpc[c] = "write"
    BY <1>3 DEF CtlWrites, ConfigInv, ConfigTypeOK, CtlInv
  <2>2. Edited(promised, edit[c]) \in Configs
    BY <2>1, EditedIsConfig DEF ConfigInv, ConfigTypeOK
  <2>3. draft[c].players \in 1 .. 2
    BY <2>1 DEF Configs, Players
  <2>4. aborts' \in 0 .. MaxAborts
    BY <1>3, ConfigAssumption DEF CtlWrites, Abort, ConfigInv, ConfigTypeOK
  <2>5. cpc' \in [Ctls -> {"idle", "truncate", "write", "rings", "done"}]
    BY <1>3 DEF CtlWrites, At, ConfigInv, ConfigTypeOK
  <2>6. /\ file' \in Configs \cup {None, Torn} /\ saved' \subseteq Configs
        /\ promised' \in Configs /\ player' \in [Ctls -> 1 .. 3]
    BY <1>3, <2>1, <2>2 DEF CtlWrites, ConfigInv, ConfigTypeOK
  <2>7. ConfigTypeOK'
    BY <1>3, <2>4, <2>5, <2>6 DEF CtlWrites, ConfigInv, ConfigTypeOK
  <2>8. CtlInv'
    BY <1>3, <2>1, <2>3 DEF CtlWrites, At, ConfigInv, ConfigTypeOK, CtlInv
  <2> QED  BY <2>7, <2>8 DEF ConfigInv
<1>4. CASE CtlSetsRing(c)
  <2>1. /\ draft[c] \in Configs /\ draft[c].latency \in Latencies
        /\ draft[c].players \in 1 .. 2
        /\ player[c] \in 1 .. 3 /\ player[c] <= draft[c].players
        /\ cpc[c] = "rings" /\ edit[c] \in Commands
    BY <1>4 DEF CtlSetsRing, ConfigInv, ConfigTypeOK, CtlInv, Configs, Players
  <2>2. target' \in [Players -> Latencies \cup {None}]
    BY <1>4, <2>1 DEF CtlSetsRing, SetTarget, ConfigInv, ConfigTypeOK
  <2>3. player' \in [Ctls -> 1 .. 3]
    BY <1>4, <2>1 DEF CtlSetsRing, ConfigInv, ConfigTypeOK
  <2>4. ConfigTypeOK'
    BY <1>4, <2>2, <2>3
    DEF CtlSetsRing, At, ConfigInv, ConfigTypeOK, history, bounds
  <2>5. CtlInv'
    BY <1>4, <2>1 DEF CtlSetsRing, At, ConfigInv, ConfigTypeOK, CtlInv
  <2> QED  BY <2>4, <2>5 DEF ConfigInv
<1>5. CASE CtlExits(c)
  BY <1>5, DefaultsAreConfig
  DEF CtlExits, At, ConfigInv, ConfigTypeOK, CtlInv, history, bounds
<1>6. CASE CtlDies(c)
  <2>1. aborts' \in 0 .. MaxAborts
    BY <1>6, ConfigAssumption DEF CtlDies, Abort, ConfigInv, ConfigTypeOK
  <2> QED
    BY <1>6, <2>1 DEF CtlDies, At, ConfigInv, ConfigTypeOK, CtlInv, history
<1> QED  BY <1>1, <1>2, <1>3, <1>4, <1>5, <1>6 DEF CtlStep

LEMMA ConfigUnchanged ==
  ASSUME ConfigInv, UNCHANGED configVars
  PROVE  ConfigInv'
BY DEF ConfigInv, ConfigTypeOK, CtlInv, configVars, ctl, history, bounds

LEMMA PlugKeepsConfig ==
  ASSUME ConfigInv, NEW d \in Devices, Plug(d)
  PROVE  ConfigInv'
<1>1. plugs' \in 0 .. MaxPlugs /\ plugged' \subseteq Devices
  BY ConfigAssumption DEF Plug, DeviceChange, ConfigInv, ConfigTypeOK
<1> QED
  BY <1>1 DEF Plug, ConfigInv, ConfigTypeOK, CtlInv, ctl, history

-----------------------------------------------------------------------------
(* The helper.                                                             *)

LEMMA PlayersOfConfig ==
  \A config \in Configs : config.players \in 1 .. 2 /\ config.latency \in Latencies
BY DEF Configs, Players

LEMMA FaultCounts ==
  ASSUME HelperTypeOK, Fault \/ NoFault
  PROVE  faults' \in 0 .. MaxFaults
BY HelperAssumption DEF HelperTypeOK, Fault, NoFault

LEMMA EnsuresRingKeeps ==
  ASSUME IInv, HelperEnsuresRing
  PROVE  IInv'
<1>1. /\ cfg.players \in 1 .. 2 /\ cfg.latency \in Latencies /\ at \in 1 .. 2
      /\ at <= cfg.players /\ hpc = "rings" /\ NoSession /\ cb = "idle"
      /\ unit = "none"
  BY PlayersOfConfig
  DEF HelperEnsuresRing, IInv, HelperInv, HelperTypeOK, RingInv, SessionInv,
      CaptureInv, NothingLeaks, NoSession, Players
<1>2. ConfigInv'
  BY <1>1
  DEF HelperEnsuresRing, IInv, ConfigInv, ConfigTypeOK, CtlInv, ctl, history,
      bounds
<1>3. faults' \in 0 .. MaxFaults
  BY FaultCounts DEF HelperEnsuresRing, IInv, HelperInv
<1>4. at' \in 1 .. 2 /\ hpc' \in {"load", "rings", "resolve"}
      /\ (hpc' = "rings" => at' <= cfg.players)
      /\ (hpc' = "resolve" => at' = 1)
  BY <1>1 DEF HelperEnsuresRing
<1>5. HelperTypeOK'
  BY <1>3, <1>4
  DEF HelperEnsuresRing, IInv, HelperInv, HelperTypeOK, Players, session
<1>6. RingInv' /\ SessionInv' /\ CaptureInv'
  BY <1>1, <1>4
  DEF HelperEnsuresRing, RingInv, SessionInv, CaptureInv, NothingLeaks,
      NoSession, session
<1> QED  BY <1>2, <1>5, <1>6 DEF IInv, HelperInv

LEMMA OpensRingKeeps ==
  ASSUME IInv, HelperOpensRing
  PROVE  HelperInv'
<1>1. /\ cfg.players \in 1 .. 2 /\ at \in 1 .. 2 /\ at <= cfg.players
      /\ hpc = "open" /\ cb = "idle" /\ unit = "none" /\ ~buffers
      /\ ~renderError /\ \A p \in 1 .. cfg.players : p < at => p \in open
  BY PlayersOfConfig
  DEF HelperOpensRing, IInv, HelperInv, HelperTypeOK, RingInv, SessionInv,
      CaptureInv, Players
<1>2. faults' \in 0 .. MaxFaults
  BY FaultCounts DEF HelperOpensRing, IInv, HelperInv
<1>3. at' \in 1 .. 2 /\ open' \subseteq 1 .. 2
  <2>1. open \subseteq 1 .. 2
    BY DEF IInv, HelperInv, HelperTypeOK, Players
  <2>2. open' = open \/ open' = open \cup {at}
    BY DEF HelperOpensRing
  <2>3. open' \subseteq 1 .. 2
    BY <1>1, <2>1, <2>2
  <2>4. at' \in 1 .. 2
    BY <1>1 DEF HelperOpensRing
  <2> QED  BY <2>3, <2>4
<1>4. HelperTypeOK'
  BY <1>2, <1>3 DEF HelperOpensRing, IInv, HelperInv, HelperTypeOK, Players
<1>5. RingInv'
  BY <1>1 DEF HelperOpensRing, RingInv, AllOpen
<1>6. SessionInv' /\ CaptureInv'
  BY <1>1 DEF HelperOpensRing, SessionInv, CaptureInv, NothingLeaks
<1> QED  BY <1>4, <1>5, <1>6 DEF HelperInv

LEMMA HelperStepKeeps ==
  ASSUME IInv, HelperStep \/ HelperDies
  PROVE  IInv'
<1> USE DEF session
<1>0. HelperTypeOK /\ RingInv /\ SessionInv /\ CaptureInv /\ ConfigInv
  BY DEF IInv, HelperInv
<1>1. CASE HelperLoads
  <2>1. cfg' \in Configs /\ cfg'.players \in 1 .. 2
    BY <1>0, <1>1, LoadedIsConfig, PlayersOfConfig
    DEF HelperLoads, ConfigInv, ConfigTypeOK
  <2>2. HelperTypeOK'
    BY <1>0, <1>1, <2>1 DEF HelperLoads, HelperTypeOK, Players
  <2>3. RingInv' /\ SessionInv' /\ CaptureInv'
    BY <1>0, <1>1, <2>1
    DEF HelperLoads, RingInv, SessionInv, CaptureInv, NothingLeaks, NoSession
  <2> QED
    BY <1>0, <1>1, <2>2, <2>3, ConfigUnchanged DEF HelperLoads, IInv, HelperInv
<1>2. CASE HelperEnsuresRing
  BY <1>2, EnsuresRingKeeps
<1>3. CASE HelperResolves
  <2>2. source' \in Devices \cup {None}
    BY <1>0, <1>3, ConfigAssumption
    DEF HelperResolves, Resolved, Source, ConfigInv, ConfigTypeOK
  <2>3. HelperTypeOK'
    <3>1. faults' \in 0 .. MaxFaults
      BY <1>0, <1>3, FaultCounts DEF HelperResolves
    <3> QED  BY <1>0, <1>3, <2>2, <3>1 DEF HelperResolves, HelperTypeOK
  <2>4. SessionInv' /\ CaptureInv'
    BY <1>0, <1>3
    DEF HelperResolves, SessionInv, CaptureInv, NothingLeaks, NoSession, AllOpen
  <2>5. RingInv'
    BY <1>0, <1>3, PlayersOfConfig
    DEF HelperResolves, RingInv, HelperTypeOK, Players
  <2> QED
    BY <1>0, <1>3, <2>3, <2>4, <2>5, ConfigUnchanged
    DEF HelperResolves, IInv, HelperInv
<1>4. CASE HelperOpensRing
  BY <1>0, <1>4, OpensRingKeeps, ConfigUnchanged DEF HelperOpensRing, IInv
<1>5. CASE HelperConfigures
  <2>1. faults' \in 0 .. MaxFaults
    BY <1>0, <1>5, FaultCounts DEF HelperConfigures
  <2>2. buffers' \in BOOLEAN
    BY <1>5, Zenon DEF HelperConfigures
  <2>3. HelperTypeOK'
    BY <1>0, <1>5, <2>1, <2>2 DEF HelperConfigures, HelperTypeOK
  <2>4. RingInv' /\ SessionInv' /\ CaptureInv'
    BY <1>0, <1>5
    DEF HelperConfigures, RingInv, SessionInv, CaptureInv, NothingLeaks, AllOpen
  <2> QED
    BY <1>0, <1>5, <2>3, <2>4, ConfigUnchanged
    DEF HelperConfigures, IInv, HelperInv
<1>6. CASE HelperStarts
  <2>1. faults' \in 0 .. MaxFaults
    BY <1>0, <1>6, FaultCounts DEF HelperStarts
  <2>2. HelperTypeOK'
    BY <1>0, <1>6, <2>1 DEF HelperStarts, HelperTypeOK
  <2>3. RingInv' /\ SessionInv' /\ CaptureInv'
    BY <1>0, <1>6
    DEF HelperStarts, RingInv, SessionInv, CaptureInv, NothingLeaks, AllOpen
  <2> QED
    BY <1>0, <1>6, <2>2, <2>3, ConfigUnchanged DEF HelperStarts, IInv, HelperInv
<1>7. CASE HelperWatches \/ HelperPolls
  <2>1. /\ hpc \in {"stream", "poll"} /\ hpc' \in {"stream", "poll", "stop"}
        /\ UNCHANGED <<configVars, cfg, at, source, alive, session, cb>>
        /\ faults' \in 0 .. MaxFaults
    BY <1>0, <1>7, FaultCounts DEF HelperWatches, HelperPolls, NoFault
  <2>2. HelperTypeOK'
    BY <1>0, <2>1 DEF HelperTypeOK
  <2>3. RingInv' /\ SessionInv' /\ CaptureInv'
    BY <1>0, <2>1 DEF RingInv, SessionInv, CaptureInv, NothingLeaks, AllOpen
  <2> QED  BY <1>0, <2>1, <2>2, <2>3, ConfigUnchanged DEF IInv, HelperInv
<1>8. CASE \/ HelperStopsUnit \/ HelperDisposesUnit \/ HelperFreesBuffers
           \/ HelperClosesRings
  <2>1. HelperTypeOK'
    <3>1. CASE HelperStopsUnit
      BY <1>0, <3>1 DEF HelperStopsUnit, HelperTypeOK
    <3>2. CASE HelperDisposesUnit
      BY <1>0, <3>2 DEF HelperDisposesUnit, HelperTypeOK
    <3>3. CASE HelperFreesBuffers
      <4>1. buffers' \in BOOLEAN
        BY <3>3, Zenon DEF HelperFreesBuffers
      <4> QED  BY <1>0, <3>3, <4>1 DEF HelperFreesBuffers, HelperTypeOK
    <3>4. CASE HelperClosesRings
      <4>1. alive' \in BOOLEAN /\ renderError' \in BOOLEAN
        BY <3>4, Zenon DEF HelperClosesRings
      <4> QED
        BY <1>0, <3>4, <4>1 DEF HelperClosesRings, HelperTypeOK, Players
    <3> QED  BY <1>8, <3>1, <3>2, <3>3, <3>4
  <2>2. RingInv' /\ CaptureInv'
    BY <1>0, <1>8
    DEF HelperStopsUnit, HelperDisposesUnit, HelperFreesBuffers,
        HelperClosesRings, RingInv, CaptureInv, SessionInv, AllOpen
  <2>3. SessionInv'
    BY <1>0, <1>8
    DEF HelperStopsUnit, HelperDisposesUnit, HelperFreesBuffers,
        HelperClosesRings, SessionInv, CaptureInv, NothingLeaks, NoSession,
        HelperTypeOK
  <2>4. UNCHANGED configVars
    BY <1>8
    DEF HelperStopsUnit, HelperDisposesUnit, HelperFreesBuffers,
        HelperClosesRings
  <2> QED  BY <1>0, <2>1, <2>2, <2>3, <2>4, ConfigUnchanged DEF IInv, HelperInv
<1>9. CASE HelperDies
  <2>1. faults' \in 0 .. MaxFaults
    BY <1>0, <1>9, FaultCounts DEF HelperDies
  <2>2. HelperTypeOK'
    <3>1. /\ alive' \in BOOLEAN /\ renderError' \in BOOLEAN
          /\ buffers' \in BOOLEAN
      BY <1>9, Zenon DEF HelperDies
    <3> QED  BY <1>0, <1>9, <2>1, <3>1 DEF HelperDies, HelperTypeOK, Players
  <2>3. RingInv' /\ SessionInv' /\ CaptureInv'
    BY <1>9
    DEF HelperDies, RingInv, SessionInv, CaptureInv, NothingLeaks, NoSession
  <2> QED
    BY <1>0, <1>9, <2>2, <2>3, ConfigUnchanged DEF HelperDies, IInv, HelperInv
<1> QED
  BY <1>1, <1>2, <1>3, <1>4, <1>5, <1>6, <1>7, <1>8, <1>9 DEF HelperStep

LEMMA InitIInv == Init => IInv
<1> SUFFICES ASSUME Init  PROVE IInv
  OBVIOUS
<1>1. ConfigInv
  BY ConfigAssumption, DefaultsAreConfig
  DEF Init, ConfigInit, ConfigInv, ConfigTypeOK, CtlInv
<1>2. HelperTypeOK
  <2>1. cfg \in Configs
    BY LoadedIsConfig DEF Init
  <2>2. /\ alive \in BOOLEAN /\ renderError \in BOOLEAN
        /\ buffers \in BOOLEAN
    BY Zenon DEF Init
  <2> QED
    BY <2>1, <2>2, HelperAssumption DEF Init, HelperTypeOK, Players
<1>3. RingInv /\ SessionInv /\ CaptureInv
  BY DEF Init, RingInv, SessionInv, CaptureInv, NothingLeaks, NoSession
<1> QED  BY <1>1, <1>2, <1>3 DEF IInv, HelperInv

LEMMA NextIInv == IInv /\ [Next]_vars => IInv'
<1> SUFFICES ASSUME IInv, [Next]_vars  PROVE IInv'
  OBVIOUS
<1>1. CASE HelperStep \/ HelperDies
  BY <1>1, HelperStepKeeps
<1>2. CASE CallbackBegins \/ CallbackEnds
  <2>1. faults' \in 0 .. MaxFaults
    BY <1>2, FaultCounts
    DEF CallbackBegins, CallbackEnds, IInv, HelperInv, NoFault
  <2>2. HelperTypeOK'
    BY <1>2, <2>1
    DEF CallbackBegins, CallbackEnds, IInv, HelperInv, HelperTypeOK, session
  <2>3. RingInv' /\ CaptureInv'
    BY <1>2
    DEF CallbackBegins, CallbackEnds, IInv, HelperInv, RingInv, CaptureInv,
        AllOpen, session
  <2>4. SessionInv'
    BY <1>2
    DEF CallbackBegins, CallbackEnds, IInv, HelperInv, SessionInv, CaptureInv,
        NothingLeaks, NoSession, session
  <2>5. UNCHANGED configVars
    BY <1>2 DEF CallbackBegins, CallbackEnds
  <2> QED  BY <2>2, <2>3, <2>4, <2>5, ConfigUnchanged DEF IInv, HelperInv
<1>3. CASE (CtlActs \/ UNCHANGED configVars) /\ UNCHANGED helper
  <2>1. HelperInv'
    BY <1>3
    DEF helper, session, IInv, HelperInv, HelperTypeOK, RingInv, SessionInv,
        CaptureInv, NothingLeaks, NoSession, AllOpen
  <2> QED
    BY <1>3, <2>1, CtlKeepsConfig, ConfigUnchanged DEF IInv, CtlActs
<1>4. ASSUME NEW d \in Devices, PlugWhileCapturing(d)  PROVE IInv'
  <2>1. (alive /\ d # source) \in BOOLEAN
    OBVIOUS
  <2>2. HelperTypeOK'
    BY <1>4, <2>1 DEF PlugWhileCapturing, IInv, HelperInv, HelperTypeOK, session
  <2>3. RingInv' /\ SessionInv' /\ CaptureInv'
    BY <1>4
    DEF PlugWhileCapturing, IInv, HelperInv, RingInv, SessionInv, CaptureInv,
        NothingLeaks, NoSession, AllOpen, session
  <2> QED
    BY <1>4, <2>2, <2>3, PlugKeepsConfig
    DEF PlugWhileCapturing, IInv, HelperInv
<1> QED  BY <1>1, <1>2, <1>3, <1>4 DEF Next, vars

-----------------------------------------------------------------------------
(* What the commands add up to, when one is run after the other.           *)

OneAtATime == \A c, d \in Ctls : c = d

FileIsPromised ==
  \/ file = promised
  \/ file = None /\ promised = Defaults

EditInv ==
  aborts = MaxAborts =>
    /\ \A c \in Ctls : cpc[c] \in {"truncate", "write"} =>
         draft[c] = Edited(promised, edit[c])
    /\ (\A c \in Ctls : cpc[c] # "write") => FileIsPromised

LEMMA EditsUnchanged ==
  ASSUME EditInv, UNCHANGED <<file, ctl, history, aborts>>
  PROVE  EditInv'
BY DEF EditInv, FileIsPromised, ctl, history

LEMMA PromisedIsLoaded ==
  ASSUME ConfigInv, FileIsPromised
  PROVE  Loaded(file) = promised
BY NoConfigAssumption
DEF ConfigInv, ConfigTypeOK, FileIsPromised, Loaded, Loads

LEMMA CtlKeepsEdits ==
  ASSUME OneAtATime, ConfigInv, EditInv, NEW c \in Ctls,
         CtlLoads(c) \/ CtlStep(c) \/ CtlDies(c)
  PROVE  EditInv'
<1>0. /\ cpc \in [Ctls -> {"idle", "truncate", "write", "rings", "done"}]
      /\ \A d \in Ctls : d = c
      /\ aborts \in Nat /\ aborts <= MaxAborts /\ MaxAborts \in Nat
      /\ draft \in [Ctls -> Configs]
      /\ edit \in [Ctls -> Commands \cup {None}]
  BY ConfigAssumption DEF ConfigInv, ConfigTypeOK, OneAtATime
<1>1. CASE CtlLoads(c)
  <2>1. PICK command \in Commands :
          /\ edit' = [edit EXCEPT ![c] = command]
          /\ draft' = [draft EXCEPT ![c] = Edited(Loaded(file), command)]
    BY <1>1 DEF CtlLoads
  <2>2. /\ cpc[c] = "idle" /\ cpc'[c] = "truncate"
        /\ UNCHANGED <<file, promised, aborts>>
    BY <1>0, <1>1 DEF CtlLoads, At, history
  <2>3. aborts = MaxAborts => FileIsPromised
    BY <1>0, <2>2 DEF EditInv
  <2>4. aborts = MaxAborts => draft'[c] = Edited(promised, edit'[c])
    BY <1>0, <2>1, <2>3, PromisedIsLoaded
  <2> QED  BY <1>0, <2>2, <2>3, <2>4 DEF EditInv, FileIsPromised
<1>2. CASE CtlTruncates(c)
  BY <1>0, <1>2 DEF CtlTruncates, At, history, bounds, EditInv
<1>3. CASE CtlWrites(c)
  <2>1. aborts' = MaxAborts =>
          /\ file' = draft[c] /\ promised' = Edited(promised, edit[c])
          /\ aborts = MaxAborts
    BY <1>0, <1>3 DEF CtlWrites, Abort
  <2>2. cpc[c] = "write" /\ cpc'[c] \in {"rings", "done"}
    BY <1>0, <1>3 DEF CtlWrites, At
  <2>3. aborts' = MaxAborts => FileIsPromised'
    <3>1. aborts = MaxAborts => draft[c] = Edited(promised, edit[c])
      BY <2>2 DEF EditInv
    <3>2. aborts' = MaxAborts => file' = promised'
      BY <2>1, <3>1, Zenon
    <3> QED  BY <3>2, Zenon DEF FileIsPromised
  <2>4. \A d \in Ctls : cpc'[d] \notin {"truncate", "write"}
    BY <1>0, <2>2
  <2> QED  BY <2>3, <2>4 DEF EditInv
<1>4. CASE CtlSetsRing(c)
  <2>1. cpc[c] = "rings" /\ cpc'[c] \in {"rings", "done"}
        /\ UNCHANGED <<file, promised, aborts>>
    BY <1>0, <1>4 DEF CtlSetsRing, At, history, bounds
  <2> QED  BY <1>0, <2>1 DEF EditInv, FileIsPromised
<1>5. CASE CtlExits(c)
  <2>1. cpc[c] = "done" /\ cpc'[c] = "idle"
        /\ UNCHANGED <<file, promised, aborts>>
    BY <1>0, <1>5 DEF CtlExits, At, history, bounds
  <2> QED  BY <1>0, <2>1 DEF EditInv, FileIsPromised
<1>6. CASE CtlDies(c)
  <2>1. aborts' # MaxAborts
    BY <1>0, <1>6 DEF CtlDies, Abort
  <2> QED  BY <2>1 DEF EditInv
<1> QED  BY <1>1, <1>2, <1>3, <1>4, <1>5, <1>6 DEF CtlStep

LEMMA NextEditInv ==
  ASSUME OneAtATime
  PROVE  IInv /\ EditInv /\ [Next]_vars => EditInv'
<1> SUFFICES ASSUME IInv, EditInv, [Next]_vars  PROVE EditInv'
  OBVIOUS
<1>1. CASE CtlActs
  BY <1>1, CtlKeepsEdits DEF CtlActs, IInv
<1>2. CASE UNCHANGED <<file, ctl, history, aborts>>
  BY <1>2, EditsUnchanged
<1>3. CASE HelperStep \/ HelperDies \/ CallbackBegins \/ CallbackEnds
  <2>1. CASE HelperEnsuresRing
    BY <1>2, <2>1 DEF HelperEnsuresRing, bounds
  <2>2. CASE UNCHANGED configVars
    BY <1>2, <2>2 DEF configVars, bounds
  <2>3. ASSUME ~HelperEnsuresRing  PROVE UNCHANGED configVars
    BY <1>3, <2>3
    DEF HelperStep, HelperDies, CallbackBegins, CallbackEnds, HelperLoads,
        HelperResolves, HelperOpensRing, HelperConfigures, HelperStarts,
        HelperWatches, HelperPolls, HelperStopsUnit, HelperDisposesUnit,
        HelperFreesBuffers, HelperClosesRings
  <2> QED  BY <2>1, <2>2, <2>3
<1>4. CASE \E d \in Devices : PlugWhileCapturing(d)
  BY <1>2, <1>4 DEF PlugWhileCapturing, Plug
<1>5. CASE UNCHANGED vars
  BY <1>2, <1>5 DEF vars, configVars, bounds
<1> QED  BY <1>1, <1>3, <1>4, <1>5 DEF Next

-----------------------------------------------------------------------------
(* What the commands save fits, in however many terminals they are run.    *)

RangeInv ==
  /\ SavedRangeFits
  /\ \A c \in Ctls : cpc[c] \in {"truncate", "write"} => Fits(draft[c])

LEMMA LoadedFits ==
  ASSUME SavedRangeFits
  PROVE  Fits(Loaded(file))
<1>1. CASE Loads(file)
  BY <1>1 DEF SavedRangeFits, Loaded
<1>2. CASE ~Loads(file)
  <2>1. /\ Loaded(file) = Defaults /\ Defaults.uid = None
        /\ Defaults.channel = 1 /\ Defaults.players = 1
    BY <1>2 DEF Loaded, Defaults
  <2>2. /\ FirstChannel(Defaults) = 1
        /\ Source(Defaults) # None => Source(Defaults) = AutoDetected
    BY <2>1 DEF FirstChannel, Source
  <2>3. Channels[AutoDetected] >= 1 /\ Channels[AutoDetected] \in Nat
    BY ConfigAssumption
  <2>4. HasInputChannelRange(AutoDetected, 1, 1)
    BY <2>3 DEF HasInputChannelRange
  <2> QED  BY <2>1, <2>2, <2>4 DEF Fits
<1> QED  BY <1>1, <1>2

LEMMA EditedFits ==
  ASSUME NEW config \in Configs, NEW command \in Commands,
         Fits(config), Accepted(config, command)
  PROVE  Fits(Edited(config, command))
<1> DEFINE edited == Edited(config, command)
<1>1. CASE command \in [op : {"set-latency"}, frames : Latencies]
  <2>1. edited = [config EXCEPT !.latency = command.frames]
    BY <1>1 DEF Edited
  <2>2. /\ edited.uid = config.uid /\ edited.channel = config.channel
        /\ edited.players = config.players
    BY <2>1 DEF Configs
  <2> QED  BY <2>2 DEF Fits, Source, FirstChannel
<1>2. CASE command \in [op : {"set-players"}, count : Players]
  <2>1. edited = [config EXCEPT !.players = command.count]
    BY <1>2 DEF Edited
  <2>2. /\ edited.uid = config.uid /\ edited.channel = config.channel
        /\ edited.players = command.count
    BY <2>1 DEF Configs
  <2>3. Source(config) # None =>
          HasInputChannelRange(Source(config), FirstChannel(config), command.count)
    BY <1>2 DEF Accepted
  <2> QED  BY <2>2, <2>3 DEF Fits, Source, FirstChannel
<1>3. CASE command \in [op : {"set-source"}, uid : Devices, channel : 1 .. 2]
  <2>1. edited = [config EXCEPT !.uid = command.uid, !.channel = command.channel]
    BY <1>3 DEF Edited
  <2>2. /\ edited.uid = command.uid /\ edited.channel = command.channel
        /\ edited.players = config.players
    BY <2>1 DEF Configs
  <2>3. /\ command.uid \in Devices /\ command.uid # None
        /\ command.channel \in 1 .. 2 /\ config.players \in 1 .. 2
        /\ Channels[command.uid] \in Nat
    BY <1>3, ConfigAssumption DEF Configs, Players
  <2>4. HasInputChannelRange(command.uid, command.channel, config.players)
    BY <1>3 DEF Accepted
  <2>5. HasInputChannelRange(command.uid, command.channel, 1)
    BY <2>3, <2>4 DEF HasInputChannelRange
  <2>6. /\ FirstChannel(edited) = command.channel
        /\ Source(edited) # None => Source(edited) = command.uid
    BY <2>2, <2>3 DEF FirstChannel, Source
  <2> QED  BY <2>2, <2>4, <2>5, <2>6 DEF Fits
<1> QED  BY <1>1, <1>2, <1>3 DEF Commands

\* A number of players that nothing was checked of leaves the first one's.
LEMMA EditedUnseenFits ==
  ASSUME NEW config \in Configs, NEW command \in Commands,
         Fits(config), AcceptedUnseen(command), plugs' # MaxPlugs
  PROVE  Fits(Edited(config, command))'
<1>1. Edited(config, command) = [config EXCEPT !.players = command.count]
  BY DEF AcceptedUnseen, Edited
<1>2. /\ Edited(config, command).uid = config.uid
      /\ Edited(config, command).channel = config.channel
  BY <1>1 DEF Configs
<1> QED  BY <1>2 DEF Fits, HasInputChannelRange

LEMMA CtlKeepsRange ==
  ASSUME ConfigInv, RangeInv, NEW c \in Ctls,
         CtlLoads(c) \/ CtlStep(c) \/ CtlDies(c)
  PROVE  RangeInv'
<1>0. /\ cpc \in [Ctls -> {"idle", "truncate", "write", "rings", "done"}]
      /\ draft \in [Ctls -> Configs]
      /\ UNCHANGED plugged
      /\ plugs' = plugs \/ plugs' # MaxPlugs
  BY ConfigAssumption
  DEF ConfigInv, ConfigTypeOK, CtlLoads, DeviceChange, CtlStep, CtlTruncates,
      CtlWrites, CtlSetsRing, CtlExits, CtlDies, bounds
<1>1. \A config : Fits(config) => Fits(config)'
  BY <1>0 DEF Fits, Source, FirstChannel
<1>2. CASE CtlLoads(c)
  <2>1. PICK command \in Commands :
          /\ \/ Accepted(Loaded(file), command)
             \/ AcceptedUnseen(command) /\ plugs' # MaxPlugs
          /\ draft' = [draft EXCEPT ![c] = Edited(Loaded(file), command)]
    <3>1. DeviceChange => plugs' # MaxPlugs
      BY ConfigAssumption DEF DeviceChange, ConfigInv, ConfigTypeOK
    <3> QED  BY <1>2, <3>1, Zenon DEF CtlLoads
  <2>2. Loaded(file) \in Configs
    BY LoadedIsConfig DEF ConfigInv, ConfigTypeOK
  <2>3. Fits(draft[c])'
    <3>1. Fits(Loaded(file))
      BY LoadedFits DEF RangeInv
    <3>2. CASE Accepted(Loaded(file), command)
      BY <1>0, <1>1, <2>1, <2>2, <3>1, <3>2, EditedFits
    <3>3. CASE AcceptedUnseen(command) /\ plugs' # MaxPlugs
      BY <1>0, <1>1, <2>1, <2>2, <3>1, <3>3, EditedUnseenFits
    <3> QED  BY <2>1, <3>2, <3>3
  <2>4. file' = file /\ \A d \in Ctls : d # c => cpc'[d] = cpc[d] /\ draft'[d] = draft[d]
    BY <1>0, <1>2, <2>1 DEF CtlLoads, At
  <2> QED  BY <1>1, <2>3, <2>4 DEF RangeInv, SavedRangeFits, Loads
<1>3. CASE CtlTruncates(c)
  <2>1. /\ file' = Torn /\ draft' = draft /\ cpc[c] = "truncate"
        /\ \A d \in Ctls : d # c => cpc'[d] = cpc[d]
    BY <1>0, <1>3 DEF CtlTruncates, At
  <2> QED  BY <1>1, <2>1 DEF RangeInv, SavedRangeFits, Loads
<1>4. CASE CtlWrites(c)
  <2>1. /\ file' = draft[c] \/ file' = file
        /\ draft' = draft /\ cpc[c] = "write" /\ cpc'[c] \in {"rings", "done"}
        /\ \A d \in Ctls : d # c => cpc'[d] = cpc[d]
    BY <1>0, <1>4 DEF CtlWrites, At
  <2> QED  BY <1>1, <2>1 DEF RangeInv, SavedRangeFits, Loads
<1>5. CASE CtlSetsRing(c) \/ CtlExits(c) \/ CtlDies(c)
  <2>1. /\ file' = file /\ cpc'[c] \notin {"truncate", "write"}
        /\ \A d \in Ctls : d # c => cpc'[d] = cpc[d] /\ draft'[d] = draft[d]
    BY <1>0, <1>5 DEF CtlSetsRing, CtlExits, CtlDies, At
  <2> QED  BY <1>1, <2>1 DEF RangeInv, SavedRangeFits, Loads
<1> QED  BY <1>2, <1>3, <1>4, <1>5 DEF CtlStep

LEMMA NextRangeInv == IInv /\ RangeInv /\ [Next]_vars => RangeInv'
<1> SUFFICES ASSUME IInv, RangeInv, [Next]_vars  PROVE RangeInv'
  OBVIOUS
<1>1. CASE CtlActs
  BY <1>1, CtlKeepsRange DEF CtlActs, IInv
<1>2. CASE UNCHANGED <<file, cpc, draft, plugged, plugs>>
  BY <1>2 DEF RangeInv, SavedRangeFits, Loads, Fits, Source, FirstChannel
<1>3. CASE HelperStep \/ HelperDies \/ CallbackBegins \/ CallbackEnds
  <2>1. CASE HelperEnsuresRing
    BY <1>2, <2>1 DEF HelperEnsuresRing, ctl, bounds
  <2>2. CASE UNCHANGED configVars
    BY <1>2, <2>2 DEF configVars, ctl, bounds
  <2>3. ASSUME ~HelperEnsuresRing  PROVE UNCHANGED configVars
    BY <1>3, <2>3
    DEF HelperStep, HelperDies, CallbackBegins, CallbackEnds, HelperLoads,
        HelperResolves, HelperOpensRing, HelperConfigures, HelperStarts,
        HelperWatches, HelperPolls, HelperStopsUnit, HelperDisposesUnit,
        HelperFreesBuffers, HelperClosesRings
  <2> QED  BY <2>1, <2>2, <2>3
<1>4. CASE \E d \in Devices : PlugWhileCapturing(d)
  <2>1. UNCHANGED <<file, cpc, draft>> /\ plugs' # MaxPlugs
    BY <1>4, ConfigAssumption
    DEF PlugWhileCapturing, Plug, DeviceChange, ctl, IInv, ConfigInv, ConfigTypeOK
  <2>2. \A config : Fits(config) => Fits(config)'
    BY <2>1 DEF Fits
  <2> QED  BY <2>1, <2>2 DEF RangeInv, SavedRangeFits, Loads
<1>5. CASE UNCHANGED vars
  BY <1>2, <1>5 DEF vars, configVars, ctl, bounds
<1> QED  BY <1>1, <1>3, <1>4, <1>5 DEF Next

-----------------------------------------------------------------------------
\* The helper's and the commands' state has its type.
THEOREM TypeCorrect == Spec => []TypeOK
<1>1. IInv => TypeOK
  BY DEF IInv, ConfigInv, HelperInv, HelperTypeOK, TypeOK
<1> QED  BY <1>1, InitIInv, NextIInv, PTL DEF Spec

\* The capture callback has its buffers and its rings for as long as it runs.
THEOREM CallbackKeepsItsSession == Spec => []CallbackHasItsSession
<1>1. IInv => CallbackHasItsSession
  BY DEF IInv, HelperInv, CaptureInv, AllOpen, CallbackHasItsSession
<1> QED  BY <1>1, InitIInv, NextIInv, PTL DEF Spec

\* Every turn of the loop starts with nothing of the last one's session.
THEOREM NothingIsLeft == Spec => []NothingLeaks
<1>1. IInv => NothingLeaks
  BY DEF IInv, HelperInv, SessionInv
<1> QED  BY <1>1, InitIInv, NextIInv, PTL DEF Spec

\* Commands that follow one another add up, with the helper beside them.
THEOREM EditsAddUp == OneAtATime => (Spec => []EditsAccumulate)
<1> SUFFICES ASSUME OneAtATime  PROVE Spec => []EditsAccumulate
  OBVIOUS
<1>1. Init => EditInv
  BY DEF Init, ConfigInit, EditInv, FileIsPromised
<1>2. IInv /\ EditInv => EditsAccumulate
  BY DEF EditInv, FileIsPromised, EditsAccumulate, CtlsIdle, Loads
<1> QED  BY <1>1, <1>2, InitIInv, NextIInv, NextEditInv, PTL DEF Spec

\* What commands save is a range that the source has, unless devices came or
\* went; the first player's channel is one of it even then.
THEOREM SavedRangesFit == Spec => []SavedRangeFits
<1>1. Init => RangeInv
  BY DEF Init, ConfigInit, RangeInv, SavedRangeFits, Loads
<1>2. RangeInv => SavedRangeFits
  BY DEF RangeInv
<1> QED  BY <1>1, <1>2, InitIInv, NextIInv, NextRangeInv, PTL DEF Spec

-----------------------------------------------------------------------------
(* The refinement.  What is opened for a turn of the loop is the rings of  *)
(* its players and no others, and the device is one that suits it.         *)

TurnInv ==
  /\ hpc \in {"open", "configure", "start"} =>
       /\ open \subseteq 1 .. cfg.players
       /\ source \in Devices /\ SuitsDevice(cfg, source)

RefInv == IInv /\ TurnInv

LEMMA InitRefInv == Init => RefInv
<1>1. Init => TurnInv
  BY DEF Init, TurnInv
<1> QED  BY <1>1, InitIInv DEF RefInv

LEMMA ResolvedSuits ==
  ASSUME NEW config, Resolved(config) # None
  PROVE  Resolved(config) \in Devices => SuitsDevice(config, Resolved(config))
BY DEF Resolved, Source, SuitsDevice

\* Steps that leave the turn of the loop alone, or are outside of it.
LEMMA TurnKept ==
  ASSUME RefInv, UNCHANGED <<cfg, source, open>>,
         hpc' \in {"open", "configure", "start"} =>
           hpc \in {"open", "configure", "start"}
  PROVE  TurnInv'
BY DEF RefInv, TurnInv, SuitsDevice, HasInputChannelRange, FirstChannel

LEMMA NextRefInv == RefInv /\ [Next]_vars => RefInv'
<1> SUFFICES ASSUME RefInv, [Next]_vars  PROVE TurnInv'
  BY NextIInv DEF RefInv
<1>1. CASE HelperResolves
  <2>1. cfg' = cfg /\ open' = open /\ open = {}
        /\ (hpc' = "open" => source' # None /\ source' = Resolved(cfg))
        /\ (hpc' # "open" => hpc' = "load")
    BY <1>1
    DEF HelperResolves, session, RefInv, IInv, HelperInv, SessionInv,
        NothingLeaks, NoSession
  <2>2. source' \in Devices \cup {None}
    BY NextIInv DEF RefInv, IInv, HelperInv, HelperTypeOK
  <2>3. hpc' = "open" => source' \in Devices /\ SuitsDevice(cfg, source')
    BY <2>1, <2>2, ResolvedSuits
  <2> QED
    BY <2>1, <2>3 DEF TurnInv, SuitsDevice, HasInputChannelRange, FirstChannel
<1>2. CASE HelperOpensRing
  <2>1. /\ hpc = "open" /\ cfg' = cfg /\ source' = source
        /\ open' = open \/ open' = open \cup {at}
        /\ at \in 1 .. 2 /\ cfg.players \in 1 .. 2 /\ at <= cfg.players
    BY <1>2, PlayersOfConfig
    DEF HelperOpensRing, RefInv, IInv, HelperInv, HelperTypeOK, RingInv, Players
  <2>2. open' \subseteq 1 .. cfg.players
    BY <2>1 DEF RefInv, TurnInv
  <2> QED
    BY <2>1, <2>2
    DEF RefInv, TurnInv, SuitsDevice, HasInputChannelRange, FirstChannel
<1>3. CASE \/ HelperConfigures \/ HelperStarts \/ HelperWatches \/ HelperPolls
           \/ HelperStopsUnit \/ HelperDisposesUnit \/ HelperFreesBuffers
  BY <1>3, TurnKept
  DEF HelperConfigures, HelperStarts, HelperWatches, HelperPolls,
      HelperStopsUnit, HelperDisposesUnit, HelperFreesBuffers, session
<1>4. CASE \/ HelperLoads \/ HelperEnsuresRing \/ HelperClosesRings
           \/ HelperDies
  BY <1>4
  DEF HelperLoads, HelperEnsuresRing, HelperClosesRings, HelperDies, TurnInv
<1>5. CASE CallbackBegins \/ CallbackEnds
  BY <1>5, TurnKept DEF CallbackBegins, CallbackEnds, session
<1>6. CASE (CtlActs /\ UNCHANGED helper) \/ UNCHANGED vars
  BY <1>6, TurnKept DEF helper, vars, session
<1>7. ASSUME NEW d \in Devices, PlugWhileCapturing(d)  PROVE TurnInv'
  BY <1>7, TurnKept DEF PlugWhileCapturing, session
<1> QED
  BY <1>1, <1>2, <1>3, <1>4, <1>5, <1>6, <1>7 DEF Next, HelperStep

Captured ==
  IF Captures THEN {[config |-> cfg, device |-> source, rings |-> open,
                     buffers |-> buffers]}
              ELSE {}

On == unit = "running" /\ alive

seen == <<Captured, On, cb = "busy">>

LEMMA InitSession == Init => Capture!SessionInit
BY DEF Init, Capture!SessionInit, Captures

\* Steps of the helper between two captures do not show.
LEMMA Between ==
  ASSUME ~Captures, ~Captures', UNCHANGED cb
  PROVE  UNCHANGED <<Captured, On, cb = "busy">>
BY DEF Captures, Captured, On

\* Nor do steps that leave the capture alone.
LEMMA Alongside ==
  ASSUME UNCHANGED <<cfg, source, open, buffers, unit, alive, cb>>
  PROVE  UNCHANGED <<Captured, On, cb = "busy">>
BY DEF Captures, Captured, On

LEMMA HelperSession ==
  ASSUME RefInv, HelperStep
  PROVE  [Capture!SessionNext]_seen
<1> USE DEF session
<1>0. HelperTypeOK /\ RingInv /\ SessionInv /\ CaptureInv /\ TurnInv
  BY DEF RefInv, IInv, HelperInv
<1>1. CASE HelperLoads \/ HelperEnsuresRing \/ HelperResolves
  <2>1. ~Captures /\ ~Captures' /\ UNCHANGED cb
    BY <1>0, <1>1
    DEF HelperLoads, HelperEnsuresRing, HelperResolves, SessionInv,
        NothingLeaks, NoSession, Captures
  <2> QED  BY <2>1, Between DEF seen
<1>2. CASE HelperOpensRing \/ HelperConfigures
  <2>1. ~Captures /\ ~Captures' /\ UNCHANGED cb
    BY <1>0, <1>2
    DEF HelperOpensRing, HelperConfigures, SessionInv, Captures
  <2> QED  BY <2>1, Between DEF seen
<1>3. CASE HelperStarts
  <2>1. /\ hpc = "start" /\ unit = "made" /\ buffers = TRUE /\ cb = "idle"
        /\ UNCHANGED <<cfg, source, alive, open, buffers, cb>>
    BY <1>0, <1>3 DEF HelperStarts, SessionInv, CaptureInv, HelperTypeOK
  <2>2. CASE UNCHANGED unit
    BY <2>1, <2>2, Alongside DEF seen
  <2>3. CASE unit' = "running"
    <3>1. open = 1 .. cfg.players
      BY <1>0, <2>1 DEF RingInv, AllOpen, TurnInv
    <3>2. Captured = {} /\ Captured' = {Capture!Session(cfg, source)}
      BY <2>1, <2>3, <3>1 DEF Captured, Captures, Capture!Session
    <3>3. /\ cfg \in Configs /\ source \in Devices /\ SuitsDevice(cfg, source)
      BY <1>0, <2>1 DEF HelperTypeOK, TurnInv
    <3>4. Captured' # {}
      BY <3>2
    <3>5. On' \in BOOLEAN
      BY DEF On
    <3>6. Capture!Begin
      BY <2>1, <3>2, <3>3, <3>4, <3>5 DEF Capture!Begin, Captured, On
    <3> QED  BY <3>6 DEF Capture!SessionNext
  <2> QED  BY <1>3, <2>2, <2>3 DEF HelperStarts
<1>4. CASE HelperWatches \/ HelperPolls
  BY <1>4, Alongside DEF HelperWatches, HelperPolls, seen
<1>5. CASE HelperStopsUnit
  <2>1. UNCHANGED <<cfg, source, alive, open, buffers, cb>>
    BY <1>5 DEF HelperStopsUnit
  <2>2. CASE unit # "running"
    BY <1>5, <2>1, <2>2, Alongside DEF HelperStopsUnit, seen
  <2>3. CASE unit = "running"
    <3>1. unit' = "stopping"
      BY <1>5, <2>3 DEF HelperStopsUnit
    <3>2. Captured' = Captured /\ ~On'
      BY <2>1, <2>3, <3>1 DEF Captured, Captures, On
    <3>3. CASE On
      <4>1. Capture!Halt
        BY <2>1, <3>2, <3>3 DEF Capture!Halt, On, Captured
      <4> QED  BY <4>1 DEF Capture!SessionNext
    <3>4. CASE ~On
      <4>1. On' = On
        BY <3>2, <3>4 DEF On
      <4>2. UNCHANGED <<Captured, On, cb = "busy">>
        BY <2>1, <3>2, <4>1
      <4> QED  BY <4>2 DEF seen
    <3> QED  BY <3>3, <3>4
  <2> QED  BY <2>2, <2>3
<1>6. CASE HelperDisposesUnit
  <2>1. /\ hpc = "join" /\ cb = "idle" /\ unit' = "none" /\ unit # "running"
        /\ UNCHANGED <<cfg, source, alive, open, buffers, cb>>
    BY <1>0, <1>6 DEF HelperDisposesUnit, SessionInv
  <2>2. CASE unit # "stopping"
    <3>1. ~Captures /\ ~Captures'
      BY <2>1, <2>2 DEF Captures
    <3> QED  BY <2>1, <3>1, Between DEF seen
  <2>3. CASE unit = "stopping"
    <3>1. Capture!End
      BY <2>1, <2>3 DEF Capture!End, Captures
    <3> QED  BY <3>1 DEF Capture!SessionNext
  <2> QED  BY <2>2, <2>3
<1>7. CASE HelperFreesBuffers \/ HelperClosesRings
  <2>1. ~Captures /\ ~Captures' /\ UNCHANGED cb
    BY <1>0, <1>7
    DEF HelperFreesBuffers, HelperClosesRings, SessionInv, Captures
  <2> QED  BY <2>1, Between DEF seen
<1> QED
  BY <1>1, <1>2, <1>3, <1>4, <1>5, <1>6, <1>7 DEF HelperStep

\* Each step of the helper, of its callback, of the commands and of Core
\* Audio is a step of the capture session, or does not show: for any number
\* of terminals, any devices and latencies, and however often a call fails.
THEOREM HelperKeepsItsSession == Spec => ImplementsSession
<1>1. ASSUME RefInv, [Next]_vars
      PROVE  [Capture!SessionNext]_seen
  <2>1. CASE HelperStep
    BY <1>1, <2>1, HelperSession
  <2>2. CASE HelperDies
    <3>1. Capture!Die
      BY <2>2 DEF HelperDies, Capture!Die, Captures
    <3> QED  BY <3>1 DEF Capture!SessionNext
  <2>3. CASE CallbackBegins
    <3>1. Capture!CallbackBegins
      BY <2>3
      DEF CallbackBegins, Capture!CallbackBegins, Captures, session
    <3> QED  BY <3>1 DEF Capture!SessionNext
  <2>4. CASE CallbackEnds
    <3>1. Capture!CallbackEnds
      BY <2>4 DEF CallbackEnds, Capture!CallbackEnds, Captures
    <3> QED  BY <3>1 DEF Capture!SessionNext
  <2>5. CASE (CtlActs /\ UNCHANGED helper) \/ UNCHANGED vars
    BY <2>5, Alongside DEF helper, vars, session, seen
  <2>6. ASSUME NEW d \in Devices, PlugWhileCapturing(d)
        PROVE  [Capture!SessionNext]_seen
    <3>1. UNCHANGED <<cfg, source, open, buffers, unit, cb>>
          /\ alive' = (alive /\ d # source)
      BY <2>6 DEF PlugWhileCapturing, session
    <3>2. CASE On /\ ~On'
      <4>1. Capture!Halt
        BY <3>1, <3>2 DEF Capture!Halt, On, Captures
      <4> QED  BY <4>1 DEF Capture!SessionNext
    <3>3. CASE On' <=> On
      BY <3>1, <3>3 DEF seen, Captured, Captures, On
    <3> QED  BY <3>1, <3>2, <3>3 DEF On
  <2> QED
    BY <1>1, <2>1, <2>2, <2>3, <2>4, <2>5, <2>6 DEF Next
<1>2. ASSUME RefInv, [Next]_vars
      PROVE  [Capture!SessionNext]_(Capture!capture)
  BY <1>1, <1>2 DEF seen, Captured, On, Capture!capture
<1> QED
  BY <1>2, InitRefInv, NextRefInv, InitSession, PTL
  DEF Spec, ImplementsSession, Capture!SessionSpec
=============================================================================
