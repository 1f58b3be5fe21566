----------------------------- MODULE BridgeConfig -----------------------------
(***************************************************************************)
(* config.plist and the commands of rocksmith_bridge_ctl that edit it.     *)
(* Each command is a process of its own: it loads the file, edits its copy *)
(* and saves all of it, and some then move the latency of the rings.       *)
(* Saving opens the file, which truncates it, and writes it afterwards; no *)
(* lock is taken, and a process may die between any two of these.          *)
(*                                                                         *)
(* Of the three frame counts in the file only the bridge latency is kept:  *)
(* the other two are loaded, edited and saved with it.                     *)
(***************************************************************************)
EXTENDS Naturals, FiniteSets

CONSTANTS
  Ctls,           \* terminals in which rocksmith_bridge_ctl is run, one
                  \* command after the other in each
  Devices,        \* input devices that may be plugged in
  AutoDetected,   \* the device that looks like a MOTU M4
  Channels,       \* input channels of each device
  Latencies,      \* frame counts asked for
  DefaultLatency, \* kDefaultTargetLatencyFrames
  MaxCommands,    \* bound: commands in a behaviour
  MaxPlugs,       \* bound: devices plugged in or out in a behaviour, and
                  \* look-ups of a command that fail
  MaxAborts,      \* bound: commands that die or fail to write
  None,           \* no device, no ring, no file
  Torn            \* the file between the opening and the end of a save

ASSUME ConfigAssumption ==
  /\ AutoDetected \in Devices
  /\ Channels \in [Devices -> Nat \ {0}]
  /\ DefaultLatency \in Latencies
  /\ MaxCommands \in Nat /\ MaxPlugs \in Nat /\ MaxAborts \in Nat
  /\ None \notin Devices

Players == 1 .. 2

VARIABLES
  file,     \* None, Torn, or the configuration that is in it
  target,   \* per player: the latency in its ring, or None without a ring
  plugged,  \* the devices that Core Audio shows
  cpc, edit, draft, player,   \* per ctl: where it is, its command, its copy
                              \* of the configuration, the ring it is at
  saved,    \* the configurations that were ever saved as a whole
  promised, \* the configuration that the commands done so far add up to
  commands, plugs, aborts     \* how many are left

ctl     == <<cpc, edit, draft, player>>
history == <<saved, promised>>
bounds  == <<commands, plugs, aborts>>
configVars == <<file, target, plugged, ctl, history, bounds>>

Configs == [uid : Devices \cup {None}, channel : 1 .. 2, players : Players,
            latency : Latencies]

Defaults == [uid |-> None, channel |-> 1, players |-> 1,
             latency |-> DefaultLatency]

ASSUME NoConfigAssumption == None \notin Configs /\ Torn \notin Configs

Loads(f) == f # None /\ f # Torn

\* loadConfigOrDefaults
Loaded(f) == IF Loads(f) THEN f ELSE Defaults

\* The device that a configuration names, and the first of its channels.
Source(config) ==
  LET wanted == IF config.uid = None THEN AutoDetected ELSE config.uid
  IN IF wanted \in plugged THEN wanted ELSE None

FirstChannel(config) == IF config.uid = None THEN 1 ELSE config.channel

HasInputChannelRange(device, first, count) ==
  first > 0 /\ count > 0 /\ Channels[device] >= first + count - 1

-----------------------------------------------------------------------------
(* The commands: what each changes, and when it is refused.                *)

Commands ==
  [op : {"set-latency"}, frames : Latencies] \cup
  [op : {"set-players"}, count : Players] \cup
  [op : {"set-source"}, uid : Devices, channel : 1 .. 2]

Edited(config, command) ==
  CASE command.op = "set-latency" -> [config EXCEPT !.latency = command.frames]
    [] command.op = "set-players" -> [config EXCEPT !.players = command.count]
    [] command.op = "set-source"  -> [config EXCEPT !.uid = command.uid,
                                                    !.channel = command.channel]

\* Mutant of Accepted: set-source looks for the first player's channel only.
AcceptedForOne(config, command) ==
  CASE command.op = "set-latency" -> TRUE
    [] command.op = "set-players" ->
         Source(config) # None =>
           HasInputChannelRange(Source(config), FirstChannel(config),
                                command.count)
    [] command.op = "set-source"  ->
         /\ command.uid \in plugged
         /\ HasInputChannelRange(command.uid, command.channel, 1)

\* set-active-players lets anything pass while the source is not there, and so
\* while it is not seen.
Accepted(config, command) ==
  CASE command.op = "set-latency" -> TRUE
    [] command.op = "set-players" ->
         Source(config) # None =>
           HasInputChannelRange(Source(config), FirstChannel(config),
                                command.count)
    [] command.op = "set-source"  ->
         /\ command.uid \in plugged
         /\ HasInputChannelRange(command.uid, command.channel, config.players)

At(c, step) == cpc' = [cpc EXCEPT ![c] = step]

\* The commands that a look-up which fails, and so sees no device, lets pass.
AcceptedUnseen(command) == command.op = "set-players"

Abort == aborts > 0 /\ aborts' = aborts - 1

DeviceChange == plugs > 0 /\ plugs' = plugs - 1

\* Mutant of CtlLoads: the edit starts from the defaults, not from the file.
CtlForgetsToLoad(c) ==
  /\ cpc[c] = "idle"
  /\ commands > 0
  /\ \E command \in Commands :
       /\ \/ Accepted(Defaults, command) /\ UNCHANGED plugs
          \/ AcceptedUnseen(command) /\ DeviceChange
       /\ edit' = [edit EXCEPT ![c] = command]
       /\ draft' = [draft EXCEPT ![c] = Edited(Defaults, command)]
  /\ commands' = commands - 1
  /\ At(c, "truncate")
  /\ UNCHANGED <<file, target, plugged, player, history, aborts>>

CtlLoads(c) ==
  /\ cpc[c] = "idle"
  /\ commands > 0
  /\ \E command \in Commands :
       /\ \/ Accepted(Loaded(file), command) /\ UNCHANGED plugs
          \/ AcceptedUnseen(command) /\ DeviceChange
       /\ edit' = [edit EXCEPT ![c] = command]
       /\ draft' = [draft EXCEPT ![c] = Edited(Loaded(file), command)]
  /\ commands' = commands - 1
  /\ At(c, "truncate")
  /\ UNCHANGED <<file, target, plugged, player, history, aborts>>

CtlTruncates(c) ==
  /\ cpc[c] = "truncate"
  /\ file' = Torn
  /\ At(c, "write")
  /\ UNCHANGED <<target, plugged, edit, draft, player, history, bounds>>

\* A write that fails leaves the truncated file, and the command exits.
CtlWrites(c) ==
  /\ cpc[c] = "write"
  /\ \/ /\ UNCHANGED aborts
        /\ file' = draft[c]
        /\ saved' = saved \cup {draft[c]}
        /\ promised' = Edited(promised, edit[c])
        /\ player' = [player EXCEPT ![c] = 1]
        /\ At(c, IF edit[c].op = "set-source" THEN "done" ELSE "rings")
     \/ /\ Abort
        /\ At(c, "done")
        /\ UNCHANGED <<file, saved, promised, player>>
  /\ UNCHANGED <<target, plugged, edit, draft, commands, plugs>>

\* requestRingLatency: a ring that is not there is passed over.
SetTarget(p, frames) ==
  target' = IF target[p] = None THEN target ELSE [target EXCEPT ![p] = frames]

CtlSetsRing(c) ==
  /\ cpc[c] = "rings"
  /\ SetTarget(player[c], draft[c].latency)
  /\ player' = [player EXCEPT ![c] = @ + 1]
  /\ At(c, IF player[c] = draft[c].players THEN "done" ELSE "rings")
  /\ UNCHANGED <<file, plugged, edit, draft, history, bounds>>

CtlExits(c) ==
  /\ cpc[c] = "done"
  /\ At(c, "idle")
  /\ edit' = [edit EXCEPT ![c] = None]
  /\ draft' = [draft EXCEPT ![c] = Defaults]
  /\ player' = [player EXCEPT ![c] = 1]
  /\ UNCHANGED <<file, target, plugged, history, bounds>>

CtlDies(c) ==
  /\ cpc[c] \in {"truncate", "write", "rings"}
  /\ Abort
  /\ At(c, "done")
  /\ UNCHANGED <<file, target, plugged, edit, draft, player, history,
                 commands, plugs>>

\* external: Core Audio shows a device, or no longer does.
Plug(d) ==
  /\ DeviceChange
  /\ plugged' = IF d \in plugged THEN plugged \ {d} ELSE plugged \cup {d}
  /\ UNCHANGED <<file, target, ctl, history, commands, aborts>>

-----------------------------------------------------------------------------
ConfigInit ==
  /\ file = None
  /\ target = [p \in Players |-> None]
  /\ plugged \in SUBSET Devices
  /\ cpc = [c \in Ctls |-> "idle"]
  /\ edit = [c \in Ctls |-> None]
  /\ draft = [c \in Ctls |-> Defaults]
  /\ player = [c \in Ctls |-> 1]
  /\ saved = {}
  /\ promised = Defaults
  /\ commands = MaxCommands
  /\ plugs = MaxPlugs
  /\ aborts = MaxAborts

CtlStep(c) ==
  \/ CtlTruncates(c)
  \/ CtlWrites(c)
  \/ CtlSetsRing(c)
  \/ CtlExits(c)

-----------------------------------------------------------------------------
CtlsIdle == \A c \in Ctls : cpc[c] = "idle"

ConfigTypeOK ==
  /\ file \in Configs \cup {None, Torn}
  /\ target \in [Players -> Latencies \cup {None}]
  /\ plugged \subseteq Devices
  /\ cpc \in [Ctls -> {"idle", "truncate", "write", "rings", "done"}]
  /\ edit \in [Ctls -> Commands \cup {None}]
  /\ draft \in [Ctls -> Configs]
  /\ player \in [Ctls -> 1 .. 3]
  /\ saved \subseteq Configs
  /\ promised \in Configs
  /\ commands \in 0 .. MaxCommands
  /\ plugs \in 0 .. MaxPlugs
  /\ aborts \in 0 .. MaxAborts

\* The file is what the commands add up to: each keeps what it does not edit.
\* (With commands that overlap, or after a death, it need not be.)
EditsAccumulate ==
  CtlsIdle /\ aborts = MaxAborts /\ Loads(file) => file = promised

\* A device that was chosen has a channel for the first player, and as long as
\* no device came or went, nor was passed over by a look-up that failed, the
\* source has one for every player.
Fits(config) ==
  /\ config.uid # None => HasInputChannelRange(config.uid, config.channel, 1)
  /\ plugs = MaxPlugs /\ Source(config) # None =>
       HasInputChannelRange(Source(config), FirstChannel(config), config.players)

\* Source, first channel and number of players are set by different commands,
\* each of which checks its own part against what it loaded, and together they
\* are a range that the device has, whatever overlapped or died (SECURITY: CLI
\* input must be validated before mutating config).
SavedRangeFits == Loads(file) => Fits(file)
=============================================================================
