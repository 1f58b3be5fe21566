---------------------------- MODULE BridgeSetup ----------------------------
(***************************************************************************)
(* Setting the bridge up: rocksmith_bridge_ctl destroys and makes the      *)
(* aggregate devices that Rocksmith looks for, and status and doctor tell  *)
(* how far it got.  Around it coreaudiod loads the driver and is           *)
(* restarted, the helper makes the rings and writes to them when its       *)
(* source has the channels, another user's helper may have done so before, *)
(* devices are plugged in and out, and any call of Core Audio may fail: a  *)
(* look-up that fails reads as "there is none".  A command is a process;   *)
(* each of its looks at Core Audio is a step.  The source's first channel  *)
(* is 1.                                                                   *)
(***************************************************************************)
EXTENDS Integers, FiniteSets

CONSTANTS
  MaxInputs,   \* bound: input channels of a source
  MaxCommands, \* bound: commands that the user was not told to run
  MaxFaults,   \* bound: calls of Core Audio that fail
  MaxChanges   \* bound: installs, restarts of coreaudiod, devices (un)plugged,
               \* steps of another user's helper

ASSUME BoundsAssumption ==
  {MaxInputs, MaxCommands, MaxFaults, MaxChanges} \subseteq Nat

Players == 1 .. 2

VARIABLES
  \* Core Audio and the files
  installed,     \* the driver is installed
  visible,       \* players whose virtual source Core Audio shows
  aggregates,    \* players whose aggregate Core Audio keeps
  inputs,        \* input channels of the configured source, 0 without one
  rings,         \* per player: no file, or made, or written to
  foreign,       \* players whose ring is another user's: read, not written
  activePlayers, \* as saved in the configuration
  \* the aggregate command that runs, or what is left of the last one
  command, step, player, stale, exitCode,
  missed,        \* players whose aggregate a look-up of this command failed
                 \* to find
  commands, faults, changes  \* how many are left

files   == <<rings, foreign, activePlayers>>
world   == <<installed, visible, aggregates, inputs, files>>
process == <<command, step, player, stale, exitCode, missed>>
bounds  == <<commands, faults, changes>>
vars    == <<world, process, bounds>>

\* The players whose aggregates a command makes.
Makes == [repair |-> {1}, repairAll |-> {1, 2}, destroy |-> {}]

Active == 1 .. activePlayers

\* hasInputChannelRange for the source's first channel.
HasInputChannelRange(count) == inputs >= count

-----------------------------------------------------------------------------
(* The aggregate commands.                                                 *)

Begin(c) ==
  /\ step = "ended"
  /\ command' = c /\ step' = "lookUp" /\ player' = 1 /\ stale' = FALSE
  /\ missed' = {}
  /\ UNCHANGED <<world, exitCode>>

Run(c) == commands > 0 /\ commands' = commands - 1 /\ Begin(c)
          /\ UNCHANGED <<faults, changes>>

\* What set-active-players and doctor tell the user to run.
Advised == IF activePlayers = 2 THEN "repairAll" ELSE "repair"

RunAdvised ==
  /\ command # Advised \/ exitCode # 0
  /\ Begin(Advised)
  /\ UNCHANGED bounds

Exit(code) == step' = "ended" /\ exitCode' = code

Fault == faults > 0 /\ faults' = faults - 1

\* The first player that is left to make, or the end.
GoOn(after) ==
  LET left == {p \in Makes[command] : p > after}
  IN IF left = {} THEN Exit(0) /\ UNCHANGED player
     ELSE /\ step' = "source"
          /\ player' = CHOOSE p \in left : \A q \in left : p <= q
          /\ UNCHANGED exitCode

\* Mutant of DestroyNext: only the first is destroyed.
DestroyOne(p) == GoOn(0)

\* destroyAggregatesIfPresent: the second aggregate after the first.
DestroyNext(p) ==
  IF p = 1 THEN step' = "lookUp" /\ player' = 2 /\ UNCHANGED exitCode
  ELSE GoOn(0)

\* Mutant of LookUp: nothing is destroyed.
MakeAtOnce ==
  /\ step = "lookUp"
  /\ GoOn(0)
  /\ stale' = FALSE
  /\ UNCHANGED <<world, command, missed, bounds>>

\* deviceForUID: a look-up that fails is taken for one that found nothing, and
\* the aggregate, if there is one, is passed over.
LookUp ==
  /\ step = "lookUp"
  /\ \/ /\ IF player \in aggregates
           THEN step' = "destroy" /\ UNCHANGED <<player, exitCode>>
           ELSE DestroyNext(player)
        /\ UNCHANGED <<missed, faults>>
     \/ /\ Fault
        /\ DestroyNext(player)
        /\ missed' = missed \cup ({player} \cap aggregates)
  /\ stale' = FALSE
  /\ UNCHANGED <<world, command, commands, changes>>

\* The device that was found is destroyed, or the command ends with 1.
Destroy ==
  /\ step = "destroy"
  /\ ~stale
  /\ aggregates' = aggregates \ {player}
  /\ DestroyNext(player)
  /\ UNCHANGED <<installed, visible, inputs, files, command, stale, missed,
                 bounds>>

DestroyFails ==
  /\ step = "destroy"
  /\ \/ stale /\ UNCHANGED faults
     \/ Fault
  /\ Exit(1)
  /\ UNCHANGED <<world, command, player, stale, missed, commands, changes>>

\* createOneAggregate: the virtual source is looked up first, and a look-up
\* that fails reads as a source that is not visible.
FindSource ==
  /\ step = "source"
  /\ \/ /\ IF player \in visible THEN step' = "create" /\ UNCHANGED exitCode
           ELSE Exit(2)
        /\ UNCHANGED faults
     \/ Fault /\ Exit(2)
  /\ UNCHANGED <<world, command, player, stale, missed, commands, changes>>

SourceHasNoChannel ==
  /\ step = "source"
  /\ player \in visible /\ Fault
  /\ Exit(3)
  /\ UNCHANGED <<world, command, player, stale, missed, commands, changes>>

\* Core Audio keeps one aggregate for an identifier.
Create ==
  /\ step = "create"
  /\ player \notin aggregates
  /\ aggregates' = aggregates \cup {player}
  /\ GoOn(player)
  /\ UNCHANGED <<installed, visible, inputs, files, command, stale, missed,
                 bounds>>

CreateFails ==
  /\ step = "create"
  /\ \/ (player \in aggregates \/ player \notin visible) /\ UNCHANGED faults
     \/ Fault
  /\ Exit(1)
  /\ UNCHANGED <<world, command, player, stale, missed, commands, changes>>

CommandStep == LookUp \/ Destroy \/ DestroyFails \/ FindSource
               \/ SourceHasNoChannel \/ Create \/ CreateFails

\* set-active-players: it is refused when the source is there and too small,
\* unless a look-up fails and the source is not seen.
AcceptsCount(count) ==
  /\ count \in Players
  /\ \/ (inputs > 0 => HasInputChannelRange(count)) /\ UNCHANGED faults
     \/ Fault

SetActivePlayers(count) ==
  /\ step = "ended"
  /\ commands > 0 /\ commands' = commands - 1
  /\ AcceptsCount(count)
  /\ activePlayers' = count
  /\ UNCHANGED <<installed, visible, aggregates, inputs, rings, foreign, process,
                 changes>>

-----------------------------------------------------------------------------
(* What goes on around it.                                                 *)

Change == changes > 0 /\ changes' = changes - 1

\* install-local, or a restart of coreaudiod: the virtual sources are gone
\* until the driver is loaded again, and a device that a command has looked
\* up before is not that device any more.
Install ==
  /\ Change
  /\ installed' = TRUE
  /\ visible' = {}
  /\ stale' = TRUE
  /\ UNCHANGED <<aggregates, inputs, files, command, step, player, exitCode,
                 missed, commands, faults>>

Plug ==
  /\ Change
  /\ \E n \in 0 .. MaxInputs : n # inputs /\ inputs' = n
  /\ UNCHANGED <<installed, visible, aggregates, files, process, commands,
                 faults>>

LoadDriver(p) ==
  /\ installed
  /\ p \notin visible
  /\ visible' = visible \cup {p}
  /\ UNCHANGED <<installed, aggregates, inputs, files, process, bounds>>

\* openSharedRingAtPath for reading and writing, as the helper and doctor do:
\* the mode 0644 lets only the ring's owner.
OpensForWriting(p) == rings[p] # "none" /\ p \notin foreign

\* The helper: ensureRing makes the ring of each active player in turn, and
\* goes no further than the first that it cannot open.
EnsureRing(p) ==
  /\ installed
  /\ p \in Active
  /\ rings[p] = "none" /\ \A q \in Active : q < p => OpensForWriting(q)
  /\ rings' = [rings EXCEPT ![p] = "made"]
  /\ UNCHANGED <<installed, visible, aggregates, inputs, foreign, activePlayers,
                 process, bounds>>

\* Another user, logged in as well, has a helper, a configuration and a source
\* of his own: his helper makes the ring that is not there, and writes to his.
OtherUsersHelper(p) ==
  /\ installed
  /\ Change
  /\ \/ rings[p] = "none" /\ rings' = [rings EXCEPT ![p] = "made"]
     \/ p \in foreign /\ rings' = [rings EXCEPT ![p] = "written"]
  /\ foreign' = foreign \cup {p}
  /\ UNCHANGED <<installed, visible, aggregates, inputs, activePlayers, process,
                 commands, faults>>

\* The helper's capture callback writes to the rings of all active players.
Capture ==
  /\ \A p \in Active : OpensForWriting(p)
  /\ inputs > 0 /\ HasInputChannelRange(activePlayers)
  /\ \E p \in Active : rings[p] = "made"
  /\ rings' = [p \in Players |-> IF p \in Active THEN "written" ELSE rings[p]]
  /\ UNCHANGED <<installed, visible, aggregates, inputs, foreign, activePlayers,
                 process, bounds>>

HelperStep == (\E p \in Players : EnsureRing(p)) \/ Capture

-----------------------------------------------------------------------------
Init ==
  /\ installed = FALSE
  /\ visible = {}
  /\ aggregates \in SUBSET Players
  /\ inputs \in 0 .. MaxInputs
  /\ rings = [p \in Players |-> "none"] /\ foreign = {}
  /\ activePlayers = 1
  /\ command = "destroy" /\ step = "ended" /\ player = 1 /\ stale = FALSE
  /\ exitCode = 1 /\ missed = {}
  /\ commands = MaxCommands /\ faults = MaxFaults /\ changes = MaxChanges

Next ==
  \/ \E c \in DOMAIN Makes : Run(c)
  \/ RunAdvised
  \/ CommandStep
  \/ \E n \in 0 .. 3 : SetActivePlayers(n)
  \/ Install \/ Plug
  \/ \E p \in Players : LoadDriver(p) \/ OtherUsersHelper(p)
  \/ HelperStep

Spec == Init /\ [][Next]_vars

\* coreaudiod loads an installed driver, launchd keeps the helper going, a
\* command goes on, and the user does what the tool says.
FairSpec ==
  /\ Spec
  /\ \A p \in Players : WF_vars(LoadDriver(p))
  /\ WF_vars(HelperStep) /\ WF_vars(CommandStep) /\ WF_vars(RunAdvised)

-----------------------------------------------------------------------------
(* The reports, each taken as one look in which no call fails.             *)

\* Mutant of SourceReady: the source is there, whatever channels it has.
SourceShows == inputs > 0

SourceReady == inputs > 0 /\ HasInputChannelRange(activePlayers)

\* An aggregate of a virtual source that is not visible has no channel.
Channels(p) == IF p \in visible THEN 1 ELSE 0

\* The first line of status: it opens the rings for reading.
Ready ==
  /\ installed
  /\ SourceReady
  /\ \A p \in Active : /\ rings[p] = "written"
                       /\ p \in visible
                       /\ p \in aggregates /\ Channels(p) = 1

\* What doctor exits with: what it finds of player 2's devices are warnings,
\* and so is a ring that was never written to.  It opens the rings for reading
\* and writing.
DoctorHealthy ==
  /\ installed
  /\ 1 \in visible /\ 1 \in aggregates /\ Channels(1) = 1
  /\ inputs > 0 /\ HasInputChannelRange(activePlayers)
  /\ \A p \in Active : OpensForWriting(p)

-----------------------------------------------------------------------------
TypeOK ==
  /\ installed \in BOOLEAN /\ stale \in BOOLEAN
  /\ visible \subseteq Players /\ aggregates \subseteq Players
  /\ inputs \in 0 .. MaxInputs
  /\ rings \in [Players -> {"none", "made", "written"}]
  /\ foreign \subseteq Players /\ missed \subseteq Players
  /\ activePlayers \in Players
  /\ command \in DOMAIN Makes
  /\ step \in {"lookUp", "destroy", "source", "create", "ended"}
  /\ player \in Players
  /\ exitCode \in 0 .. 3
  /\ commands \in 0 .. MaxCommands /\ faults \in 0 .. MaxFaults
  /\ changes \in 0 .. MaxChanges

\* A command that ended with 0 left the aggregates that it makes, and of the
\* others none but those that a failing look-up hid from it, whatever was
\* there before, failed earlier or came and went meanwhile.
ExitTellsAggregates ==
  step = "ended" /\ exitCode = 0 =>
    /\ Makes[command] \subseteq aggregates
    /\ aggregates \ Makes[command] \subseteq missed

\* The two reports contradict each other in one case alone: where status is
\* ready, doctor fails nothing but the ring of another user, which status can
\* read and the helper cannot write.
ReadyIsHealthy == Ready => (DoctorHealthy <=> Active \cap foreign = {})

\* However often a repair was cut short, by a driver that was not loaded yet,
\* by a failing call or by an aggregate that a failing look-up left in its
\* way, and whatever was destroyed on the way: a user who does what the tool
\* says, with a source that stays and rings of his own, ends up ready.
SetupGetsReady ==
  <>[](installed /\ SourceReady /\ Active \cap foreign = {}) => <>[]Ready
=============================================================================
