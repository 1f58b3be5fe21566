-------------------------- MODULE BridgeSetupProofs --------------------------
(***************************************************************************)
(* What holds of BridgeSetup however many devices, commands, restarts and  *)
(* failing calls there are.                                                *)
(***************************************************************************)
EXTENDS BridgeSetup, TLAPS

\* Of some aggregates, those of S, and no others but the hidden ones.
OnlyHidden(S, left, hidden) == S \subseteq left /\ left \ S \subseteq hidden

\* While a command destroys, the players before the one it is at have no
\* aggregate that it could see; while it makes, those that it makes and has
\* passed have one, and no other that it could see.
Cleared ==
  step \in {"lookUp", "destroy"} /\ player = 2 => 1 \notin aggregates \ missed

MadeSoFar ==
  step \in {"source", "create"} =>
    /\ player \in Makes[command]
    /\ OnlyHidden({p \in Makes[command] : p < player}, aggregates, missed)

IInv == TypeOK /\ Cleared /\ MadeSoFar /\ ExitTellsAggregates

-----------------------------------------------------------------------------
\* The least of some players is one of them.
LEMMA LeastPlayer ==
  ASSUME NEW S \in SUBSET Players, S # {}
  PROVE  LET f == CHOOSE p \in S : \A q \in S : p <= q
         IN f \in S /\ \A q \in S : f <= q
<1>1. \E p \in S : \A q \in S : p <= q
  <2>1. CASE 1 \in S
    BY <2>1 DEF Players
  <2>2. CASE 1 \notin S
    <3>1. \A p \in S : p = 2
      BY <2>2 DEF Players
    <3>2. \E p \in S : \A q \in S : q = p
      BY <3>1
    <3> QED  BY <3>1, <3>2
  <2> QED  BY <2>1, <2>2
<1> QED  BY <1>1

\* The command types.
LEMMA MakesPlayers ==
  /\ DOMAIN Makes = {"repair", "repairAll", "destroy"}
  /\ \A c \in DOMAIN Makes : Makes[c] \in SUBSET Players
BY DEF Makes, Players

\* What GoOn leaves behind when the players up to `after' are done.
LEMMA GoOnKeeps ==
  ASSUME TypeOK, NEW after \in 0 .. 2, GoOn(after),
         command' = command,
         OnlyHidden({p \in Makes[command] : p <= after}, aggregates', missed')
  PROVE  /\ step' \in {"source", "ended"}
         /\ player' \in Players
         /\ exitCode' \in 0 .. 3
         /\ Cleared' /\ MadeSoFar' /\ ExitTellsAggregates'
<1> DEFINE left == {p \in Makes[command] : p > after}
<1>0. command \in DOMAIN Makes /\ Makes[command] \in SUBSET Players
  BY MakesPlayers DEF TypeOK
<1>1. CASE left = {}
  <2>1. step' = "ended" /\ exitCode' = 0 /\ player' = player
    BY <1>1 DEF GoOn, Exit
  <2>2. {p \in Makes[command] : p <= after} = Makes[command]
    BY <1>0, <1>1 DEF Players
  <2>3. OnlyHidden(Makes[command], aggregates', missed')
    BY <2>2
  <2> QED
    BY <1>0, <2>1, <2>3 DEF TypeOK, OnlyHidden, Cleared, MadeSoFar, ExitTellsAggregates
<1>2. CASE left # {}
  <2>1. /\ step' = "source" /\ exitCode' = exitCode
        /\ player' = CHOOSE p \in left : \A q \in left : p <= q
    BY <1>2 DEF GoOn
  <2>2. player' \in left /\ \A q \in left : player' <= q
    <3>1. left \in SUBSET Players
      BY <1>0
    <3> QED  BY <1>2, <2>1, <3>1, LeastPlayer
  <2>3. player' \in Makes[command] /\ player' \in Players
    BY <1>0, <2>2
  <2>4. OnlyHidden({p \in Makes[command] : p < player'}, aggregates', missed')
    <3>1. \A p \in Makes[command] : p <= after <=> p < player'
      BY <1>0, <2>2 DEF Players
    <3>2. {p \in Makes[command] : p <= after} = {p \in Makes[command] : p < player'}
      BY <3>1
    <3> QED  BY <3>2
  <2> QED  BY <2>1, <2>3, <2>4 DEF TypeOK, Cleared, MadeSoFar, ExitTellsAggregates
<1> QED  BY <1>1, <1>2

\* The same for the step that ends a look or a destruction: the aggregate is
\* gone, or it was missed.
LEMMA DestroyNextKeeps ==
  ASSUME IInv, step \in {"lookUp", "destroy"}, DestroyNext(player),
         command' = command, missed \subseteq missed',
         aggregates' \subseteq aggregates, player \notin aggregates' \ missed'
  PROVE  /\ step' \in {"lookUp", "source", "ended"}
         /\ player' \in Players
         /\ exitCode' \in 0 .. 3
         /\ Cleared' /\ MadeSoFar' /\ ExitTellsAggregates'
<1>1. CASE player = 1
  <2>1. step' = "lookUp" /\ player' = 2 /\ exitCode' = exitCode
    BY <1>1 DEF DestroyNext
  <2> QED
    BY <1>1, <2>1
    DEF IInv, TypeOK, Players, Cleared, MadeSoFar, ExitTellsAggregates
<1>2. CASE player # 1
  <2>1. player = 2
    BY <1>2 DEF IInv, TypeOK, Players
  <2>2. GoOn(0)
    BY <1>2 DEF DestroyNext
  <2>3. aggregates' \subseteq missed'
    BY <2>1 DEF IInv, TypeOK, Players, Cleared
  <2>4. {p \in Makes[command] : p <= 0} = {}
    BY MakesPlayers DEF IInv, TypeOK, Players
  <2>5. OnlyHidden({p \in Makes[command] : p <= 0}, aggregates', missed')
    BY <2>3, <2>4 DEF OnlyHidden
  <2> QED  BY <2>2, <2>5, GoOnKeeps DEF IInv
<1> QED  BY <1>1, <1>2

-----------------------------------------------------------------------------
LEMMA InitIInv == BoundsAssumption /\ Init => IInv
<1> SUFFICES ASSUME BoundsAssumption, Init  PROVE IInv
  OBVIOUS
<1>1. TypeOK
  <2>1. command \in DOMAIN Makes
    BY MakesPlayers DEF Init
  <2>2. rings \in [Players -> {"none", "made", "written"}]
    BY DEF Init
  <2>3. /\ commands \in 0 .. MaxCommands /\ faults \in 0 .. MaxFaults
        /\ changes \in 0 .. MaxChanges
    BY DEF Init, BoundsAssumption
  <2>4. /\ visible \subseteq Players /\ aggregates \subseteq Players
        /\ foreign \subseteq Players /\ missed \subseteq Players
    BY DEF Init
  <2>5. installed \in BOOLEAN /\ stale \in BOOLEAN
    BY Zenon DEF Init
  <2>6. /\ inputs \in 0 .. MaxInputs /\ activePlayers \in Players
        /\ step = "ended" /\ player \in Players /\ exitCode \in 0 .. 3
    BY DEF Init, Players
  <2> QED  BY <2>1, <2>2, <2>3, <2>4, <2>5, <2>6, Zenon DEF TypeOK
<1>2. Cleared /\ MadeSoFar /\ ExitTellsAggregates
  BY DEF Init, Cleared, MadeSoFar, ExitTellsAggregates
<1> QED  BY <1>1, <1>2 DEF IInv

LEMMA NextIInv == BoundsAssumption /\ IInv /\ [Next]_vars => IInv'
<1> SUFFICES ASSUME BoundsAssumption, IInv, [Next]_vars  PROVE IInv'
  OBVIOUS
<1> USE DEF IInv
<1>1. ASSUME NEW c \in DOMAIN Makes, Begin(c),
             UNCHANGED <<faults, changes>>, commands' \in 0 .. MaxCommands
      PROVE  IInv'
  <2>1. stale' \in BOOLEAN
    BY <1>1, Zenon DEF Begin
  <2> QED
    BY <1>1, <2>1 DEF Begin, world, files, TypeOK, Players, Cleared, MadeSoFar,
                      ExitTellsAggregates
<1>2. CASE \E c \in DOMAIN Makes : Run(c)
  BY <1>1, <1>2 DEF Run, TypeOK, BoundsAssumption
<1>3. CASE RunAdvised
  <2>1. Advised \in DOMAIN Makes
    BY DEF Advised, Makes
  <2> QED  BY <1>1, <1>3, <2>1 DEF RunAdvised, bounds, TypeOK
<1>4. CASE LookUp
  <2>0. /\ aggregates' = aggregates /\ command' = command /\ step = "lookUp"
        /\ UNCHANGED <<installed, visible, inputs, rings, foreign,
                       activePlayers, commands, changes>>
        /\ stale' = FALSE
    BY <1>4 DEF LookUp, world, files
  <2>1. CASE /\ player \in aggregates
             /\ step' = "destroy" /\ UNCHANGED <<player, exitCode, missed, faults>>
    BY <2>0, <2>1 DEF TypeOK, Players, Cleared, MadeSoFar, ExitTellsAggregates
  <2>2. ASSUME DestroyNext(player), faults' \in 0 .. MaxFaults,
               missed \subseteq missed', missed' \subseteq Players,
               player \notin aggregates \ missed'
        PROVE  IInv'
    <3>1. /\ step' \in {"lookUp", "source", "ended"}
          /\ player' \in Players
          /\ exitCode' \in 0 .. 3
          /\ Cleared' /\ MadeSoFar' /\ ExitTellsAggregates'
      BY <2>0, <2>2, DestroyNextKeeps
    <3> QED  BY <2>0, <2>2, <3>1 DEF TypeOK
  <2>3. CASE player \notin aggregates /\ DestroyNext(player)
             /\ UNCHANGED <<missed, faults>>
    BY <2>2, <2>3 DEF TypeOK
  <2>4. CASE Fault /\ DestroyNext(player)
             /\ missed' = missed \cup ({player} \cap aggregates)
    BY <2>2, <2>4 DEF Fault, TypeOK, BoundsAssumption
  <2> QED  BY <1>4, <2>1, <2>3, <2>4 DEF LookUp
<1>5. CASE Destroy
  <2>1. /\ step' \in {"lookUp", "source", "ended"}
        /\ player' \in Players
        /\ exitCode' \in 0 .. 3
        /\ Cleared' /\ MadeSoFar' /\ ExitTellsAggregates'
    BY <1>5, DestroyNextKeeps DEF Destroy
  <2> QED  BY <1>5, <2>1 DEF Destroy, files, bounds, TypeOK
<1>6. CASE DestroyFails
  BY <1>6 DEF DestroyFails, Exit, Fault, world, files, BoundsAssumption, TypeOK,
              Cleared, MadeSoFar, ExitTellsAggregates
<1>7. CASE FindSource
  BY <1>7 DEF FindSource, Exit, Fault, world, files, BoundsAssumption, TypeOK,
              Cleared, MadeSoFar, ExitTellsAggregates
<1>8. CASE SourceHasNoChannel
  BY <1>8 DEF SourceHasNoChannel, Exit, Fault, world, files, BoundsAssumption, TypeOK,
              Cleared, MadeSoFar, ExitTellsAggregates
<1>9. CASE Create
  <2>1. player \in Makes[command] /\ Makes[command] \in SUBSET Players
    BY <1>9, MakesPlayers DEF Create, MadeSoFar, TypeOK
  <2>2. OnlyHidden({p \in Makes[command] : p <= player}, aggregates', missed')
    <3>1. {p \in Makes[command] : p <= player}
            = {p \in Makes[command] : p < player} \cup {player}
      BY <2>1 DEF Players
    <3>2. /\ aggregates' = aggregates \cup {player} /\ missed' = missed
          /\ OnlyHidden({p \in Makes[command] : p < player}, aggregates, missed)
      BY <1>9 DEF Create, MadeSoFar
    <3> QED  BY <3>1, <3>2 DEF OnlyHidden
  <2>3. player \in 0 .. 2
    BY DEF TypeOK, Players
  <2>4. /\ step' \in {"source", "ended"}
        /\ player' \in Players
        /\ exitCode' \in 0 .. 3
        /\ Cleared' /\ MadeSoFar' /\ ExitTellsAggregates'
    BY <1>9, <2>2, <2>3, GoOnKeeps DEF Create
  <2>5. aggregates' \subseteq Players
    BY <1>9, <2>1 DEF Create, TypeOK
  <2> QED  BY <1>9, <2>4, <2>5 DEF Create, files, bounds, TypeOK
<1>10. CASE CreateFails
  BY <1>10 DEF CreateFails, Exit, Fault, world, files, BoundsAssumption, TypeOK,
               Cleared, MadeSoFar, ExitTellsAggregates
<1>11. CASE \E n \in 0 .. 3 : SetActivePlayers(n)
  BY <1>11 DEF SetActivePlayers, AcceptsCount, Fault, process, BoundsAssumption,
               TypeOK, Cleared, MadeSoFar, ExitTellsAggregates
<1>12. CASE Install
  BY <1>12 DEF Install, files, Change, BoundsAssumption, TypeOK, Cleared, MadeSoFar,
               ExitTellsAggregates
<1>13. CASE Plug
  BY <1>13 DEF Plug, Change, files, process, BoundsAssumption, TypeOK, Cleared,
               MadeSoFar, ExitTellsAggregates
<1>14. CASE \E p \in Players : LoadDriver(p)
  BY <1>14 DEF LoadDriver, files, process, bounds, TypeOK, Cleared, MadeSoFar,
               ExitTellsAggregates
<1>15. CASE \E p \in Players : EnsureRing(p)
  BY <1>15 DEF EnsureRing, process, bounds, TypeOK, Cleared, MadeSoFar,
               ExitTellsAggregates
<1>16. CASE Capture
  <2>1. rings' \in [Players -> {"none", "made", "written"}]
    BY <1>16 DEF Capture, TypeOK
  <2> QED
    BY <1>16, <2>1 DEF Capture, process, bounds, TypeOK, Cleared, MadeSoFar,
                       ExitTellsAggregates
<1>17. CASE \E p \in Players : OtherUsersHelper(p)
  <2>1. rings' \in [Players -> {"none", "made", "written"}]
    BY <1>17 DEF OtherUsersHelper, TypeOK
  <2>2. foreign' \subseteq Players
    BY <1>17 DEF OtherUsersHelper, TypeOK
  <2> QED
    BY <1>17, <2>1, <2>2 DEF OtherUsersHelper, Change, process, BoundsAssumption,
                             TypeOK, Cleared, MadeSoFar, ExitTellsAggregates
<1>18. CASE UNCHANGED vars
  BY <1>18 DEF vars, world, files, process, bounds, TypeOK, Cleared, MadeSoFar,
               ExitTellsAggregates
<1> QED
  BY <1>2, <1>3, <1>4, <1>5, <1>6, <1>7, <1>8, <1>9, <1>10, <1>11, <1>12,
     <1>13, <1>14, <1>15, <1>16, <1>17, <1>18
  DEF Next, CommandStep, HelperStep

\* Every state of the setup has its types.
THEOREM TypeCorrect == Spec => []TypeOK
<1>1. IInv => TypeOK
  BY DEF IInv
<1> QED  BY <1>1, InitIInv, NextIInv, BoundsAssumption, PTL DEF Spec

\* An aggregate command that ended with 0 left the aggregates that it makes,
\* and none besides that it could see, for any number of restarts, failing
\* calls and earlier commands.
THEOREM ExitCodesTell == Spec => []ExitTellsAggregates
<1>1. IInv => ExitTellsAggregates
  BY DEF IInv
<1> QED  BY <1>1, InitIInv, NextIInv, BoundsAssumption, PTL DEF Spec

\* Where status prints that all is ready, doctor exits with 0 unless an active
\* ring is another user's.
THEOREM ReportsAgree == Spec => []ReadyIsHealthy
<1>1. TypeOK => ReadyIsHealthy
  <2> SUFFICES ASSUME TypeOK, Ready
               PROVE  DoctorHealthy <=> Active \cap foreign = {}
    BY DEF ReadyIsHealthy
  <2>1. 1 \in Active
    BY DEF Active, TypeOK, Players
  <2>2. 1 \in visible /\ 1 \in aggregates /\ Channels(1) = 1
    BY <2>1 DEF Ready
  <2>3. \A p \in Active : rings[p] # "none"
    BY DEF Ready
  <2>4. (\A p \in Active : OpensForWriting(p)) <=> Active \cap foreign = {}
    BY <2>3 DEF OpensForWriting
  <2> QED  BY <2>2, <2>4 DEF Ready, SourceReady, DoctorHealthy
<1> QED  BY <1>1, TypeCorrect, PTL

-----------------------------------------------------------------------------
(* The end of a command, and the way out of a repair that failed: what     *)
(* SetupGetsReady takes from the commands themselves.                      *)

StepsToEnd ==
  CASE step = "lookUp"  -> IF player = 1 THEN 8 ELSE 6
    [] step = "destroy" -> IF player = 1 THEN 7 ELSE 5
    [] step = "source"  -> IF player = 1 THEN 4 ELSE 2
    [] step = "create"  -> IF player = 1 THEN 3 ELSE 1
    [] OTHER            -> 0

\* Each step of an aggregate command brings it nearer to its end, and nothing
\* that goes on around it takes it back: only one that has ended begins again.
CommandEnds ==
  [][IF CommandStep THEN StepsToEnd' < StepsToEnd
     ELSE step = "ended" \/ UNCHANGED <<command, step, player>>]_vars

\* A repair finds nothing in its way but what it failed to see: when it makes an
\* aggregate and that player's is there, its own look-up of it failed, whatever
\* earlier commands left half done.
NothingInTheWay == step = "create" /\ player \in aggregates => player \in missed

LEMMA GoOnEnds ==
  ASSUME TypeOK, NEW after \in 0 .. 2, GoOn(after), command' = command
  PROVE  \/ step' = "ended"
         \/ step' = "source" /\ player' \in Players /\ player' > after
<1> DEFINE left == {p \in Makes[command] : p > after}
<1>1. CASE left = {}
  BY <1>1 DEF GoOn, Exit
<1>2. CASE left # {}
  <2>1. left \in SUBSET Players
    BY MakesPlayers DEF TypeOK
  <2>2. /\ step' = "source"
        /\ player' = CHOOSE p \in left : \A q \in left : p <= q
    BY <1>2 DEF GoOn
  <2>3. player' \in left
    BY <1>2, <2>1, <2>2, LeastPlayer
  <2> QED  BY <2>1, <2>2, <2>3
<1> QED  BY <1>1, <1>2

LEMMA CommandGoesOn ==
  ASSUME TypeOK, CommandStep
  PROVE  StepsToEnd' < StepsToEnd
<1>0. player \in {1, 2}
  BY DEF TypeOK, Players
<1>1. ASSUME step \in {"lookUp", "destroy"}, DestroyNext(player), command' = command
      PROVE  StepsToEnd' < StepsToEnd
  <2>1. CASE player = 1
    <3>1. step' = "lookUp" /\ player' = 2
      BY <1>1, <2>1 DEF DestroyNext
    <3> QED  BY <1>1, <2>1, <3>1 DEF StepsToEnd
  <2>2. CASE player = 2
    <3>1. StepsToEnd >= 5 /\ StepsToEnd \in Nat
      BY <1>1, <2>2 DEF StepsToEnd
    <3>2. step' \in {"ended", "source"}
      BY <1>1, <2>2, GoOnEnds DEF DestroyNext
    <3>3. StepsToEnd' <= 4 /\ StepsToEnd' \in Nat
      BY <3>2 DEF StepsToEnd
    <3> QED  BY <3>1, <3>3
  <2> QED  BY <1>0, <2>1, <2>2
<1>2. CASE LookUp
  <2>1. CASE step' = "destroy" /\ player' = player
    BY <1>0, <1>2, <2>1 DEF LookUp, StepsToEnd
  <2>2. CASE DestroyNext(player)
    BY <1>1, <1>2, <2>2 DEF LookUp
  <2> QED  BY <1>2, <2>1, <2>2 DEF LookUp
<1>3. CASE Destroy
  BY <1>1, <1>3 DEF Destroy
<1>4. CASE DestroyFails \/ SourceHasNoChannel \/ CreateFails
  <2>1. step \in {"destroy", "source", "create"} /\ step' = "ended"
    BY <1>4 DEF DestroyFails, SourceHasNoChannel, CreateFails, Exit
  <2> QED  BY <1>0, <2>1 DEF StepsToEnd
<1>5. CASE FindSource
  <2>1. step = "source" /\ player' = player /\ step' \in {"create", "ended"}
    BY <1>5 DEF FindSource, Exit
  <2> QED  BY <1>0, <2>1 DEF StepsToEnd
<1>6. CASE Create
  <2>1. step = "create" /\ GoOn(player) /\ command' = command
    BY <1>6 DEF Create
  <2>2. \/ step' = "ended"
        \/ step' = "source" /\ player' \in Players /\ player' > player
    BY <1>0, <2>1, GoOnEnds
  <2>3. step' = "source" => player = 1 /\ player' = 2
    BY <1>0, <2>2 DEF Players
  <2> QED  BY <1>0, <2>1, <2>2, <2>3 DEF StepsToEnd
<1> QED  BY <1>2, <1>3, <1>4, <1>5, <1>6 DEF CommandStep

\* An aggregate command ends after at most eight looks at Core Audio, for any
\* restarts, plugged devices and failing calls.
THEOREM CommandsEnd == Spec => CommandEnds
<1>1. ASSUME TypeOK, [Next]_vars, ~CommandStep, step # "ended"
      PROVE  UNCHANGED <<command, step, player>>
  BY <1>1
  DEF Next, Run, RunAdvised, Begin, SetActivePlayers, Install, Plug, LoadDriver,
      OtherUsersHelper, HelperStep, EnsureRing, Capture, process, vars
<1>2. TypeOK /\ [Next]_vars =>
        [IF CommandStep THEN StepsToEnd' < StepsToEnd
         ELSE step = "ended" \/ UNCHANGED <<command, step, player>>]_vars
  BY <1>1, CommandGoesOn
<1> QED  BY <1>2, TypeCorrect, PTL DEF Spec, CommandEnds

\* Running a repair again mends one that was cut short: unless a look-up of its
\* own fails, no aggregate that is left makes the creation fail.
THEOREM RepairsAreNotBlocked == Spec => []NothingInTheWay
<1>1. IInv => NothingInTheWay
  <2> SUFFICES ASSUME IInv, step = "create", player \in aggregates
               PROVE  player \in missed
    BY DEF NothingInTheWay
  <2>1. /\ player \in {1, 2}
        /\ OnlyHidden({p \in Makes[command] : p < player}, aggregates, missed)
    BY DEF IInv, MadeSoFar, TypeOK, Players
  <2>2. player \notin {p \in Makes[command] : p < player}
    BY <2>1
  <2> QED  BY <2>1, <2>2 DEF OnlyHidden
<1> QED  BY <1>1, InitIInv, NextIInv, BoundsAssumption, PTL DEF Spec
=============================================================================
