---------------------------- MODULE RingFileProofs ----------------------------
(***************************************************************************)
(* What holds of a ring file for any number of inodes, clients, commands   *)
(* and mappings.  A header that is accepted stays so, which is why a       *)
(* client that is added finds nothing to reopen: the driver's mapping      *)
(* changes only while nobody does I/O, if HostSerializes.                  *)
(***************************************************************************)
EXTENDS RingFileSupply, FiniteSetTheorems, TLAPS

Running == {c \in Clients : ioing[c]}

\* The count of the running clients; a client that accesses the ring runs.
CountInv ==
  /\ gRunning = Cardinality(Running)
  /\ \A c \in Clients : dpc[c] = "deref" => ioing[c]

\* Who is named by a descriptor or a mapping, and that all of it is there.
SizeInv ==
  /\ MappingsFit
  /\ \A m \in live : mapOf[m] \in Inodes
  /\ \A k \in Ctls : cpc[k] # "idle" => ctlInode[k] \in Inodes
  /\ \A c \in Clients : dpc[c] = "map" =>
       fdInode[c] \in Inodes /\ size[fdInode[c]] = "full"
  /\ hpc \in {"truncate", "map", "zero", "init", "set", "stream"} =>
       held \in Inodes

\* What the helper has made of the file by each of its stores: the header is
\* not accepted before the last.
InitInv ==
  /\ ValidIsInitialised
  /\ hpc = "zero" =>
       /\ ~Valid(held)
       /\ unzeroed # {}
       /\ "magic" \notin unzeroed => word[held].magic = "zero"
       /\ "body" \notin unzeroed => word[held].body = "zero"
  /\ hpc = "init" =>
       /\ step \in 1 .. 6
       /\ word[held].magic = "zero"
       /\ word[held].body # "stale"
       /\ step > 4 => word[held].target = "good"

IInv == TypeOK /\ CountInv /\ SizeInv /\ InitInv

-----------------------------------------------------------------------------
(* The clients that run.                                                   *)

LEMMA RunningIsFinite == IsFiniteSet(Running) /\ Cardinality(Running) \in Nat
<1>1. Running \subseteq Clients /\ IsFiniteSet(Clients)
  BY ParametersAssumption DEF Running
<1> QED  BY <1>1, FS_Subset, FS_CardinalityType

LEMMA CountIsBounded ==
  ASSUME gRunning = Cardinality(Running)
  PROVE  gRunning \in 0 .. Cardinality(Clients)
<1>1. Running \subseteq Clients /\ IsFiniteSet(Clients)
  BY ParametersAssumption DEF Running
<1>2. /\ Cardinality(Running) <= Cardinality(Clients)
      /\ Cardinality(Running) \in Nat /\ Cardinality(Clients) \in Nat
  BY <1>1, FS_Subset, FS_CardinalityType
<1> QED  BY <1>2

LEMMA NoneRunning ==
  ASSUME CountInv, gRunning = 0, NEW c \in Clients
  PROVE  ~ioing[c]
<1>1. Running = {}
  BY RunningIsFinite, FS_EmptySet DEF CountInv
<1> QED  BY <1>1 DEF Running

LEMMA CountKept ==
  ASSUME CountInv, UNCHANGED <<gRunning, ioing>>,
         \A c \in Clients : dpc'[c] = "deref" => dpc[c] = "deref"
  PROVE  CountInv'
BY DEF CountInv, Running

LEMMA StoresLength == Len(InitStores) = 6
BY DEF InitStores

-----------------------------------------------------------------------------
LEMMA InitIInv == Init => IInv
<1> SUFFICES ASSUME Init  PROVE IInv
  OBVIOUS
<1>1. Blank \in [Words -> Values] /\ \A f \in Foreign : f \in [Words -> Values]
  BY DEF Blank, Foreign, Good, Words, Values
<1>2. /\ path \in Inodes \cup {None}
      /\ size \in [Inodes -> {"unused", "other", "full"}]
      /\ word \in [Inodes -> [Words -> Values]]
      /\ \A i \in Inodes : word[i] = Blank \/ word[i] \in Foreign
  BY <1>1 DEF Init
<1>3. Running = {}
  BY DEF Init, Running
<1>4. CountInv
  BY <1>3, FS_EmptySet DEF Init, CountInv
<1>5. TypeOK
  <2>1. gRunning \in 0 .. Cardinality(Clients)
    BY <1>4, CountIsBounded DEF CountInv
  <2>2. ioing \in [Clients -> BOOLEAN]
    BY Zenon DEF Init
  <2> QED
    BY <1>2, <2>1, <2>2, StoresLength, ParametersAssumption DEF Init, TypeOK
<1>6. SizeInv
  BY DEF Init, SizeInv, MappingsFit
<1>7. InitInv
  <2>1. \A i \in Inodes : ~Valid(i)
    <3>1. Blank.magic = "zero"
      BY DEF Blank, Words
    <3>2. \A f \in Foreign : f.version = "stale"
      BY DEF Foreign, Good, Blank, Words
    <3> QED  BY <1>2, <3>1, <3>2 DEF Valid
  <2> QED  BY <2>1 DEF Init, InitInv, ValidIsInitialised
<1> QED  BY <1>4, <1>5, <1>6, <1>7 DEF IInv

-----------------------------------------------------------------------------
(* The helper's steps.                                                     *)

\* Steps that leave the files, the count and what is mapped alone.
LEMMA FileUnchanged ==
  ASSUME IInv, UNCHANGED <<file, helper>>
  PROVE  InitInv'
BY DEF IInv, InitInv, ValidIsInitialised, Valid, file, helper

LEMMA DriverUnchanged ==
  ASSUME IInv, UNCHANGED driver
  PROVE  CountInv'
BY DEF IInv, CountInv, Running, driver

LEMMA WordsAreFinite == IsFiniteSet(Words)
<1> DEFINE A == {"magic"} \cup {"version"}
           B == A \cup {"geometry"}
           C == B \cup {"target"}
<1>1. IsFiniteSet(A)
  BY FS_Singleton, FS_AddElement
<1>2. IsFiniteSet(B)
  <2> HIDE DEF A
  <2> QED  BY <1>1, FS_AddElement
<1>3. IsFiniteSet(C)
  <2> HIDE DEF B
  <2> QED  BY <1>2, FS_AddElement
<1>4. IsFiniteSet(C \cup {"body"})
  <2> HIDE DEF C
  <2> QED  BY <1>3, FS_AddElement
<1>5. Words = C \cup {"body"}
  BY DEF Words
<1> QED  BY <1>4, <1>5

LEMMA StartsKeeps ==
  ASSUME IInv, HelperStarts \/ HelperReconnects \/ HelperDies
  PROVE  IInv'
<1>1. TypeOK'
  <2>1. CASE HelperStarts
    BY <2>1 DEF IInv, TypeOK, HelperStarts, file, ctl, driver
  <2>2. CASE HelperReconnects
    BY <2>2 DEF IInv, TypeOK, HelperReconnects, file, ctl, driver
  <2>3. CASE HelperDies
    BY <2>3, StoresLength DEF IInv, TypeOK, HelperDies, file, ctl, driver
  <2> QED  BY <2>1, <2>2, <2>3
<1>2. CountInv'
  BY DriverUnchanged DEF HelperStarts, HelperReconnects, HelperDies
<1>3. SizeInv'
  BY DEF IInv, SizeInv, MappingsFit, HelperStarts, HelperReconnects, HelperDies,
         file, ctl, driver
<1>4. InitInv'
  BY DEF IInv, InitInv, ValidIsInitialised, Valid, HelperStarts,
         HelperReconnects, HelperDies, file
<1> QED  BY <1>1, <1>2, <1>3, <1>4 DEF IInv

LEMMA OpensKeeps ==
  ASSUME IInv, HelperOpens
  PROVE  IInv'
<1>0. CountInv' /\ hpc' = "truncate" /\ hpc = "open"
      /\ UNCHANGED <<unzeroed, step, ctl, driver>>
  BY DriverUnchanged DEF HelperOpens
<1>1. CASE path # None /\ held' = path /\ UNCHANGED file
  <2>1. held' \in Inodes
    BY <1>1 DEF IInv, TypeOK
  <2>2. TypeOK'
    BY <1>0, <1>1, <2>1 DEF IInv, TypeOK, file, ctl, driver
  <2>3. SizeInv'
    BY <1>0, <1>1, <2>1 DEF IInv, SizeInv, MappingsFit, file, ctl, driver
  <2>4. InitInv'
    BY <1>0, <1>1 DEF IInv, InitInv, ValidIsInitialised, Valid, file
  <2> QED  BY <1>0, <2>2, <2>3, <2>4 DEF IInv
<1>2. CASE \E i \in Inodes :
             /\ size[i] = "unused"
             /\ path' = i
             /\ held' = i
             /\ size' = [size EXCEPT ![i] = "other"]
             /\ word' = [word EXCEPT ![i] = [w \in Words |-> "zero"]]
  <2>1. PICK i \in Inodes :
             /\ size[i] = "unused"
             /\ path' = i
             /\ held' = i
             /\ size' = [size EXCEPT ![i] = "other"]
             /\ word' = [word EXCEPT ![i] = [w \in Words |-> "zero"]]
    BY <1>2
  <2>2. [w \in Words |-> "zero"] \in [Words -> Values]
    BY DEF Values
  <2>3. TypeOK'
    BY <1>0, <2>1, <2>2 DEF IInv, TypeOK, ctl, driver
  <2>4. \A j \in Inodes : size[j] = "full" => size'[j] = "full"
    BY <2>1 DEF IInv, TypeOK
  <2>5. SizeInv'
    BY <1>0, <2>1, <2>4 DEF IInv, SizeInv, MappingsFit, ctl, driver
  <2>6. \A j \in Inodes : j # i => word'[j] = word[j]
    BY <2>1 DEF IInv, TypeOK
  <2>7. word'[i].magic = "zero"
    BY <2>1 DEF IInv, TypeOK, Words
  <2>8. InitInv'
    BY <1>0, <2>6, <2>7 DEF IInv, InitInv, ValidIsInitialised, Valid
  <2> QED  BY <1>0, <2>3, <2>5, <2>8 DEF IInv
<1> QED  BY <1>1, <1>2 DEF HelperOpens

LEMMA TruncatesKeeps ==
  ASSUME IInv, HelperTruncates
  PROVE  IInv'
<1>0. CountInv' /\ held \in Inodes
  BY DriverUnchanged DEF HelperTruncates, IInv, SizeInv
<1>1. TypeOK'
  BY DEF IInv, TypeOK, HelperTruncates, ctl, driver
<1>2. size'[held] = "full" /\ \A j \in Inodes : size[j] = "full" => size'[j] = "full"
  BY <1>0 DEF HelperTruncates, IInv, TypeOK
<1>3. SizeInv'
  BY <1>0, <1>2 DEF IInv, SizeInv, MappingsFit, HelperTruncates, ctl, driver
<1>4. InitInv'
  BY DEF IInv, InitInv, ValidIsInitialised, Valid, HelperTruncates
<1> QED  BY <1>0, <1>1, <1>3, <1>4 DEF IInv

LEMMA MapsKeeps ==
  ASSUME IInv, HelperMaps
  PROVE  IInv'
<1>0. CountInv' /\ held \in Inodes
  BY DriverUnchanged DEF HelperMaps, IInv, SizeInv
<1>1. TypeOK'
  BY DEF IInv, TypeOK, HelperMaps, file, ctl, driver
<1>2. SizeInv'
  BY <1>0 DEF IInv, SizeInv, MappingsFit, HelperMaps, file, ctl, driver
<1>3. InitInv'
  BY <1>0
  DEF IInv, InitInv, ValidIsInitialised, Valid, HelperMaps, file, Words
<1> QED  BY <1>0, <1>1, <1>2, <1>3 DEF IInv

\* A store of the helper into the file that it holds.
LEMMA StoreKeepsSize ==
  ASSUME IInv, UNCHANGED <<path, size, ctl, driver>>,
         hpc \in {"zero", "init", "set", "stream"},
         \/ hpc' \in {"zero", "init", "set", "stream"} /\ held' = held
         \/ hpc' = "attach"
  PROVE  SizeInv'
BY DEF IInv, SizeInv, MappingsFit, ctl, driver

LEMMA ZeroesKeeps ==
  ASSUME IInv, HelperZeroes
  PROVE  IInv'
<1>0. CountInv' /\ held \in Inodes /\ hpc = "zero"
  BY DriverUnchanged DEF HelperZeroes, IInv, SizeInv
<1>1. PICK w \in unzeroed :
        /\ word' = [word EXCEPT ![held][w] = "zero"]
        /\ unzeroed' = unzeroed \ {w}
  BY DEF HelperZeroes
<1>2. unzeroed \subseteq Words /\ w \in Words /\ IsFiniteSet(unzeroed)
  <2>1. unzeroed \subseteq Words
    BY DEF IInv, TypeOK
  <2> QED  BY <2>1, WordsAreFinite, FS_Subset
<1>3. (hpc' = "init" /\ unzeroed' = {}) \/ (hpc' = "zero" /\ unzeroed' # {})
  <2>1. /\ IsFiniteSet(unzeroed')
        /\ Cardinality(unzeroed') = Cardinality(unzeroed) - 1
        /\ Cardinality(unzeroed) \in Nat
    BY <1>1, <1>2, FS_RemoveElement, FS_CardinalityType
  <2>2. unzeroed' = {} <=> Cardinality(unzeroed) = 1
    BY <2>1, FS_EmptySet
  <2> QED  BY <2>2 DEF HelperZeroes
<1>4. word' \in [Inodes -> [Words -> Values]]
  BY <1>0, <1>1, <1>2 DEF IInv, TypeOK, Values
<1>5. TypeOK'
  <2>1. unzeroed' \subseteq Words
    BY <1>1, <1>2
  <2> QED
    BY <1>3, <1>4, <2>1, StoresLength
    DEF IInv, TypeOK, HelperZeroes, ctl, driver
<1>6. SizeInv'
  BY <1>0, <1>3, StoreKeepsSize DEF HelperZeroes
<1>7. /\ \A j \in Inodes : j # held => word'[j] = word[j]
      /\ \A v \in Words : word'[held][v] = IF v = w THEN "zero" ELSE word[held][v]
  BY <1>0, <1>1, <1>2 DEF IInv, TypeOK
<1>8. ~Valid(held)'
  BY <1>0, <1>7 DEF IInv, InitInv, Valid, Words, HelperZeroes
<1>9. ValidIsInitialised'
  BY <1>7, <1>8 DEF IInv, InitInv, ValidIsInitialised, Valid, HelperZeroes
<1>10. /\ "magic" \notin unzeroed' => word'[held].magic = "zero"
       /\ "body" \notin unzeroed' => word'[held].body = "zero"
  BY <1>0, <1>1, <1>7 DEF IInv, InitInv, Words
<1>11. held' = held /\ step' = 1
  BY DEF HelperZeroes
<1>12. InitInv'
  BY <1>3, <1>8, <1>9, <1>10, <1>11 DEF InitInv
<1> QED  BY <1>0, <1>5, <1>6, <1>12 DEF IInv

LEMMA Stores ==
  /\ InitStores[1] = <<"magic", "zero">> /\ InitStores[2] = <<"version", "good">>
  /\ InitStores[3] = <<"geometry", "good">> /\ InitStores[4] = <<"target", "good">>
  /\ InitStores[5] = <<"body", "zero">> /\ InitStores[6] = <<"magic", "good">>
BY DEF InitStores

LEMMA InitialisesKeeps ==
  ASSUME IInv, HelperInitialises
  PROVE  IInv'
<1> DEFINE w == InitStores[step][1]
           v == InitStores[step][2]
<1>0. CountInv' /\ held \in Inodes /\ hpc = "init" /\ step \in 1 .. 6
  BY DriverUnchanged DEF HelperInitialises, IInv, SizeInv, InitInv
<1>1. /\ step = 1 => w = "magic" /\ v = "zero"
      /\ step = 2 => w = "version" /\ v = "good"
      /\ step = 3 => w = "geometry" /\ v = "good"
      /\ step = 4 => w = "target" /\ v = "good"
      /\ step = 5 => w = "body" /\ v = "zero"
      /\ step = 6 => w = "magic" /\ v = "good"
  BY Stores
<1>2. word' = [word EXCEPT ![held][w] = v]
  BY DEF HelperInitialises
<1> HIDE DEF w, v
<1>3. w \in Words /\ v \in Values
  BY <1>0, <1>1 DEF Words, Values
<1>4. word' \in [Inodes -> [Words -> Values]]
  BY <1>0, <1>2, <1>3 DEF IInv, TypeOK
<1>5. \/ step < 6 /\ hpc' = "init" /\ step' = step + 1
      \/ step = 6 /\ hpc' = "set" /\ step' = 0
  BY <1>0, StoresLength DEF HelperInitialises
<1>6. TypeOK'
  <2>1. step' \in 0 .. Len(InitStores)
    BY <1>0, <1>5, StoresLength
  <2> QED
    BY <1>4, <1>5, <2>1 DEF IInv, TypeOK, HelperInitialises, ctl, driver
<1>7. SizeInv'
  BY <1>0, <1>5, StoreKeepsSize DEF HelperInitialises
<1>8. /\ \A j \in Inodes : j # held => word'[j] = word[j]
      /\ \A x \in Words : word'[held][x] = IF x = w THEN v ELSE word[held][x]
  BY <1>0, <1>2, <1>3 DEF IInv, TypeOK
<1>9. held' = held
  BY DEF HelperInitialises
<1>10. CASE step < 6
  <2>1. word'[held].magic = "zero" /\ word'[held].body # "stale"
    BY <1>0, <1>1, <1>8, <1>10 DEF IInv, InitInv, Words
  <2>2. step' > 4 => word'[held].target = "good"
    BY <1>0, <1>1, <1>5, <1>8, <1>10 DEF IInv, InitInv, Words
  <2>3. ValidIsInitialised'
    BY <1>8, <2>1 DEF IInv, InitInv, ValidIsInitialised, Valid
  <2>4. step' \in 1 .. 6 /\ hpc' = "init"
    BY <1>0, <1>5, <1>10
  <2> QED
    BY <1>0, <1>6, <1>7, <1>9, <2>1, <2>2, <2>3, <2>4 DEF IInv, InitInv
<1>11. CASE step = 6
  <2>1. word'[held].target = "good" /\ word'[held].body # "stale"
    BY <1>0, <1>1, <1>8, <1>11 DEF IInv, InitInv, Words
  <2>2. ValidIsInitialised'
    BY <1>8, <2>1 DEF IInv, InitInv, ValidIsInitialised, Valid
  <2>3. hpc' = "set"
    BY <1>5, <1>11
  <2> QED  BY <1>0, <1>6, <1>7, <2>2, <2>3 DEF IInv, InitInv
<1> QED  BY <1>0, <1>10, <1>11

\* The latency is stored in a header that is accepted: by the helper or by ctl.
LEMMA TargetStored ==
  ASSUME IInv, NEW i \in Inodes,
         word' = IF Valid(i) THEN [word EXCEPT ![i].target = "good"] ELSE word
  PROVE  /\ word' \in [Inodes -> [Words -> Values]]
         /\ ValidIsInitialised'
         /\ \A j \in Inodes : /\ Valid(j)' <=> Valid(j)
                              /\ word'[j].magic = word[j].magic
                              /\ word'[j].version = word[j].version
                              /\ word'[j].geometry = word[j].geometry
                              /\ word'[j].body = word[j].body
                              /\ word'[j].target \in {"good", word[j].target}
<1>1. word' \in [Inodes -> [Words -> Values]]
  BY DEF IInv, TypeOK, Words, Values
<1>2. \A j \in Inodes, x \in Words :
        word'[j][x] = IF Valid(i) /\ j = i /\ x = "target" THEN "good"
                      ELSE word[j][x]
  BY DEF IInv, TypeOK, Words
<1>3. \A j \in Inodes : /\ word'[j].magic = word[j].magic
                        /\ word'[j].version = word[j].version
                        /\ word'[j].geometry = word[j].geometry
                        /\ word'[j].body = word[j].body
                        /\ word'[j].target \in {"good", word[j].target}
  BY <1>2 DEF Words
<1>4. \A j \in Inodes : Valid(j)' <=> Valid(j)
  BY <1>3 DEF Valid
<1>5. ValidIsInitialised'
  BY <1>3, <1>4 DEF IInv, InitInv, ValidIsInitialised
<1> QED  BY <1>1, <1>3, <1>4, <1>5

LEMMA SetsTargetKeeps ==
  ASSUME IInv, HelperSetsTarget
  PROVE  IInv'
<1>0. CountInv' /\ held \in Inodes /\ hpc = "set" /\ hpc' = "attach"
  BY DriverUnchanged DEF HelperSetsTarget, IInv, SizeInv
<1>1. word' \in [Inodes -> [Words -> Values]] /\ ValidIsInitialised'
  BY <1>0, TargetStored DEF HelperSetsTarget
<1>2. TypeOK'
  BY <1>1 DEF IInv, TypeOK, HelperSetsTarget, ctl, driver
<1>3. SizeInv'
  BY <1>0, StoreKeepsSize DEF HelperSetsTarget
<1> QED  BY <1>0, <1>1, <1>2, <1>3 DEF IInv, InitInv

LEMMA AttachesKeeps ==
  ASSUME IInv, HelperAttaches
  PROVE  IInv'
<1>0. CountInv' /\ UNCHANGED <<file, unzeroed, step, ctl, driver>>
  BY DriverUnchanged DEF HelperAttaches
<1>1. \/ held' \in Inodes /\ size[held'] = "full" /\ hpc' = "stream"
      \/ held' = None /\ hpc' = "open"
  BY DEF HelperAttaches, Openable, IInv, TypeOK
<1>2. TypeOK'
  BY <1>0, <1>1 DEF IInv, TypeOK, file, ctl, driver
<1>3. SizeInv'
  BY <1>0, <1>1 DEF IInv, SizeInv, MappingsFit, file, ctl, driver
<1>4. InitInv'
  BY <1>0, <1>1 DEF IInv, InitInv, ValidIsInitialised, Valid, file
<1> QED  BY <1>0, <1>2, <1>3, <1>4 DEF IInv

LEMMA CapturesKeeps ==
  ASSUME IInv, HelperCaptures
  PROVE  IInv'
<1>0. /\ CountInv' /\ held \in Inodes /\ hpc = "stream" /\ hpc' = "stream"
      /\ held' = held
  BY DriverUnchanged DEF HelperCaptures, IInv, SizeInv, helper
<1>1. word' \in [Inodes -> [Words -> Values]]
  BY <1>0 DEF HelperCaptures, IInv, TypeOK, Words, Values
<1>2. \A j \in Inodes, x \in Words :
        word'[j][x] = IF j = held /\ x = "body" THEN "good" ELSE word[j][x]
  BY <1>0 DEF HelperCaptures, IInv, TypeOK, Words
<1>3. \A j \in Inodes : /\ word'[j].magic = word[j].magic
                        /\ word'[j].version = word[j].version
                        /\ word'[j].geometry = word[j].geometry
                        /\ word'[j].target = word[j].target
                        /\ word'[j].body \in {"good", word[j].body}
  BY <1>2 DEF Words
<1>4. ValidIsInitialised'
  BY <1>3 DEF IInv, InitInv, ValidIsInitialised, Valid
<1>5. TypeOK'
  BY <1>1 DEF IInv, TypeOK, HelperCaptures, helper, ctl, driver
<1>6. SizeInv'
  BY <1>0, StoreKeepsSize DEF HelperCaptures, helper
<1> QED  BY <1>0, <1>4, <1>5, <1>6 DEF IInv, InitInv

LEMMA UnlinkedKeeps ==
  ASSUME IInv, Unlinked
  PROVE  IInv'
<1>1. TypeOK'
  BY DEF IInv, TypeOK, Unlinked, helper, ctl, driver
<1>2. CountInv'
  BY DriverUnchanged DEF Unlinked
<1>3. SizeInv'
  BY DEF IInv, SizeInv, MappingsFit, Unlinked, helper, ctl, driver
<1>4. InitInv'
  BY DEF IInv, InitInv, ValidIsInitialised, Valid, Unlinked, helper
<1> QED  BY <1>1, <1>2, <1>3, <1>4 DEF IInv

-----------------------------------------------------------------------------
(* ctl's and the driver's steps.                                           *)

LEMMA CtlKeeps ==
  ASSUME IInv, NEW k \in Ctls, CtlStep(k)
  PROVE  IInv'
<1>0. CountInv' /\ UNCHANGED <<path, size, helper, driver>>
  BY DriverUnchanged
  DEF CtlStep, CtlOpens, CtlValidates, CtlSetsTarget, file
<1>1. CASE CtlOpens(k)
  <2>1. path \in Inodes /\ size[path] = "full"
    BY <1>1 DEF CtlOpens, Openable, IInv, TypeOK
  <2>2. TypeOK'
    BY <1>0, <1>1, <2>1 DEF CtlOpens, IInv, TypeOK, file, helper, driver
  <2>3. SizeInv'
    BY <1>0, <1>1, <2>1
    DEF CtlOpens, IInv, TypeOK, SizeInv, MappingsFit, file, helper, driver
  <2> QED  BY <1>0, <1>1, <2>2, <2>3, FileUnchanged DEF CtlOpens, IInv
<1>2. CASE CtlValidates(k)
  <2>1. TypeOK'
    BY <1>0, <1>2
    DEF CtlValidates, CtlCloses, IInv, TypeOK, file, helper, driver
  <2>2. SizeInv'
    BY <1>0, <1>2
    DEF CtlValidates, CtlCloses, IInv, TypeOK, SizeInv, MappingsFit, file,
        helper, driver
  <2> QED  BY <1>0, <1>2, <2>1, <2>2, FileUnchanged DEF CtlValidates, IInv
<1>3. CASE CtlSetsTarget(k)
  <2>1. ctlInode[k] \in Inodes
    BY <1>3 DEF CtlSetsTarget, IInv, SizeInv
  <2>2. /\ word' \in [Inodes -> [Words -> Values]]
        /\ ValidIsInitialised'
        /\ \A j \in Inodes : /\ Valid(j)' <=> Valid(j)
                             /\ word'[j].magic = word[j].magic
                             /\ word'[j].body = word[j].body
                             /\ word'[j].target \in {"good", word[j].target}
    BY <1>3, <2>1, TargetStored DEF CtlSetsTarget
  <2>3. TypeOK'
    BY <1>0, <1>3, <2>2
    DEF CtlSetsTarget, CtlCloses, IInv, TypeOK, helper, driver
  <2>4. SizeInv'
    BY <1>0, <1>3
    DEF CtlSetsTarget, CtlCloses, IInv, TypeOK, SizeInv, MappingsFit, helper,
        driver
  <2>5. hpc \in {"zero", "init"} => held \in Inodes
    BY DEF IInv, SizeInv
  <2>6. hpc = "zero" => ~Valid(held)'
    BY <1>0, <2>2, <2>5 DEF IInv, InitInv, helper
  <2>7. UNCHANGED <<hpc, held, unzeroed, step>>
    BY <1>0 DEF helper
  <2>8. InitInv'
    BY <2>2, <2>5, <2>6, <2>7 DEF IInv, InitInv
  <2> QED  BY <1>0, <2>3, <2>4, <2>8 DEF IInv
<1> QED  BY <1>1, <1>2, <1>3 DEF CtlStep

LEMMA RefreshKeeps ==
  ASSUME IInv, NEW c \in Clients, RefreshBegins(c) \/ RefreshStep(c)
  PROVE  IInv'
<1>0. UNCHANGED <<file, helper, ctl, gRunning, ioing>>
  BY DEF RefreshBegins, RefreshStep, RefreshOpens, RefreshMaps,
         RefreshValidates, RefreshUnmaps, RefreshClears
<1>1. dpc' \in [Clients -> {"idle", "deref"} \cup Refreshing]
      /\ dpc'[c] # "deref" /\ \A d \in Clients : d # c => dpc'[d] = dpc[d]
  BY DEF RefreshBegins, RefreshStep, RefreshOpens, RefreshMaps,
         RefreshValidates, RefreshUnmaps, RefreshClears, Refreshing, IInv, TypeOK
<1>2. CountInv'
  <2>1. \A d \in Clients : dpc'[d] = "deref" => dpc[d] = "deref"
    BY <1>1
  <2> QED  BY <1>0, <2>1, CountKept DEF IInv
<1>3. InitInv'
  BY <1>0, FileUnchanged
<1>4. CASE RefreshOpens(c)
  <2>1. \/ fdInode' = [fdInode EXCEPT ![c] = path] /\ Openable(path)
           /\ dpc' = [dpc EXCEPT ![c] = "map"]
        \/ fdInode' = fdInode /\ dpc' = [dpc EXCEPT ![c] = "idle"]
    BY <1>4 DEF RefreshOpens
  <2>2. TypeOK'
    BY <1>0, <1>1, <1>4, <2>1
    DEF RefreshOpens, IInv, TypeOK, file, helper, ctl
  <2>3. \A d \in Clients : dpc'[d] = "map" =>
          fdInode'[d] \in Inodes /\ size[fdInode'[d]] = "full"
    BY <2>1 DEF Openable, IInv, TypeOK, SizeInv
  <2>4. SizeInv'
    BY <1>0, <1>4, <2>3
    DEF RefreshOpens, IInv, SizeInv, MappingsFit, file, helper, ctl
  <2> QED  BY <1>2, <1>3, <2>2, <2>4 DEF IInv
<1>5. CASE RefreshMaps(c)
  <2>1. PICK m \in 1 .. MaxMaps :
          /\ m \notin live
          /\ header' = m
          /\ mapOf' = [mapOf EXCEPT ![m] = fdInode[c]]
          /\ live' = live \cup {m}
    BY <1>5 DEF RefreshMaps
  <2>2. fdInode[c] \in Inodes /\ size[fdInode[c]] = "full"
    BY <1>5 DEF RefreshMaps, IInv, SizeInv
  <2>3. /\ header' \in 0 .. MaxMaps /\ live' \subseteq 1 .. MaxMaps
        /\ mapOf' \in [1 .. MaxMaps -> Inodes \cup {None}]
        /\ fdInode' \in [Clients -> Inodes \cup {None}]
    BY <1>5, <2>1, <2>2, ParametersAssumption DEF RefreshMaps, IInv, TypeOK
  <2>4. TypeOK'
    BY <1>0, <1>1, <1>5, <2>3 DEF RefreshMaps, IInv, TypeOK, file, helper, ctl
  <2>5. \A n \in live' : mapOf'[n] \in Inodes /\ size[mapOf'[n]] = "full"
    BY <2>1, <2>2 DEF IInv, TypeOK, SizeInv, MappingsFit
  <2>6. \A d \in Clients : dpc'[d] = "map" => fdInode'[d] = fdInode[d] /\ dpc[d] = "map"
    BY <1>5 DEF RefreshMaps, IInv, TypeOK
  <2>7. SizeInv'
    BY <1>0, <2>5, <2>6 DEF IInv, SizeInv, MappingsFit, file, helper, ctl
  <2> QED  BY <1>2, <1>3, <2>4, <2>7 DEF IInv
<1>6. CASE \/ RefreshBegins(c) \/ RefreshValidates(c) \/ RefreshUnmaps(c)
           \/ RefreshClears(c)
  <2>1. /\ header' \in {0, header} /\ live' \subseteq live
        /\ UNCHANGED <<ptr, mapOf, fdInode>>
    BY <1>6 DEF RefreshBegins, RefreshValidates, RefreshUnmaps, RefreshClears
  <2>2. header' \in 0 .. MaxMaps /\ live' \subseteq 1 .. MaxMaps
    BY <2>1, ParametersAssumption DEF IInv, TypeOK
  <2>3. TypeOK'
    BY <1>0, <1>1, <2>1, <2>2 DEF IInv, TypeOK, file, helper, ctl
  <2>4. \A d \in Clients : dpc'[d] = "map" => dpc[d] = "map"
    BY <1>6
    DEF RefreshBegins, RefreshValidates, RefreshUnmaps, RefreshClears, IInv,
        TypeOK
  <2>5. SizeInv'
    BY <1>0, <2>1, <2>4 DEF IInv, SizeInv, MappingsFit, file, helper, ctl
  <2> QED  BY <1>2, <1>3, <2>3, <2>5 DEF IInv
<1> QED  BY <1>4, <1>5, <1>6 DEF RefreshStep

LEMMA IOKeeps ==
  ASSUME IInv, NEW c \in Clients,
         StartIO(c) \/ StopIO(c) \/ ReadBegins(c) \/ AccessEnds(c)
  PROVE  IInv'
<1>0. UNCHANGED <<file, helper, ctl, header, live, mapOf, fdInode>>
  BY DEF StartIO, StopIO, ReadBegins, AccessEnds
<1>1. InitInv'
  BY <1>0, FileUnchanged
<1>2. /\ dpc' \in [Clients -> {"idle", "deref"} \cup Refreshing]
      /\ ptr' \in [Clients -> 0 .. MaxMaps]
  <2>1. /\ dpc \in [Clients -> {"idle", "deref"} \cup Refreshing]
        /\ ptr \in [Clients -> 0 .. MaxMaps] /\ header \in 0 .. MaxMaps
        /\ 0 \in 0 .. MaxMaps
    BY ParametersAssumption DEF IInv, TypeOK
  <2>2. \/ UNCHANGED <<dpc, ptr>>
        \/ /\ ptr' = [ptr EXCEPT ![c] = header]
           /\ dpc' = [dpc EXCEPT ![c] = "deref"]
        \/ /\ ptr' = [ptr EXCEPT ![c] = 0]
           /\ dpc' = [dpc EXCEPT ![c] = "idle"]
    BY DEF StartIO, StopIO, ReadBegins, AccessEnds
  <2> QED  BY <2>1, <2>2
<1>3. ioing' \in [Clients -> BOOLEAN]
  <2>1. ioing \in [Clients -> BOOLEAN]
    BY DEF IInv, TypeOK
  <2>2. \/ ioing' = ioing \/ ioing' = [ioing EXCEPT ![c] = TRUE]
        \/ ioing' = [ioing EXCEPT ![c] = FALSE]
    BY Zenon DEF StartIO, StopIO, ReadBegins, AccessEnds
  <2> QED  BY <2>1, <2>2
<1>4. gRunning' = Cardinality(Running')
  <2>1. CASE StartIO(c)
    <3>1. Running' = Running \cup {c} /\ c \notin Running
      BY <2>1 DEF StartIO, Running, IInv, TypeOK
    <3> QED
      BY <2>1, <3>1, RunningIsFinite, FS_AddElement
      DEF StartIO, IInv, CountInv
  <2>2. CASE StopIO(c)
    <3>1. Running' = Running \ {c} /\ c \in Running
      BY <2>2 DEF StopIO, Running, IInv, TypeOK
    <3> QED
      BY <2>2, <3>1, RunningIsFinite, FS_RemoveElement DEF StopIO, IInv, CountInv
  <2>3. CASE UNCHANGED <<gRunning, ioing>>
    BY <2>3 DEF IInv, CountInv, Running
  <2> QED  BY <2>1, <2>2, <2>3 DEF ReadBegins, AccessEnds
<1>5. \A d \in Clients : dpc'[d] = "deref" => ioing'[d]
  BY DEF StartIO, StopIO, ReadBegins, AccessEnds, IInv, TypeOK, CountInv
<1>6. gRunning' \in 0 .. Cardinality(Clients)
  <2>1. Running' \subseteq Clients /\ IsFiniteSet(Clients)
    BY ParametersAssumption DEF Running
  <2>2. /\ Cardinality(Running') <= Cardinality(Clients)
        /\ Cardinality(Running') \in Nat /\ Cardinality(Clients) \in Nat
    BY <2>1, FS_Subset, FS_CardinalityType
  <2> QED  BY <1>4, <2>2
<1>7. TypeOK'
  BY <1>0, <1>2, <1>3, <1>6 DEF IInv, TypeOK, file, helper, ctl
<1>8. \A d \in Clients : dpc'[d] = "map" => dpc[d] = "map"
  BY DEF StartIO, StopIO, ReadBegins, AccessEnds, IInv, TypeOK
<1>9. SizeInv'
  BY <1>0, <1>8 DEF IInv, SizeInv, MappingsFit, file, helper, ctl
<1> QED  BY <1>1, <1>4, <1>5, <1>7, <1>9 DEF IInv, CountInv

LEMMA NextIInv == IInv /\ [Next]_vars => IInv'
<1> SUFFICES ASSUME IInv, [Next]_vars  PROVE IInv'
  OBVIOUS
<1>1. CASE HelperStep \/ HelperEvent
  BY <1>1, StartsKeeps, OpensKeeps, TruncatesKeeps, MapsKeeps, ZeroesKeeps,
     InitialisesKeeps, SetsTargetKeeps, AttachesKeeps, CapturesKeeps
  DEF HelperStep, HelperEvent
<1>2. CASE Unlinked
  BY <1>2, UnlinkedKeeps
<1>3. CASE \E k \in Ctls : CtlStep(k)
  BY <1>3, CtlKeeps
<1>4. CASE \E c \in Clients : HostCall(c) \/ RefreshStep(c) \/ AccessEnds(c)
  BY <1>4, RefreshKeeps, IOKeeps DEF HostCall
<1>5. CASE UNCHANGED vars
  <2>1. TypeOK' /\ SizeInv'
    BY <1>5 DEF vars, file, helper, ctl, driver, IInv, TypeOK, SizeInv, MappingsFit
  <2> QED
    BY <1>5, <2>1, DriverUnchanged, FileUnchanged DEF vars, IInv
<1> QED  BY <1>1, <1>2, <1>3, <1>4, <1>5 DEF Next

-----------------------------------------------------------------------------
(* The driver's mapping, when the host runs one AddDeviceClient at a time. *)

RefreshInv ==
  /\ \A c \in Clients : dpc[c] \in Refreshing =>
       gRunning = 0 /\ \A d \in Clients : d # c => dpc[d] \notin Refreshing
  /\ NoOneRefreshes =>
       \/ header = 0 /\ live = {}
       \/ header # 0 /\ live = {header} /\ Valid(Inode(header))
  /\ \A c \in Clients : dpc[c] \in {"open", "map"} => header = 0 /\ live = {}
  /\ \A c \in Clients : dpc[c] \in {"validate", "unmap"} =>
       header # 0 /\ live = {header}
  /\ \A c \in Clients : dpc[c] = "clear" => live = {}
  /\ \A c \in Clients : dpc[c] = "deref" => header # 0 /\ ptr[c] = header

FullInv == IInv /\ RefreshInv

\* A header that is accepted is not touched again but for its latency and its
\* samples.
LEMMA ValidIsStable ==
  ASSUME IInv, HelperStep \/ HelperEvent \/ Unlinked \/ \E k \in Ctls : CtlStep(k),
         NEW i \in Inodes, size[i] = "full", Valid(i)
  PROVE  Valid(i)'
<1>1. CASE UNCHANGED word
  BY <1>1 DEF Valid
<1>2. CASE HelperOpens
  BY <1>2 DEF HelperOpens, IInv, TypeOK, Valid, file
<1>3. CASE HelperZeroes
  <2>1. held # i /\ held \in Inodes
    BY <1>3 DEF HelperZeroes, IInv, InitInv, SizeInv
  <2> QED  BY <1>3, <2>1 DEF HelperZeroes, IInv, TypeOK, Valid
<1>4. CASE HelperInitialises
  <2>1. held # i /\ held \in Inodes
    BY <1>4 DEF HelperInitialises, IInv, InitInv, SizeInv, Valid
  <2> QED  BY <1>4, <2>1 DEF HelperInitialises, IInv, TypeOK, Valid
<1>5. CASE HelperSetsTarget
  BY <1>5, TargetStored DEF HelperSetsTarget, IInv, SizeInv
<1>6. CASE HelperCaptures
  BY <1>6 DEF HelperCaptures, IInv, TypeOK, Valid, Words
<1>7. ASSUME NEW k \in Ctls, CtlSetsTarget(k)  PROVE Valid(i)'
  BY <1>7, TargetStored DEF CtlSetsTarget, IInv, SizeInv
<1> QED
  BY <1>1, <1>2, <1>3, <1>4, <1>5, <1>6, <1>7
  DEF HelperStep, HelperEvent, CtlStep, HelperTruncates, HelperMaps,
      HelperAttaches, HelperStarts, HelperReconnects, HelperDies, Unlinked,
      CtlOpens, CtlValidates, file

LEMMA OthersKeepRefresh ==
  ASSUME FullInv, HelperStep \/ HelperEvent \/ Unlinked \/ \E k \in Ctls : CtlStep(k)
  PROVE  RefreshInv'
<1>1. UNCHANGED driver
  BY DEF HelperStep, HelperEvent, Unlinked, CtlStep, HelperOpens,
         HelperTruncates, HelperMaps, HelperZeroes, HelperInitialises,
         HelperSetsTarget, HelperAttaches, HelperStarts, HelperCaptures,
         HelperReconnects, HelperDies, CtlOpens, CtlValidates, CtlSetsTarget
<1>2. ASSUME header # 0, live = {header}, Valid(Inode(header))
      PROVE  Valid(Inode(header))'
  <2>1. Inode(header) \in Inodes /\ size[Inode(header)] = "full"
    BY <1>2 DEF FullInv, IInv, SizeInv, MappingsFit, Inode
  <2>2. Valid(mapOf[header])'
    <3> DEFINE i == mapOf[header]
    <3>1. i \in Inodes /\ size[i] = "full" /\ Valid(i)
      BY <1>2, <2>1 DEF Inode
    <3>2. i' = i
      BY <1>1 DEF driver
    <3> HIDE DEF i
    <3>3. i \in Inodes => word'[i].magic = "good" /\ word'[i].version = "good"
                          /\ word'[i].geometry = "good"
      BY <3>1, ValidIsStable DEF FullInv, Valid
    <3>4. Valid(i)'
      BY <3>1, <3>2, <3>3 DEF Valid
    <3> QED  BY <3>4 DEF i
  <2> QED  BY <2>2 DEF Inode
<1>3. NoOneRefreshes' <=> NoOneRefreshes
  BY <1>1 DEF NoOneRefreshes, driver
<1> QED  BY <1>1, <1>2, <1>3 DEF FullInv, RefreshInv, driver

LEMMA RefreshKeepsRefresh ==
  ASSUME HostSerializes, FullInv, NEW c \in Clients,
         RefreshBegins(c) \/ RefreshStep(c)
  PROVE  RefreshInv'
<1>0. /\ UNCHANGED <<file, gRunning, ioing, ptr>> /\ gRunning = 0
      /\ \A d \in Clients : d # c => dpc[d] = "idle"
  <2>1. gRunning = 0 /\ \A d \in Clients : d # c => dpc[d] \notin Refreshing
    BY DEF RefreshBegins, RefreshStep, RefreshOpens, RefreshMaps,
           RefreshValidates, RefreshUnmaps, RefreshClears, Refreshing, FullInv,
           RefreshInv, HostAdmits, NoOneRefreshes
  <2>2. \A d \in Clients : dpc[d] # "deref"
    BY <2>1, NoneRunning DEF FullInv, IInv, CountInv
  <2>3. UNCHANGED <<file, gRunning, ioing, ptr>>
    BY DEF RefreshBegins, RefreshStep, RefreshOpens, RefreshMaps,
           RefreshValidates, RefreshUnmaps, RefreshClears
  <2> QED  BY <2>1, <2>2, <2>3 DEF FullInv, IInv, TypeOK
<1>1. dpc[c] # "deref"
  BY DEF RefreshBegins, RefreshStep, RefreshOpens, RefreshMaps,
         RefreshValidates, RefreshUnmaps, RefreshClears
<1>2. \A d \in Clients : d # c => dpc'[d] = "idle"
  BY <1>0
  DEF RefreshBegins, RefreshStep, RefreshOpens, RefreshMaps,
      RefreshValidates, RefreshUnmaps, RefreshClears, FullInv, IInv, TypeOK
<1>3. dpc \in [Clients -> {"idle", "deref"} \cup Refreshing]
  BY DEF FullInv, IInv, TypeOK
<1>4. CASE RefreshBegins(c)
  <2>1. header = 0 /\ live = {} /\ header' = header /\ live' = live
    BY <1>0, <1>4
    DEF RefreshBegins, FullInv, RefreshInv, DriverRingValid, NoOneRefreshes,
        Refreshing
  <2>2. dpc'[c] = "open"
    BY <1>3, <1>4 DEF RefreshBegins
  <2> QED
    BY <1>0, <1>2, <2>1, <2>2 DEF RefreshInv, NoOneRefreshes, Refreshing
<1>5. CASE RefreshOpens(c)
  <2>1. header = 0 /\ live = {} /\ header' = header /\ live' = live
    BY <1>5 DEF RefreshOpens, FullInv, RefreshInv
  <2>2. dpc'[c] \in {"map", "idle"}
    BY <1>3, <1>5 DEF RefreshOpens
  <2> QED
    BY <1>0, <1>2, <2>1, <2>2 DEF RefreshInv, NoOneRefreshes, Refreshing
<1>6. CASE RefreshMaps(c)
  <2>1. header' # 0 /\ live' = {header'}
    BY <1>6 DEF RefreshMaps, FullInv, RefreshInv
  <2>2. dpc'[c] = "validate"
    BY <1>3, <1>6 DEF RefreshMaps
  <2> QED
    BY <1>0, <1>2, <2>1, <2>2 DEF RefreshInv, NoOneRefreshes, Refreshing
<1>7. CASE RefreshValidates(c)
  <2>1. /\ header # 0 /\ live = {header}
        /\ UNCHANGED <<header, live, mapOf>>
    BY <1>7 DEF RefreshValidates, FullInv, RefreshInv
  <2>2. CASE DriverRingValid
    <3>1. dpc'[c] = "idle"
      BY <1>3, <1>7, <2>2 DEF RefreshValidates
    <3>2. Valid(Inode(header))'
      BY <1>0, <2>1, <2>2 DEF DriverRingValid, Valid, Inode, file
    <3> QED
      BY <1>0, <1>2, <2>1, <3>1, <3>2 DEF RefreshInv, Refreshing
  <2>3. CASE ~DriverRingValid
    <3>1. dpc'[c] = "unmap"
      BY <1>3, <1>7, <2>3 DEF RefreshValidates
    <3> QED
      BY <1>0, <1>2, <2>1, <3>1 DEF RefreshInv, NoOneRefreshes, Refreshing
  <2> QED  BY <2>2, <2>3
<1>8. CASE RefreshUnmaps(c)
  <2>1. live' = {}
    BY <1>8 DEF RefreshUnmaps, FullInv, RefreshInv
  <2>2. dpc'[c] = "clear"
    BY <1>3, <1>8 DEF RefreshUnmaps
  <2> QED
    BY <1>0, <1>2, <2>1, <2>2 DEF RefreshInv, NoOneRefreshes, Refreshing
<1>9. CASE RefreshClears(c)
  <2>1. header' = 0 /\ live' = {}
    BY <1>9 DEF RefreshClears, FullInv, RefreshInv
  <2>2. dpc'[c] = "idle"
    BY <1>3, <1>9 DEF RefreshClears
  <2> QED
    BY <1>0, <1>2, <2>1, <2>2 DEF RefreshInv, NoOneRefreshes, Refreshing
<1> QED  BY <1>4, <1>5, <1>6, <1>7, <1>8, <1>9 DEF RefreshStep

LEMMA IOKeepsRefresh ==
  ASSUME HostSerializes, FullInv, NEW c \in Clients,
         StartIO(c) \/ StopIO(c) \/ ReadBegins(c) \/ AccessEnds(c)
  PROVE  RefreshInv'
<1>0. NoOneRefreshes /\ UNCHANGED <<file, header, live, mapOf>>
  <2>1. CASE StartIO(c)
    BY <2>1 DEF StartIO, HostAdmits
  <2>2. CASE StopIO(c) \/ ReadBegins(c) \/ AccessEnds(c)
    <3>1. ioing[c]
      BY <2>2 DEF StopIO, ReadBegins, AccessEnds, FullInv, IInv, CountInv
    <3>2. gRunning # 0
      BY <3>1, NoneRunning DEF FullInv, IInv
    <3> QED
      BY <2>2, <3>2
      DEF StopIO, ReadBegins, AccessEnds, NoOneRefreshes, FullInv, RefreshInv
  <2> QED  BY <2>1, <2>2 DEF StartIO
<1>1. \A d \in Clients : dpc'[d] \in {dpc[d], "idle", "deref"}
  BY DEF StartIO, StopIO, ReadBegins, AccessEnds, FullInv, IInv, TypeOK
<1>2. \A d \in Clients : dpc'[d] \notin Refreshing
  BY <1>0, <1>1 DEF NoOneRefreshes, Refreshing
<1>3. \A d \in Clients : dpc'[d] = "deref" => header # 0 /\ ptr'[d] = header
  BY <1>1
  DEF StartIO, StopIO, ReadBegins, AccessEnds, FullInv, IInv, TypeOK, RefreshInv
<1>4. Valid(Inode(header)) => Valid(Inode(header))'
  BY <1>0 DEF Valid, Inode, file
<1> QED
  BY <1>0, <1>2, <1>3, <1>4 DEF FullInv, RefreshInv, Refreshing

LEMMA NextFullInv ==
  ASSUME HostSerializes
  PROVE  FullInv /\ [Next]_vars => FullInv'
<1> SUFFICES ASSUME FullInv, [Next]_vars  PROVE RefreshInv'
  BY NextIInv DEF FullInv
<1>1. CASE \/ HelperStep \/ HelperEvent \/ Unlinked
           \/ \E k \in Ctls : CtlStep(k)
  BY <1>1, OthersKeepRefresh
<1>2. CASE \E c \in Clients : HostCall(c) \/ RefreshStep(c) \/ AccessEnds(c)
  BY <1>2, RefreshKeepsRefresh, IOKeepsRefresh DEF HostCall
<1>3. CASE UNCHANGED vars
  BY <1>3
  DEF vars, file, driver, FullInv, RefreshInv, NoOneRefreshes, Valid, Inode
<1> QED  BY <1>1, <1>2, <1>3 DEF Next

LEMMA InitFullInv == Init => FullInv
<1>1. Init => RefreshInv
  BY DEF Init, RefreshInv, Refreshing
<1> QED  BY <1>1, InitIInv DEF FullInv

-----------------------------------------------------------------------------
\* The files, the helper, ctl and the driver have their types.
THEOREM TypeCorrect == Spec => []TypeOK
<1>1. IInv => TypeOK
  BY DEF IInv
<1> QED  BY <1>1, InitIInv, NextIInv, PTL DEF Spec

\* valid() accepts a header only after the last of the helper's stores,
\* wherever the helper was stopped before and whatever it found.
THEOREM AcceptedIsInitialised == Spec => []ValidIsInitialised
<1>1. IInv => ValidIsInitialised
  BY DEF IInv, InitInv
<1> QED  BY <1>1, InitIInv, NextIInv, PTL DEF Spec

\* What is mapped is there to its end.
THEOREM MappingsStayWhole == Spec => []MappingsFit
<1>1. IInv => MappingsFit
  BY DEF IInv, SizeInv
<1> QED  BY <1>1, InitIInv, NextIInv, PTL DEF Spec

\* The driver touches only what it has mapped.
THEOREM MappedWhenUsed == HostSerializes => (Spec => []NoUseAfterUnmap)
<1> SUFFICES ASSUME HostSerializes  PROVE Spec => []NoUseAfterUnmap
  OBVIOUS
<1>1. FullInv => NoUseAfterUnmap
  <2> SUFFICES ASSUME FullInv  PROVE NoUseAfterUnmap
    OBVIOUS
  <2>1. ASSUME NEW c \in Clients, dpc[c] = "deref"
        PROVE  ptr[c] \in live
    <3>1. ioing[c]
      BY <2>1 DEF FullInv, IInv, CountInv
    <3>2. NoOneRefreshes
      BY <3>1, NoneRunning DEF FullInv, IInv, RefreshInv, NoOneRefreshes
    <3> QED  BY <2>1, <3>2 DEF FullInv, RefreshInv
  <2> QED  BY <2>1 DEF NoUseAfterUnmap, FullInv, RefreshInv
<1> QED  BY <1>1, InitFullInv, NextFullInv, PTL DEF Spec

\* The driver never has two mappings: none is lost to it.
THEOREM OneMappingOnly == HostSerializes => (Spec => []OneMapping)
<1> SUFFICES ASSUME HostSerializes  PROVE Spec => []OneMapping
  OBVIOUS
<1>1. FullInv => OneMapping
  <2> SUFFICES ASSUME FullInv  PROVE Cardinality(live) <= 1
    BY DEF OneMapping
  <2>1. live = {} \/ live = {header}
    BY DEF FullInv, RefreshInv, NoOneRefreshes, Refreshing
  <2>2. Cardinality({}) = 0 /\ Cardinality({header}) = 1
    BY FS_EmptySet, FS_Singleton
  <2> QED  BY <2>1, <2>2
<1> QED  BY <1>1, InitFullInv, NextFullInv, PTL DEF Spec

\* Nobody's ring is exchanged while it is read.
THEOREM RingIsStable == HostSerializes => (Spec => RingStableInIO)
<1> SUFFICES ASSUME HostSerializes  PROVE Spec => RingStableInIO
  OBVIOUS
<1>1. FullInv /\ [Next]_vars =>
        [gRunning > 0 /\ gRunning' > 0 => header' = header]_vars
  <2> SUFFICES ASSUME FullInv, [Next]_vars, gRunning > 0
               PROVE  header' = header
    OBVIOUS
  <2>1. \A c \in Clients : ~RefreshStep(c) /\ ~RefreshBegins(c)
    BY DEF FullInv, RefreshInv, RefreshStep, RefreshBegins, RefreshOpens,
           RefreshMaps, RefreshValidates, RefreshUnmaps, RefreshClears,
           Refreshing
  <2> QED
    BY <2>1
    DEF Next, vars, driver, HelperStep, HelperEvent, Unlinked, CtlStep,
        HelperOpens, HelperTruncates, HelperMaps, HelperZeroes,
        HelperInitialises, HelperSetsTarget, HelperAttaches, HelperStarts,
        HelperCaptures, HelperReconnects, HelperDies, CtlOpens, CtlValidates,
        CtlSetsTarget, HostCall, StartIO, StopIO, ReadBegins, AccessEnds
<1> QED
  BY <1>1, InitFullInv, NextFullInv, PTL DEF Spec, RingStableInIO

-----------------------------------------------------------------------------
(* The refinement.                                                         *)

DriverRing == IF header # 0 /\ NoOneRefreshes THEN Inode(header) ELSE None

Accessed == [c \in Clients |-> IF dpc[c] = "deref" THEN Inode(ptr[c]) ELSE None]

supply == <<FitRings, DriverRing, ioing, Accessed>>

\* The variables of the supply, as this module names them.
LEMMA SupplyVars ==
  /\ UNCHANGED supply => UNCHANGED <<FitRings, DriverRing, Supply!io>>
  /\ UNCHANGED <<ioing, Accessed>> => UNCHANGED Supply!io
BY DEF supply, Supply!io, DriverRing, Accessed

LEMMA InitSupply == Init => Supply!SupplyInit
<1> SUFFICES ASSUME Init  PROVE Supply!SupplyInit
  OBVIOUS
<1>1. \A i \in Inodes : size[i] # "unused" => word[i] \in Foreign
  BY DEF Init
<1>2. \A f \in Foreign : f.version = "stale"
  BY DEF Foreign, Good, Blank, Words
<1>3. FitRings = {}
  BY <1>1, <1>2 DEF FitRings, Valid
<1>4. header = 0 /\ \A c \in Clients : dpc[c] = "idle" /\ ~ioing[c]
  BY DEF Init
<1>5. ioing = [c \in Clients |-> FALSE]
  BY DEF Init
<1> QED  BY <1>3, <1>4, <1>5 DEF Supply!SupplyInit

\* The helper, ctl and an unlink may make one more ring fit, and no less.
LEMMA OthersSupply ==
  ASSUME FullInv, HelperStep \/ HelperEvent \/ Unlinked \/ \E k \in Ctls : CtlStep(k)
  PROVE  [Supply!SupplyNext]_<<FitRings, DriverRing, Supply!io>>
<1>1. UNCHANGED driver
  BY DEF HelperStep, HelperEvent, Unlinked, CtlStep, HelperOpens,
         HelperTruncates, HelperMaps, HelperZeroes, HelperInitialises,
         HelperSetsTarget, HelperAttaches, HelperStarts, HelperCaptures,
         HelperReconnects, HelperDies, CtlOpens, CtlValidates, CtlSetsTarget
<1>2. UNCHANGED <<DriverRing, ioing, Accessed>>
  BY <1>1 DEF driver, DriverRing, Accessed, Inode, NoOneRefreshes
<1>3. FitRings \subseteq FitRings'
  <2> SUFFICES ASSUME NEW i \in Inodes, size[i] = "full", Valid(i)
               PROVE  size'[i] = "full" /\ Valid(i)'
    BY DEF FitRings, Valid
  <2>1. size'[i] = "full"
    BY DEF FullInv, IInv, TypeOK, HelperStep, HelperEvent, Unlinked, CtlStep,
           HelperOpens, HelperTruncates, HelperMaps, HelperZeroes,
           HelperInitialises, HelperSetsTarget, HelperAttaches, HelperStarts,
           HelperCaptures, HelperReconnects, HelperDies, CtlOpens, CtlValidates,
           CtlSetsTarget, file
  <2>2. Valid(i)'
    BY ValidIsStable DEF FullInv
  <2> QED  BY <2>1, <2>2
<1>4. \E j \in Inodes \cup {None} : FitRings' \subseteq FitRings \cup {j}
  <2>1. CASE UNCHANGED <<size, word>>
    BY <2>1 DEF FitRings, Valid
  <2>2. CASE HelperOpens
    <3>1. CASE UNCHANGED file
      BY <2>1, <3>1 DEF file
    <3>2. ASSUME NEW i \in Inodes,
                 size' = [size EXCEPT ![i] = "other"],
                 word' = [word EXCEPT ![i] = [w \in Words |-> "zero"]]
          PROVE  FitRings' \subseteq FitRings
      <4>1. /\ size'[i] = "other"
            /\ \A j \in Inodes : j # i => size'[j] = size[j] /\ word'[j] = word[j]
        BY <3>2 DEF FullInv, IInv, TypeOK
      <4> QED  BY <4>1 DEF FitRings, Valid
    <3> QED  BY <2>2, <3>1, <3>2 DEF HelperOpens
  <2>3. CASE HelperTruncates \/ HelperZeroes \/ HelperInitialises
    <3>1. held \in Inodes
      BY <2>3 DEF HelperTruncates, HelperZeroes, HelperInitialises, FullInv,
                  IInv, SizeInv
    <3>2. \A i \in Inodes : i # held =>
            size'[i] = size[i] /\ word'[i] = word[i]
      BY <2>3, <3>1 DEF HelperTruncates, HelperZeroes, HelperInitialises,
                        FullInv, IInv, TypeOK
    <3>3. FitRings' \subseteq FitRings \cup {held}
      BY <3>2 DEF FitRings, Valid
    <3> QED  BY <3>1, <3>3
  <2>4. CASE HelperSetsTarget
    <3>1. held \in Inodes
      BY <2>4 DEF HelperSetsTarget, FullInv, IInv, SizeInv
    <3> QED
      BY <2>4, <3>1 DEF HelperSetsTarget, FitRings, Valid, FullInv, IInv, TypeOK,
                        Words
  <2>5. CASE HelperCaptures
    BY <2>5 DEF HelperCaptures, FitRings, Valid, FullInv, IInv, TypeOK, Words
  <2>6. ASSUME NEW k \in Ctls, CtlSetsTarget(k)
        PROVE  FitRings' \subseteq FitRings
    <3>1. ctlInode[k] \in Inodes
      BY <2>6 DEF CtlSetsTarget, FullInv, IInv, SizeInv
    <3> QED
      BY <2>6, <3>1 DEF CtlSetsTarget, FitRings, Valid, FullInv, IInv, TypeOK,
                        Words
  <2> QED
    BY <2>1, <2>2, <2>3, <2>4, <2>5, <2>6
    DEF HelperStep, HelperEvent, CtlStep, HelperMaps, HelperAttaches,
        HelperStarts, HelperReconnects, HelperDies, Unlinked, CtlOpens,
        CtlValidates, file
<1>5. CASE FitRings' = FitRings
  BY <1>2, <1>5, SupplyVars DEF supply
<1>6. CASE FitRings' # FitRings
  <2>1. PICK j \in Inodes \cup {None} : FitRings' \subseteq FitRings \cup {j}
    BY <1>4
  <2>2. FitRings' = FitRings \cup {j} /\ j \in Inodes
    BY <1>3, <1>6, <2>1 DEF FitRings
  <2>3. Supply!Publish
    BY <1>2, <1>6, <2>2, SupplyVars DEF Supply!Publish, DriverRing
  <2> QED  BY <2>3 DEF Supply!SupplyNext
<1> QED  BY <1>5, <1>6

\* Of a refresh only the end shows: the ring that it leaves mapped.
LEMMA RefreshSupply ==
  ASSUME HostSerializes, FullInv, FullInv', NEW c \in Clients,
         RefreshBegins(c) \/ RefreshStep(c)
  PROVE  [Supply!SupplyNext]_<<FitRings, DriverRing, Supply!io>>
<1>0. /\ UNCHANGED <<file, gRunning, ioing, ptr>> /\ gRunning = 0
      /\ \A d \in Clients : d # c => dpc[d] \notin Refreshing
  BY DEF RefreshBegins, RefreshStep, RefreshOpens, RefreshMaps,
         RefreshValidates, RefreshUnmaps, RefreshClears, Refreshing, FullInv,
         RefreshInv, HostAdmits, NoOneRefreshes
<1>1. \A d \in Clients : ~ioing[d] /\ dpc[d] # "deref" /\ dpc'[d] # "deref"
  <2>1. \A d \in Clients : ~ioing[d]
    BY <1>0, NoneRunning DEF FullInv, IInv
  <2> QED  BY <1>0, <2>1 DEF FullInv, IInv, CountInv
<1>2. UNCHANGED <<FitRings, ioing, Accessed>>
  BY <1>0, <1>1 DEF FitRings, Valid, file, Accessed
<1>3. DriverRing = None
  <2>1. CASE RefreshBegins(c)
    BY <2>1 DEF RefreshBegins, FullInv, RefreshInv, DriverRingValid, DriverRing
  <2>2. CASE RefreshStep(c)
    BY <2>2 DEF RefreshStep, RefreshOpens, RefreshMaps, RefreshValidates,
                RefreshUnmaps, RefreshClears, DriverRing, NoOneRefreshes,
                Refreshing
  <2> QED  BY <2>1, <2>2
<1>4. CASE DriverRing' = None
  BY <1>2, <1>3, <1>4, SupplyVars DEF supply
<1>5. CASE DriverRing' # None
  <2>1. /\ header' # 0 /\ NoOneRefreshes' /\ DriverRing' = mapOf'[header']
        /\ live' = {header'} /\ Valid(Inode(header))'
    BY <1>5 DEF DriverRing, FullInv, RefreshInv, Inode
  <2>2. mapOf'[header'] \in Inodes /\ size'[mapOf'[header']] = "full"
    BY <2>1 DEF FullInv, IInv, SizeInv, MappingsFit
  <2>3. DriverRing' \in FitRings'
    BY <2>1, <2>2 DEF FitRings, Valid, Inode
  <2>4. Supply!Take
    BY <1>1, <1>2, <1>3, <1>5, <2>3, SupplyVars
    DEF Supply!Take, DriverRing
  <2> QED  BY <2>4 DEF Supply!SupplyNext
<1> QED  BY <1>4, <1>5

LEMMA IOSupply ==
  ASSUME HostSerializes, FullInv, FullInv', NEW c \in Clients,
         StartIO(c) \/ StopIO(c) \/ ReadBegins(c) \/ AccessEnds(c)
  PROVE  [Supply!SupplyNext]_<<FitRings, DriverRing, Supply!io>>
<1>0. NoOneRefreshes /\ NoOneRefreshes' /\ UNCHANGED <<file, header, live, mapOf>>
  <2>1. CASE StartIO(c)
    BY <2>1 DEF StartIO, HostAdmits, NoOneRefreshes, Refreshing, FullInv, IInv,
                TypeOK
  <2>2. CASE StopIO(c) \/ ReadBegins(c) \/ AccessEnds(c)
    <3>1. ioing[c]
      BY <2>2 DEF StopIO, ReadBegins, AccessEnds, FullInv, IInv, CountInv
    <3>2. gRunning # 0
      BY <3>1, NoneRunning DEF FullInv, IInv
    <3>3. NoOneRefreshes
      BY <3>2 DEF NoOneRefreshes, FullInv, RefreshInv
    <3> QED
      BY <2>2, <3>3
      DEF StopIO, ReadBegins, AccessEnds, NoOneRefreshes, Refreshing, FullInv,
          IInv, TypeOK
  <2> QED  BY <2>1, <2>2 DEF StartIO
<1>1. UNCHANGED <<FitRings, DriverRing>>
  BY <1>0 DEF FitRings, Valid, file, DriverRing, Inode
<1>2. /\ dpc \in [Clients -> {"idle", "deref"} \cup Refreshing]
      /\ ptr \in [Clients -> 0 .. MaxMaps] /\ ioing \in [Clients -> BOOLEAN]
      /\ mapOf' = mapOf
  BY <1>0 DEF FullInv, IInv, TypeOK
<1>3. header # 0 => DriverRing = Inode(header) /\ DriverRing # None
  BY <1>0, ParametersAssumption
  DEF DriverRing, FullInv, RefreshInv, IInv, SizeInv, Inode
<1>4. CASE StartIO(c)
  <2>1. ~ioing[c] /\ ioing' = [ioing EXCEPT ![c] = TRUE] /\ dpc[c] = "idle"
    BY <1>4 DEF StartIO
  <2>2. CASE gRunning = 0 /\ header # 0
    <3>1. /\ ptr' = [ptr EXCEPT ![c] = header]
          /\ dpc' = [dpc EXCEPT ![c] = "deref"]
      BY <1>4, <2>2 DEF StartIO
    <3>2. Accessed' = [Accessed EXCEPT ![c] = DriverRing]
      BY <1>2, <1>3, <2>2, <3>1 DEF Accessed, Inode
    <3>3. \A d \in Clients : ~ioing[d]
      BY <2>2, NoneRunning DEF FullInv, IInv
    <3>4. Supply!Enter(c)
      BY <1>1, <1>3, <2>1, <2>2, <3>2, <3>3
      DEF Supply!Enter, Supply!Access, DriverRing, Accessed
    <3> QED  BY <3>4 DEF Supply!SupplyNext
  <2>3. CASE ~(gRunning = 0 /\ header # 0)
    <3>1. UNCHANGED <<ptr, dpc>>
      BY <1>4, <2>3 DEF StartIO
    <3>2. UNCHANGED Accessed
      BY <1>2, <3>1 DEF Accessed, Inode
    <3>3. Supply!Enter(c)
      BY <1>1, <2>1, <3>2 DEF Supply!Enter, DriverRing, Accessed
    <3> QED  BY <3>3 DEF Supply!SupplyNext
  <2> QED  BY <2>2, <2>3
<1>5. CASE StopIO(c)
  <2>1. UNCHANGED Accessed
    BY <1>2, <1>5 DEF StopIO, Accessed, Inode
  <2>2. Supply!Leave(c)
    BY <1>1, <1>5, <2>1 DEF StopIO, Supply!Leave, DriverRing, Accessed
  <2> QED  BY <2>2 DEF Supply!SupplyNext
<1>6. CASE ReadBegins(c)
  <2>1. Accessed' = [Accessed EXCEPT ![c] = DriverRing]
    BY <1>2, <1>3, <1>6 DEF ReadBegins, Accessed, Inode
  <2>2. Supply!Read(c)
    BY <1>1, <1>3, <1>6, <2>1
    DEF ReadBegins, Supply!Read, Supply!Access, DriverRing, Accessed
  <2> QED  BY <2>2 DEF Supply!SupplyNext
<1>7. CASE AccessEnds(c)
  <2>1. Accessed' = [Accessed EXCEPT ![c] = None]
    BY <1>2, <1>7 DEF AccessEnds, Accessed, Inode
  <2>2. Accessed[c] = DriverRing /\ DriverRing # None
    BY <1>3, <1>7 DEF AccessEnds, Accessed, FullInv, RefreshInv
  <2>3. Supply!Done(c)
    BY <1>1, <1>7, <2>1, <2>2 DEF AccessEnds, Supply!Done, DriverRing, Accessed
  <2> QED  BY <2>3 DEF Supply!SupplyNext
<1> QED  BY <1>4, <1>5, <1>6, <1>7

\* Each step of the helper, of ctl, of the host and of the driver is a step of
\* the supply, or does not show: for any number of files, mappings, commands and
\* clients, what a client reads is one ring, which was complete when the driver
\* took it and is not cleared afterwards.
THEOREM RingsAreSupplied == HostSerializes => (Spec => ImplementsSupply)
<1> SUFFICES ASSUME HostSerializes  PROVE Spec => ImplementsSupply
  OBVIOUS
<1>1. ASSUME FullInv, [Next]_vars
      PROVE  [Supply!SupplyNext]_<<FitRings, DriverRing, Supply!io>>
  <2>0. FullInv'
    BY <1>1, NextFullInv
  <2>1. CASE UNCHANGED vars
    BY <2>1, SupplyVars
    DEF vars, file, driver, supply, FitRings, Valid, DriverRing, Accessed,
        NoOneRefreshes, Inode
  <2> QED
    BY <1>1, <2>0, <2>1, OthersSupply, RefreshSupply, IOSupply
    DEF Next, HostCall
<1>2. FullInv /\ [Next]_vars => [Supply!SupplyNext]_<<FitRings,
        IF header # 0 /\ NoOneRefreshes THEN Inode(header) ELSE None, Supply!io>>
  BY <1>1 DEF DriverRing
<1> QED
  BY <1>2, InitFullInv, NextFullInv, InitSupply, PTL
  DEF Spec, ImplementsSupply, Supply!SupplySpec

-----------------------------------------------------------------------------
(* The repair of a ring, which RingComesUp says comes to its end: what is  *)
(* left of it goes down with every step of the helper's loop, and the loop *)
(* goes round again only when somebody has unlinked the file.              *)

StepsToRing ==
  CASE hpc = "open"     -> 16
    [] hpc = "truncate" -> 15
    [] hpc = "map"      -> 14
    [] hpc = "zero"     -> 8 + Cardinality(unzeroed)
    [] hpc = "init"     -> 9 - step
    [] hpc = "set"      -> 2
    [] hpc = "attach"   -> 1
    [] OTHER            -> 0

\* Every step of the helper's loop gets nearer to a ring that it captures into,
\* whatever file it began with and whatever ctl and the driver do meanwhile;
\* only an attach that finds no file at all begins anew.
RepairEnds ==
  [][HelperStep => StepsToRing' < StepsToRing \/ (hpc = "attach" /\ path = None)]_vars

\* The helper's file is the one at the path, and gets to be what valid() wants.
RepairInv ==
  /\ hpc \in {"truncate", "map", "zero", "init", "set"} => path \in {held, None}
  /\ hpc = "init" =>
       /\ step > 2 => word[held].version = "good"
       /\ step > 3 => word[held].geometry = "good"
  /\ hpc = "set" => Valid(held)
  /\ hpc = "attach" /\ path # None => size[path] = "full" /\ Valid(path)

EndInv == IInv /\ RepairInv

LEMMA InitEndInv == Init => EndInv
<1>1. Init => RepairInv
  BY DEF Init, RepairInv
<1> QED  BY <1>1, InitIInv DEF EndInv

LEMMA StoresKeepRepair ==
  ASSUME EndInv, HelperInitialises
  PROVE  RepairInv'
<1> DEFINE w == InitStores[step][1]
           v == InitStores[step][2]
<1>0. held \in Inodes /\ hpc = "init" /\ step \in 1 .. 6 /\ held' = held
      /\ path' = path /\ path \in {held, None}
  BY DEF HelperInitialises, EndInv, IInv, SizeInv, InitInv, RepairInv
<1>1. /\ step = 1 => w = "magic" /\ v = "zero"
      /\ step = 2 => w = "version" /\ v = "good"
      /\ step = 3 => w = "geometry" /\ v = "good"
      /\ step = 4 => w = "target" /\ v = "good"
      /\ step = 5 => w = "body" /\ v = "zero"
      /\ step = 6 => w = "magic" /\ v = "good"
  BY Stores
<1>2. word' = [word EXCEPT ![held][w] = v]
  BY DEF HelperInitialises
<1> HIDE DEF w, v
<1>3. w \in Words
  BY <1>0, <1>1 DEF Words
<1>4. \A x \in Words : word'[held][x] = IF x = w THEN v ELSE word[held][x]
  BY <1>0, <1>2, <1>3 DEF EndInv, IInv, TypeOK
<1>5. \/ step < 6 /\ hpc' = "init" /\ step' = step + 1
      \/ step = 6 /\ hpc' = "set" /\ step' = 0
  BY <1>0, StoresLength DEF HelperInitialises
<1>6. /\ step >= 2 => word'[held].version = "good"
      /\ step >= 3 => word'[held].geometry = "good"
      /\ step = 6 => word'[held].magic = "good"
  <2>1. /\ step > 2 => word[held].version = "good"
        /\ step > 3 => word[held].geometry = "good"
    BY <1>0 DEF EndInv, RepairInv
  <2> QED  BY <1>0, <1>1, <1>4, <2>1 DEF Words
<1>7. CASE step < 6
  BY <1>0, <1>5, <1>6, <1>7 DEF RepairInv
<1>8. CASE step = 6
  <2>1. Valid(held)'
    BY <1>0, <1>6, <1>8 DEF Valid
  <2> QED  BY <1>0, <1>5, <1>8, <2>1 DEF RepairInv
<1> QED  BY <1>0, <1>7, <1>8

\* What the others do to the helper's file: they set its latency, or unlink it.
LEMMA OthersKeepRepair ==
  ASSUME EndInv, UNCHANGED helper, size' = size, path' \in {path, None},
         \/ word' = word
         \/ \E k \in Ctls : CtlSetsTarget(k)
  PROVE  RepairInv'
<1>1. \A j \in Inodes : /\ Valid(j)' <=> Valid(j)
                        /\ word'[j].version = word[j].version
                        /\ word'[j].geometry = word[j].geometry
  <2>1. CASE word' = word
    BY <2>1 DEF Valid
  <2>2. ASSUME NEW k \in Ctls, CtlSetsTarget(k)
        PROVE  \A j \in Inodes : /\ Valid(j)' <=> Valid(j)
                                 /\ word'[j].version = word[j].version
                                 /\ word'[j].geometry = word[j].geometry
    <3>1. ctlInode[k] \in Inodes
      BY <2>2 DEF CtlSetsTarget, EndInv, IInv, SizeInv
    <3> QED  BY <2>2, <3>1, TargetStored DEF CtlSetsTarget, EndInv
  <2> QED  BY <2>1, <2>2
<1>2. hpc \in {"init", "set"} => held \in Inodes
  BY DEF EndInv, IInv, SizeInv
<1>3. path # None => path \in Inodes
  BY DEF EndInv, IInv, TypeOK
<1>4. hpc' = hpc /\ held' = held /\ step' = step
  BY DEF helper
<1>5. ASSUME NEW j \in Inodes  PROVE Valid(j)' <=> Valid(j)
  BY <1>1
<1>6. hpc = "set" => Valid(held)'
  BY <1>2, <1>4, <1>5 DEF EndInv, RepairInv, Valid
<1>7. hpc = "attach" /\ path' # None => size'[path'] = "full" /\ Valid(path)'
  <2> SUFFICES ASSUME hpc = "attach", path' # None
               PROVE  size'[path'] = "full" /\ Valid(path)'
    OBVIOUS
  <2>1. path' = path /\ path \in Inodes /\ size[path] = "full" /\ Valid(path)
    BY <1>3 DEF EndInv, RepairInv
  <2> QED  BY <1>5, <2>1 DEF Valid
<1> QED  BY <1>1, <1>2, <1>4, <1>6, <1>7 DEF EndInv, RepairInv

LEMMA NextEndInv == EndInv /\ [Next]_vars => EndInv'
<1> SUFFICES ASSUME EndInv, [Next]_vars  PROVE RepairInv'
  BY NextIInv DEF EndInv
<1>1. CASE HelperOpens
  BY <1>1 DEF HelperOpens, RepairInv, file
<1>2. CASE HelperTruncates \/ HelperMaps
  BY <1>2 DEF HelperTruncates, HelperMaps, EndInv, RepairInv, file, Valid
<1>3. CASE HelperZeroes
  BY <1>3 DEF HelperZeroes, EndInv, RepairInv
<1>4. CASE HelperInitialises
  BY <1>4, StoresKeepRepair
<1>5. CASE HelperSetsTarget
  <2>1. /\ held \in Inodes /\ size[held] = "full" /\ Valid(held)
        /\ path \in {held, None} /\ hpc' = "attach" /\ path' = path
        /\ size' = size
    BY <1>5
    DEF HelperSetsTarget, EndInv, IInv, SizeInv, MappingsFit, RepairInv
  <2>2. word'[held].magic = "good" /\ word'[held].version = "good"
        /\ word'[held].geometry = "good"
    BY <1>5, <2>1, TargetStored DEF HelperSetsTarget, EndInv, Valid
  <2> QED  BY <2>1, <2>2 DEF RepairInv, Valid
<1>6. CASE HelperAttaches \/ HelperEvent
  BY <1>6
  DEF HelperAttaches, HelperEvent, HelperStarts, HelperCaptures,
      HelperReconnects, HelperDies, RepairInv, helper
<1>7. CASE Unlinked \/ \E k \in Ctls : CtlStep(k)
  BY <1>7, OthersKeepRepair
  DEF Unlinked, CtlStep, CtlOpens, CtlValidates, CtlSetsTarget, file
<1>8. CASE \E c \in Clients : HostCall(c) \/ RefreshStep(c) \/ AccessEnds(c)
  BY <1>8, OthersKeepRepair
  DEF HostCall, RefreshBegins, StartIO, StopIO, ReadBegins, RefreshStep,
      RefreshOpens, RefreshMaps, RefreshValidates, RefreshUnmaps, RefreshClears,
      AccessEnds, file
<1>9. CASE UNCHANGED vars
  BY <1>9, OthersKeepRepair DEF vars, file
<1> QED
  BY <1>1, <1>2, <1>3, <1>4, <1>5, <1>6, <1>7, <1>8, <1>9 DEF Next, HelperStep

\* One element more makes a set larger by at most one.
LEMMA OneMore ==
  ASSUME NEW S, NEW x, IsFiniteSet(S)
  PROVE  /\ IsFiniteSet(S \cup {x})
         /\ Cardinality(S \cup {x}) \in Nat
         /\ Cardinality(S \cup {x}) <= Cardinality(S) + 1
<1>1. Cardinality(S) \in Nat
  BY FS_CardinalityType
<1>2. /\ IsFiniteSet(S \cup {x})
      /\ Cardinality(S \cup {x})
           = IF x \in S THEN Cardinality(S) ELSE Cardinality(S) + 1
  BY FS_AddElement
<1> QED  BY <1>1, <1>2

LEMMA FiveWords == Cardinality(Words) <= 5
<1> DEFINE A == {"magic"}
           B == A \cup {"version"}
           C == B \cup {"geometry"}
           D == C \cup {"target"}
<1>0. Words = D \cup {"body"}
  BY DEF Words
<1>1. IsFiniteSet(A) /\ Cardinality(A) = 1
  BY FS_Singleton
<1> HIDE DEF A
<1>2. /\ IsFiniteSet(B) /\ Cardinality(B) \in Nat
      /\ Cardinality(B) <= Cardinality(A) + 1
  BY <1>1, OneMore, Zenon
<1> HIDE DEF B
<1>3. /\ IsFiniteSet(C) /\ Cardinality(C) \in Nat
      /\ Cardinality(C) <= Cardinality(B) + 1
  BY <1>2, OneMore, Zenon
<1> HIDE DEF C
<1>4. /\ IsFiniteSet(D) /\ Cardinality(D) \in Nat
      /\ Cardinality(D) <= Cardinality(C) + 1
  BY <1>3, OneMore, Zenon
<1> HIDE DEF D
<1>5. Cardinality(Words) \in Nat /\ Cardinality(Words) <= Cardinality(D) + 1
  BY <1>0, <1>4, OneMore, Zenon
<1> QED  BY <1>1, <1>2, <1>3, <1>4, <1>5

LEMMA RepairGoesOn ==
  ASSUME EndInv, EndInv', HelperStep
  PROVE  StepsToRing' < StepsToRing \/ (hpc = "attach" /\ path = None)
<1>0. IsFiniteSet(unzeroed) /\ Cardinality(unzeroed) \in Nat
      /\ unzeroed \subseteq Words
  <2>1. unzeroed \subseteq Words
    BY DEF EndInv, IInv, TypeOK
  <2> QED  BY <2>1, WordsAreFinite, FS_Subset, FS_CardinalityType
<1>1. CASE HelperOpens \/ HelperTruncates
  BY <1>1 DEF HelperOpens, HelperTruncates, StepsToRing
<1>2. CASE HelperMaps
  <2>1. Cardinality(Words) <= 5
    BY FiveWords
  <2>2. Cardinality(Words) \in Nat
    BY WordsAreFinite, FS_CardinalityType
  <2>3. StepsToRing = 14
    BY <1>2 DEF HelperMaps, StepsToRing
  <2>4. CASE hpc' = "set"
    BY <2>3, <2>4 DEF StepsToRing
  <2>5. CASE hpc' = "zero" /\ unzeroed' = Words
    <3>1. StepsToRing' = 8 + Cardinality(Words)
      BY <2>5 DEF StepsToRing
    <3> QED  BY <2>1, <2>2, <2>3, <3>1
  <2> QED  BY <1>2, <2>4, <2>5 DEF HelperMaps
<1>3. CASE HelperZeroes
  <2>1. PICK w \in unzeroed : unzeroed' = unzeroed \ {w}
    BY <1>3 DEF HelperZeroes
  <2>2. Cardinality(unzeroed') = Cardinality(unzeroed) - 1
    BY <1>0, <2>1, FS_RemoveElement
  <2>3. StepsToRing = 8 + Cardinality(unzeroed) /\ Cardinality(unzeroed) >= 1
    <3>1. Cardinality(unzeroed) # 0
      BY <1>0, <2>1, FS_EmptySet
    <3>2. hpc = "zero"
      BY <1>3 DEF HelperZeroes
    <3> QED  BY <1>0, <3>1, <3>2 DEF StepsToRing
  <2>4. CASE hpc' = "zero"
    <3>1. StepsToRing' = 8 + Cardinality(unzeroed')
      BY <2>4 DEF StepsToRing
    <3> QED  BY <1>0, <2>2, <2>3, <3>1
  <2>5. CASE hpc' = "init"
    <3>1. step' = 1
      BY <1>3 DEF HelperZeroes
    <3>2. StepsToRing' = 8
      BY <2>5, <3>1 DEF StepsToRing
    <3> QED  BY <1>0, <2>3, <3>2
  <2> QED  BY <1>3, <2>4, <2>5 DEF HelperZeroes
<1>4. CASE HelperInitialises
  <2>1. hpc = "init" /\ step \in 1 .. 6
    BY <1>4 DEF HelperInitialises, EndInv, IInv, InitInv
  <2>2. \/ step < 6 /\ hpc' = "init" /\ step' = step + 1
        \/ hpc' = "set"
    BY <1>4, <2>1, StoresLength DEF HelperInitialises
  <2>3. StepsToRing = 9 - step
    BY <2>1 DEF StepsToRing
  <2>4. CASE hpc' = "set"
    <3>1. StepsToRing' = 2
      BY <2>4 DEF StepsToRing
    <3> QED  BY <2>1, <2>3, <3>1
  <2>5. CASE hpc' = "init" /\ step' = step + 1
    <3>1. StepsToRing' = 9 - (step + 1)
      BY <2>5 DEF StepsToRing
    <3> QED  BY <2>1, <2>3, <3>1
  <2> QED  BY <2>2, <2>4, <2>5
<1>5. CASE HelperSetsTarget
  BY <1>5 DEF HelperSetsTarget, StepsToRing
<1>6. CASE HelperAttaches
  BY <1>6 DEF HelperAttaches, StepsToRing, EndInv, RepairInv, Openable
<1> QED  BY <1>1, <1>2, <1>3, <1>4, <1>5, <1>6 DEF HelperStep

\* The repair ends: for any files and any number of commands and clients, 16
\* steps of a helper that does not die lead from whatever is at the path to a
\* ring that it captures into, unless the file was unlinked in between.
THEOREM HelperRepairs == Spec => RepairEnds
<1>1. EndInv /\ [Next]_vars =>
        [HelperStep => \/ StepsToRing' < StepsToRing
                       \/ hpc = "attach" /\ path = None]_vars
  <2> SUFFICES ASSUME EndInv, [Next]_vars, HelperStep
               PROVE  \/ StepsToRing' < StepsToRing
                      \/ hpc = "attach" /\ path = None
    OBVIOUS
  <2> QED  BY NextEndInv, RepairGoesOn
<1> QED  BY <1>1, InitEndInv, NextEndInv, PTL DEF Spec, RepairEnds
=============================================================================
