------------------------------- MODULE RingFile -------------------------------
(***************************************************************************)
(* How one player's ring comes to be shared: the helper creates, sizes and *)
(* initialises the file and then captures into it; ctl opens it to set the *)
(* latency; the driver opens it to read, when it is loaded and when a      *)
(* client is added.  The file may be left over from another version, may   *)
(* be unlinked while it is mapped, and the helper may die at any step.     *)
(*                                                                         *)
(* An inode's contents are a few words, each of which holds what this      *)
(* version wants ("good"), zero, or what another version left ("stale").   *)
(***************************************************************************)
EXTENDS Naturals, FiniteSets, Sequences

CONSTANTS
  Inodes,         \* bound: files that may exist at the path, one at a time
  Clients,        \* Core Audio clients of the virtual device
  Ctls,           \* terminals in which rocksmith_bridge_ctl is run
  MaxMaps,        \* bound: mappings that the driver makes
  HostSerializes, \* does coreaudiod hold back StartIO and AddDeviceClient
                  \* while another AddDeviceClient runs?
  None            \* no inode

ASSUME ParametersAssumption ==
  /\ IsFiniteSet(Inodes) /\ IsFiniteSet(Clients)
  /\ MaxMaps \in Nat
  /\ HostSerializes \in BOOLEAN
  /\ None \notin Inodes

\* What valid() looks at, the latency, and the samples with the counters.
Words  == {"magic", "version", "geometry", "target", "body"}
Values == {"stale", "zero", "good"}

VARIABLES
  path,     \* the inode that the ring's path names, or None
  size,     \* per inode: "unused", "full" when it has the ring's size, "other"
  word,     \* per inode and word: its value
  hpc, held, unzeroed, step,          \* the helper
  cpc, ctlInode,                      \* ctl
  dpc, gRunning, ioing,               \* the driver's calls, per client
  header, ptr, live, mapOf, fdInode   \* the driver's mapping gRings[player]

file   == <<path, size, word>>
helper == <<hpc, held, unzeroed, step>>
ctl    == <<cpc, ctlInode>>
driver == <<dpc, gRunning, ioing, header, ptr, live, mapOf, fdInode>>
vars   == <<file, helper, ctl, driver>>

Valid(i) ==
  /\ word[i].magic = "good"
  /\ word[i].version = "good"
  /\ word[i].geometry = "good"

-----------------------------------------------------------------------------
(* The helper: ensureRing, the session's open, and the capture.            *)

HelperStarts ==
  /\ hpc = "down"
  /\ hpc' = "open"
  /\ UNCHANGED <<file, held, unzeroed, step, ctl, driver>>

\* open with O_CREAT.
HelperOpens ==
  /\ hpc = "open"
  /\ \/ path # None /\ held' = path /\ UNCHANGED file
     \/ /\ path = None
        /\ \E i \in Inodes :
             /\ size[i] = "unused"
             /\ path' = i
             /\ held' = i
             /\ size' = [size EXCEPT ![i] = "other"]
             /\ word' = [word EXCEPT ![i] = [w \in Words |-> "zero"]]
  /\ hpc' = "truncate"
  /\ UNCHANGED <<unzeroed, step, ctl, driver>>

HelperTruncates ==
  /\ hpc = "truncate"
  /\ size' = [size EXCEPT ![held] = "full"]
  /\ hpc' = "map"
  /\ UNCHANGED <<path, word, held, unzeroed, step, ctl, driver>>

\* Mutant of HelperMaps: the magic number alone tells that nothing needs doing.
HelperTrustsMagic ==
  /\ hpc = "map"
  /\ IF word[held].magic = "good"
     THEN hpc' = "set" /\ UNCHANGED unzeroed
     ELSE hpc' = "zero" /\ unzeroed' = Words
  /\ UNCHANGED <<file, held, step, ctl, driver>>

\* Mutant of HelperMaps: every helper that starts makes the ring anew.
HelperAlwaysInitialises ==
  /\ hpc = "map"
  /\ hpc' = "zero"
  /\ unzeroed' = Words
  /\ UNCHANGED <<file, held, step, ctl, driver>>

HelperMaps ==
  /\ hpc = "map"
  /\ IF Valid(held)
     THEN hpc' = "set" /\ UNCHANGED unzeroed
     ELSE hpc' = "zero" /\ unzeroed' = Words
  /\ UNCHANGED <<file, held, step, ctl, driver>>

\* memset promises nothing about the order in which memory is cleared.
HelperZeroes ==
  /\ hpc = "zero"
  /\ \E w \in unzeroed :
       /\ word' = [word EXCEPT ![held][w] = "zero"]
       /\ unzeroed' = unzeroed \ {w}
  /\ hpc' = IF Cardinality(unzeroed) = 1 THEN "init" ELSE "zero"
  /\ step' = 1
  /\ UNCHANGED <<path, size, held, ctl, driver>>

\* Mutant of InitStores: the magic number is stored with the version.
InitStoresMagicFirst ==
  << <<"magic", "good">>, <<"version", "good">>, <<"geometry", "good">>,
     <<"target", "good">>, <<"body", "zero">> >>

\* initializeSharedRing, store by store.
InitStores ==
  << <<"magic", "zero">>, <<"version", "good">>, <<"geometry", "good">>,
     <<"target", "good">>, <<"body", "zero">>, <<"magic", "good">> >>

HelperInitialises ==
  /\ hpc = "init"
  /\ word' = [word EXCEPT ![held][InitStores[step][1]] = InitStores[step][2]]
  /\ step' = IF step < Len(InitStores) THEN step + 1 ELSE 0
  /\ hpc' = IF step < Len(InitStores) THEN "init" ELSE "set"
  /\ UNCHANGED <<path, size, held, unzeroed, ctl, driver>>

\* valid(), setTargetLatencyFrames and closeSharedRing.
HelperSetsTarget ==
  /\ hpc = "set"
  /\ word' = IF Valid(held) THEN [word EXCEPT ![held].target = "good"] ELSE word
  /\ held' = None
  /\ hpc' = "attach"
  /\ UNCHANGED <<path, size, unzeroed, step, ctl, driver>>

\* Mutant of Openable: a file of another size is mapped as well.
OpenableAnySize(i) == i # None

\* openSharedRingAtPath without O_CREAT, up to the mapping.
Openable(i) == i # None /\ size[i] = "full"

HelperAttaches ==
  /\ hpc = "attach"
  /\ IF Openable(path) /\ Valid(path)
     THEN held' = path /\ hpc' = "stream"
     ELSE held' = None /\ hpc' = "open"
  /\ UNCHANGED <<file, unzeroed, step, ctl, driver>>

HelperCaptures ==
  /\ hpc = "stream"
  /\ Valid(held)
  /\ word' = [word EXCEPT ![held].body = "good"]
  /\ UNCHANGED <<path, size, helper, ctl, driver>>

HelperReconnects ==
  /\ hpc = "stream"
  /\ hpc' = "open"
  /\ held' = None
  /\ UNCHANGED <<file, unzeroed, step, ctl, driver>>

HelperDies ==
  /\ hpc # "down"
  /\ hpc' = "down"
  /\ held' = None
  /\ unzeroed' = {}
  /\ step' = 0
  /\ UNCHANGED <<file, ctl, driver>>

\* The file is unlinked by someone else: those who have it mapped keep it.
Unlinked ==
  /\ path # None
  /\ \E i \in Inodes : size[i] = "unused"
  /\ path' = None
  /\ UNCHANGED <<size, word, helper, ctl, driver>>

-----------------------------------------------------------------------------
(* ctl: requestRingLatency.                                                *)

CtlOpens(k) ==
  /\ cpc[k] = "idle"
  /\ Openable(path)
  /\ ctlInode' = [ctlInode EXCEPT ![k] = path]
  /\ cpc' = [cpc EXCEPT ![k] = "validate"]
  /\ UNCHANGED <<file, helper, driver>>

CtlCloses(k) ==
  /\ cpc' = [cpc EXCEPT ![k] = "idle"]
  /\ ctlInode' = [ctlInode EXCEPT ![k] = None]

CtlValidates(k) ==
  /\ cpc[k] = "validate"
  /\ IF Valid(ctlInode[k])
     THEN cpc' = [cpc EXCEPT ![k] = "set"] /\ UNCHANGED ctlInode
     ELSE CtlCloses(k)
  /\ UNCHANGED <<file, helper, driver>>

CtlSetsTarget(k) ==
  /\ cpc[k] = "set"
  /\ word' = IF Valid(ctlInode[k])
             THEN [word EXCEPT ![ctlInode[k]].target = "good"] ELSE word
  /\ CtlCloses(k)
  /\ UNCHANGED <<path, size, helper, driver>>

-----------------------------------------------------------------------------
(* The driver: refreshRing, from Initialize and AddRemoveClient.           *)

Refreshing == {"open", "map", "validate", "unmap", "clear"}

NoOneRefreshes == \A c \in Clients : dpc[c] \notin Refreshing

\* The host's side of the bargain, if it keeps one.
HostAdmits == HostSerializes => NoOneRefreshes

Inode(m) == mapOf[m]

DriverRingValid == header # 0 /\ Valid(Inode(header))

\* Mutant of RefreshBegins: the ring is opened again although it is valid.
RefreshBeginsAnyway(c) ==
  /\ dpc[c] = "idle"
  /\ ~ioing[c]
  /\ HostAdmits
  /\ gRunning = 0
  /\ dpc' = [dpc EXCEPT ![c] = "open"]
  /\ UNCHANGED <<file, helper, ctl, gRunning, ioing, header, ptr, live, mapOf,
                 fdInode>>

\* Mutant of RefreshBegins: the clients that do I/O are not looked at.
RefreshBeginsWhileRunning(c) ==
  /\ dpc[c] = "idle"
  /\ ~ioing[c]
  /\ HostAdmits
  /\ ~DriverRingValid
  /\ dpc' = [dpc EXCEPT ![c] = "open"]
  /\ UNCHANGED <<file, helper, ctl, gRunning, ioing, header, ptr, live, mapOf,
                 fdInode>>

RefreshBegins(c) ==
  /\ dpc[c] = "idle"
  /\ ~ioing[c]
  /\ HostAdmits
  /\ ~DriverRingValid
  /\ gRunning = 0
  /\ dpc' = [dpc EXCEPT ![c] = "open"]
  /\ UNCHANGED <<file, helper, ctl, gRunning, ioing, header, ptr, live, mapOf,
                 fdInode>>

RefreshOpens(c) ==
  /\ dpc[c] = "open"
  /\ IF Openable(path)
     THEN /\ fdInode' = [fdInode EXCEPT ![c] = path]
          /\ dpc' = [dpc EXCEPT ![c] = "map"]
     ELSE /\ dpc' = [dpc EXCEPT ![c] = "idle"]
          /\ UNCHANGED fdInode
  /\ UNCHANGED <<file, helper, ctl, gRunning, ioing, header, ptr, live, mapOf>>

\* The new mapping is stored in gRings[player] before it is validated.
RefreshMaps(c) ==
  /\ dpc[c] = "map"
  /\ \E m \in 1 .. MaxMaps :
       /\ m \notin live
       /\ header' = m
       /\ mapOf' = [mapOf EXCEPT ![m] = fdInode[c]]
       /\ live' = live \cup {m}
  /\ fdInode' = [fdInode EXCEPT ![c] = None]
  /\ dpc' = [dpc EXCEPT ![c] = "validate"]
  /\ UNCHANGED <<file, helper, ctl, gRunning, ioing, ptr>>

\* Mutant of RefreshValidates: it does not return when the ring is valid.
RefreshRejects(c) ==
  /\ dpc[c] = "validate"
  /\ dpc' = [dpc EXCEPT ![c] = "unmap"]
  /\ UNCHANGED <<file, helper, ctl, gRunning, ioing, header, ptr, live, mapOf,
                 fdInode>>

RefreshValidates(c) ==
  /\ dpc[c] = "validate"
  /\ dpc' = [dpc EXCEPT ![c] = IF DriverRingValid THEN "idle" ELSE "unmap"]
  /\ UNCHANGED <<file, helper, ctl, gRunning, ioing, header, ptr, live, mapOf,
                 fdInode>>

RefreshUnmaps(c) ==
  /\ dpc[c] = "unmap"
  /\ live' = live \ {header}
  /\ dpc' = [dpc EXCEPT ![c] = "clear"]
  /\ UNCHANGED <<file, helper, ctl, gRunning, ioing, header, ptr, mapOf, fdInode>>

\* Mutant of RefreshClears: the pointer is not reset.
RefreshLeavesPointer(c) ==
  /\ dpc[c] = "clear"
  /\ dpc' = [dpc EXCEPT ![c] = "idle"]
  /\ UNCHANGED <<file, helper, ctl, gRunning, ioing, header, ptr, live, mapOf,
                 fdInode>>

RefreshClears(c) ==
  /\ dpc[c] = "clear"
  /\ header' = 0
  /\ dpc' = [dpc EXCEPT ![c] = "idle"]
  /\ UNCHANGED <<file, helper, ctl, gRunning, ioing, ptr, live, mapOf, fdInode>>

-----------------------------------------------------------------------------
(* The driver's I/O.  The first client's StartIO and every DoIOOperation    *)
(* take the header's address from gRings[player] and then use it.          *)

StartIO(c) ==
  /\ dpc[c] = "idle"
  /\ ~ioing[c]
  /\ HostAdmits
  /\ ioing' = [ioing EXCEPT ![c] = TRUE]
  /\ gRunning' = gRunning + 1
  /\ IF gRunning = 0 /\ header # 0
     THEN /\ ptr' = [ptr EXCEPT ![c] = header]
          /\ dpc' = [dpc EXCEPT ![c] = "deref"]
     ELSE UNCHANGED <<ptr, dpc>>
  /\ UNCHANGED <<file, helper, ctl, header, live, mapOf, fdInode>>

StopIO(c) ==
  /\ dpc[c] = "idle"
  /\ ioing[c]
  /\ ioing' = [ioing EXCEPT ![c] = FALSE]
  /\ gRunning' = gRunning - 1
  /\ UNCHANGED <<file, helper, ctl, dpc, header, ptr, live, mapOf, fdInode>>

ReadBegins(c) ==
  /\ dpc[c] = "idle"
  /\ ioing[c]
  /\ header # 0
  /\ ptr' = [ptr EXCEPT ![c] = header]
  /\ dpc' = [dpc EXCEPT ![c] = "deref"]
  /\ UNCHANGED <<file, helper, ctl, gRunning, ioing, header, live, mapOf, fdInode>>

AccessEnds(c) ==
  /\ dpc[c] = "deref"
  /\ ptr' = [ptr EXCEPT ![c] = 0]
  /\ dpc' = [dpc EXCEPT ![c] = "idle"]
  /\ UNCHANGED <<file, helper, ctl, gRunning, ioing, header, live, mapOf, fdInode>>

-----------------------------------------------------------------------------
Blank == [w \in Words |-> "zero"]
Good  == [Blank EXCEPT !.magic = "good", !.version = "good",
                       !.geometry = "good", !.target = "good"]

\* Headers that another version of the bridge leaves behind.
Foreign == {[Good EXCEPT !.version = "stale", !.geometry = g, !.target = "stale",
                         !.body = "stale"] : g \in {"good", "stale"}}

Init ==
  /\ \/ /\ path = None
        /\ size = [i \in Inodes |-> "unused"]
        /\ word = [i \in Inodes |-> Blank]
     \/ \E i \in Inodes, s \in {"full", "other"}, f \in Foreign :
          /\ path = i
          /\ size = [j \in Inodes |-> IF j = i THEN s ELSE "unused"]
          /\ word = [j \in Inodes |-> IF j = i THEN f ELSE Blank]
  /\ hpc = "down" /\ held = None /\ unzeroed = {} /\ step = 0
  /\ cpc = [k \in Ctls |-> "idle"]
  /\ ctlInode = [k \in Ctls |-> None]
  /\ dpc = [c \in Clients |-> "idle"]
  /\ gRunning = 0
  /\ ioing = [c \in Clients |-> FALSE]
  /\ header = 0
  /\ ptr = [c \in Clients |-> 0]
  /\ live = {}
  /\ mapOf = [m \in 1 .. MaxMaps |-> None]
  /\ fdInode = [c \in Clients |-> None]

HelperStep ==
  \/ HelperOpens
  \/ HelperTruncates
  \/ HelperMaps
  \/ HelperZeroes
  \/ HelperInitialises
  \/ HelperSetsTarget
  \/ HelperAttaches

HelperEvent == HelperStarts \/ HelperCaptures \/ HelperReconnects \/ HelperDies

CtlStep(k) == CtlOpens(k) \/ CtlValidates(k) \/ CtlSetsTarget(k)

RefreshStep(c) ==
  \/ RefreshOpens(c)
  \/ RefreshMaps(c)
  \/ RefreshValidates(c)
  \/ RefreshUnmaps(c)
  \/ RefreshClears(c)

HostCall(c) == RefreshBegins(c) \/ StartIO(c) \/ StopIO(c) \/ ReadBegins(c)

Next ==
  \/ HelperStep
  \/ HelperEvent
  \/ Unlinked
  \/ \E k \in Ctls : CtlStep(k)
  \/ \E c \in Clients : HostCall(c) \/ RefreshStep(c) \/ AccessEnds(c)

Spec == Init /\ [][Next]_vars

\* launchd keeps the helper running, its loop goes on, and calls return.
FairSpec ==
  /\ Spec
  /\ WF_vars(HelperStep)
  /\ WF_vars(HelperStarts)
  /\ \A c \in Clients : WF_vars(RefreshStep(c) \/ AccessEnds(c))

-----------------------------------------------------------------------------
TypeOK ==
  /\ path \in Inodes \cup {None}
  /\ size \in [Inodes -> {"unused", "other", "full"}]
  /\ word \in [Inodes -> [Words -> Values]]
  /\ hpc \in {"down", "open", "truncate", "map", "zero", "init", "set",
              "attach", "stream"}
  /\ held \in Inodes \cup {None}
  /\ unzeroed \subseteq Words
  /\ step \in 0 .. Len(InitStores)
  /\ cpc \in [Ctls -> {"idle", "validate", "set"}]
  /\ ctlInode \in [Ctls -> Inodes \cup {None}]
  /\ dpc \in [Clients -> {"idle", "deref"} \cup Refreshing]
  /\ gRunning \in 0 .. Cardinality(Clients)
  /\ ioing \in [Clients -> BOOLEAN]
  /\ header \in 0 .. MaxMaps
  /\ ptr \in [Clients -> 0 .. MaxMaps]
  /\ live \subseteq 1 .. MaxMaps
  /\ mapOf \in [1 .. MaxMaps -> Inodes \cup {None}]
  /\ fdInode \in [Clients -> Inodes \cup {None}]

\* A header is valid only when everything behind it is this version's: no
\* crash of the helper, at no store of the memset or of the initialisation,
\* leaves a file that valid() accepts with a latency or samples that are not.
ValidIsInitialised ==
  \A i \in Inodes : Valid(i) => word[i].target = "good" /\ word[i].body # "stale"

\* Whoever has the ring mapped has all of it: an access past the end of the
\* file would be fatal (SIGBUS), in coreaudiod as in the helper.
MappingsFit ==
  /\ \A m \in live : size[mapOf[m]] = "full"
  /\ \A k \in Ctls : cpc[k] # "idle" => size[ctlInode[k]] = "full"
  /\ hpc \in {"map", "zero", "init", "set", "stream"} => size[held] = "full"

\* The driver does not touch a mapping that it has given back.
NoUseAfterUnmap ==
  /\ \A c \in Clients : dpc[c] = "deref" => ptr[c] \in live
  /\ \A c \in Clients : dpc[c] = "idle" /\ header # 0 /\ NoOneRefreshes
       => header \in live

\* The driver holds one mapping at most: what it opened before is released.
OneMapping == Cardinality(live) <= 1

\* While a client does I/O its ring is not exchanged under it.
RingStableInIO ==
  [][gRunning > 0 /\ gRunning' > 0 => header' = header]_vars

\* Once the path names a valid ring for good, the driver stops looking for it:
\* the next open, if there is one, succeeds.
RefreshSettles ==
  <>[](path # None /\ Valid(path)) => <>[](\A c \in Clients : dpc[c] # "open")

\* The helper repairs whatever it finds, its own half-finished work included:
\* if it stays up, the path names a valid ring in the end.
RingComesUp == <>[](hpc # "down") => <>(path # None /\ Valid(path))
=============================================================================
