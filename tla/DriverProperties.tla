-------------------------- MODULE DriverProperties --------------------------
(***************************************************************************)
(* The driver as coreaudiod sees it beside its audio: properties that two  *)
(* host threads read and set while a third does I/O, the notifications of  *)
(* what was set, and the references that keep the plug-in alive.  The      *)
(* tables are those of DriverTables.                                       *)
(***************************************************************************)
EXTENDS DriverTables, FiniteSets

CONSTANTS
  Threads,       \* host threads that set properties
  MinFrames,     \* kMinBufferFrames
  DefaultFrames, \* kDefaultBufferFrames
  MaxFrames,     \* the upper limit of the buffer size, 2048
  ChunkFrames,   \* frames of DoIOOperation's scratch buffer, 4096
  Requests,      \* buffer sizes that clients ask for
  Driven,        \* bound: players whose properties and I/O are used
  MaxReferences, \* bound: references held at a time
  MaxInstances   \* bound: instances that the factory makes

ASSUME FramesAssumption ==
  /\ {MinFrames, MaxFrames, ChunkFrames} \subseteq Nat \ {0}
  /\ DefaultFrames \in MinFrames .. MaxFrames
  /\ MaxFrames <= ChunkFrames
  /\ Requests \subseteq Nat
  /\ Driven \subseteq Players
  /\ {MaxReferences, MaxInstances} \subseteq Nat

VARIABLES
  gBufferFrameSize, gUseFloatFormat,  \* the driver's globals, per player
  call,      \* per thread, the address that SetPropertyData has to notify of
  changed,   \* notified addresses that the host has not read again
  known,     \* what the host last read of each settable address
  setBy,     \* the selector that a player's format was last set through
  remaining, \* per player, frames that DoIOOperation has still to produce
  converted, \* per player, the formats of the chunks of this call so far
  gRefCount, \* the plug-in's reference count
  held,      \* references that the host holds
  instances  \* instances that the factory has registered

settings == <<gBufferFrameSize, gUseFloatFormat>>
host     == <<changed, known>>
io       == <<remaining, converted>>
plugIn   == <<gRefCount, held, instances>>
vars     == <<settings, call, host, setBy, io, plugIn>>

NoCall == <<>>

FormatSelectors == {"VirtualFormat", "PhysicalFormat"}

FramesOf(player)           == <<DeviceObjectIDs[player], "BufferFrameSize">>
FormatOf(player, selector) == <<StreamObjectIDs[player], selector>>

Settable ==
  {FramesOf(p) : p \in Players} \cup
  {FormatOf(p, s) : p \in Players, s \in FormatSelectors}

CurrentFormat(player) == IF gUseFloatFormat[player] THEN "float" ELSE "int16"

\* GetPropertyData of a settable address.
Value(address) ==
  LET p == PlayerForObject(address[1])
  IN IF address[2] = "BufferFrameSize" THEN gBufferFrameSize[p]
     ELSE gUseFloatFormat[p]

-----------------------------------------------------------------------------
(* SetPropertyData: the value is checked and stored, then the host is told. *)

\* Mutant of AcceptsFrames: there is no upper limit.
AcceptsAnyFrames(requested) == requested >= MinFrames

AcceptsFrames(requested) == requested >= MinFrames /\ requested <= MaxFrames

SetBufferFrameSize(t, p, requested) ==
  /\ call[t] = NoCall
  /\ AcceptsFrames(requested)
  /\ gBufferFrameSize' = [gBufferFrameSize EXCEPT ![p] = requested]
  /\ call' = [call EXCEPT ![t] = FramesOf(p)]
  /\ UNCHANGED <<gUseFloatFormat, host, setBy, io, plugIn>>

SetFormat(t, p, selector, requested) ==
  /\ call[t] = NoCall
  /\ requested \in {AvailableFormats[i] : i \in DOMAIN AvailableFormats}
  /\ gUseFloatFormat' = [gUseFloatFormat EXCEPT ![p] = requested = "float"]
  /\ setBy' = [setBy EXCEPT ![p] = selector]
  /\ call' = [call EXCEPT ![t] = FormatOf(p, selector)]
  /\ UNCHANGED <<gBufferFrameSize, host, io, plugIn>>

\* Mutant of NotifyPropertyChanged: only the other thread's call tells of it.
NotifyOnce(t) ==
  /\ call[t] # NoCall
  /\ changed' = IF \E u \in Threads \ {t} : call[u] # NoCall
                THEN changed ELSE changed \cup {call[t]}
  /\ call' = [call EXCEPT ![t] = NoCall]
  /\ UNCHANGED <<settings, known, setBy, io, plugIn>>

NotifyPropertyChanged(t) ==
  /\ call[t] # NoCall
  /\ changed' = changed \cup {call[t]}
  /\ call' = [call EXCEPT ![t] = NoCall]
  /\ UNCHANGED <<settings, known, setBy, io, plugIn>>

\* The host reads what it was told of.
HostReads(address) ==
  /\ address \in changed
  /\ changed' = changed \ {address}
  /\ known' = [known EXCEPT ![address] = Value(address)]
  /\ UNCHANGED <<settings, call, setBy, io, plugIn>>

-----------------------------------------------------------------------------
(* DoIOOperation, chunk by chunk, in the format that each chunk finds.     *)

BeginIO(p) ==
  /\ remaining[p] = 0
  /\ remaining' = [remaining EXCEPT ![p] = known[FramesOf(p)]]
  /\ converted' = [converted EXCEPT ![p] = {}]
  /\ UNCHANGED <<settings, call, host, setBy, plugIn>>

ConvertChunk(p) ==
  /\ remaining[p] > 0
  /\ converted' = [converted EXCEPT ![p] = @ \cup {CurrentFormat(p)}]
  /\ remaining' = [remaining EXCEPT
                     ![p] = IF @ > ChunkFrames THEN @ - ChunkFrames ELSE 0]
  /\ UNCHANGED <<settings, call, host, setBy, plugIn>>

-----------------------------------------------------------------------------
(* The plug-in object.                                                     *)

AddRef == gRefCount' = gRefCount + 1

Create ==
  /\ held < MaxReferences
  /\ instances < MaxInstances
  /\ AddRef
  /\ held' = held + 1
  /\ instances' = instances + 1
  /\ UNCHANGED <<settings, call, host, setBy, io>>

\* Mutant of QueryInterface: the interface is handed out uncounted.
HandOut ==
  /\ held \in 1 .. MaxReferences - 1
  /\ held' = held + 1
  /\ UNCHANGED <<settings, call, host, setBy, io, gRefCount, instances>>

QueryInterface ==
  /\ held \in 1 .. MaxReferences - 1
  /\ AddRef
  /\ held' = held + 1
  /\ UNCHANGED <<settings, call, host, setBy, io, instances>>

Release ==
  /\ held > 0
  /\ held' = held - 1
  /\ gRefCount' = gRefCount - 1
  /\ instances' = IF gRefCount = 1 THEN instances - 1 ELSE instances
  /\ UNCHANGED <<settings, call, host, setBy, io>>

-----------------------------------------------------------------------------
Init ==
  /\ gBufferFrameSize = [p \in Players |-> DefaultFrames]
  /\ gUseFloatFormat = [p \in Players |-> TRUE]
  /\ call = [t \in Threads |-> NoCall]
  /\ changed = {}
  /\ known = [a \in Settable |-> Value(a)]
  /\ setBy = [p \in Players |-> "VirtualFormat"]
  /\ remaining = [p \in Players |-> 0]
  /\ converted = [p \in Players |-> {}]
  /\ gRefCount = 1
  /\ held = 0
  /\ instances = 0

SetPropertyData(t, p) ==
  \/ \E requested \in Requests : SetBufferFrameSize(t, p, requested)
  \/ \E s \in FormatSelectors :
       \E requested \in {"float", "int16", "other"} :
         SetFormat(t, p, s, requested)

Next ==
  \/ \E t \in Threads : \/ \E p \in Driven : SetPropertyData(t, p)
                        \/ NotifyPropertyChanged(t)
  \/ \E a \in Settable : HostReads(a)
  \/ \E p \in Driven : BeginIO(p) \/ ConvertChunk(p)
  \/ Create \/ QueryInterface \/ Release

Spec == Init /\ [][Next]_vars

-----------------------------------------------------------------------------
TypeOK ==
  /\ gBufferFrameSize \in [Players -> MinFrames .. MaxFrames]
  /\ gUseFloatFormat \in [Players -> BOOLEAN]
  /\ call \in [Threads -> Settable \cup {NoCall}]
  /\ changed \subseteq Settable
  /\ DOMAIN known = Settable
  /\ \A p \in Players :
       /\ known[FramesOf(p)] \in MinFrames .. MaxFrames
       /\ \A s \in FormatSelectors : known[FormatOf(p, s)] \in BOOLEAN
  /\ setBy \in [Players -> FormatSelectors]
  /\ remaining \in [Players -> Nat]
  /\ converted \in [Players -> SUBSET {"float", "int16"}]
  /\ gRefCount \in Nat /\ held \in Nat /\ instances \in Nat

\* One call fills its buffer in one format, whoever changes the format in the
\* meantime: the format is loaded for every chunk, but the limit of the buffer
\* size keeps a call to one chunk.
OneFormatPerCall == \A p \in Players : Cardinality(converted[p]) <= 1

\* When nothing is under way the host knows every buffer size, and every
\* format by the selector that set it last: two threads that store and notify
\* in either order leave no stale value behind.
HostIsUpToDate ==
  changed = {} /\ (\A t \in Threads : call[t] = NoCall) =>
    \A p \in Players :
      \A a \in {FramesOf(p), FormatOf(p, setBy[p])} : known[a] = Value(a)

\* The factory keeps the plug-in for as long as someone holds a reference.
KeptWhileHeld == held > 0 => instances > 0

AnnouncedIsWritten ==
  \A object \in 0 .. 6, selector \in Selectors, scope \in Scopes,
     qualified \in BOOLEAN :
    LET size == GetPropertyDataSize(object, selector, scope, qualified)
        Get(n) == GetPropertyData(object, selector, scope, qualified, n)
    IN IF size = NoSize
       THEN /\ Get(RangedSize * 2) = NoSize
            /\ ~HasProperty(object, selector) \/ selector \in Translations
       ELSE /\ HasProperty(object, selector)
            /\ Get(size) = size
            /\ size > 0 => Get(size - 1) = NoSize

\* What is advertised can be read: GetPropertyDataSize answers for exactly the
\* properties that HasProperty claims (a translation needs its qualifier),
\* GetPropertyData fills a buffer of that size to its end, and it refuses any
\* smaller one; and the host can read what it is told of.
SizesAgree ==
  /\ AnnouncedIsWritten
  /\ \A a \in changed : \A scope \in Scopes :
       GetPropertyDataSize(a[1], a[2], scope, FALSE) # NoSize

OwnersListTheirs ==
  /\ \A object \in 0 .. 6, selector \in {"OwnedObjects", "DeviceList", "Streams"},
        scope \in Scopes :
       HasProperty(object, selector) =>
         LET list == ObjectLists(object, selector, scope)
             ids  == {list[i] : i \in DOMAIN list}
         IN /\ ids \subseteq {o \in 0 .. 6 : HasObject(o) /\ OwnerForObject(o) = object}
            /\ selector # "Streams" =>
                 ids = {o \in 0 .. 6 : HasObject(o) /\ OwnerForObject(o) = object}
            /\ PropertyDataSize(object, selector, scope) =
                 ObjectIDSize * Len(list)
            /\ selector = "Streams" => StreamBuffers(scope) = Len(list)
  /\ \A p \in Players : TranslateUIDToDevice(DeviceUID(p)) = DeviceObjectIDs[p]

SaidToBeSettable ==
  {a \in (0 .. 6) \X Selectors : IsPropertySettable(a[1], a[2])}

\* The objects form the tree that their owners say: lists, streams, sizes,
\* stream configurations and translated identifiers tell of the same objects,
\* whatever the scope; and the host is told only of, and keeps, the addresses
\* that are said to be settable.
ObjectTreeAgrees ==
  /\ OwnersListTheirs
  /\ changed \subseteq SaidToBeSettable
  /\ DOMAIN known = SaidToBeSettable
=============================================================================
