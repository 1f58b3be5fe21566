----------------------- MODULE DriverPropertiesProofs -----------------------
(***************************************************************************)
(* What holds of the driver's properties for any number of host threads,   *)
(* any limits of the buffer size that fit the scratch buffer, any requests *)
(* and any number of references.                                           *)
(***************************************************************************)
EXTENDS DriverProperties, FiniteSetTheorems, TLAPS

\* A call of the host is never longer than the scratch buffer, so that it is
\* one chunk; what it has converted is in one format at most.
OneChunk ==
  \A p \in Players :
    /\ remaining[p] <= MaxFrames
    /\ remaining[p] > 0 => converted[p] = {}
    /\ converted[p] \in {{}, {"float"}, {"int16"}}

\* The host knows a value, or is going to be told of it.
Pending(a) == a \in changed \/ \E t \in Threads : call[t] = a

KnownOrPending ==
  \A p \in Players :
    /\ known[FramesOf(p)] = gBufferFrameSize[p] \/ Pending(FramesOf(p))
    /\ \/ known[FormatOf(p, setBy[p])] = gUseFloatFormat[p]
       \/ Pending(FormatOf(p, setBy[p]))

\* The count is one more than the references that are held.
Counted == gRefCount = held + 1 /\ KeptWhileHeld

IInv == TypeOK /\ OneChunk /\ KnownOrPending /\ Counted

-----------------------------------------------------------------------------
(* Addresses.                                                              *)

LEMMA Objects ==
  \A p, q \in Players :
    /\ DeviceObjectIDs[p] = DeviceObjectIDs[q] => p = q
    /\ StreamObjectIDs[p] = StreamObjectIDs[q] => p = q
    /\ DeviceObjectIDs[p] # StreamObjectIDs[q]
BY DEF Players, DeviceObjectIDs, StreamObjectIDs

LEMMA PlayerOfAddress ==
  ASSUME NEW p \in Players
  PROVE  /\ PlayerForObject(DeviceObjectIDs[p]) = p
         /\ PlayerForObject(StreamObjectIDs[p]) = p
<1>1. ASSUME NEW object \in {DeviceObjectIDs[p], StreamObjectIDs[p]}
      PROVE  PlayerForObject(object) = p
  <2> DEFINE Of(q) == object \in {DeviceObjectIDs[q], StreamObjectIDs[q]}
  <2>1. Of(p)
    OBVIOUS
  <2>2. \A q \in Players : Of(q) => q = p
    BY Objects
  <2>3. PlayerForObject(object) = CHOOSE q \in Players : Of(q)
    BY DEF PlayerForObject
  <2> HIDE DEF Of
  <2> QED  BY <2>1, <2>2, <2>3
<1> QED  BY <1>1

LEMMA Addresses ==
  /\ \A p, q \in Players : FramesOf(p) = FramesOf(q) => p = q
  /\ \A p, q \in Players, r, s \in FormatSelectors :
       /\ FormatOf(p, r) = FormatOf(q, s) => p = q /\ r = s
       /\ FramesOf(p) # FormatOf(q, s)
BY Objects DEF FramesOf, FormatOf

LEMMA NoCallIsNoAddress == \A a \in Settable : a # NoCall
<1>1. \A p \in Players : FramesOf(p) # NoCall
  BY DEF FramesOf, NoCall
<1>2. \A p \in Players, s \in FormatSelectors : FormatOf(p, s) # NoCall
  BY DEF FormatOf, NoCall
<1> QED  BY <1>1, <1>2 DEF Settable

LEMMA AddressesAreSettable ==
  /\ \A p \in Players : FramesOf(p) \in Settable
  /\ \A p \in Players, s \in FormatSelectors : FormatOf(p, s) \in Settable
BY DEF Settable

LEMMA ValueOfFrames ==
  \A p \in Players : Value(FramesOf(p)) = gBufferFrameSize[p]
<1> SUFFICES ASSUME NEW p \in Players
             PROVE  Value(FramesOf(p)) = gBufferFrameSize[p]
  OBVIOUS
<1>1. FramesOf(p)[1] = DeviceObjectIDs[p] /\ FramesOf(p)[2] = "BufferFrameSize"
  BY DEF FramesOf
<1> QED  BY <1>1, PlayerOfAddress DEF Value

LEMMA ValueOfFormat ==
  \A p \in Players, s \in FormatSelectors :
    Value(FormatOf(p, s)) = gUseFloatFormat[p]
<1> SUFFICES ASSUME NEW p \in Players, NEW s \in FormatSelectors
             PROVE  Value(FormatOf(p, s)) = gUseFloatFormat[p]
  OBVIOUS
<1>1. FormatOf(p, s)[1] = StreamObjectIDs[p] /\ FormatOf(p, s)[2] = s
  BY DEF FormatOf
<1>2. s # "BufferFrameSize"
  BY DEF FormatSelectors
<1> QED  BY <1>1, <1>2, PlayerOfAddress DEF Value

-----------------------------------------------------------------------------
(* The invariant.                                                          *)

LEMMA FramesAreNumbers ==
  ASSUME FramesAssumption
  PROVE  /\ MinFrames \in Nat /\ MaxFrames \in Nat /\ ChunkFrames \in Nat
         /\ ChunkFrames > 0 /\ MaxFrames <= ChunkFrames
         /\ \A n \in Requests : n \in Nat
         /\ Driven \subseteq Players
<1>1. /\ MinFrames \in {MinFrames, MaxFrames, ChunkFrames}
      /\ MaxFrames \in {MinFrames, MaxFrames, ChunkFrames}
      /\ ChunkFrames \in {MinFrames, MaxFrames, ChunkFrames}
  OBVIOUS
<1>2. {MinFrames, MaxFrames, ChunkFrames} \subseteq Nat \ {0}
  BY DEF FramesAssumption
<1>3. MinFrames \in Nat \ {0} /\ MaxFrames \in Nat \ {0}
      /\ ChunkFrames \in Nat \ {0}
  BY <1>1, <1>2, Zenon
<1> QED  BY <1>3 DEF FramesAssumption

LEMMA InitIInv == FramesAssumption /\ Init => IInv
<1> SUFFICES ASSUME FramesAssumption, Init  PROVE IInv
  OBVIOUS
<1>1. \A p \in Players : /\ known[FramesOf(p)] = DefaultFrames
                         /\ gBufferFrameSize[p] = DefaultFrames
  BY AddressesAreSettable, ValueOfFrames DEF Init
<1>2. \A p \in Players, s \in FormatSelectors :
        known[FormatOf(p, s)] = gUseFloatFormat[p]
  BY AddressesAreSettable, ValueOfFormat DEF Init
<1>3. gUseFloatFormat \in [Players -> BOOLEAN]
  BY Zenon DEF Init
<1>4. TypeOK
  <2>1. \A p \in Players :
          /\ known[FramesOf(p)] \in MinFrames .. MaxFrames
          /\ \A s \in FormatSelectors : known[FormatOf(p, s)] \in BOOLEAN
    <3>1. \A p \in Players : gUseFloatFormat[p] \in BOOLEAN
      BY <1>3
    <3> QED  BY <1>1, <1>2, <3>1 DEF FramesAssumption
  <2>2. gBufferFrameSize \in [Players -> MinFrames .. MaxFrames]
    BY DEF Init, FramesAssumption
  <2>3. /\ call \in [Threads -> Settable \cup {NoCall}]
        /\ changed \subseteq Settable
        /\ DOMAIN known = Settable
        /\ setBy \in [Players -> FormatSelectors]
        /\ remaining \in [Players -> Nat]
        /\ converted \in [Players -> SUBSET {"float", "int16"}]
        /\ gRefCount \in Nat /\ held \in Nat /\ instances \in Nat
    BY DEF Init, FormatSelectors
  <2> QED  BY <1>3, <2>1, <2>2, <2>3 DEF TypeOK
<1>5. OneChunk
  <2>1. \A p \in Players : remaining[p] = 0 /\ converted[p] = {}
    BY DEF Init
  <2>2. 0 <= MaxFrames
    BY FramesAreNumbers
  <2> QED  BY <2>1, <2>2 DEF OneChunk
<1>6. KnownOrPending
  <2>1. \A p \in Players : setBy[p] \in FormatSelectors
    BY <1>4 DEF TypeOK
  <2> QED  BY <1>1, <1>2, <2>1 DEF KnownOrPending
<1>7. Counted
  BY DEF Init, Counted, KeptWhileHeld
<1> QED  BY <1>4, <1>5, <1>6, <1>7 DEF IInv

\* Steps that leave the settings and what the host was told alone.
LEMMA SettingsUnchanged ==
  ASSUME IInv, UNCHANGED <<settings, call, host, setBy>>
  PROVE  KnownOrPending'
BY DEF IInv, KnownOrPending, Pending, settings, host

LEMMA SetFramesKeeps ==
  ASSUME FramesAssumption, IInv, NEW t \in Threads, NEW p \in Players,
         NEW requested \in Requests, SetBufferFrameSize(t, p, requested)
  PROVE  IInv'
<1>1. TypeOK'
  <2>1. gBufferFrameSize' \in [Players -> MinFrames .. MaxFrames]
    <3>1. requested \in MinFrames .. MaxFrames
      <4>1. requested >= MinFrames /\ requested <= MaxFrames
        BY DEF SetBufferFrameSize, AcceptsFrames
      <4>2. requested \in Nat /\ MinFrames \in Nat /\ MaxFrames \in Nat
        BY FramesAreNumbers
      <4> QED  BY <4>1, <4>2
    <3> QED  BY <3>1 DEF IInv, TypeOK, SetBufferFrameSize
  <2>2. call' \in [Threads -> Settable \cup {NoCall}]
    BY AddressesAreSettable DEF IInv, TypeOK, SetBufferFrameSize
  <2> QED
    BY <2>1, <2>2 DEF IInv, TypeOK, SetBufferFrameSize, host, io, plugIn
<1>2. OneChunk'
  BY DEF IInv, OneChunk, SetBufferFrameSize, io
<1>3. KnownOrPending'
  <2>1. call' = [call EXCEPT ![t] = FramesOf(p)] /\ call[t] = NoCall
    BY DEF SetBufferFrameSize
  <2>2. \A a \in Settable : Pending(a) => Pending(a)'
    BY <2>1, NoCallIsNoAddress
    DEF Pending, SetBufferFrameSize, host, IInv, TypeOK
  <2>3. Pending(FramesOf(p))'
    BY <2>1 DEF Pending, IInv, TypeOK
  <2>4. \A q \in Players \ {p} : gBufferFrameSize'[q] = gBufferFrameSize[q]
    BY DEF SetBufferFrameSize, IInv, TypeOK
  <2>5. /\ known' = known /\ setBy' = setBy
        /\ gUseFloatFormat' = gUseFloatFormat
    BY DEF SetBufferFrameSize, host
  <2>6. \A q \in Players : setBy[q] \in FormatSelectors
    BY DEF IInv, TypeOK
  <2> QED
    BY <2>2, <2>3, <2>4, <2>5, <2>6, AddressesAreSettable
    DEF IInv, KnownOrPending
<1>4. Counted'
  BY DEF IInv, Counted, KeptWhileHeld, SetBufferFrameSize, plugIn
<1> QED  BY <1>1, <1>2, <1>3, <1>4 DEF IInv

LEMMA SetFormatKeeps ==
  ASSUME IInv, NEW t \in Threads, NEW p \in Players,
         NEW s \in FormatSelectors, NEW requested,
         SetFormat(t, p, s, requested)
  PROVE  IInv'
<1>1. TypeOK'
  <2>1. gUseFloatFormat' \in [Players -> BOOLEAN]
    <3>1. (requested = "float") \in BOOLEAN
      OBVIOUS
    <3> QED  BY <3>1 DEF IInv, TypeOK, SetFormat
  <2>2. call' \in [Threads -> Settable \cup {NoCall}]
    BY AddressesAreSettable DEF IInv, TypeOK, SetFormat
  <2>3. setBy' \in [Players -> FormatSelectors]
    BY DEF IInv, TypeOK, SetFormat
  <2> QED
    BY <2>1, <2>2, <2>3 DEF IInv, TypeOK, SetFormat, host, io, plugIn
<1>2. OneChunk'
  BY DEF IInv, OneChunk, SetFormat, io
<1>3. KnownOrPending'
  <2>1. call' = [call EXCEPT ![t] = FormatOf(p, s)] /\ call[t] = NoCall
    BY DEF SetFormat
  <2>2. \A a \in Settable : Pending(a) => Pending(a)'
    BY <2>1, NoCallIsNoAddress DEF Pending, SetFormat, host, IInv, TypeOK
  <2>3. Pending(FormatOf(p, s))'
    BY <2>1 DEF Pending, IInv, TypeOK
  <2>4. \A q \in Players \ {p} : /\ gUseFloatFormat'[q] = gUseFloatFormat[q]
                                 /\ setBy'[q] = setBy[q]
    BY DEF SetFormat, IInv, TypeOK
  <2>5. setBy'[p] = s
    BY DEF SetFormat, IInv, TypeOK
  <2>6. known' = known /\ gBufferFrameSize' = gBufferFrameSize
    BY DEF SetFormat, host
  <2>7. \A q \in Players : setBy[q] \in FormatSelectors
    BY DEF IInv, TypeOK
  <2> SUFFICES ASSUME NEW q \in Players
               PROVE  /\ \/ known'[FramesOf(q)] = gBufferFrameSize'[q]
                         \/ Pending(FramesOf(q))'
                      /\ \/ known'[FormatOf(q, setBy'[q])] = gUseFloatFormat'[q]
                         \/ Pending(FormatOf(q, setBy[q]))'
    BY DEF KnownOrPending
  <2>8. known'[FramesOf(q)] = gBufferFrameSize'[q] \/ Pending(FramesOf(q))'
    BY <2>2, <2>6, AddressesAreSettable DEF IInv, KnownOrPending
  <2>9. CASE q = p
    BY <2>3, <2>5, <2>8, <2>9
  <2>10. CASE q # p
    <3>1. known[FormatOf(q, setBy[q])] = gUseFloatFormat[q]
          \/ Pending(FormatOf(q, setBy[q]))
      BY DEF IInv, KnownOrPending
    <3>2. /\ gUseFloatFormat'[q] = gUseFloatFormat[q]
          /\ setBy'[q] = setBy[q]
          /\ FormatOf(q, setBy[q]) \in Settable
      BY <2>4, <2>7, <2>10, AddressesAreSettable
    <3> QED  BY <2>2, <2>6, <2>8, <3>1, <3>2
  <2> QED  BY <2>9, <2>10
<1>4. Counted'
  BY DEF IInv, Counted, KeptWhileHeld, SetFormat, plugIn
<1> QED  BY <1>1, <1>2, <1>3, <1>4 DEF IInv

LEMMA NotifyKeeps ==
  ASSUME IInv, NEW t \in Threads, NotifyPropertyChanged(t)
  PROVE  IInv'
<1>1. TypeOK'
  <2>1. call[t] \in Settable
    BY DEF IInv, TypeOK, NotifyPropertyChanged
  <2>2. changed' \subseteq Settable
    BY <2>1 DEF IInv, TypeOK, NotifyPropertyChanged
  <2>3. call' \in [Threads -> Settable \cup {NoCall}]
    BY DEF IInv, TypeOK, NotifyPropertyChanged
  <2> QED
    BY <2>2, <2>3
    DEF IInv, TypeOK, NotifyPropertyChanged, settings, io, plugIn
<1>2. OneChunk'
  BY DEF IInv, OneChunk, NotifyPropertyChanged, io
<1>3. KnownOrPending'
  <2>1. \A a \in Settable : Pending(a) => Pending(a)'
    BY DEF Pending, NotifyPropertyChanged, IInv, TypeOK
  <2>2. \A q \in Players : setBy[q] \in FormatSelectors
    BY DEF IInv, TypeOK
  <2> QED
    BY <2>1, <2>2, AddressesAreSettable
    DEF IInv, KnownOrPending, NotifyPropertyChanged, settings
<1>4. Counted'
  BY DEF IInv, Counted, KeptWhileHeld, NotifyPropertyChanged, plugIn
<1> QED  BY <1>1, <1>2, <1>3, <1>4 DEF IInv

LEMMA HostReadsKeeps ==
  ASSUME IInv, NEW a \in Settable, HostReads(a)
  PROVE  IInv'
<1>0. /\ known' = [known EXCEPT ![a] = Value(a)] /\ DOMAIN known = Settable
      /\ UNCHANGED <<gBufferFrameSize, gUseFloatFormat, call, setBy>>
      /\ changed' = changed \ {a}
  BY DEF HostReads, settings, IInv, TypeOK
<1>1. \A b \in Settable : known'[b] = IF b = a THEN Value(a) ELSE known[b]
  BY <1>0
<1>2. \A p \in Players :
        known'[FramesOf(p)] \in {known[FramesOf(p)], gBufferFrameSize[p]}
  BY <1>1, AddressesAreSettable, ValueOfFrames
<1>3. \A p \in Players, s \in FormatSelectors :
        known'[FormatOf(p, s)] \in {known[FormatOf(p, s)], gUseFloatFormat[p]}
  BY <1>1, AddressesAreSettable, ValueOfFormat
<1>4. TypeOK'
  <2>1. \A p \in Players :
          /\ known'[FramesOf(p)] \in MinFrames .. MaxFrames
          /\ \A s \in FormatSelectors : known'[FormatOf(p, s)] \in BOOLEAN
    BY <1>2, <1>3 DEF IInv, TypeOK
  <2>2. DOMAIN known' = Settable /\ changed' \subseteq Settable
    BY <1>0 DEF IInv, TypeOK
  <2> QED
    BY <1>0, <2>1, <2>2 DEF IInv, TypeOK, HostReads, io, plugIn
<1>5. OneChunk'
  BY DEF IInv, OneChunk, HostReads, io
<1>6. KnownOrPending'
  <2>1. \A b \in Settable : b # a /\ Pending(b) => Pending(b)'
    BY <1>0 DEF Pending
  <2>2. \A p \in Players : known'[FramesOf(p)] = gBufferFrameSize[p]
                           \/ Pending(FramesOf(p))'
    BY <1>1, <2>1, AddressesAreSettable, ValueOfFrames DEF IInv, KnownOrPending
  <2>3. ASSUME NEW p \in Players
        PROVE  known'[FormatOf(p, setBy[p])] = gUseFloatFormat[p]
               \/ Pending(FormatOf(p, setBy[p]))'
    <3>1. setBy[p] \in FormatSelectors /\ FormatOf(p, setBy[p]) \in Settable
      BY AddressesAreSettable DEF IInv, TypeOK
    <3>2. CASE FormatOf(p, setBy[p]) = a
      BY <1>1, <3>1, <3>2, ValueOfFormat
    <3>3. CASE FormatOf(p, setBy[p]) # a
      <4>1. known[FormatOf(p, setBy[p])] = gUseFloatFormat[p]
            \/ Pending(FormatOf(p, setBy[p]))
        BY Zenon DEF IInv, KnownOrPending
      <4>2. known'[FormatOf(p, setBy[p])] = known[FormatOf(p, setBy[p])]
        BY <1>1, <3>1, <3>3
      <4>3. Pending(FormatOf(p, setBy[p])) => Pending(FormatOf(p, setBy[p]))'
        BY <1>0, <3>3 DEF Pending
      <4> QED  BY <4>1, <4>2, <4>3, Zenon
    <3> QED  BY <3>2, <3>3
  <2> QED  BY <1>0, <2>2, <2>3 DEF KnownOrPending
<1>7. Counted'
  BY DEF IInv, Counted, KeptWhileHeld, HostReads, plugIn
<1> QED  BY <1>4, <1>5, <1>6, <1>7 DEF IInv

LEMMA IOKeeps ==
  ASSUME FramesAssumption, IInv, NEW p \in Players,
         BeginIO(p) \/ ConvertChunk(p)
  PROVE  IInv'
<1>1. CASE BeginIO(p)
  <2>1. known[FramesOf(p)] \in MinFrames .. MaxFrames
    BY DEF IInv, TypeOK
  <2>2. /\ remaining' = [remaining EXCEPT ![p] = known[FramesOf(p)]]
        /\ converted' = [converted EXCEPT ![p] = {}]
    BY <1>1 DEF BeginIO
  <2>3. TypeOK' /\ OneChunk'
    BY <1>1, <2>1, <2>2
    DEF BeginIO, IInv, TypeOK, OneChunk, settings, host, plugIn,
        FramesAssumption
  <2>4. KnownOrPending'
    BY <1>1, SettingsUnchanged DEF BeginIO
  <2> QED
    BY <1>1, <2>3, <2>4 DEF IInv, BeginIO, plugIn, Counted, KeptWhileHeld
<1>2. CASE ConvertChunk(p)
  <2>1. converted[p] = {} /\ remaining[p] <= ChunkFrames /\ remaining[p] \in Nat
    BY <1>2, FramesAreNumbers DEF ConvertChunk, IInv, TypeOK, OneChunk
  <2>2. /\ remaining' = [remaining EXCEPT ![p] = 0]
        /\ converted' = [converted EXCEPT ![p] = {CurrentFormat(p)}]
    <3>1. (IF remaining[p] > ChunkFrames THEN remaining[p] - ChunkFrames
                                          ELSE 0) = 0
      BY <2>1, FramesAreNumbers
    <3>2. converted[p] \cup {CurrentFormat(p)} = {CurrentFormat(p)}
      BY <2>1
    <3> QED  BY <1>2, <3>1, <3>2 DEF ConvertChunk
  <2>3. CurrentFormat(p) \in {"float", "int16"}
    BY DEF CurrentFormat
  <2>4. TypeOK' /\ OneChunk'
    BY <1>2, <2>2, <2>3
    DEF ConvertChunk, IInv, TypeOK, OneChunk, settings, host, plugIn,
        FramesAssumption
  <2>5. KnownOrPending'
    BY <1>2, SettingsUnchanged DEF ConvertChunk
  <2> QED
    BY <1>2, <2>4, <2>5 DEF IInv, ConvertChunk, plugIn, Counted, KeptWhileHeld
<1> QED  BY <1>1, <1>2

LEMMA PlugInKeeps ==
  ASSUME IInv, Create \/ QueryInterface \/ Release
  PROVE  IInv'
<1>1. UNCHANGED <<settings, call, host, setBy, io>>
  BY DEF Create, QueryInterface, Release
<1>2. /\ gRefCount' \in Nat /\ held' \in Nat /\ instances' \in Nat
      /\ Counted'
  BY DEF Create, QueryInterface, Release, AddRef, IInv, TypeOK, Counted,
         KeptWhileHeld
<1>3. TypeOK' /\ OneChunk'
  BY <1>1, <1>2 DEF IInv, TypeOK, OneChunk, settings, host, io
<1> QED  BY <1>1, <1>2, <1>3, SettingsUnchanged DEF IInv

LEMMA NextIInv == FramesAssumption /\ IInv /\ [Next]_vars => IInv'
<1> SUFFICES ASSUME FramesAssumption, IInv, [Next]_vars  PROVE IInv'
  OBVIOUS
<1>1. CASE \E t \in Threads, p \in Driven : SetPropertyData(t, p)
  <2>1. Driven \subseteq Players
    BY FramesAreNumbers
  <2> QED
    BY <1>1, <2>1, SetFramesKeeps, SetFormatKeeps DEF SetPropertyData
<1>2. CASE \E t \in Threads : NotifyPropertyChanged(t)
  BY <1>2, NotifyKeeps
<1>3. CASE \E a \in Settable : HostReads(a)
  BY <1>3, HostReadsKeeps
<1>4. CASE \E p \in Driven : BeginIO(p) \/ ConvertChunk(p)
  <2>1. Driven \subseteq Players
    BY FramesAreNumbers
  <2> QED  BY <1>4, <2>1, IOKeeps
<1>5. CASE Create \/ QueryInterface \/ Release
  BY <1>5, PlugInKeeps
<1>6. CASE UNCHANGED vars
  <2>1. TypeOK' /\ OneChunk' /\ Counted'
    BY <1>6 DEF vars, settings, host, io, plugIn, IInv, TypeOK, OneChunk,
                Counted, KeptWhileHeld
  <2> QED  BY <1>6, <2>1, SettingsUnchanged DEF vars, IInv
<1> QED  BY <1>1, <1>2, <1>3, <1>4, <1>5, <1>6 DEF Next

-----------------------------------------------------------------------------
\* The settings, the calls under way and what the host knows have their types.
THEOREM TypeCorrect == Spec => []TypeOK
<1>1. IInv => TypeOK
  BY DEF IInv
<1> QED  BY <1>1, InitIInv, NextIInv, FramesAssumption, PTL DEF Spec

\* A call of the host fills its buffer in one format, for every limit of the
\* buffer size that fits the scratch buffer.
THEOREM CallsKeepOneFormat == Spec => []OneFormatPerCall
<1>1. IInv => OneFormatPerCall
  <2> SUFFICES ASSUME IInv, NEW p \in Players
               PROVE  Cardinality(converted[p]) <= 1
    BY DEF OneFormatPerCall
  <2>1. converted[p] \in {{}, {"float"}, {"int16"}}
    BY DEF IInv, OneChunk
  <2>2. Cardinality({}) = 0
    BY FS_EmptySet
  <2>3. Cardinality({"float"}) = 1 /\ Cardinality({"int16"}) = 1
    BY FS_Singleton
  <2>4. CASE converted[p] = {}
    BY <2>2, <2>4
  <2>5. CASE converted[p] = {"float"}
    BY <2>3, <2>5
  <2>6. CASE converted[p] = {"int16"}
    BY <2>3, <2>6
  <2> QED  BY <2>1, <2>4, <2>5, <2>6
<1> QED  BY <1>1, InitIInv, NextIInv, FramesAssumption, PTL DEF Spec

\* When nothing is under way the host knows what was set, whatever number of
\* threads set it at once.
THEOREM HostGetsToKnow == Spec => []HostIsUpToDate
<1>1. IInv => HostIsUpToDate
  <2> SUFFICES ASSUME IInv, changed = {}, \A t \in Threads : call[t] = NoCall,
                      NEW p \in Players
               PROVE  \A a \in {FramesOf(p), FormatOf(p, setBy[p])} :
                        known[a] = Value(a)
    BY DEF HostIsUpToDate
  <2>1. setBy[p] \in FormatSelectors
    BY DEF IInv, TypeOK
  <2>2. ~Pending(FramesOf(p)) /\ ~Pending(FormatOf(p, setBy[p]))
    BY <2>1, AddressesAreSettable, NoCallIsNoAddress DEF Pending
  <2>3. known[FramesOf(p)] = Value(FramesOf(p))
    BY <2>2, ValueOfFrames DEF IInv, KnownOrPending
  <2>4. known[FormatOf(p, setBy[p])] = Value(FormatOf(p, setBy[p]))
    BY <2>1, <2>2, ValueOfFormat DEF IInv, KnownOrPending
  <2> QED  BY <2>3, <2>4
<1> QED  BY <1>1, InitIInv, NextIInv, FramesAssumption, PTL DEF Spec

\* The factory keeps the plug-in while somebody holds a reference.
THEOREM PlugInIsKept == Spec => []KeptWhileHeld
<1>1. IInv => KeptWhileHeld
  BY DEF IInv, Counted
<1> QED  BY <1>1, InitIInv, NextIInv, FramesAssumption, PTL DEF Spec

-----------------------------------------------------------------------------
(* The tables: each kind of selector has one size, whichever function       *)
(* tells it, and each object lists the objects that it owns.                *)

LEMMA ObjectKinds ==
  \A object \in 0 .. 6 :
    /\ IsDevice(object) <=> object \in {2, 4}
    /\ IsStream(object) <=> object \in {3, 5}
    /\ HasObject(object) <=> object \in 1 .. 5
BY DEF IsDevice, IsStream, HasObject, PlayersOf, DeviceObjectIDs,
       StreamObjectIDs, Players, PlugIn

LEMMA StringSizes ==
  ASSUME NEW selector \in Strings, NEW object, NEW scope
  PROVE  /\ PropertyDataSize(object, selector, scope) = 8
         /\ WrittenSize(object, selector, scope) = 8
BY DEF Strings, Scalars, Translations, PropertyDataSize, WrittenSize, StringSize

LEMMA ScalarSizes ==
  ASSUME NEW selector \in Scalars, NEW object, NEW scope
  PROVE  /\ PropertyDataSize(object, selector, scope) = 4
         /\ WrittenSize(object, selector, scope) = 4
BY DEF Strings, Scalars, Translations, PropertyDataSize, WrittenSize, UInt32Size, ObjectIDSize

LEMMA TranslationSizes ==
  ASSUME NEW selector \in Translations, NEW object, NEW scope
  PROVE  /\ PropertyDataSize(object, selector, scope) = 4
         /\ WrittenSize(object, selector, scope) = 4
BY DEF Strings, Scalars, Translations, PropertyDataSize, WrittenSize, ObjectIDSize

\* The selectors that are neither strings, scalars nor translations.
Structures ==
  {"NominalSampleRate", "AvailableNominalSampleRates", "BufferFrameSizeRange",
   "VirtualFormat", "PhysicalFormat", "AvailableVirtualFormats",
   "AvailablePhysicalFormats"}

LEMMA StructureSizes ==
  ASSUME NEW selector \in Structures, NEW object, NEW scope
  PROVE  /\ PropertyDataSize(object, selector, scope) \in 8 .. 112
         /\ WrittenSize(object, selector, scope) =
              PropertyDataSize(object, selector, scope)
<1>1. /\ Float64Size = 8 /\ RangeSize = 16 /\ FormatSize = 40
      /\ 2 * RangedSize = 112
  BY DEF Float64Size, RangeSize, FormatSize, RangedSize
<1>2. /\ selector \notin Strings /\ selector \notin Scalars
      /\ selector \notin Translations
  BY DEF Structures, Strings, Scalars, Translations
<1>3. \/ selector = "NominalSampleRate"
      \/ selector \in {"AvailableNominalSampleRates", "BufferFrameSizeRange"}
      \/ selector \in {"VirtualFormat", "PhysicalFormat"}
      \/ selector \in {"AvailableVirtualFormats", "AvailablePhysicalFormats"}
  BY DEF Structures
<1>4. /\ PropertyDataSize(object, selector, scope) \in {8, 16, 40, 112}
      /\ WrittenSize(object, selector, scope) =
           PropertyDataSize(object, selector, scope)
  BY <1>1, <1>2, <1>3 DEF PropertyDataSize, WrittenSize
<1> QED  BY <1>4

Lists ==
  {"OwnedObjects", "CustomPropertyInfoList", "DeviceList", "BoxList",
   "ClockDeviceList", "ControlList", "Streams", "StreamConfiguration"}

LEMMA ListSizes ==
  ASSUME NEW selector \in Lists, NEW object \in 0 .. 6, NEW scope \in Scopes
  PROVE  /\ PropertyDataSize(object, selector, scope) \in 0 .. 112
         /\ WrittenSize(object, selector, scope) =
              PropertyDataSize(object, selector, scope)
<1>1. /\ OwnedObjectsSize(object) \in {0, 4, 8}
      /\ CustomInfoSize(object) = 0
      /\ ObjectIDSize * Len(DeviceObjectIDs) = 8
      /\ StreamConfigurationSize(scope) \in {8, 24}
  BY DEF OwnedObjectsSize, CustomInfoSize, ObjectIDSize, DeviceObjectIDs,
         StreamConfigurationSize, BufferListSize, EmptyBufferListSize
<1>2. /\ selector \notin Strings /\ selector \notin Scalars
      /\ selector \notin Translations
  BY DEF Lists, Strings, Scalars, Translations
<1> QED  BY <1>1, <1>2 DEF Lists, PropertyDataSize, WrittenSize, ObjectIDSize

LEMMA SelectorKinds ==
  Selectors = Strings \cup Scalars \cup Translations \cup Structures \cup Lists
BY DEF Selectors, Strings, Scalars, Translations, Structures, Lists,
       PlugInProperties, DeviceProperties, StreamProperties, ObjectProperties

LEMMA Sizes ==
  ASSUME NEW object \in 0 .. 6, NEW selector \in Selectors,
         NEW scope \in Scopes
  PROVE  /\ PropertyDataSize(object, selector, scope) \in 0 .. 112
         /\ WrittenSize(object, selector, scope) =
              PropertyDataSize(object, selector, scope)
BY SelectorKinds, StringSizes, ScalarSizes, TranslationSizes, StructureSizes,
   ListSizes

LEMMA Announced == AnnouncedIsWritten
<1> SUFFICES ASSUME NEW object \in 0 .. 6, NEW selector \in Selectors,
                    NEW scope \in Scopes, NEW qualified \in BOOLEAN
             PROVE  LET size == GetPropertyDataSize(object, selector, scope,
                                                    qualified)
                        Get(n) == GetPropertyData(object, selector, scope,
                                                  qualified, n)
                    IN IF size = NoSize
                       THEN /\ Get(RangedSize * 2) = NoSize
                            /\ \/ ~HasProperty(object, selector)
                               \/ selector \in Translations
                       ELSE /\ HasProperty(object, selector)
                            /\ Get(size) = size
                            /\ size > 0 => Get(size - 1) = NoSize
  BY DEF AnnouncedIsWritten
<1> DEFINE bytes == PropertyDataSize(object, selector, scope)
           answers == HasProperty(object, selector)
                      /\ (selector \in Translations => qualified)
<1>1. bytes \in 0 .. 112 /\ WrittenSize(object, selector, scope) = bytes
  BY Sizes
<1>2. GetPropertyDataSize(object, selector, scope, qualified) =
        IF answers THEN bytes ELSE NoSize
  BY DEF GetPropertyDataSize
<1>3. ASSUME NEW n
      PROVE  GetPropertyData(object, selector, scope, qualified, n) =
               IF answers /\ n >= bytes THEN bytes ELSE NoSize
  BY <1>1 DEF GetPropertyData
<1>4. CASE answers
  <2>1. /\ GetPropertyDataSize(object, selector, scope, qualified) = bytes
        /\ bytes # NoSize
    BY <1>1, <1>2, <1>4 DEF NoSize
  <2>2. GetPropertyData(object, selector, scope, qualified, bytes) = bytes
    BY <1>1, <1>3, <1>4
  <2>3. GetPropertyData(object, selector, scope, qualified, bytes - 1) = NoSize
    BY <1>1, <1>3
  <2> QED BY <1>4, <2>1, <2>2, <2>3
<1>5. CASE ~answers
  BY <1>2, <1>3, <1>5
<1> QED  BY <1>4, <1>5

LEMMA PlugInLists ==
  ASSUME NEW selector \in {"OwnedObjects", "DeviceList"}, NEW scope \in Scopes
  PROVE  ObjectLists(PlugIn, selector, scope) = <<2, 4>>
BY DEF ObjectLists, PlugIn, IsDevice, PlayersOf, DeviceObjectIDs, Players

LEMMA DeviceLists ==
  ASSUME NEW p \in Players, NEW scope \in Scopes
  PROVE  /\ ObjectLists(DeviceObjectIDs[p], "OwnedObjects", scope) =
              <<StreamObjectIDs[p]>>
         /\ ObjectLists(DeviceObjectIDs[p], "Streams", scope) =
             IF IsInput(scope) THEN <<StreamObjectIDs[p]>> ELSE <<>>
<1>1. IsDevice(DeviceObjectIDs[p]) /\ DeviceObjectIDs[p] # PlugIn
  BY DEF IsDevice, PlayersOf, PlugIn, Players, DeviceObjectIDs
<1> QED  BY <1>1, PlayerOfAddress DEF ObjectLists

LEMMA Owners ==
  \A o \in 0 .. 6 : HasObject(o) =>
    OwnerForObject(o) = IF o = 1 THEN 0 ELSE IF o \in {2, 4} THEN 1 ELSE o - 1
<1> SUFFICES ASSUME NEW o \in 0 .. 6, HasObject(o)
             PROVE  OwnerForObject(o) = IF o = 1 THEN 0
                                        ELSE IF o \in {2, 4} THEN 1 ELSE o - 1
  OBVIOUS
<1>1. CASE o \in {1, 2, 4}
  BY <1>1, ObjectKinds DEF OwnerForObject, PlugIn, Unknown
<1>2. CASE o \in {3, 5}
  <2>1. PICK p \in Players : o = StreamObjectIDs[p]
    BY <1>2 DEF StreamObjectIDs, Players
  <2>2. OwnerForObject(o) = DeviceObjectIDs[p]
    BY <1>2, <2>1, ObjectKinds, PlayerOfAddress DEF OwnerForObject
  <2> QED BY <2>1, <2>2 DEF StreamObjectIDs, DeviceObjectIDs, Players
<1> QED  BY <1>1, <1>2, ObjectKinds

Owned(object) == {o \in 0 .. 6 : HasObject(o) /\ OwnerForObject(o) = object}

LEMMA OwnedByPlugIn == Owned(PlugIn) = {2, 4}
BY Owners, ObjectKinds DEF Owned, PlugIn

LEMMA OwnedByDevice ==
  ASSUME NEW p \in Players
  PROVE  Owned(DeviceObjectIDs[p]) = {StreamObjectIDs[p]}
<1>1. CASE p = 1
  BY <1>1, Owners, ObjectKinds DEF Owned, DeviceObjectIDs, StreamObjectIDs
<1>2. CASE p = 2
  BY <1>2, Owners, ObjectKinds DEF Owned, DeviceObjectIDs, StreamObjectIDs
<1> QED  BY <1>1, <1>2 DEF Players

LEMMA ListSelectors ==
  ASSUME NEW object \in 0 .. 6,
         NEW selector \in {"OwnedObjects", "DeviceList", "Streams"},
         HasProperty(object, selector)
  PROVE  \/ object = PlugIn /\ selector # "Streams"
         \/ /\ \E p \in Players : object = DeviceObjectIDs[p]
            /\ selector # "DeviceList"
<1>1. "Streams" \notin PlugInProperties
  BY DEF PlugInProperties, ObjectProperties, Translations
<1>2. "DeviceList" \notin DeviceProperties
  BY DEF DeviceProperties, ObjectProperties
<1>3. selector \notin StreamProperties
  BY DEF StreamProperties, ObjectProperties
<1>4. IsDevice(object) => \E p \in Players : object = DeviceObjectIDs[p]
  BY DEF IsDevice, PlayersOf
<1> QED  BY <1>1, <1>2, <1>3, <1>4 DEF HasProperty

LEMMA ListedSizes ==
  ASSUME NEW object, NEW scope
  PROVE  /\ PropertyDataSize(object, "OwnedObjects", scope) =
              OwnedObjectsSize(object)
         /\ PropertyDataSize(object, "DeviceList", scope) = 8
         /\ PropertyDataSize(object, "Streams", scope) =
              IF IsInput(scope) THEN 4 ELSE 0
BY DEF PropertyDataSize, Strings, Scalars, Translations, ObjectIDSize,
       DeviceObjectIDs

LEMMA ListsAgree ==
  ASSUME NEW object \in 0 .. 6,
         NEW selector \in {"OwnedObjects", "DeviceList", "Streams"},
         NEW scope \in Scopes, HasProperty(object, selector)
  PROVE  LET list == ObjectLists(object, selector, scope)
             ids  == {list[i] : i \in DOMAIN list}
         IN /\ ids \subseteq Owned(object)
            /\ selector # "Streams" => ids = Owned(object)
            /\ PropertyDataSize(object, selector, scope) =
                 ObjectIDSize * Len(list)
            /\ selector = "Streams" => StreamBuffers(scope) = Len(list)
<1> DEFINE list == ObjectLists(object, selector, scope)
           ids  == {list[i] : i \in DOMAIN list}
<1>1. CASE object = PlugIn /\ selector # "Streams"
  <2>1. list = <<2, 4>>
    BY <1>1, PlugInLists
  <2>2. ids = {2, 4}
    BY <2>1
  <2>3. PropertyDataSize(object, selector, scope) = 8
    BY <1>1, ListedSizes DEF OwnedObjectsSize, ObjectIDSize, DeviceObjectIDs
  <2> QED  BY <1>1, <2>1, <2>2, <2>3, OwnedByPlugIn DEF ObjectIDSize
<1>2. ASSUME NEW p \in Players, object = DeviceObjectIDs[p],
             selector # "DeviceList"
      PROVE  /\ ids \subseteq Owned(object)
             /\ selector # "Streams" => ids = Owned(object)
             /\ PropertyDataSize(object, selector, scope) =
                  ObjectIDSize * Len(list)
             /\ selector = "Streams" => StreamBuffers(scope) = Len(list)
  <2>1. Owned(object) = {StreamObjectIDs[p]}
    BY <1>2, OwnedByDevice
  <2>2. CASE selector = "Streams" /\ ~IsInput(scope)
    <3>1. list = <<>>
      BY <1>2, <2>2, DeviceLists
    <3>2. ids = {}
      BY <3>1
    <3> QED  BY <2>2, <3>1, <3>2, ListedSizes DEF StreamBuffers, ObjectIDSize
  <2>3. CASE selector = "OwnedObjects" \/ IsInput(scope)
    <3>1. list = <<StreamObjectIDs[p]>>
      BY <1>2, <2>3, DeviceLists
    <3>2. ids = {StreamObjectIDs[p]} /\ Len(list) = 1
      BY <3>1
    <3>3. OwnedObjectsSize(object) = 4
      BY <1>2 DEF OwnedObjectsSize, IsDevice, PlayersOf, PlugIn, Players,
                  DeviceObjectIDs, ObjectIDSize
    <3>4. PropertyDataSize(object, selector, scope) = 4
      BY <1>2, <2>3, <3>3, ListedSizes
    <3> QED
      BY <1>2, <2>1, <2>3, <3>2, <3>4 DEF StreamBuffers, ObjectIDSize
  <2> QED  BY <1>2, <2>2, <2>3
<1> QED  BY <1>1, <1>2, ListSelectors

LEMMA ListedAreOwned == OwnersListTheirs
<1>1. \A p \in Players : TranslateUIDToDevice(DeviceUID(p)) = DeviceObjectIDs[p]
  BY DEF TranslateUIDToDevice, DeviceUID, Players
<1> QED  BY <1>1, ListsAgree DEF OwnersListTheirs, Owned

LEMMA SettableAddresses ==
  ASSUME NEW object \in 0 .. 6, NEW selector \in Selectors
  PROVE  IsPropertySettable(object, selector) <=>
           \/ IsDevice(object) /\ selector = "BufferFrameSize"
           \/ IsStream(object) /\ selector \in FormatSelectors
<1>1. /\ "BufferFrameSize" \in DeviceProperties
      /\ FormatSelectors \subseteq StreamProperties
  BY DEF DeviceProperties, StreamProperties, FormatSelectors
<1> QED  BY <1>1 DEF IsPropertySettable, HasProperty, FormatSelectors

LEMMA SettableIsSaid == Settable = SaidToBeSettable
<1>1. /\ "BufferFrameSize" \in Selectors /\ FormatSelectors \subseteq Selectors
      /\ \A p \in Players : /\ DeviceObjectIDs[p] \in 0 .. 6
                            /\ StreamObjectIDs[p] \in 0 .. 6
                            /\ IsDevice(DeviceObjectIDs[p])
                            /\ IsStream(StreamObjectIDs[p])
  BY DEF Selectors, DeviceProperties, StreamProperties, FormatSelectors, Players,
         DeviceObjectIDs, StreamObjectIDs, IsDevice, IsStream, PlayersOf
<1>2. ASSUME NEW p \in Players
      PROVE  /\ FramesOf(p) \in SaidToBeSettable
             /\ \A s \in FormatSelectors : FormatOf(p, s) \in SaidToBeSettable
  BY <1>1, <1>2, SettableAddresses DEF FramesOf, FormatOf, SaidToBeSettable
<1>3. ASSUME NEW object \in 0 .. 6, NEW selector \in Selectors,
             IsPropertySettable(object, selector)
      PROVE  <<object, selector>> \in Settable
  <2>1. CASE IsDevice(object) /\ selector = "BufferFrameSize"
    <3>1. PICK p \in Players : object = DeviceObjectIDs[p]
      BY <2>1 DEF IsDevice, PlayersOf
    <3> QED  BY <2>1, <3>1, AddressesAreSettable DEF FramesOf
  <2>2. CASE IsStream(object) /\ selector \in FormatSelectors
    <3>1. PICK p \in Players : object = StreamObjectIDs[p]
      BY <2>2 DEF IsStream, PlayersOf
    <3> QED  BY <2>2, <3>1, AddressesAreSettable DEF FormatOf
  <2> QED  BY <1>3, <2>1, <2>2, SettableAddresses
<1>4. Settable \subseteq SaidToBeSettable
  BY <1>2 DEF Settable
<1>5. SaidToBeSettable \subseteq Settable
  <2> SUFFICES ASSUME NEW a \in SaidToBeSettable  PROVE a \in Settable
    OBVIOUS
  <2>1. /\ a = <<a[1], a[2]>> /\ a[1] \in 0 .. 6 /\ a[2] \in Selectors
        /\ IsPropertySettable(a[1], a[2])
    BY DEF SaidToBeSettable
  <2>2. <<a[1], a[2]>> \in Settable
    BY <1>3, <2>1
  <2> QED  BY <2>1, <2>2
<1> QED  BY <1>4, <1>5

\* What is advertised can be read, to its last byte and for every object,
\* selector and scope, and so can every address that the host is told of.
THEOREM AdvertisedIsRead == Spec => []SizesAgree
<1>1. IInv => SizesAgree
  <2> SUFFICES ASSUME IInv, NEW a \in changed, NEW scope \in Scopes
               PROVE  GetPropertyDataSize(a[1], a[2], scope, FALSE) # NoSize
    BY Announced DEF SizesAgree
  <2>1. a \in SaidToBeSettable
    BY SettableIsSaid DEF IInv, TypeOK
  <2>2. /\ a[1] \in 0 .. 6 /\ a[2] \in Selectors
        /\ IsPropertySettable(a[1], a[2])
    BY <2>1 DEF SaidToBeSettable
  <2>3. HasProperty(a[1], a[2]) /\ a[2] \notin Translations
    BY <2>2, SettableAddresses
       DEF IsPropertySettable, FormatSelectors, Translations
  <2>4. PropertyDataSize(a[1], a[2], scope) \in 0 .. 112
    BY <2>2, Sizes
  <2> QED  BY <2>3, <2>4 DEF GetPropertyDataSize, NoSize
<1> QED  BY <1>1, InitIInv, NextIInv, FramesAssumption, PTL DEF Spec

\* The objects form the tree that their owners say, and the host is told of
\* settable addresses only.
THEOREM TreeIsAgreed == Spec => []ObjectTreeAgrees
<1>1. IInv => ObjectTreeAgrees
  BY ListedAreOwned, SettableIsSaid DEF IInv, TypeOK, ObjectTreeAgrees
<1> QED  BY <1>1, InitIInv, NextIInv, FramesAssumption, PTL DEF Spec
=============================================================================
