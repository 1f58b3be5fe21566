---------------------------- MODULE DriverTables ----------------------------
(***************************************************************************)
(* The tables behind the driver's properties: which object has which       *)
(* property, how many bytes GetPropertyDataSize announces, how many bytes  *)
(* GetPropertyData writes and, where two properties must tell the same     *)
(* story, what it writes.  A selector is named by its constant without the *)
(* prefix; the stream's latency has the device's selector.                 *)
(***************************************************************************)
EXTENDS Integers, Sequences

Players == 1 .. 2

PlugIn          == 1
DeviceObjectIDs == <<2, 4>>
StreamObjectIDs == <<3, 5>>
Unknown         == 0

Scopes == {"global", "input", "output", "playThrough"}

PlayersOf(ids, object) == {p \in Players : ids[p] = object}
IsDevice(object)  == PlayersOf(DeviceObjectIDs, object) # {}
IsStream(object)  == PlayersOf(StreamObjectIDs, object) # {}
HasObject(object) == object = PlugIn \/ IsDevice(object) \/ IsStream(object)

PlayerForObject(object) ==
  CHOOSE p \in Players : object \in {DeviceObjectIDs[p], StreamObjectIDs[p]}

OwnerForObject(object) ==
  IF IsDevice(object) THEN PlugIn
  ELSE IF IsStream(object) THEN DeviceObjectIDs[PlayerForObject(object)]
  ELSE Unknown

-----------------------------------------------------------------------------
(* Which properties an object has.                                         *)

ObjectProperties == {"BaseClass", "Class", "Owner", "Name", "Manufacturer"}

Translations ==
  {"TranslateUIDToDevice", "TranslateUIDToBox", "TranslateUIDToClockDevice"}

PlugInProperties ==
  ObjectProperties \cup Translations \cup
  {"OwnedObjects", "CustomPropertyInfoList", "BundleID", "ResourceBundle",
   "DeviceList", "BoxList", "ClockDeviceList"}

DeviceProperties ==
  ObjectProperties \cup
  {"ModelName", "OwnedObjects", "DeviceUID", "ModelUID", "TransportType",
   "ClockDomain", "DeviceIsAlive", "DeviceIsRunning", "DeviceCanBeDefaultDevice",
   "DeviceCanBeDefaultSystemDevice", "Latency", "Streams", "ControlList",
   "SafetyOffset", "NominalSampleRate", "AvailableNominalSampleRates",
   "IsHidden", "BufferFrameSize", "BufferFrameSizeRange",
   "UsesVariableBufferFrameSizes", "StreamConfiguration",
   "ZeroTimeStampPeriod", "ClockAlgorithm", "ClockIsStable"}

StreamProperties ==
  ObjectProperties \cup
  {"IsActive", "Direction", "TerminalType", "StartingChannel", "Latency",
   "VirtualFormat", "AvailableVirtualFormats", "PhysicalFormat",
   "AvailablePhysicalFormats"}

Selectors == PlugInProperties \cup DeviceProperties \cup StreamProperties

HasProperty(object, selector) ==
  \/ object = PlugIn /\ selector \in PlugInProperties
  \/ IsDevice(object) /\ selector \in DeviceProperties
  \/ IsStream(object) /\ selector \in StreamProperties

IsPropertySettable(object, selector) ==
  /\ HasProperty(object, selector)
  /\ \/ IsDevice(object) /\ selector = "BufferFrameSize"
     \/ IsStream(object) /\ selector \in {"VirtualFormat", "PhysicalFormat"}

-----------------------------------------------------------------------------
(* How many bytes.                                                         *)

UInt32Size          == 4
ObjectIDSize        == 4
StringSize          == 8
Float64Size         == 8
RangeSize           == 16
FormatSize          == 40
RangedSize          == 56
BufferListSize      == 24
EmptyBufferListSize == 8

IsInput(scope) == scope \in {"input", "global"} /\ scope # "output"

StreamConfigurationSize(scope) ==
  IF IsInput(scope) THEN BufferListSize ELSE EmptyBufferListSize

Strings ==
  {"Name", "ModelName", "Manufacturer", "DeviceUID", "ModelUID", "BundleID",
   "ResourceBundle"}

Scalars ==
  {"BaseClass", "Class", "Owner", "TransportType", "DeviceIsAlive",
   "ClockDomain", "DeviceIsRunning", "DeviceCanBeDefaultDevice",
   "DeviceCanBeDefaultSystemDevice", "Latency", "SafetyOffset", "IsHidden",
   "BufferFrameSize", "UsesVariableBufferFrameSizes", "ZeroTimeStampPeriod",
   "ClockAlgorithm", "ClockIsStable", "IsActive", "Direction", "TerminalType",
   "StartingChannel"}

OwnedObjectsSize(object) ==
  IF object = PlugIn THEN ObjectIDSize * Len(DeviceObjectIDs)
  ELSE IF IsDevice(object) THEN ObjectIDSize ELSE 0

\* Mutant of CustomInfoSize: the size of the owned objects is not reset.
CustomInfoAsObjects(object) == OwnedObjectsSize(object)

\* It shares the case of the owned objects, and is then set to 0.
CustomInfoSize(object) == 0

\* propertyDataSize.
PropertyDataSize(object, selector, scope) ==
  CASE selector \in Strings -> StringSize
    [] selector \in Scalars -> UInt32Size
    [] selector = "NominalSampleRate" -> Float64Size
    [] selector \in {"AvailableNominalSampleRates", "BufferFrameSizeRange"} ->
         RangeSize
    [] selector \in {"VirtualFormat", "PhysicalFormat"} -> FormatSize
    [] selector \in {"AvailableVirtualFormats", "AvailablePhysicalFormats"} ->
         2 * RangedSize
    [] selector = "OwnedObjects" -> OwnedObjectsSize(object)
    [] selector = "CustomPropertyInfoList" -> CustomInfoSize(object)
    [] selector = "DeviceList" -> ObjectIDSize * Len(DeviceObjectIDs)
    [] selector \in {"BoxList", "ClockDeviceList", "ControlList"} -> 0
    [] selector \in Translations -> ObjectIDSize
    [] selector = "Streams" -> IF IsInput(scope) THEN ObjectIDSize ELSE 0
    [] selector = "StreamConfiguration" -> StreamConfigurationSize(scope)

\* GetPropertyDataSize: the size, or that there is an error.  The qualifier is
\* the string that a translation starts from.
NoSize == -1

GetPropertyDataSize(object, selector, scope, qualified) ==
  IF HasProperty(object, selector) /\ (selector \in Translations => qualified)
  THEN PropertyDataSize(object, selector, scope) ELSE NoSize

\* What the cases of GetPropertyData write, by the type that each writes.
WrittenSize(object, selector, scope) ==
  CASE selector \in Strings -> StringSize
    [] selector \in {"BaseClass", "Class", "Owner"} -> ObjectIDSize
    [] selector \in {"DeviceList", "OwnedObjects"} ->
         PropertyDataSize(object, selector, scope)
    [] selector \in {"BoxList", "ClockDeviceList", "ControlList",
                     "CustomPropertyInfoList"} -> 0
    [] selector \in Translations -> ObjectIDSize
    [] selector \in {"DeviceIsAlive", "ClockIsStable", "IsActive",
                     "DeviceIsRunning", "DeviceCanBeDefaultDevice",
                     "DeviceCanBeDefaultSystemDevice", "IsHidden", "Latency",
                     "SafetyOffset", "UsesVariableBufferFrameSizes",
                     "TransportType", "ClockDomain", "BufferFrameSize",
                     "ZeroTimeStampPeriod", "ClockAlgorithm", "Direction",
                     "TerminalType", "StartingChannel"} -> UInt32Size
    [] selector = "NominalSampleRate" -> Float64Size
    [] selector \in {"AvailableNominalSampleRates", "BufferFrameSizeRange"} ->
         RangeSize
    [] selector = "Streams" -> IF IsInput(scope) THEN ObjectIDSize ELSE 0
    [] selector = "StreamConfiguration" -> StreamConfigurationSize(scope)
    [] selector \in {"VirtualFormat", "PhysicalFormat"} -> FormatSize
    [] selector \in {"AvailableVirtualFormats", "AvailablePhysicalFormats"} ->
         2 * RangedSize

\* GetPropertyData: the bytes that it writes into a buffer of inDataSize bytes,
\* or that it refuses.
GetPropertyData(object, selector, scope, qualified, inDataSize) ==
  IF /\ HasProperty(object, selector)
     /\ selector \in Translations => qualified
     /\ inDataSize >= WrittenSize(object, selector, scope)
  THEN WrittenSize(object, selector, scope) ELSE NoSize

-----------------------------------------------------------------------------
(* What is written, where several properties tell of the same thing.       *)

DeviceUID(player) == <<"device uid", player>>

ObjectLists(object, selector, scope) ==
  CASE object = PlugIn /\ selector \in {"OwnedObjects", "DeviceList"} ->
         DeviceObjectIDs
    [] IsDevice(object) /\ selector = "OwnedObjects" ->
         <<StreamObjectIDs[PlayerForObject(object)]>>
    [] IsDevice(object) /\ selector = "Streams" ->
         IF IsInput(scope) THEN <<StreamObjectIDs[PlayerForObject(object)]>>
                           ELSE <<>>

TranslateUIDToDevice(uid) ==
  IF uid = DeviceUID(1) THEN DeviceObjectIDs[1]
  ELSE IF uid = DeviceUID(2) THEN DeviceObjectIDs[2] ELSE Unknown

\* Mutant of StreamBuffers: the output scope has a buffer too.
StreamBuffersEverywhere(scope) == 1

\* The number of buffers in a device's stream configuration.
StreamBuffers(scope) == IF IsInput(scope) THEN 1 ELSE 0

AvailableFormats == <<"float", "int16">>
=============================================================================
