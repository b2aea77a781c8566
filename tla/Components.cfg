SPECIFICATION ComponentsSpec
CONSTANTS
  Length = 3
  MaxFragments = 3
  MaxHops = 1
  NoCdr = NoCdr
  I32Max = 8
  U16Max = 3
  Infinity = 3
  HundredMillis = 1
  Depths <- SmallDepths
  Bounds <- SmallBounds
  Durations = {2, 4}
  Foreign <- SmallForeign
  NotSet = NotSet
  MaxCallbacks = 2
  MaxEvents = 1
  Null = Null
  Types = {1, 2, 3}
  Root = 1
  Names = {1, 2, 3}
  Texts = {0, 1}
  Programs <- ThreeTypes
  Structs <- SmallStructs
  TopicIds = {11, 12}
  KeyValues = {1, 2, 3}
  Murmur <- SmallMurmur
  MaxHeld = 2
  QosObjects = {1, 2, 3}
  QosNames = {"p", "q"}
  PropertyLists <- SmallProperties
  MaxSet = 3
  Modes <- SmallModes
  Definitions <- SmallDefinitions
  MaxCount = 3
  MaxBoxes = 5
  Sizes = {4, 8, 12}
  WaitReaders = {"r1", "r2"}
  WaitConditions = {"k"}
  ReaderOf <- SmallReaderOf
  WaitArguments = {"x", "y"}
  Masks = {"m"}
  WireBytes = {0, 1, 23, 24, 25, 27, 28, 31, 40}
  UsizeMax = 100
  Nanos = {1, 2, 5}
  MaxLatencies = 5
  Warmup = 1
  Measured = 2
  CommitIds = {1, 2}
  RunIds = {0, 12, 13}
  PathComponent <- SmallPathComponent
  NoName = 0
  SiteTimes = {1, 2}
  Results <- SmallResults
  Transports = {"udp", "shm"}
  NoMetric = NoMetric
  Missing = Missing
  Broken = Broken
  Mangled = Mangled
  CHART_LIMIT = 2
  MaxBuilds = 3
  MaxCrashes = 1
  MaxChanges = 5
INVARIANTS
  AssemblySound
  QosSound
  HandlesSound
  ChainSound
  DefinitionsSound
  DerivesAgree
  CopyServes
  EventsRouted
  TextsResolve
  ArraysSound
  WaitSound
  ReportSound
  SiteSound
  StatusesTold
CHECK_DEADLOCK FALSE
