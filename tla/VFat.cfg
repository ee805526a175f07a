SPECIFICATION Spec
CONSTANTS
  h1 = h1
  h2 = h2
  n1 = n1
  n2 = n2
  NoName = NoName
  Unknown = Unknown
  Host = {h1, h2}
  Protected = {}
  Value = {0, 1}
  Zero = 0
  Slots = 2
  Clusters = 2
  ClusterSize = 2
  SizeMod = 16
  FatName = {n1, n2}
  ToFat <- MCToFat
  ToHost <- MCToHost
  StartFiles <- MCStart
  MaxStored = 3
INVARIANTS
  TypeOK
  ChannelAgrees
  PendingIsLast
PROPERTIES
  ServedByOwner
  BrokenMeansLoop
  ImplementsSectorDisk
VIEW View
CONSTRAINT StoredBound
