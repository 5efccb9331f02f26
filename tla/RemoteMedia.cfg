SPECIFICATION RemoteSpec
CONSTANTS
  a = a
  b = b
  f = f
  g = g
  x = x
  whole = whole
  inside = inside
  Segment = {a, b, f, g}
  Client = {whole, inside}
  Chunk = {x}
  Payload <- JustOne
  MaxLen = 2
  Idle = idle
  KeyOrder <- FourKeys
  PageSize = 1
  Prefix <- PrefixOf
  CanRename <- SomeKeyPairs
  NoObject = noObject
  Path <- SomePaths
  PathPairs <- SomePathPairs
  Collection = collection
  NotFound = notFound
  Caller = {p1, p2, p3}
  MaxDownloads = 2
  NoDataNode = noDataNode
INVARIANT ListingAgrees
PROPERTY DeleteAllClears
PROPERTY RenameKeepsObject
INVARIANT ParentsMade
INVARIANT DeleteKeepsBelow
PROPERTY OneDownload
PROPERTY AppendsExtend
