SPECIFICATION CubeSpec
CONSTANTS
  a = a
  sub = sub
  f = f
  x = x
  Segment = {a, sub, f}
  FilePath <- ThreeFiles
  CanRename <- SomePairs
  WriterPath <- OneFile
  Chunk = {x}
  Payload <- JustOne
  MaxLen = 1
  NoFile = noFile
  NoWriter = noWriter
  NoArchive = noArchive
  MaxChanged = 1
  NoJob = noJob
INVARIANT WalkFindsFiles
PROPERTY RenameMovesTree
PROPERTY LoadRestoresTree
PROPERTY PackKeepsSteadyFiles
PROPERTY UnpackRestores
