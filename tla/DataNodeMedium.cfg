SPECIFICATION Spec
CONSTANTS
  a = a
  b = b
  f = f
  g = g
  x = x
  Segment = {a, b, f, g}
  FilePath <- FilesInBoth
  DirPath <- TwoDirs
  CanRename <- SomePairs
  Writer = {w1}
  WriterPath <- OneFile
  Chunk = {x}
  Payload <- JustOne
  MaxLen = 1
  NoFile = noFile
  NoWriter = noWriter
  NoSnapshot = noSnapshot
PROPERTY RenameKeepsFiles
PROPERTY RenameEmptiesSource
PROPERTY RestoreAddsNothing
