SPECIFICATION Spec
CONSTANTS
  a = a
  b = b
  x = x
  m644 = m644
  m600 = m600
  Segment = {a, b}
  Chunk = {x}
  Mode = {m644, m600}
  DefaultMode = m644
  NoFile = noFile
  NoMode = noMode
  NoWriter = noWriter
  NoRename = noRename
  Path <- TwoTrees
  CanRename <- SiblingPairs
  Writer = {w1}
  WriterPath <- OneFile
  Payload <- JustSecret
  MaxLen = 1
INVARIANT TypeOK
INVARIANT MetadataTogether
INVARIANT RenameMovesTree
INVARIANT AncestorsEntered
