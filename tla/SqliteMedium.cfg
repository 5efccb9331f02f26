SPECIFICATION Spec
CONSTANTS
  a = a
  b = b
  f = f
  x = x
  Segment = {a, b, f}
  Path <- SomePaths
  Alike <- OnlyItself
  CanRename <- AtoB
  Client = {c1, c2}
  Chunk = {x}
  Payload <- JustOne
  MaxLen = 2
  NoRow = noRow
  Idle = idle
SYMMETRY Symmetry
INVARIANT FilesReachable
PROPERTY DeleteKeepsBelow
PROPERTY RenameMovesTree
PROPERTY AppendExtends
