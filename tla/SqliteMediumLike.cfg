SPECIFICATION Spec
CONSTANTS
  a = a
  b = b
  f = f
  x = x
  Segment = {a, b, f}
  Path <- SomePaths
  Alike <- Lookalike
  CanRename <- AtoB
  Client = {c1}
  Chunk = {x}
  Payload <- JustOne
  MaxLen = 2
  NoRow = noRow
  Idle = idle
PROPERTY RenameMovesTree
