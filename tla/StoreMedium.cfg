SPECIFICATION Spec
CONSTANTS
  x = x
  y = y
  Client = {c1, c2}
  Group = {g, h}
  Key = {k}
  Chunk = {x, y}
  Payload <- EmptyOrOne
  MaxLen = 2
  Operations <- AllOperations
  NoValue = noValue
INVARIANT RenameKeepsValue
INVARIANT AppendExtends
