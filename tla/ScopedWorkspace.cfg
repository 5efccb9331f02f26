SPECIFICATION ScopedSpec
CONSTANTS
  ws = ws
  a = a
  b = b
  f = f
  x = x
  m644 = m644
  Segment = {ws, a, b, f}
  Path <- SomePaths
  CanRename <- Moves
  Writer = {w1}
  WriterPath <- OneFile
  Chunk = {x}
  Payload <- JustOne
  MaxLen = 1
  Mode = {m644}
  DefaultMode = m644
  NoFile = noFile
  NoMode = noMode
  NoWriter = noWriter
  NoRename = noRename
  Base <- TheBase
  Dot = dot
  DotDot = dotdot
  Blank = blank
  Request = {r1, r2}
  Commands <- SomeCommands
  MediumPath <- Workspaces
  ScopedName = {a}
  ScopedRaw <- UpAndOver
  NoRequest = noRequest
  NoService = noService
  NoName = noName
  NoPath = noPath
SYMMETRY Symmetry
INVARIANT TestsStillHold
INVARIANT ListingComplete
PROPERTY StaysInside
