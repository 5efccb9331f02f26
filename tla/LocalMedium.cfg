SPECIFICATION LocalSpec
CONSTANTS
  r = r
  o = o
  s = s
  t = t
  Segment = {r, o, s, t}
  Up = up
  Path <- SomePaths
  Root <- RootPath
  Home <- HomePath
  CallPath <- SomeCalls
  CanRename <- SomePairs
  Text <- SomeTexts
  CanLink <- SomeLinks
  MaxLinks = 8
  Dir = dir
  RegularFile = file
  Missing = missing
  Failed = failed
INVARIANT ResolveAgrees
PROPERTY OutsideUnchanged
