------------------------- MODULE MCScopedWorkspace -------------------------
(* Two workspaces, one of which has its scoped medium in use, a file in    *)
(* each, and requests that remove and rename workspaces in the medium.     *)
EXTENDS ScopedWorkspace

CONSTANTS ws, a, b, f, x, m644

TheBase == <<ws>>
SomePaths == {<<ws>>, <<ws, a>>, <<ws, b>>, <<ws, a, f>>, <<ws, b, f>>}
Workspaces == {<<ws, a>>}
Moves == {<< <<ws, a>>, <<ws, b>> >>}
OneFile == {<<ws, b, f>>}
JustOne == {<< <<x>>, m644 >>}
UpAndOver == {<<f>>, <<DotDot, b, f>>}

SomeCommands ==
  {[action |-> "create", name |-> <<a>>, path |-> <<Blank>>],
   [action |-> "switch", name |-> <<b>>, path |-> <<Blank>>],
   [action |-> "list", name |-> <<a>>, path |-> <<Dot>>],
   [action |-> "write", name |-> <<a>>, path |-> <<f>>],
   [action |-> "write", name |-> <<a>>, path |-> <<DotDot, b, f>>]}

Symmetry == Permutations(Request)
=============================================================================
