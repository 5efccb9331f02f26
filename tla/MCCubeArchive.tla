--------------------------- MODULE MCCubeArchive ---------------------------
(* A directory with a file and a directory in it, which it can be moved    *)
(* to as well, and there a file and a directory again.                     *)
EXTENDS CubeArchive

CONSTANTS a, sub, f, x

ThreeFiles == {<<a, f>>, <<a, sub, f>>, <<a, sub, sub, f>>}
OneFile == {<<a, f>>}
SomePairs == {<< <<a>>, <<a, sub>> >>, << <<a, sub, f>>, <<a, f>> >>}
JustOne == {<<x>>}
=============================================================================
