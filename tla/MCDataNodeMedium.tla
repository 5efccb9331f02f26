-------------------------- MODULE MCDataNodeMedium --------------------------
(* Two directories beside each other that hold files of the same names.    *)
EXTENDS DataNodeMedium

CONSTANTS a, b, f, g, x

TwoDirs == {<<a>>, <<b>>}
FilesInBoth == {<<a, f>>, <<a, g>>, <<b, f>>, <<b, g>>}
OneFile == {<<a, f>>}

SomePairs == {<< <<a>>, <<b>> >>, << <<a, f>>, <<b, g>> >>}

JustOne == {<<x>>}
=============================================================================
