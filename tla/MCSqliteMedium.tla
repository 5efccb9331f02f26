--------------------------- MODULE MCSqliteMedium ---------------------------
(* Two directories side by side, one with a directory in it.  Under        *)
(* Lookalike the first one's name, a pattern with a _, matches the second. *)
EXTENDS SqliteMedium

CONSTANTS a, b, f, x

SomePaths == {<<a>>, <<b>>, <<a, f>>, <<b, f>>}
DeepPaths == {<<a>>, <<a, f>>, <<b>>, <<b, f>>, <<a, f, f>>, <<b, f, f>>}

OnlyItself == [d \in Path |-> {d}]
Lookalike == [d \in Path |-> IF d = <<a>> THEN {<<a>>, <<b>>} ELSE {d}]

AtoB == {<< <<a>>, <<b>> >>}
JustOne == {<<x>>}

Symmetry == Permutations(Client)
=============================================================================
