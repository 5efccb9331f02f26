--------------------------- MODULE MCMemoryMedium ---------------------------
(* Small trees of paths over two names, and pairs of paths to rename.      *)
EXTENDS MemoryMedium

CONSTANTS a, b, x, m644, m600

(* Two directories with the same names below them.                         *)
TwoTrees == {<<a>>, <<b>>, <<a, a>>, <<a, b>>, <<b, a>>, <<b, b>>}
OneFile == {<<a, a>>}

SiblingPairs == {pair \in TwoTrees \X TwoTrees :
                   /\ Ancestors(pair[1]) = Ancestors(pair[2])
                   /\ pair[1] # pair[2]}
JustSecret == {<<<<x>>, m600>>}
=============================================================================
