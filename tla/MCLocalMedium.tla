--------------------------- MODULE MCLocalMedium ---------------------------
(* A root r and a directory o beside it; links in r lead out, up to the    *)
(* root of all, to each other, in a circle and to a home in r, and two in  *)
(* o lead back.  The text t/../t means something else when t is a link.    *)
EXTENDS LocalMedium

CONSTANTS r, o, s, t

RootPath == <<r>>
HomePath == <<r, t>>
SomePaths == {<<r>>, <<r, s>>, <<r, t>>, <<r, s, t>>, <<r, t, s>>, <<o>>, <<o, s>>, <<o, t>>}
SomeCalls == {<<>>, <<s>>, <<t>>, <<s, t>>, <<t, s>>}
SomePairs == {<< <<s>>, <<t>> >>, << <<s, t>>, <<t>> >>, << <<t>>, <<s, t>> >>}
Relative(p, parts) == <<p, [absolute |-> FALSE, parts |-> parts]>>
Absolute(p, parts) == <<p, [absolute |-> TRUE, parts |-> parts]>>
SomeLinks ==
  {Relative(<<r, s>>, <<Up, o>>), Relative(<<r, s>>, <<t>>), Absolute(<<r, s>>, <<r, t, s>>),
   Relative(<<r, s>>, <<t, Up, t>>),
   Relative(<<r, t>>, <<s>>), Absolute(<<r, t>>, <<o, t>>), Absolute(<<r, t>>, <<o>>),
   Relative(<<r, s, t>>, <<Up, Up, r, t>>), Relative(<<r, t, s>>, <<Up, Up>>),
   Absolute(<<o, t>>, <<r, s>>), Relative(<<o, s>>, <<Up, r, Up, r>>)}
SomeTexts == {link[2] : link \in SomeLinks}
=============================================================================
