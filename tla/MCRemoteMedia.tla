--------------------------- MODULE MCRemoteMedia ---------------------------
(* s3: a medium of the whole bucket and one of the prefix a/, two objects  *)
(* below a and one object a page, so that DeleteAll takes several pages.   *)
(* webdav: two mediums, a collection and what it holds, and a place beside *)
(* it.  pwa: callers that find nothing downloaded.                         *)
EXTENDS RemoteMedia

CONSTANTS a, b, f, g, x, whole, inside

FourKeys == << <<a>>, <<a, f>>, <<a, g>>, <<b>> >>
PrefixOf == [c \in Client |-> IF c = whole THEN <<>> ELSE <<a>>]
SomeKeyPairs == {<< <<a, f>>, <<b>> >>, << <<a, f>>, <<a, g>> >>}

SomePaths == {<<a>>, <<a, f>>, <<b>>}
SomePathPairs == {<< <<a>>, <<b>> >>, << <<a, f>>, <<b>> >>, << <<b>>, <<a, f>> >>}

JustOne == {<<x>>}
=============================================================================
