---------------------------- MODULE MCStoreMedium ---------------------------
(* Values and operations for small instances of StoreMedium.               *)
EXTENDS StoreMedium

CONSTANTS x, y

EmptyOrOne == {<<>>, <<x>>}
AllOperations == {"write", "delete", "rename", "append"}
=============================================================================
