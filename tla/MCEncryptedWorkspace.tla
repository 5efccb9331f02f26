------------------------ MODULE MCEncryptedWorkspace ------------------------
(* Two threads over one Service, or over a Service each.                   *)
EXTENDS EncryptedWorkspace, TLC

CONSTANTS t1, t2, s1, s2

OneService == [t \in {t1, t2} |-> s1]
OwnService == (t1 :> s1) @@ (t2 :> s2)
=============================================================================
