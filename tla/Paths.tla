------------------------------- MODULE Paths -------------------------------
(***************************************************************************)
(* Slash-separated clean paths as sequences of segments.  The prefix test  *)
(* of the code, HasPrefix(p, d + "/"), is Under(p, d).                     *)
(***************************************************************************)
EXTENDS Naturals, SequencesExt

(* p lies strictly below the directory d.                                  *)
Under(p, d) == IsStrictPrefix(d, p)

(* What the ancestors would be if the loop did not stop at the root.       *)
AncestorsWithRoot(p) == {SubSeq(p, 1, n) : n \in 0 .. Len(p) - 1}

(* The directories above p, the root excluded.                             *)
Ancestors(p) == {SubSeq(p, 1, n) : n \in 1 .. Len(p) - 1}

(* p with its leading old replaced by new.                                 *)
Rebase(p, old, new) == new \o SubSeq(p, Len(old) + 1, Len(p))

(* Neither path contains the other, nor are they equal.                    *)
Apart(p, q) == ~IsPrefix(p, q) /\ ~IsPrefix(q, p)
=============================================================================
