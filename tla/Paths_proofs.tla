---------------------------- MODULE Paths_proofs ----------------------------
(***************************************************************************)
(* Lemmas about prefixes of sequences and about the operators of Paths.    *)
(***************************************************************************)
EXTENDS Paths, SequenceTheorems, WellFoundedInduction, TLAPS

(* IsPrefix, element by element.                                           *)
LEMMA PrefixElements ==
  ASSUME NEW S, NEW s \in Seq(S), NEW t \in Seq(S)
  PROVE  IsPrefix(s, t) <=> Len(s) <= Len(t) /\ \A i \in 1 .. Len(s) : s[i] = t[i]
<1>1. SubSeq(s, 1, Len(s)) = s /\ Len(s) \in Nat /\ Len(t) \in Nat
  BY SubSeqFull, LenProperties
<1>2. ASSUME Len(s) <= Len(t)
      PROVE  SubSeq(t, 1, Len(s)) = s <=> \A i \in 1 .. Len(s) : s[i] = t[i]
  <2>1. \A i \in 1 .. Len(s) : t[i] \in S
    BY <1>1, <1>2, ElementOfSeq
  <2>2. /\ SubSeq(t, 1, Len(s)) \in Seq(S)
        /\ Len(SubSeq(t, 1, Len(s))) = Len(s)
        /\ \A i \in 1 .. Len(s) : SubSeq(t, 1, Len(s))[i] = t[i]
    <3>1. /\ SubSeq(t, 1, Len(s)) \in Seq(S)
          /\ Len(SubSeq(t, 1, Len(s))) = IF 1 <= Len(s) THEN Len(s) - 1 + 1 ELSE 0
          /\ \A i \in 1 .. Len(s) - 1 + 1 : SubSeq(t, 1, Len(s))[i] = t[1 + i - 1]
      BY <1>1, <2>1, SubSeqProperties
    <3> QED
      BY <1>1, <3>1
  <2> QED
    BY <1>1, <2>2, SeqEqual
<1> QED
  BY <1>1, <1>2 DEF IsPrefix

(* Two prefixes of one sequence: one is a prefix of the other.             *)
LEMMA PrefixesCompare ==
  ASSUME NEW S, NEW r \in Seq(S), NEW s \in Seq(S), NEW t \in Seq(S),
         IsPrefix(r, t), IsPrefix(s, t)
  PROVE  IsPrefix(r, s) \/ IsPrefix(s, r)
BY PrefixElements, LenProperties

(* Rebase gives a sequence that begins with the new prefix and goes on as  *)
(* the old one did.                                                        *)
LEMMA RebaseElements ==
  ASSUME NEW S, NEW p \in Seq(S), NEW old \in Seq(S), NEW new \in Seq(S), IsPrefix(old, p)
  PROVE  /\ Rebase(p, old, new) \in Seq(S)
         /\ Len(Rebase(p, old, new)) = Len(new) + Len(p) - Len(old)
         /\ \A i \in 1 .. Len(new) : Rebase(p, old, new)[i] = new[i]
         /\ \A i \in 1 .. Len(p) - Len(old) :
              Rebase(p, old, new)[Len(new) + i] = p[Len(old) + i]
<1> DEFINE rest == SubSeq(p, Len(old) + 1, Len(p))
<1>1. /\ Len(p) \in Nat /\ Len(old) \in Nat /\ Len(new) \in Nat
      /\ Len(old) <= Len(p)
  BY LenProperties, PrefixElements
<1>2. \A i \in Len(old) + 1 .. Len(p) : p[i] \in S
  BY <1>1, ElementOfSeq
<1>3. /\ rest \in Seq(S)
      /\ Len(rest) = Len(p) - Len(old)
      /\ \A i \in 1 .. Len(p) - Len(old) : rest[i] = p[Len(old) + i]
  <2>1. /\ rest \in Seq(S)
        /\ Len(rest) = IF Len(old) + 1 <= Len(p) THEN Len(p) - (Len(old) + 1) + 1 ELSE 0
        /\ \A i \in 1 .. Len(p) - (Len(old) + 1) + 1 : rest[i] = p[Len(old) + 1 + i - 1]
    BY <1>1, <1>2, SubSeqProperties
  <2> QED
    BY <1>1, <2>1
<1> HIDE DEF rest
<1>4. /\ new \o rest \in Seq(S)
      /\ Len(new \o rest) = Len(new) + Len(rest)
      /\ \A i \in 1 .. Len(new) + Len(rest) :
           (new \o rest)[i] = IF i <= Len(new) THEN new[i] ELSE rest[i - Len(new)]
  BY <1>3, ConcatProperties
<1>5. Rebase(p, old, new) = new \o rest
  BY DEF Rebase, rest
<1> QED
  BY <1>1, <1>3, <1>4, <1>5

(* A path and itself; a file renamed goes to the new path exactly.         *)
LEMMA RebaseSelf ==
  ASSUME NEW S, NEW old \in Seq(S), NEW new \in Seq(S)
  PROVE  IsPrefix(old, old) /\ Rebase(old, old, new) = new
<1>1. IsPrefix(old, old)
  BY PrefixElements, LenProperties
<1>2. /\ Rebase(old, old, new) \in Seq(S)
      /\ Len(Rebase(old, old, new)) = Len(new)
      /\ \A i \in 1 .. Len(new) : Rebase(old, old, new)[i] = new[i]
  BY <1>1, RebaseElements, LenProperties
<1> QED
  BY <1>1, <1>2, SeqEqual

(* Different paths below old have different places below new.              *)
LEMMA RebaseInjective ==
  ASSUME NEW S, NEW old \in Seq(S), NEW new \in Seq(S), NEW p \in Seq(S), NEW q \in Seq(S),
         IsPrefix(old, p), IsPrefix(old, q), Rebase(p, old, new) = Rebase(q, old, new)
  PROVE  p = q
<1>1. /\ Len(old) \in Nat /\ Len(new) \in Nat /\ Len(p) \in Nat /\ Len(q) \in Nat
      /\ Len(old) <= Len(p)
      /\ \A i \in 1 .. Len(old) : p[i] = old[i] /\ q[i] = old[i]
  BY LenProperties, PrefixElements
<1>2. Len(p) = Len(q)
  <2>1. /\ Len(Rebase(p, old, new)) = Len(new) + Len(p) - Len(old)
        /\ Len(Rebase(q, old, new)) = Len(new) + Len(q) - Len(old)
    BY RebaseElements
  <2> QED
    BY <1>1, <2>1
<1>3. \A i \in 1 .. Len(p) - Len(old) : p[Len(old) + i] = q[Len(old) + i]
  <2>1. ASSUME NEW r \in Seq(S), IsPrefix(old, r)
        PROVE  \A i \in 1 .. Len(r) - Len(old) : Rebase(r, old, new)[Len(new) + i] = r[Len(old) + i]
    BY <2>1, RebaseElements
  <2> QED
    BY <1>2, <2>1
<1>4. \A i \in 1 .. Len(p) : p[i] = q[i]
  <2> SUFFICES ASSUME NEW i \in 1 .. Len(p)
               PROVE  p[i] = q[i]
    OBVIOUS
  <2>1. CASE i <= Len(old)
    BY <1>1, <2>1
  <2>2. CASE i > Len(old)
    <3>1. i - Len(old) \in 1 .. Len(p) - Len(old) /\ Len(old) + (i - Len(old)) = i
      BY <1>1, <2>2
    <3> QED
      BY <1>3, <3>1
  <2> QED
    BY <1>1, <2>1, <2>2
<1> QED
  BY <1>2, <1>4, SeqEqual

(* A path below new is not below old when the two are apart.               *)
LEMMA RebaseLeaves ==
  ASSUME NEW S, NEW old \in Seq(S), NEW new \in Seq(S), NEW p \in Seq(S),
         Apart(old, new), IsPrefix(old, p)
  PROVE  ~IsPrefix(old, Rebase(p, old, new))
<1> DEFINE q == Rebase(p, old, new)
<1>1. q \in Seq(S) /\ IsPrefix(new, q)
  <2>1. /\ q \in Seq(S)
        /\ Len(q) = Len(new) + Len(p) - Len(old)
        /\ \A i \in 1 .. Len(new) : q[i] = new[i]
    BY RebaseElements
  <2>2. Len(old) <= Len(p) /\ Len(old) \in Nat /\ Len(p) \in Nat /\ Len(new) \in Nat
    BY PrefixElements, LenProperties
  <2>3. Len(new) <= Len(q)
    BY <2>1, <2>2
  <2> QED
    BY <2>1, <2>3, PrefixElements
<1> HIDE DEF q
<1> QED
  BY <1>1, PrefixesCompare DEF Apart, q

(* The ancestors of a path are the paths above it, the root excluded.      *)
LEMMA AncestorsAreAbove ==
  ASSUME NEW S, NEW p \in Seq(S), NEW d \in Seq(S)
  PROVE  d \in Ancestors(p) <=> d # <<>> /\ Under(p, d)
<1>1. Len(p) \in Nat /\ Len(d) \in Nat
  BY LenProperties
<1>2. \A n \in 1 .. Len(p) : /\ SubSeq(p, 1, n) \in Seq(S)
                             /\ Len(SubSeq(p, 1, n)) = n
                             /\ \A i \in 1 .. n : SubSeq(p, 1, n)[i] = p[i]
  <2> SUFFICES ASSUME NEW n \in 1 .. Len(p)
               PROVE  /\ SubSeq(p, 1, n) \in Seq(S)
                      /\ Len(SubSeq(p, 1, n)) = n
                      /\ \A i \in 1 .. n : SubSeq(p, 1, n)[i] = p[i]
    OBVIOUS
  <2>1. n \in Nat /\ n >= 1 /\ \A i \in 1 .. n : p[i] \in S
    BY <1>1, ElementOfSeq
  <2>2. /\ SubSeq(p, 1, n) \in Seq(S)
        /\ Len(SubSeq(p, 1, n)) = IF 1 <= n THEN n - 1 + 1 ELSE 0
        /\ \A i \in 1 .. n - 1 + 1 : SubSeq(p, 1, n)[i] = p[1 + i - 1]
    BY <2>1, SubSeqProperties
  <2> QED
    BY <2>1, <2>2
<1>3. ASSUME d \in Ancestors(p)
      PROVE  d # <<>> /\ Under(p, d)
  <2>1. PICK n \in 1 .. Len(p) - 1 : d = SubSeq(p, 1, n)
    BY <1>3 DEF Ancestors
  <2>2. Len(d) = n /\ n < Len(p) /\ n >= 1 /\ \A i \in 1 .. Len(d) : d[i] = p[i]
    BY <1>1, <1>2, <2>1
  <2>3. IsPrefix(d, p)
    BY <1>1, <2>2, PrefixElements
  <2>4. d # <<>> /\ d # p
    BY <1>1, <2>2, EmptySeq
  <2> QED
    BY <2>3, <2>4 DEF Under, IsStrictPrefix
<1>4. ASSUME d # <<>>, Under(p, d)
      PROVE  d \in Ancestors(p)
  <2>1. IsPrefix(d, p) /\ d # p
    BY <1>4 DEF Under, IsStrictPrefix
  <2>2. Len(d) <= Len(p) /\ \A i \in 1 .. Len(d) : d[i] = p[i]
    BY <2>1, PrefixElements
  <2>3. Len(d) # Len(p)
    BY <2>1, <2>2, SeqEqual
  <2>4. Len(d) # 0
    BY <1>4, EmptySeq
  <2>5. Len(d) \in 1 .. Len(p) - 1
    BY <1>1, <2>2, <2>3, <2>4
  <2>6. SubSeq(p, 1, Len(d)) = d
    BY <1>1, <1>2, <2>2, <2>5, SeqEqual
  <2> QED
    BY <2>5, <2>6 DEF Ancestors
<1> QED
  BY <1>3, <1>4

(* A sequence is a prefix of itself.                                      *)
LEMMA PrefixOfSelf ==
  ASSUME NEW S, NEW s \in Seq(S)
  PROVE  IsPrefix(s, s)
BY LenProperties DEF IsPrefix

(* What is appended does not disturb a prefix.                             *)
LEMMA PrefixOfAppend ==
  ASSUME NEW S, NEW s \in Seq(S), NEW t \in Seq(S), NEW x \in S, IsPrefix(s, t)
  PROVE  IsPrefix(s, Append(t, x))
<1>1. /\ Len(s) \in Nat /\ Len(t) \in Nat /\ Len(s) <= Len(t)
      /\ SubSeq(s, 1, Len(s)) = SubSeq(t, 1, Len(s))
  BY LenProperties DEF IsPrefix
<1>2. /\ Append(t, x) \in Seq(S) /\ Len(Append(t, x)) = Len(t) + 1
      /\ \A i \in 1 .. Len(t) : Append(t, x)[i] = t[i]
  OBVIOUS
<1>3. SubSeq(Append(t, x), 1, Len(s)) = SubSeq(t, 1, Len(s))
  BY <1>1, <1>2
<1> QED
  BY <1>1, <1>2, <1>3 DEF IsPrefix

(* Strict prefixes, element by element.                                    *)
LEMMA UnderElements ==
  ASSUME NEW S, NEW p \in Seq(S), NEW d \in Seq(S)
  PROVE  Under(p, d) <=> Len(d) < Len(p) /\ \A i \in 1 .. Len(d) : d[i] = p[i]
<1>1. Len(p) \in Nat /\ Len(d) \in Nat
  BY LenProperties
<1>2. IsPrefix(d, p) <=> Len(d) <= Len(p) /\ \A i \in 1 .. Len(d) : d[i] = p[i]
  BY PrefixElements
<1>3. ASSUME Len(d) = Len(p), \A i \in 1 .. Len(d) : d[i] = p[i]
      PROVE  d = p
  BY <1>3, SeqEqual
<1> QED
  BY <1>1, <1>2, <1>3 DEF Under, IsStrictPrefix

(* Prefixes of prefixes.                                                   *)
LEMMA PrefixTransitive ==
  ASSUME NEW S, NEW r \in Seq(S), NEW s \in Seq(S), NEW t \in Seq(S)
  PROVE  /\ IsPrefix(r, s) /\ IsPrefix(s, t) => IsPrefix(r, t)
         /\ Under(s, r) /\ IsPrefix(s, t) => Under(t, r)
         /\ IsPrefix(r, s) /\ Under(t, s) => Under(t, r)
         /\ Under(s, r) => ~IsPrefix(s, r)
<1>1. Len(r) \in Nat /\ Len(s) \in Nat /\ Len(t) \in Nat
  BY LenProperties
<1>2. ASSUME NEW u \in Seq(S), NEW v \in Seq(S)
      PROVE  /\ IsPrefix(u, v) <=> Len(u) <= Len(v) /\ \A i \in 1 .. Len(u) : u[i] = v[i]
             /\ Under(v, u) <=> Len(u) < Len(v) /\ \A i \in 1 .. Len(u) : u[i] = v[i]
  BY PrefixElements, UnderElements
<1>3. IsPrefix(r, s) /\ IsPrefix(s, t) => IsPrefix(r, t)
  BY <1>1, <1>2
<1>4. Under(s, r) /\ IsPrefix(s, t) => Under(t, r)
  BY <1>1, <1>2
<1>5. IsPrefix(r, s) /\ Under(t, s) => Under(t, r)
  BY <1>1, <1>2
<1>6. Under(s, r) => ~IsPrefix(s, r)
  BY <1>1, <1>2
<1> QED
  BY <1>3, <1>4, <1>5, <1>6

(* The first n elements of a sequence.                                     *)
LEMMA Beginning ==
  ASSUME NEW S, NEW p \in Seq(S), NEW n \in 0 .. Len(p)
  PROVE  /\ SubSeq(p, 1, n) \in Seq(S)
         /\ Len(SubSeq(p, 1, n)) = n
         /\ \A i \in 1 .. n : SubSeq(p, 1, n)[i] = p[i]
         /\ IsPrefix(SubSeq(p, 1, n), p)
<1>1. Len(p) \in Nat /\ n \in Nat /\ n <= Len(p) /\ \A i \in 1 .. n : p[i] \in S
  BY LenProperties, ElementOfSeq
<1>2. /\ SubSeq(p, 1, n) \in Seq(S)
      /\ Len(SubSeq(p, 1, n)) = IF 1 <= n THEN n - 1 + 1 ELSE 0
      /\ \A i \in 1 .. n - 1 + 1 : SubSeq(p, 1, n)[i] = p[1 + i - 1]
  BY <1>1, SubSeqProperties
<1>3. /\ Len(SubSeq(p, 1, n)) = n
      /\ \A i \in 1 .. n : SubSeq(p, 1, n)[i] = p[i]
  BY <1>1, <1>2
<1> QED
  BY <1>1, <1>2, <1>3, PrefixElements

(* The directory of a path is above it, and nothing is between the two.    *)
LEMMA FrontAbove ==
  ASSUME NEW S, NEW p \in Seq(S), p # <<>>
  PROVE  /\ Front(p) \in Seq(S)
         /\ Under(p, Front(p))
         /\ \A d \in Seq(S) : Under(p, d) <=> IsPrefix(d, Front(p))
<1>1. Len(p) \in Nat /\ Len(p) - 1 \in 0 .. Len(p)
  BY LenProperties, EmptySeq
<1>2. /\ Front(p) \in Seq(S) /\ Len(Front(p)) = Len(p) - 1
      /\ \A i \in 1 .. Len(p) - 1 : Front(p)[i] = p[i]
  BY <1>1, Beginning DEF Front
<1>3. Under(p, Front(p))
  BY <1>1, <1>2, UnderElements
<1>4. ASSUME NEW d \in Seq(S)
      PROVE  Under(p, d) <=> IsPrefix(d, Front(p))
  <2>1. Len(d) \in Nat
    BY LenProperties
  <2>2. Under(p, d) <=> Len(d) < Len(p) /\ \A i \in 1 .. Len(d) : d[i] = p[i]
    BY UnderElements
  <2>3. IsPrefix(d, Front(p)) <=> Len(d) <= Len(p) - 1 /\ \A i \in 1 .. Len(d) : d[i] = Front(p)[i]
    BY <1>2, PrefixElements
  <2> QED
    BY <1>1, <1>2, <2>1, <2>2, <2>3
<1> QED
  BY <1>2, <1>3, <1>4

(* A path below d is a child of d or below one.                            *)
LEMMA ChildBetween ==
  ASSUME NEW S, NEW d \in Seq(S), NEW p \in Seq(S), Under(p, d)
  PROVE  \E n \in 1 .. Len(p) : /\ SubSeq(p, 1, n) \in Seq(S)
                                /\ Front(SubSeq(p, 1, n)) = d
                                /\ IsPrefix(SubSeq(p, 1, n), p)
<1> DEFINE n == Len(d) + 1
           child == SubSeq(p, 1, n)
<1>1. /\ Len(p) \in Nat /\ Len(d) \in Nat /\ Len(d) < Len(p)
      /\ \A i \in 1 .. Len(d) : d[i] = p[i]
  BY LenProperties, UnderElements
<1>2. /\ child \in Seq(S) /\ Len(child) = n /\ IsPrefix(child, p)
      /\ \A i \in 1 .. n : child[i] = p[i]
  <2>1. n \in 0 .. Len(p)
    BY <1>1
  <2> QED
    BY <2>1, Beginning
<1> HIDE DEF child
<1>3. /\ Front(child) \in Seq(S) /\ Len(Front(child)) = Len(d)
      /\ \A i \in 1 .. Len(d) : Front(child)[i] = child[i]
  <2>1. Len(d) \in 0 .. Len(child) /\ Len(child) - 1 = Len(d)
    BY <1>1, <1>2
  <2> QED
    BY <1>2, <2>1, Beginning DEF Front
<1>4. Front(child) = d
  <2>1. ASSUME NEW i \in 1 .. Len(d) PROVE Front(child)[i] = d[i]
    <3>1. i \in 1 .. n
      BY <1>1
    <3> QED
      BY <1>1, <1>2, <1>3, <3>1
  <2> QED
    BY <1>3, <2>1, SeqEqual
<1> QED
  BY <1>1, <1>2, <1>4 DEF child

(* Rebase keeps what is below what, and puts it below the new prefix.      *)
LEMMA RebaseOrder ==
  ASSUME NEW S, NEW old \in Seq(S), NEW new \in Seq(S), NEW p \in Seq(S), IsPrefix(old, p)
  PROVE  /\ IsPrefix(new, Rebase(p, old, new))
         /\ \A q \in Seq(S) : Under(q, p) => Under(Rebase(q, old, new), Rebase(p, old, new))
<1>1. Len(p) \in Nat /\ Len(old) \in Nat /\ Len(new) \in Nat /\ Len(old) <= Len(p)
  BY LenProperties, PrefixElements
<1>2. ASSUME NEW r \in Seq(S), IsPrefix(old, r)
      PROVE  /\ Rebase(r, old, new) \in Seq(S)
             /\ Len(Rebase(r, old, new)) = Len(new) + Len(r) - Len(old)
             /\ \A i \in 1 .. Len(new) : Rebase(r, old, new)[i] = new[i]
             /\ \A i \in Len(new) + 1 .. Len(new) + Len(r) - Len(old) :
                  Rebase(r, old, new)[i] = r[i - Len(new) + Len(old)]
  <2>1. Len(r) \in Nat /\ Len(old) <= Len(r)
    BY <1>2, LenProperties, PrefixElements
  <2>2. /\ Rebase(r, old, new) \in Seq(S)
        /\ Len(Rebase(r, old, new)) = Len(new) + Len(r) - Len(old)
        /\ \A i \in 1 .. Len(new) : Rebase(r, old, new)[i] = new[i]
    BY <1>2, RebaseElements
  <2>3. \A i \in 1 .. Len(r) - Len(old) : Rebase(r, old, new)[Len(new) + i] = r[Len(old) + i]
    BY <1>2, RebaseElements
  <2>4. ASSUME NEW i \in Len(new) + 1 .. Len(new) + Len(r) - Len(old)
        PROVE  Rebase(r, old, new)[i] = r[i - Len(new) + Len(old)]
    <3>1. /\ i - Len(new) \in 1 .. Len(r) - Len(old) /\ Len(new) + (i - Len(new)) = i
          /\ Len(old) + (i - Len(new)) = i - Len(new) + Len(old)
      BY <1>1, <2>1
    <3> QED
      BY <2>3, <3>1
  <2> QED
    BY <2>2, <2>4
<1>3. IsPrefix(new, Rebase(p, old, new))
  BY <1>1, <1>2, PrefixElements
<1>4. ASSUME NEW q \in Seq(S), Under(q, p)
      PROVE  Under(Rebase(q, old, new), Rebase(p, old, new))
  <2>1. Len(q) \in Nat /\ Len(p) < Len(q) /\ \A i \in 1 .. Len(p) : p[i] = q[i]
    BY <1>4, LenProperties, UnderElements
  <2>2. IsPrefix(old, q)
    BY <1>1, <2>1, PrefixElements
  <2> DEFINE P == Rebase(p, old, new)
             Q == Rebase(q, old, new)
  <2>3. P \in Seq(S) /\ Q \in Seq(S) /\ Len(P) < Len(Q)
    BY <1>1, <1>2, <2>1, <2>2
  <2>4. ASSUME NEW i \in 1 .. Len(P) PROVE P[i] = Q[i]
    <3>1. CASE i <= Len(new)
      BY <1>1, <1>2, <2>1, <2>2, <3>1
    <3>2. CASE i > Len(new)
      <4>1. /\ i \in Len(new) + 1 .. Len(new) + Len(p) - Len(old)
            /\ i \in Len(new) + 1 .. Len(new) + Len(q) - Len(old)
            /\ i - Len(new) + Len(old) \in 1 .. Len(p)
        BY <1>1, <1>2, <2>1, <3>2
      <4>2. P[i] = p[i - Len(new) + Len(old)]
        BY <1>2, <4>1
      <4>3. Q[i] = q[i - Len(new) + Len(old)]
        BY <1>2, <2>2, <4>1
      <4> QED
        BY <2>1, <4>1, <4>2, <4>3
    <3> QED
      BY <1>1, <1>2, <3>1, <3>2
  <2> HIDE DEF P, Q
  <2>5. Under(Q, P)
    BY <2>3, <2>4, UnderElements
  <2> QED
    BY <2>5 DEF P, Q
<1> QED
  BY <1>3, <1>4

(* Rebase in the other direction takes a path back.                        *)
LEMMA RebaseBack ==
  ASSUME NEW S, NEW old \in Seq(S), NEW new \in Seq(S), NEW p \in Seq(S), IsPrefix(old, p)
  PROVE  Rebase(Rebase(p, old, new), new, old) = p
<1> DEFINE q == Rebase(p, old, new)
           r == Rebase(q, new, old)
<1>1. /\ Len(p) \in Nat /\ Len(old) \in Nat /\ Len(new) \in Nat /\ Len(old) <= Len(p)
      /\ \A i \in 1 .. Len(old) : old[i] = p[i]
  BY LenProperties, PrefixElements
<1>2. /\ q \in Seq(S) /\ Len(q) = Len(new) + Len(p) - Len(old)
      /\ \A i \in 1 .. Len(p) - Len(old) : q[Len(new) + i] = p[Len(old) + i]
  <2>1. q \in Seq(S) /\ Len(q) = Len(new) + Len(p) - Len(old)
    BY RebaseElements
  <2>2. \A i \in 1 .. Len(p) - Len(old) : q[Len(new) + i] = p[Len(old) + i]
    BY RebaseElements
  <2> QED
    BY <2>1, <2>2
<1>3. IsPrefix(new, q)
  BY RebaseOrder
<1> HIDE DEF q
<1>4. /\ r \in Seq(S) /\ Len(r) = Len(old) + Len(q) - Len(new)
      /\ \A i \in 1 .. Len(old) : r[i] = old[i]
      /\ \A i \in 1 .. Len(q) - Len(new) : r[Len(old) + i] = q[Len(new) + i]
  <2>1. q \in Seq(S)
    BY <1>2
  <2>2. r \in Seq(S) /\ Len(r) = Len(old) + Len(q) - Len(new)
    BY <1>3, <2>1, RebaseElements
  <2>3. \A i \in 1 .. Len(old) : r[i] = old[i]
    BY <1>3, <2>1, RebaseElements
  <2>4. \A i \in 1 .. Len(q) - Len(new) : r[Len(old) + i] = q[Len(new) + i]
    BY <1>3, <2>1, RebaseElements
  <2> QED
    BY <2>2, <2>3, <2>4
<1> HIDE DEF r
<1>5. Len(r) = Len(p) /\ Len(q) - Len(new) = Len(p) - Len(old)
  BY <1>1, <1>2, <1>4
<1>6. ASSUME NEW i \in 1 .. Len(p) PROVE r[i] = p[i]
  <2>1. CASE i <= Len(old)
    BY <1>1, <1>4, <2>1
  <2>2. CASE i > Len(old)
    <3> DEFINE j == i - Len(old)
    <3>1. j \in 1 .. Len(p) - Len(old) /\ Len(old) + j = i
      BY <1>1, <2>2
    <3> HIDE DEF j
    <3>2. r[Len(old) + j] = q[Len(new) + j] /\ q[Len(new) + j] = p[Len(old) + j]
      BY <1>2, <1>4, <1>5, <3>1
    <3> QED
      BY <3>1, <3>2
  <2> QED
    BY <1>1, <2>1, <2>2
<1>7. r = p
  BY <1>4, <1>5, <1>6, SeqEqual
<1> QED
  BY <1>7 DEF r, q

(* The ancestors of an ancestor.                                           *)
LEMMA AncestorsAbove ==
  ASSUME NEW S, NEW p \in Seq(S), NEW q \in Seq(S), NEW r \in Seq(S),
         q \in Ancestors(p), r \in Ancestors(q)
  PROVE  r \in Ancestors(p)
<1>1. Under(p, q) /\ Under(q, r) /\ r # <<>>
  BY AncestorsAreAbove
<1>2. Under(p, r)
  BY <1>1, PrefixTransitive DEF Under, IsStrictPrefix
<1> QED
  BY <1>1, <1>2, AncestorsAreAbove

(* The directories above the new place of a path are new, those above new, *)
(* and the new places of the directories between old and the path.         *)
LEMMA RebaseAncestors ==
  ASSUME NEW S, NEW old \in Seq(S), NEW new \in Seq(S), NEW p \in Seq(S), IsPrefix(old, p),
         NEW up \in Seq(S), up \in Ancestors(Rebase(p, old, new))
  PROVE  \/ up \in Ancestors(new) \cup {new}
         \/ \E d \in Ancestors(p) : d \in Seq(S) /\ Under(d, old) /\ up = Rebase(d, old, new)
<1> DEFINE q == Rebase(p, old, new)
           d == Rebase(up, new, old)
<1>1. q \in Seq(S) /\ IsPrefix(new, q) /\ Rebase(q, new, old) = p
  BY RebaseElements, RebaseOrder, RebaseBack
<1>2. up # <<>> /\ Under(q, up) /\ IsPrefix(up, q)
  BY <1>1, AncestorsAreAbove DEF Under, IsStrictPrefix
<1> HIDE DEF q
<1>3. CASE IsPrefix(up, new)
  BY <1>2, <1>3, AncestorsAreAbove DEF Under, IsStrictPrefix
<1>4. CASE Under(up, new)
  <2>1. IsPrefix(new, up) /\ IsPrefix(new, new) /\ Rebase(new, new, old) = old
    BY <1>4, RebaseSelf DEF Under, IsStrictPrefix
  <2>2. d \in Seq(S) /\ Rebase(d, old, new) = up
    BY <2>1, RebaseElements, RebaseBack
  <2>3. Under(d, old)
    BY <1>4, <2>1, RebaseOrder
  <2>4. Under(p, d)
    BY <1>1, <1>2, <2>1, RebaseOrder
  <2> HIDE DEF d
  <2>5. d # <<>>
    <3>1. Len(old) \in Nat /\ Len(old) < Len(d)
      BY <2>2, <2>3, UnderElements, LenProperties
    <3> QED
      BY <2>2, <3>1, EmptySeq
  <2> QED
    BY <2>2, <2>3, <2>4, <2>5, AncestorsAreAbove
<1> QED
  BY <1>1, <1>2, <1>3, <1>4, PrefixesCompare DEF Under, IsStrictPrefix

(* The child of d that a path below d is or is below.                      *)
LEMMA ChildOf ==
  ASSUME NEW S, NEW d \in Seq(S), NEW p \in Seq(S), Under(p, d)
  PROVE  /\ Len(d) + 1 \in 1 .. Len(p) /\ p[Len(d) + 1] \in S
         /\ Append(d, p[Len(d) + 1]) \in Seq(S)
         /\ Len(p) > Len(d) + 1 => Under(p, Append(d, p[Len(d) + 1]))
         /\ ~(Len(p) > Len(d) + 1) => p = Append(d, p[Len(d) + 1])
<1>1. /\ Len(p) \in Nat /\ Len(d) \in Nat /\ Len(d) < Len(p)
      /\ \A i \in 1 .. Len(d) : d[i] = p[i]
  BY LenProperties, UnderElements
<1>2. Len(d) + 1 \in 1 .. Len(p) /\ p[Len(d) + 1] \in S
  BY <1>1, ElementOfSeq
<1> DEFINE child == Append(d, p[Len(d) + 1])
<1>3. /\ child \in Seq(S) /\ Len(child) = Len(d) + 1
      /\ \A i \in 1 .. Len(d) + 1 : child[i] = p[i]
  BY <1>1, <1>2
<1> HIDE DEF child
<1>4. Len(p) > Len(d) + 1 => Under(p, child)
  BY <1>1, <1>3, UnderElements
<1>5. ~(Len(p) > Len(d) + 1) => p = child
  <2> SUFFICES ASSUME ~(Len(p) > Len(d) + 1)
               PROVE  p = child
    OBVIOUS
  <2>1. Len(p) = Len(child)
    BY <1>1, <1>3
  <2> QED
    BY <1>1, <1>3, <2>1, SeqEqual
<1> QED
  BY <1>2, <1>3, <1>4, <1>5 DEF child

(* A set of numbers has a least one: what is proved of every number whose  *)
(* predecessors have it is proved of all.                                  *)
LEMMA LeastOf ==
  ASSUME NEW I \in SUBSET Nat, I # {}
  PROVE  \E m \in I : \A k \in I : m <= k
<1>1. PICK m \in I : \A k \in I : ~(<<k, m>> \in OpToRel(<, Nat))
  BY NatLessThanWellFounded, WFMin
<1>2. ASSUME NEW k \in I PROVE m <= k
  <2>1. ~(k < m)
    BY <1>1 DEF OpToRel
  <2> QED
    BY <2>1
<1> QED
  BY <1>2

(* What a loop has after each of its n passes, F being what they do.       *)
Passes(g, n, V, start, F) ==
  /\ g \in [0 .. n -> V] /\ g[0] = start
  /\ \A k \in 1 .. n : g[k] = F[k][g[k - 1]]

(* There is such a history of every loop over a finite range.              *)
LEMMA LoopRuns ==
  ASSUME NEW n \in Nat, NEW V, NEW start \in V, NEW F \in [1 .. n -> [V -> V]]
  PROVE  \E g : Passes(g, n, V, start, F)
<1> DEFINE Run(m, g) == /\ g \in [0 .. m -> V] /\ g[0] = start
                        /\ \A k \in 1 .. m : g[k] = F[k][g[k - 1]]
           without == {m \in 0 .. n : \A g : ~Run(m, g)}
<1>1. \E g : Run(0, g)
  <2> DEFINE g0 == [k \in 0 .. 0 |-> start]
  <2>1. Run(0, g0)
    OBVIOUS
  <2> QED
    BY <2>1
<1>2. ASSUME NEW m \in 1 .. n, NEW g, Run(m - 1, g)
      PROVE  \E h : Run(m, h)
  <2> DEFINE h == [k \in 0 .. m |-> IF k = m THEN F[m][g[m - 1]] ELSE g[k]]
  <2>1. \A k \in 0 .. m : k = m \/ k \in 0 .. m - 1
    OBVIOUS
  <2>2. m - 1 \in 0 .. m - 1 /\ m - 1 # m /\ m \in 0 .. m /\ 0 \in 0 .. m - 1 /\ 0 # m /\ 0 \in 0 .. m
    OBVIOUS
  <2>3. F[m][g[m - 1]] \in V
    BY <1>2, <2>2
  <2>4. h \in [0 .. m -> V] /\ h[0] = start
    BY <1>2, <2>1, <2>2, <2>3
  <2>5. ASSUME NEW k \in 1 .. m PROVE h[k] = F[k][h[k - 1]]
    <3>1. k - 1 \in 0 .. m /\ k - 1 # m /\ k \in 0 .. m
      OBVIOUS
    <3>2. h[k - 1] = g[k - 1]
      BY <3>1
    <3>3. CASE k = m
      BY <2>2, <3>2, <3>3
    <3>4. CASE k # m
      <4>1. k \in 1 .. m - 1
        BY <3>4
      <4> QED
        BY <1>2, <3>1, <3>2, <3>4, <4>1
    <3> QED
      BY <3>3, <3>4
  <2> HIDE DEF h
  <2> QED
    BY <2>4, <2>5
<1>3. without = {}
  <2> SUFFICES ASSUME without # {}
               PROVE  FALSE
    OBVIOUS
  <2>1. without \in SUBSET Nat /\ \A k \in Nat : k \in without <=> k \in 0 .. n /\ \A g : ~Run(k, g)
    <3> HIDE DEF Run
    <3> QED
      OBVIOUS
  <2> HIDE DEF without, Run
  <2>2. PICK m \in without : \A k \in without : m <= k
    BY <2>1, LeastOf
  <2>3. m \in Nat /\ m \in 0 .. n /\ \A g : ~Run(m, g)
    BY <2>1, <2>2
  <2>4. m \in 1 .. n /\ m - 1 \in 0 .. n /\ m - 1 \in Nat /\ ~(m <= m - 1)
    <3>1. m # 0
      BY <1>1, <2>3
    <3> QED
      BY <2>3, <3>1
  <2>5. \E g : Run(m - 1, g)
    BY <2>1, <2>2, <2>4
  <2> QED
    BY <1>2, <2>3, <2>4, <2>5
<1>4. n \in 0 .. n
  OBVIOUS
<1>5. \E g : Run(n, g)
  <2> HIDE DEF Run
  <2> QED
    BY <1>3, <1>4
<1> QED
  BY <1>5 DEF Passes

(* What every pass of a loop keeps, the loop keeps.                        *)
LEMMA LoopKeeps ==
  ASSUME NEW n \in Nat, NEW W, NEW g, g[0] \in W, \A k \in 1 .. n : g[k - 1] \in W => g[k] \in W
  PROVE  \A k \in 0 .. n : g[k] \in W
<1> DEFINE wrong == {k \in 0 .. n : g[k] \notin W}
<1> SUFFICES ASSUME wrong # {}
             PROVE  FALSE
  OBVIOUS
<1>1. wrong \in SUBSET Nat /\ \A k \in Nat : k \in wrong <=> k \in 0 .. n /\ g[k] \notin W
  OBVIOUS
<1> HIDE DEF wrong
<1>2. PICK m \in wrong : \A k \in wrong : m <= k
  BY <1>1, LeastOf
<1>3. m \in Nat /\ m \in 0 .. n /\ g[m] \notin W /\ m # 0
  BY <1>1, <1>2
<1>4. m \in 1 .. n /\ m - 1 \in Nat /\ m - 1 \in 0 .. n /\ ~(m <= m - 1)
  BY <1>3
<1>5. g[m - 1] \in W
  BY <1>1, <1>2, <1>4
<1> QED
  BY <1>3, <1>4, <1>5
=============================================================================
