------------------------- MODULE RemoteMedia_proofs -------------------------
(***************************************************************************)
(* Theorems about the media whose files are at a server, for any paths,    *)
(* page size and number of mediums and callers.  s3 and webdav: what a     *)
(* call relies on between its requests is a predicate of the call and of   *)
(* what the server has; a request of another medium either leaves that     *)
(* alone or is noted in the call's history.  pwa: that nobody replaces a   *)
(* download rests on the lock, which one caller holds, and on the second   *)
(* test under it.                                                          *)
(***************************************************************************)
EXTENDS RemoteMedia, Paths_proofs, FiniteSetTheorems, WellFoundedInduction

-----------------------------------------------------------------------------
(* s3.Medium                                                               *)
-----------------------------------------------------------------------------

Bucket == [Key -> Seq(Chunk) \cup {NoObject}]

(* What a DeleteAll still has to delete is in its page or listed later.    *)
RemovalRelies(pending, objects) ==
  \A i \in 1 .. Len(KeyOrder) :
    KeyOrder[i] \in pending.doomed /\ objects[KeyOrder[i]] # NoObject =>
      /\ Under(KeyOrder[i], pending.key)
      /\ \/ KeyOrder[i] \in pending.page
         \/ i > pending.token /\ (pending.page = {} \/ pending.truncated)

(* What a Rename copied is at both keys.                                   *)
RenamingRelies(pending, objects) ==
  ~pending.raced => /\ objects[pending.key] # NoObject
                    /\ objects[pending.new] = objects[pending.key]
                    /\ pending.new # pending.key

(* What a writer read is what the object holds, and has not been shortened.*)
WriterRelies(pending, objects) ==
  pending.found /\ ~pending.raced =>
    objects[pending.key] # NoObject /\ IsPrefix(objects[pending.key], pending.data)

Relies(pending, objects) ==
  /\ pending \in Removal => RemovalRelies(pending, objects)
  /\ pending \in Renaming => RenamingRelies(pending, objects)
  /\ pending \in s3WriteCloser => WriterRelies(pending, objects)

S3Inv == TypeOK /\ \A c \in Client : Relies(call[c], object)

-----------------------------------------------------------------------------
(* The field op tells which kind a call is.                                *)
LEMMA Kinds ==
  ASSUME NEW pending \in Pending \cup {Idle}
  PROVE  /\ pending # Idle <=> pending \in Pending
         /\ pending # Idle /\ pending.op = "deleteAll" <=> pending \in Removal
         /\ pending # Idle /\ pending.op = "rename" <=> pending \in Renaming
         /\ pending # Idle /\ pending.op = "write" <=> pending \in s3WriteCloser
<1>1. /\ \A p \in Removal : p.op = "deleteAll"
      /\ \A p \in Renaming : p.op = "rename"
      /\ \A p \in s3WriteCloser : p.op = "write"
  BY DEF Removal, Renaming, s3WriteCloser
<1>2. Idle \notin Removal /\ Idle \notin Renaming /\ Idle \notin s3WriteCloser
  BY S3Assumption DEF Pending
<1> QED
  BY <1>1, <1>2 DEF Pending

(* Idle relies on nothing.                                                 *)
LEMMA IdleRelies == \A objects : Relies(Idle, objects)
  BY S3Assumption DEF Relies, Pending

(* A call whose history notes the keys that changed relies on what is left.*)
LEMMA DisturbedRelies ==
  ASSUME NEW pending \in Pending \cup {Idle}, NEW before \in Bucket, NEW after \in Bucket,
         Relies(pending, before)
  PROVE  LET next == Disturbed(pending, {k \in Key : after[k] # before[k]})
         IN next \in Pending \cup {Idle} /\ Relies(next, after)
<1> DEFINE K == {k \in Key : after[k] # before[k]}
           next == Disturbed(pending, K)
<1>1. CASE pending = Idle
  BY <1>1, IdleRelies DEF Disturbed
<1>2. CASE pending \in Removal
  <2>1. pending # Idle /\ pending.op = "deleteAll"
    BY <1>2, Kinds
  <2>2. next = [pending EXCEPT !.doomed = @ \ K]
    BY <2>1 DEF Disturbed
  <2>3. next \in Removal /\ next.doomed = pending.doomed \ K /\ next.key = pending.key
        /\ next.page = pending.page /\ next.token = pending.token /\ next.truncated = pending.truncated
    BY <1>2, <2>2 DEF Removal
  <2>4. \A i \in 1 .. Len(KeyOrder) : KeyOrder[i] \in next.doomed => after[KeyOrder[i]] = before[KeyOrder[i]]
    BY <2>3 DEF Key
  <2>5. RemovalRelies(pending, before)
    BY <1>2 DEF Relies
  <2>6. RemovalRelies(next, after)
    BY <2>3, <2>4, <2>5 DEF RemovalRelies
  <2> QED
    BY <2>3, <2>6, Kinds DEF Relies, Pending
<1>3. CASE pending \in Renaming
  <2>1. pending # Idle /\ pending.op = "rename"
    BY <1>3, Kinds
  <2>2. next = [pending EXCEPT !.raced = @ \/ pending.key \in K \/ pending.new \in K]
    BY <2>1 DEF Disturbed
  <2>3. next \in Renaming /\ next.key = pending.key /\ next.new = pending.new
        /\ next.raced = (pending.raced \/ pending.key \in K \/ pending.new \in K)
    BY <1>3, <2>2 DEF Renaming
  <2>4. pending.key \in Key /\ pending.new \in Key
    BY <1>3 DEF Renaming
  <2>5. RenamingRelies(pending, before)
    BY <1>3 DEF Relies
  <2>6. RenamingRelies(next, after)
    BY <2>3, <2>4, <2>5 DEF RenamingRelies
  <2> QED
    BY <2>3, <2>6, Kinds DEF Relies, Pending
<1>4. CASE pending \in s3WriteCloser
  <2>1. pending # Idle /\ pending.op = "write"
    BY <1>4, Kinds
  <2>2. next = [pending EXCEPT !.raced = @ \/ pending.key \in K]
    BY <2>1 DEF Disturbed
  <2>3. next \in s3WriteCloser /\ next.key = pending.key /\ next.data = pending.data
        /\ next.found = pending.found /\ next.raced = (pending.raced \/ pending.key \in K)
    BY <1>4, <2>2 DEF s3WriteCloser
  <2>4. pending.key \in Key
    BY <1>4 DEF s3WriteCloser
  <2>5. WriterRelies(pending, before)
    BY <1>4 DEF Relies
  <2>6. ASSUME next.found, ~next.raced
        PROVE  after[next.key] # NoObject /\ IsPrefix(after[next.key], next.data)
    <3>1. pending.found /\ ~pending.raced /\ pending.key \notin K
      BY <2>3, <2>6
    <3>2. after[pending.key] = before[pending.key]
      BY <3>1, <2>4
    <3>3. before[pending.key] # NoObject /\ IsPrefix(before[pending.key], pending.data)
      BY <3>1, <2>5 DEF WriterRelies
    <3> HIDE DEF next
    <3> QED
      BY <2>3, <3>2, <3>3
  <2> QED
    BY <2>3, <2>6, Kinds DEF Relies, Pending, WriterRelies
<1> QED
  BY <1>1, <1>2, <1>3, <1>4 DEF Pending

(* A request of c keeps the invariant if what c goes on with relies on     *)
(* what is in the bucket then.                                             *)
LEMMA RequestKeeps ==
  ASSUME S3Inv, NEW c \in Client, NEW objects \in Bucket, NEW next \in Pending \cup {Idle},
         Relies(next, objects), Request(c, objects, next)
  PROVE  S3Inv'
<1> DEFINE K == {k \in Key : objects[k] # object[k]}
<1>1. object \in Bucket /\ object' = objects
  BY DEF S3Inv, TypeOK, Bucket, Request
<1>2. ASSUME NEW m \in Client
      PROVE  call'[m] \in Pending \cup {Idle} /\ Relies(call'[m], objects)
  <2>1. CASE m = c
    BY <2>1 DEF Request
  <2>2. CASE m # c
    <3>1. call'[m] = Disturbed(call[m], K)
      BY <2>2 DEF Request
    <3>2. call[m] \in Pending \cup {Idle} /\ Relies(call[m], object)
      BY DEF S3Inv, TypeOK
    <3> QED
      BY <1>1, <3>1, <3>2, DisturbedRelies
  <2> QED
    BY <2>1, <2>2
<1>3. call' \in [Client -> Pending \cup {Idle}]
  BY <1>2 DEF Request
<1> QED
  BY <1>1, <1>2, <1>3 DEF S3Inv, TypeOK, Bucket

(* So does an answer that changes nothing in the bucket.                   *)
LEMMA AnswerKeeps ==
  ASSUME S3Inv, NEW c \in Client, NEW next \in Pending \cup {Idle}, Relies(next, object),
         call' = [call EXCEPT ![c] = next], UNCHANGED object
  PROVE  S3Inv'
<1>1. call' \in [Client -> Pending \cup {Idle}] /\ \A m \in Client : Relies(call'[m], object)
  BY DEF S3Inv, TypeOK
<1> QED
  BY <1>1 DEF S3Inv, TypeOK

(* A set of positions has a least and a greatest element.                  *)
LEMMA LeastGreatest ==
  ASSUME NEW n \in Nat, NEW I \in SUBSET (1 .. n), I # {}
  PROVE  /\ \E i \in I : \A j \in I : i <= j
         /\ \E i \in I : \A j \in I : j <= i
<1> DEFINE upto(i) == {j \in I : j <= i}
           from(i) == {j \in I : i <= j}
<1>0. \A i \in I : i \in Nat
  OBVIOUS
<1>1. IsWellFoundedOn(StrictSubsetOrdering(I), FiniteSubsetsOf(I))
  BY FS_StrictSubsetOrderingWellFounded
<1>2. FiniteSubsetsOf(I) = SUBSET I
  <2>1. IsFiniteSet(1 .. n)
    BY FS_Interval
  <2>2. IsFiniteSet(I)
    BY <2>1, FS_Subset
  <2> QED
    BY <2>2, FS_FiniteSubsetsOfFinite
<1>3. \E i \in I : \A j \in I : i <= j
  <2> DEFINE T == {upto(i) : i \in I}
  <2>1. T \subseteq SUBSET I /\ T # {}
    OBVIOUS
  <2>2. PICK x \in T : \A y \in T : ~(<<y, x>> \in StrictSubsetOrdering(I))
    <3> HIDE DEF T
    <3> QED
      BY <1>1, <1>2, <2>1, WFMin
  <2>3. PICK i \in I : x = upto(i)
    OBVIOUS
  <2>4. ASSUME NEW j \in I, j < i PROVE FALSE
    <3>0. i \in Nat /\ j \in Nat
      BY <1>0
    <3>0a. i <= i /\ ~(i <= j) /\ \A m \in I : m <= j => m <= i
      BY <1>0, <2>4, <3>0
    <3>1. upto(j) \subseteq x
      BY <2>3, <3>0a
    <3>2. i \in x /\ i \notin upto(j)
      BY <2>3, <3>0a
    <3>3. upto(j) \in T
      OBVIOUS
    <3>4. <<upto(j), x>> \in StrictSubsetOrdering(I)
      BY <2>1, <3>1, <3>2, <3>3 DEF StrictSubsetOrdering
    <3> QED
      BY <2>2, <3>3, <3>4
  <2> QED
    BY <2>4
<1>4. \E i \in I : \A j \in I : j <= i
  <2> DEFINE T == {from(i) : i \in I}
  <2>1. T \subseteq SUBSET I /\ T # {}
    OBVIOUS
  <2>2. PICK x \in T : \A y \in T : ~(<<y, x>> \in StrictSubsetOrdering(I))
    <3> HIDE DEF T
    <3> QED
      BY <1>1, <1>2, <2>1, WFMin
  <2>3. PICK i \in I : x = from(i)
    OBVIOUS
  <2>4. ASSUME NEW j \in I, i < j PROVE FALSE
    <3>0. i \in Nat /\ j \in Nat
      BY <1>0
    <3>0a. i <= i /\ ~(j <= i) /\ \A m \in I : j <= m => i <= m
      BY <1>0, <2>4, <3>0
    <3>1. from(j) \subseteq x
      BY <2>3, <3>0a
    <3>2. i \in x /\ i \notin from(j)
      BY <2>3, <3>0a
    <3>3. from(j) \in T
      OBVIOUS
    <3>4. <<from(j), x>> \in StrictSubsetOrdering(I)
      BY <2>1, <3>1, <3>2, <3>3 DEF StrictSubsetOrdering
    <3> QED
      BY <2>2, <3>3, <3>4
  <2> QED
    BY <2>4
<1> QED
  BY <1>3, <1>4

(* A page of what is listed is not empty, and has all that is listed up to *)
(* its last entry.                                                         *)
LEMMA PageIsPrefix ==
  ASSUME NEW n \in Nat, NEW I \in SUBSET (1 .. n), I # {}
  PROVE  /\ LastOf(FirstOf(I)) \in FirstOf(I)
         /\ \A i \in FirstOf(I) : i <= LastOf(FirstOf(I))
         /\ \A i \in I : i <= LastOf(FirstOf(I)) => i \in FirstOf(I)
<1> DEFINE upto(i) == {j \in I : j <= i}
<1>0. \A i \in I : i \in Nat
  OBVIOUS
<1>1. ASSUME NEW i \in I PROVE IsFiniteSet(upto(i)) /\ Cardinality(upto(i)) \in Nat
  <2>1. IsFiniteSet(1 .. n)
    BY FS_Interval
  <2>2. upto(i) \in SUBSET (1 .. n)
    OBVIOUS
  <2> HIDE DEF upto
  <2>3. IsFiniteSet(upto(i))
    BY <2>1, <2>2, FS_Subset
  <2> QED
    BY <2>3, FS_CardinalityType
<1>2. FirstOf(I) # {}
  <2>1. PICK i \in I : \A j \in I : i <= j
    BY LeastGreatest
  <2>2. upto(i) = {i}
    <3>1. \A j \in I : j <= i <=> j = i
      BY <1>0, <2>1
    <3> QED
      BY <3>1
  <2>3. Cardinality(upto(i)) = 1
    BY <2>2, FS_Singleton
  <2>4. i \in FirstOf(I)
    BY <2>3, S3Assumption DEF FirstOf
  <2> QED
    BY <2>4
<1>3. FirstOf(I) \in SUBSET (1 .. n)
  BY DEF FirstOf
<1>4. LastOf(FirstOf(I)) \in FirstOf(I) /\ \A i \in FirstOf(I) : i <= LastOf(FirstOf(I))
  <2>1. \E i \in FirstOf(I) : \A j \in FirstOf(I) : j <= i
    BY <1>2, <1>3, LeastGreatest
  <2> QED
    BY <2>1 DEF LastOf
<1>5. ASSUME NEW i \in I, NEW k \in FirstOf(I), i <= k PROVE i \in FirstOf(I)
  <2>1. k \in I /\ Cardinality(upto(k)) <= PageSize
    BY DEF FirstOf
  <2>2. \A m \in I : m <= i => m <= k
    <3>1. i \in Nat /\ k \in Nat
      BY <1>0, <2>1
    <3> QED
      BY <1>0, <1>5, <3>1
  <2>2a. upto(i) \in SUBSET upto(k)
    BY <2>2
  <2>3. IsFiniteSet(upto(k)) /\ Cardinality(upto(k)) \in Nat /\ Cardinality(upto(i)) \in Nat
    BY <1>1, <2>1
  <2> HIDE DEF upto
  <2>4. Cardinality(upto(i)) <= Cardinality(upto(k))
    BY <2>2a, <2>3, FS_Subset
  <2>5. Cardinality(upto(i)) <= PageSize
    BY <2>1, <2>3, <2>4, S3Assumption
  <2> QED
    BY <2>5 DEF FirstOf, upto
<1> QED
  BY <1>4, <1>5

-----------------------------------------------------------------------------
(* Deleting keys leaves a bucket, and leaves the others as they were.      *)
LEMMA WithoutKeeps ==
  ASSUME S3Inv, NEW K
  PROVE  /\ Without(K) \in Bucket
         /\ \A k \in Key : Without(K)[k] = IF k \in K THEN NoObject ELSE object[k]
BY DEF S3Inv, TypeOK, Bucket, Without

(* The list request: what is left to delete is in the page it answers or   *)
(* listed later.                                                           *)
LEMMA ListPageKeeps ==
  ASSUME S3Inv, NEW c \in Client, ListPage(c)
  PROVE  /\ S3Inv'
         /\ call'[c] = Idle => \A k \in call[c].doomed : object'[k] = NoObject
<1> DEFINE pending == call[c]
           listable == Listable(pending.key, pending.token)
           first == FirstOf(listable)
           listed == [pending EXCEPT !.page = {KeyOrder[i] : i \in first},
                                     !.token = LastOf(first), !.truncated = listable # first]
<1>1. pending \in Removal /\ pending.page = {} /\ RemovalRelies(pending, object)
  <2>1. pending \in Pending \cup {Idle} /\ Relies(pending, object)
    BY DEF S3Inv, TypeOK
  <2> QED
    BY <2>1, Kinds DEF ListPage, Relies
<1>2. Len(KeyOrder) \in Nat /\ listable \in SUBSET (1 .. Len(KeyOrder)) /\ pending.token \in Nat
  BY <1>1, S3Assumption, LenProperties DEF Listable, Removal
<1>3. object' = object /\ call' = [call EXCEPT ![c] = IF listable = {} THEN Idle ELSE listed]
  BY DEF ListPage
<1>4. \A i \in 1 .. Len(KeyOrder) :
        KeyOrder[i] \in pending.doomed /\ object[KeyOrder[i]] # NoObject =>
          i \in listable /\ Under(KeyOrder[i], pending.key)
  BY <1>1 DEF RemovalRelies, Listable, Below, Objects, Key
<1>5. CASE listable = {}
  <2>1. S3Inv'
    BY <1>3, <1>5, AnswerKeeps, IdleRelies
  <2>2. pending.doomed \subseteq Key
    BY <1>1 DEF Removal
  <2>3. \A k \in pending.doomed : object[k] = NoObject
    BY <1>4, <1>5, <2>2 DEF Key
  <2> QED
    BY <1>3, <2>1, <2>3
<1>6. CASE listable # {}
  <2>1. /\ LastOf(first) \in first
        /\ \A i \in first : i <= LastOf(first)
        /\ \A i \in listable : i <= LastOf(first) => i \in first
    BY <1>2, <1>6, PageIsPrefix
  <2>2. first \subseteq listable
    BY DEF FirstOf
  <2>3. {KeyOrder[i] : i \in first} \in SUBSET Key /\ LastOf(first) \in 0 .. Len(KeyOrder)
    BY <1>2, <2>1, <2>2 DEF Key
  <2>4. /\ listed \in Removal /\ listed.page = {KeyOrder[i] : i \in first}
        /\ listed.token = LastOf(first) /\ listed.truncated = (listable # first)
        /\ listed.key = pending.key /\ listed.doomed = pending.doomed
    <3> HIDE DEF first, listable
    <3> QED
      BY <1>1, <2>3 DEF Removal
  <2>5. ASSUME NEW i \in 1 .. Len(KeyOrder),
               KeyOrder[i] \in listed.doomed, object[KeyOrder[i]] # NoObject
        PROVE  /\ Under(KeyOrder[i], listed.key)
               /\ \/ KeyOrder[i] \in listed.page
                  \/ i > listed.token /\ (listed.page = {} \/ listed.truncated)
    <3>1. i \in listable /\ Under(KeyOrder[i], pending.key)
      BY <1>4, <2>4, <2>5
    <3>2. CASE i \in first
      BY <2>4, <3>1, <3>2
    <3>3. CASE i \notin first
      <4>1. ~(i <= LastOf(first)) /\ listable # first
        BY <2>1, <3>1, <3>3
      <4>2. i > LastOf(first)
        BY <2>3, <4>1
      <4> QED
        BY <2>4, <3>1, <4>1, <4>2
    <3> QED
      BY <3>2, <3>3
  <2>6. RemovalRelies(listed, object)
    BY <2>5 DEF RemovalRelies
  <2>7. listed \in Pending \cup {Idle} /\ listed # Idle /\ Relies(listed, object)
    BY <2>4, <2>6, Kinds DEF Relies, Pending
  <2>8. S3Inv'
    BY <1>3, <1>6, <2>7, AnswerKeeps
  <2>9. call'[c] = listed
    BY <1>3, <1>6 DEF S3Inv, TypeOK
  <2> QED
    BY <2>7, <2>8, <2>9
<1> QED
  BY <1>5, <1>6

(* The delete request: the page goes, and after the last one nothing is    *)
(* left that was to be deleted.                                            *)
LEMMA DeletePageKeeps ==
  ASSUME S3Inv, NEW c \in Client, DeletePage(c)
  PROVE  /\ S3Inv'
         /\ call'[c] = Idle => \A k \in call[c].doomed : object'[k] = NoObject
<1> DEFINE pending == call[c]
           emptied == [pending EXCEPT !.page = {}]
           next == IF pending.truncated THEN emptied ELSE Idle
<1>1. pending \in Removal /\ pending.page # {} /\ RemovalRelies(pending, object)
  <2>1. pending \in Pending \cup {Idle} /\ Relies(pending, object)
    BY DEF S3Inv, TypeOK
  <2> QED
    BY <2>1, Kinds DEF DeletePage, Relies
<1>2. Without(pending.page) \in Bucket
      /\ \A k \in Key : Without(pending.page)[k] = IF k \in pending.page THEN NoObject ELSE object[k]
  BY WithoutKeeps
<1>3. Request(c, Without(pending.page), next)
  BY DEF DeletePage
<1>4. object' = Without(pending.page) /\ call'[c] = next
  BY <1>3 DEF Request
<1>5. \A i \in 1 .. Len(KeyOrder) :
        KeyOrder[i] \in pending.doomed /\ Without(pending.page)[KeyOrder[i]] # NoObject =>
          Under(KeyOrder[i], pending.key) /\ i > pending.token /\ pending.truncated
  BY <1>1, <1>2 DEF RemovalRelies, Key
<1>6. CASE pending.truncated
  <2>1. emptied \in Removal /\ emptied.page = {} /\ emptied.key = pending.key
        /\ emptied.token = pending.token /\ emptied.doomed = pending.doomed
    BY <1>1 DEF Removal
  <2>2. RemovalRelies(emptied, Without(pending.page))
    BY <1>5, <2>1 DEF RemovalRelies
  <2>3. emptied \in Pending \cup {Idle} /\ emptied # Idle /\ Relies(emptied, Without(pending.page))
    BY <2>1, <2>2, Kinds DEF Relies, Pending
  <2>4. S3Inv'
    BY <1>2, <1>3, <1>6, <2>3, RequestKeeps
  <2> QED
    BY <1>4, <1>6, <2>3, <2>4
<1>7. CASE ~pending.truncated
  <2>1. S3Inv'
    BY <1>2, <1>3, <1>7, IdleRelies, RequestKeeps
  <2>2. pending.doomed \subseteq Key
    BY <1>1 DEF Removal
  <2>3. \A k \in pending.doomed : Without(pending.page)[k] = NoObject
    BY <1>5, <1>7, <2>2 DEF Key
  <2> QED
    BY <1>4, <2>1, <2>3
<1> QED
  BY <1>6, <1>7

(* The first request of DeleteAll: what is below the key is listed later.  *)
LEMMA DeleteAllKeeps ==
  ASSUME S3Inv, NEW c \in Client, NEW k \in Key, DeleteAll(c, k)
  PROVE  S3Inv'
<1> DEFINE next == [op |-> "deleteAll", key |-> k, token |-> 0, page |-> {}, truncated |-> FALSE,
                    doomed |-> Below(k)]
<1>1. next \in Removal
  BY S3Assumption, LenProperties DEF Removal, Below, Objects
<1>2. RemovalRelies(next, Without({k}))
  BY DEF RemovalRelies, Below
<1>3. next \in Pending \cup {Idle} /\ Relies(next, Without({k}))
  BY <1>1, <1>2, Kinds DEF Relies, Pending
<1>4. Request(c, Without({k}), next)
  BY DEF DeleteAll
<1>5. Without({k}) \in Bucket
  BY WithoutKeeps
<1> HIDE DEF next
<1> QED
  BY <1>3, <1>4, <1>5, RequestKeeps

(* A request that leaves nothing pending.                                  *)
LEMMA LastRequestKeeps ==
  ASSUME S3Inv, NEW c \in Client, NEW objects \in Bucket, Request(c, objects, Idle)
  PROVE  S3Inv'
BY IdleRelies, RequestKeeps

(* The copy of a Rename.                                                   *)
LEMMA RenameCopyKeeps ==
  ASSUME S3Inv, NEW c \in Client, NEW pair \in CanRename, RenameCopy(c, pair[1], pair[2])
  PROVE  S3Inv'
<1> DEFINE objects == [object EXCEPT ![pair[2]] = object[pair[1]]]
           next == [op |-> "rename", key |-> pair[1], new |-> pair[2], raced |-> FALSE]
<1>1. pair[1] \in Key /\ pair[2] \in Key /\ pair[1] # pair[2] /\ object[pair[1]] # NoObject
  BY S3Assumption DEF RenameCopy, Objects
<1>2. objects \in Bucket
  BY <1>1 DEF S3Inv, TypeOK, Bucket
<1>3. next \in Renaming
  BY <1>1 DEF Renaming
<1>4. RenamingRelies(next, objects)
  BY <1>1 DEF RenamingRelies, S3Inv, TypeOK
<1>5. next \in Pending \cup {Idle} /\ Relies(next, objects)
  BY <1>3, <1>4, Kinds DEF Relies, Pending
<1>6. Request(c, objects, next)
  BY DEF RenameCopy
<1> QED
  BY <1>2, <1>5, <1>6, RequestKeeps

(* Opening a writer.                                                       *)
LEMMA OpenKeeps ==
  ASSUME S3Inv, NEW c \in Client, NEW k \in Key, Create(c, k) \/ Append_(c, k)
  PROVE  S3Inv'
<1>1. PICK data \in Seq(Chunk), found \in BOOLEAN :
        /\ found => k \in Objects /\ data = object[k]
        /\ call' = [call EXCEPT ![c] =
             [op |-> "write", key |-> k, data |-> data, found |-> found, raced |-> FALSE]]
        /\ UNCHANGED object
  <2>1. <<>> \in Seq(Chunk) /\ (k \in Objects => object[k] \in Seq(Chunk))
    BY DEF S3Inv, TypeOK, Objects
  <2>2. CASE Create(c, k)
    BY <2>1, <2>2 DEF Create
  <2>3. CASE Append_(c, k)
    <3>1. PICK found \in {FALSE, (k \in Objects)} :
            call' = [call EXCEPT ![c] =
              [op |-> "write", key |-> k, data |-> IF found THEN object[k] ELSE <<>>,
               found |-> found, raced |-> FALSE]]
      BY <2>3 DEF Append_
    <3>2. found \in BOOLEAN /\ (found => k \in Objects)
      <4>1. (k \in Objects) \in BOOLEAN
        OBVIOUS
      <4>2. found = FALSE \/ found = (k \in Objects)
        OBVIOUS
      <4> QED
        BY <4>1, <4>2
    <3>3. UNCHANGED object
      BY <2>3 DEF Append_
    <3>4. CASE found
      BY <2>1, <3>1, <3>2, <3>3, <3>4
    <3>5. CASE ~found
      BY <2>1, <3>1, <3>2, <3>3, <3>5
    <3> QED
      BY <3>4, <3>5
  <2> QED
    BY <2>2, <2>3
<1> DEFINE next == [op |-> "write", key |-> k, data |-> data, found |-> found, raced |-> FALSE]
<1>2. next \in s3WriteCloser
  BY DEF s3WriteCloser
<1>3. found => IsPrefix(object[k], data) /\ object[k] # NoObject
  BY <1>1, PrefixOfSelf DEF Objects
<1>4. WriterRelies(next, object)
  BY <1>3 DEF WriterRelies
<1>5. next \in Pending \cup {Idle} /\ Relies(next, object)
  BY <1>2, <1>4, Kinds DEF Relies, Pending
<1> QED
  BY <1>1, <1>5, AnswerKeeps

(* Writing to a writer.                                                    *)
LEMMA WriterWriteKeeps ==
  ASSUME S3Inv, NEW c \in Client, NEW x \in Chunk, WriterWrite(c, x)
  PROVE  S3Inv'
<1> DEFINE pending == call[c]
           next == [pending EXCEPT !.data = Append(@, x)]
<1>1. pending \in s3WriteCloser /\ WriterRelies(pending, object)
  <2>1. pending \in Pending \cup {Idle} /\ Relies(pending, object)
    BY DEF S3Inv, TypeOK
  <2> QED
    BY <2>1, Kinds DEF WriterWrite, Relies
<1>2. pending.data \in Seq(Chunk) /\ pending.key \in Key
  BY <1>1 DEF s3WriteCloser
<1>3. /\ next \in s3WriteCloser /\ next.data = Append(pending.data, x) /\ next.key = pending.key
      /\ next.found = pending.found /\ next.raced = pending.raced
  BY <1>1, <1>2 DEF s3WriteCloser
<1>4. object[pending.key] # NoObject => object[pending.key] \in Seq(Chunk)
  BY <1>2 DEF S3Inv, TypeOK
<1>5. ASSUME pending.found, ~pending.raced
      PROVE  object[pending.key] # NoObject /\ IsPrefix(object[pending.key], Append(pending.data, x))
  <2>1. object[pending.key] # NoObject /\ IsPrefix(object[pending.key], pending.data)
    BY <1>1, <1>5 DEF WriterRelies
  <2> QED
    BY <1>2, <1>4, <2>1, PrefixOfAppend
<1>6. next \in Pending \cup {Idle} /\ Relies(next, object)
  <2>1. WriterRelies(next, object)
    <3> HIDE DEF next, pending
    <3> QED
      BY <1>3, <1>5 DEF WriterRelies
  <2> QED
    BY <1>3, <2>1, Kinds DEF Relies, Pending
<1>7. call' = [call EXCEPT ![c] = next] /\ UNCHANGED object
  BY DEF WriterWrite, S3Inv, TypeOK
<1> QED
  BY <1>6, <1>7, AnswerKeeps

(* Closing one: what is put is an extension of what was read.              *)
LEMMA WriterCloseKeeps ==
  ASSUME S3Inv, NEW c \in Client, WriterClose(c)
  PROVE  /\ S3Inv'
         /\ call[c].found /\ ~call[c].raced =>
              IsPrefix(object[call[c].key], object'[call[c].key])
<1>1. call[c] \in s3WriteCloser /\ WriterRelies(call[c], object)
  <2>1. call[c] \in Pending \cup {Idle} /\ Relies(call[c], object)
    BY DEF S3Inv, TypeOK
  <2> QED
    BY <2>1, Kinds DEF WriterClose, Relies
<1>2. call[c].data \in Seq(Chunk) /\ call[c].key \in Key
  BY <1>1 DEF s3WriteCloser
<1> DEFINE objects == [object EXCEPT ![call[c].key] = call[c].data]
<1>3. objects \in Bucket /\ objects[call[c].key] = call[c].data
  BY <1>2 DEF S3Inv, TypeOK, Bucket
<1>4. Request(c, objects, Idle) /\ object' = objects
  BY DEF WriterClose, Request
<1> HIDE DEF objects
<1> QED
  BY <1>1, <1>3, <1>4, LastRequestKeeps DEF WriterRelies

(* The deletion of a Rename: the object is at the new key.                 *)
LEMMA RenameDeleteKeeps ==
  ASSUME S3Inv, NEW c \in Client, RenameDelete(c)
  PROVE  /\ S3Inv'
         /\ ~call[c].raced =>
              object[call[c].key] # NoObject /\ object'[call[c].new] = object[call[c].key]
<1>1. call[c] \in Renaming /\ RenamingRelies(call[c], object)
  <2>1. call[c] \in Pending \cup {Idle} /\ Relies(call[c], object)
    BY DEF S3Inv, TypeOK
  <2> QED
    BY <2>1, Kinds DEF RenameDelete, Relies
<1>2. call[c].new \in Key
  BY <1>1 DEF Renaming
<1>3. Request(c, Without({call[c].key}), Idle) /\ object' = Without({call[c].key})
  BY DEF RenameDelete, Request
<1>4. Without({call[c].key})[call[c].new] = IF call[c].new = call[c].key THEN NoObject ELSE object[call[c].new]
  BY <1>2 DEF Without
<1>5. S3Inv'
  BY <1>3, WithoutKeeps, LastRequestKeeps
<1> QED
  BY <1>1, <1>3, <1>4, <1>5 DEF RenamingRelies

-----------------------------------------------------------------------------
LEMMA S3InitInv == Init => S3Inv
<1> SUFFICES ASSUME Init PROVE S3Inv
  OBVIOUS
<1>1. TypeOK
  BY DEF Init, TypeOK
<1> QED
  BY <1>1, IdleRelies DEF Init, S3Inv

(* Every step keeps the invariant.                                         *)
LEMMA S3NextKeeps ==
  ASSUME S3Inv, [Next]_vars
  PROVE  S3Inv'
<1>1. CASE UNCHANGED vars
  BY <1>1 DEF vars, S3Inv, TypeOK
<1>2. CASE Next
  <2> PICK c \in Client :
        \/ \E k \in objectKey(c) : KeyCalls(c, k)
        \/ \E pair \in CanRename : {pair[1], pair[2]} \subseteq objectKey(c) /\ RenameCopy(c, pair[1], pair[2])
        \/ ListPage(c) \/ DeletePage(c) \/ DeletePagePartly(c)
        \/ RenameDelete(c)
        \/ \E x \in Chunk : WriterWrite(c, x)
        \/ WriterClose(c) \/ Fails(c)
    BY <1>2 DEF Next
  <2>1. ASSUME NEW k \in Key, KeyCalls(c, k) PROVE S3Inv'
    <3>1. ASSUME NEW x \in Payload, Write(c, k, x) PROVE S3Inv'
      <4>1. [object EXCEPT ![k] = x] \in Bucket
        BY S3Assumption DEF S3Inv, TypeOK, Bucket
      <4>2. Request(c, [object EXCEPT ![k] = x], Idle)
        BY <3>1 DEF Write
      <4> QED
        BY <4>1, <4>2, LastRequestKeeps
    <3>2. ASSUME Delete(c, k) PROVE S3Inv'
      <4>1. Request(c, Without({k}), Idle)
        BY <3>2 DEF Delete
      <4> QED
        BY <4>1, WithoutKeeps, LastRequestKeeps
    <3>3. ASSUME DeleteAll(c, k) PROVE S3Inv'
      BY <3>3, DeleteAllKeeps
    <3>4. ASSUME Create(c, k) \/ Append_(c, k) PROVE S3Inv'
      BY <3>4, OpenKeeps
    <3> QED
      BY <2>1, <3>1, <3>2, <3>3, <3>4 DEF KeyCalls
  <2>2. ASSUME NEW pair \in CanRename, RenameCopy(c, pair[1], pair[2]) PROVE S3Inv'
    BY <2>2, RenameCopyKeeps
  <2>3. ASSUME DeletePagePartly(c) PROVE S3Inv'
    <3>1. PICK some \in SUBSET call[c].page : Request(c, Without(some), Idle)
      BY <2>3 DEF DeletePagePartly
    <3> QED
      BY <3>1, WithoutKeeps, LastRequestKeeps
  <2>4. ASSUME NEW x \in Chunk, WriterWrite(c, x) PROVE S3Inv'
    BY <2>4, WriterWriteKeeps
  <2>5. ASSUME Fails(c) PROVE S3Inv'
    BY <2>5, AnswerKeeps, IdleRelies DEF Fails
  <2>6. \A k \in objectKey(c) : k \in Key
    BY DEF objectKey
  <2> QED
    BY <2>1, <2>2, <2>3, <2>4, <2>5, <2>6, ListPageKeeps, DeletePageKeeps, RenameDeleteKeeps, WriterCloseKeeps
<1> QED
  BY <1>1, <1>2

(* Calls rely on what the bucket holds, whatever the others do.            *)
THEOREM AlwaysS3Inv == Spec => []S3Inv
BY S3InitInv, S3NextKeeps, PTL DEF Spec

(* Every variable of the mediums and the bucket keeps its kind, whatever   *)
(* the keys, the page size and the number of mediums.                      *)
THEOREM S3TypeCorrect == Spec => []TypeOK
<1>1. S3Inv => TypeOK
  BY DEF S3Inv
<1> QED
  BY <1>1, AlwaysS3Inv, PTL

(* A DeleteAll that ends without an error has deleted every object that    *)
(* was there when it began and that nobody put since, for any page size    *)
(* and any number of pages.  (DeleteAll, deleteObjectBatch)                *)
THEOREM CompleteDeleteAllClears == Spec => DeleteAllClears
<1>1. ASSUME S3Inv, [Next]_vars
      PROVE  [\A c \in Client :
                /\ ListPage(c) \/ DeletePage(c)
                /\ call'[c] = Idle
                => \A k \in call[c].doomed : object'[k] = NoObject]_vars
  BY <1>1, ListPageKeeps, DeletePageKeeps
<1> QED
  BY <1>1, AlwaysS3Inv, PTL DEF Spec, DeleteAllClears

(* Between the two requests of a Rename and after them the object is at    *)
(* the new key, unless another medium changed one of the keys.  (Rename)   *)
THEOREM RenamesKeepObjects == Spec => RenameKeepsObject
<1>1. ASSUME S3Inv, [Next]_vars
      PROVE  [\A c \in Client :
                RenameDelete(c) /\ ~call[c].raced =>
                  object[call[c].key] # NoObject /\ object'[call[c].new] = object[call[c].key]]_vars
  BY <1>1, RenameDeleteKeeps
<1> QED
  BY <1>1, AlwaysS3Inv, PTL DEF Spec, RenameKeepsObject

(* An appending writer that could read its object, which nobody changed    *)
(* since, stores an extension of it.  (Append, s3WriteCloser.Close)        *)
THEOREM AppendsExtendObjects == Spec => AppendExtends
<1>1. ASSUME S3Inv, [Next]_vars
      PROVE  [\A c \in Client :
                WriterClose(c) /\ call[c].found /\ ~call[c].raced =>
                  IsPrefix(object[call[c].key], object'[call[c].key])]_vars
  BY <1>1, WriterCloseKeeps
<1> QED
  BY <1>1, AlwaysS3Inv, PTL DEF Spec, AppendExtends

-----------------------------------------------------------------------------
(* The reading operations agree, whatever is in the bucket.  (List, IsDir, *)
(* IsFile, Exists)                                                         *)
LEMMA ListingsAgree == ListingAgrees
<1> SUFFICES ASSUME NEW d \in Key
             PROVE  /\ IsDir(d) <=> List(d) # {}
                    /\ \A e \in List(d) :
                         LET k == Append(d, e.name) IN
                         Exists(k) /\ IF e.isDir THEN IsDir(k) ELSE IsFile(k)
  BY DEF ListingAgrees
<1> DEFINE listable == Listable(d, 0)
           heads == {i \in listable : \A j \in listable : j < i => EntryOf(d, j) # EntryOf(d, i)}
<1>1. /\ Len(KeyOrder) \in Nat /\ d \in Seq(Segment)
      /\ \A i \in 1 .. Len(KeyOrder) : KeyOrder[i] \in Seq(Segment)
  <2>1. /\ KeyOrder \in Seq(Seq(Segment) \ {<<>>}) /\ Len(KeyOrder) \in Nat
    BY S3Assumption, LenProperties
  <2>2. \A i \in 1 .. Len(KeyOrder) : KeyOrder[i] \in Seq(Segment)
    BY <2>1, ElementOfSeq
  <2> QED
    BY <2>1, <2>2 DEF Key
<1>2. List(d) = {EntryOf(d, i) : i \in FirstOf(heads)}
  BY DEF List
<1>3. listable \in SUBSET (1 .. Len(KeyOrder)) /\ heads \in SUBSET listable
  BY DEF Listable
<1>4. listable = {} <=> Below(d) = {}
  <2>1. \A q \in Below(d) : \E i \in 1 .. Len(KeyOrder) : q = KeyOrder[i] /\ i > 0
    BY <1>1 DEF Below, Objects, Key
  <2> QED
    BY <2>1 DEF Listable
<1>5. listable # {} => heads # {}
  <2>1. ASSUME listable # {}
        PROVE  \E i \in listable : \A j \in listable : i <= j
    BY <1>1, <1>3, <2>1, LeastGreatest
  <2> HIDE DEF listable
  <2>2. ASSUME NEW i \in listable, \A j \in listable : i <= j
        PROVE  i \in heads
    <3>1. \A j \in listable : ~(j < i)
      BY <1>1, <1>3, <2>2
    <3> QED
      BY <3>1
  <2> QED
    BY <2>1, <2>2
<1> HIDE DEF heads, listable
<1>6. FirstOf(heads) \in SUBSET heads
  BY DEF FirstOf
<1>7. heads # {} => FirstOf(heads) # {}
  BY <1>1, <1>3, PageIsPrefix
<1>8. IsDir(d) <=> List(d) # {}
  BY <1>2, <1>3, <1>4, <1>5, <1>6, <1>7 DEF IsDir
<1>9. ASSUME NEW e \in List(d)
      PROVE  LET k == Append(d, e.name) IN
             Exists(k) /\ IF e.isDir THEN IsDir(k) ELSE IsFile(k)
  <2>1. PICK i \in FirstOf(heads) : e = EntryOf(d, i)
    BY <1>2
  <2> DEFINE q == KeyOrder[i]
             k == Append(d, e.name)
  <2>2. i \in 1 .. Len(KeyOrder) /\ q \in Objects /\ Under(q, d) /\ q \in Seq(Segment)
    BY <1>1, <1>3, <1>6 DEF listable, Listable, Below
  <2>3. e.name = q[Len(d) + 1] /\ (e.isDir <=> Len(q) > Len(d) + 1)
    BY <2>1 DEF EntryOf
  <2> HIDE DEF q
  <2>4. /\ Len(q) \in Nat /\ Len(d) \in Nat /\ Len(d) < Len(q) /\ Len(d) + 1 \in 1 .. Len(q)
        /\ \A j \in 1 .. Len(d) : d[j] = q[j]
    BY <1>1, <2>2, LenProperties, UnderElements
  <2>5. e.name \in Segment
    BY <2>2, <2>3, <2>4, ElementOfSeq
  <2>6. /\ k \in Seq(Segment) /\ Len(k) = Len(d) + 1 /\ k[Len(d) + 1] = e.name
        /\ \A j \in 1 .. Len(d) : k[j] = d[j]
    BY <1>1, <2>5
  <2> HIDE DEF k
  <2>7. \A j \in 1 .. Len(k) : k[j] = q[j]
    BY <2>3, <2>4, <2>6
  <2>8. CASE Len(q) > Len(d) + 1
    <3>1. Under(q, k)
      BY <2>2, <2>4, <2>6, <2>7, <2>8, UnderElements
    <3>2. IsDir(k)
      BY <2>2, <3>1 DEF IsDir, Below
    <3> QED
      BY <2>3, <2>8, <3>2 DEF k, Exists
  <2>9. CASE ~(Len(q) > Len(d) + 1)
    <3>1. Len(q) = Len(k)
      BY <2>4, <2>6, <2>9
    <3>2. k = q
      BY <2>2, <2>6, <2>7, <3>1, SeqEqual
    <3> QED
      BY <2>2, <2>3, <2>9, <3>2 DEF k, Exists, IsFile
  <2> QED
    BY <2>8, <2>9
<1> QED
  BY <1>8, <1>9

-----------------------------------------------------------------------------
(* pwa.Medium                                                              *)
-----------------------------------------------------------------------------

HoldsLock(c) == pc[c] \in {"retest", "manifest", "download"}

LockExcludes == \A c, d \in Caller : HoldsLock(c) /\ HoldsLock(d) => c = d

(* Who has tested under the lock finds no node until it lets go.           *)
TestedStays == \A c \in Caller : pc[c] \in {"manifest", "download"} => dataNode = NoDataNode

UsesTheNode == \A c \in Caller : using[c] # NoDataNode => using[c] = dataNode

PwaInv == PwaTypeOK /\ LockExcludes /\ TestedStays /\ UsesTheNode

-----------------------------------------------------------------------------
(* No caller uses anything and none holds the lock.  (New)                 *)
LEMMA PwaInitInv == PwaInit => PwaInv
  BY PwaAssumption DEF PwaInit, PwaInv, PwaTypeOK, LockExcludes, TestedStays, UsesTheNode, HoldsLock

(* Every step keeps the kinds of the variables.  (ensureDataNode)          *)
LEMMA PwaTypeStep == PwaTypeOK /\ [PwaNext]_pwaVars => PwaTypeOK'
<1> SUFFICES ASSUME PwaTypeOK, [PwaNext]_pwaVars PROVE PwaTypeOK'
  OBVIOUS
<1> USE PwaAssumption DEF PwaTypeOK, Goes, Use
<1>1. ASSUME NEW c \in Caller, Call(c) PROVE PwaTypeOK'
  BY <1>1 DEF Call
<1>2. ASSUME NEW c \in Caller, Test(c) PROVE PwaTypeOK'
  BY <1>2 DEF Test
<1>3. ASSUME NEW c \in Caller, Lock(c) PROVE PwaTypeOK'
  BY <1>3 DEF Lock
<1>4. ASSUME NEW c \in Caller, Retest(c) PROVE PwaTypeOK'
  BY <1>4 DEF Retest
<1>5. ASSUME NEW c \in Caller, FindManifest(c) PROVE PwaTypeOK'
  BY <1>5 DEF FindManifest
<1>6. ASSUME NEW c \in Caller, DownloadAndPackagePWA(c) PROVE PwaTypeOK'
  BY <1>6 DEF DownloadAndPackagePWA
<1>7. ASSUME NEW c \in Caller, Answers(c) PROVE PwaTypeOK'
  BY <1>7 DEF Answers
<1>8. CASE UNCHANGED pwaVars
  BY <1>8 DEF pwaVars
<1> QED
  BY <1>1, <1>2, <1>3, <1>4, <1>5, <1>6, <1>7, <1>8 DEF PwaNext

(* A node is only put where there is none: the callers that answer from    *)
(* one go on doing so.  (ensureDataNode)                                   *)
LEMMA NodeStays == PwaInv /\ [PwaNext]_pwaVars => dataNode = NoDataNode \/ dataNode' = dataNode
  BY DEF PwaInv, TestedStays, PwaNext, pwaVars, Call, Test, Use, Lock, Retest, FindManifest,
         DownloadAndPackagePWA, Answers, Goes

(* The lock excludes, what was tested under it stays so, and every caller  *)
(* uses the node that is kept.  (ensureDataNode)                           *)
LEMMA PwaInvStep == PwaInv /\ [PwaNext]_pwaVars => PwaInv'
<1> SUFFICES ASSUME PwaInv, [PwaNext]_pwaVars PROVE PwaInv'
  OBVIOUS
<1>1. PwaTypeOK'
  BY PwaTypeStep DEF PwaInv
<1> USE PwaAssumption DEF PwaInv, PwaTypeOK, LockExcludes, TestedStays, UsesTheNode, HoldsLock, Goes, Use
<1>2. ASSUME NEW c \in Caller, Call(c) PROVE PwaInv'
  BY <1>1, <1>2 DEF Call
<1>3. ASSUME NEW c \in Caller, Test(c) PROVE PwaInv'
  BY <1>1, <1>3 DEF Test
<1>4. ASSUME NEW c \in Caller, Lock(c) PROVE PwaInv'
  BY <1>1, <1>4 DEF Lock, Unlocked
<1>5. ASSUME NEW c \in Caller, Retest(c) PROVE PwaInv'
  BY <1>1, <1>5 DEF Retest
<1>6. ASSUME NEW c \in Caller, FindManifest(c) PROVE PwaInv'
  BY <1>1, <1>6 DEF FindManifest
<1>7. ASSUME NEW c \in Caller, DownloadAndPackagePWA(c) PROVE PwaInv'
  BY <1>1, <1>7 DEF DownloadAndPackagePWA
<1>8. ASSUME NEW c \in Caller, Answers(c) PROVE PwaInv'
  BY <1>1, <1>8 DEF Answers
<1>9. CASE UNCHANGED pwaVars
  BY <1>1, <1>9 DEF pwaVars
<1> QED
  BY <1>2, <1>3, <1>4, <1>5, <1>6, <1>7, <1>8, <1>9 DEF PwaNext

LEMMA AlwaysPwaInv == PwaSpec => []PwaInv
  BY PwaInitInv, PwaInvStep, PTL DEF PwaSpec

-----------------------------------------------------------------------------
(* Every variable holds a value of its kind.                               *)
THEOREM PwaTypeCorrect == PwaSpec => []PwaTypeOK
  BY AlwaysPwaInv, PTL DEF PwaInv

(* However many goroutines make the first call together, they all answer   *)
(* from one download, for ever.  (ensureDataNode)                          *)
THEOREM AllUseOneDownload == PwaSpec => OneDownload
<1>1. PwaInv /\ [PwaNext]_pwaVars =>
        [\A c \in Caller : using'[c] # NoDataNode /\ dataNode # NoDataNode => using'[c] = dataNode]_pwaVars
  BY PwaInvStep, NodeStays DEF PwaInv, UsesTheNode
<1> QED
  BY <1>1, AlwaysPwaInv, PTL DEF PwaSpec, OneDownload

-----------------------------------------------------------------------------
(* webdav.Medium                                                           *)
-----------------------------------------------------------------------------

Resources == [Path -> Seq(Chunk) \cup {Collection, NotFound}]

(* Whatever exists is in a collection, up to the root.                     *)
TreeClosed(resources) ==
  \A p, q \in Path : Under(q, p) /\ resources[q] # NotFound => resources[p] = Collection

CanHold(resources, p) == Front(p) \in Path => resources[Front(p)] = Collection

(* What an operation relies on between its requests: the collections it    *)
(* still has to make end with the one that is to hold its resource, what   *)
(* it deletes is empty, and what it appends to is what it read.            *)
OperationRelies(o, resources) ==
  /\ o.stage \in {"mkcol", "isDir"} => o.todo # <<>> /\ o.op \in {"write", "ensureDir", "rename"}
  /\ o.stage \in {"stat", "list"} => o.op = "delete"
  /\ o.op = "rename" => Apart(o.path, o.new)
  /\ o.op \in {"write", "rename"} /\ o.stage # "last" => o.todo[Len(o.todo)] = Front(o.new)
  /\ o.op \in {"write", "rename"} /\ o.stage = "last" /\ ~o.raced => CanHold(resources, o.new)
  /\ o.op = "delete" /\ o.stage = "last" /\ ~o.raced =>
       \A q \in Path : Under(q, o.path) => resources[q] = NotFound
  /\ /\ o.op \in {"writer", "write"} /\ o.appends /\ ~o.raced
     /\ resources[o.path] \notin {Collection, NotFound}
     => IsPrefix(resources[o.path], o.data)

OperationsRely(calls, resources) ==
  \A c \in Client : calls[c] # Idle => OperationRelies(calls[c], resources)

WebdavInv == Webdav!TypeOK /\ TreeClosed(resource) /\ OperationsRely(webdavCall, resource)

-----------------------------------------------------------------------------
(* The operators on paths are those of Paths.                              *)
LEMMA WebdavPaths ==
  /\ \A s, t : Webdav!IsPrefix(s, t) <=> IsPrefix(s, t)
  /\ \A p, d : Webdav!Under(p, d) <=> Under(p, d)
  /\ \A p, q : Webdav!Apart(p, q) <=> Apart(p, q)
  /\ \A p : Webdav!Front(p) = Front(p)
  /\ \A p : Webdav!Ancestors(p) = Ancestors(p)
  /\ \A p, old, new : Webdav!Rebase(p, old, new) = Rebase(p, old, new)
<1>1. \A s, t : Webdav!IsPrefix(s, t) <=> IsPrefix(s, t)
  BY DEF Webdav!IsPrefix, IsPrefix
<1>2. \A p, d : Webdav!Under(p, d) <=> Under(p, d)
  BY <1>1 DEF Webdav!Under, Webdav!IsStrictPrefix, Under, IsStrictPrefix
<1>3. \A p, q : Webdav!Apart(p, q) <=> Apart(p, q)
  BY <1>1 DEF Webdav!Apart, Apart
<1>4. \A p : Webdav!Front(p) = Front(p)
  BY DEF Webdav!Front, Front
<1>5. \A p : Webdav!Ancestors(p) = Ancestors(p)
  BY DEF Webdav!Ancestors, Ancestors
<1>6. \A p, old, new : Webdav!Rebase(p, old, new) = Rebase(p, old, new)
  BY DEF Webdav!Rebase, Rebase
<1> QED
  BY <1>1, <1>2, <1>3, <1>4, <1>5, <1>6

(* What WebdavMedium assumes, in terms of Paths.                           *)
LEMMA WebdavConstants ==
  /\ Path \subseteq Seq(Segment) \ {<<>>}
  /\ \A p \in Path : Ancestors(p) \subseteq Path
  /\ PathPairs \subseteq Path \X Path
  /\ \A pair \in PathPairs : Apart(pair[1], pair[2])
  /\ Payload \subseteq Seq(Chunk)
  /\ Collection # NotFound
  /\ Collection \notin Seq(Chunk) /\ NotFound \notin Seq(Chunk)
  /\ Idle \notin Webdav!Operation
<1>1. Webdav!WebdavAssumption
  BY RemoteAssumption
<1>2. /\ Path \subseteq Seq(Segment) \ {<<>>}
      /\ \A p \in Path : Webdav!Ancestors(p) \subseteq Path
      /\ PathPairs \subseteq Path \X Path
      /\ \A pair \in PathPairs : Webdav!Apart(pair[1], pair[2])
      /\ Payload \subseteq Seq(Chunk)
      /\ Collection # NotFound
      /\ {Collection, NotFound} \cap Seq(Chunk) = {}
      /\ Idle \notin Webdav!Operation
  BY <1>1 DEF Webdav!WebdavAssumption
<1> QED
  BY <1>2, WebdavPaths

(* Every path above one in use is in use.                                  *)
LEMMA PathClosed ==
  ASSUME NEW p \in Path, NEW d \in Seq(Segment), d # <<>>, IsPrefix(d, p)
  PROVE  d \in Path
<1>1. p \in Seq(Segment) /\ Ancestors(p) \subseteq Path
  BY WebdavConstants
<1>2. CASE d = p
  BY <1>2
<1>3. CASE d # p
  <2>1. Under(p, d)
    BY <1>3 DEF Under, IsStrictPrefix
  <2> QED
    BY <1>1, <2>1, AncestorsAreAbove
<1> QED
  BY <1>2, <1>3

-----------------------------------------------------------------------------
(* What a request makes of the tree                                        *)

(* A file or a collection in a collection that is there.  (putBytes, mkcol)*)
LEMMA PlacingKeepsTree ==
  ASSUME NEW resources \in Resources, TreeClosed(resources), NEW p \in Path,
         NEW x \in Seq(Chunk) \cup {Collection}, CanHold(resources, p), resources[p] # Collection
  PROVE  LET placed == [resources EXCEPT ![p] = x] IN placed \in Resources /\ TreeClosed(placed)
<1> DEFINE placed == [resources EXCEPT ![p] = x]
<1>1. /\ placed \in Resources /\ placed[p] = x
      /\ \A q \in Path : q # p => placed[q] = resources[q]
  BY DEF Resources
<1> HIDE DEF placed
<1>2. ASSUME NEW q \in Path, NEW d \in Path, Under(q, d), placed[q] # NotFound
      PROVE  placed[d] = Collection
  <2>1. /\ p \in Seq(Segment) /\ q \in Seq(Segment) /\ d \in Seq(Segment)
        /\ p # <<>> /\ d # <<>> /\ Collection # NotFound
    BY WebdavConstants
  <2>2. d # q /\ IsPrefix(d, q)
    BY <1>2 DEF Under, IsStrictPrefix
  <2>3. CASE q # p
    <3>1. resources[d] = Collection
      BY <1>1, <1>2, <2>3 DEF TreeClosed
    <3> QED
      BY <1>1, <3>1
  <2>4. CASE q = p
    <3>1. Front(p) \in Seq(Segment) /\ Under(p, Front(p)) /\ IsPrefix(d, Front(p))
      BY <1>2, <2>1, <2>4, FrontAbove
    <3>2. Front(p) \in Path /\ IsPrefix(Front(p), p)
      <4>1. Front(p) # <<>>
        BY <2>1, <3>1, PrefixElements, EmptySeq, LenProperties
      <4>2. IsPrefix(Front(p), p)
        BY <3>1 DEF Under, IsStrictPrefix
      <4> QED
        BY <3>1, <4>1, <4>2, PathClosed
    <3>3. resources[Front(p)] = Collection
      BY <3>2 DEF CanHold
    <3>4. resources[d] = Collection
      <4>1. CASE d = Front(p)
        BY <3>3, <4>1
      <4>2. CASE d # Front(p)
        <5>1. Under(Front(p), d)
          BY <3>1, <4>2 DEF Under, IsStrictPrefix
        <5> QED
          BY <2>1, <3>2, <3>3, <5>1 DEF TreeClosed
      <4> QED
        BY <4>1, <4>2
    <3> QED
      BY <1>1, <2>2, <2>4, <3>4
  <2> QED
    BY <2>3, <2>4
<1> QED
  BY <1>1, <1>2 DEF TreeClosed, placed

(* All of a subtree goes.  (Delete, DeleteAll)                             *)
LEMMA RemovingKeepsTree ==
  ASSUME WebdavInv, NEW p \in Path
  PROVE  Webdav!Removed(p) \in Resources /\ TreeClosed(Webdav!Removed(p))
<1> DEFINE removed == Webdav!Removed(p)
<1>1. resource \in Resources /\ TreeClosed(resource)
  BY DEF WebdavInv, Webdav!TypeOK, Resources
<1>2. removed = [q \in Path |-> IF IsPrefix(p, q) THEN NotFound ELSE resource[q]]
  BY WebdavPaths DEF Webdav!Removed
<1>3. /\ removed \in Resources
      /\ \A q \in Path : removed[q] = IF IsPrefix(p, q) THEN NotFound ELSE resource[q]
  BY <1>1, <1>2 DEF Resources
<1> HIDE DEF removed
<1>4. ASSUME NEW q \in Path, NEW d \in Path, Under(q, d), removed[q] # NotFound
      PROVE  removed[d] = Collection
  <2>1. p \in Seq(Segment) /\ q \in Seq(Segment) /\ d \in Seq(Segment)
    BY WebdavConstants
  <2>2. ~IsPrefix(p, q) /\ resource[q] # NotFound
    BY <1>3, <1>4
  <2>3. ~IsPrefix(p, d)
    <3>1. IsPrefix(d, q)
      BY <1>4 DEF Under, IsStrictPrefix
    <3> QED
      BY <2>1, <2>2, <3>1, PrefixTransitive
  <2>4. resource[d] = Collection
    BY <1>1, <1>4, <2>2 DEF TreeClosed
  <2> QED
    BY <1>3, <2>3, <2>4
<1> QED
  BY <1>3, <1>4 DEF TreeClosed, removed

(* A subtree moves to a place that a collection holds, and replaces what   *)
(* was there.  (Rename)                                                    *)
LEMMA MovingKeepsTree ==
  ASSUME WebdavInv, NEW old \in Path, NEW new \in Path, Apart(old, new), CanHold(resource, new)
  PROVE  Webdav!Moved(old, new) \in Resources /\ TreeClosed(Webdav!Moved(old, new))
<1> DEFINE moved == Webdav!Moved(old, new)
           Back(q) == Rebase(q, new, old)
<1>1. resource \in Resources /\ TreeClosed(resource)
  BY DEF WebdavInv, Webdav!TypeOK, Resources
<1>2. moved = [q \in Path |->
                 IF IsPrefix(new, q)
                 THEN IF Back(q) \in Path THEN resource[Back(q)] ELSE NotFound
                 ELSE IF IsPrefix(old, q) THEN NotFound ELSE resource[q]]
  BY WebdavPaths DEF Webdav!Moved, Webdav!Removed
<1>3. /\ moved \in Resources
      /\ \A q \in Path :
           moved[q] = IF IsPrefix(new, q)
                      THEN IF Back(q) \in Path THEN resource[Back(q)] ELSE NotFound
                      ELSE IF IsPrefix(old, q) THEN NotFound ELSE resource[q]
  BY <1>1, <1>2 DEF Resources
<1> HIDE DEF moved
<1>4. ASSUME NEW q \in Path, NEW d \in Path, Under(q, d), moved[q] # NotFound
      PROVE  moved[d] = Collection
  <2>1. /\ old \in Seq(Segment) /\ new \in Seq(Segment) /\ q \in Seq(Segment) /\ d \in Seq(Segment)
        /\ old # <<>> /\ new # <<>> /\ d # <<>>
    BY WebdavConstants
  <2>2. IsPrefix(d, q) /\ d # q
    BY <1>4 DEF Under, IsStrictPrefix
  <2>3. CASE IsPrefix(new, d)
    <3>1. IsPrefix(new, q)
      BY <2>1, <2>2, <2>3, PrefixTransitive
    <3>2. Back(q) \in Path /\ resource[Back(q)] # NotFound
      BY <1>3, <1>4, <3>1
    <3>3. Back(d) \in Seq(Segment) /\ IsPrefix(old, Back(d)) /\ Under(Back(q), Back(d))
      BY <1>4, <2>1, <2>3, RebaseElements, RebaseOrder
    <3>4. Back(d) # <<>>
      BY <2>1, <3>3, PrefixElements, EmptySeq, LenProperties
    <3>5. Back(d) \in Path
      BY <3>2, <3>3, <3>4, PathClosed DEF Under, IsStrictPrefix
    <3>6. resource[Back(d)] = Collection
      BY <1>1, <3>2, <3>3, <3>5 DEF TreeClosed
    <3> QED
      BY <1>3, <2>3, <3>5, <3>6
  <2>4. CASE ~IsPrefix(new, d) /\ IsPrefix(new, q)
    <3>1. IsPrefix(d, new) /\ d # new
      BY <2>1, <2>2, <2>4, PrefixesCompare, PrefixOfSelf
    <3>2. Under(new, d)
      BY <3>1 DEF Under, IsStrictPrefix
    <3>3. ~IsPrefix(old, d)
      BY <2>1, <3>1, PrefixTransitive DEF Apart
    <3>4. resource[d] = Collection
      <4>1. Front(new) \in Seq(Segment) /\ Under(new, Front(new)) /\ IsPrefix(d, Front(new))
        BY <2>1, <3>2, FrontAbove
      <4>2. Front(new) # <<>>
        BY <2>1, <4>1, PrefixElements, EmptySeq, LenProperties
      <4>3. Front(new) \in Path
        BY <4>1, <4>2, PathClosed DEF Under, IsStrictPrefix
      <4>4. resource[Front(new)] = Collection /\ Collection # NotFound
        BY <4>3, WebdavConstants DEF CanHold
      <4>5. CASE d # Front(new)
        <5>1. Under(Front(new), d)
          BY <4>1, <4>5 DEF Under, IsStrictPrefix
        <5> QED
          BY <1>1, <4>3, <4>4, <5>1 DEF TreeClosed
      <4> QED
        BY <4>4, <4>5
    <3> QED
      BY <1>3, <2>4, <3>3, <3>4
  <2>5. CASE ~IsPrefix(new, d) /\ ~IsPrefix(new, q)
    <3>1. ~IsPrefix(old, q) /\ resource[q] # NotFound
      BY <1>3, <1>4, <2>5
    <3>2. ~IsPrefix(old, d)
      BY <2>1, <2>2, <3>1, PrefixTransitive
    <3>3. resource[d] = Collection
      BY <1>1, <1>4, <3>1 DEF TreeClosed
    <3> QED
      BY <1>3, <2>5, <3>2, <3>3
  <2> QED
    BY <2>3, <2>4, <2>5
<1> QED
  BY <1>3, <1>4 DEF TreeClosed, moved

-----------------------------------------------------------------------------
(* What requests do to the operations                                      *)

(* An operation that learns of changes near its paths relies on what is    *)
(* left.                                                                   *)
LEMMA DisturbedOperationRelies ==
  ASSUME NEW o \in Webdav!Operation, NEW before \in Resources, NEW after \in Resources,
         OperationRelies(o, before),
         NEW next,
         next = IF \E p \in {r \in Path : after[r] # before[r]} : \E q \in {o.path, o.new} : ~Apart(p, q)
                THEN [o EXCEPT !.raced = TRUE] ELSE o
  PROVE  next \in Webdav!Operation /\ OperationRelies(next, after)
<1> DEFINE touched == \E p \in {r \in Path : after[r] # before[r]} :
                        \E q \in {o.path, o.new} : ~Apart(p, q)
<1>1. CASE touched
  <2>1. next = [o EXCEPT !.raced = TRUE]
    BY <1>1
  <2>2. /\ next \in Webdav!Operation
        /\ next.raced = TRUE /\ next.stage = o.stage /\ next.op = o.op
        /\ next.todo = o.todo /\ next.path = o.path /\ next.new = o.new
    BY <2>1 DEF Webdav!Operation
  <2> QED
    BY <2>2 DEF OperationRelies
<1>2. CASE ~touched
  <2>1. next = o
    BY <1>2
  <2>2. /\ o.path \in Path /\ o.new \in Path
        /\ o.path \in Seq(Segment) /\ o.new \in Seq(Segment) /\ o.new # <<>>
    BY WebdavConstants DEF Webdav!Operation
  <2>3. ASSUME NEW p \in Path, ~Apart(p, o.path) \/ ~Apart(p, o.new)
        PROVE  after[p] = before[p]
    BY <1>2, <2>3
  <2>4. ASSUME CanHold(before, o.new)
        PROVE  CanHold(after, o.new)
    <3>1. Under(o.new, Front(o.new))
      BY <2>2, FrontAbove
    <3>2. ~Apart(Front(o.new), o.new)
      BY <3>1 DEF Under, IsStrictPrefix, Apart
    <3> QED
      BY <2>3, <2>4, <3>2 DEF CanHold
  <2>5. ASSUME \A q \in Path : Under(q, o.path) => before[q] = NotFound
        PROVE  \A q \in Path : Under(q, o.path) => after[q] = NotFound
    BY <2>3, <2>5 DEF Under, IsStrictPrefix, Apart
  <2>6. after[o.path] = before[o.path]
    <3>1. ~Apart(o.path, o.path)
      BY <2>2, PrefixOfSelf DEF Apart
    <3> QED
      BY <2>2, <2>3, <3>1
  <2> HIDE DEF touched
  <2> QED
    BY <2>1, <2>4, <2>5, <2>6 DEF OperationRelies
<1> QED
  BY <1>1, <1>2

(* A request keeps the invariant if the tree it leaves is closed and what  *)
(* the client goes on with relies on that tree.                            *)
LEMMA WebdavRequestKeeps ==
  ASSUME WebdavInv, NEW c \in Client, NEW resources \in Resources, TreeClosed(resources),
         NEW next \in Webdav!Operation \cup {Idle}, next # Idle => OperationRelies(next, resources),
         Webdav!Request(c, resources, next)
  PROVE  WebdavInv'
<1>1. /\ resource \in Resources /\ resource' = resources
      /\ webdavCall \in [Client -> Webdav!Operation \cup {Idle}]
  BY DEF WebdavInv, Webdav!TypeOK, Resources, Webdav!Request
<1> DEFINE touches(k) == \E p \in {r \in Path : resources[r] # resource[r]} :
                           \E q \in {webdavCall[k].path, webdavCall[k].new} : ~Apart(p, q)
<1>2. webdavCall' = [k \in Client |->
        IF k = c THEN next
        ELSE IF webdavCall[k] # Idle /\ touches(k) THEN [webdavCall[k] EXCEPT !.raced = TRUE]
        ELSE webdavCall[k]]
  BY WebdavPaths DEF Webdav!Request
<1>3. ASSUME NEW k \in Client
      PROVE  /\ webdavCall'[k] \in Webdav!Operation \cup {Idle}
             /\ webdavCall'[k] # Idle => OperationRelies(webdavCall'[k], resources)
  <2>1. CASE k = c
    BY <1>2, <2>1
  <2>2. CASE k # c /\ webdavCall[k] = Idle
    BY <1>2, <2>2
  <2>3. CASE k # c /\ webdavCall[k] # Idle
    <3>1. webdavCall[k] \in Webdav!Operation /\ OperationRelies(webdavCall[k], resource)
      BY <1>1, <2>3 DEF WebdavInv, OperationsRely
    <3>2. webdavCall'[k] = IF touches(k) THEN [webdavCall[k] EXCEPT !.raced = TRUE] ELSE webdavCall[k]
      BY <1>2, <2>3
    <3> QED
      BY <1>1, <3>1, <3>2, DisturbedOperationRelies
  <2> QED
    BY <2>1, <2>2, <2>3
<1>4. webdavCall' \in [Client -> Webdav!Operation \cup {Idle}]
  <2> HIDE DEF touches
  <2> QED
    BY <1>2, <1>3
<1> QED
  BY <1>1, <1>3, <1>4 DEF WebdavInv, OperationsRely, Webdav!TypeOK, Resources

(* An answer that changes nothing at the server.                           *)
LEMMA WebdavAnswerKeeps ==
  ASSUME WebdavInv, NEW c \in Client, NEW next \in Webdav!Operation \cup {Idle},
         next # Idle => OperationRelies(next, resource), Webdav!Answer(c, next)
  PROVE  WebdavInv'
<1>1. resource \in Resources /\ TreeClosed(resource)
  BY DEF WebdavInv, Webdav!TypeOK, Resources
<1> QED
  BY <1>1, WebdavRequestKeeps DEF Webdav!Answer

(* The collections above a path, outermost first.                          *)
LEMMA PrefixesEnd ==
  ASSUME NEW p \in Path, NEW n \in 0 .. Len(p)
  PROVE  LET todo == Webdav!Prefixes_(p, n)
         IN  /\ todo \in Seq(Path) /\ Len(todo) = n
             /\ todo = <<>> <=> n = 0
             /\ n # 0 => todo[n] = SubSeq(p, 1, n)
<1> DEFINE todo == Webdav!Prefixes_(p, n)
<1>1. p \in Seq(Segment) /\ Len(p) \in Nat /\ n \in Nat /\ n <= Len(p)
  BY WebdavConstants, LenProperties
<1>2. todo = [i \in 1 .. n |-> SubSeq(p, 1, i)]
  BY DEF Webdav!Prefixes_
<1>3. ASSUME NEW i \in 1 .. n PROVE SubSeq(p, 1, i) \in Path
  <2>1. i \in 0 .. Len(p) /\ i # 0
    BY <1>1
  <2>2. SubSeq(p, 1, i) \in Seq(Segment) /\ Len(SubSeq(p, 1, i)) = i /\ IsPrefix(SubSeq(p, 1, i), p)
    BY <1>1, <2>1, Beginning
  <2>3. SubSeq(p, 1, i) # <<>>
    BY <2>1, <2>2, EmptySeq
  <2> QED
    BY <2>2, <2>3, PathClosed
<1> HIDE DEF todo
<1>4. todo \in Seq(Path) /\ Len(todo) = n /\ \A i \in 1 .. n : todo[i] = SubSeq(p, 1, i)
  BY <1>1, <1>2, <1>3, SMT
<1>5. todo = <<>> <=> n = 0
  BY <1>4, EmptySeq
<1> QED
  BY <1>1, <1>4, <1>5 DEF todo

(* An operation that makes the collections above new before its last       *)
(* request.  (ensureParent)                                                *)
LEMMA ToParentRelies ==
  ASSUME NEW o \in Webdav!Operation, NEW resources \in Resources,
         o.op \in {"write", "rename"}, o.op = "rename" => Apart(o.path, o.new),
         o.todo = Webdav!Prefixes_(o.new, Len(o.new) - 1),
         o.stage = IF o.todo = <<>> THEN "last" ELSE "mkcol",
         o.appends /\ ~o.raced /\ resources[o.path] \notin {Collection, NotFound} =>
           IsPrefix(resources[o.path], o.data)
  PROVE  OperationRelies(o, resources)
<1>1. /\ o.new \in Path /\ o.new \in Seq(Segment) /\ o.new # <<>> /\ <<>> \notin Path
      /\ Len(o.new) \in Nat /\ Len(o.new) # 0 /\ Len(o.new) - 1 \in 0 .. Len(o.new)
  BY WebdavConstants, LenProperties, EmptySeq DEF Webdav!Operation
<1>2. /\ Len(o.todo) = Len(o.new) - 1
      /\ o.todo = <<>> <=> Len(o.new) - 1 = 0
      /\ Len(o.new) - 1 # 0 => o.todo[Len(o.new) - 1] = Front(o.new)
  BY <1>1, PrefixesEnd DEF Front
<1>3. o.todo # <<>> => o.todo[Len(o.todo)] = Front(o.new)
  BY <1>2
<1>4. ASSUME o.todo = <<>> PROVE CanHold(resources, o.new)
  <2>1. Len(o.new) = 1
    BY <1>1, <1>2, <1>4
  <2>2. Front(o.new) \in Seq(Segment) /\ Len(Front(o.new)) = 0
    BY <1>1, <2>1, Beginning DEF Front
  <2>3. Front(o.new) = <<>>
    BY <2>2, EmptySeq
  <2> QED
    BY <1>1, <2>3 DEF CanHold
<1> QED
  BY <1>3, <1>4 DEF OperationRelies

(* One collection is there, and the operation goes on to the next one or   *)
(* to its last request.  (EnsureDir)                                       *)
LEMMA AdvanceRelies ==
  ASSUME WebdavInv, NEW c \in Client, NEW resources \in Resources, webdavCall[c] # Idle,
         webdavCall[c].stage \in {"mkcol", "isDir"},
         resources[Head(webdavCall[c].todo)] = Collection,
         \A q \in Path : q # Head(webdavCall[c].todo) => resources[q] = resource[q]
  PROVE  /\ Webdav!Advance(c) \in Webdav!Operation \cup {Idle}
         /\ Webdav!Advance(c) # Idle => OperationRelies(Webdav!Advance(c), resources)
<1> DEFINE o == webdavCall[c]
           rest == Tail(o.todo)
<1>1. o \in Webdav!Operation /\ OperationRelies(o, resource)
  BY DEF WebdavInv, Webdav!TypeOK, OperationsRely
<1>2. /\ o.todo \in Seq(Path) /\ o.todo # <<>> /\ o.path \in Path
      /\ o.op \in {"write", "ensureDir", "rename"}
  BY <1>1 DEF Webdav!Operation, OperationRelies
<1>3. /\ rest \in Seq(Path) /\ Len(o.todo) \in Nat /\ Len(o.todo) # 0 /\ Len(rest) = Len(o.todo) - 1
      /\ \A i \in 1 .. Len(rest) : rest[i] = o.todo[i + 1]
      /\ Head(o.todo) = o.todo[1]
  BY <1>2
<1>4. ASSUME o.op = "write", o.appends, ~o.raced, resources[o.path] \notin {Collection, NotFound}
      PROVE  IsPrefix(resources[o.path], o.data)
  <2>1. resources[o.path] = resource[o.path]
    BY <1>2, <1>4
  <2> QED
    BY <1>1, <1>4, <2>1 DEF OperationRelies
<1>5. CASE rest # <<>>
  <2> DEFINE next == [o EXCEPT !.todo = rest, !.stage = "mkcol"]
  <2>1. Webdav!Advance(c) = next
    BY <1>5 DEF Webdav!Advance
  <2>2. /\ next \in Webdav!Operation
        /\ next.todo = rest /\ next.stage = "mkcol" /\ next.op = o.op /\ next.new = o.new
        /\ next.path = o.path /\ next.data = o.data /\ next.appends = o.appends /\ next.raced = o.raced
    BY <1>1, <1>3 DEF Webdav!Operation
  <2>3. o.stage # "last"
    OBVIOUS
  <2> HIDE DEF next, rest, o
  <2>5. o.op \in {"write", "rename"} => rest[Len(rest)] = Front(o.new)
    <3>1. Len(rest) \in 1 .. Len(rest) /\ Len(rest) + 1 = Len(o.todo)
      BY <1>3, <1>5, EmptySeq, LenProperties
    <3>2. rest[Len(rest)] = o.todo[Len(o.todo)]
      BY <1>3, <3>1
    <3> QED
      BY <1>1, <2>3, <3>2 DEF OperationRelies
  <2>4. OperationRelies(next, resources)
    BY <1>1, <1>2, <1>4, <1>5, <2>2, <2>5 DEF OperationRelies
  <2> QED
    BY <2>1, <2>2, <2>4
<1>6. CASE rest = <<>> /\ o.op = "ensureDir"
  BY <1>6 DEF Webdav!Advance
<1>7. CASE rest = <<>> /\ o.op # "ensureDir"
  <2> DEFINE next == [o EXCEPT !.todo = <<>>, !.stage = "last"]
  <2>1. Webdav!Advance(c) = next
    BY <1>7 DEF Webdav!Advance
  <2>2. /\ next \in Webdav!Operation
        /\ next.todo = <<>> /\ next.stage = "last" /\ next.op = o.op /\ next.new = o.new
        /\ next.path = o.path /\ next.data = o.data /\ next.appends = o.appends /\ next.raced = o.raced
    <3>1. <<>> \in Seq(Path)
      BY EmptySeq
    <3> QED
      BY <1>1, <3>1 DEF Webdav!Operation
  <2>5. o.stage # "last" /\ resources[Head(o.todo)] = Collection
    OBVIOUS
  <2> HIDE DEF next, rest, o
  <2>3. CanHold(resources, o.new)
    <3>1. Len(o.todo) = 1
      BY <1>3, <1>7, EmptySeq
    <3>2. o.todo[Len(o.todo)] = Front(o.new)
      BY <1>1, <1>2, <1>7, <2>5 DEF OperationRelies
    <3> QED
      BY <1>3, <2>5, <3>1, <3>2 DEF CanHold
  <2>4. OperationRelies(next, resources)
    BY <1>1, <1>2, <1>4, <1>7, <2>2, <2>3 DEF OperationRelies
  <2> QED
    BY <2>1, <2>2, <2>4
<1> QED
  BY <1>5, <1>6, <1>7

-----------------------------------------------------------------------------
(* Every operation keeps the invariant                                     *)

(* The calls that make the collections first.  (EnsureDir, putBytes,       *)
(* Rename)                                                                 *)
LEMMA MakersKeep ==
  ASSUME WebdavInv, NEW c \in Client
  PROVE  /\ \A p \in Path : Webdav!EnsureDir(c, p) => WebdavInv'
         /\ \A p \in Path, x \in Payload : Webdav!putBytes(c, p, x) => WebdavInv'
         /\ \A pair \in PathPairs : Webdav!Rename(c, pair[1], pair[2]) => WebdavInv'
<1>1. resource \in Resources /\ <<>> \in Seq(Chunk) /\ \A x \in Payload : x \in Seq(Chunk)
  BY WebdavConstants, EmptySeq DEF WebdavInv, Webdav!TypeOK, Resources
<1>2. ASSUME NEW p \in Path
      PROVE  /\ Len(p) \in 0 .. Len(p) /\ Len(p) - 1 \in 0 .. Len(p)
             /\ Webdav!Prefixes_(p, Len(p)) \in Seq(Path)
             /\ Webdav!Prefixes_(p, Len(p) - 1) \in Seq(Path)
             /\ Webdav!Prefixes_(p, Len(p)) # <<>>
  <2>1. Len(p) \in Nat /\ Len(p) # 0
    BY WebdavConstants, EmptySeq, LenProperties
  <2>2. Len(p) \in 0 .. Len(p) /\ Len(p) - 1 \in 0 .. Len(p)
    BY <2>1
  <2> QED
    BY <2>1, <2>2, PrefixesEnd
<1>3. ASSUME NEW p \in Path, Webdav!EnsureDir(c, p) PROVE WebdavInv'
  <2> DEFINE todo == Webdav!Prefixes_(p, Len(p))
             o == Webdav!Making("ensureDir", p, p, <<>>, todo)
  <2>1. o \in Webdav!Operation /\ o.op = "ensureDir" /\ o.stage = "mkcol" /\ o.todo # <<>>
    <3>1. todo \in Seq(Path) /\ todo # <<>>
      BY <1>2
    <3> HIDE DEF todo
    <3> QED
      BY <1>1, <3>1 DEF Webdav!Making, Webdav!Operation
  <2>2. Webdav!Answer(c, o)
    BY <1>3 DEF Webdav!EnsureDir
  <2> HIDE DEF o
  <2>3. OperationRelies(o, resource)
    BY <2>1 DEF OperationRelies
  <2> QED
    BY <2>1, <2>2, <2>3, WebdavAnswerKeeps
<1>4. ASSUME NEW op \in {"write", "rename"}, NEW p \in Path, NEW new \in Path, NEW x \in Seq(Chunk),
             op = "rename" => Apart(p, new)
      PROVE  LET o == Webdav!Making(op, p, new, x, Webdav!Prefixes_(new, Len(new) - 1))
             IN  o \in Webdav!Operation /\ OperationRelies(o, resource)
  <2> DEFINE todo == Webdav!Prefixes_(new, Len(new) - 1)
             o == Webdav!Making(op, p, new, x, todo)
  <2>1. /\ o \in Webdav!Operation /\ o.op = op /\ o.path = p /\ o.new = new
        /\ o.todo = todo /\ o.appends = FALSE
        /\ o.stage = IF o.todo = <<>> THEN "last" ELSE "mkcol"
    <3>1. todo \in Seq(Path)
      BY <1>2
    <3>2. op \in {"write", "ensureDir", "rename", "delete", "writer"}
      OBVIOUS
    <3> HIDE DEF todo
    <3> QED
      BY <3>1, <3>2 DEF Webdav!Making, Webdav!Operation
  <2> HIDE DEF o
  <2>2. OperationRelies(o, resource)
    BY <1>1, <1>4, <2>1, ToParentRelies
  <2> QED
    BY <2>1, <2>2 DEF o
<1>5. ASSUME NEW p \in Path, NEW x \in Payload, Webdav!putBytes(c, p, x) PROVE WebdavInv'
  <2> DEFINE o == Webdav!Making("write", p, p, x, Webdav!Prefixes_(p, Len(p) - 1))
  <2>1. o \in Webdav!Operation /\ OperationRelies(o, resource)
    BY <1>1, <1>4
  <2>2. Webdav!Answer(c, o)
    BY <1>5 DEF Webdav!putBytes
  <2> QED
    BY <2>1, <2>2, WebdavAnswerKeeps
<1>6. ASSUME NEW pair \in PathPairs, Webdav!Rename(c, pair[1], pair[2]) PROVE WebdavInv'
  <2> DEFINE o == Webdav!Making("rename", pair[1], pair[2], <<>>, Webdav!Prefixes_(pair[2], Len(pair[2]) - 1))
  <2>1. pair[1] \in Path /\ pair[2] \in Path /\ Apart(pair[1], pair[2])
    BY WebdavConstants
  <2>2. o \in Webdav!Operation /\ OperationRelies(o, resource)
    BY <1>1, <1>4, <2>1
  <2>3. Webdav!Answer(c, o)
    BY <1>6 DEF Webdav!Rename
  <2> QED
    BY <2>2, <2>3, WebdavAnswerKeeps
<1> QED
  BY <1>3, <1>5, <1>6

(* What the invariant says of an operation under way.                      *)
LEMMA UnderWay ==
  ASSUME WebdavInv, NEW c \in Client, webdavCall[c] # Idle
  PROVE  /\ webdavCall[c] \in Webdav!Operation /\ OperationRelies(webdavCall[c], resource)
         /\ resource \in Resources /\ TreeClosed(resource)
         /\ webdavCall[c].path \in Path /\ webdavCall[c].new \in Path
         /\ webdavCall[c].todo \in Seq(Path) /\ webdavCall[c].data \in Seq(Chunk)
  BY DEF WebdavInv, Webdav!TypeOK, OperationsRely, Resources, Webdav!Operation

(* MKCOL, and the question what is there already.  (mkcol)                 *)
LEMMA MkcolKeeps ==
  ASSUME WebdavInv, NEW c \in Client, Webdav!mkcol(c) \/ Webdav!mkcolIsDir(c)
  PROVE  WebdavInv'
<1> DEFINE o == webdavCall[c]
           p == Head(o.todo)
<1>1. webdavCall[c] # Idle /\ webdavCall[c].stage \in {"mkcol", "isDir"}
  BY DEF Webdav!mkcol, Webdav!mkcolIsDir, Webdav!At
<1>2. /\ o \in Webdav!Operation /\ OperationRelies(o, resource)
      /\ resource \in Resources /\ TreeClosed(resource) /\ o.todo \in Seq(Path)
  BY <1>1, UnderWay
<1>3. p \in Path
  <2>1. o.todo # <<>>
    BY <1>1, <1>2 DEF OperationRelies
  <2> QED
    BY <1>2, <2>1
<1>4. Idle \in Webdav!Operation \cup {Idle}
  OBVIOUS
<1>5. CASE Webdav!mkcol(c) /\ Webdav!Exists(p)
  <2> DEFINE next == [o EXCEPT !.stage = "isDir"]
  <2>1. Webdav!Answer(c, next)
    BY <1>5 DEF Webdav!mkcol
  <2>2. /\ next \in Webdav!Operation /\ next.stage = "isDir" /\ next.op = o.op /\ next.todo = o.todo
        /\ next.new = o.new /\ next.path = o.path /\ next.data = o.data
        /\ next.appends = o.appends /\ next.raced = o.raced
    BY <1>2 DEF Webdav!Operation
  <2>3. o.stage \in {"mkcol", "isDir"}
    BY <1>1
  <2> HIDE DEF next, o
  <2>4. OperationRelies(next, resource)
    BY <1>2, <2>2, <2>3 DEF OperationRelies
  <2> QED
    BY <2>1, <2>2, <2>4, WebdavAnswerKeeps
<1>6. CASE Webdav!mkcol(c) /\ ~Webdav!Exists(p)
  <2> DEFINE made == [resource EXCEPT ![p] = Collection]
  <2>1. Webdav!Request(c, made, Webdav!Advance(c)) /\ Webdav!HasParent(p)
    BY <1>6 DEF Webdav!mkcol
  <2>2. CanHold(resource, p) /\ resource[p] # Collection
    BY <1>6, <2>1, WebdavPaths, WebdavConstants DEF Webdav!HasParent, Webdav!IsDir, Webdav!Exists, CanHold
  <2>3. made \in Resources /\ TreeClosed(made)
    BY <1>2, <1>3, <2>2, PlacingKeepsTree
  <2>4. made[p] = Collection /\ \A q \in Path : q # p => made[q] = resource[q]
    BY <1>2, <1>3 DEF Resources
  <2> HIDE DEF made
  <2>5. /\ Webdav!Advance(c) \in Webdav!Operation \cup {Idle}
        /\ Webdav!Advance(c) # Idle => OperationRelies(Webdav!Advance(c), made)
    BY <1>1, <2>3, <2>4, AdvanceRelies
  <2> QED
    BY <2>1, <2>3, <2>5, WebdavRequestKeeps
<1>7. CASE Webdav!mkcolIsDir(c) /\ Webdav!IsDir(p)
  <2>1. Webdav!Answer(c, Webdav!Advance(c)) /\ resource[p] = Collection
    BY <1>7 DEF Webdav!mkcolIsDir, Webdav!IsDir
  <2>2. /\ Webdav!Advance(c) \in Webdav!Operation \cup {Idle}
        /\ Webdav!Advance(c) # Idle => OperationRelies(Webdav!Advance(c), resource)
    BY <1>1, <1>2, <2>1, AdvanceRelies
  <2> QED
    BY <2>1, <2>2, WebdavAnswerKeeps
<1>8. CASE Webdav!mkcolIsDir(c) /\ ~Webdav!IsDir(p)
  BY <1>4, <1>8, WebdavAnswerKeeps DEF Webdav!mkcolIsDir
<1> QED
  BY <1>5, <1>6, <1>7, <1>8

(* The last requests: PUT, MOVE and DELETE.                                *)
LEMMA LastRequestsKeep ==
  ASSUME WebdavInv, NEW c \in Client,
         Webdav!Put(c) \/ Webdav!Move(c) \/ Webdav!DeleteRequest(c)
  PROVE  WebdavInv'
<1> DEFINE o == webdavCall[c]
<1>1. webdavCall[c] # Idle
  BY DEF Webdav!Put, Webdav!Move, Webdav!DeleteRequest, Webdav!At
<1>2. /\ resource \in Resources /\ TreeClosed(resource)
      /\ o.path \in Path /\ o.new \in Path /\ o.data \in Seq(Chunk)
  BY <1>1, UnderWay
<1>3. ASSUME NEW resources \in Resources, TreeClosed(resources), Webdav!Request(c, resources, Idle)
      PROVE  WebdavInv'
  BY <1>3, WebdavRequestKeeps
<1>4. CASE Webdav!Put(c)
  <2>1. /\ Webdav!Request(c, [resource EXCEPT ![o.path] = o.data], Idle)
        /\ Webdav!HasParent(o.path) /\ ~Webdav!IsDir(o.path)
    BY <1>4 DEF Webdav!Put
  <2>2. CanHold(resource, o.path) /\ resource[o.path] # Collection
    BY <2>1, WebdavPaths DEF Webdav!HasParent, Webdav!IsDir, CanHold
  <2>3. /\ [resource EXCEPT ![o.path] = o.data] \in Resources
        /\ TreeClosed([resource EXCEPT ![o.path] = o.data])
    BY <1>2, <2>2, PlacingKeepsTree
  <2> QED
    BY <1>3, <2>1, <2>3
<1>5. CASE Webdav!DeleteRequest(c)
  BY <1>2, <1>3, <1>5, RemovingKeepsTree DEF Webdav!DeleteRequest
<1>6. CASE Webdav!Move(c)
  <2>1. Webdav!Request(c, Webdav!Moved(o.path, o.new), Idle) /\ Webdav!HasParent(o.new) /\ o.op = "rename"
    BY <1>6 DEF Webdav!Move
  <2>2. CanHold(resource, o.new)
    BY <2>1, WebdavPaths DEF Webdav!HasParent, Webdav!IsDir, CanHold
  <2>3. Apart(o.path, o.new)
    BY <1>1, <2>1, UnderWay DEF OperationRelies
  <2> QED
    BY <1>2, <1>3, <2>1, <2>2, <2>3, MovingKeepsTree
<1> QED
  BY <1>4, <1>5, <1>6

(* Delete on its way to its DELETE.                                        *)
LEMMA DeletesKeep ==
  ASSUME WebdavInv, NEW c \in Client,
         (\E p \in Path : Webdav!Delete(c, p)) \/ Webdav!DeleteStat(c) \/ Webdav!DeleteList(c)
  PROVE  WebdavInv'
<1>1. resource \in Resources /\ TreeClosed(resource) /\ Idle \in Webdav!Operation \cup {Idle}
  BY DEF WebdavInv, Webdav!TypeOK, Resources
<1>2. ASSUME NEW p \in Path, Webdav!Delete(c, p) PROVE WebdavInv'
  <2> DEFINE o == [Webdav!Making("delete", p, p, <<>>, <<>>) EXCEPT !.stage = "stat"]
  <2>1. /\ o \in Webdav!Operation /\ o.op = "delete" /\ o.stage = "stat"
    <3>1. <<>> \in Seq(Path) /\ <<>> \in Seq(Chunk)
      BY EmptySeq
    <3> QED
      BY <3>1 DEF Webdav!Making, Webdav!Operation
  <2>2. Webdav!Answer(c, o)
    BY <1>2 DEF Webdav!Delete
  <2> HIDE DEF o
  <2>3. OperationRelies(o, resource)
    BY <2>1 DEF OperationRelies
  <2> QED
    BY <2>1, <2>2, <2>3, WebdavAnswerKeeps
<1>3. ASSUME webdavCall[c] # Idle, webdavCall[c].stage \in {"stat", "list"},
             NEW stage \in {"list", "last"},
             stage = "last" => \A q \in Path : Under(q, webdavCall[c].path) => resource[q] = NotFound,
             Webdav!Answer(c, [webdavCall[c] EXCEPT !.stage = stage])
      PROVE  WebdavInv'
  <2> DEFINE o == webdavCall[c]
             next == [o EXCEPT !.stage = stage]
  <2>1. o \in Webdav!Operation /\ o.op = "delete"
    BY <1>3, UnderWay DEF OperationRelies
  <2>2. next \in Webdav!Operation /\ next.stage = stage /\ next.op = "delete" /\ next.path = o.path
    BY <2>1 DEF Webdav!Operation
  <2>3. /\ stage = "last" => \A q \in Path : Under(q, o.path) => resource[q] = NotFound
        /\ Webdav!Answer(c, next)
    BY <1>3
  <2> HIDE DEF next, o
  <2>4. OperationRelies(next, resource)
    BY <2>2, <2>3 DEF OperationRelies
  <2> QED
    BY <2>2, <2>3, <2>4, WebdavAnswerKeeps
<1>4. CASE Webdav!DeleteStat(c)
  <2> DEFINE p == webdavCall[c].path
  <2>1. webdavCall[c] # Idle /\ webdavCall[c].stage = "stat"
    BY <1>4 DEF Webdav!DeleteStat, Webdav!At
  <2>2. p \in Path
    BY <2>1, UnderWay
  <2>3. CASE resource[p] = Collection
    BY <1>3, <1>4, <2>1, <2>3 DEF Webdav!DeleteStat, Webdav!IsDir
  <2>4. CASE resource[p] # Collection /\ resource[p] # NotFound
    <3>1. \A q \in Path : Under(q, p) => resource[q] = NotFound
      BY <1>1, <2>2, <2>4 DEF TreeClosed
    <3>2. Webdav!Answer(c, [webdavCall[c] EXCEPT !.stage = "last"])
      BY <1>4, <2>4 DEF Webdav!DeleteStat, Webdav!IsDir, Webdav!Exists
    <3> QED
      BY <1>3, <2>1, <3>1, <3>2
  <2>5. CASE resource[p] = NotFound
    <3>1. Webdav!Answer(c, Idle)
      BY <1>4, <2>5, WebdavConstants DEF Webdav!DeleteStat, Webdav!IsDir, Webdav!Exists
    <3> QED
      BY <1>1, <3>1, WebdavAnswerKeeps
  <2> QED
    BY <2>3, <2>4, <2>5
<1>5. CASE Webdav!DeleteList(c)
  <2> DEFINE p == webdavCall[c].path
             listed == Webdav!List(p) = {} /\ Webdav!Exists(p)
  <2>1. webdavCall[c] # Idle /\ webdavCall[c].stage = "list"
    BY <1>5 DEF Webdav!DeleteList, Webdav!At
  <2>2. p \in Path
    BY <2>1, UnderWay
  <2>3. CASE listed
    <3>1. \A q \in Path : resource[q] = NotFound \/ Front(q) # p
      BY <2>3, WebdavPaths DEF Webdav!List, Webdav!Exists
    <3>2. ASSUME NEW q \in Path, Under(q, p) PROVE resource[q] = NotFound
      <4>1. p \in Seq(Segment) /\ q \in Seq(Segment) /\ Collection # NotFound /\ <<>> \notin Path
        BY <2>2, WebdavConstants
      <4>2. PICK n \in 1 .. Len(q) :
              SubSeq(q, 1, n) \in Seq(Segment) /\ Front(SubSeq(q, 1, n)) = p /\ IsPrefix(SubSeq(q, 1, n), q)
        BY <3>2, <4>1, ChildBetween
      <4> DEFINE child == SubSeq(q, 1, n)
      <4>3. child # <<>>
        <5>1. n \in 0 .. Len(q) /\ n # 0
          BY <4>1, LenProperties
        <5>2. Len(child) = n
          BY <4>1, <5>1, Beginning
        <5> QED
          BY <5>1, <5>2, EmptySeq
      <4> HIDE DEF child
      <4>4. child \in Path /\ Front(child) = p /\ IsPrefix(child, q)
        BY <4>2, <4>3, PathClosed DEF child
      <4>5. resource[child] = NotFound
        BY <3>1, <4>4
      <4>6. CASE child = q
        BY <4>5, <4>6
      <4>7. CASE child # q
        <5>1. Under(q, child)
          BY <4>4, <4>7 DEF Under, IsStrictPrefix
        <5> QED
          BY <1>1, <4>1, <4>4, <4>5, <5>1 DEF TreeClosed
      <4> QED
        BY <4>6, <4>7
    <3>3. Webdav!Answer(c, [webdavCall[c] EXCEPT !.stage = "last"])
      BY <1>5, <2>3 DEF Webdav!DeleteList
    <3> QED
      BY <1>3, <2>1, <3>2, <3>3
  <2>4. CASE ~listed
    <3>1. Webdav!Answer(c, Idle)
      BY <1>5, <2>4 DEF Webdav!DeleteList
    <3> QED
      BY <1>1, <3>1, WebdavAnswerKeeps
  <2> QED
    BY <2>3, <2>4
<1> QED
  BY <1>2, <1>4, <1>5

(* Writers read when they open and become a write when they close.         *)
LEMMA WritersKeep ==
  ASSUME WebdavInv, NEW c \in Client
  PROVE  /\ \A p \in Path : Webdav!Create(c, p) \/ Webdav!Append_(c, p) => WebdavInv'
         /\ \A x \in Chunk : Webdav!WriterWrite(c, x) => WebdavInv'
         /\ Webdav!WriterClose(c) => WebdavInv'
<1>1. /\ resource \in Resources /\ <<>> \in Seq(Chunk) /\ <<>> \in Seq(Path)
  BY EmptySeq DEF WebdavInv, Webdav!TypeOK, Resources
<1>2. ASSUME NEW p \in Path, NEW x \in Seq(Chunk), NEW appends \in BOOLEAN,
             appends /\ resource[p] \notin {Collection, NotFound} => IsPrefix(resource[p], x),
             Webdav!Answer(c, Webdav!Writer(p, x, appends))
      PROVE  WebdavInv'
  <2> DEFINE o == Webdav!Writer(p, x, appends)
  <2>1. /\ o \in Webdav!Operation /\ o.op = "writer" /\ o.stage = "last" /\ o.path = p /\ o.data = x
        /\ o.appends = appends
    BY <1>1 DEF Webdav!Writer, Webdav!Making, Webdav!Operation
  <2>2. Webdav!Answer(c, o)
    BY <1>2
  <2> HIDE DEF o
  <2>3. OperationRelies(o, resource)
    BY <1>2, <2>1 DEF OperationRelies
  <2> QED
    BY <2>1, <2>2, <2>3, WebdavAnswerKeeps
<1>3. ASSUME NEW p \in Path, Webdav!Create(c, p) PROVE WebdavInv'
  BY <1>1, <1>2, <1>3 DEF Webdav!Create
<1>4. ASSUME NEW p \in Path, Webdav!Append_(c, p) PROVE WebdavInv'
  <2> DEFINE x == IF Webdav!Exists(p) THEN resource[p] ELSE <<>>
  <2>1. Webdav!Answer(c, Webdav!Writer(p, x, TRUE)) /\ ~Webdav!IsDir(p)
    BY <1>4 DEF Webdav!Append_
  <2>2. CASE Webdav!Exists(p)
    <3>1. resource[p] \in Seq(Chunk) /\ x = resource[p]
      BY <1>1, <2>1, <2>2 DEF Resources, Webdav!Exists, Webdav!IsDir
    <3>2. IsPrefix(resource[p], x)
      BY <3>1, PrefixOfSelf
    <3> QED
      BY <1>2, <2>1, <3>1, <3>2
  <2>3. CASE ~Webdav!Exists(p)
    <3>1. x \in Seq(Chunk) /\ resource[p] = NotFound
      BY <1>1, <2>3 DEF Webdav!Exists
    <3> QED
      BY <1>2, <2>1, <3>1
  <2> QED
    BY <2>2, <2>3
<1>5. ASSUME NEW x \in Chunk, Webdav!WriterWrite(c, x) PROVE WebdavInv'
  <2> DEFINE o == webdavCall[c]
             next == [o EXCEPT !.data = Append(@, x)]
  <2>1. webdavCall[c] # Idle /\ o.op = "writer" /\ Webdav!Answer(c, next)
    BY <1>5 DEF Webdav!WriterWrite
  <2>2. o \in Webdav!Operation /\ OperationRelies(o, resource) /\ o.data \in Seq(Chunk) /\ o.path \in Path
    BY <2>1, UnderWay
  <2>3. /\ next \in Webdav!Operation /\ next.data = Append(o.data, x) /\ next.op = o.op
        /\ next.stage = o.stage /\ next.todo = o.todo /\ next.path = o.path /\ next.new = o.new
        /\ next.appends = o.appends /\ next.raced = o.raced
    <3>1. Append(o.data, x) \in Seq(Chunk)
      BY <2>2
    <3> QED
      BY <2>2, <3>1 DEF Webdav!Operation
  <2>4. Webdav!Answer(c, next) /\ o.op = "writer"
    BY <2>1
  <2> HIDE DEF next, o
  <2>5. ASSUME next.appends, ~next.raced, resource[next.path] \notin {Collection, NotFound}
        PROVE  IsPrefix(resource[next.path], next.data)
    <3>1. resource[o.path] \in Seq(Chunk)
      BY <1>1, <2>2, <2>3, <2>5 DEF Resources
    <3>2. IsPrefix(resource[o.path], o.data)
      BY <2>2, <2>3, <2>4, <2>5 DEF OperationRelies
    <3> QED
      BY <2>2, <2>3, <3>1, <3>2, PrefixOfAppend
  <2>6. OperationRelies(next, resource)
    BY <2>2, <2>3, <2>4, <2>5 DEF OperationRelies
  <2> QED
    BY <2>3, <2>4, <2>6, WebdavAnswerKeeps
<1>6. ASSUME Webdav!WriterClose(c) PROVE WebdavInv'
  <2> DEFINE o == webdavCall[c]
             p == o.path
             todo == Webdav!Prefixes_(p, Len(p) - 1)
             next == [Webdav!Making("write", p, p, o.data, todo)
                        EXCEPT !.appends = o.appends, !.raced = o.raced]
  <2>1. webdavCall[c] # Idle /\ o.op = "writer" /\ Webdav!Answer(c, next)
    BY <1>6 DEF Webdav!WriterClose
  <2>2. o \in Webdav!Operation /\ OperationRelies(o, resource) /\ o.data \in Seq(Chunk) /\ p \in Path
    BY <2>1, UnderWay
  <2>3. todo \in Seq(Path)
    <3>1. Len(p) - 1 \in 0 .. Len(p)
      BY <2>2, WebdavConstants, EmptySeq, LenProperties
    <3> QED
      BY <2>2, <3>1, PrefixesEnd
  <2>4. o.appends \in BOOLEAN /\ o.raced \in BOOLEAN
    BY <2>2 DEF Webdav!Operation
  <2>5. Webdav!Answer(c, next) /\ o.op = "writer" /\ o.path = p
    BY <2>1
  <2> HIDE DEF o, p
  <2>6. /\ next \in Webdav!Operation /\ next.op = "write" /\ next.path = p /\ next.new = p
        /\ next.data = o.data /\ next.appends = o.appends /\ next.raced = o.raced /\ next.todo = todo
        /\ next.stage = IF todo = <<>> THEN "last" ELSE "mkcol"
    <3> HIDE DEF todo
    <3> QED
      BY <2>2, <2>3, <2>4 DEF Webdav!Making, Webdav!Operation
  <2> HIDE DEF next
  <2>7. OperationRelies(next, resource)
    <3>1. o.appends /\ ~o.raced /\ resource[p] \notin {Collection, NotFound} => IsPrefix(resource[p], o.data)
      BY <2>2, <2>5 DEF OperationRelies
    <3> QED
      BY <1>1, <2>6, <3>1, ToParentRelies
  <2> QED
    BY <2>5, <2>6, <2>7, WebdavAnswerKeeps
<1> QED
  BY <1>3, <1>4, <1>5, <1>6

(* Nothing exists and nobody is under way.                                 *)
LEMMA WebdavInit == Webdav!Init => WebdavInv
  BY DEF Webdav!Init, WebdavInv, Webdav!TypeOK, TreeClosed, OperationsRely

(* Every step of a medium keeps the invariant.                             *)
LEMMA WebdavNextKeeps ==
  ASSUME WebdavInv, [Webdav!Next]_webdavVars
  PROVE  WebdavInv'
<1>1. CASE UNCHANGED webdavVars
  BY <1>1 DEF webdavVars, WebdavInv, Webdav!TypeOK, OperationsRely, TreeClosed
<1>2. CASE Webdav!Next
  <2> PICK c \in Client :
        \/ \E p \in Path : Webdav!Calls(c, p)
        \/ \E pair \in PathPairs : Webdav!Rename(c, pair[1], pair[2])
        \/ Webdav!mkcol(c) \/ Webdav!mkcolIsDir(c) \/ Webdav!Put(c) \/ Webdav!Move(c)
        \/ Webdav!DeleteStat(c) \/ Webdav!DeleteList(c) \/ Webdav!DeleteRequest(c)
        \/ \E x \in Chunk : Webdav!WriterWrite(c, x)
        \/ Webdav!WriterClose(c) \/ Webdav!Fails(c)
    BY <1>2 DEF Webdav!Next
  <2>1. ASSUME NEW p \in Path, Webdav!Calls(c, p) PROVE WebdavInv'
    <3>1. ASSUME Webdav!DeleteAll(c, p) PROVE WebdavInv'
      <4>1. Webdav!Request(c, Webdav!Removed(p), Idle)
        BY <3>1 DEF Webdav!DeleteAll
      <4> QED
        BY <4>1, RemovingKeepsTree, WebdavRequestKeeps
    <3> QED
      BY <2>1, <3>1, MakersKeep, DeletesKeep, WritersKeep DEF Webdav!Calls
  <2>2. ASSUME Webdav!Fails(c) PROVE WebdavInv'
    <3>1. Idle \in Webdav!Operation \cup {Idle} /\ Webdav!Answer(c, Idle)
      BY <2>2 DEF Webdav!Fails
    <3> QED
      BY <3>1, WebdavAnswerKeeps
  <2> QED
    BY <2>1, <2>2, MakersKeep, MkcolKeeps, LastRequestsKeep, DeletesKeep, WritersKeep
<1> QED
  BY <1>1, <1>2

(* Operations rely on what the server has, whatever the others do.         *)
LEMMA AlwaysWebdavInv == Webdav!Spec => []WebdavInv
<1>1. WebdavInv /\ [Webdav!Next]_(Webdav!vars) => WebdavInv'
  BY WebdavNextKeeps DEF webdavVars, Webdav!vars
<1> QED
  BY <1>1, WebdavInit, PTL DEF Webdav!Spec

(* Every variable of the WebDAV mediums and their server keeps its kind,   *)
(* and whatever exists there is in collections up to the root.             *)
THEOREM WebdavTypeCorrect == Webdav!Spec => [](Webdav!TypeOK /\ TreeClosed(resource))
<1>1. WebdavInv => Webdav!TypeOK /\ TreeClosed(resource)
  BY DEF WebdavInv
<1> QED
  BY <1>1, AlwaysWebdavInv, PTL

-----------------------------------------------------------------------------
(* The media together                                                      *)
-----------------------------------------------------------------------------

(* The mediums of whichever scheme is in use keep their invariant, the     *)
(* state of the others stays as it was made.                               *)
THEOREM RemoteImplements == RemoteSpec => Spec /\ PwaSpec /\ Webdav!Spec
<1>1. RemoteInit => Init /\ PwaInit /\ Webdav!Init
  BY DEF RemoteInit
<1>2. [RemoteNext]_remoteVars => [Next]_vars /\ [PwaNext]_pwaVars /\ [Webdav!Next]_(Webdav!vars)
  BY DEF RemoteNext, S3Step, PwaStep, WebdavStep, remoteVars, webdavVars, Webdav!vars
<1> QED
  BY <1>1, <1>2, PTL DEF RemoteSpec, Spec, PwaSpec, Webdav!Spec

(* What a listing of a bucket shows is there and is what it is shown as,   *)
(* for any bucket and page size.  (s3.Medium: List, IsDir, IsFile, Exists) *)
THEOREM ListingsAlwaysAgree == RemoteSpec => []ListingAgrees
  BY ListingsAgree, PTL

(* When it comes to a PUT or a MOVE the collection above is there, unless  *)
(* another medium interfered, for any paths and number of mediums.         *)
(* (webdav.Medium: EnsureDir, mkcol, ensureParent)                         *)
THEOREM ParentsAlwaysMade == RemoteSpec => []ParentsMade
<1>1. WebdavInv => ParentsMade
  <2> SUFFICES ASSUME WebdavInv, NEW c \in Client, Webdav!At(c, "last"),
                      webdavCall[c].op \in {"write", "rename"}, ~webdavCall[c].raced
               PROVE  Webdav!HasParent(webdavCall[c].new)
    BY DEF ParentsMade, Webdav!ParentsMade
  <2> QED
    BY UnderWay, WebdavPaths DEF Webdav!At, OperationRelies, CanHold, Webdav!HasParent, Webdav!IsDir
<1> QED
  BY <1>1, AlwaysWebdavInv, RemoteImplements, PTL

(* When it comes to a DELETE there is nothing below, unless another medium *)
(* interfered.  (webdav.Medium: Delete)                                    *)
THEOREM DeletesKeepBelow == RemoteSpec => []DeleteKeepsBelow
<1>1. WebdavInv => DeleteKeepsBelow
  <2> SUFFICES ASSUME WebdavInv, NEW c \in Client, Webdav!At(c, "last"),
                      webdavCall[c].op = "delete", ~webdavCall[c].raced,
                      NEW q \in Path, Webdav!Under(q, webdavCall[c].path)
               PROVE  ~Webdav!Exists(q)
    BY DEF DeleteKeepsBelow, Webdav!DeleteKeepsBelow
  <2> QED
    BY UnderWay, WebdavPaths DEF Webdav!At, OperationRelies, Webdav!Exists
<1> QED
  BY <1>1, AlwaysWebdavInv, RemoteImplements, PTL

(* Closing an appending writer loses nothing that is at its path, but for  *)
(* a read that failed (s3) and what another medium did meanwhile.          *)
(* (s3.Medium, webdav.Medium: Append and the writers' Close)               *)
THEOREM AppendsAlwaysExtend == RemoteSpec => AppendsExtend
<1>1. WebdavInv => Webdav!AppendExtends
  <2> SUFFICES ASSUME WebdavInv, NEW c \in Client, Webdav!At(c, "last"),
                      webdavCall[c].op = "write", webdavCall[c].appends, ~webdavCall[c].raced,
                      Webdav!IsFile(webdavCall[c].path)
               PROVE  Webdav!IsPrefix(resource[webdavCall[c].path], webdavCall[c].data)
    BY DEF Webdav!AppendExtends
  <2> QED
    BY UnderWay, WebdavPaths
       DEF Webdav!At, OperationRelies, Webdav!IsFile, Webdav!IsDir, Webdav!Exists
<1> QED
  BY <1>1, AlwaysWebdavInv, AppendsExtendObjects, RemoteImplements, PTL DEF AppendsExtend

(* What was proved of the s3 and the pwa mediums alone holds of them here. *)
THEOREM RemoteKeepsPromises == RemoteSpec => DeleteAllClears /\ RenameKeepsObject /\ OneDownload
  BY CompleteDeleteAllClears, RenamesKeepObjects, AllUseOneDownload, RemoteImplements, PTL
=============================================================================
