------------------------------ MODULE S3Medium ------------------------------
(***************************************************************************)
(* s3.Medium (src/go/s3/s3.go): files are objects of a bucket, directories *)
(* what the slashes of their keys imply.  Several mediums, each with a key *)
(* prefix of its own, share the bucket.  A request is one step and may     *)
(* fail; Rename is a copy and a deletion, DeleteAll a deletion and a loop  *)
(* of listed and deleted pages, a writer a read and, when it closes, a     *)
(* put.  The bucket is external and strongly consistent.                   *)
(***************************************************************************)
EXTENDS Paths

CONSTANTS
  Segment,    \* the names between the slashes
  KeyOrder,   \* the keys of the bucket in the order it lists them
  PageSize,   \* how many entries one list request returns
  Client,     \* the mediums
  Prefix,     \* Prefix[c]: the key prefix of medium c
  CanRename,  \* the pairs <<old, new>> of keys that mediums rename
  Chunk,      \* what one Write call of a writer appends
  Payload,    \* the contents callers pass to Write
  MaxLen,     \* bound on the length of a writer's data
  NoObject, Idle

Key == {KeyOrder[i] : i \in 1 .. Len(KeyOrder)}

(* What a medium may be in the middle of.  History: doomed holds the       *)
(* objects a DeleteAll found and nobody else put since; raced says that    *)
(* somebody else changed an object of the call; found that Append's read   *)
(* succeeded.                                                              *)
Removal == [op : {"deleteAll"}, key : Key, token : 0 .. Len(KeyOrder),
            page : SUBSET Key, truncated : BOOLEAN, doomed : SUBSET Key]
Renaming == [op : {"rename"}, key : Key, new : Key, raced : BOOLEAN]
s3WriteCloser == [op : {"write"}, key : Key, data : Seq(Chunk),
                  found : BOOLEAN, raced : BOOLEAN]

Pending == Removal \cup Renaming \cup s3WriteCloser

ASSUME S3Assumption ==
  /\ KeyOrder \in Seq(Seq(Segment) \ {<<>>})
  /\ PageSize \in Nat \ {0}
  /\ Prefix \in [Client -> Seq(Segment)]
  /\ CanRename \subseteq Key \X Key
  /\ \A pair \in CanRename : pair[1] # pair[2]
  /\ Payload \subseteq Seq(Chunk)
  /\ MaxLen \in Nat
  /\ NoObject \notin Seq(Chunk)
  /\ Idle \notin Pending

VARIABLES
  object,  \* the content of each key, or NoObject
  call     \* what each medium is in the middle of, or Idle

vars == <<object, call>>

(* Every variable holds a value of its kind.                               *)
TypeOK ==
  /\ object \in [Key -> Seq(Chunk) \cup {NoObject}]
  /\ call \in [Client -> Pending \cup {Idle}]

Init ==
  /\ object = [k \in Key |-> NoObject]
  /\ call = [c \in Client |-> Idle]

Objects == {k \in Key : object[k] # NoObject}
Below(k) == {q \in Objects : Under(q, k)}

(* The keys a medium can name: those under its prefix, not the prefix.     *)
objectKey(c) == {k \in Key : Under(k, Prefix[c])}

(* How a call notices that another medium changed the keys K.              *)
Disturbed(pending, K) ==
  CASE pending = Idle -> Idle
    [] pending # Idle /\ pending.op = "deleteAll" -> [pending EXCEPT !.doomed = @ \ K]
    [] pending # Idle /\ pending.op = "rename" ->
         [pending EXCEPT !.raced = @ \/ pending.key \in K \/ pending.new \in K]
    [] pending # Idle /\ pending.op = "write" -> [pending EXCEPT !.raced = @ \/ pending.key \in K]

(* A request of c makes the bucket objects, and c goes on with next.       *)
Request(c, objects, next) ==
  /\ object' = objects
  /\ call' = [m \in Client |->
       IF m = c THEN next ELSE Disturbed(call[m], {k \in Key : objects[k] # object[k]})]

Without(K) == [k \in Key |-> IF k \in K THEN NoObject ELSE object[k]]

-----------------------------------------------------------------------------
Write(c, k, x) ==
  /\ call[c] = Idle
  /\ Request(c, [object EXCEPT ![k] = x], Idle)

Delete(c, k) ==
  /\ call[c] = Idle
  /\ Request(c, Without({k}), Idle)

-----------------------------------------------------------------------------
(* DeleteAll                                                               *)

DeleteAll(c, k) ==
  /\ call[c] = Idle
  /\ Request(c, Without({k}),
       [op |-> "deleteAll", key |-> k, token |-> 0, page |-> {}, truncated |-> FALSE,
        doomed |-> Below(k)])

(* The positions of the objects below k that are listed after the token.   *)
Listable(k, token) ==
  {i \in 1 .. Len(KeyOrder) : i > token /\ KeyOrder[i] \in Below(k)}
FirstOf(I) == {i \in I : Cardinality({j \in I : j <= i}) <= PageSize}
LastOf(I) == CHOOSE i \in I : \A j \in I : j <= i

(* The list request of deleteObjectBatch; nothing listed ends DeleteAll.   *)
ListPage(c) ==
  LET pending == call[c] IN
  /\ pending # Idle /\ pending.op = "deleteAll" /\ pending.page = {}
  /\ LET listable == Listable(pending.key, pending.token) IN
     call' = [call EXCEPT ![c] =
       IF listable = {} THEN Idle
       ELSE [@ EXCEPT !.page = {KeyOrder[i] : i \in FirstOf(listable)},
                      !.token = LastOf(FirstOf(listable)),
                      !.truncated = listable # FirstOf(listable)]]
  /\ UNCHANGED object

(* Mutant: one page is all there is.                                       *)
DeleteFirstPage(c) ==
  LET pending == call[c] IN
  /\ pending # Idle /\ pending.op = "deleteAll" /\ pending.page # {}
  /\ Request(c, Without(pending.page), Idle)

(* Its delete request and, if the listing was truncated, the next page.    *)
DeletePage(c) ==
  LET pending == call[c] IN
  /\ pending # Idle /\ pending.op = "deleteAll" /\ pending.page # {}
  /\ Request(c, Without(pending.page),
       IF pending.truncated THEN [pending EXCEPT !.page = {}] ELSE Idle)

(* The response names objects that could not be deleted.                   *)
DeletePagePartly(c) ==
  LET pending == call[c] IN
  /\ pending # Idle /\ pending.op = "deleteAll"
  /\ \E some \in SUBSET pending.page : some # pending.page /\ Request(c, Without(some), Idle)

-----------------------------------------------------------------------------
(* Rename                                                                  *)

RenameCopy(c, old, new) ==
  /\ call[c] = Idle
  /\ old \in Objects
  /\ Request(c, [object EXCEPT ![new] = object[old]],
       [op |-> "rename", key |-> old, new |-> new, raced |-> FALSE])

(* Mutant: the key that was copied to is the one that is deleted.          *)
RenameDeleteNew(c) ==
  /\ call[c] # Idle /\ call[c].op = "rename"
  /\ Request(c, Without({call[c].new}), Idle)

RenameDelete(c) ==
  /\ call[c] # Idle /\ call[c].op = "rename"
  /\ Request(c, Without({call[c].key}), Idle)

-----------------------------------------------------------------------------
(* Writers                                                                 *)

Create(c, k) ==
  /\ call[c] = Idle
  /\ call' = [call EXCEPT ![c] =
       [op |-> "write", key |-> k, data |-> <<>>, found |-> FALSE, raced |-> FALSE]]
  /\ UNCHANGED object

(* Mutant: the object is read, but not into the writer.                    *)
AppendFromEmpty(c, k) ==
  /\ call[c] = Idle
  /\ call' = [call EXCEPT ![c] =
       [op |-> "write", key |-> k, data |-> <<>>, found |-> k \in Objects, raced |-> FALSE]]
  /\ UNCHANGED object

(* A read that fails, for whatever reason, counts as an empty object.      *)
Append_(c, k) ==
  /\ call[c] = Idle
  /\ \E found \in {FALSE, (k \in Objects)} :
       call' = [call EXCEPT ![c] =
         [op |-> "write", key |-> k, data |-> IF found THEN object[k] ELSE <<>>,
          found |-> found, raced |-> FALSE]]
  /\ UNCHANGED object

WriterWrite(c, x) ==
  /\ call[c] # Idle /\ call[c].op = "write"
  /\ Len(call[c].data) < MaxLen
  /\ call' = [call EXCEPT ![c].data = Append(@, x)]
  /\ UNCHANGED object

WriterClose(c) ==
  /\ call[c] # Idle /\ call[c].op = "write"
  /\ Request(c, [object EXCEPT ![call[c].key] = call[c].data], Idle)

(* A request fails, or the process ends: the call is given up.             *)
Fails(c) ==
  /\ call[c] # Idle
  /\ call' = [call EXCEPT ![c] = Idle]
  /\ UNCHANGED object

-----------------------------------------------------------------------------
KeyCalls(c, k) ==
  \/ \E x \in Payload : Write(c, k, x)
  \/ Delete(c, k) \/ DeleteAll(c, k)
  \/ Create(c, k) \/ Append_(c, k)

Next ==
  \E c \in Client :
    \/ \E k \in objectKey(c) : KeyCalls(c, k)
    \/ \E pair \in CanRename : {pair[1], pair[2]} \subseteq objectKey(c) /\ RenameCopy(c, pair[1], pair[2])
    \/ ListPage(c) \/ DeletePage(c) \/ DeletePagePartly(c)
    \/ RenameDelete(c)
    \/ \E x \in Chunk : WriterWrite(c, x)
    \/ WriterClose(c) \/ Fails(c)

Spec == Init /\ [][Next]_vars

-----------------------------------------------------------------------------
(* What the reading operations answer                                      *)

IsFile(k) == k \in Objects

(* Mutant: the prefix is not ended by a slash.                             *)
IsDirOpenPrefix(k) == \E q \in Objects : IsPrefix(k, q)

(* A list request for at most one key below k                              *)
IsDir(k) == Below(k) # {}

Exists(k) == IsFile(k) \/ IsDir(k)

(* The entry of d that the object at position i shows as.                  *)
EntryOf(d, i) ==
  [name |-> KeyOrder[i][Len(d) + 1], isDir |-> Len(KeyOrder[i]) > Len(d) + 1]

(* One page of them, entries of the same directory counted once.           *)
List(d) ==
  LET heads == {i \in Listable(d, 0) :
                  \A j \in Listable(d, 0) : j < i => EntryOf(d, j) # EntryOf(d, i)}
  IN {EntryOf(d, i) : i \in FirstOf(heads)}

-----------------------------------------------------------------------------
(* Properties                                                              *)

(* The reading operations, which each make requests of their own, agree:   *)
(* a directory is what has a listing, also a truncated one, and what it    *)
(* shows as a file or a directory is one.  (List, IsDir, IsFile, Exists)   *)
ListingAgrees ==
  \A d \in Key :
    /\ IsDir(d) <=> List(d) # {}
    /\ \A e \in List(d) :
         LET k == Append(d, e.name) IN
         Exists(k) /\ IF e.isDir THEN IsDir(k) ELSE IsFile(k)

(* A DeleteAll that ends without an error has deleted every object that    *)
(* was there when it began, page after page, whatever other mediums put    *)
(* and delete meanwhile.  (DeleteAll, deleteObjectBatch)                   *)
DeleteAllClears ==
  [][\A c \in Client :
       /\ ListPage(c) \/ DeletePage(c)
       /\ call'[c] = Idle
       => \A k \in call[c].doomed : object'[k] = NoObject]_vars

(* While a Rename is between its requests, and after the second one, the   *)
(* object is at the new key, unless another medium changed either key.     *)
(* (Rename; true when the keys differ)                                     *)
RenameKeepsObject ==
  [][\A c \in Client :
       RenameDelete(c) /\ ~call[c].raced =>
         object[call[c].key] # NoObject /\ object'[call[c].new] = object[call[c].key]]_vars

(* Closing an appending writer keeps what the object holds, when Append    *)
(* could read it and nobody changed it since.  (Append,                    *)
(* s3WriteCloser.Close)                                                    *)
AppendExtends ==
  [][\A c \in Client :
       WriterClose(c) /\ call[c].found /\ ~call[c].raced =>
         IsPrefix(object[call[c].key], object'[call[c].key])]_vars
=============================================================================
