---------------------------- MODULE WebdavMedium ----------------------------
(***************************************************************************)
(* webdav.Medium (src/go/pkg/medium/webdav/webdav.go): every operation is  *)
(* a row of HTTP requests to a server that several clients share.  A       *)
(* request is one step and may fail, which ends the operation.  The server *)
(* is external: MKCOL and PUT need the collection above, DELETE takes a    *)
(* collection with all it holds, MOVE replaces what is in its way.         *)
(***************************************************************************)
EXTENDS Paths

CONSTANTS
  Segment,     \* the names between the slashes
  Path,        \* the paths callers use, the root excluded
  CanRename,   \* the pairs <<old, new>> callers pass to Rename
  Client,      \* the mediums
  Chunk,       \* what one Write call of a writer appends
  Payload,     \* the contents callers pass to Write
  MaxLen,      \* bound on the length of a writer's data
  Collection, NotFound, Idle

(* An operation between two of its requests: collections it has still to   *)
(* make, what it does next.  raced is history: another client has changed  *)
(* something above, at or below its path.                                  *)
Operation == [op : {"write", "ensureDir", "rename", "delete", "writer"}, path : Path, new : Path,
              todo : Seq(Path), stage : {"mkcol", "isDir", "last", "stat", "list"},
              data : Seq(Chunk), appends : BOOLEAN, raced : BOOLEAN]

(* What RemoteMedia assumes of the constants.                              *)
WebdavAssumption ==
  /\ Path \subseteq Seq(Segment) \ {<<>>}
  /\ \A p \in Path : Ancestors(p) \subseteq Path
  /\ CanRename \subseteq Path \X Path
  /\ \A pair \in CanRename : Apart(pair[1], pair[2])
  /\ Payload \subseteq Seq(Chunk)
  /\ MaxLen \in Nat
  /\ Collection # NotFound
  /\ {Collection, NotFound} \cap Seq(Chunk) = {}
  /\ Idle \notin Operation

VARIABLES
  resource,  \* what the server has at each path
  call       \* what each client is in the middle of, or Idle

vars == <<resource, call>>

(* Every variable holds a value of its kind.                               *)
TypeOK ==
  /\ resource \in [Path -> Seq(Chunk) \cup {Collection, NotFound}]
  /\ call \in [Client -> Operation \cup {Idle}]

Init ==
  /\ resource = [p \in Path |-> NotFound]
  /\ call = [c \in Client |-> Idle]

(* Stat, Exists, IsFile, IsDir and List, each one PROPFIND                 *)
Exists(p) == resource[p] # NotFound
IsDir(p) == resource[p] = Collection
IsFile(p) == Exists(p) /\ ~IsDir(p)
List(d) == {p \in Path : Exists(p) /\ Front(p) = d}

(* What a server allows.                                                   *)
HasParent(p) == Front(p) \in Path => IsDir(Front(p))
Removed(p) == [q \in Path |-> IF IsPrefix(p, q) THEN NotFound ELSE resource[q]]
Moved(old, new) ==
  [q \in Path |-> IF IsPrefix(new, q)
                  THEN IF Rebase(q, new, old) \in Path THEN resource[Rebase(q, new, old)] ELSE NotFound
                  ELSE Removed(old)[q]]

(* A request of client c leaves the server with resources; c goes on with  *)
(* next.                                                                   *)
Request(c, resources, next) ==
  LET changed == {p \in Path : resources[p] # resource[p]}
      touches(k) == \E p \in changed : \E q \in {call[k].path, call[k].new} : ~Apart(p, q)
  IN /\ resource' = resources
     /\ call' = [k \in Client |->
          IF k = c THEN next
          ELSE IF call[k] # Idle /\ touches(k) THEN [call[k] EXCEPT !.raced = TRUE]
          ELSE call[k]]

Answer(c, next) == Request(c, resource, next)

-----------------------------------------------------------------------------
(* EnsureDir, and ensureParent of putBytes and Rename                      *)

Prefixes_(p, n) == [i \in 1 .. n |-> SubSeq(p, 1, i)]

(* An operation that makes the collections todo before its last request.   *)
Making(op, p, new, x, todo) ==
  [op |-> op, path |-> p, new |-> new, todo |-> todo,
   stage |-> IF todo = <<>> THEN "last" ELSE "mkcol", data |-> x, appends |-> FALSE, raced |-> FALSE]

EnsureDir(c, p) ==
  /\ call[c] = Idle
  /\ Answer(c, Making("ensureDir", p, p, <<>>, Prefixes_(p, Len(p))))

putBytes(c, p, x) ==
  /\ call[c] = Idle
  /\ Answer(c, Making("write", p, p, x, Prefixes_(p, Len(p) - 1)))

Rename(c, old, new) ==
  /\ call[c] = Idle
  /\ Answer(c, Making("rename", old, new, <<>>, Prefixes_(new, Len(new) - 1)))

At(c, stage) == call[c] # Idle /\ call[c].stage = stage

(* One collection is there: the next one, or the last request.             *)
Advance(c) ==
  LET rest == Tail(call[c].todo) IN
  IF rest # <<>> THEN [call[c] EXCEPT !.todo = rest, !.stage = "mkcol"]
  ELSE IF call[c].op = "ensureDir" THEN Idle
  ELSE [call[c] EXCEPT !.todo = <<>>, !.stage = "last"]

(* Mutant: whatever is there already will do.                              *)
mkcolAnything(c) ==
  /\ At(c, "mkcol")
  /\ LET p == Head(call[c].todo) IN
     IF Exists(p) THEN Answer(c, Advance(c))
     ELSE HasParent(p) /\ Request(c, [resource EXCEPT ![p] = Collection], Advance(c))

(* 405, it exists already, asks whether it is a collection.                *)
mkcol(c) ==
  /\ At(c, "mkcol")
  /\ LET p == Head(call[c].todo) IN
     IF Exists(p) THEN Answer(c, [call[c] EXCEPT !.stage = "isDir"])
     ELSE HasParent(p) /\ Request(c, [resource EXCEPT ![p] = Collection], Advance(c))

mkcolIsDir(c) ==
  /\ At(c, "isDir")
  /\ Answer(c, IF IsDir(Head(call[c].todo)) THEN Advance(c) ELSE Idle)

Put(c) ==
  /\ At(c, "last") /\ call[c].op = "write"
  /\ HasParent(call[c].path) /\ ~IsDir(call[c].path)
  /\ Request(c, [resource EXCEPT ![call[c].path] = call[c].data], Idle)

Move(c) ==
  /\ At(c, "last") /\ call[c].op = "rename"
  /\ Exists(call[c].path) /\ HasParent(call[c].new)
  /\ Request(c, Moved(call[c].path, call[c].new), Idle)

-----------------------------------------------------------------------------
(* Delete                                                                  *)

Delete(c, p) ==
  /\ call[c] = Idle
  /\ Answer(c, [Making("delete", p, p, <<>>, <<>>) EXCEPT !.stage = "stat"])

(* Mutant: the listing is not asked for.                                   *)
DeleteStatOnly(c) ==
  /\ At(c, "stat")
  /\ Answer(c, IF Exists(call[c].path) THEN [call[c] EXCEPT !.stage = "last"] ELSE Idle)

DeleteStat(c) ==
  /\ At(c, "stat")
  /\ Answer(c, IF IsDir(call[c].path) THEN [call[c] EXCEPT !.stage = "list"]
               ELSE IF Exists(call[c].path) THEN [call[c] EXCEPT !.stage = "last"]
               ELSE Idle)

DeleteList(c) ==
  /\ At(c, "list")
  /\ Answer(c, IF List(call[c].path) = {} /\ Exists(call[c].path)
               THEN [call[c] EXCEPT !.stage = "last"] ELSE Idle)

DeleteRequest(c) ==
  /\ At(c, "last") /\ call[c].op = "delete"
  /\ Request(c, Removed(call[c].path), Idle)

DeleteAll(c, p) ==
  /\ call[c] = Idle
  /\ Exists(p)
  /\ Request(c, Removed(p), Idle)

-----------------------------------------------------------------------------
(* Writers                                                                 *)

Writer(p, x, appends) ==
  [Making("writer", p, p, x, <<>>) EXCEPT !.appends = appends]

Create(c, p) ==
  /\ call[c] = Idle
  /\ Answer(c, Writer(p, <<>>, FALSE))

(* Only what is not found counts as empty: any other answer is an error.   *)
Append_(c, p) ==
  /\ call[c] = Idle
  /\ ~IsDir(p)
  /\ Answer(c, Writer(p, IF Exists(p) THEN resource[p] ELSE <<>>, TRUE))

WriterWrite(c, x) ==
  /\ call[c] # Idle /\ call[c].op = "writer"
  /\ Len(call[c].data) < MaxLen
  /\ Answer(c, [call[c] EXCEPT !.data = Append(@, x)])

(* WriteMode, thus putBytes, with what was collected.                      *)
WriterClose(c) ==
  /\ call[c] # Idle /\ call[c].op = "writer"
  /\ LET p == call[c].path IN
     Answer(c, [Making("write", p, p, call[c].data, Prefixes_(p, Len(p) - 1))
                  EXCEPT !.appends = call[c].appends, !.raced = call[c].raced])

(* A request is refused or not answered, or the client ends.               *)
Fails(c) ==
  /\ call[c] # Idle
  /\ Answer(c, Idle)

-----------------------------------------------------------------------------
Calls(c, p) ==
  \/ \E x \in Payload : putBytes(c, p, x)
  \/ EnsureDir(c, p) \/ Delete(c, p) \/ DeleteAll(c, p)
  \/ Create(c, p) \/ Append_(c, p)

Next ==
  \E c \in Client :
    \/ \E p \in Path : Calls(c, p)
    \/ \E pair \in CanRename : Rename(c, pair[1], pair[2])
    \/ mkcol(c) \/ mkcolIsDir(c) \/ Put(c) \/ Move(c)
    \/ DeleteStat(c) \/ DeleteList(c) \/ DeleteRequest(c)
    \/ \E x \in Chunk : WriterWrite(c, x)
    \/ WriterClose(c) \/ Fails(c)

Spec == Init /\ [][Next]_vars

-----------------------------------------------------------------------------
(* Properties                                                              *)

(* When it comes to the PUT or the MOVE, the collection that is to hold    *)
(* the resource is there, unless another client interfered: each of them   *)
(* was made, or found and seen to be no file.  (EnsureDir, mkcol,          *)
(* ensureParent)                                                           *)
ParentsMade ==
  \A c \in Client :
    At(c, "last") /\ call[c].op \in {"write", "rename"} /\ ~call[c].raced => HasParent(call[c].new)

(* Delete takes a collection away only when nothing is below it, unless    *)
(* another client interfered: DELETE itself takes all of it.  (Delete)     *)
DeleteKeepsBelow ==
  \A c \in Client :
    At(c, "last") /\ call[c].op = "delete" /\ ~call[c].raced =>
      \A q \in Path : Under(q, call[c].path) => ~Exists(q)

(* Closing an appending writer keeps what the resource holds, unless       *)
(* another client interfered.  (Append, webdavWriteCloser.Close)           *)
AppendExtends ==
  \A c \in Client :
    At(c, "last") /\ call[c].op = "write" /\ call[c].appends /\ ~call[c].raced /\ IsFile(call[c].path)
      => IsPrefix(resource[call[c].path], call[c].data)
=============================================================================
