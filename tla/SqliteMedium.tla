---------------------------- MODULE SqliteMedium ----------------------------
(***************************************************************************)
(* sqlite.Medium (src/go/sqlite/sqlite.go): one table with a row per path. *)
(* Every client is a process or goroutine with the database open.  A       *)
(* statement is one step and may fail.  Delete is up to three statements;  *)
(* Rename is one transaction, which commits as a whole or not at all; a    *)
(* writer collects its data and stores it with one statement.  Directories *)
(* may be rows or merely implied by the rows below them, which statements  *)
(* find with LIKE 'path/%'.                                                *)
(***************************************************************************)
EXTENDS Paths

CONSTANTS
  Segment,    \* the names between the slashes
  Path,       \* the paths callers use and those above them, the root excluded
  Alike,      \* Alike[d]: the paths whose text LIKE finds to match d's
  CanRename,  \* the pairs <<old, new>> callers pass to Rename
  Client,     \* the users of the table
  Chunk,      \* what one Write call of a writer appends
  Payload,    \* the contents callers pass to Write
  MaxLen,     \* bound on the length of a writer's data
  NoRow, Idle

(* A row; the mode and the time go with the content.                       *)
sqliteEntryRow == [content : Seq(Chunk), isDir : BOOLEAN]

(* A Delete before its COUNT or its DELETE, and a writer.  raced is        *)
(* history: another client has changed a row at the path or below it.      *)
Deletion == [path : Path, stage : {"count", "delete"}, raced : BOOLEAN]
sqliteWriteCloser == [path : Path, stage : {"write"}, raced : BOOLEAN,
                      data : Seq(Chunk), appends : BOOLEAN]

ASSUME SqliteAssumption ==
  /\ Path \subseteq Seq(Segment) \ {<<>>}
  /\ \A p \in Path : Ancestors(p) \subseteq Path
  /\ Alike \in [Path -> SUBSET Seq(Segment)]
  /\ \A d \in Path : d \in Alike[d]
  /\ CanRename \subseteq Path \X Path
  /\ Payload \subseteq Seq(Chunk)
  /\ MaxLen \in Nat
  /\ NoRow \notin sqliteEntryRow
  /\ Idle \notin Deletion \cup sqliteWriteCloser

VARIABLES
  row,     \* the row of each path, or NoRow
  pending  \* what each client is in the middle of, or Idle

vars == <<row, pending>>

(* Every variable holds a value of its kind.                               *)
TypeOK ==
  /\ row \in [Path -> sqliteEntryRow \cup {NoRow}]
  /\ pending \in [Client -> Deletion \cup sqliteWriteCloser \cup {Idle}]

Init ==
  /\ row = [p \in Path |-> NoRow]
  /\ pending = [c \in Client |-> Idle]

File(x) == [content |-> x, isDir |-> FALSE]
Directory == [content |-> <<>>, isDir |-> TRUE]

Exists(p) == row[p] # NoRow
IsFile(p) == Exists(p) /\ ~row[p].isDir
IsDir(p) == Exists(p) /\ row[p].isDir

(* path LIKE 'd/%': some path above p reads like d.                        *)
Like(p, d) == \E e \in Alike[d] : Under(p, e)
childrenWithPrefix(rows, d) == {p \in Path : rows[p] # NoRow /\ Like(p, d)}

(* The table becomes rows and client c goes on with next.                  *)
Commit(c, rows, next) ==
  /\ row' = rows
  /\ pending' = [k \in Client |->
       IF k = c THEN next
       ELSE IF pending[k] # Idle /\ \E p \in Path : rows[p] # row[p] /\ IsPrefix(pending[k].path, p)
            THEN [pending[k] EXCEPT !.raced = TRUE]
            ELSE pending[k]]

-----------------------------------------------------------------------------
(* The upsert makes a file of a directory's row as well.                   *)
WriteMode(c, p, x) ==
  /\ pending[c] = Idle
  /\ Commit(c, [row EXCEPT ![p] = File(x)], Idle)

EnsureDir(c, p) ==
  /\ pending[c] = Idle
  /\ row[p] = NoRow
  /\ Commit(c, [row EXCEPT ![p] = Directory], Idle)

(* Mutant: a directory is not counted before it is deleted.                *)
DeleteSelectOnly(c, p) ==
  /\ pending[c] = Idle
  /\ Exists(p)
  /\ pending' = [pending EXCEPT ![c] = [path |-> p, stage |-> "delete", raced |-> FALSE]]
  /\ UNCHANGED row

DeleteSelect(c, p) ==
  /\ pending[c] = Idle
  /\ Exists(p)
  /\ pending' = [pending EXCEPT ![c] =
       [path |-> p, stage |-> IF IsDir(p) THEN "count" ELSE "delete", raced |-> FALSE]]
  /\ UNCHANGED row

DeleteCount(c) ==
  /\ pending[c] # Idle /\ pending[c].stage = "count"
  /\ pending' = [pending EXCEPT ![c] =
       IF childrenWithPrefix(row, pending[c].path) = {} THEN [@ EXCEPT !.stage = "delete"] ELSE Idle]
  /\ UNCHANGED row

DeleteRow(c) ==
  /\ pending[c] # Idle /\ pending[c].stage = "delete"
  /\ Commit(c, [row EXCEPT ![pending[c].path] = NoRow], Idle)

DeleteAll(c, p) ==
  /\ pending[c] = Idle
  /\ Commit(c, [q \in Path |-> IF q = p \/ Like(q, p) THEN NoRow ELSE row[q]], Idle)

-----------------------------------------------------------------------------
(* Rename                                                                  *)

(* TrimPrefix leaves a path alone that only reads like one below old.      *)
NewPath(p, old, new) == IF Under(p, old) THEN Rebase(p, old, new) ELSE new \o p

(* Mutant: the old rows are deleted before the new ones are inserted.      *)
DeleteThenInsert(rows, old, new) ==
  {[q \in Path |-> IF Like(q, old) THEN NoRow ELSE rows[q]]}

(* The tables that may result: the rows below old are inserted below new,  *)
(* in any order, then everything like old/ is deleted.                     *)
renameChildren(rows, old, new) ==
  LET children == childrenWithPrefix(rows, old)
      targets == {NewPath(p, old, new) : p \in children}
      last == {from \in [targets -> children] : \A q \in targets : NewPath(from[q], old, new) = q}
  IN {[q \in Path |-> IF Like(q, old) THEN NoRow
                      ELSE IF q \in targets THEN rows[from[q]] ELSE rows[q]] : from \in last}

Rename(c, old, new) ==
  LET rows == [row EXCEPT ![new] = row[old]]
      alone == [rows EXCEPT ![old] = NoRow]
  IN /\ pending[c] = Idle
     /\ Exists(old)
     /\ \A p \in childrenWithPrefix(alone, old) : IsDir(old) => NewPath(p, old, new) \in Path
     /\ \E after \in IF IsDir(old) THEN renameChildren(alone, old, new) ELSE {alone} :
          Commit(c, after, Idle)

-----------------------------------------------------------------------------
(* Writers                                                                 *)

Writer(p, x, appends) ==
  [path |-> p, stage |-> "write", raced |-> FALSE, data |-> x, appends |-> appends]

Create(c, p) ==
  /\ pending[c] = Idle
  /\ pending' = [pending EXCEPT ![c] = Writer(p, <<>>, FALSE)]
  /\ UNCHANGED row

(* Mutant: the SELECT's rows are not read into the writer.                 *)
AppendFromEmpty(c, p) ==
  /\ pending[c] = Idle
  /\ pending' = [pending EXCEPT ![c] = Writer(p, <<>>, TRUE)]
  /\ UNCHANGED row

(* SELECT ... AND is_dir = FALSE: a directory counts as no file yet.       *)
Append_(c, p) ==
  /\ pending[c] = Idle
  /\ pending' = [pending EXCEPT ![c] = Writer(p, IF IsFile(p) THEN row[p].content ELSE <<>>, TRUE)]
  /\ UNCHANGED row

WriterWrite(c, x) ==
  /\ pending[c] # Idle /\ pending[c].stage = "write"
  /\ Len(pending[c].data) < MaxLen
  /\ pending' = [pending EXCEPT ![c].data = Append(@, x)]
  /\ UNCHANGED row

WriterClose(c) ==
  /\ pending[c] # Idle /\ pending[c].stage = "write"
  /\ Commit(c, [row EXCEPT ![pending[c].path] = File(pending[c].data)], Idle)

(* A statement fails, or the client ends: what was pending is given up.    *)
Abandon(c) ==
  /\ pending[c] # Idle
  /\ pending' = [pending EXCEPT ![c] = Idle]
  /\ UNCHANGED row

-----------------------------------------------------------------------------
PathCalls(c, p) ==
  \/ \E x \in Payload : WriteMode(c, p, x)
  \/ EnsureDir(c, p) \/ DeleteSelect(c, p) \/ DeleteAll(c, p)
  \/ Create(c, p) \/ Append_(c, p)

Next ==
  \E c \in Client :
    \/ \E p \in Path : PathCalls(c, p)
    \/ \E pair \in CanRename : Rename(c, pair[1], pair[2])
    \/ DeleteCount(c) \/ DeleteRow(c)
    \/ \E x \in Chunk : WriterWrite(c, x)
    \/ WriterClose(c) \/ Abandon(c)

Spec == Init /\ [][Next]_vars

-----------------------------------------------------------------------------
(* What List answers                                                       *)

(* Mutant: only rows directly in d are listed.                             *)
appendRowOnly(d, p) ==
  IF Len(p) = Len(d) + 1 THEN {[name |-> p[Len(p)], isDir |-> row[p].isDir]} ELSE {}

(* The entry that row p contributes to the listing of d: itself, or the    *)
(* directory it is in.                                                     *)
appendSQLiteListEntry(d, p) ==
  LET rest == IF IsPrefix(d, p) THEN SubSeq(p, Len(d) + 1, Len(p)) ELSE p IN
  {[name |-> rest[1], isDir |-> IF Len(rest) = 1 THEN row[p].isDir ELSE TRUE]}

(* A listing shows one of these entries for each name.                     *)
List(d) ==
  UNION {appendSQLiteListEntry(d, p) :
           p \in {q \in Path : Exists(q) /\ (d = <<>> \/ Like(q, d))}}

-----------------------------------------------------------------------------
(* Properties                                                              *)

(* Whoever walks the tree from the root by listing directories finds every *)
(* file, whether or not its directories have rows: EnsureDir makes none    *)
(* for ancestors, and a Delete that races a write takes one away.  (List;  *)
(* a path that is a file and has rows below it too is shown as either.)    *)
FilesReachable ==
  \A p \in Path :
    IsFile(p) /\ ~(\E q \in Path : Exists(q) /\ Like(q, p)) /\ ~(\E d \in Ancestors(p) : IsFile(d)) =>
      \A n \in 0 .. Len(p) - 1 :
        LET shown == {e \in List(SubSeq(p, 1, n)) : e.name = p[n + 1]} IN
        shown = {[name |-> p[n + 1], isDir |-> n + 1 < Len(p)]}

(* Delete takes a directory away only when nothing is below it, provided   *)
(* nobody else changes anything there during its three statements.         *)
(* (Delete)                                                                *)
DeleteKeepsBelow ==
  [][\A c \in Client :
       DeleteRow(c) /\ IsDir(pending[c].path) /\ ~pending[c].raced =>
         \A p \in Path : Under(p, pending[c].path) => ~Exists(p)]_vars

(* A Rename moves the row and, for a directory, every row below it, and    *)
(* changes nothing outside the two places.  (Rename, renameChildren; true  *)
(* while neither path lies in the other or reads like the other.)          *)
RenameMovesTree ==
  [][\A c \in Client : \A pair \in CanRename :
       LET old == pair[1] new == pair[2]
           moved == {p \in Path : Exists(p) /\ (p = old \/ (IsDir(old) /\ Under(p, old)))}
       IN Rename(c, old, new) =>
            /\ \A p \in moved : row'[Rebase(p, old, new)] = row[p] /\ row'[p] = NoRow
            /\ \A p \in Path : ~IsPrefix(old, p) /\ ~IsPrefix(new, p) => row'[p] = row[p]]_vars

(* Closing an appending writer keeps what the file holds, when nobody else *)
(* changed it since Append read it.  (Append, sqliteWriteCloser.Close)     *)
AppendExtends ==
  [][\A c \in Client :
       WriterClose(c) /\ pending[c].appends /\ ~pending[c].raced /\ IsFile(pending[c].path) =>
         IsPrefix(row[pending[c].path].content, row'[pending[c].path].content)]_vars
=============================================================================
