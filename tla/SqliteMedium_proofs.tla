------------------------ MODULE SqliteMedium_proofs ------------------------
(***************************************************************************)
(* Theorems about SqliteMedium for any paths and number of clients.  What  *)
(* a Delete and a writer rely on between their statements, Relies, is a    *)
(* predicate of what is pending and of the table: a statement of another   *)
(* client either changes nothing there or is noted as a race.              *)
(***************************************************************************)
EXTENDS SqliteMedium, Paths_proofs

Table == [Path -> sqliteEntryRow \cup {NoRow}]

IsFileRow(r) == r # NoRow /\ ~r.isDir
IsDirRow(r) == r # NoRow /\ r.isDir

(* Nothing is below the directory whose row is about to be deleted, and a  *)
(* writer's data goes on where the file ends.                              *)
Relies(o, rows) ==
  /\ o.stage = "delete" /\ ~o.raced /\ IsDirRow(rows[o.path]) =>
       \A p \in Path : Under(p, o.path) => rows[p] = NoRow
  /\ o.stage = "write" /\ o.appends /\ ~o.raced /\ IsFileRow(rows[o.path]) =>
       IsPrefix(rows[o.path].content, o.data)

SqliteInv == TypeOK /\ \A c \in Client : pending[c] # Idle => Relies(pending[c], row)

-----------------------------------------------------------------------------
(* The stage tells a Delete from a writer.                                 *)
LEMMA Stages ==
  ASSUME NEW o \in Deletion \cup sqliteWriteCloser
  PROVE  /\ o # Idle /\ o.path \in Path /\ o.raced \in BOOLEAN
         /\ o.stage = "write" <=> o \in sqliteWriteCloser
         /\ o.stage \in {"count", "delete"} <=> o \in Deletion
<1>1. o # Idle
  BY SqliteAssumption
<1>2. /\ \A d \in Deletion : d.stage \in {"count", "delete"} /\ d.path \in Path /\ d.raced \in BOOLEAN
      /\ \A w \in sqliteWriteCloser : w.stage = "write" /\ w.path \in Path /\ w.raced \in BOOLEAN
  BY DEF Deletion, sqliteWriteCloser
<1> QED
  BY <1>1, <1>2

(* What is pending relies on the table that other clients leave.           *)
LEMMA DisturbedRelies ==
  ASSUME NEW o \in Deletion \cup sqliteWriteCloser, NEW before \in Table, NEW after \in Table,
         Relies(o, before),
         NEW next,
         next = IF \E p \in Path : after[p] # before[p] /\ IsPrefix(o.path, p)
                THEN [o EXCEPT !.raced = TRUE] ELSE o
  PROVE  next \in Deletion \cup sqliteWriteCloser /\ Relies(next, after)
<1> DEFINE touched == \E p \in Path : after[p] # before[p] /\ IsPrefix(o.path, p)
<1>1. CASE touched
  <2>1. next = [o EXCEPT !.raced = TRUE]
    BY <1>1
  <2>2. next \in Deletion \cup sqliteWriteCloser /\ next.raced = TRUE
    <3>1. CASE o \in Deletion
      BY <2>1, <3>1 DEF Deletion
    <3>2. CASE o \in sqliteWriteCloser
      BY <2>1, <3>2 DEF sqliteWriteCloser
    <3> QED
      BY <3>1, <3>2
  <2> QED
    BY <2>2 DEF Relies
<1>2. CASE ~touched
  <2>1. next = o
    BY <1>2
  <2>2. o.path \in Path /\ o.path \in Seq(Segment)
    BY Stages, SqliteAssumption
  <2>3. \A p \in Path : IsPrefix(o.path, p) => after[p] = before[p]
    BY <1>2
  <2>4. after[o.path] = before[o.path]
    BY <2>2, <2>3, PrefixOfSelf
  <2>5. \A p \in Path : Under(p, o.path) => after[p] = before[p]
    BY <2>3 DEF Under, IsStrictPrefix
  <2> HIDE DEF touched
  <2> QED
    BY <2>1, <2>4, <2>5 DEF Relies
<1> QED
  BY <1>1, <1>2

(* A statement keeps the invariant if what its client goes on with relies  *)
(* on the table it leaves.                                                 *)
LEMMA CommitKeeps ==
  ASSUME SqliteInv, NEW c \in Client, NEW rows \in Table,
         NEW next \in Deletion \cup sqliteWriteCloser \cup {Idle}, next # Idle => Relies(next, rows),
         Commit(c, rows, next)
  PROVE  SqliteInv'
<1>1. /\ row \in Table /\ row' = rows
      /\ pending \in [Client -> Deletion \cup sqliteWriteCloser \cup {Idle}]
  BY DEF SqliteInv, TypeOK, Table, Commit
<1> DEFINE touched(k) == \E p \in Path : rows[p] # row[p] /\ IsPrefix(pending[k].path, p)
<1>2. pending' = [k \in Client |->
        IF k = c THEN next
        ELSE IF pending[k] # Idle /\ touched(k) THEN [pending[k] EXCEPT !.raced = TRUE]
        ELSE pending[k]]
  BY DEF Commit
<1>3. ASSUME NEW k \in Client
      PROVE  /\ pending'[k] \in Deletion \cup sqliteWriteCloser \cup {Idle}
             /\ pending'[k] # Idle => Relies(pending'[k], rows)
  <2>1. CASE k = c
    BY <1>2, <2>1
  <2>2. CASE k # c /\ pending[k] = Idle
    BY <1>2, <2>2
  <2>3. CASE k # c /\ pending[k] # Idle
    <3>1. pending[k] \in Deletion \cup sqliteWriteCloser /\ Relies(pending[k], row)
      BY <1>1, <2>3 DEF SqliteInv
    <3>2. pending'[k] = IF touched(k) THEN [pending[k] EXCEPT !.raced = TRUE] ELSE pending[k]
      BY <1>2, <2>3
    <3> QED
      BY <1>1, <3>1, <3>2, DisturbedRelies
  <2> QED
    BY <2>1, <2>2, <2>3
<1>4. pending' \in [Client -> Deletion \cup sqliteWriteCloser \cup {Idle}]
  <2> HIDE DEF touched
  <2> QED
    BY <1>2, <1>3
<1> QED
  BY <1>1, <1>3, <1>4 DEF SqliteInv, TypeOK, Table

(* So does what only goes on.                                              *)
LEMMA GoOnKeeps ==
  ASSUME SqliteInv, NEW c \in Client, NEW next \in Deletion \cup sqliteWriteCloser \cup {Idle},
         next # Idle => Relies(next, row), pending' = [pending EXCEPT ![c] = next], UNCHANGED row
  PROVE  SqliteInv'
<1>1. /\ pending' \in [Client -> Deletion \cup sqliteWriteCloser \cup {Idle}]
      /\ \A k \in Client : pending'[k] # Idle => Relies(pending'[k], row)
  BY DEF SqliteInv, TypeOK
<1> QED
  BY <1>1 DEF SqliteInv, TypeOK

(* A client that ends its call relies on nothing.                          *)
LEMMA LastStatementKeeps ==
  ASSUME SqliteInv, NEW c \in Client, NEW rows \in Table, Commit(c, rows, Idle)
  PROVE  SqliteInv'
  BY CommitKeeps

(* What is a row.                                                          *)
LEMMA Rows ==
  /\ \A x \in Seq(Chunk) : File(x) \in sqliteEntryRow /\ File(x).content = x
  /\ Directory \in sqliteEntryRow
  /\ \A x \in Payload : x \in Seq(Chunk)
  /\ <<>> \in Seq(Chunk)
<1>1. <<>> \in Seq(Chunk)
  BY EmptySeq
<1> QED
  BY <1>1, SqliteAssumption DEF File, Directory, sqliteEntryRow

-----------------------------------------------------------------------------
(* Every operation keeps the invariant                                     *)

(* The statements on one path.  (WriteMode, EnsureDir, DeleteAll)          *)
LEMMA PathCallsKeep ==
  ASSUME SqliteInv, NEW c \in Client, NEW p \in Path, PathCalls(c, p)
  PROVE  SqliteInv'
<1>1. row \in Table /\ pending[c] \in Deletion \cup sqliteWriteCloser \cup {Idle}
  BY DEF SqliteInv, TypeOK, Table
<1>2. ASSUME NEW x \in Payload, WriteMode(c, p, x) PROVE SqliteInv'
  <2>1. [row EXCEPT ![p] = File(x)] \in Table
    BY <1>1, Rows DEF Table
  <2> QED
    BY <1>2, <2>1, LastStatementKeeps DEF WriteMode
<1>3. ASSUME EnsureDir(c, p) PROVE SqliteInv'
  <2>1. [row EXCEPT ![p] = Directory] \in Table
    BY <1>1, Rows DEF Table
  <2> QED
    BY <1>3, <2>1, LastStatementKeeps DEF EnsureDir
<1>4. ASSUME DeleteAll(c, p) PROVE SqliteInv'
  <2>1. [q \in Path |-> IF q = p \/ Like(q, p) THEN NoRow ELSE row[q]] \in Table
    BY <1>1 DEF Table
  <2> QED
    BY <1>4, <2>1, LastStatementKeeps DEF DeleteAll
<1>5. ASSUME DeleteSelect(c, p) PROVE SqliteInv'
  <2> DEFINE o == [path |-> p, stage |-> IF IsDir(p) THEN "count" ELSE "delete", raced |-> FALSE]
  <2>1. /\ o \in Deletion /\ o.path = p /\ o.stage = (IF IsDir(p) THEN "count" ELSE "delete")
        /\ pending' = [pending EXCEPT ![c] = o] /\ UNCHANGED row
    BY <1>5 DEF DeleteSelect, Deletion
  <2> HIDE DEF o
  <2>2. Relies(o, row)
    BY <2>1 DEF Relies, IsDir, Exists, IsDirRow
  <2> QED
    BY <2>1, <2>2, GoOnKeeps
<1>6. ASSUME NEW x \in Seq(Chunk), NEW appends \in BOOLEAN,
             appends /\ IsFileRow(row[p]) => IsPrefix(row[p].content, x),
             pending' = [pending EXCEPT ![c] = Writer(p, x, appends)], UNCHANGED row
      PROVE  SqliteInv'
  <2> DEFINE o == Writer(p, x, appends)
  <2>1. /\ o \in sqliteWriteCloser /\ o.path = p /\ o.stage = "write" /\ o.data = x /\ o.appends = appends
        /\ pending' = [pending EXCEPT ![c] = o]
    BY <1>6 DEF Writer, sqliteWriteCloser
  <2> HIDE DEF o
  <2>2. Relies(o, row)
    BY <1>6, <2>1 DEF Relies
  <2> QED
    BY <1>6, <2>1, <2>2, GoOnKeeps
<1>7. ASSUME Create(c, p) PROVE SqliteInv'
  BY <1>6, <1>7, Rows DEF Create
<1>8. ASSUME Append_(c, p) PROVE SqliteInv'
  <2>1. CASE IsFile(p)
    <3>1. row[p].content \in Seq(Chunk)
      BY <1>1, <2>1 DEF Table, IsFile, Exists, sqliteEntryRow
    <3>2. IsPrefix(row[p].content, row[p].content)
      BY <3>1, PrefixOfSelf
    <3> QED
      BY <1>6, <1>8, <2>1, <3>1, <3>2 DEF Append_
  <2>2. CASE ~IsFile(p)
    <3>1. ~IsFileRow(row[p])
      BY <2>2 DEF IsFile, Exists, IsFileRow
    <3> QED
      BY <1>6, <1>8, <2>2, <3>1, Rows DEF Append_
  <2> QED
    BY <2>1, <2>2
<1> QED
  BY <1>2, <1>3, <1>4, <1>5, <1>7, <1>8 DEF PathCalls

(* Delete counts what is below and then deletes the row.                   *)
LEMMA DeletesKeep ==
  ASSUME SqliteInv, NEW c \in Client, DeleteCount(c) \/ DeleteRow(c)
  PROVE  SqliteInv'
<1> DEFINE o == pending[c]
<1>1. /\ row \in Table /\ o # Idle /\ o.stage \in {"count", "delete"}
      /\ o \in Deletion \cup sqliteWriteCloser /\ Relies(o, row)
  BY DEF SqliteInv, TypeOK, Table, DeleteCount, DeleteRow
<1>2. o \in Deletion /\ o.path \in Path
  BY <1>1, Stages
<1>3. CASE DeleteRow(c)
  <2>1. [row EXCEPT ![o.path] = NoRow] \in Table
    BY <1>1 DEF Table
  <2> QED
    BY <1>3, <2>1, LastStatementKeeps DEF DeleteRow
<1>4. CASE DeleteCount(c) /\ childrenWithPrefix(row, o.path) = {}
  <2> DEFINE next == [o EXCEPT !.stage = "delete"]
  <2>1. /\ pending' = [pending EXCEPT ![c] = next] /\ UNCHANGED row
        /\ next \in Deletion /\ next.path = o.path /\ next.stage = "delete"
    BY <1>2, <1>4 DEF DeleteCount, Deletion
  <2>2. \A p \in Path : Under(p, o.path) => row[p] = NoRow
    BY <1>2, <1>4, SqliteAssumption DEF childrenWithPrefix, Like
  <2> HIDE DEF next
  <2>3. Relies(next, row)
    BY <2>1, <2>2 DEF Relies
  <2> QED
    BY <2>1, <2>3, GoOnKeeps
<1>5. CASE DeleteCount(c) /\ childrenWithPrefix(row, o.path) # {}
  <2>1. pending' = [pending EXCEPT ![c] = Idle] /\ UNCHANGED row
    BY <1>5 DEF DeleteCount
  <2> QED
    BY <2>1, GoOnKeeps
<1> QED
  BY <1>3, <1>4, <1>5

(* What a transaction of Rename may leave is a table.                      *)
LEMMA RenameChildrenTyped ==
  ASSUME NEW rows \in Table, NEW old \in Path, NEW new \in Path
  PROVE  renameChildren(rows, old, new) \subseteq Table
<1> DEFINE children == childrenWithPrefix(rows, old)
           targets == {NewPath(p, old, new) : p \in children}
<1>1. children \subseteq Path
  BY DEF childrenWithPrefix
<1> HIDE DEF children
<1>2. ASSUME NEW from \in [targets -> children]
      PROVE  [q \in Path |-> IF Like(q, old) THEN NoRow
                             ELSE IF q \in targets THEN rows[from[q]] ELSE rows[q]] \in Table
  <2> HIDE DEF targets
  <2>1. \A q \in targets : rows[from[q]] \in sqliteEntryRow \cup {NoRow}
    BY <1>1 DEF Table
  <2> QED
    BY <2>1 DEF Table
<1> QED
  BY <1>2 DEF renameChildren, children, targets

LEMMA RenameKeeps ==
  ASSUME SqliteInv, NEW c \in Client, NEW pair \in CanRename, Rename(c, pair[1], pair[2])
  PROVE  SqliteInv'
<1> DEFINE old == pair[1]
           new == pair[2]
           alone == [[row EXCEPT ![new] = row[old]] EXCEPT ![old] = NoRow]
<1>1. row \in Table /\ old \in Path /\ new \in Path
  BY SqliteAssumption DEF SqliteInv, TypeOK, Table
<1>2. alone \in Table
  BY <1>1 DEF Table
<1>3. \E after \in (IF IsDir(old) THEN renameChildren(alone, old, new) ELSE {alone}) : Commit(c, after, Idle)
  BY DEF Rename
<1> HIDE DEF old, new, alone
<1>4. PICK after \in Table : Commit(c, after, Idle)
  BY <1>1, <1>2, <1>3, RenameChildrenTyped
<1> QED
  BY <1>4, LastStatementKeeps

(* A writer collects its data and stores it.                               *)
LEMMA WritersKeep ==
  ASSUME SqliteInv, NEW c \in Client, (\E x \in Chunk : WriterWrite(c, x)) \/ WriterClose(c)
  PROVE  SqliteInv'
<1> DEFINE o == pending[c]
<1>1. /\ row \in Table /\ o # Idle /\ o.stage = "write"
      /\ o \in Deletion \cup sqliteWriteCloser /\ Relies(o, row)
  BY DEF SqliteInv, TypeOK, Table, WriterWrite, WriterClose
<1>2. o \in sqliteWriteCloser /\ o.path \in Path /\ o.data \in Seq(Chunk)
  BY <1>1, Stages DEF sqliteWriteCloser
<1>3. ASSUME NEW x \in Chunk, WriterWrite(c, x) PROVE SqliteInv'
  <2> DEFINE next == [o EXCEPT !.data = Append(@, x)]
  <2>1. pending' = [pending EXCEPT ![c] = next] /\ UNCHANGED row
    BY <1>3 DEF WriterWrite
  <2>2. /\ next \in sqliteWriteCloser /\ next.path = o.path /\ next.stage = "write"
        /\ next.data = Append(o.data, x) /\ next.appends = o.appends /\ next.raced = o.raced
    <3>1. Append(o.data, x) \in Seq(Chunk)
      BY <1>2
    <3> HIDE DEF o
    <3> QED
      BY <1>1, <1>2, <3>1 DEF sqliteWriteCloser
  <2> HIDE DEF next, o
  <2>3. ASSUME next.appends, ~next.raced, IsFileRow(row[next.path])
        PROVE  IsPrefix(row[next.path].content, next.data)
    <3>1. row[o.path].content \in Seq(Chunk)
      BY <1>1, <1>2, <2>2, <2>3 DEF Table, IsFileRow, sqliteEntryRow
    <3>2. IsPrefix(row[o.path].content, o.data)
      BY <1>1, <2>2, <2>3 DEF Relies
    <3> QED
      BY <1>2, <2>2, <3>1, <3>2, PrefixOfAppend
  <2>4. Relies(next, row)
    BY <2>2, <2>3 DEF Relies
  <2> QED
    BY <2>1, <2>2, <2>4, GoOnKeeps
<1>4. CASE WriterClose(c)
  <2>1. [row EXCEPT ![o.path] = File(o.data)] \in Table
    BY <1>1, <1>2, Rows DEF Table
  <2> QED
    BY <1>4, <2>1, LastStatementKeeps DEF WriterClose
<1> QED
  BY <1>3, <1>4

LEMMA InitInv == Init => SqliteInv
  BY DEF Init, SqliteInv, TypeOK

(* Every step keeps the invariant.                                         *)
LEMMA NextKeeps ==
  ASSUME SqliteInv, [Next]_vars
  PROVE  SqliteInv'
<1>1. CASE UNCHANGED vars
  BY <1>1 DEF vars, SqliteInv, TypeOK
<1>2. CASE Next
  <2>1. ASSUME NEW c \in Client, Abandon(c) PROVE SqliteInv'
    BY <2>1, GoOnKeeps DEF Abandon
  <2> QED
    BY <1>2, <2>1, PathCallsKeep, RenameKeeps, DeletesKeep, WritersKeep DEF Next
<1> QED
  BY <1>1, <1>2

-----------------------------------------------------------------------------
(* What is pending relies on the table, whatever the other clients do.     *)
THEOREM AlwaysSqliteInv == Spec => []SqliteInv
  BY InitInv, NextKeeps, PTL DEF Spec

(* Every variable of the table and its clients keeps its kind, whatever    *)
(* LIKE matches.                                                           *)
THEOREM TypeCorrect == Spec => []TypeOK
<1>1. SqliteInv => TypeOK
  BY DEF SqliteInv
<1> QED
  BY <1>1, AlwaysSqliteInv, PTL

(* Nothing is below the directory that Delete takes away, unless another   *)
(* client changed something there since it counted.  (Delete)              *)
THEOREM DeletesKeepBelow == Spec => DeleteKeepsBelow
<1>1. ASSUME SqliteInv, NEW c \in Client, DeleteRow(c), IsDir(pending[c].path), ~pending[c].raced
      PROVE  \A p \in Path : Under(p, pending[c].path) => ~Exists(p)
  BY <1>1 DEF SqliteInv, DeleteRow, Relies, IsDir, IsDirRow, Exists
<1>2. SqliteInv =>
        [\A c \in Client :
           DeleteRow(c) /\ IsDir(pending[c].path) /\ ~pending[c].raced =>
             \A p \in Path : Under(p, pending[c].path) => ~Exists(p)]_vars
  BY <1>1
<1> QED
  BY <1>2, AlwaysSqliteInv, PTL DEF DeleteKeepsBelow

(* An appending writer stores an extension of what the file holds, unless  *)
(* another client changed it.  (Append, sqliteWriteCloser.Close)           *)
THEOREM AppendsExtend == Spec => AppendExtends
<1>1. ASSUME SqliteInv, NEW c \in Client, WriterClose(c), pending[c].appends, ~pending[c].raced,
             IsFile(pending[c].path)
      PROVE  IsPrefix(row[pending[c].path].content, row'[pending[c].path].content)
  <2> DEFINE o == pending[c]
  <2>1. /\ o # Idle /\ o.stage = "write" /\ o \in Deletion \cup sqliteWriteCloser /\ Relies(o, row)
        /\ row' = [row EXCEPT ![o.path] = File(o.data)] /\ row \in Table
    BY <1>1 DEF SqliteInv, TypeOK, WriterClose, Commit, Table
  <2>2. o.path \in Path
    BY <2>1, Stages
  <2>3. row'[o.path].content = o.data
    BY <2>1, <2>2 DEF Table, File
  <2> QED
    BY <1>1, <2>1, <2>3 DEF Relies, IsFile, Exists, IsFileRow
<1>2. SqliteInv =>
        [\A c \in Client :
           WriterClose(c) /\ pending[c].appends /\ ~pending[c].raced /\ IsFile(pending[c].path) =>
             IsPrefix(row[pending[c].path].content, row'[pending[c].path].content)]_vars
  BY <1>1
<1> QED
  BY <1>2, AlwaysSqliteInv, PTL DEF AppendExtends

-----------------------------------------------------------------------------
(* Rename, and what List shows, when LIKE finds nothing but what is below  *)

(* No path in use merely reads like one below d.                           *)
OnlyBelow(d) == \A q \in Path : Like(q, d) => Under(q, d)

(* Then LIKE finds exactly what is below d.                                *)
LEMMA LikeIsUnder ==
  ASSUME NEW d \in Path, OnlyBelow(d), NEW q \in Path
  PROVE  Like(q, d) <=> Under(q, d)
  BY SqliteAssumption DEF OnlyBelow, Like

(* A rename of one row moves it and touches no other.                      *)
LEMMA OneRowMoves ==
  ASSUME row \in Table, NEW old \in Path, NEW new \in Path, Apart(old, new)
  PROVE  LET alone == [[row EXCEPT ![new] = row[old]] EXCEPT ![old] = NoRow]
         IN  /\ alone \in Table /\ alone[old] = NoRow /\ alone[new] = row[old]
             /\ \A p \in Path : p # old /\ p # new => alone[p] = row[p]
             /\ ~IsPrefix(old, new) /\ old # new
<1>1. old # new /\ ~IsPrefix(old, new)
  BY SqliteAssumption, PrefixOfSelf DEF Apart
<1> QED
  BY <1>1 DEF Table

(* The transaction of a directory's rename: what was below old is below    *)
(* new, nothing is below old, and nothing else has changed.                *)
LEMMA ChildrenMove ==
  ASSUME NEW rows \in Table, NEW old \in Path, NEW new \in Path, Apart(old, new), OnlyBelow(old),
         \A p \in childrenWithPrefix(rows, old) : NewPath(p, old, new) \in Path,
         NEW after \in renameChildren(rows, old, new)
  PROVE  /\ \A p \in Path : Under(p, old) => after[p] = NoRow
         /\ \A p \in Path : Under(p, old) /\ rows[p] # NoRow => after[Rebase(p, old, new)] = rows[p]
         /\ \A p \in Path : ~Under(p, old) /\ ~Under(p, new) => after[p] = rows[p]
<1> DEFINE children == childrenWithPrefix(rows, old)
           targets == {NewPath(p, old, new) : p \in children}
<1>1. /\ old \in Seq(Segment) /\ new \in Seq(Segment)
      /\ \A p \in Path : p \in Seq(Segment)
  BY SqliteAssumption
<1>2. \A p \in Path : p \in children <=> rows[p] # NoRow /\ Under(p, old)
  BY LikeIsUnder DEF childrenWithPrefix
<1>3. children \subseteq Path
  BY DEF childrenWithPrefix
<1>4. ASSUME NEW p \in children
      PROVE  /\ p \in Path /\ p \in Seq(Segment) /\ IsPrefix(old, p) /\ Under(p, old)
             /\ NewPath(p, old, new) = Rebase(p, old, new) /\ Rebase(p, old, new) \in Path
             /\ Under(Rebase(p, old, new), new) /\ ~IsPrefix(old, Rebase(p, old, new))
  <2>1. p \in Path /\ p \in Seq(Segment) /\ Under(p, old)
    BY <1>1, <1>2, <1>3
  <2>2. IsPrefix(old, p) /\ NewPath(p, old, new) = Rebase(p, old, new)
    BY <2>1 DEF Under, IsStrictPrefix, NewPath
  <2>3. Under(Rebase(p, old, new), Rebase(old, old, new)) /\ Rebase(old, old, new) = new
    BY <1>1, <2>1, RebaseSelf, RebaseOrder
  <2>4. ~IsPrefix(old, Rebase(p, old, new))
    BY <1>1, <2>1, <2>2, RebaseLeaves
  <2> QED
    BY <2>1, <2>2, <2>3, <2>4
<1>5. PICK from \in [targets -> children] :
        /\ \A q \in targets : NewPath(from[q], old, new) = q
        /\ after = [q \in Path |-> IF Like(q, old) THEN NoRow
                                   ELSE IF q \in targets THEN rows[from[q]] ELSE rows[q]]
  BY DEF renameChildren
<1>6. \A q \in targets : q \in Path /\ Under(q, new) /\ ~IsPrefix(old, q)
  BY <1>4
<1>7. \A p \in children : Rebase(p, old, new) \in targets
  BY <1>4
<1>8. \A q \in targets : from[q] \in children /\ NewPath(from[q], old, new) = q
  BY <1>5
<1> HIDE DEF children, targets
<1>9. \A q \in Path : after[q] = IF Under(q, old) THEN NoRow
                                 ELSE IF q \in targets THEN rows[from[q]] ELSE rows[q]
  BY <1>5, LikeIsUnder
<1>10. ASSUME NEW p \in Path, Under(p, old), rows[p] # NoRow
       PROVE  after[Rebase(p, old, new)] = rows[p]
  <2> DEFINE q == Rebase(p, old, new)
  <2>1. p \in children
    BY <1>2, <1>10
  <2>2. q \in targets /\ q \in Path /\ ~Under(q, old)
    BY <1>6, <1>7, <2>1 DEF Under, IsStrictPrefix
  <2>3. from[q] \in children /\ Rebase(from[q], old, new) = Rebase(p, old, new)
    BY <1>4, <1>8, <2>2
  <2>4. from[q] = p
    BY <1>1, <1>4, <2>1, <2>3, RebaseInjective
  <2> QED
    BY <1>9, <2>2, <2>4
<1> QED
  BY <1>6, <1>9, <1>10

(* A Rename moves the row and all rows below it and changes nothing        *)
(* elsewhere, for any paths and table, when neither path lies in the other *)
(* and LIKE finds only what is below the old one.  (Rename,                *)
(* renameChildren)                                                         *)
THEOREM RenamesMoveTrees ==
  ASSUME \A pair \in CanRename : Apart(pair[1], pair[2]) /\ OnlyBelow(pair[1])
  PROVE  Spec => RenameMovesTree
<1> DEFINE moved(old) == {p \in Path : Exists(p) /\ (p = old \/ (IsDir(old) /\ Under(p, old)))}
<1>1. ASSUME SqliteInv, NEW c \in Client, NEW pair \in CanRename, Rename(c, pair[1], pair[2])
      PROVE  /\ \A p \in moved(pair[1]) : row'[Rebase(p, pair[1], pair[2])] = row[p] /\ row'[p] = NoRow
             /\ \A p \in Path : ~IsPrefix(pair[1], p) /\ ~IsPrefix(pair[2], p) => row'[p] = row[p]
  <2> DEFINE old == pair[1]
             new == pair[2]
             alone == [[row EXCEPT ![new] = row[old]] EXCEPT ![old] = NoRow]
  <2>1. /\ row \in Table /\ old \in Path /\ new \in Path /\ Apart(old, new) /\ OnlyBelow(old)
        /\ old \in Seq(Segment) /\ new \in Seq(Segment) /\ \A p \in Path : p \in Seq(Segment)
    BY <1>1, SqliteAssumption DEF SqliteInv, TypeOK, Table
  <2>2. PICK after \in IF IsDir(old) THEN renameChildren(alone, old, new) ELSE {alone} : row' = after
    BY <1>1 DEF Rename, Commit
  <2>3. IsDir(old) => \A p \in childrenWithPrefix(alone, old) : NewPath(p, old, new) \in Path
    BY <1>1 DEF Rename
  <2> HIDE DEF old, new
  <2>4. /\ alone \in Table /\ alone[old] = NoRow /\ alone[new] = row[old]
        /\ \A p \in Path : p # old /\ p # new => alone[p] = row[p]
        /\ ~IsPrefix(old, new) /\ old # new
    BY <2>1, OneRowMoves
  <2>5. /\ Rebase(old, old, new) = new /\ IsPrefix(old, old) /\ IsPrefix(new, new)
        /\ ~Under(old, old) /\ ~Under(old, new) /\ ~Under(new, new) /\ ~Under(new, old)
    BY <2>1, RebaseSelf DEF Under, IsStrictPrefix, Apart
  <2> HIDE DEF alone
  <2>6. CASE ~IsDir(old)
    <3>1. row' = alone
      BY <2>2, <2>6
    <3>2. \A p \in moved(old) : p = old
      BY <2>6
    <3> QED
      BY <2>1, <2>4, <2>5, <3>1, <3>2 DEF old, new
  <2>7. CASE IsDir(old)
    <3>1. row' \in renameChildren(alone, old, new)
      BY <2>2, <2>7
    <3>2. /\ \A p \in Path : Under(p, old) => row'[p] = NoRow
          /\ \A p \in Path : Under(p, old) /\ alone[p] # NoRow => row'[Rebase(p, old, new)] = alone[p]
          /\ \A p \in Path : ~Under(p, old) /\ ~Under(p, new) => row'[p] = alone[p]
      BY <2>1, <2>3, <2>4, <2>7, <3>1, ChildrenMove
    <3>3. ASSUME NEW p \in Path, Exists(p), Under(p, old)
          PROVE  row'[Rebase(p, old, new)] = row[p] /\ row'[p] = NoRow
      <4>1. p # old /\ p # new
        BY <2>5, <3>3
      <4> QED
        BY <2>4, <3>2, <3>3, <4>1 DEF Exists
    <3>4. row'[Rebase(old, old, new)] = row[old] /\ row'[old] = NoRow
      BY <2>1, <2>4, <2>5, <3>2
    <3>5. ASSUME NEW p \in Path, ~IsPrefix(old, p), ~IsPrefix(new, p)
          PROVE  row'[p] = row[p]
      BY <2>4, <2>5, <3>2, <3>5 DEF Under, IsStrictPrefix
    <3> QED
      BY <3>3, <3>4, <3>5 DEF old, new
  <2> QED
    BY <2>6, <2>7
<1>2. SqliteInv =>
        [\A c \in Client : \A pair \in CanRename :
           LET old == pair[1] new == pair[2]
               moved_ == {p \in Path : Exists(p) /\ (p = old \/ (IsDir(old) /\ Under(p, old)))}
           IN Rename(c, old, new) =>
                /\ \A p \in moved_ : row'[Rebase(p, old, new)] = row[p] /\ row'[p] = NoRow
                /\ \A p \in Path : ~IsPrefix(old, p) /\ ~IsPrefix(new, p) => row'[p] = row[p]]_vars
  BY <1>1
<1> QED
  BY <1>2, AlwaysSqliteInv, PTL DEF RenameMovesTree

(* The entry that a row below d contributes: the name after d, and whether *)
(* the path goes on after it.                                              *)
LEMMA EntryOfRow ==
  ASSUME NEW q \in Seq(Segment), NEW d \in Seq(Segment), Under(q, d)
  PROVE  appendSQLiteListEntry(d, q) =
           {[name |-> q[Len(d) + 1], isDir |-> IF Len(q) = Len(d) + 1 THEN row[q].isDir ELSE TRUE]}
<1> DEFINE rest == SubSeq(q, Len(d) + 1, Len(q))
<1>1. Len(q) \in Nat /\ Len(d) \in Nat /\ Len(d) < Len(q) /\ IsPrefix(d, q)
  BY LenProperties, UnderElements DEF Under, IsStrictPrefix
<1>2. \A i \in Len(d) + 1 .. Len(q) : q[i] \in Segment
  BY <1>1, ElementOfSeq
<1>3. /\ Len(rest) = IF Len(d) + 1 <= Len(q) THEN Len(q) - (Len(d) + 1) + 1 ELSE 0
      /\ \A i \in 1 .. Len(q) - (Len(d) + 1) + 1 : rest[i] = q[Len(d) + 1 + i - 1]
  BY <1>1, <1>2, SubSeqProperties
<1>4. /\ Len(rest) = 1 <=> Len(q) = Len(d) + 1
      /\ rest[1] = q[Len(d) + 1]
  <2>1. 1 \in 1 .. Len(q) - (Len(d) + 1) + 1 /\ Len(d) + 1 + 1 - 1 = Len(d) + 1
    BY <1>1
  <2> HIDE DEF rest
  <2> QED
    BY <1>1, <1>3, <2>1
<1> HIDE DEF rest
<1> QED
  BY <1>1, <1>4 DEF appendSQLiteListEntry, rest

(* A listing has the entries of the rows below the directory.              *)
LEMMA ListedAreBelow ==
  ASSUME NEW d \in Seq(Segment), d # <<>> => d \in Path /\ OnlyBelow(d), NEW q \in Path
  PROVE  d = <<>> \/ Like(q, d) <=> Under(q, d)
<1>1. CASE d = <<>>
  <2>1. q \in Seq(Segment) /\ q # <<>>
    BY SqliteAssumption
  <2>2. Len(q) \in Nat /\ Len(q) # 0 /\ Len(d) = 0
    BY <1>1, <2>1, LenProperties, EmptySeq
  <2>3. Len(d) < Len(q) /\ \A i \in 1 .. Len(d) : d[i] = q[i]
    BY <2>2
  <2>4. Under(q, d)
    BY <2>1, <2>3, UnderElements
  <2> QED
    BY <1>1, <2>4
<1>2. CASE d # <<>>
  BY <1>2, LikeIsUnder
<1> QED
  BY <1>1, <1>2

(* What each listing on the way to a file shows of it.                     *)
LEMMA ShownOnTheWay ==
  ASSUME TypeOK, NEW p \in Path, IsFile(p),
         ~(\E q \in Path : Exists(q) /\ Like(q, p)), ~(\E d \in Ancestors(p) : IsFile(d)),
         NEW n \in 0 .. Len(p) - 1, \A d \in Path : OnlyBelow(d)
  PROVE  {e \in List(SubSeq(p, 1, n)) : e.name = p[n + 1]} =
           {[name |-> p[n + 1], isDir |-> n + 1 < Len(p)]}
<1> DEFINE d == SubSeq(p, 1, n)
           shown == [name |-> p[n + 1], isDir |-> n + 1 < Len(p)]
<1>1. /\ p \in Seq(Segment) /\ Len(p) \in Nat /\ n \in Nat /\ n < Len(p) /\ n \in 0 .. Len(p)
      /\ \A q \in Path : q \in Seq(Segment)
      /\ \A a \in Ancestors(p) : a \in Path
  <2>1. p \in Seq(Segment) /\ Len(p) \in Nat
    BY SqliteAssumption, LenProperties
  <2> QED
    BY <2>1, SqliteAssumption
<1>2. d \in Seq(Segment) /\ Len(d) = n /\ IsPrefix(d, p) /\ \A i \in 1 .. n : d[i] = p[i]
  BY <1>1, Beginning
<1> HIDE DEF d
<1>3. Under(p, d)
  BY <1>1, <1>2, UnderElements
<1>4. d # <<>> => d \in Path /\ OnlyBelow(d)
  BY <1>1, <1>2, <1>3, AncestorsAreAbove
<1>5. \A q \in Path : d = <<>> \/ Like(q, d) <=> Under(q, d)
  BY <1>2, <1>4, ListedAreBelow
<1>6. ASSUME NEW q \in Path, Under(q, d)
      PROVE  appendSQLiteListEntry(d, q) =
               {[name |-> q[n + 1], isDir |-> IF Len(q) = n + 1 THEN row[q].isDir ELSE TRUE]}
  BY <1>1, <1>2, <1>6, EntryOfRow
<1>7. ASSUME NEW q \in Path, Exists(q), Under(q, d), q[n + 1] = p[n + 1]
      PROVE  (IF Len(q) = n + 1 THEN row[q].isDir ELSE TRUE) = (n + 1 < Len(p))
  <2>1. /\ q \in Seq(Segment) /\ Len(q) \in Nat /\ n < Len(q) /\ \A i \in 1 .. n : d[i] = q[i]
    BY <1>1, <1>2, <1>7, LenProperties, UnderElements
  <2>2. \A i \in 1 .. n + 1 : q[i] = p[i]
    <3>1. \A i \in 1 .. n + 1 : i \in 1 .. n \/ i = n + 1
      BY <1>1
    <3> QED
      BY <1>2, <1>7, <2>1, <3>1
  <2>3. row[q].isDir \in BOOLEAN
    BY <1>7 DEF TypeOK, Exists, sqliteEntryRow
  <2>4. CASE Len(q) = n + 1 /\ n + 1 = Len(p)
    <3>1. q = p
      BY <1>1, <2>1, <2>2, <2>4, SeqEqual
    <3>2. row[q].isDir = FALSE
      BY <2>3, <3>1 DEF IsFile
    <3>3. (n + 1 < Len(p)) = FALSE
      BY <1>1, <2>4
    <3> QED
      BY <2>4, <3>2, <3>3
  <2>5. CASE Len(q) = n + 1 /\ n + 1 # Len(p)
    <3>1. n + 1 < Len(p)
      BY <1>1, <2>5
    <3>2. q # <<>> /\ Under(p, q)
      BY <1>1, <2>1, <2>2, <2>5, <3>1, UnderElements, EmptySeq
    <3>3. q \in Ancestors(p)
      BY <1>1, <2>1, <3>2, AncestorsAreAbove
    <3>4. row[q].isDir = TRUE
      BY <1>7, <2>3, <3>3 DEF IsFile
    <3> QED
      BY <2>5, <3>1, <3>4
  <2>6. CASE Len(q) # n + 1
    <3>1. n + 1 < Len(q)
      BY <1>1, <2>1, <2>6
    <3>2. n + 1 # Len(p)
      <4>1. ASSUME n + 1 = Len(p) PROVE Under(q, p)
        BY <1>1, <2>1, <2>2, <3>1, <4>1, UnderElements
      <4>2. ~Under(q, p)
        BY <1>7, LikeIsUnder
      <4> QED
        BY <4>1, <4>2
    <3>3. n + 1 < Len(p)
      BY <1>1, <3>2
    <3> QED
      BY <2>6, <3>3
  <2> QED
    BY <2>4, <2>5, <2>6
<1>8. \A e \in List(d) : e.name = p[n + 1] => e = shown
  <2> SUFFICES ASSUME NEW e \in List(d), e.name = p[n + 1]
               PROVE  e = shown
    OBVIOUS
  <2>1. PICK q \in Path : Exists(q) /\ Under(q, d) /\ e \in appendSQLiteListEntry(d, q)
    BY <1>5 DEF List
  <2>2. e = [name |-> q[n + 1], isDir |-> IF Len(q) = n + 1 THEN row[q].isDir ELSE TRUE]
    BY <1>6, <2>1
  <2>3. q[n + 1] = p[n + 1]
    BY <2>2
  <2> QED
    BY <1>7, <2>1, <2>2, <2>3
<1>9. shown \in List(d)
  <2>1. Exists(p) /\ (d = <<>> \/ Like(p, d))
    BY <1>3, <1>5 DEF IsFile
  <2>2. appendSQLiteListEntry(d, p) = {shown}
    BY <1>3, <1>6, <1>7, <2>1
  <2> HIDE DEF shown
  <2> QED
    BY <2>1, <2>2 DEF List
<1>10. shown.name = p[n + 1]
  OBVIOUS
<1> HIDE DEF shown
<1>11. {e \in List(d) : e.name = p[n + 1]} = {shown}
  BY <1>8, <1>9, <1>10
<1> QED
  BY <1>11 DEF d, shown

(* Every file can be walked to by listings, whether or not its directories *)
(* have rows, for any paths and table, when LIKE finds only what is below. *)
(* (List, appendSQLiteListEntry)                                           *)
THEOREM FilesAlwaysReachable ==
  ASSUME \A d \in Path : OnlyBelow(d)
  PROVE  Spec => []FilesReachable
<1>1. TypeOK => FilesReachable
  BY ShownOnTheWay DEF FilesReachable
<1> QED
  BY <1>1, TypeCorrect, PTL
=============================================================================
