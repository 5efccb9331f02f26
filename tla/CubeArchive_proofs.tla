------------------------- MODULE CubeArchive_proofs -------------------------
(***************************************************************************)
(* Theorems about trees and the cubes made of them, for any paths, names   *)
(* and contents, and about the obfuscators of the sigils that seal cubes,  *)
(* for every block size, length and hash.  What a Pack or an Unpack will   *)
(* have done of a file nobody changes follows from what it has still to    *)
(* do: the entry the file is or is below, or the file itself.              *)
(***************************************************************************)
EXTENDS CubeArchive, Obfuscators, Paths_proofs, FiniteSetTheorems

-----------------------------------------------------------------------------
(* node.Node                                                               *)
-----------------------------------------------------------------------------

(* A record carries the path it is stored under.                           *)
Named == \A p \in Files : files[p].name = p

(* An archive has the files of the tree it was made of and no other.       *)
SavedMatches ==
  saved # NoArchive =>
    saved.entries = {Record(p, saved.tree[p]) : p \in {q \in FilePath : saved.tree[q] # NoFile}}

(* The inductive invariant of a tree.                                      *)
NodeInv == NodeTypeOK /\ Named /\ SavedMatches

LEMMA NoFileApart == \A f \in dataFile : f # NoFile
BY NodeAssumption

LEMMA RecordTyped ==
  ASSUME NEW p \in FilePath, NEW c \in Seq(Chunk)
  PROVE  /\ Record(p, c) \in dataFile /\ Record(p, c) # NoFile
         /\ Record(p, c).name = p /\ Record(p, c).content = c
BY NoFileApart DEF Record, dataFile

LEMMA FileTyped ==
  ASSUME NodeTypeOK, NEW p \in Files
  PROVE  p \in FilePath /\ p \in Seq(Segment) /\ files[p] \in dataFile /\ files[p].content \in Seq(Chunk)
<1>1. p \in FilePath /\ files[p] \in dataFile
  BY DEF NodeTypeOK, Files
<1> QED
  BY <1>1, NodeAssumption DEF dataFile

LEMMA TreeTyped == NodeTypeOK => Tree \in Contents
BY FileTyped DEF Tree, Contents

(* A file moves to a place no other file moves to.                         *)
LEMMA Lands ==
  ASSUME NEW moving \in SUBSET Seq(Segment), NEW old \in Seq(Segment), NEW new \in Seq(Segment),
         \A p \in moving : IsPrefix(old, p), NEW p \in moving
  PROVE  (CHOOSE r \in moving : Rebase(r, old, new) = Rebase(p, old, new)) = p
<1>1. \A r \in moving : Rebase(r, old, new) = Rebase(p, old, new) => r = p
  BY RebaseInjective
<1> QED
  BY <1>1

LEMMA Renamings ==
  ASSUME NEW pair \in CanRename
  PROVE  pair[1] \in Seq(Segment) /\ pair[2] \in Seq(Segment)
BY NodeAssumption

(* What a file keeps of a directory's Rename.                              *)
LEMMA RenamedTo ==
  ASSUME NodeTypeOK, NEW pair \in CanRename, RenameDirectory(pair[1], pair[2]),
         NEW p \in FilesBelow(pair[1])
  PROVE  /\ Rebase(p, pair[1], pair[2]) \in FilePath
         /\ files'[Rebase(p, pair[1], pair[2])] = Record(Rebase(p, pair[1], pair[2]), files[p].content)
<1> DEFINE old == pair[1]
           new == pair[2]
           moving == FilesBelow(old)
           to == Rebase(p, old, new)
<1>1. old \in Seq(Segment) /\ new \in Seq(Segment)
  BY Renamings
<1>2. /\ moving \in SUBSET Seq(Segment) /\ p \in moving
      /\ \A q \in moving : q \in Files /\ IsPrefix(old, q)
  BY FileTyped DEF FilesBelow, Under, IsStrictPrefix
<1>3. (CHOOSE r \in moving : Rebase(r, old, new) = to) = p
  <2> HIDE DEF old, new, moving
  <2> QED
    BY <1>1, <1>2, Lands
<1>4. to \in FilePath
  BY DEF RenameDirectory
<1>5. files'[to] = renamed(old, new, p)
  <2>1. \E q \in moving : Rebase(q, old, new) = to
    OBVIOUS
  <2>2. files' = [q \in FilePath |->
           IF \E r \in moving : Rebase(r, old, new) = q
           THEN renamed(old, new, CHOOSE r \in moving : Rebase(r, old, new) = q)
           ELSE IF q \in moving THEN NoFile ELSE files[q]]
    BY DEF RenameDirectory
  <2> HIDE DEF old, new, moving
  <2> QED
    BY <1>3, <1>4, <2>1, <2>2
<1>6. renamed(old, new, p) = Record(to, files[p].content)
  <2>1. files[p] \in [name : FilePath, content : Seq(Chunk)]
    BY <1>2, FileTyped DEF dataFile
  <2> QED
    BY <2>1 DEF renamed, Record
<1> QED
  BY <1>4, <1>5, <1>6

-----------------------------------------------------------------------------
(* What a step of the tree stores at a path                                *)

(* Nothing, a record of a content under its name, or what was there.       *)
Keeps(p) ==
  \/ files'[p] = NoFile
  \/ \E c \in Seq(Chunk) : files'[p] = Record(p, c)
  \/ files'[p] = files[p]

FilesKeep == files' = [p \in FilePath |-> files'[p]] /\ \A p \in FilePath : Keeps(p)

LEMMA RenameDirectoryKeeps ==
  ASSUME NodeTypeOK, NEW pair \in CanRename, RenameDirectory(pair[1], pair[2]), NEW p \in FilePath
  PROVE  Keeps(p)
<1>1. CASE \E q \in FilesBelow(pair[1]) : Rebase(q, pair[1], pair[2]) = p
  <2>1. PICK q \in FilesBelow(pair[1]) : Rebase(q, pair[1], pair[2]) = p
    BY <1>1
  <2>2. q \in Files
    BY DEF FilesBelow
  <2>3. files[q].content \in Seq(Chunk)
    BY <2>2, FileTyped
  <2> QED
    BY <2>1, <2>3, RenamedTo DEF Keeps
<1>2. CASE ~\E q \in FilesBelow(pair[1]) : Rebase(q, pair[1], pair[2]) = p
  BY <1>2 DEF RenameDirectory, Keeps
<1> QED
  BY <1>1, <1>2

LEMMA CopyKeeps ==
  ASSUME NodeTypeOK, NEW pair \in CanRename, CopyTo(pair[1], pair[2]), NEW p \in FilePath
  PROVE  Keeps(p)
<1> DEFINE copied == {q \in Files : IsPrefix(pair[1], q)}
           from == CHOOSE q \in copied : Rebase(q, pair[1], pair[2]) = p
<1>1. files'[p] = IF \E q \in copied : Rebase(q, pair[1], pair[2]) = p
                  THEN Record(p, files[from].content) ELSE files[p]
  BY DEF CopyTo
<1>2. (\E q \in copied : Rebase(q, pair[1], pair[2]) = p) => from \in Files
  OBVIOUS
<1> HIDE DEF copied, from
<1>3. (\E q \in copied : Rebase(q, pair[1], pair[2]) = p) => files[from].content \in Seq(Chunk)
  BY <1>2, FileTyped
<1> QED
  BY <1>1, <1>3 DEF Keeps

LEMMA RenameFileKeeps ==
  ASSUME NodeTypeOK, NEW pair \in CanRename, RenameFile(pair[1], pair[2]), NEW p \in FilePath
  PROVE  Keeps(p)
<1> DEFINE old == pair[1]
           new == pair[2]
<1>1. old \in Files /\ new \in FilePath /\ files[old] \in [name : FilePath, content : Seq(Chunk)]
  BY FileTyped DEF RenameFile, dataFile
<1>2. [files[old] EXCEPT !.name = new] = Record(new, files[old].content) /\ files[old].content \in Seq(Chunk)
  BY <1>1 DEF Record
<1>3. files' = [files EXCEPT ![new] = Record(new, files[old].content), ![old] = NoFile]
  BY <1>2 DEF RenameFile
<1>4. files \in [FilePath -> dataFile \cup {NoFile}]
  BY DEF NodeTypeOK
<1> HIDE DEF old, new
<1> QED
  BY <1>1, <1>2, <1>3, <1>4 DEF Keeps

LEMMA LoadKeeps ==
  ASSUME NodeTypeOK, SavedMatches, LoadTar, NEW p \in FilePath
  PROVE  files'[p] = IF saved.tree[p] = NoFile THEN NoFile ELSE Record(p, saved.tree[p])
<1>1. saved \in Archive /\ saved # NoArchive
  BY DEF LoadTar, NodeTypeOK
<1>2. saved.tree \in [FilePath -> Seq(Chunk) \cup {NoFile}]
  BY <1>1 DEF Archive, Contents
<1>3. /\ files'[p] \in saved.entries \cup {NoFile}
      /\ IF \E e \in saved.entries : e.name = p
         THEN files'[p] # NoFile /\ files'[p].name = p
         ELSE files'[p] = NoFile
  BY DEF LoadTar
<1>4. \A e \in saved.entries :
        \E q \in FilePath : saved.tree[q] # NoFile /\ e = Record(q, saved.tree[q]) /\ e.name = q
  BY <1>1, <1>2, RecordTyped DEF SavedMatches
<1>5. CASE saved.tree[p] = NoFile
  <2>1. ~\E e \in saved.entries : e.name = p
    BY <1>4, <1>5
  <2> QED
    BY <1>3, <1>5, <2>1
<1>6. CASE saved.tree[p] # NoFile
  <2>1. Record(p, saved.tree[p]) \in saved.entries /\ Record(p, saved.tree[p]).name = p
    BY <1>1, <1>2, <1>6, RecordTyped DEF SavedMatches
  <2>2. files'[p] # NoFile /\ files'[p].name = p /\ files'[p] \in saved.entries
    BY <1>3, <2>1
  <2> QED
    BY <1>4, <1>6, <2>2
<1> QED
  BY <1>5, <1>6

LEMMA StoreKeeps ==
  ASSUME NodeTypeOK, NEW p \in FilePath, NEW c \in Seq(Chunk),
         files' = [files EXCEPT ![p] = Record(p, c)]
  PROVE  FilesKeep
BY DEF NodeTypeOK, FilesKeep, Keeps

(* Every call of a tree stores under each path what it may.                *)
LEMMA FilesStep == NodeInv /\ NodeNext => FilesKeep
<1> SUFFICES ASSUME NodeInv, NodeNext
             PROVE  FilesKeep
  OBVIOUS
<1>0. NodeTypeOK /\ files \in [FilePath -> dataFile \cup {NoFile}]
  BY DEF NodeInv, NodeTypeOK
<1>1. ASSUME NEW p \in FilePath, Delete(p) \/ \E x \in Payload : AddData(p, x) PROVE FilesKeep
  <2>1. CASE Delete(p)
    BY <1>0, <2>1 DEF Delete, Keeps, FilesKeep
  <2>2. ASSUME NEW x \in Payload, AddData(p, x) PROVE FilesKeep
    BY <1>0, <2>2, StoreKeeps, NodeAssumption DEF AddData
  <2> QED
    BY <1>1, <2>1, <2>2
<1>2. ASSUME NEW d \in DirPath \ {<<>>}, DeleteAll(d) PROVE FilesKeep
  BY <1>0, <1>2 DEF DeleteAll, Keeps, FilesKeep
<1>3. ASSUME NEW pair \in CanRename, \/ RenameFile(pair[1], pair[2])
                                     \/ RenameDirectory(pair[1], pair[2])
                                     \/ CopyTo(pair[1], pair[2])
      PROVE  FilesKeep
  <2>1. files' = [p \in FilePath |-> files'[p]]
    BY <1>0, <1>3 DEF RenameFile, RenameDirectory, CopyTo
  <2>2. \A p \in FilePath : Keeps(p)
    BY <1>0, <1>3, RenameFileKeeps, RenameDirectoryKeeps, CopyKeeps
  <2> QED
    BY <2>1, <2>2 DEF FilesKeep
<1>4. CASE WriterClose
  <2>1. writer \in nodeWriter
    BY <1>0, <1>4 DEF WriterClose, NodeTypeOK
  <2>2. writer.path \in FilePath /\ writer.buffer \in Seq(Chunk)
    BY <2>1, NodeAssumption DEF nodeWriter
  <2> QED
    BY <1>0, <1>4, <2>2, StoreKeeps DEF WriterClose
<1>5. CASE LoadTar
  <2>1. SavedMatches
    BY DEF NodeInv
  <2>2. saved \in Archive
    BY <1>0, <1>5 DEF LoadTar, NodeTypeOK
  <2>3. saved.tree \in [FilePath -> Seq(Chunk) \cup {NoFile}]
    BY <2>2 DEF Archive, Contents
  <2>4. files' = [p \in FilePath |-> files'[p]]
    BY <1>5 DEF LoadTar
  <2>5. \A p \in FilePath : Keeps(p)
    BY <1>0, <1>5, <2>1, <2>3, LoadKeeps DEF Keeps
  <2> QED
    BY <2>4, <2>5 DEF FilesKeep
<1>6. CASE UNCHANGED files
  BY <1>0, <1>6 DEF Keeps, FilesKeep
<1>7. (\E p \in WriterPath : Create(p) \/ Append_(p)) \/ (\E x \in Chunk : WriterWrite(x)) \/ ToTar
      => UNCHANGED files
  BY DEF Create, Append_, WriterWrite, ToTar
<1> QED
  BY <1>1, <1>2, <1>3, <1>4, <1>5, <1>6, <1>7 DEF NodeNext

LEMMA FilesTyped ==
  ASSUME NodeInv, FilesKeep
  PROVE  files' \in [FilePath -> dataFile \cup {NoFile}] /\ Named'
<1>1. ASSUME NEW p \in FilePath
      PROVE  files'[p] \in dataFile \cup {NoFile} /\ (files'[p] # NoFile => files'[p].name = p)
  <2>1. files[p] \in dataFile \cup {NoFile} /\ (files[p] # NoFile => files[p].name = p)
    BY DEF NodeInv, NodeTypeOK, Named, Files
  <2>2. Keeps(p)
    BY DEF FilesKeep
  <2> QED
    BY <2>1, <2>2, RecordTyped DEF Keeps
<1>2. files' = [p \in FilePath |-> files'[p]]
  BY DEF FilesKeep
<1> QED
  BY <1>1, <1>2 DEF Named, Files

LEMMA WriterStep == NodeTypeOK /\ NodeNext => writer' \in nodeWriter \cup {NoWriter}
<1> SUFFICES ASSUME NodeTypeOK, NodeNext
             PROVE  writer' \in nodeWriter \cup {NoWriter}
  OBVIOUS
<1>1. ASSUME NEW p \in WriterPath, Create(p) \/ Append_(p) PROVE writer' \in nodeWriter
  <2> DEFINE buffer == IF p \in Files THEN files[p].content ELSE <<>>
  <2>1. buffer \in Seq(Chunk) /\ <<>> \in Seq(Chunk)
    BY FileTyped
  <2>2. writer' = [path |-> p, buffer |-> <<>>] \/ writer' = [path |-> p, buffer |-> buffer]
    BY <1>1 DEF Create, Append_
  <2>3. \A b \in Seq(Chunk) : [path |-> p, buffer |-> b] \in nodeWriter
    BY DEF nodeWriter
  <2> HIDE DEF buffer
  <2>4. CASE writer' = [path |-> p, buffer |-> <<>>]
    BY <2>1, <2>3, <2>4, Zenon
  <2>5. CASE writer' = [path |-> p, buffer |-> buffer]
    BY <2>1, <2>3, <2>5, Zenon
  <2> QED
    BY <2>2, <2>4, <2>5
<1>2. ASSUME NEW x \in Chunk, WriterWrite(x) PROVE writer' \in nodeWriter
  <2>1. writer \in [path : WriterPath, buffer : Seq(Chunk)]
    BY <1>2 DEF WriterWrite, NodeTypeOK, nodeWriter
  <2>2. Append(writer.buffer, x) \in Seq(Chunk)
    BY <2>1
  <2> QED
    BY <1>2, <2>1, <2>2 DEF WriterWrite, nodeWriter
<1>3. CASE UNCHANGED writer \/ writer' = NoWriter
  BY <1>3 DEF NodeTypeOK
<1> QED
  BY <1>1, <1>2, <1>3
     DEF NodeNext, Delete, AddData, DeleteAll, RenameFile, RenameDirectory, CopyTo, WriterClose,
         ToTar, LoadTar

LEMMA SavedStep == NodeInv /\ NodeNext => saved' \in Archive \cup {NoArchive} /\ SavedMatches'
<1> SUFFICES ASSUME NodeInv, NodeNext
             PROVE  saved' \in Archive \cup {NoArchive} /\ SavedMatches'
  OBVIOUS
<1> USE DEF NodeInv
<1>1. CASE ToTar
  <2>1. saved' = [format |-> "tar", entries |-> {files[p] : p \in Files}, tree |-> Tree]
    BY <1>1 DEF ToTar
  <2>2. Tree \in Contents /\ \A p \in Files : files[p] \in dataFile
    BY TreeTyped, FileTyped
  <2>3. saved' \in Archive
    BY <2>1, <2>2 DEF Archive
  <2>4. {q \in FilePath : Tree[q] # NoFile} = Files
    BY FileTyped, NodeAssumption DEF Tree, Files
  <2>5. ASSUME NEW p \in Files PROVE files[p] = Record(p, Tree[p])
    <3>1. files[p] \in [name : FilePath, content : Seq(Chunk)] /\ files[p].name = p
      BY FileTyped DEF Named, dataFile
    <3>2. Tree[p] = files[p].content
      BY FileTyped DEF Tree
    <3> QED
      BY <3>1, <3>2 DEF Record
  <2>6. saved'.entries = {Record(p, Tree[p]) : p \in Files} /\ saved'.tree = Tree
    BY <2>1, <2>5
  <2> QED
    BY <2>3, <2>4, <2>6 DEF SavedMatches
<1>2. CASE UNCHANGED saved
  BY <1>2 DEF NodeTypeOK, SavedMatches
<1> QED
  BY <1>1, <1>2
     DEF NodeNext, Delete, AddData, DeleteAll, RenameFile, RenameDirectory, CopyTo, WriterClose,
         Create, Append_, WriterWrite, LoadTar

LEMMA NodeStep == NodeInv /\ NodeNext => NodeInv'
<1> SUFFICES ASSUME NodeInv, NodeNext
             PROVE  NodeInv'
  OBVIOUS
<1>1. files' \in [FilePath -> dataFile \cup {NoFile}] /\ Named'
  BY FilesStep, FilesTyped
<1>2. writer' \in nodeWriter \cup {NoWriter}
  BY WriterStep DEF NodeInv
<1>3. saved' \in Archive \cup {NoArchive} /\ SavedMatches'
  BY SavedStep
<1> QED
  BY <1>1, <1>2, <1>3 DEF NodeInv, NodeTypeOK

LEMMA NodeInitially == NodeInit => NodeInv
BY DEF NodeInit, NodeInv, NodeTypeOK, Named, Files, SavedMatches

-----------------------------------------------------------------------------
(* cube.Pack and cube.Unpack                                               *)
-----------------------------------------------------------------------------

(* One of the entries still to visit is p or a directory above it.         *)
Ahead(todo, p) ==
  \E k \in 1 .. Len(todo) :
    IF todo[k].isDir THEN Under(p, todo[k].path) ELSE p = todo[k].path

(* What a Pack has read of a file nobody changed is the file, unless it is *)
(* still ahead; of what was no file it has read nothing.                   *)
PackRelies ==
  job \in Packing =>
    \A p \in job.steady :
      IF p \in Files THEN job.data[p] = files[p].content \/ Ahead(job.todo, p)
      ELSE job.data[p] = NoFile

(* An archived file nobody changed is in the tree or still to be written.  *)
UnpackRelies ==
  job \in Unpacking =>
    /\ \A p \in job.todo : job.data[p] # NoFile
    /\ \A p \in job.steady : job.data[p] # NoFile => p \in job.todo \/ Tree[p] = job.data[p]

(* The inductive invariant.                                                *)
CubeInv ==
  /\ NodeInv
  /\ job \in Packing \cup Unpacking \cup {NoJob}
  /\ PackRelies
  /\ UnpackRelies

LEMMA Jobs ==
  ASSUME NEW j \in Packing \cup Unpacking \cup {NoJob}
  PROVE  /\ j # NoJob /\ j.op = "pack" <=> j \in Packing
         /\ j # NoJob /\ j.op = "unpack" <=> j \in Unpacking
<1>1. (\A q \in Packing : q.op = "pack") /\ (\A q \in Unpacking : q.op = "unpack")
  BY DEF Packing, Unpacking
<1>2. NoJob \notin Packing /\ NoJob \notin Unpacking
  BY CubeAssumption
<1> QED
  BY <1>1, <1>2

(* A sequence of all elements of a set.                                    *)
LEMMA Permuted ==
  ASSUME NEW S, IsFiniteSet(S), NEW s \in SetToSeqs(S)
  PROVE  /\ s \in Seq(S)
         /\ \A x \in S : \E k \in 1 .. Len(s) : s[k] = x
<1> DEFINE n == Cardinality(S)
           D == 1 .. n
<1>1. n \in Nat
  BY FS_CardinalityType
<1>2. IsFiniteSet(D) /\ Cardinality(D) = n
  BY <1>1, FS_Interval
<1>3. s \in [D -> S] /\ \A j, k \in D : j # k => s[j] # s[k]
  BY DEF SetToSeqs
<1>4. s \in Injection(D, S)
  BY <1>3 DEF Injection, IsInjective
<1>5. s \in Surjection(D, S)
  BY <1>2, <1>4, FS_Injection
<1>6. s \in Seq(S) /\ Len(s) = n
  BY <1>1, <1>3
<1> HIDE DEF n
<1>7. \A x \in S : \E k \in D : s[k] = x
  BY <1>5 DEF Surjection
<1> QED
  BY <1>6, <1>7

Children(d) == {[path |-> archiveChildPath(d, e.name), isDir |-> e.isDir] : e \in ReadDir(d)}

(* Every file below a directory is an entry of it or is below one.         *)
LEMMA ChildrenCover ==
  ASSUME NodeTypeOK, NEW d \in Seq(Segment), NEW p \in FilesBelow(d)
  PROVE  \E x \in Children(d) :
           x \in Entry /\ (IF x.isDir THEN Under(p, x.path) ELSE p = x.path)
<1> DEFINE name == p[Len(d) + 1]
           e == [name |-> name, isDir |-> Len(p) > Len(d) + 1]
           x == [path |-> archiveChildPath(d, name), isDir |-> Len(p) > Len(d) + 1]
<1>1. p \in FilePath /\ p \in Seq(Segment) /\ Under(p, d)
  BY FileTyped DEF FilesBelow
<1>2. e \in ReadDir(d)
  BY DEF ReadDir
<1>3. x \in Children(d)
  BY <1>2 DEF Children
<1>4. d # <<name>>
  <2> SUFFICES ASSUME d = <<name>>
               PROVE  FALSE
    OBVIOUS
  <2>1. Len(d) = 1 /\ d[1] = name
    OBVIOUS
  <2>2. Len(p) \in Nat /\ Len(d) < Len(p) /\ \A k \in 1 .. Len(d) : d[k] = p[k]
    BY <1>1, UnderElements, LenProperties
  <2>3. Len(p) > 1 /\ p[1] = p[2]
    BY <2>1, <2>2
  <2> QED
    BY <1>1, <2>3, CubeAssumption
<1>5. archiveChildPath(d, name) = Append(d, name)
  BY <1>4 DEF archiveChildPath
<1>6. /\ name \in Segment /\ Append(d, name) \in Seq(Segment)
      /\ Len(p) > Len(d) + 1 => Under(p, Append(d, name))
      /\ ~(Len(p) > Len(d) + 1) => p = Append(d, name)
  BY <1>1, ChildOf
<1>7. x \in Entry /\ (IF x.isDir THEN Under(p, x.path) ELSE p = x.path)
  <2>1. x.path = Append(d, name) /\ x.isDir = (Len(p) > Len(d) + 1) /\ x.isDir \in BOOLEAN
    BY <1>5
  <2>2. x \in Entry
    BY <1>5, <1>6 DEF Entry
  <2> HIDE DEF x
  <2>3. CASE x.isDir
    BY <1>6, <2>1, <2>2, <2>3
  <2>4. CASE ~x.isDir
    BY <1>6, <2>1, <2>2, <2>4
  <2> QED
    BY <2>3, <2>4
<1> QED
  BY <1>3, <1>7

LEMMA ChildrenTyped ==
  ASSUME NodeTypeOK, NEW d \in Seq(Segment)
  PROVE  Children(d) \subseteq Entry /\ IsFiniteSet(Children(d))
<1> DEFINE entry(p) == [path |-> archiveChildPath(d, p[Len(d) + 1]), isDir |-> Len(p) > Len(d) + 1]
           of == [p \in FilesBelow(d) |-> entry(p)]
<1>1. Children(d) = {entry(p) : p \in FilesBelow(d)}
  <2>1. \A p \in FilesBelow(d) :
          LET e == [name |-> p[Len(d) + 1], isDir |-> Len(p) > Len(d) + 1]
          IN  e.name = p[Len(d) + 1] /\ e.isDir = (Len(p) > Len(d) + 1)
    OBVIOUS
  <2> QED
    BY <2>1 DEF Children, ReadDir
<1>2. IsFiniteSet(FilesBelow(d))
  <2>1. FilesBelow(d) \subseteq FilePath
    BY DEF FilesBelow, Files
  <2> QED
    BY <2>1, CubeAssumption, FS_Subset
<1>3. of \in Surjection(FilesBelow(d), Children(d))
  BY <1>1 DEF Surjection
<1>4. IsFiniteSet(Children(d))
  <2> HIDE DEF of
  <2> QED
    BY <1>2, <1>3, FS_Surjection
<1>5. ASSUME NEW p \in FilesBelow(d) PROVE entry(p) \in Entry
  <2>1. p[Len(d) + 1] \in Segment
    <3>1. p \in Seq(Segment) /\ Under(p, d)
      BY FileTyped DEF FilesBelow
    <3> QED
      BY <3>1, ChildOf
  <2>2. archiveChildPath(d, p[Len(d) + 1]) \in Seq(Segment)
    BY <2>1 DEF archiveChildPath
  <2> QED
    BY <2>2 DEF Entry
<1> QED
  BY <1>1, <1>4, <1>5

LEMMA PackingTyped ==
  ASSUME NEW j \in Packing
  PROVE  /\ j.todo \in Seq(Entry) /\ j.data \in [FilePath -> Seq(Chunk) \cup {NoFile}]
         /\ j.steady \subseteq FilePath
BY DEF Packing, Contents

LEMMA UnpackingTyped ==
  ASSUME NEW j \in Unpacking
  PROVE  /\ j.todo \subseteq FilePath /\ j.data \in [FilePath -> Seq(Chunk) \cup {NoFile}]
         /\ j.steady \subseteq FilePath
BY DEF Unpacking, Contents

LEMMA OtherCallStep == CubeInv /\ OtherCall => CubeInv'
<1> SUFFICES ASSUME CubeInv, OtherCall
             PROVE  CubeInv'
  OBVIOUS
<1> USE DEF CubeInv
<1>1. NodeInv'
  BY NodeStep DEF OtherCall
<1>2. CASE job = NoJob
  <2>1. job' = NoJob /\ NoJob \notin Packing /\ NoJob \notin Unpacking
    BY <1>2, CubeAssumption DEF OtherCall
  <2> QED
    BY <1>1, <2>1 DEF PackRelies, UnpackRelies
<1>3. CASE job # NoJob
  <2> DEFINE changed == {p \in FilePath : files'[p] # files[p]}
  <2>1. job' = [job EXCEPT !.steady = @ \ changed]
    BY <1>3 DEF OtherCall
  <2>2. \A p \in FilePath \ changed : /\ files'[p] = files[p] /\ (p \in Files' <=> p \in Files)
                                      /\ Tree'[p] = Tree[p]
    BY DEF Files, Tree
  <2> HIDE DEF changed
  <2>3. CASE job \in Packing
    <3>1. /\ job' \in Packing /\ job'.todo = job.todo /\ job'.data = job.data
          /\ job'.steady = job.steady \ changed
      BY <2>1, <2>3 DEF Packing
    <3>2. job' \notin Unpacking
      BY <3>1, Jobs
    <3>3. \A p \in job'.steady : p \in job.steady /\ p \in FilePath \ changed
      BY <2>3, <3>1, PackingTyped
    <3>4. PackRelies'
      BY <2>2, <2>3, <3>1, <3>3 DEF PackRelies
    <3> QED
      BY <1>1, <3>1, <3>2, <3>4 DEF UnpackRelies
  <2>4. CASE job \in Unpacking
    <3>1. /\ job' \in Unpacking /\ job'.todo = job.todo /\ job'.data = job.data
          /\ job'.steady = job.steady \ changed
      BY <2>1, <2>4 DEF Unpacking
    <3>2. job' \notin Packing
      BY <3>1, Jobs
    <3>3. \A p \in job'.steady : p \in job.steady /\ p \in FilePath \ changed
      BY <2>4, <3>1, UnpackingTyped
    <3>4. UnpackRelies'
      BY <2>2, <2>4, <3>1, <3>3 DEF UnpackRelies
    <3> QED
      BY <1>1, <3>1, <3>2, <3>4 DEF PackRelies
  <2> QED
    BY <1>3, <2>3, <2>4
<1> QED
  BY <1>2, <1>3

LEMMA NodeUnchanged == NodeInv /\ UNCHANGED nodeVars => NodeInv' /\ UNCHANGED <<Files, Tree>>
BY DEF NodeInv, NodeTypeOK, Named, SavedMatches, Files, Tree, nodeVars

(* No job, nothing to rely on.                                             *)
LEMMA JobEnds == NodeInv' /\ job' = NoJob => CubeInv'
BY CubeAssumption DEF CubeInv, PackRelies, UnpackRelies

LEMMA PackStep == CubeInv /\ Pack => CubeInv'
<1> SUFFICES ASSUME CubeInv, Pack
             PROVE  CubeInv'
  OBVIOUS
<1> USE DEF CubeInv
<1>1. NodeInv' /\ UNCHANGED <<Files, Tree, files>> /\ NodeTypeOK
  BY NodeUnchanged DEF Pack, NodeInv, nodeVars
<1> DEFINE start == << [path |-> <<>>, isDir |-> TRUE] >>
           none == [p \in FilePath |-> NoFile]
<1>2. job' = [op |-> "pack", todo |-> start, data |-> none, steady |-> FilePath]
  BY DEF Pack
<1>3. start \in Seq(Entry) /\ Len(start) = 1 /\ start[1].isDir /\ start[1].path = <<>>
  BY DEF Entry
<1>4. none \in Contents /\ \A p \in FilePath : none[p] = NoFile
  BY DEF Contents
<1>5. \A p \in Files : Ahead(start, p)
  <2> SUFFICES ASSUME NEW p \in Files
               PROVE  Ahead(start, p)
    OBVIOUS
  <2>1. p \in Seq(Segment) /\ p # <<>>
    BY <1>1, FileTyped, NodeAssumption
  <2>2. Under(p, <<>>)
    <3>1. Len(p) \in Nat /\ Len(p) # 0 /\ <<>> \in Seq(Segment) /\ Len(<<>>) = 0
      BY <2>1, EmptySeq, LenProperties
    <3>2. ASSUME NEW d \in Seq(Segment), Len(d) = 0
          PROVE  Under(p, d)
      <4>1. Under(p, d) <=> Len(d) < Len(p) /\ \A k \in 1 .. Len(d) : d[k] = p[k]
        BY <2>1, UnderElements
      <4> QED
        BY <3>1, <3>2, <4>1
    <3> QED
      BY <3>1, <3>2
  <2> HIDE DEF start
  <2> QED
    BY <1>3, <2>2 DEF Ahead
<1> HIDE DEF start, none
<1>6. /\ job' \in Packing /\ job'.todo = start /\ job'.data = none /\ job'.steady = FilePath
  BY <1>2, <1>3, <1>4 DEF Packing
<1>7. job' \notin Unpacking
  BY <1>6, Jobs
<1>8. PackRelies'
  BY <1>1, <1>4, <1>5, <1>6 DEF PackRelies
<1> QED
  BY <1>1, <1>6, <1>7, <1>8 DEF UnpackRelies

(* The first entry and the rest of the entries to visit.                   *)
LEMMA HeadOrTail ==
  ASSUME NEW todo \in Seq(Entry), todo # <<>>, NEW p, Ahead(todo, p)
  PROVE  \/ IF Head(todo).isDir THEN Under(p, Head(todo).path) ELSE p = Head(todo).path
         \/ Ahead(Tail(todo), p)
<1>1. PICK k \in 1 .. Len(todo) : IF todo[k].isDir THEN Under(p, todo[k].path) ELSE p = todo[k].path
  BY DEF Ahead
<1>2. Len(todo) \in Nat /\ Len(todo) # 0
  BY LenProperties, EmptySeq
<1>3. CASE k = 1
  BY <1>1, <1>3
<1>4. CASE k # 1
  <2>1. k - 1 \in 1 .. Len(Tail(todo)) /\ Tail(todo)[k - 1] = todo[k]
    BY <1>2, <1>4
  <2> QED
    BY <1>1, <2>1 DEF Ahead
<1> QED
  BY <1>3, <1>4

LEMMA AheadOfBoth ==
  ASSUME NEW s \in Seq(Entry), NEW t \in Seq(Entry), NEW p
  PROVE  Ahead(s \o t, p) <=> Ahead(s, p) \/ Ahead(t, p)
<1>1. /\ Len(s) \in Nat /\ Len(t) \in Nat /\ Len(s \o t) = Len(s) + Len(t)
      /\ \A k \in 1 .. Len(s) : (s \o t)[k] = s[k]
      /\ \A k \in Len(s) + 1 .. Len(s) + Len(t) : (s \o t)[k] = t[k - Len(s)]
  BY LenProperties
<1>2. ASSUME Ahead(s \o t, p)
      PROVE  Ahead(s, p) \/ Ahead(t, p)
  <2>1. PICK k \in 1 .. Len(s) + Len(t) :
          IF (s \o t)[k].isDir THEN Under(p, (s \o t)[k].path) ELSE p = (s \o t)[k].path
    BY <1>1, <1>2 DEF Ahead
  <2>2. CASE k <= Len(s)
    BY <1>1, <2>1, <2>2 DEF Ahead
  <2>3. CASE k > Len(s)
    <3>1. k - Len(s) \in 1 .. Len(t) /\ (s \o t)[k] = t[k - Len(s)]
      BY <1>1, <2>3
    <3> QED
      BY <2>1, <3>1 DEF Ahead
  <2> QED
    BY <1>1, <2>2, <2>3
<1>3. Ahead(s, p) => Ahead(s \o t, p)
  BY <1>1 DEF Ahead
<1>4. ASSUME Ahead(t, p)
      PROVE  Ahead(s \o t, p)
  <2>1. PICK k \in 1 .. Len(t) : IF t[k].isDir THEN Under(p, t[k].path) ELSE p = t[k].path
    BY <1>4 DEF Ahead
  <2>2. k + Len(s) \in 1 .. Len(s \o t) /\ (s \o t)[k + Len(s)] = t[k]
    BY <1>1
  <2> QED
    BY <2>1, <2>2 DEF Ahead
<1> QED
  BY <1>2, <1>3, <1>4

LEMMA PackListStep == CubeInv /\ PackList => CubeInv'
<1> SUFFICES ASSUME CubeInv, PackList
             PROVE  CubeInv'
  OBVIOUS
<1> USE DEF CubeInv
<1>1. NodeInv' /\ UNCHANGED <<Files, Tree, files>> /\ NodeTypeOK
  BY NodeUnchanged DEF PackList, NodeInv, nodeVars
<1>2. CASE job' = NoJob
  BY <1>1, <1>2, JobEnds
<1>3. CASE job' # NoJob
  <2> DEFINE d == Head(job.todo).path
             todo == job.todo
  <2>1. job \in Packing /\ todo \in Seq(Entry) /\ todo # <<>> /\ Head(todo).isDir
    BY Jobs, PackingTyped DEF PackList, AtEntry, Packs
  <2>2. PICK entries \in SetToSeqs(Children(d)) : job' = [job EXCEPT !.todo = entries \o Tail(@)]
    BY <1>3 DEF PackList, Children
  <2>3. d \in Seq(Segment) /\ Tail(todo) \in Seq(Entry)
    <3>1. Head(todo) \in Entry /\ Tail(todo) \in Seq(Entry)
      BY <2>1
    <3> QED
      BY <3>1 DEF Entry
  <2> HIDE DEF d
  <2>4. Children(d) \subseteq Entry /\ IsFiniteSet(Children(d))
    BY <1>1, <2>3, ChildrenTyped
  <2>5. entries \in Seq(Children(d)) /\ \A x \in Children(d) : \E k \in 1 .. Len(entries) : entries[k] = x
    BY <2>4, Permuted
  <2>6. entries \in Seq(Entry)
    BY <2>4, <2>5
  <2>7. /\ job' \in Packing /\ job'.todo = entries \o Tail(todo) /\ job'.data = job.data
        /\ job'.steady = job.steady
    <3>1. entries \o Tail(todo) \in Seq(Entry)
      BY <2>3, <2>6
    <3> QED
      BY <2>1, <2>2, <3>1 DEF Packing
  <2>8. ASSUME NEW p \in Files, Ahead(todo, p) PROVE Ahead(entries \o Tail(todo), p)
    <3>1. CASE Under(p, d)
      <4>1. PICK x \in Children(d) : IF x.isDir THEN Under(p, x.path) ELSE p = x.path
        <5>1. p \in FilesBelow(d)
          BY <3>1 DEF FilesBelow
        <5> QED
          BY <1>1, <2>3, <5>1, ChildrenCover
      <4>2. PICK k \in 1 .. Len(entries) : entries[k] = x
        BY <2>5
      <4>3. Ahead(entries, p)
        BY <4>1, <4>2 DEF Ahead
      <4> QED
        BY <2>3, <2>6, <4>3, AheadOfBoth
    <3>2. CASE Ahead(Tail(todo), p)
      BY <2>3, <2>6, <3>2, AheadOfBoth
    <3>3. Under(p, d) \/ Ahead(Tail(todo), p)
      BY <2>1, <2>8, HeadOrTail DEF d
    <3> QED
      BY <3>1, <3>2, <3>3
  <2>9. PackRelies'
    BY <1>1, <2>1, <2>7, <2>8 DEF PackRelies
  <2>10. job' \notin Unpacking
    BY <2>7, Jobs
  <2> QED
    BY <1>1, <2>7, <2>9, <2>10 DEF UnpackRelies
<1> QED
  BY <1>2, <1>3

LEMMA PackReadStep == CubeInv /\ PackRead => CubeInv'
<1> SUFFICES ASSUME CubeInv, PackRead
             PROVE  CubeInv'
  OBVIOUS
<1> USE DEF CubeInv
<1>1. NodeInv' /\ UNCHANGED <<Files, Tree, files>> /\ NodeTypeOK
  BY NodeUnchanged DEF PackRead, NodeInv, nodeVars
<1>2. CASE job' = NoJob
  BY <1>1, <1>2, JobEnds
<1>3. CASE job' # NoJob
  <2> DEFINE r == Head(job.todo).path
             todo == job.todo
  <2>1. /\ job \in Packing /\ todo \in Seq(Entry) /\ todo # <<>> /\ ~Head(todo).isDir
        /\ job.data \in [FilePath -> Seq(Chunk) \cup {NoFile}] /\ job.steady \subseteq FilePath
    BY Jobs, PackingTyped DEF PackRead, AtEntry, Packs
  <2>2. r \in Files /\ job' = [job EXCEPT !.todo = Tail(@), !.data[r] = files[r].content]
    BY <1>3 DEF PackRead, IsFile
  <2>3. r \in FilePath /\ files[r].content \in Seq(Chunk)
    BY <1>1, <2>2, FileTyped
  <2> DEFINE read == [job.data EXCEPT ![r] = files[r].content]
  <2>4. read \in [FilePath -> Seq(Chunk) \cup {NoFile}] /\ Tail(todo) \in Seq(Entry)
    BY <2>1, <2>3
  <2>5. read[r] = files[r].content /\ \A p \in FilePath : p # r => read[p] = job.data[p]
    BY <2>1, <2>3
  <2>6. job' = [job EXCEPT !.todo = Tail(todo), !.data = read]
    BY <2>1, <2>2 DEF Packing
  <2>7. \A p \in Files : Ahead(todo, p) => p = r \/ Ahead(Tail(todo), p)
    BY <2>1, HeadOrTail
  <2> HIDE DEF r, todo, read
  <2>8. job' \in Packing /\ job'.todo = Tail(todo) /\ job'.data = read /\ job'.steady = job.steady
    BY <2>1, <2>4, <2>6 DEF Packing, Contents
  <2>9. PackRelies'
    <3>1. ASSUME NEW p \in job.steady
          PROVE  IF p \in Files THEN read[p] = files[p].content \/ Ahead(Tail(todo), p)
                 ELSE read[p] = NoFile
      <4>1. IF p \in Files THEN job.data[p] = files[p].content \/ Ahead(todo, p)
            ELSE job.data[p] = NoFile
        BY <2>1 DEF PackRelies, todo
      <4>2. p \in FilePath
        BY <2>1
      <4> QED
        BY <2>2, <2>5, <2>7, <4>1, <4>2
    <3> QED
      BY <1>1, <2>8, <3>1 DEF PackRelies
  <2>10. job' \notin Unpacking
    BY <2>8, Jobs
  <2> QED
    BY <1>1, <2>8, <2>9, <2>10 DEF UnpackRelies
<1> QED
  BY <1>2, <1>3

LEMMA PackWriteStep == CubeInv /\ PackWrite => CubeInv'
<1> SUFFICES ASSUME CubeInv, PackWrite
             PROVE  CubeInv'
  OBVIOUS
<1> USE DEF CubeInv
<1>1. job \in Packing /\ job.data \in [FilePath -> Seq(Chunk) \cup {NoFile}]
  BY Jobs, PackingTyped DEF PackWrite, Packs
<1> DEFINE entries == {Record(p, job.data[p]) : p \in {q \in FilePath : job.data[q] # NoFile}}
<1>2. saved' = [format |-> "cube", entries |-> entries, tree |-> job.data]
  BY DEF PackWrite
<1>3. entries \subseteq dataFile
  BY <1>1, RecordTyped
<1>4. saved' \in Archive /\ saved'.entries = entries /\ saved'.tree = job.data
  BY <1>1, <1>2, <1>3 DEF Archive, Contents
<1>5. NodeInv'
  BY <1>4 DEF PackWrite, NodeInv, NodeTypeOK, Named, Files, SavedMatches
<1> QED
  BY <1>5, JobEnds DEF PackWrite

LEMMA UnpackStep == CubeInv /\ Unpack => CubeInv'
<1> SUFFICES ASSUME CubeInv, Unpack
             PROVE  CubeInv'
  OBVIOUS
<1> USE DEF CubeInv
<1>1. NodeInv' /\ SavedMatches /\ saved \in Archive
  BY NodeUnchanged DEF Unpack, NodeInv, NodeTypeOK
<1>2. saved.tree \in [FilePath -> Seq(Chunk) \cup {NoFile}]
  BY <1>1 DEF Archive, Contents
<1> DEFINE todo == {e.name : e \in saved.entries}
<1>3. todo = {p \in FilePath : saved.tree[p] # NoFile}
  <2>1. saved.entries = {Record(p, saved.tree[p]) : p \in {q \in FilePath : saved.tree[q] # NoFile}}
    BY <1>1 DEF Unpack, SavedMatches
  <2>2. \A p \in FilePath : saved.tree[p] # NoFile => Record(p, saved.tree[p]).name = p
    BY <1>2, RecordTyped
  <2> QED
    BY <2>1, <2>2
<1>4. job' = [op |-> "unpack", todo |-> todo, data |-> saved.tree, steady |-> FilePath]
  BY DEF Unpack
<1> HIDE DEF todo
<1>5. /\ job' \in Unpacking /\ job'.todo = todo /\ job'.data = saved.tree
      /\ job'.steady = FilePath
  BY <1>2, <1>3, <1>4 DEF Unpacking, Contents
<1>6. UnpackRelies'
  BY <1>3, <1>5 DEF UnpackRelies
<1>7. job' \notin Packing
  BY <1>5, Jobs
<1> QED
  BY <1>1, <1>5, <1>6, <1>7 DEF PackRelies

LEMMA UnpackFileStep == CubeInv /\ UnpackFile => CubeInv'
<1> SUFFICES ASSUME CubeInv, UnpackFile
             PROVE  CubeInv'
  OBVIOUS
<1> USE DEF CubeInv
<1>1. /\ job \in Unpacking /\ job.todo \subseteq FilePath
      /\ job.data \in [FilePath -> Seq(Chunk) \cup {NoFile}]
      /\ job.steady \subseteq FilePath
  BY Jobs, UnpackingTyped DEF UnpackFile, Unpacks
<1>2. PICK r \in job.todo : /\ files' = [files EXCEPT ![r] = Record(r, job.data[r])]
                            /\ job' = [job EXCEPT !.todo = @ \ {r}]
  BY DEF UnpackFile
<1>3. r \in FilePath /\ job.data[r] \in Seq(Chunk)
  BY <1>1 DEF UnpackRelies
<1>4. NodeTypeOK /\ files \in [FilePath -> dataFile \cup {NoFile}]
  BY DEF NodeInv, NodeTypeOK
<1>5. NodeInv'
  <2>1. files' \in [FilePath -> dataFile \cup {NoFile}] /\ Named'
    BY <1>2, <1>3, <1>4, StoreKeeps, FilesTyped
  <2> QED
    BY <2>1 DEF UnpackFile, NodeInv, NodeTypeOK, SavedMatches
<1>6. /\ job' \in Unpacking /\ job'.todo = job.todo \ {r} /\ job'.data = job.data
      /\ job'.steady = job.steady
  BY <1>1, <1>2 DEF Unpacking
<1>7. Tree'[r] = job.data[r] /\ \A p \in FilePath : p # r => Tree'[p] = Tree[p]
  <2>1. files'[r] = Record(r, job.data[r]) /\ \A p \in FilePath : p # r => files'[p] = files[p]
    BY <1>2, <1>3, <1>4
  <2> QED
    BY <1>3, <2>1, RecordTyped DEF Tree, Files
<1>8. UnpackRelies'
  BY <1>1, <1>6, <1>7 DEF UnpackRelies
<1>9. job' \notin Packing
  BY <1>6, Jobs
<1> QED
  BY <1>5, <1>6, <1>8, <1>9 DEF PackRelies

LEMMA CubeStep == CubeInv /\ [CubeNext]_cubeVars => CubeInv'
<1> SUFFICES ASSUME CubeInv, [CubeNext]_cubeVars
             PROVE  CubeInv'
  OBVIOUS
<1>1. CASE UnpackEnd \/ Fails
  BY <1>1, NodeUnchanged, JobEnds DEF UnpackEnd, Fails, CubeInv
<1>2. CASE UNCHANGED cubeVars
  <2>1. UNCHANGED <<nodeVars, job>>
    BY <1>2 DEF cubeVars, nodeVars
  <2>2. NodeInv' /\ UNCHANGED <<Files, Tree, files>>
    BY <2>1, NodeUnchanged DEF CubeInv, nodeVars
  <2> QED
    BY <2>1, <2>2 DEF CubeInv, PackRelies, UnpackRelies
<1> QED
  BY <1>1, <1>2, OtherCallStep, PackStep, PackListStep, PackReadStep, PackWriteStep, UnpackStep,
     UnpackFileStep
     DEF CubeNext

LEMMA CubeAlways == CubeSpec => []CubeInv
<1>1. CubeInit => CubeInv
  BY NodeInitially, CubeAssumption DEF CubeInit, CubeInv, PackRelies, UnpackRelies
<1> QED
  BY <1>1, CubeStep, PTL DEF CubeSpec

(* Every variable of the tree and of the job keeps its kind.               *)
THEOREM CubeTypeCorrect == CubeSpec => []CubeTypeOK
<1>1. CubeInv => CubeTypeOK
  BY DEF CubeInv, NodeInv, CubeTypeOK
<1> QED
  BY <1>1, CubeAlways, PTL

(* A directory's Rename keeps every file with its content, for any tree,   *)
(* also when the directory moves into itself.  (node.Node.Rename)          *)
THEOREM RenamesMoveTrees == CubeSpec => RenameMovesTree
<1>1. ASSUME CubeInv, NEW pair \in CanRename, RenameDirectory(pair[1], pair[2]),
             NEW p \in FilesBelow(pair[1])
      PROVE  Tree'[Rebase(p, pair[1], pair[2])] = Tree[p]
  <2>1. NodeTypeOK /\ p \in Files
    BY <1>1 DEF CubeInv, NodeInv, FilesBelow
  <2> DEFINE to == Rebase(p, pair[1], pair[2])
  <2>2. to \in FilePath /\ files'[to] = Record(to, files[p].content)
    BY <1>1, <2>1, RenamedTo
  <2>3. p \in FilePath /\ files[p].content \in Seq(Chunk)
    BY <2>1, FileTyped
  <2> HIDE DEF to
  <2>4. Tree'[to] = files[p].content
    BY <2>2, <2>3, RecordTyped DEF Tree, Files
  <2> QED
    BY <2>1, <2>3, <2>4 DEF Tree, to
<1>2. CubeInv => [\A pair \in CanRename :
                   RenameDirectory(pair[1], pair[2]) =>
                     \A p \in FilesBelow(pair[1]) : Tree'[Rebase(p, pair[1], pair[2])] = Tree[p]]_files
  BY <1>1
<1> QED
  BY <1>2, CubeAlways, PTL DEF RenameMovesTree

(* LoadTar gives back the tree that ToTar was given, under the same paths  *)
(* with the same contents, whatever happened to the tree since.            *)
THEOREM LoadsRestoreTrees == CubeSpec => LoadRestoresTree
<1>1. ASSUME CubeInv, LoadTar
      PROVE  Tree' = saved.tree
  <2>1. NodeTypeOK /\ SavedMatches /\ saved \in Archive
    BY <1>1 DEF CubeInv, NodeInv, NodeTypeOK, LoadTar
  <2>2. saved.tree \in [FilePath -> Seq(Chunk) \cup {NoFile}]
    BY <2>1 DEF Archive, Contents
  <2>3. ASSUME NEW p \in FilePath PROVE Tree'[p] = saved.tree[p]
    <3>1. files'[p] = IF saved.tree[p] = NoFile THEN NoFile ELSE Record(p, saved.tree[p])
      BY <1>1, <2>1, LoadKeeps
    <3> QED
      BY <2>2, <3>1, RecordTyped DEF Tree, Files
  <2>4. Tree' = [p \in FilePath |-> Tree'[p]]
    BY DEF Tree
  <2> QED
    BY <2>2, <2>3, <2>4
<1>2. CubeInv => [LoadTar => Tree' = saved.tree]_nodeVars
  BY <1>1
<1> QED
  BY <1>2, CubeAlways, PTL DEF LoadRestoresTree

(* A Pack that succeeds has archived every file nobody changed while it    *)
(* ran, however the tree looks, whoever changes the rest of it and in      *)
(* whatever order the entries of its directories come.                     *)
THEOREM PacksKeepSteadyFiles == CubeSpec => PackKeepsSteadyFiles
<1>1. ASSUME CubeInv, PackWrite, NEW p \in job.steady
      PROVE  saved'.tree[p] = Tree[p]
  <2>1. job \in Packing /\ PackRelies /\ NodeTypeOK
    BY <1>1, Jobs DEF PackWrite, Packs, CubeInv, NodeInv
  <2>2. p \in FilePath /\ saved'.tree[p] = job.data[p]
    BY <1>1, <2>1, PackingTyped DEF PackWrite
  <2>3. ~Ahead(job.todo, p)
    <3>1. job.todo = <<>>
      BY <1>1 DEF PackWrite
    <3> QED
      BY <3>1 DEF Ahead
  <2> QED
    BY <2>1, <2>2, <2>3 DEF PackRelies, Tree
<1>2. CubeInv => [PackWrite /\ (\A p, q \in FilePath : ~Under(p, q)) =>
                    \A p \in job.steady : saved'.tree[p] = Tree[p]]_cubeVars
  BY <1>1
<1> QED
  BY <1>2, CubeAlways, PTL DEF PackKeepsSteadyFiles

(* An Unpack that succeeds leaves every archived file in the tree with its *)
(* content, but for those somebody changed meanwhile.                      *)
THEOREM UnpacksRestore == CubeSpec => UnpackRestores
<1>1. ASSUME CubeInv, UnpackEnd, NEW p \in job.steady, job.data[p] # NoFile
      PROVE  Tree[p] = job.data[p]
  BY <1>1, Jobs DEF UnpackEnd, Unpacks, CubeInv, UnpackRelies
<1>2. CubeInv => [UnpackEnd => \A p \in job.steady : job.data[p] # NoFile => Tree[p] = job.data[p]]_cubeVars
  BY <1>1
<1> QED
  BY <1>2, CubeAlways, PTL DEF UnpackRestores

-----------------------------------------------------------------------------
(* node.Node.Walk                                                          *)
-----------------------------------------------------------------------------

(* What the files below a directory look like k levels below it.           *)
Above(p, root, k) == SubSeq(p, 1, Len(root) + k)
Cut(p, root, k) == [path |-> Above(p, root, k), isDir |-> Len(p) > Len(root) + k]
Shown(root, k) == {Cut(p, root, k) : p \in {q \in FilesBelow(root) : Len(q) >= Len(root) + k}}

(* What Walk finds on its way from one level to the next.                  *)
Entered(V, root, maxDepth) ==
  UNION {{[path |-> Append(v.path, e.name), isDir |-> e.isDir] : e \in ReadDir(v.path)} :
           v \in {u \in V : u.isDir /\ ~maxDepthReached(root, u.path, maxDepth)}}

(* The entries of a directory are the files below it, one level down.      *)
LEMMA ReadsNextLevel ==
  ASSUME NodeTypeOK, NEW d \in Seq(Segment)
  PROVE  {[path |-> Append(d, e.name), isDir |-> e.isDir] : e \in ReadDir(d)} = Shown(d, 1)
<1>1. ASSUME NEW p \in FilesBelow(d)
      PROVE  /\ Len(p) >= Len(d) + 1
             /\ Cut(p, d, 1) = [path |-> Append(d, p[Len(d) + 1]), isDir |-> Len(p) > Len(d) + 1]
  <2>1. p \in Seq(Segment) /\ Under(p, d)
    BY FileTyped DEF FilesBelow
  <2>2. /\ Len(d) + 1 \in 1 .. Len(p) /\ Append(d, p[Len(d) + 1]) \in Seq(Segment)
        /\ Len(p) \in Nat /\ Len(d) \in Nat /\ Len(Append(d, p[Len(d) + 1])) = Len(d) + 1
        /\ \A k \in 1 .. Len(d) : d[k] = p[k]
    BY <2>1, ChildOf, UnderElements, LenProperties
  <2>3. /\ SubSeq(p, 1, Len(d) + 1) \in Seq(Segment) /\ Len(SubSeq(p, 1, Len(d) + 1)) = Len(d) + 1
        /\ \A k \in 1 .. Len(d) + 1 : SubSeq(p, 1, Len(d) + 1)[k] = p[k]
    <3>1. Len(d) + 1 \in 0 .. Len(p)
      BY <2>2
    <3> QED
      BY <2>1, <3>1, Beginning
  <2>4. \A k \in 1 .. Len(d) + 1 : Append(d, p[Len(d) + 1])[k] = p[k]
    BY <2>1, <2>2, ChildOf
  <2>5. SubSeq(p, 1, Len(d) + 1) = Append(d, p[Len(d) + 1])
    BY <2>2, <2>3, <2>4, SeqEqual
  <2>6. Cut(p, d, 1) = [path |-> Append(d, p[Len(d) + 1]), isDir |-> Len(p) > Len(d) + 1]
    BY <2>5 DEF Cut, Above
  <2>7. Len(p) >= Len(d) + 1
    BY <2>2
  <2> QED
    BY <2>6, <2>7
<1> DEFINE below == {[path |-> Append(d, p[Len(d) + 1]), isDir |-> Len(p) > Len(d) + 1] :
                       p \in FilesBelow(d)}
<1>2. {[path |-> Append(d, e.name), isDir |-> e.isDir] : e \in ReadDir(d)} = below
  <2> DEFINE entry(p) == [name |-> p[Len(d) + 1], isDir |-> Len(p) > Len(d) + 1]
  <2>1. \A p : entry(p).name = p[Len(d) + 1] /\ entry(p).isDir = (Len(p) > Len(d) + 1)
    OBVIOUS
  <2>2. ReadDir(d) = {entry(p) : p \in FilesBelow(d)}
    BY DEF ReadDir
  <2> DEFINE shown(e) == [path |-> Append(d, e.name), isDir |-> e.isDir]
             child(p) == [path |-> Append(d, p[Len(d) + 1]), isDir |-> Len(p) > Len(d) + 1]
  <2>3. \A p : shown(entry(p)) = child(p)
    BY <2>1
  <2> HIDE DEF entry, shown, child
  <2>4. {shown(e) : e \in ReadDir(d)} = {child(p) : p \in FilesBelow(d)}
    BY <2>2, <2>3
  <2> QED
    BY <2>4 DEF shown, child
<1>3. Shown(d, 1) = {Cut(p, d, 1) : p \in FilesBelow(d)}
  BY <1>1 DEF Shown
<1> QED
  BY <1>1, <1>2, <1>3

(* A file below a directory, its beginning k levels down, and the files    *)
(* below that.                                                             *)
LEMMA CutBelow ==
  ASSUME NodeTypeOK, NEW root \in Seq(Segment), NEW k \in Nat,
         NEW p \in FilesBelow(root), Len(p) > Len(root) + k
  PROVE  /\ Above(p, root, k) \in Seq(Segment) /\ Len(Above(p, root, k)) = Len(root) + k
         /\ p \in FilesBelow(Above(p, root, k))
         /\ \A q \in FilesBelow(Above(p, root, k)) :
              q \in FilesBelow(root) /\ Above(q, root, k) = Above(p, root, k)
<1> DEFINE d == Above(p, root, k)
<1>1. p \in Files /\ p \in Seq(Segment) /\ Under(p, root)
  BY FileTyped DEF FilesBelow
<1>2. /\ Len(p) \in Nat /\ Len(root) \in Nat /\ Len(root) < Len(p)
      /\ \A j \in 1 .. Len(root) : root[j] = p[j]
  BY <1>1, UnderElements, LenProperties
<1>3. /\ d \in Seq(Segment) /\ Len(d) = Len(root) + k
      /\ \A j \in 1 .. Len(root) + k : d[j] = p[j]
  <2>1. Len(root) + k \in 0 .. Len(p)
    BY <1>2
  <2> QED
    BY <1>1, <2>1, Beginning DEF Above
<1> HIDE DEF d
<1>4. p \in FilesBelow(d)
  <2>1. Under(p, d)
    BY <1>1, <1>2, <1>3, UnderElements
  <2> QED
    BY <1>1, <2>1 DEF FilesBelow
<1>5. ASSUME NEW q \in FilesBelow(d)
      PROVE  q \in FilesBelow(root) /\ Above(q, root, k) = d
  <2>1. q \in Files /\ q \in Seq(Segment) /\ Under(q, d)
    BY FileTyped DEF FilesBelow
  <2>2. Len(q) \in Nat /\ Len(d) < Len(q) /\ \A j \in 1 .. Len(d) : d[j] = q[j]
    BY <1>3, <2>1, UnderElements, LenProperties
  <2>3. Under(q, root)
    <3>1. Len(root) < Len(q) /\ \A j \in 1 .. Len(root) : root[j] = q[j]
      BY <1>2, <1>3, <2>2
    <3> QED
      BY <2>1, <3>1, UnderElements
  <2>4. /\ Above(q, root, k) \in Seq(Segment) /\ Len(Above(q, root, k)) = Len(root) + k
        /\ \A j \in 1 .. Len(root) + k : Above(q, root, k)[j] = q[j]
    <3>1. Len(root) + k \in 0 .. Len(q)
      BY <1>2, <1>3, <2>2
    <3> QED
      BY <2>1, <3>1, Beginning DEF Above
  <2>5. Above(q, root, k) = d
    BY <1>3, <2>2, <2>4, SeqEqual
  <2> QED
    BY <2>1, <2>3, <2>5 DEF FilesBelow
<1> QED
  BY <1>3, <1>4, <1>5 DEF d

(* From one level below the root to the next, and none beyond maxDepth.    *)
LEMMA EntersNextLevel ==
  ASSUME NodeTypeOK, NEW root \in Seq(Segment), NEW maxDepth \in Nat \ {0}, NEW k \in 1 .. maxDepth
  PROVE  Entered(Shown(root, k), root, maxDepth) = IF k < maxDepth THEN Shown(root, k + 1) ELSE {}
<1> DEFINE V == Shown(root, k)
           on == {u \in V : u.isDir /\ ~maxDepthReached(root, u.path, maxDepth)}
           next(d) == {[path |-> Append(d, e.name), isDir |-> e.isDir] : e \in ReadDir(d)}
<1>0. Len(root) \in Nat
  BY LenProperties
<1>1. ASSUME NEW u \in V, u.isDir
      PROVE  \E p \in FilesBelow(root) :
               /\ Len(p) > Len(root) + k /\ u.path = Above(p, root, k)
               /\ u.path \in Seq(Segment) /\ Len(u.path) = Len(root) + k
  <2>1. PICK p \in FilesBelow(root) : Len(p) >= Len(root) + k /\ u = Cut(p, root, k)
    BY DEF Shown
  <2>2. Len(p) > Len(root) + k /\ u.path = Above(p, root, k)
    BY <1>1, <2>1 DEF Cut
  <2> QED
    BY <2>1, <2>2, CutBelow
<1>2. ASSUME NEW u \in V, u.isDir
      PROVE  maxDepthReached(root, u.path, maxDepth) <=> k >= maxDepth
  <2>1. Len(u.path) = Len(root) + k /\ u.path # root
    BY <1>0, <1>1, <1>2
  <2> QED
    BY <1>0, <2>1 DEF maxDepthReached
<1>3. CASE k = maxDepth
  <2>1. on = {}
    BY <1>2, <1>3
  <2> QED
    BY <1>3, <2>1 DEF Entered
<1>4. CASE k < maxDepth
  <2>1. on = {u \in V : u.isDir}
    BY <1>2, <1>4
  <2>2. ASSUME NEW u \in V, u.isDir, NEW x \in next(u.path) PROVE x \in Shown(root, k + 1)
    <3>1. PICK p \in FilesBelow(root) :
            /\ Len(p) > Len(root) + k /\ u.path = Above(p, root, k)
            /\ u.path \in Seq(Segment) /\ Len(u.path) = Len(root) + k
      BY <1>1, <2>2
    <3>2. x \in Shown(u.path, 1)
      BY <2>2, <3>1, ReadsNextLevel
    <3>3. PICK q \in FilesBelow(u.path) : Len(q) >= Len(u.path) + 1 /\ x = Cut(q, u.path, 1)
      BY <3>2 DEF Shown
    <3>4. q \in FilesBelow(root)
      BY <3>1, CutBelow
    <3>5. Len(u.path) + 1 = Len(root) + (k + 1)
      BY <1>0, <3>1
    <3> QED
      BY <3>3, <3>4, <3>5 DEF Shown, Cut, Above
  <2>3. ASSUME NEW x \in Shown(root, k + 1) PROVE \E u \in V : u.isDir /\ x \in next(u.path)
    <3>1. PICK p \in FilesBelow(root) : Len(p) >= Len(root) + (k + 1) /\ x = Cut(p, root, k + 1)
      BY <2>3 DEF Shown
    <3>2. Len(p) \in Nat /\ Len(p) > Len(root) + k /\ Len(p) >= Len(root) + k
      <4>1. p \in Seq(Segment)
        BY FileTyped DEF FilesBelow
      <4> QED
        BY <1>0, <3>1, <4>1, LenProperties
    <3> DEFINE u == Cut(p, root, k)
    <3>3. u \in V /\ u.isDir /\ u.path = Above(p, root, k)
      BY <3>2 DEF Shown, Cut
    <3>4. u.path \in Seq(Segment) /\ Len(u.path) = Len(root) + k /\ p \in FilesBelow(u.path)
      BY <3>2, <3>3, CutBelow
    <3> HIDE DEF u
    <3>5. Len(u.path) + 1 = Len(root) + (k + 1)
      BY <1>0, <3>4
    <3>6. x \in Shown(u.path, 1)
      BY <3>1, <3>4, <3>5 DEF Shown, Cut, Above
    <3> QED
      BY <3>3, <3>4, <3>6, ReadsNextLevel
  <2>4. Entered(V, root, maxDepth) = UNION {next(u.path) : u \in on}
    BY DEF Entered
  <2> HIDE DEF next, V, on
  <2>5. Entered(V, root, maxDepth) = Shown(root, k + 1)
    BY <2>1, <2>2, <2>3, <2>4
  <2> QED
    BY <1>4, <2>5 DEF V
<1> QED
  BY <1>3, <1>4

(* Walk shows the files at most maxDepth levels below the root, for every  *)
(* depth from 1.                                                           *)
LEMMA WalkShows ==
  ASSUME NodeTypeOK, NEW root \in Seq(Segment), NEW maxDepth \in Nat \ {0}
  PROVE  Walk(root, maxDepth) = {p \in FilesBelow(root) : Len(p) - Len(root) <= maxDepth}
<1> DEFINE top == {[path |-> root, isDir |-> TRUE]}
           D == 0 .. maxDepth + 1
           level[k \in D] ==
             IF k = 0 THEN {[path |-> root, isDir |-> TRUE]}
             ELSE UNION {{[path |-> Append(v.path, e.name), isDir |-> e.isDir] : e \in ReadDir(v.path)} :
                           v \in {u \in level[k - 1] : u.isDir /\ ~maxDepthReached(root, u.path, maxDepth)}}
           found == [k \in D |-> IF k = 0 THEN top ELSE IF k <= maxDepth THEN Shown(root, k) ELSE {}]
           reads(f) == [k \in D |-> IF k = 0 THEN top ELSE Entered(f[k - 1], root, maxDepth)]
<1>1. Walk(root, maxDepth) = {v.path : v \in {u \in UNION {level[k] : k \in D} : ~u.isDir}}
  BY DEF Walk
<1>2. level = CHOOSE f : f = reads(f)
  BY DEF Entered
<1>3. Entered(top, root, maxDepth) = Shown(root, 1)
  <2> DEFINE next(v) == {[path |-> Append(v.path, e.name), isDir |-> e.isDir] : e \in ReadDir(v.path)}
             on == {u \in top : u.isDir /\ ~maxDepthReached(root, u.path, maxDepth)}
             v0 == [path |-> root, isDir |-> TRUE]
  <2>1. Entered(top, root, maxDepth) = UNION {next(v) : v \in on}
    BY DEF Entered
  <2>2. on = {v0}
    BY DEF maxDepthReached
  <2>3. next(v0) = Shown(root, 1)
    BY ReadsNextLevel
  <2> HIDE DEF next, on, v0
  <2> QED
    BY <2>1, <2>2, <2>3
<1>4. found = reads(found)
  <2>1. ASSUME NEW k \in D, k # 0
        PROVE  found[k] = Entered(found[k - 1], root, maxDepth)
    <3>1. k - 1 \in D /\ k \in Nat
      BY <2>1
    <3>2. CASE k = 1
      BY <1>3, <3>2
    <3>3. CASE k # 1
      <4>1. k - 1 \in 1 .. maxDepth /\ (k - 1) + 1 = k
        BY <2>1, <3>3
      <4>2. Entered(Shown(root, k - 1), root, maxDepth) = IF k - 1 < maxDepth THEN Shown(root, k) ELSE {}
        BY <4>1, EntersNextLevel
      <4> HIDE DEF top
      <4>3. found[k - 1] = Shown(root, k - 1) /\ found[k] = IF k <= maxDepth THEN Shown(root, k) ELSE {}
        BY <2>1, <3>1, <4>1
      <4> QED
        BY <4>1, <4>2, <4>3
    <3> QED
      BY <3>2, <3>3
  <2> HIDE DEF top
  <2> QED
    BY <2>1
<1> HIDE DEF found, reads, level
<1>5. level = reads(level)
  BY <1>2, <1>4
<1>6. \A k \in D : level[k] = found[k]
  <2> DEFINE wrong == {k \in D : level[k] # found[k]}
  <2> SUFFICES ASSUME wrong # {}
               PROVE  FALSE
    OBVIOUS
  <2>0. wrong \in SUBSET Nat /\ \A k \in Nat : k \in wrong <=> k \in D /\ level[k] # found[k]
    OBVIOUS
  <2> HIDE DEF wrong
  <2>1. PICK m \in wrong : \A k \in wrong : m <= k
    BY <2>0, LeastOf
  <2>2. level[m] = (IF m = 0 THEN top ELSE Entered(level[m - 1], root, maxDepth))
        /\ found[m] = (IF m = 0 THEN top ELSE Entered(found[m - 1], root, maxDepth))
    BY <1>4, <1>5, <2>0 DEF reads
  <2>3. m \in D /\ (m # 0 => m - 1 \in D /\ m - 1 \notin wrong)
    BY <2>0, <2>1
  <2> QED
    BY <2>0, <2>1, <2>2, <2>3
<1>7. {u \in UNION {level[k] : k \in D} : ~u.isDir}
        = {u \in UNION {Shown(root, k) : k \in 1 .. maxDepth} : ~u.isDir}
  <2>1. \A u \in level[0] : u.isDir
    BY <1>6 DEF found
  <2>2. \A k \in 1 .. maxDepth : level[k] = Shown(root, k) /\ k \in D
    BY <1>6 DEF found
  <2>3. \A k \in D : k = 0 \/ k \in 1 .. maxDepth \/ level[k] = {}
    BY <1>6 DEF found
  <2> QED
    BY <2>1, <2>2, <2>3
<1>8. ASSUME NEW p \in FilesBelow(root)
      PROVE  /\ Len(p) \in Nat /\ Len(root) \in Nat /\ Len(p) > Len(root)
             /\ \A k \in Nat : Len(p) = Len(root) + k => Above(p, root, k) = p
  <2>1. p \in Seq(Segment) /\ Under(p, root)
    BY FileTyped DEF FilesBelow
  <2> QED
    BY <2>1, UnderElements, LenProperties, SubSeqFull DEF Above
<1>9. ASSUME NEW k \in 1 .. maxDepth, NEW u \in Shown(root, k), ~u.isDir
      PROVE  u.path \in FilesBelow(root) /\ Len(u.path) - Len(root) <= maxDepth
  <2>1. PICK p \in FilesBelow(root) : Len(p) >= Len(root) + k /\ u = Cut(p, root, k)
    BY <1>9 DEF Shown
  <2>2. u.path = Above(p, root, k) /\ ~(Len(p) > Len(root) + k)
    BY <1>9, <2>1 DEF Cut
  <2> QED
    BY <1>8, <2>1, <2>2
<1>10. ASSUME NEW p \in FilesBelow(root), Len(p) - Len(root) <= maxDepth
       PROVE  \E k \in 1 .. maxDepth : \E u \in Shown(root, k) : ~u.isDir /\ u.path = p
  <2> DEFINE k == Len(p) - Len(root)
             u == Cut(p, root, k)
  <2>1. k \in 1 .. maxDepth /\ k \in Nat /\ Len(p) = Len(root) + k
    BY <1>8, <1>10
  <2>2. Above(p, root, k) = p
    BY <1>8, <2>1
  <2> HIDE DEF k
  <2>3. u \in Shown(root, k) /\ ~u.isDir /\ u.path = p
    <3>1. Len(p) \in Nat /\ Len(p) >= Len(root) + k /\ ~(Len(p) > Len(root) + k)
      BY <1>8, <2>1
    <3> QED
      BY <2>2, <3>1 DEF Cut, Shown
  <2> QED
    BY <2>1, <2>3
<1> HIDE DEF D
<1> QED
  BY <1>1, <1>7, <1>9, <1>10

(* WalkFindsFiles for every depth.                                         *)
WalksFindAll ==
  (~\E p, q \in Files : Under(p, q)) =>
    \A root \in DirPath : \A depth \in Nat \ {0} :
      IsDir(root) => Walk(root, depth) = {p \in FilesBelow(root) : Len(p) - Len(root) <= depth}

LEMMA WalksAlways == CubeInv => WalksFindAll
<1> SUFFICES ASSUME CubeInv, NEW root \in DirPath, NEW depth \in Nat \ {0}
             PROVE  Walk(root, depth) = {p \in FilesBelow(root) : Len(p) - Len(root) <= depth}
  BY DEF WalksFindAll
<1>1. ASSUME NEW p \in FilePath PROVE \A d \in Ancestors(p) : d \in Seq(Segment)
  <2>1. p \in Seq(Segment) /\ Len(p) \in Nat
    BY NodeAssumption, LenProperties
  <2>2. ASSUME NEW n \in 1 .. Len(p) - 1 PROVE SubSeq(p, 1, n) \in Seq(Segment)
    <3>1. n \in 0 .. Len(p)
      BY <2>1
    <3> QED
      BY <2>1, <3>1, Beginning
  <2> QED
    BY <2>2 DEF Ancestors
<1>2. <<>> \in Seq(Segment)
  BY EmptySeq
<1>3. root \in Seq(Segment)
  BY <1>1, <1>2 DEF DirPath
<1> QED
  BY <1>3, WalkShows DEF CubeInv, NodeInv

(* Walk finds every file at most so many levels below its root, and no     *)
(* other, in every tree the calls of a node and its packs and unpacks can  *)
(* make: at every depth.                                                   *)
THEOREM WalksGoAnyDepth == CubeSpec => []WalksFindAll
BY WalksAlways, CubeAlways, PTL

(* So it does at the depths the run checks.                                *)
THEOREM WalksFindFiles == CubeSpec => []WalkFindsFiles
<1>1. WalksFindAll => WalkFindsFiles
  <2>1. 1 .. 2 \subseteq Nat \ {0}
    OBVIOUS
  <2> HIDE DEF Walk
  <2> QED
    BY <2>1 DEF WalksFindAll, WalkFindsFiles
<1> QED
  BY <1>1, WalksAlways, CubeAlways, PTL

-----------------------------------------------------------------------------
(* The pre-obfuscators of the cipher: theorems about Obfuscators for every *)
(* length, block size and byte type.                                       *)

(* The loop variable stays an index while the permutation is made, and     *)
(* there is nothing to derive of empty data.                               *)
LoopBounds == pc = "permutation" => i \in Index

(* What the two calls have computed.                                       *)
Results ==
  /\ pc \in {"deobfuscate", "done"} =>
       obfuscated = IF kind = "xor" THEN Mask(data) ELSE Shuffled(Mask(data))
  /\ RoundTrip

(* The inductive invariant.                                                *)
ObfuscatorInv == TypeOK /\ LoopBounds /\ PermutationIsBijection /\ Results

-----------------------------------------------------------------------------
LEMMA InitInv == Init => ObfuscatorInv
<1> SUFFICES ASSUME Init
             PROVE  ObfuscatorInv
  OBVIOUS
<1> USE ObfuscatorAssumption
<1>1. length \in Nat
  BY DEF Init
<1>2. permutation \in [Index -> Index] /\ Zeros \in [Index -> Byte]
  BY DEF Init, Zeros
<1>3. blocks \in [0 .. blockNum - 1 -> Block]
  <2>1. 0 .. blockNum - 1 = {}
    BY DEF Init
  <2> QED
    BY <2>1 DEF Init
<1>4. TypeOK
  <2>1. /\ kind \in {"xor", "shuffle"} /\ length \in 0 .. MaxData /\ data \in [Index -> Byte]
        /\ pc \in {"permutation", "stream", "obfuscate", "deobfuscate", "done"}
    BY DEF Init
  <2>2. /\ stream \in [Index -> Byte] /\ obfuscated \in [Index -> Byte] /\ restored \in [Index -> Byte]
    BY <1>2 DEF Init
  <2>3. i \in Int /\ offset \in 0 .. length /\ blockNum \in Nat
    BY <1>1 DEF Init
  <2> QED
    BY <1>2, <1>3, <2>1, <2>2, <2>3 DEF TypeOK
<1>5. LoopBounds
  BY <1>1 DEF Init, LoopBounds, Index
<1>6. PermutationIsBijection /\ Results
  BY DEF Init, PermutationIsBijection, Results, RoundTrip
<1> QED
  BY <1>4, <1>5, <1>6 DEF ObfuscatorInv

(* Of a bijection, Unshuffled puts each element in its place.              *)
LEMMA UnshuffledElements ==
  ASSUME TypeOK, PermutationIsBijection, NEW d \in [Index -> Byte]
  PROVE  /\ Unshuffled(d) \in [Index -> Byte]
         /\ \A k \in Index : Unshuffled(d)[permutation[k]] = d[k]
<1> DEFINE Latest(s, k) == /\ permutation[k] = s
                           /\ \A e \in Index : permutation[e] = s => e <= k
<1>1. ASSUME NEW s \in Index, NEW k \in Index, permutation[k] = s
      PROVE  /\ Unshuffled(d)[s] = d[k]
  <2>1. \A e \in Index : permutation[e] = s => e = k
    BY <1>1 DEF PermutationIsBijection
  <2>2. k <= k
    BY DEF Index, TypeOK
  <2>3. (CHOOSE e \in Index : Latest(s, e)) = k
    BY <1>1, <2>1, <2>2
  <2> QED
    BY <1>1, <2>3 DEF Unshuffled
<1>2. \A s \in Index : \E k \in Index : permutation[k] = s
  BY DEF PermutationIsBijection
<1>3. \A s \in Index : Unshuffled(d)[s] \in Byte
  BY <1>1, <1>2
<1>4. Unshuffled(d) = [s \in Index |-> Unshuffled(d)[s]]
  BY DEF Unshuffled
<1> QED
  BY <1>1, <1>3, <1>4 DEF TypeOK

LEMMA TypeStep == TypeOK /\ LoopBounds /\ PermutationIsBijection /\ [Next]_vars => TypeOK'
<1> SUFFICES ASSUME TypeOK, LoopBounds, PermutationIsBijection, [Next]_vars
             PROVE  TypeOK'
  OBVIOUS
<1> USE ObfuscatorAssumption
<1>0. Index' = Index /\ length' = length
  BY DEF Next, vars, input, generatePermutation, PermutationGenerated, deriveKeyStream, StreamDerived,
         Obfuscate, Deobfuscate, Index
<1>a. ASSUME NEW d \in [Index -> Byte] PROVE Mask(d) \in [Index -> Byte]
  BY DEF Mask, TypeOK
<1>b. ASSUME NEW d \in [Index -> Byte]
      PROVE  Shuffled(d) \in [Index -> Byte] /\ Unshuffled(d) \in [Index -> Byte]
  <2>1. Shuffled(d) \in [Index -> Byte]
    BY DEF Shuffled, TypeOK
  <2>2. Unshuffled(d) \in [Index -> Byte]
    BY UnshuffledElements DEF Unshuffled
  <2> QED
    BY <2>1, <2>2
<1>1. CASE UNCHANGED vars
  BY <1>1 DEF vars, TypeOK, Index, Block
<1>2. CASE generatePermutation
  <2>1. PICK j \in 0 .. i : permutation' = Swap(permutation, i, j)
    BY <1>2 DEF generatePermutation
  <2>2. i \in Index /\ j \in Index
    BY <1>2, <2>1 DEF generatePermutation, LoopBounds, Index, TypeOK
  <2>3. permutation' \in [Index -> Index]
    BY <2>1, <2>2 DEF Swap, TypeOK
  <2>4. i' \in Int
    BY <1>2 DEF generatePermutation, TypeOK
  <2>5. UNCHANGED <<input, pc, stream, offset, blockNum, blocks, obfuscated, restored>>
    BY <1>2 DEF generatePermutation
  <2> QED
    BY <1>0, <2>3, <2>4, <2>5 DEF TypeOK, input
<1>3. CASE PermutationGenerated \/ StreamDerived
  BY <1>3, <1>0 DEF PermutationGenerated, StreamDerived, TypeOK, input, derived, Block
<1>4. CASE deriveKeyStream
  <2>1. PICK h \in Block : /\ stream' = CopyBlock(h)
                           /\ blocks' = [k \in 0 .. blockNum |-> IF k = blockNum THEN h ELSE blocks[k]]
    BY <1>4 DEF deriveKeyStream
  <2>2. offset' \in 0 .. length
    BY <1>4 DEF deriveKeyStream, Least, TypeOK
  <2>3. CopyBlock(h) \in [Index -> Byte]
    <3>1. ASSUME NEW k \in Index, k \in offset .. offset + Least(BlockSize, length - offset) - 1
          PROVE  h[k - offset] \in Byte
      <4>1. k - offset \in 0 .. BlockSize - 1
        BY <3>1 DEF Least, TypeOK, Index
      <4> QED
        BY <4>1 DEF Block
    <3> QED
      BY <3>1 DEF CopyBlock, TypeOK
  <2>4. blocks' \in [0 .. blockNum' - 1 -> Block]
    BY <1>4, <2>1 DEF deriveKeyStream, TypeOK
  <2>5. UNCHANGED <<input, pc, permutation, i, obfuscated, restored>> /\ blockNum' \in Nat
    BY <1>4 DEF deriveKeyStream, TypeOK
  <2>6. stream' \in [Index -> Byte]
    BY <2>1, <2>3
  <2> QED
    BY <1>0, <2>2, <2>4, <2>5, <2>6 DEF TypeOK, input
<1>5. CASE Obfuscate
  BY <1>5, <1>0, <1>a, <1>b DEF Obfuscate, TypeOK, input, derived, Block
<1>6. CASE Deobfuscate
  BY <1>6, <1>0, <1>a, <1>b DEF Deobfuscate, TypeOK, input, derived, Block
<1> QED
  BY <1>1, <1>2, <1>3, <1>4, <1>5, <1>6 DEF Next

(* A step leaves the permutation alone or swaps two of its elements.       *)
LEMMA PermutationStep ==
  TypeOK /\ LoopBounds /\ PermutationIsBijection /\ [Next]_vars => LoopBounds' /\ PermutationIsBijection'
<1> SUFFICES ASSUME TypeOK, LoopBounds, PermutationIsBijection, [Next]_vars
             PROVE  LoopBounds' /\ PermutationIsBijection'
  OBVIOUS
<1>1. CASE UNCHANGED <<length, i, permutation>> /\ (pc' = pc \/ pc' # "permutation")
  BY <1>1 DEF LoopBounds, PermutationIsBijection, Index
<1>2. CASE generatePermutation
  <2>1. PICK j \in 0 .. i : permutation' = Swap(permutation, i, j)
    BY <1>2 DEF generatePermutation
  <2>2. i \in Index /\ j \in Index /\ Index' = Index
    BY <1>2, <2>1 DEF generatePermutation, LoopBounds, Index, TypeOK, input
  <2> DEFINE other(k) == IF k = i THEN j ELSE IF k = j THEN i ELSE k
  <2>3. \A k \in Index : permutation'[k] = permutation[other(k)]
    <3>1. permutation \in [Index -> Index]
      BY DEF TypeOK
    <3> HIDE DEF other
    <3>2. \A k \in Index :
            Swap(permutation, i, j)[k] = permutation[IF k = i THEN j ELSE IF k = j THEN i ELSE k]
      BY <2>2, <3>1 DEF Swap
    <3> QED
      BY <2>1, <3>2 DEF other
  <2>4. \A k \in Index : other(k) \in Index /\ other(other(k)) = k
    BY <2>2
  <2> HIDE DEF other
  <2>5. ASSUME NEW k \in Index, NEW m \in Index, permutation'[k] = permutation'[m] PROVE k = m
    <3>1. other(k) = other(m)
      BY <2>3, <2>4, <2>5 DEF PermutationIsBijection
    <3> QED
      BY <2>4, <3>1
  <2>6. ASSUME NEW s \in Index PROVE \E k \in Index : permutation'[k] = s
    <3>1. PICK k \in Index : permutation[k] = s
      BY DEF PermutationIsBijection
    <3> QED
      BY <2>3, <2>4, <3>1
  <2>7. i' \in Index
    BY <1>2, <2>2 DEF generatePermutation, Index, TypeOK
  <2> QED
    BY <2>2, <2>5, <2>6, <2>7 DEF LoopBounds, PermutationIsBijection
<1> QED
  BY <1>1, <1>2 DEF Next, vars, input, derived, PermutationGenerated, deriveKeyStream, StreamDerived,
                    Obfuscate, Deobfuscate

(* The mask comes off and each byte goes back to its place.                *)
LEMMA RestoresData ==
  ASSUME TypeOK, PermutationIsBijection
  PROVE  /\ Mask(Mask(data)) = data
         /\ Mask(Unshuffled(Shuffled(Mask(data)))) = data
<1>1. Mask(data) \in [Index -> Byte] /\ Mask(Mask(data)) = data
  <2>1. /\ data \in [Index -> Byte]
        /\ \A k \in Index : Xor[data[k]][stream[k]] \in Byte
        /\ \A k \in Index : Xor[Xor[data[k]][stream[k]]][stream[k]] = data[k]
    <3>1. \A a, m \in Byte : Xor[a][m] \in Byte /\ Xor[Xor[a][m]][m] = a
      BY ObfuscatorAssumption
    <3>2. data \in [Index -> Byte] /\ stream \in [Index -> Byte]
      BY DEF TypeOK
    <3> QED
      BY <3>1, <3>2
  <2>2. /\ Mask(data) \in [Index -> Byte]
        /\ \A k \in Index : Mask(data)[k] = Xor[data[k]][stream[k]]
    BY <2>1 DEF Mask
  <2>3. Mask(Mask(data)) = [k \in Index |-> data[k]]
    BY <2>1, <2>2 DEF Mask
  <2> QED
    BY <2>1, <2>2, <2>3
<1> DEFINE masked == Mask(data)
<1>2. Shuffled(masked) \in [Index -> Byte] /\ \A k \in Index : Shuffled(masked)[k] = masked[permutation[k]]
  BY <1>1 DEF Shuffled, TypeOK
<1> HIDE DEF masked
<1>3. Unshuffled(Shuffled(masked)) = masked
  <2>1. /\ Unshuffled(Shuffled(masked)) \in [Index -> Byte]
        /\ \A k \in Index : Unshuffled(Shuffled(masked))[permutation[k]] = Shuffled(masked)[k]
    BY <1>2, UnshuffledElements
  <2>2. ASSUME NEW s \in Index PROVE Unshuffled(Shuffled(masked))[s] = masked[s]
    <3>1. PICK k \in Index : permutation[k] = s
      BY DEF PermutationIsBijection
    <3> QED
      BY <1>2, <2>1, <3>1
  <2>3. masked \in [Index -> Byte]
    BY <1>1 DEF masked
  <2> QED
    BY <2>1, <2>2, <2>3
<1> QED
  BY <1>1, <1>3 DEF masked

LEMMA ResultsStep == ObfuscatorInv /\ [Next]_vars => Results'
<1> SUFFICES ASSUME ObfuscatorInv, [Next]_vars
             PROVE  Results'
  OBVIOUS
<1> USE DEF ObfuscatorInv
<1>1. CASE UNCHANGED vars
  BY <1>1 DEF vars, Results, RoundTrip, Mask, Shuffled, Index
<1>2. CASE pc' \notin {"deobfuscate", "done"}
  BY <1>2 DEF Results, RoundTrip
<1>3. CASE Obfuscate
  BY <1>3 DEF Obfuscate, Results, RoundTrip, Mask, Shuffled, Index, input, derived
<1>4. CASE Deobfuscate
  <2>1. obfuscated = IF kind = "xor" THEN Mask(data) ELSE Shuffled(Mask(data))
    BY <1>4 DEF Deobfuscate, Results
  <2>2. restored' = data
    <3>1. CASE kind = "xor"
      BY <1>4, <2>1, <3>1, RestoresData DEF Deobfuscate
    <3>2. CASE kind # "xor"
      BY <1>4, <2>1, <3>2, RestoresData DEF Deobfuscate
    <3> QED
      BY <3>1, <3>2
  <2>3. UNCHANGED <<input, derived, obfuscated>>
    BY <1>4 DEF Deobfuscate
  <2> QED
    BY <2>1, <2>2, <2>3 DEF Results, RoundTrip, Mask, Shuffled, Index, input, derived
<1> QED
  BY <1>1, <1>2, <1>3, <1>4
     DEF Next, generatePermutation, PermutationGenerated, deriveKeyStream, StreamDerived

LEMMA ObfuscatorAlways == Spec => []ObfuscatorInv
<1>1. ObfuscatorInv /\ [Next]_vars => ObfuscatorInv'
  BY TypeStep, PermutationStep, ResultsStep DEF ObfuscatorInv
<1> QED
  BY InitInv, <1>1, PTL DEF Spec

(* Every variable keeps its type, as offset its bound.                     *)
THEOREM TypeCorrect == Spec => []TypeOK
<1>1. ObfuscatorInv => TypeOK
  BY DEF ObfuscatorInv
<1> QED
  BY <1>1, ObfuscatorAlways, PTL

(* generatePermutation makes a permutation, whatever the hashes are.       *)
THEOREM PermutationAlwaysBijection == Spec => []PermutationIsBijection
<1>1. ObfuscatorInv => PermutationIsBijection
  BY DEF ObfuscatorInv
<1> QED
  BY <1>1, ObfuscatorAlways, PTL

(* Deobfuscate undoes Obfuscate, for both obfuscators, every data and      *)
(* every entropy.                                                          *)
THEOREM DeobfuscateRestores == Spec => []RoundTrip
<1>1. ObfuscatorInv => RoundTrip
  BY DEF ObfuscatorInv, Results
<1> QED
  BY <1>1, ObfuscatorAlways, PTL

-----------------------------------------------------------------------------
(* The key stream                                                          *)

(* While there is more to derive, every block so far was used whole.       *)
WholeBlocks ==
  /\ offset <= BlockSize * blockNum
  /\ offset < length => offset = BlockSize * blockNum

(* Number k is element k % b of block k \div b.                            *)
LEMMA ElementOfBlock ==
  ASSUME NEW b \in Nat \ {0}, NEW k \in Nat
  PROVE  /\ k \div b \in Nat /\ k % b \in 0 .. b - 1
         /\ k = b * (k \div b) + (k % b)
OBVIOUS

LEMMA Multiples ==
  ASSUME NEW b \in Nat \ {0}, NEW m \in Nat, NEW n \in Nat, m > n
  PROVE  b * m >= b * n + b
OBVIOUS

(* An element of block n, and one of an earlier block.                     *)
LEMMA BlockOfElement ==
  ASSUME NEW b \in Nat \ {0}, NEW n \in Nat
  PROVE  /\ \A r \in 0 .. b - 1 : (b * n + r) \div b = n /\ (b * n + r) % b = r
         /\ \A k \in Nat : k < b * n => k \div b < n
<1>0. b * n \in Nat
  OBVIOUS
<1>1. ASSUME NEW r \in 0 .. b - 1
      PROVE  (b * n + r) \div b = n /\ (b * n + r) % b = r
  <2> DEFINE k == b * n + r
             d == k \div b
             m == k % b
  <2>1. k \in Nat
    BY <1>0
  <2>2. d \in Nat /\ m \in 0 .. b - 1 /\ b * n + r = b * d + m
    BY <2>1, ElementOfBlock
  <2> HIDE DEF d, m, k
  <2>3. b * d \in Nat
    BY <2>2
  <2>4. ~(d > n)
    <3>1. d > n => b * d >= b * n + b
      BY <2>2, Multiples
    <3> QED
      BY <1>0, <2>2, <2>3, <3>1
  <2>5. ~(n > d)
    <3>1. n > d => b * n >= b * d + b
      BY <2>2, Multiples
    <3> QED
      BY <1>0, <2>2, <2>3, <3>1
  <2>6. d = n
    BY <2>2, <2>4, <2>5
  <2>7. m = r
    BY <1>0, <2>2, <2>6
  <2> QED
    BY <2>6, <2>7 DEF d, m, k
<1>2. ASSUME NEW k \in Nat, k < b * n
      PROVE  k \div b < n
  <2> DEFINE d == k \div b
  <2>1. d \in Nat /\ b * d \in Nat /\ b * d <= k
    <3>1. d \in Nat /\ k % b \in 0 .. b - 1 /\ k = b * d + (k % b)
      BY ElementOfBlock
    <3> HIDE DEF d
    <3>2. b * d \in Nat
      BY <3>1
    <3> QED
      BY <3>1, <3>2
  <2> HIDE DEF d
  <2>2. d > n => b * d >= b * n + b
    BY <2>1, Multiples
  <2>3. d # n /\ ~(d > n)
    BY <1>0, <1>2, <2>1, <2>2
  <2> QED
    BY <2>1, <2>3 DEF d
<1> QED
  BY <1>1, <1>2

(* The step that hashes one more block.                                    *)
LEMMA BlockDerived ==
  ASSUME TypeOK, WholeBlocks, StreamFromBlocks, deriveKeyStream
  PROVE  (WholeBlocks /\ StreamFromBlocks)'
<1> DEFINE B == BlockSize
           copied == Least(B, length - offset)
<1>1. /\ B \in Nat \ {0} /\ length \in Nat /\ offset \in Nat /\ blockNum \in Nat
      /\ offset < length /\ offset = B * blockNum
  BY ObfuscatorAssumption DEF TypeOK, WholeBlocks, deriveKeyStream
<1>2. PICK h \in Block : /\ stream' = CopyBlock(h)
                         /\ blocks' = [k \in 0 .. blockNum |-> IF k = blockNum THEN h ELSE blocks[k]]
  BY DEF deriveKeyStream
<1>3. offset' = offset + copied /\ blockNum' = blockNum + 1 /\ length' = length
  BY DEF deriveKeyStream, input
<1>4. /\ copied \in 1 .. B /\ copied <= length - offset
      /\ offset + copied < length => copied = B
  BY <1>1 DEF Least
<1>5. B * (blockNum + 1) = B * blockNum + B /\ B * blockNum \in Nat
  BY <1>1
<1> HIDE DEF copied
<1>6. WholeBlocks'
  BY <1>1, <1>3, <1>4, <1>5 DEF WholeBlocks
<1>7. ASSUME NEW k \in 0 .. offset' - 1
      PROVE  stream'[k] = blocks'[k \div B][k % B]
  <2>1. k \in Index /\ k \in Nat
    BY <1>1, <1>3, <1>4 DEF Index
  <2>2. stream'[k] = IF k \in offset .. offset + copied - 1 THEN h[k - offset] ELSE stream[k]
    BY <1>2, <2>1 DEF CopyBlock, copied
  <2>3. CASE k < offset
    <3>1. k \div B \in Nat /\ k \div B < blockNum
      BY <1>1, <2>1, <2>3, ElementOfBlock, BlockOfElement
    <3>2. k \div B \in 0 .. blockNum /\ k \div B # blockNum
      BY <1>1, <3>1
    <3>3. blocks'[k \div B] = blocks[k \div B]
      BY <1>2, <3>2
    <3>4. k \in 0 .. offset - 1 /\ k \notin offset .. offset + copied - 1
      BY <1>1, <2>1, <2>3
    <3> QED
      BY <2>2, <3>3, <3>4 DEF StreamFromBlocks
  <2>4. CASE k >= offset
    <3> DEFINE r == k - offset
    <3>1. r \in 0 .. B - 1 /\ k = B * blockNum + r /\ k \in offset .. offset + copied - 1
      BY <1>1, <1>3, <1>4, <2>1, <2>4
    <3> HIDE DEF r
    <3>2. k \div B = blockNum /\ k % B = r
      BY <1>1, <3>1, BlockOfElement
    <3>3. blocks'[blockNum] = h
      <4>1. blockNum \in 0 .. blockNum
        BY <1>1
      <4> QED
        BY <1>2, <4>1
    <3> QED
      BY <2>2, <3>1, <3>2, <3>3 DEF r
  <2> QED
    BY <1>1, <2>1, <2>3, <2>4
<1> QED
  BY <1>6, <1>7 DEF StreamFromBlocks

LEMMA StreamStep ==
  TypeOK /\ WholeBlocks /\ StreamFromBlocks /\ [Next]_vars => (WholeBlocks /\ StreamFromBlocks)'
<1> SUFFICES ASSUME TypeOK, WholeBlocks, StreamFromBlocks, [Next]_vars
             PROVE  (WholeBlocks /\ StreamFromBlocks)'
  OBVIOUS
<1>1. CASE deriveKeyStream
  BY <1>1, BlockDerived
<1>2. CASE UNCHANGED <<length, offset, blockNum, stream, blocks>>
  BY <1>2 DEF WholeBlocks, StreamFromBlocks
<1> QED
  BY <1>1, <1>2
     DEF Next, vars, input, derived, generatePermutation, PermutationGenerated, StreamDerived,
         Obfuscate, Deobfuscate

(* Byte k of the stream comes from the hash numbered k \div BlockSize, for *)
(* every length and block size, the last block cut off where it must be.   *)
THEOREM StreamIsBlocks == Spec => []StreamFromBlocks
<1>1. Init => WholeBlocks /\ StreamFromBlocks
  <2> SUFFICES ASSUME Init
               PROVE  WholeBlocks /\ StreamFromBlocks
    OBVIOUS
  <2>1. BlockSize * 0 = 0 /\ length \in Nat
    BY ObfuscatorAssumption DEF Init
  <2>2. offset = 0 /\ blockNum = 0
    BY DEF Init
  <2> QED
    BY <2>1, <2>2 DEF WholeBlocks, StreamFromBlocks
<1>2. ObfuscatorInv => TypeOK
  BY DEF ObfuscatorInv
<1> QED
  BY <1>1, <1>2, StreamStep, ObfuscatorAlways, PTL DEF Spec
=============================================================================
