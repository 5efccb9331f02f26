------------------------------ MODULE NodeTree ------------------------------
(***************************************************************************)
(* node.Node (src/go/node/node.go): an in-memory tree, one map from paths  *)
(* to file records that carry their own name; directories are implied.  A  *)
(* Node has no lock and asks its users to synchronise, so every call is    *)
(* one step; writers stay open between calls.                              *)
(***************************************************************************)
EXTENDS Paths

CONSTANTS
  Segment,    \* the names between the slashes
  FilePath,   \* the paths callers use for files
  CanRename,  \* the pairs <<old, new>> callers pass to Rename and CopyTo
  WriterPath, \* the paths callers open writers at
  Chunk,      \* what one Write call of a writer appends
  Payload,    \* the contents callers pass to Write
  MaxLen,     \* bound on the length of a writer's buffer
  NoFile, NoWriter, NoArchive

dataFile == [name : FilePath, content : Seq(Chunk)]
nodeWriter == [path : WriterPath, buffer : Seq(Chunk)]

(* What is stored of a tree outside it: the names and contents of a tar,   *)
(* or of a cube.  tree is history: the contents when it was made.          *)
Contents == [FilePath -> Seq(Chunk) \cup {NoFile}]
Archive == [format : {"tar", "cube"}, entries : SUBSET dataFile, tree : Contents]

ASSUME NodeAssumption ==
  /\ FilePath \subseteq Seq(Segment) \ {<<>>}
  /\ CanRename \subseteq (Seq(Segment) \ {<<>>}) \X (Seq(Segment) \ {<<>>})
  /\ \A pair \in CanRename : pair[1] # pair[2]
  /\ WriterPath \subseteq FilePath
  /\ Payload \subseteq Seq(Chunk)
  /\ MaxLen \in Nat
  /\ NoFile \notin dataFile \cup Seq(Chunk)
  /\ NoWriter \notin nodeWriter
  /\ NoArchive \notin Archive

VARIABLES
  files,   \* the record of each path, or NoFile
  writer,  \* the writer that is open, or NoWriter
  saved    \* the archive made last, or NoArchive

nodeVars == <<files, writer, saved>>

NodeTypeOK ==
  /\ files \in [FilePath -> dataFile \cup {NoFile}]
  /\ writer \in nodeWriter \cup {NoWriter}
  /\ saved \in Archive \cup {NoArchive}

NodeInit ==
  /\ files = [p \in FilePath |-> NoFile]
  /\ writer = NoWriter
  /\ saved = NoArchive

Files == {p \in FilePath : files[p] # NoFile}
FilesBelow(d) == {p \in Files : Under(p, d)}
DirPath == {<<>>} \cup UNION {Ancestors(p) : p \in FilePath}

Record(p, x) == [name |-> p, content |-> x]
Tree == [p \in FilePath |-> IF p \in Files THEN files[p].content ELSE NoFile]

-----------------------------------------------------------------------------
(* What the reading operations answer                                      *)

IsFile(p) == p \in Files

(* The root is always there; a file hides the directory of its path.       *)
IsDir(p) == p = <<>> \/ (~IsFile(p) /\ FilesBelow(p) # {})

(* The entries shown for d; one is shown when a name is both.              *)
ReadDir(d) ==
  {[name |-> p[Len(d) + 1], isDir |-> Len(p) > Len(d) + 1] : p \in FilesBelow(d)}

(* Mutant: a directory at the last level is entered too.                   *)
maxDepthPassed(root, p, maxDepth) == Len(p) - Len(root) > maxDepth

(* Walk does not enter a directory this deep; the root is always entered.  *)
maxDepthReached(root, p, maxDepth) == p # root /\ Len(p) - Len(root) >= maxDepth

(* The files Walk shows its callback, given no Filter: level by level, the *)
(* paths it visits.                                                        *)
Walk(root, maxDepth) ==
  LET level[k \in 0 .. maxDepth + 1] ==
        IF k = 0 THEN {[path |-> root, isDir |-> TRUE]}
        ELSE UNION {{[path |-> Append(v.path, e.name), isDir |-> e.isDir] : e \in ReadDir(v.path)} :
                      v \in {u \in level[k - 1] : u.isDir /\ ~maxDepthReached(root, u.path, maxDepth)}}
  IN {v.path : v \in {u \in UNION {level[k] : k \in 0 .. maxDepth + 1} : ~u.isDir}}

-----------------------------------------------------------------------------
(* Changing the tree                                                       *)

AddData(p, x) ==
  /\ files' = [files EXCEPT ![p] = Record(p, x)]
  /\ UNCHANGED <<writer, saved>>

Delete(p) ==
  /\ p \in Files
  /\ files' = [files EXCEPT ![p] = NoFile]
  /\ UNCHANGED <<writer, saved>>

DeleteAll(d) ==
  /\ files' = [p \in FilePath |-> IF IsPrefix(d, p) THEN NoFile ELSE files[p]]
  /\ UNCHANGED <<writer, saved>>

RenameFile(old, new) ==
  /\ old \in Files /\ new \in FilePath
  /\ files' = [files EXCEPT ![new] = [files[old] EXCEPT !.name = new], ![old] = NoFile]
  /\ UNCHANGED <<writer, saved>>

(* Mutant: the records keep the names they had.                            *)
renamedUnnamed(old, new, p) == files[p]

renamed(old, new, p) == [files[p] EXCEPT !.name = Rebase(p, old, new)]

(* Mutant: adds them first, then deletes those that were collected.        *)
RenameDirectoryDeleteLast(old, new) ==
  LET moving == FilesBelow(old) IN
  /\ old \notin Files /\ moving # {}
  /\ \A p \in moving : Rebase(p, old, new) \in FilePath
  /\ files' = [q \in FilePath |->
       IF q \in moving THEN NoFile
       ELSE IF \E p \in moving : Rebase(p, old, new) = q
       THEN renamed(old, new, CHOOSE p \in moving : Rebase(p, old, new) = q)
       ELSE files[q]]
  /\ UNCHANGED <<writer, saved>>

(* Collects the files, deletes them all, then adds them all: a directory   *)
(* may be moved into itself.                                               *)
RenameDirectory(old, new) ==
  LET moving == FilesBelow(old) IN
  /\ old \notin Files /\ moving # {}
  /\ \A p \in moving : Rebase(p, old, new) \in FilePath
  /\ files' = [q \in FilePath |->
       IF \E p \in moving : Rebase(p, old, new) = q
       THEN renamed(old, new, CHOOSE p \in moving : Rebase(p, old, new) = q)
       ELSE IF q \in moving THEN NoFile ELSE files[q]]
  /\ UNCHANGED <<writer, saved>>

(* Copies to the same tree, between places apart.                          *)
CopyTo(source, destination) ==
  LET copied == {p \in Files : IsPrefix(source, p)} IN
  /\ Apart(source, destination) /\ copied # {}
  /\ \A p \in copied : Rebase(p, source, destination) \in FilePath
  /\ files' = [q \in FilePath |->
       IF \E p \in copied : Rebase(p, source, destination) = q
       THEN Record(q, files[CHOOSE p \in copied : Rebase(p, source, destination) = q].content)
       ELSE files[q]]
  /\ UNCHANGED <<writer, saved>>

-----------------------------------------------------------------------------
(* Writers and tarballs                                                    *)

Create(p) ==
  /\ writer = NoWriter
  /\ writer' = [path |-> p, buffer |-> <<>>]
  /\ UNCHANGED <<files, saved>>

Append_(p) ==
  /\ writer = NoWriter
  /\ writer' = [path |-> p, buffer |-> IF p \in Files THEN files[p].content ELSE <<>>]
  /\ UNCHANGED <<files, saved>>

WriterWrite(x) ==
  /\ writer # NoWriter
  /\ Len(writer.buffer) < MaxLen
  /\ writer' = [writer EXCEPT !.buffer = Append(@, x)]
  /\ UNCHANGED <<files, saved>>

WriterClose ==
  /\ writer # NoWriter
  /\ files' = [files EXCEPT ![writer.path] = Record(writer.path, writer.buffer)]
  /\ writer' = NoWriter
  /\ UNCHANGED saved

(* The records under the names they carry, not under their keys.           *)
ToTar ==
  /\ saved' = [format |-> "tar", entries |-> {files[p] : p \in Files}, tree |-> Tree]
  /\ UNCHANGED <<files, writer>>

(* The old tree is replaced; of two entries of a name the last one stays.  *)
LoadTar ==
  /\ saved # NoArchive /\ saved.format = "tar"
  /\ \E loaded \in [FilePath -> saved.entries \cup {NoFile}] :
       /\ \A p \in FilePath :
            IF \E e \in saved.entries : e.name = p
            THEN loaded[p] # NoFile /\ loaded[p].name = p
            ELSE loaded[p] = NoFile
       /\ files' = loaded
  /\ UNCHANGED <<writer, saved>>

NodeNext ==
  \/ \E p \in FilePath : Delete(p) \/ \E x \in Payload : AddData(p, x)
  \/ \E p \in WriterPath : Create(p) \/ Append_(p)
  \/ \E d \in DirPath \ {<<>>} : DeleteAll(d)
  \/ \E pair \in CanRename : \/ RenameFile(pair[1], pair[2])
                             \/ RenameDirectory(pair[1], pair[2])
                             \/ CopyTo(pair[1], pair[2])
  \/ \E x \in Chunk : WriterWrite(x)
  \/ WriterClose \/ ToTar \/ LoadTar

-----------------------------------------------------------------------------
(* Properties                                                              *)

(* Walk shows its callback every file at most maxDepth levels below the    *)
(* root, and no other.  (Walk, maxDepthReached, ReadDir; while no path is  *)
(* both a file and a directory)                                            *)
WalkFindsFiles ==
  (~\E p, q \in Files : Under(p, q)) =>
    \A root \in DirPath : \A depth \in 1 .. 2 :
      IsDir(root) => Walk(root, depth) = {p \in FilesBelow(root) : Len(p) - Len(root) <= depth}

(* A directory's Rename keeps every file with its content, also when the   *)
(* new path lies in the directory or has files already in the way of some. *)
(* (Rename)                                                                *)
RenameMovesTree ==
  [][\A pair \in CanRename :
       RenameDirectory(pair[1], pair[2]) =>
         \A p \in FilesBelow(pair[1]) : Tree'[Rebase(p, pair[1], pair[2])] = Tree[p]]_files

(* What LoadTar loads is the tree that ToTar saved.  (ToTar, LoadTar)      *)
LoadRestoresTree == [][LoadTar => Tree' = saved.tree]_nodeVars
=============================================================================
