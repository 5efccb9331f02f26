--------------------------- MODULE DataNodeMedium ---------------------------
(***************************************************************************)
(* datanode.Medium (src/go/datanode/medium.go): files in a Borg DataNode,  *)
(* directories in a set of their own, and one RWMutex.  Every operation    *)
(* holds the lock from its first to its last access, so it is one step,    *)
(* whichever goroutine calls it.  Only Append reads in one critical        *)
(* section what its writer stores in another.  Removing a file rebuilds    *)
(* the DataNode, which reads every other file and may fail: an operation   *)
(* on many files then ends halfway.  The DataNode is external: a map of    *)
(* file names that knows the directories its names imply.                  *)
(***************************************************************************)
EXTENDS Paths

CONSTANTS
  Segment,    \* the names between the slashes
  FilePath,   \* the paths callers use for files
  DirPath,    \* the paths callers use for directories
  CanRename,  \* the pairs <<old, new>> callers pass to Rename
  Writer,     \* the writeCloser values open at once
  WriterPath, \* the paths callers open writers at
  Chunk,      \* what one Write call of a writer appends
  Payload,    \* the contents callers pass to Write
  MaxLen,     \* bound on the length of a writer's buffer
  NoFile, NoWriter, NoSnapshot

OpenWriter == [path : FilePath, buffer : Seq(Chunk)]

(* A tarball, which holds files alone; dirs is history: the directories    *)
(* there were.                                                             *)
Tar == [files : [FilePath -> Seq(Chunk) \cup {NoFile}], dirs : SUBSET DirPath]

ASSUME DataNodeAssumption ==
  /\ FilePath \subseteq Seq(Segment) \ {<<>>}
  /\ DirPath \subseteq Seq(Segment) \ {<<>>}
  /\ FilePath \cap DirPath = {}
  /\ \A p \in FilePath \cup DirPath : Ancestors(p) \subseteq DirPath
  /\ WriterPath \subseteq FilePath
  /\ CanRename \subseteq (FilePath \X FilePath) \cup (DirPath \X DirPath)
  /\ Payload \subseteq Seq(Chunk)
  /\ MaxLen \in Nat
  /\ NoFile \notin Seq(Chunk)
  /\ NoWriter \notin OpenWriter
  /\ NoSnapshot \notin Tar

VARIABLES
  dataNode,      \* the content of each file, or NoFile
  directorySet,  \* the directories entered
  writer,        \* the open writers
  snapshot       \* what the caller's last Snapshot returned

vars == <<dataNode, directorySet, writer, snapshot>>

(* Every variable holds a value of its kind.                               *)
TypeOK ==
  /\ dataNode \in [FilePath -> Seq(Chunk) \cup {NoFile}]
  /\ directorySet \subseteq DirPath
  /\ writer \in [Writer -> OpenWriter \cup {NoWriter}]
  /\ snapshot \in Tar \cup {NoSnapshot}

Init ==
  /\ dataNode = [p \in FilePath |-> NoFile]
  /\ directorySet = {}
  /\ writer = [h \in Writer |-> NoWriter]
  /\ snapshot = NoSnapshot

Files == {p \in FilePath : dataNode[p] # NoFile}
FilesBelow(d) == {p \in Files : Under(p, d)}

(* Stat of the DataNode knows the directories of files; IsDir also the     *)
(* directories entered.                                                    *)
isImplied(d) == FilesBelow(d) # {}
Directories == directorySet \cup {d \in DirPath : isImplied(d)}

-----------------------------------------------------------------------------
Write(p, c) ==
  /\ dataNode' = [dataNode EXCEPT ![p] = c]
  /\ directorySet' = directorySet \cup Ancestors(p)
  /\ UNCHANGED <<writer, snapshot>>

EnsureDir(d) ==
  /\ directorySet' = directorySet \cup Ancestors(d) \cup {d}
  /\ UNCHANGED <<dataNode, writer, snapshot>>

(* The DataNode without the files P.                                       *)
Without(P) == [p \in FilePath |-> IF p \in P THEN NoFile ELSE dataNode[p]]

DeleteFile(p) ==
  /\ p \in Files
  /\ dataNode' = Without({p})
  /\ UNCHANGED <<directorySet, writer, snapshot>>

(* A directory of files is refused, so only an entered one can go.         *)
DeleteDirectory(d) ==
  /\ d \in directorySet
  /\ ~\E p \in Files \cup directorySet : Under(p, d)
  /\ directorySet' = directorySet \ {d}
  /\ UNCHANGED <<dataNode, writer, snapshot>>

(* The files at p and below it, then the directories.  When a file cannot  *)
(* be removed, those before it are gone and the directories stay.          *)
DeleteAll(p) ==
  LET gone == {q \in Files : q = p \/ Under(q, p)} IN
  /\ \/ /\ dataNode' = Without(gone)
        /\ directorySet' = {d \in directorySet : d # p /\ ~Under(d, p)}
     \/ /\ \E some \in SUBSET gone : some # gone /\ dataNode' = Without(some)
        /\ UNCHANGED directorySet
  /\ UNCHANGED <<writer, snapshot>>

-----------------------------------------------------------------------------
(* Rename                                                                  *)

(* The DataNode after the files in copied have been added below new and    *)
(* those in removed removed.                                               *)
Moved(copied, removed, old, new) ==
  [q \in FilePath |->
     IF q \in removed THEN NoFile
     ELSE IF \E p \in copied : Rebase(p, old, new) = q
          THEN dataNode[CHOOSE p \in copied : Rebase(p, old, new) = q]
          ELSE dataNode[q]]

(* Mutant: the source is removed before the new file is added.             *)
renameFileRemoveFirst(old, new) ==
  /\ old \in Files
  /\ \E copied, removed \in SUBSET {old} :
       /\ copied \subseteq removed
       /\ dataNode' = Moved(copied, removed, old, new)
  /\ directorySet' = directorySet \cup Ancestors(new)
  /\ UNCHANGED <<writer, snapshot>>

(* Adds the new file, then removes the old one, which may fail.            *)
renameFileLocked(old, new) ==
  /\ old \in Files
  /\ \E removed \in SUBSET {old} : dataNode' = Moved({old}, removed, old, new)
  /\ directorySet' = directorySet \cup Ancestors(new)
  /\ UNCHANGED <<writer, snapshot>>

(* Mutant: the directories entered below old stay entered.                 *)
directoriesKept(old, new) == directorySet \cup {new}

directoriesMoved(old, new) ==
  LET moving == {d \in directorySet : d = old \/ Under(d, old)} IN
  (directorySet \ moving) \cup {Rebase(d, old, new) : d \in moving}

(* File by file, then the directories.  When a file cannot be moved, those *)
(* before it have been, it may be at both places, and the rest stay.  A    *)
(* directory without files is not found.                                   *)
renameDirectoryLocked(old, new) ==
  LET below == FilesBelow(old) IN
  /\ isImplied(old)
  /\ \A p \in below : Rebase(p, old, new) \in FilePath
  /\ \A d \in directorySet : Under(d, old) => Rebase(d, old, new) \in DirPath
  /\ \/ /\ dataNode' = Moved(below, below, old, new)
        /\ directorySet' = directoriesMoved(old, new)
     \/ /\ \E removed \in SUBSET below : \E p \in below \ removed :
             \E copied \in {removed, removed \cup {p}} :
               dataNode' = Moved(copied, removed, old, new)
        /\ UNCHANGED directorySet
  /\ UNCHANGED <<writer, snapshot>>

-----------------------------------------------------------------------------
(* Writers                                                                 *)

Create(h, p) ==
  /\ writer[h] = NoWriter
  /\ writer' = [writer EXCEPT ![h] = [path |-> p, buffer |-> <<>>]]
  /\ UNCHANGED <<dataNode, directorySet, snapshot>>

(* Reads the file in a critical section of its own.                        *)
Append_(h, p) ==
  /\ writer[h] = NoWriter
  /\ writer' = [writer EXCEPT ![h] =
       [path |-> p,
        buffer |-> IF p \in Files THEN dataNode[p] ELSE <<>>]]
  /\ UNCHANGED <<dataNode, directorySet, snapshot>>

WriterWrite(h, x) ==
  /\ writer[h] # NoWriter
  /\ Len(writer[h].buffer) < MaxLen
  /\ writer' = [writer EXCEPT ![h].buffer = Append(@, x)]
  /\ UNCHANGED <<dataNode, directorySet, snapshot>>

(* Stores the buffer; the writer can be written and closed again.          *)
WriterClose(h) ==
  /\ writer[h] # NoWriter
  /\ dataNode' = [dataNode EXCEPT ![writer[h].path] = writer[h].buffer]
  /\ directorySet' = directorySet \cup Ancestors(writer[h].path)
  /\ UNCHANGED <<writer, snapshot>>

WriterDrop(h) ==
  /\ writer[h] # NoWriter
  /\ writer' = [writer EXCEPT ![h] = NoWriter]
  /\ UNCHANGED <<dataNode, directorySet, snapshot>>

-----------------------------------------------------------------------------
(* Snapshots                                                               *)

Snapshot ==
  /\ snapshot' = [files |-> dataNode, dirs |-> Directories]
  /\ UNCHANGED <<dataNode, directorySet, writer>>

(* Mutant: the directories of the replaced tree are not forgotten.         *)
rebuildOnTop(files) ==
  directorySet \cup UNION {Ancestors(p) : p \in {q \in FilePath : files[q] # NoFile}}

(* rebuildDirectorySetLocked, after directorySet has been emptied          *)
rebuildDirectorySet(files) ==
  UNION {Ancestors(p) : p \in {q \in FilePath : files[q] # NoFile}}

(* Also what FromTar makes a new Medium of.                                *)
Restore ==
  /\ snapshot # NoSnapshot
  /\ dataNode' = snapshot.files
  /\ directorySet' = rebuildDirectorySet(snapshot.files)
  /\ UNCHANGED <<writer, snapshot>>

-----------------------------------------------------------------------------
FileCalls(p) ==
  \/ \E c \in Payload : Write(p, c)
  \/ DeleteFile(p)

WriterCalls(h) ==
  \/ \E p \in WriterPath : Create(h, p) \/ Append_(h, p)
  \/ \E x \in Chunk : WriterWrite(h, x)
  \/ WriterClose(h) \/ WriterDrop(h)

Next ==
  \/ \E p \in FilePath : FileCalls(p)
  \/ \E d \in DirPath : EnsureDir(d) \/ DeleteDirectory(d)
  \/ \E p \in FilePath \cup DirPath : DeleteAll(p)
  \/ \E pair \in CanRename : \/ renameFileLocked(pair[1], pair[2])
                             \/ renameDirectoryLocked(pair[1], pair[2])
  \/ \E h \in Writer : WriterCalls(h)
  \/ Snapshot \/ Restore

Spec == Init /\ [][Next]_vars

-----------------------------------------------------------------------------
(* Properties                                                              *)

(* A Rename, also one that fails halfway, leaves the content of each file  *)
(* of the tree at its old place or at its new one.  (renameFileLocked,     *)
(* renameDirectoryLocked; true when neither path lies in the other.)       *)
RenameKeepsFiles ==
  [][\A pair \in CanRename :
       renameFileLocked(pair[1], pair[2]) \/ renameDirectoryLocked(pair[1], pair[2]) =>
         \A p \in Files : p = pair[1] \/ Under(p, pair[1]) =>
           \/ dataNode'[p] = dataNode[p]
           \/ dataNode'[Rebase(p, pair[1], pair[2])] = dataNode[p]]_vars

(* A Rename that removes a directory's files also moves the directory:     *)
(* after it nothing is left at the old path or below it.  What fails       *)
(* halfway keeps a file there.  (renameDirectoryLocked)                    *)
RenameEmptiesSource ==
  [][\A pair \in CanRename :
       renameDirectoryLocked(pair[1], pair[2]) /\ FilesBelow(pair[1])' = {} =>
         ~\E d \in Directories' : d = pair[1] \/ Under(d, pair[1])]_vars

(* Restore shows no directory that the snapshot did not have, whatever was *)
(* entered since.  (Restore, rebuildDirectorySetLocked)                    *)
RestoreAddsNothing == [][Restore => Directories' \subseteq snapshot.dirs]_vars
=============================================================================
