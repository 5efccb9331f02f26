---------------------------- MODULE MemoryMedium ----------------------------
(***************************************************************************)
(* io.MemoryMedium (src/go/io.go): a file system in four maps, and the     *)
(* writers its Create and Append hand out.  The maps have no lock: one     *)
(* goroutine calls at a time, but any number of writers may be open, each  *)
(* of which commits its buffer when it is closed.  The loops of Rename     *)
(* visit a Go map in any order; each iteration is a step here, and no      *)
(* other call runs until the Rename has returned.                          *)
(***************************************************************************)
EXTENDS Paths

CONSTANTS
  Segment,    \* the names between the slashes
  Path,       \* the paths callers use (a bound: longer paths are not modelled)
  CanRename,  \* the pairs <<old, new>> callers pass to Rename
  Writer,     \* the MemoryWriteCloser values open at once
  WriterPath, \* the paths callers open writers at
  Chunk,      \* what one Write call of a writer appends
  Payload,    \* the pairs <<content, mode>> callers pass to WriteMode
  MaxLen,     \* bound on the length of a writer's buffer
  Mode,       \* file modes
  DefaultMode,  \* 0644
  NoFile, NoMode, NoWriter, NoRename

OpenWriter == [path : Path, data : Seq(Chunk), mode : Mode]
Renames == [old : Path, new : Path, files : SUBSET Path]

ASSUME MemoryAssumption ==
  /\ Path \subseteq Seq(Segment) \ {<<>>}
  /\ \A p \in Path : Ancestors(p) \subseteq Path
  /\ CanRename \subseteq Path \X Path
  /\ WriterPath \subseteq Path
  /\ Payload \subseteq Seq(Chunk) \X Mode
  /\ MaxLen \in Nat
  /\ DefaultMode \in Mode
  /\ NoFile \notin Seq(Chunk)
  /\ NoMode \notin Mode
  /\ NoWriter \notin OpenWriter
  /\ NoRename \notin Renames

VARIABLES
  fileContents,       \* the content of each file, or NoFile
  fileModes,          \* the mode of each file, or NoMode
  modificationTimes,  \* the paths that have a modification time
  directories,        \* the paths entered as directories
  writer,             \* the open writers
  rename,             \* the Rename in progress, or NoRename
  filesToMove,        \* the files its loop has still to move
  dirsToMove,         \* the directories its loop has still to move
  origin              \* history: contents and modes when it began

store == <<fileContents, fileModes, modificationTimes>>
renaming == <<rename, filesToMove, dirsToMove, origin>>
vars == <<fileContents, fileModes, modificationTimes, directories, writer,
          rename, filesToMove, dirsToMove, origin>>

(* Every variable holds a value of its kind.                               *)
TypeOK ==
  /\ fileContents \in [Path -> Seq(Chunk) \cup {NoFile}]
  /\ fileModes \in [Path -> Mode \cup {NoMode}]
  /\ modificationTimes \subseteq Path
  /\ directories \subseteq Path
  /\ writer \in [Writer -> OpenWriter \cup {NoWriter}]
  /\ rename \in Renames \cup {NoRename}
  /\ filesToMove \subseteq Path
  /\ dirsToMove \subseteq Path
  /\ origin \in [Path -> (Seq(Chunk) \cup {NoFile}) \X (Mode \cup {NoMode})]

Held(p) == <<fileContents[p], fileModes[p]>>

Init ==
  /\ fileContents = [p \in Path |-> NoFile]
  /\ fileModes = [p \in Path |-> NoMode]
  /\ modificationTimes = {}
  /\ directories = {}
  /\ writer = [h \in Writer |-> NoWriter]
  /\ rename = NoRename
  /\ filesToMove = {}
  /\ dirsToMove = {}
  /\ origin = [p \in Path |-> Held(p)]

IsFile(p) == fileContents[p] # NoFile
Files == {p \in Path : IsFile(p)}

(* Prefix scans over both maps.                                            *)
Below(d) == {p \in Files \cup directories : Under(p, d)}
directoryExists(d) == d \in directories \/ Below(d) # {}

(* What the reading operations answer.  A name that is both a file and a   *)
(* directory is listed as one of them.                                     *)
Exists(p) == IsFile(p) \/ directoryExists(p)
modeForPath(p) == IF fileModes[p] = NoMode THEN DefaultMode ELSE fileModes[p]

(* Mutant: a file deeper in a directory is listed by its full name.        *)
addFileEntriesOnly(d) ==
  {[name |-> p[Len(d) + 1], isDir |-> FALSE] : p \in {q \in Files : Under(q, d)}}

addFileEntries(d) ==
  {[name |-> p[Len(d) + 1], isDir |-> Len(p) > Len(d) + 1] : p \in {q \in Files : Under(q, d)}}
addDirectoryEntries(d) ==
  {[name |-> p[Len(d) + 1], isDir |-> TRUE] : p \in {q \in directories : Under(q, d)}}
List(d) == addFileEntries(d) \cup addDirectoryEntries(d)

-----------------------------------------------------------------------------
(* fileContents[p], fileModes[p] and modificationTimes[p] together         *)

Store(p, c, m) ==
  /\ fileContents' = [fileContents EXCEPT ![p] = c]
  /\ fileModes' = [fileModes EXCEPT ![p] = m]
  /\ modificationTimes' = modificationTimes \cup {p}

(* Mutant: a deleted file leaves its modification time.                    *)
EraseKeepingTimes(P) ==
  /\ fileContents' = [p \in Path |-> IF p \in P THEN NoFile ELSE fileContents[p]]
  /\ fileModes' = [p \in Path |-> IF p \in P THEN NoMode ELSE fileModes[p]]
  /\ UNCHANGED modificationTimes

Erase(P) ==
  /\ fileContents' = [p \in Path |-> IF p \in P THEN NoFile ELSE fileContents[p]]
  /\ fileModes' = [p \in Path |-> IF p \in P THEN NoMode ELSE fileModes[p]]
  /\ modificationTimes' = modificationTimes \ P

(* Mutant: the mode stays behind.                                          *)
RelocateWithoutMode(p, q) ==
  /\ fileContents' = [fileContents EXCEPT ![q] = fileContents[p], ![p] = NoFile]
  /\ fileModes' = fileModes
  /\ modificationTimes' = IF p \notin modificationTimes THEN modificationTimes
                          ELSE (modificationTimes \cup {q}) \ {p}

Relocate(p, q) ==
  /\ fileContents' = [fileContents EXCEPT ![q] = fileContents[p], ![p] = NoFile]
  /\ fileModes' = IF fileModes[p] = NoMode THEN fileModes
                  ELSE [fileModes EXCEPT ![q] = fileModes[p], ![p] = NoMode]
  /\ modificationTimes' = IF p \notin modificationTimes THEN modificationTimes
                          ELSE (modificationTimes \cup {q}) \ {p}

-----------------------------------------------------------------------------
(* Files and directories                                                   *)

(* Fails, changing nothing, when an ancestor is a file or p a directory.   *)
WriteMode(p, c, m) ==
  /\ rename = NoRename
  /\ \A a \in Ancestors(p) : ~IsFile(a)
  /\ p \notin directories
  /\ directories' = directories \cup Ancestors(p)
  /\ Store(p, c, m)
  /\ UNCHANGED <<writer, renaming>>

(* Mutant: the loop over the ancestors does not stop at the root.          *)
EnsureDirRoot(p) ==
  /\ rename = NoRename
  /\ ~IsFile(p)
  /\ directories' = directories \cup AncestorsWithRoot(p) \cup {p}
  /\ UNCHANGED <<store, writer, renaming>>

EnsureDir(p) ==
  /\ rename = NoRename
  /\ ~IsFile(p)
  /\ directories' = directories \cup Ancestors(p) \cup {p}
  /\ UNCHANGED <<store, writer, renaming>>

DeleteFile(p) ==
  /\ rename = NoRename
  /\ IsFile(p)
  /\ Erase({p})
  /\ UNCHANGED <<directories, writer, renaming>>

(* Refuses a directory that has anything below it.                         *)
DeleteDirectory(p) ==
  /\ rename = NoRename
  /\ ~IsFile(p)
  /\ directoryExists(p) /\ Below(p) = {}
  /\ directories' = directories \ {p}
  /\ UNCHANGED <<store, writer, renaming>>

DeleteAll(p) ==
  LET gone == {p} \cup {q \in Path : Under(q, p)} IN
  /\ rename = NoRename
  /\ (Files \cup directories) \cap gone # {}
  /\ Erase(gone)
  /\ directories' = directories \ gone
  /\ UNCHANGED <<writer, renaming>>

-----------------------------------------------------------------------------
(* Rename                                                                  *)

Target(p) == Rebase(p, rename.old, rename.new)

(* renameFile                                                              *)
RenameFile(old, new) ==
  /\ rename = NoRename
  /\ IsFile(old)
  /\ rename' = [old |-> old, new |-> new, files |-> {old}]
  /\ filesToMove' = {old}
  /\ dirsToMove' = {}
  /\ origin' = [p \in Path |-> Held(p)]
  /\ UNCHANGED <<store, directories, writer>>

(* renameDirectory: the file loop does not touch directories, so what the  *)
(* directory loop will visit is fixed here too.  Only renames whose every  *)
(* target lies in Path are modelled.                                       *)
RenameDirectory(old, new) ==
  LET files == {p \in Files : Under(p, old)}
      dirs == {d \in directories' : Under(d, old)} IN
  /\ rename = NoRename
  /\ ~IsFile(old) /\ directoryExists(old)
  /\ directories' = (directories \cup {new}) \ {old}
  /\ \A p \in files \cup dirs : Rebase(p, old, new) \in Path
  /\ rename' = [old |-> old, new |-> new, files |-> files]
  /\ filesToMove' = files
  /\ dirsToMove' = dirs
  /\ origin' = [p \in Path |-> Held(p)]
  /\ UNCHANGED <<store, writer>>

(* One iteration over filesToMove, in any order.                           *)
MoveFile(p) ==
  /\ p \in filesToMove
  /\ Relocate(p, Target(p))
  /\ filesToMove' = filesToMove \ {p}
  /\ UNCHANGED <<directories, writer, rename, dirsToMove, origin>>

(* One iteration over dirsToMove, in any order, after the files.           *)
MoveDir(d) ==
  /\ filesToMove = {}
  /\ d \in dirsToMove
  /\ directories' = (directories \cup {Target(d)}) \ {d}
  /\ dirsToMove' = dirsToMove \ {d}
  /\ UNCHANGED <<store, writer, rename, filesToMove, origin>>

RenameReturns ==
  /\ rename # NoRename /\ filesToMove = {} /\ dirsToMove = {}
  /\ rename' = NoRename
  /\ origin' = [p \in Path |-> <<NoFile, NoMode>>]
  /\ UNCHANGED <<store, directories, writer, filesToMove, dirsToMove>>

-----------------------------------------------------------------------------
(* Writers                                                                 *)

Create(h, p) ==
  /\ rename = NoRename
  /\ writer[h] = NoWriter
  /\ writer' = [writer EXCEPT ![h] = 
       [path |-> p, data |-> <<>>, mode |-> DefaultMode]]
  /\ UNCHANGED <<store, directories, renaming>>

(* Starts from the content the file has now, and from its mode.            *)
Append_(h, p) ==
  /\ rename = NoRename
  /\ writer[h] = NoWriter
  /\ writer' = [writer EXCEPT ![h] =
       [path |-> p,
        data |-> IF IsFile(p) THEN fileContents[p] ELSE <<>>,
        mode |-> modeForPath(p)]]
  /\ UNCHANGED <<store, directories, renaming>>

WriterWrite(h, x) ==
  /\ rename = NoRename
  /\ writer[h] # NoWriter
  /\ Len(writer[h].data) < MaxLen
  /\ writer' = [writer EXCEPT ![h].data = Append(@, x)]
  /\ UNCHANGED <<store, directories, renaming>>

(* Mutant: Close enters no ancestor directories.                           *)
WriterCloseNoAncestors(h) ==
  /\ rename = NoRename
  /\ writer[h] # NoWriter
  /\ writer[h].path \notin directories
  /\ Store(writer[h].path, writer[h].data, writer[h].mode)
  /\ UNCHANGED <<directories, writer, renaming>>

(* Fails when the path is a directory.  A closed writer can be written and *)
(* closed again: nothing marks it closed.                                  *)
WriterClose(h) ==
  /\ rename = NoRename
  /\ writer[h] # NoWriter
  /\ writer[h].path \notin directories
  /\ directories' = directories \cup Ancestors(writer[h].path)
  /\ Store(writer[h].path, writer[h].data, writer[h].mode)
  /\ UNCHANGED <<writer, renaming>>

(* The caller lets go of its writer.                                       *)
WriterDrop(h) ==
  /\ rename = NoRename
  /\ writer[h] # NoWriter
  /\ writer' = [writer EXCEPT ![h] = NoWriter]
  /\ UNCHANGED <<store, directories, renaming>>

-----------------------------------------------------------------------------
FileCalls(p) ==
  \/ \E load \in Payload : WriteMode(p, load[1], load[2])
  \/ EnsureDir(p) \/ DeleteFile(p) \/ DeleteDirectory(p) \/ DeleteAll(p)

WriterCalls(h) ==
  \/ \E p \in WriterPath : Create(h, p) \/ Append_(h, p)
  \/ \E x \in Chunk : WriterWrite(h, x)
  \/ WriterClose(h) \/ WriterDrop(h)

RenameSteps ==
  \/ \E pair \in CanRename : RenameFile(pair[1], pair[2]) \/ RenameDirectory(pair[1], pair[2])
  \/ \E p \in Path : MoveFile(p) \/ MoveDir(p)
  \/ RenameReturns

Next ==
  \/ \E p \in Path : FileCalls(p)
  \/ \E h \in Writer : WriterCalls(h)
  \/ RenameSteps

Spec == Init /\ [][Next]_vars

-----------------------------------------------------------------------------
(* Properties                                                              *)

(* The three maps of a file agree: a path has a mode and a modification    *)
(* time exactly when it has a content, also between the iterations of a    *)
(* Rename, which moves the maps one after the other and conditionally.     *)
MetadataTogether ==
  \A p \in Path : /\ IsFile(p) <=> fileModes[p] # NoMode
                  /\ IsFile(p) <=> p \in modificationTimes

(* A Rename moves every file it found, content and mode, to the place it   *)
(* has below the new path, in whatever order Go visits the map.  (Rename;  *)
(* true when neither path lies in the other.)                              *)
RenameMovesTree ==
  rename # NoRename =>
    \A p \in rename.files :
      origin[p] = IF p \in filesToMove THEN Held(p) ELSE Held(Target(p))

(* Every ancestor of a stored path is itself a directory entry, so that    *)
(* deleting the last file of a directory does not delete the directory.    *)
(* (ensureAncestorDirectories; true when renames stay in one directory.)   *)
AncestorsEntered ==
  rename = NoRename =>
    \A p \in Files \cup directories : Ancestors(p) \subseteq directories
=============================================================================
