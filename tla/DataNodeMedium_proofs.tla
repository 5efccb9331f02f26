----------------------- MODULE DataNodeMedium_proofs -----------------------
(***************************************************************************)
(* Theorems about DataNodeMedium for every set of paths, contents and      *)
(* writers.                                                                *)
(***************************************************************************)
EXTENDS DataNodeMedium, Paths_proofs, TLAPS

(* A snapshot lists every directory above a file it holds.                 *)
SnapshotClosed ==
  snapshot # NoSnapshot =>
    \A p \in FilePath : snapshot.files[p] # NoFile => Ancestors(p) \subseteq snapshot.dirs

(* The pairs callers rename are such that neither path lies in the other.  *)
RenamesApart == \A pair \in CanRename : Apart(pair[1], pair[2])

-----------------------------------------------------------------------------
(* Facts about paths                                                       *)

LEMMA PathsAreSequences ==
  /\ FilePath \subseteq Seq(Segment) /\ DirPath \subseteq Seq(Segment)
  /\ <<>> \notin FilePath \cup DirPath
  /\ FilePath \cap DirPath = {}
  /\ \A p \in FilePath \cup DirPath : Ancestors(p) \subseteq DirPath
BY DataNodeAssumption

(* A file lies in no file.                                                 *)
LEMMA FilesHoldNothing ==
  ASSUME NEW p \in FilePath, NEW q \in FilePath, IsPrefix(q, p)
  PROVE  p = q
<1>1. p \in Seq(Segment) /\ q \in Seq(Segment) /\ q # <<>>
  BY PathsAreSequences
<1>2. p # q => q \in Ancestors(p)
  BY <1>1, AncestorsAreAbove DEF Under, IsStrictPrefix
<1> QED
  BY <1>2, PathsAreSequences

(* What lies below d lies below whatever d is at or below.                 *)
LEMMA UnderAbove ==
  ASSUME NEW p \in Seq(Segment), NEW d \in Seq(Segment), NEW e \in Seq(Segment),
         Under(p, d), IsPrefix(e, d)
  PROVE  Under(p, e)
<1>1. /\ Len(p) \in Nat /\ Len(d) \in Nat /\ Len(e) \in Nat
      /\ IsPrefix(d, p) /\ d # p
  BY LenProperties DEF Under, IsStrictPrefix
<1>2. /\ Len(d) <= Len(p) /\ Len(e) <= Len(d)
      /\ \A i \in 1 .. Len(d) : d[i] = p[i]
      /\ \A i \in 1 .. Len(e) : e[i] = d[i]
  BY <1>1, PrefixElements
<1>3. IsPrefix(e, p)
  <2>1. Len(e) <= Len(p) /\ \A i \in 1 .. Len(e) : e[i] = p[i]
    BY <1>1, <1>2
  <2> QED
    BY <2>1, PrefixElements
<1>4. Len(d) # Len(p)
  BY <1>1, <1>2, SeqEqual
<1>5. e # p
  BY <1>1, <1>2, <1>4
<1> QED
  BY <1>3, <1>5 DEF Under, IsStrictPrefix

(* The pairs of Rename are two files or two directories, and which of the  *)
(* two is seen from the old path.                                          *)
LEMMA PairsAreOfOneKind ==
  ASSUME NEW pair \in CanRename
  PROVE  /\ pair[1] \in Seq(Segment) /\ pair[2] \in Seq(Segment)
         /\ pair[1] \in FilePath => pair[2] \in FilePath
         /\ pair[1] \notin FilePath => pair[1] \in DirPath /\ pair[2] \in DirPath
<1>1. pair \in (FilePath \X FilePath) \cup (DirPath \X DirPath)
  BY DataNodeAssumption
<1> QED
  BY <1>1, PathsAreSequences

(* Only what is no file's path has files below it.                         *)
LEMMA ImpliedIsDirectory ==
  ASSUME NEW pair \in CanRename, isImplied(pair[1])
  PROVE  pair[1] \in DirPath /\ pair[2] \in DirPath
<1>1. PICK p \in FilePath : Under(p, pair[1])
  BY DEF isImplied, FilesBelow, Files
<1>2. pair[1] \notin FilePath
  BY <1>1, FilesHoldNothing DEF Under, IsStrictPrefix
<1> QED
  BY <1>2, PairsAreOfOneKind

-----------------------------------------------------------------------------
(* Type correctness                                                        *)

LEMMA MovedType ==
  ASSUME TypeOK, NEW copied \in SUBSET FilePath, NEW removed, NEW old, NEW new
  PROVE  Moved(copied, removed, old, new) \in [FilePath -> Seq(Chunk) \cup {NoFile}]
<1> SUFFICES ASSUME NEW q \in FilePath, \E p \in copied : Rebase(p, old, new) = q
             PROVE  dataNode[CHOOSE p \in copied : Rebase(p, old, new) = q]
                      \in Seq(Chunk) \cup {NoFile}
  BY DEF TypeOK, Moved
<1>1. (CHOOSE p \in copied : Rebase(p, old, new) = q) \in copied
  OBVIOUS
<1> QED
  BY <1>1 DEF TypeOK

LEMMA TypeStep == TypeOK /\ [Next]_vars => TypeOK'
<1> SUFFICES ASSUME TypeOK, [Next]_vars
             PROVE  TypeOK'
  OBVIOUS
<1> USE DEF TypeOK
<1>1. CASE UNCHANGED vars
  BY <1>1 DEF vars
<1>2. ASSUME NEW p \in FilePath, NEW c \in Payload, Write(p, c) PROVE TypeOK'
  <2>1. c \in Seq(Chunk)
    BY DataNodeAssumption
  <2> QED
    BY <1>2, <2>1, PathsAreSequences DEF Write
<1>3. ASSUME NEW p \in FilePath, DeleteFile(p) PROVE TypeOK'
  BY <1>3 DEF DeleteFile, Without
<1>4. ASSUME NEW d \in DirPath, EnsureDir(d) PROVE TypeOK'
  BY <1>4, PathsAreSequences DEF EnsureDir
<1>5. ASSUME NEW d \in DirPath, DeleteDirectory(d) PROVE TypeOK'
  BY <1>5 DEF DeleteDirectory
<1>6. ASSUME NEW p \in FilePath \cup DirPath, DeleteAll(p) PROVE TypeOK'
  BY <1>6 DEF DeleteAll, Without
<1>7. ASSUME NEW pair \in CanRename, renameFileLocked(pair[1], pair[2]) PROVE TypeOK'
  <2>1. pair[1] \in FilePath /\ pair[2] \in FilePath
    BY <1>7, PairsAreOfOneKind DEF renameFileLocked, Files
  <2>2. dataNode' \in [FilePath -> Seq(Chunk) \cup {NoFile}]
    BY <1>7, <2>1, MovedType DEF renameFileLocked
  <2> QED
    BY <1>7, <2>1, <2>2, PathsAreSequences DEF renameFileLocked
<1>8. ASSUME NEW pair \in CanRename, renameDirectoryLocked(pair[1], pair[2]) PROVE TypeOK'
  <2> DEFINE old == pair[1]
             new == pair[2]
  <2>1. old \in DirPath /\ new \in DirPath
    BY <1>8, ImpliedIsDirectory DEF renameDirectoryLocked
  <2>2. dataNode' \in [FilePath -> Seq(Chunk) \cup {NoFile}]
    <3>1. FilesBelow(old) \subseteq FilePath
      BY DEF FilesBelow, Files
    <3>2. PICK copied \in SUBSET FilePath, removed \in SUBSET FilePath :
            dataNode' = Moved(copied, removed, old, new)
      BY <1>8, <3>1 DEF renameDirectoryLocked
    <3> QED
      BY <3>2, MovedType
  <2>3. directorySet' \subseteq DirPath
    <3>1. Rebase(old, old, new) = new
      BY <2>1, PathsAreSequences, RebaseSelf
    <3> QED
      BY <1>8, <2>1, <3>1 DEF renameDirectoryLocked, directoriesMoved
  <2> QED
    BY <1>8, <2>2, <2>3 DEF renameDirectoryLocked
<1>9. ASSUME NEW h \in Writer, NEW p \in WriterPath, Create(h, p) PROVE TypeOK'
  <2>1. [path |-> p, buffer |-> <<>>] \in OpenWriter
    BY DataNodeAssumption DEF OpenWriter
  <2> QED
    BY <1>9, <2>1 DEF Create
<1>10. ASSUME NEW h \in Writer, NEW p \in WriterPath, Append_(h, p) PROVE TypeOK'
  <2>1. p \in FilePath /\ (IF p \in Files THEN dataNode[p] ELSE <<>>) \in Seq(Chunk)
    BY DataNodeAssumption DEF Files
  <2>2. [path |-> p, buffer |-> IF p \in Files THEN dataNode[p] ELSE <<>>]
          \in OpenWriter
    BY <2>1 DEF OpenWriter
  <2> QED
    BY <1>10, <2>2 DEF Append_
<1>11. ASSUME NEW h \in Writer, NEW x \in Chunk, WriterWrite(h, x) PROVE TypeOK'
  <2>1. writer[h] \in OpenWriter
    BY <1>11 DEF WriterWrite
  <2>2. Append(writer[h].buffer, x) \in Seq(Chunk)
    BY <2>1 DEF OpenWriter
  <2>3. [writer[h] EXCEPT !.buffer = Append(writer[h].buffer, x)] \in OpenWriter
    BY <2>1, <2>2 DEF OpenWriter
  <2> QED
    BY <1>11, <2>3 DEF WriterWrite
<1>12. ASSUME NEW h \in Writer, WriterClose(h) PROVE TypeOK'
  <2>1. writer[h].path \in FilePath /\ writer[h].buffer \in Seq(Chunk)
    BY <1>12 DEF WriterClose, OpenWriter
  <2> QED
    BY <1>12, <2>1, PathsAreSequences DEF WriterClose
<1>13. ASSUME NEW h \in Writer, WriterDrop(h) PROVE TypeOK'
  BY <1>13 DEF WriterDrop
<1>14. CASE Snapshot
  <2>1. Directories \subseteq DirPath
    BY DEF Directories
  <2> QED
    BY <1>14, <2>1 DEF Snapshot, Tar
<1>15. CASE Restore
  <2>1. snapshot.files \in [FilePath -> Seq(Chunk) \cup {NoFile}]
    BY <1>15 DEF Restore, Tar
  <2>2. rebuildDirectorySet(snapshot.files) \subseteq DirPath
    BY PathsAreSequences DEF rebuildDirectorySet
  <2> QED
    BY <1>15, <2>1, <2>2 DEF Restore
<1> QED
  BY <1>1, <1>2, <1>3, <1>4, <1>5, <1>6, <1>7, <1>8, <1>9, <1>10, <1>11, <1>12, <1>13, <1>14,
     <1>15 DEF Next, FileCalls, WriterCalls

LEMMA InitType == Init => TypeOK
BY DEF Init, TypeOK

(* Every variable keeps its type.                                          *)
THEOREM TypeCorrect == Spec => []TypeOK
BY InitType, TypeStep, PTL DEF Spec

-----------------------------------------------------------------------------
(* Restore                                                                 *)

LEMMA ClosedStep == TypeOK /\ SnapshotClosed /\ [Next]_vars => SnapshotClosed'
<1> SUFFICES ASSUME TypeOK, SnapshotClosed, [Next]_vars
             PROVE  SnapshotClosed'
  OBVIOUS
<1>1. CASE snapshot' = snapshot
  BY <1>1 DEF SnapshotClosed
<1>2. CASE Snapshot
  <2>1. snapshot'.files = dataNode /\ snapshot'.dirs = Directories
    BY <1>2 DEF Snapshot
  <2>2. ASSUME NEW p \in FilePath, dataNode[p] # NoFile, NEW d \in Ancestors(p)
        PROVE  d \in Directories
    <3>1. d \in DirPath /\ d \in Seq(Segment) /\ p \in Seq(Segment)
      BY <2>2, PathsAreSequences
    <3>2. Under(p, d)
      BY <2>2, <3>1, AncestorsAreAbove
    <3> QED
      BY <2>2, <3>1, <3>2 DEF Directories, isImplied, FilesBelow, Files
  <2> QED
    BY <2>1, <2>2 DEF SnapshotClosed
<1> QED
  BY <1>1, <1>2
     DEF Next, FileCalls, WriterCalls, vars, Write, EnsureDir, DeleteFile, DeleteDirectory, DeleteAll,
         renameFileLocked, renameDirectoryLocked, Create, Append_, WriterWrite, WriterClose,
         WriterDrop, Restore

LEMMA ClosedAlways == Spec => [](TypeOK /\ SnapshotClosed)
<1>1. Init => TypeOK /\ SnapshotClosed
  BY InitType DEF Init, SnapshotClosed
<1>2. TypeOK /\ SnapshotClosed /\ [Next]_vars => TypeOK' /\ SnapshotClosed'
  BY TypeStep, ClosedStep
<1> QED
  BY <1>1, <1>2, PTL DEF Spec

(* Restore shows no directory the snapshot did not have, however the tree  *)
(* was changed in between.                                                 *)
THEOREM RestoreForgets == Spec => RestoreAddsNothing
<1>1. ASSUME TypeOK, SnapshotClosed, Restore
      PROVE  Directories' \subseteq snapshot.dirs
  <2>1. /\ snapshot # NoSnapshot
        /\ dataNode' = snapshot.files
        /\ directorySet' = rebuildDirectorySet(snapshot.files)
    BY <1>1 DEF Restore
  <2>2. \A p \in FilePath : dataNode'[p] # NoFile => Ancestors(p) \subseteq snapshot.dirs
    BY <1>1, <2>1 DEF SnapshotClosed
  <2>3. directorySet' \subseteq snapshot.dirs
    BY <2>1, <2>2 DEF rebuildDirectorySet
  <2>4. ASSUME NEW d \in DirPath, isImplied(d)'
        PROVE  d \in snapshot.dirs
    <3>1. PICK p \in FilePath : dataNode'[p] # NoFile /\ Under(p, d)
      BY <2>4 DEF isImplied, FilesBelow, Files
    <3>2. d \in Ancestors(p)
      BY <3>1, PathsAreSequences, AncestorsAreAbove
    <3> QED
      BY <2>2, <3>1, <3>2
  <2> QED
    BY <2>3, <2>4 DEF Directories
<1>2. TypeOK /\ SnapshotClosed /\ [Next]_vars
        => [Restore => Directories' \subseteq snapshot.dirs]_vars
  BY <1>1
<1> QED
  BY <1>2, ClosedAlways, PTL DEF Spec, RestoreAddsNothing

-----------------------------------------------------------------------------
(* Rename                                                                  *)

(* With the paths apart, a file that is not removed stays, and a removed   *)
(* one is at its new place.                                                *)
LEMMA MovedKeeps ==
  ASSUME NEW old \in Seq(Segment), NEW new \in Seq(Segment), Apart(old, new),
         NEW copied \in SUBSET FilePath, NEW removed \in SUBSET copied,
         \A q \in copied : IsPrefix(old, q) /\ Rebase(q, old, new) \in FilePath,
         NEW p \in FilePath, IsPrefix(old, p)
  PROVE  /\ p \notin removed => Moved(copied, removed, old, new)[p] = dataNode[p]
         /\ p \in removed =>
              Moved(copied, removed, old, new)[Rebase(p, old, new)] = dataNode[p]
<1>1. FilePath \subseteq Seq(Segment)
  BY PathsAreSequences
<1>2. \A q \in copied : ~IsPrefix(old, Rebase(q, old, new))
  BY <1>1, RebaseLeaves
<1>3. ASSUME p \notin removed
      PROVE  Moved(copied, removed, old, new)[p] = dataNode[p]
  <2>1. ~\E q \in copied : Rebase(q, old, new) = p
    BY <1>2
  <2> QED
    BY <1>3, <2>1 DEF Moved
<1>4. ASSUME p \in removed
      PROVE  Moved(copied, removed, old, new)[Rebase(p, old, new)] = dataNode[p]
  <2> DEFINE target == Rebase(p, old, new)
  <2>1. target \in FilePath /\ target \notin removed
    BY <1>2, <1>4
  <2>2. \A q \in copied : Rebase(q, old, new) = target => q = p
    BY <1>1, RebaseInjective
  <2>3. (CHOOSE q \in copied : Rebase(q, old, new) = target) = p
    BY <1>4, <2>2
  <2> QED
    BY <1>4, <2>1, <2>3 DEF Moved
<1> QED
  BY <1>3, <1>4

(* What a Rename of a directory does to the files, whether it fails        *)
(* halfway or not.                                                         *)
LEMMA DirectoryMoves ==
  ASSUME RenamesApart, NEW pair \in CanRename, renameDirectoryLocked(pair[1], pair[2]),
         NEW p \in FilesBelow(pair[1])
  PROVE  dataNode'[p] = dataNode[p] \/ dataNode'[Rebase(p, pair[1], pair[2])] = dataNode[p]
<1> DEFINE old == pair[1]
           new == pair[2]
<1>1. /\ FilesBelow(old) \subseteq FilePath
      /\ \A q \in FilesBelow(old) : IsPrefix(old, q) /\ Rebase(q, old, new) \in FilePath
  BY DEF renameDirectoryLocked, FilesBelow, Files, Under, IsStrictPrefix
<1>2. PICK copied \in SUBSET FilesBelow(old), removed \in SUBSET FilesBelow(old) :
        removed \subseteq copied /\ dataNode' = Moved(copied, removed, old, new)
  BY DEF renameDirectoryLocked
<1>3. old \in Seq(Segment) /\ new \in Seq(Segment) /\ Apart(old, new)
  BY PairsAreOfOneKind DEF RenamesApart
<1> HIDE DEF old, new
<1>4. \/ Moved(copied, removed, old, new)[p] = dataNode[p]
      \/ Moved(copied, removed, old, new)[Rebase(p, old, new)] = dataNode[p]
  <2>1. /\ copied \in SUBSET FilePath /\ removed \in SUBSET copied
        /\ \A q \in copied : IsPrefix(old, q) /\ Rebase(q, old, new) \in FilePath
        /\ p \in FilePath /\ IsPrefix(old, p)
    BY <1>1, <1>2 DEF old
  <2> QED
    BY <1>3, <2>1, MovedKeeps
<1> QED
  BY <1>2, <1>4 DEF old, new

(* A Rename between paths of which neither lies in the other, complete or  *)
(* failed halfway, loses no file.                                          *)
THEOREM RenameLosesNothing == RenamesApart => (Spec => RenameKeepsFiles)
<1> SUFFICES ASSUME RenamesApart
             PROVE  Spec => RenameKeepsFiles
  OBVIOUS
<1> DEFINE Kept(pair) ==
             \A p \in Files : p = pair[1] \/ Under(p, pair[1]) =>
               \/ dataNode'[p] = dataNode[p]
               \/ dataNode'[Rebase(p, pair[1], pair[2])] = dataNode[p]
<1>1. ASSUME NEW pair \in CanRename, renameFileLocked(pair[1], pair[2])
      PROVE  Kept(pair)
  <2> DEFINE old == pair[1]
             new == pair[2]
  <2>1. /\ old \in FilePath /\ new \in FilePath /\ Apart(old, new)
        /\ old \in Seq(Segment) /\ new \in Seq(Segment)
    BY <1>1, PairsAreOfOneKind DEF renameFileLocked, Files, RenamesApart
  <2>2. IsPrefix(old, old) /\ Rebase(old, old, new) = new
    BY <2>1, RebaseSelf
  <2>3. PICK removed \in SUBSET {old} : dataNode' = Moved({old}, removed, old, new)
    BY <1>1 DEF renameFileLocked
  <2>4. \A p \in Files : p = old \/ Under(p, old) => p = old
    BY <2>1, FilesHoldNothing DEF Files, Under, IsStrictPrefix
  <2> HIDE DEF old, new
  <2>5. \/ Moved({old}, removed, old, new)[old] = dataNode[old]
        \/ Moved({old}, removed, old, new)[Rebase(old, old, new)] = dataNode[old]
    BY <2>1, <2>2, MovedKeeps
  <2>6. \/ dataNode'[old] = dataNode[old]
        \/ dataNode'[Rebase(old, old, new)] = dataNode[old]
    BY <2>3, <2>5
  <2> QED
    BY <2>4, <2>6 DEF old, new
<1>2. ASSUME NEW pair \in CanRename, renameDirectoryLocked(pair[1], pair[2])
      PROVE  Kept(pair)
  <2>1. pair[1] \in DirPath
    BY <1>2, ImpliedIsDirectory DEF renameDirectoryLocked
  <2>2. \A p \in Files : p = pair[1] \/ Under(p, pair[1]) => p \in FilesBelow(pair[1])
    BY <2>1, PathsAreSequences DEF FilesBelow, Files
  <2> QED
    BY <1>2, <2>2, DirectoryMoves
<1>3. [Next]_vars =>
        [\A pair \in CanRename :
           renameFileLocked(pair[1], pair[2]) \/ renameDirectoryLocked(pair[1], pair[2]) =>
             Kept(pair)]_vars
  BY <1>1, <1>2
<1> QED
  BY <1>3, PTL DEF Spec, RenameKeepsFiles

(* A Rename between such paths that leaves no file below the old path      *)
(* leaves no directory there either.                                       *)
THEOREM RenameLeavesNothing == RenamesApart => (Spec => RenameEmptiesSource)
<1> SUFFICES ASSUME RenamesApart
             PROVE  Spec => RenameEmptiesSource
  OBVIOUS
<1> DEFINE Emptied(pair) == ~\E d \in Directories' : d = pair[1] \/ Under(d, pair[1])
<1>1. ASSUME TypeOK, TypeOK', NEW pair \in CanRename, renameDirectoryLocked(pair[1], pair[2]),
             FilesBelow(pair[1])' = {}
      PROVE  Emptied(pair)
  <2> DEFINE old == pair[1]
             new == pair[2]
  <2>1. /\ old \in DirPath /\ new \in DirPath /\ Apart(old, new)
        /\ old \in Seq(Segment) /\ new \in Seq(Segment)
    BY <1>1, ImpliedIsDirectory, PairsAreOfOneKind DEF renameDirectoryLocked, RenamesApart
  <2>2. IsPrefix(old, old)
    BY <2>1, RebaseSelf
  <2>3. directorySet' = directoriesMoved(old, new)
    <3> SUFFICES ASSUME NEW removed \in SUBSET FilesBelow(old), NEW p \in FilesBelow(old) \ removed,
                        NEW copied \in {removed, removed \cup {p}},
                        dataNode' = Moved(copied, removed, old, new)
                 PROVE  FALSE
      BY <1>1 DEF renameDirectoryLocked
    <3>1. /\ p \in FilePath /\ dataNode[p] # NoFile /\ Under(p, old) /\ IsPrefix(old, p)
          /\ copied \in SUBSET FilePath /\ removed \in SUBSET copied
          /\ \A q \in copied : IsPrefix(old, q) /\ Rebase(q, old, new) \in FilePath
      BY <1>1 DEF renameDirectoryLocked, FilesBelow, Files, Under, IsStrictPrefix
    <3> HIDE DEF old, new
    <3>2. Moved(copied, removed, old, new)[p] = dataNode[p]
      BY <2>1, <3>1, MovedKeeps
    <3>3. p \in FilesBelow(old)'
      BY <3>1, <3>2 DEF FilesBelow, Files
    <3> QED
      BY <1>1, <3>3 DEF old
  <2>4. ASSUME NEW d \in directorySet', IsPrefix(old, d)
        PROVE  FALSE
    <3>1. PICK e \in directorySet : /\ e = old \/ Under(e, old)
                                    /\ d = Rebase(e, old, new)
      BY <2>2, <2>3, <2>4 DEF directoriesMoved, Under, IsStrictPrefix
    <3>2. e \in Seq(Segment) /\ IsPrefix(old, e)
      BY <1>1, <2>2, <3>1, PathsAreSequences DEF TypeOK, Under, IsStrictPrefix
    <3> HIDE DEF old, new
    <3> QED
      BY <2>1, <2>4, <3>1, <3>2, RebaseLeaves
  <2>5. ASSUME NEW d \in DirPath, isImplied(d)', IsPrefix(old, d)
        PROVE  FALSE
    <3>1. PICK p \in FilesBelow(d)' : TRUE
      BY <2>5 DEF isImplied
    <3>2. p \in FilePath /\ dataNode'[p] # NoFile /\ Under(p, d)
      BY <3>1 DEF FilesBelow, Files
    <3> HIDE DEF old, new
    <3>3. Under(p, old)
      BY <2>1, <2>5, <3>2, PathsAreSequences, UnderAbove
    <3>4. p \in FilesBelow(old)'
      BY <3>2, <3>3 DEF FilesBelow, Files
    <3> QED
      BY <1>1, <3>4 DEF old
  <2> QED
    BY <2>2, <2>4, <2>5 DEF Directories, Under, IsStrictPrefix
<1>2. TypeOK /\ TypeOK' /\ [Next]_vars =>
        [\A pair \in CanRename :
           renameDirectoryLocked(pair[1], pair[2]) /\ FilesBelow(pair[1])' = {} =>
             Emptied(pair)]_vars
  BY <1>1
<1> QED
  BY <1>2, TypeCorrect, PTL DEF Spec, RenameEmptiesSource
=============================================================================
