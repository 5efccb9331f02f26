----------------------- MODULE ScopedWorkspace_proofs -----------------------
(***************************************************************************)
(* Theorems about MemoryMedium, for every set of paths, contents, modes    *)
(* and writers, and about the provider's requests over it, for any number  *)
(* of requests and any commands.                                           *)
(***************************************************************************)
EXTENDS ScopedWorkspace, Paths_proofs, TLAPS

(* A step of the medium, whoever calls it and with whatever paths.         *)
MediumStep ==
  \/ \E p \in Path : \/ \E c \in Seq(Chunk), m \in Mode : WriteMode(p, c, m)
                     \/ EnsureDir(p) \/ DeleteFile(p) \/ DeleteDirectory(p) \/ DeleteAll(p)
                     \/ MoveFile(p) \/ MoveDir(p)
                     \/ \E h \in Writer : Create(h, p) \/ Append_(h, p)
  \/ \E h \in Writer : \/ \E x \in Chunk : WriterWrite(h, x) \/ writeAndClose(h, x)
                       \/ WriterClose(h) \/ WriterDrop(h)
  \/ \E old, new \in Path : RenameFile(old, new) \/ RenameDirectory(old, new)
  \/ RenameReturns

(* What a Rename in progress has left to do lies below its old path and    *)
(* has a place below its new one.                                          *)
RenameUnderway ==
  /\ rename = NoRename => filesToMove = {} /\ dirsToMove = {}
  /\ rename # NoRename =>
       /\ filesToMove \subseteq rename.files
       /\ filesToMove \subseteq Files
       /\ \A p \in rename.files \cup dirsToMove : IsPrefix(rename.old, p) /\ Target(p) \in Path

(* The inductive invariant for any pairs of paths to rename.               *)
StoreInv == TypeOK /\ RenameUnderway /\ MetadataTogether

(* The pairs that callers of the medium itself rename.                     *)
RenameKnown == rename # NoRename => <<rename.old, rename.new>> \in CanRename

(* The pairs callers rename are such that neither path lies in the other.  *)
RenamesApart == \A pair \in CanRename : Apart(pair[1], pair[2])

-----------------------------------------------------------------------------
(* Type correctness and the metadata maps                                  *)

LEMMA InitStore == Init => StoreInv
<1> SUFFICES ASSUME Init
             PROVE  StoreInv
  OBVIOUS
<1>1. TypeOK
  BY MemoryAssumption DEF Init, TypeOK, Held
<1>2. RenameUnderway
  BY DEF Init, RenameUnderway
<1>3. MetadataTogether
  BY DEF Init, MetadataTogether, IsFile
<1> QED
  BY <1>1, <1>2, <1>3 DEF StoreInv

(* The ancestors callers' paths have are paths too.                        *)
LEMMA AncestorsArePaths == \A p \in Path : Ancestors(p) \subseteq Path
BY MemoryAssumption

LEMMA TypeStep == TypeOK /\ RenameUnderway /\ [MediumStep]_vars => TypeOK'
<1> SUFFICES ASSUME TypeOK, RenameUnderway, [MediumStep]_vars
             PROVE  TypeOK'
  OBVIOUS
<1> USE DEF TypeOK, Held
<1>1. CASE UNCHANGED vars
  BY <1>1 DEF vars
<1>2. ASSUME NEW p \in Path, NEW c \in Seq(Chunk), NEW m \in Mode, WriteMode(p, c, m)
      PROVE  TypeOK'
  BY <1>2, AncestorsArePaths DEF WriteMode, Store, renaming
<1>3. ASSUME NEW p \in Path, EnsureDir(p) PROVE TypeOK'
  BY <1>3, AncestorsArePaths DEF EnsureDir, store, renaming
<1>4. ASSUME NEW p \in Path, DeleteFile(p) PROVE TypeOK'
  BY <1>4 DEF DeleteFile, Erase, renaming
<1>5. ASSUME NEW p \in Path, DeleteDirectory(p) PROVE TypeOK'
  BY <1>5 DEF DeleteDirectory, store, renaming
<1>6. ASSUME NEW p \in Path, DeleteAll(p) PROVE TypeOK'
  BY <1>6 DEF DeleteAll, Erase, renaming
<1>7. ASSUME NEW p \in Path, NEW h \in Writer, Create(h, p) PROVE TypeOK'
  <2>1. writer' \in [Writer -> OpenWriter \cup {NoWriter}]
    BY <1>7, MemoryAssumption DEF Create, OpenWriter
  <2> QED
    BY <1>7, <2>1 DEF Create, store, renaming
<1>8. ASSUME NEW p \in Path, NEW h \in Writer, Append_(h, p) PROVE TypeOK'
  <2>1. /\ (IF IsFile(p) THEN fileContents[p] ELSE <<>>) \in Seq(Chunk)
        /\ (IF fileModes[p] = NoMode THEN DefaultMode ELSE fileModes[p]) \in Mode
    BY MemoryAssumption DEF IsFile
  <2>2. writer' \in [Writer -> OpenWriter \cup {NoWriter}]
    BY <1>8, <2>1 DEF Append_, OpenWriter, modeForPath
  <2> QED
    BY <1>8, <2>2 DEF Append_, store, renaming
<1>9. ASSUME NEW h \in Writer, NEW x \in Chunk, WriterWrite(h, x) PROVE TypeOK'
  <2>1. writer[h] \in OpenWriter
    BY <1>9 DEF WriterWrite
  <2>2. Append(writer[h].data, x) \in Seq(Chunk)
    BY <2>1 DEF OpenWriter
  <2>3. [writer[h] EXCEPT !.data = Append(writer[h].data, x)] \in OpenWriter
    BY <2>1, <2>2 DEF OpenWriter
  <2>4. writer' \in [Writer -> OpenWriter \cup {NoWriter}]
    BY <1>9, <2>3 DEF WriterWrite
  <2> QED
    BY <1>9, <2>4 DEF WriterWrite, store, renaming
<1>10. ASSUME NEW h \in Writer, WriterClose(h) PROVE TypeOK'
  <2>1. writer[h].path \in Path /\ writer[h].data \in Seq(Chunk) /\ writer[h].mode \in Mode
    BY <1>10 DEF WriterClose, OpenWriter
  <2> QED
    BY <1>10, <2>1, AncestorsArePaths DEF WriterClose, Store, renaming
<1>11. ASSUME NEW h \in Writer, WriterDrop(h) PROVE TypeOK'
  BY <1>11 DEF WriterDrop, store, renaming
<1>12. ASSUME NEW old \in Path, NEW new \in Path, RenameFile(old, new) PROVE TypeOK'
  <2>1. rename' \in Renames
    BY <1>12 DEF RenameFile, Renames
  <2> QED
    BY <1>12, <2>1 DEF RenameFile, store
<1>13. ASSUME NEW old \in Path, NEW new \in Path, RenameDirectory(old, new) PROVE TypeOK'
  <2>1. directories' \subseteq Path
    BY <1>13 DEF RenameDirectory
  <2>2. rename' \in Renames
    BY <1>13 DEF RenameDirectory, Renames, Files
  <2> QED
    BY <1>13, <2>1, <2>2 DEF RenameDirectory, store, Files
<1>14. ASSUME NEW p \in Path, MoveFile(p) PROVE TypeOK'
  <2>1. Target(p) \in Path
    BY <1>14 DEF MoveFile, RenameUnderway
  <2> QED
    BY <1>14, <2>1 DEF MoveFile, Relocate
<1>15. ASSUME NEW d \in Path, MoveDir(d) PROVE TypeOK'
  <2>1. Target(d) \in Path
    BY <1>15 DEF MoveDir, RenameUnderway
  <2> QED
    BY <1>15, <2>1 DEF MoveDir, store
<1>16. CASE RenameReturns
  BY <1>16 DEF RenameReturns, store
<1>17. ASSUME NEW h \in Writer, NEW x \in Chunk, writeAndClose(h, x) PROVE TypeOK'
  <2>1. /\ writer[h].path \in Path /\ Append(writer[h].data, x) \in Seq(Chunk)
        /\ writer[h].mode \in Mode
    BY <1>17, AppendProperties DEF writeAndClose, OpenWriter
  <2>2. writer' \in [Writer -> OpenWriter \cup {NoWriter}]
    BY <1>17 DEF writeAndClose
  <2>3. CASE writer[h].path \in directories
    BY <1>17, <2>2, <2>3 DEF writeAndClose, store, renaming
  <2>4. CASE writer[h].path \notin directories
    <3>1. /\ directories' = directories \cup Ancestors(writer[h].path)
          /\ Store(writer[h].path, Append(writer[h].data, x), writer[h].mode)
          /\ UNCHANGED renaming
      BY <1>17, <2>4 DEF writeAndClose
    <3>2. directories' \subseteq Path
      BY <2>1, <3>1, AncestorsArePaths
    <3>3. /\ fileContents' \in [Path -> Seq(Chunk) \cup {NoFile}]
          /\ fileModes' \in [Path -> Mode \cup {NoMode}]
          /\ modificationTimes' \subseteq Path
      BY <2>1, <3>1 DEF Store
    <3> QED
      BY <2>2, <3>1, <3>2, <3>3 DEF renaming
  <2> QED
    BY <2>3, <2>4
<1> QED
  BY <1>1, <1>2, <1>3, <1>4, <1>5, <1>6, <1>7, <1>8, <1>9, <1>10, <1>11, <1>12, <1>13,
     <1>14, <1>15, <1>16, <1>17 DEF MediumStep

(* Outside a Rename, nothing but a Rename can start one.                   *)
LEMMA RenameIdle ==
  ASSUME RenameUnderway, rename = NoRename, UNCHANGED renaming
  PROVE  RenameUnderway'
BY DEF RenameUnderway, renaming

LEMMA RenameStep == TypeOK /\ RenameUnderway /\ [MediumStep]_vars => RenameUnderway'
<1> SUFFICES ASSUME TypeOK, RenameUnderway, [MediumStep]_vars
             PROVE  RenameUnderway'
  OBVIOUS
<1>1. CASE UNCHANGED vars
  BY <1>1 DEF vars, RenameUnderway, Files, IsFile, Target
<1>2. CASE rename = NoRename /\ UNCHANGED renaming
  BY <1>2, RenameIdle
<1>3. ASSUME NEW old \in Path, NEW new \in Path, RenameFile(old, new) PROVE RenameUnderway'
  <2>1. IsPrefix(old, old) /\ Rebase(old, old, new) = new
    BY MemoryAssumption, RebaseSelf
  <2>2. rename' \in Renames
    BY <1>3 DEF RenameFile, Renames
  <2> QED
    BY <1>3, <2>1, <2>2, MemoryAssumption
       DEF RenameFile, RenameUnderway, Target, store, Files, IsFile
<1>4. ASSUME NEW old \in Path, NEW new \in Path, RenameDirectory(old, new)
      PROVE  RenameUnderway'
  <2>1. rename' \in Renames
    BY <1>4 DEF RenameDirectory, Renames, Files
  <2> QED
    BY <1>4, <2>1, MemoryAssumption
       DEF RenameDirectory, RenameUnderway, Target, store, Files, IsFile, Under, IsStrictPrefix
<1>5. ASSUME NEW p \in Path, MoveFile(p) PROVE RenameUnderway'
  <2>1. rename # NoRename /\ Target(p) \in Path /\ IsFile(p)
    BY <1>5 DEF MoveFile, RenameUnderway, Files
  <2>2. \A q \in filesToMove \ {p} : fileContents'[q] # NoFile
    BY <1>5, <2>1 DEF MoveFile, Relocate, TypeOK, RenameUnderway, Files, IsFile
  <2> QED
    BY <1>5, <2>1, <2>2 DEF MoveFile, RenameUnderway, Target, Files, IsFile, TypeOK
<1>6. ASSUME NEW d \in Path, MoveDir(d) PROVE RenameUnderway'
  BY <1>6 DEF MoveDir, RenameUnderway, Target, store, Files, IsFile
<1>7. CASE RenameReturns
  BY <1>7 DEF RenameReturns, RenameUnderway
<1> QED
  BY <1>1, <1>2, <1>3, <1>4, <1>5, <1>6, <1>7
     DEF MediumStep, WriteMode, EnsureDir, DeleteFile, DeleteDirectory, DeleteAll, Create, Append_,
         WriterWrite, WriterClose, WriterDrop, writeAndClose

(* The steps that keep the three maps of a file together.                  *)
LEMMA StoreTogether ==
  ASSUME TypeOK, MetadataTogether, NEW p \in Path, NEW c \in Seq(Chunk), NEW m \in Mode,
         Store(p, c, m)
  PROVE  MetadataTogether'
BY MemoryAssumption DEF Store, MetadataTogether, IsFile, TypeOK

LEMMA EraseTogether ==
  ASSUME TypeOK, MetadataTogether, NEW P, Erase(P)
  PROVE  MetadataTogether'
BY DEF Erase, MetadataTogether, IsFile, TypeOK

LEMMA RelocateTogether ==
  ASSUME TypeOK, MetadataTogether, NEW p \in Path, NEW q \in Path, IsFile(p), Relocate(p, q)
  PROVE  MetadataTogether'
BY DEF Relocate, MetadataTogether, IsFile, TypeOK

LEMMA UnchangedTogether ==
  ASSUME MetadataTogether, UNCHANGED store
  PROVE  MetadataTogether'
BY DEF store, MetadataTogether, IsFile

LEMMA TogetherStep == StoreInv /\ [MediumStep]_vars => MetadataTogether'
<1> SUFFICES ASSUME StoreInv, [MediumStep]_vars
             PROVE  MetadataTogether'
  OBVIOUS
<1> USE DEF StoreInv
<1>1. CASE UNCHANGED store
  BY <1>1, UnchangedTogether
<1>2. ASSUME NEW p \in Path, NEW c \in Seq(Chunk), NEW m \in Mode, WriteMode(p, c, m)
      PROVE  MetadataTogether'
  BY <1>2, StoreTogether DEF WriteMode
<1>3. ASSUME NEW h \in Writer, WriterClose(h) PROVE MetadataTogether'
  <2>1. writer[h].path \in Path /\ writer[h].data \in Seq(Chunk) /\ writer[h].mode \in Mode
    BY <1>3 DEF WriterClose, OpenWriter, TypeOK
  <2> QED
    BY <1>3, <2>1, StoreTogether DEF WriterClose
<1>4. ASSUME NEW P, Erase(P) PROVE MetadataTogether'
  BY <1>4, EraseTogether
<1>5. ASSUME NEW p \in Path, MoveFile(p) PROVE MetadataTogether'
  <2>1. Target(p) \in Path /\ IsFile(p)
    BY <1>5 DEF MoveFile, RenameUnderway, Files
  <2> QED
    BY <1>5, <2>1, RelocateTogether DEF MoveFile
<1>6. ASSUME NEW h \in Writer, NEW x \in Chunk, writeAndClose(h, x) PROVE MetadataTogether'
  <2>1. /\ writer[h].path \in Path /\ Append(writer[h].data, x) \in Seq(Chunk)
        /\ writer[h].mode \in Mode
    BY <1>6, AppendProperties DEF writeAndClose, OpenWriter, TypeOK
  <2> QED
    BY <1>1, <1>6, <2>1, StoreTogether DEF writeAndClose
<1> QED
  BY <1>1, <1>2, <1>3, <1>4, <1>5, <1>6
     DEF MediumStep, vars, store, EnsureDir, DeleteFile, DeleteDirectory,
         DeleteAll, Create, Append_, WriterWrite, WriterDrop, RenameFile, RenameDirectory, MoveDir,
         RenameReturns

LEMMA StoreStep == StoreInv /\ [MediumStep]_vars => StoreInv'
BY TypeStep, RenameStep, TogetherStep DEF StoreInv

(* The steps of the medium alone are steps of the medium, and its callers  *)
(* rename the pairs given.                                                 *)
LEMMA NextIsStep == Next => MediumStep
<1> SUFFICES ASSUME Next
             PROVE  MediumStep
  OBVIOUS
<1>1. /\ \A load \in Payload : load[1] \in Seq(Chunk) /\ load[2] \in Mode
      /\ \A pair \in CanRename : pair[1] \in Path /\ pair[2] \in Path
      /\ WriterPath \subseteq Path
  BY MemoryAssumption
<1>2. ASSUME NEW p \in Path, FileCalls(p) PROVE MediumStep
  BY <1>1, <1>2 DEF FileCalls, MediumStep
<1>3. ASSUME NEW h \in Writer, WriterCalls(h) PROVE MediumStep
  BY <1>1, <1>3 DEF WriterCalls, MediumStep
<1>4. CASE RenameSteps
  BY <1>1, <1>4 DEF RenameSteps, MediumStep
<1> QED
  BY <1>2, <1>3, <1>4 DEF Next

LEMMA KnownStep == RenameKnown /\ [Next]_vars => RenameKnown'
<1> SUFFICES ASSUME RenameKnown, [Next]_vars
             PROVE  RenameKnown'
  OBVIOUS
<1>1. \A pair \in CanRename : pair = <<pair[1], pair[2]>>
  BY MemoryAssumption
<1>2. ASSUME NEW pair \in CanRename, RenameFile(pair[1], pair[2]) \/ RenameDirectory(pair[1], pair[2])
      PROVE  RenameKnown'
  BY <1>1, <1>2 DEF RenameFile, RenameDirectory, RenameKnown
<1>3. CASE rename' \in {rename, NoRename}
  BY <1>3 DEF RenameKnown
<1> QED
  BY <1>2, <1>3
     DEF Next, FileCalls, WriterCalls, RenameSteps, vars, renaming, WriteMode, EnsureDir, DeleteFile,
         DeleteDirectory, DeleteAll, Create, Append_, WriterWrite, WriterClose, WriterDrop, MoveFile,
         MoveDir, RenameReturns

LEMMA StoreAlways == Spec => [](StoreInv /\ RenameKnown)
<1>1. Init => StoreInv /\ RenameKnown
  BY InitStore DEF Init, RenameKnown
<1>2. StoreInv /\ RenameKnown /\ [Next]_vars => (StoreInv /\ RenameKnown)'
  BY StoreStep, NextIsStep, KnownStep
<1> QED
  BY <1>1, <1>2, PTL DEF Spec

(* Every variable keeps its type.                                          *)
THEOREM MediumTypeCorrect == Spec => []TypeOK
<1>1. StoreInv => TypeOK
  BY DEF StoreInv
<1> QED
  BY <1>1, StoreAlways, PTL

(* A path always has content, mode and modification time together, for     *)
(* all renames, also of a directory into itself.                           *)
THEOREM MetadataStaysTogether == Spec => []MetadataTogether
<1>1. StoreInv => MetadataTogether
  BY DEF StoreInv
<1> QED
  BY <1>1, StoreAlways, PTL

-----------------------------------------------------------------------------
(* Rename moves a whole tree                                               *)

(* With the paths apart, no place below the new path is a path to move.    *)
LEMMA TargetsApart ==
  ASSUME RenamesApart, RenameKnown, RenameUnderway, TypeOK, rename # NoRename,
         NEW p \in rename.files, NEW q \in rename.files
  PROVE  /\ Target(p) # q
         /\ p # q => Target(p) # Target(q)
<1>1. /\ rename.old \in Seq(Segment) /\ rename.new \in Seq(Segment)
      /\ p \in Seq(Segment) /\ q \in Seq(Segment)
      /\ IsPrefix(rename.old, p) /\ IsPrefix(rename.old, q)
  BY MemoryAssumption DEF TypeOK, Renames, RenameUnderway
<1>2. Apart(rename.old, rename.new)
  <2>1. <<rename.old, rename.new>> \in CanRename
    BY DEF RenameKnown
  <2> QED
    BY <2>1 DEF RenamesApart
<1>3. ~IsPrefix(rename.old, Rebase(p, rename.old, rename.new))
  BY <1>1, <1>2, RebaseLeaves
<1>4. p # q => Rebase(p, rename.old, rename.new) # Rebase(q, rename.old, rename.new)
  BY <1>1, RebaseInjective
<1> QED
  BY <1>1, <1>3, <1>4 DEF Target

LEMMA MovesStep == RenamesApart /\ StoreInv /\ RenameKnown /\ RenameMovesTree /\ [Next]_vars => RenameMovesTree'
<1> SUFFICES ASSUME RenamesApart, StoreInv, RenameKnown, RenameMovesTree, [Next]_vars
             PROVE  RenameMovesTree'
  OBVIOUS
<1> USE DEF StoreInv
<1>1. CASE UNCHANGED <<store, renaming>>
  BY <1>1 DEF RenameMovesTree, store, renaming, Held, Target
<1>2. CASE rename' = NoRename
  BY <1>2 DEF RenameMovesTree
<1>3. ASSUME NEW pair \in CanRename, RenameFile(pair[1], pair[2]) PROVE RenameMovesTree'
  BY <1>3, MemoryAssumption DEF RenameFile, RenameMovesTree, Held, store
<1>4. ASSUME NEW pair \in CanRename, RenameDirectory(pair[1], pair[2]) PROVE RenameMovesTree'
  BY <1>4 DEF RenameDirectory, RenameMovesTree, Held, store, Files
<1>5. ASSUME NEW p \in Path, MoveFile(p) PROVE RenameMovesTree'
  <2>1. /\ rename # NoRename /\ p \in rename.files /\ IsFile(p)
        /\ Target(p) \in Path /\ fileModes[p] # NoMode
        /\ rename.files \subseteq Path
    BY <1>5 DEF MoveFile, RenameUnderway, Files, MetadataTogether, TypeOK, Renames
  <2> DEFINE Later(q) == <<fileContents'[q], fileModes'[q]>>
  <2>2. /\ Later(Target(p)) = Held(p)
        /\ \A q \in Path \ {p, Target(p)} : Later(q) = Held(q)
    <3>1. Target(p) # p
      BY <2>1, TargetsApart
    <3> QED
      BY <1>5, <2>1, <3>1 DEF MoveFile, Relocate, Held, TypeOK
  <2>3. ASSUME NEW q \in rename.files
        PROVE  origin[q] = IF q \in filesToMove' THEN Later(q) ELSE Later(Target(q))
    <3>1. /\ Target(q) \in Path
          /\ Target(q) # p /\ Target(p) # q
          /\ q # p => Target(q) # Target(p)
      BY <2>1, TargetsApart DEF RenameUnderway
    <3>2. CASE q = p
      BY <1>5, <2>1, <2>2, <3>2 DEF MoveFile, RenameMovesTree
    <3>3. CASE q # p
      <4>1. Later(q) = Held(q) /\ Later(Target(q)) = Held(Target(q))
        <5>1. q \in Path \ {p, Target(p)} /\ Target(q) \in Path \ {p, Target(p)}
          BY <2>1, <3>1, <3>3
        <5> HIDE DEF Later
        <5> QED
          BY <2>2, <5>1
      <4>2. q \in filesToMove' <=> q \in filesToMove
        BY <1>5, <3>3 DEF MoveFile
      <4> QED
        BY <2>1, <4>1, <4>2 DEF RenameMovesTree
    <3> QED
      BY <3>2, <3>3
  <2>4. rename' = rename /\ origin' = origin
    BY <1>5 DEF MoveFile
  <2> QED
    BY <2>3, <2>4 DEF RenameMovesTree, Target, Held
<1>6. ASSUME NEW d \in Path, MoveDir(d) PROVE RenameMovesTree'
  BY <1>6 DEF MoveDir, RenameMovesTree, Held, store, Target
<1> QED
  BY <1>1, <1>2, <1>3, <1>4, <1>5, <1>6
     DEF Next, FileCalls, WriterCalls, RenameSteps, vars, store, renaming, WriteMode, EnsureDir,
         DeleteFile, DeleteDirectory, DeleteAll, Create, Append_, WriterWrite, WriterClose, WriterDrop,
         RenameReturns

LEMMA InitMoves == Init => RenameMovesTree
BY DEF Init, RenameMovesTree

(* A Rename between paths of which neither lies in the other loses no file *)
(* and mixes up no contents or modes, whichever order the loop takes.      *)
THEOREM RenameLosesNothing == RenamesApart => (Spec => []RenameMovesTree)
<1> SUFFICES ASSUME RenamesApart
             PROVE  Spec => []RenameMovesTree
  OBVIOUS
<1>1. StoreInv /\ RenameKnown /\ RenameMovesTree /\ [Next]_vars => RenameMovesTree'
  BY MovesStep
<1> QED
  BY InitMoves, <1>1, StoreAlways, PTL DEF Spec

-----------------------------------------------------------------------------
(* The ancestors of what is stored are entered                             *)

(* The pairs callers rename are different names in one directory.          *)
RenamesStay ==
  \A pair \in CanRename : pair[1] # pair[2] /\ Ancestors(pair[1]) = Ancestors(pair[2])

(* Whatever is stored or entered has its ancestors entered.                *)
AllEntered == \A p \in Files \cup directories : Ancestors(p) \subseteq directories

(* While a directory is renamed, what is below its old path has still to   *)
(* move, and an ancestor that is not entered is the place of a directory   *)
(* that has still to move.                                                 *)
DirectoryUnderway ==
  /\ \A p \in rename.files \cup dirsToMove : Under(p, rename.old)
  /\ \A p \in Files : Under(p, rename.old) => p \in filesToMove
  /\ \A d \in directories : Under(d, rename.old) => d \in dirsToMove
  /\ Ancestors(rename.new) \cup {rename.new} \subseteq directories
  /\ \A p \in Files \cup directories : ~Under(p, rename.old) =>
       \A up \in Ancestors(p) : up \in directories \/ \E d \in dirsToMove : up = Target(d)
  /\ \A p \in filesToMove \cup dirsToMove : \A up \in Ancestors(p) :
       Under(up, rename.old) => up \in dirsToMove \/ Target(up) \in directories

(* The inductive invariant for renames that stay in one directory; a file  *)
(* is renamed when the old path is among the files to move.                *)
EnteredInv ==
  /\ rename = NoRename => AllEntered
  /\ rename # NoRename /\ rename.old \in rename.files =>
       AllEntered /\ rename.files = {rename.old} /\ dirsToMove = {}
  /\ rename # NoRename /\ rename.old \notin rename.files => DirectoryUnderway

(* Paths are sequences, and so are their ancestors.                        *)
LEMMA PathSequences ==
  /\ \A p \in Path : p \in Seq(Segment) /\ p # <<>>
  /\ \A p \in Path : \A up \in Ancestors(p) : up \in Path /\ Under(p, up)
<1>1. \A p \in Path : p \in Seq(Segment) /\ p # <<>>
  BY MemoryAssumption
<1>2. \A p \in Path : \A up \in Ancestors(p) : up \in Path
  BY MemoryAssumption
<1> QED
  BY <1>1, <1>2, AncestorsAreAbove

(* Two different names in one directory are apart.                         *)
LEMMA StayApart ==
  ASSUME RenamesStay, NEW pair \in CanRename
  PROVE  /\ pair[1] \in Path /\ pair[2] \in Path
         /\ Ancestors(pair[1]) = Ancestors(pair[2])
         /\ Apart(pair[1], pair[2])
<1>1. /\ pair[1] \in Path /\ pair[2] \in Path
      /\ pair[1] # pair[2] /\ Ancestors(pair[1]) = Ancestors(pair[2])
  BY MemoryAssumption DEF RenamesStay
<1>2. ASSUME NEW p \in Path, NEW q \in Path, p # q, Ancestors(p) = Ancestors(q)
      PROVE  ~IsPrefix(p, q)
  <2>1. IsPrefix(p, q) => p \in Ancestors(p)
    BY <1>2, PathSequences, AncestorsAreAbove DEF Under, IsStrictPrefix
  <2>2. p \notin Ancestors(p)
    BY PathSequences DEF Under, IsStrictPrefix
  <2> QED
    BY <2>1, <2>2
<1> QED
  BY <1>1, <1>2 DEF Apart

(* A path entered or stored together with its ancestors.                   *)
LEMMA EnterKeeps ==
  ASSUME TypeOK, AllEntered, NEW p \in Path,
         (Files \cup directories)' \subseteq Files \cup directories \cup Ancestors(p) \cup {p},
         directories \cup Ancestors(p) \subseteq directories'
  PROVE  AllEntered'
<1> SUFFICES ASSUME NEW q \in (Files \cup directories)', NEW up \in Ancestors(q)
             PROVE  up \in directories'
  BY DEF AllEntered
<1>1. CASE q \in Files \cup directories
  BY <1>1 DEF AllEntered
<1>2. CASE q \in Ancestors(p)
  <2>1. q \in Path /\ up \in Path
    BY <1>2, PathSequences
  <2>2. up \in Ancestors(p)
    BY <1>2, <2>1, PathSequences, AncestorsAbove
  <2> QED
    BY <2>2
<1>3. CASE q = p
  BY <1>3
<1> QED
  BY <1>1, <1>2, <1>3

(* What is removed takes all that is below it along.                       *)
LEMMA RemoveKeeps ==
  ASSUME TypeOK, AllEntered, NEW gone,
         Files' \subseteq Files, directories' = directories \ gone,
         \A d \in gone, q \in (Files \cup directories)' : ~Under(q, d)
  PROVE  AllEntered'
<1> SUFFICES ASSUME NEW q \in (Files \cup directories)', NEW up \in Ancestors(q)
             PROVE  up \in directories'
  BY DEF AllEntered
<1>1. q \in Files \cup directories /\ q \in Path
  BY DEF TypeOK, Files
<1>2. up \in directories /\ Under(q, up)
  BY <1>1, PathSequences DEF AllEntered
<1> QED
  BY <1>2

(* Calls that find no Rename in progress and leave none behind.            *)
LEMMA FileCallsEnter ==
  ASSUME TypeOK, AllEntered, NEW p \in Path, FileCalls(p)
  PROVE  AllEntered'
<1>1. ASSUME NEW load \in Payload, WriteMode(p, load[1], load[2]) PROVE AllEntered'
  <2>1. Files' \subseteq Files \cup {p}
    BY <1>1 DEF WriteMode, Store, TypeOK, Files, IsFile
  <2>2. directories' = directories \cup Ancestors(p)
    BY <1>1 DEF WriteMode
  <2> QED
    BY <2>1, <2>2, EnterKeeps
<1>2. CASE EnsureDir(p)
  <2>1. Files' = Files /\ directories' = directories \cup Ancestors(p) \cup {p}
    BY <1>2 DEF EnsureDir, store, Files, IsFile
  <2> QED
    BY <2>1, EnterKeeps
<1>3. CASE DeleteFile(p)
  <2>1. Files' \subseteq Files /\ directories' = directories
    BY <1>3 DEF DeleteFile, Erase, Files, IsFile
  <2> QED
    BY <2>1 DEF AllEntered
<1>4. CASE DeleteDirectory(p)
  <2>1. Files' = Files /\ directories' = directories \ {p} /\ Below(p) = {}
    BY <1>4 DEF DeleteDirectory, store, Files, IsFile
  <2>2. \A q \in (Files \cup directories)' : ~Under(q, p)
    BY <2>1 DEF Below
  <2> QED
    BY <2>1, <2>2, RemoveKeeps
<1>5. CASE DeleteAll(p)
  <2> DEFINE gone == {p} \cup {q \in Path : Under(q, p)}
  <2>1. Files' = Files \ gone /\ directories' = directories \ gone
    BY <1>5 DEF DeleteAll, Erase, Files, IsFile
  <2>2. ASSUME NEW d \in gone, NEW q \in (Files \cup directories)', Under(q, d)
        PROVE  FALSE
    <3>1. q \in Path /\ q \notin gone
      BY <2>1 DEF TypeOK, Files
    <3>2. d \in Path /\ (d = p \/ Under(d, p))
      OBVIOUS
    <3>3. Under(q, p)
      BY <2>2, <3>1, <3>2, PathSequences, PrefixTransitive DEF Under, IsStrictPrefix
    <3> QED
      BY <3>1, <3>3
  <2> HIDE DEF gone
  <2> QED
    BY <2>1, <2>2, RemoveKeeps
<1> QED
  BY <1>1, <1>2, <1>3, <1>4, <1>5 DEF FileCalls

LEMMA WriterCallsEnter ==
  ASSUME TypeOK, AllEntered, NEW h \in Writer, WriterCalls(h)
  PROVE  AllEntered'
<1>1. CASE WriterClose(h)
  <2> DEFINE p == writer[h].path
  <2>1. p \in Path
    BY <1>1 DEF WriterClose, OpenWriter, TypeOK
  <2>2. Files' \subseteq Files \cup {p}
    BY <1>1 DEF WriterClose, Store, TypeOK, Files, IsFile
  <2>3. directories' = directories \cup Ancestors(p)
    BY <1>1 DEF WriterClose
  <2> QED
    BY <2>1, <2>2, <2>3, EnterKeeps
<1>2. CASE UNCHANGED <<store, directories>>
  BY <1>2 DEF AllEntered, store, Files, IsFile
<1> QED
  BY <1>1, <1>2 DEF WriterCalls, Create, Append_, WriterWrite, WriterDrop

-----------------------------------------------------------------------------
(* The steps of a Rename                                                   *)

(* A directory entered as renamed: what lay below its old path is to move. *)
LEMMA DirectoryStarts ==
  ASSUME RenamesStay, TypeOK, AllEntered, NEW pair \in CanRename,
         RenameDirectory(pair[1], pair[2])
  PROVE  DirectoryUnderway' /\ (rename.old \notin rename.files)'
<1> DEFINE old == pair[1]
           new == pair[2]
<1>1. /\ old \in Path /\ new \in Path /\ Ancestors(old) = Ancestors(new)
      /\ Apart(old, new) /\ ~Under(new, old) /\ old # new
  BY StayApart, PathSequences, PrefixOfSelf DEF Apart, Under, IsStrictPrefix
<1> HIDE DEF old, new
<1>2. /\ rename'.old = old /\ rename'.new = new
      /\ rename'.files = {p \in Files : Under(p, old)} /\ filesToMove' = rename'.files
      /\ directories' = (directories \cup {new}) \ {old}
      /\ dirsToMove' = {d \in directories' : Under(d, old)}
      /\ Files' = Files /\ directoryExists(old)
  BY DEF RenameDirectory, store, Files, IsFile, old, new
<1>3. /\ Files' \subseteq Path /\ directories \subseteq Path /\ directories' \subseteq Path
  BY <1>1, <1>2 DEF TypeOK, Files
<1>4. Ancestors(new) \subseteq directories'
  <2>1. Ancestors(old) \subseteq directories
    <3>1. CASE old \in directories
      BY <3>1 DEF AllEntered
    <3>2. CASE Below(old) # {}
      <4>1. PICK q \in Files \cup directories : Under(q, old)
        BY <3>2 DEF Below
      <4>2. q \in Path /\ old \in Ancestors(q)
        BY <1>1, <4>1, PathSequences, AncestorsAreAbove DEF TypeOK, Files
      <4>3. ASSUME NEW up \in Ancestors(old) PROVE up \in Ancestors(q)
        BY <1>1, <4>2, PathSequences, AncestorsAbove
      <4> QED
        BY <4>1, <4>3 DEF AllEntered
    <3> QED
      BY <1>2, <3>1, <3>2 DEF directoryExists
  <2>2. old \notin Ancestors(old)
    BY <1>1, PathSequences DEF Under, IsStrictPrefix
  <2> QED
    BY <1>1, <1>2, <2>1, <2>2
<1>5. new \in directories'
  BY <1>1, <1>2
<1>6. ASSUME NEW p \in Files \cup directories', NEW up \in Ancestors(p)
      PROVE  up \in directories' \/ up = old
  BY <1>2, <1>4, <1>6 DEF AllEntered
<1>7. ASSUME NEW p \in Files \cup directories', NEW up \in Ancestors(p), up = old
      PROVE  Under(p, old)
  BY <1>2, <1>3, <1>7, PathSequences
<1>8. ~Under(old, old)
  BY DEF Under, IsStrictPrefix
<1>9. ASSUME NEW p \in filesToMove' \cup dirsToMove', NEW up \in Ancestors(p), Under(up, old)
      PROVE  up \in dirsToMove'
  <2>1. p \in Files \cup directories'
    BY <1>2
  <2> QED
    BY <1>2, <1>6, <1>8, <1>9, <2>1
<1>10. (\A p \in rename.files \cup dirsToMove : Under(p, rename.old))'
  BY <1>2
<1>11. /\ (\A p \in Files : Under(p, rename.old) => p \in filesToMove)'
       /\ (\A d \in directories : Under(d, rename.old) => d \in dirsToMove)'
  BY <1>2
<1>12. (Ancestors(rename.new) \cup {rename.new} \subseteq directories)'
  BY <1>2, <1>4, <1>5
<1>13. (\A p \in Files \cup directories : ~Under(p, rename.old) =>
          \A up \in Ancestors(p) : up \in directories)'
  BY <1>2, <1>6, <1>7
<1>14. (\A p \in filesToMove \cup dirsToMove : \A up \in Ancestors(p) :
          Under(up, rename.old) => up \in dirsToMove)'
  BY <1>2, <1>9
<1> QED
  BY <1>2, <1>8, <1>10, <1>11, <1>12, <1>13, <1>14 DEF DirectoryUnderway

(* The place a path moves to is not below the old path, and what is above  *)
(* it is new, above new, or the place of a directory between.              *)
LEMMA Targets ==
  ASSUME RenamesStay, RenameKnown, RenameUnderway, TypeOK, rename # NoRename
  PROVE  /\ rename.old \in Path /\ rename.new \in Path
         /\ Ancestors(rename.old) = Ancestors(rename.new)
         /\ ~Under(rename.new, rename.old)
         /\ \A p \in Path : IsPrefix(rename.old, p) =>
              /\ ~IsPrefix(rename.old, Target(p))
              /\ \A up \in Path : up \in Ancestors(Target(p)) =>
                   \/ up \in Ancestors(rename.new) \cup {rename.new}
                   \/ \E d \in Ancestors(p) : Under(d, rename.old) /\ up = Target(d)
<1> DEFINE old == rename.old
           new == rename.new
<1>1. /\ old \in Path /\ new \in Path /\ Ancestors(old) = Ancestors(new)
      /\ Apart(old, new) /\ old \in Seq(Segment) /\ new \in Seq(Segment)
  <2>1. <<old, new>> \in CanRename
    BY DEF RenameKnown
  <2>2. \A pair \in CanRename : /\ pair[1] \in Path /\ pair[2] \in Path
                                /\ Ancestors(pair[1]) = Ancestors(pair[2])
                                /\ Apart(pair[1], pair[2])
    BY StayApart
  <2> QED
    BY <2>1, <2>2, PathSequences
<1>2. ~Under(new, old)
  BY <1>1 DEF Apart, Under, IsStrictPrefix
<1> HIDE DEF old, new
<1>3. ASSUME NEW p \in Path, IsPrefix(old, p)
      PROVE  ~IsPrefix(old, Rebase(p, old, new))
  BY <1>1, <1>3, PathSequences, RebaseLeaves
<1>4. ASSUME NEW p \in Path, IsPrefix(old, p), NEW up \in Path, up \in Ancestors(Rebase(p, old, new))
      PROVE  \/ up \in Ancestors(new) \cup {new}
             \/ \E d \in Ancestors(p) : Under(d, old) /\ up = Rebase(d, old, new)
  <2>1. p \in Seq(Segment) /\ up \in Seq(Segment)
    BY PathSequences
  <2> QED
    BY <1>1, <1>4, <2>1, RebaseAncestors
<1> QED
  BY <1>1, <1>2, <1>3, <1>4 DEF Target, old, new

(* A file moves, alone or out of the directory renamed.                    *)
LEMMA FileMoves ==
  ASSUME RenamesStay, StoreInv, RenameKnown, EnteredInv, NEW p \in Path, MoveFile(p)
  PROVE  EnteredInv'
<1> DEFINE old == rename.old
           new == rename.new
           place == Target(p)
<1>1. /\ rename # NoRename /\ TypeOK /\ RenameUnderway
      /\ p \in filesToMove /\ p \in rename.files /\ p \in Files
      /\ IsPrefix(old, p) /\ place \in Path
  BY DEF MoveFile, StoreInv, RenameUnderway
<1>2. /\ rename' = rename /\ directories' = directories /\ dirsToMove' = dirsToMove
      /\ filesToMove' = filesToMove \ {p}
      /\ \A q \in Path : Target(q)' = Target(q)
  BY DEF MoveFile, Target
<1>3. /\ ~IsPrefix(old, place) /\ place # p
      /\ \A up \in Ancestors(place) :
           \/ up \in Ancestors(new) \cup {new}
           \/ \E d \in Ancestors(p) : Under(d, old) /\ up = Target(d)
  BY <1>1, Targets, PathSequences
<1>4. Files' = (Files \ {p}) \cup {place}
  BY <1>1, <1>3 DEF MoveFile, Relocate, Files, IsFile, TypeOK
<1>5. CASE old \in rename.files
  <2>1. AllEntered /\ rename.files = {old} /\ dirsToMove = {} /\ p = old
    BY <1>1, <1>5 DEF EnteredInv
  <2>2. Ancestors(place) \subseteq directories
    <3>1. old \in Seq(Segment) /\ new \in Seq(Segment)
      BY <1>1, Targets, PathSequences
    <3>2. place = new
      BY <2>1, <3>1, RebaseSelf DEF Target
    <3> QED
      BY <1>1, <2>1, <3>2, Targets DEF AllEntered
  <2>3. AllEntered'
    BY <1>2, <1>4, <2>1, <2>2 DEF AllEntered
  <2> QED
    BY <1>1, <1>2, <1>5, <2>1, <2>3 DEF EnteredInv
<1>6. CASE old \notin rename.files
  <2>1. DirectoryUnderway
    BY <1>1, <1>6 DEF EnteredInv
  <2>2. (\A f \in Files : Under(f, old) => f \in filesToMove)'
    BY <1>2, <1>3, <1>4, <2>1 DEF DirectoryUnderway, Under, IsStrictPrefix
  <2>3. ASSUME NEW q \in Files' \cup directories, ~Under(q, old), NEW up \in Ancestors(q)
        PROVE  up \in directories \/ \E d \in dirsToMove : up = Target(d)
    <3>1. CASE q = place
      BY <1>1, <1>3, <2>1, <2>3, <3>1 DEF DirectoryUnderway
    <3>2. CASE q # place
      BY <1>4, <2>1, <2>3, <3>2 DEF DirectoryUnderway
    <3> QED
      BY <3>1, <3>2
  <2>4. DirectoryUnderway'
    BY <1>1, <1>2, <2>1, <2>2, <2>3, PathSequences DEF DirectoryUnderway, Target
  <2> QED
    BY <1>1, <1>2, <1>6, <2>4 DEF EnteredInv
<1> QED
  BY <1>5, <1>6

(* A directory moves: its place is entered when it is taken out.           *)
LEMMA DirectoryMoves ==
  ASSUME RenamesStay, StoreInv, RenameKnown, EnteredInv, NEW d \in Path, MoveDir(d)
  PROVE  EnteredInv'
<1> DEFINE old == rename.old
           new == rename.new
           place == Target(d)
<1>1. /\ rename # NoRename /\ TypeOK /\ RenameUnderway
      /\ d \in dirsToMove /\ IsPrefix(old, d) /\ place \in Path
  BY DEF MoveDir, StoreInv, RenameUnderway
<1>2. /\ rename' = rename /\ filesToMove' = filesToMove /\ filesToMove = {}
      /\ directories' = (directories \cup {place}) \ {d} /\ dirsToMove' = dirsToMove \ {d}
      /\ Files' = Files
  BY DEF MoveDir, store, Files, IsFile
<1>3. old \notin rename.files /\ DirectoryUnderway
  BY <1>1 DEF EnteredInv
<1>4. /\ Under(d, old) /\ old \in Path /\ new \in Path /\ ~Under(new, old)
      /\ ~IsPrefix(old, place) /\ place # d
      /\ \A up \in Ancestors(place) :
           \/ up \in Ancestors(new) \cup {new}
           \/ \E e \in Ancestors(d) : Under(e, old) /\ up = Target(e)
  BY <1>1, <1>3, Targets, PathSequences DEF DirectoryUnderway
<1>5. ASSUME NEW e \in Path, Under(e, d) PROVE Under(e, old)
  BY <1>4, <1>5, PathSequences, PrefixTransitive DEF Under, IsStrictPrefix
<1>6. d \notin Ancestors(new) \cup {new}
  BY <1>4, <1>5, PathSequences
<1>7. ASSUME NEW e \in Path, IsPrefix(old, e) PROVE Target(e) # d
  BY <1>1, <1>4, <1>7, Targets DEF Under, IsStrictPrefix
<1>8. (\A e \in directories : Under(e, old) => e \in dirsToMove)'
  BY <1>2, <1>3, <1>4 DEF DirectoryUnderway, Under, IsStrictPrefix
<1>9. Ancestors(new) \cup {new} \subseteq directories'
  BY <1>2, <1>3, <1>6 DEF DirectoryUnderway
<1>10. ASSUME NEW q \in Files \cup directories', ~Under(q, old), NEW up \in Ancestors(q)
       PROVE  up \in directories' \/ \E e \in dirsToMove' : up = Target(e)
  <2>1. CASE q = place
    <3>1. CASE up \in Ancestors(new) \cup {new}
      BY <1>9, <3>1
    <3>2. ASSUME NEW e \in Ancestors(d), Under(e, old), up = Target(e)
          PROVE  up \in directories' \/ \E f \in dirsToMove' : up = Target(f)
      <4>1. e \in Path /\ e # d
        BY PathSequences DEF Under, IsStrictPrefix
      <4>2. e \in dirsToMove \/ Target(e) \in directories
        BY <1>1, <1>3, <3>2 DEF DirectoryUnderway
      <4>3. Target(e) # d
        BY <1>7, <3>2, <4>1 DEF Under, IsStrictPrefix
      <4> QED
        BY <1>2, <3>2, <4>1, <4>2, <4>3
    <3> QED
      BY <1>4, <1>10, <2>1, <3>1, <3>2
  <2>2. CASE q # place
    <3>1. q \in Files \cup directories /\ q \in Path /\ up \in Path /\ Under(q, up)
      BY <1>1, <1>2, <1>10, <2>2, PathSequences DEF TypeOK, Files
    <3>2. up # d
      BY <1>5, <1>10, <3>1
    <3>3. up \in directories \/ \E e \in dirsToMove : up = Target(e)
      BY <1>3, <1>10, <3>1 DEF DirectoryUnderway
    <3> QED
      BY <1>2, <1>4, <3>2, <3>3
  <2> QED
    BY <2>1, <2>2
<1>11. ASSUME NEW q \in dirsToMove', NEW up \in Ancestors(q), Under(up, old)
       PROVE  up \in dirsToMove' \/ Target(up) \in directories'
  <2>1. q \in Path /\ up \in Path
    BY <1>1, <1>2, <1>11, PathSequences DEF TypeOK
  <2>2. up \in dirsToMove \/ Target(up) \in directories
    BY <1>2, <1>3, <1>11 DEF DirectoryUnderway
  <2>3. Target(up) # d
    BY <1>7, <1>11, <2>1 DEF Under, IsStrictPrefix
  <2> QED
    BY <1>2, <1>4, <2>2, <2>3
<1>12. \A q : Target(q)' = Target(q)
  BY <1>2 DEF Target
<1>13. DirectoryUnderway'
  <2>1. (\A p \in rename.files \cup dirsToMove : Under(p, rename.old))'
    BY <1>2, <1>3 DEF DirectoryUnderway
  <2>2. (\A p \in Files : Under(p, rename.old) => p \in filesToMove)'
    BY <1>2, <1>3 DEF DirectoryUnderway
  <2> QED
    BY <1>2, <1>8, <1>9, <1>10, <1>11, <1>12, <2>1, <2>2 DEF DirectoryUnderway
<1> QED
  BY <1>1, <1>2, <1>3, <1>13 DEF EnteredInv

LEMMA EnteredStep == RenamesStay /\ StoreInv /\ RenameKnown /\ EnteredInv /\ [Next]_vars => EnteredInv'
<1> SUFFICES ASSUME RenamesStay, StoreInv, RenameKnown, EnteredInv, [Next]_vars
             PROVE  EnteredInv'
  OBVIOUS
<1> USE DEF StoreInv
<1>1. CASE UNCHANGED vars
  BY <1>1 DEF vars, EnteredInv, AllEntered, DirectoryUnderway, Files, IsFile, Target
<1>2. ASSUME NEW p \in Path, FileCalls(p) PROVE EnteredInv'
  <2>1. rename = NoRename /\ rename' = NoRename
    BY <1>2 DEF FileCalls, WriteMode, EnsureDir, DeleteFile, DeleteDirectory, DeleteAll, renaming
  <2> QED
    BY <1>2, <2>1, FileCallsEnter DEF EnteredInv
<1>3. ASSUME NEW h \in Writer, WriterCalls(h) PROVE EnteredInv'
  <2>1. rename = NoRename /\ rename' = NoRename
    BY <1>3 DEF WriterCalls, Create, Append_, WriterWrite, WriterClose, WriterDrop, renaming
  <2> QED
    BY <1>3, <2>1, WriterCallsEnter DEF EnteredInv
<1>4. ASSUME NEW pair \in CanRename, RenameFile(pair[1], pair[2]) PROVE EnteredInv'
  <2>1. rename = NoRename /\ AllEntered
    BY <1>4 DEF RenameFile, EnteredInv
  <2>2. AllEntered'
    BY <1>4, <2>1 DEF RenameFile, AllEntered, store, Files, IsFile
  <2>3. /\ rename'.old \in rename'.files /\ rename'.files = {rename'.old}
        /\ dirsToMove' = {}
    BY <1>4 DEF RenameFile
  <2> QED
    BY <2>2, <2>3 DEF EnteredInv
<1>5. ASSUME NEW pair \in CanRename, RenameDirectory(pair[1], pair[2]) PROVE EnteredInv'
  <2>1. AllEntered
    BY <1>5 DEF RenameDirectory, EnteredInv
  <2>2. rename' \in Renames
    <3>1. pair[1] \in Path /\ pair[2] \in Path
      BY MemoryAssumption
    <3> QED
      BY <1>5, <3>1 DEF RenameDirectory, Renames, Files
  <2>3. rename' # NoRename
    BY <2>2, MemoryAssumption
  <2> QED
    BY <1>5, <2>1, <2>3, DirectoryStarts DEF EnteredInv
<1>6. ASSUME NEW p \in Path, MoveFile(p) PROVE EnteredInv'
  BY <1>6, FileMoves
<1>7. ASSUME NEW d \in Path, MoveDir(d) PROVE EnteredInv'
  BY <1>7, DirectoryMoves
<1>8. CASE RenameReturns
  <2>1. /\ rename # NoRename /\ filesToMove = {} /\ dirsToMove = {} /\ rename' = NoRename
        /\ Files' = Files /\ directories' = directories
    BY <1>8 DEF RenameReturns, store, Files, IsFile
  <2>2. CASE rename.old \notin rename.files
    BY <2>1, <2>2 DEF EnteredInv, DirectoryUnderway, AllEntered
  <2>3. CASE rename.old \in rename.files
    BY <2>1, <2>3 DEF EnteredInv, AllEntered
  <2> QED
    BY <2>2, <2>3
<1> QED
  BY <1>1, <1>2, <1>3, <1>4, <1>5, <1>6, <1>7, <1>8 DEF Next, RenameSteps

LEMMA InitEntered == Init => EnteredInv
BY DEF Init, EnteredInv, AllEntered, Files, IsFile

(* When callers rename within one directory, each ancestor of a stored     *)
(* path is a directory entry, whatever was written, deleted and renamed    *)
(* before, in whatever order the loops of Rename went.                     *)
THEOREM AncestorsStayEntered == RenamesStay => (Spec => []AncestorsEntered)
<1> SUFFICES ASSUME RenamesStay
             PROVE  Spec => []AncestorsEntered
  OBVIOUS
<1>1. StoreInv /\ RenameKnown /\ EnteredInv /\ [Next]_vars => EnteredInv'
  BY EnteredStep
<1>2. EnteredInv => AncestorsEntered
  BY DEF EnteredInv, AllEntered, AncestorsEntered
<1> QED
  BY InitEntered, <1>1, <1>2, StoreAlways, PTL DEF Spec

-----------------------------------------------------------------------------
(* The provider's requests and the lock of the service                     *)

(* What a request knows at its stage of its command, and of the service s. *)
Good(run, s) ==
  /\ run.command \in Commands
  /\ run.stage \in {"lock", "check", "exists", "act"} => s # NoService /\ run.service = s
  /\ run.stage \in {"check", "exists", "act"} => cleanWorkspaceName(run.command.name) # NoName
  /\ run.stage = "exists" => run.command.action = "create"
  /\ run.stage = "act" => run.command.action # "switch"
  /\ run.stage = "act" /\ run.command.action # "create" =>
       scopedPath(Head(run.command.name), run.command.path, run.command.action = "list") # NoPath

(* Between Lock and Unlock of the one service there is.                    *)
Holding(r) == request[r] # NoRequest /\ request[r].stage \in {"check", "exists", "act"}

(* The lock excludes all but readers.                                      *)
RequestInv ==
  /\ request \in [Request -> Running \cup {NoRequest}]
  /\ service \in Request \cup {NoService}
  /\ \A r \in Request : request[r] # NoRequest => Good(request[r], service)
  /\ \A q, r \in Request : q # r /\ Holding(q) /\ Holding(r) => Shared(q) /\ Shared(r)

(* A request goes to its next stage; it does not enter the lock.           *)
LEMMA OwnStep ==
  ASSUME RequestInv, NEW r \in Request, NEW next \in Running \cup {NoRequest},
         Step(r, next), UNCHANGED service,
         next # NoRequest => Good(next, service),
         next # NoRequest /\ next.stage \in {"check", "exists", "act"} =>
           Holding(r) /\ next.command = request[r].command
  PROVE  RequestInv'
<1>1. /\ request' \in [Request -> Running \cup {NoRequest}]
      /\ request'[r] = next
      /\ \A q \in Request \ {r} : request'[q] = request[q]
  BY DEF Step, RequestInv
<1>2. \A q \in Request : request'[q] # NoRequest => Good(request'[q], service')
  BY <1>1 DEF RequestInv, Good
<1>3. ASSUME NEW q \in Request, Holding(q)'
      PROVE  Holding(q) /\ request'[q].command = request[q].command
  BY <1>1, <1>3 DEF Holding
<1>4. \A q \in Request : Holding(q)' => Holding(q) /\ (Shared(q)' <=> Shared(q))
  BY <1>3 DEF Shared
<1> QED
  BY <1>1, <1>2, <1>4 DEF RequestInv

(* What a command that holds no lock yet does.                             *)
LEMMA FindingSteps ==
  ASSUME RequestInv, NEW r \in Request,
         (\E command \in Commands : BeginCommand(r, command)) \/ LoadService(r) \/ NewWorkspace(r)
  PROVE  RequestInv'
<1> USE DEF At
<1>1. ASSUME NEW command \in Commands, BeginCommand(r, command) PROVE RequestInv'
  <2> DEFINE next == [command |-> command, service |-> NoService, disturbed |-> FALSE, stage |-> "load"]
  <2>1. next \in Running /\ Good(next, service) /\ next.stage = "load"
    BY ScopedAssumption DEF Running, Good
  <2> HIDE DEF next
  <2>2. Step(r, next) /\ UNCHANGED service
    BY <1>1 DEF BeginCommand, next
  <2> QED
    BY <2>1, <2>2, OwnStep
<1>2. CASE LoadService(r)
  <2> DEFINE next == IF service = NoService THEN [request[r] EXCEPT !.stage = "make"]
                     ELSE [request[r] EXCEPT !.stage = "lock", !.service = service]
  <2>1. request[r] \in Running /\ Good(request[r], service)
    BY <1>2 DEF LoadService, RequestInv
  <2>2. next \in Running /\ Good(next, service) /\ next.stage \in {"make", "lock"}
    BY <2>1 DEF Running, Good, RequestInv
  <2> HIDE DEF next
  <2>3. Step(r, next) /\ UNCHANGED service
    BY <1>2 DEF LoadService, next
  <2> QED
    BY <2>2, <2>3, OwnStep
<1>3. CASE NewWorkspace(r)
  <2> DEFINE next == [request[r] EXCEPT !.stage = "store"]
  <2>1. request[r] \in Running /\ Good(request[r], service)
    BY <1>3 DEF NewWorkspace, RequestInv
  <2>2. next \in Running /\ Good(next, service) /\ next.stage = "store"
    BY <2>1 DEF Running, Good
  <2> HIDE DEF next
  <2>3. (Step(r, next) \/ Step(r, NoRequest)) /\ UNCHANGED service
    BY <1>3 DEF NewWorkspace, next
  <2> QED
    BY <2>2, <2>3, OwnStep
<1> QED
  BY <1>1, <1>2, <1>3

(* The first to store a service gives it to all.                           *)
LEMMA StoringStep ==
  ASSUME RequestInv, NEW r \in Request, LoadOrStore(r)
  PROVE  RequestInv'
<1> DEFINE next == [request[r] EXCEPT !.stage = "lock", !.service = service']
<1>1. request[r] \in Running /\ request[r] # NoRequest /\ request[r].command \in Commands
  BY DEF LoadOrStore, At, RequestInv, Good
<1>2. service' \in Request /\ (service # NoService => service' = service)
  BY DEF LoadOrStore, RequestInv
<1>3. next \in Running /\ next.command \in Commands /\ next.stage = "lock" /\ next.service = service'
  BY <1>1, <1>2 DEF Running
<1>4. /\ request' \in [Request -> Running \cup {NoRequest}] /\ request'[r] = next
      /\ \A q \in Request \ {r} : request'[q] = request[q]
  BY <1>3 DEF LoadOrStore, Step, RequestInv
<1> HIDE DEF next
<1>5. Good(next, service')
  BY <1>2, <1>3, ScopedAssumption DEF Good
<1>6. ASSUME NEW q \in Request, request'[q] # NoRequest PROVE Good(request'[q], service')
  <2>1. CASE q = r
    BY <1>4, <1>5, <2>1 DEF Good
  <2>2. CASE q # r
    BY <1>2, <1>4, <1>6, <2>2 DEF Good, RequestInv
  <2> QED
    BY <2>1, <2>2
<1>7. \A q \in Request : Holding(q)' => Holding(q) /\ (Shared(q)' <=> Shared(q))
  BY <1>3, <1>4 DEF Holding, Shared
<1> QED
  BY <1>2, <1>4, <1>6, <1>7 DEF RequestInv

(* Whoever gets the lock shares it with readers if it reads itself.        *)
LEMMA LockingStep ==
  ASSUME RequestInv, NEW r \in Request, Lock(r)
  PROVE  RequestInv'
<1> DEFINE next == [request[r] EXCEPT !.stage = "check"]
<1>1. /\ request[r] \in Running /\ request[r] # NoRequest /\ Good(request[r], service)
      /\ request[r].stage = "lock" /\ request[r].service = service
  BY DEF Lock, At, RequestInv, Good
<1>2. CASE cleanWorkspaceName(request[r].command.name) = NoName
  <2>1. Step(r, NoRequest) /\ UNCHANGED service
    BY <1>2 DEF Lock
  <2>2. \A run \in Running : run # NoRequest
    BY ScopedAssumption
  <2> QED
    BY <2>1, OwnStep
<1>3. CASE cleanWorkspaceName(request[r].command.name) # NoName
  <2>1. next \in Running /\ next.command = request[r].command /\ Good(next, service)
    BY <1>1, <1>3 DEF Running, Good
  <2>2. /\ request' \in [Request -> Running \cup {NoRequest}] /\ request'[r] = next
        /\ \A q \in Request \ {r} : request'[q] = request[q]
        /\ service' = service
    BY <1>3, <2>1 DEF Lock, Step, RequestInv
  <2> HIDE DEF next
  <2>3. \A q \in Request : request'[q] # NoRequest => Good(request'[q], service')
    BY <2>1, <2>2 DEF RequestInv, Good
  <2>4. \A q \in Request : Shared(q)' <=> Shared(q)
    BY <2>1, <2>2 DEF Shared
  <2>5. \A q \in Request \ {r} : Holding(q)' <=> Holding(q)
    BY <2>2 DEF Holding
  <2>6. ASSUME NEW q \in Request, Holding(q) PROVE Shared(r) /\ Shared(q)
    <3>1. q \in Holders(request[r].service)
      BY <1>1, <2>6 DEF Holders, Holding, RequestInv, Good
    <3> QED
      BY <3>1 DEF Lock
  <2> QED
    BY <2>2, <2>3, <2>4, <2>5, <2>6 DEF RequestInv
<1> QED
  BY <1>2, <1>3

(* A command goes on, or returns.                                          *)
LEMMA NextStage ==
  ASSUME RequestInv, NEW r \in Request, Holding(r), NEW stage \in {"exists", "act"},
         Step(r, [request[r] EXCEPT !.stage = stage]), UNCHANGED service,
         Good([request[r] EXCEPT !.stage = stage], service)
  PROVE  RequestInv'
<1> DEFINE next == [request[r] EXCEPT !.stage = stage]
<1>1. next \in Running /\ next.command = request[r].command
  BY DEF Holding, RequestInv, Running
<1>2. Step(r, next) /\ Good(next, service)
  OBVIOUS
<1> HIDE DEF next
<1> QED
  BY <1>1, <1>2, OwnStep

LEMMA Returns ==
  ASSUME RequestInv, NEW r \in Request, Step(r, NoRequest), UNCHANGED service
  PROVE  RequestInv'
BY OwnStep

(* What a command does under the lock.                                     *)
LEMMA LockedSteps ==
  ASSUME RequestInv, NEW r \in Request,
         \/ CheckCreate(r) \/ CheckExists(r) \/ CreateWorkspace(r) \/ SwitchWorkspace(r)
         \/ CheckFile(r) \/ ReadWorkspace(r)
         \/ \E load \in Payload : WriteWorkspaceFile(r, load[1], DefaultMode)
  PROVE  RequestInv'
<1>1. CASE Step(r, NoRequest)
  BY <1>1, Returns
     DEF CheckCreate, CheckExists, CreateWorkspace, SwitchWorkspace, CheckFile, ReadWorkspace,
         WriteWorkspaceFile
<1>2. ASSUME NEW stage \in {"exists", "act"}, Step(r, [request[r] EXCEPT !.stage = stage]),
             \/ CheckCreate(r) /\ stage = "exists"
             \/ CheckExists(r) /\ stage = "act"
             \/ CheckFile(r) /\ FilePath(r) # NoPath /\ stage = "act"
      PROVE  RequestInv'
  <2>1. /\ request[r] \in Running /\ request[r] # NoRequest /\ Good(request[r], service)
        /\ request[r].stage \in {"check", "exists"} /\ service' = service
    BY <1>2 DEF CheckCreate, CheckExists, CheckFile, At, RequestInv
  <2>2. CASE CheckCreate(r) /\ stage = "exists"
    <3>1. Good([request[r] EXCEPT !.stage = stage], service)
      BY <2>1, <2>2 DEF CheckCreate, Good, Running
    <3> QED
      BY <1>2, <2>1, <3>1, NextStage DEF Holding
  <2>3. CASE CheckExists(r) /\ stage = "act"
    <3>1. request[r].command.action = "create"
      BY <2>1, <2>3 DEF CheckExists, At, Good
    <3>2. Good([request[r] EXCEPT !.stage = stage], service)
      BY <2>1, <2>3, <3>1 DEF Good, Running
    <3> QED
      BY <1>2, <2>1, <3>2, NextStage DEF Holding
  <2>4. CASE CheckFile(r) /\ FilePath(r) # NoPath /\ stage = "act"
    <3>1. /\ request[r].command.action \in {"read", "write", "list"}
          /\ scopedPath(Head(request[r].command.name), request[r].command.path,
                        request[r].command.action = "list") # NoPath
      BY <2>4 DEF CheckFile, FilePath, Name
    <3>2. Good([request[r] EXCEPT !.stage = stage], service)
      BY <2>1, <2>4, <3>1 DEF Good, Running
    <3> QED
      BY <1>2, <2>1, <3>2, NextStage DEF Holding
  <2> QED
    BY <1>2, <2>2, <2>3, <2>4
<1> QED
  BY <1>1, <1>2
     DEF CheckCreate, CheckExists, CreateWorkspace, SwitchWorkspace, CheckFile, ReadWorkspace,
         WriteWorkspaceFile

(* Steps of others only disturb requests.                                  *)
Disturbs ==
  request' = [r \in Request |->
    IF request[r] = NoRequest THEN NoRequest
    ELSE [request[r] EXCEPT !.disturbed = @ \/ (request[r].stage \in {"exists", "act"}
                                                /\ <<store, directories>>' # <<store, directories>>)]]

LEMMA DisturbingStep ==
  ASSUME RequestInv, Disturbs, UNCHANGED service
  PROVE  RequestInv'
<1>1. ASSUME NEW r \in Request, request[r] # NoRequest
      PROVE  /\ request'[r] \in Running /\ request'[r].command = request[r].command
             /\ request'[r].stage = request[r].stage /\ request'[r].service = request[r].service
  <2> DEFINE changed == <<store, directories>>' # <<store, directories>>
             flag == request[r].disturbed \/ (request[r].stage \in {"exists", "act"} /\ changed)
  <2>1. request[r] \in Running
    BY <1>1 DEF RequestInv
  <2>2. flag \in BOOLEAN
    BY <2>1 DEF Running
  <2>3. request'[r] = [request[r] EXCEPT !.disturbed = flag]
    BY <1>1 DEF Disturbs
  <2> HIDE DEF flag
  <2> QED
    BY <2>1, <2>2, <2>3 DEF Running
<1>2. \A r \in Request : request[r] = NoRequest => request'[r] = NoRequest
  BY DEF Disturbs
<1>3. request' \in [Request -> Running \cup {NoRequest}]
  <2>1. \A r \in Request : request'[r] \in Running \cup {NoRequest}
    BY <1>1, <1>2
  <2> QED
    BY <2>1 DEF Disturbs
<1>4. \A r \in Request : request'[r] # NoRequest => Good(request'[r], service')
  BY <1>1, <1>2 DEF RequestInv, Good
<1>5. \A r \in Request : Holding(r)' => Holding(r) /\ (Shared(r)' <=> Shared(r))
  BY <1>1, <1>2 DEF Holding, Shared
<1> QED
  BY <1>3, <1>4, <1>5 DEF RequestInv

LEMMA RequestStep == RequestInv /\ [ScopedNext]_allVars => RequestInv'
<1> SUFFICES ASSUME RequestInv, [ScopedNext]_allVars
             PROVE  RequestInv'
  OBVIOUS
<1>1. CASE UNCHANGED allVars
  BY <1>1 DEF allVars, RequestInv, Holding, Shared
<1>2. ASSUME NEW r \in Request, CommandSteps(r) PROVE RequestInv'
  BY <1>2, FindingSteps, StoringStep, LockingStep, LockedSteps DEF CommandSteps
<1>3. CASE Disturbs /\ UNCHANGED service
  BY <1>3, DisturbingStep
<1> QED
  BY <1>1, <1>2, <1>3 DEF ScopedNext, Unlocked, Disturbs

-----------------------------------------------------------------------------
(* What a command has tested still holds                                   *)

LEMMA NamesAreSegments ==
  \A r \in Request : RequestInv /\ Holding(r) => Name(r) \in Segment
BY DEF RequestInv, Holding, Good, cleanWorkspaceName, Name

(* The base directory is above the workspaces: to enter it adds none and   *)
(* removes none.                                                           *)
LEMMA BaseKeepsTests ==
  ASSUME EnsureDir(Base), NEW name \in Segment
  PROVE  /\ ~Exists(workspacePath(name)) => ~Exists(workspacePath(name))'
         /\ directoryExists(workspacePath(name)) => directoryExists(workspacePath(name))'
<1> DEFINE own == Append(Base, name)
<1>1. /\ Base \in Seq(Segment) /\ own \in Seq(Segment) /\ Len(own) = Len(Base) + 1
      /\ Len(Base) \in Nat
  BY ScopedAssumption, AppendProperties, LenProperties
<1> HIDE DEF own
<1>2. ASSUME NEW p \in Ancestors(Base) \cup {Base} PROVE p # own /\ ~Under(p, own)
  <2>1. p \in Seq(Segment) /\ IsPrefix(p, Base)
    <3>1. CASE p = Base
      BY <1>1, <3>1, PrefixOfSelf
    <3>2. CASE p \in Ancestors(Base)
      <4>1. PICK n \in 1 .. Len(Base) - 1 : p = SubSeq(Base, 1, n)
        BY <3>2 DEF Ancestors
      <4>2. n \in 0 .. Len(Base)
        BY <1>1
      <4> QED
        BY <1>1, <4>1, <4>2, Beginning
    <3> QED
      BY <1>2, <3>1, <3>2
  <2>2. Len(p) \in Nat /\ Len(p) <= Len(Base)
    BY <1>1, <2>1, PrefixElements, LenProperties
  <2> QED
    BY <1>1, <2>1, <2>2, UnderElements
<1>3. /\ directories' = directories \cup Ancestors(Base) \cup {Base}
      /\ Files' = Files /\ (IsFile(own)' <=> IsFile(own))
  BY DEF EnsureDir, store, Files, IsFile
<1>4. Below(own) \subseteq Below(own)' /\ Below(own)' \subseteq Below(own)
  BY <1>2, <1>3 DEF Below
<1>5. (own \in directories)' <=> own \in directories
  BY <1>2, <1>3
<1> QED
  BY <1>3, <1>4, <1>5 DEF Exists, directoryExists, workspacePath, own

(* Nothing that is tested changes with the request alone.                  *)
LEMMA SameTests ==
  ASSUME UNCHANGED <<store, directories>>, NEW p
  PROVE  /\ Exists(p)' <=> Exists(p)
         /\ directoryExists(p)' <=> directoryExists(p)
BY DEF Exists, directoryExists, Below, Files, IsFile, store

LEMMA TestsStep == RequestInv /\ TestsStillHold /\ [ScopedNext]_allVars => TestsStillHold'
<1> SUFFICES ASSUME RequestInv, TestsStillHold, [ScopedNext]_allVars,
                    NEW q \in Request, (At(q, "act") /\ ~request[q].disturbed)'
             PROVE  (IF request[q].command.action = "create"
                     THEN ~Exists(workspacePath(Name(q)))
                     ELSE directoryExists(workspacePath(Name(q))))'
  BY DEF TestsStillHold
<1> DEFINE Passed == IF request[q].command.action = "create"
                     THEN ~Exists(workspacePath(Name(q)))
                     ELSE directoryExists(workspacePath(Name(q)))
<1> SUFFICES Passed'
  OBVIOUS
<1>1. CASE request'[q] = request[q] /\ UNCHANGED <<store, directories>>
  <2>1. Passed
    BY <1>1 DEF TestsStillHold, At
  <2> QED
    BY <1>1, <2>1, SameTests DEF Name, workspacePath
<1>2. ASSUME NEW r \in Request, CommandSteps(r) PROVE Passed'
  <2>1. CASE q = r
    <3>1. CheckExists(r) \/ CheckFile(r)
      <4>1. request'[r] # NoRequest /\ request'[r].stage = "act"
        BY <2>1 DEF At
      <4>2. CASE Step(r, NoRequest)
        BY <4>1, <4>2 DEF Step, RequestInv
      <4>3. ASSUME NEW command \in Commands, BeginCommand(r, command) PROVE FALSE
        BY <4>1, <4>3 DEF BeginCommand, Step, RequestInv
      <4>4. ASSUME NEW run \in Running, NEW stage \in {"make", "lock", "store", "check", "exists"},
                   Step(r, [run EXCEPT !.stage = stage])
            PROVE  FALSE
        BY <4>1, <4>4 DEF Step, RequestInv, Running
      <4>5. ASSUME LoadService(r) \/ NewWorkspace(r) \/ Lock(r) \/ CheckCreate(r) PROVE FALSE
        <5>1. request[r] \in Running
          BY <4>5 DEF LoadService, NewWorkspace, Lock, CheckCreate, At, RequestInv
        <5>2. ASSUME service # NoService, Step(r, [request[r] EXCEPT !.stage = "lock", !.service = service])
              PROVE  FALSE
          BY <4>1, <5>1, <5>2 DEF Step, RequestInv, Running
        <5> QED
          BY <4>2, <4>4, <4>5, <5>1, <5>2, <4>1
             DEF LoadService, NewWorkspace, Lock, CheckCreate, Step, RequestInv
      <4>6. ASSUME LoadOrStore(r) PROVE FALSE
        BY <4>1, <4>6 DEF LoadOrStore, At, Step, RequestInv, Running
      <4> QED
        BY <1>2, <4>1, <4>2, <4>3, <4>5, <4>6
           DEF CommandSteps, CreateWorkspace, SwitchWorkspace, WriteWorkspaceFile, ReadWorkspace,
               Step, RequestInv
    <3>2. UNCHANGED <<store, directories>>
      BY <3>1 DEF CheckExists, CheckFile, vars, store
    <3>3. /\ request'[q] = [request[q] EXCEPT !.stage = "act"]
          /\ IF CheckExists(r) THEN ~Exists(workspacePath(Name(q)))
             ELSE directoryExists(workspacePath(Name(q)))
      BY <2>1, <3>1 DEF CheckExists, CheckFile, Step, At, RequestInv
    <3>4. /\ CheckExists(r) => request[q].command.action = "create"
          /\ ~CheckExists(r) => request[q].command.action # "create"
      BY <2>1, <3>1 DEF CheckExists, CheckFile, At, RequestInv, Good
    <3>5. request'[q].command = request[q].command
      <4>1. request[q] \in Running
        BY <2>1, <3>1 DEF CheckExists, CheckFile, At, RequestInv
      <4> QED
        BY <3>3, <4>1 DEF Running
    <3> QED
      BY <3>2, <3>3, <3>4, <3>5, SameTests DEF Name, workspacePath
  <2>2. CASE q # r
    <3>1. request'[q] = request[q]
      BY <1>2, <2>2
         DEF CommandSteps, BeginCommand, LoadService, NewWorkspace, LoadOrStore, Lock, CheckCreate,
             CheckExists, CheckFile, CreateWorkspace, SwitchWorkspace, WriteWorkspaceFile,
             ReadWorkspace, Step, RequestInv
    <3>2. Holding(q) /\ Passed
      BY <3>1 DEF TestsStillHold, At, Holding
    <3>3. CASE EnsureDir(Base)
      <4>1. Name(q) \in Segment
        BY <3>2, NamesAreSegments
      <4> QED
        BY <3>1, <3>2, <3>3, <4>1, BaseKeepsTests DEF Name, workspacePath
    <3>4. ASSUME CreateWorkspace(r) \/ \E load \in Payload : WriteWorkspaceFile(r, load[1], DefaultMode)
          PROVE  FALSE
      <4>1. Holding(r) /\ ~Shared(r)
        BY <3>4 DEF CreateWorkspace, WriteWorkspaceFile, At, Holding, Shared
      <4> QED
        BY <2>2, <3>2, <4>1 DEF RequestInv
    <3>5. CASE UNCHANGED <<store, directories>>
      BY <1>1, <3>1, <3>5
    <3> QED
      BY <1>2, <3>3, <3>4, <3>5
         DEF CommandSteps, BeginCommand, LoadService, NewWorkspace, LoadOrStore, Lock, CheckCreate,
             CheckExists, CheckFile, SwitchWorkspace, ReadWorkspace, vars, store
  <2> QED
    BY <2>1, <2>2
<1>3. CASE Disturbs
  <2>1. request[q] # NoRequest /\ request[q] \in Running
    BY <1>3 DEF Disturbs, At, RequestInv
  <2>2. /\ request[q].stage = "act" /\ ~request[q].disturbed
        /\ UNCHANGED <<store, directories>>
        /\ request'[q].command = request[q].command
    <3> DEFINE changed == <<store, directories>>' # <<store, directories>>
               flag == request[q].disturbed \/ (request[q].stage \in {"exists", "act"} /\ changed)
    <3>1. request'[q] = [request[q] EXCEPT !.disturbed = flag]
      BY <1>3, <2>1 DEF Disturbs
    <3> HIDE DEF flag
    <3>2. /\ request'[q].disturbed = flag /\ request'[q].stage = request[q].stage
          /\ request'[q].command = request[q].command
      BY <2>1, <3>1 DEF Running
    <3>3. request[q].stage = "act" /\ ~flag
      BY <3>2 DEF At
    <3> QED
      BY <3>2, <3>3 DEF flag
  <2>3. Passed
    BY <2>1, <2>2 DEF TestsStillHold, At
  <2> QED
    BY <2>2, <2>3, SameTests DEF Name, workspacePath
<1>4. CASE UNCHANGED allVars
  BY <1>1, <1>4 DEF allVars, store
<1> QED
  BY <1>2, <1>3, <1>4 DEF ScopedNext, Unlocked, Disturbs

LEMMA InitRequests == ScopedInit => RequestInv /\ TestsStillHold
BY DEF ScopedInit, RequestInv, TestsStillHold, Holding, At

(* A command acts on what it has tested: under the lock of the one service *)
(* nothing but a caller without it comes between, for any number of        *)
(* requests that run together, also those that make the service.           *)
THEOREM TestsAlwaysHold == ScopedSpec => []TestsStillHold
<1>1. RequestInv /\ TestsStillHold /\ [ScopedNext]_allVars => (RequestInv /\ TestsStillHold)'
  BY RequestStep, TestsStep
<1> QED
  BY InitRequests, <1>1, PTL DEF ScopedSpec

-----------------------------------------------------------------------------
(* The medium under the requests                                           *)

(* Whatever a request or a scoped medium does to the medium is a step of   *)
(* it, with paths in Path.                                                 *)
LEMMA ScopedIsStep == RequestInv /\ [ScopedNext]_allVars => [MediumStep]_vars
<1> SUFFICES ASSUME RequestInv, [ScopedNext]_allVars
             PROVE  [MediumStep]_vars
  OBVIOUS
<1>1. /\ \A load \in Payload : load[1] \in Seq(Chunk) /\ load[2] \in Mode
      /\ \A pair \in CanRename : pair[1] \in Path /\ pair[2] \in Path
      /\ WriterPath \subseteq Path /\ MediumPath \subseteq Path
      /\ DefaultMode \in Mode /\ Base \in Path
  BY MemoryAssumption, ScopedAssumption, CommandPaths
<1>2. CASE UNCHANGED vars
  BY <1>2
<1>3. ASSUME NEW r \in Request, CommandSteps(r) PROVE [MediumStep]_vars
  <2>1. CASE EnsureDir(Base)
    BY <1>1, <2>1 DEF MediumStep
  <2>2. ASSUME CreateWorkspace(r), EnsureDir(workspacePath(Name(r))) PROVE MediumStep
    <3>1. workspacePath(Name(r)) \in Path
      BY <2>2, CommandPaths DEF CreateWorkspace, At, RequestInv, Good, Name
    <3> QED
      BY <2>2, <3>1 DEF MediumStep
  <2>3. ASSUME NEW load \in Payload, WriteWorkspaceFile(r, load[1], DefaultMode)
        PROVE  [MediumStep]_vars
    <3>1. /\ request[r] # NoRequest /\ Good(request[r], service)
          /\ request[r].stage = "act" /\ request[r].command.action = "write"
      BY <2>3 DEF WriteWorkspaceFile, At, RequestInv
    <3>2. FilePath(r) \in Path
      BY <3>1, CommandPaths DEF FilePath, Name, Good
    <3> QED
      BY <1>1, <2>3, <3>2 DEF WriteWorkspaceFile, MediumStep
  <2> QED
    BY <1>2, <1>3, <2>1, <2>2, <2>3
       DEF CommandSteps, BeginCommand, LoadService, NewWorkspace, LoadOrStore, Lock, CheckCreate,
           CheckExists, CheckFile, CreateWorkspace, SwitchWorkspace, ReadWorkspace
<1>4. CASE dispatchMediumOperation
  <2>1. ASSUME NEW p \in MediumPath,
               \/ ensureDirMediumOperation(p)
               \/ \E recursive \in BOOLEAN : deleteMediumOperation(p, recursive)
               \/ \E load \in Payload : \/ writeMediumOperation(p, load[1])
                                        \/ writeModeMediumOperation(p, load[1], load[2])
        PROVE  MediumStep
    BY <1>1, <2>1
       DEF MediumStep, ensureDirMediumOperation, deleteMediumOperation, deleteAllMediumOperation,
           writeMediumOperation, writeModeMediumOperation
  <2>2. ASSUME NEW pair \in CanRename, renameMediumOperation(pair[1], pair[2]) PROVE MediumStep
    BY <1>1, <2>2 DEF MediumStep, renameMediumOperation
  <2>3. ASSUME NEW h \in Writer,
               \/ \E p \in WriterPath : createMediumOperation(h, p) \/ appendMediumOperation(h, p)
               \/ \E x \in Chunk : writeAndClose(h, x)
        PROVE  MediumStep
    BY <1>1, <2>3 DEF MediumStep, createMediumOperation, appendMediumOperation
  <2> QED
    BY <1>4, <2>1, <2>2, <2>3 DEF dispatchMediumOperation
<1>5. ASSUME NEW name, ScopedCall(name) PROVE MediumStep
  <2>1. ASSUME NEW raw, ScopedWrite(name, raw) PROVE MediumStep
    BY <1>1, <2>1 DEF ScopedWrite, MediumStep
  <2>2. ASSUME NEW raw, ScopedRemove(name, raw) PROVE MediumStep
    BY <2>2 DEF ScopedRemove, MediumStep
  <2>3. ASSUME NEW raw, NEW new, ScopedRename(name, raw, new) PROVE MediumStep
    BY <2>3 DEF ScopedRename, MediumStep
  <2> QED
    BY <1>5, <2>1, <2>2, <2>3 DEF ScopedCall
<1>6. ASSUME NEW p \in Path, MoveFile(p) \/ MoveDir(p) PROVE MediumStep
  BY <1>6 DEF MediumStep
<1>7. CASE RenameReturns
  BY <1>7 DEF MediumStep
<1> QED
  BY <1>2, <1>3, <1>4, <1>5, <1>6, <1>7 DEF ScopedNext, Unlocked, allVars, vars

(* What the requests and their services keep.                              *)
OwnersInv == current \in [Request -> Segment \cup {NoName}] /\ scoped \subseteq Segment

LEMMA OwnersStep == RequestInv /\ OwnersInv /\ [ScopedNext]_allVars => OwnersInv'
<1> SUFFICES ASSUME RequestInv, OwnersInv, [ScopedNext]_allVars
             PROVE  OwnersInv'
  OBVIOUS
<1>1. CASE UNCHANGED <<current, scoped>>
  BY <1>1 DEF OwnersInv
<1>2. ASSUME NEW r \in Request, CreateWorkspace(r) \/ SwitchWorkspace(r) PROVE OwnersInv'
  <2>1. Name(r) \in Segment
    BY <1>2, NamesAreSegments DEF CreateWorkspace, SwitchWorkspace, At, Holding
  <2> QED
    BY <1>2, <2>1 DEF CreateWorkspace, SwitchWorkspace, OwnersInv
<1> QED
  BY <1>1, <1>2
     DEF ScopedNext, Unlocked, allVars, CommandSteps, BeginCommand, LoadService, NewWorkspace,
         LoadOrStore, Lock, CheckCreate, CheckExists, CheckFile, WriteWorkspaceFile, ReadWorkspace

ScopedInv == StoreInv /\ RequestInv /\ OwnersInv

LEMMA ScopedAlways == ScopedSpec => []ScopedInv
<1>1. ScopedInit => ScopedInv
  BY InitStore, InitRequests DEF ScopedInit, ScopedInv, OwnersInv
<1>2. ScopedInv /\ [ScopedNext]_allVars => ScopedInv'
  BY StoreStep, ScopedIsStep, RequestStep, OwnersStep DEF ScopedInv
<1> QED
  BY <1>1, <1>2, PTL DEF ScopedSpec

(* Every variable of the requests and of their medium keeps its type.      *)
THEOREM ScopedTypeCorrect == ScopedSpec => []ScopedTypeOK
<1>1. ScopedInv => ScopedTypeOK
  BY DEF ScopedInv, StoreInv, RequestInv, OwnersInv, ScopedTypeOK
<1> QED
  BY <1>1, ScopedAlways, PTL

(* The three maps of a file agree under concurrent requests as well.       *)
THEOREM RequestsKeepMetadata == ScopedSpec => []MetadataTogether
<1>1. ScopedInv => MetadataTogether
  BY DEF ScopedInv, StoreInv
<1> QED
  BY <1>1, ScopedAlways, PTL

-----------------------------------------------------------------------------
(* What the medium lists                                                   *)

(* A path below d is in d, or in a directory that is.                      *)
LEMMA EntryOf ==
  ASSUME NEW d \in Path, NEW p \in Path, Under(p, d)
  PROVE  \E c \in Path : /\ Front(c) = d /\ Last(c) = p[Len(d) + 1]
                         /\ \/ c = p /\ Len(p) = Len(d) + 1
                            \/ Under(p, c) /\ Len(p) > Len(d) + 1
<1> DEFINE n == Len(d) + 1
           c == SubSeq(p, 1, n)
<1>1. /\ d \in Seq(Segment) /\ p \in Seq(Segment) /\ Len(d) \in Nat /\ Len(p) \in Nat
      /\ Len(d) < Len(p) /\ \A i \in 1 .. Len(d) : d[i] = p[i]
  BY PathSequences, LenProperties, UnderElements
<1>2. /\ n \in 0 .. Len(p) /\ n \in 1 .. n /\ Len(d) \in 0 .. n /\ n - 1 = Len(d)
      /\ 1 .. Len(d) \subseteq 1 .. n
  BY <1>1
<1>3. /\ c \in Seq(Segment) /\ Len(c) = n /\ IsPrefix(c, p)
      /\ \A i \in 1 .. n : c[i] = p[i]
  BY <1>1, <1>2, Beginning
<1> HIDE DEF c
<1>4. Last(c) = p[n]
  BY <1>2, <1>3 DEF Last
<1>5. Front(c) = d
  <2>1. /\ Front(c) \in Seq(Segment) /\ Len(Front(c)) = Len(d)
        /\ \A i \in 1 .. Len(d) : Front(c)[i] = c[i]
    BY <1>2, <1>3, Beginning DEF Front
  <2>2. \A i \in 1 .. Len(d) : Front(c)[i] = d[i]
    BY <1>1, <1>2, <1>3, <2>1
  <2> QED
    BY <1>1, <2>1, <2>2, SeqEqual
<1>6. c = p <=> Len(p) = n
  BY <1>1, <1>3, SeqEqual
<1>7. Under(p, c) <=> Len(p) > n
  BY <1>1, <1>2, <1>3, UnderElements
<1>8. c \in Path
  <2>1. CASE c = p
    BY <2>1
  <2>2. CASE Under(p, c)
    <3>1. c # <<>>
      BY <1>1, <1>3, EmptySeq
    <3>2. c \in Ancestors(p)
      BY <1>1, <1>3, <2>2, <3>1, AncestorsAreAbove
    <3> QED
      BY <3>2, PathSequences
  <2> QED
    BY <1>3, <2>1, <2>2 DEF Under, IsStrictPrefix
<1>9. Len(p) = n \/ Len(p) > n
  BY <1>1
<1> QED
  BY <1>4, <1>5, <1>6, <1>7, <1>8, <1>9

(* A path in d is below it, and its last name is the one after d's.        *)
LEMMA ChildIn ==
  ASSUME NEW d \in Path, NEW p \in Path, Front(p) = d
  PROVE  Under(p, d) /\ Len(p) = Len(d) + 1 /\ Last(p) = p[Len(d) + 1]
<1>1. p \in Seq(Segment) /\ p # <<>> /\ Len(p) \in Nat
  BY PathSequences, LenProperties
<1>2. Len(p) - 1 \in 0 .. Len(p)
  BY <1>1, EmptySeq
<1>3. Len(d) = Len(p) - 1
  BY <1>1, <1>2, Beginning DEF Front
<1>4. Under(p, d)
  BY <1>1, FrontAbove
<1> QED
  BY <1>1, <1>3, <1>4 DEF Last

LEMMA ListingsFollow == TypeOK => ListingComplete
<1> SUFFICES ASSUME TypeOK, \A p \in Files : ~directoryExists(p), NEW d \in Path
             PROVE  List(d) = {[name |-> Last(p), isDir |-> directoryExists(p)] :
                                 p \in {q \in Path : Exists(q) /\ Front(q) = d}}
  BY DEF ListingComplete
<1> DEFINE Shown == {[name |-> Last(p), isDir |-> directoryExists(p)] :
                       p \in {q \in Path : Exists(q) /\ Front(q) = d}}
<1>1. Files \subseteq Path /\ directories \subseteq Path /\ d \in Seq(Segment) /\ Len(d) \in Nat
  BY PathSequences, LenProperties DEF TypeOK, Files
<1>2. ASSUME NEW p \in Files, Under(p, d)
      PROVE  [name |-> p[Len(d) + 1], isDir |-> Len(p) > Len(d) + 1] \in Shown
  <2>1. PICK c \in Path : /\ Front(c) = d /\ Last(c) = p[Len(d) + 1]
                          /\ \/ c = p /\ Len(p) = Len(d) + 1
                             \/ Under(p, c) /\ Len(p) > Len(d) + 1
    BY <1>1, <1>2, EntryOf
  <2>2. CASE c = p /\ Len(p) = Len(d) + 1
    <3>1. Exists(c) /\ directoryExists(c) = FALSE
      BY <1>1, <2>2 DEF Exists, Files, directoryExists
    <3>2. (Len(p) > Len(d) + 1) = FALSE
      BY <1>1, <2>2
    <3> QED
      BY <2>1, <3>1, <3>2
  <2>3. CASE Under(p, c) /\ Len(p) > Len(d) + 1
    <3>1. Exists(c) /\ directoryExists(c)
      BY <2>3 DEF Exists, directoryExists, Below
    <3> QED
      BY <2>1, <2>3, <3>1
  <2> QED
    BY <2>1, <2>2, <2>3
<1>3. ASSUME NEW p \in directories, Under(p, d)
      PROVE  [name |-> p[Len(d) + 1], isDir |-> TRUE] \in Shown
  <2>1. PICK c \in Path : /\ Front(c) = d /\ Last(c) = p[Len(d) + 1]
                          /\ c = p \/ Under(p, c)
    BY <1>1, <1>3, EntryOf
  <2>2. Exists(c) /\ directoryExists(c)
    BY <2>1 DEF Exists, directoryExists, Below
  <2> QED
    BY <2>1, <2>2
<1>4. ASSUME NEW p \in Path, Exists(p), Front(p) = d
      PROVE  [name |-> Last(p), isDir |-> directoryExists(p)] \in List(d)
  <2>1. Under(p, d) /\ Len(p) = Len(d) + 1 /\ Last(p) = p[Len(d) + 1]
    BY <1>4, ChildIn
  <2>2. CASE directoryExists(p)
    <3>1. CASE p \in directories
      BY <2>1, <2>2, <3>1 DEF List, addDirectoryEntries
    <3>2. ASSUME NEW q \in Files \cup directories, Under(q, p)
          PROVE  [name |-> Last(p), isDir |-> TRUE] \in List(d)
      <4>1. /\ p \in Seq(Segment) /\ q \in Seq(Segment) /\ Len(p) \in Nat /\ Len(q) \in Nat
        BY <1>1, PathSequences, LenProperties
      <4>2. Len(q) > Len(p) /\ \A i \in 1 .. Len(p) : p[i] = q[i]
        BY <3>2, <4>1, UnderElements
      <4>3. Under(q, d)
        BY <1>1, <2>1, <3>2, <4>1, PrefixTransitive DEF Under, IsStrictPrefix
      <4>4. q[Len(d) + 1] = Last(p) /\ Len(q) > Len(d) + 1
        BY <1>1, <2>1, <4>1, <4>2
      <4>5. CASE q \in Files
        BY <4>3, <4>4, <4>5 DEF List, addFileEntries
      <4>6. CASE q \in directories
        BY <4>3, <4>4, <4>6 DEF List, addDirectoryEntries
      <4> QED
        BY <3>2, <4>5, <4>6
    <3> QED
      BY <2>2, <3>1, <3>2 DEF directoryExists, Below
  <2>3. CASE ~directoryExists(p)
    <3>1. p \in Files /\ directoryExists(p) = FALSE
      BY <1>4, <2>3 DEF Exists, Files, directoryExists
    <3>2. (Len(p) > Len(d) + 1) = FALSE
      BY <1>1, <2>1
    <3> QED
      BY <2>1, <3>1, <3>2 DEF List, addFileEntries
  <2> QED
    BY <2>2, <2>3
<1>5. List(d) \subseteq Shown
  <2> HIDE DEF Shown
  <2> QED
    BY <1>2, <1>3 DEF List, addFileEntries, addDirectoryEntries
<1> QED
  BY <1>4, <1>5

(* What the medium lists for a directory is there and as it is shown, and  *)
(* nothing in the directory is left out, whoever put it there.             *)
THEOREM ListingsAlwaysComplete == ScopedSpec => []ListingComplete
<1>1. ScopedInv => ListingComplete
  BY ListingsFollow DEF ScopedInv, StoreInv
<1> QED
  BY <1>1, ScopedAlways, PTL

-----------------------------------------------------------------------------
(* Workspaces and what is outside them                                     *)

(* CleanPath goes over a path one segment after the other.                 *)
LEMMA CleanPathIs ==
  ASSUME NEW raw, Len(raw) \in Nat, NEW g, g = [k \in 0 .. Len(raw) |-> g[k]], g[0] = <<>>,
         \A k \in 1 .. Len(raw) : g[k] = CleanStep(g[k - 1], raw[k])
  PROVE  CleanPath(raw) = g[Len(raw)]
<1> DEFINE D == 0 .. Len(raw)
           after[n \in D] == IF n = 0 THEN <<>> ELSE CleanStep(after[n - 1], raw[n])
           goes(h) == [n \in D |-> IF n = 0 THEN <<>> ELSE CleanStep(h[n - 1], raw[n])]
<1>1. CleanPath(raw) = after[Len(raw)]
  BY DEF CleanPath
<1>2. after = CHOOSE h : h = goes(h)
  OBVIOUS
<1>3. g = goes(g)
  <2>1. \A n \in D : n # 0 => n \in 1 .. Len(raw)
    OBVIOUS
  <2>2. goes(g) = [n \in D |-> g[n]]
    BY <2>1
  <2> QED
    BY <2>2
<1> HIDE DEF after, goes
<1>4. after = goes(after)
  BY <1>2, <1>3
<1>5. \A n \in D : after[n] = g[n]
  <2> DEFINE wrong == {n \in D : after[n] # g[n]}
  <2> SUFFICES ASSUME wrong # {}
               PROVE  FALSE
    OBVIOUS
  <2>1. wrong \in SUBSET Nat /\ \A n \in Nat : n \in wrong <=> n \in D /\ after[n] # g[n]
    OBVIOUS
  <2> HIDE DEF wrong
  <2>2. PICK m \in wrong : \A n \in wrong : m <= n
    BY <2>1, LeastOf
  <2>3. m \in Nat /\ m \in D /\ (m # 0 => m - 1 \in Nat /\ m - 1 \in D /\ ~(m <= m - 1))
    BY <2>1, <2>2
  <2>4. m # 0 => after[m - 1] = g[m - 1]
    BY <2>1, <2>2, <2>3
  <2>5. after[m] = (IF m = 0 THEN <<>> ELSE CleanStep(after[m - 1], raw[m]))
        /\ g[m] = (IF m = 0 THEN <<>> ELSE CleanStep(g[m - 1], raw[m]))
    BY <1>3, <1>4, <2>3 DEF goes
  <2> QED
    BY <2>1, <2>2, <2>4, <2>5
<1>6. Len(raw) \in D
  OBVIOUS
<1> QED
  BY <1>1, <1>5, <1>6

(* A path without a .. leads down.                                         *)
LEMMA CleanPathDown ==
  ASSUME NEW raw \in Raw, DotDot \notin ToSet(raw)
  PROVE  CleanPath(raw) \in Seq(Segment)
<1> DEFINE n == Len(raw)
           V == Seq(Segment)
           F == [k \in 1 .. n |-> [path \in V |-> CleanStep(path, raw[k])]]
           start == <<>>
<1>1. n \in Nat /\ \A k \in 1 .. n : raw[k] \in Segment \cup {Dot, Blank} /\ raw[k] # DotDot
  <2>1. raw \in Seq(Segment \cup {Dot, DotDot, Blank})
    BY DEF Raw
  <2>2. n \in Nat /\ \A k \in 1 .. n : raw[k] \in Segment \cup {Dot, DotDot, Blank} /\ k \in DOMAIN raw
    BY <2>1, LenProperties, ElementOfSeq
  <2> QED
    BY <2>2 DEF ToSet
<1>2. ASSUME NEW k \in 1 .. n, NEW path \in V PROVE CleanStep(path, raw[k]) \in V
  <2>1. CASE raw[k] \in {Dot, Blank}
    BY <1>1, <2>1 DEF CleanStep
  <2>2. CASE raw[k] \in Segment
    <3>1. raw[k] \notin {Dot, Blank} /\ raw[k] # DotDot
      BY <2>2, ScopedAssumption
    <3>2. CleanStep(path, raw[k]) = Append(path, raw[k])
      BY <3>1 DEF CleanStep
    <3> QED
      BY <2>2, <3>2
  <2> QED
    BY <1>1, <2>1, <2>2
<1>3. F \in [1 .. n -> [V -> V]]
  BY <1>2
<1>4. start \in V
  OBVIOUS
<1> HIDE DEF V, n, start
<1>5. PICK g : Passes(g, n, V, start, F)
  <2> HIDE DEF F
  <2> QED
    BY <1>1, <1>3, <1>4, LoopRuns
<1>6. ASSUME NEW k \in 1 .. n PROVE g[k] = CleanStep(g[k - 1], raw[k])
  <2>1. k - 1 \in 0 .. n
    BY <1>1
  <2> QED
    BY <1>5, <2>1 DEF Passes
<1>7. CleanPath(raw) = g[n]
  BY <1>1, <1>5, <1>6, CleanPathIs DEF n, start, Passes
<1>8. n \in 0 .. n
  BY <1>1
<1> QED
  BY <1>5, <1>7, <1>8 DEF V, Passes

(* A clean path stays what it is.                                          *)
LEMMA CleanPathOfClean ==
  ASSUME NEW path \in Seq(Segment)
  PROVE  CleanPath(path) = path
<1> DEFINE n == Len(path)
           g == [k \in 0 .. n |-> SubSeq(path, 1, k)]
<1>1. n \in Nat /\ 0 \in 0 .. n /\ n \in 0 .. n
  BY LenProperties
<1>2. g[0] = <<>>
  <2>1. SubSeq(path, 1, 0) \in Seq(Segment) /\ Len(SubSeq(path, 1, 0)) = 0
    BY <1>1, Beginning
  <2> QED
    BY <1>1, <2>1, EmptySeq
<1>3. ASSUME NEW k \in 1 .. n PROVE g[k] = CleanStep(g[k - 1], path[k])
  <2> DEFINE s == SubSeq(path, 1, k - 1)
             t == SubSeq(path, 1, k)
  <2>1. k \in 0 .. n /\ k - 1 \in 0 .. n /\ path[k] \in Segment
    BY <1>1, ElementOfSeq
  <2>2. s \in Seq(Segment) /\ Len(s) = k - 1 /\ \A i \in 1 .. k - 1 : s[i] = path[i]
    BY <2>1, Beginning
  <2>3. t \in Seq(Segment) /\ Len(t) = k /\ \A i \in 1 .. k : t[i] = path[i]
    BY <2>1, Beginning
  <2>4. path[k] \notin {Dot, Blank} /\ path[k] # DotDot
    BY <2>1, ScopedAssumption
  <2> HIDE DEF s, t
  <2>5. CleanStep(s, path[k]) = Append(s, path[k])
    BY <2>4 DEF CleanStep
  <2>6. /\ Append(s, path[k]) \in Seq(Segment) /\ Len(Append(s, path[k])) = k
        /\ \A i \in 1 .. k : Append(s, path[k])[i] = path[i]
    BY <2>1, <2>2
  <2>7. Append(s, path[k]) = t
    BY <2>3, <2>6, SeqEqual
  <2> QED
    BY <2>1, <2>5, <2>7 DEF s, t
<1>4. g = [k \in 0 .. n |-> g[k]]
  OBVIOUS
<1>5. g[n] = path
  BY <1>1, SubSeqFull
<1> HIDE DEF g
<1> QED
  BY <1>1, <1>2, <1>3, <1>4, <1>5, CleanPathIs

(* What a scoped path leads to is in the workspace.                        *)
LEMMA ScopedPathInside ==
  ASSUME NEW name \in Segment, NEW raw \in Raw, NEW allowRoot \in BOOLEAN,
         scopedPath(name, raw, allowRoot) # NoPath
  PROVE  IsPrefix(workspacePath(name), scopedPath(name, raw, allowRoot))
<1> DEFINE root == workspacePath(name)
           sub == cleanMediumSubpath(raw, allowRoot)
<1>1. root \in Seq(Segment)
  BY ScopedAssumption DEF workspacePath
<1>2. sub # NoPath /\ scopedPath(name, raw, allowRoot) = CleanPath(root \o sub)
  BY DEF scopedPath, joinMediumSubpaths
<1>3. sub \in Seq(Segment)
  <2>1. <<>> \in Seq(Segment)
    OBVIOUS
  <2>2. sub = <<>> \/ (sub = CleanPath(raw) /\ DotDot \notin ToSet(raw))
    BY <1>2 DEF cleanMediumSubpath
  <2> HIDE DEF sub
  <2> QED
    BY <2>1, <2>2, CleanPathDown
<1> HIDE DEF sub, root
<1>4. /\ root \o sub \in Seq(Segment) /\ Len(root) \in Nat /\ Len(sub) \in Nat
      /\ Len(root \o sub) = Len(root) + Len(sub)
      /\ \A i \in 1 .. Len(root) + Len(sub) :
           (root \o sub)[i] = IF i <= Len(root) THEN root[i] ELSE sub[i - Len(root)]
  BY <1>1, <1>3, LenProperties, ConcatProperties
<1>5. IsPrefix(root, root \o sub)
  <2>1. Len(root) <= Len(root \o sub) /\ \A i \in 1 .. Len(root) : root[i] = (root \o sub)[i]
    BY <1>4
  <2> QED
    BY <1>1, <1>4, <2>1, PrefixElements
<1> QED
  BY <1>2, <1>4, <1>5, CleanPathOfClean DEF root

(* The paths in a workspace.                                               *)
Inside(name) == {p \in Path : IsPrefix(workspacePath(name), p)}

(* A call of the medium with paths in a workspace changes nothing outside. *)
LEMMA CallInside ==
  ASSUME TypeOK, NEW name \in Segment, NEW p \in Inside(name), NEW q \in Inside(name),
         NEW c \in Seq(Chunk), NEW m \in Mode,
         \/ WriteMode(p, c, m) \/ EnsureDir(p)
         \/ DeleteFile(p) \/ DeleteDirectory(p) \/ DeleteAll(p)
         \/ RenameFile(p, q) \/ RenameDirectory(p, q)
  PROVE  ChangesOnly(name)
<1> DEFINE root == workspacePath(name)
<1>1. root \in Seq(Segment) /\ p \in Path /\ q \in Path
      /\ Path \subseteq Seq(Segment) /\ IsPrefix(root, p) /\ IsPrefix(root, q)
  BY ScopedAssumption, MemoryAssumption DEF workspacePath, Inside
<1> HIDE DEF root
<1>2. ASSUME NEW d \in Path, d \notin Inside(name)
      PROVE  d \notin {p, q} /\ ~Under(d, p) /\ (d \in Ancestors(p) => d \in Ancestors(root))
  <2>1. ~IsPrefix(root, d) /\ d \in Seq(Segment) /\ p \in Seq(Segment)
    BY <1>1, <1>2 DEF Inside, root
  <2>2. ~IsPrefix(p, d)
    BY <1>1, <2>1, PrefixTransitive
  <2>3. d \in Ancestors(p) => IsPrefix(d, p) /\ d # <<>>
    BY <2>1, AncestorsAreAbove DEF Under, IsStrictPrefix
  <2>4. d \in Ancestors(p) => IsPrefix(d, root) /\ d # root
    BY <1>1, <2>1, <2>3, PrefixesCompare, PrefixOfSelf
  <2> QED
    BY <1>1, <1>2, <2>1, <2>2, <2>3, <2>4, AncestorsAreAbove DEF Under, IsStrictPrefix
<1>3. ASSUME NEW d \in Path, d \notin Inside(name)
      PROVE  Held(d)' = Held(d)
  <2>1. d # p /\ ~Under(d, p)
    BY <1>2, <1>3
  <2>2. DOMAIN fileContents = Path /\ DOMAIN fileModes = Path
    BY DEF TypeOK
  <2> QED
    BY <1>3, <2>1, <2>2
       DEF Held, WriteMode, EnsureDir, DeleteFile, DeleteDirectory, DeleteAll, RenameFile,
           RenameDirectory, Store, Erase, store
<1>4. ASSUME NEW d \in Path, d \notin Inside(name), d \notin Ancestors(root)
      PROVE  d \in directories' <=> d \in directories
  <2>1. d # p /\ d # q /\ ~Under(d, p) /\ d \notin Ancestors(p)
    BY <1>2, <1>4
  <2> QED
    BY <2>1 DEF WriteMode, EnsureDir, DeleteFile, DeleteDirectory, DeleteAll, RenameFile, RenameDirectory
<1>5. rename' # rename => rename'.old = p /\ rename'.new = q
  BY DEF WriteMode, EnsureDir, DeleteFile, DeleteDirectory, DeleteAll, RenameFile, RenameDirectory, renaming
<1> QED
  BY <1>3, <1>4, <1>5 DEF ChangesOnly, Inside, root

(* Nothing that happens changes nothing outside.                           *)
LEMMA NothingInside == \A name : UNCHANGED vars => ChangesOnly(name)
BY DEF ChangesOnly, vars, Held

LEMMA ScopedCallInside ==
  ASSUME TypeOK, NEW name \in Segment, ScopedCall(name)
  PROVE  ChangesOnly(name)
<1>1. ASSUME NEW raw \in ScopedRaw, NEW allowRoot \in BOOLEAN, scopedPath(name, raw, allowRoot) \in Path
      PROVE  scopedPath(name, raw, allowRoot) \in Inside(name)
  BY <1>1, ScopedAssumption, ScopedPathInside DEF Inside
<1>2. \A load \in Payload : load[1] \in Seq(Chunk) /\ load[2] \in Mode
  BY MemoryAssumption
<1>3. DefaultMode \in Mode /\ <<>> \in Seq(Chunk)
  BY MemoryAssumption
<1>4. ASSUME NEW raw \in ScopedRaw, ScopedWrite(name, raw) PROVE ChangesOnly(name)
  BY <1>1, <1>2, <1>3, <1>4, CallInside DEF ScopedWrite
<1>5. ASSUME NEW raw \in ScopedRaw, ScopedRemove(name, raw) PROVE ChangesOnly(name)
  BY <1>1, <1>3, <1>5, CallInside DEF ScopedRemove
<1>6. ASSUME NEW raw \in ScopedRaw, NEW new \in ScopedRaw, ScopedRename(name, raw, new)
      PROVE  ChangesOnly(name)
  BY <1>1, <1>3, <1>6, CallInside DEF ScopedRename
<1> QED
  BY <1>4, <1>5, <1>6 DEF ScopedCall

LEMMA CommandInside ==
  ASSUME TypeOK, RequestInv, NEW r \in Request,
         CreateWorkspace(r) \/ \E load \in Payload : WriteWorkspaceFile(r, load[1], DefaultMode)
  PROVE  ChangesOnly(Name(r))
<1> DEFINE name == Name(r)
<1>1. /\ Good(request[r], service) /\ request[r].stage = "act"
      /\ DefaultMode \in Mode /\ <<>> \in Seq(Chunk)
      /\ \A load \in Payload : load[1] \in Seq(Chunk)
  BY MemoryAssumption DEF CreateWorkspace, WriteWorkspaceFile, At, RequestInv
<1>2. name \in Segment /\ request[r].command \in Commands
  BY <1>1 DEF Good, Name, cleanWorkspaceName
<1>3. workspacePath(name) \in Inside(name)
  <2>1. workspacePath(name) \in Path /\ workspacePath(name) \in Seq(Segment)
    BY <1>1, CommandPaths, MemoryAssumption DEF Good, Name
  <2> QED
    BY <2>1, PrefixOfSelf DEF Inside
<1>4. CASE CreateWorkspace(r)
  <2>1. EnsureDir(workspacePath(name)) \/ UNCHANGED vars
    BY <1>4 DEF CreateWorkspace
  <2> QED
    BY <1>1, <1>2, <1>3, <2>1, CallInside, NothingInside
<1>5. ASSUME NEW load \in Payload, WriteWorkspaceFile(r, load[1], DefaultMode) PROVE ChangesOnly(name)
  <2>1. request[r].command.action = "write" /\ FilePath(r) = scopedPath(name, request[r].command.path, FALSE)
    BY <1>5 DEF WriteWorkspaceFile, FilePath
  <2>2. FilePath(r) # NoPath
    BY <1>1, <2>1 DEF Good, Name
  <2>3. FilePath(r) \in Path
    BY <1>1, <2>1, <2>2, CommandPaths DEF Good, Name
  <2>4. request[r].command.path \in Raw
    BY <1>2, ScopedAssumption DEF WorkspaceCommand
  <2>5. FilePath(r) \in Inside(name)
    BY <1>2, <2>1, <2>2, <2>3, <2>4, ScopedPathInside DEF Inside
  <2>6. WriteMode(FilePath(r), load[1], DefaultMode) \/ UNCHANGED vars
    BY <1>5 DEF WriteWorkspaceFile
  <2> QED
    BY <1>1, <1>2, <2>5, <2>6, CallInside, NothingInside
<1> QED
  BY <1>4, <1>5

(* Whatever name and path it is given, a command or a call of a scoped     *)
(* medium changes nothing outside its workspace except the directories     *)
(* that lead to it.                                                        *)
THEOREM WorkspacesStayInside == ScopedSpec => StaysInside
<1>1. ASSUME ScopedInv, NEW r \in Request, At(r, "act"),
             CreateWorkspace(r) \/ \E load \in Payload : WriteWorkspaceFile(r, load[1], DefaultMode)
      PROVE  ChangesOnly(Name(r))
  BY <1>1, CommandInside DEF ScopedInv, StoreInv
<1>2. ASSUME ScopedInv, NEW name \in scoped, ScopedCall(name)
      PROVE  ChangesOnly(name)
  BY <1>2, ScopedCallInside DEF ScopedInv, StoreInv, OwnersInv
<1>3. ScopedInv =>
        /\ \A r \in Request :
             \/ ~At(r, "act") \/ ChangesOnly(Name(r))
             \/ ~(CreateWorkspace(r) \/ \E load \in Payload : WriteWorkspaceFile(r, load[1], DefaultMode))
        /\ \A name \in scoped \cap ScopedName : ChangesOnly(name) \/ ~ScopedCall(name)
  BY <1>1, <1>2
<1> QED
  BY <1>3, ScopedAlways, PTL DEF StaysInside
=============================================================================
