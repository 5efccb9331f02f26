---------------------------- MODULE LocalMedium ----------------------------
(***************************************************************************)
(* local.Medium (src/go/local/medium.go): files of the operating system    *)
(* below a root directory.  Every call resolves its path, symbolic links   *)
(* included, before it touches a file.  Other programs make and remove     *)
(* files, directories and links between the calls; a call is one step, so  *)
(* what they might do during one, which validatePath's comment leaves      *)
(* open, is left open here too.                                            *)
(***************************************************************************)
EXTENDS Paths

CONSTANTS
  Segment,   \* the names between the slashes
  Up,        \* the name ..
  Path,      \* the absolute paths of the file system, "/" excluded
  Root,      \* filesystemRoot, resolved by New
  Home,      \* what HOME and DIR_HOME name
  CallPath,  \* the paths callers pass, cleaned by cleanSandboxPath
  CanRename, \* the pairs of them callers pass to Rename
  Text,      \* what may be written in a link
  CanLink,   \* the pairs <<path, text>> of links other programs make
  MaxLinks,  \* how many links the operating system follows in one path
  Dir, RegularFile, Missing, Failed

ASSUME LocalAssumption ==
  /\ IsFiniteSet(Path) /\ Path \subseteq Seq(Segment) \ {<<>>}
  /\ \A p \in Path : Ancestors(p) \subseteq Path
  /\ Root \in Path /\ Home \in Path
  /\ CallPath \subseteq Seq(Segment)
  /\ CanRename \subseteq CallPath \X CallPath
  /\ Up \notin Segment
  /\ IsFiniteSet(Text)
  /\ Text \subseteq [absolute : BOOLEAN, parts : Seq(Segment \cup {Up})]
  /\ CanLink \subseteq (Path \ ({Root} \cup Ancestors(Root))) \X Text
  /\ MaxLinks \in Nat
  /\ {Dir, RegularFile, Missing} \cap Text = {} /\ Failed \notin Seq(Segment)
  /\ Dir \notin {RegularFile, Missing} /\ RegularFile # Missing

VARIABLE node  \* what is at each path; a link is what is written in it

LocalTypeOK == node \in [Path -> {Dir, RegularFile, Missing} \cup Text]

LocalInit == node = [p \in Path |-> IF p \in {Root} \cup Ancestors(Root) THEN Dir ELSE Missing]

NodeAt(p) == IF p \in Path THEN node[p] ELSE Missing
IsLink(p) == NodeAt(p) \in Text
ThroughFile(p) == \E q \in Ancestors(p) : NodeAt(q) = RegularFile

-----------------------------------------------------------------------------
(* Going up.  The text of a link is taken from the root, or from the       *)
(* directory the link is in.  The code cleans it with core.Path, so that   *)
(* each .. takes away the name before it, whatever that is; the operating  *)
(* system goes up from a directory, and from nothing else.                 *)

Raw(p, text) == IF text.absolute THEN text.parts ELSE Front(p) \o text.parts

UpOnce(q, dirs) ==
  LET n == Min({k \in 1 .. Len(q) : q[k] = Up}) IN
  IF Up \notin ToSet(q) \/ SubSeq(q, 1, n - 1) \notin dirs THEN q
  ELSE SubSeq(q, 1, n - 2) \o SubSeq(q, n + 1, Len(q))

GoUp(q, dirs) ==
  LET after[n \in 0 .. Len(q)] == IF n = 0 THEN q ELSE UpOnce(after[n - 1], dirs)
  IN after[Len(q)]

Clean(q) == GoUp(q, Seq(Segment))

Directories == {<<>>} \cup {p \in Path : node[p] = Dir}

-----------------------------------------------------------------------------
(* What the operating system does with a path: it replaces the first link  *)
(* on the way by what is written in it, until none is left.  What is       *)
(* missing stands for itself.                                              *)

Links(p) == {n \in 1 .. Len(p) : IsLink(SubSeq(p, 1, n))}
FollowOnce(p) ==
  IF Links(p) = {} THEN p
  ELSE LET n == Min(Links(p))
           link == SubSeq(p, 1, n)
       IN GoUp(Raw(link, node[link]) \o SubSeq(p, n + 1, Len(p)), Directories)

OsPath(p) ==
  LET followed[n \in 0 .. MaxLinks] == IF n = 0 THEN p ELSE FollowOnce(followed[n - 1])
      last == followed[MaxLinks]
  IN IF Links(last) # {} \/ Up \in ToSet(last) \/ ThroughFile(last) THEN Failed ELSE last

-----------------------------------------------------------------------------
(* resolveSymlinksPath and validatePath                                    *)

(* The path that readlink, normalisePath and core.Path make of a link.     *)
Target(next) == Clean(Raw(next, node[next]))

(* The paths that links can have for targets.                              *)
Targets == {Clean(Raw(p, text)) : p \in Path, text \in Text}

(* Mutant: the target's own links are not resolved.                        *)
resolveSymlinkTargetOnce(next, resolved) == Target(next)

resolveSymlinkTarget(next, resolved) == resolved[Target(next)]

(* One pass of the loop: lstat of a name in a file fails; a name that is   *)
(* missing is kept.                                                        *)
ResolvePart(current, part, resolved) ==
  LET next == Append(current, part) IN
  IF current = Failed \/ NodeAt(current) = RegularFile THEN Failed
  ELSE IF IsLink(next) THEN resolveSymlinkTarget(next, resolved) ELSE next

(* The loop over the parts of a path; resolved is what each target that a  *)
(* link may have is resolved to.                                           *)
resolveSymlinksRecursive(path, resolved) ==
  LET current[k \in 0 .. Len(path)] ==
        IF k = 0 THEN <<>> ELSE ResolvePart(current[k - 1], path[k], resolved)
  IN current[Len(path)]

(* A target of a link whose own resolution led here is a cycle.            *)
Resolved[seen \in SUBSET Targets] ==
  [target \in Targets |->
     IF target \in seen THEN Failed
     ELSE resolveSymlinksRecursive(target, Resolved[seen \cup {target}])]

resolveSymlinksPath(path) == resolveSymlinksRecursive(path, Resolved[{}])

isWithinRoot(target) == IsPrefix(Root, target)

(* Mutant: links lead where they lead.                                     *)
validatePathAsGiven(path) == Root \o path

ValidatePart(current, part) ==
  LET realNext == resolveSymlinksPath(Append(current, part)) IN
  IF current # Failed /\ realNext # Failed /\ isWithinRoot(realNext) THEN realNext ELSE Failed

validatePath(path) ==
  LET current[k \in 0 .. Len(path)] ==
        IF k = 0 THEN Root ELSE ValidatePart(current[k - 1], path[k])
  IN current[Len(path)]

canonicalPath(path) ==
  IF resolveSymlinksPath(path) = Failed THEN path ELSE resolveSymlinksPath(path)

isProtectedPath(fullPath) == canonicalPath(fullPath) \in {<<>>, canonicalPath(Home)}

-----------------------------------------------------------------------------
(* The operating system's calls on an absolute path p                      *)

Below(p) == {q \in Path : Under(q, p) /\ node[q] # Missing}
WithDirs(p) == [q \in Path |-> IF q \in Ancestors(p) THEN Dir ELSE node[q]]

(* p's directory is resolved, the name in it is taken as it is.            *)
OsName(p) ==
  IF p = <<>> \/ OsPath(Front(p)) = Failed THEN Failed ELSE Append(OsPath(Front(p)), Last(p))

(* Makes the directories above, then the file, unless there is one.        *)
OsWrite(p) ==
  LET q == OsPath(p) IN
  /\ q \in Path /\ node[q] \in {RegularFile, Missing}
  /\ node' = [WithDirs(q) EXCEPT ![q] = RegularFile]

OsMkdirAll(p) ==
  LET q == OsPath(p) IN
  /\ q \in Path /\ node[q] \in {Dir, Missing}
  /\ node' = [WithDirs(q) EXCEPT ![q] = Dir]

OsRemove(p) ==
  LET q == OsName(p) IN
  /\ q \in Path /\ node[q] # Missing /\ Below(q) = {}
  /\ node' = [node EXCEPT ![q] = Missing]

OsRemoveAll(p) ==
  LET q == OsName(p) IN
  /\ q \in Path
  /\ node' = [n \in Path |-> IF IsPrefix(q, n) THEN Missing ELSE node[n]]

OsRename(old, new) ==
  LET from == OsName(old)
      to == OsName(new)
  IN /\ {from, to} \subseteq Path /\ node[from] # Missing
     /\ Front(to) \in Path => node[Front(to)] = Dir
     /\ Apart(from, to)
     /\ IF node[from] = Dir THEN node[to] \in {Dir, Missing} /\ Below(to) = {} ELSE node[to] # Dir
     /\ \A q \in Below(from) : Rebase(q, from, to) \in Path
     /\ node' = [n \in Path |->
          IF IsPrefix(to, n)
          THEN IF Rebase(n, to, from) \in Path THEN node[Rebase(n, to, from)] ELSE Missing
          ELSE IF IsPrefix(from, n) THEN Missing ELSE node[n]]

-----------------------------------------------------------------------------
(* The medium's calls; contents are left out, so Create and Append leave   *)
(* what Write leaves.                                                      *)

Valid(p) == validatePath(p) # Failed

WriteMode(p) == Valid(p) /\ OsWrite(validatePath(p))

EnsureDir(p) == Valid(p) /\ OsMkdirAll(validatePath(p))

MayDelete(p) == Valid(p) /\ validatePath(p) # Root /\ ~isProtectedPath(validatePath(p))

Delete(p) == MayDelete(p) /\ OsRemove(validatePath(p))

DeleteAll(p) == MayDelete(p) /\ OsRemoveAll(validatePath(p))

Rename(old, new) == Valid(old) /\ Valid(new) /\ OsRename(validatePath(old), validatePath(new))

MediumCall ==
  \/ \E p \in CallPath : WriteMode(p) \/ EnsureDir(p) \/ Delete(p) \/ DeleteAll(p)
  \/ \E pair \in CanRename : Rename(pair[1], pair[2])

(* Another program makes or removes one file, directory or link.           *)
Elsewhere ==
  \E p \in Path \ ({Root} \cup Ancestors(Root)) :
    \/ /\ node[p] = Missing
       /\ Front(p) \in Path => node[Front(p)] = Dir
       /\ \E new \in {RegularFile, Dir} \cup {t \in Text : <<p, t>> \in CanLink} :
            node' = [node EXCEPT ![p] = new]
    \/ /\ node[p] # Missing /\ Below(p) = {}
       /\ node' = [node EXCEPT ![p] = Missing]

LocalNext == MediumCall \/ Elsewhere

LocalSpec == LocalInit /\ [][LocalNext]_node

-----------------------------------------------------------------------------
(* Properties                                                              *)

(* The text of each link means to core.Path what it means to the operating *)
(* system: a .. in it follows nothing but directories, as do those that a  *)
(* relative text begins with.                                              *)
CleanTargets ==
  \A p \in Path : IsLink(p) => GoUp(Raw(p, node[p]), Directories) = Target(p)

(* resolveSymlinksPath answers the path at which the operating system ends *)
(* up, chains of links and links in targets included, and fails just when  *)
(* that finds a loop or a file on the way, unless a .. after a link, a     *)
(* file or a missing name misleads it.  (resolveSymlinksRecursive,         *)
(* resolveSymlinkTarget)                                                   *)
ResolveAgrees == CleanTargets => \A p \in Path : resolveSymlinksPath(p) = OsPath(p)

(* Whatever links there are, a call of the medium changes nothing but what *)
(* is below its root, and leaves the root there.  (validatePath and the    *)
(* calls that rely on it)                                                  *)
OutsideUnchanged ==
  [][MediumCall => \A p \in Path : ~Under(p, Root) => node'[p] = node[p]]_node
=============================================================================
