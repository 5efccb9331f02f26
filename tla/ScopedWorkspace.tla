-------------------------- MODULE ScopedWorkspace --------------------------
(***************************************************************************)
(* workspace.Workspace (src/go/workspace/workspace.go) behind the HTTP     *)
(* provider (src/go/pkg/api/handlers.go), over the provider's              *)
(* MemoryMedium.  Requests run at the same time.  One that gives a         *)
(* workspace command first finds the provider's Workspace or makes it,     *)
(* then runs the command under that Workspace's RWMutex.  Requests for the *)
(* medium itself, and the scoped mediums that CreateWorkspace hands out,   *)
(* change the medium without that lock.  Every call of the medium is one   *)
(* step, except Rename, which is the steps of MemoryMedium; calls that     *)
(* overlap are a data race, which ends the process, and are left out.      *)
(***************************************************************************)
EXTENDS MemoryMedium

CONSTANTS
  Base,       \* the path of "workspaces"
  Dot, DotDot, Blank,  \* the segments ".", ".." and ""
  Request,    \* the requests that run at once
  Commands,   \* the workspace commands that clients send
  MediumPath, \* the paths of their requests for the medium
  ScopedName, \* the names whose scoped mediums are kept in use
  ScopedRaw,  \* the paths that are given to those
  NoRequest, NoService, NoName, NoPath

(* Names and paths before they are cleaned, split at the slashes.          *)
Raw == Seq(Segment \cup {Dot, DotDot, Blank}) \ {<<>>}

WorkspaceCommand ==
  [action : {"create", "switch", "read", "write", "list"}, name : Raw, path : Raw]

(* A request that carries out a command.  A service is named after the     *)
(* request that made it.  disturbed is history: someone has changed the    *)
(* medium without the lock since the command's first test.                 *)
Running == [command : WorkspaceCommand, service : Request \cup {NoService}, disturbed : BOOLEAN,
            stage : {"load", "make", "store", "lock", "check", "exists", "act"}]

ASSUME ScopedAssumption ==
  /\ Base \in Seq(Segment) \ {<<>>}
  /\ {Dot, DotDot, Blank} \cap Segment = {}
  /\ Commands \subseteq WorkspaceCommand
  /\ MediumPath \subseteq Path
  /\ ScopedRaw \subseteq Raw
  /\ NoPath \notin Path
  /\ NoRequest \notin Running
  /\ NoService \notin Request

VARIABLES
  request,  \* what each request is doing, or NoRequest
  service,  \* the provider's entry in apiWorkspaceServices, or NoService
  current,  \* the current workspace of each service, or NoName
  scoped    \* the workspaces whose scoped medium was handed out

workspaceVars == <<request, service, current, scoped>>
allVars == <<fileContents, fileModes, modificationTimes, directories, writer, rename,
             filesToMove, dirsToMove, origin, request, service, current, scoped>>

(* Every variable holds a value of its kind.                               *)
ScopedTypeOK ==
  /\ TypeOK
  /\ request \in [Request -> Running \cup {NoRequest}]
  /\ service \in Request \cup {NoService}
  /\ current \in [Request -> Segment \cup {NoName}]
  /\ scoped \subseteq Segment

ScopedInit ==
  /\ Init
  /\ request = [r \in Request |-> NoRequest]
  /\ service = NoService
  /\ current = [r \in Request |-> NoName]
  /\ scoped = {}

-----------------------------------------------------------------------------
(* Names and paths                                                         *)

CleanStep(path, s) ==
  CASE s \in {Dot, Blank} -> path
    [] s = DotDot /\ path # <<>> /\ Last(path) # DotDot -> Front(path)
    [] OTHER -> Append(path, s)

(* core.CleanPath: what a path leads to, from where it starts.             *)
CleanPath(raw) ==
  LET after[n \in 0 .. Len(raw)] == IF n = 0 THEN <<>> ELSE CleanStep(after[n - 1], raw[n])
  IN after[Len(raw)]

(* Mutant: .. is left to CleanPath.                                        *)
cleanMediumSubpathUp(raw, allowEmpty) ==
  IF raw \in {<<Blank>>, <<Dot>>} \/ CleanPath(raw) = <<>> THEN IF allowEmpty THEN <<>> ELSE NoPath
  ELSE IF Head(raw) = Blank THEN NoPath
  ELSE CleanPath(raw)

(* The empty path, absolute paths and paths with a .. in them are refused. *)
cleanMediumSubpath(raw, allowEmpty) ==
  IF raw \in {<<Blank>>, <<Dot>>} THEN IF allowEmpty THEN <<>> ELSE NoPath
  ELSE IF Head(raw) = Blank \/ DotDot \in ToSet(raw) THEN NoPath
  ELSE IF CleanPath(raw) = <<>> THEN IF allowEmpty THEN <<>> ELSE NoPath
  ELSE CleanPath(raw)

joinMediumSubpaths(root, path) == IF path = NoPath THEN NoPath ELSE CleanPath(root \o path)

cleanWorkspaceName(raw) ==
  IF Len(raw) = 1 /\ Head(raw) \in Segment THEN Head(raw) ELSE NoName

workspacePath(name) == Append(Base, name)

(* A file or directory in a workspace, for a scoped medium as well         *)
scopedPath(name, raw, allowRoot) ==
  joinMediumSubpaths(workspacePath(name), cleanMediumSubpath(raw, allowRoot))

(* The bound Path holds the paths that commands lead to.                   *)
ASSUME CommandPaths ==
  /\ Base \in Path
  /\ \A command \in Commands :
       cleanWorkspaceName(command.name) # NoName =>
         /\ workspacePath(Head(command.name)) \in Path
         /\ scopedPath(Head(command.name), command.path, FALSE) \in Path \cup {NoPath}

-----------------------------------------------------------------------------
(* Finding the service                                                     *)

Step(r, next) == request' = [request EXCEPT ![r] = next]
At(r, stage) == request[r] # NoRequest /\ request[r].stage = stage

(* createWorkspace, switchWorkspace or handleWorkspaceCommand              *)
BeginCommand(r, command) ==
  /\ request[r] = NoRequest
  /\ Step(r, [command |-> command, service |-> NoService, disturbed |-> FALSE, stage |-> "load"])
  /\ UNCHANGED <<vars, service, current, scoped>>

(* apiWorkspaceServices.Load(p)                                            *)
LoadService(r) ==
  /\ At(r, "load")
  /\ Step(r, IF service = NoService THEN [request[r] EXCEPT !.stage = "make"]
             ELSE [request[r] EXCEPT !.stage = "lock", !.service = service])
  /\ UNCHANGED <<vars, service, current, scoped>>

(* EnsureDir of the base directory fails when a file is there.             *)
NewWorkspace(r) ==
  /\ At(r, "make")
  /\ \/ EnsureDir(Base) /\ Step(r, [request[r] EXCEPT !.stage = "store"])
     \/ IsFile(Base) /\ rename = NoRename /\ Step(r, NoRequest) /\ UNCHANGED vars
  /\ UNCHANGED <<service, current, scoped>>

(* Mutant: a request that made a service goes on with it.                  *)
StoreService(r) ==
  /\ At(r, "store")
  /\ service' = r
  /\ Step(r, [request[r] EXCEPT !.stage = "lock", !.service = r])
  /\ current' = [current EXCEPT ![r] = NoName]
  /\ UNCHANGED <<vars, scoped>>

LoadOrStore(r) ==
  /\ At(r, "store")
  /\ service' = IF service = NoService THEN r ELSE service
  /\ Step(r, [request[r] EXCEPT !.stage = "lock", !.service = service'])
  /\ UNCHANGED <<vars, current, scoped>>

-----------------------------------------------------------------------------
(* The commands                                                            *)

Holders(s) ==
  {q \in Request : request[q] # NoRequest /\ request[q].service = s
                   /\ request[q].stage \in {"check", "exists", "act"}}
Shared(r) == request[r].command.action \in {"read", "list"}

(* Lock, or RLock to read or list; an invalid name is an error.            *)
Lock(r) ==
  /\ At(r, "lock")
  /\ LET holders == Holders(request[r].service) IN
     holders = {} \/ (Shared(r) /\ \A q \in holders : Shared(q))
  /\ Step(r, IF cleanWorkspaceName(request[r].command.name) = NoName THEN NoRequest
             ELSE [request[r] EXCEPT !.stage = "check"])
  /\ UNCHANGED <<vars, service, current, scoped>>

Name(r) == Head(request[r].command.name)
FilePath(r) ==
  scopedPath(Name(r), request[r].command.path, request[r].command.action = "list")

(* workspace.medium.IsDir(workspacePath); the path is cleaned after it.    *)
CheckCreate(r) ==
  /\ At(r, "check") /\ request[r].command.action = "create" /\ rename = NoRename
  /\ Step(r, IF directoryExists(workspacePath(Name(r))) THEN NoRequest
             ELSE [request[r] EXCEPT !.stage = "exists"])
  /\ UNCHANGED <<vars, service, current, scoped>>

CheckExists(r) ==
  /\ At(r, "exists") /\ rename = NoRename
  /\ Step(r, IF Exists(workspacePath(Name(r))) THEN NoRequest
             ELSE [request[r] EXCEPT !.stage = "act"])
  /\ UNCHANGED <<vars, service, current, scoped>>

CreateWorkspace(r) ==
  /\ At(r, "act") /\ request[r].command.action = "create"
  /\ \/ EnsureDir(workspacePath(Name(r))) /\ scoped' = scoped \cup {Name(r)}
     \/ IsFile(workspacePath(Name(r))) /\ rename = NoRename /\ UNCHANGED <<vars, scoped>>
  /\ Step(r, NoRequest)
  /\ UNCHANGED <<service, current>>

SwitchWorkspace(r) ==
  /\ At(r, "check") /\ request[r].command.action = "switch" /\ rename = NoRename
  /\ current' = IF directoryExists(workspacePath(Name(r)))
                THEN [current EXCEPT ![request[r].service] = Name(r)] ELSE current
  /\ Step(r, NoRequest)
  /\ UNCHANGED <<vars, service, scoped>>

(* workspaceFilePath                                                       *)
CheckFile(r) ==
  /\ At(r, "check") /\ request[r].command.action \in {"read", "write", "list"} /\ rename = NoRename
  /\ Step(r, IF directoryExists(workspacePath(Name(r))) /\ FilePath(r) # NoPath
             THEN [request[r] EXCEPT !.stage = "act"] ELSE NoRequest)
  /\ UNCHANGED <<vars, service, current, scoped>>

(* An error of the medium's Write changes nothing.                         *)
WriteRefused(p) == p \in directories \/ \E d \in Ancestors(p) : IsFile(d)

WriteWorkspaceFile(r, x, m) ==
  /\ At(r, "act") /\ request[r].command.action = "write" /\ rename = NoRename
  /\ \/ WriteMode(FilePath(r), x, m)
     \/ WriteRefused(FilePath(r)) /\ UNCHANGED vars
  /\ Step(r, NoRequest)
  /\ UNCHANGED <<service, current, scoped>>

(* ReadWorkspaceFile and ListWorkspaceFiles                                *)
ReadWorkspace(r) ==
  /\ At(r, "act") /\ Shared(r) /\ rename = NoRename
  /\ Step(r, NoRequest)
  /\ UNCHANGED <<vars, service, current, scoped>>

CommandSteps(r) ==
  \/ \E command \in Commands : BeginCommand(r, command)
  \/ LoadService(r) \/ NewWorkspace(r) \/ LoadOrStore(r) \/ Lock(r)
  \/ CheckCreate(r) \/ CheckExists(r) \/ CreateWorkspace(r) \/ SwitchWorkspace(r) \/ CheckFile(r)
  \/ \E load \in Payload : WriteWorkspaceFile(r, load[1], DefaultMode)
  \/ ReadWorkspace(r)

-----------------------------------------------------------------------------
(* Requests for the medium, which hold no lock: dispatchMediumOperation    *)

writeModeMediumOperation(p, x, m) == WriteMode(p, x, m)
writeMediumOperation(p, x) == WriteMode(p, x, DefaultMode)
ensureDirMediumOperation(p) == EnsureDir(p)
deleteAllMediumOperation(p) == DeleteAll(p)
deleteMediumOperation(p, recursive) ==
  IF recursive THEN deleteAllMediumOperation(p) ELSE DeleteFile(p) \/ DeleteDirectory(p)
renameMediumOperation(old, new) == RenameFile(old, new) \/ RenameDirectory(old, new)
createMediumOperation(h, p) == Create(h, p)
appendMediumOperation(h, p) == Append_(h, p)

(* The content goes to the writer's own buffer, then Close stores it.      *)
writeAndClose(h, x) ==
  /\ rename = NoRename
  /\ writer[h] # NoWriter
  /\ Len(writer[h].data) < MaxLen
  /\ writer' = [writer EXCEPT ![h] = NoWriter]
  /\ IF writer[h].path \in directories THEN UNCHANGED <<directories, store>>
     ELSE /\ directories' = directories \cup Ancestors(writer[h].path)
          /\ Store(writer[h].path, Append(writer[h].data, x), writer[h].mode)
  /\ UNCHANGED renaming

dispatchMediumOperation ==
  \/ \E p \in MediumPath :
       \/ ensureDirMediumOperation(p)
       \/ \E recursive \in BOOLEAN : deleteMediumOperation(p, recursive)
       \/ \E load \in Payload : \/ writeMediumOperation(p, load[1])
                                \/ writeModeMediumOperation(p, load[1], load[2])
  \/ \E pair \in CanRename : renameMediumOperation(pair[1], pair[2])
  \/ \E h \in Writer : \/ \E p \in WriterPath : createMediumOperation(h, p) \/ appendMediumOperation(h, p)
                       \/ \E x \in Chunk : writeAndClose(h, x)

-----------------------------------------------------------------------------
(* A scoped medium, in the hands of whoever created the workspace          *)

ScopedWrite(name, raw) ==
  \/ LET p == scopedPath(name, raw, FALSE) IN
     p \in Path /\ \E load \in Payload : WriteMode(p, load[1], load[2])
  \/ LET p == scopedPath(name, raw, TRUE) IN p \in Path /\ EnsureDir(p)

ScopedRemove(name, raw) ==
  LET p == scopedPath(name, raw, FALSE) IN
  p \in Path /\ (DeleteFile(p) \/ DeleteDirectory(p) \/ DeleteAll(p))

ScopedRename(name, old, new) ==
  LET from == scopedPath(name, old, FALSE)
      to == scopedPath(name, new, FALSE)
  IN {from, to} \subseteq Path /\ (RenameFile(from, to) \/ RenameDirectory(from, to))

ScopedCall(name) ==
  \E raw \in ScopedRaw :
    ScopedWrite(name, raw) \/ ScopedRemove(name, raw)
    \/ \E new \in ScopedRaw : ScopedRename(name, raw, new)

(* A step of a caller without the lock; what it changes may disturb the    *)
(* commands that have made their test.                                     *)
Unlocked(step) ==
  /\ step
  /\ request' = [r \in Request |->
       IF request[r] = NoRequest THEN NoRequest
       ELSE [request[r] EXCEPT !.disturbed = @ \/ (request[r].stage \in {"exists", "act"}
                                                   /\ <<store, directories>>' # <<store, directories>>)]]
  /\ UNCHANGED <<service, current, scoped>>

ScopedNext ==
  \/ \E r \in Request : CommandSteps(r)
  \/ Unlocked(dispatchMediumOperation)
  \/ \E name \in scoped \cap ScopedName : Unlocked(ScopedCall(name))
  \/ Unlocked(\E p \in Path : MoveFile(p) \/ MoveDir(p))
  \/ Unlocked(RenameReturns)

ScopedSpec == ScopedInit /\ [][ScopedNext]_allVars

-----------------------------------------------------------------------------
(* Properties                                                              *)

(* What a command has tested still holds when it acts on it, unless        *)
(* somebody changed the medium without the lock meanwhile: a workspace to  *)
(* be created is not there, one to be used is a directory.  It takes the   *)
(* same service, thus the same lock, for all requests, also when the first *)
(* ones run together.  (resolveWorkspaceService, CreateWorkspace,          *)
(* workspaceFilePath)                                                      *)
TestsStillHold ==
  \A r \in Request :
    At(r, "act") /\ ~request[r].disturbed =>
      IF request[r].command.action = "create"
      THEN ~Exists(workspacePath(Name(r)))
      ELSE directoryExists(workspacePath(Name(r)))

(* A command, and a call of a scoped medium, changes nothing outside its   *)
(* own workspace except the directories that lead to it, whatever path it  *)
(* is given.  (cleanMediumSubpath, joinMediumSubpaths, scopedPath)         *)
ChangesOnly(name) ==
  LET inside == {p \in Path : IsPrefix(workspacePath(name), p)} IN
  /\ \A p \in Path \ inside :
       /\ Held(p)' = Held(p)
       /\ p \notin Ancestors(workspacePath(name)) => (p \in directories' <=> p \in directories)
  /\ rename' # rename /\ rename' # NoRename => {rename'.old, rename'.new} \subseteq inside

StaysInside ==
  [][/\ \A r \in Request :
          \/ ~At(r, "act") \/ ChangesOnly(Name(r))
          \/ ~(CreateWorkspace(r) \/ \E load \in Payload : WriteWorkspaceFile(r, load[1], DefaultMode))
     /\ \A name \in scoped \cap ScopedName : ChangesOnly(name) \/ ~ScopedCall(name)
    ]_<<store, directories, rename>>

(* What a medium lists for a directory is there and as it is shown, and it *)
(* lists every file and directory in its own directory, whether a scoped   *)
(* medium, a command or a request for the medium asks, and whoever put it  *)
(* there; while nothing is a file and a directory at once.  (List,         *)
(* addFileEntries, addDirectoryEntries, scopedMedium.List)                 *)
ListingComplete ==
  rename = NoRename /\ (\A p \in Files : ~directoryExists(p)) =>
    \A d \in Path :
      List(d) = {[name |-> Last(p), isDir |-> directoryExists(p)] :
                   p \in {q \in Path : Exists(q) /\ Front(q) = d}}
=============================================================================
