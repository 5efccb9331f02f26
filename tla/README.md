# go-io: models, model checking and proofs

go-io gives Go programs one interface, `io.Medium` (`go/io.go`), over many
stores: memory, local disk, SQLite, DuckDB, S3, WebDAV, SFTP, GitHub, PWAs, tar
trees. On top of it sit encrypted workspaces, encrypted archives, an HTTP API and
a chain of reversible transformations ("sigils"). This directory holds TLA+
specifications of the parts of it that keep state, configurations that
model-check them with TLC, and theorems about them that TLAPS proves. All paths
below are relative to `src/`.

## 1. Inventory

| component | state | operations | what is hard | what makes it correct |
|---|---|---|---|---|
| `workspace.Service` (`go/workspace/service.go`) | `activeWorkspaceID`, `stateLock`; on the Medium: five directories and a private key per workspace, encrypted files | Create, Switch, ReadFile, WriteFile | each call is a sequence of Medium calls that may fail; an `Exists` that fails answers false; crash between them; two Services over one Medium; the active workspace read twice in a call | every file is under its workspace's key; a key is never replaced; no read fails to decrypt; locks are released |
| `io.MemoryMedium` (`go/io.go`) | four maps, no lock; writers commit at Close | WriteMode, EnsureDir, Delete, DeleteAll, Rename, Create, Append | loops over Go maps in random order; conditional moves of three maps; writers open across other calls | maps agree; a Rename loses nothing; no path is file and directory |
| `store.KeyValueStore`, `store.Medium` (`go/store`) | one table | Get, Set, Delete, DeleteGroup; Rename is Get, Set, Delete | no transaction; statement failures; crash between statements | a Rename or an Append loses no value |
| sigil obfuscators (`go/sigil/crypto_sigil.go`) | none (pure) | Obfuscate, Deobfuscate | block arithmetic at the end of the stream, permutation, order of undoing | the permutation is one; the round trip is the identity; the loops end |
| `datanode.Medium` (`go/datanode/medium.go`) | a Borg DataNode, a directory set, an RWMutex | Write, EnsureDir, Delete, DeleteAll, Rename, Create, Append, Snapshot, Restore | removing a file rebuilds the tree and may fail in the middle of a directory; two locks for one append; directories are not in the tarball | a failed rename loses nothing; Restore restores |
| `sigil` chain, ChaChaPolySigil | key, nonce, obfuscator | Transmute, Untransmute, In, Out | order of inversion | Untransmute inverts Transmute |
| `sqlite.Medium` | one table | as Medium; Rename in a transaction | Delete is three statements; LIKE prefixes; directories without rows | a Rename moves the tree and nothing else; a Delete takes nothing with it; every file can be listed |
| `s3.Medium` | a bucket that several mediums share | as Medium | copy then delete; paged delete; read then put | a DeleteAll clears all pages; a failed rename keeps the object; listings agree with IsDir |
| `workspace.Workspace` (RFC section 5), `scopedMedium` | current workspace, RWMutex | Create, Switch, Read, Write, List | scoped mediums bypass the lock; a workspace may go between test and use; path cleaning | a scope never leaves its root; tests hold until the act |
| HTTP API (`go/pkg/api`) | `sync.Map` of workspace services, a shared memory medium | dispatch of actions and medium operations | concurrent requests; first use by two requests | one service per provider |
| `pwa.Medium` | a DataNode loaded on first use | Read, List, Open | double-checked lock, retry after a failure | every answer comes from one download |
| `node.Node` | one map of files | as Medium; ToTar, LoadTar, Walk | directories moved into themselves, records that carry their own name, depth limit of Walk | no file is lost; tar round trip; Walk shows every file |
| `cube` | an inner Medium, a key | Pack, Unpack, Read, Write, Append | tree recursion over a Medium that may change | Pack archives what stays; Unpack restores it |
| `local.Medium` | a root directory | as Medium | resolution of links, chains and loops of links, `..` in their texts | resolution agrees with the system's; nothing outside the root changes |
| `webdav.Medium` | a remote server | as Medium | several requests per operation, other clients between them | parents are made before a PUT or MOVE; Delete takes nothing with it |
| `sftp.Medium` | a remote file system | as Medium | – | – |
| `github.Medium` | none | reads | – | – |
| `io.Service`, actions, `MockMedium`, `fsutil` | a shared memory store | dispatch | – | – |

Components interact by calls only: workspaces, cubes and the API hold a Medium
and call it; the encrypted workspace also calls the sigil; nothing calls back.
Shared state is the Medium itself, which every component above it may share with
others, and that is where the interleavings come from.

`PROJECT.json` lists every component with its status, and the hazards line by
line with the properties that cover them, or the reason none does.

## 2. Modules

| module | models | by |
|---|---|---|
| `WorkspaceVault` | what `workspace.Service` promises: a workspace is opened once and holds what was last written, until it is given up | abstract specification |
| `EncryptedWorkspace` | `go/workspace/service.go` | one step per Medium call; `pc` per thread |
| `Paths` | clean slash paths as sequences; `HasPrefix(p, d + "/")` is `Under(p, d)` | operators |
| `MemoryMedium` | `MemoryMedium` and `MemoryWriteCloser` of `go/io.go` | one action per call, one per iteration of the loops of Rename |
| `ScopedWorkspace` | `go/workspace/workspace.go` and the workspace and medium requests of `go/pkg/api/handlers.go`; extends `MemoryMedium`, the Medium below them | one step per Medium call of a command |
| `StoreMedium` | `go/store` | one action per SQL statement |
| `SqliteMedium` | `go/sqlite/sqlite.go` | one action per SQL statement or transaction |
| `Obfuscators` | the two `PreObfuscator`s of `go/sigil/crypto_sigil.go` | one action per loop iteration and call |
| `DataNodeMedium` | `go/datanode/medium.go` | one action per critical section |
| `NodeTree` | `go/node/node.go` | one action per call |
| `CubeArchive` | `Pack` and `Unpack` of `go/cube/cube.go`, over a `NodeTree` | one step per call of the tree |
| `S3Medium` | `go/s3/s3.go` | one step per request |
| `WebdavMedium` | `go/pkg/medium/webdav/webdav.go` | one step per request |
| `PwaMedium` | `go/pkg/medium/pwa/pwa.go` | one step per critical section of `ensureDataNode` |
| `RemoteMedia` | the choice of a medium with `FactoryFor`; extends `S3Medium` and `PwaMedium`, instantiates `WebdavMedium` | the three specifications, side by side |
| `LocalMedium` | `go/local/medium.go` | one action per call |
| `MC*` | – | values of the constants for TLC |
| `Paths_proofs` | – | lemmas about prefixes, `Rebase` and `Ancestors`, and about loops |
| `*_proofs` | – | theorems and proofs of the module named; `ScopedWorkspace_proofs` those of `MemoryMedium` too, `RemoteMedia_proofs` those of the three media it composes, `CubeArchive_proofs` those of `NodeTree` and, in a part of its own, of `Obfuscators`, `EncryptedWorkspace_proofs` in a part of its own those of `LocalMedium` |

**EncryptedWorkspace.** `dirs`, `key` and `files` are the Medium and survive
`Crash`; `active`, `writer` and `readers` are the Service (`activeWorkspaceID`
and `stateLock`); the other variables are the locals of each thread's call. A
workspace id is the SHA-256 of an identifier, so `CreateWorkspace` only ever
meets good ids, while `SwitchWorkspace` takes an id and may be given a bad one.
Encryption is the record of key and content, and opens under its own key only.
`MediumFails` is the error return of every fallible step; a call that fails has
changed nothing on the Medium. The deferred unlock is `Return`. `Exists` and `IsDir`
have no error to return: every Medium answers false when it fails. For
`SwitchWorkspace` that is an error like others; `CreateWorkspace` takes it for the
answer that the identifier is free (`CreateExistsFails`) and goes on over a
workspace that may be there. `misled` is history: the workspaces of which `Exists`
has failed while they had a key. They are what the properties have to give up, and
in the vault they are `Lost`; every other workspace keeps all that is promised. `Serves` says which Service a thread calls: several Services over one
Medium are several processes, or several values of one.

**MemoryMedium.** `fileContents`, `fileModes`, `modificationTimes` (which paths
have one) and `directories` are the four maps. `Store`, `Erase` and `Relocate`
are what the code does to three of them at a time; `Relocate` keeps the
conditional moves of `renameFile`. `MoveFile` and `MoveDir` are the iterations of
a Rename's loops, in any order; `rename = NoRename` guards the other actions,
because a call of the same goroutine runs when the Rename has returned. Writers
take their content and mode at `Append_` and commit at `WriterClose`; nothing
marks a closed writer, so it may be closed again. `List` is built from the maps of
files and directories as `addFileEntries` and `addDirectoryEntries` do.

**ScopedWorkspace.** A request looks for the workspace service (`LoadService`),
makes one if there is none (`NewWorkspace`) and goes on with the one that
`LoadOrStore` returns, which is `service`; a service is named after the request
that made it and has a lock and a current workspace of its own. `Lock` is `mu`,
shared by reads and lists; `Holders` are the requests between lock and unlock.
The tests and the acts of a command are steps of their own (`CheckCreate`,
`CheckExists`, `CheckFile`; `CreateWorkspace`, `WriteWorkspaceFile`), and requests
for the medium itself (`dispatchMediumOperation`) and calls of a scoped medium
(`ScopedCall`), which take no lock, come between them. A path as it is given is
a sequence of segments, `.`, `..` and empty ones, and is cleaned by what
`cleanMediumSubpath`, `joinMediumSubpaths` and `CleanPath` do; `CleanStep` is what
`CleanPath` does with one segment. `disturbed` is
history: an unlocked caller changed the medium since a command's test.

**StoreMedium.** A client is at a statement of its call (`step`), or holds a
writer. `touched` is history: the clients whose entries another client changed
since they read them. `RenameFails` is an error of the second or third
statement. `Crash` ends all calls and keeps the table. A failed single statement
changes nothing and needs no action.

**SqliteMedium.** `row` is the table, `pending` what a client is in the middle of:
a Delete before its COUNT or its DELETE, or a writer. `Rename` is one transaction,
thus one step; the order in which `renameChildren` inserts rows that meet at one
path is any. `LIKE 'd/%'` finds what is below any path in `Alike[d]`: `d` alone,
or others that its `_`, `%` or letter case also match. `Commit` is what every
statement does and notes, in `raced`, whose rows it touched.

**Obfuscators.** A hash is any value it could be: the index of each swap, each
block of the stream. The derivations depend on entropy and length only, so
Obfuscate and Deobfuscate share one. `blocks` is history for `StreamFromBlocks`.

**DataNodeMedium.** Each operation holds the lock throughout and is one action.
Where the code removes files one by one and each removal may fail
(`removeFileLocked` rebuilds the whole DataNode), the action chooses how far it
got. The DataNode itself is external: a map of files that also knows the
directories its names imply.

**NodeTree.** `files` is the map; a record carries its `name` beside its key, as
`dataFile` does, and a tarball is made of the names. `RenameDirectory` collects,
deletes and adds, in that order. `saved` is the last tarball or cube. `Walk` is a
function from levels to what is visited there.

**CubeArchive.** `job` is a Pack or an Unpack between two of its calls. `PackList`
lists a directory and puts its entries before the rest of the work, `PackRead`
reads a file; `OtherCall` is any call of `NodeTree` between them. `steady` is
history: the files nobody changed since the job began.

**S3Medium.** `object` is the bucket, `call` what each medium is in the middle of.
`DeleteAll` deletes the key itself and then loops over `ListPage` and
`DeletePage`; `token` is where the next page begins. `DeletePagePartly` is a
response that names objects it could not delete. `doomed`, `raced` and `found` are
history. `Append_` takes a read that fails for an empty object, as the code does.

**WebdavMedium.** `resource` is the server. A call makes the collections `todo`,
one MKCOL each, and asks what is there when it is answered 405, before its last
request; Delete asks twice first. A writer's Close is a write with the same chain.

**PwaMedium.** `pc` follows `ensureDataNode`; `Unlocked` says that nobody holds
the write lock. `dataNode` is the number of the download that is kept and `using`
the one a caller answers from.

**LocalMedium.** `node` is the file system below `/`: at each path a directory, a
file, or a link, which is what is written in it, an absolute or relative text in
which `..` may occur. `Target` is what `resolveSymlinkTarget` makes of a text: put
behind the link's directory unless absolute (`Raw`), and cleaned by `core.Path`
(`Clean`), so that a `..` takes away the name before it, whatever that is. `OsPath`
is what the operating system does with a path, and the `Os*` actions are its calls;
they are external. It follows the first link by its text as it stands and goes up
only from directories: `GoUp` is both, with all paths or the `Directories` to go up
from. `validatePath` and what it uses are the medium's, which must agree with it
where texts mean the same to both (`CleanTargets`). A medium whose root is `/`,
which does not resolve paths, is left out, and with it the branch of `validatePath`
for a name that is missing when it resolves: `resolveSymlinksPath` has dealt with
that already.
`Elsewhere` is any other program. The loops over the parts of a path are
recursive functions over their numbers, with `ResolvePart` and `ValidatePart` as
their bodies. The recursion of `resolveSymlinksRecursive` and
`resolveSymlinkTarget` into each other is the function `Resolved`: what each
target is resolved to while those in `seen` are being resolved.

Operators marked "Mutant" are plausible bugs; each is checked to violate the
property it was written for, when it takes the place of the definition it
changes.

## 3. Runs

| run | question | instance | result |
|---|---|---|---|
| EncryptedWorkspace | which failures cost files their key, is the vault implemented, does every call return | 2 threads, 1 Service, 2 workspaces, 1 file, 2 keys, 1 content | holds: none but a failing `Exists`, of that workspace alone |
| EncryptedWorkspaceRace | does only a failing `Exists` replace a key, with two Services | 2 threads, 2 Services, 1 workspace | violated |
| MemoryMedium | do the maps agree, does Rename keep the tree, do directories outlive their files | 2 directories of 2 entries, 1 writer, renames between siblings | holds |
| StoreMedium | Rename and Append under failures and crashes | 2 clients, 2 groups of 1 key | holds |
| Obfuscators | permutation, stream, round trip, termination | data of 0 to 5 bits, blocks of 2 | holds |
| DataNodeMedium | renames that stop halfway; Restore with a writer open | 2 directories, 4 files, 1 writer | holds |
| SqliteMedium | is every file found by listing, does Delete keep what is below, does Rename move the tree alone | 2 clients, 2 directories of 1 entry | holds |
| SqliteMediumLike | the same of Rename, when a directory's name is a pattern that matches another's | 1 client, the same paths | violated |
| RemoteMedia | does what an operation tested, read or listed still hold at its later requests | s3: 4 keys, pages of 1, 2 mediums, one with a prefix; webdav: 3 paths, 2 clients; pwa: 3 callers, 2 downloads | holds |
| CubeArchive | are trees moved, walked, saved, packed and unpacked whole | 3 files in nested directories, 1 writer, 1 file changed during a job | holds |
| ScopedWorkspace | do a command's tests hold when it acts, does it stay in its workspace, are listings complete | 2 requests, 2 workspaces of 1 file, 1 writer | holds |
| LocalMedium | does resolution agree with the system's, does anything outside the root change | 8 paths, 11 possible links with absolute and relative texts | holds |

The properties say, for the three runs that gather the most: in `RemoteMedia`,
`ListingAgrees`, `DeleteAllClears` and `RenameKeepsObject` are about s3,
`ParentsMade` and `DeleteKeepsBelow` about webdav, `OneDownload` about pwa, and
`AppendsExtend` about the writers of both; in `CubeArchive`, `WalkFindsFiles`,
`RenameMovesTree` and `LoadRestoresTree` are about the Node,
`PackKeepsSteadyFiles` and `UnpackRestores` about the archive; in
`ScopedWorkspace`, `ListingComplete` is about `MemoryMedium.List`, through
which every scoped listing goes.

Many of them are conditional: "unless another client interfered". That is what
the code can promise where it uses several requests without a lock or a
transaction: such a property checks the control of one caller (what it tests,
in which order, what it does when a request fails), and not the interference, which
the code cannot prevent. The history that says who interfered (`raced`, `touched`, `doomed`,
`disturbed`, `steady`) is as narrow as the promise is wide: a DeleteAll clears
every object nobody put since, whatever else is put and deleted around it.

**Violations** are disagreements between code and documentation, quoted in
`PROJECT.json` under `findings`. Two Services over one Medium can replace each
other's private key (`EncryptedWorkspaceRace`). Renaming a directory of
`sqlite.Medium` to a path that its own name matches as a LIKE pattern deletes what
was just moved, since the rows at the new path match the pattern of the old
(`SqliteMediumLike`).

**Divergences without a run.** Met while modelling, and left out of the runs
by the bounds, or of the properties by the conditions, that are named:

* An `Exists` that fails answers false (`go/sqlite/sqlite.go:690-696`,
  `go/store/medium.go:298-309`, `go/local/medium.go:325-330`), and `CreateWorkspace`
  (`go/workspace/service.go:173`) then goes on over a workspace that is there and
  overwrites its private key, with one Service too: its files no longer decrypt
  (`CreateExistsFails`; `misled` excludes just these workspaces from the properties).
* A `CreateWorkspace` that fails after its first EnsureDir leaves a workspace that
  can be switched to, but neither used nor created again
  (`docs/architecture.md` describes creation as one step).
* `MemoryMedium.Rename` into its own subtree may overwrite a file that is still to
  move, and Rename and Close may make a path a file and a directory at once
  (`CanRename` and `WriterPath` of the run avoid both).
* Two store Renames onto each other, by two clients, lose both values: each
  deletes what the other has set. With one client this cannot happen
  (theorem `OneClientNeverEmpties`).
* `DataNodeMedium.Snapshot` forgets empty directories; of two appending writers
  the second to close drops what the first stored.
* A rename onto itself removes the entry in `sqlite.Medium`, `s3.Medium` and
  `node.Node` (pairs of equal paths are not renamed in the runs).
* `s3.Medium.Append` takes a failed read for an empty object, and `List` shows one
  page only (both are in the model: `found`, `FirstOf`).
* `archiveChildPath` takes a child named like its directory in the root for that
  directory: Pack of `a/a` visits `a` for ever (`CubeAssumption` excludes it).
* A workspace removed between a command's test and its write is brought back by
  the write (in the model; `TestsStillHold` excludes it by `disturbed`).
* A link with a `..` behind another link (`b/../c`) is resolved by `local.Medium` to
  another path than the operating system's, since `core.Path` cleans the text first
  (in the model; `ResolveAgrees` excludes it by `CleanTargets`, `OutsideUnchanged`
  holds with such links too).
* `local.Medium.Delete` of a link removes what the link leads to, as the path is
  resolved first (in the model).

**Bounds.** Two threads, clients or mediums suffice for every property that
relates two calls; `PwaMedium` has three callers, so that one tests, one holds the
lock and one answers. Two directories with the same names below them are the
smallest tree in which a Rename can collide, order matters and siblings survive.
Two contents (empty and not) or two modes suffice to see a swap or a loss. Data
of up to five one-bit bytes over blocks of two reach the empty input, whole blocks
and a partial last block after none, one and two whole ones. A page of one entry
makes a DeleteAll of two objects take two pages. Two successful downloads are one
more than there should be. In `CubeArchive` one changed file per job (`MaxChanged`)
leaves two that must be archived. `MaxLinks` is as many links as the run has
paths, so that only loops exceed it. `MaxLen` bounds the buffers of writers,
`MaxData` the data of `Obfuscators`, `Path`,
`FilePath`, `KeyOrder` and `DirPath` the paths in use, `CanRename` the pairs of
paths renamed, `CanLink` the links other programs make, `WriterPath` the paths
writers are opened at; a directory rename whose targets would leave the path set
is not taken. Clients of `SqliteMedium` and requests of `ScopedWorkspace` are
interchangeable and declared symmetric; their runs check safety only.

**Fairness.** `EncryptedWorkspace` assumes weak fairness of each thread's own
steps: a goroutine that runs is scheduled again, and a Medium call returns, with
or without an error. It assumes strong fairness of acquiring the lock, which is
what `sync.RWMutex` gives: a waiting `Lock` holds back later `RLock`s and an
`Unlock` admits the readers that waited, so no waiter is passed over for ever.
`Obfuscators` assumes weak fairness of its only thread. The other modules have
safety properties only and state no fairness.

**Deadlock** checking is off where a program may simply stop: `Obfuscators`,
which ends.

## 4. Proofs

| theorem | of | assumes |
|---|---|---|
| `EncryptedWorkspace_proofs`: TypeCorrect, LayoutPrecedesKey | TypeOK, LayoutBeforeKey | nothing but the constants' kinds |
| FilesStayDecryptable, ReadsNeverFailToDecrypt, KeysReplacedOnlyMisled, ImplementsVault | FilesDecryptable, ReadsDecrypt, KeyReplacedOnlyMisled, VaultSpec: each of the workspaces of which `Exists` has not failed | one Service; any failures and crashes |
| `ScopedWorkspace_proofs`: MediumTypeCorrect, MetadataStaysTogether | TypeOK, MetadataTogether, of `MemoryMedium` | any renames |
| RenameLosesNothing | RenameMovesTree | renames between disjoint paths |
| AncestorsStayEntered | AncestorsEntered | renames to another name in the same directory |
| ScopedTypeCorrect, RequestsKeepMetadata, TestsAlwaysHold, ListingsAlwaysComplete, WorkspacesStayInside | ScopedTypeOK, MetadataTogether, TestsStillHold, ListingComplete, StaysInside, of the requests over the medium | any number of requests, any commands, any paths |
| `StoreMedium_proofs`: TypeCorrect, RenamesKeepValues, AppendsExtend | TypeOK, RenameKeepsValue, AppendExtends | any number of clients |
| OneClientNeverEmpties | NeverEmptied | one client |
| `DataNodeMedium_proofs`: TypeCorrect, RestoreForgets | TypeOK, RestoreAddsNothing | – |
| RenameLosesNothing, RenameLeavesNothing | RenameKeepsFiles, RenameEmptiesSource | renames between disjoint paths |
| `SqliteMedium_proofs`: TypeCorrect, DeletesKeepBelow, AppendsExtend | TypeOK, DeleteKeepsBelow, AppendExtends | any number of clients; LIKE may match more than what is below |
| RenamesMoveTrees | RenameMovesTree | renames between disjoint paths, whose old one is no pattern of others |
| FilesAlwaysReachable | FilesReachable | LIKE matches only what is below |
| `RemoteMedia_proofs`: S3TypeCorrect, CompleteDeleteAllClears, RenamesKeepObjects, AppendsExtendObjects | TypeOK, DeleteAllClears, RenameKeepsObject, AppendExtends of `S3Medium` | any keys, page size, prefixes and number of mediums |
| PwaTypeCorrect, AllUseOneDownload | PwaTypeOK, OneDownload | any number of callers |
| WebdavTypeCorrect | Webdav!TypeOK, and that the server's collections form a tree | any paths, any number of clients |
| RemoteImplements | the three specifications | – |
| ListingsAlwaysAgree, ParentsAlwaysMade, DeletesKeepBelow, AppendsAlwaysExtend, RemoteKeepsPromises | ListingAgrees, ParentsMade, DeleteKeepsBelow, AppendsExtend; DeleteAllClears, RenameKeepsObject and OneDownload of the composition | – |
| `CubeArchive_proofs`: CubeTypeCorrect, RenamesMoveTrees, LoadsRestoreTrees | CubeTypeOK, RenameMovesTree, LoadRestoresTree | any tree, any renames, nested ones included |
| PacksKeepSteadyFiles, UnpacksRestore | PackKeepsSteadyFiles, UnpackRestores | other calls between any two of a job |
| WalksGoAnyDepth, WalksFindFiles | WalksFindAll, WalkFindsFiles | any tree, root and depth |
| TypeCorrect, PermutationAlwaysBijection, DeobfuscateRestores, StreamIsBlocks | TypeOK, PermutationIsBijection, RoundTrip, StreamFromBlocks, of `Obfuscators` | `Xor` undoes itself; any length and block size |
| `EncryptedWorkspace_proofs`: LocalTypeCorrect, CallsStayInRoot | LocalTypeOK, OutsideUnchanged, of `LocalMedium` | finitely many paths, any link texts outside the root's own directories |
| ResolvingAgrees | AnswersAgree: what is answered is where the operating system ends up, unless it gives up for too many links; where resolving fails, so does it | `CleanTargets` in the state: each text means the same to `core.Path` and to the operating system |
| ResolvingAlwaysAgrees | ResolveAgrees | the same, and `LinksSuffice`: no path takes more than `MaxLinks` links |

*Encrypted workspaces.* The properties are not inductive: that a stored file is
under its workspace's key needs that a writer's key is the key of the workspace
its path was resolved in, which needs that the active workspace does not change
while the lock is held. The invariant therefore adds that the lock is held
exactly as `pc` says and excludes, that `root` and `cipher` of a call under the
lock agree with `active` and `key`, and that a creating thread's workspace has no
key until it writes one, unless `Exists` has failed of it. Workspaces in `misled` have
a key: one that is not there when `Exists` fails is created as usual and loses
nothing. With two Services the last part is false, which is the
race the violated run shows; the layout property uses only what one call knows
of its own directories, and holds without it.

*MemoryMedium.* A Rename's invariant says which files are still to move, that
they are where they were, and that those that moved are at their target;
disjoint paths keep targets and sources from meeting. That the ancestors of what
is stored are entered (`AncestorsEntered`) is not inductive while a directory is
renamed: the files move first, to places whose directories follow in any order.
`EnteredInv` says what holds meanwhile: everything still below the old path is to
be moved; an ancestor that is not entered is the place of a directory that is to
be moved; and of a path still to move, each directory between it and the old path
is still to move or its place is entered. `RebaseAncestors` names what lies above
the new place of a path, and `RebaseBack` turns it round. The theorem assumes
`RenamesStay`, since a Rename enters no ancestors of the new path.

*ScopedWorkspace.* The steps of the medium are proved once for any caller and any
paths (`MediumStep`); `ScopedIsStep` shows that requests and scoped mediums take
no others, so the type invariant and the agreement of the maps carry over.
`CommandPaths` says that `Path` holds the paths the commands lead to, which is
what makes it a bound. `RequestInv` has the argument for `TestsStillHold`: a
request that is past `LoadOrStore` has the service that all others have; two
requests between lock and unlock both read; at the stage of a test its outcome is
what the stage says. What changes the medium between test and act is then an
unlocked caller, who disturbs, or another's `NewWorkspace`, which enters the base
directory and its ancestors: no workspace is among these.
`ListingComplete` is true of every value of the maps: `EntryOf` gives the child of
a directory on the way to a path below it. For `StaysInside`, a path without `..` is
cleaned to a sequence of names: no step of the loop takes one away, so that after
each it has names only (`LoopKeeps`), and appending names to a workspace's path
leads below it.

*StoreMedium.* The value a client read is at its old path until its Delete, and
at its new path from its Set on, unless another client has touched them. With one
client nobody else touches them, and a store from which nothing is deleted keeps a
value.

*DataNodeMedium.* Restore enters the ancestors of the files it brings back; that
these are directories of the snapshot needs that a snapshot lists every
directory above its files, which Snapshot establishes from what the DataNode
implies. That a rename keeps files and leaves none of its directories holds in
each step by itself: `Rebase` is injective and, for disjoint paths, its results
are not below the old path (`Paths_proofs`).

*Obfuscators.* The permutation is a bijection because each swap exchanges two
values of one; injective and onto are both in the invariant, as finiteness is not
used. The last-writer-wins loop of Deobfuscate then reads each index once. The
round trip follows from that and from `Xor[Xor[a][m]][m] = a`. For the stream the
invariant is that a derivation that goes on has used whole blocks only, and
`BlockOfElement` that byte `BlockSize * n + r` is byte `r` of block `n`, for a block
size that is a constant of the theorem, not a number.

*NodeTree and CubeArchive.* The invariant says that a record's name is its key, which
`renamed` has to see to and a tarball relies on, that what was saved is the tree
it was saved from, and of a job what its steps need: each steady file of a Pack is
in the archive with its content, or is still to be read or below a directory still
to be listed; each of an Unpack is in the tree or still to be written. A listing
replaces a directory by its entries, and a path below the one is one of the others
or below it (`ChildOf`). `Walk` is a function from levels: that level k holds the
files k levels down, and of each file further down the directory that far on the
way to it, is proved of the least level at which it fails.

*SqliteMedium.* `Relies` says of each client in the middle of a Delete or with a
writer what it has read of the table and that this still holds, unless it is
marked raced; `Commit` marks whoever relies on a row it changes. `OnlyBelow(d)`
says that LIKE finds for `d` what is below `d` and nothing else: the violated run
shows that it is needed for `RenameMovesTree`, and names with `_`, `%` or letters in
two cases break it. The two properties of Delete and Append do not need it,
because a LIKE that finds too much makes a Delete refuse more.

*S3Medium.* The invariant, `Relies`, says of every call between its requests what
it needs of the bucket: what a DeleteAll has still to delete is in the page it
holds, or is listed after its token and the page was truncated; what a Rename
copied is at both keys; what an appending writer read is a prefix of what it
will put. A request of another medium leaves that as it is or is noted in the
call's history (`DisturbedRelies`), so the proof of a step is about the call that
takes it. That no object is skipped between two pages rests on `FirstOf` being a
beginning of what is listed, for any page size, which is proved from the
cardinality it is defined by.

*PwaMedium.* That nobody replaces a download rests on the lock, which one caller
holds, and on the second test under it, whose answer stays true until the lock is
released; both are in the invariant.

*WebdavMedium.* The collections of the server form a tree (`TreeClosed`): every
resource has its parent, a collection, there. Every request keeps that, MOVE and
DELETE of whole trees included, and what a call relies on needs it: that nothing is
below a path with no children, and that what a chain of MKCOL made before is there
still. `OperationsRely` says of each call which collections of its chain are made
already (all but those in `todo`, whose last is the parent of the resource), and
what a Delete and a writer have read; a request of another client either leaves
that or marks the call raced.

*RemoteMedia.* A step of the composition is a step of one medium and leaves the
variables of the other two, so each specification, and with it each theorem,
holds of the composition (`RemoteImplements`).

*LocalMedium.* `Real` is the set of paths that lead to themselves: no link and no file
on the way. `RealAppend` says when a name more keeps that, so what resolving
answers is real if what the links' targets are resolved to is (`ResolveLoop`), and
so is what `validatePath` answers, beginning with the root, which no call removes.
The operating system takes a real path for what it is, so every call acts below
the root. `Resolved` is a recursive function over sets of targets, and is one at
all because `seen` grows and the `Targets` are finitely many (`ResolvedGoes`). That
cleaning leaves no `..` (`CleanTyped`) is proved from the length of what is left, of
which each pass takes a name and a `..`; staying in the root needs no more of the
texts. Agreement with the
operating system is two arguments. What is answered is reached by following first
links, one after the other (`Reaches`), since names further on do not change which
link is first, nor how far a `..` in its text goes up (`GoUpBefore`): under
`CleanTargets` the operating system, too, goes to the cleaned target and then on
(`Follow`). Conversely, `EndsIn(p, n)` says that following n links from p ends at
a real path; whatever a link on the way leads to ends after fewer links, so the
targets under way, which need more, are not among those met, no cycle is found and
resolving does not fail. This needs that links are in directories, which is the
third part of the invariant (`TreeKept`). The code does not count links and the
operating system does; hence `LinksSuffice`, which speaks of the links alone.

*Induction.* What a loop computes is proved by its least counterexample:
`LeastOf` gives a set of numbers its least, from the well-founded order of the
naturals, and `LoopRuns` and `LoopKeeps`, which rest on it, give a loop over a
finite range its history and say that it keeps what each pass keeps.

**Model-checked only:** liveness (`CallsReturn`, `Terminates`), which is outside
what the provers do. Every other property of a passing run is stated by a theorem
above, under the assumptions named there: `RenameMovesTree` and `FilesReachable` of
`SqliteMedium` where LIKE matches only what it should, `AncestorsEntered` of
`MemoryMedium` for renames within a directory, the properties of `workspace.Service`
for one Service and the workspaces of which `Exists` has not failed, `ResolveAgrees`
where the links are few enough and mean the same to both.

## 5. Not modelled

* Formatting, error texts, logging, request decoding, DTOs.
* SHA-256, ChaCha20-Poly1305, DuckDB, SQLite, Borg's DataNode, the S3 and WebDAV
  servers, the operating system's file calls: external, by what the code relies
  on. PGP keys and the passphrase are not used beyond the key string.
* Read-only operations (Stat, Open, Exists, most Lists) keep no state; their tests
  of the state are the guards and helpers of the modules. Lists whose answer is
  itself at risk are operators of `SqliteMedium`, `S3Medium`, `NodeTree` and
  `MemoryMedium`.
* Two calls of a shared `MemoryMedium` that overlap inside one call: a data race on
  Go maps, which ends the process. The steps of `ScopedWorkspace` are whole calls.
* Unlocked writers of a scoped medium (`Create`, `Append`, `WriteStream` of
  `scopedMedium`): in `ScopedWorkspace` those of requests for the medium, which may
  write wherever a scoped one may, stand for them.
* In `S3Medium`, the encoding of `CopySource`: it is taken to name exactly the key,
  while the code does not escape it. In `PwaMedium`, what a download contains; in `NodeTree`,
  a `Walk` without a depth limit.
* In `LocalMedium`, a root `/`; what other programs do while a call runs, which the
  comment of `validatePath` leaves open; contents; modes.
* In `DataNodeMedium`, a path used for a file and also for a directory, and
  renames onto itself, into its own subtree or to the root.
* `cube.Medium`, which seals and opens contents on their way to another Medium; the
  chain of sigils (`Transmute`, `Untransmute`), pure functions over library codecs.
* `sftp.Medium` and `github.Medium`, which have one or two requests per operation and
  no state of their own; `io.Service`, the named actions, `MockMedium` and
  `fsutil`, which dispatch, or serve tests.

## 6. Plan

1. Liveness of `PwaMedium`: every caller returns, under fairness of the lock.
2. An abstract specification of a Medium, a map of files, that `SqliteMedium` and
   `NodeTree` implement; `cube.Medium` over it.
3. A bound on the links that a path of a finite file system can take, to replace
   `LinksSuffice`.
