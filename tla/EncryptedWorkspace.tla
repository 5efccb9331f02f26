------------------------- MODULE EncryptedWorkspace -------------------------
(***************************************************************************)
(* workspace.Service (src/go/workspace/service.go): encrypted workspaces   *)
(* on a shared io.Medium.  Threads call one or more Service values; every  *)
(* call takes the stateLock of its Service and then makes a sequence of    *)
(* Medium calls, which are the atomic steps here.  A Medium call may fail: *)
(* those that return errors return one, but Exists and IsDir answer false, *)
(* as if nothing were there.  And a process may crash between any two      *)
(* calls: what the Medium holds survives, the Service (its lock and its    *)
(* active workspace) does not.                                             *)
(***************************************************************************)
EXTENDS Naturals

CONSTANTS
  Thread, Service,  \* callers, and the Service values they call
  Serves,           \* Serves[t]: the Service that thread t calls
  Workspace,        \* workspace ids (the SHA-256 of an identifier)
  BadWorkspace,     \* an id resolveWorkspaceDirectory rejects
  File,             \* paths below files/
  BadFile,          \* a path that escapes files/ or names files/ itself
  Key,              \* private keys CreateKeyPair may return
  Content,          \* plaintexts
  NoThread, NoWorkspace, NoKey, NoFile, NoContent, Absent, Lost

Encrypted == [key : Key, content : Content]

ASSUME WorkspaceAssumption ==
  /\ Serves \in [Thread -> Service]
  /\ NoThread \notin Thread
  /\ NoWorkspace \notin Workspace
  /\ BadWorkspace \notin Workspace
  /\ BadFile \notin File
  /\ NoKey \notin Key
  /\ NoContent \notin Content
  /\ NoFile \notin Encrypted
  /\ {Absent, Lost} \cap [File -> Content \cup {NoContent}] = {}
  /\ Absent # Lost

(* CreateWorkspace makes five directories, keys/ the last of them.         *)
LastDir == 5

VARIABLES
  dirs,     \* Medium: how many of the five directories of w exist
  key,      \* Medium: the content of w/keys/private.key
  files,    \* Medium: the encrypted files below w/files
  misled,   \* the workspaces with a key of which Exists has failed, and so
            \* has answered that they are not there
  active,   \* Service: activeWorkspaceID
  writer,   \* Service: the thread that holds stateLock for writing
  readers,  \* Service: the threads that hold stateLock for reading
  pc,       \* Thread: the next step of its call
  call,     \* Thread: its call and the arguments
  made,     \* Thread: the directories its CreateWorkspace has ensured
  root,     \* Thread: the workspace its file path was resolved in
  cipher,   \* Thread: the private key it read or generated
  result    \* Thread: how its call ends

medium == <<dirs, key, files, misled>>
locals == <<call, made, root, cipher>>
vars == <<dirs, key, files, misled, active, writer, readers,
          pc, call, made, root, cipher, result>>

(* The steps at which a call is about to make a Medium or key-pair call    *)
(* after whose failure it returns an error.                                *)
Fallible == {"create_dirs", "create_keypair", "create_key", "switch_isdir",
             "read_key", "read_file", "write_key", "write_file"}
Held == Fallible \cup {"create_exists", "read_path", "write_path", "return"}
Step == Held \cup {"idle", "lock"}
Operation == {"none", "create", "switch", "read", "write"}
Result == {"none", "ok", "error", "decryption_failed"}

Call == [op : Operation,
         workspace : Workspace \cup {BadWorkspace, NoWorkspace},
         file : File \cup {BadFile},
         content : Content \cup {NoContent}]
NoCall == [op |-> "none", workspace |-> NoWorkspace, file |-> BadFile, content |-> NoContent]

(* Every variable holds a value of its kind.                               *)
TypeOK ==
  /\ dirs \in [Workspace -> 0..LastDir]
  /\ key \in [Workspace -> Key \cup {NoKey}]
  /\ files \in [Workspace -> [File -> Encrypted \cup {NoFile}]]
  /\ misled \in SUBSET Workspace
  /\ active \in [Service -> Workspace \cup {NoWorkspace}]
  /\ writer \in [Service -> Thread \cup {NoThread}]
  /\ readers \in [Service -> SUBSET Thread]
  /\ pc \in [Thread -> Step]
  /\ call \in [Thread -> Call]
  /\ made \in [Thread -> 0..LastDir]
  /\ root \in [Thread -> Workspace \cup {NoWorkspace}]
  /\ cipher \in [Thread -> Key \cup {NoKey}]
  /\ result \in [Thread -> Result]

Init ==
  /\ dirs = [w \in Workspace |-> 0]
  /\ key = [w \in Workspace |-> NoKey]
  /\ files = [w \in Workspace |-> [f \in File |-> NoFile]]
  /\ misled = {}
  /\ active = [s \in Service |-> NoWorkspace]
  /\ writer = [s \in Service |-> NoThread]
  /\ readers = [s \in Service |-> {}]
  /\ pc = [t \in Thread |-> "idle"]
  /\ call = [t \in Thread |-> NoCall]
  /\ made = [t \in Thread |-> 0]
  /\ root = [t \in Thread |-> NoWorkspace]
  /\ cipher = [t \in Thread |-> NoKey]
  /\ result = [t \in Thread |-> "none"]

(* What medium.Exists and medium.IsDir answer of a workspace's directory   *)
(* if they do not fail; an id that resolveWorkspaceDirectory rejects names *)
(* no directory.                                                           *)
IsWorkspace(w) == w \in Workspace /\ dirs[w] # 0

(* workspaceCipherSigil finds a private key.                               *)
HasKey(w) == w # NoWorkspace /\ key[w] # NoKey

-----------------------------------------------------------------------------
(* Calls and the lock                                                      *)

Begin(t, c) ==
  /\ pc[t] = "idle"
  /\ pc' = [pc EXCEPT ![t] = "lock"]
  /\ call' = [call EXCEPT ![t] = c]
  /\ UNCHANGED <<medium, active, writer, readers, made, root, cipher, result>>

(* Identifiers are hashed into ids, so only SwitchWorkspace, which takes   *)
(* an id, can be given a bad one.                                          *)
BeginCreate(t, w) == Begin(t, [NoCall EXCEPT !.op = "create", !.workspace = w])
BeginSwitch(t, w) == Begin(t, [NoCall EXCEPT !.op = "switch", !.workspace = w])
BeginRead(t, f) == Begin(t, [NoCall EXCEPT !.op = "read", !.file = f])
BeginWrite(t, f, c) == Begin(t, [NoCall EXCEPT !.op = "write", !.file = f, !.content = c])

(* Mutant: the exclusive operations take no lock.                          *)
LockMissing(t) ==
  /\ pc[t] = "lock" /\ call[t].op # "read"
  /\ pc' = [pc EXCEPT ![t] = CASE call[t].op = "create" -> "create_exists"
                               [] call[t].op = "switch" -> "switch_isdir"
                               [] OTHER -> "write_path"]
  /\ UNCHANGED <<medium, active, writer, readers, locals, result>>

(* stateLock.Lock() in CreateWorkspace, SwitchWorkspace, WriteWorkspaceFile *)
Lock(t) ==
  LET s == Serves[t] IN
  /\ pc[t] = "lock" /\ call[t].op # "read"
  /\ writer[s] = NoThread /\ readers[s] = {}
  /\ writer' = [writer EXCEPT ![s] = t]
  /\ pc' = [pc EXCEPT ![t] = CASE call[t].op = "create" -> "create_exists"
                               [] call[t].op = "switch" -> "switch_isdir"
                               [] OTHER -> "write_path"]
  /\ UNCHANGED <<medium, active, readers, locals, result>>

(* Mutant: ReadWorkspaceFile takes no lock.                                *)
RLockMissing(t) ==
  /\ pc[t] = "lock" /\ call[t].op = "read"
  /\ pc' = [pc EXCEPT ![t] = "read_path"]
  /\ UNCHANGED <<medium, active, writer, readers, locals, result>>

(* stateLock.RLock() in ReadWorkspaceFile                                  *)
RLock(t) ==
  LET s == Serves[t] IN
  /\ pc[t] = "lock" /\ call[t].op = "read"
  /\ writer[s] = NoThread
  /\ readers' = [readers EXCEPT ![s] = @ \cup {t}]
  /\ pc' = [pc EXCEPT ![t] = "read_path"]
  /\ UNCHANGED <<medium, active, writer, locals, result>>

(* A return statement: the deferred unlock is still to run.                *)
Finish(t, r) ==
  /\ pc' = [pc EXCEPT ![t] = "return"]
  /\ result' = [result EXCEPT ![t] = r]

(* Mutant: a reader that ends with an error does not unlock.               *)
ReturnLocked(t) ==
  LET s == Serves[t] IN
  /\ pc[t] = "return"
  /\ writer' = [writer EXCEPT ![s] = IF @ = t THEN NoThread ELSE @]
  /\ readers' = [readers EXCEPT ![s] = IF result[t] = "error" THEN @ ELSE @ \ {t}]
  /\ pc' = [pc EXCEPT ![t] = "idle"]
  /\ call' = [call EXCEPT ![t] = NoCall]
  /\ made' = [made EXCEPT ![t] = 0]
  /\ root' = [root EXCEPT ![t] = NoWorkspace]
  /\ cipher' = [cipher EXCEPT ![t] = NoKey]
  /\ result' = [result EXCEPT ![t] = "none"]
  /\ UNCHANGED <<medium, active>>

(* The deferred Unlock or RUnlock, and the return to the caller.           *)
Return(t) ==
  LET s == Serves[t] IN
  /\ pc[t] = "return"
  /\ writer' = [writer EXCEPT ![s] = IF @ = t THEN NoThread ELSE @]
  /\ readers' = [readers EXCEPT ![s] = @ \ {t}]
  /\ pc' = [pc EXCEPT ![t] = "idle"]
  /\ call' = [call EXCEPT ![t] = NoCall]
  /\ made' = [made EXCEPT ![t] = 0]
  /\ root' = [root EXCEPT ![t] = NoWorkspace]
  /\ cipher' = [cipher EXCEPT ![t] = NoKey]
  /\ result' = [result EXCEPT ![t] = "none"]
  /\ UNCHANGED <<medium, active>>

(* Mutant: CreateWorkspace ignores an error of EnsureDir.                  *)
MediumFailsIgnored(t) ==
  /\ pc[t] \in Fallible
  /\ IF pc[t] = "create_dirs"
       THEN pc' = [pc EXCEPT ![t] = "create_keypair"] /\ UNCHANGED result
       ELSE Finish(t, "error")
  /\ UNCHANGED <<medium, active, writer, readers, locals>>

(* A Medium call or CreateKeyPair returns an error, or IsDir answers false *)
(* for one: the call returns an error.                                     *)
MediumFails(t) ==
  /\ pc[t] \in Fallible
  /\ Finish(t, "error")
  /\ UNCHANGED <<medium, active, writer, readers, locals>>

-----------------------------------------------------------------------------
(* CreateWorkspace                                                         *)

(* Mutant: no test for an existing workspace.                              *)
CreateExistsMissing(t) ==
  /\ pc[t] = "create_exists"
  /\ pc' = [pc EXCEPT ![t] = "create_dirs"]
  /\ UNCHANGED <<medium, active, writer, readers, locals, result>>

CreateExists(t) ==
  /\ pc[t] = "create_exists"
  /\ \/ /\ IsWorkspace(call[t].workspace)
        /\ Finish(t, "error")
     \/ /\ ~IsWorkspace(call[t].workspace)
        /\ pc' = [pc EXCEPT ![t] = "create_dirs"]
        /\ UNCHANGED result
  /\ UNCHANGED <<medium, active, writer, readers, locals>>

(* Exists fails and answers false: the call goes on, over whatever there   *)
(* is.                                                                     *)
CreateExistsFails(t) ==
  LET w == call[t].workspace IN
  /\ pc[t] = "create_exists"
  /\ misled' = IF HasKey(w) THEN misled \cup {w} ELSE misled
  /\ pc' = [pc EXCEPT ![t] = "create_dirs"]
  /\ UNCHANGED <<dirs, key, files, active, writer, readers, locals, result>>

(* EnsureDir of the next directory; it may exist already.                  *)
CreateDir(t) ==
  LET next == made[t] + 1
      w == call[t].workspace IN
  /\ pc[t] = "create_dirs"
  /\ made' = [made EXCEPT ![t] = next]
  /\ dirs' = [dirs EXCEPT ![w] = IF @ < next THEN next ELSE @]
  /\ pc' = [pc EXCEPT ![t] = IF next = LastDir THEN "create_keypair" ELSE @]
  /\ UNCHANGED <<key, files, misled, active, writer, readers, call, root, cipher, result>>

CreateKeyPair(t) ==
  /\ pc[t] = "create_keypair"
  /\ \E k \in Key : cipher' = [cipher EXCEPT ![t] = k]
  /\ pc' = [pc EXCEPT ![t] = "create_key"]
  /\ UNCHANGED <<medium, active, writer, readers, call, made, root, result>>

CreateKey(t) ==
  /\ pc[t] = "create_key"
  /\ key' = [key EXCEPT ![call[t].workspace] = cipher[t]]
  /\ Finish(t, "ok")
  /\ UNCHANGED <<dirs, files, misled, active, writer, readers, locals>>

-----------------------------------------------------------------------------
(* SwitchWorkspace                                                         *)

SwitchIsDir(t) ==
  LET w == call[t].workspace IN
  /\ pc[t] = "switch_isdir"
  /\ \/ /\ ~IsWorkspace(w)
        /\ Finish(t, "error")
        /\ UNCHANGED active
     \/ /\ IsWorkspace(w)
        /\ active' = [active EXCEPT ![Serves[t]] = w]
        /\ Finish(t, "ok")
  /\ UNCHANGED <<medium, writer, readers, locals>>

-----------------------------------------------------------------------------
(* ReadWorkspaceFile and WriteWorkspaceFile                                *)

(* resolveActiveWorkspaceFilePath                                          *)
ResolvePath(t, from, to) ==
  LET w == active[Serves[t]] IN
  /\ pc[t] = from
  /\ \/ /\ w = NoWorkspace \/ call[t].file = BadFile
        /\ Finish(t, "error")
        /\ UNCHANGED root
     \/ /\ w # NoWorkspace /\ call[t].file # BadFile
        /\ root' = [root EXCEPT ![t] = w]
        /\ pc' = [pc EXCEPT ![t] = to]
        /\ UNCHANGED result
  /\ UNCHANGED <<medium, active, writer, readers, call, made, cipher>>

(* workspaceCipherSigil: activeWorkspaceID is read again.                  *)
ReadKey(t, from, to) ==
  LET w == active[Serves[t]] IN
  /\ pc[t] = from
  /\ \/ /\ ~HasKey(w)
        /\ Finish(t, "error")
        /\ UNCHANGED cipher
     \/ /\ HasKey(w)
        /\ cipher' = [cipher EXCEPT ![t] = key[w]]
        /\ pc' = [pc EXCEPT ![t] = to]
        /\ UNCHANGED result
  /\ UNCHANGED <<medium, active, writer, readers, call, made, root>>

(* medium.Read and Untransmute: the AEAD opens only under its own key.     *)
ReadFile(t) ==
  LET stored == files[root[t]][call[t].file] IN
  /\ pc[t] = "read_file"
  /\ Finish(t, IF stored = NoFile THEN "error"
               ELSE IF stored.key = cipher[t] THEN "ok" ELSE "decryption_failed")
  /\ UNCHANGED <<medium, active, writer, readers, locals>>

(* Mutant: the ciphertext goes where another workspace keeps the file.     *)
WriteFileElsewhere(t) ==
  /\ pc[t] = "write_file"
  /\ \E w \in Workspace :
       files' = [files EXCEPT ![w] = [@ EXCEPT ![call[t].file] =
                   [key |-> cipher[t], content |-> call[t].content]]]
  /\ Finish(t, "ok")
  /\ UNCHANGED <<dirs, key, misled, active, writer, readers, locals>>

(* Transmute and medium.Write                                              *)
WriteFile(t) ==
  /\ pc[t] = "write_file"
  /\ files' = [files EXCEPT ![root[t]] = [@ EXCEPT ![call[t].file] =
                 [key |-> cipher[t], content |-> call[t].content]]]
  /\ Finish(t, "ok")
  /\ UNCHANGED <<dirs, key, misled, active, writer, readers, locals>>

-----------------------------------------------------------------------------
(* The process that holds Service s dies, with every call in it; a new one *)
(* starts with workspace.New over the same Medium.                         *)
Crash(s) ==
  LET Reset(x, default) == [t \in Thread |-> IF Serves[t] = s THEN default ELSE x[t]] IN
  /\ active' = [active EXCEPT ![s] = NoWorkspace]
  /\ writer' = [writer EXCEPT ![s] = NoThread]
  /\ readers' = [readers EXCEPT ![s] = {}]
  /\ pc' = Reset(pc, "idle")
  /\ call' = Reset(call, NoCall)
  /\ made' = Reset(made, 0)
  /\ root' = Reset(root, NoWorkspace)
  /\ cipher' = Reset(cipher, NoKey)
  /\ result' = Reset(result, "none")
  /\ UNCHANGED medium

Invoke(t) ==
  \/ \E w \in Workspace : BeginCreate(t, w)
  \/ \E w \in Workspace \cup {BadWorkspace} : BeginSwitch(t, w)
  \/ \E f \in File \cup {BadFile} : BeginRead(t, f)
  \/ \E f \in File \cup {BadFile}, c \in Content : BeginWrite(t, f, c)

Proceed(t) ==
  \/ CreateExists(t) \/ CreateExistsFails(t)
  \/ CreateDir(t) \/ CreateKeyPair(t) \/ CreateKey(t)
  \/ SwitchIsDir(t)
  \/ ResolvePath(t, "read_path", "read_key") \/ ReadKey(t, "read_key", "read_file") \/ ReadFile(t)
  \/ ResolvePath(t, "write_path", "write_key") \/ ReadKey(t, "write_key", "write_file") \/ WriteFile(t)
  \/ MediumFails(t) \/ Return(t)

Acquire(t) == Lock(t) \/ RLock(t)

Next ==
  \/ \E t \in Thread : Invoke(t) \/ Acquire(t) \/ Proceed(t)
  \/ \E s \in Service : Crash(s)

Spec == Init /\ [][Next]_vars

(* A running call keeps running, and sync.RWMutex starves neither a writer *)
(* nor a reader: a waiting Lock holds back later RLocks, and an Unlock     *)
(* admits the readers that waited.                                         *)
Fairness == \A t \in Thread : WF_vars(Proceed(t)) /\ SF_vars(Acquire(t))

FairSpec == Spec /\ Fairness

-----------------------------------------------------------------------------
(* Properties                                                              *)

(* Every stored file opens under the key its workspace holds now: no       *)
(* interleaving of calls, failed call or crash leaves a file encrypted     *)
(* under a key that was replaced or that belongs to another workspace,     *)
(* unless Exists has failed of just this workspace while it had its key.   *)
(* (CreateWorkspace, WriteWorkspaceFile; true of one Service.)             *)
FilesDecryptable ==
  \A w \in Workspace \ misled, f \in File :
    files[w][f] # NoFile => files[w][f].key = key[w]

(* ReadWorkspaceFile never fails to decrypt a file it has read: the key    *)
(* and the file it reads in separate Medium calls belong together, but for *)
(* a workspace of which Exists has failed.  (True of one Service.)         *)
ReadsDecrypt ==
  \A t \in Thread :
    pc[t] = "return" /\ result[t] = "decryption_failed" => root[t] \in misled

(* A workspace that has a private key has all its directories, whichever   *)
(* EnsureDir failed, whatever process crashed and however many Services    *)
(* create it at once (CreateWorkspace's order of steps).                   *)
LayoutBeforeKey == \A w \in Workspace : key[w] # NoKey => dirs[w] = LastDir

(* CreateWorkspace never overwrites the private key of a workspace, as it  *)
(* refuses identifiers that exist: no interleaving with other calls and no *)
(* failure or crash lets it, but a failure of Exists.  (service.go:174 and *)
(* its test claim as much, without exception; true of one Service.)        *)
KeyReplacedOnlyMisled ==
  [][\A w \in Workspace \ misled : key[w] # NoKey => key'[w] = key[w]]_vars

(* What decrypting the Medium's files with the Medium's keys shows.        *)
Plaintext(w, f) ==
  IF files[w][f] = NoFile THEN NoContent
  ELSE IF files[w][f].key = key[w] THEN files[w][f].content
  ELSE "undecryptable"

vault == [w \in Workspace |-> IF key[w] = NoKey THEN Absent
                              ELSE IF w \in misled THEN Lost
                              ELSE [f \in File |-> Plaintext(w, f)]]

Vault == INSTANCE WorkspaceVault WITH vault <- vault

(* The Service implements the vault: CreateWorkspace opens a workspace     *)
(* once, and its plaintexts change only by a WriteWorkspaceFile, until an  *)
(* Exists that fails gives the workspace up.  (True of one Service.)       *)
VaultSpec == Vault!Spec

(* Every call returns, so every lock taken is released again: whatever     *)
(* happens, each thread comes to be outside a call.                        *)
CallsReturn == \A t \in Thread : []<>(pc[t] = "idle")
=============================================================================
