--------------------- MODULE EncryptedWorkspace_proofs ---------------------
(***************************************************************************)
(* Theorems about EncryptedWorkspace for every set of threads, Services,   *)
(* workspaces, files and keys; and, in its last sections, about            *)
(* LocalMedium, the Medium that encrypted workspaces are kept on, for      *)
(* every set of paths and links.  That resolving a path agrees with the    *)
(* operating system is proved over what is left: over the targets not yet  *)
(* being resolved that Resolved is defined, over the links still to follow *)
(* that it fails only where the operating system does.                     *)
(***************************************************************************)
EXTENDS EncryptedWorkspace, LocalMedium, Paths_proofs, FiniteSetTheorems, TLAPS

(* A call is at a step of its own operation.                               *)
StepsOfOperation ==
  \A t \in Thread :
    /\ pc[t] = "idle" <=> call[t].op = "none"
    /\ pc[t] \in {"create_exists", "create_dirs", "create_keypair", "create_key"}
         => call[t].op = "create"
    /\ pc[t] = "switch_isdir" => call[t].op = "switch"
    /\ pc[t] \in {"write_path", "write_key", "write_file"} => call[t].op = "write"
    /\ pc[t] \in {"read_path", "read_key", "read_file"} => call[t].op = "read"
    /\ call[t].op = "create" => call[t].workspace \in Workspace
    /\ call[t].op = "write" => call[t].content \in Content

(* stateLock: a call past its Lock or RLock still holds it.                *)
LockHeld ==
  \A t \in Thread : pc[t] \in Held =>
    IF call[t].op = "read"
    THEN t \in readers[Serves[t]] /\ writer[Serves[t]] = NoThread
    ELSE writer[Serves[t]] = t

(* How far CreateWorkspace is, the directories of its workspace are.       *)
DirsFollowAt(t) ==
  /\ pc[t] = "create_dirs" => made[t] < LastDir /\ made[t] <= dirs[call[t].workspace]
  /\ pc[t] \in {"create_exists", "lock", "idle"} => made[t] = 0
  /\ pc[t] \in {"create_keypair", "create_key"} => dirs[call[t].workspace] = LastDir
  /\ pc[t] = "create_key" => cipher[t] # NoKey

DirsFollow == \A t \in Thread : DirsFollowAt(t)

(* The path of a call stays in the active workspace.                       *)
RootIsActiveAt(t) ==
  pc[t] \in {"read_key", "read_file", "write_key", "write_file"} =>
    /\ root[t] \in Workspace
    /\ root[t] = active[Serves[t]]
    /\ call[t].file \in File
    /\ pc[t] \in {"read_file", "write_file"} => cipher[t] # NoKey

RootIsActive == \A t \in Thread : RootIsActiveAt(t)

(* The inductive invariant for any number of Services.                     *)
SharedInv == TypeOK /\ StepsOfOperation /\ LockHeld /\ DirsFollow /\ RootIsActive /\ LayoutBeforeKey

(* One Service, one lock: a workspace being created has no key yet, unless *)
(* Exists failed, and the key a call has read is still that of its         *)
(* workspace.                                                              *)
KeysStableAt(t) ==
  /\ pc[t] \in {"create_dirs", "create_keypair", "create_key"} =>
       key[call[t].workspace] = NoKey \/ call[t].workspace \in misled
  /\ pc[t] \in {"read_file", "write_file"} => cipher[t] = key[root[t]]

KeysStable == \A t \in Thread : KeysStableAt(t)

(* Exists can mislead only about what has a key to lose.                   *)
MisledHaveKeys == \A w \in misled : key[w] # NoKey

(* The inductive invariant when every thread calls the same Service.       *)
SingleInv == SharedInv /\ KeysStable /\ MisledHaveKeys /\ FilesDecryptable /\ ReadsDecrypt

SingleService == \A t, u \in Thread : Serves[t] = Serves[u]

-----------------------------------------------------------------------------
(* What the callers' operations begin.                                     *)
LEMMA InvokeBegins ==
  ASSUME NEW t \in Thread, Invoke(t)
  PROVE  \E c \in Call : /\ Begin(t, c)
                         /\ c.op # "none"
                         /\ c.op = "create" => c.workspace \in Workspace
                         /\ c.op = "write" => c.content \in Content
<1>1. CASE \E w \in Workspace : BeginCreate(t, w)
  <2>1. PICK w \in Workspace : BeginCreate(t, w)
    BY <1>1
  <2> DEFINE c == [NoCall EXCEPT !.op = "create", !.workspace = w]
  <2>2. c \in Call /\ c.op = "create" /\ c.workspace = w
    BY DEF Call, NoCall, Operation
  <2>3. Begin(t, c)
    BY <2>1 DEF BeginCreate
  <2> QED
    BY <2>2, <2>3
<1>2. CASE \E w \in Workspace \cup {BadWorkspace} : BeginSwitch(t, w)
  <2>1. PICK w \in Workspace \cup {BadWorkspace} : BeginSwitch(t, w)
    BY <1>2
  <2> DEFINE c == [NoCall EXCEPT !.op = "switch", !.workspace = w]
  <2>2. c \in Call /\ c.op = "switch"
    BY DEF Call, NoCall, Operation
  <2>3. Begin(t, c)
    BY <2>1 DEF BeginSwitch
  <2> QED
    BY <2>2, <2>3
<1>3. CASE \E f \in File \cup {BadFile} : BeginRead(t, f)
  <2>1. PICK f \in File \cup {BadFile} : BeginRead(t, f)
    BY <1>3
  <2> DEFINE c == [NoCall EXCEPT !.op = "read", !.file = f]
  <2>2. c \in Call /\ c.op = "read"
    BY DEF Call, NoCall, Operation
  <2>3. Begin(t, c)
    BY <2>1 DEF BeginRead
  <2> QED
    BY <2>2, <2>3
<1>4. CASE \E f \in File \cup {BadFile}, d \in Content : BeginWrite(t, f, d)
  <2>1. PICK f \in File \cup {BadFile}, d \in Content : BeginWrite(t, f, d)
    BY <1>4
  <2> DEFINE c == [NoCall EXCEPT !.op = "write", !.file = f, !.content = d]
  <2>2. c \in Call /\ c.op = "write" /\ c.content \in Content
    BY DEF Call, NoCall, Operation
  <2>3. Begin(t, c)
    BY <2>1 DEF BeginWrite
  <2> QED
    BY <2>2, <2>3
<1> QED
  BY <1>1, <1>2, <1>3, <1>4 DEF Invoke

LEMMA NoCallTyped == NoCall \in Call /\ NoCall.op = "none"
BY DEF NoCall, Call, Operation

LEMMA InitType == Init => TypeOK
BY NoCallTyped, WorkspaceAssumption DEF Init, TypeOK, LastDir, Step, Result

(* Every step keeps every variable in its type.                            *)
LEMMA TypeStep == TypeOK /\ StepsOfOperation /\ DirsFollow /\ RootIsActive /\ [Next]_vars => TypeOK'
<1> SUFFICES ASSUME TypeOK, StepsOfOperation, DirsFollow, RootIsActive, [Next]_vars
             PROVE  TypeOK'
  OBVIOUS
<1> USE WorkspaceAssumption DEF TypeOK, locals, medium, Finish, Step, Held, Fallible, Result
<1>1. ASSUME NEW t \in Thread, Invoke(t) PROVE TypeOK'
  <2>1. PICK c \in Call : Begin(t, c)
    BY <1>1, InvokeBegins
  <2>2. pc' \in [Thread -> Step] /\ call' \in [Thread -> Call] /\ result' \in [Thread -> Result]
    BY <2>1 DEF Begin
  <2> QED
    BY <2>1, <2>2 DEF Begin
<1>2. ASSUME NEW t \in Thread, Lock(t) PROVE TypeOK'
  BY <1>2 DEF Lock
<1>3. ASSUME NEW t \in Thread, RLock(t) PROVE TypeOK'
  BY <1>3 DEF RLock
<1>4. ASSUME NEW t \in Thread, Return(t) PROVE TypeOK'
  BY <1>4, NoCallTyped DEF Return, LastDir
<1>5. ASSUME NEW t \in Thread, MediumFails(t) PROVE TypeOK'
  BY <1>5 DEF MediumFails
<1>6. ASSUME NEW t \in Thread, CreateExists(t) \/ CreateExistsFails(t) PROVE TypeOK'
  <2>1. CASE CreateExists(t)
    <3>1. pc' \in [Thread -> Step]
      BY <2>1 DEF CreateExists
    <3>2. result' \in [Thread -> Result]
      BY <2>1 DEF CreateExists
    <3> QED
      BY <2>1, <3>1, <3>2 DEF CreateExists
  <2>2. CASE CreateExistsFails(t)
    <3>1. misled' \in SUBSET Workspace
      <4>1. call[t].workspace \in Workspace
        BY <2>2 DEF CreateExistsFails, StepsOfOperation
      <4> QED
        BY <2>2, <4>1 DEF CreateExistsFails
    <3> QED
      BY <2>2, <3>1 DEF CreateExistsFails
  <2> QED
    BY <1>6, <2>1, <2>2
<1>7. ASSUME NEW t \in Thread, CreateDir(t) PROVE TypeOK'
  <2>1. made[t] + 1 \in 0..LastDir
    <3>1. made[t] \in 0..LastDir /\ made[t] < LastDir
      BY <1>7 DEF CreateDir, DirsFollow, DirsFollowAt
    <3> QED
      BY <3>1 DEF LastDir
  <2>2. made' \in [Thread -> 0..LastDir]
    BY <1>7, <2>1 DEF CreateDir
  <2>3. dirs' \in [Workspace -> 0..LastDir]
    BY <1>7, <2>1 DEF CreateDir
  <2>4. pc' \in [Thread -> Step]
    BY <1>7 DEF CreateDir
  <2> QED
    BY <1>7, <2>2, <2>3, <2>4 DEF CreateDir
<1>8. ASSUME NEW t \in Thread, CreateKeyPair(t) PROVE TypeOK'
  BY <1>8 DEF CreateKeyPair
<1>9. ASSUME NEW t \in Thread, CreateKey(t) PROVE TypeOK'
  BY <1>9 DEF CreateKey
<1>10. ASSUME NEW t \in Thread, SwitchIsDir(t) PROVE TypeOK'
  <2>1. pc' \in [Thread -> Step] /\ result' \in [Thread -> Result]
    <3>1. pc' = [pc EXCEPT ![t] = "return"]
      BY <1>10 DEF SwitchIsDir
    <3>2. \E r \in Result : result' = [result EXCEPT ![t] = r]
      BY <1>10 DEF SwitchIsDir
    <3> QED
      BY <3>1, <3>2
  <2>2. active' \in [Service -> Workspace \cup {NoWorkspace}]
    BY <1>10 DEF SwitchIsDir, IsWorkspace
  <2> QED
    BY <1>10, <2>1, <2>2 DEF SwitchIsDir, IsWorkspace
<1>11. ASSUME NEW t \in Thread, \/ ResolvePath(t, "read_path", "read_key")
                                \/ ResolvePath(t, "write_path", "write_key")
       PROVE  TypeOK'
  <2>1. pc' \in [Thread -> Step] /\ result' \in [Thread -> Result]
    <3>1. \E p \in Step : pc' = [pc EXCEPT ![t] = p]
      BY <1>11 DEF ResolvePath
    <3>2. result' = result \/ \E r \in Result : result' = [result EXCEPT ![t] = r]
      BY <1>11 DEF ResolvePath
    <3>3. pc' \in [Thread -> Step]
      BY <3>1
    <3>4. result' \in [Thread -> Result]
      BY <3>2
    <3> QED
      BY <3>3, <3>4
  <2>2. root' \in [Thread -> Workspace \cup {NoWorkspace}]
    BY <1>11 DEF ResolvePath
  <2> QED
    BY <1>11, <2>1, <2>2 DEF ResolvePath
<1>12. ASSUME NEW t \in Thread, \/ ReadKey(t, "read_key", "read_file")
                                \/ ReadKey(t, "write_key", "write_file")
       PROVE  TypeOK'
  <2>1. pc' \in [Thread -> Step] /\ result' \in [Thread -> Result]
    <3>1. \E p \in Step : pc' = [pc EXCEPT ![t] = p]
      BY <1>12 DEF ReadKey
    <3>2. result' = result \/ \E r \in Result : result' = [result EXCEPT ![t] = r]
      BY <1>12 DEF ReadKey
    <3>3. pc' \in [Thread -> Step]
      BY <3>1
    <3>4. result' \in [Thread -> Result]
      BY <3>2
    <3> QED
      BY <3>3, <3>4
  <2>2. cipher' \in [Thread -> Key \cup {NoKey}]
    BY <1>12 DEF ReadKey, HasKey
  <2> QED
    BY <1>12, <2>1, <2>2 DEF ReadKey, HasKey
<1>13. ASSUME NEW t \in Thread, ReadFile(t) PROVE TypeOK'
  BY <1>13 DEF ReadFile
<1>14. ASSUME NEW t \in Thread, WriteFile(t) PROVE TypeOK'
  <2> DEFINE e == [key |-> cipher[t], content |-> call[t].content]
  <2>1. root[t] \in Workspace /\ call[t].file \in File /\ cipher[t] \in Key
    BY <1>14 DEF WriteFile, RootIsActive, RootIsActiveAt
  <2>2. call[t].content \in Content
    BY <1>14 DEF WriteFile, StepsOfOperation
  <2>3. e \in Encrypted
    BY <2>1, <2>2 DEF Encrypted
  <2>4. files' \in [Workspace -> [File -> Encrypted \cup {NoFile}]]
    BY <1>14, <2>1, <2>3 DEF WriteFile
  <2>5. pc' \in [Thread -> Step] /\ result' \in [Thread -> Result]
    BY <1>14 DEF WriteFile
  <2> QED
    BY <1>14, <2>4, <2>5 DEF WriteFile
<1>15. ASSUME NEW s \in Service, Crash(s) PROVE TypeOK'
  BY <1>15, NoCallTyped DEF Crash, LastDir
<1>16. CASE UNCHANGED vars
  BY <1>16 DEF vars
<1> QED
  BY <1>1, <1>2, <1>3, <1>4, <1>5, <1>6, <1>7, <1>8, <1>9, <1>10, <1>11, <1>12,
     <1>13, <1>14, <1>15, <1>16 DEF Next, Acquire, Proceed

-----------------------------------------------------------------------------
(* A call moves only itself: the steps that leave the caller's own         *)
(* variables of every other thread alone.                                  *)
Others(t) ==
  \A u \in Thread \ {t} :
    /\ pc'[u] = pc[u] /\ call'[u] = call[u] /\ made'[u] = made[u]
    /\ root'[u] = root[u] /\ cipher'[u] = cipher[u] /\ result'[u] = result[u]

LEMMA OthersStay ==
  ASSUME TypeOK, NEW t \in Thread, Invoke(t) \/ Acquire(t) \/ Proceed(t)
  PROVE  Others(t)
<1> USE DEF Others, TypeOK, Finish, locals
<1>1. CASE Invoke(t)
  BY <1>1, InvokeBegins DEF Begin
<1>2. CASE Acquire(t)
  BY <1>2 DEF Acquire, Lock, RLock
<1>3. CASE \/ CreateExists(t) \/ CreateExistsFails(t) \/ CreateDir(t)
           \/ CreateKeyPair(t) \/ CreateKey(t) \/ SwitchIsDir(t)
  BY <1>3 DEF CreateExists, CreateExistsFails, CreateDir, CreateKeyPair, CreateKey, SwitchIsDir
<1>4. CASE ResolvePath(t, "read_path", "read_key") \/ ResolvePath(t, "write_path", "write_key")
  BY <1>4 DEF ResolvePath
<1>5. CASE ReadKey(t, "read_key", "read_file") \/ ReadKey(t, "write_key", "write_file")
  BY <1>5 DEF ReadKey
<1>6. CASE ReadFile(t) \/ WriteFile(t) \/ MediumFails(t) \/ Return(t)
  BY <1>6 DEF ReadFile, WriteFile, MediumFails, Return
<1> QED
  BY <1>1, <1>2, <1>3, <1>4, <1>5, <1>6 DEF Proceed

(* After a crash the threads of the Service are idle, the others as before. *)
LEMMA CrashResets ==
  ASSUME TypeOK, NEW s \in Service, Crash(s)
  PROVE  \A u \in Thread :
           \/ /\ Serves[u] = s /\ pc'[u] = "idle" /\ call'[u] = NoCall /\ made'[u] = 0
              /\ result'[u] = "none"
           \/ /\ Serves[u] # s /\ pc'[u] = pc[u] /\ call'[u] = call[u] /\ made'[u] = made[u]
              /\ root'[u] = root[u] /\ cipher'[u] = cipher[u] /\ result'[u] = result[u]
              /\ active'[Serves[u]] = active[Serves[u]]
              /\ writer'[Serves[u]] = writer[Serves[u]]
              /\ readers'[Serves[u]] = readers[Serves[u]]
BY WorkspaceAssumption DEF Crash, TypeOK

LEMMA StepsOfOperationStep ==
  TypeOK /\ StepsOfOperation /\ [Next]_vars => StepsOfOperation'
<1> SUFFICES ASSUME TypeOK, StepsOfOperation, [Next]_vars
             PROVE  StepsOfOperation'
  OBVIOUS
<1> USE DEF StepsOfOperation
<1>1. ASSUME NEW t \in Thread, Invoke(t) PROVE StepsOfOperation'
  <2>1. PICK c \in Call : Begin(t, c) /\ c.op # "none"
                          /\ (c.op = "create" => c.workspace \in Workspace)
                          /\ (c.op = "write" => c.content \in Content)
    BY <1>1, InvokeBegins
  <2>2. pc'[t] = "lock" /\ call'[t] = c
    BY <2>1 DEF Begin, TypeOK
  <2> QED
    BY <1>1, <2>1, <2>2, OthersStay DEF Others
<1>2. ASSUME NEW t \in Thread, Lock(t) PROVE StepsOfOperation'
  <2>1. /\ call' = call /\ call[t].op \notin {"read", "none"} /\ call[t].op \in Operation
        /\ pc'[t] = CASE call[t].op = "create" -> "create_exists"
                      [] call[t].op = "switch" -> "switch_isdir"
                      [] OTHER -> "write_path"
    BY <1>2 DEF Lock, TypeOK, locals, Call
  <2> QED
    BY <1>2, <2>1, OthersStay DEF Others, Acquire, Operation
<1>3. ASSUME NEW t \in Thread, RLock(t) PROVE StepsOfOperation'
  BY <1>3 DEF RLock, TypeOK, locals
<1>4. ASSUME NEW t \in Thread, Return(t) PROVE StepsOfOperation'
  BY <1>4, NoCallTyped DEF Return, TypeOK
<1>5. ASSUME NEW t \in Thread, MediumFails(t) PROVE StepsOfOperation'
  BY <1>5 DEF MediumFails, Finish, TypeOK, locals, Fallible
<1>6. ASSUME NEW t \in Thread, \/ CreateExists(t) \/ CreateExistsFails(t) \/ CreateDir(t)
                               \/ CreateKeyPair(t) \/ CreateKey(t)
      PROVE  StepsOfOperation'
  BY <1>6 DEF CreateExists, CreateExistsFails, CreateDir, CreateKeyPair, CreateKey, Finish, TypeOK, locals
<1>7. ASSUME NEW t \in Thread, SwitchIsDir(t) PROVE StepsOfOperation'
  BY <1>7 DEF SwitchIsDir, Finish, TypeOK, locals
<1>8. ASSUME NEW t \in Thread, \/ ResolvePath(t, "read_path", "read_key")
                               \/ ResolvePath(t, "write_path", "write_key")
      PROVE  StepsOfOperation'
  BY <1>8 DEF ResolvePath, Finish, TypeOK
<1>9. ASSUME NEW t \in Thread, \/ ReadKey(t, "read_key", "read_file")
                               \/ ReadKey(t, "write_key", "write_file")
      PROVE  StepsOfOperation'
  BY <1>9 DEF ReadKey, Finish, TypeOK
<1>10. ASSUME NEW t \in Thread, ReadFile(t) \/ WriteFile(t) PROVE StepsOfOperation'
  BY <1>10 DEF ReadFile, WriteFile, Finish, TypeOK, locals
<1>11. ASSUME NEW s \in Service, Crash(s) PROVE StepsOfOperation'
  BY <1>11, CrashResets, NoCallTyped
<1>12. CASE UNCHANGED vars
  BY <1>12 DEF vars
<1> QED
  BY <1>1, <1>2, <1>3, <1>4, <1>5, <1>6, <1>7, <1>8, <1>9, <1>10, <1>11, <1>12
  DEF Next, Acquire, Proceed

(* Two calls that hold the lock of the same Service are both reads.        *)
LEMMA Exclusion ==
  ASSUME TypeOK, LockHeld, NEW t \in Thread, NEW u \in Thread, t # u,
         pc[t] \in Held, pc[u] \in Held, Serves[t] = Serves[u]
  PROVE  call[t].op = "read" /\ call[u].op = "read"
BY WorkspaceAssumption DEF LockHeld

(* A step that takes or releases no lock.                                  *)
LEMMA LockKept ==
  ASSUME TypeOK, LockHeld, NEW t \in Thread, Others(t),
         pc[t] \in Held, call' = call, writer' = writer, readers' = readers
  PROVE  LockHeld'
BY DEF LockHeld, Others

LEMMA LockHeldStep ==
  TypeOK /\ StepsOfOperation /\ LockHeld /\ [Next]_vars => LockHeld'
<1> SUFFICES ASSUME TypeOK, StepsOfOperation, LockHeld, [Next]_vars
             PROVE  LockHeld'
  OBVIOUS
<1>1. ASSUME NEW t \in Thread, Invoke(t) PROVE LockHeld'
  <2>1. PICK c \in Call : Begin(t, c)
    BY <1>1, InvokeBegins
  <2>2. pc'[t] \notin Held /\ writer' = writer /\ readers' = readers
    BY <2>1 DEF Begin, TypeOK, Held, Fallible
  <2> QED
    BY <1>1, <2>2, OthersStay DEF LockHeld, Others
<1>2. ASSUME NEW t \in Thread, Lock(t) PROVE LockHeld'
  <2> DEFINE s == Serves[t]
  <2>1. /\ s \in Service /\ call' = call /\ call[t].op # "read"
        /\ writer[s] = NoThread /\ readers[s] = {} /\ readers' = readers
        /\ writer' = [writer EXCEPT ![s] = t]
    BY <1>2, WorkspaceAssumption DEF Lock, locals
  <2>2. \A u \in Thread : u # t /\ pc[u] \in Held => Serves[u] # s
    BY <2>1, WorkspaceAssumption DEF LockHeld
  <2>3. writer'[s] = t /\ \A r \in Service : r # s => writer'[r] = writer[r]
    BY <2>1 DEF TypeOK
  <2> QED
    BY <1>2, <2>1, <2>2, <2>3, OthersStay, WorkspaceAssumption DEF LockHeld, Others, Acquire
<1>3. ASSUME NEW t \in Thread, RLock(t) PROVE LockHeld'
  <2> DEFINE s == Serves[t]
  <2>1. /\ s \in Service /\ call' = call /\ call[t].op = "read"
        /\ writer[s] = NoThread /\ writer' = writer
        /\ readers' = [readers EXCEPT ![s] = @ \cup {t}]
    BY <1>3, WorkspaceAssumption DEF RLock, locals
  <2>2. t \in readers'[s] /\ \A r \in Service : readers[r] \subseteq readers'[r]
    BY <2>1 DEF TypeOK
  <2> QED
    BY <1>3, <2>1, <2>2, OthersStay, WorkspaceAssumption DEF LockHeld, Others, Acquire
<1>4. ASSUME NEW t \in Thread, Return(t) PROVE LockHeld'
  <2> DEFINE s == Serves[t]
  <2>1. /\ s \in Service /\ pc'[t] \notin Held
        /\ writer' = [writer EXCEPT ![s] = IF @ = t THEN NoThread ELSE @]
        /\ readers' = [readers EXCEPT ![s] = @ \ {t}]
    BY <1>4, WorkspaceAssumption DEF Return, TypeOK, Held, Fallible
  <2>2. \A r \in Service : /\ writer[r] # t => writer'[r] = writer[r]
                           /\ \A u \in Thread : u # t /\ u \in readers[r] => u \in readers'[r]
    BY <2>1 DEF TypeOK
  <2>3. \A r \in Service : writer[r] = NoThread => writer'[r] = NoThread
    BY <2>2, WorkspaceAssumption
  <2> QED
    BY <1>4, <2>1, <2>2, <2>3, OthersStay, WorkspaceAssumption DEF LockHeld, Others, Proceed
<1>5. ASSUME NEW t \in Thread, \/ MediumFails(t) \/ CreateExists(t) \/ CreateExistsFails(t)
                               \/ CreateDir(t) \/ CreateKeyPair(t) \/ CreateKey(t) \/ SwitchIsDir(t)
      PROVE  LockHeld'
  <2>1. pc[t] \in Held /\ call' = call /\ writer' = writer /\ readers' = readers
    BY <1>5 DEF MediumFails, CreateExists, CreateExistsFails, CreateDir, CreateKeyPair, CreateKey, SwitchIsDir,
                locals, Held, Fallible
  <2> QED
    BY <1>5, <2>1, LockKept, OthersStay DEF Proceed
<1>6. ASSUME NEW t \in Thread, \/ ResolvePath(t, "read_path", "read_key")
                               \/ ResolvePath(t, "write_path", "write_key")
                               \/ ReadKey(t, "read_key", "read_file")
                               \/ ReadKey(t, "write_key", "write_file")
                               \/ ReadFile(t) \/ WriteFile(t)
      PROVE  LockHeld'
  <2>1. pc[t] \in Held /\ call' = call /\ writer' = writer /\ readers' = readers
    BY <1>6 DEF ResolvePath, ReadKey, ReadFile, WriteFile, locals, Held, Fallible
  <2> QED
    BY <1>6, <2>1, LockKept, OthersStay DEF Proceed
<1>7. ASSUME NEW s \in Service, Crash(s) PROVE LockHeld'
  BY <1>7, CrashResets DEF LockHeld, Held, Fallible
<1>8. CASE UNCHANGED vars
  BY <1>8 DEF vars, LockHeld
<1> QED
  BY <1>1, <1>2, <1>3, <1>4, <1>5, <1>6, <1>7, <1>8 DEF Next, Acquire, Proceed

(* The directories of a workspace are only ever added.                     *)
LEMMA DirsGrow ==
  ASSUME TypeOK, StepsOfOperation, DirsFollow, [Next]_vars
  PROVE  \A w \in Workspace : dirs[w] <= dirs'[w]
<1>1. \A w \in Workspace : dirs[w] \in Nat
  BY DEF TypeOK, LastDir
<1>2. ASSUME NEW t \in Thread, CreateDir(t) PROVE \A w \in Workspace : dirs[w] <= dirs'[w]
  <2>1. made[t] + 1 \in Nat
    BY <1>2 DEF TypeOK, LastDir
  <2>2. dirs' = [dirs EXCEPT ![call[t].workspace] = IF @ < made[t] + 1 THEN made[t] + 1 ELSE @]
    BY <1>2 DEF CreateDir
  <2>3. DOMAIN dirs = Workspace
    BY DEF TypeOK
  <2> QED
    BY <1>1, <2>1, <2>2, <2>3
<1>3. dirs' = dirs \/ \E t \in Thread : CreateDir(t)
  BY DEF Next, Invoke, BeginCreate, BeginSwitch, BeginRead, BeginWrite, Begin, Acquire, Lock,
         RLock, Proceed, CreateExists, CreateExistsFails, CreateKeyPair, CreateKey, SwitchIsDir, ResolvePath,
         ReadKey, ReadFile, WriteFile, MediumFails, Return, Crash, vars, medium
<1> QED
  BY <1>1, <1>2, <1>3

LEMMA DirsFollowStep ==
  TypeOK /\ StepsOfOperation /\ DirsFollow /\ TypeOK' /\ [Next]_vars => DirsFollow'
<1> SUFFICES ASSUME TypeOK, StepsOfOperation, DirsFollow, TypeOK', [Next]_vars
             PROVE  DirsFollow'
  OBVIOUS
<1>0. /\ \A w \in Workspace : dirs[w] <= dirs'[w] /\ dirs[w] \in 0..5 /\ dirs'[w] \in 0..5
      /\ \A t \in Thread : made[t] \in 0..5
      /\ NoCall.op = "none"
  BY DirsGrow, NoCallTyped DEF TypeOK, LastDir
<1> USE <1>0 DEF LastDir
<1>1. ASSUME NEW u \in Thread, pc'[u] = pc[u], call'[u] = call[u], made'[u] = made[u],
             cipher'[u] = cipher[u]
      PROVE  DirsFollowAt(u)'
  BY <1>1 DEF DirsFollow, DirsFollowAt, StepsOfOperation
<1>2. ASSUME NEW t \in Thread, Invoke(t) \/ Acquire(t) \/ Proceed(t), DirsFollowAt(t)'
      PROVE  DirsFollow'
  BY <1>1, <1>2, OthersStay DEF Others, DirsFollow
<1> USE DEF DirsFollow, DirsFollowAt
<1>3. ASSUME NEW t \in Thread, Invoke(t) PROVE DirsFollowAt(t)'
  BY <1>3, InvokeBegins DEF Begin, TypeOK
<1>4. ASSUME NEW t \in Thread, Acquire(t) PROVE DirsFollowAt(t)'
  BY <1>4 DEF Acquire, Lock, RLock, TypeOK, locals
<1>5. ASSUME NEW t \in Thread, Return(t) \/ MediumFails(t) PROVE DirsFollowAt(t)'
  BY <1>5 DEF Return, MediumFails, Finish, TypeOK
<1>6. ASSUME NEW t \in Thread, CreateExists(t) \/ CreateExistsFails(t) PROVE DirsFollowAt(t)'
  <2>1. call[t].workspace \in Workspace /\ made[t] = 0 /\ made' = made /\ call' = call
    BY <1>6 DEF CreateExists, CreateExistsFails, StepsOfOperation, locals
  <2>2. pc'[t] \in {"return", "create_dirs"}
    BY <1>6 DEF CreateExists, CreateExistsFails, Finish, TypeOK
  <2> QED
    BY <2>1, <2>2
<1>7. ASSUME NEW t \in Thread, CreateDir(t) PROVE DirsFollowAt(t)'
  BY <1>7 DEF CreateDir, TypeOK, StepsOfOperation
<1>8. ASSUME NEW t \in Thread, CreateKeyPair(t) PROVE DirsFollowAt(t)'
  BY <1>8, WorkspaceAssumption DEF CreateKeyPair, TypeOK, StepsOfOperation, medium
<1>9. ASSUME NEW t \in Thread, CreateKey(t) \/ SwitchIsDir(t) \/ ReadFile(t) \/ WriteFile(t)
      PROVE  DirsFollowAt(t)'
  BY <1>9 DEF CreateKey, SwitchIsDir, ReadFile, WriteFile, Finish, TypeOK
<1>10. ASSUME NEW t \in Thread, \/ ResolvePath(t, "read_path", "read_key")
                                \/ ResolvePath(t, "write_path", "write_key")
                                \/ ReadKey(t, "read_key", "read_file")
                                \/ ReadKey(t, "write_key", "write_file")
       PROVE  DirsFollowAt(t)'
  BY <1>10 DEF ResolvePath, ReadKey, Finish, TypeOK
<1>11. ASSUME NEW s \in Service, Crash(s) PROVE DirsFollow'
  BY <1>1, <1>11, CrashResets
<1>12. CASE UNCHANGED vars
  BY <1>1, <1>12 DEF vars
<1> QED
  BY <1>2, <1>3, <1>4, <1>5, <1>6, <1>7, <1>8, <1>9, <1>10, <1>11, <1>12
  DEF Next, Acquire, Proceed

(* Only SwitchWorkspace changes the active workspace, and only while no    *)
(* read or write of its Service runs.                                      *)
LEMMA RootIsActiveStep ==
  TypeOK /\ StepsOfOperation /\ LockHeld /\ RootIsActive /\ [Next]_vars => RootIsActive'
<1> SUFFICES ASSUME TypeOK, StepsOfOperation, LockHeld, RootIsActive, [Next]_vars
             PROVE  RootIsActive'
  OBVIOUS
<1>1. ASSUME NEW t \in Thread, Invoke(t) \/ Acquire(t) \/ Proceed(t), active' = active,
             RootIsActiveAt(t)'
      PROVE  RootIsActive'
  BY <1>1, OthersStay DEF Others, RootIsActive, RootIsActiveAt
<1> USE DEF RootIsActive, RootIsActiveAt
<1>2. ASSUME NEW t \in Thread, Invoke(t) PROVE RootIsActiveAt(t)' /\ active' = active
  BY <1>2, InvokeBegins DEF Begin, TypeOK
<1>3. ASSUME NEW t \in Thread, Acquire(t) PROVE RootIsActiveAt(t)' /\ active' = active
  <2>1. pc'[t] \in {"create_exists", "switch_isdir", "write_path", "read_path"}
    BY <1>3 DEF Acquire, Lock, RLock, TypeOK
  <2> QED
    BY <1>3, <2>1 DEF Acquire, Lock, RLock
<1>4. ASSUME NEW t \in Thread, \/ Return(t) \/ MediumFails(t) \/ CreateExists(t) \/ CreateExistsFails(t)
                               \/ CreateDir(t) \/ CreateKeyPair(t) \/ CreateKey(t)
                               \/ ReadFile(t) \/ WriteFile(t)
      PROVE  RootIsActiveAt(t)' /\ active' = active
  BY <1>4 DEF Return, MediumFails, CreateExists, CreateExistsFails, CreateDir, CreateKeyPair, CreateKey, ReadFile,
              WriteFile, Finish, TypeOK
<1>5. ASSUME NEW t \in Thread, \/ ResolvePath(t, "read_path", "read_key")
                               \/ ResolvePath(t, "write_path", "write_key")
      PROVE  RootIsActiveAt(t)' /\ active' = active
  <2>1. active[Serves[t]] \in Workspace \cup {NoWorkspace} /\ call[t].file \in File \cup {BadFile}
    BY WorkspaceAssumption DEF TypeOK, Call
  <2> QED
    BY <1>5, <2>1 DEF ResolvePath, Finish, TypeOK
<1>6. ASSUME NEW t \in Thread, \/ ReadKey(t, "read_key", "read_file")
                               \/ ReadKey(t, "write_key", "write_file")
      PROVE  RootIsActiveAt(t)' /\ active' = active
  BY <1>6 DEF ReadKey, HasKey, Finish, TypeOK
<1>7. ASSUME NEW t \in Thread, SwitchIsDir(t) PROVE RootIsActive'
  <2>1. pc[t] = "switch_isdir" /\ call[t].op = "switch" /\ pc'[t] = "return"
    BY <1>7 DEF SwitchIsDir, Finish, TypeOK, StepsOfOperation
  <2>2. \A u \in Thread : u # t /\ pc[u] \in Held => Serves[u] # Serves[t]
    BY <2>1, Exclusion DEF Held, Fallible
  <2>3. \A u \in Thread : Serves[u] # Serves[t] => active'[Serves[u]] = active[Serves[u]]
    BY <1>7, WorkspaceAssumption DEF SwitchIsDir, TypeOK
  <2> QED
    BY <1>7, <2>1, <2>2, <2>3, OthersStay DEF Others, Proceed, Held, Fallible
<1>8. ASSUME NEW s \in Service, Crash(s) PROVE RootIsActive'
  BY <1>8, CrashResets
<1>9. CASE UNCHANGED vars
  BY <1>9 DEF vars
<1> QED
  BY <1>1, <1>2, <1>3, <1>4, <1>5, <1>6, <1>7, <1>8, <1>9 DEF Next, Proceed

(* CreateKey is the only step that writes a private key.                   *)
LEMMA KeyUnchanged ==
  ASSUME [Next]_vars, ~ \E t \in Thread : CreateKey(t)
  PROVE  key' = key
BY DEF Next, Invoke, BeginCreate, BeginSwitch, BeginRead, BeginWrite, Begin, Acquire, Lock,
       RLock, Proceed, CreateExists, CreateExistsFails, CreateDir, CreateKeyPair, SwitchIsDir, ResolvePath,
       ReadKey, ReadFile, WriteFile, MediumFails, Return, Crash, vars, medium

(* WriteFile is the only step that writes a workspace file.                *)
LEMMA FilesUnchanged ==
  ASSUME [Next]_vars, ~ \E t \in Thread : WriteFile(t)
  PROVE  files' = files
BY DEF Next, Invoke, BeginCreate, BeginSwitch, BeginRead, BeginWrite, Begin, Acquire, Lock,
       RLock, Proceed, CreateExists, CreateExistsFails, CreateDir, CreateKeyPair, CreateKey, SwitchIsDir,
       ResolvePath, ReadKey, ReadFile, MediumFails, Return, Crash, vars, medium

LEMMA LayoutStep ==
  TypeOK /\ StepsOfOperation /\ DirsFollow /\ LayoutBeforeKey /\ TypeOK' /\ [Next]_vars
    => LayoutBeforeKey'
<1> SUFFICES ASSUME TypeOK, StepsOfOperation, DirsFollow, LayoutBeforeKey, TypeOK', [Next]_vars
             PROVE  LayoutBeforeKey'
  OBVIOUS
<1>1. \A w \in Workspace : dirs[w] = LastDir => dirs'[w] = LastDir
  <2>1. \A w \in Workspace : dirs[w] \in 0..5 /\ dirs'[w] \in 0..5 /\ dirs[w] <= dirs'[w]
    BY DirsGrow DEF TypeOK, LastDir
  <2> QED
    BY <2>1 DEF LastDir
<1>2. CASE key' = key
  BY <1>1, <1>2 DEF LayoutBeforeKey
<1>3. ASSUME NEW t \in Thread, CreateKey(t) PROVE LayoutBeforeKey'
  <2>1. pc[t] = "create_key" /\ dirs[call[t].workspace] = LastDir
    BY <1>3 DEF CreateKey, DirsFollow, DirsFollowAt
  <2> QED
    BY <1>1, <1>3, <2>1 DEF CreateKey, LayoutBeforeKey, TypeOK
<1> QED
  BY <1>2, <1>3, KeyUnchanged

-----------------------------------------------------------------------------
(* For any number of Services                                              *)

LEMMA SharedInitially == Init => SharedInv
BY InitType, NoCallTyped
DEF Init, SharedInv, StepsOfOperation, LockHeld, DirsFollow, DirsFollowAt, RootIsActive,
    RootIsActiveAt, LayoutBeforeKey, Held, Fallible

LEMMA SharedStep == SharedInv /\ [Next]_vars => SharedInv'
BY TypeStep, StepsOfOperationStep, LockHeldStep, DirsFollowStep, RootIsActiveStep, LayoutStep
DEF SharedInv

LEMMA SharedAlways == Spec => []SharedInv
BY SharedInitially, SharedStep, PTL DEF Spec

(* Every variable keeps its type.                                          *)
THEOREM TypeCorrect == Spec => []TypeOK
<1>1. SharedInv => TypeOK
  BY DEF SharedInv
<1> QED
  BY <1>1, SharedAlways, PTL

(* A private key is written only into a complete workspace, however many   *)
(* Services share the Medium and wherever calls fail or processes crash.   *)
THEOREM LayoutPrecedesKey == Spec => []LayoutBeforeKey
<1>1. SharedInv => LayoutBeforeKey
  BY DEF SharedInv
<1> QED
  BY <1>1, SharedAlways, PTL

-----------------------------------------------------------------------------
(* For one Service                                                         *)

(* A call that holds the lock exclusively is alone past its lock.          *)
LEMMA Alone ==
  ASSUME TypeOK, LockHeld, SingleService, NEW t \in Thread, pc[t] \in Held, call[t].op # "read"
  PROVE  \A u \in Thread \ {t} : pc[u] \notin Held
BY Exclusion DEF SingleService

(* CreateExistsFails is the only step that changes misled, and it adds a   *)
(* workspace with a key.                                                   *)
LEMMA MisledGrows ==
  ASSUME TypeOK, StepsOfOperation, [Next]_vars
  PROVE  /\ misled \subseteq misled'
         /\ misled' # misled => \E w \in Workspace :
              misled' = misled \cup {w} /\ key[w] # NoKey /\ key' = key /\ files' = files
<1>1. CASE \E t \in Thread : CreateExistsFails(t)
  <2>1. PICK t \in Thread : CreateExistsFails(t)
    BY <1>1
  <2>2. call[t].workspace \in Workspace
    BY <2>1 DEF CreateExistsFails, StepsOfOperation
  <2> QED
    BY <2>1, <2>2 DEF CreateExistsFails, HasKey
<1>2. CASE ~ \E t \in Thread : CreateExistsFails(t)
  <2>1. misled' = misled
    BY <1>2 DEF Next, Invoke, BeginCreate, BeginSwitch, BeginRead, BeginWrite, Begin, Acquire,
                Lock, RLock, Proceed, CreateExists, CreateDir, CreateKeyPair, CreateKey,
                SwitchIsDir, ResolvePath, ReadKey, ReadFile, WriteFile, MediumFails, Return,
                Crash, vars, medium
  <2> QED
    BY <2>1
<1> QED
  BY <1>1, <1>2

(* The workspace whose key is about to be written has no key, unless       *)
(* Exists failed of it.                                                    *)
LEMMA KeyWrittenOnce ==
  ASSUME SharedInv, KeysStable, NEW t \in Thread, CreateKey(t)
  PROVE  /\ call[t].workspace \in Workspace
         /\ key[call[t].workspace] = NoKey \/ call[t].workspace \in misled
         /\ key' = [key EXCEPT ![call[t].workspace] = cipher[t]]
         /\ cipher[t] \in Key
BY DEF CreateKey, SharedInv, KeysStable, KeysStableAt, StepsOfOperation, DirsFollow, DirsFollowAt, TypeOK

LEMMA KeysStableStep ==
  SingleService /\ SharedInv /\ KeysStable /\ [Next]_vars => KeysStable'
<1> SUFFICES ASSUME SingleService, SharedInv, KeysStable, [Next]_vars
             PROVE  KeysStable'
  OBVIOUS
<1> USE DEF KeysStable, SharedInv
<1>0. misled \subseteq misled'
  BY MisledGrows
<1>1. ASSUME NEW t \in Thread, Invoke(t) \/ Acquire(t) \/ Proceed(t), key' = key, KeysStableAt(t)'
      PROVE  KeysStable'
  BY <1>0, <1>1, OthersStay DEF Others, KeysStableAt
<1> USE DEF KeysStableAt
<1>2. ASSUME NEW t \in Thread, Invoke(t) PROVE KeysStableAt(t)'
  BY <1>2, InvokeBegins DEF Begin, TypeOK
<1>3. ASSUME NEW t \in Thread, Acquire(t) PROVE KeysStableAt(t)'
  <2>1. pc'[t] \in {"create_exists", "switch_isdir", "write_path", "read_path"}
    BY <1>3 DEF Acquire, Lock, RLock, TypeOK
  <2> QED
    BY <2>1
<1>4. ASSUME NEW t \in Thread, Return(t) \/ MediumFails(t) \/ SwitchIsDir(t) \/ ReadFile(t) \/ WriteFile(t)
      PROVE  KeysStableAt(t)'
  BY <1>4 DEF Return, MediumFails, SwitchIsDir, ReadFile, WriteFile, Finish, TypeOK
<1>5. ASSUME NEW t \in Thread, CreateExists(t) PROVE KeysStableAt(t)'
  <2>1. call[t].workspace \in Workspace /\ call' = call /\ key' = key
    BY <1>5 DEF CreateExists, StepsOfOperation, locals, medium
  <2>2. \/ pc'[t] = "return"
        \/ pc'[t] = "create_dirs" /\ dirs[call[t].workspace] = 0
    BY <1>5, <2>1 DEF CreateExists, IsWorkspace, Finish, TypeOK
  <2> QED
    BY <2>1, <2>2 DEF LayoutBeforeKey, LastDir
<1>6. ASSUME NEW t \in Thread, CreateDir(t) \/ CreateKeyPair(t) PROVE KeysStableAt(t)'
  BY <1>6 DEF CreateDir, CreateKeyPair, TypeOK, medium
<1>12. ASSUME NEW t \in Thread, CreateExistsFails(t) PROVE KeysStableAt(t)'
  <2>1. call[t].workspace \in Workspace /\ call' = call /\ key' = key /\ pc'[t] = "create_dirs"
    BY <1>12 DEF CreateExistsFails, StepsOfOperation, locals, TypeOK
  <2>2. key[call[t].workspace] = NoKey \/ call[t].workspace \in misled'
    BY <1>12, <2>1, WorkspaceAssumption DEF CreateExistsFails, HasKey
  <2> QED
    BY <2>1, <2>2
<1>7. ASSUME NEW t \in Thread, \/ ResolvePath(t, "read_path", "read_key")
                               \/ ResolvePath(t, "write_path", "write_key")
      PROVE  KeysStableAt(t)'
  BY <1>7 DEF ResolvePath, Finish, TypeOK
<1>8. ASSUME NEW t \in Thread, \/ ReadKey(t, "read_key", "read_file")
                               \/ ReadKey(t, "write_key", "write_file")
      PROVE  KeysStableAt(t)'
  <2>1. root[t] = active[Serves[t]] /\ root' = root /\ key' = key
    BY <1>8 DEF ReadKey, RootIsActive, RootIsActiveAt, medium
  <2> QED
    BY <1>8, <2>1 DEF ReadKey, HasKey, Finish, TypeOK
<1>9. ASSUME NEW t \in Thread, CreateKey(t) PROVE KeysStable'
  <2>1. pc[t] \in Held /\ call[t].op # "read" /\ pc'[t] = "return"
    BY <1>9 DEF CreateKey, Finish, TypeOK, StepsOfOperation, Held, Fallible
  <2>2. \A u \in Thread : pc'[u] \notin Fallible
    BY <1>9, <2>1, Alone, OthersStay DEF Others, Proceed, Held, Fallible
  <2> QED
    BY <2>2 DEF Fallible
<1>10. ASSUME NEW s \in Service, Crash(s) PROVE KeysStable'
  BY <1>0, <1>10, CrashResets DEF Crash, medium
<1>11. CASE UNCHANGED vars
  BY <1>11 DEF vars
<1> QED
  BY <1>1, <1>2, <1>3, <1>4, <1>5, <1>6, <1>7, <1>8, <1>9, <1>10, <1>11, <1>12, KeyUnchanged
  DEF Next, Proceed

(* No private key is overwritten by a step, but of workspaces of which     *)
(* Exists has failed.                                                      *)
LEMMA KeyKept ==
  ASSUME SharedInv, KeysStable, [Next]_vars
  PROVE  \A w \in Workspace \ misled : key[w] # NoKey => key'[w] = key[w]
<1>1. ASSUME NEW t \in Thread, CreateKey(t)
      PROVE  \A w \in Workspace \ misled : key[w] # NoKey => key'[w] = key[w]
  BY <1>1, KeyWrittenOnce DEF SharedInv, TypeOK
<1> QED
  BY <1>1, KeyUnchanged

LEMMA MisledHaveKeysStep ==
  SharedInv /\ KeysStable /\ MisledHaveKeys /\ [Next]_vars => MisledHaveKeys'
<1> SUFFICES ASSUME SharedInv, KeysStable, MisledHaveKeys, [Next]_vars
             PROVE  MisledHaveKeys'
  OBVIOUS
<1> USE DEF MisledHaveKeys
<1>1. CASE misled' # misled
  BY <1>1, MisledGrows DEF SharedInv
<1>2. ASSUME misled' = misled, NEW t \in Thread, CreateKey(t) PROVE MisledHaveKeys'
  BY <1>2, KeyWrittenOnce, WorkspaceAssumption DEF SharedInv, TypeOK
<1> QED
  BY <1>1, <1>2, KeyUnchanged

LEMMA FilesDecryptableStep ==
  SharedInv /\ KeysStable /\ FilesDecryptable /\ [Next]_vars => FilesDecryptable'
<1> SUFFICES ASSUME SharedInv, KeysStable, FilesDecryptable, [Next]_vars
             PROVE  FilesDecryptable'
  OBVIOUS
<1>0. misled \subseteq misled'
  BY MisledGrows DEF SharedInv
<1>1. ASSUME NEW w \in Workspace \ misled, NEW f \in File, files[w][f] # NoFile
      PROVE  files[w][f].key \in Key /\ key'[w] = key[w]
  <2>1. files[w][f] \in Encrypted
    BY <1>1 DEF SharedInv, TypeOK
  <2>2. key[w] # NoKey
    BY <1>1, <2>1, WorkspaceAssumption DEF FilesDecryptable, Encrypted
  <2> QED
    BY <2>1, <2>2, KeyKept DEF Encrypted
<1>2. CASE files' = files
  BY <1>0, <1>1, <1>2 DEF FilesDecryptable
<1>3. ASSUME NEW t \in Thread, WriteFile(t) PROVE FilesDecryptable'
  <2> DEFINE e == [key |-> cipher[t], content |-> call[t].content]
  <2>1. /\ root[t] \in Workspace /\ call[t].file \in File /\ cipher[t] = key[root[t]]
        /\ key' = key
        /\ files' = [files EXCEPT ![root[t]] = [@ EXCEPT ![call[t].file] = e]]
    BY <1>3 DEF WriteFile, SharedInv, RootIsActive, RootIsActiveAt, KeysStable, KeysStableAt
  <2>2. SUFFICES ASSUME NEW w \in Workspace \ misled, NEW f \in File, files'[w][f] # NoFile
                 PROVE  files'[w][f].key = key'[w]
    BY <1>0 DEF FilesDecryptable
  <2>3. CASE w = root[t] /\ f = call[t].file
    <3>1. files'[w][f] = e
      BY <2>1, <2>3 DEF SharedInv, TypeOK
    <3>2. e.key = cipher[t]
      OBVIOUS
    <3> QED
      BY <2>1, <2>3, <3>1, <3>2
  <2>4. CASE ~(w = root[t] /\ f = call[t].file)
    <3>1. files'[w][f] = files[w][f]
      BY <2>1, <2>4 DEF SharedInv, TypeOK
    <3> QED
      BY <2>1, <2>2, <3>1 DEF FilesDecryptable
  <2> QED
    BY <2>3, <2>4
<1> QED
  BY <1>2, <1>3, FilesUnchanged

LEMMA ReadsDecryptStep ==
  SharedInv /\ KeysStable /\ FilesDecryptable /\ ReadsDecrypt /\ [Next]_vars => ReadsDecrypt'
<1> SUFFICES ASSUME SharedInv, KeysStable, FilesDecryptable, ReadsDecrypt, [Next]_vars
             PROVE  ReadsDecrypt'
  OBVIOUS
<1>0. misled \subseteq misled'
  BY MisledGrows DEF SharedInv
<1> USE DEF ReadsDecrypt
<1>1. ASSUME NEW t \in Thread, Invoke(t) \/ Acquire(t) \/ Proceed(t),
             pc'[t] = "return" /\ result'[t] = "decryption_failed" => root'[t] \in misled'
      PROVE  ReadsDecrypt'
  BY <1>0, <1>1, OthersStay DEF Others, SharedInv
<1>2. ASSUME NEW t \in Thread, Invoke(t) PROVE pc'[t] # "return"
  BY <1>2, InvokeBegins DEF Begin, SharedInv, TypeOK
<1>3. ASSUME NEW t \in Thread, Acquire(t) PROVE pc'[t] # "return"
  BY <1>3 DEF Acquire, Lock, RLock, SharedInv, TypeOK
<1>4. ASSUME NEW t \in Thread, Return(t) \/ CreateExistsFails(t) \/ CreateDir(t) \/ CreateKeyPair(t)
      PROVE  pc'[t] # "return"
  BY <1>4 DEF Return, CreateExistsFails, CreateDir, CreateKeyPair, SharedInv, TypeOK
<1>5. ASSUME NEW t \in Thread, \/ MediumFails(t) \/ CreateKey(t) \/ SwitchIsDir(t) \/ WriteFile(t)
      PROVE  result'[t] # "decryption_failed"
  BY <1>5 DEF MediumFails, CreateKey, SwitchIsDir, WriteFile, Finish, SharedInv, TypeOK
<1>6. ASSUME NEW t \in Thread, \/ CreateExists(t)
                               \/ ResolvePath(t, "read_path", "read_key")
                               \/ ResolvePath(t, "write_path", "write_key")
                               \/ ReadKey(t, "read_key", "read_file")
                               \/ ReadKey(t, "write_key", "write_file")
      PROVE  pc'[t] # "return" \/ result'[t] # "decryption_failed"
  BY <1>6 DEF CreateExists, ResolvePath, ReadKey, Finish, SharedInv, TypeOK
<1>7. ASSUME NEW t \in Thread, ReadFile(t)
      PROVE  result'[t] = "decryption_failed" => root'[t] \in misled'
  <2>1. root[t] \in Workspace /\ call[t].file \in File /\ cipher[t] = key[root[t]] /\ root' = root
    BY <1>7 DEF ReadFile, SharedInv, RootIsActive, RootIsActiveAt, KeysStable, KeysStableAt, locals
  <2>2. CASE root[t] \in misled
    BY <1>0, <2>1, <2>2
  <2>3. CASE root[t] \notin misled
    <3>1. files[root[t]][call[t].file] # NoFile => files[root[t]][call[t].file].key = cipher[t]
      BY <2>1, <2>3 DEF FilesDecryptable
    <3> QED
      BY <1>7, <3>1 DEF ReadFile, Finish, SharedInv, TypeOK
  <2> QED
    BY <2>2, <2>3
<1>8. ASSUME NEW s \in Service, Crash(s) PROVE ReadsDecrypt'
  BY <1>0, <1>8, CrashResets DEF SharedInv
<1>9. CASE UNCHANGED vars
  BY <1>9 DEF vars
<1> QED
  BY <1>1, <1>2, <1>3, <1>4, <1>5, <1>6, <1>7, <1>8, <1>9 DEF Next, Proceed

LEMMA SingleInitially == Init => SingleInv
BY SharedInitially
DEF Init, SingleInv, KeysStable, KeysStableAt, MisledHaveKeys, FilesDecryptable, ReadsDecrypt

LEMMA SingleStep == SingleService /\ SingleInv /\ [Next]_vars => SingleInv'
BY SharedStep, KeysStableStep, MisledHaveKeysStep, FilesDecryptableStep, ReadsDecryptStep DEF SingleInv

LEMMA SingleAlways == SingleService => (Spec => []SingleInv)
<1> SUFFICES ASSUME SingleService PROVE Spec => []SingleInv
  OBVIOUS
<1>1. SingleInv /\ [Next]_vars => SingleInv'
  BY SingleStep
<1> QED
  BY <1>1, SingleInitially, PTL DEF Spec

(* Whatever interleaving of calls, failures and crashes, each stored file  *)
(* opens under its workspace's key, unless Exists has failed of the        *)
(* workspace.                                                              *)
THEOREM FilesStayDecryptable == SingleService => (Spec => []FilesDecryptable)
<1>1. SingleInv => FilesDecryptable
  BY DEF SingleInv
<1> QED
  BY <1>1, SingleAlways, PTL

(* One Service never fails to decrypt a file it has read, unless Exists    *)
(* has failed of its workspace.                                            *)
THEOREM ReadsNeverFailToDecrypt == SingleService => (Spec => []ReadsDecrypt)
<1>1. SingleInv => ReadsDecrypt
  BY DEF SingleInv
<1> QED
  BY <1>1, SingleAlways, PTL

(* With one Service, only a failure of Exists has CreateWorkspace          *)
(* overwrite a private key.                                                *)
THEOREM KeysReplacedOnlyMisled == SingleService => (Spec => KeyReplacedOnlyMisled)
<1>1. SingleInv /\ [Next]_vars =>
        [\A w \in Workspace \ misled : key[w] # NoKey => key'[w] = key[w]]_vars
  BY KeyKept DEF SingleInv
<1> QED
  BY <1>1, SingleAlways, PTL DEF Spec, KeyReplacedOnlyMisled

-----------------------------------------------------------------------------
(* One Service implements the vault                                        *)

LEMMA VaultInitially == Init => Vault!Init
BY DEF Init, Vault!Init, vault

(* CreateKey opens a workspace, WriteFile puts a plaintext, an Exists that *)
(* fails may lose a workspace, and no other step changes what the Medium's *)
(* files and keys decrypt to.                                              *)
LEMMA VaultStep == SingleInv /\ [Next]_vars => [Vault!Next]_vault
<1> SUFFICES ASSUME SingleInv, [Next]_vars
             PROVE  [Vault!Next]_vault
  OBVIOUS
<1> USE DEF SingleInv
<1>1. CASE key' = key /\ files' = files /\ misled' = misled
  BY <1>1 DEF vault, Plaintext
<1>4. CASE misled' # misled
  <2>1. PICK w \in Workspace : /\ misled' = misled \cup {w} /\ key[w] # NoKey
                               /\ key' = key /\ files' = files
    BY <1>4, MisledGrows DEF SharedInv
  <2>2. w \notin misled
    BY <1>4, <2>1
  <2>3. vault[w] # Absent
    <3>1. vault[w] = [f \in File |-> Plaintext(w, f)]
      BY <2>1, <2>2 DEF vault
    <3>2. \A f \in File : Plaintext(w, f) \in Content \cup {NoContent}
      BY <2>1, <2>2 DEF Plaintext, FilesDecryptable, SharedInv, TypeOK, Encrypted
    <3> QED
      BY <3>1, <3>2, WorkspaceAssumption
  <2>4. vault' = [vault EXCEPT ![w] = Lost]
    <3>1. \A v \in Workspace : vault'[v] = IF v = w THEN Lost ELSE vault[v]
      BY <2>1, <2>2 DEF vault, Plaintext
    <3> QED
      BY <3>1 DEF vault
  <2> QED
    BY <2>3, <2>4 DEF Vault!Next, Vault!Lose
<1>2. ASSUME misled' = misled, NEW t \in Thread, CreateKey(t) PROVE [Vault!Next]_vault
  <2> DEFINE w == call[t].workspace
  <2>1. /\ w \in Workspace /\ (key[w] = NoKey \/ w \in misled) /\ cipher[t] # NoKey /\ files' = files
        /\ key' = [key EXCEPT ![w] = cipher[t]]
    BY <1>2, KeyWrittenOnce, WorkspaceAssumption DEF CreateKey
  <2>3. /\ key'[w] # NoKey
        /\ \A v \in Workspace : v # w => key'[v] = key[v]
    BY <2>1 DEF SharedInv, TypeOK
  <2> HIDE DEF w
  <2>6. CASE w \in misled
    <3>1. key[w] # NoKey
      BY <2>6 DEF MisledHaveKeys
    <3>2. \A v \in Workspace : vault'[v] = vault[v]
      BY <1>2, <2>1, <2>3, <2>6, <3>1 DEF vault, Plaintext
    <3> QED
      BY <3>2 DEF vault
  <2>7. CASE w \notin misled
    <3>1. \A f \in File : files[w][f] = NoFile
      BY <2>1, <2>7, WorkspaceAssumption DEF FilesDecryptable, SharedInv, TypeOK, Encrypted
    <3>2. vault[w] = Absent
      BY <2>1, <2>7 DEF vault
    <3>3. \A v \in Workspace : vault'[v] = IF v = w THEN [f \in File |-> NoContent] ELSE vault[v]
      BY <1>2, <2>1, <2>3, <2>7, <3>1 DEF vault, Plaintext
    <3>4. vault' = [vault EXCEPT ![w] = [f \in File |-> NoContent]]
      BY <3>3 DEF vault
    <3> QED
      BY <2>1, <3>2, <3>4 DEF Vault!Next, Vault!OpenVault
  <2> QED
    BY <2>6, <2>7
<1>3. ASSUME misled' = misled, NEW t \in Thread, WriteFile(t) PROVE [Vault!Next]_vault
  <2> DEFINE w == root[t]
             f == call[t].file
             c == call[t].content
             e == [key |-> cipher[t], content |-> c]
  <2>1. /\ w \in Workspace /\ f \in File /\ c \in Content /\ key' = key
        /\ cipher[t] = key[w] /\ key[w] # NoKey
        /\ files' = [files EXCEPT ![w] = [@ EXCEPT ![f] = e]]
    BY <1>3 DEF WriteFile, SharedInv, RootIsActive, RootIsActiveAt, KeysStable, KeysStableAt,
                StepsOfOperation
  <2>2. e \in Encrypted /\ e # NoFile /\ e.key = key[w] /\ e.content = c
    <3>1. key[w] \in Key
      BY <2>1 DEF SharedInv, TypeOK
    <3> QED
      BY <2>1, <3>1, WorkspaceAssumption DEF Encrypted
  <2> HIDE DEF e
  <2>3. \A v \in Workspace, g \in File :
          files'[v][g] = IF v = w /\ g = f THEN e ELSE files[v][g]
    BY <2>1 DEF SharedInv, TypeOK
  <2>4. \A v \in Workspace, g \in File :
          Plaintext(v, g)' = IF v = w /\ g = f THEN c ELSE Plaintext(v, g)
    BY <2>1, <2>2, <2>3 DEF Plaintext
  <2>8. \A v \in Workspace : v # w => vault'[v] = vault[v]
    BY <1>3, <2>1, <2>4 DEF vault
  <2>9. CASE w \in misled
    <3>1. \A v \in Workspace : vault'[v] = vault[v]
      BY <1>3, <2>1, <2>8, <2>9 DEF vault
    <3> QED
      BY <3>1 DEF vault
  <2>10. CASE w \notin misled
    <3>1. /\ vault[w] = [g \in File |-> Plaintext(w, g)]
          /\ vault'[w] = [g \in File |-> IF g = f THEN c ELSE Plaintext(w, g)]
      BY <1>3, <2>1, <2>4, <2>10 DEF vault
    <3>2. vault[w] \notin {Absent, Lost}
      <4>1. \A g \in File : Plaintext(w, g) \in Content \cup {NoContent}
        BY <2>1, <2>10 DEF Plaintext, FilesDecryptable, SharedInv, TypeOK, Encrypted
      <4> QED
        BY <3>1, <4>1, WorkspaceAssumption
    <3>3. vault' = [vault EXCEPT ![w] = [@ EXCEPT ![f] = c]]
      <4>1. [vault[w] EXCEPT ![f] = c] = vault'[w]
        BY <3>1
      <4>2. /\ vault = [v \in Workspace |-> vault[v]]
            /\ vault' = [v \in Workspace |-> vault'[v]]
        BY DEF vault
      <4> HIDE DEF w, f, c
      <4> QED
        BY <2>1, <2>8, <4>1, <4>2
    <3> QED
      BY <2>1, <3>2, <3>3 DEF Vault!Next, Vault!Put
  <2> QED
    BY <2>9, <2>10
<1> QED
  BY <1>1, <1>2, <1>3, <1>4, KeyUnchanged, FilesUnchanged

(* One Service implements the abstract vault: a workspace opens once and   *)
(* its plaintexts change only by WriteWorkspaceFile, until it is lost.     *)
THEOREM ImplementsVault == SingleService => (Spec => VaultSpec)
BY SingleAlways, VaultInitially, VaultStep, PTL DEF Spec, VaultSpec, Vault!Spec

-----------------------------------------------------------------------------
(* local.Medium: what links mean                                           *)
-----------------------------------------------------------------------------

Names == Segment \cup {Up}

LEMMA PathsTyped ==
  /\ Path \subseteq Seq(Segment) /\ <<>> \in Seq(Segment)
  /\ Failed \notin Seq(Segment) /\ Missing \notin Text /\ Dir \notin Text
BY LocalAssumption

LEMMA DownTyped == \A q \in Seq(Segment) : q \in Seq(Names)
<1>1. Segment \subseteq Names
  BY DEF Names
<1> QED
  BY <1>1, SeqMonotonic

(* A path without a .. is one of names, and conversely.                    *)
LEMMA WithoutUp ==
  /\ \A q \in Seq(Segment) : Up \notin ToSet(q)
  /\ \A q \in Seq(Names) : Up \notin ToSet(q) => q \in Seq(Segment)
<1>1. ASSUME NEW q \in Seq(Segment) PROVE Up \notin ToSet(q)
  <2>1. \A i \in DOMAIN q : q[i] \in Segment
    BY LenProperties, ElementOfSeq
  <2> QED
    BY <2>1, LocalAssumption DEF ToSet
<1>2. ASSUME NEW q \in Seq(Names), Up \notin ToSet(q) PROVE q \in Seq(Segment)
  <2>1. Len(q) \in Nat /\ 1 \in Int /\ DOMAIN q = 1 .. Len(q)
    BY LenProperties
  <2>2. \A i \in 1 .. Len(q) : q[i] \in Segment
    BY <1>2, <2>1, ElementOfSeq DEF Names, ToSet
  <2>3. SubSeq(q, 1, Len(q)) \in Seq(Segment)
    BY <2>1, <2>2, SubSeqProperties
  <2> QED
    BY <2>3, SubSeqFull
<1> QED
  BY <1>1, <1>2

(* The first .. of a path.                                                 *)
LEMMA FirstUp ==
  ASSUME NEW q \in Seq(Names), Up \in ToSet(q), NEW tops
  PROVE  \E n \in 1 .. Len(q) :
           /\ q[n] = Up /\ \A i \in 1 .. n - 1 : q[i] \in Segment
           /\ UpOnce(q, tops) = IF SubSeq(q, 1, n - 1) \notin tops THEN q
                                ELSE SubSeq(q, 1, n - 2) \o SubSeq(q, n + 1, Len(q))
<1> DEFINE ups == {k \in 1 .. Len(q) : q[k] = Up}
<1>1. Len(q) \in Nat /\ DOMAIN q = 1 .. Len(q)
  BY LenProperties
<1>2. ups \in SUBSET Nat /\ ups # {} /\ \A k : k \in ups <=> k \in 1 .. Len(q) /\ q[k] = Up
  BY <1>1 DEF ToSet
<1>3. UpOnce(q, tops) = IF SubSeq(q, 1, Min(ups) - 1) \notin tops THEN q
                        ELSE SubSeq(q, 1, Min(ups) - 2) \o SubSeq(q, Min(ups) + 1, Len(q))
  BY DEF UpOnce
<1> HIDE DEF ups
<1>4. PICK n \in ups : \A k \in ups : n <= k
  BY <1>2, LeastOf
<1>5. Min(ups) = n
  <2>1. \A k \in ups : (\A j \in ups : k <= j) => k = n
    BY <1>2, <1>4
  <2> QED
    BY <1>4, <2>1 DEF Min
<1>6. n \in 1 .. Len(q) /\ q[n] = Up
  BY <1>2
<1>7. ASSUME NEW i \in 1 .. n - 1 PROVE q[i] \in Segment
  <2>1. i \in 1 .. Len(q) /\ i \in Nat /\ ~(n <= i)
    BY <1>1, <1>6
  <2>2. q[i] \in Names /\ q[i] # Up
    BY <1>2, <1>4, <2>1, ElementOfSeq
  <2> QED
    BY <2>2 DEF Names
<1> QED
  BY <1>3, <1>5, <1>6, <1>7

(* What is left when a .. and the name before it are taken away.           *)
LEMMA UpTakesAway ==
  ASSUME NEW q \in Seq(Names), NEW n \in 1 .. Len(q), \A i \in 1 .. n - 1 : q[i] \in Segment
  PROVE  /\ SubSeq(q, 1, n - 1) \in Seq(Segment)
         /\ SubSeq(q, 1, n - 2) \in Seq(Names) /\ SubSeq(q, n + 1, Len(q)) \in Seq(Names)
         /\ SubSeq(q, 1, n - 2) \o SubSeq(q, n + 1, Len(q)) \in Seq(Names)
         /\ Len(SubSeq(q, 1, n - 2) \o SubSeq(q, n + 1, Len(q))) < Len(q)
<1> DEFINE a == SubSeq(q, 1, n - 2)
           b == SubSeq(q, n + 1, Len(q))
<1>1. Len(q) \in Nat /\ \A i \in 1 .. Len(q) : q[i] \in Names
  BY LenProperties, ElementOfSeq
<1>2. SubSeq(q, 1, n - 1) \in Seq(Segment)
  <2>1. n - 1 \in Int /\ 1 \in Int
    OBVIOUS
  <2> QED
    BY <2>1, SubSeqProperties
<1>3. a \in Seq(Names) /\ Len(a) = IF 1 <= n - 2 THEN n - 2 ELSE 0
  <2>1. n - 2 \in Int /\ 1 \in Int /\ \A i \in 1 .. n - 2 : q[i] \in Names
    BY <1>1
  <2>2. a \in Seq(Names) /\ Len(a) = IF 1 <= n - 2 THEN n - 2 - 1 + 1 ELSE 0
    BY <2>1, SubSeqProperties
  <2> QED
    BY <2>2
<1>4. b \in Seq(Names) /\ Len(b) = Len(q) - n
  <2>1. n + 1 \in Int /\ Len(q) \in Int /\ \A i \in n + 1 .. Len(q) : q[i] \in Names
    BY <1>1
  <2>2. b \in Seq(Names) /\ Len(b) = IF n + 1 <= Len(q) THEN Len(q) - (n + 1) + 1 ELSE 0
    BY <2>1, SubSeqProperties
  <2> QED
    BY <1>1, <2>2
<1> HIDE DEF a, b
<1>5. a \o b \in Seq(Names) /\ Len(a \o b) = Len(a) + Len(b)
  BY <1>3, <1>4, ConcatProperties
<1>6. Len(a \o b) < Len(q)
  BY <1>1, <1>3, <1>4, <1>5
<1> QED
  BY <1>2, <1>3, <1>4, <1>5, <1>6 DEF a, b

(* One step up.                                                            *)
LEMMA UpOnceTyped ==
  ASSUME NEW q \in Seq(Names)
  PROVE  /\ \A tops : UpOnce(q, tops) \in Seq(Names)
         /\ \A tops : Up \notin ToSet(q) => UpOnce(q, tops) = q
         /\ Up \in ToSet(q) => Len(UpOnce(q, Seq(Segment))) < Len(q)
<1>1. ASSUME NEW tops, Up \notin ToSet(q) PROVE UpOnce(q, tops) = q
  BY <1>1 DEF UpOnce
<1>2. ASSUME NEW tops, Up \in ToSet(q)
      PROVE  /\ UpOnce(q, tops) \in Seq(Names)
             /\ tops = Seq(Segment) => Len(UpOnce(q, tops)) < Len(q)
  <2>1. PICK n \in 1 .. Len(q) :
           /\ q[n] = Up /\ \A i \in 1 .. n - 1 : q[i] \in Segment
           /\ UpOnce(q, tops) = IF SubSeq(q, 1, n - 1) \notin tops THEN q
                                ELSE SubSeq(q, 1, n - 2) \o SubSeq(q, n + 1, Len(q))
    BY <1>2, FirstUp
  <2> QED
    BY <2>1, UpTakesAway
<1> QED
  BY <1>1, <1>2

(* The passes of GoUp.                                                     *)
LEMMA GoUpRuns ==
  ASSUME NEW q \in Seq(Names), NEW tops
  PROVE  \E g \in [0 .. Len(q) -> Seq(Names)] :
           /\ g[0] = q /\ \A k \in 1 .. Len(q) : g[k] = UpOnce(g[k - 1], tops)
           /\ GoUp(q, tops) = g[Len(q)]
<1> DEFINE m == Len(q)
           D == 0 .. m
           V == Seq(Names)
           after[n \in D] == IF n = 0 THEN q ELSE UpOnce(after[n - 1], tops)
           goes(h) == [n \in D |-> IF n = 0 THEN q ELSE UpOnce(h[n - 1], tops)]
           F == [k \in 1 .. m |-> [a \in V |-> UpOnce(a, tops)]]
<1>1. GoUp(q, tops) = after[m]
  BY DEF GoUp
<1>2. after = CHOOSE h : h = goes(h)
  OBVIOUS
<1>3. m \in Nat
  BY LenProperties
<1>4. F \in [1 .. m -> [V -> V]] /\ q \in V /\ \A a \in V : UpOnce(a, tops) \in V
  BY UpOnceTyped
<1> HIDE DEF V, m
<1>5. PICK f : Passes(f, m, V, q, F)
  <2> HIDE DEF F
  <2> QED
    BY <1>3, <1>4, LoopRuns
<1>6. f = goes(f)
  <2>1. \A k \in D : k # 0 => k \in 1 .. m /\ k - 1 \in D
    BY <1>3
  <2>2. goes(f) = [k \in D |-> f[k]]
    BY <1>5, <2>1 DEF Passes
  <2> QED
    BY <1>5, <2>2 DEF Passes
<1> HIDE DEF after, goes
<1>7. after = goes(after)
  BY <1>2, <1>6
<1>8. after[0] = q /\ \A k \in 1 .. m : after[k] = UpOnce(after[k - 1], tops)
  <2>1. 0 \in D /\ \A k \in 1 .. m : k \in D /\ k # 0
    BY <1>3
  <2> QED
    BY <1>7, <2>1 DEF goes
<1>9. \A k \in 0 .. m : after[k] \in V
  <2>1. after[0] \in V /\ \A k \in 1 .. m : after[k - 1] \in V => after[k] \in V
    BY <1>4, <1>8
  <2> QED
    BY <1>3, <2>1, LoopKeeps
<1>10. after \in [0 .. m -> V]
  <2>1. after = [k \in D |-> after[k]]
    BY <1>7 DEF goes
  <2> QED
    BY <1>9, <2>1
<1> QED
  BY <1>1, <1>8, <1>10 DEF V, m

(* A path without a .. stays what it is.                                   *)
LEMMA GoUpStays ==
  ASSUME NEW q \in Seq(Segment), NEW tops
  PROVE  GoUp(q, tops) = q
<1>1. q \in Seq(Names) /\ Up \notin ToSet(q) /\ Len(q) \in Nat
  BY DownTyped, WithoutUp, LenProperties
<1>2. PICK g : /\ g[0] = q /\ \A k \in 1 .. Len(q) : g[k] = UpOnce(g[k - 1], tops)
               /\ GoUp(q, tops) = g[Len(q)]
  BY <1>1, GoUpRuns
<1>3. UpOnce(q, tops) = q
  BY <1>1, UpOnceTyped
<1> DEFINE W == {q}
<1>4. g[0] \in W /\ \A k \in 1 .. Len(q) : g[k - 1] \in W => g[k] \in W
  BY <1>2, <1>3
<1> HIDE DEF W
<1>5. \A k \in 0 .. Len(q) : g[k] \in W
  BY <1>1, <1>4, LoopKeeps
<1>6. g[Len(q)] = q
  BY <1>1, <1>5 DEF W
<1> QED
  BY <1>2, <1>6

(* A cleaned path has no .. left.                                          *)
LEMMA CleanTyped == \A q \in Seq(Names) : Clean(q) \in Seq(Segment)
<1> SUFFICES ASSUME NEW q \in Seq(Names)
             PROVE  Clean(q) \in Seq(Segment)
  OBVIOUS
<1> DEFINE m == Len(q)
           all == Seq(Segment)
<1>1. PICK g \in [0 .. m -> Seq(Names)] :
           /\ g[0] = q /\ \A k \in 1 .. m : g[k] = UpOnce(g[k - 1], all)
           /\ GoUp(q, all) = g[m]
  BY GoUpRuns
<1>2. m \in Nat
  BY LenProperties
<1> DEFINE Fine(k) == Up \notin ToSet(g[k]) \/ Len(g[k]) + k <= m
           h == [k \in 0 .. m |-> Fine(k)]
           W == {TRUE}
<1>3. Fine(0)
  BY <1>1, <1>2
<1>4. ASSUME NEW k \in 1 .. m, Fine(k - 1) PROVE Fine(k)
  <2> DEFINE a == g[k - 1]
             b == g[k]
  <2>1. /\ k \in 0 .. m /\ k - 1 \in 0 .. m /\ a \in Seq(Names) /\ b \in Seq(Names)
        /\ b = UpOnce(a, all)
    BY <1>1, <1>2
  <2>2. Len(a) \in Nat /\ Len(b) \in Nat
    BY <2>1, LenProperties
  <2>3. CASE Up \notin ToSet(a)
    BY <2>1, <2>3, UpOnceTyped
  <2>4. CASE Up \in ToSet(a)
    <3>1. Len(a) + (k - 1) <= m
      BY <1>4, <2>4
    <3> HIDE DEF a, b
    <3>2. Len(b) < Len(a)
      BY <2>1, <2>4, UpOnceTyped
    <3>3. Len(b) + k <= m
      BY <1>2, <2>2, <3>1, <3>2
    <3> QED
      BY <3>3 DEF b
  <2> QED
    BY <2>3, <2>4
<1> HIDE DEF Fine
<1>5. h[0] \in W /\ \A k \in 1 .. m : h[k - 1] \in W => h[k] \in W
  <2>1. 0 \in 0 .. m /\ \A k \in 1 .. m : k \in 0 .. m /\ k - 1 \in 0 .. m
    BY <1>2
  <2> QED
    BY <1>3, <1>4, <2>1
<1>6. Fine(m)
  <2>1. \A k \in 0 .. m : h[k] \in W
    <3> HIDE DEF h, W, m
    <3> QED
      BY <1>2, <1>5, LoopKeeps
  <2>2. m \in 0 .. m
    BY <1>2
  <2> QED
    BY <2>1, <2>2
<1>7. g[m] \in Seq(Names) /\ Len(g[m]) \in Nat
  BY <1>1, <1>2, LenProperties
<1>8. Up \notin ToSet(g[m])
  <2>1. CASE Up \notin ToSet(g[m])
    BY <2>1
  <2>2. CASE Len(g[m]) + m <= m
    <3>1. Len(g[m]) = 0
      BY <1>2, <1>7, <2>2
    <3>2. DOMAIN g[m] = {}
      BY <1>7, <3>1, LenProperties
    <3> QED
      BY <3>2 DEF ToSet
  <2> QED
    BY <1>6, <2>1, <2>2 DEF Fine
<1> QED
  BY <1>1, <1>7, <1>8, WithoutUp DEF Clean

(* What follows the .. of a path does not matter to them.                  *)
LEMMA UpOnceBefore ==
  ASSUME NEW q \in Seq(Names), NEW r \in Seq(Segment), NEW tops
  PROVE  UpOnce(q \o r, tops) = UpOnce(q, tops) \o r
<1> DEFINE b == q \o r
<1>1. /\ Len(q) \in Nat /\ Len(r) \in Nat /\ r \in Seq(Names)
      /\ DOMAIN q = 1 .. Len(q)
      /\ \A i \in 1 .. Len(q) : q[i] \in Names
      /\ \A i \in 1 .. Len(r) : r[i] \in Segment /\ r[i] # Up
  BY LenProperties, ElementOfSeq, DownTyped, LocalAssumption
<1>2. /\ b \in Seq(Names) /\ Len(b) = Len(q) + Len(r) /\ DOMAIN b = 1 .. Len(b)
      /\ \A i \in 1 .. Len(q) + Len(r) : b[i] = IF i <= Len(q) THEN q[i] ELSE r[i - Len(q)]
  BY <1>1, ConcatProperties, LenProperties
<1> HIDE DEF b
<1>3. \A i \in 1 .. Len(q) : i \in 1 .. Len(b) /\ b[i] = q[i]
  BY <1>1, <1>2
<1>4. \A i \in 1 .. Len(b) : b[i] = Up => i \in 1 .. Len(q)
  <2> SUFFICES ASSUME NEW i \in 1 .. Len(b), b[i] = Up, ~(i <= Len(q))
               PROVE  FALSE
    BY <1>1
  <2>1. i \in 1 .. Len(q) + Len(r) /\ i - Len(q) \in 1 .. Len(r)
    BY <1>1, <1>2
  <2>2. b[i] = r[i - Len(q)]
    BY <1>2, <2>1
  <2> QED
    BY <1>1, <2>1, <2>2
<1>5. CASE Up \notin ToSet(q)
  <2>1. Up \notin ToSet(b)
    BY <1>1, <1>2, <1>3, <1>4, <1>5 DEF ToSet
  <2> QED
    BY <1>2, <1>5, <2>1, UpOnceTyped DEF b
<1>6. CASE Up \in ToSet(q)
  <2>1. Up \in ToSet(b)
    BY <1>1, <1>2, <1>3, <1>6 DEF ToSet
  <2>2. PICK n \in 1 .. Len(q) :
           /\ q[n] = Up /\ \A i \in 1 .. n - 1 : q[i] \in Segment
           /\ UpOnce(q, tops) = IF SubSeq(q, 1, n - 1) \notin tops THEN q
                                ELSE SubSeq(q, 1, n - 2) \o SubSeq(q, n + 1, Len(q))
    BY <1>6, FirstUp
  <2>3. PICK k \in 1 .. Len(b) :
           /\ b[k] = Up /\ \A i \in 1 .. k - 1 : b[i] \in Segment
           /\ UpOnce(b, tops) = IF SubSeq(b, 1, k - 1) \notin tops THEN b
                                ELSE SubSeq(b, 1, k - 2) \o SubSeq(b, k + 1, Len(b))
    BY <1>2, <2>1, FirstUp
  <2>4. k = n
    <3>1. k \in 1 .. Len(q) /\ q[k] = Up /\ b[n] = Up /\ n \in Int /\ k \in Int
      BY <1>3, <1>4, <2>2, <2>3
    <3>2. ~(k < n)
      <4>1. k < n => k \in 1 .. n - 1
        BY <3>1
      <4> QED
        BY <2>2, <3>1, <4>1, LocalAssumption
    <3>3. ~(n < k)
      <4>1. n < k => n \in 1 .. k - 1
        BY <3>1
      <4> QED
        BY <2>3, <3>1, <4>1, LocalAssumption
    <3> QED
      BY <3>1, <3>2, <3>3
  <2>5. ASSUME NEW j \in Int, j <= Len(q) PROVE SubSeq(b, 1, j) = SubSeq(q, 1, j)
    <3> DEFINE x == SubSeq(b, 1, j)
               y == SubSeq(q, 1, j)
    <3>1. 1 \in Int /\ \A i \in 1 .. j : i \in 1 .. Len(q) /\ q[i] \in Names /\ b[i] = q[i]
      BY <1>1, <1>3, <2>5
    <3>2. /\ x \in Seq(Names) /\ Len(x) = IF 1 <= j THEN j - 1 + 1 ELSE 0
          /\ \A i \in 1 .. j - 1 + 1 : x[i] = b[1 + i - 1]
      BY <3>1, SubSeqProperties
    <3>3. /\ y \in Seq(Names) /\ Len(y) = IF 1 <= j THEN j - 1 + 1 ELSE 0
          /\ \A i \in 1 .. j - 1 + 1 : y[i] = q[1 + i - 1]
      BY <3>1, SubSeqProperties
    <3> HIDE DEF x, y
    <3>4. \A i \in 1 .. Len(x) : x[i] = y[i]
      <4> SUFFICES ASSUME NEW i \in 1 .. Len(x)
                   PROVE  x[i] = y[i]
        OBVIOUS
      <4>1. i \in 1 .. j - 1 + 1 /\ i \in 1 .. j /\ 1 + i - 1 = i
        BY <3>2
      <4> QED
        BY <3>1, <3>2, <3>3, <4>1
    <3>5. x = y
      BY <3>2, <3>3, <3>4, SeqEqual
    <3> QED
      BY <3>5 DEF x, y
  <2>6. SubSeq(b, n + 1, Len(b)) = SubSeq(q, n + 1, Len(q)) \o r
    <3> DEFINE x == SubSeq(b, n + 1, Len(b))
               y == SubSeq(q, n + 1, Len(q))
    <3>1. /\ n + 1 \in Int /\ Len(b) \in Int /\ Len(q) \in Int
          /\ \A i \in n + 1 .. Len(q) : q[i] \in Names
          /\ \A i \in n + 1 .. Len(b) : b[i] \in Names
      BY <1>1, <1>2, ElementOfSeq
    <3>2. /\ x \in Seq(Names) /\ Len(x) = IF n + 1 <= Len(b) THEN Len(b) - (n + 1) + 1 ELSE 0
          /\ \A i \in 1 .. Len(b) - (n + 1) + 1 : x[i] = b[(n + 1) + i - 1]
      BY <3>1, SubSeqProperties
    <3>3. /\ y \in Seq(Names) /\ Len(y) = IF n + 1 <= Len(q) THEN Len(q) - (n + 1) + 1 ELSE 0
          /\ \A i \in 1 .. Len(q) - (n + 1) + 1 : y[i] = q[(n + 1) + i - 1]
      BY <3>1, SubSeqProperties
    <3> HIDE DEF x, y
    <3>4. Len(x) = Len(q) + Len(r) - n /\ Len(y) = Len(q) - n
      <4>1. n \in Nat /\ n <= Len(q) /\ Len(b) = Len(q) + Len(r)
        BY <1>1, <1>2
      <4>2. Len(x) = Len(b) - n
        BY <1>1, <3>2, <4>1
      <4>3. Len(y) = Len(q) - n
        <5>1. Len(y) = IF n + 1 <= Len(q) THEN Len(q) - (n + 1) + 1 ELSE 0
          BY <3>3
        <5>2. Len(q) \in Nat
          BY <1>1
        <5>3. CASE n + 1 <= Len(q)
          BY <4>1, <5>1, <5>2, <5>3
        <5>4. CASE ~(n + 1 <= Len(q))
          BY <4>1, <5>1, <5>2, <5>4
        <5> QED
          BY <5>3, <5>4
      <4> QED
        BY <4>1, <4>2, <4>3
    <3>5. /\ y \o r \in Seq(Names) /\ Len(y \o r) = Len(y) + Len(r)
          /\ \A i \in 1 .. Len(y) + Len(r) : (y \o r)[i] = IF i <= Len(y) THEN y[i] ELSE r[i - Len(y)]
      BY <1>1, <3>3, ConcatProperties
    <3>6. ASSUME NEW i \in 1 .. Len(x) PROVE x[i] = (y \o r)[i]
      <4>1. /\ i \in 1 .. Len(b) - (n + 1) + 1 /\ (n + 1) + i - 1 = n + i
            /\ i \in 1 .. Len(y) + Len(r) /\ n + i \in 1 .. Len(q) + Len(r)
        BY <1>1, <1>2, <3>4
      <4>2. x[i] = IF n + i <= Len(q) THEN q[n + i] ELSE r[n + i - Len(q)]
        BY <1>2, <3>2, <4>1
      <4>3. CASE n + i <= Len(q)
        <5>1. i <= Len(y) /\ i \in 1 .. Len(q) - (n + 1) + 1
          BY <1>1, <3>4, <4>1, <4>3
        <5> QED
          BY <3>3, <3>5, <4>1, <4>2, <4>3, <5>1
      <4>4. CASE ~(n + i <= Len(q))
        <5>1. ~(i <= Len(y)) /\ n + i - Len(q) = i - Len(y)
          BY <1>1, <3>4, <4>4
        <5> QED
          BY <3>5, <4>1, <4>2, <4>4, <5>1
      <4> QED
        BY <4>3, <4>4
    <3>7. x = y \o r
      <4>1. Len(x) = Len(y \o r)
        BY <1>1, <3>4, <3>5
      <4> QED
        BY <3>2, <3>5, <3>6, <4>1, SeqEqual
    <3> QED
      BY <3>7 DEF x, y
  <2>7. n - 1 \in Int /\ n - 1 <= Len(q) /\ n - 2 \in Int /\ n - 2 <= Len(q)
    BY <1>1
  <2>8. SubSeq(b, 1, n - 1) = SubSeq(q, 1, n - 1) /\ SubSeq(b, 1, n - 2) = SubSeq(q, 1, n - 2)
    BY <2>5, <2>7
  <2> DEFINE x == SubSeq(q, 1, n - 2)
             y == SubSeq(q, n + 1, Len(q))
  <2>9. x \in Seq(Names) /\ y \in Seq(Names)
    BY <2>2, UpTakesAway
  <2> HIDE DEF x, y
  <2>10. x \o (y \o r) = (x \o y) \o r
    <3>1. r \in Seq(Names)
      BY <1>1
    <3>2. x \in Seq(Names) /\ y \in Seq(Names)
      BY <2>9
    <3> QED
      BY <3>1, <3>2
  <2> QED
    BY <2>2, <2>3, <2>4, <2>6, <2>8, <2>10 DEF x, y, b
<1> QED
  BY <1>5, <1>6

LEMMA GoUpBefore ==
  ASSUME NEW q \in Seq(Names), NEW r \in Seq(Segment), NEW tops, GoUp(q, tops) \in Seq(Segment)
  PROVE  GoUp(q \o r, tops) = GoUp(q, tops) \o r
<1> DEFINE b == q \o r
           m == Len(q)
           end == GoUp(q, tops) \o r
<1>1. /\ m \in Nat /\ r \in Seq(Names) /\ b \in Seq(Names) /\ m <= Len(b) /\ Len(b) \in Nat
      /\ end \in Seq(Segment)
  <2>1. m \in Nat /\ Len(r) \in Nat /\ r \in Seq(Names)
    BY LenProperties, DownTyped
  <2> QED
    BY <2>1, ConcatProperties
<1>2. PICK g \in [0 .. m -> Seq(Names)] :
           /\ g[0] = q /\ \A k \in 1 .. m : g[k] = UpOnce(g[k - 1], tops)
           /\ GoUp(q, tops) = g[m]
  BY GoUpRuns
<1>3. PICK h \in [0 .. Len(b) -> Seq(Names)] :
           /\ h[0] = b /\ \A k \in 1 .. Len(b) : h[k] = UpOnce(h[k - 1], tops)
           /\ GoUp(b, tops) = h[Len(b)]
  BY <1>1, GoUpRuns
<1> DEFINE Fine(k) == h[k] = IF k <= m THEN g[k] \o r ELSE end
           f == [k \in 0 .. Len(b) |-> Fine(k)]
           W == {TRUE}
<1>4. Fine(0)
  BY <1>1, <1>2, <1>3
<1>5. ASSUME NEW k \in 1 .. Len(b), Fine(k - 1) PROVE Fine(k)
  <2>1. h[k] = UpOnce(h[k - 1], tops)
    BY <1>3
  <2>2. CASE k <= m
    <3>1. k \in 1 .. m /\ k - 1 <= m /\ k - 1 \in 0 .. m
      BY <1>1, <2>2
    <3>2. UpOnce(g[k - 1] \o r, tops) = UpOnce(g[k - 1], tops) \o r
      BY <1>2, <3>1, UpOnceBefore
    <3> QED
      BY <1>2, <1>5, <2>1, <2>2, <3>1, <3>2
  <2>3. CASE ~(k <= m)
    <3>1. k - 1 = m \/ ~(k - 1 <= m)
      BY <1>1, <2>3
    <3>2. m <= m
      BY <1>1
    <3>3. h[k - 1] = end
      BY <1>2, <1>5, <3>1, <3>2
    <3>4. UpOnce(end, tops) = end
      BY <1>1, DownTyped, WithoutUp, UpOnceTyped
    <3> QED
      BY <2>1, <2>3, <3>3, <3>4
  <2> QED
    BY <2>2, <2>3
<1> HIDE DEF Fine, b
<1>6. f[0] \in W /\ \A k \in 1 .. Len(b) : f[k - 1] \in W => f[k] \in W
  <2>1. 0 \in 0 .. Len(b) /\ \A k \in 1 .. Len(b) : k \in 0 .. Len(b) /\ k - 1 \in 0 .. Len(b)
    BY <1>1
  <2> QED
    BY <1>4, <1>5, <2>1
<1>7. Fine(Len(b))
  <2>1. \A k \in 0 .. Len(b) : f[k] \in W
    <3> HIDE DEF f, W
    <3> QED
      BY <1>1, <1>6, LoopKeeps
  <2>2. Len(b) \in 0 .. Len(b)
    BY <1>1
  <2> QED
    BY <2>1, <2>2
<1>8. h[Len(b)] = end
  <2>1. CASE Len(b) <= m
    <3>1. Len(b) = m
      BY <1>1, <2>1
    <3> QED
      BY <1>2, <1>7, <2>1, <3>1 DEF Fine
  <2>2. CASE ~(Len(b) <= m)
    BY <1>7, <2>2 DEF Fine
  <2> QED
    BY <2>1, <2>2
<1> QED
  BY <1>3, <1>8 DEF b

(* The texts of links, and the targets they can have.                      *)
LEMMA TargetsTyped ==
  /\ \A p \in Path : \A text \in Text :
       Raw(p, text) \in Seq(Names) /\ Clean(Raw(p, text)) \in Targets
  /\ Targets \subseteq Seq(Segment) /\ IsFiniteSet(Targets)
<1>1. ASSUME NEW p \in Path, NEW text \in Text PROVE Raw(p, text) \in Seq(Names)
  <2>1. text.parts \in Seq(Names)
    BY LocalAssumption DEF Names
  <2>2. Front(p) \in Seq(Names)
    <3>1. p \in Seq(Segment) /\ p # <<>>
      BY LocalAssumption
    <3> QED
      BY <3>1, FrontAbove, DownTyped
  <2>3. Front(p) \o text.parts \in Seq(Names)
    BY <2>1, <2>2, ConcatProperties
  <2> QED
    BY <2>1, <2>3 DEF Raw
<1>2. Targets \subseteq Seq(Segment)
  BY <1>1, CleanTyped DEF Targets
<1>3. IsFiniteSet(Targets)
  <2> DEFINE links == Path \X Text
             f == [l \in links |-> Clean(Raw(l[1], l[2]))]
  <2>1. IsFiniteSet(links)
    BY LocalAssumption, FS_Product
  <2>2. f \in Surjection(links, Targets)
    <3>1. \A l \in links : f[l] \in Targets
      BY DEF Targets
    <3>2. \A t \in Targets : \E l \in links : f[l] = t
      <4> SUFFICES ASSUME NEW p \in Path, NEW text \in Text
                   PROVE  \E l \in links : f[l] = Clean(Raw(p, text))
        BY DEF Targets
      <4>1. <<p, text>> \in links /\ f[<<p, text>>] = Clean(Raw(p, text))
        OBVIOUS
      <4> HIDE DEF f, links
      <4> QED
        BY <4>1
    <3>3. f \in [links -> Targets]
      BY <3>1
    <3> QED
      BY <3>2, <3>3 DEF Surjection
  <2> HIDE DEF f, links
  <2> QED
    BY <2>1, <2>2, FS_Surjection
<1> QED
  BY <1>1, <1>2, <1>3 DEF Targets

LEMMA LinkTarget ==
  ASSUME NEW p, IsLink(p)
  PROVE  /\ p \in Path /\ node[p] \in Text /\ Raw(p, node[p]) \in Seq(Names)
         /\ Target(p) \in Targets /\ Target(p) \in Seq(Segment)
<1>1. p \in Path /\ node[p] \in Text
  BY PathsTyped DEF IsLink, NodeAt
<1> QED
  BY <1>1, TargetsTyped DEF Target

-----------------------------------------------------------------------------
(* local.Medium: where a path leads                                        *)
-----------------------------------------------------------------------------

(* A path that leads to itself, and what resolving a path may answer.      *)
Real == {p \in Seq(Segment) : Links(p) = {} /\ ~ThroughFile(p)}
Answers == Real \cup {Failed}

(* The paths on the way of a path.                                         *)
LEMMA OnTheWay ==
  ASSUME NEW p \in Seq(Segment)
  PROVE  p \in Real <=> \A n \in 1 .. Len(p) :
           ~IsLink(SubSeq(p, 1, n)) /\ (n < Len(p) => NodeAt(SubSeq(p, 1, n)) # RegularFile)
<1>1. Len(p) \in Nat
  BY LenProperties
<1>2. Links(p) = {} <=> \A n \in 1 .. Len(p) : ~IsLink(SubSeq(p, 1, n))
  BY DEF Links
<1>3. ThroughFile(p) <=> \E n \in 1 .. Len(p) - 1 : NodeAt(SubSeq(p, 1, n)) = RegularFile
  BY DEF ThroughFile, Ancestors
<1>4. \A n : n \in 1 .. Len(p) - 1 <=> n \in 1 .. Len(p) /\ n < Len(p)
  BY <1>1
<1> HIDE DEF Links, ThroughFile, IsLink, NodeAt
<1> QED
  BY <1>2, <1>3, <1>4 DEF Real

(* The beginnings of a path with one more name.                            *)
LEMMA BeginningsOfAppend ==
  ASSUME NEW p \in Seq(Segment), NEW s \in Segment
  PROVE  /\ Append(p, s) \in Seq(Segment) /\ Len(Append(p, s)) = Len(p) + 1
         /\ \A n \in 1 .. Len(p) : SubSeq(Append(p, s), 1, n) = SubSeq(p, 1, n)
         /\ SubSeq(Append(p, s), 1, Len(p) + 1) = Append(p, s)
         /\ SubSeq(p, 1, Len(p)) = p
<1> DEFINE q == Append(p, s)
<1>1. /\ Len(p) \in Nat /\ q \in Seq(Segment) /\ Len(q) = Len(p) + 1
      /\ \A i \in 1 .. Len(p) : q[i] = p[i]
  BY LenProperties
<1> HIDE DEF q
<1>2. ASSUME NEW n \in 1 .. Len(p) PROVE SubSeq(q, 1, n) = SubSeq(p, 1, n)
  <2>1. n \in 0 .. Len(p) /\ n \in 0 .. Len(q)
    BY <1>1
  <2>2. /\ SubSeq(p, 1, n) \in Seq(Segment) /\ Len(SubSeq(p, 1, n)) = n
        /\ \A i \in 1 .. n : SubSeq(p, 1, n)[i] = p[i]
    BY <2>1, Beginning
  <2>3. /\ SubSeq(q, 1, n) \in Seq(Segment) /\ Len(SubSeq(q, 1, n)) = n
        /\ \A i \in 1 .. n : SubSeq(q, 1, n)[i] = q[i]
    BY <1>1, <2>1, Beginning
  <2>4. \A i \in 1 .. n : SubSeq(q, 1, n)[i] = SubSeq(p, 1, n)[i]
    BY <1>1, <2>2, <2>3
  <2> QED
    BY <2>2, <2>3, <2>4, SeqEqual
<1> QED
  BY <1>1, <1>2, SubSeqFull DEF q

LEMMA RealRoot == <<>> \in Real
<1>1. ASSUME NEW p \in Seq(Segment), Len(p) = 0 PROVE p \in Real
  <2>1. 1 .. Len(p) = {}
    BY <1>1
  <2> QED
    BY <2>1, OnTheWay
<1>2. <<>> \in Seq(Segment) /\ Len(<<>>) = 0
  BY PathsTyped
<1> QED
  BY <1>1, <1>2

(* A name in a path that leads to itself, unless it is a link or there is  *)
(* a file.                                                                 *)
LEMMA RealAppend ==
  ASSUME NEW p \in Real, NEW s \in Segment, NodeAt(p) # RegularFile, ~IsLink(Append(p, s))
  PROVE  Append(p, s) \in Real
<1>1. p \in Seq(Segment) /\ Len(p) \in Nat
  BY LenProperties DEF Real
<1> DEFINE q == Append(p, s)
<1>2. /\ q \in Seq(Segment) /\ Len(q) = Len(p) + 1
      /\ \A n \in 1 .. Len(p) : SubSeq(q, 1, n) = SubSeq(p, 1, n)
      /\ SubSeq(q, 1, Len(p) + 1) = q /\ SubSeq(p, 1, Len(p)) = p
  BY <1>1, BeginningsOfAppend
<1>3. \A n \in 1 .. Len(p) :
        ~IsLink(SubSeq(p, 1, n)) /\ (n < Len(p) => NodeAt(SubSeq(p, 1, n)) # RegularFile)
  BY <1>1, OnTheWay
<1>4. ~IsLink(q)
  OBVIOUS
<1> HIDE DEF q
<1>5. Len(q) = Len(p) + 1
  BY <1>2
<1>6. ASSUME NEW n \in 1 .. Len(q)
      PROVE  ~IsLink(SubSeq(q, 1, n)) /\ (n < Len(q) => NodeAt(SubSeq(q, 1, n)) # RegularFile)
  <2>1. CASE n = Len(p) + 1
    <3>1. SubSeq(q, 1, n) = q /\ ~(n < Len(q))
      BY <1>1, <1>2, <2>1
    <3> QED
      BY <1>4, <3>1
  <2>2. CASE n # Len(p) + 1
    <3>1. n \in 1 .. Len(p) /\ (n < Len(p) \/ n = Len(p))
      BY <1>1, <1>5, <2>2
    <3> QED
      BY <1>2, <1>3, <3>1
  <2> QED
    BY <2>1, <2>2
<1> QED
  BY <1>2, <1>6, OnTheWay DEF q

(* What a path that leads to itself is below does so too.                  *)
LEMMA RealAbove ==
  ASSUME NEW p \in Real, NEW d \in Seq(Segment), IsPrefix(d, p)
  PROVE  d \in Real
<1>1. /\ p \in Seq(Segment) /\ Len(p) \in Nat /\ Len(d) \in Nat /\ Len(d) <= Len(p)
      /\ \A i \in 1 .. Len(d) : d[i] = p[i]
  BY LenProperties, PrefixElements DEF Real
<1>2. ASSUME NEW n \in 1 .. Len(d)
      PROVE  n \in 1 .. Len(p) /\ SubSeq(d, 1, n) = SubSeq(p, 1, n)
  <2>1. n \in 0 .. Len(p) /\ n \in 0 .. Len(d) /\ n \in 1 .. Len(p)
    BY <1>1
  <2>2. /\ SubSeq(p, 1, n) \in Seq(Segment) /\ Len(SubSeq(p, 1, n)) = n
        /\ \A i \in 1 .. n : SubSeq(p, 1, n)[i] = p[i]
    BY <1>1, <2>1, Beginning
  <2>3. /\ SubSeq(d, 1, n) \in Seq(Segment) /\ Len(SubSeq(d, 1, n)) = n
        /\ \A i \in 1 .. n : SubSeq(d, 1, n)[i] = d[i]
    BY <2>1, Beginning
  <2>4. \A i \in 1 .. n : SubSeq(d, 1, n)[i] = SubSeq(p, 1, n)[i]
    BY <1>1, <2>2, <2>3
  <2> QED
    BY <2>1, <2>2, <2>3, <2>4, SeqEqual
<1>3. \A n \in 1 .. Len(p) :
        ~IsLink(SubSeq(p, 1, n)) /\ (n < Len(p) => NodeAt(SubSeq(p, 1, n)) # RegularFile)
  BY <1>1, OnTheWay
<1>4. \A n \in 1 .. Len(d) : n < Len(d) => n < Len(p)
  BY <1>1
<1> QED
  BY <1>2, <1>3, <1>4, OnTheWay

(* The operating system finds nothing to follow there.                     *)
LEMMA RealOsPath ==
  ASSUME NEW p \in Real
  PROVE  OsPath(p) = p
<1> DEFINE D == 0 .. MaxLinks
           followed[n \in D] == IF n = 0 THEN p ELSE FollowOnce(followed[n - 1])
           goes(h) == [n \in D |-> IF n = 0 THEN p ELSE FollowOnce(h[n - 1])]
           stays == [n \in D |-> p]
           W == {p}
<1>1. OsPath(p) = IF \/ Links(followed[MaxLinks]) # {} \/ Up \in ToSet(followed[MaxLinks])
                     \/ ThroughFile(followed[MaxLinks])
                  THEN Failed ELSE followed[MaxLinks]
  BY DEF OsPath
<1>2. Links(p) = {} /\ ~ThroughFile(p) /\ FollowOnce(p) = p /\ Up \notin ToSet(p)
  BY WithoutUp DEF Real, FollowOnce
<1>3. MaxLinks \in Nat
  BY LocalAssumption
<1>4. followed = CHOOSE h : h = goes(h)
  OBVIOUS
<1>5. \A n \in D : n # 0 => n - 1 \in D
  BY <1>3
<1>6. stays = goes(stays)
  BY <1>2, <1>5
<1> HIDE DEF followed, goes
<1>7. followed = goes(followed)
  BY <1>4, <1>6
<1>8. followed[0] \in W /\ \A n \in 1 .. MaxLinks : followed[n - 1] \in W => followed[n] \in W
  <2>1. 0 \in D /\ \A n \in 1 .. MaxLinks : n \in D /\ n # 0
    BY <1>3
  <2> QED
    BY <1>2, <1>7, <2>1 DEF goes
<1> HIDE DEF W
<1>9. \A n \in 0 .. MaxLinks : followed[n] \in W
  BY <1>3, <1>8, LoopKeeps
<1>10. followed[MaxLinks] = p
  BY <1>3, <1>9 DEF W
<1> QED
  BY <1>1, <1>2, <1>10

LEMMA RealOsName ==
  ASSUME NEW p \in Real, p # <<>>
  PROVE  OsName(p) = p
<1>1. p \in Seq(Segment)
  BY DEF Real
<1>2. Front(p) \in Seq(Segment) /\ IsPrefix(Front(p), p)
  BY <1>1, FrontAbove DEF Under, IsStrictPrefix
<1>3. OsPath(Front(p)) = Front(p) /\ Front(p) # Failed
  BY <1>2, RealAbove, RealOsPath, PathsTyped
<1>4. Append(Front(p), Last(p)) = p
  <2> DEFINE f == Front(p)
  <2>1. Len(p) \in Nat /\ Len(p) - 1 \in 0 .. Len(p) /\ Len(p) \in 1 .. Len(p)
    BY <1>1, LenProperties, EmptySeq
  <2>2. f \in Seq(Segment) /\ Len(f) = Len(p) - 1 /\ \A i \in 1 .. Len(p) - 1 : f[i] = p[i]
    BY <1>1, <2>1, Beginning DEF Front
  <2>3. Last(p) = p[Len(p)] /\ p[Len(p)] \in Segment
    BY <1>1, <2>1, ElementOfSeq DEF Last
  <2> HIDE DEF f
  <2>4. /\ Append(f, p[Len(p)]) \in Seq(Segment) /\ Len(Append(f, p[Len(p)])) = Len(p)
        /\ \A i \in 1 .. Len(p) : Append(f, p[Len(p)])[i] = p[i]
    BY <2>1, <2>2, <2>3
  <2> QED
    BY <1>1, <2>3, <2>4, SeqEqual DEF f
<1> QED
  BY <1>3, <1>4 DEF OsName

-----------------------------------------------------------------------------
(* resolveSymlinksPath and validatePath                                    *)

(* What a pass of the loop makes of a path that leads to itself.           *)
LEMMA ResolvePartAnswers ==
  ASSUME LocalTypeOK, NEW resolved \in [Targets -> Answers], NEW c \in Answers, NEW s \in Segment
  PROVE  /\ ResolvePart(c, s, resolved) \in Answers
         /\ ResolvePart(c, s, resolved) # Failed =>
              /\ c \in Real
              /\ \/ IsLink(Append(c, s)) /\ Target(Append(c, s)) \in Targets
                    /\ ResolvePart(c, s, resolved) = resolved[Target(Append(c, s))]
                 \/ ResolvePart(c, s, resolved) = Append(c, s)
<1>1. CASE c = Failed \/ NodeAt(c) = RegularFile
  BY <1>1 DEF ResolvePart, Answers
<1>2. CASE ~(c = Failed \/ NodeAt(c) = RegularFile) /\ IsLink(Append(c, s))
  <2>1. Target(Append(c, s)) \in Targets /\ c \in Real
    BY <1>2, LinkTarget DEF Answers
  <2> QED
    BY <1>2, <2>1 DEF ResolvePart, resolveSymlinkTarget
<1>3. CASE ~(c = Failed \/ NodeAt(c) = RegularFile) /\ ~IsLink(Append(c, s))
  <2>1. Append(c, s) \in Real /\ c \in Real
    BY <1>3, RealAppend DEF Answers
  <2> QED
    BY <1>3, <2>1 DEF ResolvePart, Answers
<1> QED
  BY <1>1, <1>2, <1>3

(* The passes of the loop over the parts answer with paths that lead to    *)
(* themselves, if what the links lead to is so resolved.                   *)
LEMMA ResolveLoop ==
  ASSUME LocalTypeOK, NEW path \in Seq(Segment), NEW resolved \in [Targets -> Answers]
  PROVE  \E g \in [0 .. Len(path) -> Answers] :
           /\ g[0] = <<>>
           /\ \A k \in 1 .. Len(path) : g[k] = ResolvePart(g[k - 1], path[k], resolved)
           /\ g[Len(path)] = resolveSymlinksRecursive(path, resolved)
<1> DEFINE m == Len(path)
           D == 0 .. m
           V == Answers
           current[k \in D] == IF k = 0 THEN <<>> ELSE ResolvePart(current[k - 1], path[k], resolved)
           goes(h) == [k \in D |-> IF k = 0 THEN <<>> ELSE ResolvePart(h[k - 1], path[k], resolved)]
           F == [k \in 1 .. m |-> [c \in V |-> ResolvePart(c, path[k], resolved)]]
           start == <<>>
<1>1. resolveSymlinksRecursive(path, resolved) = current[m]
  BY DEF resolveSymlinksRecursive
<1>2. current = CHOOSE h : h = goes(h)
  OBVIOUS
<1>3. m \in Nat /\ \A k \in 1 .. m : path[k] \in Segment
  BY LenProperties, ElementOfSeq
<1>4. \A c \in V : \A s \in Segment : ResolvePart(c, s, resolved) \in V
  BY ResolvePartAnswers
<1>5. F \in [1 .. m -> [V -> V]] /\ start \in V
  BY <1>3, <1>4, RealRoot DEF Answers
<1> HIDE DEF V, m
<1>6. PICK g : Passes(g, m, V, start, F)
  <2> HIDE DEF F, start
  <2> QED
    BY <1>3, <1>5, LoopRuns
<1>7. g = goes(g)
  <2>1. \A k \in D : k # 0 => k \in 1 .. m /\ k - 1 \in D
    BY <1>3
  <2>2. goes(g) = [k \in D |-> g[k]]
    BY <1>6, <2>1 DEF Passes
  <2> QED
    BY <1>6, <2>2 DEF Passes
<1> HIDE DEF current, goes
<1>8. current = goes(current)
  BY <1>2, <1>7
<1>9. current[0] = start /\ \A k \in 1 .. m : current[k] = ResolvePart(current[k - 1], path[k], resolved)
  <2>1. 0 \in D /\ \A k \in 1 .. m : k \in D /\ k # 0
    BY <1>3
  <2> QED
    BY <1>8, <2>1 DEF goes
<1>10. current[0] \in V /\ \A k \in 1 .. m : current[k - 1] \in V => current[k] \in V
  BY <1>3, <1>4, <1>5, <1>9
<1>11. \A k \in 0 .. m : current[k] \in V
  BY <1>3, <1>10, LoopKeeps
<1>12. current \in [0 .. m -> V]
  <2>1. current = [k \in D |-> current[k]]
    BY <1>8 DEF goes
  <2> QED
    BY <1>11, <2>1
<1> QED
  BY <1>1, <1>9, <1>12 DEF V, m

LEMMA ResolveAnswers ==
  ASSUME LocalTypeOK, NEW path \in Seq(Segment), NEW resolved \in [Targets -> Answers]
  PROVE  resolveSymlinksRecursive(path, resolved) \in Answers
<1>1. PICK g \in [0 .. Len(path) -> Answers] : g[Len(path)] = resolveSymlinksRecursive(path, resolved)
  BY ResolveLoop
<1>2. Len(path) \in 0 .. Len(path)
  BY LenProperties
<1> QED
  BY <1>1, <1>2

(* What Resolved is where a target more is being resolved.                 *)
Goes(f, seen) ==
  [target \in Targets |->
     IF target \in seen THEN Failed
     ELSE resolveSymlinksRecursive(target, f[seen \cup {target}])]

(* At most so many targets are left.                                       *)
Left(seen) == Cardinality(Targets \ seen)
Near(c) == {seen \in SUBSET Targets : Left(seen) <= c}

LEMMA LeftCounts ==
  /\ \A seen \in SUBSET Targets : Left(seen) \in Nat
  /\ \A seen \in SUBSET Targets : \A target \in Targets \ seen :
       seen \cup {target} \in SUBSET Targets /\ Left(seen \cup {target}) = Left(seen) - 1
<1>1. IsFiniteSet(Targets)
  BY TargetsTyped
<1>2. ASSUME NEW seen \in SUBSET Targets PROVE IsFiniteSet(Targets \ seen) /\ Left(seen) \in Nat
  <2>1. IsFiniteSet(Targets \ seen)
    BY <1>1, FS_Subset
  <2> QED
    BY <2>1, FS_CardinalityType DEF Left
<1>3. ASSUME NEW seen \in SUBSET Targets, NEW target \in Targets \ seen
      PROVE  Left(seen \cup {target}) = Left(seen) - 1
  <2>1. Targets \ (seen \cup {target}) = (Targets \ seen) \ {target}
    OBVIOUS
  <2> QED
    BY <1>2, <2>1, FS_RemoveElement DEF Left
<1> QED
  BY <1>2, <1>3

(* Cycles are found, so Resolved is defined.                               *)
LEMMA ResolvedGoes == Resolved = [seen \in SUBSET Targets |-> Goes(Resolved, seen)]
<1> DEFINE Found(c, f) == f = [seen \in Near(c) |-> Goes(f, seen)]
<1>1. ASSUME NEW c \in Nat, NEW f, c # 0 => Found(c - 1, f)
      PROVE  \E h : Found(c, h)
  <2> DEFINE h == [seen \in Near(c) |-> Goes(f, seen)]
  <2>1. ASSUME NEW seen \in Near(c), NEW target \in Targets \ seen
        PROVE  h[seen \cup {target}] = f[seen \cup {target}]
    <3> DEFINE more == seen \cup {target}
    <3>1. more \in SUBSET Targets /\ Left(more) \in Nat /\ Left(more) <= c - 1 /\ Left(more) <= c /\ c # 0
      BY LeftCounts DEF Near
    <3> HIDE DEF more
    <3>2. more \in Near(c) /\ more \in Near(c - 1)
      BY <3>1 DEF Near
    <3>3. h[more] = Goes(f, more)
      BY <3>2
    <3>4. f[more] = Goes(f, more)
      BY <1>1, <3>1, <3>2
    <3> QED
      BY <3>3, <3>4 DEF more
  <2> HIDE DEF h
  <2>2. ASSUME NEW seen \in Near(c) PROVE Goes(h, seen) = Goes(f, seen)
    BY <2>1 DEF Goes
  <2>3. h = [seen \in Near(c) |-> Goes(h, seen)]
    BY <2>2 DEF h
  <2> QED
    BY <2>3
<1> DEFINE without == {c \in Nat : \A f : ~Found(c, f)}
<1>2. without \in SUBSET Nat /\ \A c \in Nat : c \in without <=> \A f : ~Found(c, f)
  <2> HIDE DEF Found
  <2> QED
    OBVIOUS
<1> HIDE DEF without, Found
<1>3. without = {}
  <2> SUFFICES ASSUME without # {}
               PROVE  FALSE
    OBVIOUS
  <2>1. PICK c \in without : \A k \in without : c <= k
    BY <1>2, LeastOf
  <2>2. c \in Nat /\ \A f : ~Found(c, f)
    BY <1>2, <2>1
  <2>3. CASE c = 0
    BY <1>1, <2>2, <2>3
  <2>4. CASE c # 0
    <3>1. c - 1 \in Nat /\ ~(c <= c - 1)
      BY <2>2, <2>4
    <3>2. PICK f : Found(c - 1, f)
      BY <1>2, <2>1, <3>1
    <3> QED
      BY <1>1, <2>2, <3>2
  <2> QED
    BY <2>3, <2>4
<1>4. Near(Left({})) = SUBSET Targets /\ Left({}) \in Nat
  <2>1. IsFiniteSet(Targets)
    BY TargetsTyped
  <2>2. ASSUME NEW seen \in SUBSET Targets PROVE Left(seen) <= Left({})
    <3>1. Targets \ {} = Targets /\ Targets \ seen \subseteq Targets
      OBVIOUS
    <3> QED
      BY <2>1, <3>1, FS_Subset DEF Left
  <2> QED
    BY <2>2, LeftCounts DEF Near
<1>5. \E f : f = [seen \in SUBSET Targets |-> Goes(f, seen)]
  <2>1. \E f : Found(Left({}), f)
    BY <1>2, <1>3, <1>4
  <2> QED
    BY <1>4, <2>1 DEF Found
<1>6. Resolved = CHOOSE f : f = [seen \in SUBSET Targets |-> Goes(f, seen)]
  BY DEF Resolved, Goes
<1> QED
  BY <1>5, <1>6

LEMMA ResolvedAnswers ==
  ASSUME LocalTypeOK
  PROVE  \A seen \in SUBSET Targets : Resolved[seen] \in [Targets -> Answers]
<1> DEFINE wrong == {c \in Nat : \E seen \in SUBSET Targets : Left(seen) = c /\ Resolved[seen] \notin [Targets -> Answers]}
<1>1. wrong \in SUBSET Nat
      /\ \A c \in Nat : c \in wrong <=> \E seen \in SUBSET Targets : Left(seen) = c /\ Resolved[seen] \notin [Targets -> Answers]
  OBVIOUS
<1> HIDE DEF wrong
<1>2. wrong = {}
  <2> SUFFICES ASSUME wrong # {}
               PROVE  FALSE
    OBVIOUS
  <2>1. PICK c \in wrong : \A k \in wrong : c <= k
    BY <1>1, LeastOf
  <2>2. PICK seen \in SUBSET Targets : Left(seen) = c /\ Resolved[seen] \notin [Targets -> Answers]
    BY <1>1, <2>1
  <2>3. ASSUME NEW target \in Targets \ seen
        PROVE  resolveSymlinksRecursive(target, Resolved[seen \cup {target}]) \in Answers
    <3> DEFINE more == seen \cup {target}
    <3>1. more \in SUBSET Targets /\ Left(more) \in Nat /\ Left(more) = c - 1 /\ c \in Nat /\ ~(c <= Left(more))
      BY <2>2, LeftCounts
    <3> HIDE DEF more
    <3>2. Resolved[more] \in [Targets -> Answers]
      BY <1>1, <2>1, <3>1
    <3>3. target \in Seq(Segment)
      BY TargetsTyped
    <3> QED
      BY <3>2, <3>3, ResolveAnswers DEF more
  <2>4. Goes(Resolved, seen) \in [Targets -> Answers]
    BY <2>3 DEF Goes, Answers
  <2>5. Resolved[seen] = Goes(Resolved, seen)
    BY ResolvedGoes
  <2> QED
    BY <2>2, <2>4, <2>5
<1> QED
  BY <1>1, <1>2, LeftCounts

(* resolveSymlinksPath answers with a path that leads to itself.           *)
LEMMA ResolvesToReal ==
  ASSUME LocalTypeOK, NEW path \in Seq(Segment)
  PROVE  resolveSymlinksPath(path) \in Answers
<1>1. Resolved[{}] \in [Targets -> Answers]
  BY ResolvedAnswers
<1> QED
  BY <1>1, ResolveAnswers DEF resolveSymlinksPath

(* The root and the directories above it are directories.                  *)
RootKept == \A p \in {Root} \cup Ancestors(Root) : node[p] = Dir

(* Above what there is are directories.                                    *)
TreeKept == \A p \in Path : node[p] # Missing => \A d \in Ancestors(p) : node[d] = Dir

(* The inductive invariant of the file system.                             *)
LocalInv == LocalTypeOK /\ RootKept /\ TreeKept

LEMMA RootAndAbove ==
  /\ Root \in Seq(Segment) /\ Root # <<>> /\ Root \in Path
  /\ \A p \in {Root} \cup Ancestors(Root) : p \in Path /\ IsPrefix(p, Root) /\ ~Under(p, Root)
<1>1. Root \in Seq(Segment) /\ Root # <<>> /\ Root \in Path /\ Ancestors(Root) \subseteq Path
  BY LocalAssumption
<1>2. ASSUME NEW p \in Ancestors(Root) PROVE p \in Path /\ IsPrefix(p, Root) /\ ~Under(p, Root)
  <2>1. p \in Path /\ p \in Seq(Segment)
    BY <1>1, PathsTyped
  <2>2. Under(Root, p)
    BY <1>1, <2>1, AncestorsAreAbove
  <2> QED
    BY <1>1, <2>1, <2>2, PrefixTransitive DEF Under, IsStrictPrefix
<1>3. IsPrefix(Root, Root) /\ ~Under(Root, Root)
  BY <1>1, PrefixOfSelf DEF Under, IsStrictPrefix
<1> QED
  BY <1>1, <1>2, <1>3

LEMMA RootIsReal ==
  ASSUME LocalInv
  PROVE  Root \in Real
<1>1. Root \in Seq(Segment) /\ Len(Root) \in Nat
  BY RootAndAbove, LenProperties
<1>2. ASSUME NEW n \in 1 .. Len(Root) PROVE node[SubSeq(Root, 1, n)] = Dir /\ SubSeq(Root, 1, n) \in Path
  <2>1. CASE n = Len(Root)
    <3>1. SubSeq(Root, 1, n) = Root
      BY <1>1, <2>1, SubSeqFull
    <3> QED
      BY <3>1, RootAndAbove DEF LocalInv, RootKept
  <2>2. CASE n # Len(Root)
    <3>1. n \in 1 .. Len(Root) - 1
      BY <1>1, <2>2
    <3>2. SubSeq(Root, 1, n) \in Ancestors(Root)
      BY <3>1 DEF Ancestors
    <3> QED
      BY <3>2, RootAndAbove DEF LocalInv, RootKept
  <2> QED
    BY <2>1, <2>2
<1>3. Dir \notin Text /\ Dir # RegularFile
  BY LocalAssumption
<1>4. \A n \in 1 .. Len(Root) : ~IsLink(SubSeq(Root, 1, n)) /\ NodeAt(SubSeq(Root, 1, n)) # RegularFile
  BY <1>2, <1>3 DEF IsLink, NodeAt
<1> QED
  BY <1>1, <1>4, OnTheWay

(* What validatePath answers, if anything, is in the root and leads to     *)
(* itself.                                                                 *)
Valids == {p \in Real : IsPrefix(Root, p)} \cup {Failed}

LEMMA ValidatesToReal ==
  ASSUME LocalInv, NEW path \in Seq(Segment)
  PROVE  validatePath(path) \in Valids
<1> DEFINE m == Len(path)
           D == 0 .. m
           V == Valids
           current[k \in D] == IF k = 0 THEN Root ELSE ValidatePart(current[k - 1], path[k])
           goes(h) == [k \in D |-> IF k = 0 THEN Root ELSE ValidatePart(h[k - 1], path[k])]
           F == [k \in 1 .. m |-> [c \in V |-> ValidatePart(c, path[k])]]
<1>1. validatePath(path) = current[m]
  BY DEF validatePath
<1>2. current = CHOOSE h : h = goes(h)
  OBVIOUS
<1>3. m \in Nat /\ \A k \in 1 .. m : path[k] \in Segment
  BY LenProperties, ElementOfSeq
<1>4. ASSUME NEW c \in V, NEW s \in Segment
      PROVE  ValidatePart(c, s) \in V
  <2>1. CASE c = Failed
    BY <2>1 DEF ValidatePart, Valids
  <2>2. CASE c # Failed
    <3>1. c \in Seq(Segment)
      BY <2>2 DEF Valids, Real
    <3>2. Append(c, s) \in Seq(Segment)
      BY <3>1
    <3>3. resolveSymlinksPath(Append(c, s)) \in Answers
      BY <3>2, ResolvesToReal DEF LocalInv
    <3> QED
      BY <3>3 DEF ValidatePart, Valids, Answers, isWithinRoot
  <2> QED
    BY <2>1, <2>2
<1>5. F \in [1 .. m -> [V -> V]] /\ Root \in V
  BY <1>3, <1>4, RootIsReal, RootAndAbove DEF Valids
<1> HIDE DEF V, m
<1>6. PICK g : Passes(g, m, V, Root, F)
  <2> HIDE DEF F
  <2> QED
    BY <1>3, <1>5, LoopRuns
<1>7. g = goes(g)
  <2>1. \A k \in D : k # 0 => k \in 1 .. m /\ k - 1 \in D
    BY <1>3
  <2>2. goes(g) = [k \in D |-> g[k]]
    BY <1>6, <2>1 DEF Passes
  <2> QED
    BY <1>6, <2>2 DEF Passes
<1> HIDE DEF current, goes
<1>8. current = goes(current)
  BY <1>2, <1>7
<1>9. /\ current[0] \in V
      /\ \A k \in 1 .. m : current[k - 1] \in V => current[k] \in V
  <2>1. 0 \in D /\ \A k \in 1 .. m : k \in D /\ k # 0
    BY <1>3
  <2>2. current[0] = Root /\ \A k \in 1 .. m : current[k] = ValidatePart(current[k - 1], path[k])
    BY <1>8, <2>1 DEF goes
  <2> QED
    BY <1>3, <1>4, <1>5, <2>2
<1>10. \A k \in 0 .. m : current[k] \in V
  BY <1>3, <1>9, LoopKeeps
<1> QED
  BY <1>1, <1>3, <1>10 DEF V

(* So the operating system takes it for what it is.                        *)
LEMMA ValidPath ==
  ASSUME LocalInv, NEW path \in Seq(Segment), Valid(path)
  PROVE  /\ validatePath(path) \in Seq(Segment) /\ IsPrefix(Root, validatePath(path))
         /\ OsPath(validatePath(path)) = validatePath(path)
         /\ OsName(validatePath(path)) = validatePath(path)
<1> DEFINE p == validatePath(path)
<1>1. p \in Real /\ IsPrefix(Root, p)
  BY ValidatesToReal DEF Valid, Valids
<1> HIDE DEF p
<1>2. p \in Seq(Segment)
  BY <1>1 DEF Real
<1>3. p # <<>>
  <2>1. Len(Root) \in Nat /\ Len(Root) # 0 /\ Len(Root) <= Len(p)
    BY <1>1, <1>2, RootAndAbove, PrefixElements, LenProperties, EmptySeq
  <2>2. Len(p) # 0
    BY <1>2, <2>1, LenProperties
  <2> QED
    BY <2>2
<1> QED
  BY <1>1, <1>2, <1>3, RealOsPath, RealOsName DEF p

-----------------------------------------------------------------------------
(* The calls                                                               *)

(* Nothing changes but below the root.                                     *)
RestUnchanged == \A p \in Path : ~Under(p, Root) => node'[p] = node[p]

(* A path in the root that is not below it is the root, and what is above  *)
(* one in the root is in it or above it.                                   *)
LEMMA InRoot ==
  ASSUME NEW q \in Seq(Segment), IsPrefix(Root, q)
  PROVE  /\ q = Root \/ Under(q, Root)
         /\ \A p \in Path : p \in Ancestors(q) => Under(p, Root) \/ p \in {Root} \cup Ancestors(Root)
         /\ q # Root => \A p \in Path : IsPrefix(q, p) => Under(p, Root)
<1>1. Root \in Seq(Segment) /\ Path \subseteq Seq(Segment)
  BY RootAndAbove, PathsTyped
<1>2. q = Root \/ Under(q, Root)
  BY DEF Under, IsStrictPrefix
<1>3. ASSUME NEW p \in Path, p \in Ancestors(q)
      PROVE  Under(p, Root) \/ p \in {Root} \cup Ancestors(Root)
  <2>1. p \in Seq(Segment) /\ p # <<>> /\ IsPrefix(p, q)
    BY <1>1, <1>3, AncestorsAreAbove DEF Under, IsStrictPrefix
  <2>2. IsPrefix(p, Root) \/ IsPrefix(Root, p)
    BY <1>1, <2>1, PrefixesCompare
  <2> QED
    BY <1>1, <2>1, <2>2, AncestorsAreAbove DEF Under, IsStrictPrefix
<1>4. ASSUME q # Root, NEW p \in Path, IsPrefix(q, p) PROVE Under(p, Root)
  <2>1. p \in Seq(Segment) /\ Under(q, Root)
    BY <1>1, <1>2, <1>4
  <2> QED
    BY <1>1, <1>4, <2>1, PrefixTransitive
<1> QED
  BY <1>2, <1>3, <1>4

LEMMA CallUnchanged ==
  ASSUME LocalInv, MediumCall
  PROVE  RestUnchanged
<1>0. DOMAIN node = Path /\ Dir \notin {RegularFile, Missing}
  BY LocalAssumption DEF LocalInv, LocalTypeOK
<1>1. ASSUME NEW q \in Seq(Segment), IsPrefix(Root, q), q \in Path, NEW x,
             x # Dir => node[q] \in {RegularFile, Missing},
             node' = [WithDirs(q) EXCEPT ![q] = x]
      PROVE  RestUnchanged
  <2> SUFFICES ASSUME NEW p \in Path, ~Under(p, Root)
               PROVE  node'[p] = node[p]
    BY DEF RestUnchanged
  <2>1. node'[p] = IF p = q THEN x ELSE IF p \in Ancestors(q) THEN Dir ELSE node[p]
    BY <1>1 DEF WithDirs
  <2>2. p \in {Root} \cup Ancestors(Root) => node[p] = Dir
    BY DEF LocalInv, RootKept
  <2>3. CASE p = q
    <3>1. p = Root
      BY <1>1, <2>3, InRoot
    <3> QED
      BY <1>0, <1>1, <2>1, <2>2, <2>3, <3>1
  <2>4. CASE p # q
    BY <1>1, <2>1, <2>2, <2>4, InRoot
  <2> QED
    BY <2>3, <2>4
<1>2. \A p \in CallPath : p \in Seq(Segment)
  BY LocalAssumption
<1>3. ASSUME NEW p \in CallPath, WriteMode(p) \/ EnsureDir(p) PROVE RestUnchanged
  <2> DEFINE q == validatePath(p)
  <2>1. Valid(p) /\ (OsWrite(q) \/ OsMkdirAll(q))
    BY <1>3 DEF WriteMode, EnsureDir
  <2>2. q \in Seq(Segment) /\ IsPrefix(Root, q) /\ OsPath(q) = q
    BY <1>2, <2>1, ValidPath
  <2> HIDE DEF q
  <2> QED
    BY <1>1, <2>1, <2>2 DEF OsWrite, OsMkdirAll
<1>4. ASSUME NEW p \in CallPath, Delete(p) \/ DeleteAll(p) PROVE RestUnchanged
  <2> DEFINE q == validatePath(p)
  <2>1. Valid(p) /\ q # Root /\ (OsRemove(q) \/ OsRemoveAll(q))
    BY <1>4 DEF Delete, DeleteAll, MayDelete
  <2>2. q \in Seq(Segment) /\ IsPrefix(Root, q) /\ OsName(q) = q
    BY <1>2, <2>1, ValidPath
  <2> HIDE DEF q
  <2>3. Under(q, Root) /\ \A n \in Path : IsPrefix(q, n) => Under(n, Root)
    BY <2>1, <2>2, InRoot
  <2>4. CASE OsRemove(q)
    BY <1>0, <2>2, <2>3, <2>4 DEF OsRemove, RestUnchanged
  <2>5. CASE OsRemoveAll(q)
    BY <2>2, <2>3, <2>5 DEF OsRemoveAll, RestUnchanged
  <2> QED
    BY <2>1, <2>4, <2>5
<1>5. ASSUME NEW pair \in CanRename, Rename(pair[1], pair[2]) PROVE RestUnchanged
  <2> DEFINE from == validatePath(pair[1])
             to == validatePath(pair[2])
  <2>1. pair[1] \in Seq(Segment) /\ pair[2] \in Seq(Segment)
    BY <1>2, LocalAssumption
  <2>2. Valid(pair[1]) /\ Valid(pair[2]) /\ OsRename(from, to)
    BY <1>5 DEF Rename
  <2>3. /\ from \in Seq(Segment) /\ IsPrefix(Root, from) /\ OsName(from) = from
        /\ to \in Seq(Segment) /\ IsPrefix(Root, to) /\ OsName(to) = to
    BY <2>1, <2>2, ValidPath
  <2> HIDE DEF from, to
  <2>4. Apart(from, to)
    BY <2>2, <2>3 DEF OsRename
  <2>5. from # Root /\ to # Root
    BY <2>3, <2>4 DEF Apart
  <2>6. \A n \in Path : IsPrefix(from, n) \/ IsPrefix(to, n) => Under(n, Root)
    BY <2>3, <2>5, InRoot
  <2>7. \A n \in Path : ~IsPrefix(from, n) /\ ~IsPrefix(to, n) => node'[n] = node[n]
    BY <2>2, <2>3 DEF OsRename
  <2> QED
    BY <2>6, <2>7 DEF RestUnchanged
<1> QED
  BY <1>3, <1>4, <1>5 DEF MediumCall

LEMMA LocalTypeStep == LocalInv /\ [LocalNext]_node => LocalTypeOK'
<1> SUFFICES ASSUME LocalInv, [LocalNext]_node
             PROVE  LocalTypeOK'
  OBVIOUS
<1> DEFINE N == {Dir, RegularFile, Missing} \cup Text
<1>0. node \in [Path -> N]
  BY DEF LocalInv, LocalTypeOK
<1> SUFFICES node' \in [Path -> N]
  BY DEF LocalTypeOK
<1>1. CASE UNCHANGED node
  BY <1>0, <1>1
<1>2. ASSUME NEW p, OsWrite(p) \/ OsMkdirAll(p) \/ OsRemove(p) \/ OsRemoveAll(p)
      PROVE  node' \in [Path -> N]
  <2>1. \A q : WithDirs(q) \in [Path -> N]
    BY <1>0 DEF WithDirs
  <2>2. CASE OsWrite(p)
    BY <2>1, <2>2 DEF OsWrite
  <2>3. CASE OsMkdirAll(p)
    BY <2>1, <2>3 DEF OsMkdirAll
  <2>4. CASE OsRemove(p) \/ OsRemoveAll(p)
    BY <1>0, <2>4 DEF OsRemove, OsRemoveAll
  <2> QED
    BY <1>2, <2>2, <2>3, <2>4
<1>3. ASSUME NEW old, NEW new, OsRename(old, new) PROVE node' \in [Path -> N]
  BY <1>0, <1>3 DEF OsRename
<1>4. CASE Elsewhere
  BY <1>0, <1>4 DEF Elsewhere
<1> QED
  BY <1>1, <1>2, <1>3, <1>4
     DEF LocalNext, MediumCall, WriteMode, EnsureDir, Delete, DeleteAll, Rename

LEMMA RootStep == LocalInv /\ [LocalNext]_node => RootKept'
<1> SUFFICES ASSUME LocalInv, [LocalNext]_node, NEW p \in {Root} \cup Ancestors(Root)
             PROVE  node'[p] = Dir
  BY DEF RootKept
<1>1. node[p] = Dir /\ p \in Path /\ ~Under(p, Root)
  BY RootAndAbove DEF LocalInv, RootKept
<1>2. CASE UNCHANGED node
  BY <1>1, <1>2
<1>3. CASE MediumCall
  BY <1>1, <1>3, CallUnchanged DEF RestUnchanged
<1>4. CASE Elsewhere
  <2>1. node \in [Path -> {Dir, RegularFile, Missing} \cup Text]
    BY DEF LocalInv, LocalTypeOK
  <2> QED
    BY <1>1, <1>4, <2>1 DEF Elsewhere
<1> QED
  BY <1>2, <1>3, <1>4 DEF LocalNext

(* What is above a path in Path is in Path.                                *)
LEMMA PathsAbove ==
  /\ \A p \in Path : Ancestors(p) \subseteq Path /\ p \in Seq(Segment)
  /\ \A p \in Path : \A d \in Path : d \in Ancestors(p) <=> Under(p, d)
<1>1. ASSUME NEW p \in Path, NEW d \in Path PROVE d \in Ancestors(p) <=> Under(p, d)
  <2>1. p \in Seq(Segment) /\ d \in Seq(Segment) /\ d # <<>>
    BY LocalAssumption
  <2> QED
    BY <2>1, AncestorsAreAbove
<1> QED
  BY <1>1, LocalAssumption

(* Above a name in a directory are directories.                            *)
LEMMA InDirectory ==
  ASSUME TreeKept, NEW p \in Path, Front(p) \in Path => node[Front(p)] = Dir
  PROVE  \A d \in Ancestors(p) : node[d] = Dir
<1> SUFFICES ASSUME NEW d \in Ancestors(p)
             PROVE  node[d] = Dir
  OBVIOUS
<1> DEFINE f == Front(p)
<1>1. p \in Seq(Segment) /\ p # <<>> /\ d \in Path /\ d \in Seq(Segment) /\ d # <<>> /\ Under(p, d)
  BY PathsAbove, LocalAssumption
<1>2. f \in Seq(Segment) /\ IsPrefix(d, f) /\ Under(p, f)
  BY <1>1, FrontAbove
<1>3. f # <<>>
  <2>1. Len(d) <= Len(f) /\ Len(d) # 0 /\ Len(d) \in Nat
    BY <1>1, <1>2, PrefixElements, LenProperties, EmptySeq
  <2> QED
    BY <2>1
<1> HIDE DEF f
<1>4. f \in Ancestors(p)
  BY <1>1, <1>2, <1>3, AncestorsAreAbove
<1>5. f \in Path /\ node[f] = Dir
  BY <1>4, PathsAbove DEF f
<1>6. d = f \/ d \in Ancestors(f)
  BY <1>1, <1>2, <1>5, PathsAbove DEF Under, IsStrictPrefix
<1>7. Dir # Missing
  BY LocalAssumption
<1> QED
  BY <1>5, <1>6, <1>7 DEF TreeKept

(* Links and files are made in directories, and a directory goes with all  *)
(* that is below it.                                                       *)
LEMMA TreeStep == LocalInv /\ [LocalNext]_node => TreeKept'
<1> SUFFICES ASSUME LocalInv, [LocalNext]_node
             PROVE  TreeKept'
  OBVIOUS
<1>1. /\ node \in [Path -> {Dir, RegularFile, Missing} \cup Text] /\ Path \subseteq Seq(Segment)
      /\ Dir \notin {RegularFile, Missing}
  BY LocalAssumption, PathsTyped DEF LocalInv, LocalTypeOK
<1>2. /\ TreeKept
      /\ \A p \in Path : node[p] # Missing => \A d \in Ancestors(p) : d \in Path /\ Under(p, d) /\ node[d] = Dir
  BY PathsAbove DEF LocalInv, TreeKept
<1>3. CASE UNCHANGED node
  BY <1>2, <1>3 DEF TreeKept
<1>4. ASSUME NEW q \in Path, NEW x, x # Dir => node[q] \in {RegularFile, Missing},
             node' = [WithDirs(q) EXCEPT ![q] = x]
      PROVE  TreeKept'
  <2> SUFFICES ASSUME NEW p \in Path, node'[p] # Missing, NEW d \in Ancestors(p)
               PROVE  node'[d] = Dir
    BY DEF TreeKept
  <2>1. \A n \in Path : node'[n] = IF n = q THEN x ELSE IF n \in Ancestors(q) THEN Dir ELSE node[n]
    BY <1>4 DEF WithDirs
  <2>2. d \in Path /\ d # p /\ Under(p, d)
    BY PathsAbove DEF Under, IsStrictPrefix
  <2>3. CASE p = q
    BY <2>1, <2>2, <2>3
  <2>4. CASE p \in Ancestors(q)
    <3>1. d \in Ancestors(q)
      BY <1>1, <2>2, <2>4, AncestorsAbove
    <3>2. d # q
      BY <3>1, <2>2, PathsAbove DEF Under, IsStrictPrefix
    <3> QED
      BY <2>1, <2>2, <3>1, <3>2
  <2>5. CASE p # q /\ p \notin Ancestors(q)
    <3>1. node[d] = Dir
      BY <1>2, <2>1, <2>5
    <3> QED
      BY <1>1, <1>4, <2>1, <2>2, <3>1
  <2> QED
    BY <2>3, <2>4, <2>5
<1>5. ASSUME NEW q \in Path, Below(q) = {}, node' = [node EXCEPT ![q] = Missing]
      PROVE  TreeKept'
  <2> SUFFICES ASSUME NEW p \in Path, node'[p] # Missing, NEW d \in Ancestors(p)
               PROVE  node'[d] = Dir
    BY DEF TreeKept
  <2>1. node[p] # Missing
    BY <1>1, <1>5
  <2>2. d \in Path /\ Under(p, d) /\ node[d] = Dir
    BY <1>2, <2>1
  <2>3. d # q
    BY <1>5, <2>1, <2>2 DEF Below
  <2> QED
    BY <1>1, <1>5, <2>2, <2>3
<1>6. ASSUME NEW q \in Path, node' = [n \in Path |-> IF IsPrefix(q, n) THEN Missing ELSE node[n]]
      PROVE  TreeKept'
  <2> SUFFICES ASSUME NEW p \in Path, node'[p] # Missing, NEW d \in Ancestors(p)
               PROVE  node'[d] = Dir
    BY DEF TreeKept
  <2>1. ~IsPrefix(q, p) /\ node[p] # Missing
    BY <1>6
  <2>2. d \in Path /\ Under(p, d) /\ node[d] = Dir
    BY <1>2, <2>1
  <2>3. ~IsPrefix(q, d)
    BY <1>1, <2>1, <2>2, PrefixTransitive DEF Under, IsStrictPrefix
  <2> QED
    BY <1>6, <2>2, <2>3
<1>7. ASSUME NEW q \in Path, NEW x, node[q] = Missing, Front(q) \in Path => node[Front(q)] = Dir,
             node' = [node EXCEPT ![q] = x]
      PROVE  TreeKept'
  <2> SUFFICES ASSUME NEW p \in Path, node'[p] # Missing, NEW d \in Ancestors(p)
               PROVE  node'[d] = Dir
    BY DEF TreeKept
  <2>1. d \in Path
    BY PathsAbove
  <2>2. node[d] = Dir
    <3>1. CASE p = q
      BY <1>2, <1>7, <3>1, InDirectory
    <3>2. CASE p # q
      BY <1>1, <1>2, <1>7, <3>2
    <3> QED
      BY <3>1, <3>2
  <2> QED
    BY <1>1, <1>7, <2>1, <2>2
<1>8. ASSUME NEW old, NEW new, OsRename(old, new) PROVE TreeKept'
  <2> DEFINE from == OsName(old)
             to == OsName(new)
  <2>1. /\ from \in Path /\ to \in Path /\ Apart(from, to)
        /\ Front(to) \in Path => node[Front(to)] = Dir
        /\ \A n \in Path : node'[n] =
             IF IsPrefix(to, n)
             THEN IF Rebase(n, to, from) \in Path THEN node[Rebase(n, to, from)] ELSE Missing
             ELSE IF IsPrefix(from, n) THEN Missing ELSE node[n]
    BY <1>8 DEF OsRename
  <2> HIDE DEF from, to
  <2> SUFFICES ASSUME NEW p \in Path, node'[p] # Missing, NEW d \in Ancestors(p)
               PROVE  node'[d] = Dir
    BY DEF TreeKept
  <2>2. /\ d \in Path /\ Under(p, d) /\ IsPrefix(d, p)
        /\ p \in Seq(Segment) /\ d \in Seq(Segment) /\ from \in Seq(Segment) /\ to \in Seq(Segment)
    BY <1>1, <2>1, PathsAbove DEF Under, IsStrictPrefix
  <2>3. CASE IsPrefix(to, p) /\ IsPrefix(to, d)
    <3> DEFINE a == Rebase(p, to, from)
               b == Rebase(d, to, from)
    <3>1. a \in Path /\ node[a] # Missing
      BY <2>1, <2>3
    <3>2. Under(a, b) /\ b \in Seq(Segment) /\ IsPrefix(from, b)
      BY <2>2, <2>3, RebaseOrder, RebaseElements
    <3> HIDE DEF a, b
    <3>3. b # <<>>
      <4>1. Len(from) <= Len(b) /\ Len(from) # 0 /\ Len(from) \in Nat
        BY <2>1, <2>2, <3>2, PrefixElements, LenProperties, EmptySeq, LocalAssumption
      <4> QED
        BY <4>1
    <3>4. b \in Ancestors(a) /\ b \in Path
      BY <1>1, <3>1, <3>2, <3>3, AncestorsAreAbove, PathsAbove
    <3>5. node[b] = Dir
      BY <1>2, <3>1, <3>4
    <3> QED
      BY <2>1, <2>2, <2>3, <3>4, <3>5 DEF b
  <2>4. CASE IsPrefix(to, p) /\ ~IsPrefix(to, d)
    <3>1. IsPrefix(d, to)
      BY <2>2, <2>4, PrefixesCompare
    <3>2. Under(to, d)
      BY <2>2, <2>4, <3>1 DEF Under, IsStrictPrefix
    <3>3. node[d] = Dir
      BY <1>2, <2>1, <2>2, <3>2, PathsAbove, InDirectory
    <3>4. ~IsPrefix(from, d)
      BY <2>1, <2>2, <3>1, PrefixTransitive DEF Apart
    <3> QED
      BY <2>1, <2>2, <2>4, <3>3, <3>4
  <2>5. CASE ~IsPrefix(to, p)
    <3>1. ~IsPrefix(from, p) /\ node[p] # Missing
      BY <2>1, <2>5
    <3>2. ~IsPrefix(from, d) /\ ~IsPrefix(to, d)
      BY <2>2, <2>5, <3>1, PrefixTransitive
    <3> QED
      BY <1>2, <2>1, <2>2, <3>1, <3>2
  <2> QED
    BY <2>3, <2>4, <2>5
<1>9. ASSUME NEW p, OsWrite(p) \/ OsMkdirAll(p) \/ OsRemove(p) \/ OsRemoveAll(p)
      PROVE  TreeKept'
  <2>1. CASE OsWrite(p)
    BY <1>4, <2>1 DEF OsWrite
  <2>2. CASE OsMkdirAll(p)
    BY <1>4, <2>2 DEF OsMkdirAll
  <2>3. CASE OsRemove(p)
    BY <1>5, <2>3 DEF OsRemove
  <2>4. CASE OsRemoveAll(p)
    BY <1>6, <2>4 DEF OsRemoveAll
  <2> QED
    BY <1>9, <2>1, <2>2, <2>3, <2>4
<1>10. CASE Elsewhere
  <2>1. PICK q \in Path \ ({Root} \cup Ancestors(Root)) :
          \/ /\ node[q] = Missing
             /\ Front(q) \in Path => node[Front(q)] = Dir
             /\ \E x \in {RegularFile, Dir} \cup {t \in Text : <<q, t>> \in CanLink} :
                  node' = [node EXCEPT ![q] = x]
          \/ /\ node[q] # Missing /\ Below(q) = {}
             /\ node' = [node EXCEPT ![q] = Missing]
    BY <1>10 DEF Elsewhere
  <2> QED
    BY <1>5, <1>7, <2>1
<1> QED
  BY <1>3, <1>8, <1>9, <1>10
     DEF LocalNext, MediumCall, WriteMode, EnsureDir, Delete, DeleteAll, Rename

LEMMA LocalAlways == LocalSpec => []LocalInv
<1>1. LocalInit => LocalInv
  <2>1. LocalInit => LocalTypeOK
    BY DEF LocalInit, LocalTypeOK
  <2>2. LocalInit => RootKept
    BY RootAndAbove DEF LocalInit, RootKept
  <2>3. LocalInit => TreeKept
    <3> SUFFICES ASSUME LocalInit, NEW p \in Path, node[p] # Missing, NEW d \in Ancestors(p)
                 PROVE  node[d] = Dir
      BY DEF TreeKept
    <3>1. p \in {Root} \cup Ancestors(Root)
      BY DEF LocalInit
    <3>2. Root \in Seq(Segment) /\ p \in Seq(Segment) /\ d \in Path /\ d \in Seq(Segment)
      BY RootAndAbove, PathsAbove
    <3>3. d \in Ancestors(Root)
      BY <3>1, <3>2, AncestorsAbove
    <3> QED
      BY <3>2, <3>3 DEF LocalInit
  <2> QED
    BY <2>1, <2>2, <2>3 DEF LocalInv
<1>2. LocalInv /\ [LocalNext]_node => LocalInv'
  BY LocalTypeStep, RootStep, TreeStep DEF LocalInv
<1> QED
  BY <1>1, <1>2, PTL DEF LocalSpec

(* Every path keeps a file, a directory, a link or nothing.                *)
THEOREM LocalTypeCorrect == LocalSpec => []LocalTypeOK
<1>1. LocalInv => LocalTypeOK
  BY DEF LocalInv
<1> QED
  BY <1>1, LocalAlways, PTL

(* Whatever links other programs make between the calls, a call of the     *)
(* medium changes nothing but below its root.                              *)
THEOREM CallsStayInRoot == LocalSpec => OutsideUnchanged
<1>1. LocalInv => (MediumCall => \A p \in Path : ~Under(p, Root) => node'[p] = node[p])
  BY CallUnchanged DEF RestUnchanged
<1> QED
  BY <1>1, LocalAlways, PTL DEF OutsideUnchanged

-----------------------------------------------------------------------------
(* Resolving a path and the operating system                               *)

(* A link on the way replaced by its cleaned target.                       *)
Follow(p) ==
  IF Links(p) = {} THEN p
  ELSE LET n == Min(Links(p)) IN Target(SubSeq(p, 1, n)) \o SubSeq(p, n + 1, Len(p))

(* Following links so leads from a to b.                                   *)
Follows(g, n) ==
  /\ g \in [0 .. n -> Seq(Segment)]
  /\ \A k \in 1 .. n : Links(g[k - 1]) # {} /\ g[k] = Follow(g[k - 1])

Reaches(a, b) == \E n \in Nat : \E g : Follows(g, n) /\ g[0] = a /\ g[n] = b

LEMMA ReachesItself == \A a \in Seq(Segment) : Reaches(a, a)
<1> SUFFICES ASSUME NEW a \in Seq(Segment)
             PROVE  Reaches(a, a)
  OBVIOUS
<1> DEFINE g == [k \in 0 .. 0 |-> a]
<1>1. Follows(g, 0) /\ g[0] = a
  BY DEF Follows
<1> HIDE DEF g
<1> QED
  BY <1>1 DEF Reaches

LEMMA ReachesNext ==
  ASSUME NEW a \in Seq(Segment), Links(a) # {}, Follow(a) \in Seq(Segment)
  PROVE  Reaches(a, Follow(a))
<1> DEFINE g == [k \in 0 .. 1 |-> IF k = 0 THEN a ELSE Follow(a)]
<1>1. g[0] = a /\ g[1] = Follow(a) /\ g \in [0 .. 1 -> Seq(Segment)]
  OBVIOUS
<1> HIDE DEF g
<1>2. \A k \in 1 .. 1 : k = 1 /\ k - 1 = 0
  OBVIOUS
<1>3. Follows(g, 1)
  BY <1>1, <1>2 DEF Follows
<1> QED
  BY <1>1, <1>3 DEF Reaches

LEMMA ReachesFurther ==
  ASSUME NEW a, NEW b, NEW c, Reaches(a, b), Reaches(b, c)
  PROVE  Reaches(a, c)
<1>1. PICK n \in Nat : \E g : Follows(g, n) /\ g[0] = a /\ g[n] = b
  BY DEF Reaches
<1>2. PICK g : Follows(g, n) /\ g[0] = a /\ g[n] = b
  BY <1>1
<1>3. PICK m \in Nat : \E f : Follows(f, m) /\ f[0] = b /\ f[m] = c
  BY DEF Reaches
<1>4. PICK f : Follows(f, m) /\ f[0] = b /\ f[m] = c
  BY <1>3
<1> DEFINE h == [k \in 0 .. n + m |-> IF k <= n THEN g[k] ELSE f[k - n]]
<1>5. \A k \in 0 .. n : k \in 0 .. n + m /\ k <= n
  OBVIOUS
<1>6. \A k \in 0 .. n : h[k] = g[k]
  BY <1>5
<1>7. ASSUME NEW k \in n .. n + m PROVE k - n \in 0 .. m /\ h[k] = f[k - n]
  <2>1. k - n \in 0 .. m /\ k \in 0 .. n + m
    OBVIOUS
  <2>2. CASE k = n
    <3>1. k - n = 0 /\ k \in 0 .. n
      BY <2>2
    <3> QED
      BY <1>2, <1>4, <1>6, <2>1, <2>2, <3>1
  <2>3. CASE k # n
    <3>1. ~(k <= n)
      BY <2>3
    <3> QED
      BY <2>1, <3>1
  <2> QED
    BY <2>2, <2>3
<1>8. h \in [0 .. n + m -> Seq(Segment)]
  <2>1. ASSUME NEW k \in 0 .. n + m PROVE h[k] \in Seq(Segment)
    <3>1. k \in 0 .. n \/ k \in n .. n + m
      OBVIOUS
    <3> QED
      BY <1>2, <1>4, <1>6, <1>7, <3>1 DEF Follows
  <2> QED
    BY <2>1
<1> HIDE DEF h
<1>9. ASSUME NEW k \in 1 .. n + m PROVE Links(h[k - 1]) # {} /\ h[k] = Follow(h[k - 1])
  <2>1. CASE k <= n
    <3>1. k \in 1 .. n /\ k \in 0 .. n /\ k - 1 \in 0 .. n
      BY <2>1
    <3> QED
      BY <1>2, <1>6, <3>1 DEF Follows
  <2>2. CASE ~(k <= n)
    <3>1. k \in n .. n + m /\ k - 1 \in n .. n + m /\ k - n \in 1 .. m /\ (k - 1) - n = (k - n) - 1
      BY <2>2
    <3>2. h[k] = f[k - n] /\ h[k - 1] = f[(k - n) - 1]
      BY <1>7, <3>1
    <3> QED
      BY <1>4, <3>1, <3>2 DEF Follows
  <2> QED
    BY <2>1, <2>2
<1>10. h[0] = a /\ h[n + m] = c
  <2>1. 0 \in 0 .. n /\ n + m \in n .. n + m /\ (n + m) - n = m
    OBVIOUS
  <2> QED
    BY <1>2, <1>4, <1>6, <1>7, <2>1
<1>11. n + m \in Nat
  OBVIOUS
<1> QED
  BY <1>8, <1>9, <1>10, <1>11 DEF Reaches, Follows

(* The first link of a path, followed.                                     *)
LEMMA Followed ==
  ASSUME LocalTypeOK, NEW a \in Seq(Segment), NEW n \in Links(a), \A k \in Links(a) : n <= k
  PROVE  /\ Follow(a) = Target(SubSeq(a, 1, n)) \o SubSeq(a, n + 1, Len(a))
         /\ Target(SubSeq(a, 1, n)) \in Seq(Segment)
<1>1. Links(a) # {} /\ n \in 1 .. Len(a) /\ IsLink(SubSeq(a, 1, n)) /\ Links(a) \subseteq Int
  BY LenProperties DEF Links
<1>2. Min(Links(a)) = n
  <2>1. \A k \in Links(a) : (\A j \in Links(a) : k <= j) => k = n
    BY <1>1
  <2> QED
    BY <2>1 DEF Min
<1>3. Target(SubSeq(a, 1, n)) \in Seq(Segment)
  BY <1>1, LinkTarget
<1> QED
  BY <1>1, <1>2, <1>3 DEF Follow

LEMMA FirstLink ==
  ASSUME NEW a \in Seq(Segment), Links(a) # {}
  PROVE  \E n \in Links(a) : \A k \in Links(a) : n <= k
<1>1. Links(a) \in SUBSET Nat
  BY LenProperties DEF Links
<1> QED
  BY <1>1, LeastOf

(* One more name at the end does not matter to the first link.             *)
LEMMA FollowedAppend ==
  ASSUME LocalTypeOK, NEW a \in Seq(Segment), NEW s \in Segment, Links(a) # {}
  PROVE  /\ Follow(a) \in Seq(Segment) /\ Links(Append(a, s)) # {}
         /\ Follow(Append(a, s)) = Append(Follow(a), s)
<1> DEFINE b == Append(a, s)
<1>1. PICK n \in Links(a) : \A k \in Links(a) : n <= k
  BY FirstLink
<1>2. n \in 1 .. Len(a) /\ IsLink(SubSeq(a, 1, n)) /\ Len(a) \in Nat
  BY LenProperties DEF Links
<1>3. /\ b \in Seq(Segment) /\ Len(b) = Len(a) + 1
      /\ \A k \in 1 .. Len(a) : SubSeq(b, 1, k) = SubSeq(a, 1, k)
  BY BeginningsOfAppend
<1>4. b[Len(a) + 1] = s /\ \A i \in 1 .. Len(a) : b[i] = a[i]
  BY <1>2
<1> HIDE DEF b
<1>5. n \in Links(b) /\ \A k \in Links(b) : n <= k
  <2>1. n \in 1 .. Len(b) /\ SubSeq(b, 1, n) = SubSeq(a, 1, n)
    BY <1>2, <1>3
  <2>2. ASSUME NEW k \in Links(b) PROVE n <= k
    <3>1. k \in 1 .. Len(b) /\ IsLink(SubSeq(b, 1, k))
      BY DEF Links
    <3>2. CASE k \in 1 .. Len(a)
      <4>1. SubSeq(b, 1, k) = SubSeq(a, 1, k)
        BY <1>3, <3>2
      <4>2. k \in Links(a)
        BY <3>1, <3>2, <4>1 DEF Links
      <4> QED
        BY <1>1, <4>2
    <3>3. CASE k \notin 1 .. Len(a)
      <4>1. Len(b) = Len(a) + 1
        BY <1>3
      <4> QED
        BY <1>2, <3>1, <3>3, <4>1
    <3> QED
      BY <3>2, <3>3
  <2> QED
    BY <1>2, <2>1, <2>2 DEF Links
<1> DEFINE t == Target(SubSeq(a, 1, n))
           ra == SubSeq(a, n + 1, Len(a))
           rb == SubSeq(b, n + 1, Len(b))
<1>6. Follow(a) = t \o ra /\ t \in Seq(Segment)
  BY <1>1, Followed
<1>7. Follow(b) = t \o rb
  <2>1. SubSeq(b, 1, n) = SubSeq(a, 1, n)
    BY <1>2, <1>3
  <2>2. Follow(b) = Target(SubSeq(b, 1, n)) \o rb
    BY <1>3, <1>5, Followed
  <2> QED
    BY <2>1, <2>2
<1>8. /\ ra \in Seq(Segment) /\ Len(ra) = Len(a) - n
      /\ \A i \in 1 .. Len(a) - n : ra[i] = a[n + i]
  <2>1. n + 1 \in Int /\ Len(a) \in Int /\ \A i \in n + 1 .. Len(a) : a[i] \in Segment
    BY <1>2, ElementOfSeq
  <2>2. /\ ra \in Seq(Segment)
        /\ Len(ra) = IF n + 1 <= Len(a) THEN Len(a) - (n + 1) + 1 ELSE 0
        /\ \A i \in 1 .. Len(a) - (n + 1) + 1 : ra[i] = a[(n + 1) + i - 1]
    BY <2>1, SubSeqProperties
  <2> HIDE DEF ra
  <2>3. Len(ra) = Len(a) - n
    BY <1>2, <2>2
  <2>4. ASSUME NEW i \in 1 .. Len(a) - n PROVE ra[i] = a[n + i]
    <3>1. i \in 1 .. Len(a) - (n + 1) + 1 /\ (n + 1) + i - 1 = n + i
      BY <1>2
    <3> QED
      BY <2>2, <3>1
  <2> QED
    BY <2>2, <2>3, <2>4
<1>9. /\ rb \in Seq(Segment) /\ Len(rb) = Len(a) - n + 1
      /\ \A i \in 1 .. Len(a) - n + 1 : rb[i] = b[n + i]
  <2>1. n + 1 \in Int /\ Len(b) \in Int /\ \A i \in n + 1 .. Len(b) : b[i] \in Segment
    BY <1>2, <1>3, ElementOfSeq
  <2>2. /\ rb \in Seq(Segment)
        /\ Len(rb) = IF n + 1 <= Len(b) THEN Len(b) - (n + 1) + 1 ELSE 0
        /\ \A i \in 1 .. Len(b) - (n + 1) + 1 : rb[i] = b[(n + 1) + i - 1]
    BY <2>1, SubSeqProperties
  <2> HIDE DEF rb
  <2>3. Len(b) = Len(a) + 1
    BY <1>3
  <2>4. Len(rb) = Len(a) - n + 1
    BY <1>2, <2>2, <2>3
  <2>5. ASSUME NEW i \in 1 .. Len(a) - n + 1 PROVE rb[i] = b[n + i]
    <3>1. i \in 1 .. Len(b) - (n + 1) + 1 /\ (n + 1) + i - 1 = n + i
      BY <1>2, <2>3
    <3> QED
      BY <2>2, <3>1
  <2> QED
    BY <2>2, <2>4, <2>5
<1> HIDE DEF t, ra, rb
<1>10. rb = Append(ra, s)
  <2>1. /\ Append(ra, s) \in Seq(Segment) /\ Len(Append(ra, s)) = Len(ra) + 1
        /\ \A i \in 1 .. Len(ra) : Append(ra, s)[i] = ra[i]
        /\ Append(ra, s)[Len(ra) + 1] = s
    BY <1>8
  <2>2. ASSUME NEW i \in 1 .. Len(a) - n + 1 PROVE Append(ra, s)[i] = rb[i]
    <3>1. rb[i] = b[n + i]
      BY <1>9
    <3>2. CASE i \in 1 .. Len(a) - n
      <4>1. n + i \in 1 .. Len(a) /\ i \in 1 .. Len(ra)
        BY <1>2, <1>8, <3>2
      <4> QED
        BY <1>4, <1>8, <2>1, <3>1, <3>2, <4>1
    <3>3. CASE i \notin 1 .. Len(a) - n
      <4>0. Len(ra) = Len(a) - n /\ Len(a) - n \in Nat
        BY <1>2, <1>8
      <4>1. i = Len(a) - n + 1 /\ n + i = Len(a) + 1 /\ i = Len(ra) + 1
        BY <1>2, <3>3, <4>0
      <4> QED
        BY <1>4, <2>1, <3>1, <4>1
    <3> QED
      BY <3>2, <3>3
  <2>3. Len(Append(ra, s)) = Len(a) - n + 1
    BY <1>2, <1>8, <2>1
  <2> QED
    BY <1>9, <2>1, <2>2, <2>3, SeqEqual
<1>11. t \o Append(ra, s) = Append(t \o ra, s) /\ t \o ra \in Seq(Segment)
  BY <1>6, <1>8
<1> QED
  BY <1>5, <1>6, <1>7, <1>10, <1>11 DEF b

LEMMA ReachesAppend ==
  ASSUME LocalTypeOK, NEW a, NEW b, NEW s \in Segment, Reaches(a, b)
  PROVE  Reaches(Append(a, s), Append(b, s))
<1>1. PICK n \in Nat : \E g : Follows(g, n) /\ g[0] = a /\ g[n] = b
  BY DEF Reaches
<1>2. PICK g : Follows(g, n) /\ g[0] = a /\ g[n] = b
  BY <1>1
<1> DEFINE h == [k \in 0 .. n |-> Append(g[k], s)]
<1>3. \A k \in 0 .. n : h[k] = Append(g[k], s) /\ g[k] \in Seq(Segment) /\ Append(g[k], s) \in Seq(Segment)
  BY <1>2 DEF Follows
<1>4. h \in [0 .. n -> Seq(Segment)]
  BY <1>3
<1> HIDE DEF h
<1>5. ASSUME NEW k \in 1 .. n PROVE Links(h[k - 1]) # {} /\ h[k] = Follow(h[k - 1])
  <2>1. k \in 0 .. n /\ k - 1 \in 0 .. n
    OBVIOUS
  <2>2. Links(g[k - 1]) # {} /\ g[k] = Follow(g[k - 1]) /\ g[k - 1] \in Seq(Segment)
    BY <1>2, <1>3, <2>1 DEF Follows
  <2>3. Links(Append(g[k - 1], s)) # {} /\ Follow(Append(g[k - 1], s)) = Append(Follow(g[k - 1]), s)
    BY <2>2, FollowedAppend
  <2> QED
    BY <1>3, <2>1, <2>2, <2>3
<1>6. h[0] = Append(a, s) /\ h[n] = Append(b, s)
  <2>1. 0 \in 0 .. n /\ n \in 0 .. n
    OBVIOUS
  <2> QED
    BY <1>2, <1>3, <2>1
<1> QED
  BY <1>4, <1>5, <1>6 DEF Reaches, Follows

(* A link in a path that leads to itself is replaced whole.                *)
LEMMA TargetFollowed ==
  ASSUME LocalTypeOK, NEW c \in Real, NEW s \in Segment, IsLink(Append(c, s))
  PROVE  /\ Append(c, s) \in Seq(Segment) /\ Links(Append(c, s)) # {}
         /\ Follow(Append(c, s)) = Target(Append(c, s))
         /\ Target(Append(c, s)) \in Seq(Segment)
<1> DEFINE b == Append(c, s)
           n == Len(c) + 1
<1>1. c \in Seq(Segment) /\ Links(c) = {} /\ Len(c) \in Nat
  BY LenProperties DEF Real
<1>2. /\ b \in Seq(Segment) /\ Len(b) = n
      /\ \A k \in 1 .. Len(c) : SubSeq(b, 1, k) = SubSeq(c, 1, k)
      /\ SubSeq(b, 1, n) = b
  BY <1>1, BeginningsOfAppend
<1>3. IsLink(b)
  OBVIOUS
<1> HIDE DEF b
<1>4. \A k \in 1 .. Len(c) : ~IsLink(SubSeq(c, 1, k))
  BY <1>1 DEF Links
<1>5. n \in 1 .. Len(b) /\ \A k \in 1 .. Len(b) : k = n \/ k \in 1 .. Len(c)
  <2>1. Len(b) = Len(c) + 1
    BY <1>2
  <2> QED
    BY <1>1, <2>1
<1> HIDE DEF n
<1>6. Links(b) = {n}
  <2>1. \A k \in 1 .. Len(b) : IsLink(SubSeq(b, 1, k)) <=> k = n
    BY <1>2, <1>3, <1>4, <1>5
  <2> HIDE DEF IsLink
  <2> QED
    BY <1>5, <2>1 DEF Links
<1>7. n \in Int /\ n <= n
  BY <1>1 DEF n
<1>8. Follow(b) = Target(b) \o SubSeq(b, n + 1, n) /\ Target(b) \in Seq(Segment)
  <2>1. n \in Links(b) /\ \A k \in Links(b) : n <= k
    BY <1>6, <1>7
  <2> QED
    BY <1>2, <2>1, Followed
<1>9. SubSeq(b, n + 1, n) = <<>>
  BY <1>7, SubSeqEmpty
<1>10. Follow(b) = Target(b)
  BY <1>8, <1>9, ConcatEmptySeq
<1> QED
  BY <1>2, <1>6, <1>8, <1>10 DEF b

LEMMA ReachesTarget ==
  ASSUME LocalTypeOK, NEW c \in Real, NEW s \in Segment, IsLink(Append(c, s))
  PROVE  Reaches(Append(c, s), Target(Append(c, s)))
<1> DEFINE b == Append(c, s)
<1>1. b \in Seq(Segment) /\ Links(b) # {} /\ Follow(b) = Target(b) /\ Target(b) \in Seq(Segment)
  BY TargetFollowed
<1> HIDE DEF b
<1>2. Reaches(b, Target(b))
  BY <1>1, ReachesNext
<1> QED
  BY <1>2 DEF b

(* The beginnings of a path, one part after the other.                     *)
LEMMA PartBegins ==
  ASSUME NEW path \in Seq(Segment), NEW k \in 1 .. Len(path)
  PROVE  /\ path[k] \in Segment /\ SubSeq(path, 1, k - 1) \in Seq(Segment)
         /\ Append(SubSeq(path, 1, k - 1), path[k]) = SubSeq(path, 1, k)
<1> DEFINE d == SubSeq(path, 1, k - 1)
           e == SubSeq(path, 1, k)
           s == path[k]
<1>1. k - 1 \in 0 .. Len(path) /\ k \in 0 .. Len(path) /\ s \in Segment
  BY LenProperties, ElementOfSeq
<1>2. /\ d \in Seq(Segment) /\ Len(d) = k - 1 /\ \A i \in 1 .. k - 1 : d[i] = path[i]
      /\ e \in Seq(Segment) /\ Len(e) = k /\ \A i \in 1 .. k : e[i] = path[i]
  BY <1>1, Beginning
<1> HIDE DEF d, e
<1>3. /\ Append(d, s) \in Seq(Segment) /\ Len(Append(d, s)) = k
      /\ \A i \in 1 .. k : Append(d, s)[i] = path[i]
  BY <1>1, <1>2
<1>4. Append(d, s) = e
  BY <1>2, <1>3, SeqEqual
<1> QED
  BY <1>1, <1>2, <1>4 DEF d, e

(* What the loop answers is where the operating system gets to.            *)
LEMMA ResolveReaches ==
  ASSUME LocalTypeOK, NEW path \in Seq(Segment), NEW resolved \in [Targets -> Answers],
         \A target \in Targets : resolved[target] # Failed => Reaches(target, resolved[target]),
         resolveSymlinksRecursive(path, resolved) # Failed
  PROVE  Reaches(path, resolveSymlinksRecursive(path, resolved))
<1> DEFINE m == Len(path)
<1>1. PICK g \in [0 .. m -> Answers] :
           /\ g[0] = <<>>
           /\ \A k \in 1 .. m : g[k] = ResolvePart(g[k - 1], path[k], resolved)
           /\ g[m] = resolveSymlinksRecursive(path, resolved)
  BY ResolveLoop
<1> DEFINE Begins(k) == SubSeq(path, 1, k)
           wrong == {k \in 0 .. m : g[k] # Failed /\ ~Reaches(Begins(k), g[k])}
<1>2. m \in Nat /\ wrong \in SUBSET Nat
      /\ \A k \in Nat : k \in wrong <=> k \in 0 .. m /\ g[k] # Failed /\ ~Reaches(Begins(k), g[k])
  BY LenProperties
<1> HIDE DEF wrong
<1>3. Begins(0) = <<>> /\ Reaches(<<>>, <<>>)
  <2>1. Begins(0) = <<>>
    BY SubSeqEmpty
  <2>2. Reaches(<<>>, <<>>)
    BY PathsTyped, ReachesItself
  <2> QED
    BY <2>1, <2>2
<1>4. ASSUME NEW k \in 1 .. m, g[k] # Failed, g[k - 1] # Failed => Reaches(Begins(k - 1), g[k - 1])
      PROVE  Reaches(Begins(k), g[k])
  <2> DEFINE c == g[k - 1]
             s == path[k]
  <2>1. k - 1 \in 0 .. m /\ k \in 0 .. m
    BY <1>2
  <2>2. c \in Answers /\ s \in Segment /\ g[k] = ResolvePart(c, s, resolved)
    BY <1>1, <2>1, ElementOfSeq
  <2>3. /\ c \in Real
        /\ \/ IsLink(Append(c, s)) /\ Target(Append(c, s)) \in Targets /\ g[k] = resolved[Target(Append(c, s))]
           \/ g[k] = Append(c, s)
    BY <1>4, <2>2, ResolvePartAnswers
  <2>4. c # Failed
    BY <2>3, PathsTyped DEF Real
  <2>5. Append(Begins(k - 1), s) = Begins(k)
    BY PartBegins
  <2> HIDE DEF c, s
  <2>6. Reaches(Append(Begins(k - 1), s), Append(c, s))
    <3>1. Reaches(Begins(k - 1), c)
      BY <1>4, <2>4 DEF c
    <3> QED
      BY <2>2, <3>1, ReachesAppend
  <2>7. Reaches(Begins(k), Append(c, s))
    BY <2>5, <2>6
  <2>8. CASE IsLink(Append(c, s)) /\ Target(Append(c, s)) \in Targets /\ g[k] = resolved[Target(Append(c, s))]
    <3> DEFINE target == Target(Append(c, s))
    <3>1. Reaches(Append(c, s), target)
      BY <2>2, <2>3, <2>8, ReachesTarget
    <3>2. Reaches(target, g[k])
      BY <1>4, <2>8
    <3> HIDE DEF target
    <3> QED
      BY <2>7, <3>1, <3>2, ReachesFurther
  <2> QED
    BY <2>3, <2>7, <2>8
<1> HIDE DEF Begins
<1>5. wrong = {}
  <2> SUFFICES ASSUME wrong # {}
               PROVE  FALSE
    OBVIOUS
  <2>1. PICK k \in wrong : \A j \in wrong : k <= j
    BY <1>2, LeastOf
  <2>2. k \in Nat /\ k \in 0 .. m /\ g[k] # Failed /\ ~Reaches(Begins(k), g[k]) /\ k # 0
    BY <1>1, <1>2, <1>3, <2>1
  <2>3. k \in 1 .. m /\ k - 1 \in Nat /\ k - 1 \in 0 .. m /\ ~(k <= k - 1)
    BY <2>2
  <2>4. g[k - 1] # Failed => Reaches(Begins(k - 1), g[k - 1])
    BY <1>2, <2>1, <2>3
  <2> QED
    BY <1>4, <2>2, <2>3, <2>4
<1>6. m \in 0 .. m /\ Begins(m) = path
  BY <1>2, SubSeqFull DEF Begins
<1> QED
  BY <1>1, <1>2, <1>5, <1>6

LEMMA ResolvedReaches ==
  ASSUME LocalTypeOK
  PROVE  \A seen \in SUBSET Targets : \A target \in Targets :
           Resolved[seen][target] # Failed => Reaches(target, Resolved[seen][target])
<1> DEFINE Fine(seen) == \A target \in Targets :
             Resolved[seen][target] # Failed => Reaches(target, Resolved[seen][target])
           wrong == {c \in Nat : \E seen \in SUBSET Targets : Left(seen) = c /\ ~Fine(seen)}
<1>1. wrong \in SUBSET Nat
      /\ \A c \in Nat : c \in wrong <=> \E seen \in SUBSET Targets : Left(seen) = c /\ ~Fine(seen)
  <2> HIDE DEF Fine
  <2> QED
    OBVIOUS
<1> HIDE DEF wrong
<1>2. ASSUME NEW seen \in SUBSET Targets, \A target \in Targets \ seen : Fine(seen \cup {target})
      PROVE  Fine(seen)
  <2> SUFFICES ASSUME NEW target \in Targets, Resolved[seen][target] # Failed
               PROVE  Reaches(target, Resolved[seen][target])
    OBVIOUS
  <2> DEFINE more == seen \cup {target}
  <2>1. Resolved[seen] = Goes(Resolved, seen)
    BY ResolvedGoes
  <2>2. target \notin seen /\ Resolved[seen][target] = resolveSymlinksRecursive(target, Resolved[more])
    BY <2>1 DEF Goes
  <2>3. Fine(more)
    BY <1>2, <2>2
  <2>4. more \in SUBSET Targets /\ target \in Seq(Segment)
    BY TargetsTyped
  <2> HIDE DEF more
  <2>5. Resolved[more] \in [Targets -> Answers]
    BY <2>4, ResolvedAnswers
  <2> DEFINE r == Resolved[more]
  <2>6. r \in [Targets -> Answers] /\ \A t \in Targets : r[t] # Failed => Reaches(t, r[t])
    BY <2>3, <2>5
  <2>7. resolveSymlinksRecursive(target, r) # Failed
    BY <2>2
  <2> HIDE DEF r
  <2>8. Reaches(target, resolveSymlinksRecursive(target, r))
    BY <2>4, <2>6, <2>7, ResolveReaches
  <2> QED
    BY <2>2, <2>8 DEF r
<1> HIDE DEF Fine
<1>3. wrong = {}
  <2> SUFFICES ASSUME wrong # {}
               PROVE  FALSE
    OBVIOUS
  <2>1. PICK c \in wrong : \A k \in wrong : c <= k
    BY <1>1, LeastOf
  <2>2. PICK seen \in SUBSET Targets : Left(seen) = c /\ ~Fine(seen)
    BY <1>1, <2>1
  <2>3. ASSUME NEW target \in Targets \ seen PROVE Fine(seen \cup {target})
    <3> DEFINE more == seen \cup {target}
    <3>1. more \in SUBSET Targets /\ Left(more) \in Nat /\ Left(more) = c - 1 /\ c \in Nat /\ ~(c <= Left(more))
      BY <2>2, LeftCounts
    <3> HIDE DEF more
    <3>2. Fine(more)
      BY <1>1, <2>1, <3>1
    <3> QED
      BY <3>2 DEF more
  <2> QED
    BY <1>2, <2>2, <2>3
<1>4. \A seen \in SUBSET Targets : Fine(seen)
  BY <1>1, <1>3, LeftCounts
<1> QED
  BY <1>4 DEF Fine

LEMMA FollowTyped ==
  ASSUME LocalTypeOK, NEW a \in Seq(Segment)
  PROVE  Follow(a) \in Seq(Segment)
<1>1. CASE Links(a) = {}
  BY <1>1 DEF Follow
<1>2. CASE Links(a) # {}
  <2>1. PICK n \in Links(a) : \A k \in Links(a) : n <= k
    BY <1>2, FirstLink
  <2>2. n \in 1 .. Len(a) /\ Len(a) \in Nat
    BY LenProperties DEF Links
  <2>3. SubSeq(a, n + 1, Len(a)) \in Seq(Segment)
    <3>1. n + 1 \in Int /\ Len(a) \in Int /\ \A i \in n + 1 .. Len(a) : a[i] \in Segment
      BY <2>2, ElementOfSeq
    <3> QED
      BY <3>1, SubSeqProperties
  <2> QED
    BY <2>1, <2>3, Followed, ConcatProperties
<1> QED
  BY <1>1, <1>2

(* The operating system ends up at a path that leads to itself, after n    *)
(* links.                                                                  *)
EndsIn(a, n) == \E g : Follows(g, n) /\ g[0] = a /\ g[n] \in Real

LEMMA EndsHere ==
  ASSUME NEW a \in Seq(Segment), Links(a) = {}, NEW n \in Nat
  PROVE  EndsIn(a, n) <=> a \in Real /\ n = 0
<1>1. ASSUME EndsIn(a, n) PROVE a \in Real /\ n = 0
  <2>1. PICK g : Follows(g, n) /\ g[0] = a /\ g[n] \in Real
    BY <1>1 DEF EndsIn
  <2>2. n # 0 => 1 \in 1 .. n /\ 1 - 1 = 0
    OBVIOUS
  <2>3. n = 0
    BY <2>1, <2>2 DEF Follows
  <2> QED
    BY <2>1, <2>3
<1>2. ASSUME a \in Real, n = 0 PROVE EndsIn(a, n)
  <2> DEFINE g == [k \in 0 .. 0 |-> a]
  <2>1. Follows(g, 0) /\ g[0] = a
    BY DEF Follows
  <2> HIDE DEF g
  <2> QED
    BY <1>2, <2>1 DEF EndsIn
<1> QED
  BY <1>1, <1>2

LEMMA EndsNext ==
  ASSUME NEW a \in Seq(Segment), Links(a) # {}, NEW n \in Nat
  PROVE  EndsIn(a, n) <=> n # 0 /\ EndsIn(Follow(a), n - 1)
<1>1. ASSUME EndsIn(a, n) PROVE n # 0 /\ EndsIn(Follow(a), n - 1)
  <2>1. PICK g : Follows(g, n) /\ g[0] = a /\ g[n] \in Real
    BY <1>1 DEF EndsIn
  <2>2. n # 0
    BY <2>1 DEF Real
  <2> DEFINE h == [k \in 0 .. n - 1 |-> g[k + 1]]
  <2>3. \A k \in 0 .. n - 1 : h[k] = g[k + 1] /\ k + 1 \in 0 .. n
    BY <2>2
  <2>4. h \in [0 .. n - 1 -> Seq(Segment)]
    BY <2>1, <2>3 DEF Follows
  <2> HIDE DEF h
  <2>5. ASSUME NEW k \in 1 .. n - 1 PROVE Links(h[k - 1]) # {} /\ h[k] = Follow(h[k - 1])
    <3>1. /\ k \in 0 .. n - 1 /\ k - 1 \in 0 .. n - 1 /\ (k - 1) + 1 = k
          /\ k + 1 \in 1 .. n /\ (k + 1) - 1 = k /\ k \in 1 .. n
      BY <2>2
    <3>2. h[k] = g[k + 1] /\ h[k - 1] = g[k]
      BY <2>3, <3>1
    <3> QED
      BY <2>1, <3>1, <3>2 DEF Follows
  <2>6. h[0] = Follow(a) /\ h[n - 1] \in Real
    <3>1. 0 \in 0 .. n - 1 /\ 0 + 1 = 1 /\ 1 \in 1 .. n /\ 1 - 1 = 0 /\ n - 1 \in 0 .. n - 1 /\ (n - 1) + 1 = n
      BY <2>2
    <3>2. h[0] = g[1] /\ h[n - 1] = g[n]
      BY <2>3, <3>1
    <3> QED
      BY <2>1, <3>1, <3>2 DEF Follows
  <2> QED
    BY <2>2, <2>4, <2>5, <2>6 DEF EndsIn, Follows
<1>2. ASSUME n # 0, EndsIn(Follow(a), n - 1) PROVE EndsIn(a, n)
  <2>1. PICK g : Follows(g, n - 1) /\ g[0] = Follow(a) /\ g[n - 1] \in Real
    BY <1>2 DEF EndsIn
  <2> DEFINE h == [k \in 0 .. n |-> IF k = 0 THEN a ELSE g[k - 1]]
  <2>2. \A k \in 1 .. n : h[k] = g[k - 1] /\ k - 1 \in 0 .. n - 1
    BY <1>2
  <2>3. h[0] = a /\ \A k \in 0 .. n : k = 0 \/ k \in 1 .. n
    BY <1>2
  <2>4. h \in [0 .. n -> Seq(Segment)]
    <3>1. \A k \in 0 .. n : h[k] \in Seq(Segment)
      BY <2>1, <2>2, <2>3 DEF Follows
    <3> QED
      BY <3>1
  <2> HIDE DEF h
  <2>5. ASSUME NEW k \in 1 .. n PROVE Links(h[k - 1]) # {} /\ h[k] = Follow(h[k - 1])
    <3>1. CASE k = 1
      <4>1. k - 1 = 0
        BY <3>1
      <4>2. h[k] = g[0] /\ h[k - 1] = a
        BY <2>2, <2>3, <4>1
      <4> QED
        BY <2>1, <4>2
    <3>2. CASE k # 1
      <4>1. k - 1 \in 1 .. n - 1 /\ k - 1 \in 1 .. n
        BY <3>2
      <4>2. h[k] = g[k - 1] /\ h[k - 1] = g[(k - 1) - 1]
        BY <2>2, <4>1
      <4> QED
        BY <2>1, <4>1, <4>2 DEF Follows
    <3> QED
      BY <3>1, <3>2
  <2>6. h[n] \in Real
    <3>1. n \in 1 .. n
      BY <1>2
    <3> QED
      BY <2>1, <2>2, <3>1
  <2> QED
    BY <2>3, <2>4, <2>5, <2>6 DEF EndsIn, Follows
<1> QED
  BY <1>1, <1>2

(* It ends up at one path only, after so many links.                       *)
LEMMA EndsOnce ==
  ASSUME LocalTypeOK
  PROVE  \A n \in Nat : \A a \in Seq(Segment) : \A j \in Nat : EndsIn(a, n) /\ EndsIn(a, j) => n = j
<1> DEFINE wrong == {n \in Nat : \E a \in Seq(Segment) : \E j \in Nat : EndsIn(a, n) /\ EndsIn(a, j) /\ n # j}
<1>1. wrong \in SUBSET Nat
      /\ \A n \in Nat : n \in wrong <=>
           \E a \in Seq(Segment) : \E j \in Nat : EndsIn(a, n) /\ EndsIn(a, j) /\ n # j
  OBVIOUS
<1> HIDE DEF wrong
<1>2. wrong = {}
  <2> SUFFICES ASSUME wrong # {}
               PROVE  FALSE
    OBVIOUS
  <2>1. PICK n \in wrong : \A k \in wrong : n <= k
    BY <1>1, LeastOf
  <2>2. n \in Nat
    BY <1>1
  <2>3. PICK a \in Seq(Segment), j \in Nat : EndsIn(a, n) /\ EndsIn(a, j) /\ n # j
    BY <1>1, <2>1
  <2>4. CASE Links(a) = {}
    BY <2>2, <2>3, <2>4, EndsHere
  <2>5. CASE Links(a) # {}
    <3> DEFINE b == Follow(a)
    <3>1. n # 0 /\ j # 0 /\ EndsIn(b, n - 1) /\ EndsIn(b, j - 1) /\ b \in Seq(Segment)
      BY <2>2, <2>3, <2>5, EndsNext, FollowTyped
    <3>2. n - 1 \in Nat /\ j - 1 \in Nat /\ n - 1 # j - 1 /\ ~(n <= n - 1)
      BY <2>2, <2>3, <3>1
    <3> HIDE DEF b
    <3> QED
      BY <1>1, <2>1, <3>1, <3>2
  <2> QED
    BY <2>4, <2>5
<1> QED
  BY <1>1, <1>2

(* A path that is on the way is no further from the end.                   *)
LEMMA EndsAlong ==
  ASSUME LocalTypeOK, NEW a, NEW b, Reaches(a, b), NEW n \in Nat, EndsIn(a, n)
  PROVE  b \in Seq(Segment) /\ \E m \in 0 .. n : EndsIn(b, m)
<1>1. PICK j \in Nat : \E g : Follows(g, j) /\ g[0] = a /\ g[j] = b
  BY DEF Reaches
<1>2. PICK g : Follows(g, j) /\ g[0] = a /\ g[j] = b
  BY <1>1
<1> DEFINE W == {q \in Seq(Segment) : \E m \in 0 .. n : EndsIn(q, m)}
<1>3. g[0] \in W
  <2>1. 0 \in 0 .. j /\ n \in 0 .. n
    OBVIOUS
  <2> QED
    BY <1>2, <2>1 DEF Follows
<1>4. ASSUME NEW k \in 1 .. j, g[k - 1] \in W PROVE g[k] \in W
  <2> DEFINE p == g[k - 1]
  <2>1. p \in Seq(Segment) /\ Links(p) # {} /\ g[k] = Follow(p)
    BY <1>2, <1>4 DEF Follows
  <2>2. PICK m \in 0 .. n : EndsIn(p, m)
    BY <1>4
  <2> HIDE DEF p
  <2>3. m # 0 /\ EndsIn(Follow(p), m - 1)
    BY <2>1, <2>2, EndsNext
  <2>4. m - 1 \in 0 .. n
    BY <2>3
  <2> QED
    BY <2>1, <2>3, <2>4, FollowTyped
<1> HIDE DEF W
<1>5. \A k \in 0 .. j : g[k] \in W
  BY <1>3, <1>4, LoopKeeps
<1>6. b \in W
  BY <1>2, <1>5
<1> QED
  BY <1>6 DEF W

(* A path that ends up somewhere begins with paths that do: what is a link *)
(* is in a directory.                                                      *)
LEMMA EndsAppend ==
  ASSUME LocalTypeOK, TreeKept, NEW s \in Segment
  PROVE  \A n \in Nat : \A a \in Seq(Segment) :
           EndsIn(Append(a, s), n) => \E m \in 0 .. n : EndsIn(a, m)
<1> DEFINE Fine(n) == \A a \in Seq(Segment) : EndsIn(Append(a, s), n) => \E m \in 0 .. n : EndsIn(a, m)
           wrong == {n \in Nat : ~Fine(n)}
<1>1. wrong \in SUBSET Nat /\ \A n \in Nat : n \in wrong <=> ~Fine(n)
  <2> HIDE DEF Fine
  <2> QED
    OBVIOUS
<1> HIDE DEF wrong
<1>2. ASSUME NEW n \in Nat, n # 0 => Fine(n - 1) PROVE Fine(n)
  <2> SUFFICES ASSUME NEW a \in Seq(Segment), EndsIn(Append(a, s), n)
               PROVE  \E m \in 0 .. n : EndsIn(a, m)
    OBVIOUS
  <2> DEFINE b == Append(a, s)
  <2>1. /\ b \in Seq(Segment) /\ Len(b) = Len(a) + 1 /\ Len(a) \in Nat
        /\ \A k \in 1 .. Len(a) : SubSeq(b, 1, k) = SubSeq(a, 1, k)
        /\ SubSeq(b, 1, Len(a) + 1) = b /\ SubSeq(a, 1, Len(a)) = a
    BY BeginningsOfAppend, LenProperties
  <2>2. CASE Links(a) # {}
    <3>1. Follow(a) \in Seq(Segment) /\ Links(b) # {} /\ Follow(b) = Append(Follow(a), s)
      BY <2>2, FollowedAppend
    <3>2. n # 0 /\ EndsIn(Follow(b), n - 1)
      BY <2>1, <3>1, EndsNext
    <3> HIDE DEF b
    <3>3. PICK m \in 0 .. n - 1 : EndsIn(Follow(a), m)
      BY <1>2, <3>1, <3>2
    <3>4. m + 1 \in 0 .. n /\ m + 1 \in Nat /\ m + 1 # 0 /\ (m + 1) - 1 = m
      BY <3>2
    <3>5. EndsIn(a, m + 1)
      BY <2>2, <3>3, <3>4, EndsNext
    <3> QED
      BY <3>4, <3>5
  <2>3. CASE Links(a) = {}
    <3> HIDE DEF b
    <3>1. EndsIn(b, n)
      BY DEF b
    <3>2. ~ThroughFile(a)
      <4>1. CASE Links(b) = {}
        <5>1. b \in Real
          BY <2>1, <3>1, <4>1, EndsHere
        <5>2. \A k \in 1 .. Len(b) : k < Len(b) => NodeAt(SubSeq(b, 1, k)) # RegularFile
          BY <2>1, <5>1, OnTheWay
        <5>3. \A k \in 1 .. Len(a) - 1 : k \in 1 .. Len(b) /\ k < Len(b) /\ k \in 1 .. Len(a)
          BY <2>1
        <5> QED
          BY <2>1, <5>2, <5>3 DEF ThroughFile, Ancestors
      <4>2. CASE Links(b) # {}
        <5>1. PICK k \in 1 .. Len(b) : IsLink(SubSeq(b, 1, k))
          BY <4>2 DEF Links
        <5>2. k \notin 1 .. Len(a)
          BY <2>1, <2>3, <5>1 DEF Links
        <5>3. IsLink(b)
          <6>1. k = Len(a) + 1
            BY <2>1, <5>1, <5>2
          <6> QED
            BY <2>1, <5>1, <6>1
        <5>4. b \in Path /\ node[b] # Missing
          BY <5>3, PathsTyped DEF IsLink, NodeAt
        <5>5. \A d \in Ancestors(b) : node[d] = Dir /\ d \in Path
          BY <5>4, PathsAbove DEF TreeKept
        <5>6. \A k2 \in 1 .. Len(a) - 1 : k2 \in 1 .. Len(b) - 1 /\ k2 \in 1 .. Len(a)
          BY <2>1
        <5>7. Ancestors(a) \subseteq Ancestors(b)
          BY <2>1, <5>6 DEF Ancestors
        <5> QED
          BY <5>5, <5>7, LocalAssumption DEF ThroughFile, NodeAt
      <4> QED
        BY <4>1, <4>2
    <3>3. a \in Real
      BY <2>3, <3>2 DEF Real
    <3>4. EndsIn(a, 0) /\ 0 \in 0 .. n
      BY <2>3, <3>3, EndsHere
    <3> QED
      BY <3>4
  <2> QED
    BY <2>2, <2>3
<1> HIDE DEF Fine
<1>3. wrong = {}
  <2> SUFFICES ASSUME wrong # {}
               PROVE  FALSE
    OBVIOUS
  <2>1. PICK n \in wrong : \A k \in wrong : n <= k
    BY <1>1, LeastOf
  <2>2. n \in Nat /\ ~Fine(n) /\ (n # 0 => n - 1 \in Nat /\ ~(n <= n - 1))
    BY <1>1, <2>1
  <2> QED
    BY <1>1, <1>2, <2>1, <2>2
<1>4. \A n \in Nat : Fine(n)
  BY <1>1, <1>3
<1> QED
  BY <1>4 DEF Fine

LEMMA EndsBegin ==
  ASSUME LocalTypeOK, TreeKept, NEW path \in Seq(Segment), NEW n \in Nat, EndsIn(path, n)
  PROVE  \A k \in 0 .. Len(path) : \E m \in 0 .. n : EndsIn(SubSeq(path, 1, k), m)
<1> DEFINE l == Len(path)
           Fine(k) == \E m \in 0 .. n : EndsIn(SubSeq(path, 1, k), m)
           g == [i \in 0 .. l |-> Fine(l - i)]
           W == {TRUE}
<1>1. l \in Nat /\ SubSeq(path, 1, l) = path /\ n \in 0 .. n
  BY LenProperties, SubSeqFull
<1>2. ASSUME NEW k \in 1 .. l, Fine(k) PROVE Fine(k - 1)
  <2> DEFINE d == SubSeq(path, 1, k - 1)
             e == SubSeq(path, 1, k)
             s == path[k]
  <2>1. s \in Segment /\ d \in Seq(Segment) /\ Append(d, s) = e
    BY PartBegins
  <2>2. PICK m \in 0 .. n : EndsIn(e, m)
    BY <1>2
  <2> HIDE DEF d, e, s
  <2>3. PICK j \in 0 .. m : EndsIn(d, j)
    <3>1. m \in Nat /\ EndsIn(Append(d, s), m)
      BY <2>1, <2>2
    <3> QED
      BY <2>1, <3>1, EndsAppend
  <2>4. j \in 0 .. n
    OBVIOUS
  <2> QED
    BY <2>3, <2>4 DEF d
<1>3. Fine(l)
  BY <1>1
<1> HIDE DEF Fine, l
<1>4. g[0] \in W /\ \A i \in 1 .. l : g[i - 1] \in W => g[i] \in W
  <2>1. 0 \in 0 .. l /\ l - 0 = l
    BY <1>1
  <2>2. ASSUME NEW i \in 1 .. l, g[i - 1] \in W PROVE g[i] \in W
    <3>1. i \in 0 .. l /\ i - 1 \in 0 .. l /\ l - (i - 1) \in 1 .. l /\ (l - (i - 1)) - 1 = l - i
      BY <1>1
    <3>2. Fine(l - (i - 1))
      BY <2>2, <3>1
    <3>3. Fine(l - i)
      BY <1>2, <3>1, <3>2
    <3> QED
      BY <3>1, <3>3
  <2> QED
    BY <1>3, <2>1, <2>2
<1>5. ASSUME NEW k \in 0 .. l PROVE Fine(k)
  <2>1. \A i \in 0 .. l : g[i] \in W
    <3> HIDE DEF g, W
    <3> QED
      BY <1>1, <1>4, LoopKeeps
  <2>2. l - k \in 0 .. l /\ l - (l - k) = k
    BY <1>1
  <2> QED
    BY <2>1, <2>2
<1> QED
  BY <1>5 DEF Fine, l

(* It does not end up below a file.                                        *)
LEMMA EndsInDirectory ==
  ASSUME LocalTypeOK, TreeKept, NEW c \in Real, NEW s \in Segment, NEW n \in Nat, EndsIn(Append(c, s), n)
  PROVE  NodeAt(c) # RegularFile
<1> SUFFICES ASSUME NodeAt(c) = RegularFile
             PROVE  FALSE
  OBVIOUS
<1> DEFINE b == Append(c, s)
<1>1. /\ c \in Path /\ node[c] = RegularFile /\ c \in Seq(Segment) /\ c # <<>>
      /\ RegularFile # Dir
  <2>1. Missing # RegularFile
    BY LocalAssumption
  <2> QED
    BY <2>1, LocalAssumption DEF NodeAt
<1>2. /\ b \in Seq(Segment) /\ Len(b) = Len(c) + 1 /\ Len(c) \in Nat /\ Len(c) # 0
      /\ \A k \in 1 .. Len(c) : SubSeq(b, 1, k) = SubSeq(c, 1, k)
      /\ SubSeq(b, 1, Len(c) + 1) = b /\ SubSeq(c, 1, Len(c)) = c
  BY <1>1, BeginningsOfAppend, LenProperties, EmptySeq
<1>3. EndsIn(b, n)
  OBVIOUS
<1> HIDE DEF b
<1>4. Len(c) \in 1 .. Len(b) - 1 /\ Len(c) \in 1 .. Len(b) /\ Len(c) < Len(b) /\ Len(c) \in 1 .. Len(c)
  BY <1>2
<1>5. c \in Ancestors(b)
  BY <1>2, <1>4 DEF Ancestors
<1>6. ~IsLink(b)
  <2>1. b \in Path /\ node[b] # Missing => node[c] = Dir
    BY <1>5 DEF TreeKept
  <2> QED
    BY <1>1, <2>1, PathsTyped DEF IsLink, NodeAt
<1>7. Links(b) = {}
  <2>1. ASSUME NEW k \in 1 .. Len(b) PROVE ~IsLink(SubSeq(b, 1, k))
    <3>1. CASE k \in 1 .. Len(c)
      BY <1>2, <3>1 DEF Real, Links
    <3>2. CASE k \notin 1 .. Len(c)
      <4>1. k = Len(c) + 1
        BY <1>2, <3>2
      <4> QED
        BY <1>2, <1>6, <4>1
    <3> QED
      BY <3>1, <3>2
  <2> QED
    BY <2>1 DEF Links
<1>8. b \in Real
  BY <1>2, <1>3, <1>7, EndsHere
<1>9. NodeAt(SubSeq(b, 1, Len(c))) # RegularFile
  BY <1>2, <1>4, <1>8, OnTheWay
<1> QED
  BY <1>2, <1>4, <1>9

(* What the loop over the parts makes of a path that ends up somewhere, if *)
(* the targets that do so sooner are resolved.                             *)
LEMMA LoopEnds ==
  ASSUME LocalTypeOK, TreeKept, NEW path \in Seq(Segment), NEW n \in Nat, EndsIn(path, n),
         NEW resolved \in [Targets -> Answers],
         \A target \in Targets : resolved[target] # Failed => Reaches(target, resolved[target]),
         \A target \in Targets : \A j \in Nat : j < n /\ EndsIn(target, j) => resolved[target] # Failed
  PROVE  resolveSymlinksRecursive(path, resolved) # Failed
<1> DEFINE l == Len(path)
           Begins(k) == SubSeq(path, 1, k)
<1>1. PICK g \in [0 .. l -> Answers] :
           /\ g[0] = <<>>
           /\ \A k \in 1 .. l : g[k] = ResolvePart(g[k - 1], path[k], resolved)
           /\ g[l] = resolveSymlinksRecursive(path, resolved)
  BY ResolveLoop
<1> DEFINE Fine(k) == g[k] \in Real /\ Reaches(Begins(k), g[k])
           wrong == {k \in 0 .. l : ~Fine(k)}
<1>2. l \in Nat /\ wrong \in SUBSET Nat /\ \A k \in Nat : k \in wrong <=> k \in 0 .. l /\ ~Fine(k)
  BY LenProperties
<1> HIDE DEF wrong
<1>3. Fine(0)
  <2>1. Begins(0) = <<>>
    BY SubSeqEmpty
  <2>2. Reaches(<<>>, <<>>)
    BY PathsTyped, ReachesItself
  <2> QED
    BY <1>1, <2>1, <2>2, RealRoot
<1>4. ASSUME NEW k \in 1 .. l, Fine(k - 1) PROVE Fine(k)
  <2> DEFINE c == g[k - 1]
             s == path[k]
             b == Append(c, s)
             d == Begins(k - 1)
  <2>1. s \in Segment /\ d \in Seq(Segment) /\ Append(d, s) = Begins(k) /\ k \in 0 .. l
    BY <1>2, PartBegins
  <2>2. c \in Real /\ c \in Answers /\ g[k] = ResolvePart(c, s, resolved) /\ g[k] \in Answers /\ Reaches(d, c)
    BY <1>1, <1>4, <2>1 DEF Answers
  <2>3. Reaches(Begins(k), b)
    <3> HIDE DEF c, d, s
    <3>1. Reaches(Append(d, s), Append(c, s))
      BY <2>1, <2>2, ReachesAppend
    <3> QED
      BY <2>1, <3>1
  <2>4. PICK m \in 0 .. n : EndsIn(b, m)
    <3>1. PICK i \in 0 .. n : EndsIn(Begins(k), i)
      BY <2>1, EndsBegin
    <3> HIDE DEF b
    <3>2. PICK m \in 0 .. i : EndsIn(b, m)
      BY <2>3, <3>1, EndsAlong
    <3>3. m \in 0 .. n
      OBVIOUS
    <3> QED
      BY <3>2, <3>3
  <2>5. c # Failed /\ NodeAt(c) # RegularFile
    <3>1. c # Failed
      BY <2>2, PathsTyped DEF Real
    <3> HIDE DEF c, s
    <3> QED
      BY <2>1, <2>2, <2>4, <3>1, EndsInDirectory DEF b
  <2> HIDE DEF c, d, s
  <2>6. CASE IsLink(b)
    <3> DEFINE target == Target(b)
    <3>1. /\ b \in Seq(Segment) /\ Links(b) # {} /\ Follow(b) = target
          /\ target \in Targets /\ Reaches(b, target)
      BY <2>1, <2>2, <2>6, TargetFollowed, ReachesTarget, LinkTarget
    <3>2. m # 0 /\ EndsIn(target, m - 1) /\ m - 1 \in Nat /\ m - 1 < n
      <4> HIDE DEF b, target
      <4>1. m # 0 /\ EndsIn(target, m - 1)
        BY <2>4, <3>1, EndsNext
      <4> QED
        BY <4>1
    <3>3. g[k] = resolved[target]
      BY <2>2, <2>5, <2>6 DEF ResolvePart, resolveSymlinkTarget
    <3> HIDE DEF b, target
    <3>4. g[k] # Failed /\ Reaches(target, g[k])
      BY <3>1, <3>2, <3>3
    <3>5. Reaches(Begins(k), target)
      BY <2>3, <3>1, ReachesFurther
    <3>6. Reaches(Begins(k), g[k])
      BY <3>4, <3>5, ReachesFurther
    <3> QED
      BY <2>2, <3>4, <3>6 DEF Answers
  <2>7. CASE ~IsLink(b)
    <3>1. g[k] = b
      BY <2>2, <2>5, <2>7 DEF ResolvePart
    <3>2. b \in Real
      BY <2>1, <2>2, <2>5, <2>7, RealAppend
    <3> QED
      BY <2>3, <3>1, <3>2
  <2> QED
    BY <2>6, <2>7
<1> HIDE DEF Fine
<1>5. wrong = {}
  <2> SUFFICES ASSUME wrong # {}
               PROVE  FALSE
    OBVIOUS
  <2>1. PICK k \in wrong : \A j \in wrong : k <= j
    BY <1>2, LeastOf
  <2>2. k \in 0 .. l /\ ~Fine(k) /\ k # 0
    BY <1>2, <1>3, <2>1
  <2>3. k \in 1 .. l /\ k - 1 \in Nat /\ k - 1 \in 0 .. l /\ ~(k <= k - 1)
    BY <1>2, <2>2
  <2> QED
    BY <1>2, <1>4, <2>1, <2>2, <2>3
<1>6. Fine(l)
  BY <1>2, <1>5
<1> QED
  BY <1>1, <1>6, PathsTyped DEF Fine, Real

(* What ends up somewhere after n links is resolved, whatever is being     *)
(* resolved that does not end up as soon.                                  *)
LEMMA EndsResolved ==
  ASSUME LocalTypeOK, TreeKept
  PROVE  \A n \in Nat : \A seen \in SUBSET Targets : \A target \in Targets :
           EndsIn(target, n) /\ (\A s \in seen : \A j \in 0 .. n : ~EndsIn(s, j))
             => Resolved[seen][target] # Failed
<1> DEFINE Fine(n) == \A seen \in SUBSET Targets : \A target \in Targets :
             EndsIn(target, n) /\ (\A s \in seen : \A j \in 0 .. n : ~EndsIn(s, j))
               => Resolved[seen][target] # Failed
           wrong == {n \in Nat : ~Fine(n)}
<1>1. wrong \in SUBSET Nat /\ \A n \in Nat : n \in wrong <=> ~Fine(n)
  <2> HIDE DEF Fine
  <2> QED
    OBVIOUS
<1> HIDE DEF wrong
<1>2. ASSUME NEW n \in Nat, \A m \in Nat : m < n => Fine(m) PROVE Fine(n)
  <2> SUFFICES ASSUME NEW seen \in SUBSET Targets, NEW target \in Targets, EndsIn(target, n),
                      \A s \in seen : \A j \in 0 .. n : ~EndsIn(s, j)
               PROVE  Resolved[seen][target] # Failed
    OBVIOUS
  <2> DEFINE more == seen \cup {target}
             r == Resolved[more]
  <2>1. n \in 0 .. n /\ target \notin seen /\ target \in Seq(Segment)
    BY TargetsTyped
  <2>2. Resolved[seen] = Goes(Resolved, seen)
    BY ResolvedGoes
  <2>3. Resolved[seen][target] = resolveSymlinksRecursive(target, r)
    BY <2>1, <2>2 DEF Goes
  <2>4. more \in SUBSET Targets
    OBVIOUS
  <2>5. ASSUME NEW m \in Nat, m < n, NEW s \in more, NEW j \in 0 .. m PROVE ~EndsIn(s, j)
    <3>1. j \in 0 .. n /\ j \in Nat /\ j # n
      BY <2>5
    <3>2. CASE s \in seen
      BY <3>1, <3>2
    <3>3. CASE s = target
      BY <2>1, <3>1, <3>3, EndsOnce
    <3> QED
      BY <3>2, <3>3
  <2> HIDE DEF more
  <2>6. /\ r \in [Targets -> Answers]
        /\ \A t \in Targets : r[t] # Failed => Reaches(t, r[t])
    BY <2>4, ResolvedAnswers, ResolvedReaches
  <2>7. \A t \in Targets : \A j \in Nat : j < n /\ EndsIn(t, j) => r[t] # Failed
    <3> SUFFICES ASSUME NEW t \in Targets, NEW j \in Nat, j < n, EndsIn(t, j)
                 PROVE  r[t] # Failed
      OBVIOUS
    <3>1. Fine(j)
      BY <1>2
    <3>2. \A s \in more : \A i \in 0 .. j : ~EndsIn(s, i)
      BY <2>5
    <3> QED
      BY <2>4, <3>1, <3>2
  <2> HIDE DEF r
  <2>8. resolveSymlinksRecursive(target, r) # Failed
    BY <2>1, <2>6, <2>7, LoopEnds
  <2> QED
    BY <2>3, <2>8
<1> HIDE DEF Fine
<1>3. wrong = {}
  <2> SUFFICES ASSUME wrong # {}
               PROVE  FALSE
    OBVIOUS
  <2>1. PICK n \in wrong : \A k \in wrong : n <= k
    BY <1>1, LeastOf
  <2>2. n \in Nat /\ ~Fine(n) /\ \A m \in Nat : m < n => ~(n <= m)
    BY <1>1, <2>1
  <2>3. \A m \in Nat : m < n => Fine(m)
    BY <1>1, <2>1, <2>2
  <2> QED
    BY <1>2, <2>2, <2>3
<1>4. \A n \in Nat : Fine(n)
  BY <1>1, <1>3
<1> QED
  BY <1>4 DEF Fine

-----------------------------------------------------------------------------
(* The links the operating system follows                                  *)

(* Where the texts of links mean to the code what they mean to the         *)
(* operating system, that goes the same way.                               *)
LEMMA FollowsTarget ==
  ASSUME LocalTypeOK, CleanTargets, NEW a \in Seq(Segment)
  PROVE  FollowOnce(a) = Follow(a)
<1>1. CASE Links(a) = {}
  BY <1>1 DEF FollowOnce, Follow
<1>2. CASE Links(a) # {}
  <2> DEFINE n == Min(Links(a))
             link == SubSeq(a, 1, n)
             rest == SubSeq(a, n + 1, Len(a))
  <2>1. n \in Links(a)
    <3>1. PICK m \in Links(a) : \A k \in Links(a) : m <= k
      BY <1>2, FirstLink
    <3> QED
      BY <3>1 DEF Min
  <2>2. n \in 1 .. Len(a) /\ Len(a) \in Nat /\ IsLink(link)
    BY <2>1, LenProperties DEF Links
  <2>3. FollowOnce(a) = GoUp(Raw(link, node[link]) \o rest, Directories) /\ Follow(a) = Target(link) \o rest
    BY <1>2 DEF FollowOnce, Follow
  <2>4. rest \in Seq(Segment)
    <3>1. n + 1 \in Int /\ Len(a) \in Int /\ \A i \in n + 1 .. Len(a) : a[i] \in Segment
      BY <2>2, ElementOfSeq
    <3> QED
      BY <3>1, SubSeqProperties
  <2> HIDE DEF n, link, rest
  <2>5. link \in Path /\ Raw(link, node[link]) \in Seq(Names) /\ Target(link) \in Seq(Segment)
    BY <2>2, LinkTarget
  <2>6. GoUp(Raw(link, node[link]), Directories) = Target(link)
    BY <2>2, <2>5 DEF CleanTargets
  <2> QED
    BY <2>3, <2>4, <2>5, <2>6, GoUpBefore
<1> QED
  BY <1>1, <1>2

LEMMA OsFollows ==
  ASSUME LocalTypeOK, CleanTargets, NEW a \in Seq(Segment)
  PROVE  \E f \in [0 .. MaxLinks -> Seq(Segment)] :
           /\ f[0] = a /\ \A k \in 1 .. MaxLinks : f[k] = Follow(f[k - 1])
           /\ OsPath(a) = IF Links(f[MaxLinks]) # {} \/ ThroughFile(f[MaxLinks])
                          THEN Failed ELSE f[MaxLinks]
<1> DEFINE D == 0 .. MaxLinks
           V == Seq(Segment)
           followed[n \in D] == IF n = 0 THEN a ELSE FollowOnce(followed[n - 1])
           goes(h) == [n \in D |-> IF n = 0 THEN a ELSE FollowOnce(h[n - 1])]
           F == [k \in 1 .. MaxLinks |-> [q \in V |-> FollowOnce(q)]]
<1>1. OsPath(a) = IF \/ Links(followed[MaxLinks]) # {} \/ Up \in ToSet(followed[MaxLinks])
                     \/ ThroughFile(followed[MaxLinks])
                  THEN Failed ELSE followed[MaxLinks]
  BY DEF OsPath
<1>2. followed = CHOOSE h : h = goes(h)
  OBVIOUS
<1>3. MaxLinks \in Nat
  BY LocalAssumption
<1>4. /\ F \in [1 .. MaxLinks -> [V -> V]] /\ a \in V
      /\ \A q \in V : FollowOnce(q) \in V /\ FollowOnce(q) = Follow(q)
  BY FollowTyped, FollowsTarget
<1> HIDE DEF V
<1>5. PICK f : Passes(f, MaxLinks, V, a, F)
  <2> HIDE DEF F
  <2> QED
    BY <1>3, <1>4, LoopRuns
<1>6. f = goes(f)
  <2>1. \A k \in D : k # 0 => k \in 1 .. MaxLinks /\ k - 1 \in D
    BY <1>3
  <2>2. goes(f) = [k \in D |-> f[k]]
    BY <1>5, <2>1 DEF Passes
  <2> QED
    BY <1>5, <2>2 DEF Passes
<1> HIDE DEF followed, goes
<1>7. followed = goes(followed)
  BY <1>2, <1>6
<1>8. followed[0] = a /\ \A k \in 1 .. MaxLinks : followed[k] = FollowOnce(followed[k - 1])
  <2>1. 0 \in D /\ \A k \in 1 .. MaxLinks : k \in D /\ k # 0
    BY <1>3
  <2> QED
    BY <1>7, <2>1 DEF goes
<1>9. \A k \in 0 .. MaxLinks : followed[k] \in V
  <2>1. followed[0] \in V /\ \A k \in 1 .. MaxLinks : followed[k - 1] \in V => followed[k] \in V
    BY <1>4, <1>8
  <2> QED
    BY <1>3, <2>1, LoopKeeps
<1>10. followed \in [0 .. MaxLinks -> V]
  <2>1. followed = [k \in D |-> followed[k]]
    BY <1>7 DEF goes
  <2> QED
    BY <1>9, <2>1
<1>11. \A k \in 1 .. MaxLinks : followed[k] = Follow(followed[k - 1])
  <2>1. \A k \in 1 .. MaxLinks : k - 1 \in 0 .. MaxLinks
    BY <1>3
  <2> QED
    BY <1>4, <1>8, <1>9, <2>1
<1>12. Up \notin ToSet(followed[MaxLinks])
  <2>1. MaxLinks \in 0 .. MaxLinks
    BY <1>3
  <2> QED
    BY <1>9, <2>1, WithoutUp DEF V
<1> QED
  BY <1>1, <1>8, <1>10, <1>11, <1>12 DEF V

(* It gets to where a path ends up, unless that takes too many links.      *)
LEMMA OsReaches ==
  ASSUME LocalTypeOK, CleanTargets, NEW a \in Seq(Segment), NEW b \in Real, NEW n \in Nat,
         NEW g, Follows(g, n), g[0] = a, g[n] = b
  PROVE  OsPath(a) = IF n <= MaxLinks THEN b ELSE Failed
<1>1. PICK f \in [0 .. MaxLinks -> Seq(Segment)] :
           /\ f[0] = a /\ \A k \in 1 .. MaxLinks : f[k] = Follow(f[k - 1])
           /\ OsPath(a) = IF Links(f[MaxLinks]) # {} \/ ThroughFile(f[MaxLinks])
                          THEN Failed ELSE f[MaxLinks]
  BY OsFollows
<1>2. MaxLinks \in Nat /\ Links(b) = {} /\ ~ThroughFile(b) /\ Follow(b) = b
  BY LocalAssumption DEF Real, Follow
<1> DEFINE At_(k) == IF k <= n THEN g[k] ELSE b
           wrong == {k \in 0 .. MaxLinks : f[k] # At_(k)}
<1>3. wrong \in SUBSET Nat /\ \A k \in Nat : k \in wrong <=> k \in 0 .. MaxLinks /\ f[k] # At_(k)
  BY <1>2
<1> HIDE DEF wrong
<1>4. ASSUME NEW k \in 1 .. MaxLinks PROVE At_(k) = Follow(At_(k - 1))
  <2>1. CASE k <= n
    <3>1. k \in 1 .. n /\ k - 1 <= n
      BY <2>1
    <3> QED
      BY <2>1, <3>1 DEF Follows
  <2>2. CASE ~(k <= n)
    <3>1. k - 1 = n \/ ~(k - 1 <= n)
      BY <2>2
    <3>2. n <= n
      OBVIOUS
    <3>3. At_(k) = b /\ At_(k - 1) = b
      BY <2>2, <3>1, <3>2
    <3> QED
      BY <1>2, <3>3
  <2> QED
    BY <2>1, <2>2
<1>5. At_(0) = a
  OBVIOUS
<1> HIDE DEF At_
<1>6. wrong = {}
  <2> SUFFICES ASSUME wrong # {}
               PROVE  FALSE
    OBVIOUS
  <2>1. PICK k \in wrong : \A j \in wrong : k <= j
    BY <1>3, LeastOf
  <2>2. k \in Nat /\ k \in 0 .. MaxLinks /\ f[k] # At_(k) /\ k # 0
    BY <1>1, <1>3, <1>5, <2>1
  <2>3. k \in 1 .. MaxLinks /\ k - 1 \in Nat /\ k - 1 \in 0 .. MaxLinks /\ ~(k <= k - 1)
    BY <1>2, <2>2
  <2>4. f[k - 1] = At_(k - 1)
    BY <1>3, <2>1, <2>3
  <2> QED
    BY <1>1, <1>4, <2>2, <2>3, <2>4
<1>7. f[MaxLinks] = At_(MaxLinks)
  BY <1>2, <1>3, <1>6
<1>8. CASE MaxLinks < n
  <2>1. MaxLinks + 1 \in 1 .. n /\ (MaxLinks + 1) - 1 = MaxLinks /\ MaxLinks <= n /\ ~(n <= MaxLinks)
    BY <1>2, <1>8
  <2>2. Links(g[MaxLinks]) # {}
    BY <2>1 DEF Follows
  <2> QED
    BY <1>1, <1>7, <2>1, <2>2 DEF At_
<1>9. CASE ~(MaxLinks < n)
  <2>1. (MaxLinks = n \/ ~(MaxLinks <= n)) /\ n <= MaxLinks
    BY <1>2, <1>9
  <2>2. At_(MaxLinks) = b
    BY <2>1 DEF At_
  <2> QED
    BY <1>1, <1>2, <1>7, <2>1, <2>2
<1> QED
  BY <1>8, <1>9

(* What it gets to is where the path ends up.                              *)
LEMMA OsEnds ==
  ASSUME LocalTypeOK, CleanTargets, NEW a \in Seq(Segment), OsPath(a) # Failed
  PROVE  \E n \in Nat : EndsIn(a, n)
<1>1. PICK f \in [0 .. MaxLinks -> Seq(Segment)] :
           /\ f[0] = a /\ \A k \in 1 .. MaxLinks : f[k] = Follow(f[k - 1])
           /\ OsPath(a) = IF Links(f[MaxLinks]) # {} \/ ThroughFile(f[MaxLinks])
                          THEN Failed ELSE f[MaxLinks]
  BY OsFollows
<1> DEFINE M == MaxLinks
           W == {q \in Seq(Segment) : \E n \in Nat : EndsIn(q, n)}
           h == [i \in 0 .. M |-> f[M - i]]
<1>2. M \in Nat
  BY LocalAssumption
<1>3. \A i \in 0 .. M : h[i] = f[M - i] /\ M - i \in 0 .. M /\ f[M - i] \in Seq(Segment)
  BY <1>2
<1> HIDE DEF h, M
<1>4. h[0] \in W
  <2>1. 0 \in 0 .. M /\ M - 0 = M /\ f[M] \in Seq(Segment) /\ h[0] = f[M]
    BY <1>2, <1>3
  <2>2. f[M] \in Real /\ Links(f[M]) = {}
    BY <1>1, <2>1 DEF Real, M
  <2>3. EndsIn(f[M], 0)
    BY <2>1, <2>2, EndsHere
  <2> QED
    BY <2>1, <2>3
<1>5. ASSUME NEW i \in 1 .. M, h[i - 1] \in W PROVE h[i] \in W
  <2> DEFINE k == M - i + 1
             p == f[k - 1]
  <2>1. /\ i \in 0 .. M /\ i - 1 \in 0 .. M /\ M - (i - 1) = k /\ M - i = k - 1
        /\ k \in 1 .. M
    BY <1>2
  <2>2. h[i] = p /\ h[i - 1] = f[k] /\ p \in Seq(Segment) /\ f[k] = Follow(p)
    BY <1>1, <1>3, <2>1 DEF M
  <2>3. PICK n \in Nat : EndsIn(Follow(p), n)
    BY <1>5, <2>2
  <2> HIDE DEF k, p
  <2>4. CASE Links(p) = {}
    BY <2>2, <2>3, <2>4 DEF Follow
  <2>5. CASE Links(p) # {}
    <3>1. n + 1 \in Nat /\ n + 1 # 0 /\ (n + 1) - 1 = n
      OBVIOUS
    <3>2. EndsIn(p, n + 1)
      <4>1. p \in Seq(Segment)
        BY <2>2
      <4>2. EndsIn(p, n + 1) <=> n + 1 # 0 /\ EndsIn(Follow(p), (n + 1) - 1)
        BY <2>5, <3>1, <4>1, EndsNext
      <4> QED
        BY <2>3, <3>1, <4>2
    <3> QED
      BY <2>2, <3>1, <3>2
  <2> QED
    BY <2>4, <2>5
<1> HIDE DEF W
<1>6. \A i \in 0 .. M : h[i] \in W
  BY <1>2, <1>4, <1>5, LoopKeeps
<1>7. h[M] = a
  <2>1. M \in 0 .. M /\ M - M = 0
    BY <1>2
  <2> QED
    BY <1>1, <1>3, <2>1
<1>8. M \in 0 .. M
  BY <1>2
<1> QED
  BY <1>6, <1>7, <1>8 DEF W

-----------------------------------------------------------------------------
(* Agreement                                                               *)

(* What resolveSymlinksPath answers is where the operating system ends up, *)
(* unless that gives up; what it fails for, so does the operating system.  *)
AnswersAgree ==
  \A p \in Path :
    IF resolveSymlinksPath(p) # Failed THEN OsPath(p) \in {resolveSymlinksPath(p), Failed}
    ELSE OsPath(p) = Failed

(* The operating system follows as many links as any path takes.           *)
LinksSuffice == \A p \in Path : \A n \in Nat : EndsIn(p, n) => n <= MaxLinks

(* Where an answer leads, in how many links.                               *)
LEMMA AnswersLead ==
  ASSUME LocalInv, CleanTargets, NEW p \in Path, resolveSymlinksPath(p) # Failed
  PROVE  \E n \in Nat : /\ EndsIn(p, n)
                        /\ OsPath(p) = IF n <= MaxLinks THEN resolveSymlinksPath(p) ELSE Failed
<1> DEFINE r == Resolved[{}]
           b == resolveSymlinksPath(p)
<1>1. r \in [Targets -> Answers] /\ \A t \in Targets : r[t] # Failed => Reaches(t, r[t])
  BY ResolvedAnswers, ResolvedReaches DEF LocalInv
<1>2. p \in Seq(Segment) /\ b = resolveSymlinksRecursive(p, r)
  BY PathsTyped DEF resolveSymlinksPath
<1>3. b \in Real
  BY <1>2, ResolvesToReal DEF LocalInv, Answers
<1> HIDE DEF r
<1>4. Reaches(p, b)
  BY <1>1, <1>2, ResolveReaches DEF LocalInv
<1> HIDE DEF b
<1>5. PICK n \in Nat : \E g : Follows(g, n) /\ g[0] = p /\ g[n] = b
  BY <1>4 DEF Reaches
<1>6. PICK g : Follows(g, n) /\ g[0] = p /\ g[n] = b
  BY <1>5
<1>7. EndsIn(p, n)
  BY <1>3, <1>6 DEF EndsIn
<1>8. OsPath(p) = IF n <= MaxLinks THEN b ELSE Failed
  BY <1>2, <1>3, <1>6, OsReaches DEF LocalInv
<1> QED
  BY <1>7, <1>8 DEF b

LEMMA FailuresAgree ==
  ASSUME LocalInv, CleanTargets, NEW p \in Path, resolveSymlinksPath(p) = Failed
  PROVE  OsPath(p) = Failed
<1> SUFFICES ASSUME OsPath(p) # Failed
             PROVE  FALSE
  OBVIOUS
<1> DEFINE none == {}
           r == Resolved[none]
<1>1. p \in Seq(Segment) /\ resolveSymlinksPath(p) = resolveSymlinksRecursive(p, r)
  BY PathsTyped DEF resolveSymlinksPath
<1>2. PICK n \in Nat : EndsIn(p, n)
  BY <1>1, OsEnds DEF LocalInv
<1>3. none \in SUBSET Targets /\ \A s \in none : FALSE
  OBVIOUS
<1> HIDE DEF none
<1>4. /\ r \in [Targets -> Answers] /\ \A t \in Targets : r[t] # Failed => Reaches(t, r[t])
      /\ \A t \in Targets : \A j \in Nat : j < n /\ EndsIn(t, j) => r[t] # Failed
  BY <1>3, ResolvedAnswers, ResolvedReaches, EndsResolved DEF LocalInv
<1> HIDE DEF r
<1>5. resolveSymlinksRecursive(p, r) # Failed
  BY <1>1, <1>2, <1>4, LoopEnds DEF LocalInv
<1> QED
  BY <1>1, <1>5

(* Where the texts of links mean to core.Path what they mean to the        *)
(* operating system, resolving a path never leads elsewhere than that      *)
(* goes, and never fails but for a path that leads nowhere: chains,        *)
(* cycles, relative texts and links in targets included.                   *)
THEOREM ResolvingAgrees == LocalSpec => [](CleanTargets => AnswersAgree)
<1>1. LocalInv => (CleanTargets => AnswersAgree)
  <2> SUFFICES ASSUME LocalInv, CleanTargets, NEW p \in Path
               PROVE  IF resolveSymlinksPath(p) # Failed
                      THEN OsPath(p) \in {resolveSymlinksPath(p), Failed}
                      ELSE OsPath(p) = Failed
    BY DEF AnswersAgree
  <2> QED
    BY AnswersLead, FailuresAgree
<1> QED
  BY <1>1, LocalAlways, PTL

(* It agrees entirely where the operating system does not give up too      *)
(* soon either: the code itself counts no links.                           *)
THEOREM ResolvingAlwaysAgrees == LocalSpec /\ []LinksSuffice => []ResolveAgrees
<1>1. LocalInv /\ LinksSuffice => ResolveAgrees
  <2> SUFFICES ASSUME LocalInv, LinksSuffice, CleanTargets, NEW p \in Path
               PROVE  resolveSymlinksPath(p) = OsPath(p)
    BY DEF ResolveAgrees
  <2>1. CASE resolveSymlinksPath(p) = Failed
    BY <2>1, FailuresAgree
  <2>2. CASE resolveSymlinksPath(p) # Failed
    BY <2>2, AnswersLead DEF LinksSuffice
  <2> QED
    BY <2>1, <2>2
<1> QED
  BY <1>1, LocalAlways, PTL
=============================================================================
