---------------------------- MODULE CubeArchive ----------------------------
(***************************************************************************)
(* cube.Pack and cube.Unpack (src/go/cube/cube.go) over a node.Node whose  *)
(* user synchronises the calls: Pack lists the directories and reads the   *)
(* files of a tree one call at a time, other calls change the tree between *)
(* them; Unpack writes the files of an archive one at a time.  Either may  *)
(* stop at any call.  The encryption is EncryptedWorkspace's; with another *)
(* key Unpack ends before it writes.                                       *)
(***************************************************************************)
EXTENDS NodeTree

CONSTANTS
  MaxChanged,  \* bound on the files other users change while a job runs
  NoJob

(* A Pack: the entries still to visit, what has been read; steady is       *)
(* history: the files nobody changed since it began.  An Unpack: the       *)
(* archive's contents, the files still to write; steady as well.           *)
Entry == [path : Seq(Segment), isDir : BOOLEAN]
Packing == [op : {"pack"}, todo : Seq(Entry), data : Contents, steady : SUBSET FilePath]
Unpacking == [op : {"unpack"}, todo : SUBSET FilePath, data : Contents, steady : SUBSET FilePath]

(* A directory in the root must not hold an entry of its own name, see     *)
(* archiveChildPath; a directory has finitely many entries.                *)
ASSUME CubeAssumption ==
  /\ IsFiniteSet(FilePath)
  /\ \A p \in FilePath : Len(p) > 1 => p[1] # p[2]
  /\ MaxChanged \in Nat
  /\ NoJob \notin Packing \cup Unpacking

VARIABLE job  \* the Pack or Unpack that runs, or NoJob

cubeVars == <<files, writer, saved, job>>

(* Every variable holds a value of its kind.                               *)
CubeTypeOK ==
  /\ NodeTypeOK
  /\ job \in Packing \cup Unpacking \cup {NoJob}

CubeInit == NodeInit /\ job = NoJob

-----------------------------------------------------------------------------
(* A call of another user of the tree, between two calls of the job.       *)
OtherCall ==
  /\ NodeNext
  /\ LET changed == {p \in FilePath : files'[p] # files[p]} IN
     IF job = NoJob THEN UNCHANGED job
     ELSE /\ Cardinality(FilePath \ (job.steady \ changed)) <= MaxChanged
          /\ job' = [job EXCEPT !.steady = @ \ changed]

(* A name equal to the parent's path is taken for a path already.          *)
archiveChildPath(parent, name) == IF parent = <<name>> THEN <<name>> ELSE Append(parent, name)

Pack ==
  /\ job = NoJob
  /\ job' = [op |-> "pack", todo |-> << [path |-> <<>>, isDir |-> TRUE] >>,
             data |-> [p \in FilePath |-> NoFile], steady |-> FilePath]
  /\ UNCHANGED nodeVars

Packs == job # NoJob /\ job.op = "pack"
AtEntry(isDir) == Packs /\ job.todo # <<>> /\ Head(job.todo).isDir = isDir

(* Mutant: what was still to visit is forgotten.                           *)
PackListAlone ==
  /\ AtEntry(TRUE)
  /\ LET d == Head(job.todo).path
         children == {[path |-> archiveChildPath(d, e.name), isDir |-> e.isDir] : e \in ReadDir(d)}
     IN IF IsDir(d)
        THEN \E entries \in SetToSeqs(children) : job' = [job EXCEPT !.todo = entries]
        ELSE job' = NoJob
  /\ UNCHANGED nodeVars

(* Lists a directory and goes on with its entries; none is an error, which *)
(* ends the job, except for the root.                                      *)
PackList ==
  /\ AtEntry(TRUE)
  /\ LET d == Head(job.todo).path
         children == {[path |-> archiveChildPath(d, e.name), isDir |-> e.isDir] : e \in ReadDir(d)}
     IN IF IsDir(d)
        THEN \E entries \in SetToSeqs(children) : job' = [job EXCEPT !.todo = entries \o Tail(@)]
        ELSE job' = NoJob
  /\ UNCHANGED nodeVars

PackRead ==
  /\ AtEntry(FALSE)
  /\ LET p == Head(job.todo).path IN
     job' = IF IsFile(p)
            THEN [job EXCEPT !.todo = Tail(@), !.data[p] = files[p].content]
            ELSE NoJob
  /\ UNCHANGED nodeVars

PackWrite ==
  /\ Packs /\ job.todo = <<>>
  /\ saved' = [format |-> "cube",
               entries |-> {Record(p, job.data[p]) : p \in {q \in FilePath : job.data[q] # NoFile}},
               tree |-> job.data]
  /\ job' = NoJob
  /\ UNCHANGED <<files, writer>>

Unpack ==
  /\ job = NoJob
  /\ saved # NoArchive /\ saved.format = "cube"
  /\ job' = [op |-> "unpack", todo |-> {e.name : e \in saved.entries},
             data |-> saved.tree, steady |-> FilePath]
  /\ UNCHANGED nodeVars

Unpacks == job # NoJob /\ job.op = "unpack"

(* Mutant: a file that is there already is left alone.                     *)
UnpackMissing ==
  /\ Unpacks
  /\ \E p \in job.todo :
       /\ files' = IF IsFile(p) THEN files ELSE [files EXCEPT ![p] = Record(p, job.data[p])]
       /\ job' = [job EXCEPT !.todo = @ \ {p}]
  /\ UNCHANGED <<writer, saved>>

UnpackFile ==
  /\ Unpacks
  /\ \E p \in job.todo :
       /\ files' = [files EXCEPT ![p] = Record(p, job.data[p])]
       /\ job' = [job EXCEPT !.todo = @ \ {p}]
  /\ UNCHANGED <<writer, saved>>

UnpackEnd ==
  /\ Unpacks /\ job.todo = {}
  /\ job' = NoJob
  /\ UNCHANGED nodeVars

Fails ==
  /\ job # NoJob
  /\ job' = NoJob
  /\ UNCHANGED nodeVars

CubeNext ==
  \/ OtherCall
  \/ Pack \/ PackList \/ PackRead \/ PackWrite
  \/ Unpack \/ UnpackFile \/ UnpackEnd
  \/ Fails

CubeSpec == CubeInit /\ [][CubeNext]_cubeVars

-----------------------------------------------------------------------------
(* Properties                                                              *)

(* A Pack that succeeds has archived every file that nobody changed while  *)
(* it ran with its content, and none that was missing all the time; what   *)
(* changes meanwhile may or may not be in.  (Pack,                         *)
(* addMediumPathToBorgDataNode; while no path is a file and a directory)   *)
PackKeepsSteadyFiles ==
  [][PackWrite /\ (\A p, q \in FilePath : ~Under(p, q)) =>
       \A p \in job.steady : saved'.tree[p] = Tree[p]]_cubeVars

(* An Unpack that succeeds leaves every archived file in the tree with its *)
(* archived content, unless somebody changed it meanwhile.  (Unpack,       *)
(* writeBorgDataNodeDir)                                                   *)
UnpackRestores ==
  [][UnpackEnd => \A p \in job.steady : job.data[p] # NoFile => Tree[p] = job.data[p]]_cubeVars
=============================================================================
