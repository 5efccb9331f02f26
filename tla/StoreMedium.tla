---------------------------- MODULE StoreMedium ----------------------------
(***************************************************************************)
(* store.Medium (src/go/store/medium.go) over KeyValueStore                *)
(* (src/go/store/store.go): one table of entries in an embedded database,  *)
(* called by any number of goroutines.  Each SQL statement is a step; it   *)
(* may fail, and then changes nothing.  A call of several statements is    *)
(* not a transaction: others run between them, and a crash ends the        *)
(* process between any two.                                                *)
(***************************************************************************)
EXTENDS Naturals, SequencesExt

CONSTANTS
  Client,      \* the goroutines that call
  Group, Key,  \* the groups and the keys in them
  Chunk,       \* what one Write call of a writer appends
  Payload,     \* the values callers pass to Write
  MaxLen,      \* bound on the length of a writer's buffer
  Operations,  \* the operations callers use
  NoValue

ASSUME StoreAssumption ==
  /\ Payload \subseteq Seq(Chunk)
  /\ MaxLen \in Nat
  /\ Operations \subseteq {"write", "delete", "rename", "append"}
  /\ NoValue \notin Seq(Chunk)

VARIABLES
  entries,  \* the table: the value at each entry, or NoValue
  step,     \* the statement of its call a client has reached
  path,     \* the entries its Rename moves from and to, or its writer's
  value,    \* what its Rename read, or its writer's buffer
  result,   \* how its last Rename ended
  touched,  \* history: the clients whose entries another client changed
  filled    \* history: something has been stored

vars == <<entries, step, path, value, result, touched, filled>>

Entry == Group \X Key
NoPath == [old |-> NoValue, new |-> NoValue]
Paths == [old : Entry, new : Entry]

(* Every variable holds a value of its kind.                               *)
TypeOK ==
  /\ entries \in [Entry -> Seq(Chunk) \cup {NoValue}]
  /\ step \in [Client -> {"idle", "set", "delete", "writer"}]
  /\ path \in [Client -> Paths \cup {NoPath}]
  /\ value \in [Client -> Seq(Chunk)]
  /\ result \in [Client -> {"none", "ok", "failed", "crashed"}]
  /\ touched \subseteq Client
  /\ filled \in BOOLEAN

Init ==
  /\ entries = [e \in Entry |-> NoValue]
  /\ step = [c \in Client |-> "idle"]
  /\ path = [c \in Client |-> NoPath]
  /\ value = [c \in Client |-> <<>>]
  /\ result = [c \in Client |-> "none"]
  /\ touched = {}
  /\ filled = FALSE

-----------------------------------------------------------------------------
(* Statements                                                              *)

(* The clients other than c that are at work on one of the entries E.      *)
WorkingOn(c, E) == {d \in Client \ {c} : {path[d].old, path[d].new} \cap E # {}}

Set(c, e, v) ==
  /\ entries' = [entries EXCEPT ![e] = v]
  /\ touched' = touched \cup WorkingOn(c, {e})
  /\ filled' = TRUE

(* Delete of one entry, DeleteGroup of all the entries of a group.         *)
DeleteEntries(c, E) ==
  /\ entries' = [e \in Entry |-> IF e \in E THEN NoValue ELSE entries[e]]
  /\ touched' = touched \cup WorkingOn(c, E)
  /\ UNCHANGED filled

(* The client has no call in progress; its last Rename is forgotten.       *)
BeginCall(c) ==
  /\ step[c] = "idle"
  /\ path' = [path EXCEPT ![c] = NoPath]
  /\ value' = [value EXCEPT ![c] = <<>>]
  /\ result' = [result EXCEPT ![c] = "none"]
  /\ UNCHANGED step

RenameEnds(c, r) ==
  /\ step' = [step EXCEPT ![c] = "idle"]
  /\ result' = [result EXCEPT ![c] = r]
  /\ UNCHANGED <<path, value>>

-----------------------------------------------------------------------------
(* Calls of one statement                                                  *)

Write(c, e, v) ==
  /\ "write" \in Operations
  /\ BeginCall(c) /\ Set(c, e, v)

Delete(c, e) ==
  /\ "delete" \in Operations
  /\ BeginCall(c) /\ DeleteEntries(c, {e})

(* DeleteAll of a group.  Delete of a group changes nothing: it fails when *)
(* the group has entries and has nothing to do when it has none.           *)
DeleteAll(c, group) ==
  /\ "delete" \in Operations
  /\ BeginCall(c) /\ DeleteEntries(c, {group} \X Key)

-----------------------------------------------------------------------------
(* Rename: Get, Set, Delete                                                *)

(* Returns, changing nothing, when the paths are the same or old is absent.*)
RenameGet(c, old, new) ==
  /\ "rename" \in Operations
  /\ step[c] = "idle"
  /\ old # new
  /\ entries[old] # NoValue
  /\ step' = [step EXCEPT ![c] = "set"]
  /\ path' = [path EXCEPT ![c] = [old |-> old, new |-> new]]
  /\ value' = [value EXCEPT ![c] = entries[old]]
  /\ result' = [result EXCEPT ![c] = "none"]
  /\ touched' = touched \ {c}
  /\ UNCHANGED <<entries, filled>>

RenameSet(c) ==
  /\ step[c] = "set"
  /\ Set(c, path[c].new, value[c])
  /\ step' = [step EXCEPT ![c] = "delete"]
  /\ UNCHANGED <<path, value, result>>

RenameDelete(c) ==
  /\ step[c] = "delete"
  /\ DeleteEntries(c, {path[c].old})
  /\ RenameEnds(c, "ok")

(* Mutant: an error of Set is not returned, the Delete still runs.         *)
RenameFailsLate(c) ==
  /\ step[c] = "set"
  /\ step' = [step EXCEPT ![c] = "delete"]
  /\ UNCHANGED <<entries, path, value, result, touched, filled>>

(* The Set or the Delete statement of a Rename returns an error.           *)
RenameFails(c) ==
  /\ step[c] \in {"set", "delete"}
  /\ RenameEnds(c, "failed")
  /\ UNCHANGED <<entries, touched, filled>>

-----------------------------------------------------------------------------
(* Writers                                                                 *)

OpenWriter(c, e, data) ==
  /\ "append" \in Operations
  /\ step[c] = "idle"
  /\ step' = [step EXCEPT ![c] = "writer"]
  /\ path' = [path EXCEPT ![c] = [old |-> e, new |-> e]]
  /\ value' = [value EXCEPT ![c] = data]
  /\ result' = [result EXCEPT ![c] = "none"]
  /\ touched' = touched \ {c}
  /\ UNCHANGED <<entries, filled>>

(* Mutant: the writer starts empty.                                        *)
AppendFromEmpty(c, e) == OpenWriter(c, e, <<>>)

(* Get gives the content to start from; NotFoundError starts from nothing. *)
Append_(c, e) ==
  OpenWriter(c, e, IF entries[e] = NoValue THEN <<>> ELSE entries[e])

WriterWrite(c, x) ==
  /\ step[c] = "writer"
  /\ Len(value[c]) < MaxLen
  /\ value' = [value EXCEPT ![c] = Append(@, x)]
  /\ UNCHANGED <<entries, step, path, result, touched, filled>>

WriterClose(c) ==
  /\ step[c] = "writer"
  /\ Set(c, path[c].new, value[c])
  /\ UNCHANGED <<step, path, value, result>>

(* The caller lets go of its writer, closed or not.                        *)
WriterDrop(c) ==
  /\ step[c] = "writer"
  /\ step' = [step EXCEPT ![c] = "idle"]
  /\ path' = [path EXCEPT ![c] = NoPath]
  /\ value' = [value EXCEPT ![c] = <<>>]
  /\ UNCHANGED <<entries, result, touched, filled>>

-----------------------------------------------------------------------------
(* The process ends: the table stays, the calls and writers are gone.      *)
Crash ==
  /\ \E c \in Client : step[c] # "idle"
  /\ step' = [c \in Client |-> "idle"]
  /\ path' = [c \in Client |-> IF step[c] = "writer" THEN NoPath ELSE path[c]]
  /\ result' = [c \in Client |-> IF step[c] \in {"set", "delete"} THEN "crashed" ELSE result[c]]
  /\ UNCHANGED <<entries, value, touched, filled>>

ClientCalls(c) ==
  \/ \E e \in Entry : \/ \E v \in Payload : Write(c, e, v)
                      \/ Delete(c, e)
                      \/ Append_(c, e)
                      \/ \E new \in Entry : RenameGet(c, e, new)
  \/ \E group \in Group : DeleteAll(c, group)
  \/ RenameSet(c) \/ RenameDelete(c) \/ RenameFails(c)
  \/ \E x \in Chunk : WriterWrite(c, x)
  \/ WriterClose(c) \/ WriterDrop(c)

Next == Crash \/ \E c \in Client : ClientCalls(c)

Spec == Init /\ [][Next]_vars

-----------------------------------------------------------------------------
(* Properties                                                              *)

(* As long as no other client changes its two entries, the value a Rename  *)
(* moves is at one of them after every statement, failure and crash; an ok *)
(* says it is at new alone, a failure that it is still at old.             *)
(* (Medium.Rename, which sets before it deletes.)                          *)
RenameKeepsValueAt(c) ==
  step[c] # "writer" /\ path[c] # NoPath /\ c \notin touched =>
    LET old == entries[path[c].old]
        new == entries[path[c].new] IN
    /\ result[c] = "ok" => new = value[c] /\ old = NoValue
    /\ result[c] # "ok" => old = value[c]
    /\ step[c] = "delete" => new = value[c]

RenameKeepsValue == \A c \in Client : RenameKeepsValueAt(c)

(* As long as no other client changes its entry, what a writer from Append *)
(* will store on Close begins with what the entry holds.  (Medium.Append,  *)
(* keyValueWriteCloser.)                                                   *)
AppendExtendsAt(c) ==
  step[c] = "writer" /\ c \notin touched /\ entries[path[c].new] # NoValue =>
    IsPrefix(entries[path[c].new], value[c])

AppendExtends == \A c \in Client : AppendExtendsAt(c)

(* A store in which something has been written, and nothing deleted, is    *)
(* not empty: each Rename leaves a value at its new path.  (Rename; true   *)
(* of one client, not of two that rename at the same time.)                *)
NeverEmptied ==
  filled /\ "delete" \notin Operations => \E e \in Entry : entries[e] # NoValue
=============================================================================
