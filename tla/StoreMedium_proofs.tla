------------------------- MODULE StoreMedium_proofs -------------------------
(***************************************************************************)
(* Theorems about StoreMedium for every set of clients, entries and values.*)
(***************************************************************************)
EXTENDS StoreMedium, Paths_proofs

(* A call under way has its two entries, different ones for a Rename, and  *)
(* no result yet.                                                          *)
CallUnderwayAt(c) ==
  /\ step[c] # "idle" => path[c] \in Paths
  /\ step[c] \in {"set", "delete"} => result[c] = "none" /\ path[c].old # path[c].new
  /\ step[c] # "writer" /\ path[c] # NoPath => path[c] \in Paths /\ path[c].old # path[c].new

CallUnderway == \A c \in Client : CallUnderwayAt(c)

(* The inductive invariant.                                                *)
StoreInv == TypeOK /\ CallUnderway /\ RenameKeepsValue /\ AppendExtends

-----------------------------------------------------------------------------
LEMMA InitInv == Init => StoreInv
<1> SUFFICES ASSUME Init
             PROVE  StoreInv
  OBVIOUS
<1>1. TypeOK
  <2>1. entries \in [Entry -> Seq(Chunk) \cup {NoValue}] /\ value \in [Client -> Seq(Chunk)]
    BY DEF Init
  <2>2. path \in [Client -> Paths \cup {NoPath}]
    BY DEF Init
  <2> QED
    BY <2>1, <2>2 DEF Init, TypeOK
<1>2. CallUnderway /\ RenameKeepsValue /\ AppendExtends
  BY DEF Init, CallUnderway, CallUnderwayAt, RenameKeepsValue, RenameKeepsValueAt, AppendExtends,
         AppendExtendsAt
<1> QED
  BY <1>1, <1>2 DEF StoreInv

LEMMA TypeStep == TypeOK /\ CallUnderway /\ [Next]_vars => TypeOK'
<1> SUFFICES ASSUME TypeOK, CallUnderway, [Next]_vars
             PROVE  TypeOK'
  OBVIOUS
<1> USE DEF TypeOK
<1>1. CASE UNCHANGED vars
  BY <1>1 DEF vars
<1>2. CASE Crash
  BY <1>2 DEF Crash
<1>3. ASSUME NEW c \in Client, NEW e \in Entry, NEW v \in Payload, Write(c, e, v) PROVE TypeOK'
  BY <1>3, StoreAssumption DEF Write, BeginCall, Set, WorkingOn
<1>4. ASSUME NEW c \in Client, NEW e \in Entry, Delete(c, e) PROVE TypeOK'
  BY <1>4 DEF Delete, BeginCall, DeleteEntries, WorkingOn
<1>5. ASSUME NEW c \in Client, NEW group \in Group, DeleteAll(c, group) PROVE TypeOK'
  BY <1>5 DEF DeleteAll, BeginCall, DeleteEntries, WorkingOn
<1>6. ASSUME NEW c \in Client, NEW e \in Entry, Append_(c, e) PROVE TypeOK'
  <2>1. (IF entries[e] = NoValue THEN <<>> ELSE entries[e]) \in Seq(Chunk)
    OBVIOUS
  <2>2. [old |-> e, new |-> e] \in Paths
    BY DEF Paths
  <2> QED
    BY <1>6, <2>1, <2>2 DEF Append_, OpenWriter
<1>7. ASSUME NEW c \in Client, NEW e \in Entry, NEW new \in Entry, RenameGet(c, e, new) PROVE TypeOK'
  <2>1. [old |-> e, new |-> new] \in Paths
    BY DEF Paths
  <2> QED
    BY <1>7, <2>1 DEF RenameGet
<1>8. ASSUME NEW c \in Client, RenameSet(c) PROVE TypeOK'
  BY <1>8 DEF RenameSet, Set, WorkingOn
<1>9. ASSUME NEW c \in Client, RenameDelete(c) PROVE TypeOK'
  BY <1>9 DEF RenameDelete, RenameEnds, DeleteEntries, WorkingOn
<1>10. ASSUME NEW c \in Client, RenameFails(c) PROVE TypeOK'
  BY <1>10 DEF RenameFails, RenameEnds
<1>11. ASSUME NEW c \in Client, NEW x \in Chunk, WriterWrite(c, x) PROVE TypeOK'
  <2>1. Append(value[c], x) \in Seq(Chunk)
    OBVIOUS
  <2> QED
    BY <1>11, <2>1 DEF WriterWrite
<1>12. ASSUME NEW c \in Client, WriterClose(c) PROVE TypeOK'
  BY <1>12 DEF WriterClose, Set, WorkingOn
<1>13. ASSUME NEW c \in Client, WriterDrop(c) PROVE TypeOK'
  BY <1>13 DEF WriterDrop
<1> QED
  BY <1>1, <1>2, <1>3, <1>4, <1>5, <1>6, <1>7, <1>8, <1>9, <1>10, <1>11, <1>12, <1>13
     DEF Next, ClientCalls

(* The local state of a client changes only by its own steps and a crash.  *)
Local(d) == <<step[d], path[d], value[d], result[d]>>

LEMMA OthersKeepLocal ==
  ASSUME TypeOK, NEW c \in Client, ClientCalls(c), NEW d \in Client, d # c
  PROVE  UNCHANGED Local(d)
BY DEF TypeOK, ClientCalls, Write, Delete, DeleteAll, BeginCall, Append_, OpenWriter, RenameGet, RenameSet,
       RenameDelete, RenameFails, RenameEnds, WriterWrite, WriterClose, WriterDrop, Local

(* Unless the step of another client marks d, d's entries are unchanged.   *)
LEMMA OthersMark ==
  ASSUME TypeOK, NEW c \in Client, ClientCalls(c), NEW d \in Client, d # c,
         path[d] \in Paths, d \notin touched'
  PROVE  /\ d \notin touched
         /\ entries'[path[d].old] = entries[path[d].old]
         /\ entries'[path[d].new] = entries[path[d].new]
<1>1. path[d].old \in Entry /\ path[d].new \in Entry
  BY DEF Paths
<1>2. ASSUME NEW e, NEW v, Set(c, e, v)
      PROVE  /\ d \notin touched
             /\ entries'[path[d].old] = entries[path[d].old]
             /\ entries'[path[d].new] = entries[path[d].new]
  BY <1>1, <1>2 DEF Set, WorkingOn, TypeOK
<1>3. ASSUME NEW E, DeleteEntries(c, E)
      PROVE  /\ d \notin touched
             /\ entries'[path[d].old] = entries[path[d].old]
             /\ entries'[path[d].new] = entries[path[d].new]
  BY <1>1, <1>3 DEF DeleteEntries, WorkingOn
<1>4. CASE entries' = entries /\ touched \subseteq touched' \cup {c}
  BY <1>4
<1> QED
  BY <1>2, <1>3, <1>4
     DEF ClientCalls, Write, Delete, DeleteAll, Append_, OpenWriter, RenameGet, RenameSet, RenameDelete,
         RenameFails, WriterWrite, WriterClose, WriterDrop

LEMMA UnderwayStep == TypeOK /\ CallUnderway /\ [Next]_vars => CallUnderway'
<1> SUFFICES ASSUME TypeOK, CallUnderway, [Next]_vars, NEW d \in Client
             PROVE  CallUnderwayAt(d)'
  BY DEF CallUnderway
<1>1. CASE UNCHANGED vars
  BY <1>1 DEF vars, CallUnderway, CallUnderwayAt
<1>2. CASE Crash
  BY <1>2 DEF Crash, CallUnderway, CallUnderwayAt, TypeOK
<1>3. ASSUME NEW c \in Client, ClientCalls(c), c # d PROVE CallUnderwayAt(d)'
  BY <1>3, OthersKeepLocal DEF Local, CallUnderway, CallUnderwayAt
<1>4. CASE ClientCalls(d)
  <2>1. CASE BeginCall(d)
    BY <2>1 DEF BeginCall, CallUnderwayAt, TypeOK
  <2>2. ASSUME NEW e \in Entry, NEW data, OpenWriter(d, e, data) PROVE CallUnderwayAt(d)'
    BY <2>2 DEF OpenWriter, CallUnderwayAt, TypeOK, Paths
  <2>3. ASSUME NEW e \in Entry, NEW new \in Entry, RenameGet(d, e, new) PROVE CallUnderwayAt(d)'
    <3>1. [old |-> e, new |-> new] \in Paths
      BY DEF Paths
    <3> QED
      BY <2>3, <3>1 DEF RenameGet, CallUnderwayAt, TypeOK
  <2>4. ASSUME NEW r \in {"ok", "failed"}, step[d] \in {"set", "delete"}, RenameEnds(d, r)
        PROVE  CallUnderwayAt(d)'
    BY <2>4 DEF RenameEnds, CallUnderway, CallUnderwayAt, TypeOK
  <2>5. CASE RenameSet(d)
    BY <2>5 DEF RenameSet, CallUnderway, CallUnderwayAt, TypeOK
  <2>6. CASE WriterDrop(d)
    BY <2>6 DEF WriterDrop, CallUnderway, CallUnderwayAt, TypeOK
  <2>7. CASE WriterClose(d) \/ \E x \in Chunk : WriterWrite(d, x)
    BY <2>7 DEF WriterClose, WriterWrite, CallUnderway, CallUnderwayAt
  <2> QED
    BY <1>4, <2>1, <2>2, <2>3, <2>4, <2>5, <2>6, <2>7
       DEF ClientCalls, Write, Delete, DeleteAll, Append_, RenameDelete, RenameFails
<1> QED
  BY <1>1, <1>2, <1>3, <1>4 DEF Next

LEMMA KeepsStep == StoreInv /\ [Next]_vars => RenameKeepsValue'
<1> SUFFICES ASSUME StoreInv, [Next]_vars, NEW d \in Client
             PROVE  RenameKeepsValueAt(d)'
  BY DEF RenameKeepsValue
<1> USE DEF StoreInv
<1>0. RenameKeepsValueAt(d) /\ CallUnderwayAt(d)
  BY DEF RenameKeepsValue, CallUnderway
<1>1. CASE UNCHANGED vars
  BY <1>0, <1>1 DEF vars, RenameKeepsValueAt
<1>2. CASE Crash
  BY <1>0, <1>2 DEF Crash, RenameKeepsValueAt, CallUnderwayAt, TypeOK
<1>3. ASSUME NEW c \in Client, ClientCalls(c), c # d PROVE RenameKeepsValueAt(d)'
  <2>1. UNCHANGED Local(d)
    BY <1>3, OthersKeepLocal
  <2>2. CASE path[d] \in Paths /\ d \notin touched'
    BY <1>0, <1>3, <2>1, <2>2, OthersMark DEF RenameKeepsValueAt, Local
  <2>3. CASE d \in touched' \/ step[d] = "writer" \/ path[d] = NoPath
    BY <2>1, <2>3 DEF RenameKeepsValueAt, Local
  <2> QED
    BY <1>0, <2>2, <2>3 DEF CallUnderwayAt
<1>4. CASE ClientCalls(d)
  <2>1. CASE BeginCall(d)
    BY <2>1 DEF BeginCall, RenameKeepsValueAt, TypeOK
  <2>2. ASSUME NEW e \in Entry, NEW data, OpenWriter(d, e, data) PROVE RenameKeepsValueAt(d)'
    BY <2>2 DEF OpenWriter, RenameKeepsValueAt, TypeOK
  <2>3. ASSUME NEW e \in Entry, NEW new \in Entry, RenameGet(d, e, new) PROVE RenameKeepsValueAt(d)'
    BY <2>3 DEF RenameGet, RenameKeepsValueAt, TypeOK
  <2>4. CASE RenameSet(d)
    <3>1. path[d].old \in Entry /\ path[d].new \in Entry /\ path[d].old # path[d].new
      BY <1>0, <2>4 DEF RenameSet, CallUnderwayAt, Paths
    <3> QED
      BY <1>0, <2>4, <3>1 DEF RenameSet, Set, RenameKeepsValueAt, CallUnderwayAt, TypeOK
  <2>5. CASE RenameDelete(d)
    <3>1. path[d].old \in Entry /\ path[d].new \in Entry
      BY <1>0, <2>5 DEF RenameDelete, CallUnderwayAt, Paths
    <3> QED
      BY <1>0, <2>5, <3>1 DEF RenameDelete, DeleteEntries, RenameEnds, RenameKeepsValueAt,
                              CallUnderwayAt, TypeOK
  <2>6. CASE RenameFails(d)
    BY <1>0, <2>6 DEF RenameFails, RenameEnds, RenameKeepsValueAt, CallUnderwayAt, TypeOK
  <2>7. CASE WriterDrop(d)
    BY <2>7 DEF WriterDrop, RenameKeepsValueAt, TypeOK
  <2>8. CASE WriterClose(d) \/ \E x \in Chunk : WriterWrite(d, x)
    BY <2>8 DEF WriterClose, WriterWrite, RenameKeepsValueAt
  <2> QED
    BY <1>4, <2>1, <2>2, <2>3, <2>4, <2>5, <2>6, <2>7, <2>8
       DEF ClientCalls, Write, Delete, DeleteAll, Append_
<1> QED
  BY <1>1, <1>2, <1>3, <1>4 DEF Next

LEMMA ExtendsStep == StoreInv /\ [Next]_vars => AppendExtends'
<1> SUFFICES ASSUME StoreInv, [Next]_vars, NEW d \in Client
             PROVE  AppendExtendsAt(d)'
  BY DEF AppendExtends
<1> USE DEF StoreInv
<1>0. AppendExtendsAt(d) /\ CallUnderwayAt(d)
  BY DEF AppendExtends, CallUnderway
<1>1. CASE UNCHANGED vars
  BY <1>0, <1>1 DEF vars, AppendExtendsAt
<1>2. CASE step'[d] # "writer"
  BY <1>2 DEF AppendExtendsAt
<1>3. ASSUME NEW c \in Client, ClientCalls(c), c # d PROVE AppendExtendsAt(d)'
  <2>1. UNCHANGED Local(d)
    BY <1>3, OthersKeepLocal
  <2>2. CASE path[d] \in Paths /\ d \notin touched'
    BY <1>0, <1>3, <2>1, <2>2, OthersMark DEF AppendExtendsAt, Local
  <2>3. CASE d \in touched' \/ step[d] = "idle"
    BY <2>1, <2>3 DEF AppendExtendsAt, Local
  <2> QED
    BY <1>0, <2>2, <2>3 DEF CallUnderwayAt
<1>4. ASSUME NEW e \in Entry, Append_(d, e) PROVE AppendExtendsAt(d)'
  BY <1>4, PrefixOfSelf DEF Append_, OpenWriter, AppendExtendsAt, TypeOK
<1>5. ASSUME NEW x \in Chunk, WriterWrite(d, x) PROVE AppendExtendsAt(d)'
  <2>1. path[d].new \in Entry
    BY <1>0, <1>5 DEF WriterWrite, CallUnderwayAt, Paths
  <2> QED
    BY <1>0, <1>5, <2>1, PrefixOfAppend DEF WriterWrite, AppendExtendsAt, TypeOK
<1>6. CASE WriterClose(d)
  <2>1. path[d].new \in Entry
    BY <1>0, <1>6 DEF WriterClose, CallUnderwayAt, Paths
  <2> QED
    BY <1>6, <2>1, PrefixOfSelf DEF WriterClose, Set, AppendExtendsAt, TypeOK
<1>7. CASE ClientCalls(d)
  <2>1. \/ step'[d] # "writer"
        \/ \E e \in Entry : Append_(d, e)
        \/ \E x \in Chunk : WriterWrite(d, x)
        \/ WriterClose(d)
    BY <1>7 DEF ClientCalls, Write, Delete, DeleteAll, BeginCall, RenameGet, RenameSet, RenameDelete,
                RenameFails, RenameEnds, WriterDrop, TypeOK
  <2> QED
    BY <1>2, <1>4, <1>5, <1>6, <2>1
<1>8. CASE Crash
  BY <1>2, <1>8 DEF Crash
<1> QED
  BY <1>1, <1>3, <1>7, <1>8 DEF Next

LEMMA StoreAlways == Spec => []StoreInv
<1>1. StoreInv /\ [Next]_vars => StoreInv'
  BY TypeStep, UnderwayStep, KeepsStep, ExtendsStep DEF StoreInv
<1> QED
  BY InitInv, <1>1, PTL DEF Spec

(* Every variable keeps its type.                                          *)
THEOREM TypeCorrect == Spec => []TypeOK
<1>1. StoreInv => TypeOK
  BY DEF StoreInv
<1> QED
  BY <1>1, StoreAlways, PTL

(* A Rename that no other client disturbs never loses the value it moves,  *)
(* whichever statement fails and wherever the process crashes.             *)
THEOREM RenamesKeepValues == Spec => []RenameKeepsValue
<1>1. StoreInv => RenameKeepsValue
  BY DEF StoreInv
<1> QED
  BY <1>1, StoreAlways, PTL

(* An appending writer that no other client disturbs extends its entry.    *)
THEOREM AppendsExtend == Spec => []AppendExtends
<1>1. StoreInv => AppendExtends
  BY DEF StoreInv
<1> QED
  BY <1>1, StoreAlways, PTL

-----------------------------------------------------------------------------
(* One client                                                              *)

OneClient == \A c, d \in Client : c = d

(* The only client is never disturbed, and its store is never emptied.     *)
AloneInv == touched = {} /\ NeverEmptied

LEMMA AloneStep == OneClient /\ StoreInv /\ AloneInv /\ [Next]_vars => AloneInv'
<1> SUFFICES ASSUME OneClient, StoreInv, AloneInv, [Next]_vars
             PROVE  AloneInv'
  OBVIOUS
<1> USE DEF StoreInv
<1>1. CASE entries' = entries /\ filled' = filled /\ touched' \subseteq touched
  BY <1>1 DEF AloneInv, NeverEmptied
<1>2. ASSUME NEW c \in Client, NEW e \in Entry, NEW v \in Seq(Chunk), Set(c, e, v) PROVE AloneInv'
  BY <1>2, StoreAssumption DEF Set, WorkingOn, OneClient, AloneInv, NeverEmptied, TypeOK
<1>3. ASSUME NEW c \in Client, RenameDelete(c) PROVE AloneInv'
  <2>1. /\ c \notin touched /\ RenameKeepsValueAt(c) /\ CallUnderwayAt(c)
    BY <1>3 DEF AloneInv, RenameKeepsValue, CallUnderway
  <2>2. /\ path[c].old \in Entry /\ path[c].new \in Entry /\ path[c].old # path[c].new
        /\ step[c] = "delete"
    BY <1>3, <2>1 DEF RenameDelete, CallUnderwayAt, Paths
  <2>3. filled' = filled /\ touched' = {}
    BY <1>3 DEF RenameDelete, DeleteEntries, WorkingOn, OneClient, AloneInv
  <2>4. CASE path[c] = NoPath
    BY <2>2, <2>4 DEF NoPath
  <2>5. CASE path[c] # NoPath
    <3>1. entries[path[c].new] = value[c] /\ value[c] # NoValue
      BY <2>1, <2>2, <2>5, StoreAssumption DEF RenameKeepsValueAt, TypeOK
    <3>2. entries'[path[c].new] # NoValue
      BY <1>3, <2>2, <3>1 DEF RenameDelete, DeleteEntries
    <3> QED
      BY <2>2, <2>3, <3>2 DEF AloneInv, NeverEmptied
  <2> QED
    BY <2>4, <2>5
<1>4. ASSUME NEW c \in Client, NEW E, DeleteEntries(c, E), "delete" \in Operations PROVE AloneInv'
  BY <1>4 DEF DeleteEntries, WorkingOn, OneClient, AloneInv, NeverEmptied
<1>5. ASSUME NEW c \in Client, ClientCalls(c) PROVE AloneInv'
  <2>1. CASE \E e \in Entry, v \in Payload : Write(c, e, v)
    BY <1>2, <2>1, StoreAssumption DEF Write
  <2>2. CASE (\E e \in Entry : Delete(c, e)) \/ (\E group \in Group : DeleteAll(c, group))
    BY <1>4, <2>2 DEF Delete, DeleteAll
  <2>3. CASE RenameSet(c) \/ WriterClose(c)
    <3>1. path[c].new \in Entry /\ value[c] \in Seq(Chunk)
      BY <2>3 DEF RenameSet, WriterClose, CallUnderway, CallUnderwayAt, Paths, TypeOK
    <3> QED
      BY <1>2, <2>3, <3>1 DEF RenameSet, WriterClose
  <2> QED
    BY <1>1, <1>3, <1>5, <2>1, <2>2, <2>3
       DEF ClientCalls, Append_, OpenWriter, RenameGet, RenameFails, WriterWrite, WriterDrop
<1> QED
  BY <1>1, <1>5 DEF Next, Crash, vars

(* With a single client, only Delete and DeleteAll empty the store.        *)
THEOREM OneClientNeverEmpties == OneClient => (Spec => []NeverEmptied)
<1> SUFFICES ASSUME OneClient
             PROVE  Spec => []NeverEmptied
  OBVIOUS
<1>1. Init => AloneInv
  BY DEF Init, AloneInv, NeverEmptied
<1>2. StoreInv /\ AloneInv /\ [Next]_vars => AloneInv'
  BY AloneStep
<1>3. AloneInv => NeverEmptied
  BY DEF AloneInv
<1> QED
  BY <1>1, <1>2, <1>3, StoreAlways, PTL DEF Spec
=============================================================================
