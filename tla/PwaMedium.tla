----------------------------- MODULE PwaMedium -----------------------------
(***************************************************************************)
(* pwa.Medium (src/go/pkg/medium/pwa/pwa.go): a read-only view of a web    *)
(* application that the first call to need it downloads.  Callers run at   *)
(* the same time; ensureDataNode tests the field under RLock and again     *)
(* under Lock, which is held through the download.  A download that fails  *)
(* leaves the next caller to try again.  The site, and thus what each      *)
(* download yields, is external.                                           *)
(***************************************************************************)
EXTENDS Naturals

CONSTANTS
  Caller,     \* the goroutines that call the medium
  MaxDownloads,  \* bound on the downloads that succeed
  NoDataNode

ASSUME PwaAssumption ==
  /\ MaxDownloads \in Nat
  /\ NoDataNode \notin Nat

VARIABLES
  dataNode,   \* the number of the download that is kept, or NoDataNode
  downloads,  \* how many downloads have succeeded
  pc,         \* where each caller is
  using       \* the download each caller's answer comes from, or NoDataNode

pwaVars == <<dataNode, downloads, pc, using>>

(* Every variable holds a value of its kind.                               *)
PwaTypeOK ==
  /\ dataNode \in Nat \cup {NoDataNode}
  /\ downloads \in 0 .. MaxDownloads
  /\ pc \in [Caller -> {"idle", "test", "lock", "retest", "manifest", "download", "answer"}]
  /\ using \in [Caller -> Nat \cup {NoDataNode}]

PwaInit ==
  /\ dataNode = NoDataNode
  /\ downloads = 0
  /\ pc = [c \in Caller |-> "idle"]
  /\ using = [c \in Caller |-> NoDataNode]

Goes(c, from, to) == pc[c] = from /\ pc' = [pc EXCEPT ![c] = to]

Unlocked == \A c \in Caller : pc[c] \notin {"retest", "manifest", "download"}

(* Read, List, Stat, Open and what uses them.  Everything that would write *)
(* is refused before it comes to this.                                     *)
Call(c) ==
  /\ Goes(c, "idle", "test")
  /\ UNCHANGED <<dataNode, downloads, using>>

(* ensureDataNode returns the node, and its caller answers from it.        *)
Use(c) ==
  /\ using' = [using EXCEPT ![c] = dataNode]
  /\ UNCHANGED <<dataNode, downloads>>

(* medium.mu.RLock() ... RUnlock()                                         *)
Test(c) ==
  /\ Unlocked
  /\ IF dataNode # NoDataNode
     THEN Goes(c, "test", "answer") /\ Use(c)
     ELSE Goes(c, "test", "lock") /\ UNCHANGED <<dataNode, downloads, using>>

Lock(c) ==
  /\ Unlocked
  /\ Goes(c, "lock", "retest")
  /\ UNCHANGED <<dataNode, downloads, using>>

(* Mutant: the field is not tested again.                                  *)
RetestNothing(c) ==
  /\ Goes(c, "retest", "manifest")
  /\ UNCHANGED <<dataNode, downloads, using>>

Retest(c) ==
  IF dataNode # NoDataNode
  THEN Goes(c, "retest", "answer") /\ Use(c)
  ELSE Goes(c, "retest", "manifest") /\ UNCHANGED <<dataNode, downloads, using>>

FindManifest(c) ==
  /\ Goes(c, "manifest", "download") \/ Goes(c, "manifest", "idle")
  /\ UNCHANGED <<dataNode, downloads, using>>

DownloadAndPackagePWA(c) ==
  \/ /\ downloads < MaxDownloads
     /\ Goes(c, "download", "answer")
     /\ downloads' = downloads + 1
     /\ dataNode' = downloads'
     /\ using' = [using EXCEPT ![c] = dataNode']
  \/ Goes(c, "download", "idle") /\ UNCHANGED <<dataNode, downloads, using>>

(* The asset is looked up in the node, which never changes.                *)
Answers(c) ==
  /\ Goes(c, "answer", "idle")
  /\ using' = [using EXCEPT ![c] = NoDataNode]
  /\ UNCHANGED <<dataNode, downloads>>

PwaNext ==
  \E c \in Caller :
    \/ Call(c) \/ Test(c) \/ Lock(c) \/ Retest(c)
    \/ FindManifest(c) \/ DownloadAndPackagePWA(c) \/ Answers(c)

PwaSpec == PwaInit /\ [][PwaNext]_pwaVars

-----------------------------------------------------------------------------
(* Properties                                                              *)

(* What callers see comes from one download, for ever: nobody replaces a   *)
(* node that another caller already answers from.  (ensureDataNode)        *)
OneDownload == [][\A c \in Caller : using'[c] # NoDataNode /\ dataNode # NoDataNode
                                     => using'[c] = dataNode]_pwaVars
=============================================================================
