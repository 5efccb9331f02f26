--------------------------- MODULE WorkspaceVault ---------------------------
(***************************************************************************)
(* What workspace.Service promises its callers, without locks, keys or     *)
(* ciphertext: a workspace is opened at most once and from then on holds,  *)
(* for each file, the plaintext last written to it, unless it is lost, for *)
(* good and alone.  EncryptedWorkspace implements this module and says     *)
(* what loses a workspace (see VaultSpec there).                           *)
(***************************************************************************)

CONSTANTS
  Workspace,  \* identifiers of workspaces
  File,       \* names of files inside a workspace
  Content,    \* plaintexts
  Absent,     \* a workspace that was never opened
  Lost,       \* a workspace of which nothing is promised any more
  NoContent   \* a file that was never written

VARIABLE vault  \* vault[w]: Absent, Lost, or the plaintext of each file of w

VaultTypeOK ==
  vault \in [Workspace -> {Absent, Lost} \cup [File -> Content \cup {NoContent}]]

Init == vault = [w \in Workspace |-> Absent]

(* CreateWorkspace succeeded: the workspace can be read and written.       *)
OpenVault(w) ==
  /\ vault[w] = Absent
  /\ vault' = [vault EXCEPT ![w] = [f \in File |-> NoContent]]

(* WriteWorkspaceFile succeeded.                                           *)
Put(w, f, c) ==
  /\ vault[w] \notin {Absent, Lost}
  /\ vault' = [vault EXCEPT ![w] = [@ EXCEPT ![f] = c]]

(* The Medium failed to tell that the workspace is there.                  *)
Lose(w) ==
  /\ vault[w] # Absent
  /\ vault' = [vault EXCEPT ![w] = Lost]

Next ==
  \E w \in Workspace :
    \/ OpenVault(w) \/ Lose(w)
    \/ \E f \in File, c \in Content : Put(w, f, c)

Spec == Init /\ [][Next]_vault
=============================================================================
