SPECIFICATION FairSpec
CONSTANTS
  t1 = t1
  t2 = t2
  s1 = s1
  s2 = s2
  Thread = {t1, t2}
  Service = {s1}
  Serves <- OneService
  Workspace = {w1, w2}
  BadWorkspace = badWorkspace
  File = {f1}
  BadFile = badFile
  Key = {k1, k2}
  Content = {c1}
  NoThread = noThread
  NoWorkspace = noWorkspace
  NoKey = noKey
  NoFile = noFile
  NoContent = noContent
  Absent = absent
  Lost = lost
INVARIANT FilesDecryptable
INVARIANT ReadsDecrypt
INVARIANT LayoutBeforeKey
PROPERTY KeyReplacedOnlyMisled
PROPERTY VaultSpec
PROPERTY CallsReturn
