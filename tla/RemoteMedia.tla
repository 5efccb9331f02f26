---------------------------- MODULE RemoteMedia ----------------------------
(***************************************************************************)
(* The media whose files are at a server.  A package registers a factory   *)
(* under its scheme (register.go) and a program makes its mediums with the *)
(* factory it finds; the mediums of one scheme are in use here, and the    *)
(* state of the others stays as it was made.                               *)
(***************************************************************************)
EXTENDS S3Medium, PwaMedium

CONSTANTS Path, PathPairs, Collection, NotFound  \* of webdav

VARIABLES
  scheme,                \* the scheme whose factory is used
  resource, webdavCall   \* of webdav

Webdav == INSTANCE WebdavMedium WITH CanRename <- PathPairs, call <- webdavCall

ASSUME RemoteAssumption == Webdav!WebdavAssumption

webdavVars == <<resource, webdavCall>>

remoteVars == <<scheme, vars, pwaVars, webdavVars>>

(* FactoryFor(scheme), and what the factory makes                          *)
RemoteInit ==
  /\ scheme \in {"s3", "webdav", "pwa"}
  /\ Init
  /\ PwaInit
  /\ Webdav!Init

S3Step ==
  /\ scheme = "s3"
  /\ Next
  /\ UNCHANGED <<scheme, pwaVars, webdavVars>>

PwaStep ==
  /\ scheme = "pwa"
  /\ PwaNext
  /\ UNCHANGED <<scheme, vars, webdavVars>>

WebdavStep ==
  /\ scheme = "webdav"
  /\ Webdav!Next
  /\ UNCHANGED <<scheme, vars, pwaVars>>

RemoteNext == S3Step \/ PwaStep \/ WebdavStep

RemoteSpec == RemoteInit /\ [][RemoteNext]_remoteVars

-----------------------------------------------------------------------------
(* Properties of the WebDAV medium, and of all media with writers; those   *)
(* of the others are in their modules.                                     *)

(* The collection is there when it comes to a PUT or a MOVE into it.       *)
(* (webdav.Medium, see WebdavMedium)                                       *)
ParentsMade == Webdav!ParentsMade

(* Delete comes to a DELETE only for what holds nothing.                   *)
(* (webdav.Medium, see WebdavMedium)                                       *)
DeleteKeepsBelow == Webdav!DeleteKeepsBelow

(* Closing a writer that appends loses nothing of what is at its path, but *)
(* for a read that failed (s3) and what another medium did meanwhile.      *)
(* (s3.Medium and webdav.Medium, see there)                                *)
AppendsExtend == AppendExtends /\ []Webdav!AppendExtends
=============================================================================
