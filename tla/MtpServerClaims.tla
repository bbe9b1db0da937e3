-------------------------- MODULE MtpServerClaims ---------------------------
(***************************************************************************)
(* What comments of the repository say of the server and the database and  *)
(* the code does not do.  Each formula is refuted by a run of its own; the *)
(* properties that hold are in MtpServer.                                  *)
(***************************************************************************)
EXTENDS MtpServer

\* "reserve a database entry for the incoming file" (include/MtpDatabase.h):
\* while the bytes of an object arrive, the entry reserved for it is there.
ReservationHeld == At("receive") /\ ub = {} => mSend.handle \in DOMAIN db

\* "failure should remove the database entry created in beginSendObject"
\* (include/MtpDatabase.h): a SendObjectInfo that reserved an entry and then
\* fails leaves no entry.
FailedInfoLeavesNothing ==
  [][At("begin") /\ sv'.pc = "reply" /\ sv'.result # "OK" =>
       task["server"].handle \notin DOMAIN db']_vars

\* "Recursively remove children object from the DB as well" (deleteFile): an
\* object whose parent was deleted is not left in the database.
NoOrphans ==
  Quiescent => \A h \in DOMAIN db :
                 db[h].parent \in {0, MTP_PARENT_ROOT} \cup DOMAIN db

\* "Don't move the actual files unless the database deletion is allowed"
\* (doMoveObject): when it is allowed, the object's file lies in the directory
\* of its new parent.
MovedOnDisk ==
  [][Handling("MoveObject") /\ sv'.result = "OK" /\ sv'.pc = "reply" =>
       LET h == sv.req.handle IN
       sv.req.parent \in DOMAIN db /\ IsDirectory(db[sv.req.parent].path) =>
         Front(db'[h].path) = db[sv.req.parent].path]_vars

\* "wait for next command" (run): what is handled as a request is a command
\* container, not what is left of a data phase.
CommandsOnly == At("handle") => sv.command

\* "reset so we don't attempt to send this back" (doSendPartialObject): data
\* received from the host is never sent back to it.
NothingSentBack ==
  At("reply") /\ sv.req.op = "SendPartialObject" => ~sv.hasData

\* "if object is being edited the database size may be out of date"
\* (doGetObjectInfo, which then reports the edit's size): between requests the
\* size of an open edit is that of the file.
EditSizeTrue ==
  At("loop") => \A i \in DOMAIN mObjectEditList :
                  mObjectEditList[i].size = InodeSize(mObjectEditList[i].ino)

\* "Resync file size, just in case this is actually an Edit" (endSendObject):
\* when an edit was committed and every event was handled, the size in the
\* database is that of the file.
CommitResyncs ==
  Settled => \A h \in DOMAIN db :
    IsFile(db[h].path) /\ ~HasEdit(h) =>
      db[h].object_size = fs[db[h].path].size

\* "remove all database entries corresponding to said storage"
\* (removeStorage): a removed card leaves no entry behind.
CardForgotten ==
  card = "removed" /\ Quiescent =>
    \A h \in DOMAIN db : db[h].storage_id # MTP_STORAGE_REMOVABLE_RAM
=============================================================================
