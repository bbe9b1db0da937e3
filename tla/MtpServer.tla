----------------------------- MODULE MtpServer ------------------------------
(***************************************************************************)
(* The MTP responder (src/MtpServer.cpp) over the object database: the     *)
(* loop of run(), handleRequest() under mMutex, and the handlers, split    *)
(* where the database's notifier, the storage calls of the daemon or other *)
(* programs can get between two of their effects.  The host and the USB    *)
(* function driver are modelled by what they put into the pipe and what    *)
(* read, write and ioctl may return.                                       *)
(***************************************************************************)
EXTENDS UbuntuMtpDatabase

CONSTANTS
  HostOps,      \* the operations the host asks for
  MaxRequests,  \* bound: requests the host makes
  Polite,       \* the host sends an object only after its info was accepted
                \* and asks for nothing else in between
  Faults,       \* what may go wrong: "cancel", "unplug", "refuse"
  CardMoves     \* whether a memory card is inserted and removed

ASSUME ServerAssumption ==
  /\ MaxRequests \in Nat /\ Polite \in BOOLEAN /\ CardMoves \in BOOLEAN
  /\ Faults \subseteq {"cancel", "unplug", "refuse"}

VARIABLES
  mStorages,        \* identifiers of the storages, in order
  mSessionOpen,
  mSend,            \* mSendObjectHandle, -FilePath, -Format, -FileSize
  mObjectEditList,  \* open edits, in order
  sv,               \* where the server's thread is, and its locals
  inbox,            \* containers in the pipe, not yet read
  host,             \* requests made, answers received, waiting for one?
  card,             \* the daemon's progress with the card
  blurred           \* history: paths that had two entries, or a reservation
                    \* the code abandoned

srvVars == <<mStorages, mSessionOpen, mSend, mObjectEditList, sv>>
envVars == <<inbox, host, card>>
coreVars == <<databaseVars, srvVars, envVars>>
vars == <<coreVars, blurred>>

-----------------------------------------------------------------------------
(* Requests.                                                               *)

Req(op, handle, parent, storage, name, format, size, offset) ==
  [op |-> op, handle |-> handle, parent |-> parent, storage |-> storage,
   name |-> name, format |-> format, size |-> size, offset |-> offset]
NoName == ""
Simple(op) == Req(op, 0, 0, 0, NoName, UNDEFINED, 0, 0)

Handles == 1 .. MaxHandle
StorageIds == {MTP_STORAGE_FIXED_RAM, MTP_STORAGE_REMOVABLE_RAM}
AskedStorages == IF CardMoves THEN StorageIds ELSE {MTP_STORAGE_FIXED_RAM}

\* The amount of data one SendPartialObject carries.
PartSize == 2

\* Operations whose only effect is the answer, by what they name.
PlainOps == {"GetDeviceInfo", "GetStorageIDs", "GetObjectPropDesc"}
StorageOps == {"GetStorageInfo", "GetObjectHandles", "GetNumObjects"}
ObjectOps ==
  {"GetObjectInfo", "GetObject", "GetThumb", "GetObjectReferences",
   "DeleteObject", "BeginEditObject", "EndEditObject"}

\* What the host may ask for.
Requests ==
  UNION {
    {Simple(op) : op \in HostOps \cap
       (PlainOps \cup {"OpenSession", "CloseSession", "SendObject"})},
    {Req(op, 0, 0, s, NoName, UNDEFINED, 0, 0) :
       op \in HostOps \cap StorageOps, s \in AskedStorages \cup {0}},
    {Req(op, h, 0, 0, NoName, UNDEFINED, 0, 0) :
       op \in HostOps \cap ObjectOps, h \in Handles},
    {Req(op, 0, p, s, n, f, MaxSize, 0) :
       op \in HostOps \cap {"SendObjectInfo"}, s \in AskedStorages,
       p \in Handles \cup {MTP_PARENT_ROOT}, n \in Names, f \in Formats},
    {Req(op, h, p, 0, NoName, UNDEFINED, 0, 0) :
       op \in HostOps \cap {"MoveObject"}, h \in Handles,
       p \in Handles \cup {0}},
    {Req(op, h, 0, 0, n, UNDEFINED, 0, 0) :
       op \in HostOps \cap {"SetObjectPropValue"}, h \in Handles, n \in Names},
    {Req(op, h, 0, 0, NoName, UNDEFINED, 0, o) :
       op \in HostOps \cap {"TruncateObject"}, h \in Handles, o \in Sizes},
    {Req(op, h, 0, 0, NoName, UNDEFINED, PartSize, o) :
       op \in HostOps \cap {"SendPartialObject"}, h \in Handles,
       o \in 0 .. MaxSize - PartSize}}

\* Operations followed by data from the host; run() itself reads the data of
\* the first kind ("FIXME need to generalize this"), the handler of the other.
DataIn == {"SendObjectInfo", "SetObjectPropValue"}
HandlerData == {"SendObject", "SendPartialObject"}

Container(type, r) == [type |-> type, req |-> r]
Containers(r) ==
  IF r.op \in DataIn \cup HandlerData
  THEN <<Container("COMMAND", r), Container("DATA", r)>>
  ELSE <<Container("COMMAND", r)>>

\* The host may name any handle it was ever told of, also a stale one, and one
\* that was never given out; it nests no deeper than MaxDepth.
HostRequest ==
  /\ host.state = "idle" /\ host.sent < MaxRequests
  /\ inbox = <<>> /\ sv.pc = "loop"
  /\ \E r \in Requests :
       /\ r.handle <= counter /\ r.parent <= counter
       /\ r.parent \in DOMAIN db => Len(db[r.parent].path) < MaxDepth
       /\ Polite => (r.op = "SendObject") = (mSend.handle # kInvalidObjectHandle)
       /\ inbox' = Containers(r)
  /\ host' = [host EXCEPT !.state = "waiting", !.sent = @ + 1,
                          !.answers = Append(@, 0)]
  /\ UNCHANGED <<databaseVars, srvVars, card>>

-----------------------------------------------------------------------------
(* run().                                                                  *)

\* A handler is running: mMutex is held.
Locked == sv.pc \notin {"boot", "loop", "reply", "closing", "closed"}

NoSend == [handle |-> kInvalidObjectHandle, path |-> <<>>,
           format |-> UNDEFINED, size |-> 0]

At(pc) == sv.pc = pc
Goto(pc) == sv' = [sv EXCEPT !.pc = pc]
Reply(code) == sv' = [sv EXCEPT !.pc = "reply", !.result = code]

\* The daemon calls run() once the home directory is scanned and exposed.
Run ==
  /\ At("boot") /\ Idle("daemon")
  /\ mStorages' = <<MTP_STORAGE_FIXED_RAM>>
  /\ Goto("loop")
  /\ UNCHANGED <<databaseVars, mSessionOpen, mSend, mObjectEditList, envVars>>

\* Reads the request (whatever container comes first is taken for one), the
\* data of a DataIn operation, takes mMutex, and forgets a pending send when
\* something else than SendObject comes ("FIXME - need to delete
\* mSendObjectHandle from the database").
ReadRequest ==
  LET r == Head(inbox).req
      drop == /\ mSend.handle # kInvalidObjectHandle /\ r.op # "SendObject"
  IN
  /\ At("loop") /\ inbox # <<>>
  /\ inbox' = IF r.op \in DataIn THEN Tail(Tail(inbox)) ELSE Tail(inbox)
  /\ sv' = [sv EXCEPT !.pc = "handle", !.req = r,
                      !.hasData = r.op \in DataIn,
                      !.command = (Head(inbox).type = "COMMAND")]
  /\ mSend' = IF drop THEN [mSend EXCEPT !.handle = kInvalidObjectHandle]
              ELSE mSend
  /\ UNCHANGED <<databaseVars, mStorages, mSessionOpen, mObjectEditList,
                 host, card>>

\* The data of a request is cancelled: back to the top of the loop.
CancelData ==
  /\ "cancel" \in Faults /\ At("loop")
  /\ inbox # <<>> /\ Head(inbox).req.op \in DataIn
  /\ inbox' = Tail(Tail(inbox))
  /\ host' = [host EXCEPT !.state = "idle"]
  /\ UNCHANGED <<databaseVars, srvVars, card>>

Answered(h) ==
  [h EXCEPT !.state = "idle", !.answers[h.sent] = @ + 1]

\* Mutation of WriteResponse: the server stays where it is.
WriteResponseAgain ==
  /\ At("reply")
  /\ host' = Answered(host)
  /\ UNCHANGED <<databaseVars, srvVars, inbox, card>>

\* The data and the response are written; TRANSACTION_CANCELLED has none, and
\* a cancelled write is dropped.
WriteResponse ==
  /\ At("reply")
  /\ \/ /\ sv.result # "TRANSACTION_CANCELLED"
        /\ host' = Answered(host)
     \/ /\ sv.result = "TRANSACTION_CANCELLED" \/ "cancel" \in Faults
        /\ host' = [host EXCEPT !.state = "idle"]
  /\ Goto("loop")
  /\ UNCHANGED <<databaseVars, mStorages, mSessionOpen, mSend,
                 mObjectEditList, inbox, card>>

\* read or write fails: the loop ends.
Unplug ==
  /\ "unplug" \in Faults /\ sv.pc \in {"loop", "reply"}
  /\ Goto("closing")
  /\ UNCHANGED <<databaseVars, mStorages, mSessionOpen, mSend,
                 mObjectEditList, envVars>>

\* After the loop: open edits are committed in order, a session is ended.
Finish ==
  /\ At("closing")
  /\ IF mObjectEditList # <<>>
     THEN LET e == Head(mObjectEditList) IN
          /\ EndSendObject(e.path, e.handle, e.format, TRUE)
          /\ mObjectEditList' = Tail(mObjectEditList)
          /\ UNCHANGED <<local_server, sv>>
     ELSE /\ local_server' = (local_server /\ ~mSessionOpen)
          /\ Goto("closed")
          /\ UNCHANGED <<db, mObjectEditList>>
  /\ UNCHANGED <<counter, task, issued, ub, alive, fsVars, mStorages,
                 mSessionOpen, mSend, envVars>>

-----------------------------------------------------------------------------
(* Storages: the daemon's thread, which waits for mMutex.                  *)

HasStorage == mStorages # <<>>
GetStorage(id) ==
  IF id = 0 THEN IF HasStorage THEN {Head(mStorages)} ELSE {}
  ELSE {s \in Range(mStorages) : s = id}
StorageRoot(id) == IF id = MTP_STORAGE_FIXED_RAM THEN Home ELSE Card

CardStep(from, to) == card = from /\ card' = to

\* The daemon scans an inserted card into the database, then exposes it.
InsertCard ==
  /\ CardMoves /\ CardStep("out", "scanning") /\ sv.pc # "boot"
  /\ AddStoragePath(Card, MTP_STORAGE_REMOVABLE_RAM, TRUE)
  /\ UNCHANGED <<locals, srvVars, inbox, host>>

AddStorage ==
  /\ CardStep("scanning", "exposed") /\ Idle("daemon") /\ ~Locked
  /\ mStorages' = Append(mStorages, MTP_STORAGE_REMOVABLE_RAM)
  /\ UNCHANGED <<databaseVars, mSessionOpen, mSend, mObjectEditList, sv,
                 inbox, host>>

RemoveStorageFromServer ==
  /\ CardStep("exposed", "hidden") /\ ~Locked
  /\ mStorages' = RemoveFirst(mStorages, MTP_STORAGE_REMOVABLE_RAM)
  /\ UNCHANGED <<databaseVars, mSessionOpen, mSend, mObjectEditList, sv,
                 inbox, host>>

RemoveStorageFromDatabase ==
  /\ CardStep("hidden", "removed")
  /\ RemoveStorage(MTP_STORAGE_REMOVABLE_RAM)
  /\ UNCHANGED <<locals, srvVars, inbox, host>>

StorageStep ==
  \/ InsertCard \/ AddStorage
  \/ RemoveStorageFromServer \/ RemoveStorageFromDatabase

-----------------------------------------------------------------------------
(* Handlers that only answer.                                              *)

EditsOf(h) == {i \in DOMAIN mObjectEditList : mObjectEditList[i].handle = h}
HasEdit(h) == EditsOf(h) # {}
EditIndex(h) == Min(EditsOf(h))

OnlyAnswer(codes) ==
  /\ \E code \in codes : Reply(code)
  /\ UNCHANGED <<databaseVars, mStorages, mSessionOpen, mSend,
                 mObjectEditList, envVars>>

Handling(op) == At("handle") /\ sv.req.op = op

CancelCode == IF "cancel" \in Faults THEN {"TRANSACTION_CANCELLED"} ELSE {}

doPlain ==
  /\ At("handle") /\ sv.req.op \in PlainOps
  /\ OnlyAnswer({IF sv.req.op = "GetStorageIDs" /\ ~mSessionOpen
                 THEN "SESSION_NOT_OPEN" ELSE "OK"})

\* doGetStorageInfo, doGetObjectHandles and doGetNumObjects.
doStorageQuery ==
  /\ At("handle") /\ sv.req.op \in StorageOps
  /\ OnlyAnswer({IF ~mSessionOpen THEN "SESSION_NOT_OPEN"
                 ELSE IF GetStorage(sv.req.storage) = {}
                 THEN "INVALID_STORAGE_ID" ELSE "OK"})

doGetObjectInfo ==
  /\ Handling("GetObjectInfo")
  /\ OnlyAnswer({IF ~HasStorage THEN "INVALID_OBJECT_HANDLE"
                 ELSE FilePathResponse(sv.req.handle)})

\* The driver sends the file; it may be missing, shorter than the database
\* says, or the host may cancel.
doGetObject ==
  LET h == sv.req.handle
      p == db[h].path
  IN
  /\ Handling("GetObject")
  /\ OnlyAnswer(
       IF ~HasStorage THEN {"INVALID_OBJECT_HANDLE"}
       ELSE IF FilePathResponse(h) # "OK" THEN {FilePathResponse(h)}
       ELSE IF ~IsFile(p) THEN {"GENERAL_ERROR"}
       ELSE {"OK"} \cup CancelCode
            \cup (IF fs[p].size < db[h].object_size THEN {"GENERAL_ERROR"}
                  ELSE {}))

\* "FIXME - check for invalid object handle": db.at throws, nobody below
\* main() catches, and the process ends.
doGetObjectReferences ==
  LET h == sv.req.handle IN
  /\ Handling("GetObjectReferences")
  /\ IF mSessionOpen /\ HasStorage /\ h \notin ReservedHandles \cup DOMAIN db
     THEN /\ alive' = FALSE
          /\ UNCHANGED <<fsVars, db, counter, local_server, task, issued, ub,
                         srvVars, envVars>>
     ELSE OnlyAnswer({IF ~mSessionOpen THEN "SESSION_NOT_OPEN"
                      ELSE IF ~HasStorage THEN "INVALID_OBJECT_HANDLE"
                      ELSE "OK"})

\* A thumbnail is sent, all 0 bytes of it, and freed: a pointer nobody
\* allocated ends the process, unless free happens to take it.
doGetThumb ==
  /\ Handling("GetThumb")
  /\ \/ "null" \in Thumbnail /\ OnlyAnswer({"GENERAL_ERROR"})
     \/ "garbage" \in Thumbnail /\ OnlyAnswer({"OK"})
     \/ /\ "garbage" \in Thumbnail /\ alive' = FALSE
        /\ UNCHANGED <<fsVars, db, counter, local_server, task, issued, ub,
                       srvVars, envVars>>

-----------------------------------------------------------------------------
(* Sessions.                                                               *)

doOpenSession ==
  /\ Handling("OpenSession")
  /\ Reply(IF mSessionOpen THEN "SESSION_ALREADY_OPEN" ELSE "OK")
  /\ mSessionOpen' = TRUE
  /\ local_server' = (mSessionOpen => local_server)
  /\ UNCHANGED <<fsVars, db, counter, task, issued, ub, alive, mStorages,
                 mSend, mObjectEditList, envVars>>

doCloseSession ==
  /\ Handling("CloseSession")
  /\ Reply(IF mSessionOpen THEN "OK" ELSE "SESSION_NOT_OPEN")
  /\ mSessionOpen' = FALSE
  /\ local_server' = (local_server /\ ~mSessionOpen)
  /\ UNCHANGED <<fsVars, db, counter, task, issued, ub, alive, mStorages,
                 mSend, mObjectEditList, envVars>>

-----------------------------------------------------------------------------
(* SendObjectInfo and SendObject.                                          *)

\* The directory the object goes to: the storage's root, or the parent object.
TargetPath(r) ==
  IF r.parent = MTP_PARENT_ROOT THEN StorageRoot(r.storage)
  ELSE db[r.parent].path
\* The root is passed on as parent 0.
TargetParent(r) == IF r.parent = MTP_PARENT_ROOT THEN 0 ELSE r.parent

\* The code SendObjectInfo is refused with before anything is reserved.
Refusals(r) ==
  IF GetStorage(r.storage) = {} THEN {"INVALID_STORAGE_ID"}
  ELSE IF r.parent # MTP_PARENT_ROOT /\ FilePathResponse(r.parent) # "OK"
  THEN {FilePathResponse(r.parent)}
  ELSE IF r.parent # MTP_PARENT_ROOT
          /\ db[r.parent].object_format # ASSOCIATION
  THEN {"INVALID_PARENT_OBJECT"}
  ELSE IF r.storage = MTP_STORAGE_FIXED_RAM /\ TargetParent(r) = 0
  THEN {"GENERAL_ERROR"}
  ELSE {}
NoSpace == IF "refuse" \in Faults THEN {"STORAGE_FULL", "OBJECT_TOO_LARGE"}
           ELSE {}

\* The reservation of the handle starts; the bound on path length stands for
\* a host that nests no deeper.
doSendObjectInfo ==
  LET r == sv.req IN
  /\ Handling("SendObjectInfo")
  /\ \/ OnlyAnswer(Refusals(r) \cup NoSpace)
     \/ /\ Refusals(r) = {} /\ Len(TargetPath(r)) < MaxDepth
        /\ BeginSendObject(Append(TargetPath(r), r.name), r.format,
                           TargetParent(r), r.storage, r.size)
        /\ Goto("begin")
        /\ UNCHANGED <<locals, mStorages, mSessionOpen, mSend,
                       mObjectEditList, envVars>>

BeginStep ==
  /\ At("begin")
  /\ ReserveEntry \/ FinishBeginSend
  /\ UNCHANGED <<locals, srvVars, envVars>>

\* Mutation of FinishObjectInfo: the name is kept where the format belongs.
FinishObjectInfoNamed ==
  LET c == task["server"].cur IN
  /\ At("begin") /\ Idle("server")
  /\ mSend' = [handle |-> task["server"].handle, path |-> c.path,
               format |-> Last(c.path), size |-> c.size]
  /\ Reply("OK")
  /\ UNCHANGED <<databaseVars, mStorages, mSessionOpen, mObjectEditList,
                 envVars>>

\* beginSendObject returned: a directory is made at once; its endSendObject
\* does nothing.  When mkdir fails the reservation is left behind.
FinishObjectInfo ==
  LET t == task["server"]
      made == CanCreate(t.cur.path)
  IN
  /\ At("begin") /\ Idle("server")
  /\ IF t.cur.format = ASSOCIATION
     THEN /\ IF made THEN FsCreate(t.cur.path, "dir") ELSE UNCHANGED kernelVars
          /\ Reply(IF made THEN "OK" ELSE "GENERAL_ERROR")
          /\ UNCHANGED mSend
     ELSE /\ mSend' = [handle |-> t.handle, path |-> t.cur.path,
                       format |-> t.cur.format, size |-> t.cur.size]
          /\ Reply("OK")
          /\ UNCHANGED kernelVars
  /\ UNCHANGED <<locals, dbVars, mStorages, mSessionOpen, mObjectEditList,
                 inbox, host, card>>

\* Without a reservation, or without the data, nothing is opened; without a
\* reservation the data stays in the pipe.
doSendObjectRefused ==
  /\ Handling("SendObject")
  /\ \/ /\ mSend.handle = kInvalidObjectHandle
        /\ UNCHANGED inbox
        /\ sv' = [sv EXCEPT !.pc = "end_send",
                            !.result = "NO_VALID_OBJECT_INFO"]
     \/ /\ mSend.handle # kInvalidObjectHandle
        /\ inbox = <<>> \/ "cancel" \in Faults
           \/ ~(IsFile(mSend.path) \/ CanCreate(mSend.path))
        /\ inbox' = <<>>
        /\ sv' = [sv EXCEPT !.pc = "end_send", !.result = "GENERAL_ERROR"]
  /\ UNCHANGED <<databaseVars, mStorages, mSessionOpen, mSend,
                 mObjectEditList, host, card>>

\* open(O_CREAT | O_TRUNC).
doSendObject ==
  LET p == mSend.path IN
  /\ Handling("SendObject")
  /\ mSend.handle # kInvalidObjectHandle /\ inbox # <<>>
  /\ inbox' = Tail(inbox)
  /\ \/ IsFile(p) /\ FsResize(p, 0)
     \/ CanCreate(p) /\ FsCreate(p, "file")
  /\ sv' = [sv EXCEPT !.pc = "receive", !.ino = fs'[p].ino]
  /\ UNCHANGED <<locals, dbVars, mStorages, mSessionOpen, mSend,
                 mObjectEditList, host, card>>

\* A write through a descriptor reaches the file wherever it is by now, if it
\* still has a name at all.
WriteInode(ino, size) ==
  IF \E p \in DOMAIN fs : fs[p].ino = ino
  THEN FsResize(CHOOSE p \in DOMAIN fs : fs[p].ino = ino, size)
  ELSE UNCHANGED kernelVars

\* MTP_RECEIVE_FILE: all of it arrives, or the transfer is cancelled or fails
\* with any part written.
ReceiveFile ==
  /\ At("receive")
  /\ \/ /\ WriteInode(sv.ino, mSend.size)
        /\ sv' = [sv EXCEPT !.pc = "end_send", !.result = "OK"]
     \/ /\ "cancel" \in Faults
        /\ \E size \in Sizes, code \in {"TRANSACTION_CANCELLED",
                                        "GENERAL_ERROR"} :
             /\ size <= mSend.size /\ WriteInode(sv.ino, size)
             /\ sv' = [sv EXCEPT !.pc = "unlink", !.result = code]
  /\ UNCHANGED <<locals, dbVars, mStorages, mSessionOpen, mSend,
                 mObjectEditList, envVars>>

\* A failed transfer removes the file ...
UnlinkPartial ==
  /\ At("unlink")
  /\ IF IsFile(mSend.path) THEN FsRemove(mSend.path) ELSE UNCHANGED kernelVars
  /\ Goto("end_send")
  /\ UNCHANGED <<locals, dbVars, mStorages, mSessionOpen, mSend,
                 mObjectEditList, envVars>>

\* Mutation of FinishSendObject: every transfer is reported as a success.
FinishSendObjectAlways ==
  /\ At("end_send")
  /\ EndSendObject(mSend.path, mSend.handle, mSend.format, TRUE)
  /\ mSend' = [mSend EXCEPT !.handle = kInvalidObjectHandle,
                            !.format = UNDEFINED]
  /\ Goto("reply")
  /\ UNCHANGED <<fsVars, counter, local_server, task, issued, ub, alive,
                 mStorages, mSessionOpen, mObjectEditList, envVars>>

\* Mutation of FinishSendObject: failure and success are mixed up.
FinishSendObjectSwapped ==
  /\ At("end_send")
  /\ EndSendObject(mSend.path, mSend.handle, mSend.format, sv.result # "OK")
  /\ mSend' = [mSend EXCEPT !.handle = kInvalidObjectHandle,
                            !.format = UNDEFINED]
  /\ Goto("reply")
  /\ UNCHANGED <<fsVars, counter, local_server, task, issued, ub, alive,
                 mStorages, mSessionOpen, mObjectEditList, envVars>>

\* ... and, at done:, its entry.
FinishSendObject ==
  /\ At("end_send")
  /\ EndSendObject(mSend.path, mSend.handle, mSend.format, sv.result = "OK")
  /\ mSend' = [mSend EXCEPT !.handle = kInvalidObjectHandle,
                            !.format = UNDEFINED]
  /\ Goto("reply")
  /\ UNCHANGED <<fsVars, counter, local_server, task, issued, ub, alive,
                 mStorages, mSessionOpen, mObjectEditList, envVars>>

SendStep ==
  \/ doSendObjectInfo \/ BeginStep \/ FinishObjectInfo
  \/ doSendObjectRefused \/ doSendObject \/ ReceiveFile
  \/ UnlinkPartial \/ FinishSendObject

-----------------------------------------------------------------------------
(* DeleteObject: the entry first, then what is on disk.                    *)

\* Mutation of doDeleteObject: the response of deleteFile is not looked at.
doDeleteObjectAnyway ==
  LET h == sv.req.handle IN
  /\ Handling("DeleteObject") /\ h \in DOMAIN db
  /\ DeleteFile(h, {})
  /\ sv' = [sv EXCEPT !.pc = "delete_path", !.path = db[h].path,
                      !.result = DeleteFileResponse(h)]
  /\ UNCHANGED <<fs, queue, nextIno, nextWd, locals, counter, local_server,
                 task, issued, mStorages, mSessionOpen, mSend,
                 mObjectEditList, envVars>>

doDeleteObject ==
  LET h == sv.req.handle
      found == HasStorage /\ h \in DOMAIN db
      code == IF ~HasStorage THEN "INVALID_OBJECT_HANDLE"
              ELSE IF FilePathResponse(h) # "OK" THEN FilePathResponse(h)
              ELSE DeleteFileResponse(h)
  IN
  /\ Handling("DeleteObject")
  /\ IF found THEN DeleteFile(h, {}) ELSE UNCHANGED <<watch, db, ub, alive>>
  /\ sv' = [sv EXCEPT !.pc = IF code = "OK" THEN "delete_path" ELSE "reply",
                      !.result = code,
                      !.path = IF found THEN db[h].path ELSE @]
  /\ UNCHANGED <<fs, queue, nextIno, nextWd, locals, counter, local_server,
                 task, issued, mStorages, mSessionOpen, mSend,
                 mObjectEditList, envVars>>

Frame(p) == [path |-> p, left |-> Listing(p)]

\* deletePath: a file is unlinked, a directory descended into.
DeletePath ==
  LET p == sv.path IN
  /\ At("delete_path")
  /\ IF IsFile(p) THEN FsRemove(p) ELSE UNCHANGED kernelVars
  /\ sv' = IF IsDirectory(p)
           THEN [sv EXCEPT !.pc = "delete_tree", !.stack = <<Frame(p)>>]
           ELSE [sv EXCEPT !.pc = "reply"]
  /\ UNCHANGED <<locals, dbVars, mStorages, mSessionOpen, mSend,
                 mObjectEditList, envVars>>

\* One directory entry of deleteRecursive, or the rmdir after the last one; a
\* directory something was put into meanwhile stays.
DeleteRecursive ==
  LET top == Head(sv.stack)
      rest(f) == <<[top EXCEPT !.left = @ \ {f}]>> \o Tail(sv.stack)
  IN
  /\ At("delete_tree")
  /\ \/ \E p \in top.left :
          IF IsDirectory(p)
          THEN /\ sv' = [sv EXCEPT !.stack = <<Frame(p)>> \o rest(p)]
               /\ UNCHANGED kernelVars
          ELSE /\ sv' = [sv EXCEPT !.stack = rest(p)]
               /\ IF p \in DOMAIN fs THEN FsRemove(p) ELSE UNCHANGED kernelVars
     \/ /\ top.left = {}
        /\ IF CanRemove(top.path) THEN FsRemove(top.path)
           ELSE UNCHANGED kernelVars
        /\ sv' = [sv EXCEPT !.stack = Tail(@),
                            !.pc = IF Tail(sv.stack) = <<>> THEN "reply"
                                   ELSE "delete_tree"]
  /\ UNCHANGED <<locals, dbVars, mStorages, mSessionOpen, mSend,
                 mObjectEditList, envVars>>

DeleteStep == doDeleteObject \/ DeletePath \/ DeleteRecursive

-----------------------------------------------------------------------------
(* MoveObject and renaming through SetObjectPropValue.                     *)

\* Both paths are read from the same handle, so rename() gets one path twice.
doMoveObject ==
  LET h == sv.req.handle
      code == IF ~HasStorage THEN "INVALID_OBJECT_HANDLE"
              ELSE FilePathResponse(h)
      filePath == db[h].path
      newPath == db[h].path
  IN
  /\ Handling("MoveObject")
  /\ IF code = "OK"
     THEN /\ MoveFile(h, sv.req.parent)
          /\ IF CanRename(filePath, newPath) THEN FsRename(filePath, newPath)
             ELSE UNCHANGED kernelVars
     ELSE UNCHANGED <<db, kernelVars>>
  /\ Reply(code)
  /\ UNCHANGED <<locals, counter, local_server, task, issued, ub, alive,
                 mStorages, mSessionOpen, mSend, mObjectEditList, envVars>>

\* setObjectPropertyValue(OBJECT_FILE_NAME): the rename on disk ...
doSetObjectPropValue ==
  LET h == sv.req.handle
      p == db[h].path
      q == Append(Front(p), sv.req.name)
  IN
  /\ Handling("SetObjectPropValue")
  /\ IF HasStorage /\ FilePathResponse(h) = "OK" /\ CanRename(p, q)
     THEN /\ FsRename(p, q)
          /\ sv' = [sv EXCEPT !.pc = "set_path", !.path = q]
     ELSE /\ Reply(IF ~HasStorage THEN "INVALID_OBJECT_HANDLE"
                   ELSE IF FilePathResponse(h) = "OK" THEN "DEVICE_BUSY"
                   ELSE FilePathResponse(h))
          /\ UNCHANGED kernelVars
  /\ UNCHANGED <<locals, dbVars, mStorages, mSessionOpen, mSend,
                 mObjectEditList, envVars>>

\* ... and the new path in the entry, which may have gone meanwhile.
FinishRename ==
  /\ At("set_path")
  /\ SetPath(sv.req.handle, sv.path)
  /\ Reply(IF sv.req.handle \in DOMAIN db THEN "OK" ELSE "GENERAL_ERROR")
  /\ UNCHANGED <<fsVars, counter, local_server, task, issued, ub, alive,
                 mStorages, mSessionOpen, mSend, mObjectEditList, envVars>>

MoveStep == doMoveObject \/ doSetObjectPropValue \/ FinishRename

-----------------------------------------------------------------------------
(* Editing in place.                                                       *)

\* Mutation of doBeginEditObject: an object already open is opened again.
doBeginEditObjectTwice ==
  LET h == sv.req.handle IN
  /\ Handling("BeginEditObject") /\ h \in DOMAIN db /\ IsFile(db[h].path)
  /\ mObjectEditList' =
       Append(mObjectEditList,
              [handle |-> h, path |-> db[h].path, size |-> db[h].object_size,
               format |-> db[h].object_format, ino |-> fs[db[h].path].ino,
               pos |-> 0])
  /\ Reply("OK")
  /\ UNCHANGED <<databaseVars, mStorages, mSessionOpen, mSend, envVars>>

doBeginEditObject ==
  LET h == sv.req.handle
      p == db[h].path
      opened == ~HasEdit(h) /\ FilePathResponse(h) = "OK" /\ IsFile(p)
  IN
  /\ Handling("BeginEditObject")
  /\ mObjectEditList' =
       IF opened
       THEN Append(mObjectEditList,
                   [handle |-> h, path |-> p, size |-> db[h].object_size,
                    format |-> db[h].object_format, ino |-> fs[p].ino,
                    pos |-> 0])
       ELSE mObjectEditList
  /\ Reply(IF opened THEN "OK"
           ELSE IF HasEdit(h) \/ FilePathResponse(h) = "OK"
           THEN "GENERAL_ERROR" ELSE FilePathResponse(h))
  /\ UNCHANGED <<databaseVars, mStorages, mSessionOpen, mSend, envVars>>

\* Not open for edit, or past the end: the data stays in the pipe.
doSendPartialObjectRefused ==
  /\ Handling("SendPartialObject")
  /\ \A i \in EditsOf(sv.req.handle) :
       i = EditIndex(sv.req.handle) => sv.req.offset > mObjectEditList[i].size
  /\ OnlyAnswer({"GENERAL_ERROR"})

InodeSize(ino) ==
  IF \E p \in DOMAIN fs : fs[p].ino = ino
  THEN fs[CHOOSE p \in DOMAIN fs : fs[p].ino = ino].size ELSE 0

\* What arrives with the header is written where the descriptor stands; the
\* rest is received at its offset.  A failed transfer leaves the edit's size
\* as it was, and the data read so far in mData.
doSendPartialObject ==
  LET i == EditIndex(sv.req.handle)
      e == mObjectEditList[i]
      o == sv.req.offset
      L == sv.req.size
  IN
  /\ Handling("SendPartialObject") /\ inbox # <<>>
  /\ HasEdit(sv.req.handle) /\ o <= e.size
  /\ inbox' = Tail(inbox)
  /\ \E initial \in 0 .. L :
       LET written == IF initial > 0 THEN e.pos + initial ELSE 0
           received == IF initial < L THEN o + L ELSE 0
       IN
       \/ /\ WriteInode(e.ino, Max({InodeSize(e.ino), written, received}))
          /\ mObjectEditList' =
               [mObjectEditList EXCEPT ![i].pos = @ + initial,
                                       ![i].size = Max({@, o + L})]
          /\ sv' = [sv EXCEPT !.pc = "reply", !.result = "OK",
                              !.hasData = FALSE]
       \/ /\ "cancel" \in Faults /\ initial < L
          /\ WriteInode(e.ino, Max({InodeSize(e.ino), written}))
          /\ mObjectEditList' = [mObjectEditList EXCEPT ![i].pos = @ + initial]
          /\ \E code \in {"TRANSACTION_CANCELLED", "GENERAL_ERROR"} :
               sv' = [sv EXCEPT !.pc = "reply", !.result = code,
                                !.hasData = (initial > 0)]
  /\ UNCHANGED <<locals, dbVars, mStorages, mSessionOpen, mSend, host, card>>

doTruncateObject ==
  LET i == EditIndex(sv.req.handle) IN
  /\ Handling("TruncateObject")
  /\ IF HasEdit(sv.req.handle)
     THEN /\ WriteInode(mObjectEditList[i].ino, sv.req.offset)
          /\ mObjectEditList' = [mObjectEditList EXCEPT
                                   ![i].size = sv.req.offset]
          /\ Reply("OK")
     ELSE Reply("GENERAL_ERROR") /\ UNCHANGED <<kernelVars, mObjectEditList>>
  /\ UNCHANGED <<locals, dbVars, mStorages, mSessionOpen, mSend, envVars>>

\* commitEdit resyncs the size with the file; the edit is closed.
doEndEditObject ==
  LET i == EditIndex(sv.req.handle)
      e == mObjectEditList[i]
  IN
  /\ Handling("EndEditObject")
  /\ IF HasEdit(sv.req.handle)
     THEN /\ EndSendObject(e.path, e.handle, e.format, TRUE)
          /\ mObjectEditList' = RemoveAt(mObjectEditList, i)
          /\ Reply("OK")
     ELSE Reply("GENERAL_ERROR") /\ UNCHANGED <<db, mObjectEditList>>
  /\ UNCHANGED <<fsVars, counter, local_server, task, issued, ub, alive,
                 mStorages, mSessionOpen, mSend, envVars>>

EditStep ==
  \/ doBeginEditObject
  \/ doSendPartialObjectRefused \/ doSendPartialObject
  \/ doTruncateObject \/ doEndEditObject

-----------------------------------------------------------------------------
(* The composition.                                                        *)

Init ==
  /\ DatabaseInit
  /\ mStorages = <<>> /\ mSessionOpen = FALSE /\ mSend = NoSend
  /\ mObjectEditList = <<>>
  /\ sv = [pc |-> "boot", req |-> Simple("none"), result |-> "OK",
           hasData |-> FALSE, command |-> TRUE, path |-> <<>>,
           stack |-> <<>>, ino |-> 0]
  /\ inbox = <<>>
  /\ host = [state |-> "idle", sent |-> 0, answers |-> <<>>]
  /\ card = "out" /\ blurred = {}

ServerStep ==
  \/ Run \/ ReadRequest \/ CancelData \/ WriteResponse \/ Finish
  \/ doPlain \/ doStorageQuery \/ doGetObjectInfo \/ doGetObject
  \/ doGetThumb \/ doGetObjectReferences
  \/ doOpenSession \/ doCloseSession
  \/ SendStep \/ DeleteStep \/ MoveStep \/ EditStep

Notifier ==
  /\ InotifyHandler \/ AddEntryStep("notifier")
  /\ UNCHANGED <<locals, srvVars, envVars>>

Daemon ==
  \/ AddEntryStep("daemon") /\ UNCHANGED <<locals, srvVars, envVars>>
  \/ StorageStep

LocalProcess == Local /\ UNCHANGED <<srvVars, envVars>>

Twins == {db[h].path : h \in {g \in DOMAIN db :
            \E k \in DOMAIN db \ {g} : db[k].path = db[g].path}}

\* The reservations this step leaves behind: a send that something else than
\* SendObject followed, a directory that could not be made.
Abandoned ==
  (IF At("loop") /\ mSend.handle # mSend'.handle THEN {mSend.path} ELSE {})
  \cup (IF At("begin") /\ sv'.result = "GENERAL_ERROR" /\ sv'.pc = "reply"
        THEN {task["server"].cur.path} ELSE {})

Step == ServerStep \/ Notifier \/ Daemon \/ LocalProcess \/ HostRequest \/ Unplug

Next == alive /\ Step /\ blurred' = blurred \cup Twins' \cup Abandoned

Spec == Init /\ [][Next]_vars

\* The server's thread and the two asio threads are scheduled as long as they
\* can run; the host, other programs and the cable owe nothing.
Fairness == /\ WF_coreVars(alive /\ ServerStep)
            /\ WF_coreVars(alive /\ Notifier)
            /\ WF_coreVars(alive /\ Daemon)

LiveSpec == Spec /\ Fairness

-----------------------------------------------------------------------------
(* Properties.                                                             *)

Codes ==
  {"OK", "GENERAL_ERROR", "SESSION_NOT_OPEN", "SESSION_ALREADY_OPEN",
   "INVALID_STORAGE_ID", "INVALID_OBJECT_HANDLE", "INVALID_PARENT_OBJECT",
   "NO_VALID_OBJECT_INFO", "STORAGE_FULL", "OBJECT_TOO_LARGE", "DEVICE_BUSY",
   "TRANSACTION_CANCELLED"}

TypeOK ==
  /\ DatabaseTypeOK
  /\ mStorages \in Seq(StorageIds) /\ mSessionOpen \in BOOLEAN
  /\ mSend.handle \in Int /\ mSend.format \in Formats
  /\ sv.pc \in {"boot", "loop", "handle", "begin", "receive", "unlink",
                "end_send", "delete_path", "delete_tree", "set_path", "reply",
                "closing", "closed"}
  /\ sv.result \in Codes /\ sv.hasData \in BOOLEAN
  /\ \A i \in DOMAIN mObjectEditList : mObjectEditList[i].handle \in Nat
  /\ host.state \in {"idle", "waiting"} /\ host.sent = Len(host.answers)
  /\ card \in {"out", "scanning", "exposed", "hidden", "removed"}

\* The service as the host sees it.
ServiceState ==
  IF ~alive \/ sv.pc \in {"closing", "closed"} THEN "ended" ELSE host.state

Transactions ==
  INSTANCE MtpTransactions WITH state <- ServiceState,
                                answers <- host.answers

\* Each request of a host that sends an object only when the server expects
\* one gets exactly one outcome, and gets it in the end (run, 165-239).
TransactionsImplemented == Transactions!Spec

\* Nobody is in the middle of anything: a moment at which the database can be
\* compared with the disk.
Settled == Quiescent /\ sv.pc \in {"loop", "closed"} /\ ub = {}

\* A reservation that waits for its SendObject.
Reserved(h) == h = mSend.handle

Backed(h) ==
  /\ db[h].path \in DOMAIN fs
  /\ (db[h].object_format = ASSOCIATION) = (fs[db[h].path].kind = "dir")

\* Other programs are noticed in watched directories only; one the host made
\* is not among them.
InWatchedDirectory(h) ==
  \E d \in DOMAIN db : db[d].path = Front(db[h].path) /\ db[d].watched

\* When all is settled, every object the host can list is on disk, save the one
\* reserved and not yet sent: a send that failed, was cancelled or raced with
\* the notifier, and a deletion, leave no phantom entry behind.  Paths that
\* were given two entries, a reservation that was abandoned, and what lies below
\* a directory whose watch the kernel refused are left out.
NoPhantomObject ==
  Settled => \A h \in DOMAIN db :
    /\ locals = 0 \/ InWatchedDirectory(h)
    /\ Followed(db[h].path)
    /\ db[h].path \notin blurred
    => Reserved(h) \/ Backed(h)

\* When all is settled, every object in a watched directory has an entry with
\* its path: whatever the order in which the events of a deletion, a send and
\* of other programs were handled, no object on disk became invisible (but for
\* those whose scan was given up, or whose directory's watch was refused).
NoLostObject ==
  Settled =>
    \A p \in DOMAIN fs \ Skipped : Followed(p) => \A d \in DOMAIN db :
      (Len(p) > 1 /\ db[d].path = Front(p) /\ db[d].watched) =>
        \E h \in DOMAIN db : db[h].path = p

\* Once everything has settled, what the host is shown is what is there: both
\* directions of the agreement of database and disk.
ObjectsTrue == NoPhantomObject /\ NoLostObject

\* When all is settled, the size the host is told is the size of the file,
\* whether the bytes came from the host or, in a watched directory, from
\* another program.
SizesTrue ==
  Settled => \A h \in DOMAIN db :
    /\ IsFile(db[h].path) /\ Followed(db[h].path)
    /\ locals = 0 \/ InWatchedDirectory(h)
    =>
      \/ Reserved(h) \/ HasEdit(h) \/ db[h].path \in blurred
      \/ db[h].object_size = fs[db[h].path].size

\* "Don't delete the actual files unless the database deletion is allowed": a
\* DeleteObject takes from the disk only what lies at or below the path its
\* handle named, and only while that handle has no entry any more (a racing
\* notifier may have given the handle to another object meanwhile).
DeleteOnlyAllowed ==
  [][sv.pc \in {"handle", "delete_path", "delete_tree"} /\
     sv.req.op = "DeleteObject" /\ sv # sv' =>
       /\ DOMAIN fs' \subseteq DOMAIN fs
       /\ \A p \in DOMAIN fs \ DOMAIN fs' :
            /\ sv.result = "OK" /\ IsPrefix(sv.path, p)
            /\ sv.req.handle \notin DOMAIN db' \/ "counter" \in ub]_vars

\* An object has one open edit at most.
OneEditPerObject ==
  \A i, j \in DOMAIN mObjectEditList :
    mObjectEditList[i].handle = mObjectEditList[j].handle => i = j
=============================================================================
