------------------------- MODULE UbuntuMtpDatabase --------------------------
(***************************************************************************)
(* The object database (server/UbuntuMtpDatabase.h): the map from object   *)
(* handles to entries, the handle counter, and the threads that use them   *)
(* without a lock:                                                         *)
(*   "notifier"  the asio thread that runs inotify_handler,                *)
(*   "daemon"    the daemon's thread, in addStoragePath and removeStorage, *)
(*   "server"    the MTP server's thread, in the calls of MtpDatabase.     *)
(* A call is split where another thread can get between two accesses of    *)
(* the shared state; one operation on the std::map is taken to be atomic.  *)
(***************************************************************************)
EXTENDS MtpFileSystem

CONSTANTS
  MaxHandle,    \* bound: the last handle the counter hands out
  UninitWatch,  \* what the watch_fd of an entry nobody watches may hold
  InitialTree,  \* the files at start-up: a sequence of <<path, kind>>
  QuietScan,    \* local processes keep still while addStoragePath scans
  Unreadable,   \* a directory may be unreadable when it is watched or listed
  DbCalls       \* the calls of MtpDatabase that other threads make

\* The names a path is made of: those of objects and those of the mount points.
PathNames == Names \cup {"home", "media", "card"}

ASSUME DatabaseAssumption ==
  /\ MaxHandle \in Nat /\ UninitWatch \subseteq Int
  /\ InitialTree \in Seq(Seq(PathNames) \X {"dir", "file"})
  /\ QuietScan \in BOOLEAN /\ Unreadable \in BOOLEAN
  /\ DbCalls \subseteq {"storage", "send", "end", "delete", "move", "rename"}

VARIABLES
  db,           \* MtpObjectHandle -> DbEntry
  counter,
  local_server, \* whether a session's server is known
  task,         \* per thread: where it is inside add_file_entry & co., and,
                \* as a history, the paths whose scan it gave up
  issued,       \* history: handles that were given to an object
  ub,           \* history: undefined behaviour that took place
  alive         \* FALSE once an exception nobody catches ends the process

dbVars == <<db, counter, local_server, task, issued, ub, alive>>

Home == <<"home">>
Media == <<"media">>
Card == <<"media", "card">>
Roots == {Home, Card}

Threads == {"notifier", "daemon", "server"}

\* Sources of undefined behaviour: two threads between reading and
\* incrementing counter; a parent handle or a watch descriptor used without
\* having been assigned; a map iterator used after its element was erased.
UbKinds == {"counter", "parent", "watch_fd", "iterator"}

\* A call of add_file_entry ("entry"), of readFiles for a shown or a hidden
\* root ("root", "hidden"), or of beginSendObject ("send").
Call(kind, p, parent, storage, format, size) ==
  [kind |-> kind, path |-> p, parent |-> parent, storage |-> storage,
   format |-> format, size |-> size]
NoCall == Call("none", <<>>, 0, 0, UNDEFINED, 0)

\* "watched" is not a field of the code: it tells a watch_fd that was assigned
\* from one that was left uninitialised.
Entry(c, format, size, wd, watched) ==
  [storage_id |-> c.storage, object_format |-> format, parent |-> c.parent,
   object_size |-> size, path |-> c.path, watch_fd |-> wd,
   watched |-> watched]

HandlesAt(p) == {h \in DOMAIN db : db[h].path = p}

Idle(t) == task[t].pc = "idle"

\* Between the read of counter and the store of its successor.
InWindow(t) == task[t].pc \in {"alloc", "begun", "reserved"}
CounterRace(t) ==
  IF \E u \in Threads \ {t} : InWindow(u) THEN {"counter"} ELSE {}

-----------------------------------------------------------------------------
(* add_file_entry, parse_directory and readFiles on thread t.              *)

\* Where the thread goes when the current call returns.
Return(t) == IF task[t].todo = <<>> THEN "idle" ELSE "entry"

\* MtpObjectHandle handle = counter;
ReadCounter(t) ==
  /\ task[t].pc = "entry" /\ counter <= MaxHandle
  /\ task' = [task EXCEPT ![t].pc = "alloc", ![t].cur = Head(task[t].todo),
                          ![t].todo = Tail(task[t].todo),
                          ![t].handle = counter]
  /\ ub' = ub \cup CounterRace(t)
  /\ UNCHANGED <<db, counter, local_server, issued, alive, kernelVars>>

\* counter++ (from the register that still holds the handle, or from memory),
\* then the test for a directory.  A root that is no directory is dropped; a
\* missing removable root leaves only a watch on the directory above it.
StoreCounter(t) ==
  LET c == task[t].cur IN
  /\ task[t].pc = "alloc"
  /\ counter' \in IF c.kind = "entry" THEN {task[t].handle + 1, counter + 1}
                  ELSE {task[t].handle + 1}
  /\ task' = [task EXCEPT ![t].pc = IF IsDirectory(c.path) THEN "watch"
                                    ELSE IF c.kind = "entry" THEN "stat"
                                    ELSE Return(t)]
  /\ IF /\ c.kind # "entry" /\ c.path \notin DOMAIN fs
        /\ c.storage # MTP_STORAGE_FIXED_RAM
     THEN AddWatch(Front(c.path))
     ELSE UNCHANGED kernelVars
  /\ UNCHANGED <<db, local_server, issued, ub, alive>>

\* Mutation of WatchDirectory: a watch is taken to reach the directories below.
WatchDirectoryInherited(t) ==
  LET c == task[t].cur
      inherits == c.parent \in DOMAIN db
  IN
  /\ task[t].pc = "watch"
  /\ IF inherits THEN UNCHANGED kernelVars ELSE AddWatch(c.path)
  /\ task' = [task EXCEPT ![t].pc = "insert_dir",
                          ![t].tmp = IF inherits THEN db[c.parent].watch_fd
                                     ELSE WatchDescriptor(c.path)]
  /\ UNCHANGED <<db, counter, local_server, issued, ub, alive>>

\* entry.watch_fd = setup_dir_inotify(p);
WatchDirectory(t) ==
  /\ task[t].pc = "watch"
  /\ AddWatch(task[t].cur.path)
  /\ task' = [task EXCEPT ![t].pc = "insert_dir",
                          ![t].tmp = WatchDescriptor(task[t].cur.path)]
  /\ UNCHANGED <<db, counter, local_server, issued, ub, alive>>

\* The kernel refuses the watch: -1, which nobody looks at.
WatchRefused(t) ==
  /\ Unreadable /\ task[t].pc = "watch"
  /\ task' = [task EXCEPT ![t].pc = "insert_dir", ![t].tmp = -1]
  /\ UNCHANGED <<db, counter, local_server, issued, ub, alive, kernelVars>>

\* A filesystem_error: readFiles gives up what is left of its scan, and nobody
\* catches it on the notifier's thread.
GiveUp(t, left) ==
  /\ task' = [task EXCEPT ![t].pc = "idle", ![t].todo = <<>>,
                          ![t].skipped = @ \cup left]
  /\ alive' = (t # "notifier")

\* The paths t has still to add.
Left(t) == {task[t].todo[i].path : i \in DOMAIN task[t].todo}

\* last_write_time(p) and the insertion.  For a directory that has gone it
\* throws.
InsertDirectory(t) ==
  LET c == task[t].cur IN
  /\ task[t].pc = "insert_dir"
  /\ \/ /\ c.path \in DOMAIN fs
        /\ db' = Insert(db, task[t].handle,
                        Entry(c, ASSOCIATION, 0, task[t].tmp, TRUE))
        /\ issued' = issued \cup {task[t].handle}
        /\ task' = [task EXCEPT ![t].pc = "list"]
        /\ UNCHANGED alive
     \/ /\ c.path \notin DOMAIN fs
        /\ GiveUp(t, Left(t))
        /\ UNCHANGED <<db, issued>>
  /\ UNCHANGED <<counter, local_server, ub, kernelVars>>

\* Mutation of ListDirectory: what a root holds is not listed.
ListDirectoryShallow(t) ==
  /\ task[t].pc = "list"
  /\ task' = [task EXCEPT ![t].pc = "idle"]
  /\ UNCHANGED <<db, counter, local_server, issued, ub, alive, kernelVars>>

\* parse_directory copies the listing before it adds the first child.  When the
\* directory cannot be read it waits for half a second and tries again.
ListDirectory(t) ==
  LET c == task[t].cur
      parent == IF c.kind = "hidden" THEN 0 ELSE task[t].handle
      add(p) == Call("entry", p, parent, c.storage, UNDEFINED, 0)
  IN
  /\ task[t].pc = "list"
  /\ \E v \in SetToSeqs(Listing(c.path)) :
       LET rest == [i \in DOMAIN v |-> add(v[i])] \o task[t].todo
       IN  task' = [task EXCEPT ![t].todo = rest,
                                ![t].pc = IF rest = <<>> THEN "idle"
                                          ELSE "entry"]
  /\ UNCHANGED <<db, counter, local_server, issued, ub, alive, kernelVars>>

\* ... and the second refusal is thrown.
ListingRefused(t) ==
  /\ Unreadable /\ task[t].pc = "list"
  /\ GiveUp(t, Left(t) \cup Listing(task[t].cur.path))
  /\ UNCHANGED <<db, counter, local_server, issued, ub, kernelVars>>

\* file_size(p): an error is caught and the object is left out.
StatFile(t) ==
  LET p == task[t].cur.path IN
  /\ task[t].pc = "stat"
  /\ task' = IF IsFile(p)
             THEN [task EXCEPT ![t].pc = "insert_file",
                               ![t].cur.size = fs[p].size]
             ELSE [task EXCEPT ![t].pc = Return(t)]
  /\ UNCHANGED <<db, counter, local_server, issued, ub, alive, kernelVars>>

\* The insertion of a file; its watch_fd is never assigned.
InsertFile(t) ==
  LET c == task[t].cur IN
  /\ task[t].pc = "insert_file"
  /\ \E wd \in UninitWatch :
       db' = Insert(db, task[t].handle, Entry(c, UNDEFINED, c.size, wd, FALSE))
  /\ issued' = issued \cup {task[t].handle}
  /\ task' = [task EXCEPT ![t].pc = Return(t)]
  /\ UNCHANGED <<counter, local_server, ub, alive, kernelVars>>

AddEntryStep(t) ==
  \/ ReadCounter(t) \/ StoreCounter(t)
  \/ WatchDirectory(t) \/ WatchRefused(t) \/ InsertDirectory(t)
  \/ ListDirectory(t) \/ ListingRefused(t) \/ StatFile(t) \/ InsertFile(t)

\* addStoragePath on the daemon's thread.
AddStoragePath(p, storage, hidden) ==
  /\ Idle("daemon")
  /\ task' = [task EXCEPT
       !["daemon"].pc = "entry",
       !["daemon"].todo =
          <<Call(IF hidden THEN "hidden" ELSE "root", p,
                 IF hidden THEN MTP_PARENT_ROOT ELSE 0, storage, UNDEFINED, 0)>>]
  /\ UNCHANGED <<db, counter, local_server, issued, ub, alive, kernelVars>>

-----------------------------------------------------------------------------
(* deleteFile and removeStorage.                                           *)

\* Erasing the current element of a map that is being walked: the walk goes
\* on, or skips elements, or stops; the first victim is always erased.
Walked(m, K) ==
  IF K = {} THEN {m} ELSE {Erase(m, S) : S \in {T \in SUBSET K : Min(K) \in T}}
IteratorUb(K) == IF K = {} THEN {} ELSE {"iterator"}

Children(h) == {i \in DOMAIN db : db[i].parent = h}

\* std::map::erase returns the number of erased elements, 1, not the new size.
DeleteFileResponse(h) ==
  CASE h \in ReservedHandles -> "INVALID_OBJECT_HANDLE"
    [] h \notin DOMAIN db -> "GENERAL_ERROR"
    [] h \in DOMAIN db /\ Cardinality(DOMAIN db) > 1 -> "OK"
    [] OTHER -> "GENERAL_ERROR"

\* deleteFile(h), called after undefined behaviour u already took place.
DeleteFile(h, u) ==
  IF h \in DOMAIN db
  THEN LET dir == db[h].object_format = ASSOCIATION
           K == Children(h) \ {h}
       IN  /\ watch' = IF dir THEN WatchRemoved(db[h].watch_fd) ELSE watch
           /\ db' \in Walked(Erase(db, {h}), K)
           /\ ub' = ub \cup u \cup IteratorUb(K)
                       \cup (IF dir /\ ~db[h].watched THEN {"watch_fd"} ELSE {})
           /\ \/ UNCHANGED alive
              \/ K # {} /\ alive' = FALSE
  ELSE ub' = ub \cup u /\ UNCHANGED <<watch, db, alive>>

RemoveStorage(storage) ==
  LET K == {i \in DOMAIN db : db[i].storage_id = storage} IN
  /\ Idle("daemon")
  /\ db' \in Walked(db, K)
  /\ ub' = ub \cup IteratorUb(K)
  /\ \/ UNCHANGED alive
     \/ K # {} /\ alive' = FALSE
  /\ UNCHANGED <<counter, local_server, task, issued, kernelVars>>

-----------------------------------------------------------------------------
(* inotify_handler, one event at a time.                                   *)

\* The directory an event belongs to is the first entry with the event's
\* descriptor; without one, parent keeps whatever was on the stack.
Owners(wd) == {h \in DOMAIN db : db[h].watch_fd = wd}
EventParents(wd) ==
  IF Owners(wd) # {} THEN {Min(Owners(wd))} ELSE DOMAIN db \cup {0}
EventUb(wd) ==
  IF Owners(wd) = {} THEN {"parent"}
  ELSE IF db[Min(Owners(wd))].watched THEN {} ELSE {"watch_fd"}

\* Mutation of OnCreate: files the database already has are not ignored.
OnCreateAgain(parent, p) ==
  /\ task' = [task EXCEPT
       !["notifier"].pc = "entry",
       !["notifier"].todo = <<Call("entry", p, parent, db[parent].storage_id,
                                   UNDEFINED, 0)>>]
  /\ UNCHANGED <<db, watch, alive>>

\* "ignore files we already have": only an unknown path is added.
OnCreate(parent, p) ==
  /\ task' = IF HandlesAt(p) # {} THEN task
             ELSE [task EXCEPT
               !["notifier"].pc = "entry",
               !["notifier"].todo =
                  <<Call("entry", p,
                         IF db[parent].parent = MTP_PARENT_ROOT THEN 0
                         ELSE parent, db[parent].storage_id, UNDEFINED, 0)>>]
  /\ UNCHANGED <<db, watch, alive>>

\* Mutation of OnModify: the size is taken before the bytes are counted.
OnModifyEarly(p) ==
  /\ db' = [h \in DOMAIN db |->
              IF db[h].path = p THEN [db[h] EXCEPT !.object_size = 0] ELSE db[h]]
  /\ UNCHANGED <<task, watch, alive>>

OnModify(p) ==
  /\ db' = [h \in DOMAIN db |->
              IF db[h].path = p /\ IsFile(p)
              THEN [db[h] EXCEPT !.object_size = fs[p].size] ELSE db[h]]
  /\ UNCHANGED <<task, watch, alive>>

OnDelete(p, u) ==
  /\ IF HandlesAt(p) # {} THEN DeleteFile(Min(HandlesAt(p)), u)
     ELSE ub' = ub \cup u /\ UNCHANGED <<db, watch, alive>>
  /\ UNCHANGED task

InotifyHandler ==
  LET e == Head(queue)
      u == EventUb(e.wd)
  IN
  /\ Idle("notifier") /\ queue # <<>>
  /\ queue' = Tail(queue)
  /\ \E parent \in EventParents(e.wd) :
       LET p == Append(db[parent].path, e.name) IN
       \/ /\ parent \notin DOMAIN db
          /\ ub' = ub \cup u
          /\ UNCHANGED <<db, task, watch, alive>>
       \/ /\ parent \in DOMAIN db /\ e.mask = "IN_CREATE"
          /\ ub' = ub \cup u
          /\ OnCreate(parent, p)
       \/ /\ parent \in DOMAIN db /\ e.mask = "IN_MODIFY"
          /\ ub' = ub \cup u
          /\ OnModify(p)
       \/ /\ parent \in DOMAIN db /\ e.mask = "IN_DELETE"
          /\ OnDelete(p, u)
  /\ UNCHANGED <<counter, local_server, issued, fs, nextIno, nextWd>>

-----------------------------------------------------------------------------
(* The calls of the server's thread.                                       *)

\* beginSendObject: the handle is read first, the entry inserted under it, and
\* counter incremented last.
BeginSendObject(p, format, parent, storage, size) ==
  /\ Idle("server") /\ counter <= MaxHandle
  /\ ~(storage = MTP_STORAGE_FIXED_RAM /\ parent = 0)
  /\ task' = [task EXCEPT
       !["server"].pc = "begun", !["server"].handle = counter,
       !["server"].cur = Call("send", p, parent, storage, format, size)]
  /\ ub' = ub \cup CounterRace("server")
  /\ UNCHANGED <<db, counter, local_server, issued, alive, kernelVars>>

\* Mutation of ReserveEntry: the entry goes under the invalid handle.
ReserveEntryInvalid ==
  LET t == task["server"] IN
  /\ t.pc = "begun"
  /\ db' = Insert(db, kInvalidObjectHandle,
                  Entry(t.cur, t.cur.format, t.cur.size, 0, FALSE))
  /\ issued' = issued \cup {t.handle}
  /\ task' = [task EXCEPT !["server"].pc = "reserved",
                          !["server"].tmp = counter]
  /\ UNCHANGED <<counter, local_server, ub, alive, kernelVars>>

ReserveEntry ==
  LET t == task["server"] IN
  /\ t.pc = "begun"
  /\ \E wd \in UninitWatch :
       db' = Insert(db, t.handle,
                    Entry(t.cur, t.cur.format, t.cur.size, wd, FALSE))
  /\ issued' = issued \cup {t.handle}
  /\ task' = [task EXCEPT !["server"].pc = "reserved",
                          !["server"].tmp = counter]
  /\ UNCHANGED <<counter, local_server, ub, alive, kernelVars>>

\* Mutation of FinishBeginSend: counter++ is left out.
FinishBeginSendUncounted ==
  /\ task["server"].pc = "reserved"
  /\ task' = [task EXCEPT !["server"].pc = "idle"]
  /\ UNCHANGED <<db, counter, local_server, issued, ub, alive, kernelVars>>

FinishBeginSend ==
  /\ task["server"].pc = "reserved"
  /\ counter' = task["server"].tmp + 1
  /\ task' = [task EXCEPT !["server"].pc = "idle"]
  /\ UNCHANGED <<db, local_server, issued, ub, alive, kernelVars>>

\* endSendObject: failure erases the entry; success takes the file's size,
\* and every exception on the way is swallowed.
EndSendObject(p, h, format, succeeded) ==
  db' = IF ~succeeded THEN Erase(db, {h})
        ELSE IF format # ASSOCIATION /\ h \in DOMAIN db /\ IsFile(p)
        THEN [db EXCEPT ![h].object_size = fs[p].size]
        ELSE db

\* Mutation of MoveFile: the entry is taken out and not put back.
MoveFileDropped(h, newparent) == db' = Erase(db, {h})

\* moveFile changes the parent and nothing else.
MoveFile(h, newparent) ==
  db' = IF h \in DOMAIN db THEN [db EXCEPT ![h].parent = newparent] ELSE db

\* The second half of setObjectPropertyValue(OBJECT_FILE_NAME), after the
\* rename on disk: the entry may have gone meanwhile.
SetPath(h, p) ==
  db' = IF h \in DOMAIN db THEN [db EXCEPT ![h].path = p] ELSE db

\* getObjectFilePath.
FilePathResponse(h) ==
  CASE h \in ReservedHandles -> "INVALID_OBJECT_HANDLE"
    [] h \notin ReservedHandles /\ h \in DOMAIN db -> "OK"
    [] OTHER -> "GENERAL_ERROR"

\* The pointer getThumbnail returns is never assigned.
Thumbnail == {"null", "garbage"}

\* getObjectList: MTP_PARENT_ROOT stands for parent 0, ANY (0) for all formats.
ObjectList(storage, format, parent) ==
  {h \in DOMAIN db :
     /\ db[h].storage_id = storage
     /\ db[h].parent = (IF parent = MTP_PARENT_ROOT THEN 0 ELSE parent)
     /\ format # "ANY" => db[h].object_format = format}

-----------------------------------------------------------------------------
(* The database on its own, under the most general client: the server's    *)
(* thread makes any call with any argument, whatever is on disk.           *)

InitialFs ==
  [p \in {InitialTree[i][1] : i \in DOMAIN InitialTree} |->
     LET i == CHOOSE j \in DOMAIN InitialTree : InitialTree[j][1] = p
     IN  [kind |-> InitialTree[i][2], size |-> 0, ino |-> i]]

FsInit ==
  /\ fs = InitialFs
  /\ watch = EmptyMap /\ queue = <<>>
  /\ nextIno = Len(InitialTree) + 1 /\ nextWd = 1
  /\ locals = 0

IdleTask == [pc |-> "idle", todo |-> <<>>, cur |-> NoCall, handle |-> 0,
             tmp |-> 0, skipped |-> {}]

\* initStorage has just called addStoragePath for the home directory.
DbInit ==
  /\ db = EmptyMap /\ counter = 1
  /\ local_server = FALSE
  /\ task = [t \in Threads |->
       IF t # "daemon" THEN IdleTask
       ELSE [IdleTask EXCEPT
               !.pc = "entry",
               !.todo = <<Call("root", Home, 0, MTP_STORAGE_FIXED_RAM,
                               UNDEFINED, 0)>>]]
  /\ issued = {} /\ ub = {} /\ alive = TRUE

DatabaseInit == FsInit /\ DbInit

\* Calls of the server's thread that are one step on the database.
ServerCall ==
  /\ Idle("server")
  /\ UNCHANGED <<counter, local_server, task, issued>>
  /\ \/ /\ "end" \in DbCalls
        /\ \E h \in DOMAIN db, ok \in BOOLEAN :
             EndSendObject(db[h].path, h, db[h].object_format, ok)
        /\ UNCHANGED <<ub, alive, kernelVars>>
     \/ /\ "delete" \in DbCalls
        /\ \E h \in DOMAIN db : DeleteFile(h, {})
        /\ UNCHANGED <<fs, queue, nextIno, nextWd>>
     \/ /\ "move" \in DbCalls
        /\ \E h \in DOMAIN db, q \in DOMAIN db \cup {0} : MoveFile(h, q)
        /\ UNCHANGED <<ub, alive, kernelVars>>
     \/ /\ "rename" \in DbCalls
        /\ \E h \in DOMAIN db, n \in Names :
             SetPath(h, Append(Front(db[h].path), n))
        /\ UNCHANGED <<ub, alive, kernelVars>>

ServerSend ==
  \/ /\ "send" \in DbCalls
     /\ \E h \in DOMAIN db, n \in Names, format \in Formats :
          /\ db[h].object_format = ASSOCIATION
          /\ Len(db[h].path) < MaxDepth
          /\ BeginSendObject(Append(db[h].path, n), format, h,
                             db[h].storage_id, MaxSize)
  \/ ReserveEntry
  \/ FinishBeginSend

StorageCall ==
  /\ "storage" \in DbCalls
  /\ \/ AddStoragePath(Card, MTP_STORAGE_REMOVABLE_RAM, TRUE)
     \/ RemoveStorage(MTP_STORAGE_REMOVABLE_RAM)

Local ==
  /\ QuietScan => Idle("daemon")
  /\ LocalStep(Roots)
  /\ UNCHANGED dbVars

DbStep ==
  \/ \E t \in {"notifier", "daemon"} : AddEntryStep(t)
  \/ InotifyHandler
  \/ ServerCall \/ ServerSend \/ StorageCall

DatabaseNext == alive /\ ((DbStep /\ UNCHANGED locals) \/ Local)

databaseVars == <<fsVars, dbVars>>

DatabaseSpec == DatabaseInit /\ [][DatabaseNext]_databaseVars

-----------------------------------------------------------------------------
(* Properties.                                                             *)

DbEntry ==
  [storage_id : Int, object_format : Formats, parent : Int,
   object_size : Int, path : Seq(PathNames),
   watch_fd : Int, watched : BOOLEAN]

\* The database is a map from handles to entries, and each thread is at a
\* known place of the call it makes.
DatabaseTypeOK ==
  /\ DOMAIN db \subseteq Nat /\ \A h \in DOMAIN db : db[h] \in DbEntry
  /\ counter \in Nat
  /\ local_server \in BOOLEAN /\ alive \in BOOLEAN
  /\ issued \subseteq Nat /\ ub \subseteq UbKinds
  /\ \A t \in Threads :
       /\ task[t].pc \in {"idle", "entry", "alloc", "watch", "insert_dir",
                          "list", "stat", "insert_file", "begun", "reserved"}
       /\ task[t].handle \in Nat /\ task[t].tmp \in Int

\* A thread that has its handle and has not yet inserted under it.
Inserting(t) ==
  task[t].pc \in {"watch", "insert_dir", "stat", "insert_file", "alloc", "begun"}

\* "object handles cannot be reused after an object is deleted" and are unique
\* (include/MtpTypes.h): no thread is about to insert an object under a handle
\* that was given to another object before, or that another thread is about to
\* use too.
HandlesFresh ==
  \A t \in Threads : Inserting(t) =>
    /\ task[t].handle \notin issued
    /\ \A u \in Threads \ {t} : Inserting(u) => task[u].handle # task[t].handle

\* Handles are fresh as long as no two threads were ever between the read and
\* the increment of counter at the same time.
HandlesFreshUnlessRaced == "counter" \notin ub => HandlesFresh

\* Nothing left to do: every event was read and every call has returned.
Quiescent ==
  /\ alive /\ queue = <<>>
  /\ \A t \in Threads : Idle(t)

\* What the parent of an object directly below directory entry d must be.
ParentHandle(d) == IF db[d].parent = MTP_PARENT_ROOT THEN 0 ELSE d

\* The kernel watches every directory above p: it refused none of them.
Followed(p) ==
  \A d \in DOMAIN db :
    db[d].watched /\ IsStrictPrefix(db[d].path, p) => db[d].watch_fd # -1

\* The paths whose scan was given up.
Skipped == UNION {task[t].skipped : t \in Threads}

\* p is listed, as what it is, under the handle of its directory.
IsListed(p) ==
  \A d \in DOMAIN db :
    (Len(p) > 1 /\ db[d].path = Front(p) /\ db[d].watched) =>
      \E h \in ObjectList(db[d].storage_id, "ANY", ParentHandle(d)) :
        /\ db[h].path = p
        /\ (db[h].object_format = ASSOCIATION) = (fs[p].kind = "dir")

\* An object that local processes put into a directory is listed: no creation is
\* lost between the watch, the scan and the events.  Only the paths whose scan
\* was given up and those below a directory whose watch was refused are not
\* promised this.
FilesListed ==
  Quiescent /\ ub = {} =>
    \A p \in DOMAIN fs \ Skipped : Followed(p) => IsListed(p)

\* The same of the paths whose scan was given up.
SkippedListed ==
  Quiescent /\ ub = {} => \A p \in DOMAIN fs : Followed(p) => IsListed(p)

\* The same below the directories whose watch was refused.
UnfollowedListed ==
  Quiescent /\ ub = {} => \A p \in DOMAIN fs \ Skipped : IsListed(p)

\* Every object the host can list exists on disk and is what its format says,
\* wherever the kernel reports what happens.
EntriesBacked ==
  Quiescent /\ ub = {} =>
    \A h \in DOMAIN db : Followed(db[h].path) =>
      /\ db[h].path \in DOMAIN fs
      /\ (db[h].object_format = ASSOCIATION) = (fs[db[h].path].kind = "dir")

\* Both directions: once the notifier has caught up, the database lists what
\* the tree holds.
EntriesTrue == FilesListed /\ EntriesBacked

\* The size the host is told is the size of the file, wherever the kernel
\* reports what happens.
SizesFresh ==
  Quiescent /\ ub = {} =>
    \A h \in DOMAIN db :
      IsFile(db[h].path) /\ Followed(db[h].path) =>
        db[h].object_size = fs[db[h].path].size

\* An event is charged to the directory it was reported for.
EventsOwned == ub \cap {"parent", "watch_fd"} = {}

\* "ignore files we already have": a path is listed under one handle only.
OneHandlePerPath ==
  ub = {} => \A g, h \in DOMAIN db : db[g].path = db[h].path => g = h

=============================================================================
